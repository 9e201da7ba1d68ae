------------------------ MODULE DiscoveryScanner_proofs ------------------------
(***************************************************************************)
(* Proofs about the Discovery Scanner's two state machines: BoundaryStartup, *)
(* for any number of errors of the worker, and ScanRun, for any list of      *)
(* inputs.                                                                   *)
(***************************************************************************)
EXTENDS BoundaryStartup, ScanRun, FiniteSetTheorems, TLAPS

-----------------------------------------------------------------------------
(* BoundaryStartup: a failure that was heard is final, and the Start button  *)
(* means a channel.                                                          *)

(* The type invariant in parts: flags, what is told apart by name, counters. *)
StartupFlags ==
    /\ readySent \in BOOLEAN /\ workerReady \in BOOLEAN /\ readyTimer \in BOOLEAN
    /\ errorShown \in BOOLEAN /\ attachTimer \in BOOLEAN /\ heardFatal \in BOOLEAN
    /\ installed \in BOOLEAN
StartupKinds ==
    /\ worker \in {"starting", "attached", "broken"}
    /\ frame \in {"loading", "listening", "loaded"}
    /\ client \in {"none", "open", "closed"} /\ api \in {"pending", "resolved", "rejected"}
    /\ ping \in {"none", "waiting", "answered", "failed"}
    /\ startup \in {"pending", "passed", "failed"}
StartupCounts == errors \in 0 .. MaxErrors + 1 /\ raised \in 0 .. MaxErrors
StartupRest == toVault \in Seq({"fatal", "channel"}) /\ (installed <=> client # "none")

(* An error event is one the worker raised, or the one of its script.       *)
ErrorsCounted ==
    /\ raised + 1 >= errors
    /\ worker # "broken" => raised >= errors

Channels == {k \in 1 .. Len(toVault) : toVault[k] = "channel"}

(* The channel is delivered once, after the frame loaded, and is then either *)
(* on its way or installed.                                                  *)
ChannelOnce ==
    /\ frame # "loaded" => Channels = {} /\ ~installed
    /\ installed => Channels = {}
    /\ \A j, k \in Channels : j = k

(* The vault has its promise resolved, and pings, over the channel only.     *)
OverTheChannel ==
    /\ api = "resolved" => installed
    /\ ping # "none" => installed
    /\ ping = "answered" => worker = "attached"

StartupInv ==
    /\ StartupTypeOK /\ ErrorsCounted /\ ChannelOnce /\ OverTheChannel
    /\ HeardFatalIsFinal /\ StartMeansConnected

USE StartupAssumption DEF StartupAssumption

LEMMA StartupTypeParts == StartupTypeOK <=> StartupFlags /\ StartupKinds /\ StartupCounts /\ StartupRest
  BY DEF StartupTypeOK, StartupFlags, StartupKinds, StartupCounts, StartupRest

LEMMA StartupTypePartsNext == StartupTypeOK' <=> StartupFlags' /\ StartupKinds' /\ StartupCounts' /\ StartupRest'
  BY DEF StartupTypeOK, StartupFlags, StartupKinds, StartupCounts, StartupRest

LEMMA StartupInitInv == StartupInit => StartupInv
  <1> SUFFICES ASSUME StartupInit PROVE StartupInv
    OBVIOUS
  <1>1. toVault \in Seq({"fatal", "channel"}) /\ Len(toVault) = 0
    BY DEF StartupInit
  <1>2. Channels = {}
    BY <1>1 DEF Channels
  <1>3. StartupTypeOK
    <2>1. StartupFlags
      BY Zenon DEF StartupInit, StartupFlags
    <2>2. StartupKinds /\ StartupCounts
      BY DEF StartupInit, StartupKinds, StartupCounts
    <2>3. StartupRest
      BY <1>1 DEF StartupInit, StartupRest
    <2> QED
      BY <2>1, <2>2, <2>3, StartupTypeParts
  <1> QED
    BY <1>2, <1>3
    DEF StartupInit, StartupInv, ErrorsCounted, ChannelOnce, OverTheChannel, HeardFatalIsFinal,
        StartMeansConnected

(* What the shell posts is heard after what it posted before.                *)
LEMMA Posted ==
    ASSUME toVault \in Seq({"fatal", "channel"}), NEW m \in {"fatal", "channel"},
           toVault' = Append(toVault, m)
    PROVE  /\ toVault' \in Seq({"fatal", "channel"})
           /\ Channels' = IF m = "channel" THEN Channels \cup {Len(toVault) + 1} ELSE Channels
  <1>1. Len(toVault') = Len(toVault) + 1 /\ Len(toVault) \in Nat
    OBVIOUS
  <1>2. \A k \in 1 .. Len(toVault) : toVault'[k] = toVault[k]
    OBVIOUS
  <1>3. toVault'[Len(toVault) + 1] = m
    OBVIOUS
  <1> QED
    BY <1>1, <1>2, <1>3 DEF Channels

(* What the vault takes is the oldest of them.                               *)
LEMMA Taken ==
    ASSUME toVault \in Seq({"fatal", "channel"}), toVault # <<>>, toVault' = Tail(toVault)
    PROVE  /\ toVault' \in Seq({"fatal", "channel"})
           /\ \A k \in Channels' : k + 1 \in Channels /\ k \in Nat \ {0}
           /\ Head(toVault) = "channel" => 1 \in Channels
  <1>1. Len(toVault) \in Nat \ {0} /\ Len(toVault') = Len(toVault) - 1
    OBVIOUS
  <1>2. \A k \in 1 .. Len(toVault') : toVault'[k] = toVault[k + 1]
    OBVIOUS
  <1>3. Head(toVault) = toVault[1]
    OBVIOUS
  <1> QED
    BY <1>1, <1>2, <1>3 DEF Channels

(* The worker's steps and the timers that post nothing.                      *)
LEMMA QuietStepInv ==
    ASSUME StartupInv, WorkerStep \/ ShellHearsReady \/ InstallListener \/ AttachTimeout
    PROVE  StartupInv'
  <1> USE DEF StartupInv, WorkerStep, WorkerAttaches, WorkerBreaks, WorkerErrs, ShellHearsReady,
              InstallListener, AttachTimeout, SettleApi, workerVars, shellVars, attachVars
  <1>1. StartupTypeOK'
    <2>1. CASE WorkerAttaches
      BY <2>1 DEF StartupTypeOK
    <2>2. CASE WorkerBreaks
      BY <2>2 DEF StartupTypeOK, ErrorsCounted
    <2>3. CASE WorkerErrs
      BY <2>3 DEF StartupTypeOK, ErrorsCounted
    <2>4. CASE ShellHearsReady
      <3>1. StartupFlags'
        BY <2>4, Zenon DEF StartupTypeOK, StartupFlags
      <3>2. StartupKinds' /\ StartupCounts'
        BY <2>4 DEF StartupTypeOK, StartupKinds, StartupCounts
      <3>3. StartupRest'
        BY <2>4 DEF StartupTypeOK, StartupRest
      <3> QED
        BY <3>1, <3>2, <3>3, StartupTypePartsNext
    <2>5. CASE InstallListener
      BY <2>5 DEF StartupTypeOK
    <2>6. CASE AttachTimeout
      <3>1. StartupFlags'
        BY <2>6, Zenon DEF StartupTypeOK, StartupFlags
      <3>2. StartupKinds' /\ StartupCounts'
        BY <2>6 DEF StartupTypeOK, StartupKinds, StartupCounts
      <3>3. StartupRest'
        BY <2>6 DEF StartupTypeOK, StartupRest
      <3> QED
        BY <3>1, <3>2, <3>3, StartupTypePartsNext
    <2> QED
      BY <2>1, <2>2, <2>3, <2>4, <2>5, <2>6
  <1>2. ErrorsCounted'
    BY DEF StartupTypeOK, ErrorsCounted
  <1>3. ChannelOnce'
    BY DEF ChannelOnce, Channels
  <1> QED
    BY <1>1, <1>2, <1>3 DEF OverTheChannel, HeardFatalIsFinal, StartMeansConnected

(* The shell reports a failure, if anybody is there to hear it.              *)
LEMMA FatalInv == ASSUME StartupInv, ShellHearsError \/ ReadyTimeout PROVE StartupInv'
  <1> USE DEF StartupInv, ShellHearsError, ReadyTimeout, Fatal, workerVars, shellVars, attachVars
  <1>1. toVault' \in Seq({"fatal", "channel"}) /\ Channels' = Channels
    <2>1. CASE toVault' = toVault
      BY <2>1 DEF StartupTypeOK, Channels
    <2>2. CASE toVault' = Append(toVault, "fatal")
      BY <2>2, Posted DEF StartupTypeOK
    <2> QED
      BY <2>1, <2>2
  <1>2. StartupTypeOK' /\ ErrorsCounted'
    <2>1. CASE ShellHearsError
      BY <1>1, <2>1 DEF StartupTypeOK, ErrorsCounted
    <2>2. CASE ReadyTimeout
      <3>1. StartupFlags'
        BY <2>2, Zenon DEF StartupTypeOK, StartupFlags
      <3>2. StartupKinds' /\ StartupCounts' /\ ErrorsCounted'
        BY <2>2 DEF StartupTypeOK, StartupKinds, StartupCounts, ErrorsCounted
      <3>3. StartupRest'
        BY <1>1, <2>2 DEF StartupTypeOK, StartupRest
      <3> QED
        BY <3>1, <3>2, <3>3, StartupTypePartsNext
    <2> QED
      BY <2>1, <2>2
  <1>3. ChannelOnce'
    BY <1>1 DEF ChannelOnce
  <1> QED
    BY <1>2, <1>3 DEF OverTheChannel, HeardFatalIsFinal, StartMeansConnected

LEMMA DeliverInv == ASSUME StartupInv, Deliver PROVE StartupInv'
  <1> USE DEF StartupInv, Deliver, workerVars, shellVars, attachVars
  <1>1. toVault' \in Seq({"fatal", "channel"}) /\ Channels' = Channels \cup {Len(toVault) + 1}
    BY Posted DEF StartupTypeOK
  <1>2. StartupTypeOK' /\ ErrorsCounted'
    BY <1>1 DEF StartupTypeOK, ErrorsCounted
  <1>3. ChannelOnce'
    BY <1>1 DEF ChannelOnce
  <1> QED
    BY <1>2, <1>3 DEF OverTheChannel, HeardFatalIsFinal, StartMeansConnected

(* The vault takes the channel, which no later message brings again.         *)
LEMMA ReceiveChannelInv == ASSUME StartupInv, ReceiveChannel PROVE StartupInv'
  <1> USE DEF StartupInv, ReceiveChannel, SettleApi, workerVars, shellVars
  <1>1. toVault' \in Seq({"fatal", "channel"}) /\ 1 \in Channels
        /\ \A k \in Channels' : k + 1 \in Channels /\ k \in Nat \ {0}
    BY Taken DEF StartupTypeOK
  <1>2. Channels' = {}
    BY <1>1 DEF ChannelOnce
  <1>3. ~installed /\ client = "none" /\ frame = "loaded"
    BY <1>1 DEF ChannelOnce, StartupTypeOK
  <1>4. StartupTypeOK' /\ ErrorsCounted' /\ ChannelOnce'
    BY <1>1, <1>2, <1>3 DEF StartupTypeOK, ErrorsCounted, ChannelOnce
  <1>5. HeardFatalIsFinal'
    BY <1>3 DEF HeardFatalIsFinal
  <1> QED
    BY <1>4, <1>5 DEF OverTheChannel, StartMeansConnected

LEMMA ReceiveFatalInv == ASSUME StartupInv, ReceiveFatal PROVE StartupInv'
  <1> USE DEF StartupInv, ReceiveFatal, SettleApi, workerVars, shellVars
  <1>1. toVault' \in Seq({"fatal", "channel"})
        /\ \A k \in Channels' : k + 1 \in Channels /\ k \in Nat \ {0}
    BY Taken DEF StartupTypeOK
  <1>2. StartupTypeOK' /\ ErrorsCounted'
    BY <1>1 DEF StartupTypeOK, ErrorsCounted
  <1>3. ChannelOnce'
    BY <1>1 DEF ChannelOnce
  <1>4. HeardFatalIsFinal'
    BY DEF HeardFatalIsFinal, OverTheChannel, StartupTypeOK
  <1> QED
    BY <1>2, <1>3, <1>4 DEF OverTheChannel, StartMeansConnected

(* initializeRuntime. *)
LEMMA RuntimeInv ==
    ASSUME StartupInv, SendPing \/ PingAnswered \/ RuntimeReady \/ RuntimeFails \/ SelfTestFails
    PROVE  StartupInv'
  <1> USE DEF StartupInv, SendPing, PingAnswered, RuntimeReady, RuntimeFails, SelfTestFails,
              workerVars, shellVars, attachVars
  <1>1. StartupTypeOK' /\ ErrorsCounted'
    BY DEF StartupTypeOK, ErrorsCounted
  <1>2. ChannelOnce'
    BY DEF ChannelOnce, Channels
  <1> QED
    BY <1>1, <1>2 DEF OverTheChannel, HeardFatalIsFinal, StartMeansConnected

LEMMA StartupNextInv == StartupInv /\ [StartupNext]_startupVars => StartupInv'
  <1> SUFFICES ASSUME StartupInv, [StartupNext]_startupVars PROVE StartupInv'
    OBVIOUS
  <1>1. CASE UNCHANGED startupVars
    BY <1>1 DEF startupVars, workerVars, shellVars, attachVars, StartupInv, StartupTypeOK, ErrorsCounted,
                ChannelOnce, Channels, OverTheChannel, HeardFatalIsFinal, StartMeansConnected
  <1>2. CASE StartupNext
    BY <1>2, QuietStepInv, FatalInv, DeliverInv, ReceiveChannelInv, ReceiveFatalInv, RuntimeInv
    DEF StartupNext, ShellStep, VaultStep
  <1> QED
    BY <1>1, <1>2

THEOREM StartupInvariant == StartupSpec => []StartupInv
  BY StartupInitInv, StartupNextInv, PTL DEF StartupSpec

(* Every variable keeps its type; a client exists exactly when the channel   *)
(* was installed.                                                            *)
THEOREM StartupTypes == StartupSpec => []StartupTypeOK
  BY StartupInvariant, PTL DEF StartupInv

(* A failure the vault was told of leaves it without a network for good, in  *)
(* whatever order the failure, the channel and the worker's answers come.    *)
THEOREM StartupFatalIsFinal == StartupSpec => []HeardFatalIsFinal
  BY StartupInvariant, PTL DEF StartupInv

(* The Start button opens only over a channel on which the worker answered.  *)
THEOREM StartupMeansConnected == StartupSpec => []StartMeansConnected
  BY StartupInvariant, PTL DEF StartupInv

HIDE StartupAssumption DEF StartupAssumption

-----------------------------------------------------------------------------
(* ScanRun: a run that is over is quiet, its files are the reports that were *)
(* checked, what it says of itself is true, and nothing begins once it stops. *)

(* The type invariant in parts: flags, what is told apart by name, the state *)
(* of each input, sets and counters.                                         *)
Flags ==
    /\ running \in BOOLEAN /\ aborted \in BOOLEAN /\ failures \in BOOLEAN
    /\ scanCompleted \in BOOLEAN /\ userCancelled \in BOOLEAN /\ hidden \in BOOLEAN
Kinds ==
    /\ mode \in {"seed", "watch", "candidate"}
    /\ phase \in {"idle", "attaching", "tasks"}
    /\ failure \in {"none", "abort", "error"}
    /\ verdict \in {"none", "complete", "incomplete", "finished", "cancelled", "error"}
Stages == {"queued", "scanning", "history", "done", "failed", "skipped"}
Rows == {"queued", "running", "complete", "failed"}
Reports == {"none", "whole", "incomplete", "refused"}
PerInput ==
    /\ stage \in [Inputs -> Stages] /\ row \in [Inputs -> Rows]
    /\ report \in [Inputs -> Reports]
Sets ==
    /\ held \subseteq Inputs /\ guard \subseteq Inputs
    /\ files \subseteq Inputs /\ checkedFor \subseteq Inputs
Counts == runGeneration \in 0 .. MaxRuns /\ nextIndex \in 1 .. N + 1

(* A run has nothing to show of another one, and begins with the first input. *)
Lifecycle ==
    /\ running <=> phase # "idle"
    /\ phase = "attaching" => /\ nextIndex = 1 /\ failure = "none"
                              /\ \A i \in Inputs : stage[i] = "queued"
    /\ running => files = {} /\ verdict = "none" /\ ~scanCompleted

(* The inputs are taken in their order, and while any is left and no task    *)
(* failed there is a worker that will take it.                               *)
Turns ==
    /\ running => \A i \in Inputs : stage[i] = "queued" <=> i >= nextIndex
    /\ phase = "tasks" /\ failure = "none" /\ nextIndex <= N => Active # {}

(* What a task left behind, and what it cannot have left when no run was     *)
(* aborted.                                                                  *)
Reported == \A i \in Inputs : report[i] # "none" <=> stage[i] = "done"
RowsEnded ==
    running => \A i \in Inputs :
        /\ stage[i] \in {"done", "failed"} => row[i] \in {"complete", "failed"}
        /\ report[i] = "refused" => mode = "candidate"
Undisturbed ==
    running /\ ~aborted => \A i \in Inputs :
        /\ report[i] = "whole" => row[i] = "complete"
        /\ stage[i] # "skipped"
        /\ stage[i] = "failed" => failures /\ mode = "watch"
        /\ report[i] = "incomplete" /\ mode = "watch" => failures

(* Who stopped a run.                                                        *)
Causes ==
    running =>
        /\ aborted /\ failure = "none" => userCancelled
        /\ failure = "abort" => userCancelled
        /\ mode = "candidate" => failure # "error"
        /\ mode = "candidate" /\ phase = "tasks" /\ aborted /\ failure = "none" => Active # {}

(* The guard knows the secrets of every input that was begun.                *)
Known ==
    running => hidden \/ \A i \in Inputs :
        stage[i] \in {"scanning", "history"} \/ report[i] \in {"whole", "incomplete"}
            => i \in guard

(* How much a run has at work, and what is left of it when it is over.       *)
Bounded ==
    IF mode = "candidate" THEN \A i, j \in Active : j \in Coinmates(i)
    ELSE Cardinality(Active) <= Concurrency

Quiet ==
    ~running => /\ Active = {} /\ held = {} /\ guard = {}
                /\ verdict # "none" => \A i \in Inputs : row[i] \in {"complete", "failed"}

IInv ==
    /\ TypeOK /\ Lifecycle /\ Turns
    /\ Reported /\ RowsEnded /\ Undisturbed
    /\ Causes /\ Known /\ Bounded /\ Quiet
    /\ FilesAreTheCheckedReports /\ VerdictIsTrue

USE RunAssumption DEF RunAssumption, Inputs

LEMMA TypeParts == TypeOK <=> Flags /\ Kinds /\ PerInput /\ Sets /\ Counts
  BY DEF TypeOK, Flags, Kinds, PerInput, Sets, Counts, Stages, Rows, Reports

LEMMA TypePartsNext == TypeOK' <=> Flags' /\ Kinds' /\ PerInput' /\ Sets' /\ Counts'
  BY DEF TypeOK, Flags, Kinds, PerInput, Sets, Counts, Stages, Rows, Reports

----------------------------------------------------------------------------
(* Sets of inputs.                                                           *)

LEMMA InputSets ==
    ASSUME NEW S \in SUBSET Inputs
    PROVE  IsFiniteSet(S) /\ Cardinality(S) \in Nat
  <1>1. IsFiniteSet(1 .. N)
    BY FS_Interval
  <1> QED
    BY <1>1, FS_Subset, FS_CardinalityType

LEMMA IntervalCount ==
    ASSUME NEW a \in Nat, NEW b \in Nat, a <= b
    PROVE  Cardinality(a .. b - 1) = b - a
  <1> DEFINE c == b - 1
  <1>1. c \in Int /\ a \in Int
    OBVIOUS
  <1> HIDE DEF c
  <1>2. Cardinality(a .. c) = IF a > c THEN 0 ELSE c - a + 1
    BY <1>1, FS_Interval
  <1> QED
    BY <1>2 DEF c

(* One more than there were is no more than one who left and one who came.   *)
LEMMA OneForOne ==
    ASSUME NEW S \in SUBSET Inputs, NEW T \in SUBSET Inputs, NEW i \in S, NEW n,
           T \subseteq (S \ {i}) \cup {n}
    PROVE  Cardinality(T) <= Cardinality(S)
  <1>1. IsFiniteSet(S) /\ Cardinality(S) \in Nat
    BY InputSets
  <1>2. IsFiniteSet(S \ {i}) /\ Cardinality(S \ {i}) = Cardinality(S) - 1
    BY <1>1, FS_RemoveElement
  <1>3. /\ IsFiniteSet((S \ {i}) \cup {n})
        /\ Cardinality((S \ {i}) \cup {n}) <= Cardinality(S)
    <2>1. CASE n \in S \ {i}
      <3>1. (S \ {i}) \cup {n} = S \ {i}
        BY <2>1
      <3> QED
        BY <1>1, <1>2, <3>1
    <2>2. CASE n \notin S \ {i}
      <3>1. /\ IsFiniteSet((S \ {i}) \cup {n})
            /\ Cardinality((S \ {i}) \cup {n}) = Cardinality(S \ {i}) + 1
        BY <1>2, <2>2, FS_AddElement
      <3> QED
        BY <1>1, <1>2, <3>1
    <2> QED
      BY <2>1, <2>2
  <1>4. Cardinality(T) <= Cardinality((S \ {i}) \cup {n})
    BY <1>3, FS_Subset
  <1>5. Cardinality(T) \in Nat /\ Cardinality((S \ {i}) \cup {n}) \in Nat
    BY <1>3, InputSets, FS_CardinalityType
  <1> QED
    BY <1>1, <1>3, <1>4, <1>5

LEMMA NobodyBounded == Active = {} => Bounded
  BY FS_EmptySet DEF Bounded

LEMMA NobodyBoundedNext == Active' = {} => Bounded'
  BY FS_EmptySet DEF Bounded

(* Arithmetic of the groups of coins.                                        *)
LEMMA Multiples ==
    ASSUME NEW c \in Nat \ {0}, NEW a \in Nat, NEW b \in Nat, a < b
    PROVE  c * a + c <= c * b
  <1>1. a + 1 <= b
    OBVIOUS
  <1>2. c * (a + 1) <= c * b
    BY <1>1
  <1> QED
    BY <1>2

LEMMA Division ==
    ASSUME NEW c \in Nat \ {0}, NEW x \in Nat
    PROVE  /\ x \div c \in Nat /\ x % c \in 0 .. c - 1
           /\ x = c * (x \div c) + (x % c)
  OBVIOUS

LEMMA SameGroup ==
    ASSUME NEW c \in Nat \ {0}, NEW k \in Nat, k % c = 0, NEW x \in Nat, k <= x, x < k + c
    PROVE  x \div c = k \div c
  <1> DEFINE q == k \div c
             p == x \div c
  <1>1. k = c * q /\ q \in Nat
    BY Division
  <1>2. x = c * p + (x % c) /\ p \in Nat /\ x % c \in 0 .. c - 1
    BY Division
  <1>3. c * q \in Nat /\ c * p \in Nat
    BY <1>1, <1>2
  <1> HIDE DEF q, p
  <1>4. ~(p < q)
    BY Multiples, <1>1, <1>2, <1>3
  <1>5. ~(q < p)
    BY Multiples, <1>1, <1>2, <1>3
  <1> QED
    BY <1>1, <1>2, <1>4, <1>5 DEF p, q

----------------------------------------------------------------------------
LEMMA InitInv == Init => IInv
  <1> SUFFICES ASSUME Init PROVE IInv
    OBVIOUS
  <1>1. \A i \in Inputs : stage[i] = "queued" /\ row[i] = "queued" /\ report[i] = "none"
    BY DEF Init, AllSet
  <1>2. Active = {}
    BY <1>1 DEF Active
  <1>3. TypeOK
    <2>1. Flags
      BY Zenon DEF Init, Flags
    <2>2. Kinds /\ Sets /\ Counts
      BY DEF Init, Kinds, Sets, Counts
    <2>3. PerInput
      BY DEF Init, AllSet, PerInput, Stages, Rows, Reports
    <2> QED
      BY <2>1, <2>2, <2>3, TypeParts
  <1>4. ~running /\ phase = "idle" /\ files = {} /\ held = {} /\ guard = {}
        /\ verdict = "none" /\ scanCompleted = FALSE
    BY DEF Init
  <1>5. Lifecycle /\ Turns /\ RowsEnded /\ Undisturbed /\ Causes /\ Known
    BY <1>4 DEF Lifecycle, Turns, RowsEnded, Undisturbed, Causes, Known
  <1>6. Reported
    BY <1>1 DEF Reported
  <1>7. Bounded /\ Quiet
    BY <1>2, <1>4, NobodyBounded DEF Quiet
  <1>8. FilesAreTheCheckedReports /\ VerdictIsTrue
    BY <1>4 DEF FilesAreTheCheckedReports, VerdictIsTrue
  <1> QED
    BY <1>3, <1>5, <1>6, <1>7, <1>8 DEF IInv

(* While a run is on it offers nothing and says nothing.                     *)
LEMMA RunGoesOn ==
    ASSUME Lifecycle', running'
    PROVE  Quiet' /\ FilesAreTheCheckedReports' /\ VerdictIsTrue'
  BY DEF Lifecycle, Quiet, FilesAreTheCheckedReports, VerdictIsTrue

LEMMA StartInv ==
    ASSUME IInv, NEW m \in {"seed", "watch", "candidate"}, Start(m) PROVE IInv'
  <1>1. \A i \in Inputs : stage'[i] = "queued" /\ row'[i] = "queued" /\ report'[i] = "none"
    BY DEF Start, OpenRun, AllSet
  <1>2. TypeOK'
    <2>1. Flags'
      BY Zenon DEF Start, OpenRun, Flags
    <2>2. Kinds'
      BY DEF Start, OpenRun, Kinds
    <2>3. PerInput'
      BY DEF Start, OpenRun, AllSet, PerInput, Stages, Rows, Reports
    <2>4. Sets' /\ Counts'
      BY DEF Start, OpenRun, Sets, Counts, IInv, TypeOK
    <2> QED
      BY <2>1, <2>2, <2>3, <2>4, TypePartsNext
  <1>3. /\ running' /\ phase' = "attaching" /\ nextIndex' = 1 /\ failure' = "none" /\ ~aborted'
        /\ files' = {} /\ verdict' = "none" /\ ~scanCompleted'
    BY DEF Start, OpenRun
  <1>4. Lifecycle'
    BY <1>1, <1>3 DEF Lifecycle
  <1>5. Turns'
    BY <1>1, <1>3 DEF Turns
  <1>6. Reported' /\ RowsEnded' /\ Undisturbed' /\ Known'
    BY <1>1 DEF Reported, RowsEnded, Undisturbed, Known
  <1>7. Causes'
    BY <1>3 DEF Causes
  <1>8. Bounded'
    BY <1>1, NobodyBoundedNext DEF Active
  <1> QED
    BY <1>2, <1>3, <1>4, <1>5, <1>6, <1>7, <1>8, RunGoesOn DEF IInv

----------------------------------------------------------------------------
(* The runs over seed phrases and over watch-only keys.                      *)

LEMMA NetworkReadyInv == ASSUME IInv, NetworkReady PROVE IInv'
  <1> DEFINE taken == {i \in Inputs : aborted \/ i <= Concurrency}
             m == IF aborted \/ N <= Concurrency THEN N + 1 ELSE Concurrency + 1
  <1>1. /\ TypeOK /\ phase = "attaching" /\ running /\ nextIndex = 1 /\ failure = "none"
        /\ \A i \in Inputs : stage[i] = "queued" /\ report[i] = "none"
    BY DEF IInv, NetworkReady, Lifecycle, Reported
  <1>2. /\ Begin(taken) /\ phase' = "tasks" /\ mode # "candidate" /\ mode' = mode
        /\ UNCHANGED <<runGeneration, running, mode, aborted, failure, failures, row, report,
                       files, checkedFor, scanCompleted, verdict, userCancelled, hidden>>
    BY DEF NetworkReady, exports, history
  <1>3. /\ m \in 1 .. N + 1 /\ taken = 1 .. m - 1 /\ 1 < m
        /\ ~aborted => m - 1 <= Concurrency
        /\ aborted => m = N + 1
    OBVIOUS
  <1> HIDE DEF m
  <1> HIDE DEF taken
  <1>4. Cardinality(taken) = m - 1
    BY <1>3, IntervalCount
  <1>5. /\ nextIndex' = m
        /\ \A i \in Inputs : stage'[i] = IF i < m THEN (IF aborted THEN "skipped" ELSE "scanning")
                                         ELSE "queued"
        /\ stage' \in [Inputs -> Stages]
        /\ guard' = (IF aborted THEN guard ELSE guard \cup taken)
        /\ held' \subseteq held
    BY <1>1, <1>2, <1>3, <1>4 DEF Begin, Stages, TypeOK
  <1>6. TypeOK'
    <2>1. Flags'
      BY <1>1, <1>2, Zenon DEF TypeOK, Flags
    <2>2. Kinds'
      BY <1>1, <1>2 DEF TypeOK, Kinds
    <2>3. PerInput'
      BY <1>1, <1>2, <1>5 DEF TypeOK, PerInput, Rows, Reports
    <2>4. Sets' /\ Counts'
      BY <1>1, <1>2, <1>3, <1>5 DEF TypeOK, Sets, Counts
    <2> QED
      BY <2>1, <2>2, <2>3, <2>4, TypePartsNext
  <1>7. Lifecycle'
    BY <1>1, <1>2 DEF IInv, Lifecycle
  <1>8. Active' = IF aborted THEN {} ELSE 1 .. m - 1
    BY <1>3, <1>5 DEF Active
  <1>9. Turns'
    <2>1. \A i \in Inputs : stage'[i] = "queued" <=> i >= nextIndex'
      BY <1>3, <1>5
    <2>2. nextIndex' <= N => Active' # {}
      <3>1. nextIndex' <= N => 1 \in Active'
        BY <1>3, <1>5, <1>8
      <3> QED
        BY <3>1
    <2> QED
      BY <2>1, <2>2 DEF Turns
  <1>10. Reported' /\ RowsEnded'
    BY <1>1, <1>2, <1>5 DEF Reported, RowsEnded
  <1>11. Undisturbed'
    BY <1>1, <1>2, <1>5 DEF Undisturbed
  <1>12. Causes'
    BY <1>1, <1>2 DEF IInv, Causes
  <1>13. Known'
    BY <1>1, <1>2, <1>3, <1>5 DEF Known
  <1>14. Bounded'
    <2>1. CASE aborted
      BY <1>8, <2>1, NobodyBoundedNext
    <2>2. CASE ~aborted
      <3>1. Cardinality(Active') = m - 1
        BY <1>3, <1>8, <2>2, IntervalCount
      <3> QED
        BY <1>2, <1>3, <2>2, <3>1 DEF Bounded
    <2> QED
      BY <2>1, <2>2
  <1> QED
    BY <1>1, <1>2, <1>6, <1>7, <1>9, <1>10, <1>11, <1>12, <1>13, <1>14, RunGoesOn DEF IInv

(* The items a worker takes in the turn in which its task settles are those  *)
(* from nextIndex on: none, one or all that are left.                        *)
LEMMA SuccessorsTaken ==
    ASSUME nextIndex \in 1 .. N + 1, NEW failed \in BOOLEAN, NEW stopped \in BOOLEAN
    PROVE  \E m \in nextIndex .. N + 1 :
               /\ Successors(failed, stopped) = nextIndex .. m - 1
               /\ nextIndex + Cardinality(Successors(failed, stopped)) = m
               /\ ~failed /\ nextIndex <= N => nextIndex < m
               /\ ~failed /\ stopped => m = N + 1
               /\ ~stopped => m <= nextIndex + 1
               /\ failed => m = nextIndex
  <1> DEFINE s == Successors(failed, stopped)
             m == IF failed \/ nextIndex = N + 1 THEN nextIndex
                  ELSE IF stopped THEN N + 1 ELSE nextIndex + 1
  <1>1. m \in nextIndex .. N + 1 /\ nextIndex \in Nat /\ m \in Nat
    OBVIOUS
  <1>2. s = nextIndex .. m - 1
    BY DEF Successors
  <1>3. /\ ~failed /\ nextIndex <= N => nextIndex < m
        /\ ~failed /\ stopped => m = N + 1
        /\ ~stopped => m <= nextIndex + 1
        /\ failed => m = nextIndex
    OBVIOUS
  <1> HIDE DEF m
  <1>4. Cardinality(nextIndex .. m - 1) = m - nextIndex
    BY <1>1, IntervalCount
  <1>5. nextIndex + Cardinality(s) = m
    BY <1>1, <1>2, <1>4
  <1> QED
    BY <1>1, <1>2, <1>3, <1>5

(* What a settled task leaves to the others, and what its worker takes.      *)
Kept(i, s, failed, stopped) ==
    /\ stage' \in [Inputs -> Stages] /\ nextIndex' \in 1 .. N + 1
    /\ guard' \subseteq Inputs /\ held' \subseteq Inputs
    /\ \A j \in Inputs : stage'[j] = "queued" <=> j >= nextIndex'
    /\ ~failed /\ nextIndex' <= N => Active' # {}
    /\ Bounded'
    /\ guard \subseteq guard'
    /\ \A j \in Inputs : stage'[j] \in {"scanning", "history"} => stage[j] = stage'[j] \/ j \in guard'
    /\ stage'[i] = s
    /\ \A j \in Inputs : j # i => \/ stage'[j] = stage[j]
                                  \/ stage[j] = "queued" /\ stage'[j] = "scanning"
                                  \/ stage[j] = "queued" /\ stage'[j] = "skipped" /\ stopped
    /\ failed \/ stopped => \A j \in Inputs : stage'[j] = "scanning" => stage[j] = "scanning"

LEMMA SettleKeeps ==
    ASSUME IInv, phase = "tasks", mode # "candidate", NEW i \in Active,
           NEW s \in {"done", "failed"}, NEW failed \in BOOLEAN, NEW stopped \in BOOLEAN,
           Settle(i, s, failed, stopped), mode' = mode
    PROVE  Kept(i, s, failed, stopped)
  <1>1. /\ TypeOK /\ nextIndex \in 1 .. N + 1 /\ guard \subseteq Inputs /\ held \subseteq Inputs
        /\ stage \in [Inputs -> Stages]
    BY DEF IInv, TypeOK, Stages
  <1>2. \A j \in Inputs : stage[j] = "queued" <=> j >= nextIndex
    BY DEF IInv, Turns, Lifecycle
  <1>3. i \in Inputs /\ stage[i] \in {"scanning", "history"} /\ i < nextIndex
    BY <1>1, <1>2 DEF Active
  <1>4. PICK m \in nextIndex .. N + 1 :
               /\ Successors(failed, stopped) = nextIndex .. m - 1
               /\ nextIndex + Cardinality(Successors(failed, stopped)) = m
               /\ ~failed /\ nextIndex <= N => nextIndex < m
               /\ ~failed /\ stopped => m = N + 1
               /\ ~stopped => m <= nextIndex + 1
               /\ failed => m = nextIndex
    BY <1>1, SuccessorsTaken
  <1>5. /\ nextIndex' = m
        /\ stage' = [j \in Inputs |-> IF j = i THEN s
                       ELSE IF j \in nextIndex .. m - 1
                            THEN (IF stopped THEN "skipped" ELSE "scanning")
                       ELSE stage[j]]
        /\ guard' = (IF stopped THEN guard ELSE guard \cup (nextIndex .. m - 1))
        /\ held' \subseteq held
    BY <1>4 DEF Settle
  <1>6. stage' \in [Inputs -> Stages] /\ nextIndex' \in 1 .. N + 1
        /\ guard' \subseteq Inputs /\ held' \subseteq Inputs
    <2>1. stage' \in [Inputs -> Stages]
      BY <1>1, <1>5 DEF Stages
    <2>2. nextIndex' \in 1 .. N + 1 /\ held' \subseteq Inputs
      BY <1>1, <1>4, <1>5
    <2>3. guard' \subseteq Inputs
      BY <1>1, <1>4, <1>5
    <2> QED
      BY <2>1, <2>2, <2>3
  <1>7. \A j \in Inputs : stage'[j] = "queued" <=> j >= nextIndex'
    BY <1>1, <1>2, <1>3, <1>4, <1>5
  <1>8. ~failed /\ nextIndex' <= N => Active' # {}
    <2> SUFFICES ASSUME ~failed, nextIndex' <= N PROVE nextIndex \in Active'
      OBVIOUS
    <2>1. ~stopped /\ nextIndex < m /\ nextIndex \in Inputs /\ nextIndex # i
      BY <1>1, <1>3, <1>4, <1>5
    <2>2. stage'[nextIndex] = "scanning"
      BY <1>4, <1>5, <2>1
    <2> QED
      BY <2>1, <2>2 DEF Active
  <1>9. Active' \subseteq (Active \ {i}) \cup {nextIndex}
    BY <1>1, <1>3, <1>4, <1>5 DEF Active
  <1>10. Bounded'
    <2>1. Active \in SUBSET Inputs /\ Active' \in SUBSET Inputs
      BY DEF Active
    <2>2. Cardinality(Active') <= Cardinality(Active)
      BY <1>9, <2>1, OneForOne
    <2>3. Cardinality(Active) <= Concurrency
      BY DEF IInv, Bounded
    <2>4. Cardinality(Active) \in Nat /\ Cardinality(Active') \in Nat
      BY <2>1, InputSets
    <2> QED
      BY <2>2, <2>3, <2>4 DEF Bounded
  <1>11. /\ guard \subseteq guard' /\ stage'[i] = s
         /\ \A j \in Inputs : stage'[j] \in {"scanning", "history"} => stage[j] = stage'[j] \/ j \in guard'
    BY <1>3, <1>5
  <1>12. \A j \in Inputs : j # i => \/ stage'[j] = stage[j]
                                    \/ stage[j] = "queued" /\ stage'[j] = "scanning"
                                    \/ stage[j] = "queued" /\ stage'[j] = "skipped" /\ stopped
    BY <1>1, <1>2, <1>4, <1>5
  <1>13. failed \/ stopped => \A j \in Inputs : stage'[j] = "scanning" => stage[j] = "scanning"
    BY <1>4, <1>5
  <1> QED
    BY <1>6, <1>7, <1>8, <1>10, <1>11, <1>12, <1>13 DEF Kept

(* Only a run that is past the network works on anything.                    *)
LEMMA ActiveRuns ==
    ASSUME IInv, NEW i \in Active
    PROVE  running /\ phase = "tasks" /\ i \in Inputs /\ stage[i] \in {"scanning", "history"}
  BY DEF IInv, Quiet, Lifecycle, TypeOK, Active

LEMMA FinishInv ==
    ASSUME IInv, NEW i \in Inputs, NEW r \in {"whole", "incomplete"}, Finish(i, r) PROVE IInv'
  <1>1. i \in Active /\ stage[i] = "history" /\ mode # "candidate"
    BY DEF Finish, Active
  <1>2. running /\ phase = "tasks" /\ TypeOK
    BY <1>1, ActiveRuns DEF IInv
  <1>3. /\ Settle(i, "done", failure # "none", aborted)
        /\ report' = [report EXCEPT ![i] = r]
        /\ row' = [row EXCEPT ![i] = IF r = "incomplete" \/ aborted THEN "failed" ELSE "complete"]
        /\ failures' = (failures \/ (mode = "watch" /\ (r = "incomplete" \/ aborted)))
        /\ UNCHANGED <<runGeneration, running, mode, phase, aborted, failure, files, checkedFor,
                       scanCompleted, verdict, userCancelled, hidden>>
    BY DEF Finish, run, exports, history
  <1>4. (failure # "none") \in BOOLEAN /\ aborted \in BOOLEAN
    BY <1>2, Zenon DEF TypeOK
  <1>5. /\ stage' \in [Inputs -> Stages] /\ nextIndex' \in 1 .. N + 1
        /\ guard' \subseteq Inputs /\ held' \subseteq Inputs
        /\ \A j \in Inputs : stage'[j] = "queued" <=> j >= nextIndex'
        /\ failure = "none" /\ nextIndex' <= N => Active' # {}
        /\ Bounded'
        /\ guard \subseteq guard'
        /\ \A j \in Inputs : stage'[j] \in {"scanning", "history"} => stage[j] = stage'[j] \/ j \in guard'
        /\ stage'[i] = "done"
        /\ \A j \in Inputs : j # i => \/ stage'[j] = stage[j]
                                      \/ stage[j] = "queued" /\ stage'[j] = "scanning"
                                      \/ stage[j] = "queued" /\ stage'[j] = "skipped" /\ aborted
    <2>1. Kept(i, "done", failure # "none", aborted)
      BY <1>1, <1>2, <1>3, <1>4, SettleKeeps, Zenon
    <2> QED
      BY <2>1 DEF Kept
  <1>6. /\ report \in [Inputs -> Reports] /\ row \in [Inputs -> Rows]
        /\ report' \in [Inputs -> Reports] /\ row' \in [Inputs -> Rows]
    BY <1>2, <1>3 DEF TypeOK, Rows, Reports
  <1>7. /\ report'[i] = r /\ row'[i] \in {"complete", "failed"}
        /\ r = "whole" /\ ~aborted => row'[i] = "complete"
        /\ \A j \in Inputs : j # i => report'[j] = report[j] /\ row'[j] = row[j]
    BY <1>3, <1>6
  <1>8. TypeOK'
    <2>1. Flags'
      BY <1>2, <1>3, Zenon DEF TypeOK, Flags
    <2>2. Kinds'
      BY <1>2, <1>3 DEF TypeOK, Kinds
    <2>3. PerInput'
      BY <1>5, <1>6 DEF PerInput
    <2>4. Sets' /\ Counts'
      BY <1>2, <1>3, <1>5 DEF TypeOK, Sets, Counts
    <2> QED
      BY <2>1, <2>2, <2>3, <2>4, TypePartsNext
  <1>9. Lifecycle'
    BY <1>2, <1>3 DEF IInv, Lifecycle
  <1>10. Turns'
    BY <1>3, <1>5 DEF Turns
  <1>11. Reported'
    BY <1>5, <1>7 DEF IInv, Reported
  <1>12. RowsEnded'
    BY <1>2, <1>3, <1>5, <1>7 DEF IInv, RowsEnded
  <1>13. Undisturbed'
    BY <1>1, <1>2, <1>3, <1>5, <1>7 DEF IInv, Undisturbed
  <1>14. Causes'
    BY <1>1, <1>2, <1>3 DEF IInv, Causes
  <1>15. Known'
    BY <1>1, <1>2, <1>3, <1>5, <1>7 DEF IInv, Known
  <1> QED
    BY <1>2, <1>3, <1>5, <1>8, <1>9, <1>10, <1>11, <1>12, <1>13, <1>14, <1>15, RunGoesOn DEF IInv

LEMMA SeedFailsInv ==
    ASSUME IInv, NEW i \in Inputs, NEW cause \in {"abort", "error"}, SeedFails(i, cause)
    PROVE  IInv'
  <1>1. i \in Active /\ mode = "seed" /\ (cause = "abort" => aborted)
    BY DEF SeedFails
  <1>2. running /\ phase = "tasks" /\ TypeOK
    BY <1>1, ActiveRuns DEF IInv
  <1>3. /\ Settle(i, "failed", TRUE, TRUE)
        /\ row' = [row EXCEPT ![i] = "failed"]
        /\ aborted' = TRUE /\ failure' = FirstFailure(cause)
        /\ UNCHANGED <<runGeneration, running, mode, phase, failures, report, files, checkedFor,
                       scanCompleted, verdict, userCancelled, hidden>>
    BY DEF SeedFails, run, exports, history
  <1>4. failure' \in {"abort", "error"} /\ (failure' = "abort" => userCancelled)
    BY <1>1, <1>2, <1>3 DEF FirstFailure, IInv, Causes, TypeOK
  <1>5. /\ stage' \in [Inputs -> Stages] /\ nextIndex' \in 1 .. N + 1
        /\ guard' \subseteq Inputs /\ held' \subseteq Inputs
        /\ \A j \in Inputs : stage'[j] = "queued" <=> j >= nextIndex'
        /\ Bounded'
        /\ guard \subseteq guard'
        /\ \A j \in Inputs : stage'[j] \in {"scanning", "history"} => stage[j] = stage'[j] \/ j \in guard'
        /\ stage'[i] = "failed"
        /\ \A j \in Inputs : j # i => \/ stage'[j] = stage[j]
                                      \/ stage[j] = "queued" /\ stage'[j] \in {"scanning", "skipped"}
    <2>1. TRUE \in BOOLEAN
      OBVIOUS
    <2>2. Kept(i, "failed", TRUE, TRUE)
      BY <1>1, <1>2, <1>3, <2>1, SettleKeeps, Zenon
    <2> QED
      BY <2>2 DEF Kept
  <1>6. row \in [Inputs -> Rows] /\ row' \in [Inputs -> Rows]
    BY <1>2, <1>3 DEF TypeOK, Rows
  <1>7. row'[i] = "failed" /\ \A j \in Inputs : j # i => row'[j] = row[j]
    BY <1>3, <1>6
  <1>8. TypeOK'
    <2>1. Flags'
      BY <1>2, <1>3, Zenon DEF TypeOK, Flags
    <2>2. Kinds'
      BY <1>2, <1>3, <1>4 DEF TypeOK, Kinds
    <2>3. PerInput'
      BY <1>2, <1>3, <1>5, <1>6 DEF TypeOK, PerInput, Reports
    <2>4. Sets' /\ Counts'
      BY <1>2, <1>3, <1>5 DEF TypeOK, Sets, Counts
    <2> QED
      BY <2>1, <2>2, <2>3, <2>4, TypePartsNext
  <1>9. Lifecycle'
    BY <1>2, <1>3 DEF IInv, Lifecycle
  <1>10. Turns'
    BY <1>3, <1>4, <1>5 DEF Turns
  <1>11. Reported'
    BY <1>1, <1>3, <1>5 DEF IInv, Reported, Active
  <1>12. RowsEnded' /\ Undisturbed'
    BY <1>2, <1>3, <1>5, <1>7 DEF IInv, RowsEnded, Undisturbed
  <1>13. Causes'
    BY <1>1, <1>3, <1>4 DEF Causes
  <1>14. Known'
    BY <1>2, <1>3, <1>5 DEF IInv, Known
  <1> QED
    BY <1>2, <1>3, <1>5, <1>8, <1>9, <1>10, <1>11, <1>12, <1>13, <1>14, RunGoesOn DEF IInv

LEMMA WatchFailsInv ==
    ASSUME IInv, NEW i \in Inputs, NEW cause \in {"abort", "error"}, WatchFails(i, cause)
    PROVE  IInv'
  <1>1. i \in Active /\ mode = "watch" /\ (cause = "abort" => aborted)
    BY DEF WatchFails
  <1>2. running /\ phase = "tasks" /\ TypeOK
    BY <1>1, ActiveRuns DEF IInv
  <1>3. /\ Settle(i, "failed", aborted \/ failure # "none", aborted)
        /\ row' = [row EXCEPT ![i] = "failed"]
        /\ failures' = (failures \/ ~aborted)
        /\ failure' = (IF aborted THEN FirstFailure(cause) ELSE failure)
        /\ UNCHANGED <<runGeneration, running, mode, phase, aborted, report, files, checkedFor,
                       scanCompleted, verdict, userCancelled, hidden>>
    BY DEF WatchFails, run, exports, history
  <1>4. /\ failure' \in {"none", "abort", "error"}
        /\ aborted => failure' # "none"
        /\ ~aborted => failure' = failure
        /\ failure' = "abort" => userCancelled
    BY <1>1, <1>2, <1>3 DEF FirstFailure, IInv, Causes, TypeOK
  <1>5. (aborted \/ failure # "none") \in BOOLEAN /\ aborted \in BOOLEAN
    BY <1>2, Zenon DEF TypeOK
  <1>6. /\ stage' \in [Inputs -> Stages] /\ nextIndex' \in 1 .. N + 1
        /\ guard' \subseteq Inputs /\ held' \subseteq Inputs
        /\ \A j \in Inputs : stage'[j] = "queued" <=> j >= nextIndex'
        /\ ~aborted /\ failure = "none" /\ nextIndex' <= N => Active' # {}
        /\ Bounded'
        /\ guard \subseteq guard'
        /\ \A j \in Inputs : stage'[j] \in {"scanning", "history"} => stage[j] = stage'[j] \/ j \in guard'
        /\ stage'[i] = "failed"
        /\ \A j \in Inputs : j # i => \/ stage'[j] = stage[j]
                                      \/ stage[j] = "queued" /\ stage'[j] = "scanning"
                                      \/ stage[j] = "queued" /\ stage'[j] = "skipped" /\ aborted
    <2>1. Kept(i, "failed", aborted \/ failure # "none", aborted)
      BY <1>1, <1>2, <1>3, <1>5, SettleKeeps, Zenon
    <2> QED
      BY <2>1 DEF Kept
  <1>7. row \in [Inputs -> Rows] /\ row' \in [Inputs -> Rows]
    BY <1>2, <1>3 DEF TypeOK, Rows
  <1>8. row'[i] = "failed" /\ \A j \in Inputs : j # i => row'[j] = row[j]
    BY <1>3, <1>7
  <1>9. TypeOK'
    <2>1. Flags'
      BY <1>2, <1>3, Zenon DEF TypeOK, Flags
    <2>2. Kinds'
      BY <1>2, <1>3, <1>4 DEF TypeOK, Kinds
    <2>3. PerInput'
      BY <1>2, <1>3, <1>6, <1>7 DEF TypeOK, PerInput, Reports
    <2>4. Sets' /\ Counts'
      BY <1>2, <1>3, <1>6 DEF TypeOK, Sets, Counts
    <2> QED
      BY <2>1, <2>2, <2>3, <2>4, TypePartsNext
  <1>10. Lifecycle'
    BY <1>2, <1>3 DEF IInv, Lifecycle
  <1>11. Turns'
    BY <1>3, <1>4, <1>6 DEF Turns
  <1>12. Reported'
    BY <1>1, <1>3, <1>6 DEF IInv, Reported, Active
  <1>13. RowsEnded'
    BY <1>2, <1>3, <1>6, <1>8 DEF IInv, RowsEnded
  <1>14. Undisturbed'
    <2>1. report[i] = "none"
      BY <1>1 DEF IInv, Reported, Active
    <2> QED
      BY <1>1, <1>2, <1>3, <1>6, <1>8, <2>1 DEF IInv, Undisturbed
  <1>15. Causes'
    BY <1>1, <1>2, <1>3, <1>4 DEF IInv, Causes
  <1>16. Known'
    BY <1>2, <1>3, <1>6 DEF IInv, Known
  <1> QED
    BY <1>2, <1>3, <1>6, <1>9, <1>10, <1>11, <1>12, <1>13, <1>14, <1>15, <1>16, RunGoesOn DEF IInv

(* A progress report, the end of a scan proper, Cancel and pagehide.         *)
LEMMA ProgressInv == ASSUME IInv, NEW i \in Inputs, Progress(i) PROVE IInv'
  <1>1. /\ phase = "tasks" /\ stage[i] \in {"queued", "scanning", "history"} /\ TypeOK
        /\ row' = [row EXCEPT ![i] = "running"]
        /\ UNCHANGED <<runGeneration, running, mode, phase, aborted, stage, nextIndex, failure,
                       failures, report, held, guard, files, checkedFor, scanCompleted, verdict,
                       userCancelled, hidden>>
    BY DEF IInv, Progress, run, workers, exports, history
  <1>2. /\ row' \in [Inputs -> Rows] /\ running
        /\ \A j \in Inputs : j # i => row'[j] = row[j]
    BY <1>1 DEF IInv, Lifecycle, TypeOK, Rows
  <1>3. TypeOK'
    BY <1>1, <1>2 DEF TypeOK, Rows
  <1>4. report[i] = "none"
    BY <1>1 DEF IInv, Reported
  <1>5. Active' = Active
    BY <1>1 DEF Active
  <1>6. Lifecycle' /\ Turns' /\ Reported'
    BY <1>1, <1>5 DEF IInv, Lifecycle, Turns, Reported
  <1>7. RowsEnded' /\ Undisturbed'
    BY <1>1, <1>2, <1>4 DEF IInv, RowsEnded, Undisturbed
  <1>8. Causes' /\ Known'
    BY <1>1, <1>5 DEF IInv, Causes, Known
  <1>9. Bounded'
    BY <1>1, <1>5 DEF IInv, Bounded
  <1> QED
    BY <1>1, <1>2, <1>3, <1>6, <1>7, <1>8, <1>9, RunGoesOn DEF IInv

LEMMA ScannedInv == ASSUME IInv, NEW i \in Inputs, Scanned(i) PROVE IInv'
  <1>1. i \in Active /\ stage[i] = "scanning"
    BY DEF Scanned, Active
  <1>2. running /\ phase = "tasks" /\ TypeOK
    BY <1>1, ActiveRuns DEF IInv
  <1>3. /\ stage' = [stage EXCEPT ![i] = "history"]
        /\ UNCHANGED <<runGeneration, running, mode, phase, aborted, row, nextIndex, failure,
                       failures, report, held, guard, files, checkedFor, scanCompleted, verdict,
                       userCancelled, hidden>>
    BY DEF Scanned, run, workers, exports, history
  <1>4. /\ stage' \in [Inputs -> Stages] /\ stage'[i] = "history"
        /\ \A j \in Inputs : j # i => stage'[j] = stage[j]
    BY <1>2, <1>3 DEF TypeOK, Stages
  <1>5. TypeOK'
    BY <1>2, <1>3, <1>4 DEF TypeOK, Stages
  <1>6. Active' = Active
    BY <1>1, <1>4 DEF Active
  <1>7. Lifecycle' /\ Turns'
    BY <1>1, <1>2, <1>3, <1>4, <1>6 DEF IInv, Lifecycle, Turns
  <1>8. Reported' /\ RowsEnded' /\ Undisturbed'
    BY <1>1, <1>2, <1>3, <1>4 DEF IInv, Reported, RowsEnded, Undisturbed
  <1>9. Causes' /\ Known'
    BY <1>1, <1>2, <1>3, <1>4, <1>6 DEF IInv, Causes, Known
  <1>10. Bounded'
    BY <1>3, <1>6 DEF IInv, Bounded
  <1> QED
    BY <1>2, <1>3, <1>5, <1>7, <1>8, <1>9, <1>10, RunGoesOn DEF IInv

LEMMA PersonInv == ASSUME IInv, CancelScan \/ PageHide PROVE IInv'
  <1>1. /\ running /\ TypeOK /\ ~Join
        /\ UNCHANGED <<runGeneration, running, mode, phase, stage, row, nextIndex, failure,
                       failures, report, held, files, checkedFor, scanCompleted, verdict>>
    BY DEF IInv, CancelScan, PageHide, run, workers, exports, history
  <1>2. \/ aborted' = TRUE /\ userCancelled' = TRUE /\ UNCHANGED <<hidden, guard>>
        \/ hidden' = TRUE /\ guard' = {} /\ UNCHANGED <<aborted, userCancelled>>
    BY DEF CancelScan, PageHide, history
  <1>3. TypeOK'
    <2>1. Flags'
      BY <1>1, <1>2, Zenon DEF TypeOK, Flags
    <2>2. Kinds' /\ PerInput' /\ Sets' /\ Counts'
      BY <1>1, <1>2 DEF TypeOK, Kinds, PerInput, Stages, Rows, Reports, Sets, Counts
    <2> QED
      BY <2>1, <2>2, TypePartsNext
  <1>4. Active' = Active /\ (phase = "tasks" => Active # {})
    BY <1>1 DEF Active, Join
  <1>5. Lifecycle' /\ Turns' /\ Reported' /\ RowsEnded'
    BY <1>1, <1>4 DEF IInv, Lifecycle, Turns, Reported, RowsEnded
  <1>6. Undisturbed' /\ Known'
    BY <1>1, <1>2 DEF IInv, Undisturbed, Known
  <1>7. Causes'
    BY <1>1, <1>2, <1>4 DEF IInv, Causes
  <1>8. Bounded'
    BY <1>1, <1>4 DEF IInv, Bounded
  <1> QED
    BY <1>1, <1>3, <1>5, <1>6, <1>7, <1>8, RunGoesOn DEF IInv

----------------------------------------------------------------------------
(* The runs over candidates.                                                 *)

(* What the loop over the candidates comes to: some are refused, and with    *)
(* the next one a whole group of coins begins, or the candidates are over.   *)
Begun(st, rep, rw, h, next, m) ==
    /\ nextIndex' = m
    /\ stage' = [i \in Inputs |-> IF nextIndex <= i /\ i < next THEN "done"
                                  ELSE IF next <= i /\ i < m THEN "scanning" ELSE st[i]]
    /\ report' = [i \in Inputs |-> IF nextIndex <= i /\ i < next THEN "refused" ELSE rep[i]]
    /\ row' = [i \in Inputs |-> IF nextIndex <= i /\ i < next THEN "failed" ELSE rw[i]]
    /\ held' \subseteq h
    /\ guard' = guard \cup (next .. m - 1)
    /\ \A i, j \in next .. m - 1 : j \in Coinmates(i)

LEMMA CandidateTaken ==
    ASSUME nextIndex \in 1 .. N + 1, NEW st, NEW rep, NEW rw, NEW h,
           TakeCandidate(st, rep, rw, h)
    PROVE  \E next \in nextIndex .. N + 1 : \E m \in next .. N + 1 :
               (next <= N => next < m) /\ Begun(st, rep, rw, h, next, m)
  <1>1. PICK next \in {k \in nextIndex .. N + 1 : (k - 1) % Coins = 0} :
            LET invalid == nextIndex .. next - 1
                begun == {i \in Inputs : next <= i /\ i < next + Coins}
            IN  /\ stage' = [i \in Inputs |-> IF i \in invalid THEN "done"
                                              ELSE IF i \in begun THEN "scanning" ELSE st[i]]
                /\ report' = [i \in Inputs |-> IF i \in invalid THEN "refused" ELSE rep[i]]
                /\ row' = [i \in Inputs |-> IF i \in invalid THEN "failed" ELSE rw[i]]
                /\ held' = h \ invalid
                /\ guard' = guard \cup begun
                /\ nextIndex' = next + Cardinality(begun)
    BY DEF TakeCandidate
  <1> DEFINE begun == {i \in Inputs : next <= i /\ i < next + Coins}
             m == IF next + Coins <= N + 1 THEN next + Coins ELSE N + 1
  <1>2. next \in nextIndex .. N + 1 /\ next - 1 \in Nat /\ (next - 1) % Coins = 0 /\ next \in Nat
    OBVIOUS
  <1>3. m \in next .. N + 1 /\ (next <= N => next < m) /\ begun = next .. m - 1
        /\ m <= next + Coins
    BY <1>2
  <1>4. next + Cardinality(begun) = m
    <2> HIDE DEF m, begun
    <2>1. Cardinality(next .. m - 1) = m - next
      BY <1>2, <1>3, IntervalCount
    <2> QED
      BY <1>2, <1>3, <2>1
  <1>5. \A i, j \in next .. m - 1 : j \in Coinmates(i)
    <2> SUFFICES ASSUME NEW i \in next .. m - 1, NEW j \in next .. m - 1
                 PROVE  j \in Inputs /\ (j - 1) \div Coins = (i - 1) \div Coins
      BY DEF Coinmates
    <2>1. /\ i - 1 \in Nat /\ next - 1 <= i - 1 /\ i - 1 < (next - 1) + Coins
          /\ j - 1 \in Nat /\ next - 1 <= j - 1 /\ j - 1 < (next - 1) + Coins
          /\ j \in Inputs
      BY <1>2, <1>3
    <2>2. (i - 1) \div Coins = (next - 1) \div Coins
      BY <1>2, <2>1, SameGroup
    <2>3. (j - 1) \div Coins = (next - 1) \div Coins
      BY <1>2, <2>1, SameGroup
    <2> QED
      BY <2>1, <2>2, <2>3
  <1>6. Begun(st, rep, rw, h, next, m)
    <2>1. nextIndex' = m /\ guard' = guard \cup (next .. m - 1) /\ held' \subseteq h
      BY <1>1, <1>3, <1>4
    <2>2. \A i \in Inputs : /\ i \in nextIndex .. next - 1 <=> nextIndex <= i /\ i < next
                            /\ i \in begun <=> next <= i /\ i < m
      BY <1>2, <1>3
    <2> HIDE DEF m, begun
    <2>3. stage' = [i \in Inputs |-> IF nextIndex <= i /\ i < next THEN "done"
                                     ELSE IF next <= i /\ i < m THEN "scanning" ELSE st[i]]
      BY <1>1, <2>2 DEF begun
    <2>4. /\ report' = [i \in Inputs |-> IF nextIndex <= i /\ i < next THEN "refused" ELSE rep[i]]
          /\ row' = [i \in Inputs |-> IF nextIndex <= i /\ i < next THEN "failed" ELSE rw[i]]
      BY <1>1, <2>2
    <2> QED
      BY <1>5, <2>1, <2>3, <2>4 DEF Begun
  <1> HIDE DEF m
  <1> QED
    BY <1>2, <1>3, <1>6

(* What both ways of beginning a candidate have to show: nothing is worked   *)
(* on and every input that was taken is done.                                *)
LEMMA BegunInv ==
    ASSUME IInv, running, mode = "candidate", failure = "none", ~aborted,
           NEW st \in [Inputs -> Stages], NEW rep \in [Inputs -> Reports],
           NEW rw \in [Inputs -> Rows], NEW h \in SUBSET Inputs,
           TakeCandidate(st, rep, rw, h),
           \A i \in Inputs : st[i] = "queued" <=> i >= nextIndex,
           \A i \in Inputs : st[i] \notin {"scanning", "history"},
           \A i \in Inputs : rep[i] # "none" <=> st[i] = "done",
           \A i \in Inputs : st[i] = "done" => rw[i] \in {"complete", "failed"},
           \A i \in Inputs : rep[i] = "whole" => rw[i] = "complete",
           \A i \in Inputs : st[i] \notin {"failed", "skipped"},
           hidden \/ \A i \in Inputs : rep[i] \in {"whole", "incomplete"} => i \in guard,
           phase' = "tasks",
           UNCHANGED <<runGeneration, running, mode, aborted, failure, failures, files,
                       checkedFor, scanCompleted, verdict, userCancelled, hidden>>
    PROVE  IInv'
  <1>1. TypeOK /\ nextIndex \in 1 .. N + 1 /\ files = {} /\ verdict = "none" /\ ~scanCompleted
        /\ guard \subseteq Inputs
    BY DEF IInv, TypeOK, Lifecycle
  <1>2. PICK next \in nextIndex .. N + 1 : \E n \in next .. N + 1 :
               (next <= N => next < n) /\ Begun(st, rep, rw, h, next, n)
    BY <1>1, CandidateTaken
  <1>3. PICK m \in next .. N + 1 : (next <= N => next < m) /\ Begun(st, rep, rw, h, next, m)
    BY <1>2
  <1>4. /\ nextIndex' = m /\ held' \subseteq h /\ guard' = guard \cup (next .. m - 1)
        /\ \A i \in Inputs :
             /\ stage'[i] = IF nextIndex <= i /\ i < next THEN "done"
                            ELSE IF next <= i /\ i < m THEN "scanning" ELSE st[i]
             /\ report'[i] = IF nextIndex <= i /\ i < next THEN "refused" ELSE rep[i]
             /\ row'[i] = IF nextIndex <= i /\ i < next THEN "failed" ELSE rw[i]
    BY <1>3 DEF Begun
  <1>5. stage' \in [Inputs -> Stages] /\ report' \in [Inputs -> Reports] /\ row' \in [Inputs -> Rows]
    BY <1>3 DEF Begun, Stages, Reports, Rows
  <1>6. TypeOK'
    <2>1. Flags'
      BY <1>1, Zenon DEF TypeOK, Flags
    <2>2. Kinds'
      BY <1>1 DEF TypeOK, Kinds
    <2>3. Sets' /\ Counts'
      BY <1>1, <1>2, <1>3, <1>4 DEF TypeOK, Sets, Counts
    <2> QED
      BY <1>5, <2>1, <2>2, <2>3, TypePartsNext DEF PerInput
  <1>7. Lifecycle'
    BY <1>1 DEF Lifecycle
  <1>8. Active' = {i \in Inputs : next <= i /\ i < m}
    BY <1>1, <1>2, <1>3, <1>4 DEF Active
  <1>9. m <= N => Active' # {}
    <2>1. m <= N => next \in Active'
      BY <1>1, <1>2, <1>3, <1>8
    <2> QED
      BY <2>1
  <1>10. Turns'
    <2>1. \A i \in Inputs : stage'[i] = "queued" <=> i >= m
      BY <1>1, <1>2, <1>3, <1>4
    <2> QED
      BY <1>4, <1>9, <2>1 DEF Turns
  <1>11. Reported'
    BY <1>1, <1>2, <1>3, <1>4 DEF Reported
  <1>12. RowsEnded'
    BY <1>1, <1>2, <1>3, <1>4 DEF RowsEnded
  <1>13. Undisturbed'
    BY <1>1, <1>2, <1>3, <1>4 DEF Undisturbed
  <1>14. Causes'
    BY DEF Causes
  <1>15. Known'
    BY <1>1, <1>2, <1>3, <1>4 DEF Known
  <1>16. Bounded'
    <2>1. \A i, j \in next .. m - 1 : j \in Coinmates(i)
      BY <1>3 DEF Begun
    <2>2. \A i \in Active' : i \in next .. m - 1
      BY <1>1, <1>2, <1>3, <1>8
    <2> QED
      BY <2>1, <2>2 DEF Bounded, Coinmates
  <1> QED
    BY <1>6, <1>7, <1>10, <1>11, <1>12, <1>13, <1>14, <1>15, <1>16, RunGoesOn DEF IInv

LEMMA CandidatesReadyInv == ASSUME IInv, CandidatesReady PROVE IInv'
  <1>1. /\ TypeOK /\ phase = "attaching" /\ running /\ mode = "candidate" /\ phase' = "tasks"
        /\ nextIndex = 1 /\ failure = "none"
        /\ \A i \in Inputs : stage[i] = "queued" /\ report[i] = "none"
        /\ UNCHANGED <<runGeneration, running, mode, aborted, failures, files, checkedFor,
                       scanCompleted, verdict, userCancelled, hidden>>
    BY DEF IInv, CandidatesReady, Lifecycle, Reported, exports, history
  <1>2. /\ stage \in [Inputs -> Stages] /\ report \in [Inputs -> Reports]
        /\ row \in [Inputs -> Rows] /\ held \in SUBSET Inputs
    BY <1>1 DEF TypeOK, Stages, Reports, Rows
  <1>3. CASE aborted
    <2>1. failure' = "abort" /\ UNCHANGED <<stage, report, row, held, guard, nextIndex>>
      BY <1>3 DEF CandidatesReady
    <2>2. Active' = {}
      BY <1>1, <2>1 DEF Active
    <2>3. TypeOK'
      <3>1. Flags'
        BY <1>1, <2>1, Zenon DEF TypeOK, Flags
      <3>2. Kinds' /\ Sets' /\ Counts' /\ PerInput'
        BY <1>1, <1>2, <2>1 DEF TypeOK, Kinds, Sets, Counts, PerInput
      <3> QED
        BY <3>1, <3>2, TypePartsNext
    <2>4. Lifecycle' /\ Turns'
      BY <1>1, <2>1 DEF IInv, Lifecycle, Turns
    <2>5. Reported' /\ RowsEnded' /\ Undisturbed' /\ Known'
      BY <1>1, <2>1 DEF Reported, RowsEnded, Undisturbed, Known
    <2>6. Causes'
      BY <1>1, <1>3, <2>1 DEF IInv, Causes
    <2> QED
      BY <1>1, <2>2, <2>3, <2>4, <2>5, <2>6, NobodyBoundedNext, RunGoesOn DEF IInv
  <1>4. CASE ~aborted
    <2>1. TakeCandidate(stage, report, row, held) /\ failure' = failure
      BY <1>4 DEF CandidatesReady
    <2> QED
      BY <1>1, <1>2, <1>4, <2>1, BegunInv
  <1> QED
    BY <1>3, <1>4

LEMMA CoinSettlesInv ==
    ASSUME IInv, NEW i \in Inputs, NEW r \in {"whole", "incomplete"}, CoinSettles(i, r)
    PROVE  IInv'
  <1> DEFINE rest == (Coinmates(i) \cap Active) \ {i}
             st == [stage EXCEPT ![i] = "done"]
             rep == [report EXCEPT ![i] = r]
             rw == [row EXCEPT ![i] = IF r = "whole" THEN "complete" ELSE "failed"]
             h == IF rest = {} THEN held \ Coinmates(i) ELSE held
  <1>1. i \in Active /\ mode = "candidate" /\ (r = "whole" => ~aborted)
    BY DEF CoinSettles
  <1>2. running /\ phase = "tasks" /\ TypeOK
    BY <1>1, ActiveRuns DEF IInv
  <1>3. /\ UNCHANGED <<runGeneration, running, mode, phase, aborted, failures, files, checkedFor,
                       scanCompleted, verdict, userCancelled, hidden>>
        /\ failure' = (IF aborted THEN "abort" ELSE failure)
    BY DEF CoinSettles, run, exports, history
  <1>4. /\ st \in [Inputs -> Stages] /\ rep \in [Inputs -> Reports] /\ rw \in [Inputs -> Rows]
        /\ h \in SUBSET Inputs
    BY <1>2 DEF TypeOK, Stages, Reports, Rows
  <1>5. /\ st[i] = "done" /\ rep[i] = r /\ rw[i] \in {"complete", "failed"}
        /\ r = "whole" => rw[i] = "complete"
        /\ \A j \in Inputs : j # i => st[j] = stage[j] /\ rep[j] = report[j] /\ rw[j] = row[j]
    BY <1>2 DEF TypeOK
  <1>6. rest = Active \ {i}
    BY <1>1 DEF IInv, Bounded
  <1>7. IF rest = {} /\ failure' = "none" THEN TakeCandidate(st, rep, rw, h)
        ELSE stage' = st /\ report' = rep /\ row' = rw /\ held' = h /\ guard' = guard /\ nextIndex' = nextIndex
    BY DEF CoinSettles
  <1> HIDE DEF rest, st, rep, rw, h
  <1>8. /\ \A j \in Inputs : st[j] = "queued" <=> j >= nextIndex
        /\ \A j \in Inputs : rep[j] # "none" <=> st[j] = "done"
        /\ \A j \in Inputs : st[j] = "done" => rw[j] \in {"complete", "failed"}
        /\ hidden \/ \A j \in Inputs : st[j] \in {"scanning", "history"} \/ rep[j] \in {"whole", "incomplete"} => j \in guard
    BY <1>1, <1>2, <1>5 DEF IInv, Turns, Reported, RowsEnded, Known, Active
  <1>9. ~aborted => \A j \in Inputs : /\ rep[j] = "whole" => rw[j] = "complete"
                                      /\ st[j] \notin {"failed", "skipped"}
    BY <1>1, <1>2, <1>5 DEF IInv, Undisturbed
  <1>10. CASE rest = {} /\ failure' = "none"
    <2>1. failure = "none" /\ failure' = failure /\ ~aborted
      BY <1>3, <1>10
    <2>2. \A j \in Inputs : st[j] \notin {"scanning", "history"}
      BY <1>5, <1>6, <1>10 DEF Active
    <2>3. TakeCandidate(st, rep, rw, h) /\ phase' = "tasks"
      BY <1>2, <1>3, <1>7, <1>10
    <2> QED
      BY <1>1, <1>2, <1>3, <1>4, <1>8, <1>9, <2>1, <2>2, <2>3, BegunInv
  <1>11. CASE ~(rest = {} /\ failure' = "none")
    <2>1. stage' = st /\ report' = rep /\ row' = rw /\ held' = h /\ guard' = guard /\ nextIndex' = nextIndex
      BY <1>7, <1>11
    <2>2. TypeOK'
      <3>1. Flags'
        BY <1>2, <1>3, Zenon DEF TypeOK, Flags
      <3>2. Kinds'
        BY <1>2, <1>3 DEF TypeOK, Kinds
      <3>3. Sets' /\ Counts' /\ PerInput'
        BY <1>2, <1>3, <1>4, <2>1 DEF TypeOK, Sets, Counts, PerInput
      <3> QED
        BY <3>1, <3>2, <3>3, TypePartsNext
    <2>3. Active' = rest
      BY <1>5, <1>6, <2>1 DEF Active
    <2>4. Lifecycle'
      BY <1>2, <1>3 DEF IInv, Lifecycle
    <2>5. Turns'
      BY <1>8, <1>11, <2>1, <2>3 DEF Turns
    <2>6. Reported'
      BY <1>8, <2>1 DEF Reported
    <2>7. RowsEnded'
      BY <1>1, <1>2, <1>3, <1>5, <2>1 DEF IInv, RowsEnded
    <2>8. Undisturbed'
      BY <1>1, <1>3, <1>9, <2>1 DEF Undisturbed
    <2>9. Causes'
      BY <1>1, <1>2, <1>3 DEF IInv, Causes, TypeOK
    <2>10. Known'
      BY <1>3, <1>8, <2>1 DEF Known
    <2>11. Bounded'
      BY <1>1, <1>3, <1>6, <2>3 DEF IInv, Bounded, Coinmates
    <2> QED
      BY <1>2, <1>3, <2>2, <2>4, <2>5, <2>6, <2>7, <2>8, <2>9, <2>10, <2>11, RunGoesOn DEF IInv
  <1> QED
    BY <1>10, <1>11

----------------------------------------------------------------------------
(* The end of a run.                                                         *)

(* What every end has in common.                                             *)
LEMMA CloseInv ==
    ASSUME IInv, CloseRun, Active = {}, row' \in [Inputs -> Rows],
           files' \subseteq Inputs, checkedFor' \subseteq Inputs, scanCompleted' \in BOOLEAN,
           verdict' \in {"none", "complete", "incomplete", "finished", "cancelled", "error"},
           \A i \in Inputs : row'[i] \in {"complete", "failed"},
           FilesAreTheCheckedReports', VerdictIsTrue'
    PROVE  IInv'
  <1>1. /\ TypeOK /\ held' = {} /\ guard' = {} /\ ~running' /\ running' \in BOOLEAN /\ phase' = "idle"
        /\ UNCHANGED <<runGeneration, mode, aborted, stage, nextIndex, failure, failures, report,
                       userCancelled, hidden>>
    BY DEF IInv, CloseRun, workers, history
  <1>2. TypeOK'
    <2>1. Flags'
      BY <1>1, Zenon DEF TypeOK, Flags
    <2>2. Kinds'
      BY <1>1 DEF TypeOK, Kinds
    <2>3. Sets' /\ Counts' /\ PerInput'
      BY <1>1 DEF TypeOK, Sets, Counts, PerInput, Stages, Reports
    <2> QED
      BY <2>1, <2>2, <2>3, TypePartsNext
  <1>3. Active' = {}
    BY <1>1 DEF Active
  <1>4. Lifecycle' /\ Turns' /\ RowsEnded' /\ Undisturbed' /\ Causes' /\ Known'
    BY <1>1 DEF Lifecycle, Turns, RowsEnded, Undisturbed, Causes, Known
  <1>5. Reported'
    BY <1>1 DEF IInv, Reported
  <1>6. Bounded' /\ Quiet'
    BY <1>1, <1>3, NobodyBoundedNext DEF Quiet
  <1> QED
    BY <1>2, <1>4, <1>5, <1>6 DEF IInv

LEMMA RowsEnd ==
    ASSUME IInv, EndRows
    PROVE  row' \in [Inputs -> Rows] /\ \A i \in Inputs : row'[i] \in {"complete", "failed"}
  BY DEF IInv, TypeOK, EndRows, Rows

(* The reports shown are staged while the guard still knows every input.     *)
LEMMA StagedFiles ==
    ASSUME IInv, phase = "tasks", NEW passed \in BOOLEAN, CloseRun,
           Stage(passed) \/ (Shown = {} /\ UNCHANGED exports)
    PROVE  files' \subseteq Inputs /\ checkedFor' \subseteq Inputs /\ FilesAreTheCheckedReports'
  <1>1. running /\ files = {} /\ guard \subseteq Inputs /\ checkedFor \subseteq Inputs
    BY DEF IInv, Lifecycle, TypeOK
  <1>2. ~running' /\ report' = report /\ hidden' = hidden
    BY DEF CloseRun, history
  <1>3. Shown' = Shown /\ Shown \subseteq Inputs
    BY <1>2 DEF Shown
  <1>4. CASE Shown = {} /\ UNCHANGED exports
    BY <1>1, <1>4 DEF exports, FilesAreTheCheckedReports
  <1>5. CASE Stage(passed)
    <2>1. /\ files' = IF passed THEN Shown ELSE {}
          /\ checkedFor' = IF passed /\ Shown # {} THEN guard ELSE {}
      BY <1>5 DEF Stage
    <2>2. hidden \/ {i \in Shown : report[i] # "refused"} \subseteq guard
      BY <1>1 DEF IInv, Known, Shown, TypeOK
    <2> QED
      BY <1>1, <1>2, <1>3, <2>1, <2>2 DEF FilesAreTheCheckedReports
  <1> QED
    BY <1>4, <1>5

(* A run that nobody stopped and whose workers are gone took every input.    *)
LEMMA AllTaken ==
    ASSUME IInv, phase = "tasks", Active = {}, failure = "none", ~aborted
    PROVE  \A i \in Inputs : \/ stage[i] = "done" /\ report[i] # "none"
                             \/ stage[i] = "failed" /\ mode = "watch" /\ failures
  <1>1. running /\ nextIndex \in 1 .. N + 1 /\ stage \in [Inputs -> Stages]
    BY DEF IInv, Lifecycle, TypeOK, Stages
  <1>2. nextIndex = N + 1
    BY <1>1 DEF IInv, Turns
  <1>3. \A i \in Inputs : stage[i] # "queued"
    BY <1>1, <1>2 DEF IInv, Turns
  <1>4. \A i \in Inputs : stage[i] \notin {"scanning", "history"}
    BY DEF Active
  <1> QED
    BY <1>1, <1>3, <1>4 DEF IInv, Undisturbed, Reported, Stages

LEMMA AllWhole ==
    ASSUME IInv, phase = "tasks", Active = {}, failure = "none", ~aborted,
           IF mode = "watch" THEN ~failures ELSE Whole
    PROVE  \A i \in Inputs : report[i] = "whole" /\ row[i] = "complete"
  <1>1. running /\ report \in [Inputs -> Reports]
    BY DEF IInv, Lifecycle, TypeOK, Reports
  <1>2. \A i \in Inputs : report[i] # "none"
    BY AllTaken
  <1>3. \A i \in Inputs : report[i] = "whole"
    BY <1>1, <1>2 DEF Whole, Shown, IInv, Undisturbed, RowsEnded, Reports
  <1> QED
    BY <1>1, <1>3 DEF IInv, Undisturbed

LEMMA RunEndsInv == ASSUME IInv, RunEnds PROVE IInv'
  <1>1. /\ phase = "tasks" /\ Active = {} /\ failure = "none" /\ mode # "candidate"
        /\ Stage(TRUE) /\ CloseRun /\ running
        /\ scanCompleted' = (~aborted /\ Completed)
        /\ verdict' = IF aborted THEN "cancelled" ELSE IF Completed THEN "complete" ELSE "incomplete"
        /\ row' = [i \in Inputs |-> IF aborted /\ row[i] \in {"queued", "running"}
                                    THEN "failed" ELSE row[i]]
    BY DEF RunEnds, Join, IInv, Lifecycle
  <1>2. row' \in [Inputs -> Rows] /\ \A i \in Inputs : row'[i] \in {"complete", "failed"}
    <2>1. row \in [Inputs -> Rows]
      BY DEF IInv, TypeOK, Rows
    <2>2. CASE aborted
      BY <1>1, <2>1, <2>2 DEF Rows
    <2>3. CASE ~aborted
      <3>1. \A i \in Inputs : stage[i] \in {"done", "failed"}
        BY <1>1, <2>3, AllTaken
      <3> QED
        BY <1>1, <2>1, <2>3, <3>1 DEF IInv, RowsEnded, Rows
    <2> QED
      BY <2>2, <2>3
  <1>3. files' \subseteq Inputs /\ checkedFor' \subseteq Inputs /\ FilesAreTheCheckedReports'
    BY <1>1, StagedFiles
  <1>4. mode' = mode /\ report' = report /\ aborted' = aborted /\ userCancelled' = userCancelled
    BY <1>1 DEF CloseRun, history
  <1>5. VerdictIsTrue'
    <2>1. verdict' = "cancelled" => userCancelled'
      BY <1>1, <1>4 DEF IInv, Causes
    <2>2. ASSUME verdict' = "complete" \/ scanCompleted'
          PROVE  ~aborted' /\ \A i \in Inputs : report'[i] = "whole" /\ row'[i] = "complete"
      <3>1. ~aborted /\ Completed
        BY <1>1, <2>2
      <3>2. IF mode = "watch" THEN ~failures ELSE Whole
        BY <1>1, <3>1 DEF Completed, IInv, TypeOK
      <3>3. \A i \in Inputs : report[i] = "whole" /\ row[i] = "complete"
        BY <1>1, <3>1, <3>2, AllWhole
      <3> QED
        BY <1>1, <1>4, <3>1, <3>3
    <2> QED
      BY <2>1, <2>2 DEF VerdictIsTrue
  <1>6. scanCompleted' \in BOOLEAN
    BY <1>1
  <1>7. verdict' \in {"none", "complete", "incomplete", "finished", "cancelled", "error"}
    BY <1>1
  <1> QED
    BY <1>1, <1>2, <1>3, <1>5, <1>6, <1>7, CloseInv

LEMMA RunEndsUnsafeInv == ASSUME IInv, RunEndsUnsafe PROVE IInv'
  <1>1. /\ phase = "tasks" /\ Active = {} /\ Stage(FALSE) /\ CloseRun /\ EndRows
        /\ verdict' = "error" /\ scanCompleted' = scanCompleted
        /\ scanCompleted \in BOOLEAN /\ ~scanCompleted
    BY DEF RunEndsUnsafe, Join, IInv, Lifecycle, TypeOK
  <1>2. files' \subseteq Inputs /\ checkedFor' \subseteq Inputs /\ FilesAreTheCheckedReports'
    BY <1>1, StagedFiles
  <1>3. VerdictIsTrue'
    BY <1>1 DEF VerdictIsTrue
  <1> QED
    BY <1>1, <1>2, <1>3, RowsEnd, CloseInv

LEMMA RunStopsInv == ASSUME IInv, NEW passed \in BOOLEAN, RunStops(passed) PROVE IInv'
  <1>1. /\ phase = "tasks" /\ Active = {} /\ CloseRun /\ EndRows
        /\ failure # "none"
        /\ Stage(passed) \/ (Shown = {} /\ UNCHANGED exports)
        /\ verdict' = IF ~passed \/ failure = "error" THEN "error" ELSE "cancelled"
        /\ scanCompleted' = scanCompleted
    BY DEF RunStops, Join
  <1>2. running /\ scanCompleted \in BOOLEAN /\ ~scanCompleted /\ failure \in {"abort", "error"}
    BY <1>1 DEF IInv, Lifecycle, TypeOK
  <1>3. files' \subseteq Inputs /\ checkedFor' \subseteq Inputs /\ FilesAreTheCheckedReports'
    BY <1>1, StagedFiles
  <1>4. VerdictIsTrue'
    BY <1>1, <1>2 DEF VerdictIsTrue, IInv, Causes, CloseRun, history
  <1>5. verdict' \in {"none", "complete", "incomplete", "finished", "cancelled", "error"}
    BY <1>1
  <1> QED
    BY <1>1, <1>2, <1>3, <1>4, <1>5, RowsEnd, CloseInv

LEMMA CandidatesEndInv == ASSUME IInv, NEW passed \in BOOLEAN, CandidatesEnd(passed) PROVE IInv'
  <1>1. /\ phase = "tasks" /\ Active = {} /\ CloseRun /\ EndRows /\ mode = "candidate"
        /\ Stage(passed)
        /\ scanCompleted' = (failure = "none" /\ Whole)
        /\ verdict' = IF ~passed THEN "error" ELSE IF failure = "none" THEN "finished" ELSE "cancelled"
    BY DEF CandidatesEnd, Join
  <1>2. running /\ failure \in {"none", "abort"} /\ row \in [Inputs -> Rows]
    BY <1>1 DEF IInv, Lifecycle, Causes, TypeOK, Rows
  <1>3. files' \subseteq Inputs /\ checkedFor' \subseteq Inputs /\ FilesAreTheCheckedReports'
    BY <1>1, StagedFiles
  <1>4. report' = report /\ aborted' = aborted /\ userCancelled' = userCancelled
    BY <1>1 DEF CloseRun, history
  <1>5. VerdictIsTrue'
    <2>1. verdict' = "cancelled" => userCancelled'
      BY <1>1, <1>2, <1>4 DEF IInv, Causes
    <2>2. ASSUME scanCompleted'
          PROVE  ~aborted' /\ \A i \in Inputs : report'[i] = "whole" /\ row'[i] = "complete"
      <3>1. failure = "none" /\ Whole /\ ~aborted
        BY <1>1, <1>2, <2>2 DEF IInv, Causes
      <3>2. \A i \in Inputs : report[i] = "whole" /\ row[i] = "complete"
        BY <1>1, <3>1, AllWhole
      <3>3. \A i \in Inputs : row'[i] = row[i]
        BY <1>1, <3>2 DEF EndRows
      <3> QED
        BY <1>4, <3>1, <3>2, <3>3
    <2> QED
      BY <1>1, <2>1, <2>2 DEF VerdictIsTrue
  <1>6. scanCompleted' \in BOOLEAN
    BY <1>1
  <1>7. verdict' \in {"none", "complete", "incomplete", "finished", "cancelled", "error"}
    BY <1>1
  <1> QED
    BY <1>1, <1>3, <1>5, <1>6, <1>7, RowsEnd, CloseInv

LEMMA NetworkFailsInv == ASSUME IInv, NetworkFails PROVE IInv'
  <1>1. /\ phase = "attaching" /\ CloseRun /\ EndRows
        /\ verdict' = IF mode = "candidate" /\ aborted THEN "cancelled" ELSE "error"
        /\ UNCHANGED <<files, checkedFor, scanCompleted>>
    BY DEF NetworkFails, exports
  <1>2. /\ running /\ TypeOK /\ failure = "none" /\ files = {} /\ ~scanCompleted
        /\ \A i \in Inputs : stage[i] = "queued"
    BY <1>1 DEF IInv, Lifecycle
  <1>3. Active = {}
    BY <1>2 DEF Active
  <1>4. FilesAreTheCheckedReports'
    BY <1>1, <1>2 DEF FilesAreTheCheckedReports
  <1>5. VerdictIsTrue'
    BY <1>1, <1>2 DEF VerdictIsTrue, IInv, Causes, CloseRun, history
  <1>6. /\ files' \subseteq Inputs /\ checkedFor' \subseteq Inputs /\ scanCompleted' \in BOOLEAN
        /\ verdict' \in {"none", "complete", "incomplete", "finished", "cancelled", "error"}
    BY <1>1, <1>2 DEF TypeOK
  <1> QED
    BY <1>1, <1>3, <1>4, <1>5, <1>6, RowsEnd, CloseInv

LEMMA ClearInv == ASSUME IInv, ClearScanner PROVE IInv'
  <1>1. /\ TypeOK /\ ~running /\ held = {} /\ guard' = {} /\ files' = {} /\ checkedFor' = {}
        /\ verdict' = "none" /\ scanCompleted' = FALSE /\ runGeneration' \in 0 .. MaxRuns
        /\ UNCHANGED <<running, mode, phase, aborted, nextIndex, failure, failures, held,
                       userCancelled, hidden>>
    BY DEF IInv, Quiet, ClearScanner, TypeOK, workers, history
  <1>2. /\ stage' \in [Inputs -> Stages] /\ row' \in [Inputs -> Rows] /\ report' \in [Inputs -> Reports]
        /\ \A i \in Inputs : stage'[i] = "queued" /\ report'[i] = "none"
    BY DEF ClearScanner, AllSet, Stages, Rows, Reports
  <1>3. TypeOK'
    <2>1. Flags'
      BY <1>1, Zenon DEF TypeOK, Flags
    <2>2. Kinds' /\ Sets' /\ Counts' /\ PerInput'
      BY <1>1, <1>2 DEF TypeOK, Kinds, Sets, Counts, PerInput
    <2> QED
      BY <2>1, <2>2, TypePartsNext
  <1>4. Active' = {}
    BY <1>2 DEF Active
  <1>5. Lifecycle' /\ Turns' /\ RowsEnded' /\ Undisturbed' /\ Causes' /\ Known'
    BY <1>1 DEF IInv, Lifecycle, Turns, RowsEnded, Undisturbed, Causes, Known
  <1>6. Reported'
    BY <1>2 DEF Reported
  <1>7. Bounded' /\ Quiet' /\ FilesAreTheCheckedReports' /\ VerdictIsTrue'
    BY <1>1, <1>4, NobodyBoundedNext DEF Quiet, FilesAreTheCheckedReports, VerdictIsTrue
  <1> QED
    BY <1>3, <1>5, <1>6, <1>7 DEF IInv

----------------------------------------------------------------------------
LEMMA TaskInv == ASSUME IInv, NEW i \in Inputs, TaskStep(i) PROVE IInv'
  BY ScannedInv, FinishInv, SeedFailsInv, WatchFailsInv, CoinSettlesInv DEF TaskStep

LEMMA EndInv == ASSUME IInv, EndStep PROVE IInv'
  BY RunEndsInv, RunEndsUnsafeInv, RunStopsInv, CandidatesEndInv DEF EndStep

LEMMA NextInv == IInv /\ [Next]_vars => IInv'
  <1> SUFFICES ASSUME IInv, [Next]_vars PROVE IInv'
    OBVIOUS
  <1>1. CASE UNCHANGED vars
    <2>1. UNCHANGED <<runGeneration, running, mode, phase, aborted, stage, nextIndex, failure,
                      failures, row, report, held, guard, files, checkedFor, scanCompleted,
                      verdict, userCancelled, hidden>>
      BY <1>1 DEF vars, run, workers, exports, history
    <2>2. Active' = Active /\ Shown' = Shown
      BY <2>1 DEF Active, Shown
    <2>3. TypeOK' /\ Lifecycle' /\ Turns'
      BY <2>1, <2>2 DEF IInv, TypeOK, Lifecycle, Turns
    <2>4. Reported' /\ RowsEnded' /\ Undisturbed' /\ Causes' /\ Known'
      BY <2>1, <2>2 DEF IInv, Reported, RowsEnded, Undisturbed, Causes, Known
    <2>5. Bounded' /\ Quiet' /\ FilesAreTheCheckedReports' /\ VerdictIsTrue'
      BY <2>1, <2>2
      DEF IInv, Bounded, Quiet, FilesAreTheCheckedReports, VerdictIsTrue
    <2> QED
      BY <2>3, <2>4, <2>5 DEF IInv
  <1>2. CASE \E m \in {"seed", "watch", "candidate"} : Start(m)
    BY <1>2, StartInv
  <1>3. CASE NetworkReady \/ CandidatesReady \/ NetworkFails
    BY <1>3, NetworkReadyInv, CandidatesReadyInv, NetworkFailsInv
  <1>4. CASE \E i \in Inputs : Progress(i) \/ TaskStep(i)
    BY <1>4, ProgressInv, TaskInv
  <1>5. CASE EndStep
    BY <1>5, EndInv
  <1>6. CASE CancelScan \/ ClearScanner \/ PageHide
    BY <1>6, PersonInv, ClearInv
  <1> QED
    BY <1>1, <1>2, <1>3, <1>4, <1>5, <1>6 DEF Next

LEMMA QuietFollows == IInv => QuietWhenIdle
  <1> SUFFICES ASSUME IInv PROVE QuietWhenIdle
    OBVIOUS
  <1>1. hidden \/ Active \subseteq guard
    BY DEF IInv, Known, Quiet, Active, TypeOK
  <1> QED
    BY <1>1 DEF IInv, Bounded, Quiet, QuietWhenIdle

(* Everything a run keeps of its tasks, for any number of them.              *)
THEOREM RunInvariant == Spec => []IInv
  BY InitInv, NextInv, PTL DEF Spec

(* No more wallets are worked on than was allowed, the tripwire knows the    *)
(* secrets of each, and a run that is over holds no secret and no task.      *)
THEOREM RunQuiet == Spec => []QuietWhenIdle
  BY RunInvariant, QuietFollows, PTL

(* The files on offer are the reports on the page, checked against the       *)
(* secrets of every wallet in them.                                          *)
THEOREM FilesChecked == Spec => []FilesAreTheCheckedReports
  BY RunInvariant, PTL DEF IInv

(* A run is complete only if each input has a whole report and nobody        *)
(* stopped it, and cancelled only if it was the person who did.              *)
THEOREM VerdictTrue == Spec => []VerdictIsTrue
  BY RunInvariant, PTL DEF IInv

----------------------------------------------------------------------------
(* What begins.                                                              *)

NoneBegins == \A i \in Inputs : stage'[i] = "scanning" => stage[i] = "scanning"

LEMMA SettleBeginsNone ==
    ASSUME IInv, NEW i \in Inputs, NEW r \in {"whole", "incomplete"},
           NEW cause \in {"abort", "error"}, aborted \/ failure # "none",
           Finish(i, r) \/ SeedFails(i, cause) \/ WatchFails(i, cause)
    PROVE  NoneBegins
  <1>1. i \in Active /\ mode # "candidate" /\ mode' = mode
    BY DEF Finish, SeedFails, WatchFails, Active, run
  <1>2. phase = "tasks" /\ TypeOK
    BY <1>1, ActiveRuns DEF IInv
  <1>3. /\ (failure # "none") \in BOOLEAN /\ aborted \in BOOLEAN /\ TRUE \in BOOLEAN
        /\ (aborted \/ failure # "none") \in BOOLEAN
    BY <1>2, Zenon DEF TypeOK
  <1>4. CASE Finish(i, r)
    <2>1. Settle(i, "done", failure # "none", aborted)
      BY <1>4 DEF Finish
    <2>2. Kept(i, "done", failure # "none", aborted)
      BY <1>1, <1>2, <1>3, <2>1, SettleKeeps, Zenon
    <2> QED
      BY <2>2 DEF Kept, NoneBegins
  <1>5. CASE SeedFails(i, cause)
    <2>1. Settle(i, "failed", TRUE, TRUE)
      BY <1>5 DEF SeedFails
    <2>2. Kept(i, "failed", TRUE, TRUE)
      BY <1>1, <1>2, <1>3, <2>1, SettleKeeps, Zenon
    <2> QED
      BY <2>2 DEF Kept, NoneBegins
  <1>6. CASE WatchFails(i, cause)
    <2>1. Settle(i, "failed", aborted \/ failure # "none", aborted)
      BY <1>6 DEF WatchFails
    <2>2. Kept(i, "failed", aborted \/ failure # "none", aborted)
      BY <1>1, <1>2, <1>3, <2>1, SettleKeeps, Zenon
    <2> QED
      BY <2>2 DEF Kept, NoneBegins
  <1> QED
    BY <1>4, <1>5, <1>6

LEMMA StoppedBeginsNone ==
    ASSUME IInv, aborted \/ failure # "none", Next PROVE NoneBegins
  <1>1. CASE \E m \in {"seed", "watch", "candidate"} : Start(m)
    BY <1>1 DEF Start, AllSet, NoneBegins
  <1>2. CASE NetworkReady
    <2>1. aborted
      BY <1>2 DEF NetworkReady, IInv, Lifecycle
    <2> QED
      BY <1>2, <2>1 DEF NetworkReady, Begin, NoneBegins
  <1>3. CASE CandidatesReady
    <2>1. aborted
      BY <1>3 DEF CandidatesReady, IInv, Lifecycle
    <2> QED
      BY <1>3, <2>1 DEF CandidatesReady, NoneBegins
  <1>4. ASSUME NEW i \in Inputs, NEW r \in {"whole", "incomplete"}, CoinSettles(i, r)
        PROVE  NoneBegins
    <2>1. failure' # "none"
      BY <1>4 DEF CoinSettles
    <2>2. stage' = [stage EXCEPT ![i] = "done"]
      BY <1>4, <2>1 DEF CoinSettles
    <2>3. stage \in [Inputs -> Stages]
      BY DEF IInv, TypeOK, Stages
    <2> QED
      BY <2>2, <2>3 DEF NoneBegins
  <1>5. ASSUME NEW i \in Inputs, Scanned(i) PROVE NoneBegins
    <2>1. stage \in [Inputs -> Stages]
      BY DEF IInv, TypeOK, Stages
    <2> QED
      BY <1>5, <2>1 DEF Scanned, NoneBegins
  <1>6. CASE \/ NetworkFails \/ EndStep \/ CancelScan \/ PageHide
             \/ \E i \in Inputs : Progress(i)
    BY <1>6
    DEF NetworkFails, EndStep, RunEnds, RunEndsUnsafe, RunStops, CandidatesEnd, CloseRun,
        CancelScan, PageHide, Progress, NoneBegins
  <1>7. CASE ClearScanner
    BY <1>7 DEF ClearScanner, AllSet, NoneBegins
  <1>8. ASSUME NEW i \in Inputs, TaskStep(i) PROVE NoneBegins
    BY <1>4, <1>5, <1>8, SettleBeginsNone DEF TaskStep
  <1> QED
    BY <1>1, <1>2, <1>3, <1>6, <1>7, <1>8 DEF Next

(* Once a run is aborted, or a task of it failed, no wallet is begun.        *)
THEOREM NoneBegun == Spec => NoneBegunAfterStop
  <1>1. IInv /\ [Next]_vars =>
          [aborted \/ failure # "none" =>
             \A i \in Inputs : stage'[i] = "scanning" => stage[i] = "scanning"]_vars
    BY StoppedBeginsNone DEF NoneBegins
  <1> QED
    BY <1>1, RunInvariant, PTL DEF Spec, NoneBegunAfterStop

=============================================================================
