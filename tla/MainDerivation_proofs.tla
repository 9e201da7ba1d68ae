------------------------ MODULE MainDerivation_proofs ------------------------
(***************************************************************************)
(* Proofs about the Deriver's main workspace: whatever the number of runs,   *)
(* edits and batches, only the current run holds a seed or a worker, what is *)
(* shown is of the source on the page, the buttons follow the runs that have *)
(* not ended, and a large request was confirmed.                             *)
(***************************************************************************)
EXTENDS MainDerivation, FiniteSetTheorems, TLAPS

Phases == {"none", "ready", "batch", "yield", "done"}
Statuses == {"none", "error", "skipped", "asking", "stopping", "cancelled", "complete"}

InputsType ==
    /\ source \in 1 .. MaxSources /\ range \in Sizes
    /\ cryptoReady \in BOOLEAN /\ automatic \in BOOLEAN /\ generation \in 0 .. revision
    /\ asked \in 0 .. source

FlagsType ==
    /\ revision \in Nat /\ cancelled \in BOOLEAN
    /\ started \in 0 .. MaxRuns /\ job \in 0 .. started

JobsType ==
    /\ phase \in [Runs -> Phases]
    /\ rev \in [Runs -> 0 .. revision]
    /\ seed \in [Runs -> {"none", "live", "wiped"}]
    /\ worker \in [Runs -> {"none", "alive", "closed"}]
    /\ seedOf \in [Runs -> 0 .. MaxSources]
    /\ at \in [Runs -> (1 .. Branches) \X (0 .. Batches)]
    /\ rejected \subseteq Runs

PageType ==
    /\ rows \in [1 .. Branches -> 0 .. Batches] /\ rowsOf \in 0 .. MaxSources
    /\ ui \in {"idle", "running"} /\ status \in Statuses

(* The batches of each branch that are there when a run is at a batch. *)
RowsAt(p) == [b \in 1 .. Branches |-> IF b < p[1] THEN Batches ELSE IF b = p[1] THEN p[2] ELSE 0]

(* What a run knows of itself. *)
RunsOK ==
    /\ OneLiveJob
    /\ \A r \in Runs : r > started => phase[r] = "none"
    /\ \A r \in Runs : phase[r] \in {"none", "ready"} => at[r] = <<1, 0>>
    /\ \A r \in rejected : phase[r] \in {"ready", "batch"}

(* The rows follow the current run: none before its first batch, and then    *)
(* exactly the batches it is past, of the source that is on the page. The    *)
(* draw of a phrase that may still be published has left none.               *)
RowsOK ==
    /\ RowsAreOfSource
    /\ job # 0 /\ phase[job] = "ready" => rows = NoRows
    /\ job # 0 /\ phase[job] \in {"batch", "yield"} =>
          /\ seedOf[job] = source
          /\ rows = RowsAt(at[job]) /\ at[job][2] < Batches
    /\ generation # 0 /\ generation = revision => job = 0 /\ rows = NoRows

(* The buttons count the runs that have not ended. *)
InFlight == {r \in Runs : phase[r] \in {"ready", "batch", "yield"}}

Counted == inFlight = Cardinality(InFlight) /\ (ui = "idle" <=> inFlight = 0)

(* A question that is pending while the request is large is about the source *)
(* of now.                                                                   *)
AskedOK == range = "large" => asked \in {0, source}

RunInv == FlagsType /\ JobsType /\ PageType /\ RunsOK /\ RowsOK /\ Counted

IInv == InputsType /\ RunInv /\ AskedOK

-----------------------------------------------------------------------------
LEMMA IsType == ASSUME IInv PROVE TypeOK
<1>1. inFlight \in 0 .. MaxRuns
  <2>1. IsFiniteSet(Runs) /\ Cardinality(Runs) = MaxRuns
    BY FS_Interval, DerivationAssumption DEF Runs
  <2>2. InFlight \subseteq Runs
    BY DEF InFlight
  <2>3. Cardinality(InFlight) <= Cardinality(Runs) /\ Cardinality(InFlight) \in Nat
    BY <2>1, <2>2, FS_Subset, FS_CardinalityType
  <2>4. QED
    BY <2>1, <2>3, DerivationAssumption DEF IInv, RunInv, Counted
<1>2. QED
  BY <1>1 DEF IInv, RunInv, TypeOK, InputsType, FlagsType, JobsType, PageType, Phases, Statuses

LEMMA InFlightFinite == IsFiniteSet(InFlight)
<1>1. IsFiniteSet(Runs) /\ InFlight \subseteq Runs
  BY FS_Interval, DerivationAssumption DEF Runs, InFlight
<1>2. QED
  BY <1>1, FS_Subset

(* A step after which the same runs are in flight, and as many are counted. *)
LEMMA SameCount ==
    ASSUME Counted, phase' = phase, inFlight' = inFlight,
           ui' = ui \/ ui' = IF inFlight = 0 THEN "idle" ELSE "running"
    PROVE  Counted'
<1>1. InFlight' = InFlight
  BY DEF InFlight
<1>2. QED
  BY <1>1 DEF Counted

(* The current job, wiped and closed. *)
LEMMA CurrentClosed ==
    ASSUME IInv, seed' = Wiped(Current), worker' = Closed(Current)
    PROVE  /\ seed' \in [Runs -> {"none", "live", "wiped"}]
           /\ worker' \in [Runs -> {"none", "alive", "closed"}]
           /\ \A r \in Runs : seed'[r] # "live" /\ worker'[r] # "alive"
<1>1. job = 0 \/ job \in Runs
  BY DerivationAssumption DEF IInv, RunInv, FlagsType, Runs
<1>2. 0 \notin Runs
  BY DEF Runs
<1>3. \A r \in Runs : (r \notin Current) => (seed[r] # "live" /\ worker[r] # "alive")
  BY <1>1, <1>2 DEF Current, IInv, RunInv, RunsOK, OneLiveJob
<1>4. QED
  BY <1>3 DEF Wiped, Closed, IInv, RunInv, JobsType

LEMMA DroppedOK ==
    ASSUME IInv
    PROVE  Dropped(Current) \subseteq Runs
           /\ \A r \in Dropped(Current) : phase[r] \in {"ready", "batch"}
<1>1. job = 0 \/ job \in Runs
  BY DerivationAssumption DEF IInv, RunInv, FlagsType, Runs
<1>2. QED
  BY <1>1 DEF Dropped, Current

LEMMA NoRowsType == NoRows \in [1 .. Branches -> 0 .. Batches]
BY DerivationAssumption DEF NoRows

-----------------------------------------------------------------------------
(* What an event does to the runs and the rows. *)

(* A step that ends the current job and, when the source changes, clears the *)
(* rows.                                                                     *)
LEMMA StopStep ==
    ASSUME IInv,
           revision' \in {revision, revision + 1, revision + 2}, job' = 0, started' = started,
           seed' = Wiped(Current), worker' = Closed(Current), rejected' = Dropped(Current),
           cancelled' \in BOOLEAN, status' \in Statuses,
           source' \in 1 .. MaxSources,
           generation' \in {0, generation, revision'},
           inFlight' = inFlight, phase' = phase, rev' = rev, seedOf' = seedOf, at' = at,
           ui' = ui \/ ui' = IF inFlight = 0 THEN "idle" ELSE "running",
           \/ rows' = NoRows /\ rowsOf' = 0
           \/ /\ rows' = rows /\ rowsOf' = rowsOf /\ source' = source
              /\ generation' = generation
    PROVE  RunInv'
<1>1. FlagsType' /\ PageType'
  BY NoRowsType, DerivationAssumption DEF IInv, RunInv, FlagsType, PageType
<1>2. JobsType'
  BY CurrentClosed, DroppedOK DEF IInv, RunInv, JobsType, FlagsType
<1>3. RunsOK'
  BY CurrentClosed, DroppedOK DEF IInv, RunInv, RunsOK, OneLiveJob
<1>4. RowsOK'
  <2>1. RowsAreOfSource'
    BY DEF RowsAreOfSource, NoRows, IInv, RunInv, RowsOK
  <2>2. generation' # 0 /\ generation' = revision' => rows' = NoRows
    BY DEF IInv, RunInv, RowsOK, InputsType, FlagsType, NoRows
  <2>3. QED
    BY <2>1, <2>2 DEF RowsOK, NoRows
<1>5. Counted'
  BY SameCount DEF IInv, RunInv
<1>6. QED
  BY <1>1, <1>2, <1>3, <1>4, <1>5 DEF RunInv

LEMMA RevokeStep ==
    ASSUME IInv, Revoke, status' \in Statuses, source' \in 1 .. MaxSources,
           generation' \in {0, generation, revision'}
    PROVE  RunInv'
BY StopStep DEF Revoke, IInv, RunInv, FlagsType

LEMMA BeginFailsStep ==
    ASSUME IInv, NEW advances \in {1, 2}, BeginFails(advances), source' \in 1 .. MaxSources,
           generation' \in {0, generation}
    PROVE  RunInv'
<1>1. revision' \in {revision, revision + 1, revision + 2} /\ job' = 0 /\ started' = started
      /\ seed' = Wiped(Current) /\ worker' = Closed(Current) /\ rejected' = Dropped(Current)
  BY DEF BeginFails
<1>2. cancelled' \in BOOLEAN /\ status' \in Statuses
  BY DEF BeginFails, Statuses
<1>3. inFlight' = inFlight /\ phase' = phase /\ rev' = rev /\ seedOf' = seedOf /\ at' = at
      /\ ui' = (IF inFlight = 0 THEN "idle" ELSE "running")
      /\ rows' = NoRows /\ rowsOf' = 0
  BY DEF BeginFails
<1>4. QED
  BY <1>1, <1>2, <1>3, StopStep

(* A step that leaves the runs alone; the source may only change while there *)
(* are neither a job nor rows.                                               *)
LEMMA StandStep ==
    ASSUME IInv, NotRevoked, status' \in Statuses, source' \in 1 .. MaxSources,
           generation' \in {0, generation},
           source' = source \/ (job = 0 /\ rows = NoRows)
    PROVE  RunInv'
<1> USE DEF NotRevoked, flags, jobs
<1>1. FlagsType' /\ PageType' /\ JobsType'
  BY DEF IInv, RunInv, FlagsType, PageType, JobsType
<1>2. RunsOK'
  BY DEF IInv, RunInv, RunsOK, OneLiveJob
<1>3. RowsOK'
  BY DEF IInv, RunInv, RowsOK, RowsAreOfSource, NoRows, RowsAt
<1>4. Counted'
  BY SameCount DEF IInv, RunInv
<1>5. QED
  BY <1>1, <1>2, <1>3, <1>4 DEF RunInv

(* The next run is one that never ran. *)
LEMMA NextRun ==
    ASSUME IInv, started < MaxRuns
    PROVE  /\ started + 1 \in Runs /\ phase[started + 1] = "none"
           /\ at[started + 1] = <<1, 0>> /\ started + 1 \notin Current
BY DerivationAssumption DEF IInv, RunInv, FlagsType, JobsType, RunsOK, Runs, Current

LEMMA BeginStep ==
    ASSUME IInv, NEW advances \in {1, 2}, Begin(advances), source' \in 1 .. MaxSources,
           generation' \in {0, generation}
    PROVE  RunInv'
<1> DEFINE n == started + 1
<1>1. n \in Runs /\ phase[n] = "none" /\ at[n] = <<1, 0>> /\ n \notin Current /\ started' = n
  BY NextRun DEF Begin
<1>2. revision' \in Nat /\ revision' > revision
  BY DEF Begin, IInv, RunInv, FlagsType
<1>3. FlagsType'
  <2>1. n \in 1 .. MaxRuns /\ started' = n /\ job' = n /\ cancelled' = FALSE
    BY <1>1 DEF Begin, Runs
  <2>2. n \in 0 .. MaxRuns /\ n \in 0 .. n
    BY <2>1, DerivationAssumption
  <2>3. QED
    BY <1>2, <2>1, <2>2 DEF FlagsType
<1>4. PageType'
  BY NoRowsType, DerivationAssumption DEF Begin, IInv, RunInv, PageType, Statuses
<1>5. JobsType'
  <2>1. phase' \in [Runs -> Phases] /\ seedOf' = seedOf /\ at' = at
    BY <1>1 DEF Begin, IInv, RunInv, JobsType, Phases
  <2>2. rev' \in [Runs -> 0 .. revision']
    BY <1>1, <1>2 DEF Begin, IInv, RunInv, FlagsType, JobsType
  <2>3. seed' \in [Runs -> {"none", "live", "wiped"}]
        /\ worker' \in [Runs -> {"none", "alive", "closed"}]
    BY <1>1 DEF Begin, IInv, RunInv, JobsType, Wiped, Closed
  <2>4. rejected' \subseteq Runs
    BY DroppedOK DEF Begin
  <2>5. QED
    BY <2>1, <2>2, <2>3, <2>4 DEF IInv, RunInv, JobsType
<1>6. RunsOK'
  <2>1. \A r \in Runs : r = n \/ (seed'[r] # "live" /\ worker'[r] # "alive")
    <3>1. \A r \in Runs : r \notin Current => (seed[r] # "live" /\ worker[r] # "alive")
      BY DEF Current, IInv, RunInv, RunsOK, OneLiveJob, Runs
    <3>2. QED
      BY <1>1, <3>1 DEF Begin, Wiped, Closed, IInv, RunInv, JobsType
  <2>2. OneLiveJob'
    BY <1>1, <2>1 DEF OneLiveJob, Begin
  <2>3. \A r \in Runs : r > started' => phase'[r] = "none"
    BY <1>1 DEF Begin, IInv, RunInv, RunsOK, JobsType, FlagsType, Runs
  <2>4. \A r \in Runs : phase'[r] \in {"none", "ready"} => at'[r] = <<1, 0>>
    BY <1>1 DEF Begin, IInv, RunInv, RunsOK, JobsType
  <2>5. \A r \in rejected' : phase'[r] \in {"ready", "batch"}
    BY <1>1, DroppedOK DEF Begin, IInv, RunInv, JobsType
  <2>6. QED
    BY <2>2, <2>3, <2>4, <2>5 DEF RunsOK
<1>7. RowsOK'
  <2>1. rows' = NoRows /\ job' = n /\ phase'[n] = "ready"
    BY <1>1 DEF Begin, IInv, RunInv, JobsType
  <2>2. ~(generation' # 0 /\ generation' = revision')
    BY <1>2 DEF IInv, RunInv, FlagsType, InputsType
  <2>3. QED
    BY <2>1, <2>2 DEF RowsOK, RowsAreOfSource, NoRows
<1>8. Counted'
  <2>1. InFlight' = InFlight \cup {n} /\ n \notin InFlight
    BY <1>1 DEF InFlight, Begin, IInv, RunInv, JobsType
  <2>2. IsFiniteSet(InFlight)
    BY InFlightFinite
  <2>3. Cardinality(InFlight') = Cardinality(InFlight) + 1 /\ Cardinality(InFlight) \in Nat
    BY <2>1, <2>2, FS_AddElement, FS_CardinalityType
  <2>4. QED
    BY <2>3 DEF Counted, Begin, IInv, RunInv
<1>9. QED
  BY <1>3, <1>4, <1>5, <1>6, <1>7, <1>8 DEF RunInv

(* A call of run(), by an event that replaced the source or not. *)
LEMMA RunCallStep ==
    ASSUME IInv, NEW auto \in BOOLEAN, NEW revoked \in BOOLEAN, NEW pending,
           RunCall(auto, revoked, pending), source' \in 1 .. MaxSources,
           generation' \in {0, generation},
           source' = source \/ revoked \/ (job = 0 /\ rows = NoRows)
    PROVE  RunInv' /\ asked' \in {0, source', pending} /\ revision' >= revision
<1> DEFINE advances == IF revoked THEN 2 ELSE 1
<1>1. advances \in {1, 2}
  OBVIOUS
<1>2. RunInv' /\ asked' \in {0, source', pending}
  <2>1. CASE /\ IF revoked THEN Revoke ELSE NotRevoked
             /\ status' \in {"error", "skipped", "asking"}
             /\ asked' \in {0, source', pending}
    <3>1. status' \in Statuses
      BY <2>1 DEF Statuses
    <3>2. CASE revoked
      BY <2>1, <3>1, <3>2, RevokeStep
    <3>3. CASE ~revoked
      BY <2>1, <3>1, <3>3, StandStep
    <3>4. QED
      BY <3>2, <3>3
  <2>2. CASE asked' = 0 /\ (Begin(advances) \/ BeginFails(advances))
    BY <1>1, <2>2, BeginStep, BeginFailsStep
  <2>3. QED
    BY <2>1, <2>2 DEF RunCall
<1>3. revision' >= revision
  BY DEF RunCall, Revoke, NotRevoked, flags, Begin, BeginFails, IInv, RunInv, FlagsType
<1>4. QED
  BY <1>2, <1>3

-----------------------------------------------------------------------------
(* The end of a run. *)
LEMMA ReleasedStep ==
    ASSUME IInv, NEW r \in Runs, phase[r] \in {"ready", "batch", "yield"}, Released(r),
           rejected' \in {rejected, rejected \ {r}}, Quiet \/ rejected' = rejected \ {r},
           UNCHANGED inputs, status' \in Statuses,
           \/ UNCHANGED <<rows, rowsOf>>
           \/ r = job /\ rows' = AllRows /\ rowsOf' = source
    PROVE  RunInv' /\ InputsType'
<1> USE DEF inputs
<1>1. FlagsType'
  BY DEF Released, IInv, RunInv, FlagsType
<1>2. PageType'
  BY DerivationAssumption DEF Released, IInv, RunInv, PageType, InputsType, AllRows
<1>3. JobsType'
  BY DerivationAssumption DEF Released, IInv, RunInv, JobsType, FlagsType, Phases, Wiped, Closed
<1>4. RunsOK'
  <2>1. OneLiveJob'
    BY DEF Released, Wiped, Closed, IInv, RunInv, RunsOK, OneLiveJob, JobsType
  <2>2. \A s \in Runs : s > started' => phase'[s] = "none"
    BY DEF Released, IInv, RunInv, RunsOK, JobsType
  <2>3. \A s \in Runs : phase'[s] \in {"none", "ready"} => at'[s] = <<1, 0>>
    BY DEF Released, IInv, RunInv, RunsOK, JobsType
  <2>4. \A s \in rejected' : phase'[s] \in {"ready", "batch"}
    BY DEF Released, IInv, RunInv, RunsOK, JobsType, Quiet
  <2>5. QED
    BY <2>1, <2>2, <2>3, <2>4 DEF RunsOK
<1>5. RowsOK'
  <2>1. RowsAreOfSource'
    BY DEF IInv, RunInv, RowsOK, RowsAreOfSource, NoRows
  <2>2. ~(job' = r)
    BY DEF Released, Runs
  <2>3. job' # 0 => (job' = job /\ rows' = rows /\ phase'[job] = phase[job]
                     /\ seedOf'[job] = seedOf[job] /\ at'[job] = at[job])
    BY <2>2 DEF Released, IInv, RunInv, FlagsType, JobsType, Runs
  <2>4. generation' # 0 /\ generation' = revision' => (job' = 0 /\ rows' = NoRows)
    BY DEF Released, Runs, IInv, RunInv, RowsOK
  <2>5. QED
    BY <2>1, <2>3, <2>4 DEF IInv, RunInv, RowsOK, RowsAt, NoRows
<1>6. Counted'
  <2>1. InFlight' = InFlight \ {r} /\ r \in InFlight
    BY DEF InFlight, Released, IInv, RunInv, JobsType
  <2>2. Cardinality(InFlight') = Cardinality(InFlight) - 1 /\ Cardinality(InFlight) \in Nat
    BY <2>1, InFlightFinite, FS_RemoveElement, FS_CardinalityType
  <2>3. Cardinality(InFlight) # 0
    BY <2>1, InFlightFinite, FS_EmptySet
  <2>4. inFlight = Cardinality(InFlight) /\ ui = "running"
    BY <2>3 DEF IInv, RunInv, Counted, PageType
  <2>5. QED
    BY <2>2, <2>4 DEF Counted, Released
<1>7. InputsType'
  BY DEF Released, IInv, InputsType
<1>8. QED
  BY <1>1, <1>2, <1>3, <1>4, <1>5, <1>6, <1>7 DEF RunInv

-----------------------------------------------------------------------------
(* Every step keeps the invariant. *)

LEMMA InputsStep ==
    ASSUME IInv, RunInv', source' \in 1 .. MaxSources, source' >= source, revision' >= revision,
           range' \in Sizes, cryptoReady' \in BOOLEAN, automatic' \in BOOLEAN,
           generation' \in {0, generation, revision'},
           asked' \in {0, source', asked}, range' = "large" => asked' \in {0, source'}
    PROVE  IInv'
<1>1. asked' \in 0 .. source'
  BY DEF IInv, InputsType
<1>2. generation' \in 0 .. revision'
  BY DEF IInv, InputsType, RunInv, FlagsType
<1>3. QED
  BY <1>1, <1>2 DEF IInv, InputsType, AskedOK

LEMMA InputTypes ==
    ASSUME IInv
    PROVE  /\ source \in 1 .. MaxSources /\ revision \in Nat /\ status \in Statuses
           /\ range \in Sizes /\ cryptoReady \in BOOLEAN /\ automatic \in BOOLEAN
           /\ cancelled \in BOOLEAN
BY DEF IInv, InputsType, RunInv, FlagsType, PageType

(* An event that replaces the source. *)
LEMMA NewSourceOK ==
    ASSUME IInv, NEW S, S \subseteq Sizes, NewSource(S)
    PROVE  source' \in 1 .. MaxSources /\ source' = source + 1 /\ source' >= source
           /\ range' \in Sizes
BY DerivationAssumption DEF IInv, InputsType, NewSource

LEMMA RevokeInputs ==
    ASSUME IInv, Revoke PROVE revision' \in Nat /\ revision' >= revision
BY DEF Revoke, IInv, RunInv, FlagsType

LEMMA EditStep == ASSUME IInv, EditMnemonic \/ EditRange \/ ClearAll PROVE IInv'
<1>1. source' \in 1 .. MaxSources /\ source' >= source /\ range' \in Sizes
  BY NewSourceOK, InputTypes DEF EditMnemonic, EditRange, ClearAll, Sizes
<1>2. Revoke /\ asked' = 0 /\ generation' = generation /\ automatic' \in BOOLEAN
      /\ cryptoReady' = cryptoReady /\ status' \in {status, "none"}
  BY DEF EditMnemonic, EditRange, ClearAll
<1>3. status' \in Statuses
  BY <1>2, InputTypes DEF Statuses
<1>4. QED
  BY <1>1, <1>2, <1>3, RevokeStep, RevokeInputs, InputsStep, InputTypes

LEMMA SelectProtocolStep == ASSUME IInv, SelectProtocol PROVE IInv'
<1>1. source' \in 1 .. MaxSources /\ source' >= source /\ range' \in Sizes
  BY NewSourceOK DEF SelectProtocol
<1>2. generation' = generation /\ automatic' = FALSE /\ cryptoReady' = cryptoReady
  BY DEF SelectProtocol
<1>3. CASE RunCall(TRUE, TRUE, 0)
  <2>1. RunInv' /\ asked' \in {0, source'} /\ revision' >= revision
    BY <1>1, <1>2, <1>3, RunCallStep
  <2>2. QED
    BY <1>1, <1>2, <2>1, InputsStep, InputTypes
<1>4. CASE Revoke /\ status' \in {status, "none"} /\ asked' = 0
  <2>1. status' \in Statuses
    BY <1>4, InputTypes DEF Statuses
  <2>2. QED
    BY <1>1, <1>2, <1>4, <2>1, RevokeStep, RevokeInputs, InputsStep, InputTypes
<1>5. QED
  BY <1>3, <1>4 DEF SelectProtocol

(* An event that leaves the source and the question alone, and the range. *)
LEMMA SameSource ==
    ASSUME IInv, RunInv', UNCHANGED <<source, range, asked>>, revision' >= revision,
           cryptoReady' \in BOOLEAN, automatic' \in BOOLEAN,
           generation' \in {0, generation, revision'}
    PROVE  IInv'
BY InputsStep, InputTypes DEF IInv, AskedOK

LEMMA ActivateFeatureStep ==
    ASSUME IInv, ActivateFeature \/ GenerateChecked \/ SelfTestFails PROVE IInv'
<1>1. /\ Revoke /\ UNCHANGED <<source, range, asked>> /\ automatic' = FALSE
      /\ cryptoReady' \in {cryptoReady, FALSE} /\ generation' \in {generation, revision'}
      /\ status' \in {status, "none", "error"}
  BY DEF ActivateFeature, GenerateChecked, SelfTestFails
<1>2. status' \in Statuses /\ cryptoReady' \in BOOLEAN
  BY <1>1, InputTypes DEF Statuses
<1>3. RunInv'
  BY <1>1, <1>2, RevokeStep, InputTypes
<1>4. QED
  BY <1>1, <1>2, <1>3, RevokeInputs, SameSource

LEMMA StoppingStep == ASSUME IInv, InvalidateGeneration \/ Cancel PROVE IInv'
<1>1. /\ revision' \in {revision, revision + 1} /\ job' = 0 /\ started' = started
      /\ seed' = Wiped(Current) /\ worker' = Closed(Current) /\ rejected' = Dropped(Current)
      /\ inFlight' = inFlight /\ phase' = phase /\ rev' = rev /\ seedOf' = seedOf /\ at' = at
      /\ ui' = ui /\ rows' = rows /\ rowsOf' = rowsOf
      /\ UNCHANGED <<source, range, cryptoReady, automatic, generation, asked>>
      /\ cancelled' \in {cancelled, TRUE} /\ status' \in {"none", "stopping"}
  BY DEF InvalidateGeneration, Cancel, inputs
<1>2. cancelled' \in BOOLEAN /\ status' \in Statuses /\ revision' >= revision
  <2>1. cancelled' \in BOOLEAN
    BY <1>1, InputTypes, Zenon
  <2>2. status' \in Statuses
    BY <1>1 DEF Statuses
  <2>3. revision' >= revision
    BY <1>1, InputTypes
  <2>4. QED
    BY <2>1, <2>2, <2>3
<1>3. RunInv'
  BY <1>1, <1>2, InputTypes, StopStep
<1>4. QED
  BY <1>1, <1>2, <1>3, SameSource, InputTypes

LEMMA SubmitStep == ASSUME IInv, Submit PROVE IInv'
<1>1. source' = source /\ range' = range /\ generation' = generation /\ automatic' = FALSE
      /\ cryptoReady' = cryptoReady /\ RunCall(FALSE, FALSE, asked)
  BY DEF Submit
<1>2. RunInv' /\ asked' \in {0, source', asked} /\ revision' >= revision
  BY <1>1, RunCallStep, InputTypes
<1>3. range' = "large" => asked' \in {0, source'}
  BY <1>1, <1>2 DEF IInv, AskedOK
<1>4. /\ source' \in 1 .. MaxSources /\ source' >= source /\ range' \in Sizes
      /\ cryptoReady' \in BOOLEAN
  BY <1>1, InputTypes, DerivationAssumption
<1>5. QED
  BY <1>1, <1>2, <1>3, <1>4, InputsStep

LEMMA AutomaticRunStep == ASSUME IInv, AutomaticRun PROVE IInv'
<1>1. source' = source /\ range' = range /\ generation' = generation /\ automatic' = FALSE
      /\ cryptoReady' = cryptoReady
  BY DEF AutomaticRun
<1>2. RunInv' /\ asked' \in {0, source', asked} /\ revision' >= revision
  <2>1. CASE RunCall(TRUE, FALSE, asked)
    BY <1>1, <2>1, RunCallStep, InputTypes
  <2>2. CASE UNCHANGED <<asked, flags, jobs, page>>
    <3>1. NotRevoked /\ status' = status /\ asked' = asked /\ revision' = revision
      BY <2>2 DEF NotRevoked, page, flags
    <3>2. QED
      BY <1>1, <3>1, StandStep, InputTypes
  <2>3. QED
    BY <2>1, <2>2 DEF AutomaticRun
<1>3. range' = "large" => asked' \in {0, source'}
  BY <1>1, <1>2 DEF IInv, AskedOK
<1>4. /\ source' \in 1 .. MaxSources /\ source' >= source /\ range' \in Sizes
      /\ cryptoReady' \in BOOLEAN
  BY <1>1, InputTypes, DerivationAssumption
<1>5. QED
  BY <1>1, <1>2, <1>3, <1>4, InputsStep

LEMMA GeneratePhraseStep == ASSUME IInv, GeneratePhrase PROVE IInv'
<1>1. source' \in 1 .. MaxSources /\ source' >= source /\ range' = "small"
  BY NewSourceOK DEF GeneratePhrase, NewSource, Sizes
<1>2. generation' = generation /\ automatic' = FALSE /\ cryptoReady' = cryptoReady
      /\ RunCall(TRUE, TRUE, asked)
  BY DEF GeneratePhrase
<1>3. RunInv' /\ asked' \in {0, source', asked} /\ revision' >= revision
  BY <1>1, <1>2, RunCallStep
<1>4. QED
  BY <1>1, <1>2, <1>3, InputsStep, InputTypes DEF Sizes

(* The phrase that was drawn is published only while nothing was derived     *)
(* from the one it replaces.                                                 *)
LEMMA GeneratedCheckedStep == ASSUME IInv, GeneratedChecked PROVE IInv'
<1>1. generation # 0 /\ generation' = 0 /\ cryptoReady' = cryptoReady
  BY DEF GeneratedChecked
<1>2. CASE Publishes
  <2>1. NewSource({"small"}) /\ automatic' = FALSE /\ RunCall(TRUE, FALSE, asked)
    BY <1>2 DEF GeneratedChecked
  <2>2. source' \in 1 .. MaxSources /\ source' >= source /\ range' = "small"
    BY <2>1, NewSourceOK DEF NewSource, Sizes
  <2>3. job = 0 /\ rows = NoRows
    BY <1>1, <1>2 DEF Publishes, IInv, RunInv, RowsOK
  <2>4. RunInv' /\ asked' \in {0, source', asked} /\ revision' >= revision
    BY <1>1, <2>1, <2>2, <2>3, RunCallStep
  <2>5. QED
    BY <1>1, <2>1, <2>2, <2>4, InputsStep, InputTypes DEF Sizes
<1>3. CASE ~Publishes
  <2>1. UNCHANGED <<source, range, automatic, asked, flags, jobs, page>>
    BY <1>3 DEF GeneratedChecked
  <2>2. NotRevoked /\ status' = status /\ revision' = revision
    BY <2>1 DEF NotRevoked, page, flags
  <2>3. RunInv'
    BY <1>1, <2>1, <2>2, StandStep, InputTypes
  <2>4. QED
    BY <1>1, <2>1, <2>2, <2>3, SameSource, InputTypes
<1>4. QED
  BY <1>2, <1>3

LEMMA GenerationFailsStep == ASSUME IInv, GenerationFails PROVE IInv'
<1>1. generation' = 0 /\ UNCHANGED <<source, range, cryptoReady, automatic, asked>>
  BY DEF GenerationFails
<1>2. NotRevoked /\ status' \in {"error", status} /\ revision' = revision
  BY DEF GenerationFails, NotRevoked, flags
<1>3. status' \in Statuses
  BY <1>2, InputTypes DEF Statuses
<1>4. RunInv'
  BY <1>1, <1>2, <1>3, StandStep, InputTypes
<1>5. QED
  BY <1>1, <1>2, <1>4, SameSource, InputTypes

LEMMA EventStep == ASSUME IInv, Event PROVE IInv'
BY EditStep, SelectProtocolStep, ActivateFeatureStep, StoppingStep, SubmitStep, AutomaticRunStep,
   GeneratePhraseStep, GeneratedCheckedStep, GenerationFailsStep DEF Event

-----------------------------------------------------------------------------
(* The steps of a run. *)
Active(r) == phase[r] \in {"ready", "batch", "yield"}

(* A step of a run that leaves the inputs alone. *)
LEMMA RunInputs == ASSUME IInv, UNCHANGED inputs, RunInv', revision' = revision PROVE IInv'
BY SameSource, InputTypes DEF inputs

(* The run ends without more rows. *)
LEMMA EndStep ==
    ASSUME IInv, NEW r \in Runs, Active(r), Released(r), Quiet, rejected' = rejected,
           UNCHANGED <<inputs, rows, rowsOf>>, status' \in Statuses
    PROVE  IInv'
<1>1. RunInv' /\ revision' = revision
  BY ReleasedStep DEF Active, Released
<1>2. QED
  BY <1>1, RunInputs

LEMMA FailedStatus ==
    ASSUME IInv, NEW r \in Runs, Failed(r)
    PROVE  status' \in Statuses /\ UNCHANGED <<rows, rowsOf>> /\ (status' = "complete" => status = "complete")
BY InputTypes DEF Failed, Statuses

LEMMA CutShortStatus ==
    ASSUME IInv, NEW r \in Runs, CutShort(r), Stale(r) \/ cancelled
    PROVE  status' \in Statuses /\ UNCHANGED <<rows, rowsOf>> /\ Released(r)
           /\ (status' = "complete" => status = "complete")
<1>1. status' = status \/ status' = "cancelled"
  BY DEF CutShort, Complete
<1>2. QED
  BY <1>1, InputTypes DEF CutShort, Statuses

LEMMA WorkerFailsStep == ASSUME IInv, NEW r \in Runs, WorkerFails(r) PROVE IInv'
BY EndStep, FailedStatus DEF WorkerFails, Active

LEMMA RejectedStep == ASSUME IInv, NEW r \in Runs, Rejected(r) PROVE IInv'
<1>1. phase[r] \in {"ready", "batch", "yield"}
  BY DEF Rejected, IInv, RunInv, RunsOK
<1>2. RunInv'
  BY <1>1, FailedStatus, ReleasedStep DEF Rejected
<1>3. QED
  BY <1>2, RunInputs DEF Rejected, Released

LEMMA WorkerReadyStep == ASSUME IInv, NEW r \in Runs, WorkerReady(r) PROVE IInv'
<1>1. Active(r) /\ Quiet /\ rejected' = rejected /\ UNCHANGED inputs /\ worker[r] = "alive"
      /\ phase[r] = "ready"
  BY DEF WorkerReady, Active
<1>2. CASE Released(r) /\ UNCHANGED <<rows, rowsOf, status>>
  BY <1>1, <1>2, EndStep, InputTypes
<1>3. CASE Released(r) /\ Failed(r)
  BY <1>1, <1>3, EndStep, FailedStatus
<1>4. CASE /\ seed' = [seed EXCEPT ![r] = "live"]
           /\ seedOf' = [seedOf EXCEPT ![r] = source]
           /\ phase' = [phase EXCEPT ![r] = "batch"]
           /\ UNCHANGED <<flags, rev, worker, at, page>>
  <2> USE DEF flags, page, inputs
  <2>1. job = r /\ at[r] = <<1, 0>> /\ rows = NoRows /\ job # 0
    <3>1. job = r /\ at[r] = <<1, 0>> /\ job # 0
      BY <1>1 DEF IInv, RunInv, RunsOK, OneLiveJob, Runs
    <3>2. QED
      BY <1>1, <3>1 DEF IInv, RunInv, RowsOK
  <2>2. FlagsType' /\ PageType'
    BY <1>4 DEF IInv, RunInv, FlagsType, PageType
  <2>3. JobsType'
    BY <1>1, <1>4 DEF IInv, RunInv, JobsType, InputsType, Phases
  <2>4. RunsOK'
    BY <1>1, <1>4, <2>1 DEF IInv, RunInv, RunsOK, OneLiveJob, JobsType, Quiet
  <2>5. RowsOK'
    <3>1. at'[job'] = <<1, 0>> /\ rows' = NoRows /\ seedOf'[job'] = source' /\ phase'[job'] = "batch"
          /\ generation' = generation /\ revision' = revision /\ job' = r /\ rowsOf' = rowsOf
      BY <1>1, <1>4, <2>1 DEF IInv, RunInv, JobsType
    <3>2. NoRows = RowsAt(<<1, 0>>)
      BY DEF NoRows, RowsAt
    <3>3. ~(generation # 0 /\ generation = revision)
      BY <2>1 DEF IInv, RunInv, RowsOK
    <3>4. 0 < Batches
      BY DerivationAssumption
    <3>5. QED
      BY <3>1, <3>2, <3>3, <3>4 DEF RowsOK, RowsAreOfSource, NoRows, RowsAt
  <2>6. Counted'
    <3>1. InFlight' = InFlight
      BY <1>1, <1>4 DEF InFlight, IInv, RunInv, JobsType
    <3>2. QED
      BY <1>4, <3>1 DEF IInv, RunInv, Counted
  <2>7. QED
    BY <1>1, <1>4, <2>2, <2>3, <2>4, <2>5, <2>6, RunInputs DEF RunInv
<1>5. QED
  BY <1>2, <1>3, <1>4 DEF WorkerReady

LEMMA YieldDoneStep == ASSUME IInv, NEW r \in Runs, YieldDone(r) PROVE IInv'
<1>1. Active(r) /\ Quiet /\ rejected' = rejected /\ UNCHANGED inputs /\ phase[r] = "yield"
  BY DEF YieldDone, Active
<1>2. CASE Stale(r) \/ cancelled
  BY <1>1, <1>2, EndStep, CutShortStatus DEF YieldDone
<1>3. CASE ~(Stale(r) \/ cancelled)
  <2> USE DEF flags, page, inputs
  <2>1. phase' = [phase EXCEPT ![r] = "batch"]
        /\ UNCHANGED <<flags, rev, seed, worker, seedOf, at, page>>
    BY <1>3 DEF YieldDone
  <2>2. FlagsType' /\ PageType' /\ JobsType'
    BY <1>1, <2>1 DEF IInv, RunInv, FlagsType, PageType, JobsType, Phases
  <2>3. RunsOK'
    BY <1>1, <2>1 DEF IInv, RunInv, RunsOK, OneLiveJob, JobsType, Quiet
  <2>4. RowsOK'
    <3>1. job # 0 => (phase'[job] = phase[job] \/ (phase[job] = "yield" /\ phase'[job] = "batch"))
      BY <1>1, <2>1 DEF IInv, RunInv, JobsType, FlagsType, Runs
    <3>2. QED
      BY <1>1, <2>1, <3>1 DEF IInv, RunInv, RowsOK, RowsAreOfSource, NoRows, RowsAt
  <2>5. Counted'
    <3>1. InFlight' = InFlight
      BY <1>1, <2>1 DEF InFlight, IInv, RunInv, JobsType
    <3>2. QED
      BY <2>1, <3>1 DEF IInv, RunInv, Counted
  <2>6. QED
    BY <1>1, <2>1, <2>2, <2>3, <2>4, <2>5, RunInputs DEF RunInv
<1>4. QED
  BY <1>2, <1>3

(* The batch of the current run that is published. *)
LEMMA PublishStep ==
    ASSUME IInv, NEW r \in Runs, Quiet, phase[r] = "batch", worker[r] = "alive"
    PROVE  /\ job = r /\ job # 0 /\ seedOf[r] = source
           /\ at[r] \in (1 .. Branches) \X (0 .. Batches) /\ at[r][2] + 1 \in 1 .. Batches
           /\ [rows EXCEPT ![at[r][1]] = at[r][2] + 1] = RowsAt(<<at[r][1], at[r][2] + 1>>)
           /\ ~(generation # 0 /\ generation = revision)
<1>1. job = r /\ job # 0
  BY DEF IInv, RunInv, RunsOK, OneLiveJob, Runs
<1>2. seedOf[r] = source /\ rows = RowsAt(at[r]) /\ at[r][2] < Batches
  BY <1>1 DEF IInv, RunInv, RowsOK
<1>3. at[r] \in (1 .. Branches) \X (0 .. Batches)
  BY DEF IInv, RunInv, JobsType
<1>4. at[r][2] + 1 \in 1 .. Batches /\ at[r][1] \in 1 .. Branches
  BY <1>2, <1>3, DerivationAssumption
<1>5. [rows EXCEPT ![at[r][1]] = at[r][2] + 1] = RowsAt(<<at[r][1], at[r][2] + 1>>)
  BY <1>2, <1>4, DerivationAssumption DEF RowsAt
<1>6. ~(generation # 0 /\ generation = revision)
  BY <1>1 DEF IInv, RunInv, RowsOK
<1>7. QED
  BY <1>1, <1>2, <1>3, <1>4, <1>5, <1>6

(* After the last batch of the last branch, everything is there. *)
LEMMA LastBatch == RowsAt(<<Branches, Batches>>) = AllRows
BY DerivationAssumption DEF RowsAt, AllRows

(* The last batch of a branch leaves nothing of it out. *)
LEMMA NextBranch ==
    ASSUME NEW b \in 1 .. Branches PROVE RowsAt(<<b + 1, 0>>) = RowsAt(<<b, Batches>>)
BY DerivationAssumption DEF RowsAt

LEMMA WorkerReplyStep == ASSUME IInv, NEW r \in Runs, WorkerReply(r) PROVE IInv'
<1> DEFINE b == at[r][1]
<1> DEFINE k == at[r][2] + 1
<1>1. Active(r) /\ Quiet /\ rejected' = rejected /\ UNCHANGED inputs /\ phase[r] = "batch"
      /\ worker[r] = "alive"
  BY DEF WorkerReply, Active
<1>2. CASE Stale(r) \/ cancelled
  BY <1>1, <1>2, EndStep, CutShortStatus DEF WorkerReply
<1>3. CASE ~(Stale(r) \/ cancelled)
  <2>1. rows' = [rows EXCEPT ![b] = k] /\ rowsOf' = seedOf[r]
    BY <1>3 DEF WorkerReply
  <2>2. job = r /\ job # 0 /\ seedOf[r] = source /\ b \in 1 .. Branches /\ k \in 1 .. Batches
        /\ rows' = RowsAt(<<b, k>>) /\ ~(generation # 0 /\ generation = revision)
    BY <1>1, <2>1, PublishStep
  <2>3. CASE BranchDone(k) /\ b = Branches
    <3>1. Released(r) /\ Complete(r)
      BY <1>3, <2>3 DEF WorkerReply
    <3>2. rows' = AllRows /\ rowsOf' = source /\ status' \in Statuses
      BY <2>1, <2>2, <2>3, <3>1, LastBatch DEF BranchDone, Complete, Statuses
    <3>3. RunInv'
      BY <1>1, <2>2, <3>1, <3>2, ReleasedStep DEF Active
    <3>4. QED
      BY <1>1, <3>1, <3>3, RunInputs DEF Released
  <2>4. CASE ~(BranchDone(k) /\ b = Branches)
    <3> DEFINE p == IF BranchDone(k) THEN <<b + 1, 0>> ELSE <<b, k>>
    <3>1. /\ at' = [at EXCEPT ![r] = p]
          /\ phase' = [phase EXCEPT ![r] = IF BranchDone(k) THEN "batch" ELSE "yield"]
          /\ UNCHANGED <<flags, rev, seed, worker, seedOf, ui, status>>
      BY <1>3, <2>4 DEF WorkerReply
    <3>2. p \in (1 .. Branches) \X (0 .. Batches) /\ p[2] < Batches /\ RowsAt(p) = rows'
      <4>1. CASE BranchDone(k)
        <5>1. k = Batches /\ b # Branches
          BY <2>4, <4>1 DEF BranchDone
        <5>2. b + 1 \in 1 .. Branches /\ 0 \in 0 .. Batches /\ 0 < Batches
          BY <2>2, <5>1, DerivationAssumption
        <5>3. RowsAt(<<b + 1, 0>>) = rows'
          BY <2>2, <5>1, NextBranch
        <5>4. QED
          BY <4>1, <5>2, <5>3
      <4>2. CASE ~BranchDone(k)
        BY <2>2, <4>2, DerivationAssumption DEF BranchDone
      <4>3. QED
        BY <4>1, <4>2
    <3>3. phase'[r] \in {"batch", "yield"} /\ \A s \in Runs : s # r => phase'[s] = phase[s]
      BY <3>1 DEF IInv, RunInv, JobsType
    <3>4. at'[r] = p /\ \A s \in Runs : s # r => at'[s] = at[s]
      BY <3>1 DEF IInv, RunInv, JobsType
    <3>5. FlagsType'
      BY <3>1 DEF flags, IInv, RunInv, FlagsType
    <3>6. PageType'
      <4>1. rows' \in [1 .. Branches -> 0 .. Batches]
        BY <2>1, <2>2 DEF IInv, RunInv, PageType
      <4>2. QED
        BY <2>1, <2>2, <3>1, <4>1, InputTypes DEF flags, IInv, RunInv, PageType
    <3>7. JobsType'
      <4>1. phase' \in [Runs -> Phases]
        BY <3>1 DEF IInv, RunInv, JobsType, Phases
      <4>2. at' \in [Runs -> (1 .. Branches) \X (0 .. Batches)]
        BY <3>1, <3>2 DEF IInv, RunInv, JobsType
      <4>3. QED
        BY <1>1, <3>1, <4>1, <4>2 DEF flags, IInv, RunInv, JobsType
    <3>8. RunsOK'
      BY <1>1, <3>1, <3>3, <3>4 DEF flags, IInv, RunInv, RunsOK, OneLiveJob, Quiet
    <3>9. RowsOK'
      <4>1. job' = r /\ generation' = generation /\ revision' = revision /\ source' = source
            /\ seedOf' = seedOf
        BY <1>1, <2>2, <3>1 DEF flags, inputs
      <4>2. RowsAt(at'[job']) = rows'
        BY <3>2, <3>4, <4>1
      <4>3. QED
        BY <2>1, <2>2, <3>2, <3>3, <3>4, <4>1, <4>2 DEF RowsOK, RowsAreOfSource
    <3>10. Counted'
      <4>1. InFlight' = InFlight
        BY <1>1, <3>3 DEF InFlight
      <4>2. QED
        BY <3>1, <4>1 DEF flags, IInv, RunInv, Counted
    <3>11. QED
      BY <1>1, <3>1, <3>5, <3>6, <3>7, <3>8, <3>9, <3>10, RunInputs DEF RunInv, flags
  <2>5. QED
    BY <2>3, <2>4
<1>4. QED
  BY <1>2, <1>3

-----------------------------------------------------------------------------
LEMMA InitInv == ASSUME Init PROVE IInv
<1> USE DEF Init
<1>1. InputsType /\ FlagsType /\ JobsType /\ PageType
  <2>1. 1 \in 1 .. Branches /\ 1 \in 1 .. MaxSources
    BY DerivationAssumption
  <2>2. InputsType
    <3>1. cryptoReady \in BOOLEAN /\ automatic \in BOOLEAN
      BY Zenon
    <3>2. source \in 1 .. MaxSources /\ range \in Sizes /\ generation \in 0 .. revision
          /\ asked \in 0 .. source
      BY <2>1
    <3>3. QED
      BY <3>1, <3>2 DEF InputsType
  <2>3. FlagsType
    <3>1. cancelled \in BOOLEAN
      BY Zenon
    <3>2. revision \in Nat /\ started \in 0 .. MaxRuns /\ job \in 0 .. started
      BY DerivationAssumption
    <3>3. QED
      BY <3>1, <3>2 DEF FlagsType
  <2>4. JobsType
    BY <2>1, DerivationAssumption DEF JobsType, Phases
  <2>5. PageType
    BY NoRowsType, DerivationAssumption DEF PageType, Statuses
  <2>6. QED
    BY <2>2, <2>3, <2>4, <2>5
<1>2. RunsOK
  BY DEF RunsOK, OneLiveJob
<1>3. RowsOK
  BY DEF RowsOK, RowsAreOfSource
<1>4. Counted
  <2>1. InFlight = {}
    BY DEF InFlight
  <2>2. QED
    BY <2>1, FS_EmptySet DEF Counted
<1>5. QED
  BY <1>1, <1>2, <1>3, <1>4 DEF IInv, RunInv, AskedOK

LEMMA NextInv == ASSUME IInv, [Next]_vars PROVE IInv'
<1>1. CASE Event
  BY <1>1, EventStep
<1>2. ASSUME NEW r \in Runs, RunStep(r) PROVE IInv'
  BY <1>2, WorkerReadyStep, WorkerFailsStep, WorkerReplyStep, YieldDoneStep, RejectedStep DEF RunStep
<1>3. CASE UNCHANGED vars
  <2> USE <1>3 DEF vars, inputs, flags, jobs, page
  <2>1. FlagsType' /\ JobsType' /\ PageType' /\ InputsType' /\ AskedOK'
    BY DEF IInv, RunInv, FlagsType, JobsType, PageType, InputsType, AskedOK
  <2>2. RunsOK' /\ RowsOK'
    BY DEF IInv, RunInv, RunsOK, RowsOK, OneLiveJob, RowsAreOfSource, NoRows, RowsAt
  <2>3. Counted'
    BY SameCount DEF IInv, RunInv
  <2>4. QED
    BY <2>1, <2>2, <2>3 DEF IInv, RunInv
<1>4. QED
  BY <1>1, <1>2, <1>3 DEF Next

LEMMA Inductive == Spec => []IInv
<1>1. Init => IInv
  BY InitInv
<1>2. IInv /\ [Next]_vars => IInv'
  BY NextInv
<1>3. QED
  BY <1>1, <1>2, PTL DEF Spec

(* A seed or a worker lives only in the current run's job, after any         *)
(* sequence of edits, stops and restarts.                                    *)
THEOREM LiveJob == Spec => []OneLiveJob
<1>1. IInv => OneLiveJob
  BY DEF IInv, RunInv, RunsOK
<1>2. QED
  BY <1>1, Inductive, PTL

(* What is shown was derived from the phrase, passphrase and range that are  *)
(* on the page now, also after a phrase that was drawn in the meantime is    *)
(* published.                                                                *)
THEOREM RowsOfSource == Spec => []RowsAreOfSource
<1>1. IInv => RowsAreOfSource
  BY DEF IInv, RunInv, RowsOK
<1>2. QED
  BY <1>1, Inductive, PTL

(* The state is well typed, inFlight counts the runs that have not ended,    *)
(* and the buttons follow it.                                                *)
THEOREM ButtonsFollow == Spec => []BusyWhileInFlight
<1>1. IInv => BusyWhileInFlight
  BY IsType DEF IInv, RunInv, Counted, InFlight, BusyWhileInFlight
<1>2. QED
  BY <1>1, Inductive, PTL

-----------------------------------------------------------------------------
(* No event reports a run complete. *)
LEMMA RunCallStatus ==
    ASSUME NEW auto, NEW revoked, NEW pending, RunCall(auto, revoked, pending)
    PROVE  status' # "complete"
BY DEF RunCall, Begin, BeginFails

LEMMA EventStatus == ASSUME Event PROVE status' = "complete" => status = "complete"
<1>1. CASE EditMnemonic \/ EditRange \/ ActivateFeature \/ ClearAll \/ InvalidateGeneration
           \/ Cancel \/ SelfTestFails \/ GenerateChecked \/ GenerationFails
  BY <1>1 DEF EditMnemonic, EditRange, ActivateFeature, ClearAll, InvalidateGeneration, Cancel,
     SelfTestFails, GenerateChecked, GenerationFails
<1>2. CASE SelectProtocol \/ Submit \/ AutomaticRun \/ GeneratePhrase \/ GeneratedChecked
  BY <1>2, RunCallStatus DEF SelectProtocol, Submit, AutomaticRun, GeneratePhrase,
     GeneratedChecked, page
<1>3. QED
  BY <1>1, <1>2 DEF Event

LEMMA CompleteReply ==
    ASSUME IInv, NEW r \in Runs, WorkerReply(r), status' = "complete", status # "complete"
    PROVE  rows' = AllRows /\ rowsOf' = source'
<1> DEFINE b == at[r][1]
<1> DEFINE k == at[r][2] + 1
<1>1. Quiet /\ UNCHANGED inputs /\ phase[r] = "batch" /\ worker[r] = "alive"
  BY DEF WorkerReply
<1>2. ~(Stale(r) \/ cancelled)
  BY CutShortStatus DEF WorkerReply
<1>3. rows' = [rows EXCEPT ![b] = k] /\ rowsOf' = seedOf[r]
  BY <1>2 DEF WorkerReply
<1>4. BranchDone(k) /\ b = Branches
  BY <1>2 DEF WorkerReply
<1>5. rows' = RowsAt(<<b, k>>) /\ seedOf[r] = source
  BY <1>1, <1>3, PublishStep
<1>6. QED
  BY <1>1, <1>3, <1>4, <1>5, LastBatch DEF BranchDone, inputs

(* A run is reported complete only when every batch of every branch is there *)
(* and all of it is of the source on the page: never by a run that was       *)
(* revoked or cancelled while it waited.                                     *)
THEOREM CompleteIsAll == Spec => CompleteMeansAll
<1>1. ASSUME IInv, [Next]_vars, status' = "complete", status # "complete"
      PROVE  rows' = AllRows /\ rowsOf' = source'
  <2>1. CASE Event
    BY <1>1, <2>1, EventStatus
  <2>2. ASSUME NEW r \in Runs, RunStep(r) PROVE rows' = AllRows /\ rowsOf' = source'
    <3>1. CASE WorkerReply(r)
      BY <1>1, <3>1, CompleteReply
    <3>2. CASE WorkerReady(r) \/ WorkerFails(r) \/ Rejected(r)
      BY <1>1, <3>2, FailedStatus DEF WorkerReady, WorkerFails, Rejected, page
    <3>3. CASE YieldDone(r)
      BY <1>1, <3>3, CutShortStatus DEF YieldDone, page
    <3>4. QED
      BY <2>2, <3>1, <3>2, <3>3 DEF RunStep
  <2>3. CASE UNCHANGED vars
    BY <1>1, <2>3 DEF vars, page
  <2>4. QED
    BY <1>1, <2>1, <2>2, <2>3 DEF Next
<1>2. IInv /\ [Next]_vars
      => [status' = "complete" /\ status # "complete" => rows' = AllRows /\ rowsOf' = source']_vars
  BY <1>1
<1>3. QED
  BY <1>2, Inductive, PTL DEF Spec, CompleteMeansAll

-----------------------------------------------------------------------------
(* A run that begins was admitted. *)
LEMMA RunCallBegins ==
    ASSUME IInv, NEW auto \in BOOLEAN, NEW revoked \in BOOLEAN, NEW pending,
           RunCall(auto, revoked, pending), started' # started, range' = "large"
    PROVE  ~auto /\ pending # 0 /\ cryptoReady
<1>1. Revoke => started' = started
  BY DEF Revoke
<1>2. NotRevoked => started' = started
  BY DEF NotRevoked, flags
<1>3. QED
  BY <1>1, <1>2 DEF RunCall, Admitted

(* A large request begins only after the person was asked about this very    *)
(* phrase and range: an edit, a phrase that is drawn or the timer between    *)
(* the question and the answer never passes for one.                         *)
THEOREM LargeConfirmed == Spec => LargeIsConfirmed
<1>1. ASSUME IInv, [Next]_vars, started' > started, range' = "large"
      PROVE  asked = source' /\ source' = source
  <2>1. started' # started
    BY <1>1 DEF IInv, RunInv, FlagsType
  <2>2. CASE Submit
    <3>1. asked # 0
      BY <1>1, <2>1, <2>2, RunCallBegins DEF Submit
    <3>2. QED
      BY <1>1, <2>2, <3>1 DEF Submit, IInv, AskedOK
  <2>3. CASE SelectProtocol \/ AutomaticRun \/ GeneratePhrase \/ GeneratedChecked
    <3>1. UNCHANGED <<flags>> => started' = started
      BY DEF flags
    <3>2. Revoke => started' = started
      BY DEF Revoke
    <3>3. QED
      BY <1>1, <2>1, <2>3, <3>1, <3>2, RunCallBegins DEF SelectProtocol, AutomaticRun,
         GeneratePhrase, GeneratedChecked
  <2>4. CASE EditMnemonic \/ EditRange \/ ActivateFeature \/ ClearAll \/ InvalidateGeneration
             \/ Cancel \/ SelfTestFails \/ GenerateChecked \/ GenerationFails
    BY <2>1, <2>4 DEF EditMnemonic, EditRange, ActivateFeature, ClearAll, InvalidateGeneration,
       Cancel, SelfTestFails, GenerateChecked, GenerationFails, Revoke, flags
  <2>5. ASSUME NEW r \in Runs, RunStep(r) PROVE started' = started
    BY <2>5 DEF RunStep, WorkerReady, WorkerFails, WorkerReply, YieldDone, Rejected, CutShort,
       Released, flags
  <2>6. CASE UNCHANGED vars
    BY <2>1, <2>6 DEF vars, flags
  <2>7. QED
    BY <1>1, <2>1, <2>2, <2>3, <2>4, <2>5, <2>6 DEF Next, Event
<1>2. IInv /\ [Next]_vars
      => [started' > started /\ range' = "large" => asked = source' /\ source' = source]_vars
  BY <1>1
<1>3. QED
  BY <1>2, Inductive, PTL DEF Spec, LargeIsConfirmed
=============================================================================
