---------------------------- MODULE MainDerivation ----------------------------
(***************************************************************************)
(* The Deriver's main workspace: the runs of MainDerivation                  *)
(* (apps/key-derivation/src/ui/main-derivation.ts), the batches of a         *)
(* DerivationStream (packages/coin-protocols/src/coins/derivation-stream.ts), *)
(* the confirmation of large requests (derivation-request.ts), and the       *)
(* events of KeyDerivationController (controller.ts) that revoke a run.      *)
(*                                                                          *)
(* The source (phrase, passphrase, protocol and range) is a version number.  *)
(* A run whose worker was closed while it waited for it is rejected in a     *)
(* microtask: it resumes before the next event, but after the event that     *)
(* closed it, which may have begun another run.                              *)
(***************************************************************************)
EXTENDS Integers, FiniteSets

CONSTANTS
    Branches,       \* result branches of a request: receive, then change
    Batches,        \* batches of a branch
    MaxRuns,        \* bound: the runs of a session
    MaxSources,     \* bound: the versions of the source
    MaxRevision     \* bound: the revision at which an event may still revoke

ASSUME DerivationAssumption ==
    /\ Branches \in Nat \ {0} /\ Batches \in Nat \ {0}
    /\ MaxRuns \in Nat /\ MaxSources \in Nat \ {0} /\ MaxRevision \in Nat

Runs == 1 .. MaxRuns
Sizes == {"small", "large"}

VARIABLES
    source, range,      \* the version of the source; how large its request is
    cryptoReady,        \* the self-tests passed
    automatic,          \* AutomaticDerivationScheduler: its timer is set
    generation,         \* the revision a phrase is being drawn for, 0 when none is
    asked,              \* DerivationConsent: the source it asked for, 0 when none
    revision, inFlight, cancelled, job,     \* MainDerivation; job 0 is none
    started,            \* runs so far
    phase,              \* a run: "none", "ready", "batch", "yield" or "done"
    rev,                \* the revision it began with
    seed, worker,       \* its DerivationJob
    seedOf,             \* history: the source its seed was read from
    at,                 \* the branch and the batch it is at
    rejected,           \* runs whose promise was rejected and that resume next
    rows, rowsOf,       \* DerivationResults: batches of each branch, their source
    ui, status          \* the buttons; the last message

inputs == <<source, range, cryptoReady, automatic, generation, asked>>
flags == <<revision, inFlight, cancelled, job, started>>
jobs == <<phase, rev, seed, worker, seedOf, at, rejected>>
page == <<rows, rowsOf, ui, status>>
vars == <<inputs, flags, jobs, page>>

NoRows == [b \in 1 .. Branches |-> 0]
AllRows == [b \in 1 .. Branches |-> Batches]
Quiet == rejected = {}

Init ==
    /\ source = 1 /\ range \in Sizes
    /\ cryptoReady = TRUE /\ automatic = FALSE /\ generation = 0
    /\ asked = 0
    /\ revision = 0 /\ inFlight = 0 /\ cancelled = FALSE /\ job = 0 /\ started = 0
    /\ phase = [r \in Runs |-> "none"] /\ rev = [r \in Runs |-> 0]
    /\ seed = [r \in Runs |-> "none"] /\ worker = [r \in Runs |-> "none"]
    /\ seedOf = [r \in Runs |-> 0] /\ at = [r \in Runs |-> <<1, 0>>]
    /\ rejected = {}
    /\ rows = NoRows /\ rowsOf = 0 /\ ui = "idle" /\ status = "none"

-----------------------------------------------------------------------------
(* Mutated form of Wiped: the seed is left to the run that is stopped. *)
Wiped_Later(some) == seed

(* DerivationJob.close: the seed is wiped, the worker terminated. *)
Wiped(some) == [r \in Runs |-> IF r \in some /\ seed[r] = "live" THEN "wiped" ELSE seed[r]]
Closed(some) == [r \in Runs |-> IF r \in some THEN "closed" ELSE worker[r]]

(* Mutated form of Dropped: a closed worker leaves its callers waiting. *)
Dropped_Forgotten(some) == {}

(* The runs that wait for a worker that is closed now. *)
Dropped(some) == {r \in some : phase[r] \in {"ready", "batch"}}

(* stop(): the job, if any, is closed. *)
Current == IF job = 0 THEN {} ELSE {job}

(* stop(), advance() and clear() of the result panel, as an event does that  *)
(* replaces the source.                                                      *)
Revoke ==
    /\ revision' = revision + 1
    /\ job' = 0 /\ seed' = Wiped(Current) /\ worker' = Closed(Current)
    /\ rejected' = Dropped(Current)
    /\ rows' = NoRows /\ rowsOf' = 0
    /\ UNCHANGED <<inFlight, cancelled, started, phase, rev, seedOf, at, ui>>

NotRevoked == UNCHANGED <<flags, jobs, rows, rowsOf, ui>>

(* run(), from its advance() to the await of the worker. *)
Begin(advances) ==
    /\ started < MaxRuns
    /\ started' = started + 1
    /\ revision' = revision + advances
    /\ seed' = Wiped(Current)
    /\ worker' = [Closed(Current) EXCEPT ![started'] = "alive"]
    /\ rejected' = Dropped(Current)
    /\ job' = started'
    /\ rows' = NoRows /\ rowsOf' = 0
    /\ cancelled' = FALSE /\ inFlight' = inFlight + 1
    /\ phase' = [phase EXCEPT ![started'] = "ready"]
    /\ rev' = [rev EXCEPT ![started'] = revision']
    /\ ui' = "running" /\ status' = "none"
    /\ UNCHANGED <<seedOf, at>>

(* The worker cannot be created: the run ends in the same turn. *)
BeginFails(advances) ==
    /\ revision < MaxRevision
    /\ revision' = revision + advances
    /\ job' = 0 /\ seed' = Wiped(Current) /\ worker' = Closed(Current)
    /\ rejected' = Dropped(Current)
    /\ rows' = NoRows /\ rowsOf' = 0
    /\ cancelled' = FALSE
    /\ ui' = IF inFlight = 0 THEN "idle" ELSE "running"
    /\ status' = "error"
    /\ UNCHANGED <<inFlight, started, phase, rev, seedOf, at>>

(* Mutated form of Admitted: the first large request is admitted. *)
Admitted_Unasked(auto, pending) == ~auto \/ range' = "small"

(* DerivationConsent.consider: every edit of the range clears the question,  *)
(* so that one that is pending was asked for the settings of now.            *)
Admitted(auto, pending) == range' = "small" \/ (~auto /\ pending # 0)

(* run(auto) with the given confirmation pending, in an event that has      *)
(* revoked the last run ("revoked") or not.                                  *)
RunCall(auto, revoked, pending) ==
    LET advances == IF revoked THEN 2 ELSE 1
        ends(s) == (IF revoked THEN Revoke ELSE NotRevoked) /\ status' = s
    IN  \/ asked' = pending /\ ends("error")                \* controls, self-test
        \/ /\ cryptoReady /\ ~Admitted(auto, pending)
           /\ asked' = IF auto THEN 0 ELSE source'
           /\ ends(IF auto THEN "skipped" ELSE "asking")
        \/ /\ cryptoReady /\ Admitted(auto, pending)
           /\ asked' = 0
           /\ (Begin(advances) \/ BeginFails(advances))

-----------------------------------------------------------------------------
(* Events of the page. *)
NewSource(sizes) ==
    /\ source < MaxSources /\ source' = source + 1
    /\ range' \in sizes

(* Mutated form of EditMnemonic: the pending confirmation is kept. *)
EditMnemonic_KeepsConsent ==
    /\ Quiet
    /\ NewSource({range})
    /\ Revoke /\ UNCHANGED status
    /\ automatic' \in BOOLEAN
    /\ UNCHANGED <<cryptoReady, generation, asked>>

(* An edit of the phrase or the passphrase. *)
EditMnemonic ==
    /\ Quiet
    /\ NewSource({range})
    /\ Revoke /\ UNCHANGED status
    /\ asked' = 0
    /\ automatic' \in BOOLEAN
    /\ UNCHANGED <<cryptoReady, generation>>

(* An edit of a setting of the range. *)
EditRange ==
    /\ Quiet
    /\ NewSource(Sizes)
    /\ Revoke /\ status' = "none"
    /\ asked' = 0
    /\ automatic' \in BOOLEAN
    /\ UNCHANGED <<cryptoReady, generation>>

(* Another protocol, coin or CoinJoin workspace; the phrase may be incomplete. *)
SelectProtocol ==
    /\ Quiet
    /\ NewSource(Sizes)
    /\ automatic' = FALSE
    /\ \/ RunCall(TRUE, TRUE, 0)
       \/ /\ Revoke /\ status' \in {status, "none"}
          /\ asked' = 0
    /\ UNCHANGED <<cryptoReady, generation>>

(* A payment protocol's or BIP85's workspace. *)
ActivateFeature ==
    /\ Quiet
    /\ revision < MaxRevision
    /\ automatic' = FALSE
    /\ Revoke /\ UNCHANGED status
    /\ UNCHANGED <<source, range, cryptoReady, generation, asked>>

(* Clear all, and leaving the page: the range is the default's. *)
ClearAll ==
    /\ Quiet
    /\ NewSource({"small"})
    /\ Revoke /\ status' = "none"
    /\ automatic' = FALSE /\ asked' = 0
    /\ UNCHANGED <<cryptoReady, generation>>

(* The wishes for a new phrase change: the results of the old one stay.      *)
InvalidateGeneration ==
    /\ Quiet
    /\ revision < MaxRevision
    /\ revision' = revision + 1
    /\ job' = 0 /\ seed' = Wiped(Current) /\ worker' = Closed(Current)
    /\ rejected' = Dropped(Current)
    /\ status' = "none"
    /\ UNCHANGED <<inputs, inFlight, cancelled, started, phase, rev, seedOf, at, rows, rowsOf, ui>>

Submit ==
    /\ Quiet /\ ui = "idle"
    /\ automatic' = FALSE
    /\ UNCHANGED <<source, range, cryptoReady, generation>>
    /\ RunCall(FALSE, FALSE, asked)

(* The timer after the last edit; the phrase may have become incomplete. *)
AutomaticRun ==
    /\ Quiet /\ automatic
    /\ automatic' = FALSE
    /\ UNCHANGED <<source, range, cryptoReady, generation>>
    /\ \/ RunCall(TRUE, FALSE, asked)
       \/ UNCHANGED <<asked, flags, jobs, page>>

(* A new phrase, drawn in the same turn: the range is the default's. *)
GeneratePhrase ==
    /\ Quiet /\ cryptoReady
    /\ NewSource({"small"})
    /\ automatic' = FALSE
    /\ RunCall(TRUE, TRUE, asked)
    /\ UNCHANGED <<cryptoReady, generation>>

(* A phrase that passes the wallet check is drawn by a worker, in minutes. *)
GenerateChecked ==
    /\ Quiet /\ cryptoReady /\ revision < MaxRevision
    /\ automatic' = FALSE
    /\ Revoke /\ status' = "none"
    /\ generation' = revision'
    /\ UNCHANGED <<source, range, cryptoReady, asked>>

(* Mutated form of Publishes: the phrase that was drawn is always published. *)
Publishes_Always == cryptoReady

Publishes == generation = revision /\ cryptoReady

GeneratedChecked ==
    /\ Quiet /\ generation # 0
    /\ generation' = 0
    /\ UNCHANGED <<cryptoReady>>
    /\ IF Publishes
       THEN /\ NewSource({"small"})
            /\ automatic' = FALSE
            /\ RunCall(TRUE, FALSE, asked)
       ELSE UNCHANGED <<source, range, automatic, asked, flags, jobs, page>>

GenerationFails ==
    /\ Quiet /\ generation # 0
    /\ generation' = 0
    /\ status' = IF generation = revision THEN "error" ELSE status
    /\ UNCHANGED <<source, range, cryptoReady, automatic, asked, flags, jobs,
                   rows, rowsOf, ui>>

(* The Cancel button, which is shown while a run is on. *)
Cancel ==
    /\ Quiet /\ ui = "running" /\ ~cancelled
    /\ cancelled' = TRUE
    /\ job' = 0 /\ seed' = Wiped(Current) /\ worker' = Closed(Current)
    /\ rejected' = Dropped(Current)
    /\ status' = "stopping"
    /\ UNCHANGED <<inputs, revision, inFlight, started, phase, rev, seedOf, at, rows, rowsOf, ui>>

(* The full self-test fails in the background. *)
SelfTestFails ==
    /\ Quiet /\ cryptoReady /\ revision < MaxRevision
    /\ cryptoReady' = FALSE /\ automatic' = FALSE
    /\ Revoke /\ status' = "error"
    /\ UNCHANGED <<source, range, generation, asked>>

-----------------------------------------------------------------------------
(* A run that resumes. *)
Stale(r) == rev[r] # revision

(* Mutated form of Released: the buttons follow the run that ends. *)
Released_AlwaysIdle(r) ==
    /\ phase' = [phase EXCEPT ![r] = "done"]
    /\ seed' = Wiped({r}) /\ worker' = Closed({r})
    /\ job' = IF job = r THEN 0 ELSE job
    /\ inFlight' = inFlight - 1
    /\ ui' = "idle"
    /\ rev' = [rev EXCEPT ![r] = 0] /\ seedOf' = [seedOf EXCEPT ![r] = 0]
    /\ at' = [at EXCEPT ![r] = <<1, 0>>]
    /\ UNCHANGED <<revision, cancelled, started>>

(* The finally block of run(); its locals are gone. *)
Released(r) ==
    /\ phase' = [phase EXCEPT ![r] = "done"]
    /\ seed' = Wiped({r}) /\ worker' = Closed({r})
    /\ job' = IF job = r THEN 0 ELSE job
    /\ inFlight' = inFlight - 1
    /\ ui' = IF inFlight' = 0 THEN "idle" ELSE ui
    /\ rev' = [rev EXCEPT ![r] = 0] /\ seedOf' = [seedOf EXCEPT ![r] = 0]
    /\ at' = [at EXCEPT ![r] = <<1, 0>>]
    /\ UNCHANGED <<revision, cancelled, started>>

(* #failed: nothing is said of a run that was revoked. *)
Failed(r) ==
    /\ status' = IF Stale(r) THEN status ELSE IF cancelled THEN "cancelled" ELSE "error"
    /\ UNCHANGED <<rows, rowsOf>>

(* #complete *)
Complete(r) == status' = IF cancelled THEN "cancelled" ELSE "complete"

(* The worker is ready: the seed is read from the page and the first batch   *)
(* asked for; the phrase may not be valid.                                   *)
WorkerReady(r) ==
    /\ Quiet /\ phase[r] = "ready" /\ worker[r] = "alive"
    /\ IF Stale(r) \/ cancelled
       THEN Released(r) /\ UNCHANGED <<rows, rowsOf, status>>
       ELSE \/ /\ seed' = [seed EXCEPT ![r] = "live"]
               /\ seedOf' = [seedOf EXCEPT ![r] = source]
               /\ phase' = [phase EXCEPT ![r] = "batch"]
               /\ UNCHANGED <<flags, rev, worker, at, page>>
            \/ Released(r) /\ Failed(r)
    /\ UNCHANGED <<inputs, rejected>>

(* The worker refuses, breaks or does not start in time. *)
WorkerFails(r) ==
    /\ Quiet /\ phase[r] \in {"ready", "batch"} /\ worker[r] = "alive"
    /\ Released(r) /\ Failed(r)
    /\ UNCHANGED <<inputs, rejected>>

Rejected(r) ==
    /\ r \in rejected
    /\ rejected' = rejected \ {r}
    /\ Released(r) /\ Failed(r)
    /\ UNCHANGED inputs

(* The stream returns early: nothing is said of a run that was revoked. *)
CutShort(r) ==
    /\ Released(r)
    /\ IF Stale(r) THEN UNCHANGED status ELSE Complete(r)
    /\ UNCHANGED <<rows, rowsOf>>

BranchDone(k) == k = Batches

(* The batch is published; the next one of the branch waits for a turn.      *)
WorkerReply(r) ==
    /\ Quiet /\ phase[r] = "batch" /\ worker[r] = "alive"
    /\ LET b == at[r][1]
           k == at[r][2] + 1
       IN  IF Stale(r) \/ cancelled
           THEN CutShort(r)
           ELSE /\ rows' = [rows EXCEPT ![b] = k]
                /\ rowsOf' = seedOf[r]
                /\ IF BranchDone(k) /\ b = Branches
                   THEN Released(r) /\ Complete(r)
                   ELSE /\ at' = [at EXCEPT ![r] = IF BranchDone(k) THEN <<b + 1, 0>> ELSE <<b, k>>]
                        /\ phase' = [phase EXCEPT ![r] = IF BranchDone(k) THEN "batch" ELSE "yield"]
                        /\ UNCHANGED <<flags, rev, seed, worker, seedOf, ui, status>>
    /\ UNCHANGED <<inputs, rejected>>

(* Mutated form of YieldDone: a run that was cancelled is complete. *)
YieldDone_IgnoresCancel(r) ==
    /\ Quiet /\ phase[r] = "yield"
    /\ IF Stale(r) THEN CutShort(r)
       ELSE IF cancelled
       THEN Released(r) /\ status' = "complete" /\ UNCHANGED <<rows, rowsOf>>
       ELSE /\ phase' = [phase EXCEPT ![r] = "batch"]
            /\ UNCHANGED <<flags, rev, seed, worker, seedOf, at, page>>
    /\ UNCHANGED <<inputs, rejected>>

(* The turn is over: the next batch is asked for, or the run ends. *)
YieldDone(r) ==
    /\ Quiet /\ phase[r] = "yield"
    /\ IF Stale(r) \/ cancelled
       THEN CutShort(r)
       ELSE /\ phase' = [phase EXCEPT ![r] = "batch"]
            /\ UNCHANGED <<flags, rev, seed, worker, seedOf, at, page>>
    /\ UNCHANGED <<inputs, rejected>>

-----------------------------------------------------------------------------
Event ==
    \/ EditMnemonic \/ EditRange \/ SelectProtocol \/ ActivateFeature \/ ClearAll
    \/ InvalidateGeneration \/ Submit \/ AutomaticRun \/ Cancel \/ SelfTestFails
    \/ GeneratePhrase \/ GenerateChecked \/ GeneratedChecked \/ GenerationFails

RunStep(r) == WorkerReady(r) \/ WorkerFails(r) \/ WorkerReply(r) \/ YieldDone(r) \/ Rejected(r)

Next == Event \/ \E r \in Runs : RunStep(r)

Spec == Init /\ [][Next]_vars

(* The client settles every promise it gives (DeriveClient), and a timer of  *)
(* no delay fires.                                                           *)
FairSpec == Spec /\ \A r \in Runs : WF_vars(RunStep(r))

-----------------------------------------------------------------------------
TypeOK ==
    /\ source \in 1 .. MaxSources /\ range \in Sizes
    /\ cryptoReady \in BOOLEAN /\ automatic \in BOOLEAN /\ generation \in 0 .. revision
    /\ asked \in 0 .. source
    /\ revision \in Nat /\ inFlight \in 0 .. MaxRuns /\ cancelled \in BOOLEAN
    /\ job \in 0 .. started /\ started \in 0 .. MaxRuns
    /\ phase \in [Runs -> {"none", "ready", "batch", "yield", "done"}]
    /\ rev \in [Runs -> 0 .. revision]
    /\ seed \in [Runs -> {"none", "live", "wiped"}]
    /\ worker \in [Runs -> {"none", "alive", "closed"}]
    /\ seedOf \in [Runs -> 0 .. MaxSources]
    /\ at \in [Runs -> (1 .. Branches) \X (0 .. Batches)]
    /\ rejected \subseteq Runs
    /\ rows \in [1 .. Branches -> 0 .. Batches] /\ rowsOf \in 0 .. MaxSources
    /\ ui \in {"idle", "running"}
    /\ status \in {"none", "error", "skipped", "asking", "stopping", "cancelled", "complete"}

(* What is shown was derived from the source that is on the page now.        *)
RowsAreOfSource == rows # NoRows => rowsOf = source

(* A seed or a worker lives only in the current run's job: nothing of a run  *)
(* that was replaced or stopped outlives the event that did it.              *)
OneLiveJob == \A r \in Runs : seed[r] = "live" \/ worker[r] = "alive" => r = job

(* The buttons show a run exactly while one has not ended, also when a new   *)
(* run has begun before the one it replaced resumes.                         *)
(* (Among well-typed states: TypeOK is checked with it.)                     *)
BusyWhileInFlight ==
    /\ TypeOK
    /\ inFlight = Cardinality({r \in Runs : phase[r] \in {"ready", "batch", "yield"}})
    /\ ui = "idle" <=> inFlight = 0

(* A run is reported complete only with every batch of every branch there.   *)
CompleteMeansAll ==
    [][status' = "complete" /\ status # "complete" => rows' = AllRows /\ rowsOf' = source']_vars

(* A large request begins only after the person was asked about this very    *)
(* phrase and range, and never by itself.                                    *)
LargeIsConfirmed ==
    [][started' > started /\ range' = "large" => asked = source' /\ source' = source]_vars

(* Every run ends, and gives the buttons back. *)
EveryRunEnds == \A r \in Runs : phase[r] = "ready" ~> phase[r] = "done"
=============================================================================
