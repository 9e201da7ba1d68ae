------------------------------- MODULE ScanRun -------------------------------
(***************************************************************************)
(* The Discovery Scanner's runs over a list of seed phrases, of watch-only   *)
(* keys or of candidate phrases: startScan, startWatchOnlyScan,              *)
(* startCandidateScan, cancelScan and clearScanner                           *)
(* (apps/discovery-scanner/src/controller.ts), the bounded task workers of   *)
(* mapRecoveryTasks (concurrency.ts), the candidates of candidate-scan.ts,   *)
(* the progress rows of wallet-progress.ts and the exports of                *)
(* validated-exports.ts.                                                     *)
(*                                                                          *)
(* One thread: whatever runs between two awaits is one action.  A worker of  *)
(* mapRecoveryTasks takes its next item in the same turn in which its task   *)
(* settles, so that the workers are the tasks being executed.  A report is   *)
(* only whole or incomplete; what stands in it is left out.                  *)
(* In a candidate run an input is one coin of a candidate.                   *)
(***************************************************************************)
EXTENDS Integers, FiniteSets

CONSTANTS
    N,              \* the inputs of a run
    Coins,          \* the coins each candidate is checked for
    Concurrency,    \* batchConcurrency, or requestConcurrency
    MaxRuns         \* bound: the runs of a session

ASSUME RunAssumption ==
    /\ N \in Nat \ {0} /\ Concurrency \in Nat \ {0} /\ MaxRuns \in Nat
    /\ Coins \in Nat \ {0} /\ N % Coins = 0

Inputs == 1 .. N

VARIABLES
    runGeneration,
    running,        \* running: the buttons follow it
    mode,           \* "seed", "watch" or "candidate"
    phase,          \* "idle", "attaching" (awaits the network), "tasks"
    aborted,        \* the run's signal fired
    stage,          \* how far the task of each input is
    nextIndex,      \* mapRecoveryTasks: nextIndex,
    failure,        \*   failed with firstFailure: "none", "abort" or "error"
    failures,       \* watch-only: some key has an entry in failures
    row,            \* WalletProgressTracker: the state of each row
    report,         \* currentResults: "none", "whole", "incomplete", or "refused", the
                    \*   fixed message for a candidate that is no phrase
    held,           \* inputs whose secret text is not wiped
    guard,          \* sessionSecretGuard: inputs whose secrets it knows
    files,          \* ValidatedRecoveryExports: the inputs reported in the files,
    checkedFor,     \*   and the secrets the tripwire knew when it let them pass
    scanCompleted,
    verdict,        \* the last status of the run
    userCancelled, hidden       \* history: Cancel was pressed; the page was left

run == <<runGeneration, running, mode, phase>>
workers == <<nextIndex, failure, failures>>
exports == <<files, checkedFor>>
history == <<userCancelled, hidden>>
vars == <<run, aborted, stage, workers, row, report, held, guard, exports,
          scanCompleted, verdict, history>>

Active == {i \in Inputs : stage[i] \in {"scanning", "history"}}
Shown == {i \in Inputs : report[i] # "none"}
AllSet(x) == [i \in Inputs |-> x]

Init ==
    /\ runGeneration = 0 /\ running = FALSE /\ mode = "seed" /\ phase = "idle"
    /\ aborted = FALSE
    /\ stage = AllSet("queued") /\ nextIndex = 1
    /\ failure = "none" /\ failures = FALSE
    /\ row = AllSet("queued") /\ report = AllSet("none")
    /\ held = {} /\ guard = {}
    /\ files = {} /\ checkedFor = {}
    /\ scanCompleted = FALSE /\ verdict = "none"
    /\ userCancelled = FALSE /\ hidden = FALSE

-----------------------------------------------------------------------------
OpenRun ==
    /\ runGeneration' = runGeneration + 1
    /\ guard' = {}
    /\ files' = {} /\ checkedFor' = {}
    /\ report' = AllSet("none")
    /\ scanCompleted' = FALSE
    /\ aborted' = FALSE

(* The Start button: the inputs are read and the page waits for the network. *)
Start(m) ==
    /\ ~running /\ runGeneration < MaxRuns
    /\ OpenRun
    /\ running' = TRUE /\ mode' = m /\ phase' = "attaching"
    /\ row' = AllSet("queued") /\ stage' = AllSet("queued")
    /\ nextIndex' = 1 /\ failure' = "none" /\ failures' = FALSE
    /\ held' = Inputs
    /\ verdict' = "none"
    /\ userCancelled' = FALSE /\ hidden' = FALSE

(* What a task does first: nothing more when the run was aborted; otherwise  *)
(* the adapter's scan registers the secrets and goes on to its first await.  *)
Begin(taken) ==
    /\ stage' = [i \in Inputs |->
                   IF i \in taken THEN (IF aborted THEN "skipped" ELSE "scanning") ELSE stage[i]]
    /\ guard' = IF aborted THEN guard ELSE guard \cup taken
    /\ held' = IF aborted THEN held \ taken ELSE held
    /\ nextIndex' = nextIndex + Cardinality(taken)

NetworkReady ==
    /\ phase = "attaching" /\ mode # "candidate"
    /\ phase' = "tasks"
    /\ Begin({i \in Inputs : aborted \/ i <= Concurrency})
    /\ UNCHANGED <<runGeneration, running, mode, aborted, failure, failures, row, report,
                   exports, scanCompleted, verdict, history>>

(* Items the worker whose task ends with the given outcome takes in the same *)
(* turn: none after a failure, all that are left after an abort.             *)
Successors(failed, stopped) ==
    {i \in Inputs : ~failed /\ i >= nextIndex /\ (stopped \/ i = nextIndex)}

(* The task of i settles as s, and its worker goes on.                       *)
(* Mutated form: the next task does not look at the signal before it scans.  *)
Settle_IgnoresAbort(i, s, failed, stopped) ==
    LET taken == Successors(failed, FALSE)
    IN  /\ stage' = [j \in Inputs |-> IF j = i THEN s
                       ELSE IF j \in taken THEN "scanning" ELSE stage[j]]
        /\ guard' = guard \cup taken
        /\ held' = held \ {i}
        /\ nextIndex' = nextIndex + Cardinality(taken)

Settle(i, s, failed, stopped) ==
    LET taken == Successors(failed, stopped)
    IN  /\ stage' = [j \in Inputs |-> IF j = i THEN s
                       ELSE IF j \in taken THEN (IF stopped THEN "skipped" ELSE "scanning")
                       ELSE stage[j]]
        /\ guard' = IF stopped THEN guard ELSE guard \cup taken
        /\ held' = held \ ({i} \cup IF stopped THEN taken ELSE {})
        /\ nextIndex' = nextIndex + Cardinality(taken)

(* A progress report of a scan; the shared Orchard pass of a batch reports   *)
(* for the inputs that still wait as well.                                   *)
Progress(i) ==
    /\ phase = "tasks" /\ stage[i] \in {"queued", "scanning", "history"}
    /\ row' = [row EXCEPT ![i] = "running"]
    /\ UNCHANGED <<run, aborted, stage, workers, report, held, guard, exports,
                   scanCompleted, verdict, history>>

(* Mutated form of Scanned: closing a wallet's secrets clears the session's. *)
Scanned_ClearsGuard(i) ==
    /\ stage[i] = "scanning"
    /\ stage' = [stage EXCEPT ![i] = "history"]
    /\ guard' = {}
    /\ UNCHANGED <<run, aborted, workers, row, report, held, exports,
                   scanCompleted, verdict, history>>

(* adapter.scan resolves; the history of what was found is loaded next. *)
Scanned(i) ==
    /\ stage[i] = "scanning"
    /\ stage' = [stage EXCEPT ![i] = "history"]
    /\ UNCHANGED <<run, aborted, workers, row, report, held, guard, exports,
                   scanCompleted, verdict, history>>

(* The history is loaded, or given up as the run was aborted: the report is  *)
(* shown, and its row ends.                                                  *)
Finish(i, r) ==
    /\ stage[i] = "history" /\ mode # "candidate"
    /\ report' = [report EXCEPT ![i] = r]
    /\ row' = [row EXCEPT ![i] = IF r = "incomplete" \/ aborted THEN "failed" ELSE "complete"]
    /\ failures' = (failures \/ (mode = "watch" /\ (r = "incomplete" \/ aborted)))
    /\ Settle(i, "done", failure # "none", aborted)
    /\ UNCHANGED <<run, aborted, failure, exports, scanCompleted, verdict, history>>

FirstFailure(cause) == IF failure = "none" THEN cause ELSE failure

(* The task of a seed phrase fails: the whole run is aborted. *)
SeedFails(i, cause) ==
    /\ mode = "seed" /\ i \in Active
    /\ cause = "abort" => aborted
    /\ row' = [row EXCEPT ![i] = "failed"]
    /\ aborted' = TRUE
    /\ failure' = FirstFailure(cause)
    /\ Settle(i, "failed", TRUE, TRUE)
    /\ UNCHANGED <<run, failures, report, exports, scanCompleted, verdict, history>>

(* A watch-only key fails: the others go on, unless the run was aborted.     *)
WatchFails(i, cause) ==
    /\ mode = "watch" /\ i \in Active
    /\ cause = "abort" => aborted
    /\ row' = [row EXCEPT ![i] = "failed"]
    /\ failures' = (failures \/ ~aborted)
    /\ failure' = IF aborted THEN FirstFailure(cause) ELSE failure
    /\ Settle(i, "failed", aborted \/ failure # "none", aborted)
    /\ UNCHANGED <<run, aborted, report, exports, scanCompleted, verdict, history>>

-----------------------------------------------------------------------------
(* Candidates: one after the other, the coins of each together.              *)

Coinmates(i) == {j \in Inputs : (j - 1) \div Coins = (i - 1) \div Coins}

(* The loop of scanCandidates: candidates that are no valid phrase are       *)
(* reported at once, for all their coins; the coins of the next valid one    *)
(* begin.                                                                    *)
TakeCandidate(st, rep, rw, h) ==
    \E next \in {k \in nextIndex .. N + 1 : (k - 1) % Coins = 0} :
        LET invalid == nextIndex .. next - 1
            begun == {i \in Inputs : next <= i /\ i < next + Coins}
        IN  /\ stage' = [i \in Inputs |-> IF i \in invalid THEN "done"
                                          ELSE IF i \in begun THEN "scanning" ELSE st[i]]
            /\ report' = [i \in Inputs |-> IF i \in invalid THEN "refused" ELSE rep[i]]
            /\ row' = [i \in Inputs |-> IF i \in invalid THEN "failed" ELSE rw[i]]
            /\ held' = h \ invalid
            /\ guard' = guard \cup begun
            /\ nextIndex' = next + Cardinality(begun)

CandidatesReady ==
    /\ phase = "attaching" /\ mode = "candidate"
    /\ phase' = "tasks"
    /\ IF aborted
       THEN failure' = "abort" /\ UNCHANGED <<stage, report, row, held, guard, nextIndex>>
       ELSE TakeCandidate(stage, report, row, held) /\ UNCHANGED failure
    /\ UNCHANGED <<runGeneration, running, mode, aborted, failures, exports,
                   scanCompleted, verdict, history>>

(* The check of one coin ends: with a report of a scan and its history, or   *)
(* as failed, which leaves the other coins alone; after an abort only as     *)
(* cancelled.  With the last coin the phrase is wiped, and the run stops or  *)
(* goes on.                                                                  *)
CoinSettles(i, r) ==
    LET rest == (Coinmates(i) \cap Active) \ {i}
        st == [stage EXCEPT ![i] = "done"]
        rep == [report EXCEPT ![i] = r]
        rw == [row EXCEPT ![i] = IF r = "whole" THEN "complete" ELSE "failed"]
        h == IF rest = {} THEN held \ Coinmates(i) ELSE held
    IN  /\ mode = "candidate" /\ i \in Active
        /\ r = "whole" => stage[i] = "history" /\ ~aborted
        /\ failure' = IF aborted THEN "abort" ELSE failure
        /\ IF rest = {} /\ failure' = "none"
           THEN TakeCandidate(st, rep, rw, h)
           ELSE /\ stage' = st /\ report' = rep /\ row' = rw /\ held' = h
                /\ UNCHANGED <<guard, nextIndex>>
        /\ UNCHANGED <<run, aborted, failures, exports, scanCompleted, verdict, history>>

-----------------------------------------------------------------------------
(* stage(): both files pass the tripwire and are kept, or none is. *)
Stage(passed) ==
    /\ files' = IF passed THEN Shown ELSE {}
    /\ checkedFor' = IF passed /\ Shown # {} THEN guard ELSE {}

EndRows == row' = [i \in Inputs |-> IF row[i] \in {"queued", "running"} THEN "failed" ELSE row[i]]

(* The finally block of a run. *)
CloseRun ==
    /\ held' = {} /\ guard' = {}
    /\ running' = FALSE /\ phase' = "idle"
    /\ UNCHANGED <<runGeneration, mode, aborted, stage, workers, report, history>>

(* Mutated form of Join: Promise.all rejects with the first worker. *)
Join_FirstRejects ==
    /\ phase = "tasks"
    /\ Active = {} \/ failure # "none"

(* All workers have ended: mapRecoveryTasks or scanCandidates returns or      *)
(* throws, and the run ends in the same turn.                                *)
Join ==
    /\ phase = "tasks"
    /\ Active = {}

Whole == \A i \in Shown : report[i] = "whole"

Completed == IF mode = "seed" THEN Whole ELSE ~failures

(* Mutated form of RunEnds: a cancelled run is judged by its reports. *)
RunEnds_JudgedByReports ==
    /\ Join /\ failure = "none" /\ mode # "candidate"
    /\ EndRows
    /\ Stage(TRUE)
    /\ scanCompleted' = Completed
    /\ verdict' = IF Completed THEN "complete" ELSE "incomplete"
    /\ CloseRun

RunEnds ==
    /\ Join /\ failure = "none" /\ mode # "candidate"
    /\ row' = [i \in Inputs |-> IF aborted /\ row[i] \in {"queued", "running"}
                                THEN "failed" ELSE row[i]]
    /\ Stage(TRUE)
    /\ scanCompleted' = (~aborted /\ Completed)
    /\ verdict' = IF aborted THEN "cancelled" ELSE IF Completed THEN "complete" ELSE "incomplete"
    /\ CloseRun

(* The reports of a run that ended do not pass the tripwire. *)
RunEndsUnsafe ==
    /\ Join /\ failure = "none" /\ mode # "candidate" /\ Shown # {}
    /\ EndRows
    /\ Stage(FALSE)
    /\ verdict' = "error"
    /\ UNCHANGED scanCompleted
    /\ CloseRun

(* reportStoppedRun: the reports that were completed are staged all the same. *)
(* Mutated form: the finally block is left out when a run stops.              *)
RunStops_NoFinally(passed) ==
    /\ Join /\ failure # "none" /\ mode # "candidate"
    /\ passed \/ Shown # {}
    /\ EndRows
    /\ Stage(passed)
    /\ verdict' = IF ~passed \/ failure = "error" THEN "error" ELSE "cancelled"
    /\ phase' = "idle"
    /\ UNCHANGED <<scanCompleted, runGeneration, running, mode, aborted, stage, workers,
                   report, held, guard, history>>

RunStops(passed) ==
    /\ Join /\ failure # "none" /\ mode # "candidate"
    /\ passed \/ Shown # {}
    /\ EndRows
    /\ IF Shown = {} THEN UNCHANGED exports ELSE Stage(passed)
    /\ verdict' = IF ~passed \/ failure = "error" THEN "error" ELSE "cancelled"
    /\ UNCHANGED scanCompleted
    /\ CloseRun

(* The candidates are over or the run was cancelled: what was reported is    *)
(* staged, if it passes the tripwire.                                        *)
CandidatesEnd(passed) ==
    /\ Join /\ mode = "candidate"
    /\ passed \/ Shown # {}
    /\ EndRows
    /\ Stage(passed)
    /\ scanCompleted' = (failure = "none" /\ Whole)
    /\ verdict' = IF ~passed THEN "error" ELSE IF failure = "none" THEN "finished" ELSE "cancelled"
    /\ CloseRun

(* The network boundary was not established. *)
NetworkFails ==
    /\ phase = "attaching"
    /\ EndRows
    /\ verdict' = IF mode = "candidate" /\ aborted THEN "cancelled" ELSE "error"
    /\ UNCHANGED <<exports, scanCompleted>>
    /\ CloseRun

-----------------------------------------------------------------------------
(* The Cancel button is enabled while a run is on, Clear while none is. *)
CancelScan ==
    /\ running /\ ~userCancelled /\ ~Join
    /\ aborted' = TRUE /\ userCancelled' = TRUE
    /\ UNCHANGED <<run, stage, workers, row, report, held, guard, exports,
                   scanCompleted, verdict, hidden>>

ClearScanner ==
    /\ ~running /\ 0 < runGeneration /\ runGeneration < MaxRuns
    /\ runGeneration' = runGeneration + 1
    /\ guard' = {}
    /\ files' = {} /\ checkedFor' = {}
    /\ report' = AllSet("none") /\ row' = AllSet("queued") /\ stage' = AllSet("queued")
    /\ scanCompleted' = FALSE /\ verdict' = "none"
    /\ UNCHANGED <<running, mode, phase, aborted, workers, held, history>>

(* pagehide: the person leaves the page, which a browser may bring back. *)
PageHide ==
    /\ running /\ ~hidden /\ ~Join
    /\ hidden' = TRUE /\ guard' = {}
    /\ UNCHANGED <<run, aborted, stage, workers, row, report, held, exports,
                   scanCompleted, verdict, userCancelled>>

TaskStep(i) ==
    \/ Scanned(i)
    \/ \E r \in {"whole", "incomplete"} : Finish(i, r)
    \/ \E cause \in {"abort", "error"} : SeedFails(i, cause) \/ WatchFails(i, cause)
    \/ \E r \in {"whole", "incomplete"} : CoinSettles(i, r)

EndStep ==
    \/ RunEnds \/ RunEndsUnsafe
    \/ \E passed \in BOOLEAN : RunStops(passed) \/ CandidatesEnd(passed)

Next ==
    \/ \E m \in {"seed", "watch", "candidate"} : Start(m)
    \/ NetworkReady \/ CandidatesReady \/ NetworkFails
    \/ \E i \in Inputs : Progress(i) \/ TaskStep(i)
    \/ EndStep
    \/ CancelScan \/ ClearScanner \/ PageHide

Spec == Init /\ [][Next]_vars

(* The network promise settles (it has a timer), and so does every scan: its *)
(* requests have deadlines and its ranges have limits.                       *)
FairSpec ==
    /\ Spec
    /\ WF_vars(NetworkReady \/ CandidatesReady \/ NetworkFails)
    /\ \A i \in Inputs : WF_vars(TaskStep(i))
    /\ WF_vars(EndStep)

-----------------------------------------------------------------------------
TypeOK ==
    /\ runGeneration \in 0 .. MaxRuns
    /\ running \in BOOLEAN
    /\ mode \in {"seed", "watch", "candidate"}
    /\ phase \in {"idle", "attaching", "tasks"}
    /\ aborted \in BOOLEAN
    /\ stage \in [Inputs -> {"queued", "scanning", "history", "done", "failed", "skipped"}]
    /\ nextIndex \in 1 .. N + 1
    /\ failure \in {"none", "abort", "error"} /\ failures \in BOOLEAN
    /\ row \in [Inputs -> {"queued", "running", "complete", "failed"}]
    /\ report \in [Inputs -> {"none", "whole", "incomplete", "refused"}]
    /\ held \subseteq Inputs /\ guard \subseteq Inputs
    /\ files \subseteq Inputs /\ checkedFor \subseteq Inputs
    /\ scanCompleted \in BOOLEAN
    /\ verdict \in {"none", "complete", "incomplete", "finished", "cancelled", "error"}
    /\ userCancelled \in BOOLEAN /\ hidden \in BOOLEAN

(* No more wallets are worked on at a time than the person allowed, or than  *)
(* a candidate has coins, and the tripwire knows the secrets of each of      *)
(* them; when a run is over no task of it works on, every row has ended, and *)
(* neither an input nor the guard holds a secret (mapRecoveryTasks joins all *)
(* workers, scanCandidates all coins).                                       *)
QuietWhenIdle ==
    /\ TypeOK
    /\ IF mode = "candidate" THEN \A i, j \in Active : j \in Coinmates(i)
       ELSE Cardinality(Active) <= Concurrency
    /\ hidden \/ Active \subseteq guard
    /\ ~running => /\ Active = {} /\ held = {} /\ guard = {}
                   /\ verdict # "none" => \A i \in Inputs : row[i] \in {"complete", "failed"}

(* The files on offer are those of the reports on the page, and they passed  *)
(* the tripwire when it knew the secrets of every wallet in them; the text   *)
(* of a candidate that is no phrase is known to nobody, and not in them.     *)
FilesAreTheCheckedReports ==
    files # {} =>
        /\ ~running /\ files = Shown
        /\ hidden \/ {i \in files : report[i] # "refused"} \subseteq checkedFor

(* A run says of itself what happened: it is complete only when nobody       *)
(* stopped it and each input has a whole report, and a failure is not passed *)
(* off as a cancellation, although the AbortErrors it causes come after it.  *)
VerdictIsTrue ==
    /\ verdict = "complete" \/ scanCompleted =>
         ~aborted /\ \A i \in Inputs : report[i] = "whole" /\ row[i] = "complete"
    /\ verdict = "cancelled" => userCancelled

(* No wallet is begun once the run was aborted or a task of it failed.       *)
NoneBegunAfterStop ==
    [][aborted \/ failure # "none" =>
         \A i \in Inputs : stage'[i] = "scanning" => stage[i] = "scanning"]_vars

(* Every run ends and gives the buttons back, cancelled or not.              *)
EveryRunEnds == running ~> ~running
=============================================================================
