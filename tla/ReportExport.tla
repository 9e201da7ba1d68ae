----------------------------- MODULE ReportExport -----------------------------
(***************************************************************************)
(* How the vault of the Discovery Scanner has a report saved.  It may not    *)
(* download anything itself: it posts the text to the shell, which saves it  *)
(* and answers (requestRecoveryExport in download-client.ts,                 *)
(* handleVaultMessage in shell.ts), while a timer runs.  The answer is       *)
(* reported on the page of the run it belongs to (downloadExport in          *)
(* controller.ts).                                                           *)
(*                                                                          *)
(* Window messages arrive in order, one queue each way; the shell builds     *)
(* workbooks beside the other requests, so answers overtake one another.     *)
(***************************************************************************)
EXTENDS Integers, Sequences

CONSTANTS
    MaxRuns,        \* bound: scans started and pages cleared
    MaxExports      \* bound: reports asked for

ASSUME ExportAssumption == MaxRuns \in Nat /\ MaxExports \in Nat

Ids == 1 .. MaxExports
Runs == 1 .. MaxRuns

VARIABLES
    generation,     \* runGeneration
    running,        \* a scan goes on
    staged,         \* the run whose reports validatedExports holds, 0 for none
    sequence,       \* of download-client.ts
    waiting,        \* pending: the ids with a resolver and a timer
    asked,          \* the generation each call of downloadExport keeps
    toShell,        \* requests on their way: [id, format, run]
    building,       \* workbooks being built: [id, run]
    toVault,        \* answers on their way: [id, ok]
    saved,          \* history: the run whose report was saved for an id, 0 for none
    outcome,        \* of the promise of an id
    notice          \* what the page says last: [kind, id]

vault == <<sequence, waiting, asked>>
shell == <<building, saved>>
vars == <<generation, running, staged, vault, toShell, shell, toVault, outcome, notice>>

Silent == [kind |-> "none", id |-> 0]

Init ==
    /\ generation = 0 /\ running = FALSE /\ staged = 0
    /\ sequence = 0 /\ waiting = {} /\ asked = [i \in Ids |-> 0]
    /\ toShell = <<>> /\ building = {} /\ toVault = <<>>
    /\ saved = [i \in Ids |-> 0]
    /\ outcome = [i \in Ids |-> "idle"]
    /\ notice = Silent

----------------------------------------------------------------------------
(* openRun and clearScanner: a new generation, with nothing to export.       *)
NewGeneration ==
    /\ generation < MaxRuns
    /\ generation' = generation + 1 /\ staged' = 0 /\ notice' = Silent
    /\ UNCHANGED <<vault, toShell, shell, toVault, outcome>>

OpenRun == ~running /\ running' = TRUE /\ NewGeneration

ClearScanner == ~running /\ NewGeneration /\ UNCHANGED running

(* The run ends: its reports pass the tripwire, or there are none.           *)
RunEnds ==
    /\ running /\ running' = FALSE
    /\ staged' \in {0, generation}
    /\ notice' = Silent
    /\ UNCHANGED <<generation, vault, toShell, shell, toVault, outcome>>

(* downloadExport, requestRecoveryExport                                     *)
DownloadExport(format) ==
    /\ staged # 0 /\ sequence < MaxExports
    /\ sequence' = sequence + 1
    /\ waiting' = waiting \cup {sequence'}
    /\ asked' = [asked EXCEPT ![sequence'] = generation]
    /\ outcome' = [outcome EXCEPT ![sequence'] = "waiting"]
    /\ toShell' = Append(toShell, [id |-> sequence', format |-> format, run |-> staged])
    /\ UNCHANGED <<generation, running, staged, shell, toVault, notice>>

----------------------------------------------------------------------------
(* The shell.                                                                *)

Answered(id, ok) == toVault' = Append(toVault, [id |-> id, ok |-> ok])

Saved(id, run) == saved' = [saved EXCEPT ![id] = run] /\ Answered(id, TRUE)

(* Mutated form of HandleVaultMessage: a workbook is answered for before it  *)
(* is built.                                                                 *)
HandleVaultMessage_AnswersFirst ==
    /\ toShell # <<>>
    /\ toShell' = Tail(toShell)
    /\ LET request == Head(toShell) IN
       \/ Answered(request.id, FALSE) /\ UNCHANGED shell
       \/ /\ request.format = "text"
          /\ Saved(request.id, request.run) /\ UNCHANGED building
       \/ /\ request.format = "xlsx"
          /\ building' = building \cup {[id |-> request.id, run |-> request.run]}
          /\ Answered(request.id, TRUE) /\ UNCHANGED saved
    /\ UNCHANGED <<generation, running, staged, vault, outcome, notice>>

(* A report is refused for its size or saved in the turn of its request; a   *)
(* workbook is built first.                                                  *)
HandleVaultMessage ==
    /\ toShell # <<>>
    /\ toShell' = Tail(toShell)
    /\ LET request == Head(toShell) IN
       \/ Answered(request.id, FALSE) /\ UNCHANGED shell
       \/ /\ request.format = "text"
          /\ Saved(request.id, request.run) /\ UNCHANGED building
       \/ /\ request.format = "xlsx"
          /\ building' = building \cup {[id |-> request.id, run |-> request.run]}
          /\ UNCHANGED <<saved, toVault>>
    /\ UNCHANGED <<generation, running, staged, vault, outcome, notice>>

(* createRecoveryWorkbook ends, or fails.                                    *)
WorkbookEnds(b) ==
    /\ building' = building \ {b}
    /\ Saved(b.id, b.run) \/ (Answered(b.id, FALSE) /\ UNCHANGED saved)
    /\ UNCHANGED <<generation, running, staged, vault, toShell, outcome, notice>>

----------------------------------------------------------------------------
(* The vault.                                                                *)

(* Mutated form of Notes: the reply is reported on whatever page is there.   *)
Notes_AnyRun(id, kind) == notice' = [kind |-> kind, id |-> id]

(* The call of downloadExport that waited reports, on the page of its run.   *)
Notes(id, kind) ==
    notice' = IF asked[id] = generation THEN [kind |-> kind, id |-> id] ELSE notice

(* The promise of an id settles; its entry and its timer are gone.           *)
Settles(id, how, kind) ==
    /\ waiting' = waiting \ {id}
    /\ outcome' = [outcome EXCEPT ![id] = how]
    /\ Notes(id, kind)

(* Mutated form of ReceiveAnswer: a refusal is not passed on.                *)
ReceiveAnswer_DropsRefusal ==
    /\ toVault # <<>>
    /\ toVault' = Tail(toVault)
    /\ LET answer == Head(toVault) IN
       IF answer.id \notin waiting THEN UNCHANGED <<waiting, outcome, notice>>
       ELSE IF answer.ok THEN Settles(answer.id, "answered", "exported")
       ELSE waiting' = waiting \ {answer.id} /\ UNCHANGED <<outcome, notice>>
    /\ UNCHANGED <<generation, running, staged, sequence, asked, toShell, shell>>

(* An answer for an id that waits no more is ignored.                        *)
ReceiveAnswer ==
    /\ toVault # <<>>
    /\ toVault' = Tail(toVault)
    /\ LET answer == Head(toVault) IN
       IF answer.id \notin waiting THEN UNCHANGED <<waiting, outcome, notice>>
       ELSE IF answer.ok THEN Settles(answer.id, "answered", "exported")
       ELSE Settles(answer.id, "refused", "failed")
    /\ UNCHANGED <<generation, running, staged, sequence, asked, toShell, shell>>

(* 15 s without an answer.  The request is not withdrawn: the shell may yet  *)
(* save the report.                                                          *)
TimeOut(id) ==
    /\ id \in waiting
    /\ Settles(id, "refused", "failed")
    /\ UNCHANGED <<generation, running, staged, sequence, asked, toShell, shell, toVault>>

----------------------------------------------------------------------------
Next ==
    \/ OpenRun \/ ClearScanner \/ RunEnds
    \/ \E f \in {"text", "xlsx"} : DownloadExport(f)
    \/ HandleVaultMessage
    \/ \E b \in building : WorkbookEnds(b)
    \/ ReceiveAnswer
    \/ \E id \in Ids : TimeOut(id)

Spec == Init /\ [][Next]_vars

(* The vault takes its messages, and its timers fire; the shell may be slow  *)
(* for ever.                                                                 *)
FairSpec ==
    /\ Spec /\ WF_vars(ReceiveAnswer)
    /\ \A id \in Ids : WF_vars(TimeOut(id))

----------------------------------------------------------------------------
TypeOK ==
    /\ generation \in 0 .. MaxRuns /\ running \in BOOLEAN /\ staged \in 0 .. MaxRuns
    /\ sequence \in 0 .. MaxExports /\ waiting \subseteq Ids
    /\ asked \in [Ids -> 0 .. MaxRuns] /\ saved \in [Ids -> 0 .. MaxRuns]
    /\ toShell \in Seq([id : Ids, format : {"text", "xlsx"}, run : Runs])
    /\ building \subseteq [id : Ids, run : Runs]
    /\ toVault \in Seq([id : Ids, ok : BOOLEAN])
    /\ outcome \in [Ids -> {"idle", "waiting", "answered", "refused"}]
    /\ notice \in [kind : {"none", "exported", "failed"}, id : 0 .. MaxExports]

(* What the page says of an export is of the run it shows: a file it calls   *)
(* exported was saved, with the reports of that run, whatever was cleared,   *)
(* scanned again or timed out while the shell worked (downloadExport).       *)
NoticeIsTrue ==
    /\ TypeOK
    /\ notice.kind # "none" => asked[notice.id] = generation
    /\ notice.kind = "exported" => saved[notice.id] = generation

Promise == INSTANCE RemoteCalls
    WITH Calls <- Ids, Signals <- {}, SignalOf <- [i \in Ids |-> 0], Nobody <- 0,
         value <- [i \in Ids |-> IF outcome[i] = "answered" /\ saved[i] # 0 THEN i ELSE 0],
         fired <- {}, closed <- FALSE

(* Each export settles once and for good: answered only when a file was      *)
(* saved for it, and refused for ever when the timer was first, though the   *)
(* answer comes after it.                                                    *)
ImplementsRemoteCalls == Promise!Spec

(* Every export settles, though the shell may never answer.                  *)
EveryExportSettles == \A i \in Ids : outcome[i] = "waiting" ~> outcome[i] # "waiting"
=============================================================================
