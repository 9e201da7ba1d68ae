------------------------------- MODULE ViewerRun -------------------------------
(***************************************************************************)
(* The queries of the Activity Viewer and the exports of their results: the  *)
(* Dash controller (apps/activity-viewer/src/controller.ts) with the single  *)
(* lookups (dash-*-activity.ts) and the batches (batch-controller.ts,        *)
(* batch.ts, batch-public-query.ts), the controller of the other coins       *)
(* (external-activity.ts), the export buttons (export-controller.ts) and the *)
(* export session both controllers share (public-export-session.ts).         *)
(*                                                                          *)
(* One thread: an action runs from one await to the next.  Two controllers   *)
(* own one page, so what they write is kept once: the results shown, the     *)
(* result on offer for export, the status line.                              *)
(***************************************************************************)
EXTENDS Integers, FiniteSets

CONSTANTS
    Public,         \* the public inputs of a batch, by the order of their lines
    Keys,           \* its Orchard viewing keys
    Dapi,           \* the public inputs that need a connection to Dash Platform
    Concurrency,    \* batchConcurrency
    Pages,          \* bound: the pages of one Orchard scan, the addresses of a query
    MaxRefused,     \* bound: the lines refused before a batch begins
    MaxQueries,     \* bound: the queries of a session
    MaxExports      \* bound: the files it builds

ASSUME ViewerAssumption ==
    /\ Public \subseteq Nat /\ IsFiniteSet(Public) /\ Dapi \subseteq Public /\ Keys \cap Public = {}
    /\ Concurrency \in Nat \ {0} /\ Pages \in Nat \ {0}
    /\ MaxRefused \in Nat /\ MaxQueries \in Nat /\ MaxExports \in Nat

Inputs == Public \cup Keys
Singles == {"core", "platform", "identity", "shielded"}
Nothing == [query |-> 0, version |-> 0]

(* The inputs of each kind of batch.                                         *)
InputsOf == [coreBatch |-> Public, dapiBatch |-> Public, keyBatch |-> Keys,
             mixedBatch |-> Inputs]
Batches == DOMAIN InputsOf

VARIABLES
    ready,          \* viewerSelfTestPassed
    coin,           \* the Coin select: "dash" or "external"
    owner,          \* whose query runs: "nobody", "dash" or "external"
    kind,           \* what it looks up
    query,          \* number of the last query
    step,           \* what it awaits
    left,           \* pages or addresses still to read
    stop,           \* what the person pressed since it began: cancellationRequested
                    \*   or the signal, and resetRevision or operation.cleared
    result,         \* batch: what became of each input
    ledger,         \*   the pages each key's ledger holds
    shown,          \* the query whose results the page shows, 0 for none
    offer,          \* PublicExportSession: #state,
    pending,        \*   #pending: a ticket, 0 for none
    jobs,           \* files being built: [state, ticket]
    tickets,        \* exports begun
    status,         \* what the status line and the error box say
    saved,          \* history: what the last file held, while results are on offer
    batch           \* batchItems and batchErrors, with the ledgers: the batch whose
                    \*   buttons are on the page, if its results are shown

session == <<offer, pending>>
exports == <<jobs, tickets, saved>>
reading == <<left, result, ledger>>
vars == <<ready, coin, owner, kind, query, step, reading, stop, shown, session,
          exports, status, batch>>

cancelled == stop # {}
cleared == "clear" \in stop

NoInputs == [i \in Inputs |-> "none"]
NoLedgers == [k \in Keys |-> 0]
NoBatch == [query |-> 0, of |-> {}, items |-> {}, errors |-> {}, ledger |-> NoLedgers]

Init ==
    /\ ready = FALSE /\ coin \in {"dash", "external"}
    /\ owner = "nobody" /\ kind = "none" /\ query = 0
    /\ step = "idle" /\ left = 0 /\ stop = {}
    /\ result = NoInputs /\ ledger = NoLedgers
    /\ shown = 0 /\ offer = Nothing /\ pending = 0
    /\ jobs = {} /\ tickets = 0 /\ saved = Nothing
    /\ status = "" /\ batch = NoBatch

(* initializeViewerRuntime: the self-tests pass, or queries stay closed.     *)
InitializeViewerRuntime ==
    /\ ~ready
    /\ ready' = TRUE
    /\ UNCHANGED <<coin, owner, kind, query, step, reading, stop, shown, session,
                   exports, status, batch>>

----------------------------------------------------------------------------
(* The end of a query.                                                       *)

(* setExportState: PublicExportSession.replace revokes a pending export.     *)
SetExportState(x) == offer' = x /\ pending' = 0

(* Clear, a new query or a change of settings: no result is on offer.  Only  *)
(* the Dash controller also drops the batch of the page.                     *)
Withdraws == SetExportState(Nothing) /\ saved' = Nothing

(* The batch or the lookup is over: finally gives the controls back.         *)
Ends ==
    /\ owner' = "nobody" /\ step' = "idle" /\ kind' = "none"
    /\ left' = 0 /\ result' = NoInputs /\ ledger' = NoLedgers
    /\ UNCHANGED <<ready, coin, query, stop, exports>>

(* catch: a cleared query leaves the status line as the operation left it.   *)
Stops(said) ==
    /\ Ends
    /\ status' = IF cleared THEN said ELSE IF cancelled THEN "cancelled" ELSE "error"
    /\ UNCHANGED <<shown, session, batch>>

(* The results of a lookup are drawn and offered for export.                 *)
Shows(version) ==
    /\ shown' = query
    /\ SetExportState([query |-> query, version |-> version])

(* The buttons of a batch stay: the other controller does not touch them.    *)
Completes == Ends /\ Shows(0) /\ status' = "complete" /\ UNCHANGED batch

(* publishBatch, behind the check of cancellation: a batch without a result  *)
(* fails, another is shown with what became of each of its inputs.           *)
Published(r, l) ==
    /\ Ends /\ Shows(0) /\ status' = "complete"
    /\ batch' = [query |-> query, of |-> InputsOf[kind], ledger |-> l,
                 items |-> {i \in Inputs : r[i] = "ok"},
                 errors |-> {i \in Inputs : r[i] = "failed"}]

(* Mutated form of Publishes: the check of cancellation is forgotten.        *)
Publishes_AfterCancel(r, l, said) ==
    IF \A i \in Inputs : r[i] # "ok" THEN Stops(said) ELSE Published(r, l)

Publishes(r, l, said) ==
    IF cancelled \/ \A i \in Inputs : r[i] # "ok"
    THEN Stops(said)
    ELSE Published(r, l)

(* The query goes on to await s, and has said so.                            *)
Awaits(s) ==
    /\ step' = s /\ status' = "progress"
    /\ UNCHANGED <<ready, coin, owner, kind, query, stop, exports>>

Draws == UNCHANGED <<shown, session, batch>>

----------------------------------------------------------------------------
(* Single lookups of the Dash controller.  A read that has the signal fails  *)
(* once it is fired; a connection, a proved query and a page of the pool do  *)
(* not have it and can answer after Cancel.                                  *)

(* await source.connect()                                                    *)
SingleConnected ==
    /\ step = "connect" /\ kind \in {"platform", "identity", "shielded"}
    /\ IF cancelled THEN Stops(status)
       ELSE Awaits(IF kind = "shielded" THEN "page" ELSE "query") /\ Draws
            /\ UNCHANGED reading

(* await source.query(): proved state of an address or an identity.          *)
SingleProved ==
    /\ step = "query" /\ kind \in {"platform", "identity"}
    /\ IF cancelled THEN Stops(status)
       ELSE Awaits("history") /\ Draws /\ UNCHANGED reading

(* The last read: queryCoreAddress or queryHistory.  An identity is shown    *)
(* without a history that failed by itself.                                  *)
SingleAnswered ==
    /\ kind \in {"core", "platform", "identity"}
    /\ step = IF kind = "core" THEN "query" ELSE "history"
    /\ ~cancelled
    /\ Completes

(* One page of the pool: the partial result is drawn now and then, and may   *)
(* be exported.                                                              *)
SinglePage ==
    /\ step = "page"
    /\ IF cancelled THEN Stops(status)
       ELSE IF left = 1 THEN Completes
       ELSE /\ Awaits("page") /\ left' = left - 1 /\ UNCHANGED <<result, ledger>>
            /\ (Shows(left) /\ UNCHANGED batch) \/ Draws

(* Whatever a single lookup awaits fails, by itself or by its signal.        *)
SingleFails == owner = "dash" /\ kind \in Singles /\ Stops(status)

----------------------------------------------------------------------------
(* Batches: public inputs by workers, the keys by one scan of the pool.      *)

Asked(r) == {i \in Public : r[i] = "asked"}
Queued(r) == {i \in Public : r[i] = "none"}

(* mapViewerBatchTasks: each free worker takes the next input; a task that   *)
(* starts after Cancel rejects and its worker goes on to the next.           *)
Taken(r, late) ==
    [i \in Inputs |->
        IF i \notin Queued(r) THEN r[i]
        ELSE IF late THEN "failed"
        ELSE IF Cardinality(Asked(r)) + Cardinality({j \in Queued(r) : j <= i}) <= Concurrency
             THEN "asked" ELSE "none"]

Active(r) == {k \in Keys : r[k] = "none"}

(* The workers go on, or all are done.  runAutoBatch then begins with the    *)
(* keys, with no check of cancellation.                                      *)
TasksGoOn(r, said) ==
    LET t == Taken(r, cancelled) IN
    IF Asked(t) # {}
    THEN Awaits("tasks") /\ result' = t /\ UNCHANGED <<left, ledger>> /\ Draws
    ELSE IF kind = "mixedBatch" /\ Active(t) # {}
    THEN Awaits("scanConnect") /\ result' = t /\ UNCHANGED <<left, ledger>> /\ Draws
    ELSE Publishes(t, ledger, said)

(* connectOnce checks the cancellation; sourceFor, of a mixed batch, does    *)
(* not.                                                                      *)
BatchConnected ==
    /\ step = "connect" /\ kind \in {"dapiBatch", "mixedBatch"}
    /\ IF kind = "dapiBatch" /\ cancelled
       THEN Stops(status)
       ELSE TasksGoOn(result, status)

(* A connection fails a batch of its own, or the inputs that need it.        *)
BatchConnectFails ==
    /\ step = "connect" /\ kind \in {"dapiBatch", "mixedBatch"}
    /\ IF kind = "dapiBatch"
       THEN Stops(status)
       ELSE TasksGoOn([i \in Inputs |->
                IF i \in Dapi /\ result[i] = "none" THEN "failed" ELSE result[i]], status)

(* Mutated form of TaskSettles: a failed task ends its worker.               *)
TaskSettles_EndsWorker(i) ==
    /\ step = "tasks" /\ result[i] = "asked"
    /\ \/ ~cancelled /\ TasksGoOn([result EXCEPT ![i] = "ok"], "progress")
       \/ /\ Awaits("tasks") /\ result' = [result EXCEPT ![i] = "failed"]
          /\ UNCHANGED <<left, ledger>> /\ Draws

(* A task answers, or fails by itself or by the signal; measured counts it   *)
(* and writes the progress either way, cancelled or not.                     *)
TaskSettles(i) ==
    /\ step = "tasks" /\ result[i] = "asked"
    /\ \/ ~cancelled /\ TasksGoOn([result EXCEPT ![i] = "ok"], "progress")
       \/ TasksGoOn([result EXCEPT ![i] = "failed"], "progress")

(* The scan fails: a batch of keys with it, or the keys of a mixed batch.    *)
ScanEnds(r) ==
    IF kind = "keyBatch" \/ cancelled
    THEN Stops(status)
    ELSE Publishes([i \in Inputs |-> IF i \in Active(r) THEN "failed" ELSE r[i]],
                   ledger, status)

ScanConnected ==
    /\ step = "scanConnect"
    /\ IF cancelled THEN Stops(status)
       ELSE /\ Awaits("scan") /\ left' = Pages
            /\ UNCHANGED <<result, ledger>> /\ Draws

ScanFails == step \in {"scanConnect", "scan"} /\ ScanEnds(result)

(* Mutated form of ScanDone: a key that failed is published with the rest.   *)
ScanDone_AllKeys(r, l) ==
    Publishes([i \in Inputs |-> IF i \in Keys THEN "ok" ELSE r[i]], l, status)

(* The scan is done: every key that has not failed has its result.           *)
ScanDone(r, l) ==
    Publishes([i \in Inputs |-> IF i \in Active(r) THEN "ok" ELSE r[i]], l, status)

(* A page is tried with every key left; those that fail are dropped, and     *)
(* when none is left the scan fails.                                         *)
ScanPage(failed) ==
    /\ step = "scan" /\ failed \subseteq Active(result)
    /\ LET r == [i \in Inputs |-> IF i \in failed THEN "failed" ELSE result[i]]
           l == [k \in Keys |-> IF k \in Active(r) THEN ledger[k] + 1 ELSE ledger[k]]
       IN IF cancelled THEN failed = {} /\ Stops(status)
          ELSE IF Active(r) = {} THEN ScanEnds(r)
          ELSE IF left = 1 THEN ScanDone(r, l)
          ELSE Awaits("scan") /\ left' = left - 1 /\ result' = r /\ ledger' = l /\ Draws

----------------------------------------------------------------------------
(* The controller of the other coins: its addresses one after the other,     *)
(* the signal checked before and after each.                                 *)

ExternalAnswered ==
    /\ owner = "external"
    /\ IF cancelled THEN Stops(status)
       ELSE IF left = 1 THEN Completes
       ELSE /\ left' = left - 1
            /\ UNCHANGED <<ready, coin, owner, kind, query, step, result, ledger, stop,
                           shown, session, exports, status, batch>>

ExternalFails == owner = "external" /\ Stops(status)

----------------------------------------------------------------------------
(* The person.                                                               *)

(* What a new query clears, by either controller.                            *)
Begins(o, k, s, said) ==
    /\ ready /\ owner = "nobody" /\ query < MaxQueries
    /\ owner' = o /\ kind' = k /\ step' = s /\ status' = said
    /\ query' = query + 1 /\ shown' = 0 /\ Withdraws
    /\ batch' = IF coin = "dash" THEN NoBatch ELSE batch
    /\ UNCHANGED <<ready, coin, ledger, jobs, tickets>>

(* A submission refused before any request: by the guard of secrets, by the  *)
(* format, or because no line of a batch is valid.                           *)
SubmitRefused ==
    /\ Begins("nobody", "none", "idle", "error")
    /\ stop' = IF coin = "dash" THEN {} ELSE stop
    /\ UNCHANGED <<left, result>>

SubmitSingle(k) ==
    /\ coin = "dash" /\ k \in Singles
    /\ Begins("dash", k, IF k = "core" THEN "query" ELSE "connect", "progress")
    /\ stop' = {} /\ left' = Pages /\ UNCHANGED result

(* Some lines of a batch may be refused before it begins.                    *)
SubmitBatch(k, refused) ==
    LET r == [i \in Inputs |-> IF i \in refused THEN "failed" ELSE "none"]
        tasks == k = "coreBatch" \/ (k = "mixedBatch" /\ Queued(r) # {})
        connects == k = "dapiBatch" \/ (k = "mixedBatch" /\ Queued(r) \cap Dapi # {})
    IN /\ coin = "dash" /\ k \in Batches
       /\ refused \subseteq InputsOf[k] /\ refused # InputsOf[k]
       /\ Cardinality(refused) <= MaxRefused /\ (k = "coreBatch" => refused = {})
       /\ Begins("dash", k, IF connects THEN "connect" ELSE IF tasks THEN "tasks"
                            ELSE "scanConnect", "progress")
       /\ stop' = {} /\ left' = 0
       /\ result' = IF tasks /\ ~connects THEN Taken(r, FALSE) ELSE r

SubmitExternal(n) ==
    /\ coin = "external"
    /\ Begins("external", "external", "query", "progress")
    /\ stop' = {} /\ left' = n /\ UNCHANGED result

(* cancelQuery, or the signal of the other controller.                       *)
Cancel ==
    /\ owner # "nobody" /\ "cancel" \notin stop
    /\ stop' = stop \cup {"cancel"}
    /\ status' = IF owner = "dash" THEN "cancelling" ELSE status
    /\ UNCHANGED <<ready, coin, owner, kind, query, step, reading, shown, session,
                   exports, batch>>

ClearKeeps == UNCHANGED <<ready, coin, owner, kind, query, step, reading, jobs, tickets>>

(* Clear at Dash, at any time, and the mode buttons while nothing runs.      *)
ResetViewer ==
    /\ owner # "external"
    /\ stop' = IF owner = "nobody" THEN stop ELSE stop \cup {"clear"}
    /\ shown' = 0 /\ Withdraws /\ batch' = NoBatch /\ status' = ""
    /\ ClearKeeps

ExternalClears == owner = "external" \/ (owner = "nobody" /\ coin = "external")

(* Mutated form of ClearExternal: what was shown stays on offer.             *)
ClearExternal_KeepsExport ==
    /\ ExternalClears
    /\ stop' = IF owner = "nobody" THEN stop ELSE stop \cup {"clear"}
    /\ shown' = 0 /\ status' = ""
    /\ UNCHANGED <<session, saved, batch>> /\ ClearKeeps

(* Clear at another coin.                                                    *)
ClearExternal ==
    /\ ExternalClears
    /\ stop' = IF owner = "nobody" THEN stop ELSE stop \cup {"clear"}
    /\ shown' = 0 /\ Withdraws /\ status' = "" /\ UNCHANGED batch
    /\ ClearKeeps

(* configure: the Coin or the network is changed, and nothing is on offer    *)
(* though the results stay.  Back at Dash the detection may be reset, and    *)
(* the page with it.                                                         *)
Configure(c) ==
    /\ owner = "nobody" /\ coin' = c
    /\ Withdraws
    /\ \/ UNCHANGED <<shown, status, batch>>
       \/ c = "dash" /\ shown' = 0 /\ status' = "" /\ batch' = NoBatch
    /\ UNCHANGED <<ready, owner, kind, query, step, reading, stop, jobs, tickets>>

(* A button of the batch on the page: one of its results is drawn, and what  *)
(* is on offer stays.                                                        *)
RenderBatchSelection ==
    /\ shown # 0 /\ batch.items # {}
    /\ shown' = batch.query
    /\ UNCHANGED <<ready, coin, owner, kind, query, step, reading, stop, session, exports,
                   status, batch>>

----------------------------------------------------------------------------
(* Exports of the results on offer.                                          *)

ExportKeeps == UNCHANGED <<ready, coin, owner, kind, query, step, reading, stop, shown,
                           offer, batch>>

(* CSV and JSON of the Dash controller: saved in the turn of the click.      *)
ExportText ==
    /\ coin = "dash" /\ offer # Nothing /\ pending = 0
    /\ saved' = offer /\ status' = "exported"
    /\ UNCHANGED <<pending, jobs, tickets>> /\ ExportKeeps

(* A workbook, or any file of the other controller, is built meanwhile.      *)
ExportBegins ==
    /\ offer # Nothing /\ pending = 0 /\ tickets < MaxExports
    /\ tickets' = tickets + 1 /\ pending' = tickets'
    /\ jobs' = jobs \cup {[state |-> offer, ticket |-> tickets']}
    /\ status' = IF coin = "dash" THEN "building" ELSE status
    /\ UNCHANGED saved /\ ExportKeeps

(* Mutated form of Owns: whatever was built is saved.                        *)
Owns_Unchecked(j) == j \in jobs

(* PublicExportSession.owns                                                  *)
Owns(j) == offer = j.state /\ pending = j.ticket

(* The file is built, or cannot be: one of results that were cleared or      *)
(* replaced meanwhile is neither saved nor reported.                         *)
ExportEnds(j) ==
    /\ j \in jobs
    /\ jobs' = jobs \ {j}
    /\ IF ~Owns(j) THEN UNCHANGED <<saved, status, pending>>
       ELSE /\ pending' = 0
            /\ \/ saved' = j.state /\ status' = "exported"
               \/ status' = "error" /\ UNCHANGED saved
    /\ UNCHANGED tickets /\ ExportKeeps

----------------------------------------------------------------------------
Answers ==
    \/ SingleConnected \/ SingleProved \/ SingleAnswered \/ SinglePage \/ SingleFails
    \/ BatchConnected \/ BatchConnectFails
    \/ \E i \in Public : TaskSettles(i)
    \/ ScanConnected \/ ScanFails \/ \E F \in SUBSET Keys : ScanPage(F)
    \/ ExternalAnswered \/ ExternalFails

Person ==
    \/ SubmitRefused \/ \E k \in Singles : SubmitSingle(k)
    \/ \E k \in Batches, F \in SUBSET Inputs : SubmitBatch(k, F)
    \/ \E n \in 1 .. Pages : SubmitExternal(n)
    \/ Cancel \/ ResetViewer \/ ClearExternal
    \/ (\E c \in {"dash", "external"} : Configure(c)) \/ RenderBatchSelection
    \/ ExportText \/ ExportBegins

Next ==
    \/ InitializeViewerRuntime \/ Answers \/ Person
    \/ \E j \in jobs : ExportEnds(j)

Spec == Init /\ [][Next]_vars

(* Every request ends, by an answer, a failure or its deadline.              *)
FairSpec == Spec /\ WF_vars(Answers)

----------------------------------------------------------------------------
Steps == {"idle", "connect", "query", "history", "page", "tasks", "scanConnect", "scan"}
States == [query : 0 .. MaxQueries, version : 0 .. Pages]

TypeOK ==
    /\ ready \in BOOLEAN /\ coin \in {"dash", "external"}
    /\ owner \in {"nobody", "dash", "external"}
    /\ kind \in Singles \cup Batches \cup {"none", "external"}
    /\ query \in 0 .. MaxQueries /\ step \in Steps /\ left \in 0 .. Pages
    /\ stop \subseteq {"cancel", "clear"}
    /\ result \in [Inputs -> {"none", "asked", "ok", "failed"}]
    /\ ledger \in [Keys -> 0 .. Pages]
    /\ shown \in 0 .. MaxQueries /\ offer \in States /\ saved \in States
    /\ pending \in 0 .. MaxExports /\ tickets \in 0 .. MaxExports
    /\ jobs \subseteq [state : States, ticket : 1 .. MaxExports]

(* What can be exported was found by the last query, and was not withdrawn   *)
(* since: Clear, a new query or a change of settings, by whichever of the    *)
(* two controllers, leaves nothing of it on offer.  The page shows it, but   *)
(* for one case: results of another coin bring back the buttons of an older  *)
(* Dash batch, and one of these draws its result while the other stays on    *)
(* offer.                                                                    *)
OfferIsShown ==
    /\ offer # Nothing =>
         /\ offer.query = query /\ shown # 0
         /\ shown = query \/ (coin = "external" /\ shown = batch.query)
    /\ pending # 0 => offer # Nothing

(* The two controllers keep one page: a query that runs awaits what its kind *)
(* awaits, with no more tasks in flight than workers, and what is on offer   *)
(* is what is shown (setRunning, setExportState, mapViewerBatchTasks).       *)
Consistent ==
    /\ TypeOK
    /\ (owner = "nobody") <=> (step = "idle")
    /\ Cardinality(Asked(result)) <= Concurrency
    /\ (step = "tasks") <=> (Asked(result) # {})
    /\ OfferIsShown

(* A batch that is shown says of each of its inputs whether it has a result  *)
(* or failed, once, and a key has a result only if its ledger holds every    *)
(* page of the scan: one that failed midway is published as failed, never    *)
(* with the part it read (scanOrchardTogether, publishBatch).                *)
BatchIsComplete ==
    /\ batch.items \cup batch.errors = batch.of
    /\ batch.items \cap batch.errors = {}
    /\ \A k \in batch.items \cap Keys : batch.ledger[k] = Pages

(* Cancel and Clear discard what arrives after them: until the next query    *)
(* nothing more is shown or offered for export (checkCancellation at every   *)
(* await of both controllers).                                               *)
LateIsDiscarded ==
    [][cancelled /\ query' = query =>
        shown' \in {shown, 0} /\ offer' \in {offer, Nothing}]_vars

(* A file is saved only with the results that are on offer at that moment,   *)
(* though it was built while they could be cleared, replaced, or replaced    *)
(* by another query's of the same kind (owns, finish).                       *)
SavedIsOnOffer == [][saved' \notin {saved, Nothing} => saved' = offer]_vars

(* Every query ends and gives the controls back, cancelled or not: no batch  *)
(* waits for a worker that is gone (mapViewerBatchTasks, submitQuery).       *)
EveryQueryEnds == owner # "nobody" ~> owner = "nobody"

(* A page that was cleared stays clear until the next query or the next      *)
(* press of a button: nothing is written over it by what comes late          *)
(* (apps/activity-viewer/README.md: "Clear and Cancel discard late           *)
(* responses.").                                                             *)
ClearedStaysClear ==
    [][(cleared /\ status = "" /\ query' = query /\ stop' = stop) => status' = ""]_vars
=============================================================================
