---------------------------- MODULE ShieldedStream ----------------------------
(***************************************************************************)
(* The one-pass scan of the Dash Orchard pool: runShieldedPageStream with   *)
(* advanceShieldedStream (packages/dash-network/src/shielded-stream-        *)
(* policy.ts) feeding one wallet's ShieldedActivityLedger (activity.ts).    *)
(*                                                                          *)
(* The pool only grows.  Each page is a chunk of PageSize positions with    *)
(* the chain height its proof authenticates, and different requests may be  *)
(* answered by nodes at different heights.  One turn of the loop is one     *)
(* action: the page is fetched, checked, applied and wiped before the next. *)
(***************************************************************************)
EXTENDS Integers

CONSTANTS
    PageSize,                   \* SHIELDED_PAGE_SIZE
    MaximumPages,               \* SHIELDED_MAX_PAGES_PER_SCAN
    MaximumReconciliations,     \* SHIELDED_MAX_RECONCILIATIONS
    Mine,                       \* positions of the notes the viewing key opens
    Spends,                     \* the note each action spends, or -1
    MaxSize, MaxTip,            \* bounds of the pool and of its height
    Glitches                    \* how often a node answers empty by mistake

Positions == 0 .. MaxSize - 1

(* An action spends a note that is older than itself. *)
ASSUME StreamAssumption ==
    /\ PageSize \in Nat \ {0}
    /\ MaximumPages \in Nat /\ MaximumPages >= 2
    /\ MaximumReconciliations \in Nat \ {0}
    /\ MaxSize \in Nat /\ MaxTip \in Nat
    /\ Mine \subseteq Positions
    /\ Spends \in [Positions -> Int]
    /\ \A j \in Positions : Spends[j] < j
    /\ Glitches \in {0, 1}

VARIABLES
    tip, size,          \* the chain: its height, and the pool's size at each height
    glitched,           \* mistaken empty answers given so far
    requests,           \* the requests for pages the nodes have seen
    position, pageCount, consecutiveEmpty,      \* cursor
    partialPosition,    \* lastPartial, the last short page applied: where it
    partialRevision,    \*   starts, and its revision (-1 when there is none)
    terminalRevision,   \* the revision of the last empty page, or -1
    highestRevision,    \* the highest revision read, or -1
    reconciliations,
    records, spent,     \* ledger: the wallet's notes, and those marked spent
    scannedNotes,       \* #scannedNotes
    cancelled,          \* isCancelled()
    outcome

chain == <<tip, size, glitched, requests>>
cursor == <<position, pageCount, consecutiveEmpty>>
lastPartial == <<partialPosition, partialRevision>>
ledger == <<records, spent, scannedNotes>>
scan == <<cursor, lastPartial, terminalRevision, highestRevision, reconciliations, ledger>>
vars == <<chain, scan, cancelled, outcome>>

EmptyConfirmations == 2     \* SHIELDED_EMPTY_CONFIRMATIONS

Outcomes == {"running", "complete", "limit", "changing-tip", "failed", "cancelled"}

Init ==
    /\ tip = 0 /\ size \in [0 .. 0 -> 0 .. MaxSize]
    /\ glitched = 0 /\ requests = 0
    /\ position = 0 /\ pageCount = 0 /\ consecutiveEmpty = 0
    /\ partialPosition = -1 /\ partialRevision = -1
    /\ terminalRevision = -1
    /\ highestRevision = -1
    /\ reconciliations = 0
    /\ records = {} /\ spent = {} /\ scannedNotes = 0
    /\ cancelled = FALSE
    /\ outcome = "running"

-----------------------------------------------------------------------------
(* The chain: blocks add notes at the end of the pool. *)
Grow(n) ==
    /\ outcome = "running" /\ tip < MaxTip
    /\ n \in size[tip] .. MaxSize
    /\ tip' = tip + 1
    /\ size' = [r \in 0 .. tip + 1 |-> IF r = tip + 1 THEN n ELSE size[r]]
    /\ UNCHANGED <<glitched, requests, scan, cancelled, outcome>>

(* How many notes the chunk under the cursor holds at height r. *)
Smaller(a, b) == IF a < b THEN a ELSE b

TrueCount(r) ==
    IF size[r] <= position THEN 0 ELSE Smaller(size[r] - position, PageSize)

(* A node at height r answers with the chunk, or once with nothing. *)
Served(r, noteCount) ==
    /\ \/ noteCount = TrueCount(r) /\ UNCHANGED glitched
       \/ /\ noteCount = 0 /\ TrueCount(r) > 0
          /\ glitched < Glitches
          /\ glitched' = glitched + 1
    /\ requests' = requests + 1

-----------------------------------------------------------------------------
(* applyPage: the notes of the page that are the wallet's are recorded, and *)
(* an action marks the note it spends when that note is already recorded.   *)
(* A page read again adds nothing twice.                                    *)
Page(noteCount) == position .. position + noteCount - 1

ApplyPage(noteCount) ==
    /\ records' = records \cup (Mine \cap Page(noteCount))
    /\ spent' = spent \cup {i \in records' : \E j \in Page(noteCount) : Spends[j] = i}
    /\ scannedNotes' = IF noteCount > 0 /\ position + noteCount > scannedNotes
                       THEN position + noteCount ELSE scannedNotes

(* Mutated form of NeedsRefresh: the stream goes on past a short page that  *)
(* grew.                                                                    *)
NeedsRefresh_Never(r) == FALSE

(* The page was proved at another height than the short page before it: the *)
(* short page may have grown meanwhile and is read again first.             *)
NeedsRefresh(r) ==
    /\ partialRevision # -1
    /\ partialRevision # r
    /\ position # partialPosition

Turn(r) ==
    /\ outcome = "running" /\ ~cancelled
    /\ r \in 0 .. tip

Refused(r, noteCount) ==
    /\ Turn(r) /\ Served(r, noteCount)
    /\ r < highestRevision
    /\ outcome' = "failed"
    /\ UNCHANGED <<tip, size, scan, cancelled>>

(* Mutated form of Refresh: a page that is put aside is not counted.        *)
Refresh_Uncounted(r, noteCount) ==
    /\ Turn(r) /\ Served(r, noteCount)
    /\ r >= highestRevision /\ NeedsRefresh(r)
    /\ highestRevision' = r /\ terminalRevision' = -1
    /\ reconciliations' = reconciliations + 1
    /\ position' = partialPosition /\ consecutiveEmpty' = 0
    /\ outcome' = IF reconciliations' >= MaximumReconciliations THEN "changing-tip" ELSE "running"
    /\ UNCHANGED <<tip, size, pageCount, lastPartial, ledger, cancelled>>

(* The short page is read again first, and this one after it.               *)
Refresh(r, noteCount) ==
    /\ Turn(r) /\ Served(r, noteCount)
    /\ r >= highestRevision
    /\ NeedsRefresh(r)
    /\ highestRevision' = r
    /\ terminalRevision' = -1
    /\ reconciliations' = reconciliations + 1
    /\ position' = partialPosition
    /\ pageCount' = pageCount + 1
    /\ consecutiveEmpty' = 0
    /\ outcome' = IF reconciliations' >= MaximumReconciliations THEN "changing-tip"
                  ELSE IF pageCount' >= MaximumPages THEN "limit" ELSE "running"
    /\ UNCHANGED <<tip, size, lastPartial, ledger, cancelled>>

ApplyNotes(r, noteCount) ==
    /\ Turn(r) /\ Served(r, noteCount)
    /\ r >= highestRevision
    /\ ~NeedsRefresh(r)
    /\ noteCount > 0
    /\ ApplyPage(noteCount)
    /\ highestRevision' = r
    /\ terminalRevision' = -1
    /\ partialPosition' = IF noteCount < PageSize THEN position ELSE -1
    /\ partialRevision' = IF noteCount < PageSize THEN r ELSE -1
    /\ position' = position + PageSize
    /\ pageCount' = pageCount + 1
    /\ consecutiveEmpty' = 0
    /\ outcome' = IF pageCount' >= MaximumPages THEN "limit" ELSE "running"
    /\ UNCHANGED <<tip, size, reconciliations, cancelled>>

(* Mutated form of ConfirmEmpty: one empty page is enough. *)
ConfirmEmpty_Once(r, noteCount) ==
    /\ Turn(r) /\ Served(r, noteCount)
    /\ r >= highestRevision /\ ~NeedsRefresh(r)
    /\ noteCount = 0
    /\ highestRevision' = r /\ terminalRevision' = r
    /\ pageCount' = pageCount + 1 /\ consecutiveEmpty' = 1
    /\ outcome' = "complete"
    /\ UNCHANGED <<tip, size, position, lastPartial, reconciliations, ledger, cancelled>>

(* An empty page confirms the end only together with another one at the     *)
(* same height.                                                             *)
ConfirmEmpty(r, noteCount) ==
    /\ Turn(r) /\ Served(r, noteCount)
    /\ r >= highestRevision
    /\ ~NeedsRefresh(r)
    /\ noteCount = 0
    /\ ApplyPage(noteCount)
    /\ highestRevision' = r
    /\ terminalRevision' = r
    /\ pageCount' = pageCount + 1
    /\ consecutiveEmpty' = 1 + IF terminalRevision = r THEN consecutiveEmpty ELSE 0
    /\ outcome' = IF consecutiveEmpty' >= EmptyConfirmations THEN "complete"
                  ELSE IF pageCount' >= MaximumPages THEN "limit" ELSE "running"
    /\ UNCHANGED <<tip, size, position, lastPartial, reconciliations, cancelled>>

(* fetchPage rejects, by a network error or an invalid proof, before or     *)
(* after Cancel.                                                            *)
FetchFails ==
    /\ outcome = "running"
    /\ outcome' = "failed"
    /\ requests' = requests + 1
    /\ UNCHANGED <<tip, size, glitched, scan, cancelled>>

Cancel ==
    /\ outcome = "running" /\ ~cancelled
    /\ cancelled' = TRUE
    /\ UNCHANGED <<chain, scan, outcome>>

(* checkCancellation, before a fetch or after its page arrived. *)
StopCancelled ==
    /\ outcome = "running" /\ cancelled
    /\ outcome' = "cancelled"
    /\ requests' \in {requests, requests + 1}
    /\ UNCHANGED <<tip, size, glitched, scan, cancelled>>

ReadPage ==
    \E r \in 0 .. tip, noteCount \in 0 .. PageSize :
        \/ Refused(r, noteCount)
        \/ Refresh(r, noteCount)
        \/ ApplyNotes(r, noteCount)
        \/ ConfirmEmpty(r, noteCount)

Next ==
    \/ \E n \in 0 .. MaxSize : Grow(n)
    \/ ReadPage
    \/ FetchFails
    \/ Cancel
    \/ StopCancelled

Spec == Init /\ [][Next]_vars

-----------------------------------------------------------------------------
TypeOK ==
    /\ tip \in 0 .. MaxTip
    /\ size \in [0 .. tip -> 0 .. MaxSize]
    /\ glitched \in 0 .. Glitches /\ requests \in Nat
    /\ position \in Nat
    /\ pageCount \in 0 .. MaximumPages
    /\ consecutiveEmpty \in 0 .. EmptyConfirmations
    /\ outcome = "running" => pageCount < MaximumPages /\ reconciliations < MaximumReconciliations
    /\ partialPosition \in Nat \cup {-1}
    /\ partialRevision \in -1 .. tip
    /\ terminalRevision \in -1 .. tip
    /\ highestRevision \in -1 .. tip
    /\ reconciliations \in 0 .. MaximumReconciliations
    /\ records \subseteq Positions /\ spent \subseteq Positions
    /\ scannedNotes \in 0 .. MaxSize
    /\ cancelled \in BOOLEAN
    /\ outcome \in Outcomes

(* The ledger always is that of a prefix of the pool: no page is applied     *)
(* before an earlier one, so no spend is ever looked up before its note is   *)
(* recorded, and no spent note is counted in the balance.                    *)
LedgerIsPrefix ==
    /\ records = {i \in Mine : i < scannedNotes}
    /\ spent = {i \in Mine : \E j \in Positions : j < scannedNotes /\ Spends[j] = i}

(* A scan that reports itself complete has read every note of the pool at    *)
(* the highest height it was shown, and none of a later one.                 *)
CompleteIsSnapshot == outcome = "complete" => scannedNotes = size[highestRevision]

(* The scan implements an instantaneous reading of the pool at one height.   *)
Report ==
    [verdict |-> IF outcome = "running" THEN "none"
                 ELSE IF outcome = "complete" THEN "complete" ELSE "unfinished",
     known |-> IF outcome = "complete" THEN records ELSE {},
     spent |-> IF outcome = "complete" THEN spent ELSE {}]

Pool == INSTANCE PoolSnapshot WITH report <- Report

ImplementsSnapshot == Pool!Spec

(* Nothing else bounds a scan whose pool grows as fast as it is read: the    *)
(* nodes see at most MaximumPages requests, rereadings included, and a scan  *)
(* that stops without an end stops for what it says, as many pages as it may *)
(* read or a tip that did change so often (runShieldedPageStream).           *)
StopsForACause ==
    /\ requests <= MaximumPages
    /\ outcome = "limit" => requests = MaximumPages
    /\ outcome = "changing-tip" => tip >= MaximumReconciliations
=============================================================================
