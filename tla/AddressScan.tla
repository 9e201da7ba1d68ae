----------------------------- MODULE AddressScan -----------------------------
(***************************************************************************)
(* One section of a scan of the Discovery Scanner: the branches of a wallet  *)
(* one after another (scanBranches), each from index 0 in batches up to a    *)
(* target that every used address pushes on by the gap, the address book     *)
(* that asks a provider for every address once, and the findings             *)
(* (apps/discovery-scanner/src/address-book.ts, address-gap.ts, used by      *)
(* coins/bitcoin/seed.ts).                                                   *)
(*                                                                          *)
(* One thread: between an answer and the next request nothing else runs.  A  *)
(* path is a branch and an index; two branches may reach the same address.   *)
(* Of an address only its kind is kept, of a finding the branches it names.  *)
(***************************************************************************)
EXTENDS Integers, FiniteSets

CONSTANTS
    Branches,       \* how many branches are scanned
    AddressOf,      \* AddressOf[b][i]: the address of branch b at index i
    Initial,        \* the addresses of each branch scanned at least
    Maximum,        \* BIP32_BRANCH_SIZE
    Gap,            \* ADDRESS_DISCOVERY_GAP
    BatchSize       \* RECOVERY_UTXO_ADDRESS_BATCH

ASSUME ScanAssumption ==
    /\ Branches \in Nat \ {0} /\ Maximum \in Nat \ {0} /\ Gap \in Nat /\ BatchSize \in Nat \ {0}
    /\ Initial \in [1 .. Branches -> 1 .. Maximum]

Indices == 0 .. Maximum - 1
Addresses == {AddressOf[b][i] : b \in 1 .. Branches, i \in Indices}
Kinds == {"unused", "emptied", "funded"}

VARIABLES
    includeUsed,    \* config.includeUsedZeroBalance
    branch, offset, target,     \* scanBranch
    asking,         \* the addresses the scan awaits, {} while it has the turn
    states,         \* AddressBook: the kind of every address asked,
    funded, used,   \*   and its counts
    truncated,      \* AddressGapTracker
    findings,       \* AddressFindings: the branches each finding names
    checked,        \* how many addresses of each branch were checked
    aborted,        \* the run's signal fired
    verdict         \* "running", "complete", "partial", "aborted" or "failed"

walk == <<branch, offset, target, checked>>
book == <<states, funded, used, truncated, findings>>
scanVars == <<includeUsed, walk, asking, book, aborted, verdict>>

ScanInit ==
    /\ includeUsed \in BOOLEAN
    /\ branch = 1 /\ offset = 0 /\ target = Initial[1]
    /\ asking = {}
    /\ states = <<>> /\ funded = 0 /\ used = 0
    /\ truncated = FALSE /\ findings = <<>>
    /\ checked = [b \in 1 .. Branches |-> 0]
    /\ aborted \in BOOLEAN
    /\ verdict = "running"

Turn == verdict = "running" /\ asking = {}

ChunkEnd == IF offset + BatchSize <= target THEN offset + BatchSize ELSE target
Chunk == offset .. ChunkEnd - 1
At(i) == AddressOf[branch][i]

(* Mutated form of Missing: what another path has asked for is asked again. *)
Missing_All == {At(i) : i \in Chunk}

(* #lookUp: the addresses of the chunk not asked yet. *)
Missing == {At(i) : i \in Chunk} \ DOMAIN states

IsUsed(kind) == kind \in {"emptied", "funded"}
ToShow(kind) == kind = "funded" \/ (includeUsed /\ IsUsed(kind))
UsedOf(kinds) == Cardinality({a \in DOMAIN kinds : IsUsed(kinds[a])})
FundedOf(kinds) == Cardinality({a \in DOMAIN kinds : kinds[a] = "funded"})

(* How far the gap after index i goes within the index space. *)
Within(i) == IF i + 1 + Gap <= Maximum THEN i + 1 + Gap ELSE Maximum

(* extend, for every used address: the target is pushed on to the furthest. *)
Extend(usedAt) ==
    \E t \in {target} \cup {Within(i) : i \in usedAt} :
        /\ target <= t /\ \A i \in usedAt : Within(i) <= t
        /\ target' = t

(* Mutated form of Cut: a gap that ends right at the maximum counts as cut. *)
Cut_TooSoon(usedAt) == \E i \in usedAt : i + 1 + Gap >= Maximum

Cut(usedAt) == \E i \in usedAt : i + 1 + Gap > Maximum

(* show, for the addresses of the chunk to show. *)
Show(shown) ==
    findings' = [a \in DOMAIN findings \cup {At(i) : i \in shown} |->
        (IF a \in DOMAIN findings THEN findings[a] ELSE {})
          \cup (IF \E i \in shown : At(i) = a THEN {branch} ELSE {})]

(* #lookUp with the answer, batch with the states of the chunk, and the rest *)
(* of the turn of the loop.                                                  *)
Batch(answer) ==
    LET kinds  == [a \in DOMAIN states \cup DOMAIN answer |->
                     IF a \in DOMAIN answer THEN answer[a] ELSE states[a]]
        usedAt == {i \in Chunk : IsUsed(kinds[At(i)])}
    IN /\ states' = kinds
       /\ used' = used + UsedOf(answer) /\ funded' = funded + FundedOf(answer)
       /\ Extend(usedAt)
       /\ truncated' = (truncated \/ Cut(usedAt))
       /\ Show({i \in Chunk : ToShow(kinds[At(i)])})
       /\ offset' = ChunkEnd
       /\ asking' = {}
       /\ UNCHANGED <<includeUsed, branch, checked, aborted, verdict>>

-----------------------------------------------------------------------------
(* The chunk's addresses are all known: nothing is asked. *)
KnownBatch == Turn /\ offset < target /\ ~aborted /\ Missing = {} /\ Batch(<<>>)

LookUp ==
    /\ Turn /\ offset < target /\ ~aborted
    /\ Missing # {} /\ asking' = Missing
    /\ UNCHANGED <<includeUsed, walk, book, aborted, verdict>>

(* The branch is through: the next one begins, or the section is made. *)
BranchEnds ==
    /\ Turn /\ offset >= target
    /\ checked' = [checked EXCEPT ![branch] = offset]
    /\ IF branch < Branches
       THEN /\ branch' = branch + 1 /\ offset' = 0 /\ target' = Initial[branch + 1]
            /\ UNCHANGED verdict
       ELSE /\ verdict' = IF truncated THEN "partial" ELSE "complete"
            /\ UNCHANGED <<branch, offset, target>>
    /\ UNCHANGED <<includeUsed, asking, book, aborted>>

Ended(how) ==
    /\ verdict' = how /\ asking' = {}
    /\ UNCHANGED <<includeUsed, walk, book>>

(* The loop looks at the signal before every batch. *)
FoundAborted == Turn /\ offset < target /\ aborted /\ Ended("aborted") /\ UNCHANGED aborted

(* The signal fires while the scan awaits an answer: the call is given up.   *)
Abort == asking # {} /\ aborted' = TRUE /\ Ended("aborted")

Answered(answer) == asking # {} /\ Batch(answer)
Refused == asking # {} /\ Ended("failed") /\ UNCHANGED aborted

ScanTurn == KnownBatch \/ BranchEnds \/ FoundAborted
=============================================================================
