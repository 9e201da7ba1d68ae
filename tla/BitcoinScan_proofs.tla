-------------------------- MODULE BitcoinScan_proofs --------------------------
(***************************************************************************)
(* Proofs about BitcoinScan for any branches, any addresses they share, any  *)
(* gap, index space and batch size, and any number of providers, lanes and   *)
(* attempts: a section that was made stopped where the gap rule says, and a  *)
(* scan fails only when all providers failed.                                *)
(***************************************************************************)
EXTENDS BitcoinScan, FiniteSetTheorems, TLAPS

Alive == verdict \in {"running", "complete", "partial"}

Counts ==
    /\ branch \in 1 .. Branches
    /\ offset \in Nat /\ target \in 1 .. Maximum /\ offset <= target
    /\ checked \in [1 .. Branches -> 0 .. Maximum]
    /\ truncated \in BOOLEAN

(* A running scan awaits just what its chunk lacks. *)
AsksWhatIsMissing == asking # {} => verdict = "running" /\ offset < target /\ asking = Missing

(* Up to off a branch is known, and t is the target that calls for: no gap   *)
(* after a used address below off goes beyond it, and each smaller number    *)
(* is below the minimum or inside the gap after a used address before it.    *)
Reached(b, off, t) ==
    /\ \A i \in 0 .. off - 1 : AddressOf[b][i] \in DOMAIN states
    /\ t >= Initial[b]
    /\ \A i \in 0 .. off - 1 : UsedAt(b, i) => t >= Within(i)
    /\ \A n \in 0 .. t - 1 :
         \/ n < Initial[b]
         \/ \E i \in 0 .. off - 1 : i < n /\ UsedAt(b, i) /\ n < Within(i)

(* The branches that are through, and the one that is not.  *)
Through ==
    /\ \A b \in 1 .. branch - 1 : Reached(b, checked[b], checked[b])
    /\ Reached(branch, offset, target)
    /\ verdict # "running" =>
         branch = Branches /\ offset = target /\ checked[branch] = offset

CutAt(b, off) == \E i \in 0 .. off - 1 : UsedAt(b, i) /\ i + 1 + Gap > Maximum

TruncatedIsTrue ==
    truncated <=> (CutAt(branch, offset) \/ \E b \in 1 .. branch - 1 : CutAt(b, checked[b]))

VerdictFollows == verdict \in {"complete", "partial"} => (verdict = "partial" <=> truncated)

ScanInv ==
    /\ Counts
    /\ AsksWhatIsMissing
    /\ Alive => Through /\ TruncatedIsTrue /\ VerdictFollows

USE ScanAssumption DEF ScanAssumption

LEMMA WithinBounds == ASSUME NEW i \in Nat PROVE Within(i) \in Int /\ Within(i) <= Maximum
  BY DEF Within

LEMMA ScanInitInv == ScanInit => ScanInv
  <1> SUFFICES ASSUME ScanInit PROVE ScanInv
    OBVIOUS
  <1> USE DEF ScanInit
  <1>3. Initial[1] \in 1 .. Maximum /\ 1 \in 1 .. Branches
    OBVIOUS
  <1>1. Counts
    <2>1. checked \in [1 .. Branches -> 0 .. Maximum]
      OBVIOUS
    <2>2. branch = 1 /\ offset = 0 /\ target = Initial[1]
      OBVIOUS
    <2>3. truncated \in BOOLEAN
      OBVIOUS
    <2> HIDE DEF ScanInit
    <2>4. branch \in 1 .. Branches /\ offset \in Nat /\ target \in 1 .. Maximum /\ offset <= target
      BY <1>3, <2>2
    <2> QED
      BY <2>1, <2>3, <2>4 DEF Counts
  <1>2. AsksWhatIsMissing
    BY DEF AsksWhatIsMissing
  <1>4. Reached(1, 0, Initial[1])
    BY <1>3 DEF Reached
  <1>5. Through /\ TruncatedIsTrue /\ VerdictFollows
    BY <1>4 DEF Through, TruncatedIsTrue, CutAt, VerdictFollows
  <1> QED
    BY <1>1, <1>2, <1>5 DEF ScanInv

(* What was known of a branch is not changed by an answer. *)
LEMMA KnownIsKept ==
    ASSUME NEW b, NEW off \in Nat,
           \A i \in 0 .. off - 1 : AddressOf[b][i] \in DOMAIN states,
           \A a \in DOMAIN states : a \in DOMAIN states' /\ states'[a] = states[a]
    PROVE  /\ \A i \in 0 .. off - 1 : UsedAt(b, i)' <=> UsedAt(b, i)
           /\ CutAt(b, off)' <=> CutAt(b, off)
           /\ \A t : Reached(b, off, t) => Reached(b, off, t)'
  <1>1. \A i \in 0 .. off - 1 : UsedAt(b, i)' <=> UsedAt(b, i)
    BY DEF UsedAt, IsUsed
  <1>2. CutAt(b, off)' <=> CutAt(b, off)
    BY <1>1 DEF CutAt
  <1>3. \A t : Reached(b, off, t) => Reached(b, off, t)'
    BY <1>1 DEF Reached, Within
  <1> QED
    BY <1>1, <1>2, <1>3

(* A batch extends what is known by its chunk and the target by its used     *)
(* addresses.                                                                *)
LEMMA BatchInv ==
    ASSUME ScanInv, verdict = "running", offset < target,
           NEW answer, DOMAIN answer = Missing, Batch(answer)
    PROVE  ScanInv'
  <1> DEFINE kinds  == [a \in DOMAIN states \cup DOMAIN answer |->
                          IF a \in DOMAIN answer THEN answer[a] ELSE states[a]]
             usedAt == {i \in Chunk : IsUsed(kinds[At(i)])}
  <1>1. /\ states' = kinds /\ Extend(usedAt) /\ truncated' = (truncated \/ Cut(usedAt))
        /\ offset' = ChunkEnd /\ asking' = {}
        /\ UNCHANGED <<branch, checked, verdict>>
    BY DEF Batch
  <1>2. Counts /\ Through /\ TruncatedIsTrue
    BY DEF ScanInv, Alive
  <1>3. \A a \in DOMAIN states : a \in DOMAIN states' /\ states'[a] = states[a]
    BY <1>1 DEF Missing
  <1>4. /\ branch \in 1 .. Branches /\ branch' = branch /\ checked' = checked
        /\ offset \in Nat /\ target \in Nat /\ target <= Maximum
        /\ Initial[branch] \in 1 .. Maximum
    BY <1>1, <1>2 DEF Counts
  <1>5. ChunkEnd \in Nat /\ offset < ChunkEnd /\ ChunkEnd <= target
    BY <1>4 DEF ChunkEnd
  <1>6. \A i \in Chunk : i \in Nat /\ offset <= i /\ i < target
    BY <1>4, <1>5 DEF Chunk
  <1>7. \A i \in 0 .. ChunkEnd - 1 : i \in 0 .. offset - 1 \/ i \in Chunk
    BY <1>4, <1>5 DEF Chunk
  <1>8. PICK t \in {target} \cup {Within(i) : i \in usedAt} :
          target <= t /\ (\A i \in usedAt : Within(i) <= t) /\ target' = t
    BY <1>1 DEF Extend
  <1>9. t \in Nat /\ t <= Maximum
    <2>1. CASE t = target
      BY <2>1, <1>4
    <2>2. CASE t # target
      <3>1. PICK i \in usedAt : t = Within(i)
        BY <2>2
      <3>2. i \in Nat
        BY <1>6
      <3>3. t \in Int /\ t <= Maximum
        BY <3>1, <3>2, WithinBounds
      <3>4. target <= t /\ target \in Nat
        BY <1>4, <1>8
      <3> QED
        BY <3>3, <3>4
    <2> QED
      BY <2>1, <2>2
  <1>10. \A i \in Chunk : AddressOf[branch][i] \in DOMAIN states'
    BY <1>1 DEF Missing, At
  <1>11. \A i \in Chunk : UsedAt(branch, i)' <=> i \in usedAt
    BY <1>1, <1>4 DEF UsedAt, At
  <1>12. \A i \in 0 .. offset - 1 : AddressOf[branch][i] \in DOMAIN states
    BY <1>2 DEF Through, Reached
  <1>13. \A i \in 0 .. offset - 1 : UsedAt(branch, i)' <=> UsedAt(branch, i)
    <2>1. \A i \in 0 .. offset - 1 : states'[AddressOf[branch][i]] = states[AddressOf[branch][i]]
      BY <1>3, <1>12
    <2> QED
      BY <2>1, <1>4 DEF UsedAt, IsUsed
  <1>14. Reached(branch, offset, target)'
    <2>1. \A i \in 0 .. offset' - 1 : AddressOf[branch][i] \in DOMAIN states'
      BY <1>1, <1>3, <1>7, <1>10, <1>12
    <2>2. target' >= Initial[branch]
      BY <1>2, <1>4, <1>8, <1>9 DEF Through, Reached
    <2>3. \A i \in 0 .. offset' - 1 : UsedAt(branch, i)' => target' >= Within(i)
      <3> SUFFICES ASSUME NEW i \in 0 .. offset' - 1, UsedAt(branch, i)'
                   PROVE  target' >= Within(i)
        OBVIOUS
      <3>1. CASE i \in Chunk
        BY <3>1, <1>8, <1>9, <1>11, <1>6, WithinBounds
      <3>2. CASE i \in 0 .. offset - 1
        <4>1. target >= Within(i)
          BY <3>2, <1>2, <1>13 DEF Through, Reached
        <4> QED
          BY <4>1, <3>2, <1>4, <1>8, <1>9, WithinBounds
      <3> QED
        BY <3>1, <3>2, <1>1, <1>7
    <2>4. \A n \in 0 .. target' - 1 :
            \/ n < Initial[branch]
            \/ \E i \in 0 .. offset' - 1 : i < n /\ UsedAt(branch, i)' /\ n < Within(i)
      <3> SUFFICES ASSUME NEW n \in 0 .. target' - 1, ~(n < Initial[branch])
                   PROVE  \E i \in 0 .. offset' - 1 : i < n /\ UsedAt(branch, i)' /\ n < Within(i)
        OBVIOUS
      <3>1. CASE n < target
        <4>1. n \in 0 .. target - 1
          BY <3>1, <1>4, <1>8, <1>9
        <4>2. PICK i \in 0 .. offset - 1 : i < n /\ UsedAt(branch, i) /\ n < Within(i)
          BY <4>1, <1>2 DEF Through, Reached
        <4>3. i \in 0 .. offset' - 1
          BY <1>1, <1>4, <1>5
        <4> QED
          BY <4>2, <4>3, <1>13
      <3>2. CASE ~(n < target)
        <4>1. t # target
          BY <3>2, <1>4, <1>8, <1>9
        <4>2. PICK i \in usedAt : t = Within(i)
          BY <4>1
        <4>3. i \in Chunk /\ UsedAt(branch, i)'
          BY <4>2, <1>11
        <4>4. i \in 0 .. offset' - 1 /\ i < n
          BY <4>3, <3>2, <1>1, <1>4, <1>5, <1>6 DEF Chunk
        <4> QED
          BY <4>2, <4>3, <4>4, <1>8, <1>9
      <3> QED
        BY <3>1, <3>2
    <2> QED
      BY <2>1, <2>2, <2>3, <2>4, <1>4 DEF Reached, Within
  <1>15. \A b \in 1 .. branch - 1 : checked[b] \in Nat /\ b \in 1 .. Branches
    BY <1>2, <1>4 DEF Counts
  <1>16. \A b \in 1 .. branch - 1 : \A i \in 0 .. checked[b] - 1 : AddressOf[b][i] \in DOMAIN states
    BY <1>2 DEF Through, Reached
  <1>17. \A b \in 1 .. branch - 1 : Reached(b, checked[b], checked[b])'
    BY <1>2, <1>3, <1>4, <1>15, <1>16, KnownIsKept DEF Through
  <1>18. Through'
    BY <1>1, <1>14, <1>17 DEF Through
  <1>19. Cut(usedAt) <=> \E i \in Chunk : UsedAt(branch, i)' /\ i + 1 + Gap > Maximum
    BY <1>11 DEF Cut
  <1>20. CutAt(branch, offset)' <=> CutAt(branch, offset) \/ Cut(usedAt)
    <2>1. CutAt(branch, offset)' <=> \E i \in 0 .. ChunkEnd - 1 : UsedAt(branch, i)' /\ i + 1 + Gap > Maximum
      BY <1>1 DEF CutAt
    <2>2. (0 .. offset - 1) \cup Chunk = 0 .. ChunkEnd - 1
      BY <1>4, <1>5 DEF Chunk
    <2> QED
      BY <2>1, <2>2, <1>13, <1>19 DEF CutAt
  <1>21. \A b \in 1 .. branch - 1 : CutAt(b, checked[b])' <=> CutAt(b, checked[b])
    BY <1>3, <1>4, <1>15, <1>16, KnownIsKept
  <1>22. TruncatedIsTrue'
    BY <1>1, <1>2, <1>20, <1>21 DEF TruncatedIsTrue
  <1>23. Counts'
    BY <1>1, <1>2, <1>4, <1>5, <1>8, <1>9 DEF Counts
  <1>24. AsksWhatIsMissing' /\ VerdictFollows'
    BY <1>1 DEF AsksWhatIsMissing, VerdictFollows
  <1> QED
    BY <1>18, <1>22, <1>23, <1>24 DEF ScanInv

(* The scan's steps other than a batch. *)
LEMMA LookUpInv == ASSUME ScanInv, LookUp PROVE ScanInv'
  <1> USE DEF LookUp, Turn, walk, book
  <1>1. Counts' /\ AsksWhatIsMissing'
    BY DEF ScanInv, Counts, AsksWhatIsMissing, Missing, At, Chunk, ChunkEnd
  <1>2. Alive => Through' /\ TruncatedIsTrue' /\ VerdictFollows'
    BY DEF ScanInv, Through, TruncatedIsTrue, VerdictFollows, Reached, CutAt, UsedAt, IsUsed, Within
  <1> QED
    BY <1>1, <1>2 DEF ScanInv, Alive

LEMMA BranchEndsInv == ASSUME ScanInv, BranchEnds PROVE ScanInv'
  <1>1. /\ Counts /\ Through /\ TruncatedIsTrue /\ verdict = "running" /\ asking = {}
        /\ offset = target /\ branch \in 1 .. Branches /\ target \in 1 .. Maximum
    BY DEF ScanInv, BranchEnds, Turn, Alive, Counts
  <1>2. /\ checked' = [checked EXCEPT ![branch] = offset]
        /\ asking' = {} /\ states' = states /\ truncated' = truncated
    BY <1>1 DEF BranchEnds, book
  <1>3. /\ checked' \in [1 .. Branches -> 0 .. Maximum] /\ checked'[branch] = target
        /\ \A b \in 1 .. branch - 1 : checked'[b] = checked[b]
    BY <1>1, <1>2 DEF Counts
  <1>4. /\ \A b \in 1 .. branch : Reached(b, checked'[b], checked'[b])
        /\ truncated <=> \E b \in 1 .. branch : CutAt(b, checked'[b])
    <2>1. \A b \in 1 .. branch : b = branch \/ b \in 1 .. branch - 1
      BY <1>1
    <2>2. \A b \in 1 .. branch - 1 : b \in 1 .. branch
      BY <1>1
    <2>3. Reached(branch, checked'[branch], checked'[branch])
      BY <1>1, <1>3 DEF Through
    <2>4. \A b \in 1 .. branch - 1 : Reached(b, checked'[b], checked'[b])
      BY <1>1, <1>3 DEF Through
    <2>5. CutAt(branch, offset) <=> CutAt(branch, checked'[branch])
      BY <1>1, <1>3
    <2>6. \A b \in 1 .. branch - 1 : CutAt(b, checked[b]) <=> CutAt(b, checked'[b])
      BY <1>3
    <2>7. \A b \in 1 .. branch : Reached(b, checked'[b], checked'[b])
      BY <2>1, <2>3, <2>4
    <2>8. branch \in 1 .. branch
      BY <1>1
    <2>9. truncated <=> \E b \in 1 .. branch : CutAt(b, checked'[b])
      BY <1>1, <2>1, <2>2, <2>5, <2>6, <2>8 DEF TruncatedIsTrue
    <2> QED
      BY <2>7, <2>9
  <1>6. CASE branch < Branches
    <2>1. /\ branch' = branch + 1 /\ offset' = 0 /\ target' = Initial[branch + 1]
          /\ verdict' = verdict /\ branch + 1 \in 1 .. Branches
      BY <1>1, <1>6 DEF BranchEnds
    <2>2. Initial[branch + 1] \in 1 .. Maximum
      BY <2>1
    <2>3. Counts'
      BY <1>1, <1>2, <1>3, <2>1, <2>2 DEF Counts
    <2>4. Reached(branch, offset, target)'
      BY <2>1, <2>2 DEF Reached
    <2>5. branch' - 1 = branch
      BY <1>1, <2>1
    <2>6. Through'
      <3>1. \A b \in 1 .. branch' - 1 : Reached(b, checked[b], checked[b])'
        BY <1>2, <1>4, <2>5 DEF Reached, UsedAt, IsUsed, Within
      <3>2. verdict' = "running"
        BY <1>1, <2>1
      <3> QED
        BY <2>4, <3>1, <3>2 DEF Through
    <2>7. ~CutAt(branch, offset)'
      BY <2>1 DEF CutAt
    <2>8. TruncatedIsTrue'
      <3>1. \A b \in 1 .. branch' - 1 : CutAt(b, checked[b])' <=> CutAt(b, checked'[b])
        BY <1>2 DEF CutAt, UsedAt, IsUsed
      <3>2. truncated' <=> \E b \in 1 .. branch' - 1 : CutAt(b, checked'[b])
        BY <1>2, <1>4, <2>5
      <3> QED
        BY <2>7, <3>1, <3>2 DEF TruncatedIsTrue
    <2>9. AsksWhatIsMissing' /\ VerdictFollows'
      BY <1>1, <1>2, <2>1 DEF AsksWhatIsMissing, VerdictFollows
    <2> QED
      BY <2>3, <2>6, <2>8, <2>9 DEF ScanInv
  <1>7. CASE ~(branch < Branches)
    <2>1. /\ branch = Branches /\ UNCHANGED <<branch, offset, target>>
          /\ verdict' = IF truncated THEN "partial" ELSE "complete"
      BY <1>1, <1>7 DEF BranchEnds
    <2>2. Counts'
      BY <1>1, <1>2, <1>3, <2>1 DEF Counts
    <2>3. branch' = branch /\ offset' = checked'[branch] /\ target' = checked'[branch]
      BY <1>1, <1>3, <2>1
    <2>4. \A b \in 1 .. branch' - 1 : b \in 1 .. branch
      BY <1>1, <2>3
    <2>5. \A b \in 1 .. branch : b = branch \/ b \in 1 .. branch' - 1
      BY <1>1, <2>3
    <2>7. Through' /\ TruncatedIsTrue'
      <3>1. \A b \in 1 .. branch' - 1 :
              /\ Reached(b, checked[b], checked[b])'
              /\ CutAt(b, checked[b])' <=> CutAt(b, checked'[b])
        BY <1>2, <1>4, <2>4 DEF Reached, CutAt, UsedAt, IsUsed, Within
      <3>2. branch \in 1 .. branch
        BY <1>1
      <3>3. Reached(branch, offset, target)'
        BY <1>2, <1>4, <2>3, <3>2 DEF Reached, UsedAt, IsUsed, Within
      <3>4. CutAt(branch, offset)' <=> CutAt(branch, checked'[branch])
        BY <1>2, <2>3 DEF CutAt, UsedAt, IsUsed
      <3>5. truncated' <=> (CutAt(branch, checked'[branch]) \/
                             \E b \in 1 .. branch' - 1 : CutAt(b, checked'[b]))
        BY <1>2, <1>4, <2>4, <2>5, <3>2
      <3>6. TruncatedIsTrue'
        BY <3>1, <3>4, <3>5 DEF TruncatedIsTrue
      <3> QED
        BY <2>1, <2>3, <3>1, <3>3, <3>6 DEF Through
    <2>6. AsksWhatIsMissing' /\ VerdictFollows'
      BY <1>1, <1>2, <2>1 DEF AsksWhatIsMissing, VerdictFollows, Counts
    <2> QED
      BY <2>2, <2>6, <2>7 DEF ScanInv
  <1> QED
    BY <1>6, <1>7

LEMMA EndedInv ==
    ASSUME ScanInv, NEW how \in {"aborted", "failed"}, Ended(how) PROVE ScanInv'
  BY DEF ScanInv, Ended, walk, book, Counts, AsksWhatIsMissing, Alive

LEMMA StutterInv == ASSUME ScanInv, UNCHANGED scanVars PROVE ScanInv'
  <1> USE DEF scanVars, walk, book
  <1>1. Counts' /\ AsksWhatIsMissing'
    BY DEF ScanInv, Counts, AsksWhatIsMissing, Missing, At, Chunk, ChunkEnd
  <1>2. Alive => Through' /\ TruncatedIsTrue' /\ VerdictFollows'
    BY DEF ScanInv, Through, TruncatedIsTrue, VerdictFollows, Reached, CutAt, UsedAt, IsUsed, Within
  <1> QED
    BY <1>1, <1>2 DEF ScanInv, Alive

LEMMA ScanTurnInv == ASSUME ScanInv, ScanTurn PROVE ScanInv'
  <1>1. CASE KnownBatch
    <2>1. verdict = "running" /\ offset < target /\ Batch(<<>>) /\ DOMAIN <<>> = Missing
      BY <1>1 DEF KnownBatch, Turn
    <2> QED
      BY <2>1, BatchInv
  <1>2. CASE BranchEnds
    BY <1>2, BranchEndsInv
  <1>3. CASE FoundAborted
    BY <1>3, EndedInv DEF FoundAborted
  <1> QED
    BY <1>1, <1>2, <1>3 DEF ScanTurn

LEMMA AnswerInv == ASSUME ScanInv, Answer PROVE ScanInv'
  <1>1. CASE asking = {} /\ UNCHANGED scanVars
    BY <1>1, StutterInv
  <1>2. ASSUME NEW answer \in [asking -> Kinds], Answered(answer) PROVE ScanInv'
    <2>1. verdict = "running" /\ offset < target /\ DOMAIN answer = Missing /\ Batch(answer)
      BY <1>2 DEF Answered, ScanInv, AsksWhatIsMissing
    <2> QED
      BY <2>1, BatchInv
  <1> QED
    BY <1>1, <1>2 DEF Answer

LEMMA RefuseInv == ASSUME ScanInv, Refuse PROVE ScanInv'
  BY StutterInv, EndedInv DEF Refuse, Refused

LEMMA ScanStepInv == ASSUME ScanInv, [Next]_vars PROVE ScanInv'
  <1>1. CASE ScanStep
    BY <1>1, ScanTurnInv DEF ScanStep
  <1>2. CASE Ask
    BY <1>2, LookUpInv DEF Ask
  <1>3. CASE Cancel
    BY <1>3, EndedInv DEF Cancel, Abort
  <1>4. CASE Network
    BY <1>4, AnswerInv, StutterInv DEF Network, BatchAnswer, BatchFailure
  <1>5. CASE Told
    BY <1>5, StutterInv DEF Told
  <1>6. ASSUME NEW i \in 1 .. BatchSize, Lane(i) PROVE ScanInv'
    <2>1. CASE AddressAnswer(i)
      BY <2>1, AnswerInv, StutterInv DEF AddressAnswer
    <2>2. CASE AddressFailure(i)
      BY <2>2, RefuseInv, StutterInv DEF AddressFailure
    <2>3. CASE RetryDue(i)
      BY <2>3, StutterInv DEF RetryDue
    <2> QED
      BY <1>6, <2>1, <2>2, <2>3 DEF Lane
  <1>7. CASE UNCHANGED vars
    BY <1>7, StutterInv DEF vars
  <1> QED
    BY <1>1, <1>2, <1>3, <1>4, <1>5, <1>6, <1>7 DEF Next

LEMMA RuleFollows == ScanInv => StopsByTheRule
  <1> SUFFICES ASSUME ScanInv, verdict \in {"complete", "partial"}
               PROVE  /\ \A b \in 1 .. Branches :
                           Enough(b, checked[b]) /\ \A n \in 0 .. checked[b] - 1 : ~Enough(b, n)
                      /\ verdict = "complete" <=>
                           \A b \in 1 .. Branches : \A i \in 0 .. checked[b] - 1 :
                             UsedAt(b, i) => i + Gap < checked[b]
    BY DEF StopsByTheRule
  <1>1. Counts /\ Through /\ TruncatedIsTrue /\ VerdictFollows /\ verdict # "running"
    BY DEF ScanInv, Alive
  <1>2. branch = Branches /\ offset = target /\ checked[branch] = offset /\ branch \in 1 .. Branches
    BY <1>1 DEF Through, Counts
  <1>3. \A b \in 1 .. Branches : b = branch \/ b \in 1 .. branch - 1
    BY <1>2
  <1>4. \A b \in 1 .. Branches : checked[b] \in 0 .. Maximum /\ Reached(b, checked[b], checked[b])
    BY <1>1, <1>2, <1>3 DEF Through, Counts
  <1>5. truncated <=> \E b \in 1 .. Branches : CutAt(b, checked[b])
    <2>1. \A b \in 1 .. branch - 1 : b \in 1 .. Branches
      BY <1>2
    <2> QED
      BY <1>1, <1>2, <1>3, <2>1 DEF TruncatedIsTrue
  <1>6. ASSUME NEW b \in 1 .. Branches
        PROVE  Enough(b, checked[b]) /\ \A n \in 0 .. checked[b] - 1 : ~Enough(b, n)
    <2>1. Enough(b, checked[b])
      BY <1>4 DEF Reached, Enough
    <2>2. ASSUME NEW n \in 0 .. checked[b] - 1 PROVE ~Enough(b, n)
      <3>1. CASE n < Initial[b]
        <4>1. Initial[b] \in 1 .. Maximum /\ n \in Nat
          BY <1>4
        <4> QED
          BY <3>1, <4>1 DEF Enough
      <3>2. CASE \E i \in 0 .. checked[b] - 1 : i < n /\ UsedAt(b, i) /\ n < Within(i)
        <4>1. PICK i \in 0 .. checked[b] - 1 : i < n /\ UsedAt(b, i) /\ n < Within(i)
          BY <3>2
        <4>2. i \in 0 .. n - 1 /\ ~(n >= Within(i))
          BY <4>1, <1>4, WithinBounds
        <4> QED
          BY <4>1, <4>2 DEF Enough
      <3> QED
        BY <3>1, <3>2, <1>4 DEF Reached
    <2> QED
      BY <2>1, <2>2
  <1>7. ASSUME NEW b \in 1 .. Branches, NEW i \in 0 .. checked[b] - 1, UsedAt(b, i)
        PROVE  i + Gap < checked[b] <=> ~(i + 1 + Gap > Maximum)
    <2>1. checked[b] \in 0 .. Maximum /\ checked[b] >= Within(i) /\ i \in Nat
      BY <1>4, <1>7 DEF Reached
    <2> QED
      BY <2>1 DEF Within
  <1>8. verdict = "complete" <=>
          \A b \in 1 .. Branches : \A i \in 0 .. checked[b] - 1 :
            UsedAt(b, i) => i + Gap < checked[b]
    BY <1>1, <1>5, <1>7 DEF CutAt, VerdictFollows
  <1> QED
    BY <1>6, <1>8

(* A section that was made stopped where the gap rule of address-gap.ts says *)
(* (scanBranch of address-book.ts), and is called complete exactly if no gap *)
(* was cut.                                                                  *)
THEOREM GapRule == Spec => []StopsByTheRule
  <1>1. Init => ScanInv
    BY ScanInitInv DEF Init
  <1>2. ScanInv /\ [Next]_vars => ScanInv'
    BY ScanStepInv
  <1> QED
    BY <1>1, <1>2, RuleFollows, PTL DEF Spec

-----------------------------------------------------------------------------
Exhausted(i) == at[i] = "refused" \/ (at[i] = "failed" /\ attempt[i] = Attempts)

(* The fallback begins when all batch providers failed, and an address that  *)
(* failed stays failed until the next lookup, which a failed scan never asks. *)
LookupInv ==
    /\ DOMAIN attempt = DOMAIN at
    /\ DOMAIN at # {} => provider = Providers /\ stage # "batch"
    /\ verdict = "failed" => (\E i \in DOMAIN at : Exhausted(i)) /\ asking = {}

LEMMA AnswerGoesOn == ASSUME LookupInv, Answer PROVE (verdict' = "failed" => verdict = "failed") /\ (verdict' = "failed" => asking' = {})
  BY DEF LookupInv, Answer, Answered, Batch, scanVars

LEMMA LookupStepInv == ASSUME LookupInv, [Next]_vars PROVE LookupInv'
  <1> USE DEF LookupInv, Exhausted
  <1>1. CASE ScanStep
    BY <1>1 DEF ScanStep, ScanTurn, KnownBatch, BranchEnds, FoundAborted, Ended, Batch, Turn, lookup
  <1>2. CASE Ask
    BY <1>2 DEF Ask, LookUp, Turn, Begin
  <1>3. CASE Cancel
    BY <1>3 DEF Cancel, Abort, Ended, lookup
  <1>4. CASE BatchAnswer
    BY <1>4, AnswerGoesOn DEF BatchAnswer, BatchGiven
  <1>5. CASE BatchFailure
    <2>1. UNCHANGED <<verdict, asking>> /\ DOMAIN at = {} /\ verdict # "failed"
      BY <1>5 DEF BatchFailure, NextProvider, Fallback, scanVars
    <2>2. CASE NextProvider
      BY <2>1, <2>2 DEF NextProvider
    <2>3. CASE Fallback
      BY <2>1, <2>3 DEF Fallback, AllFailed
    <2> QED
      BY <1>5, <2>2, <2>3 DEF BatchFailure
  <1>6. CASE Told
    BY <1>6 DEF Told, Stop, Active, scanVars
  <1>7. ASSUME NEW i \in 1 .. BatchSize, AddressAnswer(i) PROVE LookupInv'
    <2>1. /\ i \in DOMAIN at /\ at[i] = "fetch" /\ TakeNext([at EXCEPT ![i] = "done"])
          /\ provider' = provider /\ stage' # "batch"
      BY <1>7 DEF AddressAnswer, FetchGiven, StopWhenQuiet
    <2>2. DOMAIN at' = DOMAIN at /\ DOMAIN attempt' = DOMAIN attempt
      BY <2>1 DEF TakeNext
    <2>3. \A j \in DOMAIN at : Exhausted(j) => Exhausted(j)'
      BY <2>1 DEF TakeNext
    <2>4. verdict' = "failed" => verdict = "failed" /\ asking' = {}
      BY <1>7, AnswerGoesOn DEF AddressAnswer, scanVars
    <2> QED
      BY <2>1, <2>2, <2>3, <2>4
  <1>8. ASSUME NEW i \in 1 .. BatchSize, AddressFailure(i) PROVE LookupInv'
    <2>1. CASE WaitForRetry(i) /\ UNCHANGED scanVars
      BY <2>1 DEF WaitForRetry, scanVars
    <2>2. CASE GiveUp(i)
      <3>1. /\ i \in DOMAIN at /\ at[i] = "fetch" /\ UNCHANGED <<provider, attempt>>
            /\ at' = [at EXCEPT ![i] = at'[i]] /\ stage' # "batch"
            /\ at'[i] = "refused" \/ (attempt[i] = Attempts /\ at'[i] = "failed")
        BY <2>2 DEF GiveUp, StopWhenQuiet
      <3>2. Exhausted(i)' /\ DOMAIN at' = DOMAIN at
        BY <3>1
      <3>3. verdict' = "failed" => asking' = {}
        BY <1>8, <2>2 DEF AddressFailure, Refuse, Refused, Ended, scanVars, WaitForRetry
      <3> QED
        BY <3>1, <3>2, <3>3
    <2> QED
      BY <1>8, <2>1, <2>2 DEF AddressFailure
  <1>9. ASSUME NEW i \in 1 .. BatchSize, RetryDue(i) PROVE LookupInv'
    BY <1>9 DEF RetryDue, Retry, scanVars
  <1>10. CASE UNCHANGED vars
    BY <1>10 DEF vars, scanVars, lookup
  <1> QED
    BY <1>1, <1>2, <1>3, <1>4, <1>5, <1>6, <1>7, <1>8, <1>9, <1>10 DEF Next, Network, Lane

(* A scan fails only when every batch provider failed and then some address, *)
(* at its last attempt or for good (utxoAddresses of bitcoin-service.ts).    *)
THEOREM ThoroughFailure == Spec => []FailureIsThorough
  <1>1. Init => LookupInv
    BY DEF Init, ScanInit, LookupInit, LookupInv
  <1>2. LookupInv /\ [Next]_vars => LookupInv'
    BY LookupStepInv
  <1>3. LookupInv => FailureIsThorough
    BY DEF LookupInv, Exhausted, FailureIsThorough
  <1> QED
    BY <1>1, <1>2, <1>3, PTL DEF Spec

-----------------------------------------------------------------------------
(* Up to which index a branch is known. *)
Upto(b) == IF b < branch THEN checked[b] ELSE IF b = branch THEN offset ELSE 0

(* The branches that have come across an address. *)
Naming(a) == {b \in 1 .. Branches : \E i \in 0 .. Upto(b) - 1 : AddressOf[b][i] = a}

Shown == {x \in DOMAIN states : ToShow(states[x])}

(* The address book counts every address it knows once, and the findings     *)
(* name every path of each one to show.                                      *)
BookInv ==
    /\ IsFiniteSet(DOMAIN states) /\ DOMAIN states \subseteq Addresses
    /\ Range(states) \subseteq Kinds
    /\ used = UsedOf(states) /\ funded = FundedOf(states)
    /\ findings = [a \in Shown |-> Naming(a)]

(* A chunk is finite, and so is what it lacks. *)
LEMMA MissingFinite ==
    ASSUME ScanInv, offset < target
    PROVE  IsFiniteSet(Missing) /\ Missing \subseteq Addresses /\ Chunk \subseteq Indices
  <1>1. offset \in Nat /\ target \in 1 .. Maximum /\ branch \in 1 .. Branches
    BY DEF ScanInv, Counts
  <1>2. ChunkEnd \in Nat /\ ChunkEnd <= target
    BY <1>1 DEF ChunkEnd
  <1>3. Chunk \subseteq Indices
    BY <1>1, <1>2 DEF Chunk, Indices
  <1>4. IsFiniteSet(Chunk)
    BY <1>1, <1>2, FS_Interval DEF Chunk
  <1> DEFINE T == {At(i) : i \in Chunk}
  <1> DEFINE f == [i \in Chunk |-> At(i)]
  <1>5. f \in Surjection(Chunk, T)
    BY DEF Surjection
  <1>6. IsFiniteSet(T)
    BY <1>4, <1>5, FS_Surjection
  <1>7. IsFiniteSet(Missing)
    BY <1>6, FS_Subset DEF Missing
  <1>8. Missing \subseteq Addresses
    BY <1>1, <1>3 DEF Missing, Addresses, At
  <1> QED
    BY <1>3, <1>7, <1>8

(* How many addresses are of some kinds, and how many after an answer about  *)
(* others.                                                                   *)
CountOf(f, K) == Cardinality({a \in DOMAIN f : f[a] \in K})

Joins(all, S, answer) ==
    /\ IsFiniteSet(DOMAIN S) /\ IsFiniteSet(DOMAIN answer)
    /\ DOMAIN answer \cap DOMAIN S = {}
    /\ DOMAIN all = DOMAIN S \cup DOMAIN answer
    /\ \A a \in DOMAIN answer : all[a] = answer[a]
    /\ \A a \in DOMAIN S : all[a] = S[a]

LEMMA CountAnswer ==
    ASSUME NEW S, NEW answer, NEW all, NEW K, Joins(all, S, answer)
    PROVE  CountOf(all, K) = CountOf(S, K) + CountOf(answer, K)
  <1> DEFINE old == {a \in DOMAIN S : S[a] \in K}
             new == {a \in DOMAIN answer : answer[a] \in K}
  <1>1. {a \in DOMAIN all : all[a] \in K} = old \cup new /\ old \cap new = {}
    BY DEF Joins
  <1>2. IsFiniteSet(old) /\ IsFiniteSet(new)
    <2>1. /\ old \in SUBSET DOMAIN S /\ new \in SUBSET DOMAIN answer
          /\ IsFiniteSet(DOMAIN S) /\ IsFiniteSet(DOMAIN answer)
      BY DEF Joins
    <2> HIDE DEF old, new
    <2> QED
      BY <2>1, FS_Subset
  <1>3. Cardinality(old \cup new) = Cardinality(old) + Cardinality(new)
    <2> HIDE DEF old, new
    <2>1. Cardinality({}) = 0 /\ Cardinality(old) \in Nat /\ Cardinality(new) \in Nat
      BY <1>2, FS_EmptySet, FS_CardinalityType
    <2>2. Cardinality(old \cup new) = Cardinality(old) + Cardinality(new) - Cardinality(old \cap new)
      BY <1>2, FS_Union
    <2>3. Cardinality(old \cap new) = 0
      BY <1>1, <2>1
    <2> QED
      BY <2>1, <2>2, <2>3
  <1> QED
    BY <1>1, <1>3 DEF CountOf

(* While the scan runs, all it is past is known. *)
LEMMA KnownUpto ==
    ASSUME ScanInv, verdict = "running", NEW b \in 1 .. Branches, NEW i \in 0 .. Upto(b) - 1
    PROVE  AddressOf[b][i] \in DOMAIN states
  <1>1. Counts /\ Through
    BY DEF ScanInv, Alive
  <1>2. CASE b < branch
    <2>1. b \in 1 .. branch - 1 /\ Upto(b) = checked[b]
      BY <1>1, <1>2 DEF Counts, Upto
    <2> QED
      BY <1>1, <2>1 DEF Through, Reached
  <1>3. CASE b = branch
    <2>1. Upto(b) = offset
      BY <1>1, <1>3 DEF Counts, Upto
    <2> QED
      BY <1>1, <1>3, <2>1 DEF Through, Reached
  <1>4. CASE ~(b < branch) /\ b # branch
    BY <1>4 DEF Upto
  <1> QED
    BY <1>2, <1>3, <1>4

LEMMA BatchBook ==
    ASSUME ScanInv, BookInv, verdict = "running", offset < target,
           NEW answer, DOMAIN answer = Missing, \A a \in Missing : answer[a] \in Kinds,
           Batch(answer)
    PROVE  BookInv'
  <1> DEFINE kinds == [a \in DOMAIN states \cup DOMAIN answer |->
                        IF a \in DOMAIN answer THEN answer[a] ELSE states[a]]
             shown == {i \in Chunk : ToShow(kinds[At(i)])}
  <1>1. /\ states' = kinds /\ Show(shown) /\ offset' = ChunkEnd
        /\ used' = used + UsedOf(answer) /\ funded' = funded + FundedOf(answer)
        /\ UNCHANGED <<branch, checked, includeUsed>>
    BY DEF Batch
  <1>2. IsFiniteSet(Missing) /\ Missing \subseteq Addresses /\ Missing \cap DOMAIN states = {}
    BY MissingFinite DEF Missing
  <1>3. DOMAIN states' = DOMAIN states \cup Missing
    BY <1>1
  <1>4. IsFiniteSet(DOMAIN states') /\ DOMAIN states' \subseteq Addresses
    <2>1. IsFiniteSet(DOMAIN states \cup Missing)
      BY <1>2, FS_Union DEF BookInv
    <2>2. Addresses' = Addresses
      BY DEF Addresses
    <2> QED
      BY <1>2, <1>3, <2>1, <2>2 DEF BookInv
  <1>5. Range(states') \subseteq Kinds
    BY <1>1 DEF BookInv, Range
  <1>6. ASSUME NEW K PROVE CountOf(kinds, K) = CountOf(states, K) + CountOf(answer, K)
    <2>1. Joins(kinds, states, answer)
      BY <1>2 DEF BookInv, Joins
    <2> HIDE DEF kinds
    <2> QED
      BY <2>1, CountAnswer
  <1>7. used' = UsedOf(states') /\ funded' = FundedOf(states')
    <2> HIDE DEF kinds
    <2>1. \A f : UsedOf(f) = CountOf(f, {"emptied", "funded"})
      BY DEF UsedOf, IsUsed, CountOf
    <2>2. \A f : FundedOf(f) = CountOf(f, {"funded"})
      <3> SUFFICES ASSUME NEW f PROVE FundedOf(f) = CountOf(f, {"funded"})
        OBVIOUS
      <3>1. {a \in DOMAIN f : f[a] \in {"funded"}} = {a \in DOMAIN f : f[a] = "funded"}
        OBVIOUS
      <3> QED
        BY <3>1 DEF FundedOf, CountOf
    <2>3. UsedOf(kinds) = UsedOf(states) + UsedOf(answer)
      BY <1>6, <2>1
    <2>4. FundedOf(kinds) = FundedOf(states) + FundedOf(answer)
      BY <1>6, <2>2
    <2> QED
      BY <1>1, <2>3, <2>4 DEF BookInv
  <1>8. findings' = [a \in Shown' |-> Naming(a)']
    <2>1. /\ branch \in 1 .. Branches /\ offset \in Nat /\ ChunkEnd \in Nat /\ offset < ChunkEnd
      BY DEF ScanInv, Counts, ChunkEnd
    <2>2. \A i \in 0 .. ChunkEnd - 1 : i \in 0 .. offset - 1 \/ i \in Chunk
      BY <2>1 DEF Chunk
    <2>3. \A i \in (0 .. offset - 1) \cup Chunk : i \in 0 .. ChunkEnd - 1
      BY <2>1 DEF Chunk
    <2>4. \A a : Naming(a)' = Naming(a) \cup (IF \E i \in Chunk : At(i) = a THEN {branch} ELSE {})
      <3> SUFFICES ASSUME NEW a, NEW b \in 1 .. Branches
                   PROVE  b \in Naming(a)' <=> (b \in Naming(a) \/ (b = branch /\ \E i \in Chunk : At(i) = a))
        BY <2>1 DEF Naming
      <3>1. b \in Naming(a) <=> \E i \in 0 .. Upto(b) - 1 : AddressOf[b][i] = a
        BY DEF Naming
      <3>2. b \in Naming(a)' <=> \E i \in 0 .. Upto(b)' - 1 : AddressOf[b][i] = a
        BY DEF Naming
      <3>3. CASE b = branch
        <4>1. Upto(b) = offset /\ Upto(b)' = ChunkEnd
          BY <3>3, <1>1, <2>1 DEF Upto
        <4>2. \A i : At(i) = AddressOf[b][i]
          BY <3>3 DEF At
        <4> QED
          BY <3>1, <3>2, <3>3, <4>1, <4>2, <2>2, <2>3
      <3>4. CASE b # branch
        <4>1. Upto(b)' = Upto(b)
          BY <3>4, <1>1 DEF Upto
        <4> QED
          BY <3>1, <3>2, <3>4, <4>1
      <3> QED
        BY <3>3, <3>4
    <2>5. DOMAIN findings = Shown /\ \A a \in Shown : findings[a] = Naming(a)
      BY DEF BookInv
    <2>6. Shown' = Shown \cup {At(i) : i \in shown}
      <3>1. \A x : x \in Shown' <=> x \in DOMAIN kinds /\ ToShow(kinds[x])
        BY <1>1 DEF Shown, ToShow
      <3>2. \A x \in DOMAIN states : kinds[x] = states[x]
        BY <1>2
      <3>3. \A i \in Chunk : At(i) \in DOMAIN kinds
        BY DEF Missing
      <3>4. \A x \in DOMAIN kinds : x \notin DOMAIN states => \E i \in Chunk : x = At(i)
        BY DEF Missing
      <3>5. \A x : x \in Shown <=> x \in DOMAIN states /\ ToShow(states[x])
        BY DEF Shown
      <3>6. \A x : x \in DOMAIN states => x \in DOMAIN kinds
        OBVIOUS
      <3>7. PICK K : K = kinds
        OBVIOUS
      <3>8. shown = {i \in Chunk : ToShow(K[At(i)])}
        BY <3>7
      <3> HIDE DEF kinds, shown
      <3>9. \A x : x \in Shown' <=> (x \in Shown \/ \E i \in shown : x = At(i))
        BY <3>1, <3>2, <3>3, <3>4, <3>5, <3>6, <3>7, <3>8
      <3> QED
        BY <3>9
    <2>7. \A a \in Shown' : (\E i \in shown : At(i) = a) <=> \E i \in Chunk : At(i) = a
      BY <1>1 DEF Shown, ToShow
    <2>8. \A a \in Shown' : a \notin Shown => Naming(a) = {}
      <3>1. \A a \in Shown' : a \notin Shown => a \notin DOMAIN states
        BY <1>1, <1>2 DEF Shown, ToShow
      <3>2. \A b \in 1 .. Branches : \A i \in 0 .. Upto(b) - 1 : AddressOf[b][i] \in DOMAIN states
        BY KnownUpto
      <3> QED
        BY <3>1, <3>2 DEF Naming
    <2> QED
      BY <1>1, <2>4, <2>5, <2>6, <2>7, <2>8 DEF Show
  <1> QED
    BY <1>4, <1>5, <1>7, <1>8 DEF BookInv

LEMMA BookInit == ScanInit => BookInv
  <1> SUFFICES ASSUME ScanInit PROVE BookInv
    OBVIOUS
  <1>1. states = <<>> /\ findings = <<>> /\ used = 0 /\ funded = 0 /\ DOMAIN states = {}
    BY DEF ScanInit
  <1>2. Cardinality({}) = 0 /\ IsFiniteSet({})
    BY FS_EmptySet
  <1>3. UsedOf(states) = 0 /\ FundedOf(states) = 0
    <2>1. {a \in DOMAIN states : IsUsed(states[a])} = {} /\ {a \in DOMAIN states : states[a] = "funded"} = {}
      BY <1>1
    <2> QED
      BY <1>2, <2>1 DEF UsedOf, FundedOf
  <1>4. Shown = {}
    BY <1>1 DEF Shown
  <1>5. findings = [a \in Shown |-> Naming(a)]
    BY <1>1, <1>4
  <1>6. Range(states) \subseteq Kinds
    BY <1>1 DEF Range
  <1> QED
    BY <1>1, <1>2, <1>3, <1>5, <1>6 DEF BookInv

(* A step that leaves the walk and the book alone. *)
LEMMA BookStands ==
    ASSUME BookInv, UNCHANGED <<states, funded, used, findings, includeUsed>>,
           \A b \in 1 .. Branches : Upto(b)' = Upto(b)
    PROVE  BookInv'
  <1>1. \A a : Naming(a)' = Naming(a)
    BY DEF Naming
  <1>2. Shown' = Shown
    BY DEF Shown, ToShow
  <1>3. Addresses' = Addresses /\ UsedOf(states)' = UsedOf(states) /\ FundedOf(states)' = FundedOf(states)
    BY DEF Addresses, UsedOf, FundedOf, IsUsed
  <1> QED
    BY <1>1, <1>2, <1>3 DEF BookInv, Range

LEMMA BookUnchanged == ASSUME BookInv, UNCHANGED <<walk, book, includeUsed>> PROVE BookInv'
  BY BookStands DEF walk, book, Upto

LEMMA BranchEndsBook == ASSUME ScanInv, BookInv, BranchEnds PROVE BookInv'
  <1>1. /\ branch \in 1 .. Branches /\ checked \in [1 .. Branches -> 0 .. Maximum]
        /\ checked' = [checked EXCEPT ![branch] = offset]
        /\ UNCHANGED <<states, funded, used, findings, includeUsed>>
    BY DEF ScanInv, Counts, BranchEnds, book
  <1>2. \/ branch' = branch + 1 /\ offset' = 0
        \/ branch' = branch /\ offset' = offset
    BY DEF BranchEnds
  <1>3. \A b \in 1 .. Branches : Upto(b)' = Upto(b)
    <2> SUFFICES ASSUME NEW b \in 1 .. Branches PROVE Upto(b)' = Upto(b)
      OBVIOUS
    <2>1. CASE b < branch
      <3>1. b < branch' /\ checked'[b] = checked[b]
        BY <1>1, <1>2, <2>1
      <3> QED
        BY <2>1, <3>1 DEF Upto
    <2>2. CASE b = branch
      <3>1. checked'[b] = offset /\ Upto(b) = offset
        BY <1>1, <2>2 DEF Upto
      <3>2. CASE branch' = branch + 1 /\ offset' = 0
        BY <1>1, <2>2, <3>1, <3>2 DEF Upto
      <3>3. CASE branch' = branch /\ offset' = offset
        BY <1>1, <2>2, <3>1, <3>3 DEF Upto
      <3> QED
        BY <1>2, <3>2, <3>3
    <2>3. CASE ~(b < branch) /\ b # branch
      BY <1>1, <1>2, <2>3 DEF Upto
    <2> QED
      BY <2>1, <2>2, <2>3
  <1> QED
    BY <1>1, <1>3, BookStands

LEMMA ScanTurnBook == ASSUME ScanInv, BookInv, ScanTurn PROVE BookInv'
  <1>1. CASE KnownBatch
    <2>1. verdict = "running" /\ offset < target /\ Batch(<<>>) /\ DOMAIN <<>> = Missing
          /\ Missing = {}
      BY <1>1 DEF KnownBatch, Turn
    <2> QED
      BY <2>1, BatchBook
  <1>2. CASE BranchEnds
    BY <1>2, BranchEndsBook
  <1>3. CASE FoundAborted
    BY <1>3, BookUnchanged DEF FoundAborted, Ended
  <1> QED
    BY <1>1, <1>2, <1>3 DEF ScanTurn

LEMMA AnswerBook == ASSUME ScanInv, BookInv, Answer PROVE BookInv'
  <1>1. CASE asking = {} /\ UNCHANGED scanVars
    BY <1>1, BookUnchanged DEF scanVars
  <1>2. ASSUME NEW answer \in [asking -> Kinds], Answered(answer) PROVE BookInv'
    <2>1. verdict = "running" /\ offset < target /\ DOMAIN answer = Missing /\ Batch(answer)
          /\ \A a \in Missing : answer[a] \in Kinds
      BY <1>2 DEF Answered, ScanInv, AsksWhatIsMissing
    <2> QED
      BY <2>1, BatchBook
  <1> QED
    BY <1>1, <1>2 DEF Answer

LEMMA BookStepInv == ASSUME ScanInv, BookInv, [Next]_vars PROVE BookInv'
  <1> USE DEF scanVars
  <1>1. CASE ScanStep
    BY <1>1, ScanTurnBook DEF ScanStep
  <1>2. CASE Ask
    BY <1>2, BookUnchanged DEF Ask, LookUp
  <1>3. CASE Cancel
    BY <1>3, BookUnchanged DEF Cancel, Abort, Ended
  <1>4. CASE Network
    BY <1>4, AnswerBook, BookUnchanged DEF Network, BatchAnswer, BatchFailure
  <1>5. CASE Told
    BY <1>5, BookUnchanged DEF Told
  <1>6. ASSUME NEW i \in 1 .. BatchSize, Lane(i) PROVE BookInv'
    <2>1. CASE AddressAnswer(i)
      BY <2>1, AnswerBook, BookUnchanged DEF AddressAnswer
    <2>2. CASE AddressFailure(i)
      BY <2>2, BookUnchanged DEF AddressFailure, Refuse, Refused, Ended
    <2>3. CASE RetryDue(i)
      BY <2>3, BookUnchanged DEF RetryDue
    <2> QED
      BY <1>6, <2>1, <2>2, <2>3 DEF Lane
  <1>7. CASE UNCHANGED vars
    BY <1>7, BookUnchanged DEF vars
  <1> QED
    BY <1>1, <1>2, <1>3, <1>4, <1>5, <1>6, <1>7 DEF Next

-----------------------------------------------------------------------------
(* The lanes of a lookup: no more of them than there may be, no address past *)
(* its attempts, and a fallback is on just as long as a lane is.             *)
LaneInv ==
    /\ \E n \in Nat : Positions = 1 .. n /\ (stage = "batch" => n > 0)
    /\ DOMAIN at \subseteq Positions /\ DOMAIN attempt = DOMAIN at
    /\ stage = "batch" => DOMAIN at = {}
    /\ stage \in {"none", "batch", "single"} /\ provider \in 0 .. Providers
    /\ Cardinality(Active) <= Lanes
    /\ Active # {} <=> stage = "single"
    /\ \A i \in DOMAIN at : attempt[i] \in 0 .. Attempts
    /\ \A i \in DOMAIN at : at[i] = "wait" => attempt[i] < Attempts

LEMMA ActiveFinite == ASSUME LaneInv PROVE IsFiniteSet(Active)
  <1>1. PICK n \in Nat : Positions = 1 .. n
    BY DEF LaneInv
  <1>2. IsFiniteSet(1 .. n)
    BY FS_Interval
  <1>3. Active \in SUBSET (1 .. n)
    BY <1>1 DEF LaneInv, Active
  <1> QED
    BY <1>2, <1>3, FS_Subset

(* Fewer lanes, or the same. *)
LEMMA FewerLanes ==
    ASSUME LaneInv, NEW S \in SUBSET Active PROVE Cardinality(S) <= Lanes
  BY ActiveFinite, FS_Subset, FS_CardinalityType, LookupAssumption DEF LaneInv

(* The addresses of a lookup are numbered from one. *)
LEMMA Numbered ==
    ASSUME NEW S, IsFiniteSet(S), S # {}
    PROVE  \E n \in Nat : n > 0 /\ DOMAIN SetToSeq(S) = 1 .. n
  <1>1. Cardinality(S) \in Nat /\ ExistsBijection(1 .. Cardinality(S), S)
    BY FS_CardinalityType
  <1>2. Cardinality(S) # 0
    BY FS_EmptySet
  <1>3. \E f \in [1 .. Cardinality(S) -> S] : IsInjective(f)
    BY <1>1 DEF ExistsBijection, Bijection, Injection, IsInjective
  <1>4. SetToSeq(S) \in [1 .. Cardinality(S) -> S]
    BY <1>3 DEF SetToSeq
  <1> QED
    BY <1>1, <1>2, <1>4

(* A lane settled or pauses: the others go on. *)
LEMMA LaneKept ==
    ASSUME LaneInv, UNCHANGED <<want, provider>>, stage' \in {"none", "single"},
           DOMAIN at' = DOMAIN at, DOMAIN attempt' = DOMAIN at,
           Cardinality(Active') <= Lanes, Active' # {} <=> stage' = "single",
           \A i \in DOMAIN at : attempt'[i] \in 0 .. Attempts,
           \A i \in DOMAIN at : at'[i] = "wait" => attempt'[i] < Attempts
    PROVE  LaneInv'
  <1>1. Positions' = Positions
    BY DEF Positions
  <1>2. Active' # {} <=> stage' = "single"
    OBVIOUS
  <1>3. \E n \in Nat : Positions' = 1 .. n /\ (stage' = "batch" => n > 0)
    BY <1>1 DEF LaneInv
  <1> QED
    BY <1>1, <1>2, <1>3 DEF LaneInv

LEMMA BeginLane ==
    ASSUME LaneInv, NEW S, IsFiniteSet(S), S # {}, Begin(SetToSeq(S)) PROVE LaneInv'
  <1>1. \E n \in Nat : Positions' = 1 .. n /\ n > 0
    BY Numbered DEF Begin, Positions
  <1>2. DOMAIN at' = {} /\ DOMAIN attempt' = {} /\ stage' = "batch" /\ provider' = 1
    BY DEF Begin
  <1>3. Active' = {}
    BY <1>2 DEF Active
  <1>4. Cardinality(Active') <= Lanes
    BY <1>3, FS_EmptySet, LookupAssumption
  <1> QED
    BY <1>1, <1>2, <1>3, <1>4, LookupAssumption DEF LaneInv

LEMMA FallbackLane == ASSUME LaneInv, Fallback PROVE LaneInv'
  <1>1. /\ stage = "batch" /\ stage' = "single" /\ want' = want /\ provider' = provider
        /\ at' = [i \in Positions |-> IF i <= Lanes THEN "fetch" ELSE "todo"]
        /\ attempt' = [i \in Positions |-> IF i <= Lanes THEN 1 ELSE 0]
    BY DEF Fallback
  <1>2. PICK n \in Nat : Positions = 1 .. n /\ n > 0
    BY <1>1 DEF LaneInv
  <1>3. Positions' = Positions
    BY <1>1 DEF Positions
  <1>4. Active' = {i \in Positions : i <= Lanes}
    BY <1>1 DEF Active
  <1>5. Active' \subseteq 1 .. Lanes /\ 1 \in Active'
    BY <1>2, <1>4, LookupAssumption
  <1>6. IsFiniteSet(1 .. Lanes) /\ Cardinality(1 .. Lanes) = Lanes
    BY FS_Interval, LookupAssumption
  <1>7. Cardinality(Active') <= Lanes
    BY <1>5, <1>6, FS_Subset
  <1>8. \A i \in DOMAIN at' : attempt'[i] \in 0 .. Attempts /\ at'[i] # "wait"
    BY <1>1, LookupAssumption
  <1> QED
    BY <1>1, <1>2, <1>3, <1>5, <1>7, <1>8 DEF LaneInv

(* The lane that takes the next address is the one that settled. *)
LEMMA FetchGivenLane == ASSUME LaneInv, NEW i \in DOMAIN at, FetchGiven(i) PROVE LaneInv'
  <1> DEFINE todo == {j \in DOMAIN at : at[j] = "todo"}
             next == {j \in todo : \A k \in todo : j <= k}
             now == [at EXCEPT ![i] = "done"]
  <1>1. /\ at[i] = "fetch" /\ want' = want /\ provider' = provider
        /\ at' = [j \in DOMAIN at |-> IF j \in next THEN "fetch" ELSE now[j]]
        /\ attempt' = [j \in DOMAIN at |-> IF j \in next THEN 1 ELSE attempt[j]]
    BY DEF FetchGiven, TakeNext
  <1>2. i \in Active /\ i \notin todo
    BY <1>1 DEF Active
  <1>3. \A j, k \in next : j = k
    <2>1. todo \subseteq Nat
      BY DEF LaneInv
    <2> QED
      BY <2>1
  <1>4. Active' = (Active \ {i}) \cup next
    BY <1>1, <1>2 DEF Active
  <1>5. Cardinality(Active \ {i}) = Cardinality(Active) - 1 /\ IsFiniteSet(Active \ {i})
        /\ Cardinality(Active) \in Nat
    BY <1>2, ActiveFinite, FS_RemoveElement, FS_CardinalityType
  <1>6. Cardinality(Active') <= Lanes
    <2>1. CASE next = {}
      <3>1. Active' = Active \ {i}
        BY <1>4, <2>1
      <3> QED
        BY <1>5, <3>1, LookupAssumption DEF LaneInv
    <2>2. CASE next # {}
      <3>1. PICK j \in next : TRUE
        BY <2>2
      <3>2. next = {j}
        BY <1>3, <3>1
      <3>3. Active' = (Active \ {i}) \cup {j}
        BY <1>4, <3>2
      <3>4. PICK R : R = Active \ {i}
        OBVIOUS
      <3>5. Cardinality(R \cup {j}) \in {Cardinality(R), Cardinality(R) + 1}
        <4>1. IsFiniteSet(R)
          BY <1>5, <3>4
        <4> QED
          BY <4>1, FS_AddElement
      <3>6. Cardinality(Active') \in {Cardinality(Active) - 1, Cardinality(Active) - 1 + 1}
        BY <1>5, <3>3, <3>4, <3>5
      <3>7. Cardinality(Active) <= Lanes
        BY DEF LaneInv
      <3> QED
        BY <1>5, <3>6, <3>7, LookupAssumption
    <2> QED
      BY <2>1, <2>2
  <1>7. stage' \in {"none", "single"} /\ (Active' # {} <=> stage' = "single")
    BY <1>1 DEF FetchGiven, StopWhenQuiet, Active
  <1>8. \A j \in DOMAIN at : attempt'[j] \in 0 .. Attempts /\ (at'[j] = "wait" => attempt'[j] < Attempts)
    BY <1>1, LookupAssumption DEF LaneInv
  <1> QED
    BY <1>1, <1>6, <1>7, <1>8, LaneKept

LEMMA PauseLane ==
    ASSUME LaneInv, NEW i \in DOMAIN at, WaitForRetry(i) \/ Retry(i) PROVE LaneInv'
  <1>1. /\ i \in Active /\ UNCHANGED <<want, stage, provider>>
        /\ at' = [at EXCEPT ![i] = at'[i]] /\ at'[i] \in {"fetch", "wait"}
    BY DEF WaitForRetry, Retry, Active
  <1>2. Active' = Active
    BY <1>1 DEF Active
  <1>3. Cardinality(Active') <= Lanes /\ stage = "single"
    BY <1>1, <1>2 DEF LaneInv
  <1>4. \A j \in DOMAIN at : attempt'[j] \in 0 .. Attempts /\ (at'[j] = "wait" => attempt'[j] < Attempts)
    <2>1. CASE WaitForRetry(i)
      BY <2>1 DEF WaitForRetry, LaneInv
    <2>2. CASE Retry(i)
      BY <2>2, LookupAssumption DEF Retry, LaneInv
    <2> QED
      BY <2>1, <2>2
  <1>5. DOMAIN attempt' = DOMAIN at
    BY DEF WaitForRetry, Retry, LaneInv
  <1> QED
    BY <1>1, <1>2, <1>3, <1>4, <1>5, LaneKept DEF LaneInv

LEMMA GiveUpLane == ASSUME LaneInv, NEW i \in DOMAIN at, GiveUp(i) PROVE LaneInv'
  <1>1. /\ UNCHANGED <<want, provider, attempt>>
        /\ at' = [at EXCEPT ![i] = at'[i]] /\ at'[i] \in {"refused", "failed"}
    BY DEF GiveUp
  <1>2. Active' \subseteq Active
    BY <1>1 DEF Active
  <1>3. Cardinality(Active') <= Lanes
    BY <1>2, FewerLanes
  <1>4. stage' \in {"none", "single"} /\ (Active' # {} <=> stage' = "single")
    BY <1>1 DEF GiveUp, StopWhenQuiet, Active
  <1> QED
    BY <1>1, <1>3, <1>4, LaneKept DEF LaneInv

LEMMA StopLane == ASSUME LaneInv, Stop PROVE LaneInv'
  <1>1. /\ UNCHANGED <<want, provider, attempt>> /\ stage' = "none"
        /\ at' = [i \in DOMAIN at |-> IF i \in Active THEN "stopped" ELSE at[i]]
    BY DEF Stop
  <1>2. Active' = {}
    BY <1>1 DEF Active
  <1>3. Cardinality(Active') <= Lanes
    BY <1>2, FewerLanes
  <1> QED
    BY <1>1, <1>2, <1>3, LaneKept DEF LaneInv

LEMMA BatchLane == ASSUME LaneInv, BatchGiven \/ NextProvider PROVE LaneInv'
  <1>1. /\ stage = "batch" /\ UNCHANGED <<want, at, attempt>> /\ stage' \in {"none", "batch"}
        /\ provider' \in 0 .. Providers
    BY LookupAssumption DEF BatchGiven, NextProvider, LaneInv
  <1>2. Positions' = Positions /\ Active' = Active
    BY <1>1 DEF Positions, Active
  <1>3. stage' # "single" /\ Active = {}
    BY <1>1 DEF LaneInv
  <1> QED
    BY <1>1, <1>2, <1>3 DEF LaneInv

LEMMA LaneStands == ASSUME LaneInv, UNCHANGED lookup PROVE LaneInv'
  BY DEF lookup, LaneInv, Positions, Active

LEMMA LaneStepInv == ASSUME ScanInv, LaneInv, [Next]_vars PROVE LaneInv'
  <1>1. CASE ScanStep \/ Cancel \/ UNCHANGED vars
    BY <1>1, LaneStands DEF ScanStep, Cancel, vars
  <1>2. CASE Ask
    <2>1. LookUp /\ Begin(SetToSeq(asking'))
      BY <1>2 DEF Ask
    <2>2. asking' = Missing /\ Missing # {} /\ offset < target
      BY <2>1 DEF LookUp
    <2> QED
      BY <2>1, <2>2, MissingFinite, BeginLane
  <1>3. CASE Network
    BY <1>3, BatchLane, FallbackLane DEF Network, BatchAnswer, BatchFailure
  <1>4. CASE Told
    BY <1>4, StopLane DEF Told
  <1>5. ASSUME NEW i \in 1 .. BatchSize, Lane(i) PROVE LaneInv'
    <2>1. i \in DOMAIN at
      BY <1>5 DEF Lane, AddressAnswer, AddressFailure, RetryDue, FetchGiven, WaitForRetry, GiveUp, Retry
    <2> QED
      BY <1>5, <2>1, FetchGivenLane, PauseLane, GiveUpLane
         DEF Lane, AddressAnswer, AddressFailure, RetryDue
  <1> QED
    BY <1>1, <1>2, <1>3, <1>4, <1>5 DEF Next

LEMMA LaneInit == ASSUME Init PROVE LaneInv
  <1>1. want = <<>> /\ stage = "none" /\ provider = 0 /\ at = <<>> /\ attempt = <<>>
    BY DEF Init, LookupInit
  <1>2. Positions = 1 .. 0 /\ DOMAIN at = {} /\ DOMAIN attempt = {}
    BY <1>1 DEF Positions
  <1>3. Active = {}
    BY <1>2 DEF Active
  <1>4. Cardinality(Active) <= Lanes
    BY <1>3, FS_EmptySet, LookupAssumption
  <1> QED
    BY <1>1, <1>2, <1>3, <1>4, LookupAssumption DEF LaneInv

-----------------------------------------------------------------------------
(* What the other parts do not say of the state. *)
FlagInv ==
    /\ includeUsed \in BOOLEAN /\ aborted \in BOOLEAN /\ told \in BOOLEAN
    /\ verdict \in {"running", "complete", "partial", "aborted", "failed"}

LEMMA FlagStepInv == ASSUME FlagInv, [Next]_vars PROVE FlagInv'
  <1>1. includeUsed' = includeUsed
    BY DEF Next, vars, scanVars, ScanStep, ScanTurn, KnownBatch, BranchEnds, FoundAborted, Ended, Batch,
       Ask, LookUp, Cancel, Abort, Network, BatchAnswer, BatchFailure, Told, Lane, AddressAnswer,
       AddressFailure, RetryDue, Answer, Answered, Refuse, Refused
  <1>2. aborted' = aborted \/ aborted' = TRUE
    BY DEF Next, vars, scanVars, ScanStep, ScanTurn, KnownBatch, BranchEnds, FoundAborted, Ended, Batch,
       Ask, LookUp, Cancel, Abort, Network, BatchAnswer, BatchFailure, Told, Lane, AddressAnswer,
       AddressFailure, RetryDue, Answer, Answered, Refuse, Refused
  <1>3. told' = told \/ told' = TRUE
    BY DEF Next, vars, ScanStep, Ask, Cancel, Network, BatchAnswer, BatchFailure, Told, Lane,
       AddressAnswer, AddressFailure, RetryDue
  <1>4. verdict' = verdict \/ verdict' \in {"complete", "partial", "aborted", "failed"}
    BY DEF Next, vars, scanVars, ScanStep, ScanTurn, KnownBatch, BranchEnds, FoundAborted, Ended, Batch,
       Ask, LookUp, Cancel, Abort, Network, BatchAnswer, BatchFailure, Told, Lane, AddressAnswer,
       AddressFailure, RetryDue, Answer, Answered, Refuse, Refused
  <1> QED
    BY <1>1, <1>2, <1>3, <1>4 DEF FlagInv

SectionInv == ScanInv /\ BookInv /\ LaneInv /\ FlagInv

LEMMA SectionTypes == ASSUME SectionInv PROVE TypeOK
  <1>1. branch \in 1 .. Branches /\ offset \in 0 .. Maximum /\ target \in 1 .. Maximum
        /\ checked \in [1 .. Branches -> 0 .. Maximum]
    BY DEF SectionInv, ScanInv, Counts
  <1>2. truncated \in BOOLEAN
    BY DEF SectionInv, ScanInv, Counts
  <1>3. asking \subseteq Addresses
    BY MissingFinite DEF SectionInv, ScanInv, AsksWhatIsMissing
  <1>4. DOMAIN states \subseteq Addresses /\ Range(states) \subseteq Kinds
        /\ DOMAIN findings \subseteq DOMAIN states
    BY DEF SectionInv, BookInv, Shown
  <1>5. Range(attempt) \subseteq 0 .. Attempts
    BY DEF SectionInv, LaneInv, Range
  <1>6. /\ stage \in {"none", "batch", "single"} /\ provider \in 0 .. Providers
        /\ DOMAIN at \subseteq Positions /\ Cardinality(Active) <= Lanes
        /\ Active # {} <=> stage = "single"
    BY DEF SectionInv, LaneInv
  <1>7. FlagInv
    BY DEF SectionInv
  <1> QED
    BY <1>1, <1>2, <1>3, <1>4, <1>5, <1>6, <1>7 DEF TypeOK, FlagInv

(* A section that was made is past all of every branch. *)
LEMMA SectionFindings ==
    ASSUME SectionInv, verdict \in {"complete", "partial"}
    PROVE  findings = [a \in {x \in DOMAIN states : ToShow(states[x])} |->
             {b \in 1 .. Branches : \E i \in 0 .. checked[b] - 1 : AddressOf[b][i] = a}]
  <1>1. Counts /\ Through /\ verdict # "running"
    BY DEF SectionInv, ScanInv, Alive
  <1>2. branch = Branches /\ checked[branch] = offset
    BY <1>1 DEF Through
  <1>3. \A b \in 1 .. Branches : Upto(b) = checked[b]
    BY <1>1, <1>2 DEF Upto, Counts
  <1>4. \A a : Naming(a) = {b \in 1 .. Branches : \E i \in 0 .. checked[b] - 1 : AddressOf[b][i] = a}
    BY <1>3 DEF Naming
  <1> QED
    BY <1>4 DEF SectionInv, BookInv, Shown

(* A section that was made stopped where the gap rule says, is called        *)
(* complete exactly if no gap was cut, counts every address once, however    *)
(* many paths reach it, and names each path of every address to show; its    *)
(* lookups never use more lanes than there are or more attempts than allowed *)
(* (address-book.ts, address-gap.ts, bitcoin-service.ts).                    *)
THEOREM TrueSection == Spec => []SectionIsTrue
  <1>1. Init => SectionInv
    <2>1. Init => ScanInv /\ BookInv
      BY ScanInitInv, BookInit DEF Init
    <2>2. Init => FlagInv
      <3> SUFFICES ASSUME Init PROVE FlagInv
        OBVIOUS
      <3>1. includeUsed \in BOOLEAN /\ aborted \in BOOLEAN /\ told = FALSE /\ verdict = "running"
        BY DEF Init, ScanInit
      <3> QED
        BY <3>1, Zenon DEF FlagInv
    <2> QED
      BY <2>1, <2>2, LaneInit DEF SectionInv
  <1>2. SectionInv /\ [Next]_vars => SectionInv'
    BY ScanStepInv, BookStepInv, LaneStepInv, FlagStepInv DEF SectionInv
  <1>3. SectionInv => SectionIsTrue
    BY SectionTypes, SectionFindings, RuleFollows DEF SectionIsTrue, SectionInv, BookInv
  <1> QED
    BY <1>1, <1>2, <1>3, PTL DEF Spec
=============================================================================
