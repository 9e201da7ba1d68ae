--------------------------- MODULE ViewerRun_proofs ---------------------------
(***************************************************************************)
(* Proofs about ViewerRun for any inputs, any number of workers, of pages    *)
(* and of queries: the page the two controllers share is consistent, a batch *)
(* is shown whole, what comes late is discarded, and a file holds what is on *)
(* offer.                                                                    *)
(***************************************************************************)
EXTENDS ViewerRun, FiniteSetTheorems, TLAPS

(* The invariant in three parts: the query that runs, what the page shows,   *)
(* and the rest.                                                             *)
Results == {"none", "asked", "ok", "failed"}

(* What a query awaits is what its kind awaits.                              *)
StepsOf ==
    /\ owner = "nobody" => kind = "none" /\ step = "idle"
    /\ owner = "external" => kind = "external" /\ step = "query"
    /\ owner = "dash" =>
         \/ kind \in Singles /\ step \in {"connect", "query", "history", "page"}
         \/ kind = "coreBatch" /\ step = "tasks"
         \/ kind = "dapiBatch" /\ step \in {"connect", "tasks"}
         \/ kind = "keyBatch" /\ step \in {"scanConnect", "scan"}
         \/ kind = "mixedBatch" /\ step \in {"connect", "tasks", "scanConnect", "scan"}

(* The ledger of a key that has not failed holds the pages read so far.      *)
PagesLeft ==
    /\ kind \in Singles \cup {"external"} \/ step = "scan" => left >= 1
    /\ \A k \in Keys : step = "scan" /\ result[k] = "none" => ledger[k] + left = Pages
    /\ \A k \in Keys : step # "scan" => ledger[k] = 0

(* A batch is about its inputs only; the scan of its keys begins when every  *)
(* other input of it is settled.                                             *)
InBatch ==
    /\ owner = "nobody" => \A i \in Inputs : result[i] = "none"
    /\ kind \in {"coreBatch", "dapiBatch"} => \A k \in Keys : result[k] = "none"
    /\ kind = "keyBatch" => \A i \in Public : result[i] = "none"
    /\ kind \in {"keyBatch", "mixedBatch"} => \A k \in Keys : result[k] \in {"none", "failed"}
    /\ kind = "mixedBatch" /\ step \in {"scanConnect", "scan"} =>
         \A i \in Public : result[i] \in {"ok", "failed"}

InFlight ==
    /\ Cardinality(Asked(result)) <= Concurrency
    /\ (step = "tasks") <=> (Asked(result) # {})

ReadingOK ==
    /\ owner \in {"nobody", "dash", "external"} /\ left \in 0 .. Pages
    /\ result \in [Inputs -> Results] /\ ledger \in [Keys -> 0 .. Pages]

QueryOK == ReadingOK /\ StepsOf /\ PagesLeft /\ InBatch /\ InFlight

PageOK ==
    /\ shown \in 0 .. MaxQueries /\ offer \in States /\ pending \in 0 .. MaxExports
    /\ OfferIsShown /\ BatchIsComplete

(* The buttons of a batch are those of an earlier query, or of the last one  *)
(* if its results are on offer at Dash; they are out of sight while a query  *)
(* runs and after it was cancelled.                                          *)
Buttons ==
    /\ batch.query \in 0 .. query /\ (batch.items # {} => batch.query # 0)
    /\ owner # "nobody" => query # 0
    /\ owner = "dash" => batch = NoBatch
    /\ owner = "external" => coin = "external"
    /\ shown # 0 /\ batch.items # {} => owner = "nobody" /\ ~cancelled
    /\ coin = "dash" /\ offer # Nothing /\ batch.items # {} => batch.query = query

RestOK ==
    /\ ready \in BOOLEAN /\ coin \in {"dash", "external"}
    /\ query \in 0 .. MaxQueries /\ stop \subseteq {"cancel", "clear"}
    /\ saved \in States /\ tickets \in 0 .. MaxExports
    /\ jobs \subseteq [state : States, ticket : 1 .. MaxExports]

IInv == RestOK /\ QueryOK /\ PageOK /\ Buttons

USE ViewerAssumption DEF ViewerAssumption

LEMMA ConsistentFollows == IInv => Consistent
  <1> SUFFICES ASSUME IInv PROVE Consistent
    OBVIOUS
  <1> USE DEF IInv, RestOK, QueryOK, ReadingOK, PageOK
  <1>1. kind \in Singles \cup Batches \cup {"none", "external"} /\ step \in Steps
    BY DEF StepsOf, Singles, Batches, InputsOf, Steps
  <1>2. (owner = "nobody") <=> (step = "idle")
    BY DEF StepsOf
  <1>3. TypeOK
    BY <1>1 DEF TypeOK, Results
  <1> QED
    BY <1>2, <1>3 DEF Consistent, InFlight

----------------------------------------------------------------------------
(* The workers take the inputs in their order.                               *)

(* The place of each in a finite set of lines: no two have the same, and     *)
(* each place is somebody's.                                                 *)
Before(Q, i) == {j \in Q : j <= i}

LEMMA Places ==
    ASSUME NEW Q \in SUBSET Public
    PROVE  /\ IsFiniteSet(Q) /\ Cardinality(Q) \in Nat
           /\ \A i \in Q : Cardinality(Before(Q, i)) \in 1 .. Cardinality(Q)
           /\ \A i, j \in Q : i < j => Cardinality(Before(Q, i)) < Cardinality(Before(Q, j))
  <1>1. IsFiniteSet(Q) /\ Cardinality(Q) \in Nat
    BY FS_Subset, FS_CardinalityType
  <1>2. \A i \in Q : /\ IsFiniteSet(Before(Q, i)) /\ Cardinality(Before(Q, i)) \in Nat
                     /\ Cardinality(Before(Q, i)) <= Cardinality(Q)
    <2> SUFFICES ASSUME NEW i \in Q
                 PROVE  /\ IsFiniteSet(Before(Q, i)) /\ Cardinality(Before(Q, i)) \in Nat
                        /\ Cardinality(Before(Q, i)) <= Cardinality(Q)
      OBVIOUS
    <2>1. Before(Q, i) \subseteq Q
      BY DEF Before
    <2> QED
      BY <1>1, <2>1, FS_Subset, FS_CardinalityType
  <1>3. \A i \in Q : Cardinality(Before(Q, i)) # 0
    <2> SUFFICES ASSUME NEW i \in Q PROVE Cardinality(Before(Q, i)) # 0
      OBVIOUS
    <2>1. i \in Before(Q, i)
      BY DEF Before
    <2> QED
      BY <1>2, <2>1, FS_EmptySet
  <1>4. \A i, j \in Q : i < j => Cardinality(Before(Q, i)) < Cardinality(Before(Q, j))
    <2> SUFFICES ASSUME NEW i \in Q, NEW j \in Q, i < j
                 PROVE  Cardinality(Before(Q, i)) < Cardinality(Before(Q, j))
      OBVIOUS
    <2>1. Before(Q, i) \subseteq Before(Q, j)
      <3>1. \A k \in Q : k <= i => k <= j
        <4>1. i \in Nat /\ j \in Nat /\ \A k \in Q : k \in Nat
          OBVIOUS
        <4> QED
          BY <4>1
      <3> QED
        BY <3>1, Zenon DEF Before
    <2>2. j \in Before(Q, j) /\ j \notin Before(Q, i)
      BY DEF Before
    <2>3. Before(Q, i) # Before(Q, j)
      BY <2>2
    <2>4. /\ Cardinality(Before(Q, i)) <= Cardinality(Before(Q, j))
          /\ Cardinality(Before(Q, i)) = Cardinality(Before(Q, j)) => Before(Q, i) = Before(Q, j)
      BY <1>2, <2>1, FS_Subset
    <2> QED
      BY <1>2, <2>3, <2>4
  <1> QED
    BY <1>1, <1>2, <1>3, <1>4

(* No more than n of them have one of the first n places.                    *)
LEMMA FirstPlaces ==
    ASSUME NEW Q \in SUBSET Public, NEW n \in Nat
    PROVE  LET first == {i \in Q : Cardinality(Before(Q, i)) <= n}
           IN  IsFiniteSet(first) /\ Cardinality(first) <= n /\ Cardinality(first) \in Nat
  <1> DEFINE first == {i \in Q : Cardinality(Before(Q, i)) <= n}
             place == [i \in first |-> Cardinality(Before(Q, i))]
  <1>0. \A i \in Q : Cardinality(Before(Q, i)) \in Nat \ {0}
    <2>1. /\ Cardinality(Q) \in Nat
          /\ \A i \in Q : Cardinality(Before(Q, i)) \in 1 .. Cardinality(Q)
      BY Places
    <2> QED
      BY <2>1
  <1>1. place \in [first -> 1 .. n]
    <2>1. \A i \in first : Cardinality(Before(Q, i)) \in 1 .. n
      BY <1>0
    <2> QED
      BY <2>1, Zenon
  <1>2. \A i, j \in first : i # j => place[i] # place[j]
    <2>1. \A i, j \in Q : i < j => Cardinality(Before(Q, i)) < Cardinality(Before(Q, j))
      BY Places
    <2>2. \A i, j \in Q : i \in Nat /\ j \in Nat
      OBVIOUS
    <2> QED
      BY <1>0, <2>1, <2>2
  <1>3. place \in Injection(first, 1 .. n)
    BY <1>1, <1>2 DEF Injection, IsInjective
  <1>4. IsFiniteSet(1 .. n) /\ Cardinality(1 .. n) = n
    BY FS_Interval
  <1> HIDE DEF place, first
  <1>5. IsFiniteSet(first) /\ Cardinality(first) <= Cardinality(1 .. n)
    BY <1>3, <1>4, FS_Injection
  <1>6. Cardinality(first) \in Nat
    BY <1>5, FS_CardinalityType
  <1> QED
    BY <1>4, <1>5, <1>6 DEF first

(* Somebody has the first place.                                             *)
LEMMA FirstOfAll ==
    ASSUME NEW Q \in SUBSET Public, Q # {}
    PROVE  \E i \in Q : Cardinality(Before(Q, i)) = 1
  <1> DEFINE n == Cardinality(Q)
             place == [i \in Q |-> Cardinality(Before(Q, i))]
  <1>1. n \in Nat /\ IsFiniteSet(Q) /\ n # 0
    BY Places, FS_EmptySet
  <1>2. place \in [Q -> 1 .. n]
    BY Places
  <1>3. \A i, j \in Q : i # j => place[i] # place[j]
    <2>1. /\ \A i, j \in Q : i < j => Cardinality(Before(Q, i)) < Cardinality(Before(Q, j))
          /\ \A i \in Q : Cardinality(Before(Q, i)) \in 1 .. Cardinality(Q)
      BY Places
    <2>2. \A i, j \in Q : i \in Nat /\ j \in Nat
      OBVIOUS
    <2> QED
      BY <1>1, <2>1, <2>2
  <1>4. place \in Injection(Q, 1 .. n)
    BY <1>2, <1>3 DEF Injection, IsInjective
  <1>5. IsFiniteSet(1 .. n) /\ Cardinality(1 .. n) = n
    BY <1>1, FS_Interval
  <1>6. place \in Surjection(Q, 1 .. n)
    <2> HIDE DEF place
    <2>1. Cardinality(Q) = Cardinality(1 .. n)
      BY <1>5
    <2> QED
      BY <1>4, <1>5, <2>1, FS_Injection
  <1>7. 1 \in 1 .. n
    BY <1>1
  <1>8. \E i \in Q : place[i] = 1
    BY <1>6, <1>7 DEF Surjection
  <1> QED
    BY <1>8

(* What a turn of the workers makes of r: no more tasks in flight than       *)
(* workers, and none waiting unless some are.                                *)
TurnOf(r, t) ==
    /\ t \in [Inputs -> Results]
    /\ Cardinality(Asked(t)) <= Concurrency
    /\ Asked(t) = {} => Queued(t) = {}
    /\ \A k \in Keys : t[k] = r[k]

LEMMA TakenTurn ==
    ASSUME NEW r \in [Inputs -> Results], Cardinality(Asked(r)) <= Concurrency,
           NEW late \in BOOLEAN
    PROVE  TurnOf(r, Taken(r, late))
  <1> DEFINE t == Taken(r, late)
             Q == Queued(r)
             n == Concurrency - Cardinality(Asked(r))
             first == {i \in Q : Cardinality(Before(Q, i)) <= n}
  <1>1. Q \in SUBSET Public /\ Asked(r) \in SUBSET Public /\ Q \cap Asked(r) = {}
    BY DEF Queued, Asked
  <1>2. /\ IsFiniteSet(Asked(r)) /\ Cardinality(Asked(r)) \in Nat /\ n \in Nat
        /\ \A i \in Q : Cardinality(Before(Q, i)) \in Nat
    <2>1. IsFiniteSet(Asked(r)) /\ Cardinality(Asked(r)) \in Nat
      BY <1>1, Places
    <2>2. /\ Cardinality(Q) \in Nat
          /\ \A i \in Q : Cardinality(Before(Q, i)) \in 1 .. Cardinality(Q)
      <3> HIDE DEF Q
      <3> QED
        BY <1>1, Places
    <2>3. \A i \in Q : Cardinality(Before(Q, i)) \in Nat
      BY <2>2
    <2> QED
      BY <2>1, <2>3
  <1>3. t \in [Inputs -> Results] /\ \A k \in Keys : t[k] = r[k]
    BY DEF Taken, Results, Inputs, Queued
  <1>4. CASE late
    <2>1. Asked(t) = Asked(r) /\ Queued(t) = {}
      BY <1>4 DEF Taken, Asked, Queued, Inputs
    <2> QED
      BY <1>3, <2>1 DEF TurnOf
  <1>5. CASE ~late
    <2>1. \A i \in Inputs : t[i] = IF i \notin Q THEN r[i]
                                   ELSE IF Cardinality(Before(Q, i)) <= n THEN "asked" ELSE "none"
      <3>1. \A i \in Q : {j \in Q : j <= i} = Before(Q, i)
        BY DEF Before
      <3> QED
        <4>1. \A i \in Q : Cardinality(Asked(r)) + Cardinality({j \in Queued(r) : j <= i}) <= Concurrency
                          <=> Cardinality(Before(Q, i)) <= n
          <5> SUFFICES ASSUME NEW i \in Q
                       PROVE  Cardinality(Asked(r)) + Cardinality({j \in Queued(r) : j <= i}) <= Concurrency
                              <=> Cardinality(Before(Q, i)) <= n
            OBVIOUS
          <5>1. Cardinality({j \in Queued(r) : j <= i}) = Cardinality(Before(Q, i))
            BY <3>1
          <5>2. Cardinality(Before(Q, i)) \in Nat /\ Cardinality(Asked(r)) \in Nat
            BY <1>2
          <5> QED
            BY <5>1, <5>2
        <4>2. t = [i \in Inputs |->
                     IF i \notin Queued(r) THEN r[i]
                     ELSE IF Cardinality(Asked(r)) + Cardinality({j \in Queued(r) : j <= i}) <= Concurrency
                          THEN "asked" ELSE "none"]
          BY <1>5 DEF Taken
        <4> QED
          BY <4>1, <4>2
    <2>2. Asked(t) = Asked(r) \cup first
      BY <1>1, <2>1 DEF Asked, Queued, Inputs
    <2> HIDE DEF t, n, Q
    <2>3. IsFiniteSet(first) /\ Cardinality(first) <= n /\ Cardinality(first) \in Nat
      BY <1>1, <1>2, FirstPlaces
    <2>4. Asked(r) \cap first = {}
      BY <1>1
    <2> HIDE DEF first
    <2>5. Cardinality(Asked(t)) <= Concurrency
      <3>1. Cardinality(Asked(r) \cap first) = 0
        BY <2>4, FS_EmptySet
      <3>2. Cardinality(Asked(r) \cup first) = Cardinality(Asked(r)) + Cardinality(first) - Cardinality(Asked(r) \cap first)
        BY <1>2, <2>3, FS_Union
      <3> QED
        BY <1>2, <2>2, <2>3, <3>1, <3>2 DEF n
    <2>6. Asked(t) = {} => Queued(t) = {}
      <3> SUFFICES ASSUME Asked(t) = {}, Queued(t) # {} PROVE FALSE
        OBVIOUS
      <3>1. Queued(t) \subseteq Q
        BY <1>3, <2>1 DEF Queued, Q, Inputs
      <3>2. PICK i \in Q : Cardinality(Before(Q, i)) = 1
        BY <1>1, <3>1, FirstOfAll
      <3>3. Asked(r) = {}
        BY <2>2
      <3>4. Cardinality(Asked(r)) = 0
        BY <3>3, FS_EmptySet
      <3>5. i \in first
        BY <3>2, <3>4 DEF first, n
      <3> QED
        BY <2>2, <3>5
    <2> QED
      BY <1>3, <2>5, <2>6 DEF TurnOf, t
  <1> QED
    BY <1>4, <1>5

----------------------------------------------------------------------------
(* What a batch says of its inputs.                                          *)

Whole(b) ==
    /\ b.items \cup b.errors = b.of
    /\ b.items \cap b.errors = {}
    /\ \A k \in b.items \cap Keys : b.ledger[k] = Pages

(* Every input of the batch is settled, and only a key that was read to the  *)
(* last page has a result.                                                   *)
Settled(r, l) ==
    /\ kind \in Batches
    /\ \A i \in InputsOf[kind] : r[i] \in {"ok", "failed"}
    /\ \A i \in Inputs \ InputsOf[kind] : r[i] = "none"
    /\ \A k \in Keys : r[k] = "ok" => l[k] = Pages

LEMMA BatchKinds ==
    /\ Batches = {"coreBatch", "dapiBatch", "keyBatch", "mixedBatch"}
    /\ InputsOf["coreBatch"] = Public /\ InputsOf["dapiBatch"] = Public
    /\ InputsOf["keyBatch"] = Keys /\ InputsOf["mixedBatch"] = Inputs
    /\ \A k \in Batches : InputsOf[k] \subseteq Inputs
  <1>1. Batches = {"coreBatch", "dapiBatch", "keyBatch", "mixedBatch"}
    BY DEF Batches, InputsOf
  <1>2. /\ InputsOf["coreBatch"] = Public /\ InputsOf["dapiBatch"] = Public
        /\ InputsOf["keyBatch"] = Keys /\ InputsOf["mixedBatch"] = Inputs
    BY DEF InputsOf
  <1> QED
    BY <1>1, <1>2 DEF Inputs

LEMMA NoBatchIsWhole == Whole(NoBatch)
  BY DEF Whole, NoBatch

LEMMA PublishedIsWhole ==
    ASSUME NEW r, NEW l, Settled(r, l)
    PROVE  Whole([query |-> query, of |-> InputsOf[kind], ledger |-> l,
                  items |-> {i \in Inputs : r[i] = "ok"},
                  errors |-> {i \in Inputs : r[i] = "failed"}])
  <1>1. InputsOf[kind] \subseteq Inputs
    BY BatchKinds DEF Settled
  <1>2. {i \in Inputs : r[i] = "ok"} \cup {i \in Inputs : r[i] = "failed"} = InputsOf[kind]
    BY <1>1 DEF Settled
  <1>3. {i \in Inputs : r[i] = "ok"} \cap {i \in Inputs : r[i] = "failed"} = {}
    OBVIOUS
  <1>4. \A k \in {i \in Inputs : r[i] = "ok"} \cap Keys : l[k] = Pages
    BY DEF Settled
  <1> QED
    BY <1>2, <1>3, <1>4 DEF Whole

----------------------------------------------------------------------------
(* The ends of a query.                                                      *)

LEMMA NothingAsked ==
    ASSUME NEW r, \A i \in Public : r[i] # "asked"
    PROVE  Asked(r) = {} /\ Cardinality(Asked(r)) <= Concurrency
  <1>1. Asked(r) = {}
    BY DEF Asked
  <1>2. Cardinality(Asked(r)) = 0
    BY <1>1, FS_EmptySet
  <1> QED
    BY <1>1, <1>2

LEMMA EndsInv == ASSUME IInv, Ends PROVE RestOK' /\ QueryOK'
  <1>1. RestOK'
    BY DEF Ends, exports, IInv, RestOK
  <1>2. ReadingOK' /\ StepsOf'
    BY DEF Ends, ReadingOK, StepsOf, Results, NoInputs, NoLedgers
  <1>3. PagesLeft' /\ InBatch'
    BY DEF Ends, PagesLeft, InBatch, Singles, NoInputs, NoLedgers, Inputs
  <1>4. InFlight'
    <2>1. \A i \in Public : NoInputs[i] # "asked"
      BY DEF NoInputs, Inputs
    <2>2. Asked(NoInputs) = {} /\ Cardinality(Asked(NoInputs)) <= Concurrency
      BY <2>1, NothingAsked
    <2>3. result' = NoInputs /\ step' = "idle"
      BY DEF Ends
    <2> QED
      BY <2>2, <2>3 DEF InFlight
  <1> QED
    BY <1>1, <1>2, <1>3, <1>4 DEF QueryOK

(* What a step leaves of the page.                                           *)
Keeps == UNCHANGED <<shown, session, batch, query, coin, stop>> /\ owner' \in {owner, "nobody"}

LEMMA PageKept == ASSUME IInv, Keeps PROVE PageOK' /\ Buttons'
  <1>1. PageOK'
    BY DEF Keeps, IInv, PageOK, session, OfferIsShown, BatchIsComplete
  <1>2. Buttons'
    BY DEF Keeps, IInv, session, Buttons, cancelled
  <1> QED
    BY <1>1, <1>2

(* The results are withdrawn, and the batch with them or not.                *)
Clears ==
    /\ Withdraws /\ batch' \in {batch, NoBatch}
    /\ query' \in {query, query + 1}
    /\ owner' # "nobody" => query' # 0
    /\ owner' = "dash" => batch' = NoBatch
    /\ owner' = "external" => coin' = "external"
    /\ shown' = 0 \/ UNCHANGED <<shown, owner, stop>>

LEMMA PageCleared == ASSUME IInv, Clears PROVE PageOK' /\ Buttons'
  <1>1. Whole(NoBatch)
    BY NoBatchIsWhole
  <1>2. Nothing \in States
    BY DEF Nothing, States, IInv, RestOK
  <1>3. offer' = Nothing /\ pending' = 0
    BY DEF Clears, Withdraws, SetExportState
  <1>4. BatchIsComplete'
    <2>1. CASE batch' = batch
      BY <2>1 DEF IInv, PageOK, BatchIsComplete
    <2>2. CASE batch' = NoBatch
      BY <1>1, <2>2 DEF BatchIsComplete, Whole
    <2> QED
      BY <2>1, <2>2 DEF Clears
  <1>5. PageOK'
    BY <1>2, <1>3, <1>4 DEF Clears, IInv, PageOK, OfferIsShown
  <1>6. Buttons'
    <2>1. query \in Nat /\ query' \in Nat /\ query <= query'
      BY DEF Clears, IInv, RestOK
    <2>2. batch'.query \in 0 .. query' /\ (batch'.items # {} => batch'.query # 0)
      <3>1. CASE batch' = batch
        BY <2>1, <3>1 DEF IInv, Buttons
      <3>2. CASE batch' = NoBatch
        BY <2>1, <3>2 DEF NoBatch
      <3> QED
        BY <3>1, <3>2 DEF Clears
    <2>3. shown' # 0 /\ batch'.items # {} => owner' = "nobody" /\ ~cancelled'
      <3>1. batch'.items # {} => batch' = batch
        BY DEF Clears, NoBatch
      <3> QED
        BY <3>1 DEF Clears, IInv, Buttons, cancelled
    <2> QED
      BY <1>3, <2>2, <2>3 DEF Clears, Buttons
  <1> QED
    BY <1>5, <1>6

(* A query that was not cancelled shows its results, and keeps the batch of  *)
(* the page or makes its own.                                                *)
ShowsBatch ==
    /\ owner # "nobody" /\ ~cancelled /\ UNCHANGED <<query, coin, stop>>
    /\ batch' = batch \/ (Whole(batch') /\ batch'.query = query)
    /\ owner' = "nobody" \/ (owner' = "dash" /\ owner = "dash" /\ batch' = batch)

LEMMA ShowsInv ==
    ASSUME IInv, NEW v \in 0 .. Pages, Shows(v), ShowsBatch
    PROVE  PageOK' /\ Buttons'
  <1>1. offer' = [query |-> query, version |-> v] /\ pending' = 0 /\ shown' = query
    BY DEF Shows, SetExportState
  <1>2. query \in 1 .. MaxQueries /\ query' = query /\ owner \in {"dash", "external"}
    BY DEF ShowsBatch, IInv, RestOK, Buttons, QueryOK, ReadingOK
  <1>3. offer' \in States /\ offer'.query = query
    BY <1>1, <1>2 DEF States
  <1>4. OfferIsShown'
    BY <1>1, <1>2, <1>3 DEF OfferIsShown
  <1>5. BatchIsComplete'
    BY DEF ShowsBatch, IInv, PageOK, BatchIsComplete, Whole
  <1>6. PageOK'
    <2>1. pending' \in 0 .. MaxExports
      BY <1>1
    <2> QED
      BY <1>1, <1>2, <1>3, <1>4, <1>5, <2>1 DEF PageOK
  <1>7. Buttons'
    <2>1. CASE batch' = batch
      <3>1. coin = "dash" => batch.items = {}
        BY <1>2 DEF IInv, Buttons, NoBatch
      <3>2. owner' # "nobody" => owner' = "dash" /\ batch = NoBatch /\ batch.items = {}
        BY DEF ShowsBatch, IInv, Buttons, NoBatch
      <3> QED
        BY <1>2, <2>1, <3>1, <3>2 DEF ShowsBatch, IInv, Buttons, cancelled
    <2>2. CASE batch'.query = query /\ owner' = "nobody"
      BY <1>2, <2>2 DEF ShowsBatch, Buttons, cancelled
    <2> QED
      BY <2>1, <2>2 DEF ShowsBatch
  <1> QED
    BY <1>6, <1>7

LEMMA StopsInv == ASSUME IInv, NEW said, Stops(said) PROVE IInv'
  <1>1. Keeps
    BY DEF Stops, Ends, Keeps
  <1> QED
    BY <1>1, EndsInv, PageKept DEF Stops, IInv

LEMMA CompletesInv == ASSUME IInv, Completes, owner # "nobody", ~cancelled PROVE IInv'
  <1>1. 0 \in 0 .. Pages
    OBVIOUS
  <1>2. ShowsBatch
    BY DEF Completes, Ends, ShowsBatch
  <1> QED
    BY <1>1, <1>2, EndsInv, ShowsInv DEF Completes, IInv

LEMMA PublishesInv ==
    ASSUME IInv, NEW r, NEW l, NEW said, Settled(r, l), Publishes(r, l, said)
    PROVE  IInv'
  <1>1. CASE Stops(said)
    BY <1>1, StopsInv
  <1>2. CASE Published(r, l) /\ ~cancelled
    <2>1. 0 \in 0 .. Pages
      OBVIOUS
    <2>2. owner # "nobody"
      BY DEF Settled, Batches, InputsOf, IInv, QueryOK, StepsOf
    <2>3. Whole(batch') /\ batch'.query = query
      BY <1>2, PublishedIsWhole DEF Published
    <2>4. ShowsBatch
      BY <1>2, <2>2, <2>3 DEF Published, Ends, ShowsBatch
    <2>5. PageOK' /\ Buttons'
      BY <1>2, <2>1, <2>4, ShowsInv DEF Published
    <2>6. RestOK' /\ QueryOK'
      BY <1>2, EndsInv DEF Published
    <2> QED
      BY <2>5, <2>6 DEF IInv
  <1> QED
    BY <1>1, <1>2 DEF Publishes

----------------------------------------------------------------------------
(* Single lookups and the controller of the other coins.                     *)

LEMMA AwaitsRest == ASSUME IInv, NEW s, Awaits(s) PROVE RestOK'
  BY DEF Awaits, exports, IInv, RestOK

(* It goes on, and draws nothing.                                            *)
LEMMA AwaitsInv ==
    ASSUME IInv, NEW s, Awaits(s), Draws, QueryOK'
    PROVE  IInv'
  <1>1. Keeps
    BY DEF Awaits, Draws, Keeps
  <1> QED
    BY <1>1, AwaitsRest, PageKept DEF IInv

LEMMA SingleInv ==
    ASSUME IInv,
           SingleConnected \/ SingleProved \/ SingleAnswered \/ SinglePage \/ SingleFails
    PROVE  IInv'
  <1>1. CASE \E said : Stops(said)
    BY <1>1, StopsInv
  <1>2. CASE Completes /\ (SingleAnswered \/ SinglePage) /\ ~cancelled
    <2>1. owner # "nobody"
      BY <1>2 DEF SingleAnswered, SinglePage, IInv, QueryOK, StepsOf
    <2> QED
      BY <1>2, <2>1, CompletesInv
  <1>3. CASE SingleConnected /\ ~cancelled
    <2> DEFINE s == IF kind = "shielded" THEN "page" ELSE "query"
    <2>1. Awaits(s) /\ Draws /\ UNCHANGED reading /\ step = "connect"
          /\ kind \in {"platform", "identity", "shielded"}
      BY <1>3 DEF SingleConnected
    <2>2. step' \in {"page", "query"}
      BY <2>1 DEF Awaits
    <2>3. QueryOK'
      BY <2>1, <2>2
      DEF Awaits, reading, IInv, QueryOK, ReadingOK, StepsOf, PagesLeft, InBatch, InFlight, Singles
    <2> HIDE DEF s
    <2> QED
      BY <2>1, <2>3, AwaitsInv
  <1>4. CASE SingleProved /\ ~cancelled
    <2>1. Awaits("history") /\ Draws /\ UNCHANGED reading /\ step = "query"
          /\ kind \in {"platform", "identity"}
      BY <1>4 DEF SingleProved
    <2>2. QueryOK'
      BY <2>1
      DEF Awaits, reading, IInv, QueryOK, ReadingOK, StepsOf, PagesLeft, InBatch, InFlight, Singles
    <2> QED
      BY <2>1, <2>2, AwaitsInv
  <1>5. CASE SinglePage /\ ~cancelled /\ left # 1
    <2>1. /\ Awaits("page") /\ left' = left - 1 /\ UNCHANGED <<result, ledger>>
          /\ (Shows(left) /\ UNCHANGED batch) \/ Draws
          /\ step = "page"
      BY <1>5 DEF SinglePage
    <2>2. kind \in Singles /\ left \in 2 .. Pages
      BY <1>5, <2>1 DEF IInv, QueryOK, StepsOf, PagesLeft, ReadingOK
    <2>3. QueryOK'
      BY <2>1, <2>2
      DEF Awaits, IInv, QueryOK, ReadingOK, StepsOf, PagesLeft, InBatch, InFlight, Singles
    <2>4. CASE Draws
      BY <2>1, <2>3, <2>4, AwaitsInv
    <2>5. CASE Shows(left) /\ UNCHANGED batch
      <3>1. left \in 0 .. Pages
        BY <2>2
      <3>2. owner = "dash"
        BY <2>1, <2>2 DEF IInv, QueryOK, ReadingOK, StepsOf, Singles
      <3>3. ShowsBatch
        BY <1>5, <2>1, <2>5, <3>2 DEF Awaits, ShowsBatch
      <3>4. PageOK' /\ Buttons'
        BY <2>5, <3>1, <3>3, ShowsInv
      <3> QED
        BY <2>1, <2>3, <3>4, AwaitsRest DEF IInv
    <2> QED
      BY <2>1, <2>4, <2>5
  <1> QED
    BY <1>1, <1>2, <1>3, <1>4, <1>5
    DEF SingleConnected, SingleProved, SingleAnswered, SinglePage, SingleFails

LEMMA ExternalInv == ASSUME IInv, ExternalAnswered \/ ExternalFails PROVE IInv'
  <1>1. CASE \E said : Stops(said)
    BY <1>1, StopsInv
  <1>2. CASE Completes /\ owner = "external" /\ ~cancelled
    BY <1>2, CompletesInv
  <1>3. CASE ExternalAnswered /\ ~cancelled /\ left # 1
    <2>1. /\ left' = left - 1 /\ owner = "external"
          /\ UNCHANGED <<ready, coin, owner, kind, query, step, result, ledger, stop,
                         shown, session, exports, status, batch>>
      BY <1>3 DEF ExternalAnswered
    <2>2. kind = "external" /\ step = "query" /\ left \in 2 .. Pages
      BY <1>3, <2>1 DEF IInv, QueryOK, StepsOf, PagesLeft, ReadingOK
    <2>3. QueryOK'
      BY <2>1, <2>2
      DEF IInv, QueryOK, ReadingOK, StepsOf, PagesLeft, InBatch, InFlight, Singles
    <2>4. RestOK'
      BY <2>1 DEF exports, IInv, RestOK
    <2>5. Keeps
      BY <2>1 DEF Keeps
    <2> QED
      BY <2>3, <2>4, <2>5, PageKept DEF IInv
  <1> QED
    BY <1>1, <1>2, <1>3 DEF ExternalAnswered, ExternalFails

----------------------------------------------------------------------------
(* Batches.                                                                  *)

(* The workers of a batch of kind, at a turn with r.                         *)
AtWork(r) ==
    /\ r \in [Inputs -> Results] /\ Cardinality(Asked(r)) <= Concurrency
    /\ owner = "dash" /\ kind \in {"coreBatch", "dapiBatch", "mixedBatch"}
    /\ step \in {"connect", "tasks"}
    /\ \A k \in Keys : r[k] \in IF kind = "mixedBatch" THEN {"none", "failed"} ELSE {"none"}

LEMMA TasksGoOnInv ==
    ASSUME IInv, NEW r, NEW said, AtWork(r), TasksGoOn(r, said)
    PROVE  IInv'
  <1> DEFINE t == Taken(r, cancelled)
  <1>1. TurnOf(r, t)
    <2>1. cancelled \in BOOLEAN
      BY DEF cancelled
    <2> QED
      BY <2>1, TakenTurn, Zenon DEF AtWork
  <1>2. /\ t \in [Inputs -> Results] /\ Cardinality(Asked(t)) <= Concurrency
        /\ Asked(t) = {} => Queued(t) = {}
        /\ \A k \in Keys : t[k] = r[k]
    BY <1>1, Zenon DEF TurnOf
  <1>3. Asked(t) = {} => \A i \in Public : t[i] \in {"ok", "failed"}
    <2> HIDE DEF t
    <2> QED
      BY <1>2 DEF Asked, Queued, Results, Inputs
  <1>4. \/ Asked(t) # {} /\ Awaits("tasks") /\ result' = t /\ UNCHANGED <<left, ledger>> /\ Draws
        \/ /\ Asked(t) = {} /\ kind = "mixedBatch"
           /\ Awaits("scanConnect") /\ result' = t /\ UNCHANGED <<left, ledger>> /\ Draws
        \/ /\ Asked(t) = {} /\ ~(kind = "mixedBatch" /\ Active(t) # {})
           /\ Publishes(t, ledger, said)
    BY DEF TasksGoOn
  <1> HIDE DEF t
  <1>5. CASE Asked(t) # {} /\ Awaits("tasks") /\ result' = t /\ UNCHANGED <<left, ledger>> /\ Draws
    <2>1. owner' = "dash" /\ kind' = kind /\ step' = "tasks"
      BY <1>5 DEF Awaits, AtWork
    <2>2. ReadingOK' /\ StepsOf' /\ InFlight'
      BY <1>2, <1>5, <2>1 DEF ReadingOK, StepsOf, InFlight, IInv, QueryOK, AtWork, Singles
    <2>3. PagesLeft' /\ InBatch'
      BY <1>2, <1>5, <2>1 DEF PagesLeft, InBatch, IInv, QueryOK, AtWork, Singles
    <2> QED
      BY <1>5, <2>2, <2>3, AwaitsInv DEF QueryOK
  <1>6. CASE /\ Asked(t) = {} /\ kind = "mixedBatch"
             /\ Awaits("scanConnect") /\ result' = t /\ UNCHANGED <<left, ledger>> /\ Draws
    <2>1. owner' = "dash" /\ kind' = kind /\ step' = "scanConnect"
      BY <1>6 DEF Awaits, AtWork
    <2>2. ReadingOK' /\ StepsOf' /\ InFlight'
      BY <1>2, <1>6, <2>1 DEF ReadingOK, StepsOf, InFlight, IInv, QueryOK, AtWork, Singles
    <2>3. PagesLeft' /\ InBatch'
      BY <1>2, <1>3, <1>6, <2>1 DEF PagesLeft, InBatch, IInv, QueryOK, AtWork, Singles
    <2> QED
      BY <1>6, <2>2, <2>3, AwaitsInv DEF QueryOK
  <1>7. CASE /\ Asked(t) = {} /\ ~(kind = "mixedBatch" /\ Active(t) # {})
             /\ Publishes(t, ledger, said)
    <2>1. \A k \in Keys : t[k] \in IF kind = "mixedBatch" THEN {"failed"} ELSE {"none"}
      BY <1>2, <1>7 DEF AtWork, Active
    <2>2. kind \in Batches
      BY BatchKinds DEF AtWork
    <2>3. Settled(t, ledger)
      <3>1. CASE kind = "mixedBatch"
        BY <1>3, <1>7, <2>1, <2>2, <3>1, BatchKinds DEF Settled, Inputs
      <3>2. CASE kind \in {"coreBatch", "dapiBatch"}
        <4>1. InputsOf[kind] = Public
          BY <3>2, BatchKinds
        <4> QED
          BY <1>3, <1>7, <2>1, <2>2, <3>2, <4>1 DEF Settled, Inputs
      <3> QED
        BY <3>1, <3>2 DEF AtWork
    <2> QED
      BY <1>7, <2>3, PublishesInv
  <1> QED
    BY <1>4, <1>5, <1>6, <1>7

LEMMA BatchConnectInv == ASSUME IInv, BatchConnected \/ BatchConnectFails PROVE IInv'
  <1> SUFFICES ASSUME step = "connect", kind \in {"dapiBatch", "mixedBatch"} PROVE IInv'
    BY DEF BatchConnected, BatchConnectFails
  <1> DEFINE r == [i \in Inputs |->
                     IF i \in Dapi /\ result[i] = "none" THEN "failed" ELSE result[i]]
  <1>1. AtWork(result)
    BY DEF AtWork, IInv, QueryOK, ReadingOK, StepsOf, InBatch, InFlight, Singles
  <1>2. AtWork(r)
    <2>1. r \in [Inputs -> Results] /\ Asked(r) = Asked(result)
      BY <1>1 DEF AtWork, Results, Asked, Inputs
    <2>2. \A k \in Keys : r[k] = result[k]
      BY DEF Inputs
    <2> HIDE DEF r
    <2> QED
      BY <1>1, <2>1, <2>2 DEF AtWork
  <1>3. \/ \E said : Stops(said)
        \/ TasksGoOn(result, status)
        \/ TasksGoOn(r, status)
    BY DEF BatchConnected, BatchConnectFails
  <1> HIDE DEF r
  <1> QED
    BY <1>1, <1>2, <1>3, StopsInv, TasksGoOnInv

LEMMA TaskSettlesInv == ASSUME IInv, NEW i \in Public, TaskSettles(i) PROVE IInv'
  <1>1. \A x \in {"ok", "failed"} : AtWork([result EXCEPT ![i] = x])
    <2> SUFFICES ASSUME NEW x \in {"ok", "failed"} PROVE AtWork([result EXCEPT ![i] = x])
      OBVIOUS
    <2> DEFINE r == [result EXCEPT ![i] = x]
    <2>1. owner = "dash" /\ kind \in {"coreBatch", "dapiBatch", "mixedBatch"} /\ step = "tasks"
      BY DEF TaskSettles, IInv, QueryOK, ReadingOK, StepsOf, Singles
    <2>2. r \in [Inputs -> Results] /\ Asked(r) = Asked(result) \ {i} /\ i \in Asked(result)
          /\ \A k \in Keys : r[k] = result[k]
      BY DEF TaskSettles, IInv, QueryOK, ReadingOK, Results, Asked, Inputs
    <2> HIDE DEF r
    <2>3. Cardinality(Asked(r)) <= Concurrency
      <3>1. IsFiniteSet(Asked(result)) /\ Cardinality(Asked(result)) \in Nat
            /\ Cardinality(Asked(result)) <= Concurrency
        <4>1. Asked(result) \in SUBSET Public
          BY DEF Asked
        <4> QED
          BY <4>1, Places DEF IInv, QueryOK, InFlight
      <3>2. Cardinality(Asked(result) \ {i}) = Cardinality(Asked(result)) - 1
        BY <2>2, <3>1, FS_RemoveElement
      <3> QED
        BY <2>2, <3>1, <3>2
    <2>4. AtWork(r)
      BY <2>1, <2>2, <2>3 DEF AtWork, IInv, QueryOK, InBatch
    <2> QED
      BY <2>4, Zenon DEF r
  <1>2. \/ TasksGoOn([result EXCEPT ![i] = "ok"], "progress")
        \/ TasksGoOn([result EXCEPT ![i] = "failed"], "progress")
    BY DEF TaskSettles
  <1>3. CASE TasksGoOn([result EXCEPT ![i] = "ok"], "progress")
    BY <1>1, <1>3, TasksGoOnInv
  <1>4. CASE TasksGoOn([result EXCEPT ![i] = "failed"], "progress")
    BY <1>1, <1>4, TasksGoOnInv
  <1> QED
    BY <1>2, <1>3, <1>4

(* A batch of a kind that reads keys, when all its other inputs are settled. *)
AtScan(r) ==
    /\ r \in [Inputs -> Results]
    /\ owner = "dash" /\ kind \in {"keyBatch", "mixedBatch"}
    /\ \A k \in Keys : r[k] \in {"none", "failed"}
    /\ \A i \in Public : r[i] \in IF kind = "mixedBatch" THEN {"ok", "failed"} ELSE {"none"}

LEMMA ScanIsAtScan == ASSUME IInv, step \in {"scanConnect", "scan"} PROVE AtScan(result)
  BY DEF AtScan, IInv, QueryOK, ReadingOK, StepsOf, InBatch, Singles

(* What becomes of the keys that are left, once the scan is over.            *)
LEMMA KeysSettled ==
    ASSUME NEW r, NEW l, NEW x \in {"ok", "failed"}, AtScan(r),
           x = "ok" => \A k \in Active(r) : l[k] = Pages
    PROVE  Settled([i \in Inputs |-> IF i \in Active(r) THEN x ELSE r[i]], l)
  <1> DEFINE t == [i \in Inputs |-> IF i \in Active(r) THEN x ELSE r[i]]
  <1>1. \A k \in Keys : t[k] \in {"ok", "failed"} /\ (t[k] = "ok" => l[k] = Pages)
    BY DEF AtScan, Active, Inputs
  <1>2. \A i \in Public : t[i] = r[i]
    BY DEF Active, Inputs
  <1> HIDE DEF t
  <1>3. kind \in Batches
    BY BatchKinds DEF AtScan
  <1>4. Settled(t, l)
    <2>1. CASE kind = "mixedBatch"
      BY <1>1, <1>2, <1>3, <2>1, BatchKinds DEF Settled, AtScan, Inputs
    <2>2. CASE kind = "keyBatch"
      <3>1. InputsOf[kind] = Keys
        BY <2>2, BatchKinds
      <3> QED
        BY <1>1, <1>2, <1>3, <2>2, <3>1 DEF Settled, AtScan, Inputs
    <2> QED
      BY <2>1, <2>2 DEF AtScan
  <1> QED
    BY <1>4, Zenon DEF t

LEMMA ScanEndsInv == ASSUME IInv, NEW r, AtScan(r), ScanEnds(r) PROVE IInv'
  <1>1. CASE Stops(status)
    BY <1>1, StopsInv
  <1>2. CASE Publishes([i \in Inputs |-> IF i \in Active(r) THEN "failed" ELSE r[i]],
                       ledger, status)
    <2>1. Settled([i \in Inputs |-> IF i \in Active(r) THEN "failed" ELSE r[i]], ledger)
      BY KeysSettled
    <2> QED
      BY <1>2, <2>1, PublishesInv
  <1> QED
    BY <1>1, <1>2 DEF ScanEnds

LEMMA ScanConnectInv == ASSUME IInv, ScanConnected \/ ScanFails PROVE IInv'
  <1>1. AtScan(result)
    BY ScanIsAtScan DEF ScanConnected, ScanFails
  <1>2. CASE ScanFails
    BY <1>1, <1>2, ScanEndsInv DEF ScanFails
  <1>3. CASE ScanConnected /\ cancelled
    BY <1>3, StopsInv DEF ScanConnected
  <1>4. CASE ScanConnected /\ ~cancelled
    <2>1. step = "scanConnect" /\ Awaits("scan") /\ left' = Pages
          /\ UNCHANGED <<result, ledger>> /\ Draws
      BY <1>4 DEF ScanConnected
    <2>2. QueryOK'
      BY <1>1, <2>1
      DEF AtScan, Awaits, IInv, QueryOK, ReadingOK, StepsOf, PagesLeft, InBatch, InFlight, Singles
    <2> QED
      BY <2>1, <2>2, AwaitsInv
  <1> QED
    BY <1>2, <1>3, <1>4

LEMMA ScanPageInv == ASSUME IInv, NEW F \in SUBSET Keys, ScanPage(F) PROVE IInv'
  <1> DEFINE r == [i \in Inputs |-> IF i \in F THEN "failed" ELSE result[i]]
             l == [k \in Keys |-> IF k \in Active(r) THEN ledger[k] + 1 ELSE ledger[k]]
  <1>1. AtScan(result) /\ step = "scan" /\ F \subseteq Active(result)
    BY ScanIsAtScan DEF ScanPage
  <1>2. /\ r \in [Inputs -> Results]
        /\ \A i \in Public : r[i] = result[i]
        /\ \A k \in Keys : r[k] \in {"none", "failed"} /\ (r[k] = "none" => result[k] = "none")
    BY <1>1 DEF AtScan, Results, Inputs
  <1>3. AtScan(r)
    <2> HIDE DEF r
    <2> QED
      BY <1>1, <1>2 DEF AtScan
  <1>4. /\ left \in 1 .. Pages /\ ledger \in [Keys -> 0 .. Pages]
        /\ \A k \in Active(r) : k \in Keys /\ ledger[k] + left = Pages
    <2> HIDE DEF r
    <2> QED
      BY <1>1, <1>2 DEF Active, IInv, QueryOK, ReadingOK, PagesLeft
  <1>5. \A k \in Active(r) : l[k] = ledger[k] + 1
    BY <1>4
  <1>6. l \in [Keys -> 0 .. Pages]
    <2> HIDE DEF r
    <2>1. \A k \in Active(r) : ledger[k] + 1 \in 0 .. Pages
      BY <1>4
    <2> QED
      BY <1>4, <2>1
  <1>7. \/ \E said : Stops(said)
        \/ ScanEnds(r)
        \/ left = 1 /\ ScanDone(r, l)
        \/ /\ left # 1 /\ Awaits("scan") /\ left' = left - 1 /\ result' = r /\ ledger' = l /\ Draws
    BY DEF ScanPage
  <1> HIDE DEF r, l
  <1>8. CASE left = 1 /\ ScanDone(r, l)
    <2>1. \A k \in Active(r) : l[k] = Pages
      BY <1>4, <1>5, <1>8
    <2>2. Settled([i \in Inputs |-> IF i \in Active(r) THEN "ok" ELSE r[i]], l)
      BY <1>3, <2>1, KeysSettled
    <2> QED
      BY <1>8, <2>2, PublishesInv DEF ScanDone
  <1>9. CASE left # 1 /\ Awaits("scan") /\ left' = left - 1 /\ result' = r /\ ledger' = l /\ Draws
    <2>1. owner' = owner /\ kind' = kind /\ step' = "scan"
      BY <1>9 DEF Awaits
    <2>2. left' \in 1 .. Pages
      BY <1>4, <1>9
    <2>3. ReadingOK' /\ StepsOf'
      BY <1>1, <1>2, <1>6, <1>9, <2>1, <2>2 DEF AtScan, ReadingOK, StepsOf, Singles
    <2>4. PagesLeft'
      <3>1. \A k \in Keys : r[k] = "none" => ledger'[k] + left' = Pages
        BY <1>4, <1>5, <1>9 DEF Active
      <3> QED
        BY <1>9, <2>1, <2>2, <3>1 DEF PagesLeft
    <2>5. InBatch'
      BY <1>3, <1>9, <2>1 DEF AtScan, InBatch
    <2>6. InFlight'
      <3>1. \A i \in Public : r[i] # "asked"
        BY <1>3 DEF AtScan
      <3>2. Asked(r) = {} /\ Cardinality(Asked(r)) <= Concurrency
        BY <3>1, NothingAsked
      <3> QED
        BY <1>9, <2>1, <3>2 DEF InFlight
    <2> QED
      BY <1>9, <2>3, <2>4, <2>5, <2>6, AwaitsInv DEF QueryOK
  <1> QED
    BY <1>3, <1>7, <1>8, <1>9, StopsInv, ScanEndsInv

----------------------------------------------------------------------------
(* The person: a new query.                                                  *)

(* Between two queries nothing is read.                                      *)
LEMMA Idle ==
    ASSUME IInv, owner = "nobody"
    PROVE  /\ step = "idle" /\ kind = "none"
           /\ \A i \in Inputs : result[i] = "none"
           /\ \A k \in Keys : ledger[k] = 0
  BY DEF IInv, QueryOK, StepsOf, PagesLeft, InBatch

LEMMA BeginsInv ==
    ASSUME IInv, NEW o, NEW k, NEW s, NEW said, Begins(o, k, s, said),
           stop' \subseteq {"cancel", "clear"},
           o = "dash" => coin = "dash", o = "external" => coin = "external"
    PROVE  RestOK' /\ PageOK' /\ Buttons'
  <1>1. Nothing \in States
    BY DEF Nothing, States, IInv, RestOK
  <1>2. RestOK'
    BY <1>1 DEF Begins, Withdraws, IInv, RestOK
  <1>3. Clears
    BY DEF Begins, Clears, IInv, RestOK
  <1> QED
    BY <1>2, <1>3, PageCleared

LEMMA RefusedInv == ASSUME IInv, SubmitRefused PROVE IInv'
  <1>1. /\ Begins("nobody", "none", "idle", "error") /\ UNCHANGED <<left, result>>
        /\ stop' \subseteq {"cancel", "clear"}
    BY DEF SubmitRefused, IInv, RestOK
  <1>2. QueryOK'
    BY <1>1 DEF Begins, IInv, QueryOK, ReadingOK, StepsOf, PagesLeft, InBatch, InFlight, Singles
  <1> QED
    BY <1>1, <1>2, BeginsInv DEF IInv

LEMMA SubmitSingleInv == ASSUME IInv, NEW k \in Singles, SubmitSingle(k) PROVE IInv'
  <1> DEFINE s == IF k = "core" THEN "query" ELSE "connect"
  <1>1. /\ Begins("dash", k, s, "progress") /\ stop' = {} /\ left' = Pages /\ UNCHANGED result
        /\ s \in {"query", "connect"} /\ coin = "dash"
    BY DEF SubmitSingle
  <1> HIDE DEF s
  <1>2. owner = "nobody" /\ owner' = "dash" /\ kind' = k /\ step' = s /\ UNCHANGED ledger
    BY <1>1 DEF Begins
  <1>3. QueryOK'
    BY <1>1, <1>2, Idle
    DEF IInv, QueryOK, ReadingOK, StepsOf, PagesLeft, InBatch, InFlight, Singles
  <1>4. RestOK' /\ PageOK' /\ Buttons'
    BY <1>1, BeginsInv
  <1> QED
    BY <1>3, <1>4 DEF IInv

LEMMA SubmitExternalInv == ASSUME IInv, NEW n \in 1 .. Pages, SubmitExternal(n) PROVE IInv'
  <1>1. /\ Begins("external", "external", "query", "progress")
        /\ stop' = {} /\ left' = n /\ UNCHANGED result /\ coin = "external"
    BY DEF SubmitExternal
  <1>2. owner = "nobody" /\ owner' = "external" /\ kind' = "external" /\ step' = "query"
        /\ UNCHANGED ledger
    BY <1>1 DEF Begins
  <1>3. QueryOK'
    BY <1>1, <1>2, Idle
    DEF IInv, QueryOK, ReadingOK, StepsOf, PagesLeft, InBatch, InFlight, Singles
  <1>4. RestOK' /\ PageOK' /\ Buttons'
    BY <1>1, BeginsInv
  <1> QED
    BY <1>3, <1>4 DEF IInv

(* The workers of a batch that has inputs for them begin with one at least.  *)
LEMMA FirstTurn ==
    ASSUME NEW r \in [Inputs -> Results], Asked(r) = {}, Queued(r) # {}
    PROVE  TurnOf(r, Taken(r, FALSE)) /\ Asked(Taken(r, FALSE)) # {}
  <1> DEFINE t == Taken(r, FALSE)
  <1>1. Cardinality(Asked(r)) <= Concurrency
    BY FS_EmptySet
  <1>2. TurnOf(r, t)
    <2>1. FALSE \in BOOLEAN
      OBVIOUS
    <2> QED
      BY <1>1, <2>1, TakenTurn, Zenon
  <1>3. PICK i \in Public : i \in Queued(r)
    BY DEF Queued
  <1>4. t[i] \in {"asked", "none"}
    BY <1>3 DEF Taken, Inputs
  <1> HIDE DEF t
  <1>5. Asked(t) # {}
    <2>1. Asked(t) = {} => Queued(t) = {}
      BY <1>2, Zenon DEF TurnOf
    <2> QED
      BY <1>3, <1>4, <2>1 DEF Asked, Queued
  <1> QED
    BY <1>2, <1>5 DEF t

LEMMA SubmitBatchInv ==
    ASSUME IInv, NEW k \in Batches, NEW refused \in SUBSET Inputs, SubmitBatch(k, refused)
    PROVE  IInv'
  <1> DEFINE r == [i \in Inputs |-> IF i \in refused THEN "failed" ELSE "none"]
             tasks == k = "coreBatch" \/ (k = "mixedBatch" /\ Queued(r) # {})
             connects == k = "dapiBatch" \/ (k = "mixedBatch" /\ Queued(r) \cap Dapi # {})
             s == IF connects THEN "connect" ELSE IF tasks THEN "tasks" ELSE "scanConnect"
             t == Taken(r, FALSE)
  <1>1. /\ Begins("dash", k, s, "progress") /\ stop' = {} /\ left' = 0
        /\ refused \subseteq InputsOf[k] /\ refused # InputsOf[k] /\ coin = "dash"
        /\ k = "coreBatch" => refused = {}
        /\ result' = IF tasks /\ ~connects THEN t ELSE r
    BY DEF SubmitBatch
  <1>2. owner = "nobody" /\ owner' = "dash" /\ kind' = k /\ step' = s /\ UNCHANGED ledger
    BY <1>1 DEF Begins
  <1>3. RestOK' /\ PageOK' /\ Buttons'
    BY <1>1, BeginsInv
  <1>4. k \in {"coreBatch", "dapiBatch", "keyBatch", "mixedBatch"}
    BY BatchKinds
  <1>5. r \in [Inputs -> Results] /\ Asked(r) = {}
    BY DEF Results, Asked, Inputs
  <1>6. /\ \A i \in Keys : r[i] \in {"none", "failed"}
        /\ \A i \in Public : r[i] \in {"none", "failed"}
        /\ k \in {"coreBatch", "dapiBatch"} => \A i \in Keys : r[i] = "none"
        /\ k = "keyBatch" => \A i \in Public : r[i] = "none"
        /\ k = "coreBatch" => Queued(r) # {}
    <2>1. k \in {"coreBatch", "dapiBatch"} => refused \subseteq Public
      BY <1>1, BatchKinds
    <2>2. k = "keyBatch" => refused \subseteq Keys
      BY <1>1, BatchKinds
    <2>3. k = "coreBatch" => Public # {}
      BY <1>1, BatchKinds
    <2> QED
      BY <1>1, <2>1, <2>2, <2>3 DEF Queued, Inputs
  <1>7. tasks /\ ~connects => /\ t \in [Inputs -> Results] /\ Cardinality(Asked(t)) <= Concurrency
                              /\ Asked(t) # {} /\ \A i \in Keys : t[i] = r[i]
    <2>1. tasks => Queued(r) # {}
      BY <1>6
    <2>2. Queued(r) # {} => TurnOf(r, t) /\ Asked(t) # {}
      <3> HIDE DEF r
      <3> QED
        BY <1>5, FirstTurn
    <2> HIDE DEF r, t, tasks, connects
    <2> QED
      BY <2>1, <2>2 DEF TurnOf
  <1>8. \A k2 \in Keys : ledger'[k2] = 0
    BY <1>2, Idle
  <1>9. /\ s \in {"connect", "tasks", "scanConnect"}
        /\ s = "tasks" <=> (tasks /\ ~connects)
        /\ k = "coreBatch" => s = "tasks"
        /\ k = "dapiBatch" => s = "connect"
        /\ k = "keyBatch" => s = "scanConnect"
        /\ k = "mixedBatch" /\ s = "scanConnect" => Queued(r) = {}
    <2> HIDE DEF r
    <2> QED
      BY <1>4
  <1>10. /\ result' \in [Inputs -> Results] /\ Cardinality(Asked(result')) <= Concurrency
         /\ s = "tasks" <=> Asked(result') # {}
         /\ \A i \in Keys : result'[i] = r[i]
         /\ s # "tasks" => result' = r
    <2>1. Cardinality(Asked(r)) <= Concurrency
      BY <1>5, FS_EmptySet
    <2> HIDE DEF r, t, tasks, connects, s
    <2> QED
      BY <1>1, <1>5, <1>7, <1>9, <2>1
  <1>11. k = "mixedBatch" /\ s = "scanConnect" => \A i \in Public : result'[i] = "failed"
    <2> HIDE DEF r, s
    <2> QED
      BY <1>6, <1>9, <1>10 DEF Queued
  <1> HIDE DEF r, t, tasks, connects, s
  <1>12. QueryOK'
    <2>1. ReadingOK' /\ StepsOf' /\ InFlight'
      BY <1>1, <1>2, <1>4, <1>9, <1>10
      DEF ReadingOK, StepsOf, InFlight, IInv, QueryOK, Singles
    <2>2. PagesLeft'
      BY <1>2, <1>4, <1>8, <1>9 DEF PagesLeft, Singles
    <2>3. InBatch'
      BY <1>2, <1>4, <1>6, <1>9, <1>10, <1>11 DEF InBatch
    <2> QED
      BY <2>1, <2>2, <2>3 DEF QueryOK
  <1> QED
    BY <1>3, <1>12 DEF IInv

----------------------------------------------------------------------------
(* The person: everything else.                                              *)

LEMMA ReadingKept ==
    ASSUME IInv, UNCHANGED <<owner, kind, step, reading>>
    PROVE  QueryOK'
  BY DEF reading, IInv, QueryOK, ReadingOK, StepsOf, PagesLeft, InBatch, InFlight

LEMMA PersonInv ==
    ASSUME IInv,
           \/ InitializeViewerRuntime \/ Cancel \/ ResetViewer \/ ClearExternal
           \/ \E c \in {"dash", "external"} : Configure(c)
    PROVE  IInv'
  <1>0. Nothing \in States
    BY DEF Nothing, States, IInv, RestOK
  <1>1. CASE InitializeViewerRuntime
    <2>1. Keeps
      BY <1>1 DEF InitializeViewerRuntime, Keeps
    <2> QED
      BY <1>1, <2>1, ReadingKept, PageKept DEF InitializeViewerRuntime, exports, IInv, RestOK
  <1>2. CASE Cancel
    <2>1. PageOK'
      BY <1>2 DEF Cancel, session, IInv, PageOK, OfferIsShown, BatchIsComplete
    <2>2. Buttons'
      <3>1. owner # "nobody" /\ owner' = owner
        BY <1>2 DEF Cancel
      <3>2. ~(shown # 0 /\ batch.items # {})
        BY <3>1 DEF IInv, Buttons
      <3> QED
        BY <1>2, <3>1, <3>2 DEF Cancel, session, IInv, Buttons
    <2>3. RestOK'
      BY <1>2 DEF Cancel, exports, IInv, RestOK
    <2> QED
      BY <1>2, <2>1, <2>2, <2>3, ReadingKept DEF Cancel, IInv
  <1>3. CASE ResetViewer \/ ClearExternal
    <2>1. ClearKeeps /\ Withdraws /\ shown' = 0 /\ batch' \in {batch, NoBatch}
          /\ stop' \in {stop, stop \cup {"clear"}}
      BY <1>3 DEF ResetViewer, ClearExternal
    <2>2. RestOK'
      BY <1>0, <2>1 DEF ClearKeeps, Withdraws, IInv, RestOK
    <2>3. owner = "dash" => batch' = NoBatch
      BY <2>1 DEF IInv, Buttons
    <2>4. Clears
      BY <2>1, <2>3 DEF ClearKeeps, Clears, IInv, Buttons
    <2> QED
      BY <2>1, <2>2, <2>4, ReadingKept, PageCleared DEF ClearKeeps, IInv
  <1>4. ASSUME NEW c \in {"dash", "external"}, Configure(c) PROVE IInv'
    <2>1. RestOK'
      BY <1>0, <1>4 DEF Configure, Withdraws, IInv, RestOK
    <2>2. Clears
      BY <1>4 DEF Configure, Clears, IInv, Buttons
    <2> QED
      BY <1>4, <2>1, <2>2, ReadingKept, PageCleared DEF Configure, IInv
  <1> QED
    BY <1>1, <1>2, <1>3, <1>4

(* A result of the batch on the page is drawn, and what is on offer stays.   *)
LEMMA SelectionInv == ASSUME IInv, RenderBatchSelection PROVE IInv'
  <1>1. /\ shown # 0 /\ batch.items # {} /\ shown' = batch.query
        /\ UNCHANGED <<ready, coin, owner, kind, query, step, reading, stop, session, exports,
                       batch>>
    BY DEF RenderBatchSelection
  <1>2. batch.query \in 1 .. query /\ query \in 0 .. MaxQueries
    BY <1>1 DEF IInv, Buttons, RestOK
  <1>3. RestOK'
    BY <1>1 DEF exports, IInv, RestOK
  <1>4. OfferIsShown'
    <2>1. offer # Nothing => coin = "external" \/ batch.query = query
      BY <1>1 DEF IInv, Buttons, RestOK
    <2> QED
      BY <1>1, <1>2, <2>1 DEF session, IInv, PageOK, OfferIsShown
  <1>5. PageOK'
    BY <1>1, <1>2, <1>4 DEF session, IInv, PageOK, BatchIsComplete
  <1>6. Buttons'
    BY <1>1 DEF session, IInv, Buttons, cancelled
  <1> QED
    BY <1>1, <1>3, <1>5, <1>6, ReadingKept DEF IInv

LEMMA ExportInv ==
    ASSUME IInv, ExportText \/ ExportBegins \/ \E j \in jobs : ExportEnds(j)
    PROVE  IInv'
  <1>1. ExportKeeps
    BY DEF ExportText, ExportBegins, ExportEnds
  <1>2. QueryOK'
    BY <1>1, ReadingKept DEF ExportKeeps
  <1>3. pending' \in 0 .. MaxExports /\ (pending' # 0 => offer # Nothing)
    BY DEF ExportText, ExportBegins, ExportEnds, IInv, PageOK, RestOK, OfferIsShown
  <1>4. PageOK' /\ Buttons'
    <2>1. PageOK'
      BY <1>1, <1>3 DEF ExportKeeps, IInv, PageOK, OfferIsShown, BatchIsComplete
    <2>2. Buttons'
      BY <1>1 DEF ExportKeeps, IInv, Buttons, cancelled
    <2> QED
      BY <2>1, <2>2
  <1>5. RestOK'
    <2>1. CASE ExportText
      BY <1>1, <2>1 DEF ExportText, ExportKeeps, IInv, RestOK, PageOK
    <2>2. CASE ExportBegins
      <3>1. tickets' \in 1 .. MaxExports /\ offer \in States
        BY <2>2 DEF ExportBegins, IInv, RestOK, PageOK
      <3>2. jobs' \subseteq [state : States, ticket : 1 .. MaxExports]
        BY <2>2, <3>1 DEF ExportBegins, IInv, RestOK
      <3> QED
        BY <1>1, <2>2, <3>1, <3>2 DEF ExportBegins, ExportKeeps, IInv, RestOK
    <2>3. ASSUME NEW j \in jobs, ExportEnds(j) PROVE RestOK'
      <3>1. j.state \in States
        BY DEF IInv, RestOK
      <3> QED
        BY <1>1, <2>3, <3>1 DEF ExportEnds, ExportKeeps, IInv, RestOK
    <2> QED
      BY <2>1, <2>2, <2>3
  <1> QED
    BY <1>2, <1>4, <1>5 DEF IInv

----------------------------------------------------------------------------

LEMMA InitInv == Init => IInv
  <1> SUFFICES ASSUME Init PROVE IInv
    OBVIOUS
  <1>1. Nothing \in States
    BY DEF Nothing, States
  <1>2. RestOK
    <2>1. ready \in BOOLEAN /\ coin \in {"dash", "external"}
      BY Zenon DEF Init
    <2>2. query = 0 /\ stop = {} /\ saved = Nothing /\ tickets = 0 /\ jobs = {}
      BY Zenon DEF Init
    <2> QED
      BY <1>1, <2>1, <2>2 DEF RestOK
  <1>3. QueryOK
    <2>1. /\ owner = "nobody" /\ kind = "none" /\ step = "idle" /\ left = 0
          /\ result = NoInputs /\ ledger = NoLedgers
      BY Zenon DEF Init
    <2>2. /\ result \in [Inputs -> Results] /\ \A i \in Inputs : result[i] = "none"
          /\ ledger \in [Keys -> 0 .. Pages] /\ \A k \in Keys : ledger[k] = 0
      BY <2>1 DEF NoInputs, NoLedgers, Results
    <2>3. Asked(result) = {} /\ Cardinality(Asked(result)) <= Concurrency
      <3>1. \A i \in Public : result[i] # "asked"
        BY <2>2 DEF Inputs
      <3> QED
        BY <3>1, NothingAsked
    <2> QED
      BY <2>1, <2>2, <2>3
      DEF QueryOK, ReadingOK, StepsOf, PagesLeft, InBatch, InFlight, Singles
  <1>4. PageOK
    <2>1. shown = 0 /\ offer = Nothing /\ pending = 0 /\ batch = NoBatch
      BY Zenon DEF Init
    <2> QED
      BY <1>1, <2>1, NoBatchIsWhole DEF PageOK, OfferIsShown, BatchIsComplete, Whole
  <1>5. Buttons
    <2>1. query = 0 /\ owner = "nobody" /\ shown = 0 /\ offer = Nothing /\ batch = NoBatch
      BY Zenon DEF Init
    <2> QED
      BY <2>1 DEF Buttons, NoBatch
  <1> QED
    BY <1>2, <1>3, <1>4, <1>5 DEF IInv

LEMMA NextInv == IInv /\ [Next]_vars => IInv'
  <1> SUFFICES ASSUME IInv, [Next]_vars PROVE IInv'
    OBVIOUS
  <1>1. CASE UNCHANGED vars
    <2>1. Keeps /\ UNCHANGED <<owner, kind, step, reading>>
      BY <1>1 DEF vars, Keeps
    <2>2. RestOK'
      BY <1>1 DEF vars, exports, IInv, RestOK
    <2> QED
      BY <2>1, <2>2, ReadingKept, PageKept DEF IInv
  <1>2. CASE Answers
    BY <1>2, SingleInv, BatchConnectInv, TaskSettlesInv, ScanConnectInv, ScanPageInv, ExternalInv
    DEF Answers
  <1>3. CASE Person
    BY <1>3, RefusedInv, SubmitSingleInv, SubmitBatchInv, SubmitExternalInv, PersonInv,
       SelectionInv, ExportInv
    DEF Person
  <1>4. CASE InitializeViewerRuntime \/ \E j \in jobs : ExportEnds(j)
    BY <1>4, PersonInv, ExportInv
  <1> QED
    BY <1>1, <1>2, <1>3, <1>4 DEF Next

THEOREM ViewerInvariant == Spec => []IInv
  BY InitInv, NextInv, PTL DEF Spec

(* The two controllers agree on the one page they share: what is on offer is *)
(* the last query's and on the page, unless, with another coin selected, a   *)
(* button of an older Dash batch has drawn its own result over it.           *)
THEOREM ViewerConsistent == Spec => []Consistent
  BY ViewerInvariant, ConsistentFollows, PTL

(* A batch that is shown accounts for each of its inputs, and for every page *)
(* of a key that has a result.                                               *)
THEOREM BatchComplete == Spec => []BatchIsComplete
  BY ViewerInvariant, PTL DEF IInv, PageOK

----------------------------------------------------------------------------
(* Cancel and Clear.                                                         *)

Discards == shown' \in {shown, 0} /\ offer' \in {offer, Nothing}

LEMMA StopsDiscards == ASSUME NEW said, Stops(said) PROVE Discards
  BY DEF Stops, session, Discards

LEMMA DrawsDiscards == ASSUME Draws PROVE Discards
  BY DEF Draws, session, Discards

LEMMA GoesOnDiscards ==
    ASSUME cancelled, NEW r, NEW said, TasksGoOn(r, said)
    PROVE  Discards
  <1>1. Draws \/ \E l, t : Publishes(t, l, said)
    BY DEF TasksGoOn
  <1>2. ASSUME NEW l, NEW t, Publishes(t, l, said) PROVE Discards
    BY <1>2, StopsDiscards DEF Publishes
  <1> QED
    BY <1>1, <1>2, DrawsDiscards

LEMMA AnswersDiscard == ASSUME cancelled, Answers PROVE Discards
  <1>1. CASE \E said : Stops(said)
    BY <1>1, StopsDiscards
  <1>2. CASE \E r, said : TasksGoOn(r, said)
    BY <1>2, GoesOnDiscards
  <1>3. CASE SingleConnected \/ SingleProved \/ SingleAnswered \/ SinglePage \/ SingleFails
    BY <1>1, <1>3
    DEF SingleConnected, SingleProved, SingleAnswered, SinglePage, SingleFails
  <1>4. CASE BatchConnected \/ BatchConnectFails \/ \E i \in Public : TaskSettles(i)
    BY <1>1, <1>2, <1>4 DEF BatchConnected, BatchConnectFails, TaskSettles
  <1>5. CASE ScanConnected \/ ScanFails \/ \E F \in SUBSET Keys : ScanPage(F)
    BY <1>1, <1>5 DEF ScanConnected, ScanFails, ScanEnds, ScanPage
  <1>6. CASE ExternalAnswered \/ ExternalFails
    BY <1>1, <1>6 DEF ExternalAnswered, ExternalFails
  <1> QED
    BY <1>3, <1>4, <1>5, <1>6 DEF Answers

LEMMA LateDiscarded == ASSUME IInv, Next, cancelled, query' = query PROVE Discards
  <1>1. query \in Nat
    BY DEF IInv, RestOK
  <1>2. ASSUME NEW o, NEW k, NEW s, NEW said, Begins(o, k, s, said) PROVE FALSE
    BY <1>1, <1>2 DEF Begins
  <1>3. CASE SubmitRefused \/ \E k \in Singles : SubmitSingle(k)
    BY <1>2, <1>3 DEF SubmitRefused, SubmitSingle
  <1>4. CASE \/ \E k \in Batches, F \in SUBSET Inputs : SubmitBatch(k, F)
             \/ \E n \in 1 .. Pages : SubmitExternal(n)
    BY <1>2, <1>4 DEF SubmitBatch, SubmitExternal
  <1>5. CASE InitializeViewerRuntime \/ Cancel
    BY <1>5 DEF InitializeViewerRuntime, Cancel, session, Discards
  <1>6. CASE ResetViewer \/ ClearExternal \/ \E c \in {"dash", "external"} : Configure(c)
    BY <1>6 DEF ResetViewer, ClearExternal, Configure, Withdraws, SetExportState, Discards
  <1>8. CASE RenderBatchSelection
    BY <1>8 DEF RenderBatchSelection, IInv, Buttons
  <1>7. CASE ExportText \/ ExportBegins \/ \E j \in jobs : ExportEnds(j)
    BY <1>7 DEF ExportText, ExportBegins, ExportEnds, ExportKeeps, Discards
  <1> QED
    BY <1>3, <1>4, <1>5, <1>6, <1>7, <1>8, AnswersDiscard DEF Next, Person

(* After Cancel or Clear nothing more is shown or put on offer, until the    *)
(* next query begins.                                                        *)
THEOREM ViewerDiscardsLate == Spec => LateIsDiscarded
  <1>1. IInv /\ [Next]_vars =>
          [cancelled /\ query' = query =>
             shown' \in {shown, 0} /\ offer' \in {offer, Nothing}]_vars
    BY LateDiscarded DEF Discards
  <1> QED
    BY <1>1, ViewerInvariant, PTL DEF Spec, LateIsDiscarded

----------------------------------------------------------------------------
(* Exports.                                                                  *)

LEMMA AnswersSaveNothing == ASSUME Answers PROVE saved' = saved
  <1>1. ASSUME Ends PROVE saved' = saved
    BY <1>1 DEF Ends, exports
  <1>2. ASSUME NEW s, Awaits(s) PROVE saved' = saved
    BY <1>2 DEF Awaits, exports
  <1>3. ASSUME NEW r, NEW l, NEW said, Publishes(r, l, said) PROVE saved' = saved
    BY <1>1, <1>3 DEF Publishes, Published, Stops
  <1>4. ASSUME NEW r, NEW said, TasksGoOn(r, said) PROVE saved' = saved
    BY <1>2, <1>3, <1>4 DEF TasksGoOn
  <1>5. CASE SingleConnected \/ SingleProved \/ SingleAnswered \/ SinglePage \/ SingleFails
    BY <1>1, <1>2, <1>5
    DEF SingleConnected, SingleProved, SingleAnswered, SinglePage, SingleFails, Completes, Stops
  <1>6. CASE BatchConnected \/ BatchConnectFails \/ \E i \in Public : TaskSettles(i)
    BY <1>1, <1>4, <1>6 DEF BatchConnected, BatchConnectFails, TaskSettles, Stops
  <1>7. CASE ScanConnected \/ ScanFails \/ \E F \in SUBSET Keys : ScanPage(F)
    BY <1>1, <1>2, <1>3, <1>7 DEF ScanConnected, ScanFails, ScanEnds, ScanPage, ScanDone, Stops
  <1>8. CASE ExternalAnswered \/ ExternalFails
    BY <1>1, <1>8 DEF ExternalAnswered, ExternalFails, Completes, Stops, exports
  <1> QED
    BY <1>5, <1>6, <1>7, <1>8 DEF Answers

LEMMA SavesTheOffer == ASSUME Next PROVE saved' \in {saved, Nothing} \/ saved' = offer
  <1>1. CASE Answers
    BY <1>1, AnswersSaveNothing
  <1>2. ASSUME NEW o, NEW k, NEW s, NEW said, Begins(o, k, s, said) PROVE saved' = Nothing
    BY <1>2 DEF Begins, Withdraws
  <1>3. CASE \/ SubmitRefused \/ \E k \in Singles : SubmitSingle(k)
             \/ \E k \in Batches, F \in SUBSET Inputs : SubmitBatch(k, F)
             \/ \E n \in 1 .. Pages : SubmitExternal(n)
    BY <1>2, <1>3 DEF SubmitRefused, SubmitSingle, SubmitBatch, SubmitExternal
  <1>4. CASE \/ InitializeViewerRuntime \/ Cancel \/ ResetViewer \/ ClearExternal
             \/ RenderBatchSelection \/ \E c \in {"dash", "external"} : Configure(c)
    BY <1>4 DEF InitializeViewerRuntime, Cancel, ResetViewer, ClearExternal,
                RenderBatchSelection, Configure, Withdraws, exports
  <1>5. CASE ExportText \/ ExportBegins \/ \E j \in jobs : ExportEnds(j)
    BY <1>5 DEF ExportText, ExportBegins, ExportEnds, ExportKeeps, Owns
  <1> QED
    BY <1>1, <1>3, <1>4, <1>5 DEF Next, Person

(* A file is saved only while the results it holds are on offer, however     *)
(* long it was built.                                                        *)
THEOREM ViewerSavesTheOffer == Spec => SavedIsOnOffer
  <1>1. [Next]_vars => [saved' \notin {saved, Nothing} => saved' = offer]_vars
    BY SavesTheOffer DEF vars, session, exports
  <1> QED
    BY <1>1, PTL DEF Spec, SavedIsOnOffer

=============================================================================
