-------------------------- MODULE ScanReads_proofs --------------------------
(***************************************************************************)
(* Proofs about what a scan reads through: RecoveryLimiter, the gate of its  *)
(* requests, for any number of calls, signals and slots, and ShieldedStream, *)
(* the pages of the shielded pool, for any pool, chunk size and bounds.      *)
(***************************************************************************)
EXTENDS RecoveryLimiter, ShieldedStream, FiniteSetTheorems, TLAPS

-----------------------------------------------------------------------------
(* RecoveryLimiter: slots and queue, and the gate it implements.             *)

(* Arrival numbers are handed out in increasing order and never twice. *)
StampsOrdered ==
    /\ \A c \in Queued : waiting[c] < arrivals
    /\ \A c, d \in Queued : c # d => waiting[c] # waiting[d]

LimiterInv == LimiterTypeOK /\ SlotAccounting /\ EveryWaiterQueued /\ NoIdleSlot /\ StampsOrdered

(* The holders are a finite set: they are among the calls of one run. *)
LEMMA HoldersFinite == IsFiniteSet(Holders) /\ Cardinality(Holders) \in Nat
  <1>1. Holders \subseteq Calls
    BY DEF Holders
  <1>2. IsFiniteSet(Holders)
    BY <1>1, LimiterAssumption, FS_Subset DEF LimiterAssumption
  <1> QED
    BY <1>2, FS_CardinalityType

(* No slot is taken and nobody waits when a run opens. *)
LEMMA LimiterInitInv == LimiterInit => LimiterInv
  <1> SUFFICES ASSUME LimiterInit PROVE LimiterInv
    OBVIOUS
  <1> USE DEF LimiterInit
  <1>1. Holders = {}
    BY DEF Holders
  <1>2. Queued = {}
    BY DEF Queued
  <1>3. LimiterTypeOK
    BY <1>2, LimiterAssumption DEF LimiterTypeOK, Queued, Phases, LimiterAssumption
  <1>4. SlotAccounting
    BY <1>1, FS_EmptySet, LimiterAssumption DEF SlotAccounting, LimiterAssumption
  <1>5. EveryWaiterQueued
    BY <1>2 DEF EveryWaiterQueued, LiveWaiters
  <1> QED
    BY <1>2, <1>3, <1>4, <1>5 DEF LimiterInv, NoIdleSlot, StampsOrdered

(* A call that takes a free slot: one holder more, nobody is waiting. *)
LEMMA AcquireSlotInv == ASSUME LimiterInv, NEW c \in Calls, AcquireSlot(c) PROVE LimiterInv'
  <1> USE DEF LimiterInv, AcquireSlot
  <1>1. LimiterTypeOK'
    BY LimiterAssumption DEF LimiterTypeOK, Queued, Phases, LimiterAssumption
  <1>2. SlotAccounting'
    <2>1. Holders' = Holders \cup {c} /\ c \notin Holders
      BY DEF Holders, LimiterTypeOK
    <2>2. Cardinality(Holders') = Cardinality(Holders) + 1
      BY <2>1, HoldersFinite, FS_AddElement
    <2> QED
      BY <2>2, LimiterAssumption, HoldersFinite DEF SlotAccounting, LimiterAssumption
  <1>3. EveryWaiterQueued'
    BY DEF EveryWaiterQueued, LiveWaiters, IsAborted, Queued, LimiterTypeOK
  <1>4. Queued = {}
    BY LimiterAssumption DEF NoIdleSlot, LimiterAssumption, LimiterTypeOK
  <1> QED
    BY <1>1, <1>2, <1>3, <1>4 DEF NoIdleSlot, StampsOrdered, Queued

(* A call that joins the queue: the slots are all taken and stay taken. *)
LEMMA AcquireWaitInv == ASSUME LimiterInv, NEW c \in Calls, AcquireWait(c) PROVE LimiterInv'
  <1> USE DEF LimiterInv, AcquireWait
  <1>1. Queued' = Queued \cup {c} /\ c \notin Queued
    BY DEF Queued, EveryWaiterQueued
  <1>2. LimiterTypeOK'
    BY <1>1 DEF LimiterTypeOK, Queued, Phases
  <1>3. Holders' = Holders
    BY DEF Holders, LimiterTypeOK
  <1>4. SlotAccounting'
    BY <1>3 DEF SlotAccounting
  <1>5. EveryWaiterQueued'
    BY <1>1 DEF EveryWaiterQueued, LiveWaiters, IsAborted, LimiterTypeOK
  <1>6. NoIdleSlot'
    BY LimiterAssumption DEF NoIdleSlot, LimiterTypeOK, LimiterAssumption
  <1>7. \A d \in Queued : waiting'[d] = waiting[d] /\ waiting[d] < arrivals
    BY <1>1 DEF StampsOrdered, Queued
  <1>8. waiting'[c] = arrivals /\ arrivals' = arrivals + 1 /\ arrivals \in Nat
    BY DEF LimiterTypeOK
  <1>9. StampsOrdered'
    BY <1>1, <1>7, <1>8 DEF StampsOrdered, LimiterTypeOK
  <1> QED
    BY <1>2, <1>4, <1>5, <1>6, <1>9

(* The release of a holder: the slot is freed when the queue is empty, and  *)
(* otherwise goes to the head, for no aborted call is ever in the queue.    *)
LEMMA ReleaseInv ==
    ASSUME LimiterInv, NEW c \in Holders, NEW ending \in {"fulfilled", "rejected"},
           Release(c, ending), UNCHANGED <<arrivals, aborted>>
    PROVE  LimiterInv'
  <1> USE DEF LimiterInv
  <1>1. c \in Calls /\ c \notin Queued /\ Cardinality(Holders \ {c}) = active - 1
    <2>1. Cardinality(Holders \ {c}) = Cardinality(Holders) - 1
      BY HoldersFinite, FS_RemoveElement
    <2> QED
      BY <2>1 DEF SlotAccounting, Holders, EveryWaiterQueued
  <1>2. active > 0
    <2>1. Holders # {}
      OBVIOUS
    <2>2. Cardinality(Holders) # 0
      BY <2>1, HoldersFinite, FS_EmptySet
    <2> QED
      BY <2>2, HoldersFinite DEF SlotAccounting
  <1>3. CASE ReleaseIdle(c, ending)
    <2> USE <1>3 DEF ReleaseIdle
    <2>1. Queued = {} /\ Queued' = {}
      BY DEF Queued, Keep, EveryWaiterQueued
    <2>2. LimiterTypeOK'
      BY <1>1, <1>2, <2>1, LimiterAssumption
      DEF LimiterTypeOK, Queued, Keep, Phases, LimiterAssumption
    <2>3. Holders' = Holders \ {c}
      BY <1>1, <2>1 DEF Holders, LimiterTypeOK
    <2>4. SlotAccounting'
      BY <1>1, <1>2, <2>3, LimiterAssumption DEF SlotAccounting, LimiterTypeOK, LimiterAssumption
    <2>5. EveryWaiterQueued'
      BY <1>1, <2>1 DEF EveryWaiterQueued, LiveWaiters, IsAborted, LimiterTypeOK
    <2> QED
      BY <2>1, <2>2, <2>4, <2>5 DEF NoIdleSlot, StampsOrdered
  <1>4. ASSUME NEW next \in Queued, ReleaseTo(c, ending, next) PROVE LimiterInv'
    <2> USE <1>4 DEF ReleaseTo
    <2>1. {d \in Queued : waiting[d] < waiting[next]} = {}
      BY DEF EveryWaiterQueued, LimiterTypeOK
    <2>2. Queued' = Queued \ {next} /\ \A d \in Queued' : waiting'[d] = waiting[d]
      BY <2>1 DEF Queued, Keep
    <2>3. next \in Calls /\ next # c /\ phase[next] = "waiting" /\ next \notin Holders
      BY <1>1 DEF EveryWaiterQueued, Holders
    <2>4. phase' = [d \in Calls |-> IF d = c THEN ending ELSE
                                   IF d = next THEN "granted" ELSE phase[d]]
      BY <2>1
    <2>5. LimiterTypeOK'
      BY <2>2, <2>4 DEF LimiterTypeOK, Queued, Keep, Phases
    <2>6. Holders' = (Holders \ {c}) \cup {next}
      BY <2>3, <2>4, <1>1 DEF Holders, LimiterTypeOK
    <2>7. Cardinality(Holders') = active
      <3>1. IsFiniteSet(Holders \ {c}) /\ next \notin Holders \ {c}
        BY <2>3, HoldersFinite, FS_RemoveElement
      <3>2. Cardinality(Holders') = Cardinality(Holders \ {c}) + 1
        BY <3>1, <2>6, FS_AddElement
      <3> QED
        BY <3>2, <1>1 DEF LimiterTypeOK
    <2>8. SlotAccounting'
      BY <2>7 DEF SlotAccounting
    <2>9. EveryWaiterQueued'
      BY <2>2, <2>3, <2>4, <1>1 DEF EveryWaiterQueued, LiveWaiters, IsAborted, LimiterTypeOK
    <2>10. NoIdleSlot'
      BY <2>2 DEF NoIdleSlot
    <2>11. StampsOrdered'
      BY <2>2 DEF StampsOrdered
    <2> QED
      BY <2>5, <2>8, <2>9, <2>10, <2>11
  <1> QED
    BY <1>3, <1>4 DEF Release

(* The abort event takes every waiter of the signal out of the queue. *)
LEMMA AbortInv == ASSUME LimiterInv, NEW s \in Signals, Abort(s) PROVE LimiterInv'
  <1> USE DEF LimiterInv, Abort
  <1>1. Queued' = Queued \ Listeners(s) /\ \A d \in Queued' : waiting'[d] = waiting[d]
    BY DEF Queued, Keep
  <1>2. LimiterTypeOK'
    BY <1>1 DEF LimiterTypeOK, Queued, Keep, Phases
  <1>3. Holders' = Holders
    BY DEF Holders, Listeners, LimiterTypeOK
  <1>4. SlotAccounting'
    BY <1>3 DEF SlotAccounting
  <1>5. EveryWaiterQueued'
    BY <1>1 DEF EveryWaiterQueued, LiveWaiters, IsAborted, Listeners, LimiterTypeOK
  <1>6. NoIdleSlot'
    BY <1>1 DEF NoIdleSlot
  <1>7. StampsOrdered'
    BY <1>1 DEF StampsOrdered
  <1> QED
    BY <1>2, <1>4, <1>5, <1>6, <1>7

LEMMA LimiterNextInv == LimiterInv /\ [LimiterNext]_limiterVars => LimiterInv'
  <1> SUFFICES ASSUME LimiterInv, [LimiterNext]_limiterVars PROVE LimiterInv'
    OBVIOUS
  <1>1. CASE UNCHANGED limiterVars
    BY <1>1 DEF limiterVars, LimiterInv, LimiterTypeOK, SlotAccounting, EveryWaiterQueued, NoIdleSlot,
                StampsOrdered, Queued, Holders, LiveWaiters, IsAborted
  <1>2. ASSUME NEW c \in Calls, AcquireCancelled(c) PROVE LimiterInv'
    <2>1. Holders' = Holders /\ Queued' = Queued
      BY <1>2 DEF AcquireCancelled, Holders, Queued, LimiterInv, LimiterTypeOK
    <2> QED
      BY <1>2, <2>1 DEF AcquireCancelled, LimiterInv, LimiterTypeOK, SlotAccounting, EveryWaiterQueued,
                        NoIdleSlot, StampsOrdered, LiveWaiters, IsAborted, Phases
  <1>3. ASSUME NEW c \in Calls, AcquireSlot(c) PROVE LimiterInv'
    BY <1>3, AcquireSlotInv
  <1>4. ASSUME NEW c \in Calls, AcquireWait(c) PROVE LimiterInv'
    BY <1>4, AcquireWaitInv
  <1>5. ASSUME NEW c \in Calls, Start(c) PROVE LimiterInv'
    <2>1. Holders' = Holders /\ Queued' = Queued
      BY <1>5 DEF Start, Holders, Queued, LimiterInv, LimiterTypeOK
    <2> QED
      BY <1>5, <2>1 DEF Start, LimiterInv, LimiterTypeOK, SlotAccounting, EveryWaiterQueued,
                        NoIdleSlot, StampsOrdered, LiveWaiters, IsAborted, Phases
  <1>6. ASSUME NEW c \in Calls, StartCancelled(c) PROVE LimiterInv'
    BY <1>6, ReleaseInv DEF StartCancelled, Holders
  <1>7. ASSUME NEW c \in Calls, Finish(c) PROVE LimiterInv'
    BY <1>7, ReleaseInv DEF Finish, Holders
  <1>8. ASSUME NEW s \in Signals, Abort(s) PROVE LimiterInv'
    BY <1>8, AbortInv
  <1> QED
    BY <1>1, <1>2, <1>3, <1>4, <1>5, <1>6, <1>7, <1>8 DEF LimiterNext, CallStep

(* The semaphore's bookkeeping, for every number of calls and every limit.  *)
THEOREM LimiterInvariant == LimiterSpec => []LimiterInv
  BY LimiterInitInv, LimiterNextInv, PTL DEF LimiterSpec

(* Every variable of the semaphore keeps its type. *)
THEOREM LimiterTypes == LimiterSpec => []LimiterTypeOK
  BY LimiterInvariant, PTL DEF LimiterInv

(* #active counts the slots in use and never exceeds #limit. *)
THEOREM LimiterSlots == LimiterSpec => []SlotAccounting
  BY LimiterInvariant, PTL DEF LimiterInv

(* The queue holds the unsettled waiters and no cancelled one. *)
THEOREM LimiterQueue == LimiterSpec => []EveryWaiterQueued
  BY LimiterInvariant, PTL DEF LimiterInv

(* No call waits while a slot is free. *)
THEOREM LimiterNoIdleSlot == LimiterSpec => []NoIdleSlot
  BY LimiterInvariant, PTL DEF LimiterInv

-----------------------------------------------------------------------------
(* The release of a holder is the departure FifoGate allows. *)
LEMMA ReleaseRefines ==
    ASSUME LimiterInv, NEW c \in Holders, NEW ending \in {"fulfilled", "rejected"},
           Release(c, ending)
    PROVE  Gate!Next
  <1> USE DEF LimiterInv
  <1>1. c \in Calls /\ c \notin Queued
    BY DEF Holders, EveryWaiterQueued
  <1>2. CASE ReleaseIdle(c, ending)
    <2>1. Queued = {} /\ waiting' = waiting
      BY <1>2 DEF ReleaseIdle, Keep, EveryWaiterQueued, LimiterTypeOK
    <2>2. Holders' = Holders \ {c} /\ Settled' = Settled \cup {c}
      BY <1>1, <1>2, <2>1 DEF ReleaseIdle, Holders, Settled, LimiterTypeOK
    <2>3. Gate!LeaveEmpty(c)
      BY <2>1, <2>2 DEF Gate!LeaveEmpty, Queued
    <2> QED
      BY <1>1, <2>3 DEF Gate!Next
  <1>3. ASSUME NEW next \in Queued, ReleaseTo(c, ending, next) PROVE Gate!Next
    <2> USE <1>3 DEF ReleaseTo
    <2>1. {d \in Queued : waiting[d] < waiting[next]} = {}
      BY DEF EveryWaiterQueued, LimiterTypeOK
    <2>2. waiting' = [d \in Queued \ {next} |-> waiting[d]]
      BY <2>1 DEF Keep
    <2>3. Gate!Longest(next)
      BY DEF Gate!Longest, Queued, EveryWaiterQueued
    <2>4. phase' = [d \in Calls |-> IF d = c THEN ending ELSE
                                   IF d = next THEN "granted" ELSE phase[d]]
      BY <2>1
    <2>5. next \in Calls /\ next # c /\ phase[next] = "waiting"
      BY <1>1 DEF EveryWaiterQueued, Holders
    <2>6. Holders' = (Holders \ {c}) \cup {next} /\ Settled' = Settled \cup {c}
      BY <1>1, <2>4, <2>5 DEF Holders, Settled, LimiterTypeOK
    <2>7. Gate!LeaveTo(c, next)
      BY <2>2, <2>3, <2>6 DEF Gate!LeaveTo, Queued
    <2> QED
      BY <1>1, <2>5, <2>7 DEF Gate!Next
  <1> QED
    BY <1>2, <1>3 DEF Release

(* The gate counts with the same operator. *)
LEMMA GateCounts == Gate!Cardinality(Holders) = Cardinality(Holders)
  BY Zenon DEF Gate!Cardinality, Cardinality

LEMMA LimiterStepRefines == LimiterInv /\ [LimiterNext]_limiterVars => [Gate!Next]_(Gate!gateVars)
  <1> SUFFICES ASSUME LimiterInv, [LimiterNext]_limiterVars PROVE [Gate!Next]_(Gate!gateVars)
    OBVIOUS
  <1> USE DEF LimiterInv
  <1>1. CASE UNCHANGED limiterVars
    BY <1>1 DEF limiterVars, Gate!gateVars, Holders, Settled
  <1>2. ASSUME NEW c \in Calls, AcquireCancelled(c) PROVE Gate!Decline(c)
    <2>1. c \in Gate!Outside
      BY <1>2 DEF AcquireCancelled, Gate!Outside, Holders, Settled, Queued, EveryWaiterQueued
    <2>2. Holders' = Holders /\ Settled' = Settled \cup {c}
      BY <1>2 DEF AcquireCancelled, Holders, Settled, LimiterTypeOK
    <2> QED
      BY <1>2, <2>1, <2>2 DEF AcquireCancelled, Gate!Decline
  <1>3. ASSUME NEW c \in Calls, AcquireSlot(c) PROVE Gate!Admit(c)
    <2>1. c \in Gate!Outside
      BY <1>3 DEF AcquireSlot, Gate!Outside, Holders, Settled, Queued, EveryWaiterQueued
    <2>2. Holders' = Holders \cup {c} /\ Settled' = Settled
      BY <1>3 DEF AcquireSlot, Holders, Settled, LimiterTypeOK
    <2>3. Cardinality(Holders) < Limit /\ Queued = {}
      BY <1>3, LimiterAssumption
      DEF AcquireSlot, SlotAccounting, NoIdleSlot, LimiterTypeOK, LimiterAssumption
    <2> QED
      BY <1>3, <2>1, <2>2, <2>3, GateCounts DEF AcquireSlot, Gate!Admit, Queued
  <1>4. ASSUME NEW c \in Calls, AcquireWait(c) PROVE Gate!Queue(c)
    <2>1. c \in Gate!Outside /\ c \notin Queued
      BY <1>4 DEF AcquireWait, Gate!Outside, Holders, Settled, Queued, EveryWaiterQueued
    <2>2. Holders' = Holders /\ Settled' = Settled
      BY <1>4 DEF AcquireWait, Holders, Settled, LimiterTypeOK
    <2>3. Cardinality(Holders) = Limit
      BY <1>4, LimiterAssumption DEF AcquireWait, SlotAccounting, LimiterTypeOK, LimiterAssumption
    <2>4. \A d \in Queued : waiting'[d] = waiting[d] /\ waiting[d] < waiting'[c]
      BY <1>4, <2>1 DEF AcquireWait, StampsOrdered
    <2> QED
      BY <1>4, <2>1, <2>2, <2>3, <2>4, GateCounts DEF AcquireWait, Gate!Queue, Queued
  <1>5. ASSUME NEW c \in Calls, Start(c) PROVE UNCHANGED Gate!gateVars
    BY <1>5 DEF Start, Gate!gateVars, Holders, Settled, LimiterTypeOK
  <1>6. ASSUME NEW c \in Calls, StartCancelled(c) PROVE Gate!Next
    BY <1>6, ReleaseRefines DEF StartCancelled, Holders
  <1>7. ASSUME NEW c \in Calls, Finish(c) PROVE Gate!Next
    BY <1>7, ReleaseRefines DEF Finish, Holders
  <1>8. ASSUME NEW s \in Signals, Abort(s) PROVE Gate!GiveUp(Listeners(s))
    <2>1. Listeners(s) \subseteq Queued
      BY DEF Listeners, EveryWaiterQueued
    <2>2. Holders' = Holders /\ Settled' = Settled \cup Listeners(s)
      BY <1>8 DEF Abort, Holders, Settled, Listeners, LimiterTypeOK
    <2> QED
      BY <1>8, <2>1, <2>2 DEF Abort, Keep, Queued, Gate!GiveUp
  <1>9. \A s \in Signals : Listeners(s) \in SUBSET Calls
    BY DEF Listeners
  <1> QED
    BY <1>1, <1>2, <1>3, <1>4, <1>5, <1>6, <1>7, <1>8, <1>9 DEF LimiterNext, CallStep, Gate!Next

(* The limiter implements the first-come-first-served gate: its counter,    *)
(* its hand-over and its abort listeners are never visible in who is in.    *)
THEOREM LimiterImplementsGate == LimiterSpec => ImplementsGate
  <1>1. LimiterInit => Gate!Init
    BY DEF LimiterInit, Gate!Init, Holders, Settled
  <1> QED
    BY <1>1, LimiterInitInv, LimiterNextInv, LimiterStepRefines, PTL DEF LimiterSpec, ImplementsGate, Gate!Spec

-----------------------------------------------------------------------------
(* ShieldedStream: a complete scan is the pool of one height.                *)

(* The pool only grows. *)
PoolGrows == \A r, s \in 0 .. tip : r <= s => size[r] <= size[s]

(* What has been applied: whole chunks up to the cursor, or, when the last  *)
(* chunk was short, the whole pool at the height of that chunk.             *)
ReadSoFar ==
    /\ partialRevision = -1 => scannedNotes = position
    /\ partialRevision # -1 =>
         /\ partialRevision <= highestRevision
         /\ scannedNotes = size[partialRevision]
         /\ partialPosition \in Nat
         /\ partialPosition < scannedNotes
         /\ scannedNotes < partialPosition + PageSize
         /\ position \in {partialPosition, partialPosition + PageSize}
    /\ highestRevision >= 0 => scannedNotes <= size[highestRevision]
    /\ highestRevision < 0 => scannedNotes = 0

(* A first empty page says that the pool ends here, unless the one mistaken *)
(* answer has been given.                                                   *)
EmptySoFar ==
    outcome = "running" =>
      /\ consecutiveEmpty \in {0, 1}
      /\ consecutiveEmpty = 1 =>
           /\ terminalRevision = highestRevision /\ highestRevision >= 0
           /\ size[highestRevision] <= position \/ glitched = 1

(* A scan cannot be complete before it read a page. *)
CompleteHasRead == outcome = "complete" => highestRevision # -1

IInv ==
    /\ TypeOK /\ LedgerIsPrefix /\ PoolGrows /\ ReadSoFar /\ EmptySoFar /\ CompleteIsSnapshot
    /\ CompleteHasRead

USE StreamAssumption DEF StreamAssumption

LEMMA InitInv == Init => IInv
  <1> SUFFICES ASSUME Init PROVE IInv
    OBVIOUS
  <1> USE DEF Init, Positions
  <1>1. TypeOK
    <2>1. /\ tip \in 0 .. MaxTip /\ size \in [0 .. tip -> 0 .. MaxSize]
          /\ glitched \in 0 .. Glitches /\ requests \in Nat
      OBVIOUS
    <2>2. position \in Nat /\ pageCount \in 0 .. MaximumPages /\ pageCount < MaximumPages
      OBVIOUS
    <2>3. /\ reconciliations \in 0 .. MaximumReconciliations /\ reconciliations < MaximumReconciliations
          /\ scannedNotes \in 0 .. MaxSize
      OBVIOUS
    <2>4. /\ consecutiveEmpty \in 0 .. EmptyConfirmations
          /\ partialPosition \in Nat \cup {-1} /\ partialRevision \in -1 .. tip
          /\ terminalRevision \in -1 .. tip /\ highestRevision \in -1 .. tip
      BY DEF EmptyConfirmations
    <2>5. records \subseteq Positions /\ spent \subseteq Positions /\ cancelled \in BOOLEAN
      OBVIOUS
    <2>6. outcome \in Outcomes
      BY DEF Outcomes
    <2> HIDE DEF Init
    <2> QED
      BY <2>1, <2>2, <2>3, <2>4, <2>5, <2>6 DEF TypeOK
  <1>2. LedgerIsPrefix
    <2>1. \A i \in Positions : ~(i < 0)
      OBVIOUS
    <2> QED
      BY <2>1 DEF LedgerIsPrefix
  <1>3. PoolGrows /\ ReadSoFar /\ EmptySoFar /\ CompleteIsSnapshot /\ CompleteHasRead
    BY DEF PoolGrows, ReadSoFar, EmptySoFar, CompleteHasRead, CompleteIsSnapshot
  <1> QED
    BY <1>1, <1>2, <1>3 DEF IInv

(* A block that adds notes leaves what was read of earlier heights alone. *)
LEMMA GrowInv == ASSUME IInv, NEW n \in 0 .. MaxSize, Grow(n) PROVE IInv'
  <1> USE DEF IInv, Grow
  <1>1. /\ tip \in Nat /\ tip' = tip + 1 /\ tip' \in 0 .. MaxTip
        /\ \A r \in 0 .. tip : size'[r] = size[r]
        /\ size'[tip'] = n /\ n >= size[tip] /\ size' \in [0 .. tip' -> 0 .. MaxSize]
    BY DEF TypeOK
  <1>2. UNCHANGED <<scan, glitched, requests, cancelled, outcome>>
    OBVIOUS
  <1>3. TypeOK'
    BY <1>1, <1>2 DEF TypeOK, scan, cursor, lastPartial, ledger
  <1>4. PoolGrows'
    BY <1>1 DEF PoolGrows, TypeOK
  <1>5. ReadSoFar'
    BY <1>1, <1>2 DEF ReadSoFar, TypeOK, scan, cursor, lastPartial, ledger
  <1>6. EmptySoFar' /\ CompleteIsSnapshot' /\ CompleteHasRead'
    BY <1>1, <1>2 DEF EmptySoFar, CompleteHasRead, CompleteIsSnapshot, TypeOK, scan, cursor, lastPartial, ledger
  <1>7. LedgerIsPrefix'
    BY <1>2 DEF LedgerIsPrefix, scan, ledger
  <1> QED
    BY <1>3, <1>4, <1>5, <1>6, <1>7

(* The count a node serves is the true one, or zero by mistake. *)
LEMMA ServedCount ==
    ASSUME TypeOK, NEW r \in 0 .. tip, NEW noteCount \in 0 .. PageSize, Served(r, noteCount)
    PROVE  /\ noteCount > 0 => position + noteCount <= size[r]
           /\ noteCount > 0 /\ noteCount < PageSize => position + noteCount = size[r]
           /\ noteCount = 0 => \/ size[r] <= position /\ glitched' = glitched
                               \/ glitched = 0 /\ glitched' = 1
           /\ glitched' \in 0 .. Glitches
           /\ requests' = requests + 1
  <1>1. /\ r \in Nat /\ size[r] \in Nat /\ position \in Nat /\ noteCount \in Nat
        /\ PageSize \in Nat /\ glitched \in Int /\ 0 <= glitched /\ glitched <= Glitches
        /\ Glitches \in Int
    BY DEF TypeOK
  <1>2. CASE noteCount = TrueCount(r) /\ glitched' = glitched
    BY <1>1, <1>2 DEF TrueCount, Smaller, Served
  <1>3. CASE noteCount = 0 /\ glitched < Glitches /\ glitched' = glitched + 1
    BY <1>1, <1>3 DEF Served
  <1> QED
    BY <1>2, <1>3 DEF Served

(* The page that is applied starts where the ledger ends or inside it. *)
LEMMA ApplyNotesInv ==
    ASSUME IInv, NEW r \in 0 .. tip, NEW noteCount \in 0 .. PageSize, ApplyNotes(r, noteCount)
    PROVE  IInv'
  <1> DEFINE end == position + noteCount
  <1> USE DEF IInv
  <1>1. /\ position \in Nat /\ noteCount \in Nat /\ r \in Nat /\ tip \in Nat
        /\ size \in [0 .. tip -> 0 .. MaxSize] /\ scannedNotes \in Nat
        /\ partialRevision \in -1 .. tip /\ r >= highestRevision /\ highestRevision \in -1 .. tip
    BY DEF TypeOK, ApplyNotes
  <1>2. noteCount > 0 /\ end <= size[r] /\ end <= MaxSize /\ (noteCount < PageSize => end = size[r])
    BY <1>1, ServedCount DEF ApplyNotes
  <1>3. position <= scannedNotes /\ scannedNotes <= end
    <2>1. CASE partialRevision = -1
      BY <1>1, <1>2, <2>1 DEF ReadSoFar
    <2>2. CASE partialRevision # -1
      <3>1. size[partialRevision] <= size[r]
        BY <2>2, <1>1 DEF ReadSoFar, PoolGrows
      <3>2. partialPosition \in Nat
        BY <2>2 DEF ReadSoFar
      <3>3. ASSUME position # partialPosition PROVE FALSE
        <4>1. partialRevision = r
          BY <2>2, <3>3 DEF NeedsRefresh, ApplyNotes
        <4>2. position = partialPosition + PageSize /\ size[r] < position
          BY <4>1, <2>2, <3>3 DEF ReadSoFar
        <4> QED
          BY <4>2, <1>1, <1>2
      <3> QED
        BY <1>1, <1>2, <2>2, <3>1, <3>2, <3>3 DEF ReadSoFar
    <2> QED
      BY <2>1, <2>2
  <1>4. scannedNotes' = end
    BY <1>1, <1>2, <1>3 DEF ApplyNotes, ApplyPage
  <1>5. records' = {i \in Mine : i < end}
    <2>1. \A i : i \in records' <=> i \in records \/ (i \in Mine /\ i \in Page(noteCount))
      BY DEF ApplyNotes, ApplyPage
    <2>2. \A i : i \in records <=> i \in Mine /\ i < scannedNotes
      BY DEF LedgerIsPrefix
    <2>3. \A i \in Mine : i \in Nat
      BY DEF Positions
    <2>4. \A i \in Mine : i \in records' <=> i < end
      BY <1>1, <1>2, <1>3, <2>1, <2>2, <2>3 DEF Page
    <2> QED
      BY <2>1, <2>2, <2>4
  <1>6. spent' = {i \in Mine : \E j \in Positions : j < end /\ Spends[j] = i}
    <2>1. \A i : i \in spent' <=>
                   i \in spent \/ (i \in records' /\ \E j \in Page(noteCount) : Spends[j] = i)
      BY DEF ApplyNotes, ApplyPage
    <2>2. \A i : i \in spent <=>
                   i \in Mine /\ \E j \in Positions : j < scannedNotes /\ Spends[j] = i
      BY DEF LedgerIsPrefix
    <2>3. \A j \in Positions : j \in Nat /\ Spends[j] < j /\ Spends[j] \in Int
      BY DEF Positions
    <2>4. \A j \in Page(noteCount) : j \in Positions /\ j < end
      BY <1>1, <1>2 DEF Positions, Page
    <2>5. \A j \in Positions : j < end => j < scannedNotes \/ j \in Page(noteCount)
      BY <1>1, <1>2, <1>3, <2>3 DEF Page
    <2>6. ASSUME NEW i \in spent' PROVE i \in Mine /\ \E j \in Positions : j < end /\ Spends[j] = i
      <3>1. CASE i \in spent
        <4>1. PICK j \in Positions : j < scannedNotes /\ Spends[j] = i
          BY <3>1, <2>2
        <4>2. j < end
          BY <4>1, <1>1, <1>3, <2>3
        <4> QED
          BY <3>1, <4>1, <4>2, <2>2
      <3>2. CASE i \in records' /\ \E j \in Page(noteCount) : Spends[j] = i
        BY <3>2, <2>4, <1>5
      <3> QED
        BY <2>6, <2>1, <3>1, <3>2
    <2>7. ASSUME NEW i \in Mine, NEW j \in Positions, j < end, Spends[j] = i PROVE i \in spent'
      <3>1. CASE j < scannedNotes
        BY <3>1, <2>7, <2>1, <2>2
      <3>2. CASE j \in Page(noteCount)
        <4>1. i < end
          BY <2>7, <2>3, <1>1
        <4> QED
          BY <4>1, <3>2, <2>7, <2>1, <1>5
      <3> QED
        BY <2>7, <2>5, <3>1, <3>2
    <2> QED
      BY <2>6, <2>7
  <1> USE DEF ApplyNotes
  <1>7. TypeOK'
    <2>1. /\ position' \in Nat /\ pageCount' \in 0 .. MaximumPages
          /\ (outcome' = "running" => pageCount' < MaximumPages)
      BY <1>1 DEF TypeOK, Turn
    <2>2. records' \subseteq Positions /\ spent' \subseteq Positions /\ scannedNotes' \in 0 .. MaxSize
      BY <1>1, <1>2, <1>4, <1>5, <1>6
    <2>3. partialPosition' \in Nat \cup {-1} /\ partialRevision' \in -1 .. tip'
      BY <1>1
    <2>4. glitched' \in 0 .. Glitches /\ requests' = requests + 1 /\ outcome' \in Outcomes
      BY ServedCount DEF Outcomes
    <2>5. reconciliations < MaximumReconciliations
      BY DEF TypeOK, Turn
    <2> QED
      BY <1>1, <2>1, <2>2, <2>3, <2>4, <2>5 DEF TypeOK, EmptyConfirmations
  <1>8. LedgerIsPrefix'
    BY <1>4, <1>5, <1>6 DEF LedgerIsPrefix
  <1>9. ReadSoFar'
    BY <1>1, <1>2, <1>4 DEF ReadSoFar
  <1>10. PoolGrows' /\ EmptySoFar' /\ CompleteIsSnapshot' /\ CompleteHasRead'
    BY <1>1 DEF PoolGrows, EmptySoFar, CompleteHasRead, CompleteIsSnapshot
  <1> QED
    BY <1>7, <1>8, <1>9, <1>10

(* A page that is put aside for a refresh changes no record. *)
LEMMA RefreshInv ==
    ASSUME IInv, NEW r \in 0 .. tip, NEW noteCount \in 0 .. PageSize, Refresh(r, noteCount)
    PROVE  IInv'
  <1> USE DEF IInv, Refresh
  <1>1. /\ partialRevision # -1 /\ partialPosition \in Nat /\ r \in Nat /\ tip \in Nat
        /\ highestRevision \in -1 .. tip /\ size \in [0 .. tip -> 0 .. MaxSize]
    BY DEF NeedsRefresh, ReadSoFar, TypeOK
  <1>2. TypeOK'
    <2>1. pageCount' \in 0 .. MaximumPages /\ (outcome' = "running" => pageCount' < MaximumPages)
      BY DEF TypeOK, Turn
    <2>2. reconciliations' \in 0 .. MaximumReconciliations
      <3>1. reconciliations < MaximumReconciliations
        BY DEF TypeOK, Turn
      <3> QED
        BY <3>1 DEF TypeOK
    <2>3. glitched' \in 0 .. Glitches /\ requests' = requests + 1 /\ outcome' \in Outcomes
      BY ServedCount DEF Outcomes
    <2>4. outcome' = "running" => reconciliations' < MaximumReconciliations
      BY <2>2
    <2> QED
      BY <1>1, <2>4, <2>1, <2>2, <2>3 DEF TypeOK, EmptyConfirmations, lastPartial, ledger
  <1>3. LedgerIsPrefix' /\ PoolGrows'
    BY DEF LedgerIsPrefix, PoolGrows, ledger
  <1>4. ReadSoFar'
    <2>1. highestRevision >= 0 => size[highestRevision] <= size[r]
      BY <1>1 DEF PoolGrows
    <2> QED
      BY <1>1, <2>1 DEF ReadSoFar, ledger, lastPartial, TypeOK
  <1>5. EmptySoFar' /\ CompleteIsSnapshot' /\ CompleteHasRead'
    BY DEF EmptySoFar, CompleteHasRead, CompleteIsSnapshot
  <1> QED
    BY <1>2, <1>3, <1>4, <1>5

(* Two empty pages at one height end the scan, and one of them was true. *)
LEMMA ConfirmEmptyInv ==
    ASSUME IInv, NEW r \in 0 .. tip, NEW noteCount \in 0 .. PageSize, ConfirmEmpty(r, noteCount)
    PROVE  IInv'
  <1> USE DEF IInv
  <1>1. /\ r \in Nat /\ tip \in Nat /\ highestRevision \in -1 .. tip /\ position \in Nat
        /\ size \in [0 .. tip -> 0 .. MaxSize] /\ scannedNotes \in Nat
        /\ r >= highestRevision /\ outcome = "running" /\ noteCount = 0
    BY DEF TypeOK, ConfirmEmpty, Turn
  <1>2. UNCHANGED <<records, spent, scannedNotes>>
    <2>1. Page(noteCount) = {}
      BY <1>1 DEF Page
    <2> QED
      BY <1>1, <2>1 DEF ConfirmEmpty, ApplyPage
  <1>3. highestRevision >= 0 => size[highestRevision] <= size[r]
    BY <1>1 DEF PoolGrows
  <1>4. size[r] <= position \/ glitched' = 1
    BY <1>1, ServedCount DEF ConfirmEmpty
  <1>5. consecutiveEmpty' \in {1, 2}
    BY <1>1 DEF ConfirmEmpty, EmptySoFar
  <1> USE DEF ConfirmEmpty
  <1>6. TypeOK'
    <2>1. /\ pageCount' \in 0 .. MaximumPages
          /\ (outcome' = "running" => pageCount' < MaximumPages)
      BY DEF TypeOK, Turn
    <2>2. glitched' \in 0 .. Glitches /\ requests' = requests + 1 /\ outcome' \in Outcomes
      BY ServedCount DEF Outcomes
    <2> QED
      BY <1>1, <1>2, <1>5, <2>1, <2>2 DEF TypeOK, EmptyConfirmations, lastPartial
  <1>7. LedgerIsPrefix' /\ PoolGrows'
    BY <1>2 DEF LedgerIsPrefix, PoolGrows
  <1>8. ReadSoFar'
    BY <1>1, <1>2, <1>3 DEF ReadSoFar, lastPartial, TypeOK
  <1>9. EmptySoFar'
    BY <1>1, <1>4, <1>5 DEF EmptySoFar, EmptyConfirmations
  <1>10. CompleteIsSnapshot'
    <2> SUFFICES ASSUME outcome' = "complete" PROVE scannedNotes = size[r]
      BY <1>2 DEF CompleteIsSnapshot
    <2>1. terminalRevision = r /\ consecutiveEmpty = 1
      BY <1>1 DEF EmptySoFar, EmptyConfirmations
    <2>2. size[r] <= position
      BY <1>1, <2>1, ServedCount DEF EmptySoFar
    <2>3. CASE partialRevision = -1
      BY <1>1, <1>3, <2>2, <2>3 DEF ReadSoFar
    <2>4. CASE partialRevision # -1
      <3>1. partialRevision \in 0 .. tip /\ size[partialRevision] <= size[r]
        BY <1>1, <2>4 DEF ReadSoFar, PoolGrows, TypeOK
      <3>2. position # partialPosition
        BY <1>1, <2>2, <2>4, <3>1 DEF ReadSoFar
      <3>3. partialRevision = r
        BY <2>4, <3>2 DEF NeedsRefresh
      <3> QED
        BY <2>4, <3>3 DEF ReadSoFar
    <2> QED
      BY <2>3, <2>4
  <1>11. CompleteHasRead'
    BY <1>1 DEF CompleteHasRead
  <1> QED
    BY <1>6, <1>7, <1>8, <1>9, <1>10, <1>11

(* A scan that fails or stops leaves what it has read. *)
LEMMA StopInv ==
    ASSUME IInv, UNCHANGED <<tip, size, scan>>, outcome' \in {"failed", "cancelled"},
           glitched' \in 0 .. Glitches, requests' \in {requests, requests + 1},
           cancelled' = cancelled
    PROVE  IInv'
  BY DEF IInv, TypeOK, LedgerIsPrefix, PoolGrows, ReadSoFar, EmptySoFar, CompleteHasRead, CompleteIsSnapshot,
         scan, cursor, lastPartial, ledger, Outcomes

LEMMA NextInv == IInv /\ [Next]_vars => IInv'
  <1> SUFFICES ASSUME IInv, [Next]_vars PROVE IInv'
    OBVIOUS
  <1>1. CASE UNCHANGED vars
    BY <1>1 DEF IInv, TypeOK, LedgerIsPrefix, PoolGrows, ReadSoFar, EmptySoFar,
                CompleteIsSnapshot, CompleteHasRead, vars, chain, scan, cursor, lastPartial, ledger
  <1>2. ASSUME NEW n \in 0 .. MaxSize, Grow(n) PROVE IInv'
    BY <1>2, GrowInv
  <1>3. CASE ReadPage
    <2> SUFFICES ASSUME NEW r \in 0 .. tip, NEW noteCount \in 0 .. PageSize,
                        \/ Refused(r, noteCount)
                        \/ Refresh(r, noteCount)
                        \/ ApplyNotes(r, noteCount)
                        \/ ConfirmEmpty(r, noteCount)
                 PROVE  IInv'
      BY <1>3 DEF ReadPage
    <2>1. CASE Refused(r, noteCount)
      <3>1. glitched' \in 0 .. Glitches /\ requests' = requests + 1
        BY <2>1, ServedCount DEF Refused, IInv
      <3> QED
        BY <2>1, <3>1, StopInv DEF Refused
    <2> QED
      BY <2>1, RefreshInv, ApplyNotesInv, ConfirmEmptyInv
  <1>4. CASE FetchFails \/ StopCancelled
    <2>1. glitched' \in 0 .. Glitches /\ requests' \in {requests, requests + 1}
      BY <1>4 DEF FetchFails, StopCancelled, IInv, TypeOK
    <2> QED
      BY <1>4, <2>1, StopInv DEF FetchFails, StopCancelled
  <1>5. CASE Cancel
    BY <1>5 DEF Cancel, IInv, TypeOK, LedgerIsPrefix, PoolGrows, ReadSoFar, EmptySoFar,
                CompleteIsSnapshot, CompleteHasRead, chain, scan, cursor, lastPartial, ledger
  <1> QED
    BY <1>1, <1>2, <1>3, <1>4, <1>5 DEF Next

(* The loop's bookkeeping, for every chunk size, pool and wallet. *)
THEOREM StreamInvariant == Spec => []IInv
  BY InitInv, NextInv, PTL DEF Spec

(* Every variable of the stream keeps its type; the ceilings hold. *)
THEOREM StreamTypes == Spec => []TypeOK
  BY StreamInvariant, PTL DEF IInv

(* No page is ever applied before an earlier one. *)
THEOREM StreamPrefix == Spec => []LedgerIsPrefix
  BY StreamInvariant, PTL DEF IInv

(* A complete scan has read the pool of one height, whole. *)
THEOREM StreamSnapshot == Spec => []CompleteIsSnapshot
  BY StreamInvariant, PTL DEF IInv

-----------------------------------------------------------------------------
(* A running scan has made as many requests as it has counted pages.         *)
RequestsCounted ==
    /\ requests <= MaximumPages
    /\ outcome = "running" => requests = pageCount
    /\ outcome = "limit" => requests = MaximumPages

(* While a short page waits for its successor no higher height has been      *)
(* read, so that each rereading is of a height of its own.                   *)
RereadsCounted ==
    /\ partialRevision # -1 /\ position # partialPosition => highestRevision = partialRevision
    /\ reconciliations = 0 \/ reconciliations <= highestRevision
    /\ outcome = "changing-tip" => reconciliations = MaximumReconciliations

CeilingInv == RequestsCounted /\ RereadsCounted

LEMMA CeilingInit == Init => CeilingInv
  BY DEF Init, CeilingInv, RequestsCounted, RereadsCounted

(* What a page that is taken counts: one request, and at most one rereading. *)
LEMMA TurnCounts ==
    ASSUME IInv, CeilingInv, NEW r \in 0 .. tip, NEW noteCount \in 0 .. PageSize,
           \/ Refresh(r, noteCount) \/ ApplyNotes(r, noteCount) \/ ConfirmEmpty(r, noteCount)
    PROVE  RequestsCounted'
  <1>1. /\ outcome = "running" /\ pageCount \in Nat /\ pageCount < MaximumPages
        /\ requests = pageCount /\ MaximumPages \in Nat
    BY DEF Refresh, ApplyNotes, ConfirmEmpty, Turn, IInv, TypeOK, CeilingInv, RequestsCounted
  <1>2. requests' = requests + 1 /\ pageCount' = pageCount + 1
    BY ServedCount DEF Refresh, ApplyNotes, ConfirmEmpty, IInv
  <1>3. outcome' = "limit" => pageCount' >= MaximumPages
    BY DEF Refresh, ApplyNotes, ConfirmEmpty
  <1> QED
    BY <1>1, <1>2, <1>3 DEF RequestsCounted

LEMMA CeilingStep == IInv /\ CeilingInv /\ [Next]_vars => CeilingInv'
  <1> SUFFICES ASSUME IInv, CeilingInv, [Next]_vars PROVE CeilingInv'
    OBVIOUS
  <1>1. CASE UNCHANGED vars
    BY <1>1 DEF CeilingInv, RequestsCounted, RereadsCounted, vars, chain, scan, cursor, lastPartial
  <1>2. ASSUME NEW n \in 0 .. MaxSize, Grow(n) PROVE CeilingInv'
    BY <1>2 DEF Grow, CeilingInv, RequestsCounted, RereadsCounted, scan, cursor, lastPartial
  <1>3. CASE FetchFails \/ StopCancelled \/ Cancel
    <2>1. RequestsCounted'
      BY <1>3 DEF FetchFails, StopCancelled, Cancel, chain, scan, cursor, CeilingInv,
                  RequestsCounted, IInv, TypeOK
    <2>2. RereadsCounted'
      BY <1>3 DEF FetchFails, StopCancelled, Cancel, chain, scan, cursor, lastPartial, CeilingInv,
                  RereadsCounted
    <2> QED
      BY <2>1, <2>2 DEF CeilingInv
  <1>4. ASSUME NEW r \in 0 .. tip, NEW noteCount \in 0 .. PageSize, Refused(r, noteCount)
        PROVE  CeilingInv'
    <2>1. RequestsCounted'
      BY <1>4, ServedCount DEF Refused, Turn, CeilingInv, RequestsCounted, IInv, TypeOK
    <2>2. RereadsCounted'
      BY <1>4 DEF Refused, scan, cursor, lastPartial, CeilingInv, RereadsCounted
    <2> QED
      BY <2>1, <2>2 DEF CeilingInv
  <1>5. ASSUME NEW r \in 0 .. tip, NEW noteCount \in 0 .. PageSize, Refresh(r, noteCount)
        PROVE  CeilingInv'
    <2>1. r > highestRevision
      BY <1>5 DEF Refresh, NeedsRefresh, CeilingInv, RereadsCounted, IInv, TypeOK
    <2>2. /\ highestRevision \in Int /\ highestRevision >= 0 /\ reconciliations \in Nat
          /\ reconciliations < MaximumReconciliations
      BY <1>5 DEF Refresh, NeedsRefresh, Turn, CeilingInv, RereadsCounted, IInv, TypeOK
    <2>3. RereadsCounted'
      BY <1>5, <2>1, <2>2 DEF Refresh, lastPartial, CeilingInv, RereadsCounted
    <2> QED
      BY <1>5, <2>3, TurnCounts DEF CeilingInv
  <1>6. ASSUME NEW r \in 0 .. tip, NEW noteCount \in 0 .. PageSize, ApplyNotes(r, noteCount)
        PROVE  CeilingInv'
    <2>1. /\ highestRevision \in Int /\ reconciliations \in Nat /\ r \in Nat
          /\ r >= highestRevision
      BY <1>6 DEF ApplyNotes, IInv, TypeOK
    <2>2. RereadsCounted'
      BY <1>6, <2>1 DEF ApplyNotes, CeilingInv, RereadsCounted
    <2> QED
      BY <1>6, <2>2, TurnCounts DEF CeilingInv
  <1>7. ASSUME NEW r \in 0 .. tip, NEW noteCount \in 0 .. PageSize, ConfirmEmpty(r, noteCount)
        PROVE  CeilingInv'
    <2>1. /\ highestRevision \in Int /\ reconciliations \in Nat /\ r \in Nat
          /\ r >= highestRevision
      BY <1>7 DEF ConfirmEmpty, IInv, TypeOK
    <2>2. RereadsCounted'
      BY <1>7, <2>1 DEF ConfirmEmpty, NeedsRefresh, lastPartial, CeilingInv, RereadsCounted
    <2> QED
      BY <1>7, <2>2, TurnCounts DEF CeilingInv
  <1> QED
    BY <1>1, <1>2, <1>3, <1>4, <1>5, <1>6, <1>7 DEF Next, ReadPage

(* A scan makes at most MaximumPages requests, whatever becomes of the pool, *)
(* and each rereading it gives up after was of another height.               *)
THEOREM StreamCeilings == Spec => []StopsForACause
  <1>1. IInv /\ CeilingInv => StopsForACause
    BY DEF IInv, TypeOK, CeilingInv, RequestsCounted, RereadsCounted, StopsForACause
  <1> QED
    BY <1>1, InitInv, NextInv, CeilingInit, CeilingStep, PTL DEF Spec

-----------------------------------------------------------------------------
(* A complete ledger is the one PoolSnapshot reports at that height. *)
LEMMA CompleteReport ==
    ASSUME IInv', outcome' = "complete"
    PROVE  /\ highestRevision' \in 0 .. tip'
           /\ records' = Pool!Known(size'[highestRevision'])
           /\ spent' = Pool!Spent(size'[highestRevision'])
  <1>1. highestRevision' \in 0 .. tip'
    <2>1. highestRevision' \in -1 .. tip' /\ tip' \in Nat
      BY DEF IInv, TypeOK
    <2>2. highestRevision' # -1
      BY DEF IInv, CompleteHasRead
    <2> QED
      BY <2>1, <2>2
  <1>2. DOMAIN Spends = Positions
    OBVIOUS
  <1> QED
    BY <1>1, <1>2 DEF IInv, LedgerIsPrefix, CompleteIsSnapshot, Pool!Known, Pool!Spent

LEMMA StepRefines == IInv /\ IInv' /\ [Next]_vars => [Pool!Next]_(Pool!poolVars)
  <1> SUFFICES ASSUME IInv, IInv', [Next]_vars PROVE [Pool!Next]_(Pool!poolVars)
    OBVIOUS
  <1> USE DEF Pool!poolVars
  <1>1. CASE UNCHANGED vars
    BY <1>1 DEF vars, chain, scan, ledger, Report
  <1>2. ASSUME NEW n \in 0 .. MaxSize, Grow(n) PROVE Pool!Grow
    <2>1. tip \in Nat /\ DOMAIN size = 0 .. tip /\ DOMAIN size' = 0 .. tip + 1
      BY <1>2 DEF Grow, IInv, TypeOK
    <2>2. DOMAIN size' = DOMAIN size \cup {tip + 1} /\ tip + 1 \notin DOMAIN size /\ tip \in DOMAIN size
      BY <2>1
    <2>3. \A r \in DOMAIN size : size'[r] = size[r]
      BY <1>2, <2>1 DEF Grow
    <2>4. Report' = Report
      BY <1>2 DEF Grow, Report, scan, ledger
    <2> QED
      BY <2>2, <2>3, <2>4 DEF Pool!Grow
  <1>3. ASSUME outcome = "running", outcome' = "complete", size' = size, tip' = tip
        PROVE  Pool!Complete
    <2>1. Report = Pool!Nothing("none")
      BY <1>3 DEF Report, Pool!Nothing
    <2>2. /\ highestRevision' \in 0 .. tip'
          /\ records' = Pool!Known(size'[highestRevision'])
          /\ spent' = Pool!Spent(size'[highestRevision'])
      BY <1>3, CompleteReport
    <2>3. DOMAIN size = 0 .. tip
      BY DEF IInv, TypeOK
    <2>4. Report' = [verdict |-> "complete", known |-> records', spent |-> spent']
      BY <1>3 DEF Report
    <2> QED
      BY <1>3, <2>1, <2>2, <2>3, <2>4 DEF Pool!Complete
  <1>4. ASSUME outcome = "running", outcome' \notin {"running", "complete"}, size' = size
        PROVE  Pool!GiveUp
    BY <1>4 DEF Report, Pool!Nothing, Pool!GiveUp
  <1>5. ASSUME outcome = "running", outcome' = "running", size' = size
        PROVE  UNCHANGED Pool!poolVars
    BY <1>5 DEF Report
  <1>6. CASE ReadPage
    BY <1>6, <1>3, <1>4, <1>5
    DEF ReadPage, Refused, Refresh, ApplyNotes, ConfirmEmpty, Turn, Pool!Next
  <1>7. CASE FetchFails \/ StopCancelled \/ Cancel
    BY <1>7, <1>4, <1>5 DEF FetchFails, StopCancelled, Cancel, chain, Pool!Next
  <1> QED
    BY <1>1, <1>2, <1>6, <1>7 DEF Next, Pool!Next

(* The scan implements the instantaneous snapshot: whoever reads a complete *)
(* report cannot tell that the pool grew while it was read.                 *)
THEOREM StreamImplementsSnapshot == Spec => ImplementsSnapshot
  <1>1. Init => Pool!Init
    <2> SUFFICES ASSUME Init PROVE Pool!Init
      OBVIOUS
    <2>1. DOMAIN size = {0}
      BY DEF Init
    <2>2. outcome = "running"
      BY DEF Init
    <2> QED
      BY <2>1, <2>2 DEF Pool!Init, Report, Pool!Nothing
  <1> QED
    BY <1>1, InitInv, NextInv, StepRefines, PTL DEF Spec, ImplementsSnapshot, Pool!Spec
=============================================================================
