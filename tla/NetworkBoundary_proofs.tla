------------------------ MODULE NetworkBoundary_proofs ------------------------
(***************************************************************************)
(* Proofs about NetworkBoundary for any number of calls and signals: a       *)
(* waiting call is held in exactly one place, a cancelled one stops, and the *)
(* messages implement plain remote calls.                                    *)
(***************************************************************************)
EXTENDS NetworkBoundary, FiniteSetTheorems, TLAPS

Message == [type : {"invoke"}, id : Nat, call : Calls] \cup [type : {"cancel"}, id : Nat]
Answer == {a \in [id : Nat, ok : BOOLEAN, value : Calls \cup {Nobody}] : a.ok => a.value \in Calls}

Shapes ==
    /\ toWorker \in Seq(Message) /\ toClient \in Seq(Answer)
    /\ \A i \in DOMAIN controllers : controllers[i] \in Calls
    /\ closed => DOMAIN pending = {}

(* Every call asked for used up at most one identifier. *)
Asked == {c \in Calls : outcome[c] # "idle"}
AskedCount == sequence <= Cardinality(Asked)

(* Which identifier stands for which call, wherever the two are met.         *)
Requests ==
    {r \in Nat \X Calls :
       \/ r[1] \in DOMAIN pending /\ pending[r[1]] = r[2]
       \/ r[1] \in DOMAIN controllers /\ controllers[r[1]] = r[2]
       \/ \E k \in DOMAIN toWorker :
            toWorker[k].type = "invoke" /\ toWorker[k].id = r[1] /\ toWorker[k].call = r[2]
       \/ \E k \in DOMAIN toClient :
            toClient[k].ok /\ toClient[k].id = r[1] /\ toClient[k].value = r[2]}

OneRequest ==
    /\ \A r, q \in Requests : r[1] = q[1] <=> r[2] = q[2]
    /\ \A r \in Requests : r[1] <= sequence /\ outcome[r[2]] # "idle"

Waits == \A c \in Calls : outcome[c] = "waiting" <=> \E i \in DOMAIN pending : pending[i] = c

(* How often an identifier is met on its way there, on its way back, and at  *)
(* work.                                                                     *)
Sent == [i \in Nat |-> Cardinality({k \in DOMAIN toWorker :
                                       toWorker[k].type = "invoke" /\ toWorker[k].id = i})]
Back == [i \in Nat |-> Cardinality({k \in DOMAIN toClient : toClient[k].id = i})]
AtWork == [i \in Nat |-> IF i \in DOMAIN controllers THEN 1 ELSE 0]

HeldOnce == \A i \in DOMAIN pending : Sent[i] + Back[i] + AtWork[i] = 1

IInv ==
    /\ TypeOK /\ Shapes /\ AskedCount
    /\ Waits /\ OneRequest
    /\ HeldOnce /\ CancelFollowsRequest

----------------------------------------------------------------------------
(* Queues and counting.                                                      *)

LEMMA Appended ==
    ASSUME NEW S, NEW s \in Seq(S), NEW e \in S
    PROVE  /\ Append(s, e) \in Seq(S) /\ DOMAIN Append(s, e) = DOMAIN s \cup {Len(s) + 1}
           /\ Len(s) \in Nat /\ DOMAIN s = 1 .. Len(s)
           /\ Append(s, e)[Len(s) + 1] = e
           /\ \A k \in DOMAIN s : Append(s, e)[k] = s[k]
  OBVIOUS

LEMMA Taken ==
    ASSUME NEW S, NEW s \in Seq(S), s # <<>>
    PROVE  /\ Tail(s) \in Seq(S) /\ Head(s) \in S /\ Head(s) = s[1]
           /\ Len(s) \in Nat \ {0} /\ DOMAIN s = 1 .. Len(s) /\ DOMAIN Tail(s) = 1 .. (Len(s) - 1)
           /\ \A k \in DOMAIN Tail(s) : k + 1 \in DOMAIN s /\ Tail(s)[k] = s[k + 1]
  OBVIOUS

LEMMA Joined ==
    ASSUME NEW S, NEW s \in Seq(S), NEW t \in Seq(S)
    PROVE  /\ s \o t \in Seq(S) /\ Len(s) \in Nat /\ DOMAIN s = 1 .. Len(s)
           /\ DOMAIN (s \o t) = 1 .. (Len(s) + Len(t))
           /\ \A k \in 1 .. Len(s) : (s \o t)[k] = s[k]
           /\ \A k \in 1 .. Len(t) : (s \o t)[Len(s) + k] = t[k]
  OBVIOUS

(* The positions of a queue after its head is taken.                         *)
LEMMA ShiftedCount ==
    ASSUME NEW n \in Nat, NEW A \in SUBSET (1 .. n), NEW B, B = {k \in 1 .. (n - 1) : k + 1 \in A}
    PROVE  /\ Cardinality(A) \in Nat /\ Cardinality(B) \in Nat
           /\ Cardinality(A) = Cardinality(B) + (IF 1 \in A THEN 1 ELSE 0)
  <1>1. IsFiniteSet(A)
    <2>1. A \subseteq 1 .. n /\ IsFiniteSet(1 .. n)
      BY FS_Interval
    <2> QED
      BY <2>1, FS_Subset
  <1>2. IsFiniteSet(B)
    <2>1. B \subseteq 1 .. n /\ IsFiniteSet(1 .. n)
      BY FS_Interval
    <2> QED
      BY <2>1, FS_Subset
  <1>3. IsFiniteSet(A \ {1}) /\ Cardinality(A \ {1}) = Cardinality(B)
    <2> DEFINE f == [k \in B |-> k + 1]
    <2>1. f \in [B -> A \ {1}]
      OBVIOUS
    <2>2. \A j, k \in B : f[j] = f[k] => j = k
      OBVIOUS
    <2>3. ASSUME NEW a \in A \ {1} PROVE \E k \in B : f[k] = a
      <3>1. a - 1 \in B /\ f[a - 1] = a
        OBVIOUS
      <3> QED
        BY <3>1
    <2> HIDE DEF f
    <2>4. f \in Bijection(B, A \ {1})
      BY <2>1, <2>2, <2>3 DEF Bijection, Injection, Surjection, IsInjective
    <2>5. ExistsBijection(B, A \ {1})
      BY <2>4 DEF ExistsBijection
    <2> QED
      BY <1>2, <2>5, FS_Bijection
  <1>4. Cardinality(A \ {1}) = IF 1 \in A THEN Cardinality(A) - 1 ELSE Cardinality(A)
    BY <1>1, FS_RemoveElement
  <1>5. Cardinality(A) \in Nat /\ Cardinality(B) \in Nat
    BY <1>1, <1>2, FS_CardinalityType
  <1> QED
    BY <1>3, <1>4, <1>5

(* What the listeners of a signal post.                                      *)
LEMMA CancelsPosted ==
    ASSUME TypeOK, Shapes, NEW s \in Signals, Abort(s)
    PROVE  /\ toWorker' \in Seq(Message) /\ DOMAIN toWorker \subseteq DOMAIN toWorker'
           /\ \A k \in DOMAIN toWorker : toWorker'[k] = toWorker[k]
           /\ \A k \in DOMAIN toWorker' \ DOMAIN toWorker :
                toWorker'[k].type = "cancel" /\ toWorker'[k].id \in Listening(s)
           /\ \A i \in Listening(s) :
                \E k \in DOMAIN toWorker' \ DOMAIN toWorker : toWorker'[k] = Cancel(i)
           /\ \A k \in DOMAIN toWorker : \A l \in DOMAIN toWorker' \ DOMAIN toWorker : k < l
  <1> DEFINE ids == Listening(s)
             n == Cardinality(ids)
             len == Len(toWorker)
  <1>1. ids \subseteq 1 .. sequence /\ sequence \in Nat
    BY DEF TypeOK, Listening
  <1>2. n \in Nat
    <2>1. IsFiniteSet(1 .. sequence)
      BY <1>1, FS_Interval
    <2> QED
      BY <1>1, <2>1, FS_Subset, FS_CardinalityType
  <1>3. PICK order \in InOrder(ids) : toWorker' = toWorker \o [k \in DOMAIN order |-> Cancel(order[k])]
    BY DEF Abort
  <1>4. order \in [1 .. n -> ids] /\ \A i \in ids : \E k \in 1 .. n : order[k] = i
    BY <1>3 DEF InOrder, Bijection, Injection, Surjection
  <1> DEFINE cancels == [k \in 1 .. n |-> Cancel(order[k])]
  <1>5. \A k \in 1 .. n : Cancel(order[k]) \in Message
    BY <1>1, <1>4 DEF Cancel, Message
  <1>6. cancels \in Seq(Message) /\ Len(cancels) = n
    BY <1>2, <1>5
  <1>7. toWorker' = toWorker \o cancels /\ \A k \in 1 .. n : cancels[k] = Cancel(order[k])
    BY <1>3, <1>4
  <1>8. toWorker \in Seq(Message)
    BY DEF Shapes
  <1> HIDE DEF cancels, n, ids
  <1>9. /\ toWorker' \in Seq(Message) /\ len \in Nat /\ DOMAIN toWorker = 1 .. len
        /\ DOMAIN toWorker' = 1 .. (len + n)
        /\ \A k \in 1 .. len : toWorker'[k] = toWorker[k]
        /\ \A k \in 1 .. n : toWorker'[len + k] = cancels[k]
    BY <1>6, <1>7, <1>8, Joined
  <1>10. ASSUME NEW k \in DOMAIN toWorker' \ DOMAIN toWorker
         PROVE  toWorker'[k].type = "cancel" /\ toWorker'[k].id \in ids /\ k > len
    <2>1. k - len \in 1 .. n /\ k = len + (k - len)
      BY <1>2, <1>9
    <2>2. toWorker'[k] = Cancel(order[k - len])
      BY <2>1, <1>7, <1>9
    <2> QED
      BY <2>1, <2>2, <1>4, <1>9 DEF Cancel
  <1>11. ASSUME NEW i \in ids
         PROVE  \E k \in DOMAIN toWorker' \ DOMAIN toWorker : toWorker'[k] = Cancel(i)
    <2>1. PICK k \in 1 .. n : order[k] = i
      BY <1>4
    <2>2. len + k \in DOMAIN toWorker' \ DOMAIN toWorker /\ toWorker'[len + k] = Cancel(i)
      BY <2>1, <1>2, <1>7, <1>9
    <2> QED
      BY <2>2
  <1>12. 1 .. len \subseteq 1 .. (len + n)
    BY <1>2, <1>9
  <1>13. \A k \in 1 .. len : \A l \in DOMAIN toWorker' \ DOMAIN toWorker : k < l
    <2> SUFFICES ASSUME NEW k \in 1 .. len, NEW l \in DOMAIN toWorker' \ DOMAIN toWorker PROVE k < l
      OBVIOUS
    <2> QED
      BY <1>9, <1>10, <1>2
  <1> HIDE DEF len
  <1>14. \A i \in ids : \E k \in DOMAIN toWorker' \ DOMAIN toWorker : toWorker'[k] = Cancel(i)
    BY <1>11
  <1>15. \A k \in DOMAIN toWorker' \ DOMAIN toWorker :
           toWorker'[k].type = "cancel" /\ toWorker'[k].id \in ids
    BY <1>10
  <1>16. DOMAIN toWorker \subseteq DOMAIN toWorker' /\ \A k \in DOMAIN toWorker : toWorker'[k] = toWorker[k]
    BY <1>9, <1>12
  <1> QED
    BY <1>9, <1>13, <1>14, <1>15, <1>16 DEF ids

----------------------------------------------------------------------------
(* Types, and the identifiers used up.                                       *)

(* A call that is asked for the first time is one more. *)
LEMMA OneMoreAsked ==
    ASSUME outcome \in [Calls -> Outcomes], NEW c \in Calls, outcome[c] = "idle",
           NEW how \in Outcomes \ {"idle"}, outcome' = [outcome EXCEPT ![c] = how]
    PROVE  /\ outcome' \in [Calls -> Outcomes]
           /\ Cardinality(Asked) \in Nat /\ Cardinality(Asked') = Cardinality(Asked) + 1
           /\ Cardinality(Asked') <= Cardinality(Calls)
  <1>1. IsFiniteSet(Calls) /\ Asked \subseteq Calls /\ Asked' \subseteq Calls
    BY BoundaryAssumption DEF BoundaryAssumption, Asked
  <1>2. Asked' = Asked \cup {c} /\ c \notin Asked
    BY DEF Asked
  <1>3. IsFiniteSet(Asked) /\ Cardinality(Asked) \in Nat
    BY <1>1, FS_Subset, FS_CardinalityType
  <1>4. Cardinality(Asked') = Cardinality(Asked) + 1
    BY <1>2, <1>3, FS_AddElement
  <1>5. Cardinality(Asked') <= Cardinality(Calls)
    BY <1>1, FS_Subset
  <1> QED
    BY <1>3, <1>4, <1>5

(* Nobody is asked for the first time: the count stands. *)
LEMMA SameAsked ==
    ASSUME AskedCount, sequence' = sequence,
           \A c \in Calls : outcome'[c] = "idle" <=> outcome[c] = "idle"
    PROVE  AskedCount'
  <1>1. Asked' = Asked
    BY DEF Asked
  <1> QED
    BY <1>1 DEF AskedCount

(* The type invariant, in three parts. *)
Flat ==
    /\ sequence \in 0 .. Cardinality(Calls) /\ closed \in BOOLEAN
    /\ outcome \in [Calls -> Outcomes]
    /\ value \in [Calls -> Calls \cup {Nobody}]
    /\ fired \subseteq Signals

Maps ==
    /\ DOMAIN pending \subseteq 1 .. sequence /\ \A i \in DOMAIN pending : pending[i] \in Calls
    /\ DOMAIN controllers \subseteq 1 .. sequence /\ aborted \subseteq DOMAIN controllers

QueuedIds ==
    /\ \A k \in DOMAIN toWorker :
         toWorker[k].type \in {"invoke", "cancel"} /\ toWorker[k].id \in 1 .. sequence
    /\ \A k \in DOMAIN toClient : toClient[k].id \in 1 .. sequence

LEMMA TypeParts == TypeOK <=> Flat /\ Maps /\ QueuedIds
  BY DEF TypeOK, Flat, Maps, QueuedIds

LEMMA TypeInit == Init => TypeOK /\ Shapes /\ AskedCount
  <1> SUFFICES ASSUME Init PROVE TypeOK /\ Shapes /\ AskedCount
    OBVIOUS
  <1>1. sequence = 0 /\ Cardinality(Calls) \in Nat
    BY BoundaryAssumption, FS_CardinalityType DEF Init, BoundaryAssumption
  <1>2. Asked = {}
    BY DEF Init, Asked
  <1>3. AskedCount
    BY <1>1, <1>2, FS_EmptySet DEF AskedCount
  <1>4. Shapes
    BY DEF Init, Shapes
  <1>5. Flat /\ Maps /\ QueuedIds
    <2>1. Flat
      <3>1. outcome \in [Calls -> Outcomes] /\ value \in [Calls -> Calls \cup {Nobody}]
        BY DEF Init, Outcomes
      <3>2. closed \in BOOLEAN /\ fired \subseteq Signals
        BY DEF Init
      <3>3. sequence \in 0 .. Cardinality(Calls)
        BY <1>1
      <3> QED
        BY <3>1, <3>2, <3>3 DEF Flat
    <2>2. Maps
      BY DEF Init, Maps
    <2>3. QueuedIds
      BY DEF Init, QueuedIds
    <2> QED
      BY <2>1, <2>2, <2>3
  <1> QED
    BY <1>3, <1>4, <1>5, TypeParts

(* A reply is posted: it is lost when the port is closed.                    *)
LEMMA ReplyPosted ==
    ASSUME Shapes, QueuedIds, sequence' = sequence, sequence \in Nat,
           NEW id \in 1 .. sequence, NEW ok \in BOOLEAN, NEW v \in Calls \cup {Nobody}, ok => v \in Calls,
           Post(Reply(id, ok, v))
    PROVE  /\ toClient' \in Seq(Answer)
           /\ \A k \in DOMAIN toClient' : toClient'[k].id \in 1 .. sequence'
           /\ \A k \in DOMAIN toClient' :
                \/ k \in DOMAIN toClient /\ toClient'[k] = toClient[k]
                \/ toClient'[k] = Reply(id, ok, v)
  <1>1. toClient \in Seq(Answer) /\ Reply(id, ok, v) \in Answer
    BY DEF Shapes, Reply, Answer
  <1>2. CASE closed
    BY <1>1, <1>2 DEF Post, QueuedIds
  <1>3. CASE ~closed
    <2>1. toClient' = Append(toClient, Reply(id, ok, v))
      BY <1>3 DEF Post
    <2>2. /\ toClient' \in Seq(Answer) /\ DOMAIN toClient' = DOMAIN toClient \cup {Len(toClient) + 1}
          /\ toClient'[Len(toClient) + 1] = Reply(id, ok, v)
          /\ \A k \in DOMAIN toClient : toClient'[k] = toClient[k]
      BY <1>1, <2>1, Appended
    <2> QED
      BY <2>2 DEF QueuedIds, Reply
  <1> QED
    BY <1>2, <1>3

(* The worker takes a message. *)
LEMMA MessageTaken ==
    ASSUME Shapes, QueuedIds, NEW type, Take(type), sequence' = sequence
    PROVE  /\ toWorker' \in Seq(Message) /\ Head(toWorker) \in Message /\ Head(toWorker) = toWorker[1]
           /\ Head(toWorker).type = type /\ Head(toWorker).id \in 1 .. sequence
           /\ Len(toWorker) \in Nat \ {0} /\ DOMAIN toWorker = 1 .. Len(toWorker)
           /\ DOMAIN toWorker' = 1 .. (Len(toWorker) - 1)
           /\ \A k \in DOMAIN toWorker' : k + 1 \in DOMAIN toWorker /\ toWorker'[k] = toWorker[k + 1]
           /\ \A k \in DOMAIN toWorker' :
                toWorker'[k].type \in {"invoke", "cancel"} /\ toWorker'[k].id \in 1 .. sequence'
  <1>1. toWorker \in Seq(Message) /\ toWorker # <<>> /\ toWorker' = Tail(toWorker)
        /\ Head(toWorker).type = type
    BY DEF Shapes, Take
  <1>2. /\ toWorker' \in Seq(Message) /\ Head(toWorker) \in Message /\ Head(toWorker) = toWorker[1]
        /\ Len(toWorker) \in Nat \ {0} /\ DOMAIN toWorker = 1 .. Len(toWorker)
        /\ DOMAIN toWorker' = 1 .. (Len(toWorker) - 1)
        /\ \A k \in DOMAIN toWorker' : k + 1 \in DOMAIN toWorker /\ toWorker'[k] = toWorker[k + 1]
    BY <1>1, Taken
  <1>3. 1 \in DOMAIN toWorker
    BY <1>2
  <1> QED
    BY <1>1, <1>2, <1>3 DEF QueuedIds

(* A pending call was asked for and waits. *)
LEMMA PendingWaits ==
    ASSUME IInv, NEW i \in DOMAIN pending
    PROVE  pending[i] \in Calls /\ outcome[pending[i]] = "waiting" /\ ~closed
  BY DEF IInv, TypeOK, Waits, Shapes

LEMMA TypeRequest ==
    ASSUME IInv, NEW c \in Calls, RequestRefused(c) \/ RequestPosted(c) \/ RequestUnsent(c)
    PROVE  TypeOK' /\ Shapes' /\ AskedCount'
  <1>1. Flat /\ Maps /\ QueuedIds /\ Shapes /\ AskedCount /\ sequence \in Nat
    BY TypeParts DEF IInv, Flat
  <1>2. PICK how \in Outcomes \ {"idle"} : outcome[c] = "idle" /\ outcome' = [outcome EXCEPT ![c] = how]
    BY DEF RequestRefused, RequestPosted, RequestUnsent, Settle, Outcomes
  <1>3. /\ outcome' \in [Calls -> Outcomes]
        /\ Cardinality(Asked) \in Nat /\ Cardinality(Asked') = Cardinality(Asked) + 1
        /\ Cardinality(Asked') <= Cardinality(Calls)
    BY <1>1, <1>2, OneMoreAsked DEF Flat
  <1>4. sequence <= Cardinality(Asked) /\ Cardinality(Calls) \in Nat
    BY <1>1, BoundaryAssumption, FS_CardinalityType DEF AskedCount, BoundaryAssumption
  <1>5. UNCHANGED <<closed, value, fired, toClient, controllers, aborted>>
    BY DEF RequestRefused, RequestPosted, RequestUnsent, client, worker
  <1>6. sequence' \in Nat /\ sequence <= sequence' /\ sequence' <= sequence + 1
    BY <1>1 DEF RequestRefused, RequestPosted, RequestUnsent, client
  <1>7. AskedCount' /\ sequence' \in 0 .. Cardinality(Calls)
    <2>1. sequence' <= Cardinality(Asked')
      BY <1>1, <1>3, <1>4, <1>6
    <2>2. sequence' \in 0 .. Cardinality(Calls)
      BY <2>1, <1>3, <1>4, <1>6
    <2> QED
      BY <2>1, <2>2 DEF AskedCount
  <1>8. Flat'
    BY <1>1, <1>3, <1>5, <1>7 DEF Flat
  <1>9. 1 .. sequence \subseteq 1 .. sequence'
    BY <1>1, <1>6
  <1>10. CASE UNCHANGED <<pending, toWorker>>
    <2>1. Maps'
      BY <1>1, <1>5, <1>9, <1>10 DEF Maps
    <2>2. QueuedIds'
      BY <1>1, <1>5, <1>9, <1>10 DEF QueuedIds
    <2>3. Shapes'
      BY <1>1, <1>5, <1>10 DEF Shapes
    <2> QED
      BY <1>7, <1>8, <2>1, <2>2, <2>3, TypeParts, PTL
  <1>11. CASE RequestPosted(c)
    <2>1. sequence' = FreshId /\ FreshId \in 1 .. sequence' /\ FreshId \in Nat
      BY <1>11, <1>1 DEF RequestPosted, FreshId
    <2>2. /\ pending' = [i \in DOMAIN pending \cup {FreshId} |-> IF i = FreshId THEN c ELSE pending[i]]
          /\ toWorker' = Append(toWorker, Invoke(FreshId, c)) /\ ~closed
      BY <1>11 DEF RequestPosted
    <2>3. Invoke(FreshId, c) \in Message /\ toWorker \in Seq(Message)
      BY <1>1, <2>1 DEF Invoke, Message, Shapes
    <2>4. /\ toWorker' \in Seq(Message) /\ DOMAIN toWorker' = DOMAIN toWorker \cup {Len(toWorker) + 1}
          /\ toWorker'[Len(toWorker) + 1] = Invoke(FreshId, c)
          /\ \A k \in DOMAIN toWorker : toWorker'[k] = toWorker[k]
      BY <2>2, <2>3, Appended
    <2>5. Maps'
      BY <1>1, <1>5, <1>9, <2>1, <2>2 DEF Maps
    <2>6. QueuedIds'
      <3>1. Invoke(FreshId, c).type = "invoke" /\ Invoke(FreshId, c).id \in 1 .. sequence'
        BY <2>1 DEF Invoke
      <3> QED
        BY <1>1, <1>5, <1>9, <2>4, <3>1 DEF QueuedIds
    <2>7. Shapes'
      BY <1>1, <1>5, <2>2, <2>4 DEF Shapes
    <2> QED
      BY <1>7, <1>8, <2>5, <2>6, <2>7, TypeParts, PTL
  <1> QED
    BY <1>10, <1>11 DEF RequestRefused, RequestUnsent, client

(* Whatever settles pending calls and forgets them.                          *)
LEMMA TypeSettled ==
    ASSUME IInv, UNCHANGED <<sequence, controllers, aborted>>, closed' \in BOOLEAN,
           fired' \subseteq Signals,
           value' \in [Calls -> Calls \cup {Nobody}], outcome' \in [Calls -> Outcomes],
           \A c \in Calls : outcome'[c] = "idle" <=> outcome[c] = "idle",
           DOMAIN pending' \subseteq DOMAIN pending,
           \A i \in DOMAIN pending' : pending'[i] = pending[i],
           closed' => DOMAIN pending' = {},
           toWorker' \in Seq(Message), toClient' \in Seq(Answer), QueuedIds'
    PROVE  TypeOK' /\ Shapes' /\ AskedCount'
  <1>1. Flat /\ Maps /\ Shapes /\ AskedCount
    BY TypeParts DEF IInv
  <1>2. AskedCount'
    BY <1>1, SameAsked
  <1>3. Flat'
    BY <1>1 DEF Flat
  <1>4. Maps'
    BY <1>1 DEF Maps
  <1>5. Shapes'
    BY <1>1 DEF Shapes
  <1> QED
    BY <1>2, <1>3, <1>4, <1>5, TypeParts, PTL

LEMMA TypeAbort ==
    ASSUME IInv, NEW s \in Signals, Abort(s)
    PROVE  TypeOK' /\ Shapes' /\ AskedCount'
  <1>1. Flat /\ Maps /\ QueuedIds /\ Shapes /\ TypeOK
    BY TypeParts DEF IInv
  <1>2. /\ UNCHANGED <<sequence, closed, value, toClient, controllers, aborted>>
        /\ fired' = fired \cup {s}
        /\ pending' = [i \in DOMAIN pending \ Listening(s) |-> pending[i]]
        /\ outcome' = [c \in Calls |-> IF \E i \in Listening(s) : pending[i] = c
                                       THEN "aborted" ELSE outcome[c]]
    BY DEF Abort, Forget, worker
  <1>3. /\ toWorker' \in Seq(Message)
        /\ \A k \in DOMAIN toWorker : toWorker'[k] = toWorker[k]
        /\ \A k \in DOMAIN toWorker' \ DOMAIN toWorker :
             toWorker'[k].type = "cancel" /\ toWorker'[k].id \in Listening(s)
    BY <1>1, CancelsPosted
  <1>4. Listening(s) \subseteq DOMAIN pending
    BY DEF Listening
  <1>5. QueuedIds'
    BY <1>1, <1>2, <1>3, <1>4 DEF QueuedIds, Maps
  <1>6. outcome' \in [Calls -> Outcomes]
    BY <1>1, <1>2 DEF Flat, Outcomes
  <1>7. ASSUME NEW c \in Calls PROVE outcome'[c] = "idle" <=> outcome[c] = "idle"
    <2>1. CASE \E i \in Listening(s) : pending[i] = c
      <3>1. outcome[c] = "waiting"
        BY <2>1, <1>4, PendingWaits
      <3> QED
        BY <2>1, <3>1, <1>2
    <2>2. CASE ~ \E i \in Listening(s) : pending[i] = c
      BY <2>2, <1>2
    <2> QED
      BY <2>1, <2>2
  <1>8. toClient' \in Seq(Answer) /\ closed' \in BOOLEAN /\ fired' \subseteq Signals
        /\ value' \in [Calls -> Calls \cup {Nobody}]
    BY <1>1, <1>2 DEF Shapes, Flat
  <1>9. /\ DOMAIN pending' \subseteq DOMAIN pending
        /\ \A i \in DOMAIN pending' : pending'[i] = pending[i]
        /\ closed' => DOMAIN pending' = {}
    BY <1>1, <1>2 DEF Shapes
  <1> QED
    BY <1>2, <1>3, <1>5, <1>6, <1>7, <1>8, <1>9, TypeSettled

LEMMA TypeReceive ==
    ASSUME IInv, Receive PROVE TypeOK' /\ Shapes' /\ AskedCount'
  <1> DEFINE r == Head(toClient)
  <1>1. Flat /\ Maps /\ QueuedIds /\ Shapes /\ toClient \in Seq(Answer) /\ toClient # <<>>
        /\ toClient' = Tail(toClient) /\ ~closed
        /\ UNCHANGED <<sequence, closed, fired, toWorker, controllers, aborted>>
    BY TypeParts DEF IInv, Shapes, Receive, worker
  <1>2. /\ toClient' \in Seq(Answer) /\ r \in Answer
        /\ \A k \in DOMAIN toClient' : k + 1 \in DOMAIN toClient /\ toClient'[k] = toClient[k + 1]
    BY <1>1, Taken
  <1>3. QueuedIds'
    BY <1>1, <1>2 DEF QueuedIds
  <1>4. toWorker' \in Seq(Message) /\ closed' \in BOOLEAN /\ fired' \subseteq Signals
    BY <1>1 DEF Shapes, Flat
  <1>5. CASE r.id \notin DOMAIN pending
    <2>1. UNCHANGED <<pending, outcome, value>>
      BY <1>5 DEF Receive, promises
    <2>2. outcome' \in [Calls -> Outcomes] /\ value' \in [Calls -> Calls \cup {Nobody}]
      BY <1>1, <2>1 DEF Flat
    <2>3. closed' => DOMAIN pending' = {}
      BY <1>1
    <2> QED
      BY <1>1, <1>2, <1>3, <1>4, <2>1, <2>2, <2>3, TypeSettled
  <1>6. CASE r.id \in DOMAIN pending
    <2> DEFINE c == pending[r.id]
    <2>1. c \in Calls /\ outcome[c] = "waiting"
      BY <1>6, PendingWaits
    <2>2. /\ pending' = [i \in DOMAIN pending \ {r.id} |-> pending[i]]
          /\ outcome' = [outcome EXCEPT ![c] = IF r.ok THEN "answered" ELSE "refused"]
          /\ value' = IF r.ok THEN [value EXCEPT ![c] = r.value] ELSE value
      BY <1>6 DEF Receive, Forget, Settle
    <2>3. r.value \in Calls \cup {Nobody}
      BY <1>2 DEF Answer
    <2>4. outcome' \in [Calls -> Outcomes] /\ \A d \in Calls : outcome'[d] = "idle" <=> outcome[d] = "idle"
      BY <1>1, <2>1, <2>2 DEF Flat, Outcomes
    <2>5. value' \in [Calls -> Calls \cup {Nobody}]
      BY <1>1, <2>1, <2>2, <2>3 DEF Flat
    <2>6. /\ DOMAIN pending' \subseteq DOMAIN pending
          /\ \A i \in DOMAIN pending' : pending'[i] = pending[i]
          /\ closed' => DOMAIN pending' = {}
      BY <1>1, <2>2
    <2> QED
      BY <1>1, <1>2, <1>3, <1>4, <2>4, <2>5, <2>6, TypeSettled
  <1> QED
    BY <1>5, <1>6

LEMMA TypeFail ==
    ASSUME IInv, Fail PROVE TypeOK' /\ Shapes' /\ AskedCount'
  <1>1. Flat /\ Maps /\ QueuedIds /\ Shapes
    BY TypeParts DEF IInv
  <1>2. /\ UNCHANGED <<sequence, value, fired, toWorker, controllers, aborted>>
        /\ closed' = TRUE /\ pending' = <<>> /\ toClient' = <<>>
        /\ outcome' = [c \in Calls |-> IF \E i \in DOMAIN pending : pending[i] = c
                                       THEN "failed" ELSE outcome[c]]
    BY DEF Fail, worker
  <1>3. DOMAIN pending' = {} /\ toClient' \in Seq(Answer) /\ DOMAIN toClient' = {}
    BY <1>2
  <1>4. QueuedIds'
    BY <1>1, <1>2, <1>3 DEF QueuedIds
  <1>5. outcome' \in [Calls -> Outcomes]
    BY <1>1, <1>2 DEF Flat, Outcomes
  <1>6. ASSUME NEW c \in Calls PROVE outcome'[c] = "idle" <=> outcome[c] = "idle"
    <2>1. CASE \E i \in DOMAIN pending : pending[i] = c
      BY <2>1, <1>2, PendingWaits
    <2>2. CASE ~ \E i \in DOMAIN pending : pending[i] = c
      BY <2>2, <1>2
    <2> QED
      BY <2>1, <2>2
  <1>7. toWorker' \in Seq(Message) /\ closed' \in BOOLEAN /\ fired' \subseteq Signals
        /\ value' \in [Calls -> Calls \cup {Nobody}]
    BY <1>1, <1>2 DEF Shapes, Flat
  <1> QED
    BY <1>2, <1>3, <1>4, <1>5, <1>6, <1>7, TypeSettled

(* A step of the worker. *)
LEMMA TypeWorker ==
    ASSUME IInv, UNCHANGED <<sequence, pending, closed, outcome, value, fired>>,
           toWorker' \in Seq(Message), toClient' \in Seq(Answer), QueuedIds',
           DOMAIN controllers' \subseteq 1 .. sequence, aborted' \subseteq DOMAIN controllers',
           \A i \in DOMAIN controllers' : controllers'[i] \in Calls
    PROVE  TypeOK' /\ Shapes' /\ AskedCount'
  <1>1. Flat /\ Maps /\ Shapes /\ AskedCount
    BY TypeParts DEF IInv
  <1>2. AskedCount'
    BY <1>1, SameAsked
  <1>3. Flat'
    BY <1>1 DEF Flat
  <1>4. Maps'
    BY <1>1 DEF Maps
  <1>5. Shapes'
    BY <1>1 DEF Shapes
  <1> QED
    BY <1>2, <1>3, <1>4, <1>5, TypeParts, PTL

LEMMA TypeTurn ==
    ASSUME IInv, WorkerTurn PROVE TypeOK' /\ Shapes' /\ AskedCount'
  <1> DEFINE m == Head(toWorker)
  <1>1. Maps /\ QueuedIds /\ Shapes /\ sequence \in Nat
    BY TypeParts DEF IInv, Flat
  <1>2. UNCHANGED <<sequence, pending, closed, outcome, value, fired>>
    BY DEF WorkerTurn, Execute, Decline, AbortController, client, promises
  <1>3. PICK type \in {"invoke", "cancel"} : Take(type)
    BY DEF WorkerTurn, Execute, Decline, AbortController
  <1>4. /\ toWorker' \in Seq(Message) /\ m \in Message /\ m.id \in 1 .. sequence
        /\ \A k \in DOMAIN toWorker' :
             toWorker'[k].type \in {"invoke", "cancel"} /\ toWorker'[k].id \in 1 .. sequence'
    BY <1>1, <1>2, <1>3, MessageTaken
  <1>5. toClient' = toClient => toClient' \in Seq(Answer) /\ QueuedIds'
    BY <1>1, <1>2, <1>4 DEF QueuedIds, Shapes
  <1>6. CASE Execute
    <2>1. /\ controllers' = [i \in DOMAIN controllers \cup {m.id} |->
                               IF i = m.id THEN m.call ELSE controllers[i]]
          /\ aborted' = aborted /\ toClient' = toClient
      BY <1>6 DEF Execute
    <2>2. m.call \in Calls
      <3>1. m.type = "invoke"
        BY <1>6 DEF Execute, Take
      <3> QED
        BY <3>1, <1>4 DEF Message
    <2>3. /\ DOMAIN controllers' \subseteq 1 .. sequence /\ aborted' \subseteq DOMAIN controllers'
          /\ \A i \in DOMAIN controllers' : controllers'[i] \in Calls
      BY <1>1, <1>4, <2>1, <2>2 DEF Maps, Shapes
    <2> QED
      BY <1>2, <1>4, <1>5, <2>1, <2>3, TypeWorker
  <1>7. CASE Decline
    <2>1. Post(Reply(m.id, FALSE, Nobody)) /\ UNCHANGED <<controllers, aborted>>
      BY <1>7 DEF Decline, worker
    <2>2. /\ toClient' \in Seq(Answer)
          /\ \A k \in DOMAIN toClient' : toClient'[k].id \in 1 .. sequence'
      BY <1>1, <1>2, <1>4, <2>1, ReplyPosted
    <2>3. QueuedIds'
      BY <1>4, <2>2 DEF QueuedIds
    <2> QED
      BY <1>1, <1>2, <1>4, <2>1, <2>2, <2>3, TypeWorker DEF Maps, Shapes
  <1>8. CASE AbortController
    <2>1. /\ aborted' = aborted \cup ({m.id} \cap DOMAIN controllers)
          /\ UNCHANGED <<toClient, controllers>>
      BY <1>8 DEF AbortController
    <2> QED
      BY <1>1, <1>2, <1>4, <1>5, <2>1, TypeWorker DEF Maps, Shapes
  <1> QED
    BY <1>6, <1>7, <1>8 DEF WorkerTurn

LEMMA TypeFinish ==
    ASSUME IInv, NEW id \in DOMAIN controllers, NEW ok \in BOOLEAN, Finish(id, ok)
    PROVE  TypeOK' /\ Shapes' /\ AskedCount'
  <1> DEFINE v == IF ok THEN controllers[id] ELSE Nobody
  <1>1. Maps /\ QueuedIds /\ Shapes /\ sequence \in Nat
    BY TypeParts DEF IInv, Flat
  <1>2. /\ UNCHANGED <<sequence, pending, closed, outcome, value, fired, toWorker>>
        /\ Post(Reply(id, ok, v))
        /\ controllers' = [i \in DOMAIN controllers \ {id} |-> controllers[i]]
        /\ aborted' = aborted \ {id}
    BY DEF Finish, client, promises
  <1>3. id \in 1 .. sequence /\ v \in Calls \cup {Nobody} /\ (ok => v \in Calls)
    BY <1>1 DEF Maps, Shapes
  <1>4. /\ toClient' \in Seq(Answer)
        /\ \A k \in DOMAIN toClient' : toClient'[k].id \in 1 .. sequence'
    BY <1>1, <1>2, <1>3, ReplyPosted
  <1>5. QueuedIds'
    BY <1>1, <1>2, <1>4 DEF QueuedIds
  <1>6. /\ DOMAIN controllers' \subseteq 1 .. sequence /\ aborted' \subseteq DOMAIN controllers'
        /\ \A i \in DOMAIN controllers' : controllers'[i] \in Calls
    BY <1>1, <1>2 DEF Maps, Shapes
  <1>7. toWorker' \in Seq(Message)
    BY <1>1, <1>2 DEF Shapes
  <1> QED
    BY <1>2, <1>4, <1>5, <1>6, <1>7, TypeWorker

----------------------------------------------------------------------------
(* Who an identifier stands for.                                             *)

LEMMA Members ==
    ASSUME IInv
    PROVE  /\ \A i \in DOMAIN pending : <<i, pending[i]>> \in Requests
           /\ \A i \in DOMAIN controllers : <<i, controllers[i]>> \in Requests
           /\ \A k \in DOMAIN toWorker :
                toWorker[k].type = "invoke" => <<toWorker[k].id, toWorker[k].call>> \in Requests
           /\ \A k \in DOMAIN toClient :
                toClient[k].ok /\ toClient[k].value \in Calls =>
                  <<toClient[k].id, toClient[k].value>> \in Requests
  <1>1. Maps /\ Shapes /\ sequence \in Nat
    BY TypeParts DEF IInv, Flat
  <1>2. \A i \in DOMAIN pending : i \in Nat /\ pending[i] \in Calls
    BY <1>1 DEF Maps
  <1>3. \A i \in DOMAIN controllers : i \in Nat /\ controllers[i] \in Calls
    BY <1>1 DEF Maps, Shapes
  <1>4. \A k \in DOMAIN toWorker : toWorker[k].type = "invoke" => toWorker[k].id \in Nat /\ toWorker[k].call \in Calls
    <2>1. \A k \in DOMAIN toWorker : toWorker[k] \in Message
      BY <1>1 DEF Shapes
    <2> QED
      BY <2>1 DEF Message
  <1>5. \A k \in DOMAIN toClient : toClient[k].id \in Nat
    <2>1. \A k \in DOMAIN toClient : toClient[k] \in Answer
      BY <1>1 DEF Shapes
    <2> QED
      BY <2>1 DEF Answer
  <1>6. \A i \in DOMAIN pending : <<i, pending[i]>> \in Requests
    BY <1>2 DEF Requests
  <1>7. \A i \in DOMAIN controllers : <<i, controllers[i]>> \in Requests
    BY <1>3 DEF Requests
  <1>8. \A k \in DOMAIN toWorker :
          toWorker[k].type = "invoke" => <<toWorker[k].id, toWorker[k].call>> \in Requests
    BY <1>4 DEF Requests
  <1>9. \A k \in DOMAIN toClient :
          toClient[k].ok /\ toClient[k].value \in Calls =>
            <<toClient[k].id, toClient[k].value>> \in Requests
    BY <1>5 DEF Requests
  <1> QED
    BY <1>6, <1>7, <1>8, <1>9

(* A step after which every trace of a request is one of before. *)
LEMMA RequestsKept ==
    ASSUME IInv, sequence' \in Nat, sequence <= sequence',
           \A c \in Calls : outcome[c] # "idle" => outcome'[c] # "idle",
           \A i \in DOMAIN pending' : i \in DOMAIN pending /\ pending'[i] = pending[i],
           \A i \in DOMAIN controllers' : <<i, controllers'[i]>> \in Requests,
           \A k \in DOMAIN toWorker' :
             toWorker'[k].type = "invoke" => <<toWorker'[k].id, toWorker'[k].call>> \in Requests,
           \A k \in DOMAIN toClient' :
             toClient'[k].ok /\ toClient'[k].value \in Calls =>
               <<toClient'[k].id, toClient'[k].value>> \in Requests
    PROVE  OneRequest'
  <1>1. ASSUME NEW r \in Requests' PROVE r \in Requests
    <2>1. /\ r = <<r[1], r[2]>> /\ r[2] \in Calls
          /\ \/ r[1] \in DOMAIN pending' /\ pending'[r[1]] = r[2]
             \/ r[1] \in DOMAIN controllers' /\ controllers'[r[1]] = r[2]
             \/ \E k \in DOMAIN toWorker' :
                  toWorker'[k].type = "invoke" /\ toWorker'[k].id = r[1] /\ toWorker'[k].call = r[2]
             \/ \E k \in DOMAIN toClient' :
                  toClient'[k].ok /\ toClient'[k].id = r[1] /\ toClient'[k].value = r[2]
      BY <1>1 DEF Requests
    <2> QED
      BY <2>1, Members
  <1>2. Requests' \subseteq Requests
    BY <1>1
  <1>3. \A r \in Requests : r[1] \in Nat /\ r[2] \in Calls
    BY DEF Requests
  <1>4. OneRequest /\ sequence \in Nat
    BY DEF IInv, TypeOK
  <1>5. \A r \in Requests' : r[1] <= sequence'
    BY <1>2, <1>3, <1>4 DEF OneRequest
  <1> QED
    BY <1>2, <1>3, <1>4, <1>5 DEF OneRequest

(* The worker moves requests about and makes up none. *)
LEMMA RequestsTurn == ASSUME IInv, WorkerTurn PROVE OneRequest'
  <1> DEFINE m == Head(toWorker)
  <1>1. Maps /\ QueuedIds /\ Shapes /\ sequence \in Nat
    BY TypeParts DEF IInv, Flat
  <1>2. UNCHANGED <<sequence, pending, outcome>>
    BY DEF WorkerTurn, Execute, Decline, AbortController, client, promises
  <1>3. PICK type \in {"invoke", "cancel"} : Take(type)
    BY DEF WorkerTurn, Execute, Decline, AbortController
  <1>4. /\ m = toWorker[1] /\ 1 \in DOMAIN toWorker /\ m.id \in 1 .. sequence
        /\ \A k \in DOMAIN toWorker' : k + 1 \in DOMAIN toWorker /\ toWorker'[k] = toWorker[k + 1]
    BY <1>1, <1>2, <1>3, MessageTaken
  <1>5. \A k \in DOMAIN toWorker' :
          toWorker'[k].type = "invoke" => <<toWorker'[k].id, toWorker'[k].call>> \in Requests
    BY <1>4, Members
  <1>6. ASSUME NEW k \in DOMAIN toClient', toClient'[k].ok, toClient'[k].value \in Calls
        PROVE  <<toClient'[k].id, toClient'[k].value>> \in Requests
    <2>1. k \in DOMAIN toClient /\ toClient'[k] = toClient[k]
      <3>1. CASE toClient' = toClient
        BY <3>1
      <3>2. CASE Decline
        <4>1. Post(Reply(m.id, FALSE, Nobody))
          BY <3>2 DEF Decline
        <4>2. \/ k \in DOMAIN toClient /\ toClient'[k] = toClient[k]
              \/ toClient'[k] = Reply(m.id, FALSE, Nobody)
          BY <4>1, <1>1, <1>2, <1>4, ReplyPosted
        <4> QED
          BY <4>2, <1>6 DEF Reply
      <3> QED
        BY <3>1, <3>2 DEF WorkerTurn, Execute, AbortController
    <2> QED
      BY <2>1, <1>6, Members
  <1>7. ASSUME NEW i \in DOMAIN controllers' PROVE <<i, controllers'[i]>> \in Requests
    <2>1. CASE controllers' = controllers
      BY <2>1, Members
    <2>2. CASE Execute
      <3>1. controllers' = [j \in DOMAIN controllers \cup {m.id} |->
                              IF j = m.id THEN m.call ELSE controllers[j]]
        BY <2>2 DEF Execute
      <3>2. <<m.id, m.call>> \in Requests
        <4>1. m.type = "invoke"
          BY <2>2 DEF Execute, Take
        <4> QED
          BY <4>1, <1>4, Members
      <3>3. CASE i = m.id
        BY <3>1, <3>2, <3>3
      <3>4. CASE i # m.id
        BY <3>1, <3>4, Members
      <3> QED
        BY <3>3, <3>4
    <2> QED
      BY <2>1, <2>2 DEF WorkerTurn, Decline, AbortController, worker
  <1>8. sequence' \in Nat /\ sequence <= sequence'
    BY <1>1, <1>2
  <1> QED
    BY <1>2, <1>5, <1>6, <1>7, <1>8, RequestsKept

LEMMA RequestsFinish ==
    ASSUME IInv, NEW id \in DOMAIN controllers, NEW ok \in BOOLEAN, Finish(id, ok)
    PROVE  OneRequest'
  <1> DEFINE v == IF ok THEN controllers[id] ELSE Nobody
  <1>1. Maps /\ QueuedIds /\ Shapes /\ sequence \in Nat
    BY TypeParts DEF IInv, Flat
  <1>2. /\ UNCHANGED <<sequence, pending, outcome, toWorker>> /\ Post(Reply(id, ok, v))
        /\ controllers' = [i \in DOMAIN controllers \ {id} |-> controllers[i]]
    BY DEF Finish, client, promises
  <1>3. id \in 1 .. sequence /\ v \in Calls \cup {Nobody} /\ (ok => v \in Calls)
    BY <1>1 DEF Maps, Shapes
  <1>4. ASSUME NEW k \in DOMAIN toClient', toClient'[k].ok, toClient'[k].value \in Calls
        PROVE  <<toClient'[k].id, toClient'[k].value>> \in Requests
    <2>1. \/ k \in DOMAIN toClient /\ toClient'[k] = toClient[k]
          \/ toClient'[k] = Reply(id, ok, v)
      BY <1>1, <1>2, <1>3, ReplyPosted
    <2>2. CASE k \in DOMAIN toClient /\ toClient'[k] = toClient[k]
      BY <2>2, <1>4, Members
    <2>3. CASE toClient'[k] = Reply(id, ok, v)
      <3>1. ok /\ toClient'[k].id = id /\ toClient'[k].value = controllers[id]
        BY <2>3, <1>4 DEF Reply
      <3> QED
        BY <3>1, Members
    <2> QED
      BY <2>1, <2>2, <2>3
  <1>5. \A i \in DOMAIN controllers' : <<i, controllers'[i]>> \in Requests
    BY <1>2, Members
  <1>6. \A k \in DOMAIN toWorker' :
          toWorker'[k].type = "invoke" => <<toWorker'[k].id, toWorker'[k].call>> \in Requests
    BY <1>2, Members
  <1>7. sequence' \in Nat /\ sequence <= sequence'
    BY <1>1, <1>2
  <1> QED
    BY <1>2, <1>4, <1>5, <1>6, <1>7, RequestsKept

(* No two identifiers stand for one call. *)
LEMMA PendingOnce ==
    ASSUME IInv, NEW i \in DOMAIN pending, NEW j \in DOMAIN pending, pending[i] = pending[j]
    PROVE  i = j
  <1>1. <<i, pending[i]>> \in Requests /\ <<j, pending[j]>> \in Requests
    BY Members
  <1> QED
    BY <1>1 DEF IInv, OneRequest

LEMMA RequestsSettled ==
    ASSUME IInv, \/ \E s \in Signals : Abort(s)
                 \/ Receive
                 \/ Fail
    PROVE  OneRequest'
  <1>1. Shapes /\ TypeOK /\ sequence \in Nat /\ sequence' = sequence /\ controllers' = controllers
    BY DEF IInv, TypeOK, Abort, Receive, Fail, worker
  <1>2. \A c \in Calls : outcome[c] # "idle" => outcome'[c] # "idle"
    BY TypeAbort, TypeReceive, TypeFail, PendingWaits DEF Abort, Receive, Fail, Settle, promises, Listening, IInv, TypeOK
  <1>3. \A i \in DOMAIN pending' : i \in DOMAIN pending /\ pending'[i] = pending[i]
    <2>1. CASE pending' = pending
      BY <2>1
    <2>2. CASE pending' = <<>>
      BY <2>2
    <2>3. ASSUME NEW ids, Forget(ids)
          PROVE  \A i \in DOMAIN pending' : i \in DOMAIN pending /\ pending'[i] = pending[i]
      BY <2>3 DEF Forget
    <2> QED
      BY <2>1, <2>2, <2>3 DEF Abort, Receive, Fail
  <1>4. \A k \in DOMAIN toWorker' :
          toWorker'[k].type = "invoke" => k \in DOMAIN toWorker /\ toWorker'[k] = toWorker[k]
    <2>1. CASE toWorker' = toWorker
      BY <2>1
    <2>2. ASSUME NEW s \in Signals, Abort(s)
          PROVE  \A k \in DOMAIN toWorker' :
                   toWorker'[k].type = "invoke" => k \in DOMAIN toWorker /\ toWorker'[k] = toWorker[k]
      BY <1>1, <2>2, CancelsPosted
    <2> QED
      BY <2>1, <2>2 DEF Receive, Fail
  <1>5. \A k \in DOMAIN toClient' : \E j \in DOMAIN toClient : toClient'[k] = toClient[j]
    <2>1. CASE toClient' = toClient
      BY <2>1
    <2>2. CASE toClient' = <<>>
      BY <2>2
    <2>3. CASE toClient # <<>> /\ toClient' = Tail(toClient)
      BY <2>3, <1>1, Taken DEF Shapes
    <2> QED
      BY <2>1, <2>2, <2>3 DEF Abort, Receive, Fail
  <1>6. \A i \in DOMAIN controllers' : <<i, controllers'[i]>> \in Requests
    BY <1>1, Members
  <1>7. \A k \in DOMAIN toWorker' :
          toWorker'[k].type = "invoke" => <<toWorker'[k].id, toWorker'[k].call>> \in Requests
    BY <1>4, Members
  <1>8. \A k \in DOMAIN toClient' :
          toClient'[k].ok /\ toClient'[k].value \in Calls =>
            <<toClient'[k].id, toClient'[k].value>> \in Requests
    BY <1>5, Members
  <1>9. sequence' \in Nat /\ sequence <= sequence'
    BY <1>1
  <1> QED
    BY <1>1, <1>2, <1>3, <1>6, <1>7, <1>8, <1>9, RequestsKept

LEMMA RequestsRequest ==
    ASSUME IInv, NEW c \in Calls, RequestRefused(c) \/ RequestPosted(c) \/ RequestUnsent(c)
    PROVE  OneRequest'
  <1>1. Shapes /\ TypeOK /\ OneRequest /\ sequence \in Nat /\ outcome[c] = "idle"
    BY DEF IInv, TypeOK, RequestRefused, RequestPosted, RequestUnsent
  <1>2. UNCHANGED <<toClient, controllers>>
    BY DEF RequestRefused, RequestPosted, RequestUnsent, worker
  <1>3. outcome'[c] # "idle" /\ \A d \in Calls : d # c => outcome'[d] = outcome[d]
    BY <1>1 DEF RequestRefused, RequestPosted, RequestUnsent, Settle, TypeOK
  <1>4. CASE RequestRefused(c) \/ RequestUnsent(c)
    <2>1. UNCHANGED <<pending, toWorker>> /\ sequence' \in Nat /\ sequence <= sequence'
      BY <1>1, <1>4 DEF RequestRefused, RequestUnsent, client
    <2> QED
      BY <1>1, <1>2, <1>3, <2>1, Members, RequestsKept
  <1>5. CASE RequestPosted(c)
    <2> DEFINE new == <<FreshId, c>>
    <2>1. /\ sequence' = FreshId /\ FreshId = sequence + 1 /\ FreshId \in Nat
          /\ pending' = [i \in DOMAIN pending \cup {FreshId} |-> IF i = FreshId THEN c ELSE pending[i]]
          /\ toWorker' = Append(toWorker, Invoke(FreshId, c))
      BY <1>1, <1>5 DEF RequestPosted, FreshId
    <2>2. Invoke(FreshId, c) \in Message /\ toWorker \in Seq(Message)
      BY <1>1, <2>1 DEF Invoke, Message, Shapes
    <2>3. /\ DOMAIN toWorker' = DOMAIN toWorker \cup {Len(toWorker) + 1}
          /\ toWorker'[Len(toWorker) + 1] = Invoke(FreshId, c)
          /\ \A k \in DOMAIN toWorker : toWorker'[k] = toWorker[k]
      BY <2>1, <2>2, Appended
    <2>4. ASSUME NEW r \in Requests' PROVE r \in Requests \/ r = new
      <3>1. /\ r = <<r[1], r[2]>> /\ r[2] \in Calls
            /\ \/ r[1] \in DOMAIN pending' /\ pending'[r[1]] = r[2]
               \/ r[1] \in DOMAIN controllers' /\ controllers'[r[1]] = r[2]
               \/ \E k \in DOMAIN toWorker' :
                    toWorker'[k].type = "invoke" /\ toWorker'[k].id = r[1] /\ toWorker'[k].call = r[2]
               \/ \E k \in DOMAIN toClient' :
                    toClient'[k].ok /\ toClient'[k].id = r[1] /\ toClient'[k].value = r[2]
        BY <2>4 DEF Requests
      <3>2. CASE r[1] \in DOMAIN pending' /\ pending'[r[1]] = r[2]
        <4>1. CASE r[1] = FreshId
          BY <4>1, <3>1, <3>2, <2>1
        <4>2. CASE r[1] # FreshId
          BY <4>2, <3>1, <3>2, <2>1, Members
        <4> QED
          BY <4>1, <4>2
      <3>3. CASE r[1] \in DOMAIN controllers' /\ controllers'[r[1]] = r[2]
        BY <3>1, <3>3, <1>2, Members
      <3>4. CASE \E k \in DOMAIN toWorker' :
                   toWorker'[k].type = "invoke" /\ toWorker'[k].id = r[1] /\ toWorker'[k].call = r[2]
        <4>1. PICK k \in DOMAIN toWorker' :
                toWorker'[k].type = "invoke" /\ toWorker'[k].id = r[1] /\ toWorker'[k].call = r[2]
          BY <3>4
        <4>2. CASE k \in DOMAIN toWorker
          BY <4>1, <4>2, <2>3, <3>1, Members
        <4>3. CASE toWorker'[k] = Invoke(FreshId, c)
          BY <4>1, <4>3, <3>1 DEF Invoke
        <4> QED
          BY <4>2, <4>3, <2>3
      <3>5. CASE \E k \in DOMAIN toClient' :
                   toClient'[k].ok /\ toClient'[k].id = r[1] /\ toClient'[k].value = r[2]
        BY <3>1, <3>5, <1>2, Members
      <3> QED
        BY <3>1, <3>2, <3>3, <3>4, <3>5
    <2>5. \A r \in Requests : r[1] \in Nat /\ r[1] # FreshId /\ r[1] <= sequence' /\ r[2] \in Calls /\ r[2] # c
      <3>1. \A r \in Requests : r[1] \in Nat /\ r[2] \in Calls
        BY DEF Requests
      <3>2. \A r \in Requests : r[1] <= sequence /\ r[2] # c
        BY <1>1 DEF OneRequest
      <3> QED
        BY <3>1, <3>2, <2>1, <1>1
    <2>6. new[1] = FreshId /\ new[2] = c
      OBVIOUS
    <2>7. \A r \in Requests' : r[1] <= sequence' /\ outcome'[r[2]] # "idle"
      <3>1. \A r \in Requests : outcome'[r[2]] # "idle"
        BY <1>1, <1>3, <2>5 DEF OneRequest
      <3>2. new[1] <= sequence'
        BY <2>1
      <3> QED
        BY <3>1, <3>2, <2>4, <2>5, <2>6, <1>3
    <2>8. \A r, q \in Requests' : r[1] = q[1] <=> r[2] = q[2]
      BY <2>4, <2>5, <2>6, <1>1 DEF OneRequest
    <2> QED
      BY <2>7, <2>8 DEF OneRequest
  <1> QED
    BY <1>4, <1>5

----------------------------------------------------------------------------
(* The calls that wait are those pending.                                    *)

LEMMA WaitsRequest ==
    ASSUME IInv, NEW c \in Calls, RequestRefused(c) \/ RequestPosted(c) \/ RequestUnsent(c)
    PROVE  Waits'
  <1>1. TypeOK /\ Waits /\ outcome[c] = "idle" /\ \A d \in Calls : d # c => outcome'[d] = outcome[d]
    BY DEF IInv, TypeOK, RequestRefused, RequestPosted, RequestUnsent, Settle
  <1>2. ~ \E i \in DOMAIN pending : pending[i] = c
    BY <1>1, PendingWaits
  <1>3. CASE RequestRefused(c) \/ RequestUnsent(c)
    <2>1. pending' = pending /\ outcome'[c] # "waiting"
      BY <1>1, <1>3 DEF RequestRefused, RequestUnsent, Settle, TypeOK, client
    <2> QED
      BY <2>1, <1>1, <1>2 DEF Waits
  <1>4. CASE RequestPosted(c)
    <2>1. /\ outcome'[c] = "waiting"
          /\ pending' = [i \in DOMAIN pending \cup {FreshId} |-> IF i = FreshId THEN c ELSE pending[i]]
      BY <1>1, <1>4 DEF RequestPosted, Settle, TypeOK
    <2>2. FreshId \notin DOMAIN pending
      BY <1>1 DEF FreshId, TypeOK
    <2>3. pending'[FreshId] = c /\ FreshId \in DOMAIN pending'
      BY <2>1
    <2>4. \A i \in DOMAIN pending : i \in DOMAIN pending' /\ pending'[i] = pending[i]
      BY <2>1, <2>2
    <2>5. \A i \in DOMAIN pending' : i = FreshId \/ i \in DOMAIN pending
      BY <2>1
    <2> QED
      BY <2>1, <2>3, <2>4, <2>5, <1>1, <1>2 DEF Waits
  <1> QED
    BY <1>3, <1>4

(* Some pending calls are settled and forgotten, all others left alone. *)
LEMMA WaitsSettled ==
    ASSUME IInv, NEW ids \in SUBSET DOMAIN pending,
           DOMAIN pending' = DOMAIN pending \ ids,
           \A i \in DOMAIN pending' : pending'[i] = pending[i],
           \A i \in ids : outcome'[pending[i]] # "waiting",
           \A c \in Calls : (~ \E i \in ids : pending[i] = c) => outcome'[c] = outcome[c]
    PROVE  Waits'
  <1>1. \A i, j \in DOMAIN pending : pending[i] = pending[j] => i = j
    BY PendingOnce
  <1>2. Waits
    BY DEF IInv
  <1>3. ASSUME NEW c \in Calls PROVE outcome'[c] = "waiting" <=> \E i \in DOMAIN pending' : pending'[i] = c
    <2>1. CASE \E i \in ids : pending[i] = c
      BY <2>1, <1>1
    <2>2. CASE ~ \E i \in ids : pending[i] = c
      BY <2>2, <1>2 DEF Waits
    <2> QED
      BY <2>1, <2>2
  <1> QED
    BY <1>3 DEF Waits

LEMMA WaitsOver ==
    ASSUME IInv, \/ \E s \in Signals : Abort(s)
                 \/ Receive
                 \/ Fail
    PROVE  Waits'
  <1>1. TypeOK /\ Waits
    BY DEF IInv
  <1>2. ASSUME NEW s \in Signals, Abort(s) PROVE Waits'
    <2>1. /\ pending' = [i \in DOMAIN pending \ Listening(s) |-> pending[i]]
          /\ outcome' = [c \in Calls |-> IF \E i \in Listening(s) : pending[i] = c
                                         THEN "aborted" ELSE outcome[c]]
      BY <1>2 DEF Abort, Forget
    <2>2. Listening(s) \in SUBSET DOMAIN pending
      BY DEF Listening
    <2>3. \A i \in Listening(s) : pending[i] \in Calls
      BY <2>2, PendingWaits
    <2>4. \A i \in Listening(s) : outcome'[pending[i]] # "waiting"
      BY <2>1, <2>3
    <2> QED
      BY <2>1, <2>2, <2>4, WaitsSettled
  <1>3. CASE Receive
    <2> DEFINE r == Head(toClient)
    <2>1. CASE r.id \notin DOMAIN pending
      <3>1. pending' = pending /\ outcome' = outcome
        BY <1>3, <2>1 DEF Receive, promises
      <3> QED
        BY <3>1, <1>1 DEF Waits
    <2>2. CASE r.id \in DOMAIN pending
      <3>1. /\ pending' = [i \in DOMAIN pending \ {r.id} |-> pending[i]]
            /\ outcome' = [outcome EXCEPT ![pending[r.id]] = IF r.ok THEN "answered" ELSE "refused"]
        BY <1>3, <2>2 DEF Receive, Forget, Settle
      <3>2. pending[r.id] \in Calls
        BY <2>2, PendingWaits
      <3>3. outcome'[pending[r.id]] # "waiting"
        BY <3>1, <3>2, <1>1 DEF TypeOK
      <3>4. \A c \in Calls : pending[r.id] # c => outcome'[c] = outcome[c]
        BY <3>1, <1>1 DEF TypeOK
      <3>5. {r.id} \in SUBSET DOMAIN pending
        BY <2>2
      <3>6. \A i \in {r.id} : outcome'[pending[i]] # "waiting"
        BY <3>3
      <3>7. \A c \in Calls : (~ \E i \in {r.id} : pending[i] = c) => outcome'[c] = outcome[c]
        BY <3>4
      <3> QED
        BY <3>1, <3>5, <3>6, <3>7, WaitsSettled
    <2> QED
      BY <2>1, <2>2
  <1>4. CASE Fail
    <2>1. /\ pending' = <<>> /\ DOMAIN pending' = {}
          /\ outcome' = [c \in Calls |-> IF \E i \in DOMAIN pending : pending[i] = c
                                         THEN "failed" ELSE outcome[c]]
      BY <1>4 DEF Fail
    <2>2. \A i \in DOMAIN pending : outcome'[pending[i]] # "waiting"
      BY <2>1, PendingWaits
    <2> QED
      BY <2>1, <2>2, WaitsSettled
  <1> QED
    BY <1>2, <1>3, <1>4

----------------------------------------------------------------------------
(* Where a waiting call is held.                                             *)

LEMMA SentTaken ==
    ASSUME Shapes, QueuedIds, NEW type, Take(type), sequence' = sequence, NEW i \in Nat
    PROVE  /\ Sent[i] \in Nat /\ Sent'[i] \in Nat
           /\ Sent[i] = Sent'[i] + (IF type = "invoke" /\ Head(toWorker).id = i THEN 1 ELSE 0)
  <1> DEFINE n == Len(toWorker)
             A == {k \in DOMAIN toWorker : toWorker[k].type = "invoke" /\ toWorker[k].id = i}
             B == {k \in DOMAIN toWorker' : toWorker'[k].type = "invoke" /\ toWorker'[k].id = i}
  <1>1. /\ n \in Nat \ {0} /\ DOMAIN toWorker = 1 .. n /\ DOMAIN toWorker' = 1 .. (n - 1)
        /\ Head(toWorker) = toWorker[1] /\ Head(toWorker).type = type
        /\ \A k \in DOMAIN toWorker' : toWorker'[k] = toWorker[k + 1]
    BY MessageTaken
  <1>2. A \in SUBSET (1 .. n) /\ B = {k \in 1 .. (n - 1) : k + 1 \in A}
    BY <1>1
  <1>3. 1 \in A <=> type = "invoke" /\ Head(toWorker).id = i
    BY <1>1
  <1>4. Sent[i] = Cardinality(A) /\ Sent'[i] = Cardinality(B)
    BY DEF Sent
  <1> HIDE DEF A, B
  <1>5. /\ Cardinality(A) \in Nat /\ Cardinality(B) \in Nat
        /\ Cardinality(A) = Cardinality(B) + (IF 1 \in A THEN 1 ELSE 0)
    BY <1>1, <1>2, ShiftedCount
  <1> QED
    BY <1>3, <1>4, <1>5

LEMMA SentIsNat ==
    ASSUME Shapes, NEW i \in Nat PROVE Sent[i] \in Nat
  <1> DEFINE A == {k \in DOMAIN toWorker : toWorker[k].type = "invoke" /\ toWorker[k].id = i}
  <1>1. Len(toWorker) \in Nat /\ A \subseteq 1 .. Len(toWorker)
    BY DEF Shapes
  <1>2. IsFiniteSet(1 .. Len(toWorker))
    BY <1>1, FS_Interval
  <1>3. Cardinality(A) \in Nat
    BY <1>1, <1>2, FS_Subset, FS_CardinalityType
  <1> QED
    BY <1>3 DEF Sent

LEMMA BackIsNat ==
    ASSUME Shapes, NEW i \in Nat PROVE Back[i] \in Nat
  <1> DEFINE A == {k \in DOMAIN toClient : toClient[k].id = i}
  <1>1. Len(toClient) \in Nat /\ A \subseteq 1 .. Len(toClient)
    BY DEF Shapes
  <1>2. IsFiniteSet(1 .. Len(toClient))
    BY <1>1, FS_Interval
  <1>3. Cardinality(A) \in Nat
    BY <1>1, <1>2, FS_Subset, FS_CardinalityType
  <1> QED
    BY <1>3 DEF Back

LEMMA BackTaken ==
    ASSUME Shapes, toClient # <<>>, toClient' = Tail(toClient), NEW i \in Nat, Head(toClient).id # i
    PROVE  Back'[i] = Back[i]
  <1> DEFINE n == Len(toClient)
             A == {k \in DOMAIN toClient : toClient[k].id = i}
             B == {k \in DOMAIN toClient' : toClient'[k].id = i}
  <1>1. toClient \in Seq(Answer)
    BY DEF Shapes
  <1>2. /\ n \in Nat \ {0} /\ DOMAIN toClient = 1 .. n /\ DOMAIN toClient' = 1 .. (n - 1)
        /\ Head(toClient) = toClient[1]
        /\ \A k \in DOMAIN toClient' : toClient'[k] = toClient[k + 1]
    BY <1>1, Taken
  <1>3. A \in SUBSET (1 .. n) /\ B = {k \in 1 .. (n - 1) : k + 1 \in A} /\ 1 \notin A
    BY <1>2
  <1>4. Back[i] = Cardinality(A) /\ Back'[i] = Cardinality(B)
    BY DEF Back
  <1> HIDE DEF A, B
  <1>5. /\ Cardinality(A) \in Nat /\ Cardinality(B) \in Nat
        /\ Cardinality(A) = Cardinality(B) + (IF 1 \in A THEN 1 ELSE 0)
    BY <1>2, <1>3, ShiftedCount
  <1> QED
    BY <1>3, <1>4, <1>5

LEMMA BackPosted ==
    ASSUME Shapes, ~closed, NEW id \in Nat, NEW ok \in BOOLEAN, NEW v \in Calls \cup {Nobody}, ok => v \in Calls,
           Post(Reply(id, ok, v)), NEW i \in Nat
    PROVE  /\ Back[i] \in Nat /\ Back'[i] \in Nat
           /\ Back'[i] = Back[i] + (IF i = id THEN 1 ELSE 0)
  <1> DEFINE n == Len(toClient)
             A == {k \in DOMAIN toClient : toClient[k].id = i}
             B == {k \in DOMAIN toClient' : toClient'[k].id = i}
  <1>1. toClient \in Seq(Answer) /\ Reply(id, ok, v) \in Answer /\ toClient' = Append(toClient, Reply(id, ok, v))
    BY DEF Shapes, Reply, Answer, Post
  <1>2. /\ n \in Nat /\ DOMAIN toClient = 1 .. n /\ DOMAIN toClient' = 1 .. n \cup {n + 1}
        /\ toClient'[n + 1] = Reply(id, ok, v)
        /\ \A k \in 1 .. n : toClient'[k] = toClient[k]
    BY <1>1, Appended
  <1>3. Back[i] = Cardinality(A) /\ Back'[i] = Cardinality(B)
    BY DEF Back
  <1>4. A \subseteq 1 .. n /\ n + 1 \notin A /\ B = IF i = id THEN A \cup {n + 1} ELSE A
    BY <1>2 DEF Reply
  <1> HIDE DEF A, B
  <1>5. IsFiniteSet(A)
    <2>1. IsFiniteSet(1 .. n)
      BY <1>2, FS_Interval
    <2> QED
      BY <1>4, <2>1, FS_Subset
  <1>6. Cardinality(A) \in Nat /\ Cardinality(A \cup {n + 1}) = Cardinality(A) + 1
    BY <1>4, <1>5, FS_AddElement, FS_CardinalityType
  <1> QED
    BY <1>3, <1>4, <1>6

(* A step of the worker holds each request once more than it lets it go.     *)
LEMMA HeldTurn == ASSUME IInv, WorkerTurn PROVE HeldOnce'
  <1> DEFINE m == Head(toWorker)
  <1>1. Maps /\ QueuedIds /\ Shapes /\ HeldOnce /\ sequence \in Nat
    BY TypeParts DEF IInv, Flat
  <1>2. UNCHANGED <<sequence, pending, closed>>
    BY DEF WorkerTurn, Execute, Decline, AbortController, client
  <1>3. SUFFICES ASSUME NEW i \in DOMAIN pending' PROVE Sent'[i] + Back'[i] + AtWork'[i] = 1
    BY DEF HeldOnce
  <1>4. i \in DOMAIN pending /\ i \in Nat /\ ~closed
    BY <1>1, <1>2 DEF Maps, Shapes
  <1>5. Sent[i] + Back[i] + AtWork[i] = 1
    BY <1>1, <1>4 DEF HeldOnce
  <1>6. CASE Execute
    <2>1. Take("invoke") /\ UNCHANGED toClient /\ m.id \notin DOMAIN controllers
          /\ DOMAIN controllers' = DOMAIN controllers \cup {m.id}
      BY <1>6 DEF Execute, Acceptable
    <2>2. Sent[i] \in Nat /\ Sent'[i] \in Nat /\ Sent[i] = Sent'[i] + (IF m.id = i THEN 1 ELSE 0)
      BY <1>1, <1>2, <1>4, <2>1, SentTaken
    <2>3. Back'[i] = Back[i]
      BY <2>1 DEF Back
    <2>4. AtWork'[i] = AtWork[i] + (IF m.id = i THEN 1 ELSE 0) /\ AtWork[i] \in Nat
      BY <2>1, <1>4 DEF AtWork
    <2>5. Back[i] \in Nat
      BY <1>1, <1>4, BackIsNat
    <2> QED
      BY <1>5, <2>2, <2>3, <2>4, <2>5
  <1>7. CASE Decline
    <2>1. Take("invoke") /\ UNCHANGED controllers /\ Post(Reply(m.id, FALSE, Nobody))
      BY <1>7 DEF Decline, worker
    <2>2. m.id \in 1 .. sequence
      BY <1>1, <1>2, <2>1, MessageTaken
    <2>3. Sent[i] \in Nat /\ Sent'[i] \in Nat /\ Sent[i] = Sent'[i] + (IF m.id = i THEN 1 ELSE 0)
      BY <1>1, <1>2, <1>4, <2>1, SentTaken
    <2>4. /\ Back[i] \in Nat /\ Back'[i] \in Nat /\ Back'[i] = Back[i] + (IF i = m.id THEN 1 ELSE 0)
      <3>1. m.id \in Nat /\ FALSE \in BOOLEAN /\ Nobody \in Calls \cup {Nobody}
        BY <2>2, <1>1
      <3> QED
        BY <1>1, <1>4, <2>1, <3>1, BackPosted
    <2>5. AtWork'[i] = AtWork[i] /\ AtWork[i] \in Nat
      BY <2>1, <1>4 DEF AtWork
    <2> QED
      BY <1>5, <2>3, <2>4, <2>5
  <1>8. CASE AbortController
    <2>1. Take("cancel") /\ UNCHANGED <<toClient, controllers>>
      BY <1>8 DEF AbortController
    <2>2. Sent[i] = Sent'[i] + 0 /\ Sent'[i] \in Nat
      BY <1>1, <1>2, <1>4, <2>1, SentTaken
    <2>3. Back' = Back /\ AtWork' = AtWork
      BY <2>1 DEF Back, AtWork
    <2> QED
      BY <1>5, <2>2, <2>3
  <1> QED
    BY <1>6, <1>7, <1>8 DEF WorkerTurn

LEMMA HeldFinish ==
    ASSUME IInv, NEW id \in DOMAIN controllers, NEW ok \in BOOLEAN, Finish(id, ok)
    PROVE  HeldOnce'
  <1> DEFINE v == IF ok THEN controllers[id] ELSE Nobody
  <1>1. Maps /\ QueuedIds /\ Shapes /\ HeldOnce /\ sequence \in Nat
    BY TypeParts DEF IInv, Flat
  <1>2. /\ UNCHANGED <<sequence, pending, closed, toWorker>> /\ Post(Reply(id, ok, v))
        /\ DOMAIN controllers' = DOMAIN controllers \ {id}
    BY DEF Finish, client
  <1>3. id \in Nat /\ v \in Calls \cup {Nobody} /\ (ok => v \in Calls)
    BY <1>1 DEF Maps, Shapes
  <1>4. SUFFICES ASSUME NEW i \in DOMAIN pending' PROVE Sent'[i] + Back'[i] + AtWork'[i] = 1
    BY DEF HeldOnce
  <1>5. i \in DOMAIN pending /\ i \in Nat /\ ~closed
    BY <1>1, <1>2 DEF Maps, Shapes
  <1>6. Sent[i] + Back[i] + AtWork[i] = 1
    BY <1>1, <1>5 DEF HeldOnce
  <1>7. Sent'[i] = Sent[i]
    BY <1>2 DEF Sent
  <1>8. Back[i] \in Nat /\ Back'[i] \in Nat /\ Back'[i] = Back[i] + (IF i = id THEN 1 ELSE 0)
    BY <1>1, <1>2, <1>3, <1>5, BackPosted
  <1>9. AtWork[i] = AtWork'[i] + (IF i = id THEN 1 ELSE 0) /\ AtWork[i] \in Nat /\ AtWork'[i] \in Nat
    BY <1>2, <1>5 DEF AtWork
  <1>10. Sent[i] \in Nat
    BY <1>1, <1>5, SentIsNat
  <1> QED
    BY <1>6, <1>7, <1>8, <1>9, <1>10

(* The first message of a new identifier, which nothing else mentions. *)
LEMMA HeldPosted == ASSUME IInv, NEW c \in Calls, RequestPosted(c) PROVE HeldOnce'
  <1> DEFINE id == sequence + 1
             n == Len(toWorker)
  <1>1. Maps /\ QueuedIds /\ Shapes /\ HeldOnce /\ sequence \in Nat
    BY TypeParts DEF IInv, Flat
  <1>2. /\ toWorker' = Append(toWorker, Invoke(id, c)) /\ DOMAIN pending' = DOMAIN pending \cup {id}
        /\ UNCHANGED <<toClient, controllers>>
    BY DEF RequestPosted, FreshId, worker
  <1>3. toWorker \in Seq(Message) /\ Invoke(id, c) \in Message
    BY <1>1 DEF Shapes, Invoke, Message
  <1>4. /\ n \in Nat /\ DOMAIN toWorker = 1 .. n /\ DOMAIN toWorker' = 1 .. n \cup {n + 1}
        /\ toWorker'[n + 1] = Invoke(id, c) /\ \A k \in 1 .. n : toWorker'[k] = toWorker[k]
    BY <1>2, <1>3, Appended
  <1>5. Back' = Back /\ AtWork' = AtWork
    BY <1>2 DEF Back, AtWork
  <1>6. ASSUME NEW i \in DOMAIN pending PROVE Sent'[i] + Back'[i] + AtWork'[i] = 1
    <2>1. i \in Nat /\ i # id
      BY <1>1 DEF Maps
    <2>2. {k \in DOMAIN toWorker' : toWorker'[k].type = "invoke" /\ toWorker'[k].id = i}
            = {k \in DOMAIN toWorker : toWorker[k].type = "invoke" /\ toWorker[k].id = i}
      BY <1>4, <2>1 DEF Invoke
    <2>3. Sent'[i] = Sent[i]
      BY <2>1, <2>2 DEF Sent
    <2> QED
      BY <1>1, <1>5, <2>3 DEF HeldOnce
  <1>7. Sent'[id] + Back'[id] + AtWork'[id] = 1
    <2>1. id \in Nat /\ id \notin 1 .. sequence
      BY <1>1
    <2>2. {k \in DOMAIN toWorker' : toWorker'[k].type = "invoke" /\ toWorker'[k].id = id} = {n + 1}
      <3>1. \A k \in 1 .. n : toWorker'[k].id # id
        BY <1>1, <1>4, <2>1 DEF QueuedIds
      <3>2. toWorker'[n + 1].type = "invoke" /\ toWorker'[n + 1].id = id
        BY <1>4 DEF Invoke
      <3> QED
        BY <1>4, <3>1, <3>2
    <2>3. Sent'[id] = 1
      BY <2>1, <2>2, FS_Singleton DEF Sent
    <2>4. {k \in DOMAIN toClient : toClient[k].id = id} = {}
      BY <1>1, <2>1 DEF QueuedIds
    <2>5. Back[id] = 0
      BY <2>1, <2>4, FS_EmptySet DEF Back
    <2>6. AtWork[id] = 0
      BY <1>1, <2>1 DEF Maps, AtWork
    <2> QED
      BY <1>5, <2>3, <2>5, <2>6
  <1> QED
    BY <1>2, <1>6, <1>7 DEF HeldOnce

LEMMA HeldOthers ==
    ASSUME IInv, \/ \E c \in Calls : RequestRefused(c) \/ RequestUnsent(c)
                 \/ \E s \in Signals : Abort(s)
                 \/ Receive
                 \/ Fail
    PROVE  HeldOnce'
  <1>1. Maps /\ QueuedIds /\ Shapes /\ TypeOK /\ HeldOnce /\ sequence \in Nat
    BY TypeParts DEF IInv, Flat
  <1>2. ASSUME NEW c \in Calls, RequestRefused(c) \/ RequestUnsent(c) PROVE HeldOnce'
    <2>1. UNCHANGED <<pending, toWorker, toClient, controllers>>
      BY <1>2 DEF RequestRefused, RequestUnsent, client, worker
    <2> QED
      BY <2>1, <1>1 DEF HeldOnce, Sent, Back, AtWork
  <1>3. ASSUME NEW s \in Signals, Abort(s) PROVE HeldOnce'
    <2>1. /\ pending' = [i \in DOMAIN pending \ Listening(s) |-> pending[i]]
          /\ UNCHANGED <<toClient, controllers>>
      BY <1>3 DEF Abort, Forget, worker
    <2>2. /\ DOMAIN toWorker \subseteq DOMAIN toWorker'
          /\ \A k \in DOMAIN toWorker : toWorker'[k] = toWorker[k]
          /\ \A k \in DOMAIN toWorker' \ DOMAIN toWorker : toWorker'[k].type = "cancel"
      BY <1>1, <1>3, CancelsPosted
    <2>3. \A i \in Nat :
            {k \in DOMAIN toWorker' : toWorker'[k].type = "invoke" /\ toWorker'[k].id = i}
              = {k \in DOMAIN toWorker : toWorker[k].type = "invoke" /\ toWorker[k].id = i}
      BY <2>2
    <2>4. Sent' = Sent
      BY <2>3 DEF Sent
    <2>5. Back' = Back /\ AtWork' = AtWork
      BY <2>1 DEF Back, AtWork
    <2> QED
      BY <1>1, <2>1, <2>4, <2>5 DEF HeldOnce
  <1>4. CASE Receive
    <2> DEFINE r == Head(toClient)
    <2>1. toClient # <<>> /\ toClient' = Tail(toClient) /\ UNCHANGED <<toWorker, controllers>>
      BY <1>4 DEF Receive, worker
    <2>2. \A i \in DOMAIN pending' : i \in DOMAIN pending /\ i # r.id
      BY <1>4 DEF Receive, Forget
    <2>3. \A i \in DOMAIN pending : i \in Nat
      BY <1>1 DEF Maps
    <2>4. \A i \in DOMAIN pending' : Back'[i] = Back[i]
      BY <1>1, <2>1, <2>2, <2>3, BackTaken
    <2>5. Sent' = Sent /\ AtWork' = AtWork
      BY <2>1 DEF Sent, AtWork
    <2> QED
      BY <1>1, <2>2, <2>4, <2>5 DEF HeldOnce
  <1>5. CASE Fail
    <2>1. DOMAIN pending' = {}
      BY <1>5 DEF Fail
    <2> QED
      BY <2>1 DEF HeldOnce
  <1> QED
    BY <1>2, <1>3, <1>4, <1>5

----------------------------------------------------------------------------
(* What was cancelled stops.                                                 *)

(* The queue may grow: each call that is aborted now has its cancel in the   *)
(* new part, if anything of it is under way.                                 *)
LEMMA FollowsLonger ==
    ASSUME IInv, UNCHANGED <<controllers, aborted>>,
           DOMAIN toWorker \subseteq DOMAIN toWorker',
           \A k \in DOMAIN toWorker : toWorker'[k] = toWorker[k],
           \A k \in DOMAIN toWorker : \A l \in DOMAIN toWorker' \ DOMAIN toWorker : k < l,
           \A k \in DOMAIN toWorker' \ DOMAIN toWorker :
             toWorker'[k].type = "invoke" => outcome'[toWorker'[k].call] # "aborted",
           \A c \in Calls : outcome'[c] = "aborted" =>
             \/ outcome[c] = "aborted"
             \/ \A r \in Requests : r[2] = c =>
                  \E k \in DOMAIN toWorker' \ DOMAIN toWorker : toWorker'[k] = Cancel(r[1])
    PROVE  CancelFollowsRequest'
  <1> SUFFICES ASSUME NEW c \in Calls, outcome'[c] = "aborted"
               PROVE  /\ \A i \in DOMAIN controllers' : controllers'[i] = c =>
                           i \in aborted' \/ \E k \in DOMAIN toWorker' : toWorker'[k] = Cancel(i)
                      /\ \A k \in DOMAIN toWorker' :
                           toWorker'[k].type = "invoke" /\ toWorker'[k].call = c =>
                             \E l \in DOMAIN toWorker' : l > k /\ toWorker'[l] = Cancel(toWorker'[k].id)
    BY DEF CancelFollowsRequest, Cancel
  <1>1. DOMAIN toWorker \subseteq Nat /\ DOMAIN toWorker' \subseteq DOMAIN toWorker' /\ CancelFollowsRequest
    BY DEF IInv, Shapes
  <1>2. ASSUME NEW i \in DOMAIN controllers, controllers[i] = c
        PROVE  i \in aborted \/ \E k \in DOMAIN toWorker' : toWorker'[k] = Cancel(i)
    <2>1. CASE outcome[c] = "aborted"
      BY <2>1, <1>1, <1>2 DEF CancelFollowsRequest
    <2>2. CASE outcome[c] # "aborted"
      <3>1. <<i, c>> \in Requests
        BY <1>2, Members
      <3> QED
        BY <2>2, <3>1
    <2> QED
      BY <2>1, <2>2
  <1>3. ASSUME NEW k \in DOMAIN toWorker', toWorker'[k].type = "invoke", toWorker'[k].call = c
        PROVE  \E l \in DOMAIN toWorker' : l > k /\ toWorker'[l] = Cancel(toWorker'[k].id)
    <2>1. k \in DOMAIN toWorker /\ toWorker'[k] = toWorker[k]
      BY <1>3
    <2>2. CASE outcome[c] = "aborted"
      <3>1. PICK l \in DOMAIN toWorker : l > k /\ toWorker[l] = Cancel(toWorker[k].id)
        BY <2>1, <2>2, <1>1, <1>3 DEF CancelFollowsRequest
      <3> QED
        BY <2>1, <3>1
    <2>3. CASE outcome[c] # "aborted"
      <3>1. <<toWorker[k].id, c>> \in Requests
        BY <2>1, <1>3, Members
      <3>2. PICK l \in DOMAIN toWorker' \ DOMAIN toWorker : toWorker'[l] = Cancel(toWorker[k].id)
        BY <2>3, <3>1
      <3>3. k < l
        BY <2>1
      <3> QED
        BY <2>1, <3>2, <3>3
    <2> QED
      BY <2>2, <2>3
  <1> QED
    BY <1>2, <1>3

LEMMA FollowsVault ==
    ASSUME IInv, \/ \E c \in Calls : RequestRefused(c) \/ RequestPosted(c) \/ RequestUnsent(c)
                 \/ \E s \in Signals : Abort(s)
                 \/ Receive
                 \/ Fail
    PROVE  CancelFollowsRequest'
  <1>1. Maps /\ QueuedIds /\ Shapes /\ TypeOK /\ OneRequest /\ sequence \in Nat
    BY TypeParts DEF IInv, Flat
  <1>2. UNCHANGED <<controllers, aborted>>
    BY DEF RequestRefused, RequestPosted, RequestUnsent, Abort, Receive, Fail, worker
  <1>3. ASSUME NEW c \in Calls, RequestRefused(c) \/ RequestUnsent(c) PROVE CancelFollowsRequest'
    <2>1. toWorker' = toWorker /\ outcome[c] = "idle"
      BY <1>3 DEF RequestRefused, RequestUnsent
    <2>2. \A r \in Requests : r[2] # c
      BY <1>1, <2>1 DEF OneRequest
    <2>3. \A d \in Calls : d # c => outcome'[d] = outcome[d]
      BY <1>1, <1>3 DEF RequestRefused, RequestUnsent, Settle, TypeOK
    <2>4. \A d \in Calls : outcome'[d] = "aborted" =>
             \/ outcome[d] = "aborted"
             \/ \A r \in Requests : r[2] # d
      BY <2>2, <2>3
    <2> QED
      BY <1>2, <2>1, <2>4, FollowsLonger
  <1>4. ASSUME NEW c \in Calls, RequestPosted(c) PROVE CancelFollowsRequest'
    <2>1. /\ toWorker' = Append(toWorker, Invoke(FreshId, c)) /\ FreshId \in Nat
          /\ outcome' = [outcome EXCEPT ![c] = "waiting"]
      BY <1>1, <1>4 DEF RequestPosted, FreshId, Settle
    <2>2. toWorker \in Seq(Message) /\ Invoke(FreshId, c) \in Message
      BY <1>1, <2>1 DEF Shapes, Invoke, Message
    <2>3. /\ DOMAIN toWorker' = DOMAIN toWorker \cup {Len(toWorker) + 1}
          /\ Len(toWorker) \in Nat /\ DOMAIN toWorker = 1 .. Len(toWorker)
          /\ toWorker'[Len(toWorker) + 1] = Invoke(FreshId, c)
          /\ \A k \in DOMAIN toWorker : toWorker'[k] = toWorker[k]
      BY <2>1, <2>2, Appended
    <2>4. outcome'[c] = "waiting" /\ \A d \in Calls : outcome'[d] = "aborted" => outcome[d] = "aborted"
      BY <2>1, <1>1 DEF TypeOK
    <2>5. \A k \in DOMAIN toWorker : \A l \in DOMAIN toWorker' \ DOMAIN toWorker : k < l
      BY <2>3
    <2>6. \A k \in DOMAIN toWorker' \ DOMAIN toWorker : toWorker'[k].call = c
      BY <2>3 DEF Invoke
    <2> QED
      BY <1>2, <2>3, <2>4, <2>5, <2>6, FollowsLonger
  <1>5. ASSUME NEW s \in Signals, Abort(s) PROVE CancelFollowsRequest'
    <2>1. /\ DOMAIN toWorker \subseteq DOMAIN toWorker'
          /\ \A k \in DOMAIN toWorker : toWorker'[k] = toWorker[k]
          /\ \A k \in DOMAIN toWorker' \ DOMAIN toWorker : toWorker'[k].type = "cancel"
          /\ \A i \in Listening(s) :
               \E k \in DOMAIN toWorker' \ DOMAIN toWorker : toWorker'[k] = Cancel(i)
          /\ \A k \in DOMAIN toWorker : \A l \in DOMAIN toWorker' \ DOMAIN toWorker : k < l
      BY <1>1, <1>5, CancelsPosted
    <2>2. ASSUME NEW c \in Calls, outcome'[c] = "aborted", outcome[c] # "aborted",
                 NEW r \in Requests, r[2] = c
          PROVE  \E k \in DOMAIN toWorker' \ DOMAIN toWorker : toWorker'[k] = Cancel(r[1])
      <3>1. PICK i \in Listening(s) : pending[i] = c
        BY <1>5, <2>2 DEF Abort
      <3>2. i \in DOMAIN pending
        BY DEF Listening
      <3>3. <<i, c>> \in Requests
        BY <3>1, <3>2, Members
      <3>4. r[1] = i
        BY <1>1, <2>2, <3>3 DEF OneRequest
      <3> QED
        BY <2>1, <3>4
    <2> QED
      BY <1>2, <2>1, <2>2, FollowsLonger
  <1>6. CASE Receive \/ Fail
    <2>1. toWorker' = toWorker
      BY <1>6 DEF Receive, Fail
    <2>2. \A c \in Calls : outcome'[c] = "aborted" => outcome[c] = "aborted"
      <3>1. CASE Receive
        <4>1. CASE outcome' = outcome
          BY <4>1
        <4>2. ASSUME NEW d, NEW how \in {"answered", "refused"}, outcome' = [outcome EXCEPT ![d] = how]
              PROVE  \A c \in Calls : outcome'[c] = "aborted" => outcome[c] = "aborted"
          BY <4>2, <1>1 DEF TypeOK
        <4> QED
          BY <3>1, <4>1, <4>2 DEF Receive, Settle, promises
      <3>2. CASE Fail
        BY <3>2 DEF Fail
      <3> QED
        BY <1>6, <3>1, <3>2
    <2> QED
      BY <1>2, <2>1, <2>2, FollowsLonger
  <1> QED
    BY <1>3, <1>4, <1>5, <1>6

LEMMA FollowsTurn == ASSUME IInv, WorkerTurn PROVE CancelFollowsRequest'
  <1> DEFINE m == Head(toWorker)
  <1>1. Maps /\ QueuedIds /\ Shapes /\ CancelFollowsRequest /\ sequence \in Nat
    BY TypeParts DEF IInv, Flat
  <1>2. UNCHANGED <<sequence, outcome>>
    BY DEF WorkerTurn, Execute, Decline, AbortController, client, promises
  <1>3. PICK type \in {"invoke", "cancel"} : Take(type)
    BY DEF WorkerTurn, Execute, Decline, AbortController
  <1>4. /\ m = toWorker[1] /\ m.type = type /\ Len(toWorker) \in Nat \ {0}
        /\ DOMAIN toWorker = 1 .. Len(toWorker) /\ DOMAIN toWorker' = 1 .. (Len(toWorker) - 1)
        /\ \A k \in DOMAIN toWorker' : toWorker'[k] = toWorker[k + 1]
    BY <1>1, <1>2, <1>3, MessageTaken
  <1>5. ASSUME NEW l \in DOMAIN toWorker, l # 1
        PROVE  l - 1 \in DOMAIN toWorker' /\ toWorker'[l - 1] = toWorker[l]
    BY <1>4, <1>5
  <1> SUFFICES ASSUME NEW c \in Calls, outcome'[c] = "aborted"
               PROVE  /\ \A i \in DOMAIN controllers' : controllers'[i] = c =>
                           i \in aborted' \/ \E k \in DOMAIN toWorker' : toWorker'[k] = Cancel(i)
                      /\ \A k \in DOMAIN toWorker' :
                           toWorker'[k].type = "invoke" /\ toWorker'[k].call = c =>
                             \E l \in DOMAIN toWorker' : l > k /\ toWorker'[l] = Cancel(toWorker'[k].id)
    BY DEF CancelFollowsRequest, Cancel
  <1>6. /\ \A i \in DOMAIN controllers : controllers[i] = c =>
             i \in aborted \/ \E k \in DOMAIN toWorker : toWorker[k] = Cancel(i)
        /\ \A k \in DOMAIN toWorker :
             toWorker[k].type = "invoke" /\ toWorker[k].call = c =>
               \E l \in DOMAIN toWorker : l > k /\ toWorker[l] = Cancel(toWorker[k].id)
    BY <1>1, <1>2 DEF CancelFollowsRequest
  <1>7. ASSUME NEW k \in DOMAIN toWorker', toWorker'[k].type = "invoke", toWorker'[k].call = c
        PROVE  \E l \in DOMAIN toWorker' : l > k /\ toWorker'[l] = Cancel(toWorker'[k].id)
    <2>1. k \in Nat /\ k + 1 \in DOMAIN toWorker /\ k >= 1 /\ toWorker'[k] = toWorker[k + 1]
      BY <1>4
    <2>2. PICK l \in DOMAIN toWorker : l > k + 1 /\ toWorker[l] = Cancel(toWorker[k + 1].id)
      BY <1>6, <1>7, <2>1
    <2>3. l \in Nat /\ l # 1 /\ l - 1 > k
      BY <2>1, <2>2, <1>4
    <2>4. l - 1 \in DOMAIN toWorker' /\ toWorker'[l - 1] = Cancel(toWorker'[k].id)
      BY <1>5, <2>1, <2>2, <2>3
    <2> QED
      BY <2>3, <2>4
  <1>8. ASSUME NEW i \in DOMAIN controllers', controllers'[i] = c
        PROVE  i \in aborted' \/ \E k \in DOMAIN toWorker' : toWorker'[k] = Cancel(i)
    <2>1. CASE i \in DOMAIN controllers /\ controllers[i] = c
      <3>1. aborted \subseteq aborted'
        BY DEF WorkerTurn, Execute, Decline, AbortController, worker
      <3>2. ASSUME NEW k \in DOMAIN toWorker, toWorker[k] = Cancel(i)
            PROVE  i \in aborted' \/ \E l \in DOMAIN toWorker' : toWorker'[l] = Cancel(i)
        <4>1. CASE k = 1
          <5>1. m.type = "cancel" /\ m.id = i
            BY <3>2, <4>1, <1>4 DEF Cancel
          <5>2. AbortController
            BY <5>1 DEF WorkerTurn, Execute, Decline, Take
          <5> QED
            BY <2>1, <5>1, <5>2 DEF AbortController
        <4>2. CASE k # 1
          BY <3>2, <4>2, <1>5
        <4> QED
          BY <4>1, <4>2
      <3> QED
        BY <2>1, <3>1, <3>2, <1>6
    <2>2. CASE Execute /\ i = m.id /\ m.call = c
      <3>1. m.type = "invoke" /\ 1 \in DOMAIN toWorker
        BY <2>2, <1>4 DEF Execute, Take
      <3>2. PICK l \in DOMAIN toWorker : l > 1 /\ toWorker[l] = Cancel(m.id)
        BY <2>2, <3>1, <1>4, <1>6
      <3>3. l # 1
        BY <3>2
      <3> QED
        BY <2>2, <3>2, <3>3, <1>5
    <2>3. (i \in DOMAIN controllers /\ controllers[i] = c) \/ (Execute /\ i = m.id /\ m.call = c)
      <3>1. CASE controllers' = controllers
        BY <3>1, <1>8
      <3>2. CASE Execute
        <4>1. controllers' = [j \in DOMAIN controllers \cup {m.id} |->
                                IF j = m.id THEN m.call ELSE controllers[j]]
          BY <3>2 DEF Execute
        <4> QED
          BY <4>1, <3>2, <1>8
      <3> QED
        BY <3>1, <3>2 DEF WorkerTurn, Decline, AbortController, worker
    <2> QED
      BY <2>1, <2>2, <2>3
  <1> QED
    BY <1>7, <1>8

LEMMA FollowsFinish ==
    ASSUME IInv, NEW id \in DOMAIN controllers, NEW ok \in BOOLEAN, Finish(id, ok)
    PROVE  CancelFollowsRequest'
  <1>1. /\ UNCHANGED <<outcome, toWorker>> /\ aborted' = aborted \ {id}
        /\ controllers' = [i \in DOMAIN controllers \ {id} |-> controllers[i]]
    BY DEF Finish, promises
  <1>2. CancelFollowsRequest
    BY DEF IInv
  <1> QED
    BY <1>1, <1>2 DEF CancelFollowsRequest, Cancel

----------------------------------------------------------------------------
LEMMA InitInv == Init => IInv
  <1> SUFFICES ASSUME Init PROVE IInv
    OBVIOUS
  <1>1. TypeOK /\ Shapes /\ AskedCount
    BY TypeInit
  <1>2. /\ DOMAIN pending = {} /\ DOMAIN controllers = {} /\ DOMAIN toWorker = {} /\ DOMAIN toClient = {}
        /\ outcome = [c \in Calls |-> "idle"]
    BY DEF Init
  <1>3. Waits
    BY <1>2 DEF Waits
  <1>4. Requests = {}
    BY <1>2 DEF Requests
  <1>5. OneRequest /\ HeldOnce /\ CancelFollowsRequest
    BY <1>2, <1>4 DEF OneRequest, HeldOnce, CancelFollowsRequest
  <1> QED
    BY <1>1, <1>3, <1>5 DEF IInv

LEMMA StillInv == ASSUME IInv, UNCHANGED vars PROVE IInv'
  <1>1. /\ UNCHANGED <<sequence, pending, closed, outcome, value, fired>>
        /\ UNCHANGED <<toWorker, toClient, controllers, aborted>>
    BY DEF vars, client, promises, worker
  <1>2. TypeOK' /\ Shapes'
    BY <1>1 DEF IInv, TypeOK, Shapes
  <1>3. AskedCount' /\ Waits'
    BY <1>1 DEF IInv, AskedCount, Asked, Waits
  <1>4. Requests' = Requests
    BY <1>1 DEF Requests
  <1>5. OneRequest'
    BY <1>1, <1>4 DEF IInv, OneRequest
  <1>6. HeldOnce'
    BY <1>1 DEF IInv, HeldOnce, Sent, Back, AtWork
  <1>7. CancelFollowsRequest'
    BY <1>1 DEF IInv, CancelFollowsRequest, Cancel
  <1> QED
    BY <1>2, <1>3, <1>5, <1>6, <1>7 DEF IInv

(* A step of the worker leaves the vault's side alone. *)
LEMMA WaitsWorker == ASSUME IInv, UNCHANGED <<pending, outcome>> PROVE Waits'
  BY DEF IInv, Waits

LEMMA StepInv == ASSUME IInv, [Next]_vars PROVE IInv'
  <1>1. ASSUME NEW c \in Calls, RequestRefused(c) \/ RequestPosted(c) \/ RequestUnsent(c) PROVE IInv'
    <2>1. HeldOnce'
      BY <1>1, HeldPosted, HeldOthers
    <2>2. CancelFollowsRequest'
      BY <1>1, FollowsVault
    <2> QED
      BY <1>1, <2>1, <2>2, TypeRequest, RequestsRequest, WaitsRequest DEF IInv
  <1>2. CASE (\E s \in Signals : Abort(s)) \/ Receive \/ Fail
    <2>1. TypeOK' /\ Shapes' /\ AskedCount'
      BY <1>2, TypeAbort, TypeReceive, TypeFail
    <2>2. OneRequest' /\ Waits'
      BY <1>2, RequestsSettled, WaitsOver
    <2>3. HeldOnce' /\ CancelFollowsRequest'
      BY <1>2, HeldOthers, FollowsVault
    <2> QED
      BY <2>1, <2>2, <2>3 DEF IInv
  <1>3. CASE WorkerTurn
    <2>1. UNCHANGED <<pending, outcome>>
      BY <1>3 DEF WorkerTurn, Execute, Decline, AbortController, client, promises
    <2> QED
      BY <1>3, <2>1, TypeTurn, RequestsTurn, WaitsWorker, HeldTurn, FollowsTurn DEF IInv
  <1>4. ASSUME NEW id \in DOMAIN controllers, NEW ok \in BOOLEAN, Finish(id, ok) PROVE IInv'
    <2>1. UNCHANGED <<pending, outcome>>
      BY <1>4 DEF Finish, client, promises
    <2> QED
      BY <1>4, <2>1, TypeFinish, RequestsFinish, WaitsWorker, HeldFinish, FollowsFinish DEF IInv
  <1>5. CASE UNCHANGED vars
    BY <1>5, StillInv
  <1> QED
    BY <1>1, <1>2, <1>3, <1>4, <1>5 DEF Next

LEMMA Invariance == Spec => []IInv
  BY InitInv, StepInv, PTL DEF Spec

(* A waiting call is in exactly one place, whatever is cancelled, refused or *)
(* answered meanwhile: never lost, never run twice (client.ts and            *)
(* worker-runtime.ts).                                                       *)
THEOREM HeldInOnePlace == Spec => []WaitingCallIsHeldOnce
  <1>1. ASSUME IInv PROVE WaitingCallIsHeldOnce
    <2>1. TypeOK /\ Waits /\ HeldOnce
      BY <1>1 DEF IInv
    <2>2. ASSUME NEW i \in DOMAIN pending
          PROVE  Cardinality(Invocations(i)) + Cardinality(Replies(i))
                   + (IF i \in DOMAIN controllers THEN 1 ELSE 0) = 1
      <3>1. i \in Nat
        BY <2>1 DEF TypeOK
      <3>2. /\ Sent[i] = Cardinality(Invocations(i)) /\ Back[i] = Cardinality(Replies(i))
            /\ AtWork[i] = IF i \in DOMAIN controllers THEN 1 ELSE 0
        BY <3>1 DEF Sent, Back, AtWork, Invocations, Replies
      <3>3. Sent[i] + Back[i] + AtWork[i] = 1
        BY <2>1 DEF HeldOnce
      <3> QED
        BY <3>2, <3>3
    <2> QED
      BY <2>1, <2>2 DEF WaitingCallIsHeldOnce, Waits
  <1> QED
    BY <1>1, Invariance, PTL

(* Nothing goes on in the worker for a call the vault gave up, unless its    *)
(* cancel is on its way (worker-runtime.ts).                                 *)
THEOREM CancelFollows == Spec => []CancelFollowsRequest
  <1>1. IInv => CancelFollowsRequest
    BY DEF IInv
  <1> QED
    BY <1>1, Invariance, PTL

----------------------------------------------------------------------------
(* The promise to a caller.                                                  *)

LEMMA RequestRefines ==
    ASSUME NEW c \in Calls, RequestRefused(c) \/ RequestPosted(c) \/ RequestUnsent(c)
    PROVE  Promise!Next
  <1>1. CASE RequestRefused(c)
    BY <1>1 DEF RequestRefused, Settle, client, Promise!Next, Promise!Ask, Promise!Settle
  <1>2. CASE RequestPosted(c)
    BY <1>2 DEF RequestPosted, Settle, Promise!Next, Promise!Ask, Promise!Settle
  <1>3. CASE RequestUnsent(c)
    BY <1>3 DEF RequestUnsent, Settle, Promise!Next, Promise!Ask, Promise!Settle
  <1> QED
    BY <1>1, <1>2, <1>3

LEMMA AbortRefines ==
    ASSUME IInv, NEW s \in Signals, Abort(s) PROVE Promise!Next
  <1>1. /\ s \notin fired /\ fired' = fired \cup {s} /\ UNCHANGED <<value, closed>>
        /\ outcome' = [c \in Calls |-> IF \E i \in Listening(s) : pending[i] = c
                                       THEN "aborted" ELSE outcome[c]]
    BY DEF Abort
  <1>2. \A c \in Calls : (\E i \in Listening(s) : pending[i] = c) <=> outcome[c] = "waiting" /\ SignalOf[c] = s
    BY DEF IInv, Waits, Listening
  <1>3. outcome' = [c \in Calls |-> IF outcome[c] = "waiting" /\ SignalOf[c] = s
                                   THEN "aborted" ELSE outcome[c]]
    BY <1>1, <1>2
  <1>4. Promise!Abort(s)
    BY <1>1, <1>3 DEF Promise!Abort
  <1> QED
    BY <1>4 DEF Promise!Next

(* The reply that reaches a call is the one to its own request. *)
LEMMA ReceiveRefines ==
    ASSUME IInv, Receive PROVE Promise!Next \/ UNCHANGED Promise!promise
  <1> DEFINE r == Head(toClient)
             c == pending[r.id]
  <1>1. r \in Answer /\ 1 \in DOMAIN toClient /\ r = toClient[1]
    <2>1. toClient \in Seq(Answer) /\ toClient # <<>>
      BY DEF IInv, Shapes, Receive
    <2> QED
      BY <2>1, Taken
  <1>2. CASE r.id \notin DOMAIN pending
    BY <1>2 DEF Receive, promises, Promise!promise
  <1>3. CASE r.id \in DOMAIN pending
    <2>1. c \in Calls /\ outcome[c] = "waiting" /\ <<r.id, c>> \in Requests
      BY <1>3, PendingWaits, Members
    <2>2. UNCHANGED <<fired, closed>>
      BY DEF Receive
    <2>3. CASE r.ok
      <3>1. outcome' = [outcome EXCEPT ![c] = "answered"] /\ value' = [value EXCEPT ![c] = r.value]
        BY <1>3, <2>3 DEF Receive, Settle
      <3>2. r.value \in Calls
        BY <1>1, <2>3 DEF Answer
      <3>3. <<r.id, r.value>> \in Requests
        BY <1>1, <2>3, <3>2, Members
      <3>4. r.value = c
        BY <2>1, <3>3 DEF IInv, OneRequest
      <3>5. Promise!Answer(c)
        BY <2>1, <2>2, <3>1, <3>4 DEF Promise!Answer
      <3> QED
        BY <2>1, <3>5 DEF Promise!Next
    <2>4. CASE ~r.ok
      <3>1. outcome' = [outcome EXCEPT ![c] = "refused"] /\ value' = value
        BY <1>3, <2>4 DEF Receive, Settle
      <3>2. outcome \in [Calls -> Outcomes]
        BY DEF IInv, TypeOK
      <3>3. outcome' = [d \in Calls |-> IF d \in {c} THEN "refused" ELSE outcome[d]]
        BY <3>1, <3>2
      <3>4. Promise!Refuse({c}) /\ {c} \in SUBSET Calls
        BY <2>1, <2>2, <3>1, <3>3 DEF Promise!Refuse
      <3> QED
        BY <3>4 DEF Promise!Next
    <2> QED
      BY <2>3, <2>4
  <1> QED
    BY <1>2, <1>3

LEMMA FailRefines == ASSUME IInv, Fail PROVE Promise!Next
  <1>1. /\ ~closed /\ closed' = TRUE /\ UNCHANGED <<value, fired>>
        /\ outcome' = [c \in Calls |-> IF \E i \in DOMAIN pending : pending[i] = c
                                       THEN "failed" ELSE outcome[c]]
    BY DEF Fail
  <1>2. outcome' = [c \in Calls |-> IF outcome[c] = "waiting" THEN "failed" ELSE outcome[c]]
    BY <1>1 DEF IInv, Waits
  <1>3. Promise!Fail
    BY <1>1, <1>2 DEF Promise!Fail
  <1> QED
    BY <1>3 DEF Promise!Next

LEMMA StepRefines ==
    ASSUME IInv, [Next]_vars PROVE Promise!Next \/ UNCHANGED Promise!promise
  <1>1. UNCHANGED <<outcome, value, fired, closed>> => UNCHANGED Promise!promise
    BY DEF Promise!promise
  <1>2. CASE \E c \in Calls : RequestRefused(c) \/ RequestPosted(c) \/ RequestUnsent(c)
    BY <1>2, RequestRefines
  <1>3. CASE \E s \in Signals : Abort(s)
    BY <1>3, AbortRefines
  <1>4. CASE Receive
    BY <1>4, ReceiveRefines
  <1>5. CASE Fail
    BY <1>5, FailRefines
  <1>6. CASE WorkerTurn \/ \E id \in DOMAIN controllers, ok \in BOOLEAN : Finish(id, ok)
    BY <1>1, <1>6 DEF WorkerTurn, Execute, Decline, AbortController, Finish, client, promises
  <1>7. CASE UNCHANGED vars
    BY <1>1, <1>7 DEF vars, client, promises
  <1> QED
    BY <1>2, <1>3, <1>4, <1>5, <1>6, <1>7 DEF Next

(* Over any number of messages, each call settles once and for good, with    *)
(* its own answer, a refusal, its signal or the end of the boundary.         *)
THEOREM BoundaryImplementsCalls == Spec => ImplementsRemoteCalls
  <1>1. Init => Promise!Init
    BY DEF Init, Promise!Init
  <1>2. IInv /\ [Next]_vars => [Promise!Next]_(Promise!promise)
    BY StepRefines
  <1> QED
    BY <1>1, <1>2, Invariance, PTL DEF Spec, ImplementsRemoteCalls, Promise!Spec
=============================================================================
