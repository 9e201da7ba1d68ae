-------------------------- MODULE DeriveClient_proofs --------------------------
(***************************************************************************)
(* Proofs about DeriveClient for any number of requests and callers: seed    *)
(* copies and secret answers have owners, nothing is posted to a worker that *)
(* is gone, and the client implements plain remote calls.                    *)
(***************************************************************************)
EXTENDS DeriveClient, FiniteSetTheorems, TLAPS

(* The resource: a client that is not terminated has its worker, and one     *)
(* that is ready has seen its script loaded.                                 *)
ResourceInv ==
    /\ lifecycle \in {"booting", "ready", "terminated"}
    /\ reason \in {"none", "cancelled", "error", "timeout"}
    /\ waiter \in [Waiters -> {"idle", "waiting", "resolved", "rejected"}]
    /\ loaded \in BOOLEAN /\ stopAfterLoad \in BOOLEAN /\ disposed \in BOOLEAN
    /\ timer \in {"armed", "cleared", "fired"}
    /\ thread \in {"loading", "running", "broken", "stopped"}
    /\ readySent \in BOOLEAN /\ errorSent \in BOOLEAN
    /\ lifecycle # "terminated" => ~disposed /\ ~stopAfterLoad
    /\ lifecycle = "ready" => loaded

RequestInv ==
    /\ pending \subseteq Requests /\ queued \subseteq pending /\ working \subseteq Requests
    /\ outcome \in [Requests -> {"idle", "waiting", "answered", "refused", "failed"}]
    /\ value \in [Requests -> Requests \cup {Nobody}]
    /\ \A r \in Requests : r \in pending <=> outcome[r] = "waiting"
    /\ \A r \in Requests : outcome[r] # "answered" => value[r] = Nobody
    /\ \A r \in working : r \notin queued /\ outcome[r] # "idle"
    /\ lifecycle = "terminated" => pending = {}
    /\ lifecycle # "booting" => queued = {}

Asked == {r \in Requests : outcome[r] # "idle"}

AskedCount == nextId <= Cardinality(Asked) + 1

IdInv ==
    /\ nextId \in Nat \ {0} /\ AskedCount
    /\ id \in [Requests -> Nat]
    /\ \A r \in Requests : id[r] < nextId /\ (outcome[r] = "idle" => id[r] = 0)
    /\ \A r, q \in Requests : id[r] = id[q] /\ id[r] # 0 => r = q
    /\ \A r \in pending \cup working : id[r] # 0
    /\ \A m \in replies : m.of \in Requests \ queued /\ m.id = id[m.of] /\ m.id # 0
    /\ replies \subseteq [id : Nat, of : Requests, ok : BOOLEAN]

SecretInv ==
    /\ copy \in [Requests -> {"none", "live", "wiped", "moved"}] /\ retained \subseteq Requests
    /\ \A r \in retained \cap Derivations : outcome[r] = "answered"

IInv == ResourceInv /\ RequestInv /\ IdInv /\ SecretInv

LEMMA InitInv == Init => IInv
  <1> SUFFICES ASSUME Init PROVE IInv
    OBVIOUS
  <1>1. ResourceInv
    <2>1. lifecycle = "booting" /\ reason = "none" /\ timer = "armed" /\ thread = "loading"
      BY DEF Init
    <2>2. loaded = FALSE /\ stopAfterLoad = FALSE /\ disposed = FALSE /\ readySent = FALSE /\ errorSent = FALSE
      BY DEF Init
    <2>3. waiter \in [Waiters -> {"idle", "waiting", "resolved", "rejected"}]
      BY DEF Init
    <2> QED
      BY <2>1, <2>2, <2>3 DEF ResourceInv
  <1>2. RequestInv
    BY DEF Init, RequestInv
  <1>3. IdInv
    <2>1. Asked = {}
      BY DEF Init, Asked
    <2>2. nextId = 1 /\ nextId <= Cardinality(Asked) + 1
      BY <2>1, FS_EmptySet DEF Init
    <2>3. id = [r \in Requests |-> 0] /\ pending = {} /\ working = {} /\ replies = {}
      BY DEF Init
    <2> QED
      BY <2>2, <2>3 DEF IdInv, AskedCount
  <1>4. SecretInv
    BY DEF Init, SecretInv
  <1> QED
    BY <1>1, <1>2, <1>3, <1>4 DEF IInv

----------------------------------------------------------------------------
(* The resource and its worker.                                              *)

LEMMA ResourceAsk ==
    ASSUME ResourceInv, UNCHANGED <<lifecycle, reason, resource>>,
           waiter' \in [Waiters -> {"idle", "waiting", "resolved", "rejected"}],
           thread' \in {"loading", "running", "broken", "stopped"},
           readySent' \in BOOLEAN, errorSent' \in BOOLEAN
    PROVE  ResourceInv'
  BY DEF ResourceInv, resource

(* The end of a client takes its worker along, now or once it has loaded. *)
LEMMA ResourceEnds ==
    ASSUME ResourceInv, lifecycle' = "terminated", UNCHANGED loaded,
           reason' \in {"none", "cancelled", "error", "timeout"},
           waiter' \in [Waiters -> {"idle", "waiting", "resolved", "rejected"}],
           \/ disposed' = TRUE /\ thread' = "stopped" /\ timer' \in {"armed", "cleared", "fired"}
              /\ UNCHANGED stopAfterLoad
           \/ UNCHANGED <<disposed, timer, thread>> /\ stopAfterLoad' \in BOOLEAN,
           readySent' \in BOOLEAN, errorSent' \in BOOLEAN
    PROVE  ResourceInv'
  BY DEF ResourceInv

LEMMA DisposalSteps ==
    ASSUME ResourceInv, NEW afterLoad \in BOOLEAN, DisposeResource(afterLoad)
    PROVE  \/ disposed' = TRUE /\ thread' = "stopped" /\ timer' \in {"armed", "cleared", "fired"}
              /\ UNCHANGED stopAfterLoad
           \/ UNCHANGED <<disposed, timer, thread>> /\ stopAfterLoad' \in BOOLEAN
  BY DEF ResourceInv, DisposeResource, Disposed

LEMMA ResourceStep == ASSUME ResourceInv, Next PROVE ResourceInv'
  <1>1. waiter \in [Waiters -> {"idle", "waiting", "resolved", "rejected"}]
        /\ readySent \in BOOLEAN /\ errorSent \in BOOLEAN
        /\ thread \in {"loading", "running", "broken", "stopped"}
    BY DEF ResourceInv
  <1>2. CASE Load \/ Break \/ Err
    BY <1>1, <1>2, ResourceAsk DEF Load, Break, Err, client
  <1>3. CASE \E r \in Requests, ok \in BOOLEAN : Answer(r, ok)
    BY <1>1, <1>3, ResourceAsk DEF Answer, client
  <1>4. CASE \E r \in Requests : Ask(r)
    BY <1>1, <1>4, ResourceAsk
       DEF Ask, RequestRefused, RequestQueued, RequestPosted, RequestUnsent, client, events
  <1>5. CASE \E w \in Waiters : AskReady(w)
    BY <1>1, <1>5, ResourceAsk DEF AskReady, events
  <1>6. ASSUME NEW why \in {"cancelled", "error", "timeout"}, Settled(why)
        PROVE  /\ lifecycle' = "terminated" /\ reason' \in {"none", "cancelled", "error", "timeout"}
               /\ waiter' \in [Waiters -> {"idle", "waiting", "resolved", "rejected"}]
    BY <1>1, <1>6 DEF Settled
  <1>7. CASE Terminate
    <2>1. Settled("cancelled") /\ DisposeResource(TRUE) /\ UNCHANGED <<loaded, readySent, errorSent>>
      BY <1>7 DEF Terminate, events
    <2> QED
      BY <1>1, <1>6, <2>1, DisposalSteps, ResourceEnds
  <1>8. CASE ReceiveError
    <2>1. UNCHANGED readySent /\ errorSent' \in BOOLEAN
      BY <1>8 DEF ReceiveError
    <2>2. CASE lifecycle = "terminated"
      BY <1>1, <1>8, <2>1, <2>2, ResourceAsk DEF ReceiveError, client
    <2>3. CASE lifecycle # "terminated"
      <3>1. Settled("error") /\ DisposeResource(FALSE) /\ UNCHANGED loaded
        BY <1>8, <2>3 DEF ReceiveError
      <3> QED
        BY <1>1, <1>6, <2>1, <3>1, DisposalSteps, ResourceEnds
    <2> QED
      BY <2>2, <2>3
  <1>9. CASE BootTimeout
    <2>1. /\ timer' = "fired" /\ disposed' = TRUE /\ thread' = "stopped"
          /\ UNCHANGED <<loaded, stopAfterLoad, readySent, errorSent>>
      BY <1>9 DEF BootTimeout, Disposed, events
    <2>2. CASE lifecycle = "terminated"
      <3>1. UNCHANGED <<lifecycle, reason, waiter>>
        BY <1>9, <2>2 DEF BootTimeout, client
      <3>2. lifecycle' = "terminated" /\ reason' \in {"none", "cancelled", "error", "timeout"}
        BY <2>2, <3>1 DEF ResourceInv
      <3>3. waiter' \in [Waiters -> {"idle", "waiting", "resolved", "rejected"}]
        BY <1>1, <3>1
      <3>4. readySent' \in BOOLEAN /\ errorSent' \in BOOLEAN
        BY <1>1, <2>1
      <3> QED
        BY <2>1, <3>2, <3>3, <3>4, ResourceEnds
    <2>3. CASE lifecycle # "terminated"
      <3>1. Settled("timeout")
        BY <1>9, <2>3 DEF BootTimeout
      <3> QED
        BY <1>1, <1>6, <2>1, <3>1, ResourceEnds
    <2> QED
      BY <2>2, <2>3
  <1>10. CASE ReceiveReady
    <2>1. readySent' = FALSE /\ UNCHANGED <<reason, stopAfterLoad, errorSent>> /\ Loaded
      BY <1>10 DEF ReceiveReady
    <2>2. PICK bad \in SUBSET queued : BecomesReady(bad)
      BY <1>10 DEF ReceiveReady
    <2>3. waiter' \in [Waiters -> {"idle", "waiting", "resolved", "rejected"}]
      BY <1>1, <2>2 DEF BecomesReady
    <2>4. lifecycle' = IF lifecycle = "booting" THEN "ready" ELSE lifecycle
      BY <2>2 DEF BecomesReady
    <2>5. CASE disposed
      <3>1. UNCHANGED <<loaded, disposed, timer, thread>> /\ lifecycle = "terminated"
        BY <2>1, <2>5 DEF Loaded, ResourceInv
      <3> QED
        BY <2>1, <2>3, <2>4, <3>1 DEF ResourceInv
    <2>6. CASE ~disposed
      <3>1. loaded' = TRUE /\ timer' = "cleared" /\ disposed' = stopAfterLoad
            /\ thread' = IF stopAfterLoad THEN "stopped" ELSE thread
        BY <2>1, <2>6 DEF Loaded
      <3>2. thread' \in {"loading", "running", "broken", "stopped"}
        BY <1>1, <3>1
      <3>3. lifecycle = "booting" => disposed' = FALSE
        BY <3>1 DEF ResourceInv
      <3>4. lifecycle = "ready" => disposed' = stopAfterLoad /\ ~stopAfterLoad
        BY <3>1 DEF ResourceInv
      <3> QED
        BY <2>1, <2>3, <2>4, <3>1, <3>2, <3>3, <3>4 DEF ResourceInv
    <2> QED
      BY <2>5, <2>6
  <1>11. CASE \E m \in replies : Receive(m)
    BY <1>1, <1>11, ResourceAsk DEF Receive, ReceiveLate, ReceiveAnswer, client
  <1> QED
    BY <1>2, <1>3, <1>4, <1>5, <1>7, <1>8, <1>9, <1>10, <1>11 DEF Next

(* What is posted reaches a worker that is loaded and not given up. *)
LEMMA PostedLive ==
    ASSUME ResourceInv, Next, NEW r \in working' \ working
    PROVE  lifecycle' = "ready" /\ loaded' /\ ~disposed'
  <1>1. (\E q \in Requests : RequestPosted(q)) \/ (ReceiveReady /\ lifecycle = "booting")
    BY DEF Next, Load, Break, Err, Answer, Ask, RequestRefused, RequestQueued, RequestUnsent, AskReady,
           Terminate, ReceiveError, BootTimeout, ReceiveReady, Receive, ReceiveLate, ReceiveAnswer,
           DisposeResource, Disposed, BecomesReady
  <1>2. CASE \E q \in Requests : RequestPosted(q)
    BY <1>2 DEF RequestPosted, ResourceInv, resource
  <1>3. CASE ReceiveReady /\ lifecycle = "booting"
    BY <1>3 DEF ReceiveReady, Loaded, BecomesReady, ResourceInv
  <1> QED
    BY <1>1, <1>2, <1>3

----------------------------------------------------------------------------
(* The requests.                                                             *)

(* The end of a client fails every request that was waiting. *)
LEMMA RequestsEnd ==
    ASSUME RequestInv, NEW why, Settled(why), working' \subseteq working
    PROVE  RequestInv'
  <1>1. pending' = {} /\ queued' = {} /\ value' = value /\ lifecycle' = "terminated"
    BY DEF Settled
  <1>2. outcome' = [r \in Requests |-> IF r \in pending THEN "failed" ELSE outcome[r]]
    BY DEF Settled
  <1> QED
    BY <1>1, <1>2 DEF RequestInv

LEMMA RequestsStand ==
    ASSUME RequestInv, working' \subseteq working, 
           UNCHANGED <<lifecycle, pending, queued, outcome, value>>
    PROVE  RequestInv'
  BY DEF RequestInv

LEMMA RequestStep == ASSUME IInv, Next PROVE RequestInv'
  <1>1. RequestInv
    BY DEF IInv
  <1>2. CASE Load \/ Break \/ Err
    BY <1>1, <1>2, RequestsStand DEF Load, Break, Err, client, promises
  <1>3. CASE \E r \in Requests, ok \in BOOLEAN : Answer(r, ok)
    BY <1>1, <1>3, RequestsStand DEF Answer, client, promises
  <1>4. ASSUME NEW r \in Requests, RequestRefused(r) PROVE RequestInv'
    BY <1>1, <1>4 DEF RequestInv, RequestRefused, client
  <1>5. ASSUME NEW r \in Requests, RequestQueued(r) PROVE RequestInv'
    BY <1>1, <1>5 DEF RequestInv, RequestQueued
  <1>6. ASSUME NEW r \in Requests, RequestPosted(r) PROVE RequestInv'
    BY <1>1, <1>6 DEF RequestInv, RequestPosted
  <1>7. ASSUME NEW r \in Requests, RequestUnsent(r) PROVE RequestInv'
    BY <1>1, <1>7 DEF RequestInv, RequestUnsent
  <1>8. CASE \E w \in Waiters : AskReady(w)
    BY <1>1, <1>8, RequestsStand DEF AskReady, promises
  <1>9. ASSUME NEW after \in BOOLEAN, DisposeResource(after) PROVE working' \subseteq working
    BY <1>9 DEF DisposeResource, Disposed
  <1>10. CASE Terminate
    BY <1>1, <1>9, <1>10, RequestsEnd DEF Terminate
  <1>11. CASE ReceiveError
    <2>1. CASE lifecycle = "terminated"
      BY <1>1, <1>11, <2>1, RequestsStand DEF ReceiveError, client, promises
    <2>2. CASE lifecycle # "terminated"
      BY <1>1, <1>9, <1>11, <2>2, RequestsEnd DEF ReceiveError
    <2> QED
      BY <2>1, <2>2
  <1>12. CASE BootTimeout
    <2>1. working' \subseteq working
      BY <1>12 DEF BootTimeout, Disposed
    <2>2. CASE lifecycle = "terminated"
      BY <1>1, <1>12, <2>1, <2>2, RequestsStand DEF BootTimeout, client, promises
    <2>3. CASE lifecycle # "terminated"
      BY <1>1, <1>12, <2>1, <2>3, RequestsEnd DEF BootTimeout
    <2> QED
      BY <2>2, <2>3
  <1>13. CASE ReceiveReady
    <2>1. PICK bad \in SUBSET queued : BecomesReady(bad)
      BY <1>13 DEF ReceiveReady
    <2>2. value' = value
      BY <1>13 DEF ReceiveReady
    <2>3. CASE lifecycle = "booting"
      <3>1. /\ lifecycle' = "ready" /\ queued' = {} /\ pending' = pending \ bad
            /\ working' = working \cup (queued \ bad)
            /\ outcome' = [r \in Requests |-> IF r \in bad THEN "refused" ELSE outcome[r]]
        BY <2>1, <2>3 DEF BecomesReady, Flush
      <3> QED
        BY <1>1, <2>2, <3>1 DEF RequestInv
    <2>4. CASE lifecycle # "booting"
      BY <1>1, <2>1, <2>2, <2>4, RequestsStand DEF BecomesReady
    <2> QED
      BY <2>3, <2>4
  <1>14. ASSUME NEW m \in replies, ReceiveLate(m) PROVE RequestInv'
    BY <1>1, <1>14, RequestsStand DEF ReceiveLate, client, promises
  <1>15. ASSUME NEW m \in replies, NEW taken \in BOOLEAN, ReceiveAnswer(m, taken) PROVE RequestInv'
    <2>1. PICK r \in Owner(m) :
            /\ pending' = pending \ {r}
            /\ outcome' = [outcome EXCEPT ![r] = IF taken THEN "answered" ELSE "refused"]
            /\ value' = [value EXCEPT ![r] = IF taken THEN m.of ELSE Nobody]
      BY <1>15 DEF ReceiveAnswer
    <2>2. UNCHANGED <<lifecycle, queued, working>> /\ m.of \in Requests
      BY <1>15 DEF ReceiveAnswer, IInv, IdInv
    <2>3. r \in pending /\ r \in Requests /\ lifecycle # "terminated"
      BY <1>1 DEF Owner, RequestInv
    <2>4. r \notin queued
      <3>1. m.of \notin queued /\ id[r] = id[m.of] /\ id[r] # 0
        BY <1>15, <2>1 DEF IInv, IdInv, Owner
      <3>2. r = m.of
        BY <2>2, <2>3, <3>1 DEF IInv, IdInv
      <3> QED
        BY <3>1, <3>2
    <2> QED
      BY <1>1, <2>1, <2>2, <2>3, <2>4 DEF RequestInv
  <1> QED
    BY <1>2, <1>3, <1>4, <1>5, <1>6, <1>7, <1>8, <1>10, <1>11, <1>12, <1>13, <1>14, <1>15
       DEF Next, Ask, Receive

----------------------------------------------------------------------------
(* The identifiers: each stands for one request, wherever it is met, and no  *)
(* more are given than requests have been made.                              *)

LEMMA CountStands ==
    ASSUME IdInv, UNCHANGED nextId, \A r \in Requests : outcome[r] # "idle" => outcome'[r] # "idle"
    PROVE  nextId' \in Nat \ {0} /\ AskedCount'
  <1>1. PICK after : after = Asked'
    OBVIOUS
  <1>2. IsFiniteSet(Requests) /\ Asked \subseteq Requests /\ after \subseteq Requests /\ Asked \subseteq after
    BY <1>1, ClientAssumption DEF ClientAssumption, Asked
  <1>3. IsFiniteSet(after) /\ IsFiniteSet(Asked)
    BY <1>2, FS_Subset
  <1>4. Cardinality(Asked) \in Nat /\ Cardinality(after) \in Nat
    BY <1>3, FS_CardinalityType
  <1>5. Cardinality(Asked) <= Cardinality(after)
    BY <1>2, <1>3, FS_Subset
  <1>6. nextId \in Nat \ {0} /\ nextId <= Cardinality(Asked) + 1
    BY DEF IdInv, AskedCount
  <1>7. nextId <= Cardinality(after) + 1
    BY <1>4, <1>5, <1>6
  <1> QED
    BY <1>1, <1>6, <1>7 DEF AskedCount

LEMMA OneMoreAsked ==
    ASSUME RequestInv, NEW r \in Requests, outcome[r] = "idle",
           NEW how \in {"waiting", "refused"}, outcome' = [outcome EXCEPT ![r] = how]
    PROVE  Cardinality(Asked) \in Nat /\ Cardinality(Asked') = Cardinality(Asked) + 1
  <1>1. Asked' = Asked \cup {r} /\ r \notin Asked
    BY DEF Asked, RequestInv
  <1>2. IsFiniteSet(Asked)
    BY ClientAssumption, FS_Subset DEF ClientAssumption, Asked
  <1> QED
    BY <1>1, <1>2, FS_AddElement, FS_CardinalityType

LEMMA IdsStand ==
    ASSUME RequestInv, IdInv, UNCHANGED <<nextId, id>>,
           \A r \in Requests : outcome[r] # "idle" => outcome'[r] # "idle",
           pending' \subseteq pending, queued' \subseteq queued,
           working' \subseteq pending \cup working, replies' \subseteq replies
    PROVE  IdInv'
  <1>1. nextId' \in Nat \ {0} /\ AskedCount'
    BY CountStands
  <1>2. /\ id' \in [Requests -> Nat]
        /\ \A r \in Requests : id'[r] < nextId' /\ (outcome'[r] = "idle" => id'[r] = 0)
        /\ \A r, q \in Requests : id'[r] = id'[q] /\ id'[r] # 0 => r = q
        /\ \A r \in pending' \cup working' : id'[r] # 0
    BY DEF IdInv
  <1>3. /\ \A m \in replies' : m.of \in Requests \ queued' /\ m.id = id'[m.of] /\ m.id # 0
        /\ replies' \subseteq [id : Nat, of : Requests, ok : BOOLEAN]
    BY DEF IdInv
  <1> QED
    BY <1>1, <1>2, <1>3 DEF IdInv

LEMMA IdsGrow ==
    ASSUME RequestInv, IdInv, NEW r \in Requests, outcome[r] = "idle", Identify(r),
           NEW how \in {"waiting", "refused"}, outcome' = [outcome EXCEPT ![r] = how],
           pending' \subseteq pending \cup {r}, queued' \subseteq queued \cup {r},
           working' \subseteq working \cup {r}, replies' = replies
    PROVE  IdInv'
  <1>1. id' = [id EXCEPT ![r] = nextId] /\ nextId' = nextId + 1
    BY DEF Identify
  <1>2. nextId' \in Nat \ {0} /\ AskedCount'
    <2>1. nextId \in Nat \ {0} /\ nextId <= Cardinality(Asked) + 1
      BY DEF IdInv, AskedCount
    <2>2. PICK before, after : before = Cardinality(Asked) /\ after = Cardinality(Asked')
      OBVIOUS
    <2>3. before \in Nat /\ after = before + 1
      BY <2>2, OneMoreAsked
    <2>4. nextId + 1 <= after + 1
      BY <2>1, <2>2, <2>3
    <2> QED
      BY <1>1, <2>1, <2>2, <2>4 DEF AskedCount
  <1>3. /\ id' \in [Requests -> Nat] /\ id'[r] = nextId
        /\ \A q \in Requests : q # r => id'[q] = id[q]
    BY <1>1 DEF IdInv
  <1>4. \A q \in Requests : id'[q] < nextId' /\ (outcome'[q] = "idle" => id'[q] = 0)
    BY <1>1, <1>3 DEF IdInv, RequestInv
  <1>5. \A p, q \in Requests : id'[p] = id'[q] /\ id'[p] # 0 => p = q
    BY <1>3 DEF IdInv
  <1>6. \A q \in pending' \cup working' : id'[q] # 0
    BY <1>3 DEF IdInv, RequestInv
  <1>7. \A m \in replies' : m.of \in Requests \ queued' /\ m.id = id'[m.of] /\ m.id # 0
    <2>1. TAKE m \in replies'
    <2>2. m.of \in Requests \ queued /\ m.id = id[m.of] /\ m.id # 0
      BY DEF IdInv
    <2>3. m.of # r
      BY <2>2 DEF IdInv
    <2> QED
      BY <1>3, <2>2, <2>3
  <1> QED
    BY <1>2, <1>3, <1>4, <1>5, <1>6, <1>7 DEF IdInv

LEMMA IdStep == ASSUME IInv, Next PROVE IdInv'
  <1>1. RequestInv /\ IdInv
    BY DEF IInv
  <1>2. ASSUME UNCHANGED <<nextId, id, outcome, pending, queued, replies>>, working' \subseteq working
        PROVE  IdInv'
    BY <1>1, <1>2, IdsStand
  <1>3. CASE Load \/ Break \/ Err
    BY <1>2, <1>3 DEF Load, Break, Err, client, promises
  <1>4. ASSUME NEW r \in Requests, NEW ok \in BOOLEAN, Answer(r, ok) PROVE IdInv'
    <2>1. r \in working /\ working' = working \ {r}
          /\ replies' = replies \cup {[id |-> id[r], of |-> r, ok |-> ok]}
          /\ UNCHANGED <<nextId, id, outcome, pending, queued>>
      BY <1>4 DEF Answer, client, promises
    <2>2. id[r] # 0 /\ r \notin queued /\ id[r] \in Nat
      BY <1>1, <2>1 DEF IdInv, RequestInv
    <2>3. AskedCount'
      BY <1>1, <2>1 DEF IdInv, AskedCount, Asked
    <2>4. /\ \A m \in replies' : m.of \in Requests \ queued' /\ m.id = id'[m.of] /\ m.id # 0
          /\ replies' \subseteq [id : Nat, of : Requests, ok : BOOLEAN]
      BY <1>1, <2>1, <2>2 DEF IdInv
    <2> QED
      BY <1>1, <2>1, <2>3, <2>4 DEF IdInv
  <1>5. ASSUME NEW r \in Requests, RequestRefused(r) PROVE IdInv'
    <2>1. outcome' = [outcome EXCEPT ![r] = "failed"]
          /\ UNCHANGED <<nextId, id, pending, queued, working, replies>>
      BY <1>5 DEF RequestRefused, client, events
    <2>2. \A q \in Requests : outcome[q] # "idle" => outcome'[q] # "idle"
      BY <1>1, <2>1 DEF RequestInv
    <2> QED
      BY <1>1, <2>1, <2>2, IdsStand
  <1>6. ASSUME NEW r \in Requests, RequestQueued(r) \/ RequestPosted(r) \/ RequestUnsent(r) PROVE IdInv'
    <2>1. outcome[r] = "idle" /\ Identify(r) /\ replies' = replies
          /\ \E how \in {"waiting", "refused"} : outcome' = [outcome EXCEPT ![r] = how]
      BY <1>6 DEF RequestQueued, RequestPosted, RequestUnsent, events
    <2>2. pending' \subseteq pending \cup {r} /\ queued' \subseteq queued \cup {r}
          /\ working' \subseteq working \cup {r}
      BY <1>6 DEF RequestQueued, RequestPosted, RequestUnsent
    <2> QED
      BY <1>1, <2>1, <2>2, IdsGrow
  <1>7. CASE \E w \in Waiters : AskReady(w)
    BY <1>2, <1>7 DEF AskReady, promises, events
  <1>8. ASSUME NEW why, Settled(why), working' \subseteq working, replies' = replies PROVE IdInv'
    <2>1. UNCHANGED <<nextId, id>> /\ pending' = {} /\ queued' = {}
      BY <1>8 DEF Settled
    <2>2. \A r \in Requests : outcome[r] # "idle" => outcome'[r] # "idle"
      BY <1>8 DEF Settled
    <2> QED
      BY <1>1, <1>8, <2>1, <2>2, IdsStand
  <1>9. ASSUME NEW after \in BOOLEAN, DisposeResource(after) PROVE working' \subseteq working
    BY <1>9 DEF DisposeResource, Disposed
  <1>10. CASE Terminate
    BY <1>8, <1>9, <1>10 DEF Terminate, events
  <1>11. CASE ReceiveError
    <2>1. CASE lifecycle = "terminated"
      BY <1>2, <1>11, <2>1 DEF ReceiveError, client, promises
    <2>2. CASE lifecycle # "terminated"
      BY <1>8, <1>9, <1>11, <2>2 DEF ReceiveError
    <2> QED
      BY <2>1, <2>2
  <1>12. CASE BootTimeout
    <2>1. working' \subseteq working /\ replies' = replies
      BY <1>12 DEF BootTimeout, Disposed, events
    <2>2. CASE lifecycle = "terminated"
      BY <1>2, <1>12, <2>1, <2>2 DEF BootTimeout, client, promises
    <2>3. CASE lifecycle # "terminated"
      BY <1>8, <1>12, <2>1, <2>3 DEF BootTimeout
    <2> QED
      BY <2>2, <2>3
  <1>13. CASE ReceiveReady
    <2>1. PICK bad \in SUBSET queued : BecomesReady(bad)
      BY <1>13 DEF ReceiveReady
    <2>2. UNCHANGED <<nextId, id, replies>>
      BY <1>13 DEF ReceiveReady
    <2>3. CASE lifecycle = "booting"
      <3>1. /\ queued' = {} /\ pending' = pending \ bad /\ working' = working \cup (queued \ bad)
            /\ outcome' = [r \in Requests |-> IF r \in bad THEN "refused" ELSE outcome[r]]
        BY <2>1, <2>3 DEF BecomesReady, Flush
      <3>2. working' \subseteq pending \cup working
        BY <1>1, <3>1 DEF RequestInv
      <3>3. \A r \in Requests : outcome[r] # "idle" => outcome'[r] # "idle"
        BY <3>1
      <3> QED
        BY <1>1, <2>2, <3>1, <3>2, <3>3, IdsStand
    <2>4. CASE lifecycle # "booting"
      BY <1>2, <2>1, <2>2, <2>4 DEF BecomesReady
    <2> QED
      BY <2>3, <2>4
  <1>14. ASSUME NEW m \in replies, ReceiveLate(m) PROVE IdInv'
    <2>1. UNCHANGED <<nextId, id, outcome, pending, queued, working>> /\ replies' \subseteq replies
      BY <1>14 DEF ReceiveLate, client, promises
    <2> QED
      BY <1>1, <2>1, IdsStand
  <1>15. ASSUME NEW m \in replies, NEW taken \in BOOLEAN, ReceiveAnswer(m, taken) PROVE IdInv'
    <2>1. PICK r \in Owner(m) :
            /\ pending' = pending \ {r}
            /\ outcome' = [outcome EXCEPT ![r] = IF taken THEN "answered" ELSE "refused"]
      BY <1>15 DEF ReceiveAnswer
    <2>2. UNCHANGED <<nextId, id, queued, working>> /\ replies' \subseteq replies
      BY <1>15 DEF ReceiveAnswer
    <2>3. \A q \in Requests : outcome[q] # "idle" => outcome'[q] # "idle"
      BY <1>1, <2>1 DEF RequestInv
    <2> QED
      BY <1>1, <2>1, <2>2, <2>3, IdsStand
  <1> QED
    BY <1>3, <1>4, <1>5, <1>6, <1>7, <1>10, <1>11, <1>12, <1>13, <1>14, <1>15 DEF Next, Ask, Receive

----------------------------------------------------------------------------
(* The secrets, and the invariant as a whole.                                *)

LEMMA SecretsStand ==
    ASSUME SecretInv, UNCHANGED secrets,
           \A r \in Requests : outcome[r] = "answered" => outcome'[r] = "answered"
    PROVE  SecretInv'
  BY DEF SecretInv, secrets

LEMMA SecretsEnd == ASSUME RequestInv, SecretInv, NEW why, Settled(why) PROVE SecretInv'
  <1>1. copy' \in [Requests -> {"none", "live", "wiped", "moved"}] /\ retained' = retained
    BY DEF Settled, SecretInv, Wiped
  <1>2. \A r \in Requests : outcome[r] = "answered" => outcome'[r] = "answered"
    BY DEF Settled, RequestInv
  <1> QED
    BY <1>1, <1>2 DEF SecretInv

LEMMA SecretStep == ASSUME IInv, Next PROVE SecretInv'
  <1>1. SecretInv /\ RequestInv
    BY DEF IInv
  <1>2. CASE Load \/ Break \/ Err
    BY <1>1, <1>2, SecretsStand DEF Load, Break, Err, promises
  <1>3. CASE \E r \in Requests, ok \in BOOLEAN : Answer(r, ok)
    BY <1>1, <1>3, SecretsStand DEF Answer, promises
  <1>4. ASSUME NEW r \in Requests, Ask(r) PROVE SecretInv'
    <2>1. outcome[r] = "idle" /\ retained' = retained
          /\ \E how \in {"waiting", "refused", "failed"} : outcome' = [outcome EXCEPT ![r] = how]
      BY <1>4 DEF Ask, RequestRefused, RequestQueued, RequestPosted, RequestUnsent
    <2>2. \E c \in {"none", "live", "wiped", "moved"} : copy' = [copy EXCEPT ![r] = c]
      BY <1>4 DEF Ask, RequestRefused, RequestQueued, RequestPosted, RequestUnsent, Copied, Moved
    <2>3. \A q \in Requests : outcome[q] = "answered" => outcome'[q] = "answered"
      BY <1>1, <2>1 DEF RequestInv
    <2> QED
      BY <1>1, <2>1, <2>2, <2>3 DEF SecretInv
  <1>5. CASE \E w \in Waiters : AskReady(w)
    BY <1>1, <1>5, SecretsStand DEF AskReady, promises
  <1>6. CASE Terminate
    BY <1>1, <1>6, SecretsEnd DEF Terminate
  <1>7. CASE ReceiveError
    BY <1>1, <1>7, SecretsEnd, SecretsStand DEF ReceiveError, promises
  <1>8. CASE BootTimeout
    BY <1>1, <1>8, SecretsEnd, SecretsStand DEF BootTimeout, promises
  <1>9. CASE ReceiveReady
    <2>1. PICK bad \in SUBSET queued : BecomesReady(bad)
      BY <1>9 DEF ReceiveReady
    <2>2. retained' = retained
      BY <1>9 DEF ReceiveReady
    <2>3. CASE lifecycle = "booting"
      <3>1. /\ copy' \in [Requests -> {"none", "live", "wiped", "moved"}]
            /\ outcome' = [r \in Requests |-> IF r \in bad THEN "refused" ELSE outcome[r]]
        BY <1>1, <2>1, <2>3 DEF BecomesReady, Flush, SecretInv, Moved, Wiped
      <3>2. \A q \in Requests : outcome[q] = "answered" => outcome'[q] = "answered"
        BY <1>1, <3>1 DEF RequestInv
      <3> QED
        BY <1>1, <2>2, <3>1, <3>2 DEF SecretInv
    <2>4. CASE lifecycle # "booting"
      BY <1>1, <2>1, <2>2, <2>4, SecretsStand DEF BecomesReady, secrets
    <2> QED
      BY <2>3, <2>4
  <1>10. ASSUME NEW m \in replies, ReceiveLate(m) PROVE SecretInv'
    <2>1. m.of \in Requests
      BY <1>10 DEF IInv, IdInv
    <2>2. retained' = retained \/ (m.of \notin Derivations /\ retained' = retained \cup {m.of})
      BY <1>10 DEF ReceiveLate
    <2>3. copy' = copy /\ outcome' = outcome
      BY <1>10 DEF ReceiveLate, promises
    <2> QED
      BY <1>1, <2>1, <2>2, <2>3 DEF SecretInv
  <1>11. ASSUME NEW m \in replies, NEW taken \in BOOLEAN, ReceiveAnswer(m, taken) PROVE SecretInv'
    <2>1. PICK r \in Owner(m) :
            /\ outcome' = [outcome EXCEPT ![r] = IF taken THEN "answered" ELSE "refused"]
            /\ retained' = IF taken THEN retained \cup {r} ELSE retained
      BY <1>11 DEF ReceiveAnswer
    <2>2. r \in Requests /\ outcome[r] = "waiting" /\ copy' = copy
      BY <1>1, <1>11 DEF Owner, RequestInv, ReceiveAnswer
    <2> QED
      BY <1>1, <2>1, <2>2 DEF SecretInv, RequestInv
  <1> QED
    BY <1>2, <1>3, <1>4, <1>5, <1>6, <1>7, <1>8, <1>9, <1>10, <1>11 DEF Next, Receive

LEMMA StepInv == ASSUME IInv, [Next]_vars PROVE IInv'
  <1>1. CASE Next
    BY <1>1, ResourceStep, RequestStep, IdStep, SecretStep DEF IInv
  <1>2. CASE UNCHANGED vars
    <2>1. UNCHANGED <<lifecycle, reason, waiter, loaded, stopAfterLoad, disposed, timer, thread, readySent, errorSent>>
          /\ UNCHANGED <<pending, queued, working, outcome, value, nextId, id, replies, copy, retained>>
      BY <1>2 DEF vars, client, promises, secrets, resource, events
    <2>2. ResourceInv'
      BY <2>1 DEF IInv, ResourceInv
    <2>3. RequestInv'
      BY <2>1 DEF IInv, RequestInv
    <2>4. IdInv'
      BY <2>1 DEF IInv, IdInv, AskedCount, Asked
    <2>5. SecretInv'
      BY <2>1 DEF IInv, SecretInv
    <2> QED
      BY <2>2, <2>3, <2>4, <2>5 DEF IInv
  <1> QED
    BY <1>1, <1>2

THEOREM Invariance == Spec => []IInv
  BY InitInv, StepInv, PTL DEF Spec

----------------------------------------------------------------------------
(* What the page relies on.                                                  *)

LEMMA Typed == IInv => TypeOK
  <1> SUFFICES ASSUME IInv PROVE TypeOK
    OBVIOUS
  <1>1. Cardinality(Requests) \in Nat /\ nextId \in Nat \ {0} /\ nextId <= Cardinality(Requests) + 1
    <2>1. IsFiniteSet(Requests) /\ Asked \subseteq Requests
      BY ClientAssumption DEF ClientAssumption, Asked
    <2>2. Cardinality(Asked) \in Nat /\ Cardinality(Requests) \in Nat
          /\ Cardinality(Asked) <= Cardinality(Requests)
      BY <2>1, FS_Subset, FS_CardinalityType
    <2>3. nextId \in Nat \ {0} /\ nextId <= Cardinality(Asked) + 1
      BY DEF IInv, IdInv, AskedCount
    <2> QED
      BY <2>2, <2>3
  <1>2. nextId \in 1 .. Cardinality(Requests) + 1
    BY <1>1
  <1>3. id \in [Requests -> 0 .. Cardinality(Requests)]
    <2>1. id \in [Requests -> Nat] /\ \A r \in Requests : id[r] < nextId
      BY DEF IInv, IdInv
    <2>2. \A r \in Requests : id[r] \in 0 .. Cardinality(Requests)
      BY <1>1, <2>1
    <2> QED
      BY <2>1, <2>2
  <1>4. replies \subseteq [id : 1 .. Cardinality(Requests), of : Requests, ok : BOOLEAN]
    <2>1. SUFFICES ASSUME NEW m \in replies
                   PROVE  m \in [id : 1 .. Cardinality(Requests), of : Requests, ok : BOOLEAN]
      OBVIOUS
    <2>2. m \in [id : Nat, of : Requests, ok : BOOLEAN] /\ m.id = id[m.of] /\ m.id # 0 /\ m.of \in Requests
      BY DEF IInv, IdInv
    <2>3. m.id \in 1 .. Cardinality(Requests)
      BY <1>1, <1>3, <2>2
    <2> QED
      BY <2>2, <2>3
  <1>5. pending \subseteq Requests /\ queued \subseteq pending /\ working \subseteq Requests
        /\ outcome \in [Requests -> {"idle", "waiting", "answered", "refused", "failed"}]
        /\ value \in [Requests -> Requests \cup {Nobody}]
    BY DEF IInv, RequestInv
  <1>6. copy \in [Requests -> {"none", "live", "wiped", "moved"}] /\ retained \subseteq Requests
    BY DEF IInv, SecretInv
  <1>7. /\ lifecycle \in {"booting", "ready", "terminated"}
        /\ reason \in {"none", "cancelled", "error", "timeout"}
        /\ waiter \in [Waiters -> {"idle", "waiting", "resolved", "rejected"}]
        /\ loaded \in BOOLEAN /\ stopAfterLoad \in BOOLEAN /\ disposed \in BOOLEAN
        /\ timer \in {"armed", "cleared", "fired"}
        /\ thread \in {"loading", "running", "broken", "stopped"}
        /\ readySent \in BOOLEAN /\ errorSent \in BOOLEAN
    BY DEF IInv, ResourceInv
  <1> QED
    BY <1>2, <1>3, <1>4, <1>5, <1>6, <1>7 DEF TypeOK

(* Requests are posted only to a worker that has loaded and is not given up  *)
(* (#flushQueue and request of derive-client.ts), and all states are well    *)
(* typed.                                                                    *)
THEOREM PostedToLive == Spec => PostedToLiveWorker
  <1>1. ASSUME IInv, [Next]_vars
        PROVE  [\A r \in working' \ working : lifecycle' = "ready" /\ loaded' /\ ~disposed']_vars
    BY <1>1, PostedLive DEF IInv
  <1> QED
    BY <1>1, Typed, Invariance, PTL DEF Spec, PostedToLiveWorker

(* Without a multisig wallet, a live seed copy belongs to a queued request.  *)
SingleSeeds == \A r \in Requests : Carries[r] # "many"

LiveInv == \A r \in Requests : copy[r] = "live" => r \in queued /\ Carries[r] = "one"

LEMMA LiveEnd == ASSUME SingleSeeds, IInv, LiveInv, NEW why, Settled(why) PROVE LiveInv'
  BY DEF SingleSeeds, IInv, SecretInv, LiveInv, Settled, Wiped

LEMMA LiveStep == ASSUME SingleSeeds, IInv, LiveInv, [Next]_vars PROVE LiveInv'
  <1>1. RequestInv /\ SecretInv
    BY DEF IInv
  <1>2. UNCHANGED <<copy, queued>> => LiveInv'
    BY DEF LiveInv
  <1>3. CASE Load \/ Break \/ Err \/ (\E r \in Requests, ok \in BOOLEAN : Answer(r, ok))
             \/ (\E w \in Waiters : AskReady(w)) \/ (\E m \in replies : Receive(m)) \/ UNCHANGED vars
    BY <1>2, <1>3 DEF Load, Break, Err, Answer, AskReady, Receive, ReceiveLate, ReceiveAnswer, vars, client, secrets
  <1>4. ASSUME NEW r \in Requests, Ask(r) PROVE LiveInv'
    <2>1. \/ /\ copy' = [copy EXCEPT ![r] = IF Carries[r] = "one" THEN "wiped" ELSE Copied(r)]
             /\ queued' = queued
          \/ copy' = [copy EXCEPT ![r] = Copied(r)] /\ queued' = queued \cup {r}
          \/ copy' = [copy EXCEPT ![r] = Moved(r)] /\ queued' = queued
      BY <1>4 DEF Ask, RequestRefused, RequestQueued, RequestPosted, RequestUnsent, client
    <2>2. Carries[r] \in {"none", "one"}
      BY ClientAssumption DEF ClientAssumption, SingleSeeds
    <2> QED
      BY <1>1, <2>1, <2>2 DEF SecretInv, LiveInv, Copied, Moved
  <1>5. CASE Terminate \/ ReceiveError \/ BootTimeout
    BY <1>2, <1>5, LiveEnd DEF Terminate, ReceiveError, BootTimeout, client, secrets
  <1>6. CASE ReceiveReady
    <2>1. PICK bad \in SUBSET queued : BecomesReady(bad)
      BY <1>6 DEF ReceiveReady
    <2>2. CASE lifecycle = "booting"
      BY <1>1, <2>1, <2>2 DEF SecretInv, LiveInv, BecomesReady, Flush, Moved, Wiped
    <2>3. CASE lifecycle # "booting"
      BY <1>2, <2>1, <2>3 DEF BecomesReady
    <2> QED
      BY <2>2, <2>3
  <1> QED
    BY <1>3, <1>4, <1>5, <1>6 DEF Next

(* Where no request carries several seeds: each seed copy the page still     *)
(* holds is of a request that waits for the worker, each derivation it has   *)
(* not cleared of one that was answered (#wipeRequest, DerivationSecrets.take).             *)
THEOREM OwnedSecrets == SingleSeeds => (Spec => []SecretsHaveOwners)
  <1> SUFFICES ASSUME SingleSeeds PROVE Spec => []SecretsHaveOwners
    OBVIOUS
  <1>1. Init => LiveInv
    BY DEF Init, LiveInv
  <1>2. IInv /\ LiveInv /\ [Next]_vars => LiveInv'
    BY LiveStep
  <1>3. IInv /\ LiveInv => SecretsHaveOwners
    BY DEF IInv, SecretInv, LiveInv, SecretsHaveOwners
  <1> QED
    BY <1>1, <1>2, <1>3, Invariance, PTL DEF Spec

----------------------------------------------------------------------------
(* The refinement: requests are remote calls.                                *)

LEMMA EndRefines ==
    ASSUME IInv, NEW why, Settled(why), lifecycle # "terminated" PROVE Promise!Next
  <1>1. outcome' = [r \in Requests |-> IF outcome[r] = "waiting" THEN "failed" ELSE outcome[r]]
    BY DEF Settled, IInv, RequestInv
  <1>2. value' = value /\ lifecycle' = "terminated"
    BY DEF Settled
  <1>3. Promise!Fail
    BY <1>1, <1>2 DEF Promise!Fail
  <1> QED
    BY <1>3 DEF Promise!Next

LEMMA AskRefines == ASSUME IInv, NEW r \in Requests, Ask(r) PROVE Promise!Next
  <1>1. outcome[r] = "idle" /\ UNCHANGED <<value, lifecycle>>
    BY DEF Ask, RequestRefused, RequestQueued, RequestPosted, RequestUnsent, client
  <1>2. \/ lifecycle = "terminated" /\ outcome' = [outcome EXCEPT ![r] = "failed"]
        \/ lifecycle # "terminated" /\ outcome' = [outcome EXCEPT ![r] = "waiting"]
        \/ lifecycle # "terminated" /\ outcome' = [outcome EXCEPT ![r] = "refused"]
    BY DEF Ask, RequestRefused, RequestQueued, RequestPosted, RequestUnsent
  <1>3. Promise!Ask(r)
    BY <1>1, <1>2 DEF Promise!Ask, Promise!Settle
  <1> QED
    BY <1>3 DEF Promise!Next

LEMMA ReadyRefines == ASSUME IInv, ReceiveReady PROVE Promise!Next \/ UNCHANGED Promise!promise
  <1>1. PICK bad \in SUBSET queued : BecomesReady(bad)
    BY DEF ReceiveReady
  <1>2. value' = value
    BY DEF ReceiveReady
  <1>3. CASE lifecycle = "booting"
    <2>1. lifecycle' = "ready" /\ outcome' = [r \in Requests |-> IF r \in bad THEN "refused" ELSE outcome[r]]
      BY <1>1, <1>3 DEF BecomesReady, Flush
    <2>2. bad \in SUBSET Requests /\ \A r \in bad : outcome[r] = "waiting"
      BY <1>1 DEF IInv, RequestInv
    <2>3. Promise!Refuse(bad)
      BY <1>2, <1>3, <2>1, <2>2 DEF Promise!Refuse
    <2> QED
      BY <2>2, <2>3 DEF Promise!Next
  <1>4. CASE lifecycle # "booting"
    BY <1>1, <1>2, <1>4 DEF BecomesReady, Promise!promise
  <1> QED
    BY <1>3, <1>4

(* The identifier of an answer finds the request the worker answered. *)
LEMMA AnswerRefines ==
    ASSUME IInv, NEW m \in replies, NEW taken \in BOOLEAN, ReceiveAnswer(m, taken) PROVE Promise!Next
  <1>1. PICK r \in Owner(m) :
          /\ outcome' = [outcome EXCEPT ![r] = IF taken THEN "answered" ELSE "refused"]
          /\ value' = [value EXCEPT ![r] = IF taken THEN m.of ELSE Nobody]
    BY DEF ReceiveAnswer
  <1>2. r \in Requests /\ r \in pending /\ id[r] = m.id /\ outcome[r] = "waiting"
    BY DEF IInv, RequestInv, Owner
  <1>3. r = m.of
    <2>1. m.of \in Requests /\ m.id = id[m.of] /\ m.id # 0
      BY DEF IInv, IdInv
    <2> QED
      BY <1>2, <2>1 DEF IInv, IdInv
  <1>4. lifecycle' = lifecycle
    BY DEF ReceiveAnswer
  <1>5. CASE taken
    <2>1. Promise!Answer(r)
      BY <1>1, <1>2, <1>3, <1>4, <1>5 DEF Promise!Answer
    <2> QED
      BY <1>2, <2>1 DEF Promise!Next
  <1>6. CASE ~taken
    <2>1. value' = value
      BY <1>1, <1>2, <1>6 DEF IInv, RequestInv
    <2>2. outcome' = [q \in Requests |-> IF q \in {r} THEN "refused" ELSE outcome[q]]
      BY <1>1, <1>6 DEF IInv, RequestInv
    <2>3. Promise!Refuse({r}) /\ {r} \in SUBSET Requests
      BY <1>2, <1>4, <2>1, <2>2 DEF Promise!Refuse
    <2> QED
      BY <2>3 DEF Promise!Next
  <1> QED
    BY <1>5, <1>6

LEMMA StepRefines == ASSUME IInv, [Next]_vars PROVE Promise!Next \/ UNCHANGED Promise!promise
  <1>1. UNCHANGED <<outcome, value, lifecycle>> => UNCHANGED Promise!promise
    BY DEF Promise!promise
  <1>2. CASE Load \/ Break \/ Err \/ (\E r \in Requests, ok \in BOOLEAN : Answer(r, ok))
             \/ (\E w \in Waiters : AskReady(w)) \/ (\E m \in replies : ReceiveLate(m)) \/ UNCHANGED vars
    BY <1>1, <1>2 DEF Load, Break, Err, Answer, AskReady, ReceiveLate, vars, client, promises
  <1>3. CASE \E r \in Requests : Ask(r)
    BY <1>3, AskRefines
  <1>4. CASE Terminate \/ ReceiveError \/ BootTimeout
    BY <1>1, <1>4, EndRefines DEF Terminate, ReceiveError, BootTimeout, client, promises
  <1>5. CASE ReceiveReady
    BY <1>5, ReadyRefines
  <1>6. CASE \E m \in replies, taken \in BOOLEAN : ReceiveAnswer(m, taken)
    BY <1>6, AnswerRefines
  <1> QED
    BY <1>2, <1>3, <1>4, <1>5, <1>6 DEF Next, Receive

(* Each request of the Deriver settles once, with its own answer, a refusal, *)
(* or because the client ended (request, #handleResponse and #dispose).      *)
THEOREM ClientImplementsCalls == Spec => ImplementsRemoteCalls
  <1>1. Init => Promise!Init
    BY DEF Init, Promise!Init
  <1>2. IInv /\ [Next]_vars => [Promise!Next]_(Promise!promise)
    BY StepRefines
  <1> QED
    BY <1>1, <1>2, Invariance, PTL DEF Spec, ImplementsRemoteCalls, Promise!Spec
=============================================================================
