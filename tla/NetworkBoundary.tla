--------------------------- MODULE NetworkBoundary ---------------------------
(***************************************************************************)
(* The calls of the Secret Vault over its MessagePort: NetworkBoundaryClient *)
(* (packages/network-boundary/src/client.ts) in the vault's document and     *)
(* startNetworkBoundaryWorker (worker-runtime.ts) in the Network Worker, two *)
(* threads that share nothing but the two ordered directions of the port.    *)
(*                                                                          *)
(* A handler runs to its end before its thread takes the next message, so a  *)
(* handler is one action.  What a call asks for is the call itself; the      *)
(* service behind the worker settles every request, sooner or later and      *)
(* whether or not it was aborted.                                            *)
(***************************************************************************)
EXTENDS Integers, FiniteSets, Sequences, Functions

CONSTANTS
    Calls,          \* the requests the vault makes
    Invalid,        \* those the worker's validation rejects
    Signals,        \* the AbortSignals: one per run
    SignalOf,       \* the signal of each call, or Nobody
    Nobody

ASSUME BoundaryAssumption ==
    /\ IsFiniteSet(Calls)
    /\ Invalid \subseteq Calls
    /\ Nobody \notin Calls \cup Signals
    /\ SignalOf \in [Calls -> Signals \cup {Nobody}]

VARIABLES
    sequence,       \* client: #sequence
    pending,        \* client: #pending, [identifier -> call]
    closed,         \* client: #closed
    outcome, value, \* the promise of each call, and whose value it resolved to
    fired,          \* the signals aborted
    toWorker,       \* the messages on their way to the worker
    toClient,       \* the replies on their way to the client
    controllers,    \* worker: [identifier -> request being executed]
    aborted         \* worker: the controllers aborted

client == <<sequence, pending, closed>>
promises == <<outcome, value>>
worker == <<controllers, aborted>>
vars == <<client, promises, fired, toWorker, toClient, worker>>

Init ==
    /\ sequence = 0 /\ pending = <<>> /\ closed = FALSE
    /\ outcome = [c \in Calls |-> "idle"]
    /\ value = [c \in Calls |-> Nobody]
    /\ fired = {}
    /\ toWorker = <<>> /\ toClient = <<>>
    /\ controllers = <<>> /\ aborted = {}

Invoke(id, c) == [type |-> "invoke", id |-> id, call |-> c]
Cancel(id) == [type |-> "cancel", id |-> id]
Reply(id, ok, v) == [id |-> id, ok |-> ok, value |-> v]

-----------------------------------------------------------------------------
(* The client, in the vault.                                                *)
Settle(c, how) == outcome' = [outcome EXCEPT ![c] = how]

(* #request on a boundary that failed, or with a signal that fired before. *)
RequestRefused(c) ==
    /\ outcome[c] = "idle"
    /\ \/ closed /\ Settle(c, "failed")
       \/ ~closed /\ SignalOf[c] \in fired /\ Settle(c, "aborted")
    /\ UNCHANGED <<client, value, fired, toWorker, toClient, worker>>

(* Mutated form of FreshId: the identifiers of settled requests come back.  *)
FreshId_Reused == Cardinality(DOMAIN pending) + 1

FreshId == sequence + 1

RequestPosted(c) ==
    /\ outcome[c] = "idle" /\ ~closed /\ SignalOf[c] \notin fired
    /\ Settle(c, "waiting")
    /\ sequence' = sequence + 1
    /\ pending' = [i \in DOMAIN pending \cup {FreshId} |-> IF i = FreshId THEN c ELSE pending[i]]
    /\ toWorker' = Append(toWorker, Invoke(FreshId, c))
    /\ UNCHANGED <<closed, value, fired, toClient, worker>>

(* postMessage throws: the entry is taken back. *)
RequestUnsent(c) ==
    /\ outcome[c] = "idle" /\ ~closed /\ SignalOf[c] \notin fired
    /\ Settle(c, "refused")
    /\ sequence' = sequence + 1
    /\ UNCHANGED <<pending, closed, value, fired, toWorker, toClient, worker>>

Listening(s) == {i \in DOMAIN pending : SignalOf[pending[i]] = s}

(* The listeners of a signal, in the order in which they were added. *)
InOrder(ids) ==
    {f \in Bijection(1 .. Cardinality(ids), ids) : \A j, k \in DOMAIN f : j < k => f[j] < f[k]}

Forget(ids) == pending' = [i \in DOMAIN pending \ ids |-> pending[i]]

(* Mutated forms of Abort: the worker is not told; the entries stay.        *)
Abort_Untold(s) ==
    /\ s \notin fired /\ fired' = fired \cup {s}
    /\ Forget(Listening(s))
    /\ outcome' = [c \in Calls |-> IF \E i \in Listening(s) : pending[i] = c
                                   THEN "aborted" ELSE outcome[c]]
    /\ UNCHANGED <<sequence, closed, value, toWorker, toClient, worker>>

Abort_KeepsEntry(s) ==
    /\ s \notin fired /\ fired' = fired \cup {s}
    /\ \E order \in InOrder(Listening(s)) :
         toWorker' = toWorker \o [k \in DOMAIN order |-> Cancel(order[k])]
    /\ outcome' = [c \in Calls |-> IF \E i \in Listening(s) : pending[i] = c
                                   THEN "aborted" ELSE outcome[c]]
    /\ UNCHANGED <<client, value, toClient, worker>>

(* The listeners of a signal run one after the other when it fires: each    *)
(* takes its entry back, tells the worker and rejects its promise.          *)
Abort(s) ==
    /\ s \notin fired /\ fired' = fired \cup {s}
    /\ Forget(Listening(s))
    /\ \E order \in InOrder(Listening(s)) :
         toWorker' = toWorker \o [k \in DOMAIN order |-> Cancel(order[k])]
    /\ outcome' = [c \in Calls |-> IF \E i \in Listening(s) : pending[i] = c
                                   THEN "aborted" ELSE outcome[c]]
    /\ UNCHANGED <<sequence, closed, value, toClient, worker>>

(* #receive: the reply to a request that is no longer pending is ignored.   *)
Receive ==
    /\ ~closed /\ toClient # <<>>
    /\ toClient' = Tail(toClient)
    /\ LET r == Head(toClient)
       IN  IF r.id \notin DOMAIN pending
           THEN UNCHANGED <<pending, promises>>
           ELSE /\ Forget({r.id})
                /\ Settle(pending[r.id], IF r.ok THEN "answered" ELSE "refused")
                /\ value' = IF r.ok THEN [value EXCEPT ![pending[r.id]] = r.value] ELSE value
    /\ UNCHANGED <<sequence, closed, fired, toWorker, worker>>

(* Mutated form of Fail: the calls already made are left to the closed port. *)
Fail_LeavesPending ==
    /\ ~closed /\ closed' = TRUE
    /\ UNCHANGED <<sequence, pending, promises, fired, toWorker, toClient, worker>>

(* fail: the shell reports the worker's failure, or a message is unreadable *)
(* or malformed.  The port is closed: what the worker sends is dropped, what *)
(* was posted to it is still delivered.                                     *)
Fail ==
    /\ ~closed /\ closed' = TRUE
    /\ outcome' = [c \in Calls |-> IF \E i \in DOMAIN pending : pending[i] = c
                                   THEN "failed" ELSE outcome[c]]
    /\ pending' = <<>>
    /\ toClient' = <<>>
    /\ UNCHANGED <<sequence, value, fired, toWorker, worker>>

-----------------------------------------------------------------------------
(* The worker.  Its replies to a closed port go nowhere.                    *)
Post(reply) == toClient' = IF closed THEN toClient ELSE Append(toClient, reply)

Take(type) ==
    /\ toWorker # <<>> /\ Head(toWorker).type = type
    /\ toWorker' = Tail(toWorker)

Acceptable(m) == m.call \notin Invalid /\ m.id \notin DOMAIN controllers

Execute ==
    /\ Take("invoke") /\ Acceptable(Head(toWorker))
    /\ LET m == Head(toWorker)
       IN  controllers' = [i \in DOMAIN controllers \cup {m.id} |->
                             IF i = m.id THEN m.call ELSE controllers[i]]
    /\ UNCHANGED <<client, promises, fired, toClient, aborted>>

(* Mutated form of Decline: the worker returns without a reply. *)
Decline_Silently ==
    /\ Take("invoke") /\ ~Acceptable(Head(toWorker))
    /\ UNCHANGED <<client, promises, fired, toClient, worker>>

(* The request is invalid, or its identifier belongs to a running request.  *)
Decline ==
    /\ Take("invoke") /\ ~Acceptable(Head(toWorker))
    /\ Post(Reply(Head(toWorker).id, FALSE, Nobody))
    /\ UNCHANGED <<client, promises, fired, worker>>

AbortController ==
    /\ Take("cancel")
    /\ aborted' = aborted \cup ({Head(toWorker).id} \cap DOMAIN controllers)
    /\ UNCHANGED <<client, promises, fired, toClient, controllers>>

(* The service settles: an aborted request may still have been in time.     *)
Finish(id, ok) ==
    /\ id \in DOMAIN controllers
    /\ Post(Reply(id, ok, IF ok THEN controllers[id] ELSE Nobody))
    /\ controllers' = [i \in DOMAIN controllers \ {id} |-> controllers[i]]
    /\ aborted' = aborted \ {id}
    /\ UNCHANGED <<client, promises, fired, toWorker>>

-----------------------------------------------------------------------------
WorkerTurn == Execute \/ Decline \/ AbortController

Next ==
    \/ \E c \in Calls : RequestRefused(c) \/ RequestPosted(c) \/ RequestUnsent(c)
    \/ \E s \in Signals : Abort(s)
    \/ Receive
    \/ Fail
    \/ WorkerTurn
    \/ \E id \in DOMAIN controllers, ok \in BOOLEAN : Finish(id, ok)

Spec == Init /\ [][Next]_vars

(* Both threads take their messages, and the service settles each request:  *)
(* its reads have deadlines.                                                *)
FairSpec ==
    /\ Spec
    /\ WF_vars(WorkerTurn)
    /\ WF_vars(Receive)
    /\ \A id \in 1 .. Cardinality(Calls) : WF_vars(\E ok \in BOOLEAN : Finish(id, ok))

-----------------------------------------------------------------------------
Outcomes == {"idle", "waiting", "answered", "refused", "aborted", "failed"}

TypeOK ==
    /\ sequence \in 0 .. Cardinality(Calls)
    /\ DOMAIN pending \subseteq 1 .. sequence
    /\ \A i \in DOMAIN pending : pending[i] \in Calls
    /\ closed \in BOOLEAN
    /\ outcome \in [Calls -> Outcomes]
    /\ value \in [Calls -> Calls \cup {Nobody}]
    /\ fired \subseteq Signals
    /\ \A k \in DOMAIN toWorker :
         toWorker[k].type \in {"invoke", "cancel"} /\ toWorker[k].id \in 1 .. sequence
    /\ \A k \in DOMAIN toClient : toClient[k].id \in 1 .. sequence
    /\ DOMAIN controllers \subseteq 1 .. sequence
    /\ aborted \subseteq DOMAIN controllers

Invocations(id) == {k \in DOMAIN toWorker : toWorker[k].type = "invoke" /\ toWorker[k].id = id}
Replies(id) == {k \in DOMAIN toClient : toClient[k].id = id}

(* A waiting call is in exactly one place: on its way to the worker, running *)
(* there, or answered and on its way back.  It is never lost or run twice.   *)
(* (Among well-typed states: TypeOK is checked with it.)                     *)
WaitingCallIsHeldOnce ==
    /\ TypeOK
    /\ \A c \in Calls : outcome[c] = "waiting" <=> \E i \in DOMAIN pending : pending[i] = c
    /\ \A i \in DOMAIN pending :
         Cardinality(Invocations(i)) + Cardinality(Replies(i))
           + (IF i \in DOMAIN controllers THEN 1 ELSE 0) = 1

(* No request goes on for a call that was aborted unless its cancel is on    *)
(* its way, behind the request itself, or has arrived.                       *)
CancelFollowsRequest ==
    \A c \in Calls : outcome[c] = "aborted" =>
        /\ \A i \in DOMAIN controllers : controllers[i] = c =>
             i \in aborted \/ \E k \in DOMAIN toWorker : toWorker[k] = Cancel(i)
        /\ \A k \in DOMAIN toWorker :
             toWorker[k].type = "invoke" /\ toWorker[k].call = c =>
               \E l \in DOMAIN toWorker : l > k /\ toWorker[l] = Cancel(toWorker[k].id)

(* Over the messages the boundary keeps the promise of RemoteCalls: the late *)
(* answer of a cancelled request, for one, never reaches another call.       *)
Promise == INSTANCE RemoteCalls

ImplementsRemoteCalls == Promise!Spec

(* Every call settles: its answer arrives, its signal fires or fail ends it. *)
EveryCallSettles ==
    \A c \in Calls : outcome[c] = "waiting" ~> outcome[c] # "waiting"
=============================================================================
