----------------------------- MODULE DeriveClient -----------------------------
(***************************************************************************)
(* The Deriver's DerivationWorkerClient (apps/key-derivation/src/workers/    *)
(* derive-client.ts) over one disposable Blob worker: the worker's script,   *)
(* address and deadline are EmbeddedWorkerResource's                         *)
(* (packages/shared-ui/src/embedded-worker-resource.ts), its handlers those  *)
(* of startDerivationWorker (worker-runtime.ts).                             *)
(*                                                                          *)
(* A request carries no seed ("none": the self-test), one seed ("one") or    *)
(* the seeds of the cosigners of a multisig wallet ("many"); the client      *)
(* copies what it carries, and the copies move to the worker when posted.    *)
(***************************************************************************)
EXTENDS Integers, FiniteSets

CONSTANTS
    Requests,
    Carries,    \* what each request carries: "none", "one" or "many"
    Derivations,\* the requests answered with a DerivationResult: derive and multisig
    Waiters,    \* the callers of ready()
    Nobody

ASSUME ClientAssumption ==
    /\ IsFiniteSet(Requests)
    /\ Carries \in [Requests -> {"none", "one", "many"}]
    /\ {r \in Requests : Carries[r] = "many"} \subseteq Derivations
    /\ Derivations \subseteq {r \in Requests : Carries[r] # "none"}
    /\ Nobody \notin Requests

VARIABLES
    lifecycle,      \* #lifecycle
    reason,         \* why it is terminated: "none", "cancelled", "error" or "timeout"
    nextId, id,     \* #nextId; the id each request was given, 0 before
    pending,        \* #pending: requests that can be settled
    queued,         \* #queued: requests that wait for the worker to be ready
    waiter,         \* the promises of ready()
    outcome, value, \* the promise of each request, and whose answer it holds
    copy,           \* the seed copies: "none", "live", "wiped" or "moved"
    retained,       \* requests whose result came to the page and is not cleared
    loaded, stopAfterLoad, disposed,    \* EmbeddedWorkerResource
    timer,          \* its deadline; the script's address is revoked with it
    thread,         \* the worker: "loading", "running", "broken" or "stopped"
    working,        \* requests the worker has taken and not answered
    readySent, errorSent, replies       \* events on their way to the page

client == <<lifecycle, reason, nextId, id, pending, queued, waiter>>
promises == <<outcome, value>>
secrets == <<copy, retained>>
resource == <<loaded, stopAfterLoad, disposed, timer>>
events == <<readySent, errorSent, replies>>
vars == <<client, promises, secrets, resource, thread, working, events>>

Init ==
    /\ lifecycle = "booting" /\ reason = "none"
    /\ nextId = 1 /\ id = [r \in Requests |-> 0]
    /\ pending = {} /\ queued = {}
    /\ waiter = [w \in Waiters |-> "idle"]
    /\ outcome = [r \in Requests |-> "idle"] /\ value = [r \in Requests |-> Nobody]
    /\ copy = [r \in Requests |-> "none"] /\ retained = {}
    /\ loaded = FALSE /\ stopAfterLoad = FALSE /\ disposed = FALSE /\ timer = "armed"
    /\ thread = "loading" /\ working = {}
    /\ readySent = FALSE /\ errorSent = FALSE /\ replies = {}

-----------------------------------------------------------------------------
(* The worker. *)
Load ==
    /\ thread = "loading"
    /\ thread' = "running" /\ readySent' = TRUE
    /\ UNCHANGED <<client, promises, secrets, resource, working, errorSent, replies>>

Break ==
    /\ thread = "loading"
    /\ thread' = "broken" /\ errorSent' = TRUE
    /\ UNCHANGED <<client, promises, secrets, resource, working, readySent, replies>>

(* An uncaught error outside of a handler; the worker goes on. *)
Err ==
    /\ thread = "running" /\ ~errorSent
    /\ errorSent' = TRUE
    /\ UNCHANGED <<client, promises, secrets, resource, thread, working, readySent, replies>>

(* A handler ends, in whatever order; the seeds it was given are zeroed. *)
Answer(r, ok) ==
    /\ thread = "running" /\ r \in working
    /\ working' = working \ {r}
    /\ replies' = replies \cup {[id |-> id[r], of |-> r, ok |-> ok]}
    /\ UNCHANGED <<client, promises, secrets, resource, thread, readySent, errorSent>>

-----------------------------------------------------------------------------
(* #wipeRequest: a seed, or the seed of an input. *)
Wiped(r) == IF Carries[r] = "one" THEN "wiped" ELSE copy[r]

Copied(r) == IF Carries[r] = "none" THEN "none" ELSE "live"

Moved(r) == IF Carries[r] = "none" THEN "none" ELSE "moved"

(* A request of a page whose worker is gone. *)
RequestRefused(r) ==
    /\ outcome[r] = "idle" /\ lifecycle = "terminated"
    /\ outcome' = [outcome EXCEPT ![r] = "failed"]
    /\ copy' = [copy EXCEPT ![r] = IF Carries[r] = "one" THEN "wiped" ELSE Copied(r)]
    /\ UNCHANGED <<client, value, retained, resource, thread, working, events>>

(* Mutated form of Identify: the identifier is not used up. *)
Identify_Same(r) ==
    /\ id' = [id EXCEPT ![r] = nextId]
    /\ nextId' = nextId

Identify(r) ==
    /\ id' = [id EXCEPT ![r] = nextId]
    /\ nextId' = nextId + 1

RequestQueued(r) ==
    /\ outcome[r] = "idle" /\ lifecycle = "booting"
    /\ Identify(r)
    /\ pending' = pending \cup {r} /\ queued' = queued \cup {r}
    /\ outcome' = [outcome EXCEPT ![r] = "waiting"]
    /\ copy' = [copy EXCEPT ![r] = Copied(r)]
    /\ UNCHANGED <<lifecycle, reason, waiter, value, retained, resource, thread, working, events>>

RequestPosted(r) ==
    /\ outcome[r] = "idle" /\ lifecycle = "ready"
    /\ Identify(r)
    /\ pending' = pending \cup {r} /\ working' = working \cup {r}
    /\ outcome' = [outcome EXCEPT ![r] = "waiting"]
    /\ copy' = [copy EXCEPT ![r] = Moved(r)]
    /\ UNCHANGED <<lifecycle, reason, queued, waiter, value, retained, resource, thread, events>>

(* postMessage throws. *)
RequestUnsent(r) ==
    /\ outcome[r] = "idle" /\ lifecycle = "ready"
    /\ Identify(r)
    /\ outcome' = [outcome EXCEPT ![r] = "refused"]
    /\ copy' = [copy EXCEPT ![r] = IF Carries[r] = "one" THEN "wiped" ELSE Copied(r)]
    /\ UNCHANGED <<lifecycle, reason, pending, queued, waiter, value, retained, resource,
                   thread, working, events>>

(* ready() *)
AskReady(w) ==
    /\ waiter[w] = "idle"
    /\ waiter' = [waiter EXCEPT ![w] =
                    IF lifecycle = "ready" THEN "resolved"
                    ELSE IF lifecycle = "terminated" THEN "rejected" ELSE "waiting"]
    /\ UNCHANGED <<lifecycle, reason, nextId, id, pending, queued, promises, secrets, resource,
                   thread, working, events>>

-----------------------------------------------------------------------------
(* EmbeddedWorkerResource.dispose: the worker's work ends with it. *)
Disposed ==
    /\ disposed' = TRUE
    /\ thread' = "stopped" /\ working' = {}

DisposeResource(afterLoad) ==
    IF disposed
    THEN UNCHANGED <<stopAfterLoad, disposed, timer, thread, working>>
    ELSE IF afterLoad /\ ~loaded
    THEN /\ stopAfterLoad' = TRUE
         /\ UNCHANGED <<disposed, timer, thread, working>>
    ELSE /\ Disposed
         /\ timer' = IF timer = "armed" THEN "cleared" ELSE timer
         /\ UNCHANGED stopAfterLoad

(* #dispose, up to the resource. *)
Settled(why) ==
    /\ lifecycle' = "terminated" /\ reason' = why
    /\ copy' = [r \in Requests |-> IF r \in queued THEN Wiped(r) ELSE copy[r]]
    /\ queued' = {} /\ pending' = {}
    /\ outcome' = [r \in Requests |-> IF r \in pending THEN "failed" ELSE outcome[r]]
    /\ waiter' = [w \in Waiters |-> IF waiter[w] = "waiting" THEN "rejected" ELSE waiter[w]]
    /\ UNCHANGED <<nextId, id, value, retained>>

Terminate ==
    /\ lifecycle # "terminated"
    /\ Settled("cancelled")
    /\ DisposeResource(TRUE)
    /\ UNCHANGED <<loaded, events>>

ReceiveError ==
    /\ errorSent /\ errorSent' = FALSE
    /\ IF lifecycle = "terminated"
       THEN UNCHANGED <<client, promises, secrets, resource, thread, working>>
       ELSE Settled("error") /\ DisposeResource(FALSE) /\ UNCHANGED loaded
    /\ UNCHANGED <<readySent, replies>>

(* The deadline of the worker's start. *)
BootTimeout ==
    /\ timer = "armed" /\ timer' = "fired"
    /\ Disposed
    /\ IF lifecycle = "terminated"
       THEN UNCHANGED <<client, promises, secrets>>
       ELSE Settled("timeout")
    /\ UNCHANGED <<loaded, stopAfterLoad, events>>

(* Mutated form of Loaded: a stop that was put off is not made up for. *)
Loaded_ForgetsStop ==
    IF disposed
    THEN UNCHANGED <<loaded, disposed, timer, thread>>
    ELSE /\ loaded' = TRUE /\ timer' = "cleared"
         /\ UNCHANGED <<disposed, thread>>

(* EmbeddedWorkerResource.loaded. *)
Loaded ==
    IF disposed
    THEN UNCHANGED <<loaded, disposed, timer, thread>>
    ELSE /\ loaded' = TRUE /\ timer' = "cleared"
         /\ disposed' = stopAfterLoad
         /\ thread' = IF stopAfterLoad THEN "stopped" ELSE thread

(* The queued requests are posted; for some of them postMessage throws. *)
Flush(bad) ==
    /\ working' = working \cup (queued \ bad)
    /\ copy' = [r \in Requests |-> IF r \in queued \ bad THEN Moved(r)
                                   ELSE IF r \in bad THEN Wiped(r) ELSE copy[r]]
    /\ pending' = pending \ bad
    /\ outcome' = [r \in Requests |-> IF r \in bad THEN "refused" ELSE outcome[r]]
    /\ queued' = {}

(* Mutated form of BecomesReady: a client that was terminated comes back. *)
BecomesReady_Always(bad) ==
    /\ lifecycle' = "ready"
    /\ waiter' = [w \in Waiters |-> IF waiter[w] = "waiting" THEN "resolved" ELSE waiter[w]]
    /\ Flush(bad)

BecomesReady(bad) ==
    IF lifecycle = "booting"
    THEN /\ lifecycle' = "ready"
         /\ waiter' = [w \in Waiters |-> IF waiter[w] = "waiting" THEN "resolved" ELSE waiter[w]]
         /\ Flush(bad)
    ELSE UNCHANGED <<lifecycle, waiter, working, copy, pending, outcome, queued>>

ReceiveReady ==
    /\ readySent /\ readySent' = FALSE
    /\ Loaded
    /\ \E bad \in SUBSET queued : BecomesReady(bad)
    /\ UNCHANGED <<reason, nextId, id, value, retained, stopAfterLoad, errorSent, replies>>

Owner(m) == {r \in pending : id[r] = m.id}

(* Mutated form of ReceiveLate: nothing of a cancelled request is cleared. *)
ReceiveLate_Keeps(m) ==
    /\ m \in replies /\ Owner(m) = {}
    /\ replies' = replies \ {m}
    /\ retained' = IF m.ok THEN retained \cup {m.of} ELSE retained
    /\ UNCHANGED <<client, promises, copy, resource, thread, working, readySent, errorSent>>

(* The answer to a request nobody waits for any more: a derivation is       *)
(* cleared, any other result is dropped as it is.                           *)
ReceiveLate(m) ==
    /\ m \in replies /\ Owner(m) = {}
    /\ replies' = replies \ {m}
    /\ retained' = IF m.ok /\ m.of \notin Derivations THEN retained \cup {m.of} ELSE retained
    /\ UNCHANGED <<client, promises, copy, resource, thread, working, readySent, errorSent>>

(* DerivationSecrets.take refuses a derivation it cannot own, and clears it; *)
(* other results are handed over as they are.                                *)
ReceiveAnswer(m, taken) ==
    /\ m \in replies
    /\ taken => m.ok
    /\ m.ok /\ ~taken => m.of \in Derivations
    /\ replies' = replies \ {m}
    /\ \E r \in Owner(m) :
         /\ pending' = pending \ {r}
         /\ outcome' = [outcome EXCEPT ![r] = IF taken THEN "answered" ELSE "refused"]
         /\ value' = [value EXCEPT ![r] = IF taken THEN m.of ELSE Nobody]
         /\ retained' = IF taken THEN retained \cup {r} ELSE retained
    /\ UNCHANGED <<lifecycle, reason, nextId, id, queued, waiter, copy, resource, thread,
                   working, readySent, errorSent>>

-----------------------------------------------------------------------------
Ask(r) == RequestRefused(r) \/ RequestQueued(r) \/ RequestPosted(r) \/ RequestUnsent(r)

Receive(m) == ReceiveLate(m) \/ \E taken \in BOOLEAN : ReceiveAnswer(m, taken)

Next ==
    \/ Load \/ Break \/ Err
    \/ \E r \in Requests, ok \in BOOLEAN : Answer(r, ok)
    \/ \E r \in Requests : Ask(r)
    \/ \E w \in Waiters : AskReady(w)
    \/ Terminate \/ ReceiveError \/ BootTimeout \/ ReceiveReady
    \/ \E m \in replies : Receive(m)

Spec == Init /\ [][Next]_vars

(* Timers fire, events are delivered, and a handler of a worker that runs    *)
(* ends.  Nothing says that the worker's script is ever run.                 *)
FairSpec ==
    /\ Spec
    /\ WF_vars(BootTimeout) /\ WF_vars(ReceiveReady) /\ WF_vars(ReceiveError)
    /\ WF_vars(\E m \in replies : Receive(m))
    /\ \A r \in Requests : WF_vars(\E ok \in BOOLEAN : Answer(r, ok))

-----------------------------------------------------------------------------
TypeOK ==
    /\ lifecycle \in {"booting", "ready", "terminated"}
    /\ reason \in {"none", "cancelled", "error", "timeout"}
    /\ nextId \in 1 .. Cardinality(Requests) + 1
    /\ id \in [Requests -> 0 .. Cardinality(Requests)]
    /\ pending \subseteq Requests /\ queued \subseteq pending
    /\ waiter \in [Waiters -> {"idle", "waiting", "resolved", "rejected"}]
    /\ outcome \in [Requests -> {"idle", "waiting", "answered", "refused", "failed"}]
    /\ value \in [Requests -> Requests \cup {Nobody}]
    /\ copy \in [Requests -> {"none", "live", "wiped", "moved"}]
    /\ retained \subseteq Requests /\ working \subseteq Requests
    /\ loaded \in BOOLEAN /\ stopAfterLoad \in BOOLEAN /\ disposed \in BOOLEAN
    /\ timer \in {"armed", "cleared", "fired"}
    /\ thread \in {"loading", "running", "broken", "stopped"}
    /\ readySent \in BOOLEAN /\ errorSent \in BOOLEAN
    /\ replies \subseteq [id : 1 .. Cardinality(Requests), of : Requests, ok : BOOLEAN]

(* A seed copy on the page belongs to a request that waits for the worker,   *)
(* and a derivation that is not cleared to one that was answered: one that   *)
(* comes late is cleared (#wipeRequest, DerivationSecrets).                  *)
SecretsHaveOwners ==
    /\ \A r \in Requests : copy[r] = "live" => r \in queued
    /\ \A r \in retained \cap Derivations : outcome[r] = "answered"

(* Requests reach a worker that is loaded and not stopped, and none after    *)
(* the client ended.  (Among well-typed states: TypeOK is checked with it.)  *)
PostedToLiveWorker ==
    []TypeOK /\ [][\A r \in working' \ working : lifecycle' = "ready" /\ loaded' /\ ~disposed']_vars

Promise == INSTANCE RemoteCalls
    WITH Calls <- Requests, Signals <- {}, SignalOf <- [r \in Requests |-> Nobody],
         fired <- {}, closed <- lifecycle = "terminated"

(* Each request settles once, with its own answer, a refusal, or the reason  *)
(* the client ended for.                                                     *)
ImplementsRemoteCalls == Promise!Spec

(* Whatever becomes of the worker, every request and every caller of ready() *)
(* is settled, and a client that ended gives its worker up, even if it ended *)
(* while the script was being loaded.                                        *)
EveryRequestSettles ==
    /\ \A r \in Requests : outcome[r] = "waiting" ~> outcome[r] # "waiting"
    /\ \A w \in Waiters : waiter[w] = "waiting" ~> waiter[w] # "waiting"
    /\ lifecycle = "terminated" ~> disposed
=============================================================================
