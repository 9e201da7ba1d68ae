---------------------------- MODULE RecoveryLimiter ----------------------------
(***************************************************************************)
(* The abort-aware semaphore every network request of one recovery run      *)
(* goes through: RecoveryConcurrencyLimiter in                              *)
(* apps/discovery-scanner/src/concurrency.ts.                               *)
(*                                                                          *)
(* A call is one invocation of run(task, signal).  JavaScript runs each     *)
(* piece of code between two awaits to its end, so an action is such a      *)
(* piece: the caller's synchronous part up to the first await, the          *)
(* continuation after #acquire, the settlement of the task with the release *)
(* in `finally`, and the dispatch of one abort event to all its listeners.  *)
(***************************************************************************)
EXTENDS Naturals, FiniteSets

CONSTANTS
    Calls,      \* the calls of run() made in one recovery run
    Signals,    \* the AbortSignals the calls are given
    NoSignal,   \* the signal of a call made without one
    SignalOf,   \* the signal each call is given
    Limit       \* #limit, admitted as an integer from 1 to 5

ASSUME LimiterAssumption ==
    /\ Limit \in 1 .. 5
    /\ NoSignal \notin Signals
    /\ SignalOf \in [Calls -> Signals \cup {NoSignal}]
    /\ IsFiniteSet(Calls)

VARIABLES
    active,     \* #active
    waiting,    \* #waiting: [the calls in it -> when each was pushed]
    arrivals,   \* how many calls were ever pushed on #waiting
    phase,      \* where each call stands
    aborted     \* the signals that have been aborted

limiterVars == <<active, waiting, arrivals, phase, aborted>>

(* A call is "granted" from the moment it owns a slot until its             *)
(* continuation runs: the abort signal can fire in between.                 *)
Phases == {"idle", "waiting", "granted", "running", "fulfilled", "rejected"}

IsAborted(c) == SignalOf[c] \in aborted

Holders == {c \in Calls : phase[c] \in {"granted", "running"}}
Settled == {c \in Calls : phase[c] \in {"fulfilled", "rejected"}}

(* #waiting is only pushed at its end and spliced, so its order is the      *)
(* order of arrival: the array is the function from its calls to arrival    *)
(* numbers, and `shift` takes the lowest.                                   *)
Queued == DOMAIN waiting

Keep(some) == [d \in some |-> waiting[d]]

LimiterInit ==
    /\ active = 0
    /\ waiting = [c \in {} |-> 0]
    /\ arrivals = 0
    /\ phase = [c \in Calls |-> "idle"]
    /\ aborted = {}

-----------------------------------------------------------------------------
(* #acquire: the three ways its synchronous part can end. *)

AcquireCancelled(c) ==
    /\ phase[c] = "idle"
    /\ IsAborted(c)
    /\ phase' = [phase EXCEPT ![c] = "rejected"]
    /\ UNCHANGED <<active, waiting, arrivals, aborted>>

AcquireSlot(c) ==
    /\ phase[c] = "idle"
    /\ ~IsAborted(c)
    /\ active < Limit
    /\ active' = active + 1
    /\ phase' = [phase EXCEPT ![c] = "granted"]
    /\ UNCHANGED <<waiting, arrivals, aborted>>

AcquireWait(c) ==
    /\ phase[c] = "idle"
    /\ ~IsAborted(c)
    /\ ~(active < Limit)
    /\ waiting' = [d \in Queued \cup {c} |-> IF d = c THEN arrivals ELSE waiting[d]]
    /\ arrivals' = arrivals + 1
    /\ phase' = [phase EXCEPT ![c] = "waiting"]
    /\ UNCHANGED <<active, aborted>>

-----------------------------------------------------------------------------
(* #release, entered by call c which settles with `outcome`.  The loop      *)
(* shifts waiters until one is not aborted: that one inherits the slot, so  *)
(* `active` is only decremented when nobody is left.                        *)

LiveWaiters == {d \in Queued : ~IsAborted(d)}

ReleaseIdle(c, outcome) ==
    /\ LiveWaiters = {}
    /\ active' = active - 1
    /\ waiting' = Keep({})
    /\ phase' = [d \in Calls |-> IF d = c THEN outcome
                                ELSE IF d \in Queued THEN "rejected" ELSE phase[d]]

(* Mutated forms of ReleaseTo: the slot is freed as well as handed over; the *)
(* latest waiter is served first.                                           *)
ReleaseTo_AlsoFrees(c, outcome, next) ==
    /\ next \in LiveWaiters
    /\ \A d \in LiveWaiters : waiting[next] <= waiting[d]
    /\ active' = active - 1
    /\ waiting' = Keep(Queued \ {next})
    /\ phase' = [phase EXCEPT ![c] = outcome, ![next] = "granted"]

ReleaseTo_LastFirst(c, outcome, next) ==
    /\ next \in LiveWaiters
    /\ \A d \in LiveWaiters : waiting[next] >= waiting[d]
    /\ waiting' = Keep(Queued \ {next})
    /\ phase' = [phase EXCEPT ![c] = outcome, ![next] = "granted"]
    /\ UNCHANGED active

ReleaseTo(c, outcome, next) ==
    LET skipped == {d \in Queued : waiting[d] < waiting[next]}
    IN  /\ next \in LiveWaiters
        /\ \A d \in LiveWaiters : waiting[next] <= waiting[d]
        /\ waiting' = Keep(Queued \ (skipped \cup {next}))
        /\ phase' = [d \in Calls |-> IF d = c THEN outcome
                                    ELSE IF d = next THEN "granted"
                                    ELSE IF d \in skipped THEN "rejected" ELSE phase[d]]
        /\ UNCHANGED active

Release(c, outcome) ==
    \/ ReleaseIdle(c, outcome)
    \/ \E next \in Queued : ReleaseTo(c, outcome, next)

(* run() resumes after #acquire: the signal is looked at again. *)
Start(c) ==
    /\ phase[c] = "granted"
    /\ ~IsAborted(c)
    /\ phase' = [phase EXCEPT ![c] = "running"]
    /\ UNCHANGED <<active, waiting, arrivals, aborted>>

(* Mutated form of StartCancelled: the signal check is outside the `try`. *)
StartCancelled_KeepsSlot(c) ==
    /\ phase[c] = "granted"
    /\ IsAborted(c)
    /\ phase' = [phase EXCEPT ![c] = "rejected"]
    /\ UNCHANGED <<active, waiting, arrivals, aborted>>

StartCancelled(c) ==
    /\ phase[c] = "granted"
    /\ IsAborted(c)
    /\ Release(c, "rejected")
    /\ UNCHANGED <<arrivals, aborted>>

(* The task settles, either way, and `finally` releases. *)
Finish(c) ==
    /\ phase[c] = "running"
    /\ \E outcome \in {"fulfilled", "rejected"} : Release(c, outcome)
    /\ UNCHANGED <<arrivals, aborted>>

(* The abort event: every listener of the signal runs before anything else. *)
(* A waiter listens until it settles.                                       *)
Listeners(s) == {c \in Calls : phase[c] = "waiting" /\ SignalOf[c] = s}

(* Mutated form of Abort: the listener rejects but does not splice. *)
Abort_LeavesQueue(s) ==
    /\ s \notin aborted
    /\ aborted' = aborted \cup {s}
    /\ phase' = [c \in Calls |-> IF c \in Listeners(s) THEN "rejected" ELSE phase[c]]
    /\ UNCHANGED <<active, waiting, arrivals>>

Abort(s) ==
    /\ s \notin aborted
    /\ aborted' = aborted \cup {s}
    /\ waiting' = Keep(Queued \ Listeners(s))
    /\ phase' = [c \in Calls |-> IF c \in Listeners(s) THEN "rejected" ELSE phase[c]]
    /\ UNCHANGED <<active, arrivals>>

CallStep(c) ==
    \/ AcquireCancelled(c)
    \/ AcquireSlot(c)
    \/ AcquireWait(c)
    \/ Start(c)
    \/ StartCancelled(c)
    \/ Finish(c)

LimiterNext ==
    \/ \E c \in Calls : CallStep(c)
    \/ \E s \in Signals : Abort(s)

LimiterSpec == LimiterInit /\ [][LimiterNext]_limiterVars

(* The event loop runs a ready continuation, and every task settles: each   *)
(* request carries its own timeout.  Nobody has to call or to abort.        *)
Fairness == \A c \in Calls : WF_limiterVars(Start(c) \/ StartCancelled(c) \/ Finish(c))

LimiterFairSpec == LimiterSpec /\ Fairness

-----------------------------------------------------------------------------
LimiterTypeOK ==
    /\ active \in 0 .. Limit
    /\ Queued \subseteq Calls
    /\ arrivals \in Nat
    /\ waiting \in [Queued -> Nat]
    /\ phase \in [Calls -> Phases]
    /\ aborted \subseteq Signals

(* #active is the number of slots in use: over hand-overs, abandoned grants  *)
(* and failures of tasks no slot leaks and none is given twice, and no more  *)
(* than #limit requests are ever in flight.                                  *)
SlotAccounting == active = Cardinality(Holders) /\ active <= Limit

(* A waiter is in the queue until it settles and not a moment longer: an     *)
(* abort never leaves a rejected waiter behind for #release to wake, and no  *)
(* unsettled caller is ever missing from the queue.                          *)
EveryWaiterQueued == Queued = {c \in Calls : phase[c] = "waiting"} /\ LiveWaiters = Queued

(* Nobody waits while a slot is free: no wake-up is lost, whatever order     *)
(* releases and aborts come in.                                              *)
NoIdleSlot == Queued # {} => active = Limit

(* The semaphore hands its slots over first come, first served, and a call   *)
(* that gives up disturbs nobody else's place.                               *)
Gate == INSTANCE FifoGate WITH inside <- Holders, queue <- waiting, gone <- Settled

ImplementsGate == Gate!Spec

(* Every call of run() settles, served or cancelled, even if the calls ahead *)
(* of it fail or are aborted while they wait or between grant and start.     *)
EveryCallSettles == \A c \in Calls : phase[c] # "idle" ~> c \in Settled
=============================================================================
