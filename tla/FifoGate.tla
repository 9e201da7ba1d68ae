------------------------------- MODULE FifoGate -------------------------------
(***************************************************************************)
(* What a first-come-first-served semaphore promises, with no counter and   *)
(* no abort signals: at most Limit calls are inside, a call waits only      *)
(* while the gate is full, whoever leaves lets the longest-waiting call in  *)
(* at that very moment, and a call may give up while it waits.              *)
(* RecoveryLimiter is shown to implement it.                                *)
(***************************************************************************)
EXTENDS Naturals, FiniteSets

CONSTANTS Calls, Limit

VARIABLES
    inside,     \* the calls that own a slot
    queue,      \* [the waiting calls -> the moment each arrived]
    gone        \* the calls that left, served or not

gateVars == <<inside, queue, gone>>

Outside == Calls \ (inside \cup DOMAIN queue \cup gone)

Longest(c) == c \in DOMAIN queue /\ \A d \in DOMAIN queue : queue[c] <= queue[d]

Init == inside = {} /\ queue = [c \in {} |-> 0] /\ gone = {}

Admit(c) ==
    /\ c \in Outside
    /\ Cardinality(inside) < Limit
    /\ DOMAIN queue = {}
    /\ inside' = inside \cup {c}
    /\ UNCHANGED <<queue, gone>>

Queue(c) ==
    /\ c \in Outside
    /\ Cardinality(inside) = Limit
    /\ DOMAIN queue' = DOMAIN queue \cup {c}
    /\ \A d \in DOMAIN queue : queue'[d] = queue[d] /\ queue[d] < queue'[c]
    /\ UNCHANGED <<inside, gone>>

Decline(c) ==
    /\ c \in Outside
    /\ gone' = gone \cup {c}
    /\ UNCHANGED <<inside, queue>>

LeaveEmpty(c) ==
    /\ c \in inside
    /\ DOMAIN queue = {}
    /\ inside' = inside \ {c}
    /\ gone' = gone \cup {c}
    /\ UNCHANGED queue

LeaveTo(c, d) ==
    /\ c \in inside
    /\ Longest(d)
    /\ inside' = (inside \ {c}) \cup {d}
    /\ queue' = [e \in DOMAIN queue \ {d} |-> queue[e]]
    /\ gone' = gone \cup {c}

GiveUp(some) ==
    /\ some \subseteq DOMAIN queue
    /\ queue' = [e \in DOMAIN queue \ some |-> queue[e]]
    /\ gone' = gone \cup some
    /\ UNCHANGED inside

Next ==
    \/ \E c \in Calls : Admit(c) \/ Queue(c) \/ Decline(c) \/ LeaveEmpty(c)
    \/ \E c, d \in Calls : LeaveTo(c, d)
    \/ \E some \in SUBSET Calls : GiveUp(some)

Spec == Init /\ [][Next]_gateVars
=============================================================================
