----------------------------- MODULE RemoteCalls -----------------------------
(***************************************************************************)
(* What a page is promised about its calls to a worker (the vault's to the  *)
(* Network Worker, the Deriver's to its derivation worker): each settles    *)
(* once and for good, with its own answer, with a refusal, because its      *)
(* signal fired, or because the connection ended.  Messages, identifiers    *)
(* and the worker's bookkeeping do not show.                                *)
(***************************************************************************)
CONSTANTS Calls, Signals, SignalOf, Nobody

VARIABLES
    outcome,    \* how far each call is
    value,      \* whose answer it was given
    fired,      \* the signals aborted
    closed      \* the connection ended

promise == <<outcome, value, fired, closed>>

Init ==
    /\ outcome = [c \in Calls |-> "idle"]
    /\ value = [c \in Calls |-> Nobody]
    /\ fired = {}
    /\ closed = FALSE

Settle(c, how) ==
    /\ outcome' = [outcome EXCEPT ![c] = how]
    /\ UNCHANGED <<value, fired, closed>>

Ask(c) ==
    /\ outcome[c] = "idle"
    /\ \/ closed /\ Settle(c, "failed")
       \/ ~closed /\ SignalOf[c] \in fired /\ Settle(c, "aborted")
       \/ ~closed /\ SignalOf[c] \notin fired
          /\ (Settle(c, "waiting") \/ Settle(c, "refused"))

Answer(c) ==
    /\ outcome[c] = "waiting"
    /\ outcome' = [outcome EXCEPT ![c] = "answered"]
    /\ value' = [value EXCEPT ![c] = c]
    /\ UNCHANGED <<fired, closed>>

(* One call, or several in the turn in which all of them are sent. *)
Refuse(some) ==
    /\ \A c \in some : outcome[c] = "waiting"
    /\ outcome' = [c \in Calls |-> IF c \in some THEN "refused" ELSE outcome[c]]
    /\ UNCHANGED <<value, fired, closed>>

(* Every call still waiting on the signal is given up at once. *)
Abort(s) ==
    /\ s \notin fired
    /\ fired' = fired \cup {s}
    /\ outcome' = [c \in Calls |->
                     IF outcome[c] = "waiting" /\ SignalOf[c] = s THEN "aborted" ELSE outcome[c]]
    /\ UNCHANGED <<value, closed>>

Fail ==
    /\ ~closed
    /\ closed' = TRUE
    /\ outcome' = [c \in Calls |-> IF outcome[c] = "waiting" THEN "failed" ELSE outcome[c]]
    /\ UNCHANGED <<value, fired>>

Next ==
    \/ \E c \in Calls : Ask(c) \/ Answer(c)
    \/ \E some \in SUBSET Calls : Refuse(some)
    \/ \E s \in Signals : Abort(s)
    \/ Fail

Spec == Init /\ [][Next]_promise
=============================================================================
