----------------------------- MODULE PoolSnapshot -----------------------------
(***************************************************************************)
(* What a scan of the growing Orchard pool promises: when it says that it   *)
(* is complete, the wallet's notes and their spends are exactly those of    *)
(* the pool at ONE proved height, although the pool was read page by page   *)
(* while it grew.  Every other outcome promises nothing.                    *)
(***************************************************************************)
EXTENDS Integers

CONSTANTS
    Mine,       \* the positions of the notes this wallet can read
    Spends      \* the position each action spends, or -1

VARIABLES
    size,       \* [proved height -> number of notes in the pool]
    report      \* what the scan says, with the ledger of a complete one

poolVars == <<size, report>>

(* The wallet's ledger after the first n actions of the pool. *)
Known(n) == {i \in Mine : i < n}
Spent(n) == {i \in Mine : \E j \in DOMAIN Spends : j < n /\ Spends[j] = i}

Nothing(verdict) == [verdict |-> verdict, known |-> {}, spent |-> {}]

Init == report = Nothing("none") /\ DOMAIN size = {0}

Grow ==
    /\ \E tip \in DOMAIN size :
         tip + 1 \notin DOMAIN size /\ DOMAIN size' = DOMAIN size \cup {tip + 1}
    /\ \A r \in DOMAIN size : size'[r] = size[r]
    /\ UNCHANGED report

GiveUp ==
    /\ report = Nothing("none")
    /\ report' = Nothing("unfinished")
    /\ UNCHANGED size

Complete ==
    /\ report = Nothing("none")
    /\ \E r \in DOMAIN size :
         report' = [verdict |-> "complete", known |-> Known(size[r]), spent |-> Spent(size[r])]
    /\ UNCHANGED size

Next == Grow \/ GiveUp \/ Complete

Spec == Init /\ [][Next]_poolVars
=============================================================================
