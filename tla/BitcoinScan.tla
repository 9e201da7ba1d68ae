----------------------------- MODULE BitcoinScan -----------------------------
(***************************************************************************)
(* The address search of a Bitcoin seed over its provider service: scanBitcoin *)
(* of the Discovery Scanner (coins/bitcoin/seed.ts, AddressScan) asks the    *)
(* Network Worker's utxoAddresses (BitcoinLookup) through                    *)
(* bitcoinAddressSource (coins/bitcoin/shared.ts).  The slot of the request  *)
(* and the messages of the call are those of RecoveryLimiter and of          *)
(* NetworkBoundary: here the scan takes an answer in the step that gives it, *)
(* and gives a call up at once, while the worker hears of it later.          *)
(***************************************************************************)
EXTENDS AddressScan, BitcoinLookup

VARIABLE told       \* the worker aborted the request's controller

vars == <<scanVars, lookup, told>>

Init == ScanInit /\ LookupInit /\ told = FALSE

(* The scan's own steps, a request it sends, and its signal. *)
ScanStep == ScanTurn /\ UNCHANGED <<lookup, told>>
Ask == LookUp /\ Begin(SetToSeq(asking')) /\ UNCHANGED told
Cancel == Abort /\ UNCHANGED <<lookup, told>>

(* What settles of a lookup reaches the scan only while the scan awaits it.  *)
Answer ==
    \/ asking = {} /\ UNCHANGED scanVars
    \/ \E answer \in [asking -> Kinds] : Answered(answer)

Refuse ==
    \/ asking = {} /\ UNCHANGED scanVars
    \/ Refused

BatchAnswer == BatchGiven /\ Answer /\ UNCHANGED told
BatchFailure == (NextProvider \/ Fallback) /\ UNCHANGED <<scanVars, told>>

AddressAnswer(i) ==
    /\ FetchGiven(i)
    /\ IF AllDone' THEN Answer ELSE UNCHANGED scanVars
    /\ UNCHANGED told

AddressFailure(i) ==
    /\ \/ WaitForRetry(i) /\ UNCHANGED scanVars
       \/ GiveUp(i) /\ IF Rejected THEN UNCHANGED scanVars ELSE Refuse
    /\ UNCHANGED told

RetryDue(i) == Retry(i) /\ UNCHANGED <<scanVars, told>>

(* The cancel arrives. *)
Told == aborted /\ ~told /\ told' = TRUE /\ Stop /\ UNCHANGED scanVars

Network == BatchAnswer \/ BatchFailure
Lane(i) == AddressAnswer(i) \/ AddressFailure(i) \/ RetryDue(i)

Next ==
    \/ ScanStep \/ Ask \/ Cancel \/ Network \/ Told
    \/ \E i \in 1 .. BatchSize : Lane(i)

Spec == Init /\ [][Next]_vars

(* The scan uses its turn; every request ends, by its timer at the latest,   *)
(* and a wait between two attempts ends by its own.                          *)
FairSpec ==
    /\ Spec
    /\ WF_vars(ScanStep \/ Ask) /\ WF_vars(Network)
    /\ \A i \in 1 .. BatchSize : WF_vars(Lane(i))

-----------------------------------------------------------------------------
TypeOK ==
    /\ includeUsed \in BOOLEAN /\ truncated \in BOOLEAN /\ aborted \in BOOLEAN /\ told \in BOOLEAN
    /\ branch \in 1 .. Branches /\ offset \in 0 .. Maximum /\ target \in 1 .. Maximum
    /\ asking \subseteq Addresses
    /\ DOMAIN states \subseteq Addresses /\ Range(states) \subseteq Kinds
    /\ DOMAIN findings \subseteq DOMAIN states
    /\ checked \in [1 .. Branches -> 0 .. Maximum]
    /\ verdict \in {"running", "complete", "partial", "aborted", "failed"}
    /\ stage \in {"none", "batch", "single"} /\ provider \in 0 .. Providers
    /\ DOMAIN at \subseteq Positions /\ Cardinality(Active) <= Lanes
    /\ Active # {} <=> stage = "single"
    /\ Range(attempt) \subseteq 0 .. Attempts

UsedAt(b, i) == IsUsed(states[AddressOf[b][i]])

(* The number of addresses of a branch that the gap rule asks for: the least *)
(* that reaches the minimum and goes, within the index space, the gap past   *)
(* every used address below it.                                              *)
Enough(b, n) ==
    n >= Initial[b] /\ \A i \in 0 .. n - 1 : UsedAt(b, i) => n >= Within(i)

(* A section that was made stopped where the gap rule says, and is called    *)
(* complete exactly if the full gap after every used address was checked.    *)
StopsByTheRule ==
    verdict \in {"complete", "partial"} =>
        /\ \A b \in 1 .. Branches :
             Enough(b, checked[b]) /\ \A n \in 0 .. checked[b] - 1 : ~Enough(b, n)
        /\ verdict = "complete" <=>
             \A b \in 1 .. Branches : \A i \in 0 .. checked[b] - 1 :
               UsedAt(b, i) => i + Gap < checked[b]

(* Moreover it counts every address once, however many paths reach it, and   *)
(* names each path of every address to show.                                 *)
SectionIsTrue ==
    /\ TypeOK
    /\ used = UsedOf(states) /\ funded = FundedOf(states)
    /\ StopsByTheRule
    /\ verdict \in {"complete", "partial"} =>
         findings = [a \in {x \in DOMAIN states : ToShow(states[x])} |->
             {b \in 1 .. Branches : \E i \in 0 .. checked[b] - 1 : AddressOf[b][i] = a}]

(* A scan fails only when every batch provider failed and then some address, *)
(* at its last attempt or with a status not worth another.                   *)
FailureIsThorough ==
    verdict = "failed" =>
        /\ provider = Providers
        /\ \E i \in DOMAIN at : at[i] = "refused" \/ (at[i] = "failed" /\ attempt[i] = Attempts)

(* Every scan ends, and whatever it asked of the network ends too, also what *)
(* goes on after its lookup was refused or given up.                         *)
EverySearchEnds == [](verdict = "running" \/ stage # "none" => <>(verdict # "running" /\ stage = "none"))
=============================================================================
