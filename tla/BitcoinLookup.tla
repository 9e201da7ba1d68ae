---------------------------- MODULE BitcoinLookup ----------------------------
(***************************************************************************)
(* One lookup of Bitcoin addresses in the Network Worker, utxoAddresses      *)
(* (packages/public-data-providers/src/bitcoin-service.ts): the batch        *)
(* providers one after another; when all failed, each address by itself,     *)
(* several lanes at a time, with a bounded number of attempts that alternate *)
(* between two indexers.  An answer that does not validate is a failure, a   *)
(* request that takes too long fails by its timer.                           *)
(*                                                                          *)
(* The first address that fails rejects the lookup; the other lanes are not  *)
(* told and take further addresses until none is left.                       *)
(***************************************************************************)
EXTENDS Integers, Sequences, FiniteSets, SequencesExt

CONSTANTS
    Providers,      \* the batch providers of the network
    Lanes,          \* BITCOIN_HTTP_CONCURRENCY
    Attempts        \* BITCOIN_HTTP_ATTEMPTS

ASSUME LookupAssumption ==
    Providers \in Nat \ {0} /\ Lanes \in Nat \ {0} /\ Attempts \in Nat \ {0}

VARIABLES
    want,           \* the addresses of the lookup
    stage,          \* "none", "batch", or "single": the fallback
    provider,       \* the batch provider asked
    at,             \* each address of the fallback: "todo", "fetch", "wait", "done",
                    \*   "refused" (an HTTP status not worth another try), "failed"
                    \*   or "stopped"
    attempt         \* and its attempts

lookup == <<want, stage, provider, at, attempt>>

LookupInit == want = <<>> /\ stage = "none" /\ provider = 0 /\ at = <<>> /\ attempt = <<>>

Positions == DOMAIN want
Active == {i \in DOMAIN at : at[i] \in {"fetch", "wait"}}

(* fetchBitcoinBatch begins. *)
Begin(addresses) ==
    /\ want' = addresses /\ stage' = "batch" /\ provider' = 1
    /\ at' = <<>> /\ attempt' = <<>>

BatchGiven == stage = "batch" /\ stage' = "none" /\ UNCHANGED <<want, provider, at, attempt>>

NextProvider ==
    /\ stage = "batch" /\ provider < Providers
    /\ provider' = provider + 1
    /\ UNCHANGED <<want, stage, at, attempt>>

(* Mutated form of AllFailed: the last batch provider is not tried. *)
AllFailed_OneEarly == provider >= Providers - 1

AllFailed == provider = Providers

(* The last batch provider failed: mapConcurrent starts its lanes. *)
Fallback ==
    /\ stage = "batch" /\ AllFailed
    /\ stage' = "single"
    /\ at' = [i \in Positions |-> IF i <= Lanes THEN "fetch" ELSE "todo"]
    /\ attempt' = [i \in Positions |-> IF i <= Lanes THEN 1 ELSE 0]
    /\ UNCHANGED <<want, provider>>

(* Mutated form of TakeNext: no address beyond the first ones is begun. *)
TakeNext_None(now) == at' = now /\ UNCHANGED attempt

(* The lane of an address that settled takes the next one. *)
TakeNext(now) ==
    LET todo == {j \in DOMAIN at : at[j] = "todo"}
        next == {j \in todo : \A k \in todo : j <= k}
    IN /\ at' = [j \in DOMAIN at |-> IF j \in next THEN "fetch" ELSE now[j]]
       /\ attempt' = [j \in DOMAIN at |-> IF j \in next THEN 1 ELSE attempt[j]]

StopWhenQuiet == stage' = IF \E i \in DOMAIN at : at'[i] \in {"fetch", "wait"} THEN "single" ELSE "none"

FetchGiven(i) ==
    /\ i \in DOMAIN at /\ at[i] = "fetch"
    /\ TakeNext([at EXCEPT ![i] = "done"])
    /\ StopWhenQuiet
    /\ UNCHANGED <<want, provider>>

(* An attempt failed and another is made after a while. *)
WaitForRetry(i) ==
    /\ i \in DOMAIN at /\ at[i] = "fetch" /\ attempt[i] < Attempts
    /\ at' = [at EXCEPT ![i] = "wait"]
    /\ UNCHANGED <<want, stage, provider, attempt>>

Retry(i) ==
    /\ i \in DOMAIN at /\ at[i] = "wait"
    /\ at' = [at EXCEPT ![i] = "fetch"]
    /\ attempt' = [attempt EXCEPT ![i] = @ + 1]
    /\ UNCHANGED <<want, stage, provider>>

(* The address fails, and with it its lane. *)
GiveUp(i) ==
    /\ i \in DOMAIN at /\ at[i] = "fetch"
    /\ \/ at' = [at EXCEPT ![i] = "refused"]
       \/ attempt[i] = Attempts /\ at' = [at EXCEPT ![i] = "failed"]
    /\ StopWhenQuiet
    /\ UNCHANGED <<want, provider, attempt>>

(* Only an address that failed leaves the fallback without an answer. *)
Rejected == \E i \in DOMAIN at : at[i] \in {"refused", "failed"}
AllDone == at # <<>> /\ \A i \in DOMAIN at : at[i] = "done"

(* The signal of the request ends every fetch and every wait in one turn.    *)
Stop ==
    /\ stage # "none" /\ stage' = "none"
    /\ at' = [i \in DOMAIN at |-> IF i \in Active THEN "stopped" ELSE at[i]]
    /\ UNCHANGED <<want, provider, attempt>>
=============================================================================
