---------------------------- MODULE MCDeriveClient ----------------------------
(* A derivation, a search of addresses and the self-test, or a derivation    *)
(* and a multisig wallet, with one caller of ready().                        *)
EXTENDS DeriveClient, TLC

CONSTANTS derive, search, selfTest, multisig

MCCarries == derive :> "one" @@ search :> "one" @@ selfTest :> "none"
MCCarriesMany == derive :> "one" @@ multisig :> "many"
=============================================================================
