----------------------------- MODULE MCAnalytics -----------------------------
(* Small instances of Analytics for TLC. *)
EXTENDS Analytics

CONSTANTS aa, spy

MCPricesOf == [s \in Symbol |-> {1, 2}]

\* Everything in one stock, and half of it.
MCWeights == {[s \in Stock |-> w] : w \in {<<1, 2>>, One}}
=============================================================================
