---------------------------- MODULE MCMarketRefresh ----------------------------
(* Small instances of MarketRefresh for TLC. *)
EXTENDS MarketRefresh, TLC

CONSTANTS spy, aa, bb

SpyAndOne == <<spy, aa>>
SpyAndTwo == <<spy, aa, bb>>
FromTheFirst == [s \in Symbol |-> 1]
OneLater == [s \in Symbol |-> IF s = aa THEN 2 ELSE 1]
Processes == Permutations(Process)
=============================================================================
