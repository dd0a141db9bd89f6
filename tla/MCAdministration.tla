--------------------------- MODULE MCAdministration ---------------------------
(* Small instances of Administration for TLC. *)
EXTENDS Administration, TLC

CONSTANTS managed, rebuilt, short

EveryTrack == {Track}
TracksOfMode == {Track, Track \ Managed}
Slots == Permutations(Prompt)
=============================================================================
