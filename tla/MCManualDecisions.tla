--------------------------- MODULE MCManualDecisions ---------------------------
(* Small instances for TLC of the two sides of an administrator's write: the     *)
(* calls that record decisions on the server, and the cache of public responses  *)
(* that the answer to a save empties in his browser.  They share no state, so a  *)
(* behaviour follows one of them and the other stays as it began.                *)
EXTENDS ManualDecisions, PublicQueries

CONSTANTS
  a, b,
  Parts  \* the sides that a behaviour may follow

VARIABLES
  part   \* the side that it follows

\* Two sessions; the boundary of the first is at instant 1, of the second beyond
\* the horizon.
MCSession == 1..2
MCBoundaryAt == <<1, MaxTime + 1>>

\* Two proposals without a common symbol, and an abstention.
MCProposal == {{}, {a}, {b}}

Clients == Permutations(Client)

sides == <<vars, displayVars, part>>

MCInit ==
  /\ part \in Parts /\ Init /\ DisplayInit
  /\ part = "browser" => kind = CHOOSE k \in Kinds : TRUE

OnServer == part = "server" /\ UNCHANGED <<part, displayVars>>
InBrowser == part = "browser" /\ UNCHANGED <<part, vars>>

MCNext ==
  \/ OnServer /\ Next
  \/ InBrowser /\ DisplayNext

MCSpec == MCInit /\ [][MCNext]_sides
MCLiveSpec == MCSpec /\ \A c \in Client : WF_sides(OnServer /\ Continue(c))
=============================================================================
