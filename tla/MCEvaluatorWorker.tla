--------------------------- MODULE MCEvaluatorWorker ---------------------------
(* Small instances of EvaluatorWorker for TLC. *)
EXTENDS EvaluatorWorker, TLC

CONSTANTS h1

MCVersionOf == [p \in Portfolio |-> CHOOSE v \in Version : TRUE]
MCHarnessOf == [p \in Portfolio |-> h1]

\* Two sessions: the first is scheduled from instant 0 and closes at instant 1,
\* the second closes beyond the horizon and is never due.
MCSession == 1..2
MCEnqueueAt == [p \in Portfolio |-> <<0, MaxTime + 1>>]
MCBoundaryAt == [p \in Portfolio |-> <<1, MaxTime + 2>>]
MCDue == [p \in Portfolio |-> {1}]

Slots == Permutations(Run) \cup Permutations(Decision) \cup Permutations(Portfolio)
=============================================================================
