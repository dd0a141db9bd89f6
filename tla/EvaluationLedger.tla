--------------------------- MODULE EvaluationLedger ---------------------------
(***************************************************************************)
(* What the evaluation queue promises to the portfolios: a ledger of work  *)
(* and of results.  It knows no polls, clocks, leases, locks or calls with *)
(* stale reads; any number of items may move in one step.                  *)
(***************************************************************************)
EXTENDS Integers

CONSTANTS Portfolio, Session, Run, MaxAttempts, None

VARIABLES
  work,     \* the items, a function on the row slots in use
  results   \* the pairs of a portfolio and a session that have a decision

ledger == <<work, results>>

Open == {"queued", "running", "cancel_requested"}
Closed == {"cancelled", "succeeded", "failed", "skipped"}

Item == [portfolio: Portfolio, scheduled_for: Session \cup {None}, status: Open \cup Closed,
         attempts: 0..MaxAttempts, result: Session \cup {None}]

\* A closed item stays as it is, a cancellation stays or takes effect, attempts are
\* counted and never given back, and an item waits only while it has one left.
Later(item) ==
  {next \in Item :
     /\ next.portfolio = item.portfolio
     /\ next.scheduled_for = item.scheduled_for
     /\ next.result = item.result
     /\ item.status \in Closed => next = item
     /\ item.status \in Open => next.status # "succeeded"
     /\ item.status = "cancel_requested" => next.status \in {"cancel_requested", "cancelled"}
     /\ next.attempts >= item.attempts
     /\ next.status = "queued" => next.attempts < MaxAttempts}

Fresh == {item \in Item : item.result = None /\ item.status # "succeeded"}

Init == work = [r \in {} |-> None] /\ results = {}

\* Items move or are opened, one open item a portfolio.
Proceed ==
  /\ DOMAIN work \subseteq DOMAIN work' /\ DOMAIN work' \subseteq Run
  /\ \A r \in DOMAIN work' :
       work'[r] \in IF r \in DOMAIN work THEN Later(work[r]) ELSE Fresh
  /\ \A q, r \in DOMAIN work' :
       /\ work'[q].status \in Open /\ work'[r].status \in Open
       /\ work'[q].portfolio = work'[r].portfolio
       => q = r
  /\ UNCHANGED results

\* Running work ends with the one result of its session.
Record(r, s) ==
  /\ work[r].status = "running"
  /\ work[r].scheduled_for \in {s, None}
  /\ <<work[r].portfolio, s>> \notin results
  /\ results' = results \cup {<<work[r].portfolio, s>>}
  /\ work' = [work EXCEPT ![r].status = "succeeded", ![r].result = s]

\* A decision is entered by hand.
Enter(p, s) ==
  /\ <<p, s>> \notin results
  /\ results' = results \cup {<<p, s>>}
  /\ UNCHANGED work

\* Items and results are erased; an item that stays keeps its result.
Erase ==
  /\ DOMAIN work' \subseteq DOMAIN work
  /\ results' \subseteq results
  /\ \A r \in DOMAIN work' :
       /\ work'[r] = work[r]
       /\ work[r].result # None => <<work[r].portfolio, work[r].result>> \in results'

Next ==
  \/ Proceed
  \/ \E r \in DOMAIN work, s \in Session : Record(r, s)
  \/ \E p \in Portfolio, s \in Session : Enter(p, s)
  \/ Erase

Spec == Init /\ [][Next]_ledger
=============================================================================
