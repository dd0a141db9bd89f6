------------------------------- MODULE Rebuilt -------------------------------
(***************************************************************************)
(* The analytics of rebuilt portfolios in backend/app/services/rebuilt.py:  *)
(* direct evidence of every signal for a horizon, and the policy that gives *)
(* each signal a sleeve of the book for that horizon.  A horizon is counted *)
(* in steps from boundary to boundary (the code: half sessions).            *)
(*                                                                         *)
(* A signal is [session, weights, ...].  The logarithmic scale of the       *)
(* evidence (a root per session), its confidence interval and the           *)
(* statistics of the policy are left out.                                   *)
(***************************************************************************)
EXTENDS Valuation

\* map_signals: a signal enters at the first boundary of the portfolio's phase
\* in its session or later; those for later sessions have no start yet.
Starts(signals, asOf, phase) ==
  [d \in {d \in signals : Effective(d.session, asOf, phase) # {}} |->
     Min(Effective(d.session, asOf, phase))]

Sleeves(steps) == (steps + 1) \div 2

-----------------------------------------------------------------------------
(* _targets and construct_policy.                                             *)

\* Variant: a signal that expires keeps its sleeve for one more boundary.
ActiveTooLong(starts, e, steps) == {d \in DOMAIN starts : e \in starts[d]..starts[d] + steps}

Active(starts, e, steps) == {d \in DOMAIN starts : e \in starts[d]..starts[d] + steps - 1}

\* Each boundary with active signals has one sleeve, shared by its signals.
Targets(starts, e, steps) ==
  LET active == Active(starts, e, steps)
      Share(d) == Ratio(1, Sleeves(steps) * Cardinality({o \in active : starts[o] = starts[d]}))
  IN [s \in Stock |-> Total([d \in active |-> Share(d) ** d.weights[s]])]

\* The book trades when a signal enters or expires.
Policy(signals, steps, prints, direction, phase) ==
  LET asOf == AsOf(prints)
      starts == Starts(signals, asOf, phase)
      entries == {starts[d] : d \in DOMAIN starts}
      events == (entries \cup {e + steps : e \in entries}) \cap 1..asOf
  IN Follow([e \in events |-> Targets(starts, e, steps)], prints, asOf, direction)

-----------------------------------------------------------------------------
(* signal_horizon_statistics.                                                 *)

\* Variant: what is not invested stays in cash.
BasketInCash(d, start, prints, reference, e, direction) ==
  LET held == {s \in Stock : d.weights[s] # Zero}
      change == Total([s \in held |-> d.weights[s] ** (Ratio(Mark(prints, s, e), Mark(prints, s, start)) -- One)])
  IN One ++ (IF direction = "long" THEN change ELSE Zero -- change)

\* What a basket has become at boundary e, One at its start, where a short
\* may also be below Zero.
Basket(d, start, prints, reference, e, direction) ==
  LET held == {s \in Stock : d.weights[s] # Zero}
      change == Total([s \in held |-> d.weights[s] ** (Ratio(Mark(prints, s, e), Mark(prints, s, start)) -- One)])
  IN One ++ (IF direction = "long" THEN change ELSE Zero -- change)
         ++ (Remainder(d.weights) ** (reference[e] -- One))

\* Variant: an open signal is reported as of the last boundary.
EvidenceEarly(d, steps, prints, direction, phase) ==
  LET asOf == AsOf(prints)
      start == Starts({d}, asOf, phase)[d]
      final == Min({start + steps, asOf})
      reference == Rebase(prints, start, final, direction)
      lost == {e \in start + 1..final : Basket(d, start, prints, reference, e, direction) \preceq Zero}
      end == IF lost = {} THEN final ELSE Min(lost)
  IN IF Effective(d.session, asOf, phase) = {} THEN [state |-> "open"]
     ELSE IF \/ ~Unbroken(prints, start, final)
             \/ \E s \in Stock : d.weights[s] # Zero /\ Mark(prints, s, start) = None
     THEN [state |-> "invalid"]
     ELSE IF reference[end] = Zero THEN [state |-> "invalid"]
     ELSE [state |-> "complete", start |-> start, end |-> end, market |-> reference[end],
           value |-> IF lost = {} THEN Basket(d, start, prints, reference, end, direction) ELSE Zero]

\* A signal is open until the horizon has passed or its basket is lost, invalid
\* when a price is missing or the market itself is lost.
Evidence(d, steps, prints, direction, phase) ==
  LET asOf == AsOf(prints)
      start == Starts({d}, asOf, phase)[d]
      final == Min({start + steps, asOf})
      reference == Rebase(prints, start, final, direction)
      lost == {e \in start + 1..final : Basket(d, start, prints, reference, e, direction) \preceq Zero}
      end == IF lost = {} THEN final ELSE Min(lost)
  IN IF Effective(d.session, asOf, phase) = {} THEN [state |-> "open"]
     ELSE IF \/ ~Unbroken(prints, start, final)
             \/ \E s \in Stock : d.weights[s] # Zero /\ Mark(prints, s, start) = None
     THEN [state |-> "invalid"]
     ELSE IF lost = {} /\ start + steps > asOf THEN [state |-> "open"]
     ELSE IF reference[end] = Zero THEN [state |-> "invalid"]
     ELSE [state |-> "complete", start |-> start, end |-> end, market |-> reference[end],
           value |-> IF lost = {} THEN Basket(d, start, prints, reference, end, direction) ELSE Zero]
=============================================================================
