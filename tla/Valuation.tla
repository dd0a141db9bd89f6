------------------------------ MODULE Valuation ------------------------------
(***************************************************************************)
(* The pure valuation of a book on the shared timeline of openings and      *)
(* closings: PriceLookup, value_portfolio and PreparedReference.rebase of   *)
(* backend/app/services/valuation.py, and the loop of construct_policy in   *)
(* rebuilt.py, which moves a book in the same way.                          *)
(*                                                                         *)
(* Boundaries are numbered: the opening of session s is 2s - 1, its close   *)
(* 2s.  prints is the sequence of what is published for them, a price or    *)
(* None for each symbol.  Weights and values are fractions of the book, and *)
(* NAV starts at One (the code: percents, and 100).  Turnover, volatility   *)
(* and the other statistics of a finished series are left out.              *)
(***************************************************************************)
EXTENDS Rational, Sequences

CONSTANTS Stock, Spy, None

Symbol == Stock \cup {Spy}
Direction == {"long", "short"}
Phase == {"open", "close"}

PhaseOf(e) == IF e % 2 = 1 THEN "open" ELSE "close"
SessionOf(e) == (e + 1) \div 2
BoundaryOf(s, phase) == IF phase = "open" THEN 2 * s - 1 ELSE 2 * s

-----------------------------------------------------------------------------
(* Prices.                                                                    *)

Observed(prints, s) == {e \in 1..Len(prints) : prints[e][s] # None}

\* Variant: the nearest print after a missing one.
MarkNext(prints, s, e) ==
  LET later == {f \in Observed(prints, s) : f >= e}
      earlier == {f \in Observed(prints, s) : f <= e}
  IN IF prints[e][s] # None \/ s = Spy \/ earlier = {} THEN prints[e][s]
     ELSE IF later = {} THEN prints[Max(earlier)][s] ELSE prints[Min(later)][s]

\* A print that is missing is replaced by the latest earlier one, never by a
\* later one; for SPY nothing replaces it.
Mark(prints, s, e) ==
  LET earlier == {f \in Observed(prints, s) : f <= e}
  IN IF prints[e][s] # None \/ s = Spy \/ earlier = {} THEN prints[e][s] ELSE prints[Max(earlier)][s]

\* The market has a boundary once SPY has a print for it; stocks may lag.
AsOf(prints) == LET known == Observed(prints, Spy) IN IF known = {} THEN 0 ELSE Max(known)

\* Where a decision for session s takes effect, among the boundaries to asOf.
Effective(s, asOf, phase) == {e \in 1..asOf : PhaseOf(e) = phase /\ SessionOf(e) >= s}

-----------------------------------------------------------------------------
(* Direction-matched SPY from start to end, where all its prints must exist.  *)

Unbroken(prints, start, end) == \A e \in start..end : prints[e][Spy] # None

\* The reference as it comes to boundary e at a price: a short settles its profit
\* at every close, and what is lost stays lost.
Rebased(prior, price, e, direction) ==
  LET growth == Ratio(price, prior.entry)
      grown == IF direction = "long" THEN growth ELSE prior.anchor ** (Two -- growth)
      nav == IF prior.nav = Zero \/ grown \preceq Zero THEN Zero ELSE grown
      resets == direction = "short" /\ PhaseOf(e) = "close"
  IN [navs |-> [prior.navs EXCEPT ![e] = nav], nav |-> nav,
      anchor |-> IF resets THEN nav ELSE prior.anchor,
      entry |-> IF resets THEN price ELSE prior.entry]

Rebasing(prints, start, end, direction) ==
  LET before == [navs |-> [e \in start..end |-> None], nav |-> One, anchor |-> One, entry |-> prints[start][Spy]]
      at[e \in start..end] ==
        Rebased(IF e = start THEN before ELSE at[e - 1], prints[e][Spy], e, direction)
  IN at

Rebase(prints, start, end, direction) == Rebasing(prints, start, end, direction)[end].navs

-----------------------------------------------------------------------------
(* A book: units of stocks bought or sold short at their entries, units of    *)
(* the reference, and the collateral of a short (anchor, collateral).         *)

Invested(target) == Total([s \in Stock |-> target[s]])
Remainder(target) == IF Invested(target) \preceq One THEN One -- Invested(target) ELSE Zero

Equity(book, prints, reference, e, direction) ==
  LET held == {s \in Stock : book.units[s] # Zero}
      values == [s \in held |-> book.units[s] ** Ratio(Mark(prints, s, e), 1)]
      profits == [s \in held |-> book.units[s] ** Ratio(book.entry[s] - Mark(prints, s, e), 1)]
  IN book.reference ** reference[e]
       ++ IF direction = "long" THEN Total(values) ELSE book.anchor ++ Total(profits)

\* Variant: the collateral of a short ignores the reference.
TradeFullAnchor(target, nav, prints, reference, e) ==
  [units |-> [s \in Stock |-> IF target[s] = Zero THEN Zero
                             ELSE (nav ** target[s]) // Ratio(Mark(prints, s, e), 1)],
   entry |-> [s \in Stock |-> Mark(prints, s, e)],
   reference |-> IF Remainder(target) = Zero THEN Zero ELSE (nav ** Remainder(target)) // reference[e],
   anchor |-> nav]

\* The whole book is moved to the target at the prices of boundary e.
Trade(target, nav, prints, reference, e) ==
  [units |-> [s \in Stock |-> IF target[s] = Zero THEN Zero
                             ELSE (nav ** target[s]) // Ratio(Mark(prints, s, e), 1)],
   entry |-> [s \in Stock |-> Mark(prints, s, e)],
   reference |-> IF Remainder(target) = Zero THEN Zero ELSE (nav ** Remainder(target)) // reference[e],
   anchor |-> nav ** Invested(target)]

\* A target without a price, or with a share of a reference that is lost, is an error.
Priceable(target, prints, reference, e) ==
  /\ \A s \in Stock : target[s] # Zero => Mark(prints, s, e) # None
  /\ Remainder(target) # Zero => reference[e] # Zero

NoBook == [units |-> [s \in Stock |-> Zero], entry |-> [s \in Stock |-> None],
           reference |-> Zero, anchor |-> Zero]
Failed == [ok |-> FALSE, nav |-> <<>>, traded |-> {}]

\* The run at boundary e, where the book has come to nav: without equity it is
\* liquidated and trades no more, otherwise it trades what is due.
Advance(run, nav, e, trades, prints, reference) ==
  IF ~run.ok THEN run
  ELSE IF nav = Zero \/ e \notin DOMAIN trades
    THEN [run EXCEPT !.nav = [@ EXCEPT ![e] = nav], !.lost = nav = Zero]
  ELSE IF ~Priceable(trades[e], prints, reference, e) THEN [run EXCEPT !.ok = FALSE]
  ELSE [run EXCEPT !.nav = [@ EXCEPT ![e] = nav], !.traded = @ \cup {e},
                   !.book = Trade(trades[e], nav, prints, reference, e)]

\* The run carried on from the boundary before e.
Carried(run, e, trades, prints, reference, direction) ==
  LET equity == Equity(run.book, prints, reference, e, direction)
      nav == IF run.lost \/ equity \preceq Zero THEN Zero ELSE equity
  IN Advance(run, nav, e, trades, prints, reference)

\* The run from boundary first, where the book is One, to asOf.
Runs(trades, first, prints, reference, asOf, direction) ==
  LET before == [ok |-> TRUE, lost |-> FALSE, nav |-> [e \in first..asOf |-> None],
                 book |-> NoBook, traded |-> {}]
      at[e \in first..asOf] ==
        IF e = first THEN Advance(before, One, e, trades, prints, reference)
        ELSE Carried(at[e - 1], e, trades, prints, reference, direction)
  IN at

RunOf(trades, first, prints, reference, asOf, direction) ==
  Runs(trades, first, prints, reference, asOf, direction)[asOf]

\* The book that trades to trades[e] at the boundaries e of DOMAIN trades, from
\* the first of them to asOf: its NAV at each boundary, and the trades that
\* happened.
Follow(trades, prints, asOf, direction) ==
  LET first == Min(DOMAIN trades)
      Result(run) == IF run.ok THEN [ok |-> TRUE, nav |-> run.nav, traded |-> run.traded] ELSE Failed
  IN IF DOMAIN trades = {} THEN [Failed EXCEPT !.ok = TRUE]
     ELSE IF ~Unbroken(prints, first, asOf) THEN Failed
     ELSE Result(RunOf(trades, first, prints, Rebase(prints, first, asOf, direction), asOf, direction))
=============================================================================
