------------------------------ MODULE Analytics ------------------------------
(***************************************************************************)
(* The analyses as the market unfolds: boundaries pass, their prints are    *)
(* published, now and then one is missing and repaired later, decisions are *)
(* recorded, and every page is computed again from all of it, as             *)
(* compute_valuations and compute_rebuilt_arena of                          *)
(* backend/app/services/arena.py do.  Nothing computed is kept: whether     *)
(* what was shown stays true is a property of the computation.              *)
(*                                                                         *)
(* One managed and one rebuilt portfolio of the same direction and          *)
(* execution phase receive the same decisions; a decision for a session is  *)
(* an allocation of the one and a signal of the other.  A scheduled run is  *)
(* queued before the boundary of its session and keeps that session when it *)
(* answers, or a retry of it does, after the boundary: then the decision    *)
(* enters a history that is already shown.  All days trade (see             *)
(* TradingCalendar).  Decisions that are edited or deleted, which change    *)
(* history on purpose, are in ManualDecisions; the refusal of answers for a *)
(* liquidated short is in EvaluatorQueue.                                   *)
(***************************************************************************)
EXTENDS Rebuilt

CONSTANTS
  PricesOf,   \* [Symbol -> the prices a symbol may have]
  Weights,    \* the sets of weights decisions choose from: subset of [Stock -> fractions]
  Steps,      \* the horizons that are tested
  End,        \* bound: the last boundary that passes
  MaxDecisions, \* bound: the decisions of the portfolio and its scheduled runs
  MaxMoves,   \* bound: prints that differ from the one before, or at first from the lowest
  MaxGaps     \* bound: prints that are missing at first

\* A horizon is a positive number of steps.
ASSUME StepsAssumption == Steps \subseteq Nat \ {0}

\* There are finitely many stocks, prices are positive, and the weights of a
\* decision add up to at most the book.
ASSUME StockAssumption == IsFiniteSet(Stock)
ASSUME PricesAssumption == \A s \in Symbol : PricesOf[s] \subseteq Nat \ {0}
ASSUME WeightsAssumption ==
  \A w \in Weights : w \in [Stock -> Fraction] /\ Invested(w) \preceq One

VARIABLES
  direction, phase,  \* of both portfolios
  clock,      \* the boundaries that have passed
  prints,     \* what is published of them
  scheduled,  \* the scheduled runs that may still record one: a set of [session, asked]
  decisions,  \* a set of [session, asked, weights]; asked: when the decision was
              \* made, or its scheduled run was queued
  moves, gaps,
  shown       \* the analyses of what is known

vars == <<direction, phase, clock, prints, scheduled, decisions, moves, gaps, shown>>

\* Variant: a boundary that is just passing still counts.
EffectiveSessionNow(t, p) == CHOOSE s \in 1..(t + 1) :
  BoundaryOf(s, p) >= t /\ \A u \in 1..(s - 1) : BoundaryOf(u, p) < t

\* effective_date_for: the first session whose boundary has not passed.
EffectiveSession(t, p) == CHOOSE s \in 1..(t + 1) :
  BoundaryOf(s, p) > t /\ \A u \in 1..(s - 1) : BoundaryOf(u, p) <= t

-----------------------------------------------------------------------------
(* The analyses.                                                              *)

\* value_portfolio: an allocation is traded at the first boundary of its phase in
\* its session or later.
Valued(ds, ps, asOf) ==
  LET starts == Starts(ds, asOf, phase)
      At(e) == CHOOSE d \in DOMAIN starts : starts[d] = e
  IN Follow([e \in {starts[d] : d \in DOMAIN starts} |-> At(e).weights], ps, asOf, direction)

\* Variant: a decision counts before it takes effect.
CutoffOfAny(ds, asOf) ==
  IF ds = {} THEN asOf
  ELSE Min({asOf, BoundaryOf(1 + Max({d.session : d \in ds}), phase)})

\* managed_valuation_boundary: a paused version is valued until one session
\* after the latest decision that has taken effect.
Cutoff(ds, asOf) ==
  LET effective == {d \in ds : BoundaryOf(d.session, phase) <= asOf}
  IN IF effective = {} THEN asOf
     ELSE Min({asOf, BoundaryOf(1 + Max({d.session : d \in effective}), phase)})

\* compute_rebuilt_arena: every horizon's policy, and its evidence of every signal.
Policies(ds, ps) == [h \in Steps |-> Policy(ds, h, ps, direction, phase)]
Evidences(ds, ps) == [h \in Steps |-> [d \in ds |-> Evidence(d, h, ps, direction, phase)]]

\* compute_valuations: each managed portfolio, as it is and with its version
\* paused; and the rebuilt ones.
Analyses(ds, ps) ==
  [managed |-> Valued(ds, ps, AsOf(ps)), paused |-> Valued(ds, ps, Cutoff(ds, AsOf(ps))),
   policy |-> Policies(ds, ps), evidence |-> Evidences(ds, ps)]

-----------------------------------------------------------------------------
Init ==
  /\ direction \in Direction /\ phase \in Phase
  /\ clock = 0 /\ prints = <<>> /\ scheduled = {} /\ decisions = {} /\ moves = 0 /\ gaps = 0
  /\ shown = Analyses({}, <<>>)

Elapse ==
  /\ clock < End /\ clock = Len(prints)
  /\ clock' = clock + 1
  /\ UNCHANGED <<direction, phase, prints, scheduled, decisions, moves, gaps, shown>>

\* The price from which a print at boundary e moves.
Before(s, e) ==
  LET earlier == {f \in Observed(prints, s) : f < e}
  IN IF earlier = {} THEN Min(PricesOf[s]) ELSE prints[Max(earlier)][s]

\* The prints of the boundary that has passed.
Publish ==
  /\ Len(prints) < clock
  /\ \E p \in [Symbol -> (UNION {PricesOf[s] : s \in Symbol}) \cup {None}] :
       LET missing == {s \in Symbol : p[s] = None}
           moved == {s \in Symbol \ missing : p[s] # Before(s, clock)}
       IN /\ \A s \in Symbol \ missing : p[s] \in PricesOf[s]
          /\ gaps + Cardinality(missing) <= MaxGaps /\ gaps' = gaps + Cardinality(missing)
          /\ moves + Cardinality(moved) <= MaxMoves /\ moves' = moves + Cardinality(moved)
          /\ prints' = Append(prints, p)
  /\ shown' = Analyses(decisions, prints')
  /\ UNCHANGED <<direction, phase, clock, scheduled, decisions>>

\* A missing print arrives after all.
Repair(e, s) ==
  /\ prints[e][s] = None
  /\ \E x \in PricesOf[s] :
       /\ prints' = [prints EXCEPT ![e][s] = x]
       /\ moves' = IF x = Before(s, e) THEN moves ELSE moves + 1
       /\ moves' <= MaxMoves
  /\ shown' = Analyses(decisions, prints')
  /\ UNCHANGED <<direction, phase, clock, scheduled, decisions, gaps>>

Room == Cardinality(decisions) + Cardinality(scheduled) < MaxDecisions
Undecided(s) == \A d \in decisions : d.session # s

\* A decision that is entered or answered by a run without a schedule:
\* _new_allocation and _new_signal, with effective_date_for.
Decide ==
  /\ LET s == EffectiveSession(clock, phase)
     IN /\ BoundaryOf(s, phase) <= End + 1 /\ Room /\ Undecided(s)
        /\ \E w \in Weights : decisions' = decisions \cup {[session |-> s, asked |-> clock, weights |-> w]}
  /\ shown' = Analyses(decisions', prints)
  /\ UNCHANGED <<direction, phase, clock, prints, scheduled, moves, gaps>>

\* _enqueue_scheduled: within the window before the boundary of the session.
Schedule ==
  /\ LET s == EffectiveSession(clock, phase)
     IN /\ BoundaryOf(s, phase) <= End + 1 /\ Room /\ Undecided(s)
        /\ \A run \in scheduled : run.session # s
        /\ scheduled' = scheduled \cup {[session |-> s, asked |-> clock]}
  /\ UNCHANGED <<direction, phase, clock, prints, decisions, moves, gaps, shown>>

\* submit_run of a scheduled run or of a retry of one, at any later time: the
\* session is the one it was queued for, unless that has its decision by now.
Answer(run) ==
  /\ scheduled' = scheduled \ {run}
  /\ \/ /\ Undecided(run.session)
        /\ \E w \in Weights :
             decisions' = decisions \cup {[session |-> run.session, asked |-> run.asked, weights |-> w]}
        /\ shown' = Analyses(decisions', prints)
     \/ ~Undecided(run.session) /\ UNCHANGED <<decisions, shown>>
  /\ UNCHANGED <<direction, phase, clock, prints, moves, gaps>>

Next ==
  \/ Elapse \/ Publish \/ Decide \/ Schedule
  \/ \E run \in scheduled : Answer(run)
  \/ \E e \in 1..Len(prints), s \in Symbol : Repair(e, s)

Spec == Init /\ [][Next]_vars

-----------------------------------------------------------------------------
(* Properties.                                                                *)

\* The boundaries up to which what was published stays as it was.
SameUntil ==
  LET changed == {e \in 1..Len(prints) : prints'[e] # prints[e]}
  IN IF changed = {} THEN Len(prints) ELSE Min(changed) - 1

\* Up to there, and before the boundaries of decisions that are added, a
\* valuation keeps its values.
Keeps(run, later) ==
  run.ok /\ later.ok =>
    \A e \in DOMAIN run.nav :
      e <= SameUntil /\ (\A d \in decisions' \ decisions : e < BoundaryOf(d.session, phase))
        => e \in DOMAIN later.nav /\ later.nav[e] = run.nav[e]

\* No analysis looks ahead: neither the boundaries that pass nor the decisions
\* that are made, scheduled or answered change the value shown for an earlier
\* boundary: a repaired print and a scheduled run that answers late change it
\* from their own boundary on, and nothing else does.  Decisions change the
\* outcome of no other signal, and only a repair within its horizon that of a
\* complete one.  (A signal that lost everything before its horizon is
\* invalid again while a later print of SPY is missing.)
StandsAsShown ==
  /\ Keeps(shown.managed, shown'.managed)
  /\ \A h \in Steps : Keeps(shown.policy[h], shown'.policy[h])
  /\ \A h \in Steps, d \in decisions :
       LET outcome == shown.evidence[h][d]
       IN outcome.state = "complete" /\ outcome.end <= SameUntil
            => \/ shown'.evidence[h][d] = outcome
               \/ ~Unbroken(prints', outcome.start, Min({outcome.start + h, AsOf(prints')}))
HistoryStands == [][StandsAsShown]_vars

\* A decision trades at the first boundary of its phase after the moment it was
\* made or, if a scheduled run made it, after the moment that run was queued:
\* the answer may come later than that boundary, but it buys at the prices of no
\* boundary that had passed when it was asked for.
NoForesight ==
  \A e \in shown.managed.traded :
    \E d \in decisions :
      /\ d.asked < e /\ PhaseOf(e) = phase
      /\ \A f \in d.asked + 1..e - 1 : PhaseOf(f) # phase

\* Between trades a book grows by the weighted returns of what it holds: what
\* the units, entries and collateral add up to is this definition.
GrowthOf(target, prior, e, reference) ==
  LET held == {s \in Stock : target[s] # Zero}
      stocks == Total([s \in held |-> target[s] ** (Ratio(Mark(prints, s, e), Mark(prints, s, prior)) -- One)])
  IN One ++ (IF direction = "long" THEN stocks ELSE Zero -- stocks)
         ++ (IF Remainder(target) = Zero THEN Zero
             ELSE Remainder(target) ** ((reference[e] // reference[prior]) -- One))

Compounds(run, TargetAt(_)) ==
  LET first == Min(DOMAIN run.nav)
      reference == Rebase(prints, first, AsOf(prints), direction)
  IN \A e \in DOMAIN run.nav :
       e > first =>
         LET prior == Max({f \in run.traded : f < e})
             growth == GrowthOf(TargetAt(prior), prior, e, reference)
         IN run.nav[e] = IF run.nav[e - 1] = Zero \/ growth \preceq Zero THEN Zero
                            ELSE run.nav[prior] ** growth

NavIsCompounded ==
  LET starts == Starts(decisions, AsOf(prints), phase)
  IN /\ Compounds(shown.managed, LAMBDA e : (CHOOSE d \in DOMAIN starts : starts[d] = e).weights)
     /\ \A h \in Steps : Compounds(shown.policy[h], LAMBDA e : Targets(starts, e, h))

\* The sleeves of overlapping signals never add up to more than the book.
SleevesFit ==
  LET starts == Starts(decisions, AsOf(prints), phase)
  IN \A h \in Steps, e \in 1..AsOf(prints) : Invested(Targets(starts, e, h)) \preceq One

\* With one sleeve the policy earns on each signal what the evidence says of it.
\* (A short that enters at an opening is the exception: its evidence resets the
\* reference at its entry, the policy at the close before.)
PolicyEarnsEvidence ==
  \A h \in Steps, d \in decisions :
    LET outcome == shown.evidence[h][d]
        run == shown.policy[h]
    IN Sleeves(h) = 1 /\ outcome.state = "complete" /\ run.ok
         /\ (direction = "long" \/ phase = "close" \/ Remainder(d.weights) = Zero)
         /\ run.nav[outcome.start] # Zero
       => run.nav[outcome.end] = run.nav[outcome.start] ** outcome.value

\* Pausing a version only ends the valuation of its portfolios, one session after
\* the latest trade: the values and trades up to there are the same ones.
PauseOnlyTruncates ==
  LET run == shown.managed
      cut == shown.paused
      due == {BoundaryOf(d.session, phase) : d \in decisions} \cap 1..AsOf(prints)
  IN run.ok /\ due # {} =>
       /\ cut.ok /\ cut.traded = run.traded
       /\ cut.nav = [e \in {e \in DOMAIN run.nav : e <= Max(due) + 2} |-> run.nav[e]]
=============================================================================
