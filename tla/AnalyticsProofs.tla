--------------------------- MODULE AnalyticsProofs ---------------------------
(***************************************************************************)
(* Proofs about Analytics.  First what a recomputation of every analysis   *)
(* leaves as it was: a valuation is a recursion over boundaries, so the     *)
(* lemmas about it are inductions (see Induction) that the recursive        *)
(* functions exist, that they only extend what they had, and that two of    *)
(* them agree as far as their prints and trades do.  Then what the values   *)
(* are: the laws of fractions and of sums of them, what a book that trades  *)
(* is worth at a later boundary, and that each run, and with one sleeve the *)
(* evidence of each signal, is the product of such growths.                 *)
(***************************************************************************)
EXTENDS Analytics, Induction, FiniteSetTheorems, Folds

Row == [Symbol -> (UNION {PricesOf[s] : s \in Symbol}) \cup {None}]

-----------------------------------------------------------------------------
(* Prints. *)

\* Two publications are the same up to boundary n.
Agree(ps, qs, n) ==
  /\ n \in Nat /\ n <= Len(ps) /\ n <= Len(qs)
  /\ \A f \in 1..n : ps[f] = qs[f]

LEMMA AgreeDown ==
  ASSUME NEW ps \in Seq(Row), NEW qs \in Seq(Row), NEW n, Agree(ps, qs, n), NEW m \in 0..n
  PROVE  Agree(ps, qs, m)
BY DEF Agree

LEMMA SameMark ==
  ASSUME NEW ps \in Seq(Row), NEW qs \in Seq(Row), NEW n, Agree(ps, qs, n),
         NEW e \in 1..n, NEW s
  PROVE  Mark(ps, s, e) = Mark(qs, s, e)
<1>1. ps[e] = qs[e] /\ Len(ps) \in Nat /\ Len(qs) \in Nat
  BY DEF Agree
<1>2. {f \in Observed(ps, s) : f <= e} = {f \in Observed(qs, s) : f <= e}
  BY <1>1 DEF Agree, Observed
<1> DEFINE earlier == {f \in Observed(qs, s) : f <= e}
<1>3. CASE earlier = {}
  BY <1>1, <1>2, <1>3 DEF Mark
<1>4. CASE earlier # {}
  <2>1. Max(earlier) \in earlier
    <3>1. earlier \in SUBSET Nat /\ e \in Nat /\ \A f \in earlier : f <= e
      BY <1>1 DEF Observed, Agree
    <3>2. QED
      BY <3>1, <1>4, MaxIs
  <2>2. ps[Max(earlier)] = qs[Max(earlier)]
    BY <1>1, <2>1 DEF Agree, Observed
  <2>3. QED
    BY <1>1, <1>2, <2>2 DEF Mark
<1>5. QED
  BY <1>3, <1>4

LEMMA AsOfIs ==
  ASSUME NEW ps \in Seq(Row)
  PROVE  /\ AsOf(ps) \in 0..Len(ps)
         /\ \A e \in 1..Len(ps) : ps[e][Spy] # None => e <= AsOf(ps)
         /\ AsOf(ps) # 0 => ps[AsOf(ps)][Spy] # None
<1> DEFINE known == Observed(ps, Spy)
<1>1. known \in SUBSET Nat /\ Len(ps) \in Nat /\ \A e \in known : e <= Len(ps)
  BY DEF Observed
<1>2. CASE known = {}
  BY <1>1, <1>2 DEF AsOf, Observed
<1>3. CASE known # {}
  <2>1. Max(known) \in known /\ \A e \in known : e <= Max(known)
    BY <1>1, <1>3, MaxIs
  <2>2. AsOf(ps) = Max(known)
    BY <1>3 DEF AsOf
  <2>3. QED
    BY <1>1, <2>1, <2>2 DEF Observed
<1>4. QED
  BY <1>2, <1>3

\* What is published never loses a print of SPY.
Grows(ps, qs) ==
  /\ Len(ps) <= Len(qs)
  /\ \A e \in 1..Len(ps) : ps[e][Spy] # None => qs[e][Spy] # None

LEMMA AsOfGrows ==
  ASSUME NEW ps \in Seq(Row), NEW qs \in Seq(Row), Grows(ps, qs)
  PROVE  AsOf(ps) <= AsOf(qs)
<1>1. Len(ps) \in Nat /\ Len(qs) \in Nat
  OBVIOUS
<1>2. AsOf(ps) \in 0..Len(ps) /\ AsOf(qs) \in 0..Len(qs)
  BY AsOfIs
<1>3. CASE AsOf(ps) = 0
  BY <1>1, <1>2, <1>3
<1>4. CASE AsOf(ps) # 0
  <2>1. ps[AsOf(ps)][Spy] # None
    BY <1>4, AsOfIs
  <2>2. AsOf(ps) \in 1..Len(qs) /\ qs[AsOf(ps)][Spy] # None
    BY <1>1, <1>2, <1>4, <2>1 DEF Grows
  <2>3. QED
    BY <2>2, AsOfIs
<1>5. QED
  BY <1>3, <1>4

-----------------------------------------------------------------------------
(* The reference. *)

Unmoved(ps, start, end) ==
  [navs |-> [e \in start..end |-> None], nav |-> One, anchor |-> One, entry |-> ps[start][Spy]]

IsRebasing(at, before, ps, start, end, dir) ==
  at = [e \in start..end |->
          Rebased(IF e = start THEN before ELSE at[e - 1], ps[e][Spy], e, dir)]

\* The recursion of Rebasing has a solution: one on start..n extends to n + 1.
LEMMA RebasingIs ==
  ASSUME NEW ps, NEW start \in Nat, NEW end \in Nat, start <= end, NEW dir
  PROVE  IsRebasing(Rebasing(ps, start, end, dir), Unmoved(ps, start, end), ps, start, end, dir)
<1> DEFINE before == Unmoved(ps, start, end)
<1> HIDE DEF before
<1> DEFINE P == {n \in Nat : \E at : IsRebasing(at, before, ps, start, n, dir)}
<1>1. start \in P
  <2> DEFINE at == [e \in start..start |-> Rebased(before, ps[e][Spy], e, dir)]
  <2>1. IsRebasing(at, before, ps, start, start, dir)
    BY DEF IsRebasing
  <2>2. QED
    BY <2>1
<1>2. ASSUME NEW n \in Nat, n >= start, n \in P
      PROVE  n + 1 \in P
  <2>1. PICK at : IsRebasing(at, before, ps, start, n, dir)
    BY <1>2
  <2> DEFINE next == Rebased(at[n], ps[n + 1][Spy], n + 1, dir)
             more == [e \in start..n + 1 |-> IF e = n + 1 THEN next ELSE at[e]]
  <2>2. \A e \in start..n : more[e] = at[e]
    BY <1>2
  <2>3. ASSUME NEW e \in start..n + 1
        PROVE  more[e] = Rebased(IF e = start THEN before ELSE more[e - 1], ps[e][Spy], e, dir)
    <3>1. CASE e = n + 1
      <4>1. more[e - 1] = at[n] /\ e # start
        BY <1>2, <2>2, <3>1
      <4>2. more[e] = next
        BY <3>1
      <4>3. QED
        BY <3>1, <4>1, <4>2
    <3>2. CASE e # n + 1
      <4>1. e \in start..n /\ (e # start => e - 1 \in start..n)
        BY <1>2, <3>2
      <4>2. at[e] = Rebased(IF e = start THEN before ELSE at[e - 1], ps[e][Spy], e, dir)
        BY <2>1, <4>1 DEF IsRebasing
      <4> HIDE DEF more
      <4>3. QED
        BY <2>2, <4>1, <4>2
    <3>3. QED
      BY <3>1, <3>2
  <2>4. more = [e \in start..n + 1 |->
                  Rebased(IF e = start THEN before ELSE more[e - 1], ps[e][Spy], e, dir)]
    <3>1. DOMAIN more = start..n + 1 /\ more = [e \in start..n + 1 |-> more[e]]
      OBVIOUS
    <3> HIDE DEF more
    <3>2. QED
      BY <2>3, <3>1
  <2> HIDE DEF more
  <2>5. IsRebasing(more, before, ps, start, n + 1, dir)
    BY <2>4 DEF IsRebasing
  <2>6. QED
    BY <2>5
<1> HIDE DEF P
<1>3. end \in P
  BY <1>1, <1>2, Upward
<1>4. \E at : IsRebasing(at, before, ps, start, end, dir)
  BY <1>3 DEF P
<1>5. Rebasing(ps, start, end, dir) = CHOOSE at : IsRebasing(at, before, ps, start, end, dir)
  BY DEF Rebasing, IsRebasing, Unmoved, before
<1>6. QED
  BY <1>4, <1>5 DEF before

\* The reference at each boundary, as the recursion came to it.
LEMMA RebaseIs ==
  ASSUME NEW ps, NEW start \in Nat, NEW end \in Nat, start <= end, NEW dir
  PROVE  Rebase(ps, start, end, dir) = [e \in start..end |-> Rebasing(ps, start, end, dir)[e].nav]
<1> DEFINE at == Rebasing(ps, start, end, dir)
           P == {n \in start..end : /\ at[n].navs = [e \in start..end |-> at[n].navs[e]]
                                    /\ \A e \in start..n : at[n].navs[e] = at[e].nav}
<1>1. IsRebasing(at, Unmoved(ps, start, end), ps, start, end, dir)
  BY RebasingIs
<1> HIDE DEF at
<1>2. ASSUME NEW e \in start..end, NEW prior,
             prior = IF e = start THEN Unmoved(ps, start, end) ELSE at[e - 1]
      PROVE  at[e].navs = [prior.navs EXCEPT ![e] = at[e].nav]
  <2>1. at[e] = Rebased(prior, ps[e][Spy], e, dir)
    BY <1>1, <1>2 DEF IsRebasing
  <2>2. QED
    BY <2>1 DEF Rebased
<1>3. start \in P
  <2>1. Unmoved(ps, start, end).navs = [e \in start..end |-> None]
    BY DEF Unmoved
  <2>2. at[start].navs = [[e \in start..end |-> None] EXCEPT ![start] = at[start].nav]
    BY <1>2, <2>1
  <2>3. QED
    BY <2>2
<1>4. ASSUME NEW n \in start..end, n + 1 \in start..end, n \in P
      PROVE  n + 1 \in P
  <2> DEFINE navs == at[n].navs
  <2>1. navs = [e \in start..end |-> navs[e]] /\ \A e \in start..n : navs[e] = at[e].nav
    BY <1>4
  <2>2. at[n + 1].navs = [navs EXCEPT ![n + 1] = at[n + 1].nav]
    BY <1>2, <1>4
  <2> HIDE DEF navs
  <2>3. ASSUME NEW e \in start..n + 1 PROVE at[n + 1].navs[e] = at[e].nav
    <3>1. e \in start..end /\ (e # n + 1 => e \in start..n)
      BY <1>4
    <3>2. at[n + 1].navs[e] = IF e = n + 1 THEN at[n + 1].nav ELSE navs[e]
      BY <2>1, <2>2, <3>1
    <3>3. QED
      BY <2>1, <3>1, <3>2
  <2>4. at[n + 1].navs = [e \in start..end |-> at[n + 1].navs[e]]
    BY <2>1, <2>2
  <2>5. QED
    BY <1>4, <2>3, <2>4
<1> HIDE DEF P
<1>5. end \in P
  BY <1>3, <1>4, UpTo
<1>6. QED
  BY <1>5 DEF P, Rebase, at

\* The reference up to boundary m is what the prints up to m make it.
LEMMA SameRebase ==
  ASSUME NEW ps \in Seq(Row), NEW qs \in Seq(Row), NEW m, Agree(ps, qs, m),
         NEW start \in 1..m, NEW a \in Nat, NEW b \in Nat, m <= a, m <= b, NEW dir
  PROVE  \A e \in start..m : Rebase(ps, start, a, dir)[e] = Rebase(qs, start, b, dir)[e]
<1> DEFINE at == Rebasing(ps, start, a, dir)
           bt == Rebasing(qs, start, b, dir)
           P == {n \in start..m : at[n].nav = bt[n].nav /\ at[n].anchor = bt[n].anchor /\ at[n].entry = bt[n].entry}
<1>1. m \in Nat /\ start \in Nat /\ start <= a /\ start <= b
  BY DEF Agree
<1>2. IsRebasing(at, Unmoved(ps, start, a), ps, start, a, dir)
      /\ IsRebasing(bt, Unmoved(qs, start, b), qs, start, b, dir)
  BY <1>1, RebasingIs
<1>3. \A e \in start..m : ps[e] = qs[e]
  BY <1>1 DEF Agree
<1>4. Rebase(ps, start, a, dir) = [e \in start..a |-> at[e].nav]
  BY <1>1, RebaseIs
<1>5. Rebase(qs, start, b, dir) = [e \in start..b |-> bt[e].nav]
  BY <1>1, RebaseIs
<1> HIDE DEF at, bt
<1>6. ASSUME NEW u, NEW v, NEW price, NEW e, u.nav = v.nav, u.anchor = v.anchor, u.entry = v.entry
      PROVE  LET r == Rebased(u, price, e, dir)
                 t == Rebased(v, price, e, dir)
             IN r.nav = t.nav /\ r.anchor = t.anchor /\ r.entry = t.entry
  BY <1>6 DEF Rebased
<1>7. start \in P
  <2>1. start \in start..a /\ start \in start..b /\ ps[start] = qs[start]
    BY <1>1, <1>3
  <2>2. at[start] = Rebased(Unmoved(ps, start, a), ps[start][Spy], start, dir)
    BY <1>2, <2>1 DEF IsRebasing
  <2>3. bt[start] = Rebased(Unmoved(qs, start, b), ps[start][Spy], start, dir)
    BY <1>2, <2>1 DEF IsRebasing
  <2>4. /\ Unmoved(ps, start, a).nav = Unmoved(qs, start, b).nav
        /\ Unmoved(ps, start, a).anchor = Unmoved(qs, start, b).anchor
        /\ Unmoved(ps, start, a).entry = Unmoved(qs, start, b).entry
    BY <2>1 DEF Unmoved
  <2>5. QED
    BY <1>6, <2>2, <2>3, <2>4
<1>8. ASSUME NEW n \in start..m, n + 1 \in start..m, n \in P
      PROVE  n + 1 \in P
  <2>1. n + 1 \in start..a /\ n + 1 \in start..b /\ n + 1 # start /\ (n + 1) - 1 = n
    BY <1>1, <1>8
  <2>2. at[n + 1] = Rebased(at[n], ps[n + 1][Spy], n + 1, dir)
    BY <1>2, <2>1 DEF IsRebasing
  <2>3. bt[n + 1] = Rebased(bt[n], qs[n + 1][Spy], n + 1, dir)
    BY <1>2, <2>1 DEF IsRebasing
  <2>4. ps[n + 1] = qs[n + 1]
    BY <1>3, <1>8
  <2>5. QED
    BY <1>6, <1>8, <2>2, <2>3, <2>4
<1> HIDE DEF P
<1>9. \A n \in start..m : n \in P
  BY <1>1, <1>7, <1>8, UpTo
<1>10. QED
  BY <1>1, <1>4, <1>5, <1>9 DEF P

-----------------------------------------------------------------------------
(* A book. *)

NoRun(first, asOf) ==
  [ok |-> TRUE, lost |-> FALSE, nav |-> [e \in first..asOf |-> None], book |-> NoBook, traded |-> {}]

IsRuns(at, before, trades, first, ps, ref, asOf, dir) ==
  at = [e \in first..asOf |-> IF e = first THEN Advance(before, One, e, trades, ps, ref)
                             ELSE Carried(at[e - 1], e, trades, ps, ref, dir)]

\* The recursion of Runs has a solution: one on first..n extends to n + 1.
LEMMA RunsAre ==
  ASSUME NEW trades, NEW ps, NEW ref, NEW first \in Nat, NEW asOf \in Nat, first <= asOf, NEW dir
  PROVE  IsRuns(Runs(trades, first, ps, ref, asOf, dir), NoRun(first, asOf), trades, first, ps, ref, asOf, dir)
<1> DEFINE before == NoRun(first, asOf)
<1> HIDE DEF before
<1> DEFINE P == {n \in Nat : \E at : IsRuns(at, before, trades, first, ps, ref, n, dir)}
<1>1. first \in P
  <2> DEFINE at == [e \in first..first |-> Advance(before, One, e, trades, ps, ref)]
  <2>1. IsRuns(at, before, trades, first, ps, ref, first, dir)
    BY DEF IsRuns
  <2>2. QED
    BY <2>1
<1>2. ASSUME NEW n \in Nat, n >= first, n \in P
      PROVE  n + 1 \in P
  <2>1. PICK at : IsRuns(at, before, trades, first, ps, ref, n, dir)
    BY <1>2
  <2> DEFINE next == Carried(at[n], n + 1, trades, ps, ref, dir)
             more == [e \in first..n + 1 |-> IF e = n + 1 THEN next ELSE at[e]]
  <2>2. \A e \in first..n : more[e] = at[e]
    BY <1>2
  <2>3. ASSUME NEW e \in first..n + 1
        PROVE  more[e] = IF e = first THEN Advance(before, One, e, trades, ps, ref)
                          ELSE Carried(more[e - 1], e, trades, ps, ref, dir)
    <3>1. CASE e = n + 1
      <4>1. more[e - 1] = at[n] /\ e # first
        BY <1>2, <2>2, <3>1
      <4>2. more[e] = next
        BY <3>1
      <4>3. QED
        BY <3>1, <4>1, <4>2
    <3>2. CASE e # n + 1
      <4>1. e \in first..n /\ (e # first => e - 1 \in first..n)
        BY <1>2, <3>2
      <4>2. at[e] = IF e = first THEN Advance(before, One, e, trades, ps, ref)
                          ELSE Carried(at[e - 1], e, trades, ps, ref, dir)
        BY <2>1, <4>1 DEF IsRuns
      <4> HIDE DEF more
      <4>3. QED
        BY <2>2, <4>1, <4>2
    <3>3. QED
      BY <3>1, <3>2
  <2>4. more = [e \in first..n + 1 |->
                  IF e = first THEN Advance(before, One, e, trades, ps, ref)
                          ELSE Carried(more[e - 1], e, trades, ps, ref, dir)]
    <3>1. DOMAIN more = first..n + 1 /\ more = [e \in first..n + 1 |-> more[e]]
      OBVIOUS
    <3> HIDE DEF more
    <3>2. QED
      BY <2>3, <3>1
  <2> HIDE DEF more
  <2>5. IsRuns(more, before, trades, first, ps, ref, n + 1, dir)
    BY <2>4 DEF IsRuns
  <2>6. QED
    BY <2>5
<1> HIDE DEF P
<1>3. asOf \in P
  BY <1>1, <1>2, Upward
<1>4. \E at : IsRuns(at, before, trades, first, ps, ref, asOf, dir)
  BY <1>3 DEF P
<1>5. Runs(trades, first, ps, ref, asOf, dir) = CHOOSE at : IsRuns(at, before, trades, first, ps, ref, asOf, dir)
  BY DEF Runs, IsRuns, NoRun, before
<1>6. QED
  BY <1>4, <1>5 DEF before

IsRun(r) ==
  r = [ok |-> r.ok, lost |-> r.lost, nav |-> r.nav, book |-> r.book, traded |-> r.traded]

\* What the book has come to, before it trades.
Came(run, e, ps, ref, dir) ==
  LET equity == Equity(run.book, ps, ref, e, dir)
  IN IF run.lost \/ equity \preceq Zero THEN Zero ELSE equity

LEMMA CarriedIs ==
  ASSUME NEW run, NEW e, NEW trades, NEW ps, NEW ref, NEW dir
  PROVE  Carried(run, e, trades, ps, ref, dir) = Advance(run, Came(run, e, ps, ref, dir), e, trades, ps, ref)
BY DEF Carried, Came

\* One boundary adds its value and, at most, its trade; an error stays.
Adds(r, run, nav, e, trades) ==
  /\ r.ok => run.ok /\ r.nav = [run.nav EXCEPT ![e] = nav]
  /\ r.traded = run.traded \/ (e \in DOMAIN trades /\ r.traded = run.traded \cup {e})

LEMMA AdvanceIs ==
  ASSUME NEW run, IsRun(run), NEW nav, NEW e, NEW trades, NEW ps, NEW ref,
         NEW r, r = Advance(run, nav, e, trades, ps, ref)
  PROVE  IsRun(r) /\ Adds(r, run, nav, e, trades)
<1> DEFINE held == nav = Zero \/ e \notin DOMAIN trades
           fine == Priceable(trades[e], ps, ref, e)
           book == Trade(trades[e], nav, ps, ref, e)
           navs == [run.nav EXCEPT ![e] = nav]
           traded == run.traded \cup {e}
<1>1. r = IF ~run.ok THEN run
          ELSE IF held THEN [run EXCEPT !.nav = navs, !.lost = nav = Zero]
          ELSE IF ~fine THEN [run EXCEPT !.ok = FALSE]
          ELSE [run EXCEPT !.nav = navs, !.traded = traded, !.book = book]
  BY DEF Advance
<1>2. held \/ e \in DOMAIN trades
  OBVIOUS
<1> HIDE DEF held, fine, book, navs, traded
<1>3. run = [ok |-> run.ok, lost |-> run.lost, nav |-> run.nav, book |-> run.book, traded |-> run.traded]
  BY DEF IsRun
<1>4. CASE ~run.ok
  BY <1>1, <1>4 DEF Adds
<1>5. CASE run.ok /\ held
  <2>1. r = [ok |-> run.ok, lost |-> nav = Zero, nav |-> navs, book |-> run.book, traded |-> run.traded]
    BY <1>1, <1>3, <1>5
  <2>2. QED
    BY <1>5, <2>1 DEF IsRun, Adds, navs
<1>6. CASE run.ok /\ ~held /\ ~fine
  <2>1. r = [ok |-> FALSE, lost |-> run.lost, nav |-> run.nav, book |-> run.book, traded |-> run.traded]
    BY <1>1, <1>3, <1>6
  <2>2. QED
    BY <1>6, <2>1 DEF IsRun, Adds
<1>7. CASE run.ok /\ ~held /\ fine
  <2>1. r = [ok |-> run.ok, lost |-> run.lost, nav |-> navs, book |-> book, traded |-> traded]
    BY <1>1, <1>3, <1>7
  <2>2. QED
    BY <1>2, <1>7, <2>1 DEF IsRun, Adds, navs, traded
<1>8. QED
  BY <1>4, <1>5, <1>6, <1>7

\* Two runs that may have come to different boundaries hold the same book.
Same(u, v) == u.ok = v.ok /\ u.lost = v.lost /\ u.book = v.book /\ u.traded = v.traded

SamePrices(ps, qs, ref, rfe, e) ==
  ref[e] = rfe[e] /\ \A s \in Stock : Mark(ps, s, e) = Mark(qs, s, e)

LEMMA SamePriceable ==
  ASSUME NEW ps, NEW qs, NEW ref, NEW rfe, NEW e, SamePrices(ps, qs, ref, rfe, e), NEW target
  PROVE  Priceable(target, ps, ref, e) = Priceable(target, qs, rfe, e)
BY DEF Priceable, SamePrices

LEMMA SameTrade ==
  ASSUME NEW ps, NEW qs, NEW ref, NEW rfe, NEW e, SamePrices(ps, qs, ref, rfe, e),
         NEW target, NEW nav
  PROVE  Trade(target, nav, ps, ref, e) = Trade(target, nav, qs, rfe, e)
<1>1. [s \in Stock |-> Mark(ps, s, e)] = [s \in Stock |-> Mark(qs, s, e)]
  BY DEF SamePrices
<1>2. [s \in Stock |-> IF target[s] = Zero THEN Zero ELSE (nav ** target[s]) // Ratio(Mark(ps, s, e), 1)]
      = [s \in Stock |-> IF target[s] = Zero THEN Zero ELSE (nav ** target[s]) // Ratio(Mark(qs, s, e), 1)]
  BY DEF SamePrices
<1>3. ref[e] = rfe[e]
  BY DEF SamePrices
<1>4. QED
  BY <1>1, <1>2, <1>3 DEF Trade

LEMMA SameEquity ==
  ASSUME NEW ps, NEW qs, NEW ref, NEW rfe, NEW e, SamePrices(ps, qs, ref, rfe, e),
         NEW book, NEW dir
  PROVE  Equity(book, ps, ref, e, dir) = Equity(book, qs, rfe, e, dir)
<1> DEFINE held == {s \in Stock : book.units[s] # Zero}
<1>1. [s \in held |-> book.units[s] ** Ratio(Mark(ps, s, e), 1)]
      = [s \in held |-> book.units[s] ** Ratio(Mark(qs, s, e), 1)]
  BY DEF SamePrices
<1>2. [s \in held |-> book.units[s] ** Ratio(book.entry[s] - Mark(ps, s, e), 1)]
      = [s \in held |-> book.units[s] ** Ratio(book.entry[s] - Mark(qs, s, e), 1)]
  BY DEF SamePrices
<1>3. ref[e] = rfe[e]
  BY DEF SamePrices
<1>4. QED
  BY <1>1, <1>2, <1>3 DEF Equity

\* What is due at e is the same.
SameDue(t, w, e) == (e \in DOMAIN t <=> e \in DOMAIN w) /\ (e \in DOMAIN t => t[e] = w[e])

LEMMA SameAdvance ==
  ASSUME NEW ps, NEW qs, NEW ref, NEW rfe, NEW e, SamePrices(ps, qs, ref, rfe, e),
         NEW t, NEW w, SameDue(t, w, e),
         NEW u, NEW v, IsRun(u), IsRun(v), Same(u, v), NEW nav
  PROVE  Same(Advance(u, nav, e, t, ps, ref), Advance(v, nav, e, w, qs, rfe))
<1> DEFINE held == nav = Zero \/ e \notin DOMAIN t
           fine == Priceable(t[e], ps, ref, e)
           book == Trade(t[e], nav, ps, ref, e)
           unav == [u.nav EXCEPT ![e] = nav]
           vnav == [v.nav EXCEPT ![e] = nav]
           traded == u.traded \cup {e}
           r == Advance(u, nav, e, t, ps, ref)
           q == Advance(v, nav, e, w, qs, rfe)
<1>1. r = IF ~u.ok THEN u
          ELSE IF held THEN [u EXCEPT !.nav = unav, !.lost = nav = Zero]
          ELSE IF ~fine THEN [u EXCEPT !.ok = FALSE]
          ELSE [u EXCEPT !.nav = unav, !.traded = traded, !.book = book]
  BY DEF Advance
<1>2. q = IF ~v.ok THEN v
          ELSE IF nav = Zero \/ e \notin DOMAIN w THEN [v EXCEPT !.nav = vnav, !.lost = nav = Zero]
          ELSE IF ~Priceable(w[e], qs, rfe, e) THEN [v EXCEPT !.ok = FALSE]
          ELSE [v EXCEPT !.nav = vnav, !.traded = v.traded \cup {e}, !.book = Trade(w[e], nav, qs, rfe, e)]
  BY DEF Advance
<1>3. held = (nav = Zero \/ e \notin DOMAIN w) /\ (~held => t[e] = w[e])
  BY DEF SameDue
<1>4. ~held => fine = Priceable(w[e], qs, rfe, e) /\ book = Trade(w[e], nav, qs, rfe, e)
  BY <1>3, SamePriceable, SameTrade
<1>5. u.ok = v.ok /\ u.lost = v.lost /\ u.book = v.book /\ u.traded = v.traded
  BY DEF Same
<1>6. u = [ok |-> u.ok, lost |-> u.lost, nav |-> u.nav, book |-> u.book, traded |-> u.traded]
  BY DEF IsRun
<1>7. v = [ok |-> v.ok, lost |-> v.lost, nav |-> v.nav, book |-> v.book, traded |-> v.traded]
  BY DEF IsRun
<1> HIDE DEF held, fine, book, unav, vnav, r, q
<1>8. CASE ~u.ok
  BY <1>1, <1>2, <1>5, <1>8 DEF Same, r, q
<1>9. CASE u.ok /\ held
  <2>1. r = [ok |-> u.ok, lost |-> nav = Zero, nav |-> unav, book |-> u.book, traded |-> u.traded]
    BY <1>1, <1>6, <1>9
  <2>2. q = [ok |-> v.ok, lost |-> nav = Zero, nav |-> vnav, book |-> v.book, traded |-> v.traded]
    BY <1>2, <1>3, <1>5, <1>7, <1>9
  <2>3. QED
    BY <1>5, <2>1, <2>2 DEF Same, r, q
<1>10. CASE u.ok /\ ~held /\ ~fine
  <2>1. r = [ok |-> FALSE, lost |-> u.lost, nav |-> u.nav, book |-> u.book, traded |-> u.traded]
    BY <1>1, <1>6, <1>10
  <2>2. q = [ok |-> FALSE, lost |-> v.lost, nav |-> v.nav, book |-> v.book, traded |-> v.traded]
    BY <1>2, <1>3, <1>4, <1>5, <1>7, <1>10
  <2>3. QED
    BY <1>5, <2>1, <2>2 DEF Same, r, q
<1>11. CASE u.ok /\ ~held /\ fine
  <2>1. r = [ok |-> u.ok, lost |-> u.lost, nav |-> unav, book |-> book, traded |-> traded]
    BY <1>1, <1>6, <1>11
  <2>2. q = [ok |-> v.ok, lost |-> v.lost, nav |-> vnav, book |-> book, traded |-> traded]
    BY <1>2, <1>3, <1>4, <1>5, <1>7, <1>11
  <2>3. QED
    BY <1>5, <2>1, <2>2 DEF Same, r, q
<1>12. QED
  BY <1>8, <1>9, <1>10, <1>11

\* The states of a run: each is well formed, has traded only what was due, and has
\* a place for every boundary.
RunTo(n, r, trades, first, asOf) ==
  /\ IsRun(r)
  /\ r.traded \subseteq (DOMAIN trades) \cap (first..n)
  /\ r.ok => r.nav = [e \in first..asOf |-> r.nav[e]]

LEMMA RunsAreRuns ==
  ASSUME NEW trades, NEW ps, NEW ref, NEW first \in Nat, NEW asOf \in Nat, first <= asOf, NEW dir,
         NEW at, at = Runs(trades, first, ps, ref, asOf, dir)
  PROVE  \A n \in first..asOf :
           RunTo(n, at[n], trades, first, asOf)
<1> DEFINE P == {n \in first..asOf :
                   RunTo(n, at[n], trades, first, asOf)}
           before == NoRun(first, asOf)
<1>1. IsRuns(at, before, trades, first, ps, ref, asOf, dir)
  BY RunsAre
<1>2. first \in P
  <2>1. IsRun(before) /\ before.traded = {} /\ before.nav = [e \in first..asOf |-> None]
    BY DEF NoRun, IsRun
  <2> HIDE DEF before
  <2>2. at[first] = Advance(before, One, first, trades, ps, ref)
    BY <1>1 DEF IsRuns
  <2>3. IsRun(at[first]) /\ Adds(at[first], before, One, first, trades)
    BY <2>1, <2>2, AdvanceIs
  <2>4. at[first].ok => at[first].nav = [e \in first..asOf |-> at[first].nav[e]]
    BY <2>1, <2>3 DEF Adds
  <2>5. QED
    BY <2>1, <2>3, <2>4 DEF RunTo, Adds
<1>3. ASSUME NEW n \in first..asOf, n + 1 \in first..asOf, n \in P
      PROVE  n + 1 \in P
  <2> DEFINE u == at[n]
             nav == Came(u, n + 1, ps, ref, dir)
  <2>1. /\ IsRun(u) /\ u.traded \subseteq (DOMAIN trades) \cap (first..n)
        /\ u.ok => u.nav = [e \in first..asOf |-> u.nav[e]]
    BY <1>3 DEF RunTo
  <2>2. n + 1 # first /\ (n + 1) - 1 = n
    BY <1>3
  <2>3. at[n + 1] = Carried(u, n + 1, trades, ps, ref, dir)
    BY <1>1, <1>3, <2>2 DEF IsRuns
  <2>4. at[n + 1] = Advance(u, nav, n + 1, trades, ps, ref)
    BY <2>3, CarriedIs
  <2> HIDE DEF u, nav
  <2>5. IsRun(at[n + 1]) /\ Adds(at[n + 1], u, nav, n + 1, trades)
    BY <2>1, <2>4, AdvanceIs
  <2>6. at[n + 1].ok => at[n + 1].nav = [e \in first..asOf |-> at[n + 1].nav[e]]
    BY <2>1, <2>5 DEF Adds
  <2>7. at[n + 1].traded \subseteq (DOMAIN trades) \cap (first..n + 1)
    BY <1>3, <2>1, <2>5 DEF Adds
  <2>8. QED
    BY <1>3, <2>5, <2>6, <2>7 DEF RunTo
<1> HIDE DEF P
<1>4. \A n \in first..asOf : n \in P
  BY <1>2, <1>3, UpTo
<1>5. QED
  BY <1>4 DEF P

\* A run only adds to what it was at an earlier boundary.
Adding(at, n, m, first) ==
  /\ at[n].ok => at[m].ok /\ \A e \in first..m : at[n].nav[e] = at[m].nav[e]
  /\ at[n].traded \cap (first..m) = at[m].traded

LEMMA RunsExtend ==
  ASSUME NEW trades, NEW ps, NEW ref, NEW first \in Nat, NEW asOf \in Nat, first <= asOf, NEW dir,
         NEW at, at = Runs(trades, first, ps, ref, asOf, dir), NEW m \in first..asOf
  PROVE  \A n \in m..asOf :
           Adding(at, n, m, first)
<1> DEFINE P == {n \in m..asOf :
                   /\ at[n].ok => at[m].ok /\ \A e \in first..m : at[n].nav[e] = at[m].nav[e]
                   /\ at[n].traded \cap (first..m) = at[m].traded}
<1>1. /\ IsRuns(at, NoRun(first, asOf), trades, first, ps, ref, asOf, dir)
      /\ \A n \in first..asOf :
           RunTo(n, at[n], trades, first, asOf)
  BY RunsAre, RunsAreRuns
<1>2. m \in P
  <2>1. RunTo(m, at[m], trades, first, asOf)
    BY <1>1
  <2>2. at[m].traded \cap (first..m) = at[m].traded
    BY <2>1 DEF RunTo
  <2>3. m \in m..asOf
    OBVIOUS
  <2>4. QED
    BY <2>2, <2>3
<1>3. ASSUME NEW n \in m..asOf, n + 1 \in m..asOf, n \in P
      PROVE  n + 1 \in P
  <2> DEFINE u == at[n]
             nav == Came(u, n + 1, ps, ref, dir)
  <2>1. /\ IsRun(u)
        /\ u.ok => u.nav = [e \in first..asOf |-> u.nav[e]]
    BY <1>1 DEF RunTo
  <2>2. n + 1 # first /\ (n + 1) - 1 = n /\ n + 1 \in first..asOf
    BY <1>3
  <2>3. at[n + 1] = Carried(u, n + 1, trades, ps, ref, dir)
    BY <1>1, <2>2 DEF IsRuns
  <2>4. at[n + 1] = Advance(u, nav, n + 1, trades, ps, ref)
    BY <2>3, CarriedIs
  <2> HIDE DEF nav
  <2>5. /\ at[n + 1].ok => u.ok /\ at[n + 1].nav = [u.nav EXCEPT ![n + 1] = nav]
        /\ at[n + 1].traded = u.traded \/ at[n + 1].traded = u.traded \cup {n + 1}
    <3>1. Adds(at[n + 1], u, nav, n + 1, trades)
      BY <2>1, <2>4, AdvanceIs
    <3>2. QED
      BY <3>1 DEF Adds
  <2>6. ASSUME at[n + 1].ok, NEW e \in first..m
        PROVE  at[n + 1].nav[e] = u.nav[e]
    <3>1. e # n + 1 /\ e \in first..asOf
      BY <1>3
    <3>2. QED
      BY <2>1, <2>5, <2>6, <3>1
  <2>7. at[n + 1].traded \cap (first..m) = u.traded \cap (first..m)
    BY <1>3, <2>5
  <2>8. /\ u.ok => at[m].ok /\ \A e \in first..m : u.nav[e] = at[m].nav[e]
        /\ u.traded \cap (first..m) = at[m].traded
    BY <1>3
  <2> HIDE DEF u
  <2>9. QED
    BY <1>3, <2>5, <2>6, <2>7, <2>8
<1> HIDE DEF P
<1>4. m \in Nat
  OBVIOUS
<1>5. \A n \in m..asOf : n \in P
  BY <1>2, <1>3, <1>4, UpTo
<1>6. QED
  BY <1>5 DEF P, Adding

\* Two runs are the same up to boundary m when their prices and trades are.
SameDays(ps, qs, ref, rfe, t, w, first, m) ==
  \A e \in first..m : SamePrices(ps, qs, ref, rfe, e) /\ SameDue(t, w, e)
Matched(at, bt, first, m) ==
  \A n \in first..m : Same(at[n], bt[n]) /\ (at[n].ok => at[n].nav[n] = bt[n].nav[n])

LEMMA SameRuns ==
  ASSUME NEW ps, NEW qs, NEW ref, NEW rfe, NEW t, NEW w, NEW dir,
         NEW first \in Nat, NEW m \in Nat, NEW a \in Nat, NEW b \in Nat, first <= m, m <= a, m <= b,
         SameDays(ps, qs, ref, rfe, t, w, first, m),
         NEW at, at = Runs(t, first, ps, ref, a, dir),
         NEW bt, bt = Runs(w, first, qs, rfe, b, dir)
  PROVE  Matched(at, bt, first, m)
<1> DEFINE P == {n \in first..m : Same(at[n], bt[n]) /\ (at[n].ok => at[n].nav[n] = bt[n].nav[n])}
<1> USE DEF SameDays
<1>1. /\ IsRuns(at, NoRun(first, a), t, first, ps, ref, a, dir)
      /\ IsRuns(bt, NoRun(first, b), w, first, qs, rfe, b, dir)
  BY RunsAre
<1>2. \A n \in first..a : RunTo(n, at[n], t, first, a)
  BY RunsAreRuns
<1>3. \A n \in first..b : RunTo(n, bt[n], w, first, b)
  BY RunsAreRuns
<1>4. ASSUME NEW u, NEW v, IsRun(u), IsRun(v), Same(u, v), NEW nav, NEW e \in first..m,
             u.ok => e \in DOMAIN u.nav /\ e \in DOMAIN v.nav,
             NEW r, r = Advance(u, nav, e, t, ps, ref),
             NEW q, q = Advance(v, nav, e, w, qs, rfe)
      PROVE  Same(r, q) /\ (r.ok => r.nav[e] = q.nav[e])
  <2>1. Same(r, q)
    BY <1>4, SameAdvance
  <2>2. Adds(r, u, nav, e, t) /\ Adds(q, v, nav, e, w)
    BY <1>4, AdvanceIs
  <2>3. /\ r.ok => u.ok /\ r.nav = [u.nav EXCEPT ![e] = nav]
        /\ q.ok => v.ok /\ q.nav = [v.nav EXCEPT ![e] = nav]
    BY <2>2 DEF Adds
  <2>4. r.ok = q.ok
    BY <2>1 DEF Same
  <2>5. QED
    BY <1>4, <2>1, <2>3, <2>4
<1>5. first \in P
  <2> DEFINE u == NoRun(first, a)
             v == NoRun(first, b)
  <2>1. IsRun(u) /\ IsRun(v) /\ Same(u, v)
    BY DEF NoRun, IsRun, Same
  <2>2. first \in DOMAIN u.nav /\ first \in DOMAIN v.nav
    BY DEF NoRun
  <2> HIDE DEF u, v
  <2>3. at[first] = Advance(u, One, first, t, ps, ref) /\ bt[first] = Advance(v, One, first, w, qs, rfe)
    BY <1>1 DEF IsRuns, u, v
  <2>4. first \in first..m
    OBVIOUS
  <2>5. QED
    BY <1>4, <2>1, <2>2, <2>3, <2>4
<1>6. ASSUME NEW n \in first..m, n + 1 \in first..m, n \in P
      PROVE  n + 1 \in P
  <2> DEFINE u == at[n]
             v == bt[n]
             nav == Came(u, n + 1, ps, ref, dir)
  <2>1. /\ n + 1 # first /\ (n + 1) - 1 = n /\ n + 1 \in first..a /\ n + 1 \in first..b
        /\ n \in first..a /\ n \in first..b
    BY <1>6
  <2>2. IsRun(u) /\ IsRun(v) /\ Same(u, v)
    BY <1>2, <1>3, <1>6, <2>1 DEF RunTo
  <2>3. u.ok => n + 1 \in DOMAIN u.nav /\ n + 1 \in DOMAIN v.nav
    <3>1. u.ok = v.ok
      BY <2>2 DEF Same
    <3>2. u.ok => u.nav = [e \in first..a |-> u.nav[e]]
      BY <1>2, <2>1 DEF RunTo
    <3>3. v.ok => v.nav = [e \in first..b |-> v.nav[e]]
      BY <1>3, <2>1 DEF RunTo
    <3> HIDE DEF u, v
    <3>4. u.ok => DOMAIN u.nav = first..a /\ DOMAIN v.nav = first..b
      BY <3>1, <3>2, <3>3
    <3>5. QED
      BY <2>1, <3>4
  <2>4. at[n + 1] = Carried(u, n + 1, t, ps, ref, dir) /\ bt[n + 1] = Carried(v, n + 1, w, qs, rfe, dir)
    BY <1>1, <2>1 DEF IsRuns
  <2>5. Came(v, n + 1, qs, rfe, dir) = nav
    <3>1. SamePrices(ps, qs, ref, rfe, n + 1) /\ u.lost = v.lost /\ u.book = v.book
      BY <1>6, <2>2 DEF Same
    <3> HIDE DEF u, v
    <3>2. Equity(u.book, ps, ref, n + 1, dir) = Equity(u.book, qs, rfe, n + 1, dir)
      BY <3>1, SameEquity
    <3>3. QED
      BY <3>1, <3>2 DEF Came
  <2>6. at[n + 1] = Advance(u, nav, n + 1, t, ps, ref) /\ bt[n + 1] = Advance(v, nav, n + 1, w, qs, rfe)
    BY <2>4, <2>5, CarriedIs
  <2> HIDE DEF u, v, nav
  <2>7. QED
    BY <1>4, <1>6, <2>2, <2>3, <2>6
<1> HIDE DEF P
<1>7. \A n \in first..m : n \in P
  BY <1>5, <1>6, UpTo
<1>8. QED
  BY <1>7 DEF P, Matched

-----------------------------------------------------------------------------
(* A valuation. *)

RunsOf(trades, ps, asOf, dir) ==
  LET first == Min(DOMAIN trades)
  IN Runs(trades, first, ps, Rebase(ps, first, asOf, dir), asOf, dir)

LEMMA FirstIs ==
  ASSUME NEW trades, NEW asOf \in Nat, DOMAIN trades \in SUBSET (1..asOf), DOMAIN trades # {}
  PROVE  Min(DOMAIN trades) \in 1..asOf /\ Min(DOMAIN trades) \in DOMAIN trades
         /\ \A e \in DOMAIN trades : Min(DOMAIN trades) <= e
BY MinIs

Followed(r, run, unbroken) ==
  /\ r.ok => unbroken /\ run.ok /\ r.nav = run.nav /\ r.traded = run.traded
  /\ unbroken /\ run.ok => r.ok

LEMMA FollowIs ==
  ASSUME NEW trades, NEW ps, NEW asOf, NEW dir, DOMAIN trades # {}
  PROVE  Followed(Follow(trades, ps, asOf, dir), RunsOf(trades, ps, asOf, dir)[asOf],
                  Unbroken(ps, Min(DOMAIN trades), asOf))
<1> DEFINE first == Min(DOMAIN trades)
           at == RunsOf(trades, ps, asOf, dir)
           r == Follow(trades, ps, asOf, dir)
<1>1. r = IF ~Unbroken(ps, first, asOf) THEN Failed
          ELSE IF at[asOf].ok THEN [ok |-> TRUE, nav |-> at[asOf].nav, traded |-> at[asOf].traded]
          ELSE Failed
  BY DEF Follow, RunOf, RunsOf
<1> HIDE DEF first, at, r
<1>2. Failed.ok = FALSE
  BY DEF Failed
<1>3. Followed(r, at[asOf], Unbroken(ps, first, asOf))
  BY <1>1, <1>2 DEF Followed
<1>4. QED
  BY <1>3 DEF first, at, r

SameTrades(t, w, m) == \A e \in 1..m : SameDue(t, w, e)

LEMMA SameRunsOf ==
  ASSUME NEW ps \in Seq(Row), NEW qs \in Seq(Row), NEW dir,
         NEW m, Agree(ps, qs, m), NEW a \in Nat, NEW b \in Nat, m <= a, m <= b,
         NEW t, NEW w, DOMAIN t \in SUBSET (1..a), DOMAIN w \in SUBSET (1..b),
         SameTrades(t, w, m), DOMAIN t # {}, Min(DOMAIN t) <= m
  PROVE  /\ DOMAIN w # {} /\ Min(DOMAIN w) = Min(DOMAIN t)
         /\ Matched(RunsOf(t, ps, a, dir), RunsOf(w, qs, b, dir), Min(DOMAIN t), m)
<1> USE DEF SameTrades
<1> DEFINE first == Min(DOMAIN t)
           ref == Rebase(ps, first, a, dir)
           rfe == Rebase(qs, first, b, dir)
<1>1. m \in Nat
  BY DEF Agree
<1>2. first \in 1..a /\ first \in DOMAIN t /\ \A e \in DOMAIN t : first <= e
  BY FirstIs
<1>3. first \in 1..m /\ first \in Nat
  BY <1>1, <1>2
<1>4. first \in DOMAIN w
  BY <1>2, <1>3 DEF SameDue
<1>5. \A e \in DOMAIN w : first <= e
  <2> SUFFICES ASSUME NEW e \in DOMAIN w, e < first PROVE FALSE
    BY <1>3
  <2>1. e \in 1..m
    BY <1>1, <1>3
  <2>2. e \in DOMAIN t
    BY <2>1 DEF SameDue
  <2>3. QED
    BY <1>2, <1>3, <2>2
<1>6. Min(DOMAIN w) = first
  BY <1>4, <1>5, MinOf
<1> HIDE DEF first
<1>7. \A e \in first..m : ref[e] = rfe[e]
  BY <1>3, SameRebase
<1>8. SameDays(ps, qs, ref, rfe, t, w, first, m)
  <2> SUFFICES ASSUME NEW e \in first..m PROVE SamePrices(ps, qs, ref, rfe, e) /\ SameDue(t, w, e)
    BY DEF SameDays
  <2>1. e \in 1..m
    BY <1>1, <1>3
  <2>2. \A s \in Stock : Mark(ps, s, e) = Mark(qs, s, e)
    BY <2>1, SameMark
  <2>3. QED
    BY <1>7, <2>1, <2>2 DEF SamePrices
<1>9. /\ RunsOf(t, ps, a, dir) = Runs(t, first, ps, ref, a, dir)
      /\ RunsOf(w, qs, b, dir) = Runs(w, first, qs, rfe, b, dir)
  BY <1>6 DEF RunsOf, first
<1> HIDE DEF ref, rfe
<1>10. Matched(Runs(t, first, ps, ref, a, dir), Runs(w, first, qs, rfe, b, dir), first, m)
  <2>1. first <= m
    BY <1>3
  <2>2. QED
    BY <1>1, <1>3, <1>8, <2>1, SameRuns
<1>11. QED
  BY <1>4, <1>6, <1>9, <1>10 DEF first

\* The value at e of a run that came to a later boundary without error.
Settled(at, t, first, a) ==
  /\ at[a].nav = [e \in first..a |-> at[a].nav[e]]
  /\ at[a].traded \subseteq DOMAIN t
  /\ \A e \in first..a : /\ at[e].ok /\ at[a].nav[e] = at[e].nav[e]
                         /\ at[a].traded \cap (first..e) = at[e].traded

LEMMA RunsOfIs ==
  ASSUME NEW ps, NEW dir, NEW a \in Nat, NEW t, DOMAIN t \in SUBSET (1..a), DOMAIN t # {},
         RunsOf(t, ps, a, dir)[a].ok
  PROVE  Settled(RunsOf(t, ps, a, dir), t, Min(DOMAIN t), a)
<1> DEFINE first == Min(DOMAIN t)
           at == RunsOf(t, ps, a, dir)
           ref == Rebase(ps, first, a, dir)
<1>1. first \in 1..a /\ first \in Nat /\ first <= a
  <2>1. first \in 1..a
    BY FirstIs
  <2>2. QED
    BY <2>1
<1>2. at = Runs(t, first, ps, ref, a, dir)
  BY DEF RunsOf
<1>a. at[a].ok
  OBVIOUS
<1> HIDE DEF first, ref, at
<1>3. RunTo(a, at[a], t, first, a)
  BY <1>1, <1>2, RunsAreRuns
<1>4. \A e \in first..a :
         /\ at[e].ok /\ at[a].nav[e] = at[e].nav[e]
         /\ at[a].traded \cap (first..e) = at[e].traded
  <2> TAKE e \in first..a
  <2>1. \A n \in e..a : Adding(at, n, e, first)
    BY <1>1, <1>2, RunsExtend
  <2>2. a \in e..a /\ e \in first..e
    BY <1>1
  <2>3. QED
    BY <1>a, <2>1, <2>2 DEF Adding
<1>5. Settled(at, t, first, a)
  BY <1>a, <1>3, <1>4 DEF RunTo, Settled
<1>6. QED
  BY <1>5 DEF at, first

\* A valuation computed later keeps the values up to boundary u.
Stands(r, q, u) ==
  r.ok /\ q.ok => \A e \in DOMAIN r.nav : e <= u => e \in DOMAIN q.nav /\ q.nav[e] = r.nav[e]

LEMMA FollowStands ==
  ASSUME NEW ps \in Seq(Row), NEW qs \in Seq(Row), NEW dir,
         NEW u, Agree(ps, qs, u), NEW a \in Nat, NEW b \in Nat, a <= b,
         NEW t, NEW w, DOMAIN t \in SUBSET (1..a), DOMAIN w \in SUBSET (1..b),
         NEW m \in Nat, m <= a, m <= u, m \in {a, u}, SameTrades(t, w, m)
  PROVE  Stands(Follow(t, ps, a, dir), Follow(w, qs, b, dir), u)
<1> DEFINE r == Follow(t, ps, a, dir)
           q == Follow(w, qs, b, dir)
<1>1. CASE DOMAIN t = {}
  <2>1. r = [Failed EXCEPT !.ok = TRUE]
    BY <1>1 DEF Follow
  <2>2. DOMAIN r.nav = {}
    BY <2>1 DEF Failed
  <2>3. QED
    BY <2>2 DEF Stands
<1>2. CASE DOMAIN t # {}
  <2> DEFINE first == Min(DOMAIN t)
             at == RunsOf(t, ps, a, dir)
             bt == RunsOf(w, qs, b, dir)
  <2>1. first \in 1..a
    BY <1>2, FirstIs
  <2>2. u \in Nat /\ m \in 0..u /\ m <= a /\ m <= b
    BY DEF Agree
  <2>3. Agree(ps, qs, m)
    BY <2>2, AgreeDown
  <2>4. Followed(r, at[a], Unbroken(ps, first, a))
    BY <1>2, FollowIs
  <2>5. at[a].ok => Settled(at, t, first, a)
    BY <1>2, RunsOfIs
  <2>6. first <= m => DOMAIN w # {} /\ Min(DOMAIN w) = first /\ Matched(at, bt, first, m)
    BY <1>2, <2>2, <2>3, SameRunsOf
  <2>7. DOMAIN w # {} => Followed(q, bt[b], Unbroken(qs, Min(DOMAIN w), b))
    BY FollowIs
  <2>8. DOMAIN w # {} /\ bt[b].ok => Settled(bt, w, Min(DOMAIN w), b)
    BY RunsOfIs
  <2> SUFFICES ASSUME r.ok, q.ok, NEW e \in DOMAIN r.nav, e <= u
               PROVE  e \in DOMAIN q.nav /\ q.nav[e] = r.nav[e]
    BY DEF Stands
  <2> HIDE DEF at, bt, first, r, q
  <2>9. r.nav = at[a].nav /\ Settled(at, t, first, a)
    BY <2>4, <2>5 DEF Followed
  <2>10. e \in first..a /\ r.nav[e] = at[e].nav[e] /\ at[e].ok
    BY <2>9 DEF Settled
  <2>11. e \in first..m /\ first <= m /\ e \in first..b
    BY <2>1, <2>2, <2>10
  <2>12. DOMAIN w # {} /\ Min(DOMAIN w) = first /\ at[e].nav[e] = bt[e].nav[e]
    BY <2>6, <2>10, <2>11 DEF Matched
  <2>13. q.nav = bt[b].nav /\ Settled(bt, w, first, b)
    BY <2>7, <2>8, <2>12 DEF Followed
  <2>14. e \in DOMAIN q.nav /\ q.nav[e] = bt[e].nav[e]
    BY <2>11, <2>13 DEF Settled
  <2>15. QED
    BY <2>10, <2>12, <2>14
<1>3. QED
  BY <1>1, <1>2

\* A valuation that ends earlier, at or after the last trade, is the same up to
\* there.
LEMMA FollowTruncates ==
  ASSUME NEW ps \in Seq(Row), NEW dir, NEW a \in Nat, a <= Len(ps), NEW c \in Nat, c <= a,
         NEW t, DOMAIN t \in SUBSET (1..c), DOMAIN t # {},
         NEW r, r = Follow(t, ps, a, dir), NEW q, q = Follow(t, ps, c, dir), r.ok
  PROVE  /\ q.ok /\ q.traded = r.traded
         /\ q.nav = [e \in {e \in DOMAIN r.nav : e <= c} |-> r.nav[e]]
<1> DEFINE first == Min(DOMAIN t)
           at == RunsOf(t, ps, a, dir)
           ct == RunsOf(t, ps, c, dir)
<1>1. first \in 1..c /\ first \in Nat /\ first <= c /\ \A e \in DOMAIN t : first <= e
  <2>1. first \in 1..c /\ \A e \in DOMAIN t : first <= e
    BY FirstIs
  <2>2. QED
    BY <2>1
<1>2. DOMAIN t \in SUBSET (1..a) /\ Agree(ps, ps, c) /\ SameTrades(t, t, c)
  BY DEF Agree, SameDue, SameTrades
<1>3. Followed(r, at[a], Unbroken(ps, first, a)) /\ Followed(q, ct[c], Unbroken(ps, first, c))
  BY FollowIs
<1>4. at[a].ok => Settled(at, t, first, a)
  BY <1>2, RunsOfIs
<1>5. ct[c].ok => Settled(ct, t, first, c)
  BY RunsOfIs
<1>6. Matched(at, ct, first, c)
  BY <1>1, <1>2, SameRunsOf
<1> HIDE DEF at, ct, first
<1>7. Unbroken(ps, first, a) /\ at[a].ok /\ r.nav = at[a].nav /\ r.traded = at[a].traded
  BY <1>3 DEF Followed
<1>8. /\ at[a].nav = [e \in first..a |-> at[a].nav[e]]
      /\ at[a].traded \subseteq DOMAIN t
      /\ \A e \in first..a : /\ at[e].ok /\ at[a].nav[e] = at[e].nav[e]
                             /\ at[a].traded \cap (first..e) = at[e].traded
  BY <1>4, <1>7 DEF Settled
<1>9. c \in first..c /\ c \in first..a /\ \A e \in first..c : e \in first..a
  BY <1>1
<1>10. ct[c].ok /\ ct[c].traded = at[c].traded
  BY <1>6, <1>8, <1>9 DEF Same, Matched
<1>11. Unbroken(ps, first, c)
  BY <1>7, <1>9 DEF Unbroken
<1>12. q.ok /\ q.nav = ct[c].nav /\ q.traded = ct[c].traded
  BY <1>3, <1>10, <1>11 DEF Followed
<1>13. /\ ct[c].nav = [e \in first..c |-> ct[c].nav[e]]
       /\ \A e \in first..c : ct[c].nav[e] = ct[e].nav[e]
  BY <1>5, <1>10 DEF Settled
<1>14. at[a].traded = at[c].traded
  <2>1. DOMAIN t \subseteq first..c
    BY <1>1
  <2>2. QED
    BY <1>8, <1>9, <2>1
<1>15. {e \in DOMAIN r.nav : e <= c} = first..c
  BY <1>1, <1>7, <1>8
<1>16. \A e \in first..c : ct[c].nav[e] = r.nav[e]
  BY <1>6, <1>7, <1>8, <1>9, <1>13 DEF Matched
<1>17. QED
  BY <1>7, <1>10, <1>12, <1>13, <1>14, <1>15, <1>16

-----------------------------------------------------------------------------
(* Where decisions take effect. *)

LEMMA MinPair ==
  ASSUME NEW x \in Nat, NEW y \in Nat
  PROVE  Min({x, y}) = IF x <= y THEN x ELSE y
<1>1. CASE x <= y
  BY <1>1, MinOf
<1>2. CASE ~(x <= y)
  BY <1>2, MinOf
<1>3. QED
  BY <1>1, <1>2

LEMMA EffectiveIs ==
  ASSUME NEW s \in Nat \ {0}, NEW a \in Nat, NEW p \in Phase
  PROVE  /\ BoundaryOf(s, p) \in Nat \ {0}
         /\ Effective(s, a, p) # {} <=> BoundaryOf(s, p) <= a
         /\ BoundaryOf(s, p) <= a => Min(Effective(s, a, p)) = BoundaryOf(s, p)
<1> DEFINE B == BoundaryOf(s, p)
<1>1. B \in Nat \ {0} /\ PhaseOf(B) = p /\ SessionOf(B) = s
  BY DEF BoundaryOf, PhaseOf, SessionOf, Phase
<1>2. \A e \in 1..a : PhaseOf(e) = p /\ SessionOf(e) >= s => B <= e
  BY DEF BoundaryOf, PhaseOf, SessionOf, Phase
<1> HIDE DEF B
<1>3. Effective(s, a, p) \in SUBSET Nat /\ \A e \in Effective(s, a, p) : B <= e /\ e <= a
  BY <1>2 DEF Effective
<1>4. B <= a => B \in Effective(s, a, p)
  BY <1>1 DEF Effective
<1>5. B <= a => Min(Effective(s, a, p)) = B
  BY <1>3, <1>4, MinOf
<1>6. Effective(s, a, p) # {} => B <= a
  BY <1>1, <1>3
<1>7. QED
  BY <1>1, <1>4, <1>5, <1>6 DEF B

\* Sessions of decisions, each its own.
Sessions(ds) ==
  /\ \A d \in ds : d.session \in Nat \ {0}
  /\ \A d, o \in ds : d.session = o.session => d = o

Due(ds, a, p) == {d \in ds : BoundaryOf(d.session, p) <= a}

LEMMA StartsIs ==
  ASSUME NEW ds, \A d \in ds : d.session \in Nat \ {0}, NEW a \in Nat, NEW p \in Phase
  PROVE  Starts(ds, a, p) = [d \in Due(ds, a, p) |-> BoundaryOf(d.session, p)]
<1>1. {d \in ds : Effective(d.session, a, p) # {}} = Due(ds, a, p)
  BY EffectiveIs DEF Due
<1>2. \A d \in Due(ds, a, p) : Min(Effective(d.session, a, p)) = BoundaryOf(d.session, p)
  BY EffectiveIs DEF Due
<1>3. QED
  BY <1>1, <1>2 DEF Starts

LEMMA OwnBoundary ==
  ASSUME NEW ds, Sessions(ds), NEW p \in Phase, NEW d \in ds, NEW o \in ds,
         BoundaryOf(d.session, p) = BoundaryOf(o.session, p)
  PROVE  d = o
<1>1. d.session \in Nat /\ o.session \in Nat
  BY DEF Sessions
<1>2. \A x, y \in Nat : BoundaryOf(x, p) = BoundaryOf(y, p) => x = y
  BY DEF BoundaryOf
<1>3. QED
  BY <1>1, <1>2 DEF Sessions

\* Decisions are added, and only for boundaries after a.
Adopts(ds, es, a, p) ==
  ds \subseteq es /\ \A d \in es \ ds : BoundaryOf(d.session, p) > a

LEMMA SameStarts ==
  ASSUME NEW p \in Phase, NEW a \in Nat, NEW b \in Nat, a <= b, NEW ds, NEW es,
         NEW c \in Nat, c <= a, Adopts(ds, es, c, p),
         NEW d \in es, d.session \in Nat \ {0}, BoundaryOf(d.session, p) <= c
  PROVE  d \in Due(ds, a, p) /\ d \in Due(es, b, p)
<1>1. BoundaryOf(d.session, p) \in Nat
  BY EffectiveIs
<1>2. d \in ds
  BY <1>1 DEF Adopts
<1>3. QED
  BY <1>1, <1>2 DEF Due

-----------------------------------------------------------------------------
(* The trades of a managed portfolio. *)

Allocations(ds, a, p) ==
  LET starts == Starts(ds, a, p)
      At(e) == CHOOSE d \in DOMAIN starts : starts[d] = e
  IN [e \in {starts[d] : d \in DOMAIN starts} |-> At(e).weights]

LEMMA AllocationsAre ==
  ASSUME NEW ds, Sessions(ds), NEW a \in Nat, NEW p \in Phase
  PROVE  /\ DOMAIN Allocations(ds, a, p) = {BoundaryOf(d.session, p) : d \in Due(ds, a, p)}
         /\ DOMAIN Allocations(ds, a, p) \in SUBSET (1..a)
         /\ \A d \in Due(ds, a, p) : Allocations(ds, a, p)[BoundaryOf(d.session, p)] = d.weights
<1> DEFINE due == Due(ds, a, p)
           starts == Starts(ds, a, p)
<1>1. starts = [d \in due |-> BoundaryOf(d.session, p)]
  BY StartsIs DEF Sessions
<1>2. due \subseteq ds /\ \A d \in due : BoundaryOf(d.session, p) \in 1..a
  BY EffectiveIs DEF Due, Sessions
<1>3. Allocations(ds, a, p) = [e \in {starts[d] : d \in DOMAIN starts} |-> (CHOOSE d \in DOMAIN starts : starts[d] = e).weights]
  BY DEF Allocations
<1> HIDE DEF due, starts
<1>4. {starts[d] : d \in DOMAIN starts} = {BoundaryOf(d.session, p) : d \in due}
  BY <1>1
<1>5. ASSUME NEW d \in due
      PROVE  (CHOOSE o \in DOMAIN starts : starts[o] = BoundaryOf(d.session, p)) = d
  <2>1. d \in DOMAIN starts /\ starts[d] = BoundaryOf(d.session, p)
    BY <1>1
  <2>2. \A o \in DOMAIN starts : starts[o] = BoundaryOf(d.session, p) => o = d
    BY <1>1, <1>2, OwnBoundary
  <2>3. QED
    BY <2>1, <2>2
<1>6. \A d \in due : Allocations(ds, a, p)[BoundaryOf(d.session, p)] = d.weights
  BY <1>3, <1>4, <1>5
<1>7. DOMAIN Allocations(ds, a, p) = {BoundaryOf(d.session, p) : d \in due}
  BY <1>3, <1>4
<1>8. {BoundaryOf(d.session, p) : d \in due} \in SUBSET (1..a)
  BY <1>2
<1>9. QED
  BY <1>6, <1>7, <1>8 DEF due

LEMMA AllocationsAgree ==
  ASSUME NEW p \in Phase, NEW a \in Nat, NEW b \in Nat, a <= b, NEW ds, NEW es,
         NEW c \in Nat, c <= a, Adopts(ds, es, c, p), Sessions(es)
  PROVE  SameTrades(Allocations(ds, a, p), Allocations(es, b, p), c)
<1> DEFINE t == Allocations(ds, a, p)
           w == Allocations(es, b, p)
<1>1. Sessions(ds)
  BY DEF Sessions, Adopts
<1>2. /\ DOMAIN t = {BoundaryOf(d.session, p) : d \in Due(ds, a, p)}
      /\ \A d \in Due(ds, a, p) : t[BoundaryOf(d.session, p)] = d.weights
  BY <1>1, AllocationsAre
<1>3. /\ DOMAIN w = {BoundaryOf(d.session, p) : d \in Due(es, b, p)}
      /\ \A d \in Due(es, b, p) : w[BoundaryOf(d.session, p)] = d.weights
  BY AllocationsAre
<1> HIDE DEF t, w
<1>4. \A d \in es : BoundaryOf(d.session, p) <= c => d \in Due(ds, a, p) /\ d \in Due(es, b, p)
  BY SameStarts DEF Sessions
<1>5. Due(ds, a, p) \subseteq es /\ Due(es, b, p) \subseteq es /\ \A d \in Due(ds, a, p) : BoundaryOf(d.session, p) <= a
  BY DEF Due, Adopts
<1>6. ASSUME NEW e \in 1..c PROVE SameDue(t, w, e)
  <2>1. ASSUME NEW d \in es, e = BoundaryOf(d.session, p)
        PROVE  e \in DOMAIN t /\ e \in DOMAIN w /\ t[e] = w[e]
    BY <1>2, <1>3, <1>4, <2>1
  <2>2. (e \in DOMAIN t \/ e \in DOMAIN w) => \E d \in es : e = BoundaryOf(d.session, p)
    BY <1>2, <1>3, <1>5
  <2>3. QED
    BY <2>1, <2>2 DEF SameDue
<1>7. QED
  BY <1>6 DEF SameTrades, t, w

-----------------------------------------------------------------------------
(* The trades of a policy. *)

Rotations(ds, h, a, p) ==
  LET starts == Starts(ds, a, p)
      entries == {starts[d] : d \in DOMAIN starts}
  IN [e \in (entries \cup {e + h : e \in entries}) \cap 1..a |-> Targets(starts, e, h)]

LEMMA PolicyIs ==
  ASSUME NEW ds, NEW h, NEW ps, NEW dir, NEW p
  PROVE  Policy(ds, h, ps, dir, p) = Follow(Rotations(ds, h, AsOf(ps), p), ps, AsOf(ps), dir)
BY DEF Policy, Rotations

Share(d, active, starts, h) ==
  Ratio(1, Sleeves(h) * Cardinality({o \in active : starts[o] = starts[d]}))
Shared(active, starts, h) ==
  [s \in Stock |-> Total([d \in active |-> Share(d, active, starts, h) ** d.weights[s]])]

\* Signals that start later change no target.
LEMMA SameTargets ==
  ASSUME NEW p \in Phase, NEW a \in Nat, NEW b \in Nat, a <= b, NEW ds, NEW es,
         NEW c \in Nat, c <= a, Adopts(ds, es, c, p), Sessions(es), NEW h \in Nat, NEW e \in 1..c
  PROVE  Targets(Starts(ds, a, p), e, h) = Targets(Starts(es, b, p), e, h)
<1> DEFINE starts == Starts(ds, a, p)
           later == Starts(es, b, p)
           active == Active(starts, e, h)
<1>a. \A d \in ds : d.session \in Nat \ {0}
  BY DEF Sessions, Adopts
<1>1. starts = [d \in Due(ds, a, p) |-> BoundaryOf(d.session, p)]
  BY <1>a, StartsIs
<1>2. later = [d \in Due(es, b, p) |-> BoundaryOf(d.session, p)]
  BY StartsIs DEF Sessions
<1>3. \A d \in es : d.session \in Nat \ {0} /\ BoundaryOf(d.session, p) \in Nat
  BY EffectiveIs DEF Sessions
<1>4. \A d \in es : BoundaryOf(d.session, p) <= c => d \in Due(ds, a, p) /\ d \in Due(es, b, p)
  BY SameStarts DEF Sessions
<1>5. Due(ds, a, p) \subseteq es /\ Due(es, b, p) \subseteq es /\ \A d \in Due(ds, a, p) : BoundaryOf(d.session, p) <= a
  BY DEF Due, Adopts
<1>d. \A d \in Due(ds, a, p) : d \in Due(es, b, p)
  BY <1>3, <1>5 DEF Due
<1> HIDE DEF starts, later
<1>6. \A d \in DOMAIN starts : d \in DOMAIN later /\ later[d] = starts[d]
  BY <1>1, <1>2, <1>d
<1>7. \A d \in DOMAIN later : later[d] <= e => d \in DOMAIN starts
  BY <1>1, <1>2, <1>3, <1>4, <1>5
<1>8. \A d \in DOMAIN later : later[d] \in Nat
  BY <1>2, <1>3, <1>5
<1>9. Active(later, e, h) = active
  <2>1. ASSUME NEW d \in DOMAIN starts
        PROVE  d \in DOMAIN later /\ (e \in starts[d]..starts[d] + h - 1 <=> e \in later[d]..later[d] + h - 1)
    BY <1>6
  <2>2. ASSUME NEW d \in DOMAIN later, e \in later[d]..later[d] + h - 1
        PROVE  d \in DOMAIN starts
    BY <1>7, <1>8, <2>2
  <2>3. QED
    BY <2>1, <2>2 DEF Active
<1>10. active \subseteq DOMAIN starts
  BY DEF Active
<1>11. \A d \in active : {o \in active : later[o] = later[d]} = {o \in active : starts[o] = starts[d]}
  BY <1>6, <1>10
<1>12. Shared(active, starts, h) = Shared(active, later, h)
  <2>1. ASSUME NEW s \in Stock
        PROVE  [d \in active |-> Share(d, active, starts, h) ** d.weights[s]]
               = [d \in active |-> Share(d, active, later, h) ** d.weights[s]]
    BY <1>11 DEF Share
  <2>2. ASSUME NEW s \in Stock
        PROVE  Total([d \in active |-> Share(d, active, starts, h) ** d.weights[s]])
               = Total([d \in active |-> Share(d, active, later, h) ** d.weights[s]])
    BY <2>1
  <2>3. QED
    BY <2>2 DEF Shared
<1>13. Targets(starts, e, h) = Shared(active, starts, h)
  BY DEF Targets, Shared, Share
<1>14. Targets(later, e, h) = Shared(Active(later, e, h), later, h)
  BY DEF Targets, Shared, Share
<1> HIDE DEF active
<1>15. Targets(starts, e, h) = Targets(later, e, h)
  BY <1>9, <1>12, <1>13, <1>14
<1>16. QED
  BY <1>15 DEF starts, later

LEMMA RotationsAgree ==
  ASSUME NEW p \in Phase, NEW a \in Nat, NEW b \in Nat, a <= b, NEW ds, NEW es,
         NEW c \in Nat, c <= a, Adopts(ds, es, c, p), Sessions(es), NEW h \in Nat \ {0}
  PROVE  /\ DOMAIN Rotations(ds, h, a, p) \in SUBSET (1..a)
         /\ DOMAIN Rotations(es, h, b, p) \in SUBSET (1..b)
         /\ SameTrades(Rotations(ds, h, a, p), Rotations(es, h, b, p), c)
<1> DEFINE starts == Starts(ds, a, p)
           later == Starts(es, b, p)
           entries == {starts[d] : d \in DOMAIN starts}
           afterwards == {later[d] : d \in DOMAIN later}
           t == Rotations(ds, h, a, p)
           w == Rotations(es, h, b, p)
<1>1. /\ t = [e \in (entries \cup {e + h : e \in entries}) \cap 1..a |-> Targets(starts, e, h)]
      /\ w = [e \in (afterwards \cup {e + h : e \in afterwards}) \cap 1..b |-> Targets(later, e, h)]
  BY DEF Rotations
<1>2. starts = [d \in Due(ds, a, p) |-> BoundaryOf(d.session, p)]
  BY StartsIs DEF Sessions, Adopts
<1>3. later = [d \in Due(es, b, p) |-> BoundaryOf(d.session, p)]
  BY StartsIs DEF Sessions
<1>4. \A d \in es : d.session \in Nat \ {0} /\ BoundaryOf(d.session, p) \in Nat
  BY EffectiveIs DEF Sessions
<1>5. \A d \in es : BoundaryOf(d.session, p) <= c => d \in Due(ds, a, p) /\ d \in Due(es, b, p)
  BY SameStarts DEF Sessions
<1>6. Due(ds, a, p) \subseteq es /\ Due(es, b, p) \subseteq es /\ \A d \in Due(ds, a, p) : BoundaryOf(d.session, p) <= a
  BY DEF Due, Adopts
<1>7. \A e \in 1..c : Targets(starts, e, h) = Targets(later, e, h)
  BY SameTargets
<1> HIDE DEF starts, later, t, w
<1>8. \A x \in entries : x \in Nat /\ (x <= c => x \in afterwards)
  BY <1>2, <1>3, <1>4, <1>5, <1>6
<1>9. \A x \in afterwards : x \in Nat /\ (x <= c => x \in entries)
  BY <1>2, <1>3, <1>4, <1>5, <1>6
<1> HIDE DEF entries, afterwards
<1>10. ASSUME NEW e \in 1..c PROVE SameDue(t, w, e)
  <2>1. e \in DOMAIN t <=> (e \in entries \/ \E x \in entries : e = x + h)
    BY <1>1
  <2>2. e \in DOMAIN w <=> (e \in afterwards \/ \E x \in afterwards : e = x + h)
    BY <1>1
  <2>3. e \in DOMAIN t <=> e \in DOMAIN w
    <3>1. \A x \in entries \cup afterwards : e = x \/ e = x + h => x <= c
      BY <1>8, <1>9
    <3>2. QED
      BY <1>8, <1>9, <2>1, <2>2, <3>1
  <2>4. e \in DOMAIN t => t[e] = w[e]
    BY <1>1, <1>7, <2>3
  <2>5. QED
    BY <2>3, <2>4 DEF SameDue
<1>11. DOMAIN t \in SUBSET (1..a) /\ DOMAIN w \in SUBSET (1..b)
  BY <1>1
<1>12. QED
  BY <1>10, <1>11 DEF SameTrades, t, w

-----------------------------------------------------------------------------
(* The evidence of a signal. *)

LEMMA SameBasket ==
  ASSUME NEW ps, NEW qs, NEW ref, NEW rfe, NEW start, NEW e, NEW d, NEW dir,
         SamePrices(ps, qs, ref, rfe, start), SamePrices(ps, qs, ref, rfe, e)
  PROVE  Basket(d, start, ps, ref, e, dir) = Basket(d, start, qs, rfe, e, dir)
<1> DEFINE held == {s \in Stock : d.weights[s] # Zero}
<1>1. [s \in held |-> d.weights[s] ** (Ratio(Mark(ps, s, e), Mark(ps, s, start)) -- One)]
      = [s \in held |-> d.weights[s] ** (Ratio(Mark(qs, s, e), Mark(qs, s, start)) -- One)]
  BY DEF SamePrices
<1>2. ref[e] = rfe[e]
  BY DEF SamePrices
<1>3. QED
  BY <1>1, <1>2 DEF Basket

\* Where the basket is lost, and where it ends.
Lost(d, start, final, ps, ref, dir) ==
  {e \in start + 1..final : Basket(d, start, ps, ref, e, dir) \preceq Zero}
Ending(lost, final) == IF lost = {} THEN final ELSE Min(lost)

Priced(d, ps, start) == \A s \in Stock : d.weights[s] # Zero => Mark(ps, s, start) # None

Result(d, start, final, ps, ref, lost, dir) ==
  [state |-> "complete", start |-> start, end |-> Ending(lost, final),
   market |-> ref[Ending(lost, final)],
   value |-> IF lost = {} THEN Basket(d, start, ps, ref, Ending(lost, final), dir) ELSE Zero]

\* The evidence as far as its data goes.
Judged(d, h, start, final, ps, a, ref, lost, dir) ==
  IF ~Unbroken(ps, start, final) \/ ~Priced(d, ps, start) THEN [state |-> "invalid"]
  ELSE IF lost = {} /\ start + h > a THEN [state |-> "open"]
  ELSE IF ref[Ending(lost, final)] = Zero THEN [state |-> "invalid"]
  ELSE Result(d, start, final, ps, ref, lost, dir)

LEMMA EvidenceIs ==
  ASSUME NEW d, d.session \in Nat \ {0}, NEW h, NEW ps, NEW dir, NEW p \in Phase, AsOf(ps) \in Nat,
         NEW start, start = BoundaryOf(d.session, p),
         NEW final, final = Min({start + h, AsOf(ps)}),
         NEW ref, ref = Rebase(ps, start, final, dir),
         NEW lost, lost = Lost(d, start, final, ps, ref, dir)
  PROVE  Evidence(d, h, ps, dir, p) =
           IF start > AsOf(ps) THEN [state |-> "open"]
           ELSE Judged(d, h, start, final, ps, AsOf(ps), ref, lost, dir)
<1> DEFINE a == AsOf(ps)
<1>1. start \in Nat /\ (Effective(d.session, a, p) # {} <=> start <= a)
  BY EffectiveIs
<1>2. CASE start > a
  <2>1. Effective(d.session, a, p) = {}
    BY <1>1, <1>2
  <2>2. QED
    BY <1>2, <2>1 DEF Evidence
<1>3. CASE ~(start > a)
  <2>1. Effective(d.session, a, p) # {}
    BY <1>1, <1>3
  <2>2. Starts({d}, a, p)[d] = start
    <3>1. Starts({d}, a, p) = [o \in Due({d}, a, p) |-> BoundaryOf(o.session, p)]
      BY StartsIs
    <3>2. d \in Due({d}, a, p)
      BY <1>1, <1>3 DEF Due
    <3>3. QED
      BY <3>1, <3>2
  <2>3. Evidence(d, h, ps, dir, p) = Judged(d, h, start, final, ps, a, ref, lost, dir)
    BY <2>1, <2>2 DEF Evidence, Judged, Result, Priced, Ending, Lost
  <2>4. QED
    BY <1>3, <2>3
<1>4. QED
  BY <1>2, <1>3

\* An outcome that was complete stays what it was while its prints do, unless a
\* later print of SPY within the horizon is missing.
Settles(outcome, later, qs, h, b, u) ==
  outcome.state = "complete" /\ outcome.end <= u
    => later = outcome \/ ~Unbroken(qs, outcome.start, Min({outcome.start + h, b}))

LEMMA EvidenceStands ==
  ASSUME NEW ps \in Seq(Row), NEW qs \in Seq(Row), NEW dir, NEW p \in Phase,
         NEW u, Agree(ps, qs, u), AsOf(ps) <= AsOf(qs),
         NEW h \in Nat \ {0}, NEW d, d.session \in Nat \ {0}
  PROVE  Settles(Evidence(d, h, ps, dir, p), Evidence(d, h, qs, dir, p), qs, h, AsOf(qs), u)
<1> DEFINE a == AsOf(ps)
           b == AsOf(qs)
           start == BoundaryOf(d.session, p)
           fa == Min({start + h, a})
           fb == Min({start + h, b})
           ref == Rebase(ps, start, fa, dir)
           rfe == Rebase(qs, start, fb, dir)
           la == Lost(d, start, fa, ps, ref, dir)
           lb == Lost(d, start, fb, qs, rfe, dir)
           ra == Evidence(d, h, ps, dir, p)
           rb == Evidence(d, h, qs, dir, p)
           end == Ending(la, fa)
<1>1. a \in Nat /\ b \in Nat /\ a <= b /\ start \in Nat \ {0} /\ u \in Nat
  <2>1. Len(ps) \in Nat /\ Len(qs) \in Nat /\ a \in 0..Len(ps) /\ b \in 0..Len(qs)
    BY AsOfIs
  <2>2. start \in Nat \ {0}
    BY EffectiveIs
  <2>3. QED
    BY <2>1, <2>2 DEF Agree
<1>2. /\ fa = IF start + h <= a THEN start + h ELSE a
      /\ fb = IF start + h <= b THEN start + h ELSE b
  BY <1>1, MinPair
<1>3. ra = IF start > a THEN [state |-> "open"] ELSE Judged(d, h, start, fa, ps, a, ref, la, dir)
  BY <1>1, EvidenceIs
<1>4. rb = IF start > b THEN [state |-> "open"] ELSE Judged(d, h, start, fb, qs, b, rfe, lb, dir)
  BY <1>1, EvidenceIs
<1> HIDE DEF a, b, start, fa, fb, ref, rfe, la, lb, ra, rb
<1> SUFFICES ASSUME ra.state = "complete", ra.end <= u,
                    Unbroken(qs, ra.start, Min({ra.start + h, b}))
             PROVE  rb = ra
  BY DEF Settles, ra, rb, b
<1>5. /\ start <= a /\ Priced(d, ps, start)
      /\ ~(la = {} /\ start + h > a) /\ ref[end] # Zero
      /\ ra = Result(d, start, fa, ps, ref, la, dir)
  BY <1>1, <1>3 DEF Judged
<1>6. ra.start = start /\ ra.end = end
  BY <1>5 DEF Result
<1>7. /\ start \in Nat /\ fa \in Nat /\ fb \in Nat /\ start <= fa /\ fa <= fb /\ start <= b
      /\ start + 1 \in Nat
  BY <1>1, <1>2, <1>5
<1>8. /\ la \in SUBSET (start + 1..fa) /\ lb \in SUBSET (start + 1..fb)
  BY DEF la, lb, Lost
<1>9. end \in start..fa /\ (la # {} => end \in la /\ \A x \in la : end <= x)
  <2>1. CASE la = {}
    BY <1>7, <2>1 DEF Ending
  <2>2. CASE la # {}
    <3>1. la \in SUBSET Nat
      BY <1>7, <1>8
    <3>2. end \in la /\ \A x \in la : end <= x
      BY <2>2, <3>1, MinIs DEF Ending
    <3> HIDE DEF end
    <3>3. end \in start + 1..fa
      BY <1>8, <3>2
    <3>4. end \in start..fa
      BY <1>7, <3>3
    <3>5. QED
      BY <3>2, <3>4
  <2>3. QED
    BY <2>1, <2>2
<1> HIDE DEF end
<1>10. end \in Nat /\ end <= u /\ end <= fa /\ end <= fb /\ start \in 1..end
  BY <1>1, <1>6, <1>7, <1>9
<1>11. Agree(ps, qs, end)
  <2>1. end \in 0..u
    BY <1>1, <1>10
  <2>2. QED
    BY <2>1, AgreeDown
<1>12. \A e \in start..end : ref[e] = rfe[e]
  BY <1>7, <1>10, <1>11, SameRebase DEF ref, rfe
<1>13. \A e \in start..end : SamePrices(ps, qs, ref, rfe, e)
  <2> SUFFICES ASSUME NEW e \in start..end PROVE SamePrices(ps, qs, ref, rfe, e)
    OBVIOUS
  <2>1. e \in 1..end
    BY <1>1, <1>10
  <2>2. \A s \in Stock : Mark(ps, s, e) = Mark(qs, s, e)
    BY <1>11, <2>1, SameMark
  <2>3. QED
    BY <1>12, <2>2 DEF SamePrices
<1>14. \A e \in start..end : Basket(d, start, ps, ref, e, dir) = Basket(d, start, qs, rfe, e, dir)
  <2>1. start \in start..end /\ end \in start..end
    BY <1>7, <1>10
  <2>2. QED
    BY <1>13, <2>1, SameBasket
<1>15. \A e \in start + 1..end : e \in la <=> e \in lb
  <2> SUFFICES ASSUME NEW e \in start + 1..end PROVE e \in la <=> e \in lb
    OBVIOUS
  <2>1. e \in start..end /\ e \in start + 1..fa /\ e \in start + 1..fb
    BY <1>7, <1>10
  <2>2. QED
    BY <1>14, <2>1 DEF la, lb, Lost
<1>16. Priced(d, qs, start)
  <2>1. start \in start..end
    BY <1>7, <1>10
  <2>2. \A s \in Stock : Mark(ps, s, start) = Mark(qs, s, start)
    BY <1>13, <2>1 DEF SamePrices
  <2>3. QED
    BY <1>5, <2>2 DEF Priced
<1>17. Unbroken(qs, start, fb)
  BY <1>6 DEF fb
<1>18. /\ (la = {} <=> lb = {}) /\ Ending(lb, fb) = end
       /\ ~(lb = {} /\ start + h > b)
  <2>1. CASE la = {}
    <3>1. start + h <= a /\ fa = start + h /\ fb = start + h /\ start + h <= b /\ end = fa
      <4>1. start + h <= a
        BY <1>1, <1>5, <2>1
      <4>2. fa = start + h /\ start + h \in Nat
        BY <1>1, <1>2, <4>1
      <4>3. fb = start + h /\ start + h <= b
        BY <1>1, <1>2, <1>7, <4>2
      <4>4. QED
        BY <2>1, <4>1, <4>2, <4>3 DEF end, Ending
    <3>2. lb = {}
      BY <1>8, <1>15, <2>1, <3>1
    <3>3. QED
      BY <1>1, <2>1, <3>1, <3>2 DEF Ending
  <2>2. CASE la # {}
    <3>1. end \in lb
      BY <1>7, <1>8, <1>9, <1>10, <1>15, <2>2
    <3>2. ASSUME NEW x \in lb, x < end PROVE FALSE
      <4>1. x \in start + 1..end
        BY <1>7, <1>8, <1>10, <3>2
      <4>2. x \in la
        BY <1>15, <4>1
      <4>3. QED
        BY <1>9, <1>10, <2>2, <3>2, <4>1, <4>2
    <3>3. \A x \in lb : x \in Nat
      BY <1>7, <1>8
    <3>4. \A x \in lb : end <= x
      BY <1>10, <3>2, <3>3
    <3>5. lb \in SUBSET Nat
      BY <3>3
    <3>6. Min(lb) = end
      BY <3>1, <3>4, <3>5, MinOf
    <3>7. QED
      BY <2>2, <3>1, <3>6 DEF Ending
  <2>3. QED
    BY <2>1, <2>2
<1>19. end \in start..end /\ ref[end] = rfe[end]
       /\ Basket(d, start, ps, ref, end, dir) = Basket(d, start, qs, rfe, end, dir)
  BY <1>7, <1>10, <1>12, <1>14
<1>20. Ending(la, fa) = end
  BY DEF end
<1>21. Result(d, start, fa, ps, ref, la, dir) = Result(d, start, fb, qs, rfe, lb, dir)
  BY <1>18, <1>19, <1>20 DEF Result
<1>22. rb = Judged(d, h, start, fb, qs, b, rfe, lb, dir)
  BY <1>1, <1>4, <1>7
<1>23. Judged(d, h, start, fb, qs, b, rfe, lb, dir) = Result(d, start, fb, qs, rfe, lb, dir)
  BY <1>5, <1>16, <1>17, <1>18, <1>19 DEF Judged
<1>24. QED
  BY <1>5, <1>21, <1>22, <1>23

-----------------------------------------------------------------------------
(* What is shown, and what is known of the decisions. *)

Effects(ds, a, p) ==
  IF Due(ds, a, p) = {} THEN a
  ELSE Min({a, BoundaryOf(1 + Max({d.session : d \in Due(ds, a, p)}), p)})

Shows(r, ds, ps, dir, p) ==
  /\ r.managed = Follow(Allocations(ds, AsOf(ps), p), ps, AsOf(ps), dir)
  /\ r.paused = Follow(Allocations(ds, Effects(ds, AsOf(ps), p), p), ps, Effects(ds, AsOf(ps), p), dir)
  /\ \A h \in Steps : r.policy[h] = Policy(ds, h, ps, dir, p)
  /\ \A h \in Steps : \A d \in ds : r.evidence[h][d] = Evidence(d, h, ps, dir, p)

LEMMA AnalysesShow ==
  ASSUME NEW ds, NEW ps
  PROVE  Shows(Analyses(ds, ps), ds, ps, direction, phase)
<1>1. Cutoff(ds, AsOf(ps)) = Effects(ds, AsOf(ps), phase)
  BY DEF Cutoff, Effects, Due
<1>2. /\ Analyses(ds, ps).managed = Valued(ds, ps, AsOf(ps))
      /\ Analyses(ds, ps).paused = Valued(ds, ps, Effects(ds, AsOf(ps), phase))
      /\ Analyses(ds, ps).policy = Policies(ds, ps)
      /\ Analyses(ds, ps).evidence = Evidences(ds, ps)
  BY <1>1 DEF Analyses
<1>3. ASSUME NEW a PROVE Valued(ds, ps, a) = Follow(Allocations(ds, a, phase), ps, a, direction)
  BY DEF Valued, Allocations
<1>4. \A h \in Steps : Policies(ds, ps)[h] = Policy(ds, h, ps, direction, phase)
  BY DEF Policies
<1>5. \A h \in Steps : \A d \in ds : Evidences(ds, ps)[h][d] = Evidence(d, h, ps, direction, phase)
  BY DEF Evidences
<1>6. QED
  BY <1>2, <1>3, <1>4, <1>5 DEF Shows

\* A decision takes effect at the first boundary of its phase after the moment it
\* was made, or its scheduled run was queued.
Timely(d, p) ==
  /\ d.session \in Nat \ {0} /\ d.asked \in Nat /\ d.asked < BoundaryOf(d.session, p)
  /\ \A f \in d.asked + 1..BoundaryOf(d.session, p) - 1 : PhaseOf(f) # p

LEMMA EffectiveSessionIs ==
  ASSUME NEW t \in Nat, NEW p \in Phase, NEW d, d.session = EffectiveSession(t, p), d.asked = t
  PROVE  Timely(d, p)
<1> DEFINE T == {s \in Nat : s >= 1 /\ BoundaryOf(s, p) > t}
           s == EffectiveSession(t, p)
<1>1. \A x \in Nat \ {0} : BoundaryOf(x, p) \in Nat
  BY EffectiveIs
<1>2. t + 1 \in T
  BY DEF BoundaryOf
<1>3. PICK m \in T : \A k \in T : m <= k
  BY <1>2, Least
<1>4. m \in 1..(t + 1)
  BY <1>2, <1>3
<1>5. BoundaryOf(m, p) > t /\ \A x \in 1..(m - 1) : BoundaryOf(x, p) <= t
  <2>1. ASSUME NEW x \in 1..(m - 1) PROVE BoundaryOf(x, p) <= t
    <3>1. x \in Nat \ {0} /\ x < m
      BY <1>4
    <3>2. x \notin T
      BY <1>3, <1>4, <3>1
    <3>3. QED
      BY <1>1, <3>1, <3>2
  <2>2. QED
    BY <1>3, <2>1
<1>6. /\ s \in 1..(t + 1)
      /\ BoundaryOf(s, p) > t /\ \A x \in 1..(s - 1) : BoundaryOf(x, p) <= t
  BY <1>4, <1>5 DEF EffectiveSession
<1> HIDE DEF s
<1>7. ASSUME NEW f \in t + 1..BoundaryOf(s, p) - 1, PhaseOf(f) = p PROVE FALSE
  <2>1. f \in Nat \ {0} /\ f > t /\ f < BoundaryOf(s, p)
    BY <1>1, <1>6
  <2>2. SessionOf(f) \in Nat \ {0} /\ BoundaryOf(SessionOf(f), p) = f
    BY <1>7, <2>1 DEF BoundaryOf, SessionOf, PhaseOf, Phase
  <2>3. SessionOf(f) < s
    BY <1>6, <2>1, <2>2 DEF BoundaryOf
  <2>4. SessionOf(f) \in 1..(s - 1)
    BY <1>6, <2>2, <2>3
  <2>5. QED
    BY <1>1, <1>6, <2>1, <2>2, <2>4
<1>8. s \in Nat \ {0} /\ d.session = s
  BY <1>6 DEF s
<1>9. QED
  BY <1>6, <1>7, <1>8 DEF Timely

\* What every step leaves true: the decisions are timely, one a session, so are the
\* scheduled runs that may still answer, and what is shown is what is known.
Coherent ==
  /\ direction \in Direction /\ phase \in Phase /\ clock \in Nat
  /\ prints \in Seq(Row) /\ Len(prints) <= clock
  /\ \A d \in decisions \cup scheduled : Timely(d, phase)
  /\ Sessions(decisions)
  /\ Shows(shown, decisions, prints, direction, phase)

\* What a step may change.
Proceeds ==
  /\ direction' = direction /\ phase' = phase /\ clock' \in Nat /\ clock <= clock'
  /\ prints' \in Seq(Row) /\ Len(prints') <= clock' /\ Grows(prints, prints')
  /\ decisions \subseteq decisions'
  /\ \A d \in (decisions' \ decisions) \cup (scheduled' \ scheduled) : Timely(d, phase)
  /\ Sessions(decisions')
  /\ \/ shown' = Analyses(decisions', prints')
     \/ shown' = shown /\ decisions' = decisions /\ prints' = prints

LEMMA ElapseProceeds ==
  ASSUME Coherent, Elapse
  PROVE  Proceeds
<1>1. Len(prints) \in Nat /\ clock \in Nat
  BY DEF Coherent
<1>2. QED
  BY <1>1 DEF Coherent, Elapse, Proceeds, Grows

LEMMA PublishProceeds ==
  ASSUME Coherent, Publish
  PROVE  Proceeds
<1>1. PICK p \in Row : prints' = Append(prints, p)
  BY DEF Publish, Row
<1>2. prints \in Seq(Row) /\ Len(prints) \in Nat /\ clock \in Nat /\ Len(prints) < clock
  BY DEF Coherent, Publish
<1>3. prints' \in Seq(Row) /\ Len(prints') = Len(prints) + 1
      /\ \A e \in 1..Len(prints) : prints'[e] = prints[e]
  BY <1>1, <1>2
<1>4. Grows(prints, prints')
  BY <1>2, <1>3 DEF Grows
<1>5. direction' = direction /\ phase' = phase /\ clock' = clock /\ decisions' = decisions
      /\ scheduled' = scheduled /\ shown' = Analyses(decisions', prints')
  BY DEF Publish
<1>6. QED
  BY <1>2, <1>3, <1>4, <1>5 DEF Coherent, Proceeds

LEMMA RepairProceeds ==
  ASSUME Coherent, NEW e \in 1..Len(prints), NEW s \in Symbol, Repair(e, s)
  PROVE  Proceeds
<1>1. PICK x \in PricesOf[s] : prints' = [prints EXCEPT ![e][s] = x]
  BY DEF Repair
<1> DEFINE row == [prints[e] EXCEPT ![s] = x]
<1>2. prints \in Seq(Row) /\ Len(prints) \in Nat /\ clock \in Nat /\ Len(prints) <= clock
      /\ prints[e] \in Row /\ prints[e][s] = None
  BY DEF Coherent, Repair
<1>3. row \in Row
  BY <1>2 DEF Row
<1>4. prints' = [prints EXCEPT ![e] = row]
  BY <1>1
<1>5. \A o \in Symbol : o # s => row[o] = prints[e][o]
  BY <1>2 DEF Row
<1> HIDE DEF row
<1>6. prints' \in Seq(Row) /\ Len(prints') = Len(prints)
      /\ \A f \in 1..Len(prints) : prints'[f] = IF f = e THEN row ELSE prints[f]
  BY <1>2, <1>3, <1>4
<1>7. Grows(prints, prints')
  <2>1. ASSUME NEW f \in 1..Len(prints), prints[f][Spy] # None PROVE prints'[f][Spy] # None
    <3>1. Spy \in Symbol
      BY DEF Symbol
    <3>2. f = e => s # Spy
      BY <1>2, <2>1
    <3>3. QED
      BY <1>5, <1>6, <2>1, <3>1, <3>2
  <2>2. QED
    BY <1>2, <1>6, <2>1 DEF Grows
<1>8. direction' = direction /\ phase' = phase /\ clock' = clock /\ decisions' = decisions
      /\ scheduled' = scheduled /\ shown' = Analyses(decisions', prints')
  BY DEF Repair
<1>9. QED
  BY <1>2, <1>6, <1>7, <1>8 DEF Coherent, Proceeds

\* A decision is recorded for a session that has none.
LEMMA RecordingProceeds ==
  ASSUME Coherent, NEW new, Timely(new, phase), \A d \in decisions : d.session # new.session,
         decisions' = decisions \cup {new}, scheduled' \subseteq scheduled,
         direction' = direction, phase' = phase, clock' = clock, prints' = prints,
         shown' = Analyses(decisions', prints')
  PROVE  Proceeds
<1>1. new.session \in Nat \ {0}
  BY DEF Timely
<1>2. Sessions(decisions')
  BY <1>1 DEF Coherent, Sessions
<1>3. prints \in Seq(Row) /\ Len(prints) \in Nat /\ clock \in Nat /\ Len(prints) <= clock
  BY DEF Coherent
<1>4. QED
  BY <1>2, <1>3 DEF Proceeds, Grows

LEMMA DecideProceeds ==
  ASSUME Coherent, Decide
  PROVE  Proceeds
<1> DEFINE s == EffectiveSession(clock, phase)
<1>1. PICK w \in Weights : decisions' = decisions \cup {[session |-> s, asked |-> clock, weights |-> w]}
  BY DEF Decide
<1>2. \A d \in decisions : d.session # s
  BY DEF Decide, Undecided
<1> DEFINE new == [session |-> s, asked |-> clock, weights |-> w]
<1>3. new.session = s /\ new.asked = clock /\ clock \in Nat /\ phase \in Phase
  BY DEF Coherent
<1>4. decisions' = decisions \cup {new}
  BY <1>1
<1>5. /\ direction' = direction /\ phase' = phase /\ clock' = clock /\ prints' = prints
      /\ scheduled' = scheduled /\ shown' = Analyses(decisions', prints')
  BY DEF Decide
<1> HIDE DEF new
<1>6. Timely(new, phase)
  BY <1>3, EffectiveSessionIs
<1> HIDE DEF s
<1>7. QED
  BY <1>2, <1>3, <1>4, <1>5, <1>6, RecordingProceeds

LEMMA ScheduleProceeds ==
  ASSUME Coherent, Schedule
  PROVE  Proceeds
<1> DEFINE run == [session |-> EffectiveSession(clock, phase), asked |-> clock]
<1>1. scheduled' = scheduled \cup {run}
  BY DEF Schedule
<1>2. run.session = EffectiveSession(clock, phase) /\ run.asked = clock /\ clock \in Nat /\ phase \in Phase
  BY DEF Coherent
<1> HIDE DEF run
<1>3. Timely(run, phase)
  BY <1>2, EffectiveSessionIs
<1>4. /\ direction' = direction /\ phase' = phase /\ clock' = clock /\ prints' = prints
      /\ decisions' = decisions /\ shown' = shown
  BY DEF Schedule
<1>5. prints \in Seq(Row) /\ Len(prints) \in Nat /\ clock \in Nat /\ Len(prints) <= clock
      /\ Sessions(decisions)
  BY DEF Coherent
<1>6. QED
  BY <1>1, <1>3, <1>4, <1>5 DEF Proceeds, Grows

LEMMA AnswerProceeds ==
  ASSUME Coherent, NEW run \in scheduled, Answer(run)
  PROVE  Proceeds
<1>1. /\ direction' = direction /\ phase' = phase /\ clock' = clock /\ prints' = prints
      /\ scheduled' = scheduled \ {run}
  BY DEF Answer
<1>2. CASE \E w \in Weights :
             /\ decisions' = decisions \cup {[session |-> run.session, asked |-> run.asked, weights |-> w]}
             /\ shown' = Analyses(decisions', prints) /\ Undecided(run.session)
  <2>1. PICK w \in Weights :
          /\ decisions' = decisions \cup {[session |-> run.session, asked |-> run.asked, weights |-> w]}
          /\ shown' = Analyses(decisions', prints) /\ Undecided(run.session)
    BY <1>2
  <2> DEFINE new == [session |-> run.session, asked |-> run.asked, weights |-> w]
  <2>2. new.session = run.session /\ new.asked = run.asked /\ Timely(run, phase)
    BY DEF Coherent
  <2>3. decisions' = decisions \cup {new}
    BY <2>1
  <2> HIDE DEF new
  <2>4. Timely(new, phase)
    BY <2>2 DEF Timely
  <2>5. \A d \in decisions : d.session # new.session
    BY <2>1, <2>2 DEF Undecided
  <2>6. shown' = Analyses(decisions', prints')
    BY <1>1, <2>1
  <2>7. QED
    BY <1>1, <2>3, <2>4, <2>5, <2>6, RecordingProceeds
<1>3. CASE decisions' = decisions /\ shown' = shown
  <2>1. prints \in Seq(Row) /\ Len(prints) \in Nat /\ clock \in Nat /\ Len(prints) <= clock
        /\ Sessions(decisions)
    BY DEF Coherent
  <2>2. QED
    BY <1>1, <1>3, <2>1 DEF Proceeds, Grows
<1>4. QED
  BY <1>2, <1>3 DEF Answer

LEMMA StepProceeds ==
  ASSUME Coherent, [Next]_vars
  PROVE  Proceeds
<1>1. CASE Next
  <2>1. CASE Elapse
    BY <2>1, ElapseProceeds
  <2>2. CASE Publish
    BY <2>2, PublishProceeds
  <2>3. CASE Decide
    BY <2>3, DecideProceeds
  <2>4. CASE Schedule
    BY <2>4, ScheduleProceeds
  <2>5. CASE \E run \in scheduled : Answer(run)
    BY <2>5, AnswerProceeds
  <2>6. CASE \E e \in 1..Len(prints), s \in Symbol : Repair(e, s)
    BY <2>6, RepairProceeds
  <2>7. QED
    BY <1>1, <2>1, <2>2, <2>3, <2>4, <2>5, <2>6 DEF Next
<1>2. CASE UNCHANGED vars
  <2>1. Len(prints) \in Nat /\ clock \in Nat
    BY DEF Coherent
  <2>2. QED
    BY <1>2, <2>1 DEF vars, Coherent, Proceeds, Grows
<1>3. QED
  BY <1>1, <1>2

LEMMA ProceedingIsCoherent ==
  ASSUME Coherent, Proceeds
  PROVE  Coherent'
<1>1. Shows(shown', decisions', prints', direction, phase)
  <2>1. CASE shown' = Analyses(decisions', prints')
    BY <2>1, AnalysesShow
  <2>2. CASE shown' = shown /\ decisions' = decisions /\ prints' = prints
    BY <2>2 DEF Coherent
  <2>3. QED
    BY <2>1, <2>2 DEF Proceeds
<1>2. direction' = direction /\ phase' = phase
  BY DEF Proceeds
<1>3. \A d \in decisions' \cup scheduled' : Timely(d, phase)
  BY DEF Coherent, Proceeds
<1>4. QED
  BY <1>1, <1>2, <1>3 DEF Coherent, Proceeds

\* Every page shows what the prints and the decisions that are known make it, every
\* decision takes effect at the first boundary of its phase after it was made
\* (effective_date_for) or, however late it is recorded, after its scheduled run was
\* queued (the scheduled_for of submit_run), and no two of a portfolio at the same one.
THEOREM ShownIsKnown == Spec => []Coherent
<1>1. Init => Coherent
  <2> SUFFICES ASSUME Init PROVE Coherent
    OBVIOUS
  <2>1. direction \in Direction /\ phase \in Phase /\ clock = 0 /\ prints = <<>> /\ decisions = {}
        /\ scheduled = {} /\ shown = Analyses({}, <<>>)
    BY DEF Init
  <2>2. Shows(shown, decisions, prints, direction, phase)
    BY <2>1, AnalysesShow
  <2>3. QED
    BY <2>1, <2>2 DEF Coherent, Sessions
<1>2. Coherent /\ [Next]_vars => Coherent'
  BY StepProceeds, ProceedingIsCoherent
<1>3. QED
  BY <1>1, <1>2, PTL DEF Spec

-----------------------------------------------------------------------------
(* No analysis looks ahead. *)

LEMMA FollowTrades ==
  ASSUME NEW t, NEW ps, NEW dir, NEW a \in Nat, DOMAIN t \in SUBSET (1..a)
  PROVE  /\ Follow(t, ps, a, dir).traded \subseteq DOMAIN t
         /\ Follow(t, ps, a, dir).ok => DOMAIN Follow(t, ps, a, dir).nav \subseteq 1..a
<1> DEFINE r == Follow(t, ps, a, dir)
           at == RunsOf(t, ps, a, dir)
           first == Min(DOMAIN t)
<1>1. Failed.traded = {} /\ DOMAIN Failed.nav = {} /\ Failed.ok = FALSE
      /\ Failed = [ok |-> FALSE, nav |-> Failed.nav, traded |-> {}]
  BY DEF Failed
<1>2. CASE DOMAIN t = {}
  <2>1. r = [Failed EXCEPT !.ok = TRUE]
    BY <1>2 DEF Follow
  <2>2. r = [ok |-> TRUE, nav |-> Failed.nav, traded |-> {}]
    BY <1>1, <2>1
  <2>3. QED
    BY <1>1, <2>2
<1>3. CASE DOMAIN t # {}
  <2>1. r = IF ~Unbroken(ps, first, a) THEN Failed
            ELSE IF at[a].ok THEN [ok |-> TRUE, nav |-> at[a].nav, traded |-> at[a].traded]
            ELSE Failed
    BY <1>3 DEF Follow, RunOf, RunsOf
  <2>2. at[a].ok => Settled(at, t, first, a)
    BY <1>3, RunsOfIs
  <2>3. first \in 1..a
    BY <1>3, FirstIs
  <2> HIDE DEF first, at, r
  <2>4. CASE Unbroken(ps, first, a) /\ at[a].ok
    <3>1. r.nav = at[a].nav /\ r.traded = at[a].traded
      BY <2>1, <2>4
    <3>2. at[a].traded \subseteq DOMAIN t /\ DOMAIN at[a].nav = first..a
      BY <2>2, <2>4 DEF Settled
    <3>3. QED
      BY <2>3, <3>1, <3>2 DEF r
  <2>5. CASE ~(Unbroken(ps, first, a) /\ at[a].ok)
    <3>1. r = Failed
      BY <2>1, <2>5
    <3>2. QED
      BY <1>1, <3>1 DEF r
  <2>6. QED
    BY <2>4, <2>5
<1>4. QED
  BY <1>2, <1>3

LEMMA CoherentLooksBack ==
  ASSUME Coherent
  PROVE  NoForesight
<1> DEFINE a == AsOf(prints)
           t == Allocations(decisions, a, phase)
<1>1. a \in Nat /\ phase \in Phase /\ Sessions(decisions) /\ \A d \in decisions : Timely(d, phase)
  BY AsOfIs DEF Coherent
<1>2. /\ DOMAIN t = {BoundaryOf(d.session, phase) : d \in Due(decisions, a, phase)}
      /\ DOMAIN t \in SUBSET (1..a)
  BY <1>1, AllocationsAre
<1>3. shown.managed = Follow(t, prints, a, direction)
  BY DEF Coherent, Shows
<1> HIDE DEF t, a
<1>4. shown.managed.traded \subseteq DOMAIN t
  BY <1>1, <1>2, <1>3, FollowTrades
<1>5. \A d \in decisions : PhaseOf(BoundaryOf(d.session, phase)) = phase
  <2> TAKE d \in decisions
  <2>1. d.session \in Nat \ {0}
    BY <1>1 DEF Timely
  <2>2. QED
    BY <1>1, <2>1 DEF BoundaryOf, PhaseOf, Phase
<1>6. ASSUME NEW e \in shown.managed.traded
      PROVE  \E d \in decisions :
               d.asked < e /\ PhaseOf(e) = phase /\ \A f \in d.asked + 1..e - 1 : PhaseOf(f) # phase
  <2>1. PICK d \in decisions : e = BoundaryOf(d.session, phase)
    BY <1>2, <1>4 DEF Due
  <2>2. QED
    BY <1>1, <1>5, <2>1 DEF Timely
<1>7. QED
  BY <1>6 DEF NoForesight

\* A decision trades only at a boundary after the moment it was made or its scheduled
\* run was queued, and at the first such boundary of its phase (effective_date_for,
\* the scheduled_for of submit_run, value_portfolio).
THEOREM NoForesightAlways == Spec => []NoForesight
<1>1. Coherent => NoForesight
  BY CoherentLooksBack
<1>2. QED
  BY <1>1, ShownIsKnown, PTL

-----------------------------------------------------------------------------
(* What was shown stays. *)

\* The boundary up to which two publications are the same.
Until(ps, qs) ==
  LET changed == {e \in 1..Len(ps) : qs[e] # ps[e]}
  IN IF changed = {} THEN Len(ps) ELSE Min(changed) - 1

LEMMA UntilAgrees ==
  ASSUME NEW ps \in Seq(Row), NEW qs \in Seq(Row), Len(ps) <= Len(qs)
  PROVE  Agree(ps, qs, Until(ps, qs))
<1> DEFINE changed == {e \in 1..Len(ps) : qs[e] # ps[e]}
<1>1. Len(ps) \in Nat /\ Len(qs) \in Nat /\ changed \in SUBSET (1..Len(ps))
  OBVIOUS
<1>2. CASE changed = {}
  BY <1>1, <1>2 DEF Agree, Until
<1>3. CASE changed # {}
  <2>1. changed \in SUBSET Nat
    BY <1>1
  <2>2. Min(changed) \in changed /\ \A e \in changed : Min(changed) <= e
    BY <1>3, <2>1, MinIs
  <2>3. Until(ps, qs) = Min(changed) - 1
    BY <1>3 DEF Until
  <2>4. Min(changed) \in 1..Len(ps)
    BY <2>2
  <2>5. \A e \in 1..Min(changed) - 1 : e \in 1..Len(ps) /\ e \notin changed
    BY <1>1, <2>2, <2>4
  <2>6. \A e \in 1..Min(changed) - 1 : ps[e] = qs[e]
    BY <2>5
  <2> HIDE DEF changed
  <2>7. QED
    BY <1>1, <2>3, <2>4, <2>6 DEF Agree
<1>4. QED
  BY <1>2, <1>3

\* Decisions that are added after boundary m keep the values up to there.
LEMMA ShownStands ==
  ASSUME NEW ps \in Seq(Row), NEW qs \in Seq(Row), Grows(ps, qs), NEW dir, NEW p \in Phase,
         NEW u, Agree(ps, qs, u), NEW m \in Nat, m <= AsOf(ps), m <= u, m \in {AsOf(ps), u},
         NEW ds, NEW es, Adopts(ds, es, m, p), Sessions(es),
         NEW r, Shows(r, ds, ps, dir, p), NEW q, Shows(q, es, qs, dir, p)
  PROVE  /\ Stands(r.managed, q.managed, u)
         /\ \A h \in Steps : Stands(r.policy[h], q.policy[h], u)
<1> DEFINE a == AsOf(ps)
           b == AsOf(qs)
<1>1. a \in Nat /\ b \in Nat /\ a <= b
  <2>1. a \in 0..Len(ps) /\ b \in 0..Len(qs) /\ Len(ps) \in Nat /\ Len(qs) \in Nat
    BY AsOfIs
  <2>2. QED
    BY <2>1, AsOfGrows
<1>2. Sessions(ds)
  BY DEF Sessions, Adopts
<1>3. m <= a /\ m \in {a, u}
  OBVIOUS
<1>4. Stands(r.managed, q.managed, u)
  <2> DEFINE t == Allocations(ds, a, p)
             w == Allocations(es, b, p)
  <2>1. r.managed = Follow(t, ps, a, dir) /\ q.managed = Follow(w, qs, b, dir)
    BY DEF Shows
  <2>2. DOMAIN t \in SUBSET (1..a) /\ DOMAIN w \in SUBSET (1..b)
    BY <1>1, <1>2, AllocationsAre
  <2>3. SameTrades(t, w, m)
    BY <1>1, <1>3, AllocationsAgree
  <2> HIDE DEF t, w, a, b
  <2>4. QED
    BY <1>1, <1>3, <2>1, <2>2, <2>3, FollowStands
<1>5. ASSUME NEW h \in Steps PROVE Stands(r.policy[h], q.policy[h], u)
  <2> DEFINE t == Rotations(ds, h, a, p)
             w == Rotations(es, h, b, p)
  <2>1. r.policy[h] = Follow(t, ps, a, dir) /\ q.policy[h] = Follow(w, qs, b, dir)
    BY PolicyIs DEF Shows
  <2>2. h \in Nat \ {0}
    BY StepsAssumption
  <2>3. DOMAIN t \in SUBSET (1..a) /\ DOMAIN w \in SUBSET (1..b) /\ SameTrades(t, w, m)
    BY <1>1, <1>3, <2>2, RotationsAgree
  <2> HIDE DEF t, w, a, b
  <2>4. QED
    BY <1>1, <1>3, <2>1, <2>3, FollowStands
<1>6. QED
  BY <1>4, <1>5

\* What becomes of one signal is the same whatever others are added.
LEMMA OutcomesSettle ==
  ASSUME NEW ps \in Seq(Row), NEW qs \in Seq(Row), Grows(ps, qs), NEW dir, NEW p \in Phase,
         NEW u, Agree(ps, qs, u), NEW ds, NEW es, ds \subseteq es, Sessions(es),
         NEW r, Shows(r, ds, ps, dir, p), NEW q, Shows(q, es, qs, dir, p),
         NEW h \in Steps, NEW d \in ds
  PROVE  Settles(r.evidence[h][d], q.evidence[h][d], qs, h, AsOf(qs), u)
<1>1. AsOf(ps) \in Nat /\ AsOf(qs) \in Nat /\ AsOf(ps) <= AsOf(qs)
  <2>1. AsOf(ps) \in 0..Len(ps) /\ AsOf(qs) \in 0..Len(qs) /\ Len(ps) \in Nat /\ Len(qs) \in Nat
    BY AsOfIs
  <2>2. QED
    BY <2>1, AsOfGrows
<1>2. d \in es /\ d.session \in Nat \ {0} /\ h \in Nat \ {0}
  BY StepsAssumption DEF Sessions
<1>3. r.evidence[h][d] = Evidence(d, h, ps, dir, p) /\ q.evidence[h][d] = Evidence(d, h, qs, dir, p)
  BY <1>2 DEF Shows
<1>4. Settles(Evidence(d, h, ps, dir, p), Evidence(d, h, qs, dir, p), qs, h, AsOf(qs), u)
  BY <1>1, <1>2, EvidenceStands
<1>5. QED
  BY <1>3, <1>4

\* Values are shown at boundaries.
LEMMA ShownDays ==
  ASSUME NEW ps \in Seq(Row), NEW ds, Sessions(ds), NEW dir, NEW p \in Phase,
         NEW r, Shows(r, ds, ps, dir, p)
  PROVE  /\ r.managed.ok => DOMAIN r.managed.nav \subseteq Nat
         /\ \A h \in Steps : r.policy[h].ok => DOMAIN r.policy[h].nav \subseteq Nat
<1> DEFINE a == AsOf(ps)
<1>1. a \in Nat
  <2>1. a \in 0..Len(ps) /\ Len(ps) \in Nat
    BY AsOfIs
  <2>2. QED
    BY <2>1
<1>2. r.managed.ok => DOMAIN r.managed.nav \subseteq 1..a
  <2> DEFINE t == Allocations(ds, a, p)
  <2>1. r.managed = Follow(t, ps, a, dir)
    BY DEF Shows
  <2>2. DOMAIN t \in SUBSET (1..a)
    BY <1>1, AllocationsAre
  <2> HIDE DEF t, a
  <2>3. QED
    BY <1>1, <2>1, <2>2, FollowTrades
<1>3. ASSUME NEW h \in Steps PROVE r.policy[h].ok => DOMAIN r.policy[h].nav \subseteq 1..a
  <2> DEFINE t == Rotations(ds, h, a, p)
  <2>1. r.policy[h] = Follow(t, ps, a, dir)
    BY PolicyIs DEF Shows
  <2>2. DOMAIN t \in SUBSET (1..a)
    BY DEF Rotations
  <2> HIDE DEF t, a
  <2>3. QED
    BY <1>1, <2>1, <2>2, FollowTrades
<1>4. 1..a \subseteq Nat
  BY <1>1
<1>5. QED
  BY <1>2, <1>3, <1>4

\* The values of what is shown up to e, before the boundary of every new decision.
LEMMA ProceedingKeeps ==
  ASSUME Coherent, Coherent', Proceeds, NEW e \in Nat, Agree(prints, prints', e),
         \A d \in decisions' \ decisions : e < BoundaryOf(d.session, phase)
  PROVE  /\ Stands(shown.managed, shown'.managed, e)
         /\ \A h \in Steps : Stands(shown.policy[h], shown'.policy[h], e)
<1> DEFINE a == AsOf(prints)
           m == IF a <= e THEN a ELSE e
<1>1. prints \in Seq(Row) /\ prints' \in Seq(Row) /\ Grows(prints, prints')
  BY DEF Coherent, Proceeds
<1>2. a \in Nat
  <2>1. a \in 0..Len(prints) /\ Len(prints) \in Nat
    BY <1>1, AsOfIs
  <2>2. QED
    BY <2>1
<1>3. m \in Nat /\ m <= a /\ m <= e /\ m \in {a, e}
  BY <1>2
<1> HIDE DEF m
<1>4. Adopts(decisions, decisions', m, phase)
  <2>1. ASSUME NEW d \in decisions' \ decisions PROVE BoundaryOf(d.session, phase) > m
    <3>1. BoundaryOf(d.session, phase) \in Nat /\ e < BoundaryOf(d.session, phase)
      BY EffectiveIs DEF Proceeds, Timely, Coherent
    <3>2. QED
      BY <1>2, <1>3, <3>1
  <2>2. QED
    BY <2>1 DEF Adopts, Proceeds
<1>5. /\ phase \in Phase /\ Sessions(decisions')
      /\ Shows(shown, decisions, prints, direction, phase)
      /\ Shows(shown', decisions', prints', direction, phase)
  BY DEF Coherent, Proceeds
<1>6. QED
  BY <1>1, <1>3, <1>4, <1>5, ShownStands

LEMMA ProceedingStands ==
  ASSUME Coherent, Coherent', Proceeds
  PROVE  StandsAsShown
<1> DEFINE u == Until(prints, prints')
           Precedes(e) == \A d \in decisions' \ decisions : e < BoundaryOf(d.session, phase)
<1>1. prints \in Seq(Row) /\ prints' \in Seq(Row) /\ Grows(prints, prints') /\ Len(prints) <= Len(prints')
  BY DEF Coherent, Proceeds, Grows
<1>2. Agree(prints, prints', u)
  BY <1>1, UntilAgrees
<1>3. /\ phase \in Phase /\ Sessions(decisions') /\ decisions \subseteq decisions'
      /\ Shows(shown, decisions, prints, direction, phase)
      /\ Shows(shown', decisions', prints', direction, phase)
  BY DEF Coherent, Proceeds
<1> HIDE DEF u
<1>4. \A h \in Steps : \A d \in decisions :
        Settles(shown.evidence[h][d], shown'.evidence[h][d], prints', h, AsOf(prints'), u)
  BY <1>1, <1>2, <1>3, OutcomesSettle
<1>5. ASSUME NEW e \in Nat, e <= u, Precedes(e)
      PROVE  /\ Stands(shown.managed, shown'.managed, e)
             /\ \A h \in Steps : Stands(shown.policy[h], shown'.policy[h], e)
  <2>1. e \in 0..u
    BY <1>2, <1>5 DEF Agree
  <2>2. Agree(prints, prints', e)
    BY <1>1, <1>2, <2>1, AgreeDown
  <2>3. QED
    BY <1>5, <2>2, ProceedingKeeps
<1>6. SameUntil = u
  BY DEF SameUntil, Until, u
<1>7. /\ shown.managed.ok => DOMAIN shown.managed.nav \subseteq Nat
      /\ \A h \in Steps : shown.policy[h].ok => DOMAIN shown.policy[h].nav \subseteq Nat
  BY <1>1, ShownDays DEF Coherent
<1>8. Keeps(shown.managed, shown'.managed)
  BY <1>5, <1>6, <1>7 DEF Keeps, Stands
<1>9. \A h \in Steps : Keeps(shown.policy[h], shown'.policy[h])
  BY <1>5, <1>6, <1>7 DEF Keeps, Stands
<1>10. QED
  BY <1>4, <1>6, <1>8, <1>9 DEF StandsAsShown, Settles

\* Boundaries that pass change nothing shown for an earlier boundary; a repaired
\* print, and a decision that a scheduled run records after the boundary of its
\* session, change nothing before their own; other decisions change nothing at all:
\* neither the value of a portfolio nor, ever, the outcome of another signal that is
\* complete (compute_valuations and compute_rebuilt_arena start over every time).
THEOREM HistoryStandsAlways == Spec => HistoryStands
<1>1. Coherent /\ Coherent' /\ [Next]_vars => StandsAsShown
  BY StepProceeds, ProceedingStands
<1>2. Coherent /\ Coherent' /\ [Next]_vars => [StandsAsShown]_vars
  BY <1>1
<1>3. QED
  BY <1>2, ShownIsKnown, PTL DEF Spec, HistoryStands

-----------------------------------------------------------------------------
(* A paused version. *)

Dues(ds, a, p) == {BoundaryOf(d.session, p) : d \in ds} \cap 1..a

\* When a pause ends the valuation: after every trade that is due, and one session
\* after the latest.
LEMMA EffectsIs ==
  ASSUME NEW ds, Sessions(ds), NEW a \in Nat, NEW p \in Phase,
         NEW dues, dues = Dues(ds, a, p), dues # {}
  PROVE  /\ Max(dues) \in Nat /\ \A e \in dues : e <= Max(dues)
         /\ Effects(ds, a, p) = IF a <= Max(dues) + 2 THEN a ELSE Max(dues) + 2
<1> DEFINE due == Due(ds, a, p)
           sessions == {d.session : d \in due}
           B(s) == BoundaryOf(s, p)
<1>1. \A d \in ds : d.session \in Nat \ {0} /\ B(d.session) \in Nat \ {0}
  BY EffectiveIs DEF Sessions
<1>2. \A s \in Nat \ {0} : B(s) \in Nat \ {0} /\ s <= B(s) /\ B(1 + s) = B(s) + 2
  BY DEF BoundaryOf
<1>3. \A s, o \in Nat : s <= o => B(s) <= B(o)
  BY DEF BoundaryOf
<1>4. dues = {B(s) : s \in sessions}
  BY <1>1 DEF Due, Dues
<1>5. sessions \in SUBSET (Nat \ {0}) /\ \A s \in sessions : B(s) <= a
  BY <1>1 DEF Due
<1> HIDE DEF B, sessions
<1> DEFINE M == Max(sessions)
<1>6. M \in sessions /\ \A s \in sessions : s <= M
  <2>1. sessions \in SUBSET Nat /\ sessions # {}
    BY <1>4, <1>5
  <2>2. \A s \in sessions : s <= a
    <3> TAKE s \in sessions
    <3>1. s \in Nat \ {0} /\ B(s) <= a
      BY <1>5
    <3>2. s <= B(s) /\ B(s) \in Nat
      BY <1>2, <3>1
    <3>3. QED
      BY <3>1, <3>2
  <2>3. QED
    BY <2>1, <2>2, MaxIs
<1> HIDE DEF M
<1>7. B(M) \in dues /\ \A e \in dues : e <= B(M)
  <2>1. \A s \in sessions : B(s) <= B(M)
    BY <1>3, <1>5, <1>6
  <2>2. QED
    BY <1>4, <1>6, <2>1
<1>8. Max(dues) = B(M)
  <2>1. dues \in SUBSET Nat
    BY DEF Dues
  <2>2. QED
    BY <1>7, <2>1, MaxOf
<1>9. B(M) \in Nat /\ B(1 + M) = B(M) + 2
  BY <1>2, <1>5, <1>6
<1>10. Effects(ds, a, p) = Min({a, B(1 + M)})
  <2>1. due # {}
    BY <1>6 DEF sessions
  <2>2. QED
    BY <2>1 DEF Effects, sessions, B, M
<1>11. Min({a, B(M) + 2}) = IF a <= B(M) + 2 THEN a ELSE B(M) + 2
  <2>1. B(M) + 2 \in Nat
    BY <1>9
  <2>2. QED
    BY <2>1, MinPair
<1>12. QED
  BY <1>7, <1>8, <1>9, <1>10, <1>11

LEMMA SameAllocations ==
  ASSUME NEW ds, Sessions(ds), NEW a \in Nat, NEW c \in Nat, NEW p \in Phase, Due(ds, c, p) = Due(ds, a, p)
  PROVE  Allocations(ds, c, p) = Allocations(ds, a, p)
<1>1. \A d \in ds : d.session \in Nat \ {0}
  BY DEF Sessions
<1>2. /\ Starts(ds, a, p) = [d \in Due(ds, a, p) |-> BoundaryOf(d.session, p)]
      /\ Starts(ds, c, p) = [d \in Due(ds, c, p) |-> BoundaryOf(d.session, p)]
  BY <1>1, StartsIs
<1>3. Starts(ds, c, p) = Starts(ds, a, p)
  BY <1>2
<1>4. QED
  BY <1>3 DEF Allocations

LEMMA CoherentTruncates ==
  ASSUME Coherent
  PROVE  PauseOnlyTruncates
<1> DEFINE a == AsOf(prints)
           dues == {BoundaryOf(d.session, phase) : d \in decisions} \cap 1..a
           c == Effects(decisions, a, phase)
           t == Allocations(decisions, a, phase)
           r == shown.managed
           q == shown.paused
<1>1. /\ prints \in Seq(Row) /\ Len(prints) \in Nat /\ a \in Nat /\ a <= Len(prints)
      /\ phase \in Phase /\ Sessions(decisions)
  BY AsOfIs DEF Coherent
<1>2. r = Follow(t, prints, a, direction)
      /\ q = Follow(Allocations(decisions, c, phase), prints, c, direction)
  BY DEF Coherent, Shows
<1>3. /\ DOMAIN t = {BoundaryOf(d.session, phase) : d \in Due(decisions, a, phase)}
      /\ DOMAIN t \in SUBSET (1..a)
  BY <1>1, AllocationsAre
<1>4. \A d \in decisions : BoundaryOf(d.session, phase) \in Nat \ {0}
  BY <1>1, EffectiveIs DEF Sessions
<1>5. DOMAIN t = dues
  BY <1>1, <1>3, <1>4 DEF Due
<1>6. \A d \in decisions : BoundaryOf(d.session, phase) <= a => BoundaryOf(d.session, phase) \in dues
  BY <1>1, <1>4
<1> SUFFICES ASSUME r.ok, dues # {}
             PROVE  /\ q.ok /\ q.traded = r.traded
                    /\ q.nav = [e \in {e \in DOMAIN r.nav : e <= Max(dues) + 2} |-> r.nav[e]]
  BY DEF PauseOnlyTruncates
<1>d. dues = Dues(decisions, a, phase) /\ c = Effects(decisions, a, phase)
  BY DEF Dues
<1> HIDE DEF a, c, dues, t, r, q
<1>7. /\ Max(dues) \in Nat /\ \A e \in dues : e <= Max(dues)
      /\ c = IF a <= Max(dues) + 2 THEN a ELSE Max(dues) + 2
  BY <1>1, <1>d, EffectsIs
<1>8. c \in Nat /\ c <= a
  BY <1>1, <1>7
<1>9. \A e \in dues : e \in 1..a /\ e <= c
  <2> TAKE e \in dues
  <2>1. e \in 1..a /\ e <= Max(dues)
    BY <1>7 DEF dues
  <2>2. QED
    BY <1>1, <1>7, <2>1
<1>10. Due(decisions, c, phase) = Due(decisions, a, phase)
  BY <1>1, <1>4, <1>6, <1>8, <1>9 DEF Due
<1>11. Allocations(decisions, c, phase) = t
  BY <1>1, <1>8, <1>10, SameAllocations DEF t
<1>12. DOMAIN t \in SUBSET (1..c) /\ DOMAIN t # {}
  BY <1>5, <1>8, <1>9
<1>13. q = Follow(t, prints, c, direction)
  BY <1>2, <1>11
<1>14. q.ok /\ q.traded = r.traded /\ q.nav = [e \in {e \in DOMAIN r.nav : e <= c} |-> r.nav[e]]
  BY <1>1, <1>2, <1>8, <1>12, <1>13, FollowTruncates
<1>15. DOMAIN r.nav \subseteq 1..a
  BY <1>1, <1>2, <1>3, FollowTrades
<1>16. {e \in DOMAIN r.nav : e <= c} = {e \in DOMAIN r.nav : e <= Max(dues) + 2}
  BY <1>1, <1>7, <1>15
<1>17. QED
  BY <1>14, <1>16

\* Pausing a version only ends the valuation of its portfolios, one session after
\* the latest trade: values and trades up to there are the same ones
\* (managed_valuation_boundary).
THEOREM PauseOnlyTruncatesAlways == Spec => []PauseOnlyTruncates
<1>1. Coherent => PauseOnlyTruncates
  BY CoherentTruncates
<1>2. QED
  BY <1>1, ShownIsKnown, PTL

-----------------------------------------------------------------------------
(* Fractions.  Whatever the terms an operation is given in, its result is the  *)
(* same pair (RatioSame): the laws are then identities between integers.       *)

Positive == Nat \ {0}
Whole(n, d) == {q \in Positive : \E m \in Int : n * q = m * d}

LEMMA Divides ==
  ASSUME NEW a \in Int, NEW d \in Positive
  PROVE  /\ a % d = 0 <=> \E m \in Int : a = m * d
         /\ \A m \in Int : a = m * d => a \div d = m
<1>1. d \in Int /\ d > 0
  BY DEF Positive
<1>2. a = d * (a \div d) + (a % d) /\ a \div d \in Int /\ a % d \in 0..d - 1
  BY <1>1
<1>3. ASSUME NEW m \in Int, a = m * d
      PROVE  a \div d = m /\ a % d = 0
  <2> DEFINE k == m - a \div d
  <2>1. k \in Int /\ d * k = a % d
    BY <1>1, <1>2, <1>3
  <2>2. k <= 0
    <3>1. SUFFICES ASSUME k >= 1 PROVE FALSE
      BY <2>1
    <3>2. d * k >= d
      BY <1>1, <2>1, <3>1
    <3>3. QED
      BY <1>1, <1>2, <2>1, <3>2
  <2>3. k >= 0
    <3>1. SUFFICES ASSUME k <= -1 PROVE FALSE
      BY <2>1
    <3>2. d * k <= -d
      BY <1>1, <2>1, <3>1
    <3>3. QED
      BY <1>1, <1>2, <2>1, <3>2
  <2>4. k = 0
    BY <2>1, <2>2, <2>3
  <2>5. QED
    BY <1>1, <1>2, <2>1, <2>4
<1>4. a % d = 0 => a = (a \div d) * d
  BY <1>1, <1>2
<1>5. QED
  BY <1>2, <1>3, <1>4

LEMMA RatioIs ==
  ASSUME NEW n \in Int, NEW d \in Positive
  PROVE  /\ Ratio(n, d) \in Int \X Positive
         /\ Ratio(n, d)[1] * d = n * Ratio(n, d)[2]
         /\ Ratio(n, d)[2] \in Whole(n, d) /\ \A q \in Whole(n, d) : Ratio(n, d)[2] <= q
<1> DEFINE S == {q \in 1..d : (n * q) % d = 0}
           q == Min(S)
<1>1. d \in Nat /\ d > 0
  BY DEF Positive
<1>2. \A k \in 1..d : k \in S <=> k \in Whole(n, d)
  <2> TAKE k \in 1..d
  <2>1. n * k \in Int /\ k \in Positive
    BY <1>1 DEF Positive
  <2>2. (n * k) % d = 0 <=> \E m \in Int : n * k = m * d
    BY <2>1, Divides
  <2>3. QED
    BY <2>1, <2>2 DEF Whole
<1>3. d \in S
  <2>1. d \in Whole(n, d)
    BY <1>1 DEF Whole
  <2>2. QED
    BY <1>1, <1>2, <2>1
<1>4. S \in SUBSET Nat
  BY <1>1
<1> HIDE DEF S
<1>5. q \in S /\ \A k \in S : q <= k
  BY <1>3, <1>4, MinIs
<1>6. q \in 1..d
  BY <1>5 DEF S
<1> DEFINE m == (n * q) \div d
<1>7. Ratio(n, d) = <<m, q>>
  BY DEF Ratio, S
<1> HIDE DEF q
<1>8. q \in Positive /\ q \in Whole(n, d) /\ q <= d /\ q \in Nat
  BY <1>1, <1>2, <1>5, <1>6 DEF Positive
<1>9. PICK k \in Int : n * q = k * d
  BY <1>8 DEF Whole
<1>10. m = k
  <2>1. n * q \in Int
    BY <1>8
  <2>2. QED
    BY <1>9, <2>1, Divides
<1> HIDE DEF m
<1>11. \A j \in Whole(n, d) : q <= j
  <2> TAKE j \in Whole(n, d)
  <2>1. j \in Nat /\ j > 0
    BY DEF Whole, Positive
  <2>2. CASE j <= d
    BY <1>2, <1>5, <2>1, <2>2
  <2>3. CASE d < j
    BY <1>1, <1>8, <2>1, <2>3
  <2>4. QED
    BY <1>1, <2>1, <2>2, <2>3
<1>12. QED
  BY <1>7, <1>8, <1>9, <1>10, <1>11

LEMMA CancelRight ==
  ASSUME NEW a \in Int, NEW b \in Int, NEW c \in Positive, a * c = b * c
  PROVE  a = b
<1>1. c \in Int /\ c # 0
  BY DEF Positive
<1>2. QED
  BY <1>1

LEMMA RatioSame ==
  ASSUME NEW n \in Int, NEW d \in Positive, NEW k \in Int, NEW e \in Positive, n * e = k * d
  PROVE  Ratio(n, d) = Ratio(k, e)
<1>1. d \in Int /\ e \in Int /\ d > 0 /\ e > 0
  BY DEF Positive
<1>2. ASSUME NEW q \in Positive, NEW m \in Int
      PROVE  n * q = m * d <=> k * q = m * e
  <2>1. q \in Int
    BY DEF Positive
  <2>2. n * q = m * d <=> (n * q) * e = (m * d) * e
    BY <1>1, <2>1, CancelRight
  <2>3. (n * q) * e = (n * e) * q /\ (m * d) * e = (m * e) * d /\ (k * d) * q = (k * q) * d
    BY <1>1, <2>1
  <2>4. k * q = m * e <=> (k * q) * d = (m * e) * d
    BY <1>1, <2>1, CancelRight
  <2>5. QED
    BY <2>2, <2>3, <2>4
<1>3. Whole(n, d) = Whole(k, e)
  BY <1>2 DEF Whole
<1> DEFINE x == Ratio(n, d)
           y == Ratio(k, e)
<1>4. /\ x \in Int \X Positive /\ x[1] * d = n * x[2] /\ x[2] \in Whole(n, d) /\ \A q \in Whole(n, d) : x[2] <= q
      /\ y \in Int \X Positive /\ y[1] * e = k * y[2] /\ y[2] \in Whole(n, d) /\ \A q \in Whole(n, d) : y[2] <= q
  BY <1>3, RatioIs
<1> HIDE DEF x, y
<1>5. x[2] = y[2] /\ x[2] \in Positive /\ x[2] \in Int
  BY <1>4 DEF Positive
<1>6. n * x[2] = y[1] * d
  BY <1>2, <1>4, <1>5
<1>7. x[1] = y[1]
  BY <1>4, <1>6, CancelRight
<1>8. QED
  BY <1>4, <1>5, <1>7 DEF x, y

LEMMA RatioFraction ==
  ASSUME NEW n \in Int, NEW d \in Positive
  PROVE  Ratio(n, d) \in Fraction
<1> DEFINE x == Ratio(n, d)
<1>1. x \in Int \X Positive /\ x[1] * d = n * x[2]
  BY RatioIs
<1> HIDE DEF x
<1>2. Ratio(x[1], x[2]) = Ratio(n, d)
  BY <1>1, RatioSame
<1>3. QED
  BY <1>1, <1>2 DEF Fraction, Positive, x

LEMMA PositiveTimes ==
  ASSUME NEW a \in Positive, NEW b \in Positive
  PROVE  a * b \in Positive
<1>1. a \in Nat /\ b \in Nat /\ a >= 1 /\ b >= 1
  BY DEF Positive
<1>2. a * b \in Nat /\ a * b >= a
  BY <1>1
<1>3. QED
  BY <1>1, <1>2 DEF Positive

\* The operations work on any terms.
LEMMA TimesRatio ==
  ASSUME NEW n \in Int, NEW d \in Positive, NEW k \in Int, NEW e \in Positive
  PROVE  Ratio(n, d) ** Ratio(k, e) = Ratio(n * k, d * e)
<1> DEFINE x == Ratio(n, d)
           y == Ratio(k, e)
<1>1. x \in Int \X Positive /\ x[1] * d = n * x[2] /\ y \in Int \X Positive /\ y[1] * e = k * y[2]
  BY RatioIs
<1>2. x ** y = Ratio(x[1] * y[1], x[2] * y[2])
  BY DEF **
<1> HIDE DEF x, y
<1>3. d \in Int /\ e \in Int /\ x[1] \in Int /\ y[1] \in Int /\ x[2] \in Int /\ y[2] \in Int /\ x[2] \in Positive /\ y[2] \in Positive
  BY <1>1 DEF Positive
<1>4. (x[1] * y[1]) * (d * e) = (n * k) * (x[2] * y[2])
  <2>1. (x[1] * y[1]) * (d * e) = (x[1] * d) * (y[1] * e)
    BY <1>3
  <2>2. (n * k) * (x[2] * y[2]) = (n * x[2]) * (k * y[2])
    BY <1>3
  <2>3. QED
    BY <1>1, <2>1, <2>2
<1>5. d * e \in Positive /\ x[2] * y[2] \in Positive
  BY <1>3, PositiveTimes
<1>6. n * k \in Int /\ x[1] * y[1] \in Int
  BY <1>3
<1>7. QED
  BY <1>2, <1>4, <1>5, <1>6, RatioSame DEF x, y

LEMMA PlusRatio ==
  ASSUME NEW n \in Int, NEW d \in Positive, NEW k \in Int, NEW e \in Positive
  PROVE  /\ Ratio(n, d) ++ Ratio(k, e) = Ratio(n * e + k * d, d * e)
         /\ Ratio(n, d) -- Ratio(k, e) = Ratio(n * e - k * d, d * e)
<1> DEFINE x == Ratio(n, d)
           y == Ratio(k, e)
<1>1. x \in Int \X Positive /\ x[1] * d = n * x[2] /\ y \in Int \X Positive /\ y[1] * e = k * y[2]
  BY RatioIs
<1>2. x ++ y = Ratio(x[1] * y[2] + y[1] * x[2], x[2] * y[2]) /\ x -- y = Ratio(x[1] * y[2] - y[1] * x[2], x[2] * y[2])
  BY DEF ++, --
<1> HIDE DEF x, y
<1>3. d \in Int /\ e \in Int /\ x[1] \in Int /\ y[1] \in Int /\ x[2] \in Int /\ y[2] \in Int /\ x[2] \in Positive /\ y[2] \in Positive
  BY <1>1 DEF Positive
<1>4. (x[1] * y[2]) * (d * e) = (n * e) * (x[2] * y[2])
  <2>1. (x[1] * y[2]) * (d * e) = (x[1] * d) * (y[2] * e)
    BY <1>3
  <2>2. (n * e) * (x[2] * y[2]) = (n * x[2]) * (y[2] * e)
    BY <1>3
  <2>3. QED
    BY <1>1, <2>1, <2>2
<1>5. (y[1] * x[2]) * (d * e) = (k * d) * (x[2] * y[2])
  <2>1. (y[1] * x[2]) * (d * e) = (y[1] * e) * (x[2] * d)
    BY <1>3
  <2>2. (k * d) * (x[2] * y[2]) = (k * y[2]) * (x[2] * d)
    BY <1>3
  <2>3. QED
    BY <1>1, <2>1, <2>2
<1>6. d * e \in Positive /\ x[2] * y[2] \in Positive
  BY <1>3, PositiveTimes
<1>7. /\ x[1] * y[2] \in Int /\ y[1] * x[2] \in Int /\ d * e \in Int /\ n * e \in Int /\ k * d \in Int /\ x[2] * y[2] \in Int
  BY <1>3
<1>8. /\ (x[1] * y[2] + y[1] * x[2]) * (d * e) = (n * e + k * d) * (x[2] * y[2])
      /\ (x[1] * y[2] - y[1] * x[2]) * (d * e) = (n * e - k * d) * (x[2] * y[2])
  <2> DEFINE A == x[1] * y[2]
             B == y[1] * x[2]
             C == d * e
             G == n * e
             H == k * d
             I == x[2] * y[2]
  <2>1. A \in Int /\ B \in Int /\ C \in Int /\ G \in Int /\ H \in Int /\ I \in Int /\ A * C = G * I /\ B * C = H * I
    BY <1>4, <1>5, <1>7
  <2> HIDE DEF A, B, C, G, H, I
  <2>2. (A + B) * C = (G + H) * I /\ (A - B) * C = (G - H) * I
    BY <2>1
  <2>3. QED
    BY <2>2 DEF A, B, C, G, H, I
<1>9. Ratio(x[1] * y[2] + y[1] * x[2], x[2] * y[2]) = Ratio(n * e + k * d, d * e)
  BY <1>6, <1>7, <1>8, RatioSame
<1>10. Ratio(x[1] * y[2] - y[1] * x[2], x[2] * y[2]) = Ratio(n * e - k * d, d * e)
  BY <1>6, <1>7, <1>8, RatioSame
<1>11. QED
  BY <1>2, <1>9, <1>10 DEF x, y
LEMMA OverRatio ==
  ASSUME NEW n \in Int, NEW d \in Positive, NEW k \in Positive, NEW e \in Positive
  PROVE  Ratio(n, d) // Ratio(k, e) = Ratio(n * e, d * k)
<1> DEFINE x == Ratio(n, d)
           y == Ratio(k, e)
<1>1. k \in Int
  BY DEF Positive
<1>2. x \in Int \X Positive /\ x[1] * d = n * x[2] /\ y \in Int \X Positive /\ y[1] * e = k * y[2]
  BY <1>1, RatioIs
<1>3. x // y = Ratio(x[1] * y[2], x[2] * y[1])
  BY DEF //
<1> HIDE DEF x, y
<1>4. d \in Int /\ e \in Int /\ x[1] \in Int /\ y[1] \in Int /\ x[2] \in Int /\ y[2] \in Int /\ x[2] \in Positive /\ y[2] \in Positive
  BY <1>2 DEF Positive
<1>5. y[1] \in Positive
  <2>1. k * y[2] \in Positive
    BY <1>4, PositiveTimes
  <2>2. y[1] * e > 0 /\ e > 0
    BY <1>2, <2>1 DEF Positive
  <2>3. y[1] > 0
    <3>1. SUFFICES ASSUME y[1] <= 0 PROVE FALSE
      BY <1>4
    <3>2. y[1] * e <= 0
      BY <1>4, <2>2, <3>1
    <3>3. QED
      BY <1>4, <2>2, <3>2
  <2>4. QED
    BY <1>4, <2>3 DEF Positive
<1>6. (x[1] * y[2]) * (d * k) = (n * e) * (x[2] * y[1])
  <2>1. (x[1] * y[2]) * (d * k) = (x[1] * d) * (k * y[2])
    BY <1>1, <1>4
  <2>2. (n * e) * (x[2] * y[1]) = (n * x[2]) * (y[1] * e)
    BY <1>4
  <2>3. QED
    BY <1>2, <2>1, <2>2
<1>7. d * k \in Positive /\ x[2] * y[1] \in Positive
  BY <1>4, <1>5, PositiveTimes
<1>8. n * e \in Int /\ x[1] * y[2] \in Int
  BY <1>4
<1>9. QED
  BY <1>3, <1>6, <1>7, <1>8, RatioSame DEF x, y

LEMMA Terms ==
  ASSUME NEW a \in Fraction
  PROVE  a[1] \in Int /\ a[2] \in Positive /\ a[2] \in Int /\ a = Ratio(a[1], a[2])
BY DEF Fraction, Positive

LEMMA WholeIsFraction ==
  ASSUME NEW n \in Int
  PROVE  Ratio(n, 1) = <<n, 1>> /\ <<n, 1>> \in Fraction
<1> DEFINE x == Ratio(n, 1)
<1>1. 1 \in Positive
  BY DEF Positive
<1>2. x \in Int \X Positive /\ x[1] * 1 = n * x[2] /\ \A q \in Whole(n, 1) : x[2] <= q
  BY <1>1, RatioIs
<1>3. 1 \in Whole(n, 1)
  <2>1. n * 1 = n * 1 /\ n \in Int
    OBVIOUS
  <2>2. QED
    BY <1>1, <2>1 DEF Whole
<1> HIDE DEF x
<1>4. x[2] = 1
  BY <1>2, <1>3 DEF Positive
<1>5. x[1] = n
  BY <1>2, <1>4
<1>6. x = <<n, 1>>
  BY <1>2, <1>4, <1>5
<1>7. QED
  BY <1>1, <1>6, RatioFraction DEF x

MinusOne == <<-1, 1>>

LEMMA Constants ==
  /\ Zero \in Fraction /\ One \in Fraction /\ Two \in Fraction /\ MinusOne \in Fraction
  /\ Zero = Ratio(0, 1) /\ One = Ratio(1, 1) /\ Two = Ratio(2, 1) /\ MinusOne = Ratio(-1, 1)
BY WholeIsFraction DEF Zero, One, Two, MinusOne

LEMMA Closed2 ==
  ASSUME NEW a \in Fraction, NEW b \in Fraction
  PROVE  a ++ b \in Fraction /\ a -- b \in Fraction /\ a ** b \in Fraction
<1>1. a[1] \in Int /\ a[2] \in Positive /\ a[2] \in Int /\ b[1] \in Int /\ b[2] \in Positive /\ b[2] \in Int
  BY Terms
<1>2. a[2] * b[2] \in Positive
  BY <1>1, PositiveTimes
<1>3. a[1] * b[2] + b[1] * a[2] \in Int /\ a[1] * b[2] - b[1] * a[2] \in Int /\ a[1] * b[1] \in Int
  BY <1>1
<1>4. QED
  BY <1>2, <1>3, RatioFraction DEF ++, --, **

LEMMA PlusLaws ==
  ASSUME NEW a \in Fraction, NEW b \in Fraction, NEW c \in Fraction
  PROVE  /\ a ++ b = b ++ a
         /\ (a ++ b) ++ c = a ++ (b ++ c)
         /\ a ++ Zero = a
<1> DEFINE a1 == a[1]  a2 == a[2]  b1 == b[1]  b2 == b[2]  c1 == c[1]  c2 == c[2]
<1>1. /\ a1 \in Int /\ a2 \in Int /\ b1 \in Int /\ b2 \in Int /\ c1 \in Int /\ c2 \in Int
      /\ a2 \in Positive /\ b2 \in Positive /\ c2 \in Positive
      /\ a = Ratio(a1, a2) /\ b = Ratio(b1, b2) /\ c = Ratio(c1, c2)
  BY Terms
<1>2. a ++ b = Ratio(a1 * b2 + b1 * a2, a2 * b2) /\ b ++ a = Ratio(b1 * a2 + a1 * b2, b2 * a2)
  BY DEF ++
<1>3. b ++ c = Ratio(b1 * c2 + c1 * b2, b2 * c2)
  BY DEF ++
<1> HIDE DEF a1, a2, b1, b2, c1, c2
<1>4. a1 * b2 + b1 * a2 = b1 * a2 + a1 * b2 /\ a2 * b2 = b2 * a2
  BY <1>1
<1>5. /\ a2 * b2 \in Positive /\ b2 * c2 \in Positive /\ a2 * b2 \in Int /\ b2 * c2 \in Int
      /\ a1 * b2 + b1 * a2 \in Int /\ b1 * c2 + c1 * b2 \in Int
  BY <1>1, PositiveTimes
<1>6. (a ++ b) ++ c = Ratio((a1 * b2 + b1 * a2) * c2 + c1 * (a2 * b2), (a2 * b2) * c2)
  BY <1>1, <1>2, <1>5, PlusRatio
<1>7. a ++ (b ++ c) = Ratio(a1 * (b2 * c2) + (b1 * c2 + c1 * b2) * a2, a2 * (b2 * c2))
  BY <1>1, <1>3, <1>5, PlusRatio
<1>8. /\ (a1 * b2 + b1 * a2) * c2 + c1 * (a2 * b2) = a1 * (b2 * c2) + (b1 * c2 + c1 * b2) * a2
      /\ (a2 * b2) * c2 = a2 * (b2 * c2)
  BY <1>1
<1>9. a ++ Zero = a
  <2>1. a ++ Zero = Ratio(a1 * 1 + 0 * a2, a2 * 1)
    BY DEF ++, Zero, a1, a2
  <2>2. a1 * 1 + 0 * a2 = a1 /\ a2 * 1 = a2
    BY <1>1
  <2>3. QED
    BY <1>1, <2>1, <2>2
<1>10. QED
  BY <1>2, <1>4, <1>6, <1>7, <1>8, <1>9

LEMMA TimesLaws ==
  ASSUME NEW a \in Fraction, NEW b \in Fraction, NEW c \in Fraction
  PROVE  /\ a ** b = b ** a
         /\ (a ** b) ** c = a ** (b ** c)
         /\ a ** One = a
         /\ a ** Zero = Zero
         /\ a ** (b ++ c) = (a ** b) ++ (a ** c)
         /\ a -- b = a ++ (MinusOne ** b)
<1> DEFINE a1 == a[1]  a2 == a[2]  b1 == b[1]  b2 == b[2]  c1 == c[1]  c2 == c[2]
<1>1. /\ a1 \in Int /\ a2 \in Int /\ b1 \in Int /\ b2 \in Int /\ c1 \in Int /\ c2 \in Int
      /\ a2 \in Positive /\ b2 \in Positive /\ c2 \in Positive
      /\ a = Ratio(a1, a2) /\ b = Ratio(b1, b2) /\ c = Ratio(c1, c2)
  BY Terms
<1>2. /\ a ** b = Ratio(a1 * b1, a2 * b2) /\ b ** a = Ratio(b1 * a1, b2 * a2)
      /\ b ** c = Ratio(b1 * c1, b2 * c2) /\ a ** c = Ratio(a1 * c1, a2 * c2)
  BY DEF **
<1>3. b ++ c = Ratio(b1 * c2 + c1 * b2, b2 * c2) /\ a -- b = Ratio(a1 * b2 - b1 * a2, a2 * b2)
  BY DEF ++, --
<1>4. a ** One = Ratio(a1 * 1, a2 * 1) /\ a ** Zero = Ratio(a1 * 0, a2 * 1) /\ MinusOne ** b = Ratio((-1) * b1, 1 * b2)
  <2>1. One[1] = 1 /\ One[2] = 1 /\ Zero[1] = 0 /\ Zero[2] = 1 /\ MinusOne[1] = -1 /\ MinusOne[2] = 1
    BY DEF One, Zero, MinusOne
  <2>2. /\ a ** One = Ratio(a1 * One[1], a2 * One[2]) /\ a ** Zero = Ratio(a1 * Zero[1], a2 * Zero[2])
        /\ MinusOne ** b = Ratio(MinusOne[1] * b1, MinusOne[2] * b2)
    BY DEF **
  <2> HIDE DEF a1, a2, b1, b2
  <2>3. QED
    BY <2>1, <2>2
<1> HIDE DEF a1, a2, b1, b2, c1, c2
<1>5. /\ a2 * b2 \in Positive /\ b2 * c2 \in Positive /\ a2 * c2 \in Positive /\ 1 * b2 \in Positive
      /\ (a2 * b2) * (a2 * c2) \in Positive /\ a2 * (b2 * c2) \in Positive
  <2>1. a2 * b2 \in Positive /\ b2 * c2 \in Positive /\ a2 * c2 \in Positive
    BY <1>1, PositiveTimes
  <2>2. 1 * b2 = b2
    BY <1>1
  <2>3. QED
    BY <1>1, <2>1, <2>2, PositiveTimes
<1>6. /\ a1 * b1 \in Int /\ b1 * c1 \in Int /\ a1 * c1 \in Int /\ b1 * c2 + c1 * b2 \in Int /\ (-1) * b1 \in Int
      /\ a1 * (b1 * c2 + c1 * b2) \in Int /\ (a1 * b1) * (a2 * c2) + (a1 * c1) * (a2 * b2) \in Int
  BY <1>1
<1>7. a ** b = b ** a
  <2>1. a1 * b1 = b1 * a1 /\ a2 * b2 = b2 * a2
    BY <1>1
  <2>2. QED
    BY <1>2, <2>1
<1>8. (a ** b) ** c = a ** (b ** c)
  <2>1. (a ** b) ** c = Ratio((a1 * b1) * c1, (a2 * b2) * c2)
    BY <1>1, <1>2, <1>5, <1>6, TimesRatio
  <2>2. a ** (b ** c) = Ratio(a1 * (b1 * c1), a2 * (b2 * c2))
    BY <1>1, <1>2, <1>5, <1>6, TimesRatio
  <2>3. (a1 * b1) * c1 = a1 * (b1 * c1) /\ (a2 * b2) * c2 = a2 * (b2 * c2)
    BY <1>1
  <2>4. QED
    BY <2>1, <2>2, <2>3
<1>9. a ** One = a
  <2>1. a1 * 1 = a1 /\ a2 * 1 = a2
    BY <1>1
  <2>2. QED
    BY <1>1, <1>4, <2>1
<1>10. a ** Zero = Zero
  <2>1. a1 * 0 = 0 /\ a2 * 1 = a2 /\ 0 * 1 = 0 * a2 /\ 1 \in Positive
    BY <1>1 DEF Positive
  <2>2. Ratio(0, a2) = Ratio(0, 1)
    BY <1>1, <2>1, RatioSame
  <2>3. QED
    BY <1>4, <2>1, <2>2, Constants
<1>11. a ** (b ++ c) = (a ** b) ++ (a ** c)
  <2>1. a ** (b ++ c) = Ratio(a1 * (b1 * c2 + c1 * b2), a2 * (b2 * c2))
    BY <1>1, <1>3, <1>5, <1>6, TimesRatio
  <2>2. (a ** b) ++ (a ** c) = Ratio((a1 * b1) * (a2 * c2) + (a1 * c1) * (a2 * b2), (a2 * b2) * (a2 * c2))
    BY <1>2, <1>5, <1>6, PlusRatio
  <2>3. (a1 * (b1 * c2 + c1 * b2)) * ((a2 * b2) * (a2 * c2))
         = ((a1 * b1) * (a2 * c2) + (a1 * c1) * (a2 * b2)) * (a2 * (b2 * c2))
    BY <1>1
  <2>4. QED
    BY <1>5, <1>6, <2>1, <2>2, <2>3, RatioSame
<1>12. a -- b = a ++ (MinusOne ** b)
  <2>1. a ++ (MinusOne ** b) = Ratio(a1 * (1 * b2) + ((-1) * b1) * a2, a2 * (1 * b2))
    BY <1>1, <1>4, <1>5, <1>6, PlusRatio
  <2>2. a1 * (1 * b2) + ((-1) * b1) * a2 = a1 * b2 - b1 * a2 /\ a2 * (1 * b2) = a2 * b2
    BY <1>1
  <2>3. QED
    BY <1>3, <2>1, <2>2
<1>13. QED
  BY <1>7, <1>8, <1>9, <1>10, <1>11, <1>12
LEMMA ClosedOver ==
  ASSUME NEW a \in Fraction, NEW b \in Fraction, b[1] > 0
  PROVE  a // b \in Fraction
<1>1. a[1] \in Int /\ a[2] \in Positive /\ a[2] \in Int /\ b[1] \in Positive /\ b[2] \in Int
  BY Terms DEF Positive
<1>2. a[2] * b[1] \in Positive
  BY <1>1, PositiveTimes
<1>3. a[1] * b[2] \in Int
  BY <1>1
<1>4. QED
  BY <1>2, <1>3, RatioFraction DEF //

LEMMA Exchange ==
  ASSUME NEW a \in Fraction, NEW b \in Fraction, b[1] > 0, NEW c \in Fraction
  PROVE  (a // b) ** c = a ** (c // b)
<1> DEFINE a1 == a[1]  a2 == a[2]  b1 == b[1]  b2 == b[2]  c1 == c[1]  c2 == c[2]
<1>1. /\ a1 \in Int /\ a2 \in Int /\ b1 \in Int /\ b2 \in Int /\ c1 \in Int /\ c2 \in Int
      /\ a2 \in Positive /\ b2 \in Positive /\ c2 \in Positive /\ b1 \in Positive
      /\ a = Ratio(a1, a2) /\ c = Ratio(c1, c2)
  BY Terms DEF Positive
<1>2. a // b = Ratio(a1 * b2, a2 * b1) /\ c // b = Ratio(c1 * b2, c2 * b1)
  BY DEF //
<1> HIDE DEF a1, a2, b1, b2, c1, c2
<1>3. a2 * b1 \in Positive /\ c2 * b1 \in Positive
  BY <1>1, PositiveTimes
<1>4. a1 * b2 \in Int /\ c1 * b2 \in Int
  BY <1>1
<1>5. (a // b) ** c = Ratio((a1 * b2) * c1, (a2 * b1) * c2)
  BY <1>1, <1>2, <1>3, <1>4, TimesRatio
<1>6. a ** (c // b) = Ratio(a1 * (c1 * b2), a2 * (c2 * b1))
  BY <1>1, <1>2, <1>3, <1>4, TimesRatio
<1>7. (a1 * b2) * c1 = a1 * (c1 * b2) /\ (a2 * b1) * c2 = a2 * (c2 * b1)
  BY <1>1
<1>8. QED
  BY <1>5, <1>6, <1>7

LEMMA AddBack ==
  ASSUME NEW a \in Fraction, NEW b \in Fraction
  PROVE  a ++ (b -- a) = b
<1>1. b -- a = b ++ (MinusOne ** a) /\ MinusOne ** a \in Fraction
  BY Constants, TimesLaws, Closed2
<1>2. a ++ (b -- a) = (a ++ (MinusOne ** a)) ++ b
  <2>1. b ++ (MinusOne ** a) = (MinusOne ** a) ++ b
    BY <1>1, PlusLaws
  <2>2. QED
    BY <1>1, <2>1, PlusLaws
<1>3. a ++ (MinusOne ** a) = Zero
  <2>1. MinusOne ** a = a ** MinusOne /\ a ** One = a
    BY Constants, TimesLaws
  <2>2. a ++ (MinusOne ** a) = a ** (One ++ MinusOne)
    BY <2>1, Constants, TimesLaws
  <2>3. One ++ MinusOne = Zero
    <3>1. 1 \in Positive /\ 1 * 1 + (-1) * 1 = 0 /\ 1 * 1 = 1
      BY DEF Positive
    <3>2. Ratio(1, 1) ++ Ratio(-1, 1) = Ratio(1 * 1 + (-1) * 1, 1 * 1)
      BY <3>1, PlusRatio
    <3>3. QED
      BY <3>1, <3>2, Constants
  <2>4. a ** Zero = Zero
    BY Constants, TimesLaws
  <2>5. QED
    BY <2>2, <2>3, <2>4
<1>4. QED
  BY <1>2, <1>3, Constants, PlusLaws

\* What is multiplied by b is what it was and its growth by b less One.
LEMMA Growth ==
  ASSUME NEW a \in Fraction, NEW b \in Fraction
  PROVE  a ** b = a ++ (a ** (b -- One))
<1>1. One ++ (b -- One) = b /\ b -- One \in Fraction
  BY Constants, AddBack, Closed2
<1>2. a ** (One ++ (b -- One)) = (a ** One) ++ (a ** (b -- One))
  BY <1>1, Constants, TimesLaws
<1>3. QED
  BY <1>1, <1>2, Constants, TimesLaws

\* The change in price of what a book holds of a stock, and what a short gains by it.
LEMMA Marked ==
  ASSUME NEW x \in Fraction, NEW p \in Positive, NEW m \in Int
  PROVE  /\ Ratio(m, p) \in Fraction
         /\ (x // Ratio(p, 1)) ** Ratio(m, 1) = x ++ (x ** (Ratio(m, p) -- One))
         /\ (x // Ratio(p, 1)) ** Ratio(p - m, 1) = MinusOne ** (x ** (Ratio(m, p) -- One))
<1>1. p \in Int /\ 1 \in Positive /\ p > 0 /\ p - m \in Int /\ m - p \in Int
  BY DEF Positive
<1>2. Ratio(p, 1) = <<p, 1>> /\ Ratio(p, 1) \in Fraction /\ Ratio(m, 1) \in Fraction /\ Ratio(p - m, 1) \in Fraction
  BY <1>1, WholeIsFraction
<1>3. Ratio(p, 1)[1] > 0
  BY <1>1, <1>2
<1>4. Ratio(m, 1) // Ratio(p, 1) = Ratio(m, p) /\ Ratio(p - m, 1) // Ratio(p, 1) = Ratio(p - m, p)
  <2>1. \A k \in Int : Ratio(k, 1) // Ratio(p, 1) = Ratio(k * 1, 1 * p)
    BY <1>1, OverRatio
  <2>2. \A k \in Int : k * 1 = k
    OBVIOUS
  <2>3. 1 * p = p
    BY <1>1
  <2>4. QED
    BY <1>1, <2>1, <2>2, <2>3
<1>5. Ratio(m, p) \in Fraction /\ Ratio(m - p, p) \in Fraction
  BY <1>1, RatioFraction
<1>6. Ratio(m, p) -- One = Ratio(m - p, p)
  <2>1. Ratio(m, p) -- Ratio(1, 1) = Ratio(m * 1 - 1 * p, p * 1)
    BY <1>1, PlusRatio
  <2>2. m * 1 - 1 * p = m - p /\ p * 1 = p
    BY <1>1
  <2>3. QED
    BY <2>1, <2>2, Constants
<1>7. MinusOne ** Ratio(m - p, p) = Ratio(p - m, p)
  <2>1. Ratio(-1, 1) ** Ratio(m - p, p) = Ratio((-1) * (m - p), 1 * p)
    BY <1>1, TimesRatio
  <2>2. (-1) * (m - p) = p - m /\ 1 * p = p
    BY <1>1
  <2>3. QED
    BY <2>1, <2>2, Constants
<1>8. (x // Ratio(p, 1)) ** Ratio(m, 1) = x ++ (x ** (Ratio(m, p) -- One))
  BY <1>2, <1>3, <1>4, <1>5, Exchange, Growth
<1>9. (x // Ratio(p, 1)) ** Ratio(p - m, 1) = MinusOne ** (x ** (Ratio(m, p) -- One))
  <2>1. (x // Ratio(p, 1)) ** Ratio(p - m, 1) = x ** (MinusOne ** Ratio(m - p, p))
    BY <1>2, <1>3, <1>4, <1>7, Exchange
  <2> DEFINE y == Ratio(m - p, p)
  <2>2. y \in Fraction /\ MinusOne \in Fraction
    BY <1>5, Constants
  <2> HIDE DEF y
  <2>3. x ** (MinusOne ** y) = (x ** MinusOne) ** y /\ x ** MinusOne = MinusOne ** x
    BY <2>2, TimesLaws
  <2>4. (MinusOne ** x) ** y = MinusOne ** (x ** y)
    BY <2>2, TimesLaws
  <2>5. QED
    BY <1>6, <2>1, <2>3, <2>4 DEF y
<1>10. QED
  BY <1>5, <1>8, <1>9

LEMMA Signs ==
  ASSUME NEW a \in Fraction
  PROVE  /\ a \preceq Zero <=> a[1] <= 0
         /\ a = Zero <=> a[1] = 0
<1>1. a[1] \in Int /\ a[2] \in Positive /\ a = Ratio(a[1], a[2])
  BY Terms
<1>2. a \preceq Zero <=> a[1] <= 0
  <2>1. Zero[1] = 0 /\ Zero[2] = 1
    BY DEF Zero
  <2>2. a \preceq Zero <=> a[1] * Zero[2] <= Zero[1] * a[2]
    BY DEF \preceq
  <2>3. a[2] \in Int
    BY <1>1 DEF Positive
  <2>4. QED
    BY <1>1, <2>1, <2>2, <2>3
<1>3. ASSUME a[1] = 0
      PROVE  a = Zero
  <2>1. a = Ratio(0, a[2])
    BY <1>1, <1>3
  <2>2. 0 * 1 = 0 * a[2] /\ 1 \in Positive
    BY <1>1 DEF Positive
  <2>3. QED
    BY <1>1, <2>1, <2>2, RatioSame, Constants
<1>4. a = Zero => a[1] = 0
  BY DEF Zero
<1>5. QED
  BY <1>2, <1>3, <1>4

LEMMA RatioSign ==
  ASSUME NEW n \in Int, NEW d \in Positive
  PROVE  Ratio(n, d)[1] > 0 <=> n > 0
<1> DEFINE x == Ratio(n, d)
<1>0. x \in Int \X Positive /\ x[1] * d = n * x[2]
  BY RatioIs
<1> HIDE DEF x
<1>1. x[1] \in Int /\ x[2] \in Int /\ d \in Int /\ x[2] > 0 /\ d > 0 /\ x[1] * d = n * x[2]
  BY <1>0 DEF Positive
<1>2. \A k \in Int, e \in Int : e > 0 => (k * e > 0 <=> k > 0)
  OBVIOUS
<1>3. x[1] > 0 <=> n > 0
  BY <1>1, <1>2
<1>4. QED
  BY <1>3 DEF x

LEMMA TimesSign ==
  ASSUME NEW a \in Fraction, a[1] > 0, NEW b \in Fraction
  PROVE  /\ (a ** b)[1] > 0 <=> b[1] > 0
         /\ a ** b \preceq Zero <=> b \preceq Zero
<1>1. a[1] \in Int /\ a[2] \in Positive /\ b[1] \in Int /\ b[2] \in Positive /\ a[2] * b[2] \in Positive
  BY Terms, PositiveTimes
<1>2. a ** b = Ratio(a[1] * b[1], a[2] * b[2])
  BY DEF **
<1>3. a[1] * b[1] \in Int /\ (a[1] * b[1] > 0 <=> b[1] > 0)
  BY <1>1
<1>4. (a ** b)[1] > 0 <=> b[1] > 0
  BY <1>1, <1>2, <1>3, RatioSign
<1>5. a ** b \in Fraction /\ (a ** b)[1] \in Int
  BY Closed2, Terms
<1>6. (a ** b)[1] <= 0 <=> b[1] <= 0
  BY <1>1, <1>4, <1>5
<1>7. QED
  BY <1>4, <1>5, <1>6, Signs
-----------------------------------------------------------------------------
(* Sums. *)

\* What holds of the empty set and carries over to one element more holds of a
\* finite set.
LEMMA FiniteUpward ==
  ASSUME NEW S, IsFiniteSet(S), NEW P, {} \in P,
         \A T \in SUBSET S : \A x \in S \ T : T \in P => T \cup {x} \in P
  PROVE  S \in P
<1> DEFINE Q == {n \in Nat : \A T \in SUBSET S : Cardinality(T) = n => T \in P}
<1>1. 0 \in Q
  BY FS_Subset, FS_EmptySet
<1>2. ASSUME NEW n \in Nat, n \in Q
      PROVE  n + 1 \in Q
  <2>1. ASSUME NEW T \in SUBSET S, Cardinality(T) = n + 1
        PROVE  T \in P
    <3>1. IsFiniteSet(T)
      BY FS_Subset
    <3>2. T # {}
      BY <1>2, <2>1, FS_EmptySet
    <3>3. PICK x \in T : TRUE
      BY <3>2
    <3>4. IsFiniteSet(T \ {x}) /\ Cardinality(T \ {x}) = Cardinality(T) - 1
      BY <3>1, <3>3, FS_RemoveElement
    <3>5. T \ {x} \in P
      BY <1>2, <2>1, <3>4
    <3>6. x \in S \ (T \ {x}) /\ (T \ {x}) \cup {x} = T
      BY <3>3
    <3>7. QED
      BY <3>5, <3>6
  <2>2. QED
    BY <2>1
<1> HIDE DEF Q
<1>3. \A n \in Nat : n >= 0 => n \in Q
  BY <1>1, <1>2, Upward
<1>4. Cardinality(S) \in Nat /\ S \in SUBSET S
  BY FS_CardinalityType
<1>5. QED
  BY <1>3, <1>4 DEF Q

OneOf(T) == CHOOSE x \in T : TRUE
IsTotalling(sum, f, D) ==
  sum = [T \in D |-> IF T = {} THEN Zero ELSE f[OneOf(T)] ++ sum[T \ {OneOf(T)}]]
SameTerms(f, g, T) == \A x \in T : f[x] = g[x]
Totals(sum, f, S) == IsTotalling(sum, f, SUBSET S)
UpToSize(S, n) == {T \in SUBSET S : Cardinality(T) <= n}

\* The recursion of a sum has a solution, and only one.
LEMMA TotallingExists ==
  ASSUME NEW f, NEW S, IsFiniteSet(S)
  PROVE  \E sum : Totals(sum, f, S)
<1> DEFINE P == {n \in Nat : \E sum : IsTotalling(sum, f, UpToSize(S, n))}
<1>0. \A T \in SUBSET S : IsFiniteSet(T) /\ Cardinality(T) \in Nat
  BY FS_Subset, FS_CardinalityType
<1>1. 0 \in P
  <2> DEFINE sum == [T \in UpToSize(S, 0) |-> Zero]
  <2>1. \A T \in UpToSize(S, 0) : T = {}
    BY <1>0, FS_EmptySet DEF UpToSize
  <2>2. IsTotalling(sum, f, UpToSize(S, 0))
    BY <2>1 DEF IsTotalling
  <2>3. QED
    BY <2>2
<1>2. ASSUME NEW n \in Nat, n \in P
      PROVE  n + 1 \in P
  <2>1. PICK sum : IsTotalling(sum, f, UpToSize(S, n))
    BY <1>2
  <2> DEFINE D == UpToSize(S, n)
             E == UpToSize(S, n + 1)
             Stepped(T) == IF T = {} THEN Zero ELSE f[OneOf(T)] ++ sum[T \ {OneOf(T)}]
             more == [T \in E |-> Stepped(T)]
  <2>2. \A T \in D : T \in E /\ more[T] = sum[T]
    <3>1. \A T \in D : T \in E
      BY <1>0 DEF UpToSize
    <3>2. \A T \in D : sum[T] = Stepped(T)
      BY <2>1 DEF IsTotalling
    <3>3. QED
      BY <3>1, <3>2
  <2>3. ASSUME NEW T \in E, T # {}
        PROVE  T \ {OneOf(T)} \in D
    <3>1. OneOf(T) \in T /\ T \in SUBSET S /\ Cardinality(T) <= n + 1
      BY <2>3 DEF OneOf, UpToSize
    <3>2. Cardinality(T \ {OneOf(T)}) = Cardinality(T) - 1
      BY <1>0, <3>1, FS_RemoveElement
    <3>3. QED
      BY <1>0, <3>1, <3>2 DEF UpToSize
  <2>4. more = [T \in E |-> IF T = {} THEN Zero ELSE f[OneOf(T)] ++ more[T \ {OneOf(T)}]]
    <3>1. \A T \in E : Stepped(T) = IF T = {} THEN Zero ELSE f[OneOf(T)] ++ more[T \ {OneOf(T)}]
      BY <2>2, <2>3
    <3> DEFINE Later(T) == IF T = {} THEN Zero ELSE f[OneOf(T)] ++ more[T \ {OneOf(T)}]
    <3>2. \A T \in E : Stepped(T) = Later(T)
      BY <3>1
    <3>3. more = [T \in E |-> Stepped(T)]
      OBVIOUS
    <3> HIDE DEF more, Stepped, Later
    <3>4. more = [T \in E |-> Later(T)]
      BY <3>2, <3>3
    <3>5. QED
      BY <3>4 DEF Later
  <2> HIDE DEF more
  <2>5. IsTotalling(more, f, E)
    BY <2>4 DEF IsTotalling
  <2>6. QED
    BY <2>5
<1> HIDE DEF P
<1>3. Cardinality(S) \in P
  BY <1>0, <1>1, <1>2, Upward
<1>4. UpToSize(S, Cardinality(S)) = SUBSET S
  BY FS_Subset DEF UpToSize
<1>5. QED
  BY <1>3, <1>4 DEF P, Totals

LEMMA TotallingIsOne ==
  ASSUME NEW f, NEW S, IsFiniteSet(S), NEW R \in SUBSET S, NEW g, SameTerms(f, g, R),
         NEW sum, Totals(sum, f, S), NEW tot, Totals(tot, g, R)
  PROVE  sum[R] = tot[R]
<1> DEFINE P == {n \in Nat : \A T \in SUBSET R : Cardinality(T) = n => sum[T] = tot[T]}
<1>0. \A T \in SUBSET R : T \in SUBSET S /\ IsFiniteSet(T) /\ Cardinality(T) \in Nat
  BY FS_Subset, FS_CardinalityType
<1>1. \A T \in SUBSET R : /\ sum[T] = (IF T = {} THEN Zero ELSE f[OneOf(T)] ++ sum[T \ {OneOf(T)}])
                          /\ tot[T] = (IF T = {} THEN Zero ELSE g[OneOf(T)] ++ tot[T \ {OneOf(T)}])
  BY <1>0 DEF Totals, IsTotalling
<1>2. 0 \in P
  BY <1>0, <1>1, FS_EmptySet
<1>3. ASSUME NEW n \in Nat, n \in P
      PROVE  n + 1 \in P
  <2>1. ASSUME NEW T \in SUBSET R, Cardinality(T) = n + 1
        PROVE  sum[T] = tot[T]
    <3>1. T # {}
      BY <2>1, FS_EmptySet
    <3>2. OneOf(T) \in T /\ f[OneOf(T)] = g[OneOf(T)]
      BY <3>1 DEF OneOf, SameTerms
    <3>3. Cardinality(T \ {OneOf(T)}) = Cardinality(T) - 1
      BY <1>0, <3>2, FS_RemoveElement
    <3>4. Cardinality(T \ {OneOf(T)}) = n /\ T \ {OneOf(T)} \in SUBSET R
      BY <1>3, <2>1, <3>3
    <3>5. sum[T \ {OneOf(T)}] = tot[T \ {OneOf(T)}]
      BY <1>3, <3>4
    <3>6. QED
      BY <1>1, <3>1, <3>2, <3>5
  <2>2. QED
    BY <2>1
<1> HIDE DEF P
<1>4. Cardinality(R) \in P
  BY <1>0, <1>2, <1>3, Upward
<1>5. QED
  BY <1>4 DEF P

Sum(f, T) == Total([x \in T |-> f[x]])

LEMMA TotalIs ==
  ASSUME NEW f, NEW S, IsFiniteSet(S), NEW sum, Totals(sum, f, S), NEW T \in SUBSET S
  PROVE  Sum(f, T) = sum[T]
<1> DEFINE g == [x \in T |-> f[x]]
           tot == CHOOSE tot : Totals(tot, g, T)
<1>1. IsFiniteSet(T) /\ DOMAIN g = T
  BY FS_Subset
<1>2. SameTerms(f, g, T)
  BY DEF SameTerms
<1>3. Sum(f, T) = Total(g)
  BY DEF Sum
<1> HIDE DEF g
<1>4. Total(g) = tot[T]
  BY <1>1 DEF Total, FoldFunction, FoldFunctionOnSet, MapThenFoldSet, Totals, IsTotalling, OneOf
<1>5. Totals(tot, g, T)
  BY <1>1, TotallingExists
<1> HIDE DEF tot
<1>6. sum[T] = tot[T]
  BY <1>2, <1>5, TotallingIsOne
<1>7. QED
  BY <1>3, <1>4, <1>6

\* A sum takes its terms one after another.
LEMMA SumTakesOne ==
  ASSUME NEW f, NEW S, IsFiniteSet(S), NEW T \in SUBSET S
  PROVE  /\ T = {} => Sum(f, T) = Zero
         /\ T # {} => OneOf(T) \in T /\ Sum(f, T) = f[OneOf(T)] ++ Sum(f, T \ {OneOf(T)})
<1>1. PICK sum : Totals(sum, f, S)
  BY TotallingExists
<1>2. sum[T] = (IF T = {} THEN Zero ELSE f[OneOf(T)] ++ sum[T \ {OneOf(T)}])
  BY <1>1 DEF Totals, IsTotalling
<1>3. T # {} => OneOf(T) \in T
  BY DEF OneOf
<1>4. Sum(f, T) = sum[T] /\ T \ {OneOf(T)} \in SUBSET S
  BY <1>1, TotalIs
<1>5. Sum(f, T \ {OneOf(T)}) = sum[T \ {OneOf(T)}]
  BY <1>1, <1>4, TotalIs
<1>6. QED
  BY <1>2, <1>3, <1>4, <1>5

LEMMA SumIsFraction ==
  ASSUME NEW S, IsFiniteSet(S), NEW f \in [S -> Fraction], NEW T \in SUBSET S
  PROVE  Sum(f, T) \in Fraction
<1> DEFINE P == {n \in Nat : \A R \in SUBSET S : Cardinality(R) = n => Sum(f, R) \in Fraction}
<1>0. \A R \in SUBSET S : IsFiniteSet(R) /\ Cardinality(R) \in Nat
  BY FS_Subset, FS_CardinalityType
<1>1. 0 \in P
  BY <1>0, FS_EmptySet, SumTakesOne, Constants
<1>2. ASSUME NEW n \in Nat, n \in P
      PROVE  n + 1 \in P
  <2>1. ASSUME NEW R \in SUBSET S, Cardinality(R) = n + 1
        PROVE  Sum(f, R) \in Fraction
    <3>1. R # {}
      BY <2>1, FS_EmptySet
    <3> DEFINE x == OneOf(R)
               Q == R \ {x}
    <3>2. x \in R /\ Sum(f, R) = f[x] ++ Sum(f, Q)
      BY <3>1, SumTakesOne
    <3>3. Cardinality(Q) = n /\ Q \in SUBSET S
      <4>1. Cardinality(Q) = Cardinality(R) - 1
        BY <1>0, <3>2, FS_RemoveElement
      <4>2. QED
        BY <2>1, <4>1
    <3> HIDE DEF x, Q
    <3>4. Sum(f, Q) \in Fraction /\ f[x] \in Fraction
      BY <1>2, <3>2, <3>3
    <3>5. QED
      BY <3>2, <3>4, Closed2
  <2>2. QED
    BY <2>1
<1> HIDE DEF P
<1>3. Cardinality(T) \in P
  BY <1>0, <1>1, <1>2, Upward
<1>4. QED
  BY <1>3 DEF P

\* It may take them in any order.
LEMMA SumTakesAny ==
  ASSUME NEW S, IsFiniteSet(S), NEW f \in [S -> Fraction], NEW T \in SUBSET S, NEW x \in T
  PROVE  Sum(f, T) = f[x] ++ Sum(f, T \ {x})
<1> DEFINE P == {n \in Nat : \A R \in SUBSET S : \A z \in R :
                   Cardinality(R) = n => Sum(f, R) = f[z] ++ Sum(f, R \ {z})}
<1>0. \A R \in SUBSET S : IsFiniteSet(R) /\ Cardinality(R) \in Nat /\ Sum(f, R) \in Fraction
  BY FS_Subset, FS_CardinalityType, SumIsFraction
<1>1. 0 \in P
  BY <1>0, FS_EmptySet
<1>2. ASSUME NEW n \in Nat, n \in P
      PROVE  n + 1 \in P
  <2>1. ASSUME NEW R \in SUBSET S, NEW z \in R, Cardinality(R) = n + 1
        PROVE  Sum(f, R) = f[z] ++ Sum(f, R \ {z})
    <3> DEFINE y == OneOf(R)
    <3>1. y \in R /\ Sum(f, R) = f[y] ++ Sum(f, R \ {y})
      BY SumTakesOne
    <3> HIDE DEF y
    <3>2. CASE y = z
      BY <3>1, <3>2
    <3>3. CASE y # z
      <4> DEFINE A == R \ {y}
                 B == R \ {z}
                 C == A \ {z}
      <4>1. C = B \ {y} /\ A \in SUBSET S /\ B \in SUBSET S /\ C \in SUBSET S /\ z \in A /\ y \in B
        BY <3>1, <3>3
      <4>2. Cardinality(A) = n /\ Cardinality(B) = n
        BY <1>0, <2>1, <3>1, FS_RemoveElement
      <4>3. Sum(f, A) = f[z] ++ Sum(f, A \ {z}) /\ Sum(f, B) = f[y] ++ Sum(f, B \ {y})
        BY <1>2, <4>1, <4>2
      <4> DEFINE c == Sum(f, C)
      <4>4. Sum(f, A) = f[z] ++ c /\ Sum(f, B) = f[y] ++ c /\ c \in Fraction
        BY <1>0, <4>1, <4>3
      <4>5. f[y] \in Fraction /\ f[z] \in Fraction
        BY <3>1
      <4> HIDE DEF A, B, C, c
      <4>6. f[y] ++ (f[z] ++ c) = f[z] ++ (f[y] ++ c)
        <5>1. (f[y] ++ f[z]) ++ c = f[y] ++ (f[z] ++ c) /\ (f[z] ++ f[y]) ++ c = f[z] ++ (f[y] ++ c)
              /\ f[y] ++ f[z] = f[z] ++ f[y]
          BY <4>4, <4>5, PlusLaws
        <5>2. QED
          BY <5>1
      <4>7. QED
        BY <3>1, <4>4, <4>6 DEF A, B
    <3>4. QED
      BY <3>2, <3>3
  <2>2. QED
    BY <2>1
<1> HIDE DEF P
<1>3. Cardinality(T) \in P
  BY <1>0, <1>1, <1>2, Upward
<1>4. QED
  BY <1>3 DEF P

LEMMA SumAdds ==
  ASSUME NEW S, IsFiniteSet(S), NEW f \in [S -> Fraction], NEW T \in SUBSET S, NEW x \in S \ T
  PROVE  Sum(f, T \cup {x}) = f[x] ++ Sum(f, T)
<1>1. (T \cup {x}) \ {x} = T /\ T \cup {x} \in SUBSET S
  OBVIOUS
<1>2. Sum(f, T \cup {x}) = f[x] ++ Sum(f, (T \cup {x}) \ {x})
  BY <1>1, SumTakesAny
<1>3. QED
  BY <1>1, <1>2

\* The sum of multiples, of sums, and of what is not zero.
LEMMA SumScaled ==
  ASSUME NEW S, IsFiniteSet(S), NEW f \in [S -> Fraction], NEW c \in Fraction,
         NEW g \in [S -> Fraction], \A x \in S : g[x] = c ** f[x]
  PROVE  Sum(g, S) = c ** Sum(f, S)
<1> DEFINE P == {T \in SUBSET S : Sum(g, T) = c ** Sum(f, T)}
<1>1. {} \in P
  <2>1. Sum(f, {}) = Zero /\ Sum(g, {}) = Zero
    BY SumTakesOne
  <2>2. c ** Zero = Zero
    BY TimesLaws, Constants
  <2>3. QED
    BY <2>1, <2>2
<1>2. ASSUME NEW T \in SUBSET S, NEW x \in S \ T, T \in P
      PROVE  T \cup {x} \in P
  <2>1. Sum(f, T) \in Fraction /\ f[x] \in Fraction
    BY SumIsFraction
  <2>2. Sum(f, T \cup {x}) = f[x] ++ Sum(f, T) /\ Sum(g, T \cup {x}) = g[x] ++ Sum(g, T)
    BY SumAdds
  <2>3. c ** (f[x] ++ Sum(f, T)) = (c ** f[x]) ++ (c ** Sum(f, T))
    BY <2>1, TimesLaws
  <2>4. QED
    BY <1>2, <2>2, <2>3
<1> HIDE DEF P
<1>3. S \in P
  BY <1>1, <1>2, FiniteUpward
<1>4. QED
  BY <1>3 DEF P

LEMMA SumPlus ==
  ASSUME NEW S, IsFiniteSet(S), NEW f \in [S -> Fraction], NEW g \in [S -> Fraction],
         NEW h \in [S -> Fraction], \A x \in S : h[x] = f[x] ++ g[x]
  PROVE  Sum(h, S) = Sum(f, S) ++ Sum(g, S)
<1> DEFINE P == {T \in SUBSET S : Sum(h, T) = Sum(f, T) ++ Sum(g, T)}
<1>1. {} \in P
  <2>1. Sum(f, {}) = Zero /\ Sum(g, {}) = Zero /\ Sum(h, {}) = Zero
    BY SumTakesOne
  <2>2. Zero ++ Zero = Zero
    BY PlusLaws, Constants
  <2>3. QED
    BY <2>1, <2>2
<1>2. ASSUME NEW T \in SUBSET S, NEW x \in S \ T, T \in P
      PROVE  T \cup {x} \in P
  <2> DEFINE a == f[x]
             b == g[x]
             F == Sum(f, T)
             G == Sum(g, T)
  <2>1. a \in Fraction /\ b \in Fraction /\ F \in Fraction /\ G \in Fraction
    BY SumIsFraction
  <2>2. Sum(f, T \cup {x}) = a ++ F /\ Sum(g, T \cup {x}) = b ++ G /\ Sum(h, T \cup {x}) = h[x] ++ Sum(h, T)
    BY SumAdds
  <2>3. h[x] = a ++ b /\ Sum(h, T) = F ++ G
    BY <1>2
  <2> HIDE DEF a, b, F, G
  <2>4. (a ++ b) ++ (F ++ G) = (a ++ F) ++ (b ++ G)
    <3>1. a ++ b \in Fraction /\ F ++ G \in Fraction /\ b ++ G \in Fraction /\ b ++ F \in Fraction
      BY <2>1, Closed2
    <3>2. (a ++ b) ++ (F ++ G) = a ++ (b ++ (F ++ G)) /\ (a ++ F) ++ (b ++ G) = a ++ (F ++ (b ++ G))
      BY <2>1, <3>1, PlusLaws
    <3>3. b ++ (F ++ G) = (b ++ F) ++ G /\ F ++ (b ++ G) = (F ++ b) ++ G /\ b ++ F = F ++ b
      BY <2>1, PlusLaws
    <3>4. QED
      BY <3>2, <3>3
  <2>5. QED
    BY <2>2, <2>3, <2>4
<1> HIDE DEF P
<1>3. S \in P
  BY <1>1, <1>2, FiniteUpward
<1>4. QED
  BY <1>3 DEF P

LEMMA SumHeld ==
  ASSUME NEW S, IsFiniteSet(S), NEW f \in [S -> Fraction], NEW H \in SUBSET S,
         \A x \in S \ H : f[x] = Zero
  PROVE  Sum(f, H) = Sum(f, S)
<1> DEFINE P == {T \in SUBSET S : Sum(f, T \cap H) = Sum(f, T)}
<1>1. {} \in P
  <2>1. {} \cap H = {}
    OBVIOUS
  <2>2. QED
    BY <2>1
<1>2. ASSUME NEW T \in SUBSET S, NEW x \in S \ T, T \in P
      PROVE  T \cup {x} \in P
  <2>1. Sum(f, T \cup {x}) = f[x] ++ Sum(f, T) /\ Sum(f, T) \in Fraction
    BY SumAdds, SumIsFraction
  <2>2. CASE x \in H
    <3>1. (T \cup {x}) \cap H = (T \cap H) \cup {x} /\ T \cap H \in SUBSET S /\ x \in S \ (T \cap H)
      BY <2>2
    <3>2. Sum(f, (T \cap H) \cup {x}) = f[x] ++ Sum(f, T \cap H)
      BY <3>1, SumAdds
    <3>3. QED
      BY <1>2, <2>1, <3>1, <3>2
  <2>3. CASE x \notin H
    <3>1. (T \cup {x}) \cap H = T \cap H /\ f[x] = Zero
      BY <2>3
    <3>2. Zero ++ Sum(f, T) = Sum(f, T) ++ Zero /\ Sum(f, T) ++ Zero = Sum(f, T)
      BY <2>1, Constants, PlusLaws
    <3>3. QED
      BY <1>2, <2>1, <3>1, <3>2
  <2>4. QED
    BY <2>2, <2>3
<1> HIDE DEF P
<1>3. S \in P
  BY <1>1, <1>2, FiniteUpward
<1>4. S \cap H = H
  OBVIOUS
<1>5. QED
  BY <1>3, <1>4 DEF P

-----------------------------------------------------------------------------
(* What a book is worth after a trade. *)

\* What a stock of a target adds to the growth of the book it is traded to.
Change(target, ps, p, e) ==
  [s \in Stock |-> IF target[s] = Zero THEN Zero
                   ELSE target[s] ** (Ratio(Mark(ps, s, e), Mark(ps, s, p)) -- One)]

\* GrowthOf, for any prints and direction.
Grown(target, ps, p, e, ref, dir) ==
  LET held == {s \in Stock : target[s] # Zero}
      stocks == Total([s \in held |-> target[s] ** (Ratio(Mark(ps, s, e), Mark(ps, s, p)) -- One)])
  IN One ++ (IF dir = "long" THEN stocks ELSE Zero -- stocks)
         ++ (IF Remainder(target) = Zero THEN Zero
             ELSE Remainder(target) ** ((ref[e] // ref[p]) -- One))

Target(t) == t \in [Stock -> Fraction] /\ Invested(t) \preceq One
\* The stocks of a target have a price when it is traded, and one to be valued at.
Marks(t, ps, p, e) ==
  \A s \in Stock : t[s] # Zero => Mark(ps, s, p) \in Positive /\ Mark(ps, s, e) \in Positive

LEMMA ChangeIs ==
  ASSUME IsFiniteSet(Stock), NEW t, Target(t), NEW ps, NEW p, NEW e, Marks(t, ps, p, e), NEW c, c = Change(t, ps, p, e)
  PROVE  /\ c \in [Stock -> Fraction]
         /\ \A s \in Stock : t[s] = Zero => c[s] = Zero
         /\ \A s \in Stock : t[s] # Zero => c[s] = t[s] ** (Ratio(Mark(ps, s, e), Mark(ps, s, p)) -- One)
         /\ Total([s \in {s \in Stock : t[s] # Zero} |-> t[s] ** (Ratio(Mark(ps, s, e), Mark(ps, s, p)) -- One)])
              = Sum(c, Stock)
<1> DEFINE Term(s) == t[s] ** (Ratio(Mark(ps, s, e), Mark(ps, s, p)) -- One)
           held == {s \in Stock : t[s] # Zero}
<1>1. c = [s \in Stock |-> IF t[s] = Zero THEN Zero ELSE Term(s)]
  BY DEF Change
<1>2. \A s \in held : Term(s) \in Fraction
  <2> TAKE s \in held
  <2>1. t[s] \in Fraction /\ Mark(ps, s, e) \in Int /\ Mark(ps, s, p) \in Positive
    BY DEF Target, Marks, Positive
  <2>2. Ratio(Mark(ps, s, e), Mark(ps, s, p)) \in Fraction
    BY <2>1, RatioFraction
  <2>3. QED
    BY <2>1, <2>2, Closed2, Constants
<1>3. c \in [Stock -> Fraction]
  <2> HIDE DEF Term
  <2>1. \A s \in Stock : (IF t[s] = Zero THEN Zero ELSE Term(s)) \in Fraction
    BY <1>2, Constants
  <2>2. QED
    BY <1>1, <2>1
<1>4. \A s \in Stock : (t[s] = Zero => c[s] = Zero) /\ (t[s] # Zero => c[s] = Term(s))
  <2> HIDE DEF Term
  <2>1. QED
    BY <1>1
<1>5. [s \in held |-> Term(s)] = [s \in held |-> c[s]]
  <2> HIDE DEF Term
  <2>1. QED
    BY <1>4
<1>6. Sum(c, held) = Sum(c, Stock)
  <2>1. held \in SUBSET Stock /\ \A s \in Stock \ held : c[s] = Zero
    BY <1>4
  <2> HIDE DEF held
  <2>2. QED
    BY <1>3, <2>1, SumHeld
<1>7. Total([s \in held |-> Term(s)]) = Sum(c, Stock)
  BY <1>5, <1>6 DEF Sum
<1>8. QED
  BY <1>3, <1>4, <1>7

\* The shares of a target add up to the book.
LEMMA SharesAreWhole ==
  ASSUME IsFiniteSet(Stock), NEW t, Target(t)
  PROVE  /\ Invested(t) = Sum(t, Stock) /\ Invested(t) \in Fraction
         /\ Remainder(t) \in Fraction
         /\ Invested(t) ++ Remainder(t) = One
<1>1. Invested(t) = Sum(t, Stock)
  BY DEF Invested, Sum
<1>2. t \in [Stock -> Fraction] /\ Stock \in SUBSET Stock
  BY DEF Target
<1>3. Invested(t) \in Fraction
  BY <1>1, <1>2, SumIsFraction
<1>4. Remainder(t) = One -- Invested(t)
  BY DEF Remainder, Target
<1>5. QED
  BY <1>1, <1>3, <1>4, Closed2, AddBack, Constants

\* The price of what a book traded to a target holds of a stock, or of what it is
\* short, at a later boundary.
LEMMA HoldingIs ==
  ASSUME NEW x \in Fraction, NEW nav \in Fraction, NEW p \in Positive, NEW m \in Positive,
         NEW u, u = (nav ** x) // Ratio(p, 1), NEW c, c = x ** (Ratio(m, p) -- One)
  PROVE  /\ u \in Fraction
         /\ u ** Ratio(m, 1) = nav ** (x ++ c)
         /\ u ** Ratio(p - m, 1) = nav ** (MinusOne ** c)
<1>1. m \in Int /\ p \in Int /\ p > 0
  BY DEF Positive
<1>2. Ratio(p, 1) = <<p, 1>> /\ Ratio(p, 1) \in Fraction /\ Ratio(p, 1)[1] > 0
  <2>1. Ratio(p, 1) = <<p, 1>> /\ <<p, 1>> \in Fraction
    BY <1>1, WholeIsFraction
  <2>2. <<p, 1>>[1] = p
    OBVIOUS
  <2>3. QED
    BY <1>1, <2>1, <2>2
<1> DEFINE y == nav ** x
           r == Ratio(m, p) -- One
<1>3. y \in Fraction
  BY Closed2
<1>4. u \in Fraction
  BY <1>2, <1>3, ClosedOver
<1>5. Ratio(m, p) \in Fraction
      /\ (y // Ratio(p, 1)) ** Ratio(m, 1) = y ++ (y ** r)
      /\ (y // Ratio(p, 1)) ** Ratio(p - m, 1) = MinusOne ** (y ** r)
  <2> HIDE DEF y
  <2>1. QED
    BY <1>1, <1>3, Marked
<1>6. r \in Fraction
  BY <1>5, Closed2, Constants
<1>7. c = x ** r /\ u = y // Ratio(p, 1)
  OBVIOUS
<1> HIDE DEF r
<1>8. c \in Fraction /\ y ** r = nav ** c
  BY <1>6, <1>7, Closed2, TimesLaws
<1> HIDE DEF y
<1>9. y ++ (nav ** c) = nav ** (x ++ c)
  BY <1>8, TimesLaws DEF y
<1>10. MinusOne ** (nav ** c) = nav ** (MinusOne ** c)
  <2>1. MinusOne \in Fraction
    BY Constants
  <2>2. (MinusOne ** nav) ** c = MinusOne ** (nav ** c) /\ (nav ** MinusOne) ** c = nav ** (MinusOne ** c)
        /\ MinusOne ** nav = nav ** MinusOne
    BY <1>8, <2>1, TimesLaws
  <2>3. QED
    BY <2>2
<1>11. QED
  BY <1>4, <1>5, <1>7, <1>8, <1>9, <1>10
\* A reference that is worth something when the book trades, or has no part in it.
Refers(t, ref, p, e) ==
  /\ ref[e] \in Fraction
  /\ Remainder(t) # Zero => ref[p] \in Fraction /\ ref[p][1] > 0

LEMMA ReferenceIs ==
  ASSUME NEW x \in Fraction, NEW nav \in Fraction, NEW a \in Fraction, a[1] > 0, NEW b \in Fraction
  PROVE  /\ b // a \in Fraction
         /\ ((nav ** x) // a) ** b = nav ** (x ++ (x ** ((b // a) -- One)))
<1>1. b // a \in Fraction /\ nav ** x \in Fraction
  BY ClosedOver, Closed2
<1>2. ((nav ** x) // a) ** b = (nav ** x) ** (b // a)
  BY <1>1, Exchange
<1> DEFINE r == b // a
<1> HIDE DEF r
<1>3. r \in Fraction
  BY <1>1 DEF r
<1>4. (nav ** x) ** r = nav ** (x ** r) /\ x ** r = x ++ (x ** (r -- One))
  BY <1>3, TimesLaws, Growth
<1>5. QED
  BY <1>1, <1>2, <1>4 DEF r

\* Between trades the equity of a book grows by the weighted returns of what it
\* holds.
LEMMA EquityIs ==
  ASSUME IsFiniteSet(Stock), NEW t, Target(t), NEW nav \in Fraction, NEW ps, NEW ref, NEW p, NEW e,
         NEW dir, Marks(t, ps, p, e), Refers(t, ref, p, e), NEW book, book = Trade(t, nav, ps, ref, p)
  PROVE  /\ Grown(t, ps, p, e, ref, dir) \in Fraction
         /\ Equity(book, ps, ref, e, dir) = nav ** Grown(t, ps, p, e, ref, dir)
<1> DEFINE c == Change(t, ps, p, e)
           rem == Remainder(t)
           inv == Invested(t)
           held == {s \in Stock : book.units[s] # Zero}
           Value(s) == book.units[s] ** Ratio(Mark(ps, s, e), 1)
           Profit(s) == book.units[s] ** Ratio(book.entry[s] - Mark(ps, s, e), 1)
           values == [s \in Stock |-> IF t[s] = Zero THEN Zero ELSE Value(s)]
           profits == [s \in Stock |-> IF t[s] = Zero THEN Zero ELSE Profit(s)]
           total == Sum(c, Stock)
           refs == IF rem = Zero THEN Zero ELSE rem ** ((ref[e] // ref[p]) -- One)
<1>1. /\ c \in [Stock -> Fraction]
      /\ \A s \in Stock : t[s] = Zero => c[s] = Zero
      /\ \A s \in Stock : t[s] # Zero => c[s] = t[s] ** (Ratio(Mark(ps, s, e), Mark(ps, s, p)) -- One)
      /\ Total([s \in {s \in Stock : t[s] # Zero} |-> t[s] ** (Ratio(Mark(ps, s, e), Mark(ps, s, p)) -- One)]) = total
  BY ChangeIs
<1>2. inv = Sum(t, Stock) /\ inv \in Fraction /\ rem \in Fraction /\ inv ++ rem = One
  BY SharesAreWhole
<1>3. t \in [Stock -> Fraction]
  BY DEF Target
<1>4. /\ \A s \in Stock : book.units[s] = IF t[s] = Zero THEN Zero ELSE (nav ** t[s]) // Ratio(Mark(ps, s, p), 1)
      /\ \A s \in Stock : book.entry[s] = Mark(ps, s, p)
      /\ book.reference = IF rem = Zero THEN Zero ELSE (nav ** rem) // ref[p]
      /\ book.anchor = nav ** inv
  BY DEF Trade
<1>5. total \in Fraction
  <2>1. Stock \in SUBSET Stock
    OBVIOUS
  <2> HIDE DEF c
  <2>2. QED
    BY <1>1, <2>1, SumIsFraction
<1>6. Grown(t, ps, p, e, ref, dir) = (One ++ (IF dir = "long" THEN total ELSE Zero -- total)) ++ refs
  BY <1>1 DEF Grown
<1>7. Equity(book, ps, ref, e, dir)
        = (book.reference ** ref[e])
            ++ IF dir = "long" THEN Total([s \in held |-> Value(s)]) ELSE book.anchor ++ Total([s \in held |-> Profit(s)])
  BY DEF Equity
<1>8. ASSUME NEW s \in Stock, t[s] # Zero
      PROVE  /\ book.units[s] \in Fraction
             /\ Value(s) = nav ** (t[s] ++ c[s]) /\ Profit(s) = nav ** (MinusOne ** c[s])
  <2>1. Mark(ps, s, p) \in Positive /\ Mark(ps, s, e) \in Positive /\ t[s] \in Fraction
    BY <1>3, <1>8 DEF Marks
  <2>2. book.units[s] = (nav ** t[s]) // Ratio(Mark(ps, s, p), 1) /\ book.entry[s] = Mark(ps, s, p)
    BY <1>4, <1>8
  <2>3. c[s] = t[s] ** (Ratio(Mark(ps, s, e), Mark(ps, s, p)) -- One)
    BY <1>1, <1>8
  <2> HIDE DEF c
  <2>4. QED
    BY <2>1, <2>2, <2>3, HoldingIs
<1>9. \A s \in Stock : t[s] = Zero => book.units[s] = Zero
  BY <1>4
<1> HIDE DEF c, rem, inv, Value, Profit, refs, total
<1>10. ASSUME NEW s \in Stock
       PROVE  values[s] = nav ** (t[s] ++ c[s]) /\ profits[s] = nav ** (MinusOne ** c[s])
  <2>1. CASE t[s] = Zero
    <3>1. c[s] = Zero /\ values[s] = Zero /\ profits[s] = Zero
      BY <1>1, <2>1
    <3>2. Zero ++ Zero = Zero /\ nav ** Zero = Zero /\ MinusOne ** Zero = Zero
      BY Constants, PlusLaws, TimesLaws
    <3>3. QED
      BY <2>1, <3>1, <3>2
  <2>2. CASE t[s] # Zero
    BY <1>8, <2>2
  <2>3. QED
    BY <2>1, <2>2
<1>11. ASSUME NEW s \in Stock
       PROVE  /\ t[s] ++ c[s] \in Fraction /\ MinusOne ** c[s] \in Fraction
              /\ values[s] \in Fraction /\ profits[s] \in Fraction
  <2>1. t[s] ++ c[s] \in Fraction /\ MinusOne ** c[s] \in Fraction
    BY <1>1, <1>3, Closed2, Constants
  <2>2. QED
    BY <1>10, <2>1, Closed2
<1>12. values \in [Stock -> Fraction] /\ profits \in [Stock -> Fraction]
  BY <1>11
<1>13. ASSUME NEW s \in Stock, book.units[s] = Zero
       PROVE  values[s] = Zero /\ profits[s] = Zero
  <2>1. CASE t[s] = Zero
    BY <2>1
  <2>2. CASE t[s] # Zero
    <3>1. values[s] = Zero ** Ratio(Mark(ps, s, e), 1) /\ profits[s] = Zero ** Ratio(book.entry[s] - Mark(ps, s, e), 1)
      BY <1>13, <2>2 DEF Value, Profit
    <3>2. Mark(ps, s, e) \in Int /\ book.entry[s] - Mark(ps, s, e) \in Int
      BY <1>4, <2>2 DEF Marks, Positive
    <3>3. Ratio(Mark(ps, s, e), 1) \in Fraction /\ Ratio(book.entry[s] - Mark(ps, s, e), 1) \in Fraction
      BY <3>2, WholeIsFraction
    <3>4. \A y \in Fraction : Zero ** y = Zero
      BY Constants, TimesLaws
    <3>5. QED
      BY <3>1, <3>3, <3>4
  <2>3. QED
    BY <2>1, <2>2
<1>14. [s \in held |-> Value(s)] = [s \in held |-> values[s]] /\ [s \in held |-> Profit(s)] = [s \in held |-> profits[s]]
  BY <1>9
<1> HIDE DEF values, profits
<1>15. Total([s \in held |-> Value(s)]) = Sum(values, Stock) /\ Total([s \in held |-> Profit(s)]) = Sum(profits, Stock)
  <2>1. held \in SUBSET Stock /\ \A s \in Stock \ held : values[s] = Zero /\ profits[s] = Zero
    BY <1>13
  <2> HIDE DEF held
  <2>2. Sum(values, held) = Sum(values, Stock) /\ Sum(profits, held) = Sum(profits, Stock)
    BY <1>12, <2>1, SumHeld
  <2>3. QED
    BY <1>14, <2>2 DEF Sum
<1>16. Sum(values, Stock) = nav ** (inv ++ total)
  <2> DEFINE both == [s \in Stock |-> t[s] ++ c[s]]
  <2>1. both \in [Stock -> Fraction] /\ \A s \in Stock : both[s] = t[s] ++ c[s]
    BY <1>11
  <2> HIDE DEF both
  <2>2. \A s \in Stock : values[s] = nav ** both[s]
    BY <1>10, <2>1
  <2>3. Sum(values, Stock) = nav ** Sum(both, Stock)
    BY <1>12, <2>1, <2>2, SumScaled
  <2>4. Sum(both, Stock) = Sum(t, Stock) ++ Sum(c, Stock)
    BY <1>1, <1>3, <2>1, SumPlus
  <2>5. QED
    BY <1>2, <2>3, <2>4 DEF total
<1>17. Sum(profits, Stock) = nav ** (MinusOne ** total)
  <2> DEFINE less == [s \in Stock |-> MinusOne ** c[s]]
  <2>1. less \in [Stock -> Fraction] /\ \A s \in Stock : less[s] = MinusOne ** c[s]
    BY <1>11
  <2> HIDE DEF less
  <2>2. \A s \in Stock : profits[s] = nav ** less[s]
    BY <1>10, <2>1
  <2>3. Sum(profits, Stock) = nav ** Sum(less, Stock)
    BY <1>12, <2>1, <2>2, SumScaled
  <2>4. Sum(less, Stock) = MinusOne ** Sum(c, Stock)
    BY <1>1, <2>1, SumScaled, Constants
  <2>5. QED
    BY <2>3, <2>4 DEF total
<1>18. book.reference ** ref[e] = nav ** (rem ++ refs) /\ refs \in Fraction
  <2>1. CASE rem = Zero
    <3>1. refs = Zero /\ book.reference = Zero
      BY <1>4, <2>1 DEF refs
    <3>2. Zero ++ Zero = Zero /\ nav ** Zero = Zero
      BY Constants, PlusLaws, TimesLaws
    <3>3. Zero ** ref[e] = Zero
      BY Constants, TimesLaws DEF Refers
    <3>4. QED
      BY <2>1, <3>1, <3>2, <3>3, Constants
  <2>2. CASE rem # Zero
    <3>1. ref[p] \in Fraction /\ ref[p][1] > 0 /\ ref[e] \in Fraction
      BY <2>2 DEF Refers, rem
    <3>2. refs = rem ** ((ref[e] // ref[p]) -- One) /\ book.reference = (nav ** rem) // ref[p]
      BY <1>4, <2>2 DEF refs
    <3>3. ref[e] // ref[p] \in Fraction /\ ((nav ** rem) // ref[p]) ** ref[e] = nav ** (rem ++ (rem ** ((ref[e] // ref[p]) -- One)))
      BY <1>2, <3>1, ReferenceIs
    <3>4. refs \in Fraction
      BY <1>2, <3>2, <3>3, Closed2, Constants
    <3>5. QED
      BY <3>2, <3>3, <3>4
  <2>3. QED
    BY <2>1, <2>2
<1> DEFINE gain == IF dir = "long" THEN total ELSE MinusOne ** total
<1>19. gain \in Fraction /\ (IF dir = "long" THEN total ELSE Zero -- total) = gain
  <2>1. MinusOne ** total \in Fraction /\ Zero -- total = Zero ++ (MinusOne ** total)
    BY <1>5, Constants, Closed2, TimesLaws
  <2>2. Zero ++ (MinusOne ** total) = MinusOne ** total
    BY <2>1, Constants, PlusLaws
  <2>3. QED
    BY <1>5, <2>1, <2>2
<1>20. (IF dir = "long" THEN Sum(values, Stock) ELSE book.anchor ++ Sum(profits, Stock)) = nav ** (inv ++ gain)
  <2>1. MinusOne ** total \in Fraction
    BY <1>5, Constants, Closed2
  <2>2. (nav ** inv) ++ (nav ** (MinusOne ** total)) = nav ** (inv ++ (MinusOne ** total))
    BY <1>2, <2>1, TimesLaws
  <2>3. QED
    BY <1>4, <1>16, <1>17, <2>2
<1> HIDE DEF gain, held
<1>21. Equity(book, ps, ref, e, dir) = (nav ** (rem ++ refs)) ++ (nav ** (inv ++ gain))
  BY <1>7, <1>15, <1>18, <1>20
<1>22. Grown(t, ps, p, e, ref, dir) = (One ++ gain) ++ refs
  BY <1>6, <1>19
<1>23. rem ++ refs \in Fraction /\ inv ++ gain \in Fraction /\ One ++ gain \in Fraction
  BY <1>2, <1>18, <1>19, Closed2, Constants
<1>24. (nav ** (rem ++ refs)) ++ (nav ** (inv ++ gain)) = nav ** ((rem ++ refs) ++ (inv ++ gain))
  BY <1>23, TimesLaws
<1>25. (rem ++ refs) ++ (inv ++ gain) = (One ++ gain) ++ refs
  <2>1. (rem ++ refs) ++ (inv ++ gain) = (inv ++ gain) ++ (rem ++ refs)
    BY <1>23, PlusLaws
  <2>2. (inv ++ gain) ++ (rem ++ refs) = ((inv ++ gain) ++ rem) ++ refs
    BY <1>2, <1>18, <1>23, PlusLaws
  <2>3. (inv ++ gain) ++ rem = (inv ++ rem) ++ gain
    <3>1. (inv ++ gain) ++ rem = inv ++ (gain ++ rem) /\ (inv ++ rem) ++ gain = inv ++ (rem ++ gain) /\ gain ++ rem = rem ++ gain
      BY <1>2, <1>19, PlusLaws
    <3>2. QED
      BY <3>1
  <2>4. QED
    BY <1>2, <2>1, <2>2, <2>3
<1>26. QED
  BY <1>18, <1>21, <1>22, <1>23, <1>24, <1>25, Closed2

-----------------------------------------------------------------------------
(* Prints and the reference of a run. *)

\* Prints are positive numbers, where there are any.
LEMMA RowsArePrices ==
  ASSUME NEW ps \in Seq(Row), NEW e \in 1..Len(ps), NEW s \in Symbol, ps[e][s] # None
  PROVE  ps[e][s] \in Positive
<1>1. ps[e] \in Row
  OBVIOUS
<1>2. ps[e][s] \in (UNION {PricesOf[x] : x \in Symbol}) \cup {None}
  BY <1>1 DEF Row
<1>3. PICK x \in Symbol : ps[e][s] \in PricesOf[x]
  BY <1>2
<1>4. QED
  BY <1>3, PricesAssumption DEF Positive

\* A stock that had a price keeps one.
LEMMA MarksStay ==
  ASSUME NEW ps \in Seq(Row), NEW s \in Stock, NEW p \in 1..Len(ps), NEW e \in p..Len(ps),
         Mark(ps, s, p) # None, ps[e][Spy] # None
  PROVE  Mark(ps, s, p) \in Positive /\ Mark(ps, s, e) \in Positive
<1>1. s \in Symbol /\ Len(ps) \in Nat /\ e \in 1..Len(ps)
  BY DEF Symbol
<1> DEFINE Earlier(n) == {f \in Observed(ps, s) : f <= n}
<1>2. ASSUME NEW n \in 1..Len(ps), Mark(ps, s, n) # None
      PROVE  Mark(ps, s, n) \in Positive /\ Earlier(n) # {}
  <2>1. CASE ps[n][s] # None \/ s = Spy \/ Earlier(n) = {}
    <3>1. Mark(ps, s, n) = ps[n][s]
      BY <2>1 DEF Mark
    <3>2. n \in Earlier(n)
      BY <1>2, <3>1 DEF Observed
    <3>3. QED
      BY <1>1, <1>2, <3>1, <3>2, RowsArePrices
  <2>2. CASE ~(ps[n][s] # None \/ s = Spy \/ Earlier(n) = {})
    <3>1. Mark(ps, s, n) = ps[Max(Earlier(n))][s]
      BY <2>2 DEF Mark
    <3>2. Earlier(n) \in SUBSET Nat /\ Earlier(n) # {} /\ n \in Nat /\ \A f \in Earlier(n) : f <= n
      BY <2>2 DEF Observed
    <3> DEFINE E == Earlier(n)
    <3> HIDE DEF E
    <3>3. E \in SUBSET Nat /\ E # {} /\ n \in Nat /\ \A f \in E : f <= n
      BY <3>2 DEF E
    <3>4. Max(E) \in E
      BY <3>3, MaxIs
    <3>5. Max(E) \in 1..Len(ps) /\ ps[Max(E)][s] # None
      BY <3>4 DEF E, Observed
    <3>6. QED
      BY <1>1, <3>1, <3>2, <3>5, RowsArePrices DEF E
  <2>3. QED
    BY <2>1, <2>2
<1>3. Earlier(p) # {} /\ Mark(ps, s, p) \in Positive
  BY <1>2
<1>4. Earlier(e) # {}
  BY <1>1, <1>3 DEF Observed
<1>5. Mark(ps, s, e) # None
  <2>1. CASE ps[e][s] # None \/ s = Spy
    BY <2>1 DEF Mark
  <2>2. CASE ~(ps[e][s] # None \/ s = Spy)
    <3>1. Mark(ps, s, e) = ps[Max(Earlier(e))][s]
      BY <1>4, <2>2 DEF Mark
    <3> DEFINE E == Earlier(e)
    <3>2. E \in SUBSET Nat /\ E # {} /\ e \in Nat /\ \A f \in E : f <= e
      BY <1>1, <1>4 DEF Observed
    <3> HIDE DEF E
    <3>3. Max(E) \in E
      BY <3>2, MaxIs
    <3>4. QED
      BY <3>1, <3>3 DEF E, Observed
  <2>3. QED
    BY <2>1, <2>2
<1>6. QED
  BY <1>1, <1>2, <1>3, <1>5

\* The reference, and what it settled at, are never below zero.
Standing(u) ==
  /\ u.nav \in Fraction /\ u.nav[1] >= 0
  /\ u.anchor \in Fraction /\ u.entry \in Positive

LEMMA RebasingStands ==
  ASSUME NEW ps \in Seq(Row), NEW start \in 1..Len(ps), NEW end \in start..Len(ps), NEW dir,
         Unbroken(ps, start, end)
  PROVE  \A e \in start..end :
           /\ Standing(Rebasing(ps, start, end, dir)[e])
           /\ Rebase(ps, start, end, dir)[e] = Rebasing(ps, start, end, dir)[e].nav
<1> DEFINE at == Rebasing(ps, start, end, dir)
           P == {n \in start..end : Standing(at[n])}
<1>1. start \in Nat /\ end \in Nat /\ start <= end /\ Len(ps) \in Nat
  OBVIOUS
<1>2. IsRebasing(at, Unmoved(ps, start, end), ps, start, end, dir)
      /\ Rebase(ps, start, end, dir) = [e \in start..end |-> at[e].nav]
  BY <1>1, RebasingIs, RebaseIs
<1> HIDE DEF at
<1>3. \A e \in start..end : ps[e][Spy] \in Positive
  <2> TAKE e \in start..end
  <2>1. e \in 1..Len(ps) /\ Spy \in Symbol /\ ps[e][Spy] # None
    BY <1>1 DEF Symbol, Unbroken
  <2>2. QED
    BY <2>1, RowsArePrices
<1>4. ASSUME NEW u, u.anchor \in Fraction, u.entry \in Positive, NEW price \in Positive, NEW e,
             NEW r, r = Rebased(u, price, e, dir)
      PROVE  Standing(r)
  <2> DEFINE growth == Ratio(price, u.entry)
             grown == IF dir = "long" THEN growth ELSE u.anchor ** (Two -- growth)
             nav == IF u.nav = Zero \/ grown \preceq Zero THEN Zero ELSE grown
  <2>1. growth \in Fraction
    BY <1>4, RatioFraction DEF Positive
  <2>2. grown \in Fraction
    <3> HIDE DEF growth
    <3>1. u.anchor ** (Two -- growth) \in Fraction
      BY <1>4, <2>1, Closed2, Constants
    <3>2. QED
      BY <2>1, <3>1
  <2>3. r.nav = nav /\ r.anchor \in {nav, u.anchor} /\ r.entry \in {price, u.entry}
    BY <1>4 DEF Rebased
  <2> HIDE DEF grown
  <2>4. nav \in Fraction /\ nav[1] >= 0
    <3>1. Zero \in Fraction /\ Zero[1] = 0
      BY Constants DEF Zero
    <3>2. grown[1] \in Int /\ (grown \preceq Zero <=> grown[1] <= 0)
      BY <2>2, Terms, Signs
    <3>3. QED
      BY <2>2, <3>1, <3>2
  <2> HIDE DEF nav
  <2>5. QED
    BY <1>4, <2>3, <2>4 DEF Standing
<1>5. start \in P
  <2>1. at[start] = Rebased(Unmoved(ps, start, end), ps[start][Spy], start, dir)
    BY <1>1, <1>2 DEF IsRebasing
  <2>2. Unmoved(ps, start, end).anchor \in Fraction /\ Unmoved(ps, start, end).entry \in Positive
    BY <1>1, <1>3, Constants DEF Unmoved
  <2>3. ps[start][Spy] \in Positive /\ start \in start..end
    BY <1>1, <1>3
  <2>4. QED
    BY <1>4, <2>1, <2>2, <2>3
<1>6. ASSUME NEW n \in start..end, n + 1 \in start..end, n \in P
      PROVE  n + 1 \in P
  <2>1. at[n + 1] = Rebased(at[n], ps[n + 1][Spy], n + 1, dir)
    <3>1. n + 1 # start /\ (n + 1) - 1 = n
      BY <1>1, <1>6
    <3>2. QED
      BY <1>2, <1>6, <3>1 DEF IsRebasing
  <2>2. ps[n + 1][Spy] \in Positive
    BY <1>3, <1>6
  <2>3. QED
    BY <1>4, <1>6, <2>1, <2>2 DEF Standing
<1> HIDE DEF P
<1>7. \A n \in start..end : n \in P
  BY <1>1, <1>5, <1>6, UpTo
<1>8. \A e \in start..end : Standing(at[e]) /\ Rebase(ps, start, end, dir)[e] = at[e].nav
  BY <1>2, <1>7 DEF P
<1>9. QED
  BY <1>8 DEF at

LEMMA ReferenceStands ==
  ASSUME NEW ps \in Seq(Row), NEW start \in 1..Len(ps), NEW end \in start..Len(ps), NEW dir,
         Unbroken(ps, start, end)
  PROVE  \A e \in start..end : Rebase(ps, start, end, dir)[e] \in Fraction /\ Rebase(ps, start, end, dir)[e][1] >= 0
BY RebasingStands DEF Standing

-----------------------------------------------------------------------------
(* How a run moves. *)

\* The two ways in which a run comes to a boundary without error.
Waits(r, run, nav, e, trades) ==
  /\ nav = Zero \/ e \notin DOMAIN trades
  /\ r.lost = (nav = Zero) /\ r.book = run.book /\ r.traded = run.traded
Deals(r, run, nav, e, trades, ps, ref) ==
  /\ nav # Zero /\ e \in DOMAIN trades /\ Priceable(trades[e], ps, ref, e)
  /\ r.lost = run.lost /\ r.book = Trade(trades[e], nav, ps, ref, e) /\ r.traded = run.traded \cup {e}

LEMMA AdvanceMoves ==
  ASSUME NEW run, IsRun(run), NEW nav, NEW e, NEW trades, NEW ps, NEW ref,
         NEW r, r = Advance(run, nav, e, trades, ps, ref), r.ok
  PROVE  /\ run.ok /\ r.nav = [run.nav EXCEPT ![e] = nav]
         /\ Waits(r, run, nav, e, trades) \/ Deals(r, run, nav, e, trades, ps, ref)
<1> DEFINE held == nav = Zero \/ e \notin DOMAIN trades
           fine == Priceable(trades[e], ps, ref, e)
           book == Trade(trades[e], nav, ps, ref, e)
           navs == [run.nav EXCEPT ![e] = nav]
           traded == run.traded \cup {e}
           gone == nav = Zero
<1>1. r = IF ~run.ok THEN run
          ELSE IF held THEN [run EXCEPT !.nav = navs, !.lost = gone]
          ELSE IF ~fine THEN [run EXCEPT !.ok = FALSE]
          ELSE [run EXCEPT !.nav = navs, !.traded = traded, !.book = book]
  BY DEF Advance
<1>2. held <=> (nav = Zero \/ e \notin DOMAIN trades)
  OBVIOUS
<1> HIDE DEF held, fine, book, navs, traded, gone
<1>3. run = [ok |-> run.ok, lost |-> run.lost, nav |-> run.nav, book |-> run.book, traded |-> run.traded]
  BY DEF IsRun
<1>4. run.ok
  BY <1>1
<1>5. held \/ fine
  <2> SUFFICES ASSUME ~held, ~fine PROVE FALSE
    OBVIOUS
  <2>1. r = [run EXCEPT !.ok = FALSE]
    BY <1>1, <1>4
  <2>2. r = [ok |-> FALSE, lost |-> run.lost, nav |-> run.nav, book |-> run.book, traded |-> run.traded]
    BY <1>3, <2>1
  <2>3. QED
    BY <2>2
<1>6. CASE held
  <2>1. r = [run EXCEPT !.nav = navs, !.lost = gone]
    BY <1>1, <1>4, <1>6
  <2>2. r = [ok |-> run.ok, lost |-> gone, nav |-> navs, book |-> run.book, traded |-> run.traded]
    BY <1>3, <2>1
  <2>3. r.lost = gone /\ r.nav = navs /\ r.book = run.book /\ r.traded = run.traded
    BY <2>2
  <2>4. QED
    BY <1>2, <1>4, <1>6, <2>3 DEF Waits, navs, gone
<1>7. CASE ~held
  <2>1. r = [run EXCEPT !.nav = navs, !.traded = traded, !.book = book]
    BY <1>1, <1>4, <1>5, <1>7
  <2>2. r = [ok |-> run.ok, lost |-> run.lost, nav |-> navs, book |-> book, traded |-> traded]
    BY <1>3, <2>1
  <2>3. r.lost = run.lost /\ r.nav = navs /\ r.book = book /\ r.traded = traded
    BY <2>2
  <2>4. QED
    BY <1>2, <1>4, <1>5, <1>7, <2>3 DEF Deals, navs, book, traded, fine
<1>8. QED
  BY <1>6, <1>7

\* A run whose latest trade was at boundary p.
Holding(r, p, n, trades, ps, ref, first) ==
  /\ p \in first..n /\ p \in r.traded /\ r.traded \subseteq first..p
  /\ p \in DOMAIN trades /\ Priceable(trades[p], ps, ref, p)
  /\ r.nav[p] \in Fraction /\ r.nav[p][1] > 0
  /\ r.book = Trade(trades[p], r.nav[p], ps, ref, p)
  /\ r.nav[n] \in Fraction /\ r.nav[n][1] >= 0
  /\ r.lost = (r.nav[n] = Zero)

\* What a book came to, from its latest trade.
Compounded(r, run, p, n, trades, ps, ref, dir) ==
  LET growth == Grown(trades[p], ps, p, n, ref, dir)
  IN r.nav[n] = IF run.nav[n - 1] = Zero \/ growth \preceq Zero THEN Zero ELSE run.nav[p] ** growth

\* What a holding that stays good is valued with.
Valuable(trades, ps, ref, p, n) ==
  Priceable(trades[p], ps, ref, p) => Marks(trades[p], ps, p, n) /\ Refers(trades[p], ref, p, n)

LEMMA HoldingCarries ==
  ASSUME IsFiniteSet(Stock), NEW first \in Nat, NEW a \in Nat, NEW n \in first..a, n + 1 \in first..a,
         NEW run, IsRun(run), run.nav = [e \in first..a |-> run.nav[e]],
         NEW trades, \A e \in DOMAIN trades : Target(trades[e]),
         NEW ps, NEW ref, NEW dir, NEW p, Holding(run, p, n, trades, ps, ref, first),
         Valuable(trades, ps, ref, p, n + 1),
         NEW r, r = Carried(run, n + 1, trades, ps, ref, dir), r.ok
  PROVE  /\ run.ok
         /\ Compounded(r, run, p, n + 1, trades, ps, ref, dir)
         /\ \E q : Holding(r, q, n + 1, trades, ps, ref, first)
<1> DEFINE e == n + 1
           t == trades[p]
           base == run.nav[p]
           growth == Grown(t, ps, p, e, ref, dir)
           nav == Came(run, e, ps, ref, dir)
<1>1. /\ p \in first..n /\ p \in run.traded /\ run.traded \subseteq first..p
      /\ p \in DOMAIN trades /\ Priceable(t, ps, ref, p)
      /\ base \in Fraction /\ base[1] > 0 /\ run.book = Trade(t, base, ps, ref, p)
      /\ run.nav[n] \in Fraction /\ run.nav[n][1] >= 0 /\ run.lost = (run.nav[n] = Zero)
  BY DEF Holding
<1>2. Target(t) /\ Marks(t, ps, p, e) /\ Refers(t, ref, p, e)
  BY <1>1 DEF Valuable
<1>3. growth \in Fraction /\ Equity(run.book, ps, ref, e, dir) = base ** growth
  <2> HIDE DEF t, base, e
  <2>1. QED
    BY <1>1, <1>2, EquityIs
<1>4. r = Advance(run, nav, e, trades, ps, ref)
  BY CarriedIs
<1>5. nav = IF run.lost \/ base ** growth \preceq Zero THEN Zero ELSE base ** growth
  <2> HIDE DEF growth, base
  <2>1. QED
    BY <1>3 DEF Came
<1> HIDE DEF nav, growth, base, t
<1>6. base ** growth \in Fraction /\ (base ** growth \preceq Zero <=> growth \preceq Zero)
      /\ (base ** growth \preceq Zero <=> (base ** growth)[1] <= 0) /\ (base ** growth)[1] \in Int
  BY <1>1, <1>3, Closed2, TimesSign, Signs, Terms
<1>7. nav = IF run.nav[n] = Zero \/ growth \preceq Zero THEN Zero ELSE base ** growth
  BY <1>1, <1>5, <1>6
<1>8. nav \in Fraction /\ nav[1] >= 0 /\ (nav # Zero => nav[1] > 0)
  <2>1. Zero \in Fraction /\ Zero[1] = 0
    BY Constants DEF Zero
  <2>2. CASE run.nav[n] = Zero \/ growth \preceq Zero
    BY <1>7, <2>1, <2>2
  <2>3. CASE ~(run.nav[n] = Zero \/ growth \preceq Zero)
    BY <1>6, <1>7, <2>3
  <2>4. QED
    BY <2>2, <2>3
<1>9. /\ run.ok /\ r.nav = [run.nav EXCEPT ![e] = nav]
      /\ Waits(r, run, nav, e, trades) \/ Deals(r, run, nav, e, trades, ps, ref)
  BY <1>4, AdvanceMoves
<1>10. e \in first..a /\ p \in first..a /\ p # e /\ e - 1 = n /\ e \in first..e /\ p \in first..e
  BY <1>1
<1> HIDE DEF e
<1>11. r.nav[e] = nav /\ r.nav[p] = base
  BY <1>9, <1>10 DEF base
<1>12. Compounded(r, run, p, e, trades, ps, ref, dir)
  BY <1>7, <1>10, <1>11 DEF Compounded, growth, base, t
<1>13. CASE Waits(r, run, nav, e, trades)
  <2>1. Holding(r, p, e, trades, ps, ref, first)
    BY <1>1, <1>8, <1>10, <1>11, <1>13 DEF Holding, Waits, t
  <2>2. QED
    BY <1>9, <1>12, <2>1 DEF e
<1>14. CASE Deals(r, run, nav, e, trades, ps, ref)
  <2>1. r.traded \subseteq first..e /\ e \in r.traded
    <3>1. r.traded = run.traded \cup {e}
      BY <1>14 DEF Deals
    <3>2. first..p \subseteq first..e
      BY <1>1 DEF e
    <3>3. QED
      BY <1>1, <1>10, <3>1, <3>2
  <2>2. run.lost = FALSE /\ nav # Zero
    <3>1. nav # Zero
      BY <1>14 DEF Deals
    <3>2. QED
      BY <1>1, <1>7, <3>1
  <2>3. Holding(r, e, e, trades, ps, ref, first)
    BY <1>8, <1>10, <1>11, <1>14, <2>1, <2>2 DEF Holding, Deals
  <2>4. QED
    BY <1>9, <1>12, <2>3 DEF e
<1>15. QED
  BY <1>9, <1>13, <1>14

LEMMA HoldingStarts ==
  ASSUME NEW first \in Nat, NEW a \in Nat, first <= a, NEW trades, first \in DOMAIN trades, NEW ps, NEW ref,
         NEW r, r = Advance(NoRun(first, a), One, first, trades, ps, ref), r.ok
  PROVE  Holding(r, first, first, trades, ps, ref, first)
<1> DEFINE before == NoRun(first, a)
<1>1. IsRun(before) /\ before.lost = FALSE /\ before.traded = {} /\ before.nav = [e \in first..a |-> None]
  BY DEF NoRun, IsRun
<1> HIDE DEF before
<1>2. /\ r.nav = [before.nav EXCEPT ![first] = One]
      /\ Waits(r, before, One, first, trades) \/ Deals(r, before, One, first, trades, ps, ref)
  <2>1. r = Advance(before, One, first, trades, ps, ref)
    BY DEF before
  <2>2. QED
    BY <1>1, <2>1, AdvanceMoves
<1>3. One # Zero /\ One \in Fraction /\ One[1] = 1
  BY Constants DEF One, Zero
<1>4. Deals(r, before, One, first, trades, ps, ref)
  BY <1>2, <1>3 DEF Waits
<1>5. r.nav[first] = One
  BY <1>1, <1>2
<1>6. r.lost = FALSE /\ r.traded = {first} /\ first \in DOMAIN trades /\ Priceable(trades[first], ps, ref, first)
      /\ r.book = Trade(trades[first], One, ps, ref, first)
  BY <1>1, <1>4 DEF Deals
<1>7. first \in first..first
  OBVIOUS
<1>8. r.nav[first] \in Fraction /\ r.nav[first][1] > 0 /\ r.nav[first][1] >= 0
  BY <1>3, <1>5
<1>9. r.lost = (r.nav[first] = Zero)
  BY <1>3, <1>5, <1>6
<1>10. r.book = Trade(trades[first], r.nav[first], ps, ref, first)
  BY <1>5, <1>6
<1>11. QED
  BY <1>6, <1>7, <1>8, <1>9, <1>10 DEF Holding

-----------------------------------------------------------------------------
(* A run compounds. *)

LEMMA HeldIsValuable ==
  ASSUME NEW ps \in Seq(Row), NEW first \in 1..Len(ps), NEW a \in first..Len(ps), NEW dir, Unbroken(ps, first, a),
         NEW ref, ref = Rebase(ps, first, a, dir), NEW p \in first..a, NEW e \in p..a, NEW trades
  PROVE  Valuable(trades, ps, ref, p, e)
<1> DEFINE t == trades[p]
<1> HIDE DEF t
<1> SUFFICES ASSUME Priceable(t, ps, ref, p)
             PROVE  Marks(t, ps, p, e) /\ Refers(t, ref, p, e)
  BY DEF Valuable, t
<1>1. Len(ps) \in Nat /\ p \in 1..Len(ps) /\ e \in p..Len(ps) /\ e \in first..a
  OBVIOUS
<1>2. ps[e][Spy] # None
  BY <1>1 DEF Unbroken
<1>3. Marks(t, ps, p, e)
  <2> SUFFICES ASSUME NEW s \in Stock, t[s] # Zero
               PROVE  Mark(ps, s, p) \in Positive /\ Mark(ps, s, e) \in Positive
    BY DEF Marks
  <2>1. Mark(ps, s, p) # None
    BY DEF Priceable
  <2>2. QED
    BY <1>1, <1>2, <2>1, MarksStay
<1>4. /\ ref[p] \in Fraction /\ ref[p][1] >= 0
      /\ ref[e] \in Fraction
  BY <1>1, ReferenceStands
<1>5. Remainder(t) # Zero => ref[p][1] > 0
  <2>1. Remainder(t) # Zero => ref[p] # Zero
    BY DEF Priceable
  <2>2. (ref[p] = Zero <=> ref[p][1] = 0) /\ ref[p][1] \in Int
    BY <1>4, Signs, Terms
  <2>3. QED
    BY <1>4, <2>1, <2>2
<1>6. QED
  BY <1>3, <1>4, <1>5 DEF Refers

\* A run that goes on without error holds the book of its latest trade, and comes
\* to what that has grown to.
Carries(at, n, trades, ps, ref, dir, first) ==
  at[n].ok => \E p : Holding(at[n - 1], p, n - 1, trades, ps, ref, first)
                       /\ Compounded(at[n], at[n - 1], p, n, trades, ps, ref, dir)

Held(at, n, trades, ps, ref, first) ==
  at[n].ok => \E p : Holding(at[n], p, n, trades, ps, ref, first)

LEMMA RunCompounds ==
  ASSUME IsFiniteSet(Stock), NEW ps \in Seq(Row), NEW first \in 1..Len(ps), NEW a \in first..Len(ps), NEW dir,
         Unbroken(ps, first, a), NEW ref, ref = Rebase(ps, first, a, dir),
         NEW trades, first \in DOMAIN trades, \A e \in DOMAIN trades : Target(trades[e]),
         NEW at, at = Runs(trades, first, ps, ref, a, dir)
  PROVE  /\ \A n \in first..a : Held(at, n, trades, ps, ref, first)
         /\ \A n \in first..a : n > first => Carries(at, n, trades, ps, ref, dir, first)
<1> DEFINE Good(n) == Held(at, n, trades, ps, ref, first)
           P == {n \in first..a : Good(n)}
<1>1. first \in Nat /\ a \in Nat /\ first <= a /\ Len(ps) \in Nat
  OBVIOUS
<1>2. IsRuns(at, NoRun(first, a), trades, first, ps, ref, a, dir)
  BY <1>1, RunsAre
<1>3. \A n \in first..a : RunTo(n, at[n], trades, first, a)
  BY <1>1, RunsAreRuns
<1>4. first \in P
  <2>1. at[first] = Advance(NoRun(first, a), One, first, trades, ps, ref)
    BY <1>1, <1>2 DEF IsRuns
  <2>2. at[first].ok => Holding(at[first], first, first, trades, ps, ref, first)
    BY <1>1, <2>1, HoldingStarts
  <2>3. QED
    BY <1>1, <2>2 DEF Held
<1>5. ASSUME NEW n \in first..a, n + 1 \in first..a, Good(n), at[n + 1].ok
      PROVE  /\ \E p : Holding(at[n], p, n, trades, ps, ref, first)
                         /\ Compounded(at[n + 1], at[n], p, n + 1, trades, ps, ref, dir)
             /\ Good(n + 1)
  <2> DEFINE run == at[n]
             r == at[n + 1]
  <2>1. r = Carried(run, n + 1, trades, ps, ref, dir)
    <3>1. n + 1 # first /\ (n + 1) - 1 = n
      BY <1>1, <1>5
    <3>2. QED
      BY <1>2, <1>5, <3>1 DEF IsRuns
  <2>2. IsRun(run) /\ (run.ok => run.nav = [e \in first..a |-> run.nav[e]])
    BY <1>3 DEF RunTo
  <2>3. run.ok
    <3> DEFINE nav == Came(run, n + 1, ps, ref, dir)
    <3>1. r = Advance(run, nav, n + 1, trades, ps, ref)
      BY <2>1, CarriedIs
    <3>2. r.ok
      BY <1>5
    <3> HIDE DEF run, r, nav
    <3>3. Adds(r, run, nav, n + 1, trades)
      BY <2>2, <3>1, AdvanceIs
    <3>4. QED
      BY <3>2, <3>3 DEF Adds
  <2>4. PICK p : Holding(run, p, n, trades, ps, ref, first)
    BY <1>5, <2>3 DEF Held
  <2>5. p \in first..n
    BY <2>4 DEF Holding
  <2>6. Valuable(trades, ps, ref, p, n + 1)
    <3>1. p \in first..a /\ n + 1 \in p..a
      BY <1>1, <1>5, <2>5
    <3>2. QED
      BY <3>1, HeldIsValuable
  <2>7. r.ok
    BY <1>5
  <2> HIDE DEF run, r
  <2>8. /\ Compounded(r, run, p, n + 1, trades, ps, ref, dir)
        /\ \E q : Holding(r, q, n + 1, trades, ps, ref, first)
    BY <1>1, <1>5, <2>1, <2>2, <2>3, <2>4, <2>6, <2>7, HoldingCarries
  <2>9. QED
    BY <2>4, <2>8 DEF run, r, Held
<1>6. ASSUME NEW n \in first..a, n + 1 \in first..a, n \in P
      PROVE  n + 1 \in P
  <2>1. Good(n)
    BY <1>6
  <2>2. at[n + 1].ok => Good(n + 1)
    BY <1>5, <1>6, <2>1
  <2>a. Good(n + 1)
    BY <2>2 DEF Held
  <2>3. QED
    BY <1>6, <2>a
<1> HIDE DEF P
<1>7. \A n \in first..a : n \in P
  BY <1>1, <1>4, <1>6, UpTo
<1>a. \A n \in first..a : Good(n)
  BY <1>7 DEF P
<1> SUFFICES ASSUME NEW n \in first..a, n > first
             PROVE  Carries(at, n, trades, ps, ref, dir, first)
  BY <1>a
<1>8. n - 1 \in first..a /\ (n - 1) + 1 = n
  BY <1>1
<1>9. Good(n - 1)
  BY <1>8, <1>a
<1>10. QED
  BY <1>5, <1>8, <1>9 DEF Carries

\* The NAV that a valuation shows for a boundary.
CompoundsTo(r, e, t, ps, ref, dir) ==
  LET prior == Max({f \in r.traded : f < e})
      growth == Grown(t[prior], ps, prior, e, ref, dir)
  IN /\ prior \in DOMAIN t
     /\ r.nav[e] = IF r.nav[e - 1] = Zero \/ growth \preceq Zero THEN Zero ELSE r.nav[prior] ** growth

LEMMA FollowCompounds ==
  ASSUME IsFiniteSet(Stock), NEW ps \in Seq(Row), NEW a \in 0..Len(ps), NEW dir,
         NEW t, DOMAIN t \in SUBSET (1..a), \A e \in DOMAIN t : Target(t[e]),
         NEW r, r = Follow(t, ps, a, dir), NEW e \in DOMAIN r.nav, e > Min(DOMAIN r.nav)
  PROVE  CompoundsTo(r, e, t, ps, Rebase(ps, Min(DOMAIN r.nav), a, dir), dir)
<1> DEFINE first == Min(DOMAIN t)
           at == RunsOf(t, ps, a, dir)
           ref == Rebase(ps, first, a, dir)
<1>1. DOMAIN Failed.nav = {} /\ Failed = [ok |-> FALSE, nav |-> Failed.nav, traded |-> {}]
  BY DEF Failed
<1>2. DOMAIN t # {}
  <2> SUFFICES ASSUME DOMAIN t = {} PROVE FALSE
    OBVIOUS
  <2>1. r = [Failed EXCEPT !.ok = TRUE]
    BY DEF Follow
  <2>2. r = [ok |-> TRUE, nav |-> Failed.nav, traded |-> {}]
    BY <1>1, <2>1
  <2>3. QED
    BY <1>1, <2>2
<1>3. first \in 1..a /\ first \in DOMAIN t /\ a \in Nat /\ Len(ps) \in Nat
  BY <1>2, FirstIs
<1>4. r = IF ~Unbroken(ps, first, a) THEN Failed
          ELSE IF at[a].ok THEN [ok |-> TRUE, nav |-> at[a].nav, traded |-> at[a].traded]
          ELSE Failed
  BY <1>2 DEF Follow, RunOf, RunsOf
<1>5. at = Runs(t, first, ps, ref, a, dir)
  BY DEF RunsOf
<1>6. at[a].ok => Settled(at, t, first, a)
  BY <1>2, <1>3, RunsOfIs
<1> HIDE DEF at, first, ref
<1>7. Unbroken(ps, first, a) /\ at[a].ok /\ r.nav = at[a].nav /\ r.traded = at[a].traded
  BY <1>1, <1>4
<1>8. /\ DOMAIN r.nav = first..a
      /\ \A n \in first..a : at[n].ok /\ r.nav[n] = at[n].nav[n] /\ r.traded \cap (first..n) = at[n].traded
  BY <1>6, <1>7 DEF Settled
<1>9. Min(DOMAIN r.nav) = first
  <2>1. first..a \in SUBSET Nat /\ first \in first..a /\ \A n \in first..a : first <= n
    BY <1>3
  <2>2. Min(first..a) = first
    BY <2>1, MinOf
  <2>3. QED
    BY <1>8, <2>2
<1>10. e \in first..a /\ e > first
  BY <1>8, <1>9
<1>11. Carries(at, e, t, ps, ref, dir, first)
  <2>1. first \in 1..Len(ps) /\ a \in first..Len(ps)
    BY <1>3
  <2>2. QED
    BY <1>3, <1>5, <1>7, <1>10, <2>1, RunCompounds DEF ref
<1>12. PICK p : Holding(at[e - 1], p, e - 1, t, ps, ref, first)
                  /\ Compounded(at[e], at[e - 1], p, e, t, ps, ref, dir)
  BY <1>8, <1>10, <1>11 DEF Carries
<1>13. e - 1 \in first..a
  BY <1>3, <1>10
<1>14. p \in first..e - 1 /\ p \in at[e - 1].traded /\ at[e - 1].traded \subseteq first..p /\ p \in DOMAIN t
  BY <1>12 DEF Holding
<1>15. Max({f \in r.traded : f < e}) = p
  <2> DEFINE E == {f \in r.traded : f < e}
  <2>1. r.traded \subseteq DOMAIN t /\ \A f \in DOMAIN t : f \in Nat /\ first <= f
    <3>1. \A f \in DOMAIN t : first <= f
      BY <1>2, <1>3, FirstIs DEF first
    <3>2. QED
      BY <1>6, <1>7, <3>1 DEF Settled
  <2>2. \A f \in E : f \in first..e - 1
    BY <1>3, <1>10, <2>1
  <2>3. E = at[e - 1].traded
    BY <1>3, <1>8, <1>10, <1>13, <2>2
  <2>4. E \in SUBSET Nat /\ p \in E /\ \A f \in E : f <= p
    BY <1>3, <1>14, <2>3
  <2> HIDE DEF E
  <2>5. QED
    BY <2>4, MaxOf DEF E
<1>16. at[e - 1].nav[p] = r.nav[p]
  <2>1. at[e - 1].nav[p] = at[p].nav[p]
    <3>1. first \in Nat /\ first <= a /\ p \in first..a /\ e - 1 \in p..a /\ p \in first..p
      BY <1>3, <1>13, <1>14
    <3>2. Adding(at, e - 1, p, first)
      BY <1>3, <1>5, <3>1, RunsExtend
    <3>3. at[e - 1].ok
      BY <1>8, <1>13
    <3>4. QED
      BY <3>1, <3>2, <3>3 DEF Adding
  <2>2. QED
    BY <1>8, <1>13, <1>14, <2>1
<1>17. CompoundsTo(r, e, t, ps, ref, dir)
  BY <1>8, <1>10, <1>12, <1>13, <1>14, <1>15, <1>16 DEF Compounded, CompoundsTo
<1>18. QED
  BY <1>9, <1>17 DEF ref

-----------------------------------------------------------------------------
(* The order of fractions. *)

LEMMA LeqRatio ==
  ASSUME NEW n \in Int, NEW d \in Positive, NEW k \in Int, NEW e \in Positive
  PROVE  Ratio(n, d) \preceq Ratio(k, e) <=> n * e <= k * d
<1> DEFINE x == Ratio(n, d)
           y == Ratio(k, e)
<1>1. x \in Int \X Positive /\ x[1] * d = n * x[2] /\ y \in Int \X Positive /\ y[1] * e = k * y[2]
  BY RatioIs
<1>2. x \preceq y <=> x[1] * y[2] <= y[1] * x[2]
  BY DEF \preceq
<1> HIDE DEF x, y
<1> DEFINE x1 == x[1]  x2 == x[2]  y1 == y[1]  y2 == y[2]
<1>3. /\ x1 \in Int /\ y1 \in Int /\ x2 \in Int /\ y2 \in Int /\ d \in Int /\ e \in Int
      /\ x2 > 0 /\ y2 > 0 /\ d > 0 /\ e > 0 /\ x1 * d = n * x2 /\ y1 * e = k * y2
  BY <1>1 DEF Positive
<1> HIDE DEF x1, x2, y1, y2
<1>4. \A u, v, w \in Int : w > 0 => (u <= v <=> u * w <= v * w)
  <2> TAKE u, v, w \in Int
  <2> SUFFICES ASSUME w > 0 PROVE u <= v <=> u * w <= v * w
    OBVIOUS
  <2>1. u <= v => u * w <= v * w
    OBVIOUS
  <2>2. u > v => u * w > v * w
    OBVIOUS
  <2>3. QED
    BY <2>1, <2>2
<1> DEFINE A == x1 * y2
           B == y1 * x2
           C == n * e
           D == k * d
           E == d * e
           F == x2 * y2
<1>5. A \in Int /\ B \in Int /\ C \in Int /\ D \in Int /\ E \in Int /\ F \in Int /\ E > 0 /\ F > 0
  <2>1. E > 0 /\ F > 0
    BY <1>3
  <2>2. QED
    BY <1>3, <2>1
<1>6. A * E = C * F /\ B * E = D * F
  <2>1. A * E = (x1 * d) * (y2 * e) /\ C * F = (n * x2) * (y2 * e)
    BY <1>3
  <2>2. B * E = (y1 * e) * (x2 * d) /\ D * F = (k * y2) * (x2 * d)
    BY <1>3
  <2>3. QED
    BY <1>3, <2>1, <2>2
<1> HIDE DEF A, B, C, D, E, F
<1>7. A <= B <=> C <= D
  BY <1>4, <1>5, <1>6
<1>8. QED
  BY <1>2, <1>7 DEF A, B, C, D, x1, x2, y1, y2, x, y

LEMMA LeqIs ==
  ASSUME NEW a \in Fraction, NEW b \in Fraction, NEW c \in Fraction
  PROVE  /\ a \preceq b /\ b \preceq c => a \preceq c
         /\ a \preceq b => c ++ a \preceq c ++ b
         /\ a \preceq b /\ c[1] > 0 => c ** a \preceq c ** b
<1> DEFINE a1 == a[1]  a2 == a[2]  b1 == b[1]  b2 == b[2]  c1 == c[1]  c2 == c[2]
<1>1. /\ a1 \in Int /\ a2 \in Int /\ b1 \in Int /\ b2 \in Int /\ c1 \in Int /\ c2 \in Int
      /\ a2 \in Positive /\ b2 \in Positive /\ c2 \in Positive
  BY Terms
<1>2. /\ a \preceq b <=> a1 * b2 <= b1 * a2
      /\ b \preceq c <=> b1 * c2 <= c1 * b2
      /\ a \preceq c <=> a1 * c2 <= c1 * a2
  BY DEF \preceq
<1>3. /\ c ++ a = Ratio(c1 * a2 + a1 * c2, c2 * a2) /\ c ++ b = Ratio(c1 * b2 + b1 * c2, c2 * b2)
      /\ c ** a = Ratio(c1 * a1, c2 * a2) /\ c ** b = Ratio(c1 * b1, c2 * b2)
  BY DEF ++, **
<1> HIDE DEF a1, a2, b1, b2, c1, c2
<1>4. a2 > 0 /\ b2 > 0 /\ c2 > 0 /\ c2 * a2 \in Positive /\ c2 * b2 \in Positive
  BY <1>1, PositiveTimes DEF Positive
<1>5. \A u, v, w \in Int : w > 0 => (u <= v <=> u * w <= v * w)
  <2> TAKE u, v, w \in Int
  <2> SUFFICES ASSUME w > 0 PROVE u <= v <=> u * w <= v * w
    OBVIOUS
  <2>1. u <= v => u * w <= v * w
    OBVIOUS
  <2>2. u > v => u * w > v * w
    OBVIOUS
  <2>3. QED
    BY <2>1, <2>2
<1>6. ASSUME a1 * b2 <= b1 * a2, b1 * c2 <= c1 * b2
      PROVE  a1 * c2 <= c1 * a2
  <2>1. (a1 * b2) * c2 <= (b1 * a2) * c2
    BY <1>1, <1>4, <1>5, <1>6
  <2>2. (b1 * c2) * a2 <= (c1 * b2) * a2
    BY <1>1, <1>4, <1>5, <1>6
  <2>3. (a1 * b2) * c2 = (a1 * c2) * b2 /\ (b1 * a2) * c2 = (b1 * c2) * a2 /\ (c1 * b2) * a2 = (c1 * a2) * b2
    BY <1>1
  <2>4. (a1 * c2) * b2 <= (c1 * a2) * b2
    <3>1. (a1 * c2) * b2 \in Int /\ (b1 * a2) * c2 \in Int /\ (c1 * a2) * b2 \in Int
      BY <1>1
    <3>2. QED
      BY <2>1, <2>2, <2>3, <3>1
  <2>5. a1 * c2 \in Int /\ c1 * a2 \in Int
    BY <1>1
  <2>6. QED
    BY <1>1, <1>4, <1>5, <2>4, <2>5
<1>7. ASSUME a1 * b2 <= b1 * a2
      PROVE  c ++ a \preceq c ++ b
  <2>1. c1 * a2 + a1 * c2 \in Int /\ c1 * b2 + b1 * c2 \in Int
    BY <1>1
  <2>2. c ++ a \preceq c ++ b <=> (c1 * a2 + a1 * c2) * (c2 * b2) <= (c1 * b2 + b1 * c2) * (c2 * a2)
    BY <1>3, <1>4, <2>1, LeqRatio
  <2> DEFINE A == a1 * b2
             B == b1 * a2
             E == c2 * c2
             G == (c1 * c2) * (a2 * b2)
  <2>3. (c1 * a2 + a1 * c2) * (c2 * b2) = G + A * E /\ (c1 * b2 + b1 * c2) * (c2 * a2) = G + B * E
    BY <1>1
  <2>4. A \in Int /\ B \in Int /\ E \in Int /\ G \in Int /\ E > 0 /\ A <= B
    <3>1. E > 0
      BY <1>1, <1>4
    <3>2. QED
      BY <1>1, <1>7, <3>1
  <2> HIDE DEF A, B, E, G
  <2>5. A * E <= B * E /\ A * E \in Int /\ B * E \in Int
    BY <1>5, <2>4
  <2>6. QED
    BY <2>2, <2>3, <2>4, <2>5
<1>8. ASSUME a1 * b2 <= b1 * a2, c1 > 0
      PROVE  c ** a \preceq c ** b
  <2>1. c1 * a1 \in Int /\ c1 * b1 \in Int
    BY <1>1
  <2>2. c ** a \preceq c ** b <=> (c1 * a1) * (c2 * b2) <= (c1 * b1) * (c2 * a2)
    BY <1>3, <1>4, <2>1, LeqRatio
  <2> DEFINE A == a1 * b2
             B == b1 * a2
             E == c1 * c2
  <2>3. (c1 * a1) * (c2 * b2) = A * E /\ (c1 * b1) * (c2 * a2) = B * E
    BY <1>1
  <2>4. A \in Int /\ B \in Int /\ E \in Int /\ E > 0 /\ A <= B
    <3>1. E > 0
      BY <1>1, <1>4, <1>8
    <3>2. QED
      BY <1>1, <1>8, <3>1
  <2> HIDE DEF A, B, E
  <2>5. A * E <= B * E
    BY <1>5, <2>4
  <2>6. QED
    BY <2>2, <2>3, <2>5
<1>9. QED
  BY <1>2, <1>6, <1>7, <1>8 DEF c1

\* Sleeves of equal size.
LEMMA Sleeve ==
  ASSUME NEW n \in Positive, NEW k \in Nat
  PROVE  /\ Ratio(1, n) \in Fraction /\ Ratio(1, n)[1] > 0
         /\ Ratio(k, n) \in Fraction
         /\ Ratio(1, n) ++ Ratio(k, n) = Ratio(k + 1, n)
         /\ Ratio(0, n) = Zero
         /\ k <= n => Ratio(k, n) \preceq One
<1>1. n \in Int /\ n > 0 /\ 1 \in Positive /\ k \in Int /\ n * n \in Positive
  BY PositiveTimes DEF Positive
<1>2. Ratio(1, n) \in Fraction /\ Ratio(1, n)[1] > 0 /\ Ratio(k, n) \in Fraction
  BY <1>1, RatioFraction, RatioSign
<1>3. Ratio(1, n) ++ Ratio(k, n) = Ratio(k + 1, n)
  <2>1. Ratio(1, n) ++ Ratio(k, n) = Ratio(1 * n + k * n, n * n)
    BY <1>1, PlusRatio
  <2>2. 1 * n + k * n \in Int /\ k + 1 \in Int /\ (1 * n + k * n) * n = (k + 1) * (n * n)
    BY <1>1
  <2>3. QED
    BY <1>1, <2>1, <2>2, RatioSame
<1>4. Ratio(0, n) = Zero
  <2>1. 0 * 1 = 0 * n
    BY <1>1
  <2>2. QED
    BY <1>1, <2>1, RatioSame, Constants
<1>5. k <= n => Ratio(k, n) \preceq One
  <2>1. k * 1 = k /\ 1 * n = n
    BY <1>1
  <2>2. Ratio(k, n) \preceq Ratio(1, 1) <=> k * 1 <= 1 * n
    BY <1>1, LeqRatio
  <2>3. QED
    BY <2>1, <2>2, Constants
<1>6. QED
  BY <1>2, <1>3, <1>4, <1>5

-----------------------------------------------------------------------------
(* The sleeves of overlapping signals. *)

\* Signals of one phase that are active at once began at boundaries of the same
\* parity: there is a sleeve for each.
LEMMA ActiveFit ==
  ASSUME NEW p \in Phase, NEW ds, Sessions(ds), NEW h \in Nat \ {0}, NEW e \in Int,
         NEW starts, starts = [d \in DOMAIN starts |-> BoundaryOf(d.session, p)], DOMAIN starts \subseteq ds
  PROVE  /\ IsFiniteSet(Active(starts, e, h))
         /\ Cardinality(Active(starts, e, h)) <= Sleeves(h) /\ Sleeves(h) \in Positive
         /\ \A d \in Active(starts, e, h) : {o \in Active(starts, e, h) : starts[o] = starts[d]} = {d}
<1> DEFINE active == Active(starts, e, h)
           slot == [d \in active |-> (e - starts[d]) \div 2]
           slots == 0..Sleeves(h) - 1
<1>1. active \subseteq DOMAIN starts /\ \A d \in active : e >= starts[d] /\ e <= starts[d] + h - 1
  BY DEF Active
<1>2. \A d \in active : d \in ds /\ starts[d] = BoundaryOf(d.session, p) /\ starts[d] \in Nat
                        /\ starts[d] % 2 = (IF p = "open" THEN 1 ELSE 0)
  <2> TAKE d \in active
  <2>1. d \in ds /\ starts[d] = BoundaryOf(d.session, p)
    BY <1>1
  <2>2. d.session \in Nat /\ d.session >= 1
    BY <2>1 DEF Sessions
  <2>3. QED
    BY <2>1, <2>2 DEF BoundaryOf
<1>3. \A d, o \in active : starts[d] = starts[o] => d = o
  BY <1>2, OwnBoundary
<1>4. Sleeves(h) \in Positive
  BY DEF Sleeves, Positive
<1> HIDE DEF active
<1>5. \A d \in active : slot[d] \in slots
  <2> TAKE d \in active
  <2>1. starts[d] \in Nat /\ e >= starts[d] /\ e <= starts[d] + h - 1
    BY <1>1, <1>2
  <2>2. e - starts[d] \in 0..h - 1
    BY <2>1
  <2>3. (e - starts[d]) \div 2 \in 0..Sleeves(h) - 1
    BY <2>2 DEF Sleeves
  <2>4. QED
    BY <2>3
<1>6. ASSUME NEW d \in active, NEW o \in active, slot[d] = slot[o]
      PROVE  d = o
  <2> DEFINE x == starts[d]
             y == starts[o]
  <2>1. x \in Nat /\ y \in Nat /\ x % 2 = y % 2
    BY <1>2
  <2>2. (e - x) \div 2 = (e - y) \div 2
    BY <1>6
  <2> HIDE DEF x, y
  <2>3. x = y
    BY <2>1, <2>2
  <2>4. QED
    BY <1>3, <2>3 DEF x, y
<1>7. slot \in Injection(active, slots)
  <2> HIDE DEF slots
  <2>1. slot \in [active -> slots]
    BY <1>5
  <2> HIDE DEF slot
  <2>2. QED
    BY <1>6, <2>1 DEF Injection, IsInjective
<1>8. IsFiniteSet(slots) /\ Cardinality(slots) = Sleeves(h)
  <2>1. 0 \in Int /\ Sleeves(h) - 1 \in Int /\ Sleeves(h) \in Int /\ Sleeves(h) > 0
    BY <1>4 DEF Positive
  <2>2. IsFiniteSet(0..Sleeves(h) - 1)
        /\ Cardinality(0..Sleeves(h) - 1) = IF 0 > Sleeves(h) - 1 THEN 0 ELSE (Sleeves(h) - 1) - 0 + 1
    BY <2>1, FS_Interval
  <2>3. QED
    BY <2>1, <2>2
<1> HIDE DEF slot, slots
<1>9. IsFiniteSet(active) /\ Cardinality(active) <= Cardinality(slots)
  BY <1>7, <1>8, FS_Injection
<1>10. \A d \in active : {o \in active : starts[o] = starts[d]} = {d}
  BY <1>3
<1>11. QED
  BY <1>4, <1>8, <1>9, <1>10 DEF active

\* What some of the active signals put into a stock.
Parts(share, active, s) == [d \in active |-> share ** d.weights[s]]
Basketful(share, active, T) == [s \in Stock |-> Sum(Parts(share, active, s), T)]

LEMMA SleevesFill ==
  ASSUME IsFiniteSet(Stock), NEW active, IsFiniteSet(active), \A d \in active : Target(d.weights),
         NEW n \in Positive, NEW share, share = Ratio(1, n)
  PROVE  \A T \in SUBSET active :
           /\ Basketful(share, active, T) \in [Stock -> Fraction]
           /\ Sum(Basketful(share, active, T), Stock) \in Fraction
           /\ Sum(Basketful(share, active, T), Stock) \preceq Ratio(Cardinality(T), n)
<1> DEFINE B(T) == Basketful(share, active, T)
           P == {T \in SUBSET active : Sum(B(T), Stock) \preceq Ratio(Cardinality(T), n)}
<1>1. share \in Fraction /\ share[1] > 0
  BY Sleeve
<1>2. \A s \in Stock : Parts(share, active, s) \in [active -> Fraction]
  <2> TAKE s \in Stock
  <2>1. \A d \in active : share ** d.weights[s] \in Fraction
    BY <1>1, Closed2 DEF Target
  <2>2. QED
    BY <2>1 DEF Parts
<1>3. \A T \in SUBSET active : B(T) \in [Stock -> Fraction] /\ \A s \in Stock : B(T)[s] = Sum(Parts(share, active, s), T)
  <2> TAKE T \in SUBSET active
  <2>1. \A s \in Stock : Sum(Parts(share, active, s), T) \in Fraction
    BY <1>2, SumIsFraction
  <2>2. QED
    BY <2>1 DEF Basketful
<1>4. \A T \in SUBSET active : Sum(B(T), Stock) \in Fraction
  <2> TAKE T \in SUBSET active
  <2>1. B(T) \in [Stock -> Fraction] /\ Stock \in SUBSET Stock
    BY <1>3
  <2> HIDE DEF B
  <2>2. QED
    BY <2>1, SumIsFraction
<1> HIDE DEF B
<1>5. {} \in P
  <2>1. \A s \in Stock : B({})[s] = Zero
    <3>1. \A f : Sum(f, {}) = Zero
      BY FS_EmptySet, SumTakesOne
    <3>2. QED
      BY <1>3, <3>1
  <2>2. Sum(B({}), Stock) = Zero
    <3>1. B({}) \in [Stock -> Fraction] /\ \A s \in Stock : B({})[s] = Zero ** Zero
      <4>1. Zero ** Zero = Zero
        BY Constants, TimesLaws
      <4>2. QED
        BY <1>3, <2>1, <4>1
    <3> DEFINE b == B({})
    <3>2. b \in [Stock -> Fraction] /\ {} \in SUBSET Stock /\ \A s \in Stock \ {} : b[s] = Zero
      BY <2>1, <3>1
    <3> HIDE DEF b
    <3>3. Sum(b, {}) = Sum(b, Stock)
      BY <3>2, SumHeld
    <3>4. Sum(b, {}) = Zero
      BY <3>2, SumTakesOne
    <3>5. QED
      BY <3>3, <3>4 DEF b
  <2>3. Ratio(Cardinality({}), n) = Zero
    BY FS_EmptySet, Sleeve
  <2>4. Zero \preceq Zero
    BY DEF \preceq, Zero
  <2>5. QED
    BY <2>2, <2>3, <2>4
<1>6. ASSUME NEW T \in SUBSET active, NEW x \in active \ T, T \in P
      PROVE  T \cup {x} \in P
  <2> DEFINE U == T \cup {x}
             part == [s \in Stock |-> share ** x.weights[s]]
             k == Cardinality(T)
  <2>1. U \in SUBSET active /\ Target(x.weights)
    BY <1>6
  <2>2. k \in Nat /\ Cardinality(U) = k + 1
    BY <1>6, FS_Subset, FS_CardinalityType, FS_AddElement
  <2>3. \A s \in Stock : B(U)[s] = part[s] ++ B(T)[s] /\ part[s] \in Fraction
    <3> TAKE s \in Stock
    <3>1. Sum(Parts(share, active, s), U) = Parts(share, active, s)[x] ++ Sum(Parts(share, active, s), T)
      BY <1>2, SumAdds
    <3>2. Parts(share, active, s)[x] = part[s]
      BY DEF Parts
    <3>3. part[s] \in Fraction
      BY <1>1, <2>1, Closed2 DEF Target
    <3> HIDE DEF U, part
    <3>4. QED
      BY <1>3, <2>1, <3>1, <3>2, <3>3
  <2>4. part \in [Stock -> Fraction] /\ \A s \in Stock : part[s] = share ** x.weights[s]
    BY <2>3
  <2> HIDE DEF part, U, k
  <2> DEFINE b == B(T)
             c == B(U)
  <2>5. b \in [Stock -> Fraction] /\ c \in [Stock -> Fraction] /\ \A s \in Stock : c[s] = part[s] ++ b[s]
    BY <1>3, <2>1, <2>3
  <2> HIDE DEF b, c
  <2>6. Sum(c, Stock) = Sum(part, Stock) ++ Sum(b, Stock)
    BY <2>4, <2>5, SumPlus
  <2>7. Sum(part, Stock) = share ** Sum(x.weights, Stock)
    BY <1>1, <2>1, <2>4, SumScaled DEF Target
  <2>8. Sum(x.weights, Stock) \in Fraction /\ Sum(x.weights, Stock) \preceq One
    BY <2>1, SharesAreWhole DEF Target
  <2> DEFINE inv == Sum(x.weights, Stock)
             S == Sum(part, Stock)
             R == Sum(b, Stock)
  <2>9. inv \in Fraction /\ inv \preceq One /\ S = share ** inv /\ R \in Fraction /\ R \preceq Ratio(k, n)
    <3>1. R \in Fraction /\ R \preceq Ratio(k, n)
      BY <1>4, <1>6 DEF b, k
    <3>2. QED
      BY <2>7, <2>8, <3>1
  <2> HIDE DEF inv, S, R
  <2>10. S \in Fraction /\ S \preceq share
    <3>1. share ** inv \preceq share ** One /\ share ** One = share
      BY <1>1, <2>9, LeqIs, TimesLaws, Constants
    <3>2. QED
      BY <1>1, <2>9, <3>1, Closed2
  <2>11. Ratio(k, n) \in Fraction /\ share ++ Ratio(k, n) = Ratio(k + 1, n)
    BY <2>2, Sleeve
  <2>12. S ++ R \preceq share ++ Ratio(k, n)
    <3> DEFINE q == Ratio(k, n)
    <3>1. q \in Fraction /\ R \preceq q
      BY <2>9, <2>11
    <3> HIDE DEF q
    <3>2. S ++ R \preceq S ++ q
      BY <2>9, <2>10, <3>1, LeqIs
    <3>3. q ++ S \preceq q ++ share
      BY <1>1, <2>10, <3>1, LeqIs
    <3>4. q ++ S = S ++ q /\ q ++ share = share ++ q
      BY <1>1, <2>10, <3>1, PlusLaws
    <3>5. S ++ R \in Fraction /\ S ++ q \in Fraction /\ share ++ q \in Fraction
      BY <1>1, <2>9, <2>10, <3>1, Closed2
    <3>6. S ++ R \preceq share ++ q
      BY <3>2, <3>3, <3>4, <3>5, LeqIs
    <3>7. QED
      BY <3>6 DEF q
  <2>13. Sum(c, Stock) \preceq Ratio(k + 1, n)
    BY <2>6, <2>11, <2>12 DEF S, R
  <2>14. QED
    BY <2>1, <2>2, <2>13 DEF c, U
<1>7. \A T \in SUBSET active : T \in P
  <2> TAKE T \in SUBSET active
  <2> HIDE DEF P
  <2>1. IsFiniteSet(T)
    BY FS_Subset
  <2>2. \A R \in SUBSET T : \A x \in T \ R : R \in P => R \cup {x} \in P
    BY <1>6
  <2>3. QED
    BY <1>5, <2>1, <2>2, FiniteUpward
<1>8. QED
  BY <1>3, <1>4, <1>7 DEF B

\* The sleeves of the active signals never add up to more than the book.
LEMMA TargetsAre ==
  ASSUME IsFiniteSet(Stock), NEW p \in Phase, NEW ds, Sessions(ds), \A d \in ds : Target(d.weights),
         NEW h \in Nat \ {0}, NEW e \in Int, NEW a \in Nat
  PROVE  /\ Target(Targets(Starts(ds, a, p), e, h))
         /\ LET active == Active(Starts(ds, a, p), e, h)
            IN Targets(Starts(ds, a, p), e, h) = Basketful(Ratio(1, Sleeves(h)), active, active)
<1> DEFINE starts == Starts(ds, a, p)
           active == Active(starts, e, h)
           n == Sleeves(h)
           share == Ratio(1, n)
           all == Basketful(share, active, active)
           targets == Targets(starts, e, h)
<1>1. starts = [d \in Due(ds, a, p) |-> BoundaryOf(d.session, p)] /\ Due(ds, a, p) \subseteq ds
  <2>1. starts = [d \in Due(ds, a, p) |-> BoundaryOf(d.session, p)]
    BY StartsIs DEF Sessions
  <2>2. QED
    BY <2>1 DEF Due
<1> HIDE DEF starts
<1>2. /\ IsFiniteSet(active) /\ Cardinality(active) <= n /\ n \in Positive
      /\ \A d \in active : {o \in active : starts[o] = starts[d]} = {d}
  <2>1. starts = [d \in DOMAIN starts |-> BoundaryOf(d.session, p)] /\ DOMAIN starts \subseteq ds
    BY <1>1
  <2>2. QED
    BY <2>1, ActiveFit
<1>3. active \subseteq ds
  BY <1>1 DEF Active
<1>4. \A d \in active : Share(d, active, starts, h) = share
  <2> TAKE d \in active
  <2>1. Cardinality({o \in active : starts[o] = starts[d]}) = 1
    BY <1>2, FS_Singleton
  <2>2. Sleeves(h) * 1 = Sleeves(h)
    BY <1>2 DEF Positive
  <2>3. QED
    BY <2>1, <2>2 DEF Share
<1>5. targets = Shared(active, starts, h)
  BY DEF Targets, Shared, Share
<1> HIDE DEF active, n, share
<1>6. \A s \in Stock : Total([d \in active |-> Share(d, active, starts, h) ** d.weights[s]]) = Sum(Parts(share, active, s), active)
  <2> TAKE s \in Stock
  <2>1. [d \in active |-> Share(d, active, starts, h) ** d.weights[s]] = [d \in active |-> share ** d.weights[s]]
    BY <1>4
  <2>2. [d \in active |-> share ** d.weights[s]] = [d \in active |-> Parts(share, active, s)[d]]
    BY DEF Parts
  <2>3. QED
    BY <2>1, <2>2 DEF Sum
<1>7. Shared(active, starts, h) = all
  BY <1>6 DEF Shared, Basketful
<1>8. all \in [Stock -> Fraction] /\ Sum(all, Stock) \in Fraction /\ Sum(all, Stock) \preceq Ratio(Cardinality(active), n)
  <2>1. active \in SUBSET active /\ \A d \in active : Target(d.weights)
    BY <1>3
  <2>2. QED
    BY <1>2, <2>1, SleevesFill DEF share
<1>9. Ratio(Cardinality(active), n) \in Fraction /\ Ratio(Cardinality(active), n) \preceq One
  BY <1>2, FS_CardinalityType, Sleeve
<1> HIDE DEF all, targets
<1>10. Sum(all, Stock) \preceq One
  BY <1>8, <1>9, LeqIs, Constants
<1>11. Invested(all) = Sum(all, Stock)
  BY DEF Invested, Sum
<1>12. Target(all) /\ targets = all
  BY <1>5, <1>7, <1>8, <1>10, <1>11 DEF Target
<1>13. QED
  BY <1>12 DEF all, active, share, n, targets, starts

-----------------------------------------------------------------------------
(* Every valuation compounds. *)

\* What a decision may choose.
Chosen == \A d \in decisions : d.weights \in Weights

LEMMA ChosenAlways == Spec => []Chosen
<1>1. Init => Chosen
  BY DEF Init, Chosen
<1>2. Chosen /\ [Next]_vars => Chosen'
  <2> SUFFICES ASSUME Chosen, [Next]_vars PROVE Chosen'
    OBVIOUS
  <2>1. CASE Decide
    BY <2>1 DEF Decide, Chosen
  <2>2. ASSUME NEW run \in scheduled, Answer(run) PROVE Chosen'
    BY <2>2 DEF Answer, Chosen
  <2>3. CASE decisions' = decisions
    BY <2>3 DEF Chosen
  <2>4. QED
    BY <2>1, <2>2, <2>3 DEF Next, Elapse, Publish, Schedule, Repair, vars
<1>3. QED
  BY <1>1, <1>2, PTL DEF Spec

LEMMA GrownIs ==
  ASSUME NEW target, NEW prior, NEW e, NEW reference
  PROVE  GrowthOf(target, prior, e, reference) = Grown(target, prints, prior, e, reference, direction)
BY DEF GrowthOf, Grown


\* A valuation compounds with the targets at which it trades.
CompoundsAlong(r, t) ==
  LET first == Min(DOMAIN r.nav)
      reference == Rebase(prints, first, AsOf(prints), direction)
  IN \A e \in DOMAIN r.nav :
       e > first =>
         LET prior == Max({f \in r.traded : f < e})
             growth == GrowthOf(t[prior], prior, e, reference)
         IN /\ prior \in DOMAIN t
            /\ r.nav[e] = IF r.nav[e - 1] = Zero \/ growth \preceq Zero THEN Zero ELSE r.nav[prior] ** growth

LEMMA FollowingCompounds ==
  ASSUME Coherent, NEW t, DOMAIN t \in SUBSET (1..AsOf(prints)), \A e \in DOMAIN t : Target(t[e]),
         NEW r, r = Follow(t, prints, AsOf(prints), direction)
  PROVE  CompoundsAlong(r, t)
<1> DEFINE a == AsOf(prints)
           first == Min(DOMAIN r.nav)
           ref == Rebase(prints, first, a, direction)
<1>1. prints \in Seq(Row) /\ a \in 0..Len(prints)
  BY AsOfIs DEF Coherent
<1>2. ASSUME NEW e \in DOMAIN r.nav, e > first
      PROVE  CompoundsTo(r, e, t, prints, ref, direction)
  BY <1>1, <1>2, StockAssumption, FollowCompounds
<1>3. QED
  BY <1>2, GrownIs DEF CompoundsTo, CompoundsAlong

LEMMA CoherentCompounds ==
  ASSUME Coherent, Chosen
  PROVE  NavIsCompounded /\ SleevesFit
<1> DEFINE a == AsOf(prints)
           starts == Starts(decisions, a, phase)
           At(e) == (CHOOSE d \in DOMAIN starts : starts[d] = e).weights
<1>1. prints \in Seq(Row) /\ a \in Nat /\ phase \in Phase /\ Sessions(decisions)
  BY AsOfIs DEF Coherent
<1>2. \A d \in decisions : Target(d.weights)
  BY WeightsAssumption DEF Chosen, Target
<1>3. \A h \in Steps : h \in Nat \ {0}
  BY StepsAssumption
<1>4. \A h \in Steps, e \in Int : Target(Targets(starts, e, h))
  BY <1>1, <1>2, <1>3, StockAssumption, TargetsAre
<1>5. Compounds(shown.managed, At)
  <2> DEFINE t == Allocations(decisions, a, phase)
  <2>1. /\ DOMAIN t = {BoundaryOf(d.session, phase) : d \in Due(decisions, a, phase)}
        /\ DOMAIN t \in SUBSET (1..a)
        /\ \A d \in Due(decisions, a, phase) : t[BoundaryOf(d.session, phase)] = d.weights
    BY <1>1, AllocationsAre
  <2>2. t = [e \in {starts[d] : d \in DOMAIN starts} |-> At(e)]
    BY DEF Allocations
  <2>3. \A e \in DOMAIN t : t[e] = At(e)
    BY <2>2
  <2>4. shown.managed = Follow(t, prints, a, direction)
    BY DEF Coherent, Shows
  <2> HIDE DEF t
  <2>5. \A e \in DOMAIN t : Target(t[e])
    BY <1>2, <2>1 DEF Due
  <2>6. CompoundsAlong(shown.managed, t)
    BY <2>1, <2>4, <2>5, FollowingCompounds
  <2> HIDE DEF At
  <2>7. QED
    BY <2>3, <2>6 DEF Compounds, CompoundsAlong
<1>6. ASSUME NEW h \in Steps
      PROVE  Compounds(shown.policy[h], LAMBDA e : Targets(starts, e, h))
  <2> DEFINE t == Rotations(decisions, h, a, phase)
             Of(e) == Targets(starts, e, h)
  <2>1. DOMAIN t \in SUBSET (1..a) /\ \A e \in DOMAIN t : t[e] = Of(e)
    BY DEF Rotations
  <2>2. shown.policy[h] = Follow(t, prints, a, direction)
    BY PolicyIs DEF Coherent, Shows
  <2> HIDE DEF t
  <2>3. \A e \in DOMAIN t : Target(t[e])
    <3>1. \A e \in DOMAIN t : e \in Int
      BY <2>1
    <3>2. QED
      BY <1>4, <2>1, <3>1
  <2>4. CompoundsAlong(shown.policy[h], t)
    BY <2>1, <2>2, <2>3, FollowingCompounds
  <2> HIDE DEF Of
  <2>5. Compounds(shown.policy[h], Of)
    BY <2>1, <2>4 DEF Compounds, CompoundsAlong
  <2>6. QED
    BY <2>5 DEF Of, Compounds
<1>7. SleevesFit
  <2> SUFFICES ASSUME NEW h \in Steps, NEW e \in 1..a
               PROVE  Invested(Targets(starts, e, h)) \preceq One
    BY DEF SleevesFit
  <2>1. QED
    BY <1>4 DEF Target
<1>8. QED
  BY <1>5, <1>6, <1>7 DEF NavIsCompounded

\* Between trades a book grows by the weighted returns of what it holds: the units,
\* entries and collateral that value_portfolio and construct_policy carry from
\* boundary to boundary add up to that, at whatever prices and for whatever weights.
THEOREM NavIsCompoundedAlways == Spec => []NavIsCompounded
<1>1. Coherent /\ Chosen => NavIsCompounded
  BY CoherentCompounds
<1>2. QED
  BY <1>1, ShownIsKnown, ChosenAlways, PTL

\* The sleeves that _targets gives to overlapping signals never add up to more
\* than the book, whatever the horizon and the phase.
THEOREM SleevesFitAlways == Spec => []SleevesFit
<1>1. Coherent /\ Chosen => SleevesFit
  BY CoherentCompounds
<1>2. QED
  BY <1>1, ShownIsKnown, ChosenAlways, PTL

-----------------------------------------------------------------------------
(* The reference from a later start. *)

LEMMA Restarted ==
  ASSUME NEW x \in Fraction, x[1] > 0, NEW y \in Fraction
  PROVE  (x ** y) // x = y
<1> DEFINE x1 == x[1]  x2 == x[2]  y1 == y[1]  y2 == y[2]
<1>1. /\ x1 \in Int /\ x2 \in Int /\ y1 \in Int /\ y2 \in Int
      /\ x1 \in Positive /\ x2 \in Positive /\ y2 \in Positive
      /\ x = Ratio(x1, x2) /\ y = Ratio(y1, y2)
  BY Terms DEF Positive
<1>2. x ** y = Ratio(x1 * y1, x2 * y2)
  BY DEF **
<1> HIDE DEF x1, x2, y1, y2
<1>3. x2 * y2 \in Positive /\ x1 * y1 \in Int /\ (x2 * y2) * x1 \in Positive
  BY <1>1, PositiveTimes
<1>4. Ratio(x1 * y1, x2 * y2) // Ratio(x1, x2) = Ratio((x1 * y1) * x2, (x2 * y2) * x1)
  BY <1>1, <1>3, OverRatio
<1>5. (x1 * y1) * x2 \in Int /\ ((x1 * y1) * x2) * y2 = y1 * ((x2 * y2) * x1)
  BY <1>1
<1>6. Ratio((x1 * y1) * x2, (x2 * y2) * x1) = Ratio(y1, y2)
  BY <1>1, <1>3, <1>5, RatioSame
<1>7. QED
  BY <1>1, <1>2, <1>4, <1>6

\* Prices from one to the next and from there to a third.
LEMMA RatioChain ==
  ASSUME NEW p \in Positive, NEW q \in Positive, NEW r \in Positive
  PROVE  /\ Ratio(p, q) ** Ratio(r, p) = Ratio(r, q)
         /\ Ratio(p, p) = One
         /\ Ratio(p, q) \in Fraction /\ Ratio(p, q)[1] > 0
<1>1. p \in Int /\ q \in Int /\ r \in Int /\ p > 0 /\ q * p \in Positive /\ p * r \in Int /\ 1 \in Positive
  BY PositiveTimes DEF Positive
<1>2. Ratio(p, q) ** Ratio(r, p) = Ratio(p * r, q * p)
  BY <1>1, TimesRatio
<1>3. (p * r) * q = r * (q * p) /\ p * 1 = 1 * p
  BY <1>1
<1>4. Ratio(p * r, q * p) = Ratio(r, q)
  BY <1>1, <1>3, RatioSame
<1>5. Ratio(p, p) = One
  BY <1>1, <1>3, RatioSame, Constants
<1>6. Ratio(p, q) \in Fraction /\ Ratio(p, q)[1] > 0
  BY <1>1, RatioFraction, RatioSign
<1>7. QED
  BY <1>2, <1>4, <1>5, <1>6

\* What a growth has made of the reference, before it is found lost.
Raised(u, price, dir) ==
  IF dir = "long" THEN Ratio(price, u.entry) ELSE u.anchor ** (Two -- Ratio(price, u.entry))
Kept(nav, grown) == IF nav = Zero \/ grown \preceq Zero THEN Zero ELSE grown

LEMMA RebasedIs ==
  ASSUME NEW u, NEW price, NEW e, NEW dir, NEW r, r = Rebased(u, price, e, dir)
  PROVE  /\ r.nav = Kept(u.nav, Raised(u, price, dir))
         /\ dir = "short" /\ PhaseOf(e) = "close" => r.anchor = r.nav /\ r.entry = price
         /\ ~(dir = "short" /\ PhaseOf(e) = "close") => r.anchor = u.anchor /\ r.entry = u.entry
BY DEF Rebased, Raised, Kept

LEMMA KeptScales ==
  ASSUME NEW x \in Fraction, x[1] > 0, NEW nav \in Fraction, NEW grown \in Fraction
  PROVE  Kept(x ** nav, x ** grown) = x ** Kept(nav, grown)
<1>1. x ** grown \preceq Zero <=> grown \preceq Zero
  BY TimesSign
<1>2. x ** nav = Zero <=> nav = Zero
  <2>1. x[1] \in Int /\ nav[1] \in Int /\ x[2] \in Positive /\ nav[2] \in Positive
    BY Terms
  <2>2. x ** nav = Ratio(x[1] * nav[1], x[2] * nav[2])
    BY DEF **
  <2>3. nav = Zero => x ** nav = Zero
    BY TimesLaws, Constants
  <2>4. ASSUME x ** nav = Zero PROVE nav = Zero
    <3>1. (x ** nav) // x = nav
      BY Restarted
    <3>2. Zero // x = Zero
      <4>1. Zero // x = Ratio(Zero[1] * x[2], Zero[2] * x[1])
        BY DEF //
      <4>2. Zero[1] = 0 /\ Zero[2] = 1 /\ x[2] \in Int
        BY <2>1 DEF Zero, Positive
      <4>3. 0 * x[2] = 0 /\ 1 * x[1] = x[1] /\ x[1] \in Positive
        BY <2>1, <4>2 DEF Positive
      <4>4. Ratio(0, x[1]) = Zero
        BY <4>3, Sleeve
      <4>5. QED
        BY <4>1, <4>2, <4>3, <4>4
    <3>3. QED
      BY <2>4, <3>1, <3>2
  <2>5. QED
    BY <2>3, <2>4
<1>3. x ** Zero = Zero
  BY TimesLaws, Constants
<1>4. QED
  BY <1>1, <1>2, <1>3 DEF Kept

-----------------------------------------------------------------------------
(* A policy with one sleeve. *)

\* A reference that starts at a later boundary grows as the one that came there.
LEMMA LongRestarts ==
  ASSUME NEW ps \in Seq(Row), NEW first \in 1..Len(ps), NEW a \in first..Len(ps), Unbroken(ps, first, a),
         NEW start \in first..a, NEW fin \in start..a,
         NEW at, at = Rebasing(ps, first, a, "long"), NEW bt, bt = Rebasing(ps, start, fin, "long"),
         at[start].nav # Zero
  PROVE  \A n \in start..fin : at[n].nav = at[start].nav ** bt[n].nav
<1> DEFINE x == at[start].nav
<1>1. /\ first \in Nat /\ start \in Nat /\ a \in Nat /\ fin \in Nat /\ first <= start /\ start <= fin /\ fin <= a
      /\ first <= a /\ Len(ps) \in Nat /\ start \in 1..Len(ps) /\ fin \in start..Len(ps)
  OBVIOUS
<1>2. \A e \in first..a : Standing(at[e])
  BY RebasingStands
<1>3. \A e \in start..fin : Standing(bt[e])
  <2>1. Unbroken(ps, start, fin)
    BY <1>1 DEF Unbroken
  <2>2. QED
    BY <1>1, <2>1, RebasingStands
<1>4. IsRebasing(at, Unmoved(ps, first, a), ps, first, a, "long")
      /\ IsRebasing(bt, Unmoved(ps, start, fin), ps, start, fin, "long")
  BY <1>1, RebasingIs
<1>5. \A e \in first..a : ps[e][Spy] \in Positive
  <2> TAKE e \in first..a
  <2>1. e \in 1..Len(ps) /\ Spy \in Symbol /\ ps[e][Spy] # None
    BY <1>1 DEF Symbol, Unbroken
  <2>2. QED
    BY <2>1, RowsArePrices
<1>6. ASSUME NEW u, NEW price, NEW e, NEW r, r = Rebased(u, price, e, "long")
      PROVE  r.nav = Kept(u.nav, Ratio(price, u.entry)) /\ r.entry = u.entry
  BY <1>6, RebasedIs DEF Raised
<1> HIDE DEF x
<1>7. \A n \in first..a : at[n].entry = ps[first][Spy]
  <2> DEFINE P == {n \in first..a : at[n].entry = ps[first][Spy]}
  <2>1. first \in P
    <3>1. at[first] = Rebased(Unmoved(ps, first, a), ps[first][Spy], first, "long")
      BY <1>1, <1>4 DEF IsRebasing
    <3>2. QED
      BY <1>1, <1>6, <3>1 DEF Unmoved
  <2>2. ASSUME NEW n \in first..a, n + 1 \in first..a, n \in P
        PROVE  n + 1 \in P
    <3>1. at[n + 1] = Rebased(at[n], ps[n + 1][Spy], n + 1, "long")
      <4>1. n + 1 # first /\ (n + 1) - 1 = n
        BY <1>1, <2>2
      <4>2. QED
        BY <1>4, <2>2, <4>1 DEF IsRebasing
    <3>2. QED
      BY <1>6, <2>2, <3>1
  <2> HIDE DEF P
  <2>3. \A n \in first..a : n \in P
    BY <1>1, <2>1, <2>2, UpTo
  <2>4. QED
    BY <2>3 DEF P
<1>8. \A n \in first..a : \E nav : at[n].nav = Kept(nav, Ratio(ps[n][Spy], ps[first][Spy]))
                            /\ (n > first => nav = at[n - 1].nav)
  <2> TAKE n \in first..a
  <2> DEFINE u == IF n = first THEN Unmoved(ps, first, a) ELSE at[n - 1]
  <2>1. at[n] = Rebased(u, ps[n][Spy], n, "long")
    BY <1>4 DEF IsRebasing
  <2>2. u.entry = ps[first][Spy]
    <3>1. CASE n = first
      BY <3>1 DEF Unmoved
    <3>2. CASE n # first
      <4>1. n - 1 \in first..a
        BY <1>1, <3>2
      <4>2. QED
        BY <1>7, <3>2, <4>1
    <3>3. QED
      BY <3>1, <3>2
  <2>3. n > first => u.nav = at[n - 1].nav
    BY <1>1
  <2> HIDE DEF u
  <2>4. QED
    BY <1>6, <2>1, <2>2, <2>3
<1>9. /\ x = Ratio(ps[start][Spy], ps[first][Spy])
      /\ x \in Fraction /\ x[1] > 0
  <2>1. x = Ratio(ps[start][Spy], ps[first][Spy])
    <3>1. x # Zero /\ start \in first..a
      BY DEF x
    <3>2. QED
      BY <1>8, <3>1 DEF x, Kept
  <2>2. ps[start][Spy] \in Positive /\ ps[first][Spy] \in Positive
    BY <1>1, <1>5
  <2>3. QED
    BY <2>1, <2>2, RatioChain
<1> DEFINE Q == {n \in start..fin : at[n].nav = x ** bt[n].nav /\ bt[n].entry = ps[start][Spy]}
<1>10. start \in Q
  <2>1. bt[start] = Rebased(Unmoved(ps, start, fin), ps[start][Spy], start, "long")
    BY <1>1, <1>4 DEF IsRebasing
  <2>2. Unmoved(ps, start, fin).nav = One /\ Unmoved(ps, start, fin).entry = ps[start][Spy]
    BY DEF Unmoved
  <2>3. bt[start].nav = Kept(One, Ratio(ps[start][Spy], ps[start][Spy])) /\ bt[start].entry = ps[start][Spy]
    BY <1>6, <2>1, <2>2
  <2>4. Ratio(ps[start][Spy], ps[start][Spy]) = One
    <3>1. ps[start][Spy] \in Positive
      BY <1>1, <1>5
    <3>2. QED
      BY <3>1, RatioChain
  <2>5. Kept(One, One) = One
    <3>1. One # Zero /\ ~(One \preceq Zero)
      BY DEF One, Zero, \preceq
    <3>2. QED
      BY <3>1 DEF Kept
  <2>6. x ** One = x
    BY <1>9, TimesLaws, Constants
  <2>7. QED
    BY <1>1, <2>3, <2>4, <2>5, <2>6 DEF x
<1>11. ASSUME NEW n \in start..fin, n + 1 \in start..fin, n \in Q
       PROVE  n + 1 \in Q
  <2> DEFINE price == ps[n + 1][Spy]
             grown == Ratio(price, ps[start][Spy])
  <2>1. bt[n + 1] = Rebased(bt[n], price, n + 1, "long")
    <3>1. n + 1 # start /\ (n + 1) - 1 = n
      BY <1>1, <1>11
    <3>2. QED
      BY <1>4, <1>11, <3>1 DEF IsRebasing
  <2>2. at[n + 1] = Rebased(at[n], price, n + 1, "long")
    <3>1. n + 1 # first /\ (n + 1) - 1 = n /\ n + 1 \in first..a
      BY <1>1, <1>11
    <3>2. QED
      BY <1>4, <1>11, <3>1 DEF IsRebasing
  <2>3. n \in first..a /\ price \in Positive /\ ps[start][Spy] \in Positive /\ ps[first][Spy] \in Positive
    <3>1. n \in first..a /\ n + 1 \in first..a /\ first \in first..a
      BY <1>1, <1>11
    <3>2. QED
      BY <1>5, <3>1
  <2> HIDE DEF price
  <2>4. x ** grown = Ratio(price, ps[first][Spy]) /\ grown \in Fraction
    BY <1>9, <2>3, RatioChain
  <2> HIDE DEF grown
  <2>5. bt[n + 1].nav = Kept(bt[n].nav, grown) /\ bt[n + 1].entry = ps[start][Spy]
    BY <1>6, <1>11, <2>1 DEF grown
  <2>6. at[n + 1].nav = Kept(x ** bt[n].nav, x ** grown)
    BY <1>6, <1>7, <1>11, <2>2, <2>3, <2>4
  <2>7. bt[n].nav \in Fraction
    BY <1>3 DEF Standing
  <2>8. Kept(x ** bt[n].nav, x ** grown) = x ** Kept(bt[n].nav, grown)
    BY <1>9, <2>4, <2>7, KeptScales
  <2>9. QED
    BY <1>11, <2>5, <2>6, <2>8
<1> HIDE DEF Q
<1>12. \A n \in start..fin : n \in Q
  BY <1>1, <1>10, <1>11, UpTo
<1>13. QED
  BY <1>12 DEF Q, x

\* A short settles at each close: a later start at a close is a fresh one.
LEMMA ShortRestarts ==
  ASSUME NEW ps \in Seq(Row), NEW first \in 1..Len(ps), NEW a \in first..Len(ps), Unbroken(ps, first, a),
         NEW start \in first..a, NEW fin \in start..a, PhaseOf(start) = "close",
         NEW at, at = Rebasing(ps, first, a, "short"), NEW bt, bt = Rebasing(ps, start, fin, "short"),
         at[start].nav # Zero
  PROVE  \A n \in start..fin : at[n].nav = at[start].nav ** bt[n].nav
<1> DEFINE x == at[start].nav
<1>1. /\ first \in Nat /\ start \in Nat /\ a \in Nat /\ fin \in Nat /\ first <= start /\ start <= fin /\ fin <= a
      /\ first <= a /\ Len(ps) \in Nat /\ start \in 1..Len(ps) /\ fin \in start..Len(ps)
  OBVIOUS
<1>2. \A e \in first..a : Standing(at[e])
  BY RebasingStands
<1>3. \A e \in start..fin : Standing(bt[e])
  <2>1. Unbroken(ps, start, fin)
    BY <1>1 DEF Unbroken
  <2>2. QED
    BY <1>1, <2>1, RebasingStands
<1>4. IsRebasing(at, Unmoved(ps, first, a), ps, first, a, "short")
      /\ IsRebasing(bt, Unmoved(ps, start, fin), ps, start, fin, "short")
  BY <1>1, RebasingIs
<1>5. \A e \in first..a : ps[e][Spy] \in Positive
  <2> TAKE e \in first..a
  <2>1. e \in 1..Len(ps) /\ Spy \in Symbol /\ ps[e][Spy] # None
    BY <1>1 DEF Symbol, Unbroken
  <2>2. QED
    BY <2>1, RowsArePrices
<1>6. ASSUME NEW u, NEW price, NEW e, NEW r, r = Rebased(u, price, e, "short")
      PROVE  /\ r.nav = Kept(u.nav, u.anchor ** (Two -- Ratio(price, u.entry)))
             /\ PhaseOf(e) = "close" => r.anchor = r.nav /\ r.entry = price
             /\ PhaseOf(e) # "close" => r.anchor = u.anchor /\ r.entry = u.entry
  BY <1>6, RebasedIs DEF Raised
<1> HIDE DEF x
<1>7. x \in Fraction /\ x[1] > 0
  <2>1. Standing(at[start]) /\ x # Zero
    BY <1>2 DEF x
  <2>2. x \in Fraction /\ x[1] >= 0
    BY <2>1 DEF Standing, x
  <2>3. x[1] # 0 /\ x[1] \in Int
    BY <2>1, <2>2, Signs, Terms
  <2>4. QED
    BY <2>2, <2>3
<1> DEFINE Q == {n \in start..fin : /\ at[n].nav = x ** bt[n].nav
                                  /\ at[n].anchor = x ** bt[n].anchor /\ at[n].entry = bt[n].entry}
<1>8. start \in Q
  <2> DEFINE price == ps[start][Spy]
  <2>1. price \in Positive
    BY <1>1, <1>5
  <2>2. bt[start] = Rebased(Unmoved(ps, start, fin), price, start, "short")
    BY <1>1, <1>4 DEF IsRebasing
  <2>3. at[start].anchor = x /\ at[start].entry = price
    <3> DEFINE u == IF start = first THEN Unmoved(ps, first, a) ELSE at[start - 1]
    <3>1. at[start] = Rebased(u, price, start, "short")
      BY <1>4 DEF IsRebasing
    <3> HIDE DEF u, price
    <3>2. QED
      BY <1>6, <3>1 DEF x
  <2>4. Unmoved(ps, start, fin).nav = One /\ Unmoved(ps, start, fin).anchor = One
        /\ Unmoved(ps, start, fin).entry = price
    BY DEF Unmoved
  <2> HIDE DEF price
  <2>5. Ratio(price, price) = One
    BY <2>1, RatioChain
  <2>6. One ** (Two -- One) = One
    <3>1. Two -- One = Ratio(2 * 1 - 1 * 1, 1 * 1)
      BY DEF --, Two, One
    <3>2. 2 * 1 - 1 * 1 = 1 /\ 1 * 1 = 1
      OBVIOUS
    <3>3. Two -- One = One
      BY <3>1, <3>2, Constants
    <3>4. QED
      BY <3>3, TimesLaws, Constants
  <2>7. Kept(One, One) = One
    <3>1. One # Zero /\ ~(One \preceq Zero)
      BY DEF One, Zero, \preceq
    <3>2. QED
      BY <3>1 DEF Kept
  <2>8. bt[start].nav = One /\ bt[start].anchor = One /\ bt[start].entry = price
    BY <1>6, <2>2, <2>4, <2>5, <2>6, <2>7
  <2>9. x ** One = x
    BY <1>7, TimesLaws, Constants
  <2>10. QED
    BY <1>1, <2>3, <2>8, <2>9 DEF x
<1>9. ASSUME NEW n \in start..fin, n + 1 \in start..fin, n \in Q
       PROVE  n + 1 \in Q
  <2> DEFINE price == ps[n + 1][Spy]
             change == Two -- Ratio(price, bt[n].entry)
             grown == bt[n].anchor ** change
  <2>1. bt[n + 1] = Rebased(bt[n], price, n + 1, "short")
    <3>1. n + 1 # start /\ (n + 1) - 1 = n
      BY <1>1, <1>9
    <3>2. QED
      BY <1>4, <1>9, <3>1 DEF IsRebasing
  <2>2. at[n + 1] = Rebased(at[n], price, n + 1, "short")
    <3>1. n + 1 # first /\ (n + 1) - 1 = n /\ n + 1 \in first..a
      BY <1>1, <1>9
    <3>2. QED
      BY <1>4, <1>9, <3>1 DEF IsRebasing
  <2>3. price \in Positive
    <3>1. n + 1 \in first..a
      BY <1>1, <1>9
    <3>2. QED
      BY <1>5, <3>1
  <2>4. bt[n].nav \in Fraction /\ bt[n].anchor \in Fraction /\ bt[n].entry \in Positive
    BY <1>3 DEF Standing
  <2>5. at[n].nav = x ** bt[n].nav /\ at[n].anchor = x ** bt[n].anchor /\ at[n].entry = bt[n].entry
    BY <1>9
  <2> HIDE DEF price, Q
  <2>6. change \in Fraction
    <3>1. Ratio(price, bt[n].entry) \in Fraction
      BY <2>3, <2>4, RatioFraction DEF Positive
    <3>2. QED
      BY <3>1, Closed2, Constants
  <2>7. /\ bt[n + 1].nav = Kept(bt[n].nav, grown)
        /\ at[n + 1].nav = Kept(x ** bt[n].nav, (x ** bt[n].anchor) ** change)
    BY <1>6, <2>1, <2>2, <2>5
  <2>8. /\ PhaseOf(n + 1) = "close" => bt[n + 1].anchor = bt[n + 1].nav /\ bt[n + 1].entry = price
        /\ PhaseOf(n + 1) # "close" => bt[n + 1].anchor = bt[n].anchor /\ bt[n + 1].entry = bt[n].entry
        /\ PhaseOf(n + 1) = "close" => at[n + 1].anchor = at[n + 1].nav /\ at[n + 1].entry = price
        /\ PhaseOf(n + 1) # "close" => at[n + 1].anchor = at[n].anchor /\ at[n + 1].entry = at[n].entry
    BY <1>6, <2>1, <2>2
  <2> HIDE DEF change
  <2>9. grown \in Fraction /\ (x ** bt[n].anchor) ** change = x ** grown
    <3> DEFINE anchor == bt[n].anchor
    <3>1. anchor \in Fraction
      BY <2>4
    <3> HIDE DEF anchor
    <3>2. anchor ** change \in Fraction /\ (x ** anchor) ** change = x ** (anchor ** change)
      BY <1>7, <2>6, <3>1, Closed2, TimesLaws
    <3>3. QED
      BY <3>2 DEF anchor
  <2> HIDE DEF grown
  <2>10. Kept(x ** bt[n].nav, x ** grown) = x ** Kept(bt[n].nav, grown)
    BY <1>7, <2>4, <2>9, KeptScales
  <2>11. at[n + 1].nav = x ** bt[n + 1].nav
    BY <2>7, <2>9, <2>10
  <2>12. at[n + 1].anchor = x ** bt[n + 1].anchor /\ at[n + 1].entry = bt[n + 1].entry
    BY <2>5, <2>8, <2>11
  <2>13. QED
    BY <1>9, <2>11, <2>12 DEF Q
<1> HIDE DEF Q
<1>10. \A n \in start..fin : n \in Q
  BY <1>1, <1>8, <1>9, UpTo
<1>11. QED
  BY <1>10 DEF Q, x

\* The reference of an evidence is that of the policy, over what it was at the entry.
LEMMA ReferenceRestarts ==
  ASSUME NEW ps \in Seq(Row), NEW first \in 1..Len(ps), NEW a \in first..Len(ps), Unbroken(ps, first, a),
         NEW start \in first..a, NEW fin \in start..a, NEW dir \in Direction,
         dir = "long" \/ PhaseOf(start) = "close",
         NEW ref, ref = Rebase(ps, first, a, dir), NEW rfe, rfe = Rebase(ps, start, fin, dir),
         ref[start] # Zero, NEW e \in start..fin
  PROVE  ref[e] // ref[start] = rfe[e]
<1> DEFINE at == Rebasing(ps, first, a, dir)
           bt == Rebasing(ps, start, fin, dir)
<1>1. /\ first \in Nat /\ start \in Nat /\ a \in Nat /\ fin \in Nat /\ first <= a /\ start <= fin
      /\ Len(ps) \in Nat /\ start \in 1..Len(ps) /\ fin \in start..Len(ps)
      /\ start \in first..a /\ e \in first..a /\ e \in start..fin
  OBVIOUS
<1>2. Unbroken(ps, start, fin)
  BY <1>1 DEF Unbroken
<1>3. /\ \A n \in first..a : Standing(at[n]) /\ ref[n] = at[n].nav
      /\ \A n \in start..fin : Standing(bt[n]) /\ rfe[n] = bt[n].nav
  BY <1>1, <1>2, RebasingStands
<1>4. at[start].nav # Zero
  BY <1>1, <1>3
<1>5. at[e].nav = at[start].nav ** bt[e].nav
  <2>1. CASE dir = "long"
    BY <1>4, <2>1, LongRestarts
  <2>2. CASE dir = "short" /\ PhaseOf(start) = "close"
    BY <1>4, <2>2, ShortRestarts
  <2>3. QED
    BY <2>1, <2>2 DEF Direction
<1> HIDE DEF at, bt
<1>6. ref[e] = ref[start] ** rfe[e]
  BY <1>1, <1>3, <1>5
<1>7. ref[start] \in Fraction /\ ref[start][1] >= 0 /\ rfe[e] \in Fraction
  BY <1>1, <1>3 DEF Standing
<1>8. ref[start][1] > 0
  BY <1>7, Signs, Terms
<1>9. QED
  BY <1>6, <1>7, <1>8, Restarted

\* A basket grows as a book that is moved to its weights, when the reference does.
LEMMA BasketGrows ==
  ASSUME NEW d, Target(d.weights), NEW ps, NEW start, NEW e, NEW dir, NEW ref, NEW rfe, rfe[e] \in Fraction,
         Remainder(d.weights) # Zero => ref[e] // ref[start] = rfe[e]
  PROVE  Basket(d, start, ps, rfe, e, dir) = Grown(d.weights, ps, start, e, ref, dir)
<1> DEFINE rest == Remainder(d.weights)
           held == {s \in Stock : d.weights[s] # Zero}
           stocks == Total([s \in held |-> d.weights[s] ** (Ratio(Mark(ps, s, e), Mark(ps, s, start)) -- One)])
           change == IF dir = "long" THEN stocks ELSE Zero -- stocks
           added == IF rest = Zero THEN Zero ELSE rest ** ((ref[e] // ref[start]) -- One)
<1>1. Grown(d.weights, ps, start, e, ref, dir) = One ++ change ++ added
  BY DEF Grown
<1>2. Basket(d, start, ps, rfe, e, dir) = One ++ change ++ (rest ** (rfe[e] -- One))
  BY DEF Basket
<1>3. added = rest ** (rfe[e] -- One)
  <2> DEFINE more == rfe[e] -- One
  <2>1. more \in Fraction
    BY Closed2, Constants
  <2> HIDE DEF more, rest
  <2>2. Zero ** more = Zero
    <3>1. Zero ** more = more ** Zero /\ more ** Zero = Zero
      BY <2>1, TimesLaws, Constants
    <3>2. QED
      BY <3>1
  <2>3. CASE rest = Zero
    BY <2>2, <2>3 DEF more
  <2>4. CASE rest # Zero
    BY <2>4 DEF rest
  <2>5. QED
    BY <2>3, <2>4
<1> HIDE DEF change, added, rest
<1>4. QED
  BY <1>1, <1>2, <1>3

\* With one sleeve the book is moved to the weights of a signal that enters.
LEMMA SoleTarget ==
  ASSUME IsFiniteSet(Stock), NEW p \in Phase, NEW ds, Sessions(ds), \A d \in ds : Target(d.weights),
         NEW h \in Nat \ {0}, Sleeves(h) = 1, NEW a \in Nat, NEW d \in Due(ds, a, p)
  PROVE  Targets(Starts(ds, a, p), BoundaryOf(d.session, p), h) = d.weights
<1> DEFINE starts == Starts(ds, a, p)
           e == BoundaryOf(d.session, p)
           active == Active(starts, e, h)
<1>1. starts = [o \in Due(ds, a, p) |-> BoundaryOf(o.session, p)] /\ Due(ds, a, p) \subseteq ds
  <2>1. starts = [o \in Due(ds, a, p) |-> BoundaryOf(o.session, p)]
    BY StartsIs DEF Sessions
  <2>2. QED
    BY <2>1 DEF Due
<1>2. e \in Nat /\ e \in Int
  <2>1. d.session \in Nat \ {0}
    BY <1>1 DEF Sessions
  <2>2. QED
    BY <2>1, EffectiveIs
<1> HIDE DEF e
<1>3. /\ IsFiniteSet(active) /\ Cardinality(active) <= 1
  <2> HIDE DEF starts
  <2>1. starts = [o \in DOMAIN starts |-> BoundaryOf(o.session, p)] /\ DOMAIN starts \subseteq ds
    BY <1>1
  <2>2. IsFiniteSet(Active(starts, e, h)) /\ Cardinality(Active(starts, e, h)) <= Sleeves(h)
    BY <1>2, <2>1, ActiveFit
  <2>3. QED
    BY <2>2
<1>4. d \in active
  <2>1. d \in DOMAIN starts /\ starts[d] = e
    BY <1>1 DEF e
  <2>2. e \in e..e + h - 1
    BY <1>2
  <2>3. QED
    BY <2>1, <2>2 DEF Active
<1>5. Targets(starts, e, h) = Basketful(Ratio(1, Sleeves(h)), active, active)
  BY <1>2, TargetsAre
<1>a. d \in ds
  BY <1>1
<1> HIDE DEF starts, active
<1>6. active = {d}
  <2>1. Cardinality(active) = 1
    <3>1. Cardinality(active) # 0 /\ Cardinality(active) \in Nat
      BY <1>3, <1>4, FS_EmptySet, FS_CardinalityType
    <3>2. QED
      BY <1>3, <3>1
  <2>2. PICK x : active = {x}
    BY <1>3, <2>1, FS_Singleton
  <2>3. QED
    BY <1>4, <2>2
<1>7. Basketful(One, {d}, {d}) = d.weights
  <2>1. d.weights \in [Stock -> Fraction]
    BY <1>a DEF Target
  <2>2. \A s \in Stock : Sum(Parts(One, {d}, s), {d}) = d.weights[s]
    <3> TAKE s \in Stock
    <3> DEFINE f == Parts(One, {d}, s)
    <3>1. d.weights[s] \in Fraction
      BY <2>1
    <3>2. One ** d.weights[s] = d.weights[s]
      BY <3>1, TimesLaws, Constants
    <3>3. f \in [{d} -> Fraction] /\ f[d] = d.weights[s]
      BY <3>1, <3>2 DEF Parts
    <3> HIDE DEF f
    <3>4. IsFiniteSet({d}) /\ {d} \in SUBSET {d} /\ d \in {d} /\ {d} \ {d} = {} /\ {} \in SUBSET {d}
      BY FS_Singleton
    <3>5. Sum(f, {d}) = f[d] ++ Sum(f, {d} \ {d})
      BY <3>3, <3>4, SumTakesAny
    <3>6. Sum(f, {}) = Zero
      BY <3>4, SumTakesOne
    <3>7. f[d] ++ Zero = f[d]
      BY <3>1, <3>3, PlusLaws
    <3>8. QED
      BY <3>3, <3>4, <3>5, <3>6, <3>7 DEF f
  <2>3. QED
    BY <2>1, <2>2 DEF Basketful
<1>8. Ratio(1, Sleeves(h)) = One
  BY Constants
<1>9. QED
  BY <1>5, <1>6, <1>7, <1>8 DEF starts, e

\* A policy with one sleeve trades at an entry, and then not before the horizon.
LEMMA RotationsWait ==
  ASSUME NEW p \in Phase, NEW ds, Sessions(ds), NEW h \in Nat \ {0}, Sleeves(h) = 1, NEW a \in Nat,
         NEW d \in Due(ds, a, p), NEW start, start = BoundaryOf(d.session, p)
  PROVE  /\ start \in DOMAIN Rotations(ds, h, a, p)
         /\ \A f \in DOMAIN Rotations(ds, h, a, p) : f \in Nat /\ ~(start < f /\ f < start + h)
<1> DEFINE starts == Starts(ds, a, p)
           entries == {starts[o] : o \in DOMAIN starts}
           t == Rotations(ds, h, a, p)
<1>1. starts = [o \in Due(ds, a, p) |-> BoundaryOf(o.session, p)]
  BY StartsIs DEF Sessions
<1>2. DOMAIN t = (entries \cup {e + h : e \in entries}) \cap 1..a
  BY DEF Rotations
<1>3. h = 1 \/ h = 2
  BY DEF Sleeves
<1>4. \A o \in Due(ds, a, p) : o.session \in Nat /\ BoundaryOf(o.session, p) \in 1..a
  <2> TAKE o \in Due(ds, a, p)
  <2>1. o.session \in Nat \ {0} /\ BoundaryOf(o.session, p) <= a
    BY DEF Due, Sessions
  <2>2. BoundaryOf(o.session, p) \in Nat \ {0}
    BY <2>1, EffectiveIs
  <2>3. QED
    BY <2>1, <2>2
<1>5. start \in DOMAIN t
  <2>1. start \in entries
    BY <1>1
  <2>2. QED
    BY <1>2, <1>4, <2>1
<1>6. ASSUME NEW f \in DOMAIN t
      PROVE  f \in Nat /\ ~(start < f /\ f < start + h)
  <2>1. PICK o \in Due(ds, a, p) : f = BoundaryOf(o.session, p) \/ f = BoundaryOf(o.session, p) + h
    BY <1>1, <1>2
  <2>2. o.session \in Nat /\ d.session \in Nat /\ f \in Nat
    BY <1>2, <1>4
  <2>3. QED
    BY <1>3, <2>1, <2>2 DEF BoundaryOf
<1>7. QED
  BY <1>5, <1>6

\* A valuation that has something left at a boundary of its trades trades there.
Dealt(r, t, e, ps, a, dir) ==
  LET first == Min(DOMAIN r.nav)
      ref == Rebase(ps, first, a, dir)
  IN /\ DOMAIN r.nav = first..a /\ first \in 1..a /\ e \in first..a /\ Unbroken(ps, first, a)
     /\ r.traded \subseteq DOMAIN t /\ e \in r.traded
     /\ Priceable(t[e], ps, ref, e)
     /\ r.nav[e] \in Fraction /\ r.nav[e][1] > 0

Covers(nav, first, a) == nav = [n \in first..a |-> nav[n]]

LEMMA AdvanceDeals ==
  ASSUME NEW first, NEW a, NEW run, IsRun(run), Covers(run.nav, first, a), NEW e \in first..a,
         NEW nav, NEW trades, e \in DOMAIN trades, NEW ps, NEW ref,
         NEW r, r = Advance(run, nav, e, trades, ps, ref), r.ok, r.nav[e] # Zero
  PROVE  Deals(r, run, nav, e, trades, ps, ref)
<1>1. /\ run.ok /\ r.nav = [run.nav EXCEPT ![e] = nav]
      /\ Waits(r, run, nav, e, trades) \/ Deals(r, run, nav, e, trades, ps, ref)
  BY AdvanceMoves
<1>2. r.nav[e] = nav
  BY <1>1 DEF Covers
<1>3. ~Waits(r, run, nav, e, trades)
  BY <1>2 DEF Waits
<1>4. QED
  BY <1>1, <1>3

LEMMA FollowDeals ==
  ASSUME IsFiniteSet(Stock), NEW ps \in Seq(Row), NEW a \in 0..Len(ps), NEW dir,
         NEW t, DOMAIN t \in SUBSET (1..a), \A n \in DOMAIN t : Target(t[n]),
         NEW r, r = Follow(t, ps, a, dir), r.ok, NEW e \in DOMAIN t, r.nav[e] # Zero
  PROVE  Dealt(r, t, e, ps, a, dir)
<1> DEFINE first == Min(DOMAIN t)
           at == RunsOf(t, ps, a, dir)
           ref == Rebase(ps, first, a, dir)
<1>1. first \in 1..a /\ first \in DOMAIN t /\ a \in Nat /\ Len(ps) \in Nat /\ e \in first..a
  <2>1. DOMAIN t # {} /\ a \in Nat /\ e \in 1..a
    OBVIOUS
  <2>2. first \in 1..a /\ first \in DOMAIN t /\ first <= e
    BY <2>1, FirstIs
  <2>3. QED
    BY <2>1, <2>2
<1>2. r = IF ~Unbroken(ps, first, a) THEN Failed
          ELSE IF at[a].ok THEN [ok |-> TRUE, nav |-> at[a].nav, traded |-> at[a].traded]
          ELSE Failed
  <2>1. DOMAIN t # {}
    OBVIOUS
  <2>2. QED
    BY <2>1 DEF Follow, RunOf, RunsOf
<1>3. at = Runs(t, first, ps, ref, a, dir)
  BY DEF RunsOf
<1>4. at[a].ok => Settled(at, t, first, a)
  <2>1. DOMAIN t # {}
    OBVIOUS
  <2>2. QED
    BY <1>1, <2>1, RunsOfIs
<1> HIDE DEF at, first, ref
<1>5. Unbroken(ps, first, a) /\ at[a].ok /\ r.nav = at[a].nav /\ r.traded = at[a].traded
  BY <1>2 DEF Failed
<1>6. /\ DOMAIN r.nav = first..a /\ r.traded \subseteq DOMAIN t
      /\ \A n \in first..a : at[n].ok /\ r.nav[n] = at[n].nav[n] /\ r.traded \cap (first..n) = at[n].traded
  BY <1>4, <1>5 DEF Settled
<1>7. Min(DOMAIN r.nav) = first
  <2>1. first..a \in SUBSET Nat /\ first \in first..a /\ \A n \in first..a : first <= n
    BY <1>1
  <2>2. Min(first..a) = first
    BY <2>1, MinOf
  <2>3. QED
    BY <1>6, <2>2
<1>8. first \in 1..Len(ps) /\ a \in first..Len(ps) /\ first \in Nat /\ first <= a
  BY <1>1
<1>9. IsRuns(at, NoRun(first, a), t, first, ps, ref, a, dir)
  BY <1>1, <1>3, <1>8, RunsAre
<1>10. \A n \in first..a : RunTo(n, at[n], t, first, a)
  BY <1>1, <1>3, <1>8, RunsAreRuns
<1>11. \E run, nav : /\ IsRun(run) /\ run.nav = [n \in first..a |-> run.nav[n]]
                     /\ at[e] = Advance(run, nav, e, t, ps, ref)
  <2>1. CASE e = first
    <3> DEFINE run == NoRun(first, a)
    <3>1. IsRun(run) /\ run.nav = [n \in first..a |-> None]
      BY DEF NoRun, IsRun
    <3>2. at[e] = Advance(run, One, e, t, ps, ref)
      BY <1>1, <1>9, <2>1 DEF IsRuns
    <3> HIDE DEF run
    <3>3. run.nav = [n \in first..a |-> run.nav[n]]
      BY <3>1
    <3>4. QED
      BY <3>1, <3>2, <3>3
  <2>2. CASE e # first
    <3> DEFINE run == at[e - 1]
    <3>1. e - 1 \in first..a
      BY <1>1, <2>2
    <3>2. IsRun(run) /\ run.nav = [n \in first..a |-> run.nav[n]]
      <4>1. run.ok
        BY <1>6, <3>1
      <4>2. QED
        BY <1>10, <3>1, <4>1 DEF RunTo
    <3>3. at[e] = Advance(run, Came(run, e, ps, ref, dir), e, t, ps, ref)
      <4>1. at[e] = Carried(run, e, t, ps, ref, dir)
        BY <1>1, <1>9, <2>2 DEF IsRuns
      <4>2. QED
        BY <4>1, CarriedIs
    <3> HIDE DEF run
    <3>4. QED
      BY <3>2, <3>3
  <2>3. QED
    BY <2>1, <2>2
<1>12. PICK run, nav : /\ IsRun(run) /\ run.nav = [n \in first..a |-> run.nav[n]]
                       /\ at[e] = Advance(run, nav, e, t, ps, ref)
  BY <1>11
<1>13. at[e].ok /\ at[e].nav[e] = r.nav[e]
  BY <1>1, <1>6
<1> DEFINE s == at[e]
<1>14. Deals(s, run, nav, e, t, ps, ref)
  <2>1. s.ok /\ s.nav[e] # Zero /\ s = Advance(run, nav, e, t, ps, ref)
    BY <1>12, <1>13
  <2>2. IsRun(run) /\ Covers(run.nav, first, a)
    BY <1>12 DEF Covers
  <2> HIDE DEF s
  <2>3. QED
    BY <1>1, <2>1, <2>2, AdvanceDeals
<1>16. Priceable(t[e], ps, ref, e) /\ e \in s.traded
  BY <1>14 DEF Deals
<1>17. e \in r.traded
  BY <1>1, <1>6, <1>16 DEF s
<1>18. Held(at, e, t, ps, ref, first)
  BY <1>1, <1>3, <1>5, <1>8, RunCompounds DEF ref
<1>19. r.nav[e] \in Fraction /\ r.nav[e][1] >= 0
  <2>1. PICK q : Holding(at[e], q, e, t, ps, ref, first)
    BY <1>1, <1>6, <1>18 DEF Held
  <2>2. at[e].nav[e] \in Fraction /\ at[e].nav[e][1] >= 0
    BY <2>1 DEF Holding
  <2>3. QED
    BY <1>1, <1>6, <2>2
<1>20. r.nav[e][1] > 0
  BY <1>19, Signs, Terms
<1>21. QED
  BY <1>1, <1>5, <1>6, <1>7, <1>16, <1>17, <1>19, <1>20 DEF Dealt, ref

\* The evidence of a decision, once it is complete.
Completed(outcome, d, h, start, final, ps, a, rfe, dir) ==
  LET lost == Lost(d, start, final, ps, rfe, dir)
  IN /\ start <= a /\ Unbroken(ps, start, final)
     /\ outcome.start = start /\ outcome.end = Ending(lost, final)
     /\ outcome.value = IF lost = {} THEN Basket(d, start, ps, rfe, outcome.end, dir) ELSE Zero
     /\ lost = {} => start + h <= a

LEMMA EvidenceCompletes ==
  ASSUME NEW d, d.session \in Nat \ {0}, NEW h \in Nat, NEW ps, NEW dir, NEW p \in Phase, AsOf(ps) \in Nat,
         NEW start, start = BoundaryOf(d.session, p),
         NEW final, final = Min({start + h, AsOf(ps)}),
         NEW rfe, rfe = Rebase(ps, start, final, dir),
         NEW outcome, outcome = Evidence(d, h, ps, dir, p), outcome.state = "complete"
  PROVE  Completed(outcome, d, h, start, final, ps, AsOf(ps), rfe, dir)
<1> DEFINE a == AsOf(ps)
           lost == Lost(d, start, final, ps, rfe, dir)
<1>1. start \in Nat
  BY EffectiveIs
<1>2. outcome = IF start > a THEN [state |-> "open"]
                ELSE Judged(d, h, start, final, ps, a, rfe, lost, dir)
  BY EvidenceIs
<1> HIDE DEF a, lost
<1>3. ~(start > a) /\ outcome = Judged(d, h, start, final, ps, a, rfe, lost, dir)
  BY <1>2
<1>4. /\ Unbroken(ps, start, final) /\ ~(lost = {} /\ start + h > a)
      /\ outcome = Result(d, start, final, ps, rfe, lost, dir)
  BY <1>3 DEF Judged
<1>5. /\ outcome.start = start /\ outcome.end = Ending(lost, final)
      /\ outcome.value = IF lost = {} THEN Basket(d, start, ps, rfe, Ending(lost, final), dir) ELSE Zero
  BY <1>4 DEF Result
<1>6. start <= a /\ (lost = {} => start + h <= a)
  BY <1>1, <1>3, <1>4 DEF a
<1>7. QED
  BY <1>4, <1>5, <1>6 DEF Completed, a, lost

\* What the policy comes to within the horizon.
Comes(r, d, start, e, ps, rfe, dir) ==
  LET basket == Basket(d, start, ps, rfe, e, dir)
  IN /\ basket \in Fraction
     /\ r.nav[e] = IF r.nav[e - 1] = Zero \/ basket \preceq Zero THEN Zero ELSE r.nav[start] ** basket

LEMMA PolicyComes ==
  ASSUME Coherent, Chosen, NEW h \in Steps, Sleeves(h) = 1, NEW d \in decisions,
         NEW start, start = BoundaryOf(d.session, phase), start <= AsOf(prints),
         NEW final, final = Min({start + h, AsOf(prints)}),
         NEW rfe, rfe = Rebase(prints, start, final, direction),
         NEW r, r = shown.policy[h], r.ok, r.nav[start] # Zero,
         direction = "long" \/ phase = "close" \/ Remainder(d.weights) = Zero
  PROVE  /\ start \in Nat /\ r.nav[start] \in Fraction /\ r.nav[start][1] > 0
         /\ \A e \in start + 1..final : Comes(r, d, start, e, prints, rfe, direction)
<1> DEFINE a == AsOf(prints)
           t == Rotations(decisions, h, a, phase)
           first == Min(DOMAIN r.nav)
           ref == Rebase(prints, first, a, direction)
<1>1. /\ prints \in Seq(Row) /\ a \in 0..Len(prints) /\ a \in Nat /\ Len(prints) \in Nat
      /\ phase \in Phase /\ direction \in Direction /\ Sessions(decisions)
  BY AsOfIs DEF Coherent
<1>2. h \in Nat \ {0} /\ \A o \in decisions : Target(o.weights)
  BY StepsAssumption, WeightsAssumption DEF Chosen, Target
<1>3. d.session \in Nat \ {0} /\ start \in Nat /\ start \in 1..a /\ d \in Due(decisions, a, phase)
  <2>1. d.session \in Nat \ {0}
    BY <1>1 DEF Sessions
  <2>2. BoundaryOf(d.session, phase) \in Nat \ {0}
    BY <1>1, <2>1, EffectiveIs
  <2>3. QED
    BY <1>1, <2>1, <2>2 DEF Due
<1>4. PhaseOf(start) = phase
  <2>1. d.session \in Nat
    BY <1>3
  <2>2. QED
    BY <1>1, <2>1 DEF PhaseOf, BoundaryOf, Phase
<1>5. /\ start \in DOMAIN t
      /\ \A f \in DOMAIN t : f \in Nat /\ ~(start < f /\ f < start + h)
  BY <1>1, <1>2, <1>3, RotationsWait
<1>6. t[start] = d.weights
  <2>1. t[start] = Targets(Starts(decisions, a, phase), start, h)
    BY <1>5 DEF Rotations
  <2>2. QED
    BY <1>1, <1>2, <1>3, <2>1, StockAssumption, SoleTarget
<1>7. DOMAIN t \in SUBSET (1..a) /\ \A e \in DOMAIN t : Target(t[e])
  <2>1. DOMAIN t \in SUBSET (1..a) /\ \A e \in DOMAIN t : t[e] = Targets(Starts(decisions, a, phase), e, h)
    BY DEF Rotations
  <2>2. \A e \in Int : Target(Targets(Starts(decisions, a, phase), e, h))
    BY <1>1, <1>2, StockAssumption, TargetsAre
  <2>3. \A e \in DOMAIN t : e \in Int
    BY <2>1
  <2>4. QED
    BY <2>1, <2>2, <2>3
<1>8. r = Follow(t, prints, a, direction)
  BY PolicyIs DEF Coherent, Shows
<1> HIDE DEF t
<1>9. Dealt(r, t, start, prints, a, direction)
  BY <1>1, <1>5, <1>7, <1>8, StockAssumption, FollowDeals
<1>10. /\ DOMAIN r.nav = first..a /\ first \in 1..a /\ start \in first..a /\ Unbroken(prints, first, a)
       /\ r.traded \subseteq DOMAIN t /\ start \in r.traded
       /\ Priceable(d.weights, prints, ref, start)
       /\ r.nav[start] \in Fraction /\ r.nav[start][1] > 0
  BY <1>6, <1>9 DEF Dealt
<1>11. CompoundsAlong(r, t)
  BY <1>7, <1>8, FollowingCompounds
<1>12. final \in start..a /\ final <= start + h
  <2>1. start + h \in Nat /\ a \in Nat
    BY <1>1, <1>2, <1>3
  <2>2. final = IF start + h <= a THEN start + h ELSE a
    BY <2>1, MinPair
  <2>3. QED
    BY <1>1, <1>2, <1>3, <2>2
<1> HIDE DEF first, a
<1>13. ASSUME NEW e \in start + 1..final
       PROVE  Comes(r, d, start, e, prints, rfe, direction)
  <2> DEFINE basket == Basket(d, start, prints, rfe, e, direction)
             growth == Grown(d.weights, prints, start, e, ref, direction)
  <2>1. e \in first..a /\ e > first /\ e \in start..final /\ e \in start..a
    BY <1>1, <1>3, <1>10, <1>12
  <2>2. Max({f \in r.traded : f < e}) = start
    <3> DEFINE E == {f \in r.traded : f < e}
    <3>1. \A f \in E : f \in Nat /\ f <= start
      BY <1>2, <1>3, <1>5, <1>10, <1>12
    <3>2. start \in E
      BY <1>3, <1>10
    <3> HIDE DEF E
    <3>3. E \in SUBSET Nat
      BY <3>1
    <3>4. QED
      BY <3>1, <3>2, <3>3, MaxOf DEF E
  <2>3. r.nav[e] = IF r.nav[e - 1] = Zero \/ growth \preceq Zero THEN Zero ELSE r.nav[start] ** growth
    <3>1. LET grown == GrowthOf(t[start], start, e, ref)
          IN r.nav[e] = IF r.nav[e - 1] = Zero \/ grown \preceq Zero THEN Zero ELSE r.nav[start] ** grown
      BY <1>10, <1>11, <2>1, <2>2 DEF CompoundsAlong, first, a
    <3>2. GrowthOf(t[start], start, e, ref) = growth
      BY <1>6, GrownIs
    <3>3. QED
      BY <3>1, <3>2
  <2>4. prints \in Seq(Row) /\ first \in 1..Len(prints) /\ a \in first..Len(prints)
        /\ start \in first..a /\ final \in start..a /\ start \in 1..Len(prints) /\ final \in start..Len(prints)
    BY <1>1, <1>3, <1>10, <1>12
  <2>5. rfe[e] \in Fraction
    <3>1. Unbroken(prints, start, final)
      BY <1>10, <1>12, <2>4 DEF Unbroken
    <3>2. QED
      BY <2>1, <2>4, <3>1, ReferenceStands
  <2>6. Remainder(d.weights) # Zero => ref[e] // ref[start] = rfe[e]
    <3> SUFFICES ASSUME Remainder(d.weights) # Zero PROVE ref[e] // ref[start] = rfe[e]
      OBVIOUS
    <3>1. ref[start] # Zero
      BY <1>10 DEF Priceable
    <3>2. direction = "long" \/ PhaseOf(start) = "close"
      BY <1>4
    <3>3. QED
      BY <1>1, <1>10, <2>1, <2>4, <3>1, <3>2, ReferenceRestarts
  <2>7. basket = growth
    BY <1>2, <2>5, <2>6, BasketGrows
  <2>8. growth \in Fraction
    <3>1. Valuable(t, prints, ref, start, e)
      BY <1>10, <2>1, <2>4, HeldIsValuable
    <3>2. Marks(d.weights, prints, start, e) /\ Refers(d.weights, ref, start, e)
      BY <1>6, <1>10, <3>1 DEF Valuable
    <3>3. Target(d.weights)
      BY <1>2
    <3> DEFINE base == r.nav[start]
    <3>4. base \in Fraction /\ base[1] > 0
      BY <1>10
    <3> HIDE DEF base
    <3>5. QED
      BY <1>10, <3>2, <3>3, <3>4, StockAssumption, EquityIs
  <2>9. QED
    BY <2>3, <2>7, <2>8 DEF Comes
<1>14. QED
  BY <1>3, <1>10, <1>13

LEMMA NothingIsLeft == Zero \preceq Zero
<1>1. Zero[1] = 0 /\ Zero[2] = 1
  BY DEF Zero
<1>2. QED
  BY <1>1 DEF \preceq

LEMMA CoherentEarns ==
  ASSUME Coherent, Chosen
  PROVE  PolicyEarnsEvidence
<1> SUFFICES ASSUME NEW h \in Steps, NEW d \in decisions, Sleeves(h) = 1,
                    NEW outcome, outcome = shown.evidence[h][d], outcome.state = "complete",
                    NEW r, r = shown.policy[h], r.ok,
                    direction = "long" \/ phase = "close" \/ Remainder(d.weights) = Zero,
                    r.nav[outcome.start] # Zero
             PROVE  r.nav[outcome.end] = r.nav[outcome.start] ** outcome.value
  BY DEF PolicyEarnsEvidence
<1> DEFINE a == AsOf(prints)
           start == BoundaryOf(d.session, phase)
           final == Min({start + h, a})
           rfe == Rebase(prints, start, final, direction)
           lost == Lost(d, start, final, prints, rfe, direction)
           basket(e) == Basket(d, start, prints, rfe, e, direction)
<1>1. a \in Nat /\ phase \in Phase /\ d.session \in Nat \ {0} /\ h \in Nat \ {0}
  BY AsOfIs, StepsAssumption DEF Coherent, Sessions
<1>2. outcome = Evidence(d, h, prints, direction, phase)
  BY DEF Coherent, Shows
<1>3. Completed(outcome, d, h, start, final, prints, a, rfe, direction)
  BY <1>1, <1>2, EvidenceCompletes
<1>4. /\ start <= a /\ outcome.start = start /\ outcome.end = Ending(lost, final)
      /\ outcome.value = IF lost = {} THEN basket(outcome.end) ELSE Zero
      /\ lost = {} => start + h <= a
  BY <1>3 DEF Completed
<1>5. /\ start \in Nat /\ r.nav[start] \in Fraction /\ r.nav[start][1] > 0
      /\ \A e \in start + 1..final : Comes(r, d, start, e, prints, rfe, direction)
  BY <1>4, PolicyComes
<1>6. final = IF start + h <= a THEN start + h ELSE a
  <2>1. start + h \in Nat
    BY <1>1, <1>5
  <2>2. QED
    BY <1>1, <2>1, MinPair
<1> HIDE DEF start, final, rfe, a
<1>7. \A e \in lost : e \in start + 1..final /\ basket(e) \preceq Zero
  BY DEF Lost
<1>8. \A e \in start + 1..final : e \notin lost => ~(basket(e) \preceq Zero)
  BY DEF Lost
<1>9. \A e \in start + 1..final :
        /\ basket(e) \in Fraction
        /\ r.nav[e] = IF r.nav[e - 1] = Zero \/ basket(e) \preceq Zero THEN Zero ELSE r.nav[start] ** basket(e)
  BY <1>5 DEF Comes
<1> HIDE DEF basket, lost
<1> DEFINE x == r.nav[start]
<1>10. x \in Fraction /\ x[1] > 0
  BY <1>5
<1>11. CASE lost # {}
  <2>1. final \in Nat
    BY <1>1, <1>5, <1>6
  <2>2. lost \in SUBSET Nat
    BY <1>5, <1>7, <2>1
  <2>3. Min(lost) \in lost
    BY <1>11, <2>2, MinIs
  <2>4. outcome.end \in lost /\ outcome.value = Zero
    BY <1>4, <1>11, <2>3 DEF Ending
  <2>5. r.nav[outcome.end] = Zero
    BY <1>7, <1>9, <2>4
  <2>6. x ** Zero = Zero
    BY <1>10, TimesLaws, Constants
  <2>7. QED
    BY <1>4, <2>4, <2>5, <2>6
<1>12. CASE lost = {}
  <2>1. final = start + h /\ outcome.end = final /\ outcome.value = basket(final) /\ final \in start + 1..final
    BY <1>1, <1>4, <1>5, <1>6, <1>12 DEF Ending
  <2>2. \A e \in start + 1..final : basket(e) \in Fraction /\ ~(basket(e) \preceq Zero)
    BY <1>8, <1>9, <1>12
  <2>3. r.nav[final - 1] # Zero
    <3>1. x # Zero
      BY <1>10, Signs
    <3>2. CASE h = 1
      BY <1>5, <2>1, <3>1, <3>2
    <3>3. CASE h = 2
      <4> DEFINE e == start + 1
                 y == basket(e)
      <4>1. e \in start + 1..final /\ e - 1 = start /\ final - 1 = e
        BY <1>5, <2>1, <3>3
      <4>2. r.nav[e] = x ** y /\ y \in Fraction /\ ~(y \preceq Zero)
        BY <1>9, <2>2, <3>1, <4>1
      <4> HIDE DEF y, x
      <4>3. ~(x ** y \preceq Zero) /\ x ** y \in Fraction
        BY <1>10, <4>2, TimesSign, Closed2
      <4>4. Zero \preceq Zero
        BY NothingIsLeft
      <4>5. QED
        BY <4>1, <4>2, <4>3, <4>4
    <3>4. h = 1 \/ h = 2
      BY <1>1 DEF Sleeves
    <3>5. QED
      BY <3>2, <3>3, <3>4
  <2>4. r.nav[final] = x ** basket(final)
    BY <1>9, <2>1, <2>2, <2>3
  <2>5. QED
    BY <1>4, <2>1, <2>4
<1>13. QED
  BY <1>11, <1>12

\* With one sleeve the policy earns on each signal what the evidence says of it:
\* construct_policy and signal_horizon_statistics, which value the same weights
\* by themselves, come to the same product.
THEOREM PolicyEarnsEvidenceAlways == Spec => []PolicyEarnsEvidence
<1>1. Coherent /\ Chosen => PolicyEarnsEvidence
  BY CoherentEarns
<1>2. QED
  BY <1>1, ShownIsKnown, ChosenAlways, PTL
=============================================================================
