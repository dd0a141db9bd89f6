-------------------------- MODULE MarketRefreshProofs --------------------------
(***************************************************************************)
(* Proofs about MarketRefresh, for every number of processes, symbols and  *)
(* sessions and every lag, batch and fault of the provider.                *)
(***************************************************************************)
EXTENDS MarketRefresh, Induction, TLAPS

(* The inductive invariant: every price that is cached, or that a pass holds  *)
(* to store it later, is final; a pass is never ahead of the clock; and a     *)
(* pass holds a row for each symbol it means to extend.                       *)
SettledPoint == [final: {TRUE}, basis: Basis]
SettledSeries == [Boundary -> SettledPoint \cup {None}]
SettledEntry == [series: SettledSeries, fetched: Boundary]

LockPass == [stage: {"lock"}, now: Boundary]
GroupedPass ==
  [stage: {"grouped"}, now: Boundary, working: [Symbol -> SettledEntry \cup {None}],
   candidates: SUBSET Symbol, sessions: SUBSET Int]

CacheSettled == clock \in Boundary /\ cache \in [Symbol -> SettledEntry \cup {None}]
PassSettled(q) ==
  \/ q = Idle
  \/ q \in LockPass /\ q.now <= clock
  \/ /\ q \in GroupedPass /\ q.now <= clock
     /\ \A s \in q.candidates : q.working[s] \in SettledEntry
PassesSettled == DOMAIN pass = Process /\ \A p \in Process : PassSettled(pass[p])

IInv == CacheSettled /\ PassesSettled

-----------------------------------------------------------------------------
(* Series. *)

LEMMA BoundaryIsInt == Boundary \subseteq Int /\ 1 \in Boundary
  BY RefreshAssumption DEF Boundary

LEMMA CountedIsBasis == \A A : Counted(A) \in Basis
  BY DEF Counted, Basis

LEMMA FactorIsBasis ==
  ASSUME NEW e, NEW d
  PROVE  FactorOnce(e, d, SessionFactor(d)) \in Basis
<1>1. SessionFactor(d) \in Basis
  BY CountedIsBasis DEF SessionFactor
<1>2. [a \in Action |-> 0] \in Basis
  BY DEF Basis
<1>3. QED
  BY <1>1, <1>2 DEF FactorOnce

LEMMA FactoredPointIsSettled ==
  ASSUME NEW point \in SettledPoint, NEW factor \in Basis
  PROVE  [point EXCEPT !.basis = [a \in Action |-> @[a] + factor[a]]] \in SettledPoint
<1>1. [a \in Action |-> point.basis[a] + factor[a]] \in Basis
  BY DEF SettledPoint, Basis
<1>2. QED
  BY <1>1 DEF SettledPoint

LEMMA FactorKeepsSettled ==
  ASSUME NEW series \in SettledSeries, NEW factor \in Basis, NEW d
  PROVE  ApplyHistoricalFactor(series, factor, d) \in SettledSeries
  BY FactoredPointIsSettled DEF ApplyHistoricalFactor, SettledSeries

LEMMA MergeKeepsSettled ==
  ASSUME NEW s \in SettledSeries, NEW t \in SettledSeries
  PROVE  MergeSeries(s, t) \in SettledSeries
  BY DEF MergeSeries, SettledSeries

\* What the provider shows up to the time of a pass was published by then.
LEMMA GroupedIsSettled ==
  ASSUME CacheSettled, NEW now \in Boundary, now <= clock, NEW answered
  PROVE  Published([b \in Boundary |-> IF b \in answered THEN GroupedPoint(b) ELSE None], now)
           \in SettledSeries
<1>1. \A b \in Boundary : b <= now => GroupedPoint(b) \in SettledPoint
  <2> SUFFICES ASSUME NEW b \in Boundary, b <= now PROVE GroupedPoint(b) \in SettledPoint
    OBVIOUS
  <2>1. Final(b) = TRUE
    BY RefreshAssumption DEF Final, Boundary, CacheSettled
  <2>2. QED
    BY <2>1, CountedIsBasis DEF GroupedPoint, SettledPoint
<1>2. QED
  BY <1>1 DEF Published, SettledSeries

LEMMA DownloadIsSettled ==
  ASSUME CacheSettled, NEW now \in Boundary, now <= clock, NEW from, NEW target, NEW upto
  PROVE  Published(Download(from, target, upto), now) \in SettledSeries
<1>1. \A b \in Boundary : b <= now => FullPoint(b, target) \in SettledPoint
  <2> SUFFICES ASSUME NEW b \in Boundary, b <= now PROVE FullPoint(b, target) \in SettledPoint
    OBVIOUS
  <2>1. Final(b) = TRUE
    BY RefreshAssumption DEF Final, Boundary, CacheSettled
  <2>2. QED
    BY <2>1, CountedIsBasis DEF FullPoint, SettledPoint
<1>2. QED
  BY <1>1 DEF Published, Download, SettledSeries

LEMMA UpsertKeepsSettled ==
  ASSUME NEW old \in SettledEntry \cup {None}, NEW new \in SettledEntry
  PROVE  Upsert(old, new) \in SettledEntry \cup {None}
  BY DEF Upsert

-----------------------------------------------------------------------------
(* Steps. *)

LEMMA InitSettled == Init => IInv
<1> SUFFICES ASSUME Init PROVE IInv
  OBVIOUS
<1>1. CacheSettled
  BY BoundaryIsInt DEF Init, CacheSettled
<1>2. PassesSettled
  BY DEF Init, PassesSettled, PassSettled
<1>3. QED
  BY <1>1, <1>2 DEF IInv

\* Passes stay as they are when the clock does not go back.
LEMMA PassesStay ==
  ASSUME IInv, UNCHANGED pass, clock' \in Boundary, clock <= clock'
  PROVE  PassesSettled'
<1>1. ASSUME NEW p \in Process PROVE PassSettled(pass[p])'
  <2>1. pass'[p] = pass[p] /\ PassSettled(pass[p]) /\ clock \in Int /\ clock' \in Int
    BY BoundaryIsInt DEF IInv, CacheSettled, PassesSettled
  <2>2. pass[p] # Idle => pass[p].now \in Boundary /\ pass[p].now <= clock
    BY <2>1 DEF PassSettled, LockPass, GroupedPass
  <2>3. ASSUME pass[p] # Idle PROVE pass[p].now <= clock'
    <3>1. pass[p].now \in Int
      BY <2>2, <2>3, BoundaryIsInt
    <3>2. QED
      BY <2>1, <2>2, <2>3, <3>1
  <2>4. QED
    BY <2>1, <2>3 DEF PassSettled
<1>2. QED
  BY <1>1 DEF IInv, PassesSettled

\* One pass moves on, and the clock stays.
LEMMA OnePassMoves ==
  ASSUME IInv, UNCHANGED clock, NEW p \in Process, NEW q,
         pass' = [pass EXCEPT ![p] = q], PassSettled(q)
  PROVE  PassesSettled'
<1>1. ASSUME NEW o \in Process PROVE PassSettled(pass'[o])
  BY DEF IInv, PassesSettled
<1>2. ASSUME NEW o \in Process PROVE PassSettled(pass[o])'
  BY <1>1 DEF PassSettled
<1>3. QED
  BY <1>2 DEF IInv, PassesSettled

LEMMA IdleSettled == PassSettled(Idle)
  BY DEF PassSettled

LEMMA AcquireSettled ==
  ASSUME IInv, NEW p \in Process, Acquire(p)
  PROVE  IInv'
<1> DEFINE now == pass[p].now
           Lacks == [s \in Required(now) |-> Missing(cache[s], s, now)]
           candidates == {s \in Required(now) : Lacks[s] # {}}
           sessions == UNION {Lacks[s] : s \in Required(now)}
           q == [stage |-> "grouped", now |-> now, working |-> cache,
                 candidates |-> candidates, sessions |-> sessions]
<1>1. pass[p] \in LockPass /\ now \in Boundary /\ now <= clock
  BY DEF Acquire, IInv, PassesSettled, PassSettled, LockPass, GroupedPass, Idle
<1>2. \A s \in Symbol : Missing(cache[s], s, now) \subseteq Int
  <2> SUFFICES ASSUME NEW s \in Symbol PROVE Missing(cache[s], s, now) \subseteq Int
    OBVIOUS
  <2>1. SessionOf(now) \in Int
    <3>1. now \in Int
      BY <1>1, BoundaryIsInt
    <3>2. QED
      BY <3>1 DEF SessionOf
  <2>2. (Latest(cache[s]) + 1)..SessionOf(now) \subseteq Int
    OBVIOUS
  <2>3. QED
    BY <2>1, <2>2 DEF Missing
<1>3. \A s \in Required(now) : Lacks[s] # {} => cache[s] # None
  BY DEF Missing, Covers
<1>4. Required(now) \subseteq Symbol
  BY DEF Required
<1>5. candidates \subseteq Symbol /\ sessions \subseteq Int
  BY <1>2, <1>4
<1>6. \A s \in candidates : cache[s] \in SettledEntry
  BY <1>3, <1>4 DEF IInv, CacheSettled
<1>7. pass' = [pass EXCEPT ![p] = q] /\ UNCHANGED <<clock, cache>>
  BY DEF Acquire
<1> HIDE DEF candidates, sessions
<1>8. PassSettled(q)
  BY <1>1, <1>5, <1>6 DEF PassSettled, GroupedPass, IInv, CacheSettled
<1> HIDE DEF q
<1>9. PassesSettled'
  BY <1>7, <1>8, OnePassMoves
<1>10. QED
  BY <1>7, <1>9 DEF IInv, CacheSettled

LEMMA GroupedSettled ==
  ASSUME IInv, NEW p \in Process, Grouped(p)
  PROVE  IInv'
<1> DEFINE now == pass[p].now
           working == pass[p].working
           d == Min(pass[p].sessions)
           pending == {s \in pass[p].candidates : ~Has(working[s], Wanted(d, now))}
<1>1. /\ pass[p] \in GroupedPass /\ now \in Boundary /\ now <= clock
      /\ \A s \in pass[p].candidates : working[s] \in SettledEntry
  BY DEF Grouped, IInv, PassesSettled, PassSettled, LockPass, GroupedPass, Idle
<1>2. CASE pass' = [pass EXCEPT ![p].sessions = {}] /\ UNCHANGED cache
  <2> DEFINE q == [pass[p] EXCEPT !.sessions = {}]
  <2>1. pass' = [pass EXCEPT ![p] = q] /\ UNCHANGED <<clock, cache>>
    BY <1>2 DEF Grouped, IInv, PassesSettled
  <2>2. PassSettled(q)
    BY <1>1 DEF PassSettled, GroupedPass
  <2> HIDE DEF q
  <2>3. QED
    BY <2>1, <2>2, OnePassMoves DEF IInv, CacheSettled
<1>3. CASE \E answer : Merge(p, d, pending, answer)
  <2> PICK answer : Merge(p, d, pending, answer)
    BY <1>3
  <2> DEFINE Fields(s) == [b \in Boundary |-> IF b \in answer[s] THEN GroupedPoint(b) ELSE None]
             Row(s) == [series |-> MergeSeries(Published(Fields(s), now),
                          ApplyHistoricalFactor(working[s].series,
                            FactorOnce(working[s], d, SessionFactor(d)), d)),
                        fetched |-> now]
             merged == {s \in pending : Published(Fields(s), now) # Empty}
             after == [s \in Symbol |-> IF s \in merged THEN Row(s) ELSE working[s]]
             q == [pass[p] EXCEPT !.sessions = @ \ {d}, !.working = after]
  <2>1. \A s \in pending : Row(s) \in SettledEntry
    <3> SUFFICES ASSUME NEW s \in pending PROVE Row(s) \in SettledEntry
      OBVIOUS
    <3>1. working[s] \in SettledEntry
      BY <1>1
    <3>2. Published(Fields(s), now) \in SettledSeries
      BY <1>1, GroupedIsSettled DEF IInv
    <3>3. ApplyHistoricalFactor(working[s].series,
            FactorOnce(working[s], d, SessionFactor(d)), d) \in SettledSeries
      BY <3>1, FactorIsBasis, FactorKeepsSettled DEF SettledEntry
    <3>4. MergeSeries(Published(Fields(s), now),
            ApplyHistoricalFactor(working[s].series,
              FactorOnce(working[s], d, SessionFactor(d)), d)) \in SettledSeries
      BY <3>2, <3>3, MergeKeepsSettled
    <3>5. QED
      BY <1>1, <3>4 DEF SettledEntry
  <2>2. /\ pass' = [pass EXCEPT ![p].sessions = @ \ {d},
             ![p].working = [s \in Symbol |-> IF s \in merged THEN Row(s) ELSE @[s]]]
        /\ cache' = [s \in Symbol |-> IF s \in merged THEN Upsert(cache[s], Row(s)) ELSE cache[s]]
        /\ UNCHANGED clock
    BY DEF Merge, Grouped
  <2>3. merged \subseteq pending /\ pending \subseteq pass[p].candidates
    OBVIOUS
  <2> HIDE DEF Row, merged, pending
  <2>4. pass' = [pass EXCEPT ![p] = q]
    BY <2>2, <1>1 DEF IInv, PassesSettled, GroupedPass
  <2>5. after \in [Symbol -> SettledEntry \cup {None}]
    BY <1>1, <2>1, <2>3 DEF GroupedPass
  <2>6. \A s \in pass[p].candidates : after[s] \in SettledEntry
    BY <1>1, <2>1, <2>3 DEF GroupedPass
  <2> HIDE DEF after
  <2>7. PassSettled(q)
    BY <1>1, <2>5, <2>6 DEF PassSettled, GroupedPass
  <2> HIDE DEF q
  <2>8. PassesSettled'
    BY <2>2, <2>4, <2>7, OnePassMoves
  <2>9. cache' \in [Symbol -> SettledEntry \cup {None}]
    <3>1. ASSUME NEW s \in Symbol
          PROVE (IF s \in merged THEN Upsert(cache[s], Row(s)) ELSE cache[s]) \in SettledEntry \cup {None}
      BY <2>1, <2>3, UpsertKeepsSettled DEF IInv, CacheSettled
    <3>2. QED
      BY <2>2, <3>1
  <2>10. QED
    BY <2>2, <2>8, <2>9 DEF IInv, CacheSettled
<1>4. QED
  BY <1>2, <1>3 DEF Grouped

LEMMA RepairSettled ==
  ASSUME IInv, NEW p \in Process, pass[p].stage = "grouped", NEW batch, NEW upto,
         Repair(p, batch, upto)
  PROVE  cache' \in [Symbol -> SettledEntry \cup {None}]
<1> DEFINE now == pass[p].now
           from == Min({IF cache[s] = None THEN Start[s]
                        ELSE Min({Start[s]} \cup Covered(cache[s].series)) : s \in batch})
           Data(s) == Published(Download(from, SessionOf(now), upto[s]), now)
           Row(s) == [series |-> IF cache[s] = None THEN Data(s)
                                 ELSE MergeSeries(Data(s), cache[s].series),
                      fetched |-> now]
           Stored(s) == IF s \in batch /\ Data(s) # Empty
                          THEN IF cache[s] = None THEN Row(s) ELSE Upsert(cache[s], Row(s))
                          ELSE cache[s]
<1>1. now \in Boundary /\ now <= clock
  BY DEF IInv, PassesSettled, PassSettled, LockPass, GroupedPass, Idle
<1>2. cache' = [s \in Symbol |-> Stored(s)]
  BY DEF Repair
<1> HIDE DEF from
<1>3. ASSUME NEW s \in Symbol PROVE Stored(s) \in SettledEntry \cup {None}
  <2>1. Data(s) \in SettledSeries
    BY <1>1, DownloadIsSettled DEF IInv
  <2>2. cache[s] \in SettledEntry \cup {None}
    BY DEF IInv, CacheSettled
  <2> HIDE DEF Data
  <2>3. Row(s) \in SettledEntry
    <3>1. CASE cache[s] = None
      BY <3>1, <1>1, <2>1 DEF SettledEntry
    <3>2. CASE cache[s] # None
      <4>1. MergeSeries(Data(s), cache[s].series) \in SettledSeries
        BY <3>2, <2>1, <2>2, MergeKeepsSettled DEF SettledEntry
      <4>2. QED
        BY <3>2, <4>1, <1>1 DEF SettledEntry
    <3>3. QED
      BY <3>1, <3>2
  <2> HIDE DEF Row
  <2>4. QED
    BY <2>2, <2>3, UpsertKeepsSettled
<1> HIDE DEF Stored
<1>4. QED
  BY <1>2, <1>3

LEMMA RegularSettled ==
  ASSUME IInv, NEW p \in Process, Regular(p)
  PROVE  IInv'
<1>1. pass[p].stage = "grouped" /\ pass' = [pass EXCEPT ![p] = Idle] /\ UNCHANGED clock
  BY DEF Regular
<1>2. \/ UNCHANGED cache
      \/ \E batch, upto : Repair(p, batch, upto)
  <2>1. PICK aged \in SUBSET {s \in Symbol : cache[s] # None /\ cache[s].fetched <= pass[p].now} :
          LET due == {s \in Required(pass[p].now) : RefreshDue(s, pass[p].now, aged)}
          IN IF due = {} THEN UNCHANGED cache
             ELSE \E upto \in [FirstOf(due) -> {0, clock + 1} \cup {clock - n : n \in Lag}] :
                    /\ \A s \in FirstOf(due) \cap Silent : upto[s] = 0
                    /\ Repair(p, FirstOf(due), upto)
    BY DEF Regular
  <2> DEFINE due == {s \in Required(pass[p].now) : RefreshDue(s, pass[p].now, aged)}
  <2> HIDE DEF due
  <2>2. IF due = {} THEN UNCHANGED cache ELSE \E upto : Repair(p, FirstOf(due), upto)
    BY <2>1 DEF due
  <2>3. QED
    BY <2>2
<1>3. cache' \in [Symbol -> SettledEntry \cup {None}]
  BY <1>1, <1>2, RepairSettled DEF IInv, CacheSettled
<1>4. PassesSettled'
  BY <1>1, IdleSettled, OnePassMoves
<1>5. QED
  BY <1>1, <1>3, <1>4 DEF IInv, CacheSettled

LEMMA NextSettled == IInv /\ [Next]_vars => IInv'
<1> SUFFICES ASSUME IInv, [Next]_vars PROVE IInv'
  OBVIOUS
<1>1. CASE Tick
  <2>1. clock' \in Boundary /\ clock <= clock'
    BY <1>1, RefreshAssumption DEF Tick, IInv, CacheSettled, Boundary
  <2>2. UNCHANGED <<cache, pass>>
    BY <1>1 DEF Tick
  <2>3. PassesSettled'
    BY <2>1, <2>2, PassesStay
  <2>4. QED
    BY <2>1, <2>2, <2>3 DEF IInv, CacheSettled
<1>2. CASE ClearCache
  BY <1>2, PassesStay, BoundaryIsInt DEF ClearCache, IInv, CacheSettled
<1>3. ASSUME NEW p \in Process, Begin(p) PROVE IInv'
  <2> DEFINE q == [stage |-> "lock", now |-> clock]
  <2>1. PassSettled(q)
    BY BoundaryIsInt DEF PassSettled, LockPass, IInv, CacheSettled
  <2>2. pass' = [pass EXCEPT ![p] = q] /\ UNCHANGED <<clock, cache>>
    BY <1>3 DEF Begin
  <2> HIDE DEF q
  <2>3. QED
    BY <2>1, <2>2, OnePassMoves DEF IInv, CacheSettled
<1>4. ASSUME NEW p \in Process, NotAcquired(p) \/ Crash(p) PROVE IInv'
  <2>1. pass' = [pass EXCEPT ![p] = Idle] /\ UNCHANGED <<clock, cache>>
    BY <1>4 DEF NotAcquired, Crash
  <2>2. QED
    BY <2>1, IdleSettled, OnePassMoves DEF IInv, CacheSettled
<1>5. ASSUME NEW p \in Process, Acquire(p) PROVE IInv'
  BY <1>5, AcquireSettled
<1>6. ASSUME NEW p \in Process, Grouped(p) PROVE IInv'
  BY <1>6, GroupedSettled
<1>7. ASSUME NEW p \in Process, Regular(p) PROVE IInv'
  BY <1>7, RegularSettled
<1>8. CASE UNCHANGED vars
  BY <1>8, PassesStay, BoundaryIsInt DEF vars, IInv, CacheSettled
<1>9. QED
  BY <1>1, <1>2, <1>3, <1>4, <1>5, <1>6, <1>7, <1>8 DEF Next

\* Whatever passes overlap, crash or hold old responses, and whatever developing
\* bars the provider shows, only settled prices are ever cached
\* (_published_series of price_cache.py, _refresh_grouped_sessions).
THEOREM OnlyFinalPrices == Spec => []PricesAreFinal
<1>1. IInv => PricesAreFinal
  BY DEF IInv, CacheSettled, SettledEntry, SettledSeries, SettledPoint, PricesAreFinal, Has
<1>2. QED
  BY <1>1, InitSettled, NextSettled, PTL DEF Spec

-----------------------------------------------------------------------------
(* Nothing is lost.  Only the pass that holds the lock writes rows, and what  *)
(* it holds of a symbol has every boundary of the symbol's row: it was read   *)
(* under the lock, and since then the row has only taken what the pass merged *)
(* itself, or was cleared.                                                    *)

Within(e, f) == \A b \in Boundary : Has(e, b) => Has(f, b)

HolderHasAll ==
  /\ \A p \in Process : pass[p].stage = "grouped" <=> lock = p
  /\ \A p \in Process : pass[p].stage = "grouped" =>
       \A s \in Symbol : Within(cache[s], pass[p].working[s])

\* A settled point or row is not the absence of one.
LEMMA SettledIsSomething == None \notin SettledPoint /\ None \notin SettledEntry
<1>1. SettledPoint \subseteq Point
  BY DEF SettledPoint, Point
<1>2. SettledSeries \subseteq Series
  BY <1>1 DEF SettledSeries, Series
<1>3. SettledEntry \subseteq Entry
  BY <1>2 DEF SettledEntry, Entry
<1>4. QED
  BY <1>1, <1>3, SentinelAssumption

\* Applying a factor and merging leave no boundary out.
LEMMA FactorKeepsBoundaries ==
  ASSUME NEW series \in SettledSeries, NEW factor \in Basis, NEW d, NEW b \in Boundary,
         series[b] # None
  PROVE  ApplyHistoricalFactor(series, factor, d)[b] # None
<1>1. series[b] \in SettledPoint
  BY DEF SettledSeries
<1>2. [series[b] EXCEPT !.basis = [a \in Action |-> @[a] + factor[a]]] \in SettledPoint
  BY <1>1, FactoredPointIsSettled
<1>3. QED
  BY <1>1, <1>2, SettledIsSomething DEF ApplyHistoricalFactor

LEMMA MergeKeepsBoundaries ==
  ASSUME NEW preferred, NEW fallback, NEW b \in Boundary, fallback[b] # None
  PROVE  MergeSeries(preferred, fallback)[b] # None
  BY DEF MergeSeries

\* The conditional upsert keeps the row or takes the new one.
LEMMA UpsertKeepsBoundaries ==
  ASSUME NEW row, NEW new, Within(row, new)
  PROVE  Within(row, Upsert(row, new)) /\ Within(Upsert(row, new), new)
<1>1. Upsert(row, new) \in {row, new}
  BY DEF Upsert
<1>2. QED
  BY <1>1 DEF Within

\* A grouped response extends the rows, and the pass's own as much.
LEMMA GroupedKeeps ==
  ASSUME IInv, HolderHasAll, NEW p \in Process, Grouped(p)
  PROVE  /\ \A s \in Symbol : Within(cache[s], cache'[s]) /\ Within(cache'[s], pass'[p].working[s])
         /\ pass'[p].stage = "grouped" /\ UNCHANGED lock
         /\ \A o \in Process \ {p} : pass'[o] = pass[o]
<1> DEFINE now == pass[p].now
           working == pass[p].working
           d == Min(pass[p].sessions)
           pending == {s \in pass[p].candidates : ~Has(working[s], Wanted(d, now))}
<1>1. /\ pass[p] \in GroupedPass /\ DOMAIN pass = Process
      /\ \A s \in pass[p].candidates : working[s] \in SettledEntry
      /\ \A s \in Symbol : Within(cache[s], working[s])
  BY DEF Grouped, IInv, PassesSettled, PassSettled, LockPass, GroupedPass, Idle, HolderHasAll
<1>2. /\ now \in Boundary /\ now <= clock /\ working \in [Symbol -> SettledEntry \cup {None}]
      /\ CacheSettled
  BY <1>1 DEF GroupedPass, Grouped, IInv, PassesSettled, PassSettled, LockPass, Idle
<1>3. CASE pass' = [pass EXCEPT ![p].sessions = {}] /\ UNCHANGED cache
  <2>1. pass'[p] = [pass[p] EXCEPT !.sessions = {}] /\ \A o \in Process \ {p} : pass'[o] = pass[o]
    BY <1>1, <1>3
  <2>2. pass'[p].working = working /\ pass'[p].stage = "grouped"
    BY <1>1, <2>1 DEF GroupedPass
  <2>3. \A s \in Symbol : Within(cache[s], cache[s])
    BY DEF Within
  <2>4. QED
    BY <1>1, <1>3, <2>1, <2>2, <2>3 DEF Grouped
<1>4. CASE \E answer : Merge(p, d, pending, answer)
  <2> PICK answer : Merge(p, d, pending, answer)
    BY <1>4
  <2> DEFINE Fields(s) == [b \in Boundary |-> IF b \in answer[s] THEN GroupedPoint(b) ELSE None]
             Row(s) == [series |-> MergeSeries(Published(Fields(s), now),
                          ApplyHistoricalFactor(working[s].series,
                            FactorOnce(working[s], d, SessionFactor(d)), d)),
                        fetched |-> now]
             merged == {s \in pending : Published(Fields(s), now) # Empty}
             after == [s \in Symbol |-> IF s \in merged THEN Row(s) ELSE working[s]]
             q == [pass[p] EXCEPT !.sessions = @ \ {d}, !.working = after]
  <2>1. \A s \in pending : Within(working[s], Row(s))
    <3> SUFFICES ASSUME NEW s \in pending, NEW b \in Boundary, Has(working[s], b)
                 PROVE  Has(Row(s), b)
      BY DEF Within
    <3>1. working[s] \in SettledEntry
      BY <1>1
    <3>2. working[s].series \in SettledSeries /\ working[s].series[b] # None
      BY <3>1 DEF SettledEntry, Has
    <3>3. ApplyHistoricalFactor(working[s].series,
            FactorOnce(working[s], d, SessionFactor(d)), d)[b] # None
      BY <3>2, FactorIsBasis, FactorKeepsBoundaries
    <3>4. Row(s).series[b] # None
      BY <3>3, MergeKeepsBoundaries
    <3>5. Row(s) \in SettledEntry
      <4>1. Published(Fields(s), now) \in SettledSeries
        BY <1>2, GroupedIsSettled
      <4>2. ApplyHistoricalFactor(working[s].series,
              FactorOnce(working[s], d, SessionFactor(d)), d) \in SettledSeries
        BY <3>2, FactorIsBasis, FactorKeepsSettled
      <4>3. QED
        BY <1>2, <4>1, <4>2, MergeKeepsSettled DEF SettledEntry
    <3> HIDE DEF Row
    <3>6. QED
      BY <3>4, <3>5, SettledIsSomething DEF Has
  <2>2. /\ pass' = [pass EXCEPT ![p].sessions = @ \ {d},
             ![p].working = [s \in Symbol |-> IF s \in merged THEN Row(s) ELSE @[s]]]
        /\ cache' = [s \in Symbol |-> IF s \in merged THEN Upsert(cache[s], Row(s)) ELSE cache[s]]
    BY DEF Merge
  <2>3. merged \subseteq pending /\ pending \subseteq pass[p].candidates
    OBVIOUS
  <2> HIDE DEF Row, merged, pending
  <2>4. pass' = [pass EXCEPT ![p] = q]
    BY <2>2, <1>1 DEF GroupedPass
  <2>5. /\ pass'[p].working = after /\ pass'[p].stage = "grouped"
        /\ \A o \in Process \ {p} : pass'[o] = pass[o]
    BY <1>1, <2>4 DEF GroupedPass
  <2>6. ASSUME NEW s \in Symbol
        PROVE  Within(cache[s], cache'[s]) /\ Within(cache'[s], after[s])
    <3>1. CASE s \in merged
      <4>1. Within(cache[s], Row(s))
        BY <1>1, <2>1, <2>3, <3>1 DEF Within
      <4>2. Within(cache[s], Upsert(cache[s], Row(s))) /\ Within(Upsert(cache[s], Row(s)), Row(s))
        BY <4>1, UpsertKeepsBoundaries
      <4>3. QED
        BY <2>2, <3>1, <4>2
    <3>2. CASE s \notin merged
      <4>1. Within(cache[s], cache[s])
        BY DEF Within
      <4>2. QED
        BY <1>1, <2>2, <3>2, <4>1
    <3>3. QED
      BY <3>1, <3>2
  <2>7. QED
    BY <2>5, <2>6 DEF Grouped
<1>5. QED
  BY <1>3, <1>4 DEF Grouped

\* A repair extends the row it finds.
LEMMA RegularKeeps ==
  ASSUME IInv, NEW p \in Process, Regular(p), NEW s \in Symbol
  PROVE  Within(cache[s], cache'[s])
<1>1. CASE UNCHANGED cache
  BY <1>1 DEF Within
<1>2. ASSUME NEW batch, NEW upto, Repair(p, batch, upto) PROVE Within(cache[s], cache'[s])
  <2> DEFINE now == pass[p].now
             from == Min({IF cache[r] = None THEN Start[r]
                          ELSE Min({Start[r]} \cup Covered(cache[r].series)) : r \in batch})
             Data == Published(Download(from, SessionOf(now), upto[s]), now)
             Row == [series |-> IF cache[s] = None THEN Data
                                ELSE MergeSeries(Data, cache[s].series),
                     fetched |-> now]
  <2>1. cache'[s] = IF s \in batch /\ Data # Empty
                      THEN IF cache[s] = None THEN Row ELSE Upsert(cache[s], Row)
                      ELSE cache[s]
    BY <1>2 DEF Repair
  <2>2. CASE cache[s] = None
    BY <2>2 DEF Within, Has
  <2>3. CASE cache[s] # None
    <3>1. now \in Boundary /\ now <= clock /\ CacheSettled
      BY DEF Regular, IInv, PassesSettled, PassSettled, LockPass, GroupedPass, Idle
    <3> HIDE DEF from
    <3>2. Data \in SettledSeries
      BY <3>1, DownloadIsSettled
    <3>3. cache[s] \in SettledEntry /\ cache[s].series \in SettledSeries
      BY <2>3, <3>1 DEF CacheSettled, SettledEntry
    <3> HIDE DEF Data
    <3>4. MergeSeries(Data, cache[s].series) \in SettledSeries
      BY <3>2, <3>3, MergeKeepsSettled
    <3>5. Row.series = MergeSeries(Data, cache[s].series) /\ Row \in SettledEntry
      BY <2>3, <3>1, <3>4 DEF SettledEntry
    <3> HIDE DEF Row
    <3>6. Within(cache[s], Row)
      BY <3>5, MergeKeepsBoundaries, SettledIsSomething DEF Within, Has
    <3>7. Within(cache[s], Upsert(cache[s], Row)) /\ Within(cache[s], cache[s])
      BY <3>6, UpsertKeepsBoundaries DEF Within
    <3>8. QED
      BY <2>1, <2>3, <3>7
  <2>4. QED
    BY <2>2, <2>3
<1>3. UNCHANGED cache \/ \E batch, upto : Repair(p, batch, upto)
  <2>1. PICK aged \in SUBSET {r \in Symbol : cache[r] # None /\ cache[r].fetched <= pass[p].now} :
          LET due == {r \in Required(pass[p].now) : RefreshDue(r, pass[p].now, aged)}
          IN IF due = {} THEN UNCHANGED cache
             ELSE \E upto \in [FirstOf(due) -> {0, clock + 1} \cup {clock - n : n \in Lag}] :
                    /\ \A r \in FirstOf(due) \cap Silent : upto[r] = 0
                    /\ Repair(p, FirstOf(due), upto)
    BY DEF Regular
  <2> DEFINE due == {r \in Required(pass[p].now) : RefreshDue(r, pass[p].now, aged)}
  <2> HIDE DEF due
  <2>2. IF due = {} THEN UNCHANGED cache ELSE \E upto : Repair(p, FirstOf(due), upto)
    BY <2>1 DEF due
  <2>3. QED
    BY <2>2
<1>4. QED
  BY <1>1, <1>2, <1>3

\* Every step but the clearing of the cache keeps what the rows have.
LEMMA StepKeeps ==
  ASSUME IInv, HolderHasAll, [Next]_vars
  PROVE  ClearCache \/ \A s \in Symbol : Within(cache[s], cache'[s])
<1>1. CASE UNCHANGED cache
  BY <1>1 DEF Within
<1>2. ASSUME NEW p \in Process, Grouped(p) PROVE \A s \in Symbol : Within(cache[s], cache'[s])
  BY <1>2, GroupedKeeps
<1>3. ASSUME NEW p \in Process, Regular(p) PROVE \A s \in Symbol : Within(cache[s], cache'[s])
  BY <1>3, RegularKeeps
<1>4. QED
  BY <1>1, <1>2, <1>3 DEF Next, vars, Tick, Begin, NotAcquired, Acquire, Crash

\* One pass changes its stage and another does not come to hold the lock.
LEMMA HolderHasAllStep == IInv /\ HolderHasAll /\ [Next]_vars => HolderHasAll'
<1> SUFFICES ASSUME IInv, HolderHasAll, [Next]_vars PROVE HolderHasAll'
  OBVIOUS
<1>1. DOMAIN pass = Process
  BY DEF IInv, PassesSettled
<1>2. CASE UNCHANGED <<lock, pass, cache>>
  BY <1>2 DEF HolderHasAll, Within, Has
<1>3. CASE ClearCache
  BY <1>3 DEF ClearCache, HolderHasAll, Within, Has
<1>4. ASSUME NEW p \in Process, pass'[p].stage # "grouped",
             \A o \in Process \ {p} : pass'[o] = pass[o],
             UNCHANGED cache, lock' = IF lock = p THEN None ELSE lock
      PROVE  HolderHasAll'
  <2>1. ASSUME NEW o \in Process
        PROVE  /\ pass'[o].stage = "grouped" <=> lock' = o
               /\ pass'[o].stage = "grouped" =>
                    o # p /\ pass'[o] = pass[o] /\ pass[o].stage = "grouped"
    BY <1>4, SentinelAssumption DEF HolderHasAll
  <2>2. QED
    BY <1>4, <2>1 DEF HolderHasAll, Within, Has
<1>5. ASSUME NEW p \in Process, Begin(p) \/ NotAcquired(p) \/ Crash(p) PROVE HolderHasAll'
  <2>1. /\ pass'[p].stage # "grouped" /\ UNCHANGED cache
        /\ \A o \in Process \ {p} : pass'[o] = pass[o]
    BY <1>1, <1>5 DEF Begin, NotAcquired, Crash, Idle
  <2>2. lock' = IF lock = p THEN None ELSE lock
    <3>1. CASE Begin(p) \/ NotAcquired(p)
      BY <3>1 DEF Begin, NotAcquired, HolderHasAll
    <3>2. CASE Crash(p)
      BY <3>2 DEF Crash
    <3>3. QED
      BY <1>5, <3>1, <3>2
  <2>3. QED
    BY <1>4, <2>1, <2>2
<1>6. ASSUME NEW p \in Process, Acquire(p) PROVE HolderHasAll'
  <2>1. /\ lock = None /\ lock' = p /\ UNCHANGED cache
        /\ pass'[p].stage = "grouped" /\ pass'[p].working = cache
        /\ \A o \in Process \ {p} : pass'[o] = pass[o]
    BY <1>1, <1>6 DEF Acquire
  <2>2. \A o \in Process : pass[o].stage # "grouped"
    BY <2>1, SentinelAssumption DEF HolderHasAll
  <2>3. QED
    BY <2>1, <2>2 DEF HolderHasAll, Within, Has
<1>7. ASSUME NEW p \in Process, Grouped(p) PROVE HolderHasAll'
  <2>1. lock = p /\ \A o \in Process \ {p} : pass[o].stage # "grouped"
    BY <1>7 DEF Grouped, HolderHasAll
  <2>2. QED
    BY <1>7, <2>1, GroupedKeeps DEF HolderHasAll, Within, Has
<1>8. ASSUME NEW p \in Process, Regular(p) PROVE HolderHasAll'
  <2>1. /\ lock = p /\ lock' = None /\ pass'[p].stage = "idle"
        /\ \A o \in Process \ {p} : pass'[o] = pass[o]
    BY <1>1, <1>8 DEF Regular, Unlock, Idle, HolderHasAll
  <2>2. \A o \in Process : pass'[o].stage # "grouped" /\ lock' # o
    BY <2>1, SentinelAssumption DEF HolderHasAll
  <2>3. QED
    BY <2>2 DEF HolderHasAll
<1>9. QED
  BY <1>2, <1>3, <1>5, <1>6, <1>7, <1>8 DEF Next, vars, Tick

\* However passes overlap, crash or resume with what they had read, and however
\* little the provider answers, no step but the clearing of the cache takes a cached
\* boundary away (merge_series, set_cached_series).
THEOREM NoPriceIsLost == Spec => NothingIsLost
<1>1. Init => HolderHasAll
  BY SentinelAssumption DEF Init, HolderHasAll, Idle
<1>2. ASSUME IInv, HolderHasAll, [Next]_vars, \E s \in Symbol : cache'[s] # None,
             NEW s \in Symbol, NEW b \in Boundary, Has(cache[s], b)
      PROVE  Has(cache'[s], b)
  BY <1>2, StepKeeps DEF ClearCache, Within
<1>3. IInv /\ HolderHasAll /\ [Next]_vars =>
        [(\E s \in Symbol : cache'[s] # None) =>
           \A s \in Symbol, b \in Boundary : Has(cache[s], b) => Has(cache'[s], b)]_vars
  BY <1>2
<1>4. QED
  BY <1>1, <1>3, InitSettled, NextSettled, HolderHasAllStep, PTL DEF Spec, NothingIsLost

-----------------------------------------------------------------------------
(* Bases.  A series is on the basis of session d if each of its prices has    *)
(* every action after it and up to d once.                                    *)
Due(b, d) == {a \in Action : SessionOf(b) < a[2] /\ a[2] <= d}
SeriesOn(series, d) == \A b \in Boundary : series[b] # None => series[b].basis = Counted(Due(b, d))

LEMMA SessionBounds ==
  ASSUME NEW b \in Boundary
  PROVE  /\ SessionOf(b) \in 1..Sessions
         /\ b = 2 * SessionOf(b) - 1 \/ b = 2 * SessionOf(b)
  BY RefreshAssumption DEF Boundary, SessionOf

LEMMA SessionIsOneToTwo ==
  ASSUME NEW d \in 1..Sessions
  PROVE  SessionOf(OpenOf(d)) = d /\ SessionOf(CloseOf(d)) = d
  BY RefreshAssumption DEF SessionOf, OpenOf, CloseOf

LEMMA ActionIs ==
  ASSUME NEW a \in Action
  PROVE  /\ a[2] \in 1..Sessions
         /\ \/ a = <<"split", a[2]>> /\ a[2] \in Split
            \/ a = <<"dividend", a[2]>> /\ a[2] \in Dividend
<1>1. CASE a \in {"split"} \X Split
  <2>1. a = <<"split", a[2]>> /\ a[2] \in Split
    BY <1>1
  <2>2. a[2] \in 1..Sessions
    BY <2>1, RefreshAssumption
  <2>3. QED
    BY <2>1, <2>2
<1>2. CASE a \in {"dividend"} \X Dividend
  <2>1. a = <<"dividend", a[2]>> /\ a[2] \in Dividend
    BY <1>2
  <2>2. QED
    BY <2>1, RefreshAssumption
<1>3. QED
  BY <1>1, <1>2 DEF Action

LEMMA CountedSame ==
  ASSUME NEW S, NEW T, \A a \in Action : a \in S <=> a \in T
  PROVE  Counted(S) = Counted(T)
  BY DEF Counted

\* A grouped response of the day has nothing after it to be adjusted for.
LEMMA GroupedIsOn ==
  ASSUME clock \in Boundary, NEW b \in Boundary, SessionOf(b) = Today
  PROVE  GroupedPoint(b).basis = Counted(Due(b, Today))
<1>1. Today \in Int
  BY SessionBounds DEF Today
<1>2. SplitsAfter(SessionOf(b)) = {} /\ Due(b, Today) = {}
  <2>1. \A x \in 1..Sessions : ~(Today < x /\ x <= Today)
    BY <1>1
  <2>2. QED
    BY <2>1, ActionIs, RefreshAssumption DEF SplitsAfter, Due
<1>3. QED
  BY <1>2 DEF GroupedPoint

\* A download is adjusted for all that follows its prices.
LEMMA DownloadIsOn ==
  ASSUME clock \in Boundary, NEW b \in Boundary
  PROVE  FullPoint(b, Today).basis = Counted(Due(b, Today)) /\ FullPoint(b, Today) # None
<1> DEFINE sb == SessionOf(b)
           ahead == {d \in Dividend : sb < d /\ d <= Today}
           cumulative == IF ahead = {} THEN {} ELSE {d \in Dividend : Min(ahead) <= d /\ d <= Today}
           all == ({"split"} \X SplitsAfter(sb)) \cup ({"dividend"} \X cumulative)
<1>1. Today \in 1..Sessions /\ sb \in 1..Sessions /\ Dividend \subseteq Nat
  BY SessionBounds, RefreshAssumption DEF Today
<1>2. cumulative = ahead
  <2>1. CASE ahead = {}
    BY <2>1
  <2>2. CASE ahead # {}
    <3>1. ahead \in SUBSET Nat
      BY <1>1
    <3>2. Min(ahead) \in ahead /\ \A x \in ahead : Min(ahead) <= x
      BY <2>2, <3>1, MinIs
    <3>3. Min(ahead) \in Nat /\ sb < Min(ahead)
      BY <1>1, <3>2
    <3>4. \A d \in Dividend : Min(ahead) <= d => sb < d
      BY <1>1, <3>3
    <3>5. QED
      BY <2>2, <3>2, <3>4
  <2>3. QED
    BY <2>1, <2>2
<1>3. ASSUME NEW a \in Action PROVE a \in all <=> a \in Due(b, Today)
  <2>1. a \in all <=> \/ a[1] = "split" /\ a[2] \in SplitsAfter(sb)
                      \/ a[1] = "dividend" /\ a[2] \in ahead
    <3> HIDE DEF ahead, cumulative
    <3>1. QED
      BY <1>2, ActionIs
  <2>2. QED
    BY <2>1, ActionIs DEF SplitsAfter, Due
<1>4. FullPoint(b, Today) = [final |-> Final(b), basis |-> Counted(all)]
  BY DEF FullPoint
<1> HIDE DEF all
<1>5. Counted(all) = Counted(Due(b, Today))
  BY <1>3, CountedSame
<1>6. FullPoint(b, Today) \in Point
  BY <1>4, CountedIsBasis DEF Point, Final
<1>7. QED
  BY <1>4, <1>5, <1>6, SentinelAssumption

LEMMA MergeIsOn ==
  ASSUME NEW s, NEW t, NEW d, SeriesOn(s, d), SeriesOn(t, d)
  PROVE  SeriesOn(MergeSeries(s, t), d)
  BY DEF SeriesOn, MergeSeries

LEMMA FactorOfTheDay ==
  ASSUME NEW d \in 1..Sessions, Today = d, NEW a \in Action
  PROVE  SessionFactor(d)[a] = IF a[2] = d THEN 1 ELSE 0
<1> DEFINE days == IF d \in Dividend THEN {x \in Dividend : d <= x /\ x <= Today} ELSE {}
           all == ({"split"} \X (Split \cap {d})) \cup ({"dividend"} \X days)
<1>1. Dividend \subseteq Int /\ d \in Int
  BY RefreshAssumption
<1>2. days = Dividend \cap {d}
  <2>1. \A x \in Dividend : d <= x /\ x <= Today <=> x = d
    BY <1>1
  <2>2. QED
    BY <2>1
<1> HIDE DEF days
<1>3. a \in all <=> a[2] = d
  BY <1>2, ActionIs
<1>4. SessionFactor(d) = Counted(all)
  BY DEF SessionFactor, days
<1> HIDE DEF all
<1>5. QED
  BY <1>3, <1>4 DEF Counted

\* The sessions of a row, if it has any.
LEMMA CoveredIs ==
  ASSUME NEW series, NEW b \in Boundary, series[b] # None
  PROVE  /\ Covered(series) \subseteq 1..Sessions /\ SessionOf(b) \in Covered(series)
         /\ Max(Covered(series)) \in Covered(series)
         /\ \A x \in Covered(series) : x <= Max(Covered(series))
<1>1. Covered(series) \subseteq 1..Sessions /\ SessionOf(b) \in Covered(series)
  BY SessionBounds DEF Covered
<1>2. Sessions \in Nat /\ Covered(series) \in SUBSET Nat /\ Covered(series) # {}
      /\ \A x \in Covered(series) : x <= Sessions
  BY <1>1, RefreshAssumption
<1>3. QED
  BY <1>1, <1>2, MaxIs

\* The factor of the day lifts a row that ends yesterday onto the day's basis, and
\* leaves one that shows the day where it is.
LEMMA FactorLifts ==
  ASSUME clock \in Boundary, NEW e \in SettledEntry, Recent(e)
  PROVE  SeriesOn(ApplyHistoricalFactor(e.series,
           FactorOnce(e, Today, SessionFactor(Today)), Today), Today)
<1> DEFINE factor == FactorOnce(e, Today, SessionFactor(Today))
           lifted == ApplyHistoricalFactor(e.series, factor, Today)
<1>1. Today \in 1..Sessions /\ Today \in Int /\ e # None /\ e.series \in SettledSeries
  BY SessionBounds, SettledIsSomething DEF Today, SettledEntry
<1> SUFFICES ASSUME NEW b \in Boundary, lifted[b] # None
             PROVE  lifted[b].basis = Counted(Due(b, Today))
  BY DEF SeriesOn
<1>2. e.series[b] # None
  BY DEF ApplyHistoricalFactor
<1>3. e.series[b] \in SettledPoint /\ e.series[b].basis \in Basis
  BY <1>1, <1>2 DEF SettledSeries, SettledPoint
<1>4. /\ SessionOf(b) \in Int /\ SessionOf(b) <= Latest(e)
      /\ Latest(e) \in Covered(e.series) /\ \A x \in Covered(e.series) : x <= Latest(e)
  BY <1>2, CoveredIs, SessionBounds DEF Latest
<1>5. Latest(e) \in {Today - 1, Today} /\ e.series[b].basis = Counted(Due(b, Latest(e)))
  BY <1>1, <1>2 DEF Recent, OnBasis, Has, Due
<1>6. CASE Latest(e) = Today
  <2>1. factor = [a \in Action |-> 0]
    BY <1>4, <1>6 DEF FactorOnce, HasSession
  <2> HIDE DEF factor
  <2>2. lifted[b] = IF SessionOf(b) < Today
                      THEN [e.series[b] EXCEPT !.basis = [a \in Action |-> @[a] + factor[a]]]
                      ELSE e.series[b]
    BY <1>2 DEF ApplyHistoricalFactor
  <2> HIDE DEF lifted
  <2>3. [a \in Action |-> e.series[b].basis[a] + factor[a]] = e.series[b].basis
    BY <1>3, <2>1 DEF Basis
  <2>4. lifted[b].basis = e.series[b].basis
    BY <1>3, <2>2, <2>3 DEF SettledPoint
  <2>5. QED
    BY <1>5, <1>6, <2>4
<1>7. CASE Latest(e) = Today - 1
  <2>1. SessionOf(b) < Today /\ ~HasSession(e, Today)
    <3>1. ~(Today <= Today - 1)
      BY <1>1
    <3>2. QED
      BY <1>1, <1>4, <1>7, <3>1 DEF HasSession
  <2>2. factor = SessionFactor(Today)
    BY <2>1 DEF FactorOnce
  <2> HIDE DEF factor
  <2>3. lifted[b] = [e.series[b] EXCEPT !.basis = [a \in Action |-> @[a] + factor[a]]]
    BY <1>2, <2>1 DEF ApplyHistoricalFactor
  <2> HIDE DEF lifted
  <2>4. lifted[b].basis = [a \in Action |-> e.series[b].basis[a] + factor[a]]
    BY <1>3, <2>3 DEF SettledPoint
  <2>5. ASSUME NEW a \in Action
        PROVE  e.series[b].basis[a] + factor[a] = IF a \in Due(b, Today) THEN 1 ELSE 0
    <3>1. e.series[b].basis[a] = IF SessionOf(b) < a[2] /\ a[2] <= Today - 1 THEN 1 ELSE 0
      BY <1>5, <1>7 DEF Counted, Due
    <3>2. factor[a] = IF a[2] = Today THEN 1 ELSE 0
      BY <1>1, <2>2, FactorOfTheDay
    <3>3. a[2] \in Int
      BY ActionIs
    <3>4. a \in Due(b, Today) <=> SessionOf(b) < a[2] /\ a[2] <= Today
      BY DEF Due
    <3>5. QED
      BY <1>1, <1>4, <2>1, <3>1, <3>2, <3>3, <3>4
  <2>6. QED
    BY <2>4, <2>5 DEF Counted
<1>8. QED
  BY <1>5, <1>6, <1>7

\* What a grouped response stores of a symbol, if the pass is timely and its own copy
\* of the row is recent.
LEMMA GroupedPutsOnBasis ==
  ASSUME IInv, NEW p \in Process, Grouped(p), Timely(p), NEW s \in Symbol,
         Recent(pass[p].working[s]), cache'[s] \notin {None, cache[s]}
  PROVE  SeriesOn(cache'[s].series, Today)
<1> DEFINE now == pass[p].now
           working == pass[p].working
           d == Min(pass[p].sessions)
           pending == {r \in pass[p].candidates : ~Has(working[r], Wanted(d, now))}
           known == {OpenOf(d), CloseOf(d)} \cap Shown
<1>1. /\ pass[p] \in GroupedPass /\ clock \in Boundary /\ cache \in [Symbol -> SettledEntry \cup {None}]
      /\ \A r \in pass[p].candidates : working[r] \in SettledEntry
  BY DEF Grouped, IInv, PassesSettled, PassSettled, LockPass, GroupedPass, Idle, CacheSettled
<1>2. d = Today /\ Today \in 1..Sessions
  <2>1. Today \in 1..Sessions
    BY <1>1, SessionBounds DEF Today
  <2>2. pass[p].sessions = {Today}
    BY DEF Grouped, Timely
  <2>3. {Today} \in SUBSET Nat /\ Today \in {Today} /\ \A x \in {Today} : Today <= x
    BY <2>1
  <2>4. QED
    BY <2>1, <2>2, <2>3, MinOf
<1>3. PICK answer \in [pending -> SUBSET known] : Merge(p, d, pending, answer)
  BY DEF Grouped
<1> DEFINE Fields(r) == [b \in Boundary |-> IF b \in answer[r] THEN GroupedPoint(b) ELSE None]
           Lifted(r) == ApplyHistoricalFactor(working[r].series,
                          FactorOnce(working[r], d, SessionFactor(d)), d)
           Row(r) == [series |-> MergeSeries(Published(Fields(r), now), Lifted(r)), fetched |-> now]
           merged == {r \in pending : Published(Fields(r), now) # Empty}
<1>4. cache' = [r \in Symbol |-> IF r \in merged THEN Upsert(cache[r], Row(r)) ELSE cache[r]]
  BY <1>3 DEF Merge
<1>5. s \in merged /\ cache'[s] = Row(s)
  <2> HIDE DEF merged, Row
  <2>1. s \in merged /\ cache'[s] = Upsert(cache[s], Row(s))
    BY <1>4
  <2>2. QED
    BY <2>1 DEF Upsert
<1>6. s \in pending /\ working[s] \in SettledEntry
  BY <1>1, <1>5
<1>7. SeriesOn(Lifted(s), Today)
  BY <1>1, <1>2, <1>6, FactorLifts
<1>8. SeriesOn(Published(Fields(s), now), Today)
  <2> SUFFICES ASSUME NEW b \in Boundary, Published(Fields(s), now)[b] # None
               PROVE  Published(Fields(s), now)[b].basis = Counted(Due(b, Today))
    BY DEF SeriesOn
  <2>1. b \in answer[s] /\ Published(Fields(s), now)[b] = GroupedPoint(b)
    BY DEF Published
  <2>2. answer[s] \subseteq known
    BY <1>3, <1>6
  <2>3. b = OpenOf(d) \/ b = CloseOf(d)
    BY <2>1, <2>2
  <2>4. SessionOf(b) = Today
    BY <1>2, <2>3, SessionIsOneToTwo
  <2>5. QED
    BY <1>1, <2>1, <2>4, GroupedIsOn
<1>9. Row(s).series = MergeSeries(Published(Fields(s), now), Lifted(s))
  OBVIOUS
<1> HIDE DEF Fields, Lifted, Row
<1>10. SeriesOn(MergeSeries(Published(Fields(s), now), Lifted(s)), Today)
  BY <1>7, <1>8, MergeIsOn
<1>11. QED
  BY <1>5, <1>9, <1>10

\* A repair asks for the history from the first session of each row of the batch on.
LEMMA RepairStartsEarly ==
  ASSUME CacheSettled, NEW batch \in SUBSET Symbol, NEW s \in batch, cache[s] # None,
         NEW b \in Boundary, cache[s].series[b] # None
  PROVE  Min({IF cache[r] = None THEN Start[r]
              ELSE Min({Start[r]} \cup Covered(cache[r].series)) : r \in batch}) <= SessionOf(b)
<1> DEFINE first(r) == IF cache[r] = None THEN Start[r]
                       ELSE Min({Start[r]} \cup Covered(cache[r].series))
           firsts == {first(r) : r \in batch}
<1>1. ASSUME NEW r \in Symbol
      PROVE  /\ {Start[r]} \cup Covered(cache[r].series) \in SUBSET Nat
             /\ Start[r] \in Nat
  BY SessionBounds, RefreshAssumption DEF Covered
<1>2. ASSUME NEW r \in Symbol
      PROVE  /\ Min({Start[r]} \cup Covered(cache[r].series)) \in Nat
             /\ \A x \in Covered(cache[r].series) : Min({Start[r]} \cup Covered(cache[r].series)) <= x
  <2> DEFINE S == {Start[r]} \cup Covered(cache[r].series)
  <2>1. S \in SUBSET Nat /\ S # {}
    BY <1>1
  <2> HIDE DEF S
  <2>2. Min(S) \in S /\ \A x \in S : Min(S) <= x
    BY <2>1, MinIs
  <2>3. QED
    BY <2>1, <2>2 DEF S
<1>3. firsts \in SUBSET Nat /\ firsts # {} /\ first(s) \in firsts
  BY <1>1, <1>2
<1>4. first(s) <= SessionOf(b) /\ first(s) \in Nat /\ SessionOf(b) \in Int
  BY <1>2, SessionBounds, CoveredIs
<1> HIDE DEF first
<1>5. Min(firsts) \in Nat /\ Min(firsts) <= first(s)
  <2> HIDE DEF firsts
  <2>1. QED
    BY <1>3, MinIs
<1>6. Min(firsts) <= SessionOf(b)
  <2> HIDE DEF firsts
  <2>1. QED
    BY <1>4, <1>5
<1>7. QED
  BY <1>6 DEF first

\* What a timely repair stores of a symbol whose row is recent: it downloads all of a
\* row that ends yesterday again, and adds the day's basis to a row that is on it.
LEMMA RepairPutsOnBasis ==
  ASSUME IInv, NEW p \in Process, pass[p].stage = "grouped", Timely(p), Lag \subseteq {1},
         NEW batch \in SUBSET Symbol,
         NEW upto \in [batch -> {0, clock + 1} \cup {clock - n : n \in Lag}],
         Repair(p, batch, upto),
         NEW s \in Symbol, Recent(cache[s]), cache'[s] \notin {None, cache[s]}
  PROVE  SeriesOn(cache'[s].series, Today)
<1> DEFINE now == pass[p].now
           from == Min({IF cache[r] = None THEN Start[r]
                        ELSE Min({Start[r]} \cup Covered(cache[r].series)) : r \in batch})
           Data(r) == Published(Download(from, SessionOf(now), upto[r]), now)
           Row(r) == [series |-> IF cache[r] = None THEN Data(r)
                                 ELSE MergeSeries(Data(r), cache[r].series),
                      fetched |-> now]
<1>1. /\ clock \in Boundary /\ CacheSettled /\ cache[s] \in SettledEntry \cup {None}
      /\ now \in Boundary /\ now <= clock
  BY DEF IInv, CacheSettled, PassesSettled, PassSettled, LockPass, GroupedPass, Idle
<1>2. SessionOf(now) = Today /\ Today \in 1..Sessions
  BY <1>1, SessionBounds DEF Timely, Today
<1>3. cache' = [r \in Symbol |->
         IF r \in batch /\ Data(r) # Empty
           THEN IF cache[r] = None THEN Row(r) ELSE Upsert(cache[r], Row(r))
           ELSE cache[r]]
  BY DEF Repair
<1>4. s \in batch /\ Data(s) # Empty /\ cache'[s] = Row(s)
  <2> HIDE DEF Data, Row
  <2>1. /\ s \in batch /\ Data(s) # Empty
        /\ cache'[s] = IF cache[s] = None THEN Row(s) ELSE Upsert(cache[s], Row(s))
    BY <1>3
  <2>2. QED
    BY <2>1 DEF Upsert
<1>5. \A b \in Boundary :
        Data(s)[b] = IF /\ b <= now /\ b \in Shown /\ b <= upto[s]
                        /\ from <= SessionOf(b) /\ SessionOf(b) <= Today
                       THEN FullPoint(b, Today) ELSE None
  <2> HIDE DEF from
  <2>1. QED
    BY <1>2 DEF Published, Download
<1>6. Row(s).series = IF cache[s] = None THEN Data(s) ELSE MergeSeries(Data(s), cache[s].series)
  OBVIOUS
<1>7. Data(s) \in [Boundary -> SettledPoint \cup {None}]
  <2> HIDE DEF from
  <2>1. QED
    BY <1>1, DownloadIsSettled DEF SettledSeries
<1> HIDE DEF Data, Row
<1>8. SeriesOn(Data(s), Today)
  <2> HIDE DEF from
  <2>1. QED
    BY <1>1, <1>5, DownloadIsOn DEF SeriesOn
<1>9. CASE cache[s] = None
  BY <1>4, <1>6, <1>8, <1>9
<1>10. CASE cache[s] # None /\ SeriesOn(cache[s].series, Today)
  BY <1>4, <1>6, <1>8, <1>10, MergeIsOn
<1>11. CASE cache[s] # None /\ ~SeriesOn(cache[s].series, Today)
  <2>1. PICK c \in Boundary : cache[s].series[c] # None
    BY <1>11 DEF SeriesOn
  <2>2. SeriesOn(cache[s].series, Latest(cache[s])) /\ Latest(cache[s]) \in {Today - 1, Today}
    BY <1>11 DEF Recent, OnBasis, Has, SeriesOn, Due
  <2>3. Latest(cache[s]) = Today - 1
    BY <1>11, <2>2
  <2>4. PICK x \in Boundary : Data(s)[x] # None
    BY <1>4, <1>7 DEF Empty
  <2>5. x <= upto[s] /\ upto[s] \in {0, clock + 1} \cup {clock - n : n \in Lag}
    BY <1>4, <1>5, <2>4
  <2>6. clock \in Int /\ x \in Int /\ 1 <= x
    BY <1>1, RefreshAssumption DEF Boundary
  <2>7. upto[s] \in Int /\ clock - 1 <= upto[s]
    <3>1. {clock - n : n \in Lag} \subseteq {clock - 1}
      OBVIOUS
    <3>2. upto[s] \in {0, clock + 1, clock - 1}
      BY <2>5, <3>1
    <3>3. QED
      BY <2>5, <2>6, <3>2
  <2>8. \A b \in Boundary : cache[s].series[b] # None => Data(s)[b] # None
    <3> SUFFICES ASSUME NEW b \in Boundary, cache[s].series[b] # None PROVE Data(s)[b] # None
      OBVIOUS
    <3>1. SessionOf(b) <= Today - 1 /\ SessionOf(b) \in Int /\ Today \in Int
      BY <1>2, <2>3, CoveredIs, SessionBounds DEF Latest
    <3>2. /\ b \in Int /\ now \in Int /\ b <= 2 * SessionOf(b)
          /\ 2 * Today - 1 <= now /\ 2 * Today - 1 <= clock
      <4>1. b \in Int /\ now \in Int
        BY <1>1, BoundaryIsInt
      <4>2. b <= 2 * SessionOf(b)
        BY <3>1, <4>1, SessionBounds
      <4>3. 2 * Today - 1 <= now
        BY <1>1, <1>2, <3>1, <4>1, SessionBounds
      <4>4. 2 * Today - 1 <= clock
        BY <1>1, <2>6, <3>1, SessionBounds DEF Today
      <4>5. QED
        BY <4>1, <4>2, <4>3, <4>4
    <3>3. b <= now /\ b <= clock + 1 /\ b <= clock - 1
      BY <2>6, <3>1, <3>2
    <3>4. b <= upto[s] /\ SessionOf(b) <= Today
      BY <2>6, <2>7, <3>1, <3>2, <3>3
    <3>5. from <= SessionOf(b)
      BY <1>1, <1>4, <1>11, RepairStartsEarly
    <3>6. b \in Shown
      BY <3>3 DEF Shown
    <3> HIDE DEF from
    <3>7. Data(s)[b] = FullPoint(b, Today)
      BY <1>5, <3>3, <3>4, <3>5, <3>6
    <3>8. QED
      BY <1>1, <3>7, DownloadIsOn
  <2>9. SeriesOn(MergeSeries(Data(s), cache[s].series), Today)
    BY <1>8, <2>8 DEF SeriesOn, MergeSeries
  <2>10. QED
    BY <1>4, <1>6, <1>11, <2>9
<1>12. QED
  BY <1>9, <1>10, <1>11

LEMMA RegularPutsOnBasis ==
  ASSUME IInv, NEW p \in Process, Regular(p), Timely(p), Lag \subseteq {1},
         NEW s \in Symbol, Recent(cache[s]), cache'[s] \notin {None, cache[s]}
  PROVE  SeriesOn(cache'[s].series, Today)
<1>1. PICK aged \in SUBSET {r \in Symbol : cache[r] # None /\ cache[r].fetched <= pass[p].now} :
        LET due == {r \in Required(pass[p].now) : RefreshDue(r, pass[p].now, aged)}
        IN IF due = {} THEN UNCHANGED cache
           ELSE \E upto \in [FirstOf(due) -> {0, clock + 1} \cup {clock - n : n \in Lag}] :
                  /\ \A r \in FirstOf(due) \cap Silent : upto[r] = 0
                  /\ Repair(p, FirstOf(due), upto)
  BY DEF Regular
<1> DEFINE due == {r \in Required(pass[p].now) : RefreshDue(r, pass[p].now, aged)}
<1>2. FirstOf(due) \in SUBSET Symbol
  BY DEF FirstOf, Required
<1>3. due # {}
  BY <1>1
<1> HIDE DEF due
<1>4. PICK upto \in [FirstOf(due) -> {0, clock + 1} \cup {clock - n : n \in Lag}] :
        Repair(p, FirstOf(due), upto)
  BY <1>1, <1>3 DEF due
<1>5. pass[p].stage = "grouped"
  BY DEF Regular
<1>6. QED
  BY <1>2, <1>4, <1>5, RepairPutsOnBasis

\* While passes are timely and the rows they find are recent, all of the prices a pass
\* stores of a symbol are on the basis of the day, however the symbol's boundaries,
\* grouped responses and repairs follow each other (_merge_grouped_symbol,
\* apply_historical_factor, merge_series).
THEOREM StaysOnOneBasis == Spec => StaysOnBasis
<1>1. ASSUME IInv, [Next]_vars, NEW s \in Symbol, Lag \subseteq {1}, Recent(cache[s]),
             \A p \in Process : pass[p].stage = "grouped" =>
                                  Timely(p) /\ Recent(pass[p].working[s]),
             cache'[s] \notin {None, cache[s]}
      PROVE  OnBasis(cache'[s], Today)
  <2>1. ASSUME SeriesOn(cache'[s].series, Today) PROVE OnBasis(cache'[s], Today)
    BY <2>1 DEF SeriesOn, OnBasis, Has, Due
  <2>2. CASE UNCHANGED cache
    BY <1>1, <2>2
  <2>3. CASE ClearCache
    BY <1>1, <2>3 DEF ClearCache
  <2>4. ASSUME NEW p \in Process, Grouped(p) PROVE OnBasis(cache'[s], Today)
    <3>1. pass[p].stage = "grouped"
      BY <2>4 DEF Grouped
    <3>2. QED
      BY <1>1, <2>1, <2>4, <3>1, GroupedPutsOnBasis
  <2>5. ASSUME NEW p \in Process, Regular(p) PROVE OnBasis(cache'[s], Today)
    <3>1. pass[p].stage = "grouped"
      BY <2>5 DEF Regular
    <3>2. QED
      BY <1>1, <2>1, <2>5, <3>1, RegularPutsOnBasis
  <2>6. QED
    BY <1>1, <2>2, <2>3, <2>4, <2>5 DEF Next, vars, Tick, Begin, NotAcquired, Acquire, Crash
<1>2. IInv /\ [Next]_vars =>
        [\A s \in Symbol :
           /\ Lag \subseteq {1} /\ Recent(cache[s])
           /\ \A p \in Process : pass[p].stage = "grouped" =>
                                   Timely(p) /\ Recent(pass[p].working[s])
           /\ cache'[s] \notin {None, cache[s]}
           => OnBasis(cache'[s], Today)]_vars
  BY <1>1
<1>3. QED
  BY <1>2, InitSettled, NextSettled, PTL DEF Spec, StaysOnBasis
=============================================================================
