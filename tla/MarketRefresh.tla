----------------------------- MODULE MarketRefresh -----------------------------
(***************************************************************************)
(* The background refresh of cached prices (services/market_refresh.py,    *)
(* price_cache.py and what they take from massive.py): every web process   *)
(* runs the loop, an advisory lock admits one of them, and a pass merges   *)
(* published boundaries session by session before it repairs the history   *)
(* of a few symbols.                                                       *)
(*                                                                         *)
(* Time is counted in published boundaries: 2d - 1 is the open of session  *)
(* d and 2d its close.  A price is what distinguishes it here: whether it  *)
(* was final when it was fetched, and how often each corporate action has  *)
(* been applied to it.                                                     *)
(***************************************************************************)
EXTENDS Integers, Sequences, FiniteSets, Functions, FiniteSetsExt

CONSTANTS
  Process,     \* web processes
  Order,       \* the symbols in the order they are repaired, SPY first
  Start,       \* [symbol -> the session of its first decision]
  Sessions,    \* bound on the sessions
  Split,       \* sessions that open with a split
  Dividend,    \* sessions that open without a dividend
  Batch,       \* REGULAR_REFRESH_BATCH_SIZE
  Silent,      \* the symbols of which the provider has nothing
  Lag,         \* how many boundaries a download may lack
  CatchUp,     \* GROUPED_CATCHUP_MAX_SESSIONS
  MaxFault,    \* bound on the crashes and the times the cache is cleared
  None

Symbol == Range(Order)
Spy == Order[1]
Boundary == 1..(2 * Sessions)
SessionOf(b) == (b + 1) \div 2
OpenOf(d) == 2 * d - 1
CloseOf(d) == 2 * d

ASSUME RefreshAssumption ==
  /\ Sessions \in Nat \ {0} /\ Batch \in Nat \ {0} /\ CatchUp \in Nat /\ MaxFault \in Nat
  /\ Start \in [Symbol -> 1..Sessions] /\ Start[Spy] = 1 /\ IsInjective(Order)
  /\ Lag \subseteq Nat /\ Silent \subseteq Symbol \ {Spy} /\ Split \cup Dividend \subseteq 1..Sessions

Action == ({"split"} \X Split) \cup ({"dividend"} \X Dividend)
\* How often each action is in a price.
Basis == [Action -> Nat]
Point == [final: BOOLEAN, basis: Basis]
Series == [Boundary -> Point \cup {None}]
Entry == [series: Series, fetched: Boundary]
Empty == [b \in Boundary |-> None]

ASSUME SentinelAssumption == None \notin Process /\ None \notin Point /\ None \notin Entry

VARIABLES
  clock,   \* the latest boundary whose prices are published
  cache,   \* [Symbol -> its row, or None]
  lock,    \* the process whose connection holds the advisory lock, or None
  pass,    \* [Process -> its pass]
  faults

vars == <<clock, cache, lock, pass, faults>>

Idle == [stage |-> "idle"]

-----------------------------------------------------------------------------
(* Series. *)

Has(e, b) == e # None /\ e.series[b] # None
Covered(series) == {SessionOf(b) : b \in {x \in Boundary : series[x] # None}}
HasSession(e, d) == d \in Covered(e.series)
Latest(e) == Max(Covered(e.series))
Covers(e, d) == e # None /\ Min(Covered(e.series)) <= d

Everything(series, now) == series   \* variant: a response is stored as it is
Published(series, now) == [b \in Boundary |-> IF b <= now THEN series[b] ELSE None]
MergeDataOnly(preferred, fallback) == preferred   \* variant: the fetched series replaces the row
MergeSeries(preferred, fallback) ==
  [b \in Boundary |-> IF preferred[b] # None THEN preferred[b] ELSE fallback[b]]

\* Variant: every boundary of a session applies the session's factor.
AlwaysApplies(e, d, factor) == factor
\* The factor of a session that the history does not show yet.
FactorOnce(e, d, factor) == IF HasSession(e, d) THEN [a \in Action |-> 0] ELSE factor

ApplyHistoricalFactor(series, factor, d) ==
  [b \in Boundary |->
     IF series[b] # None /\ SessionOf(b) < d
       THEN [series[b] EXCEPT !.basis = [a \in Action |-> @[a] + factor[a]]]
       ELSE series[b]]

\* set_cached_series: the conditional upsert.
Upsert(row, new) ==
  LET was == Covered(row.series)
      is == Covered(new.series)
      widens == Min(is) <= Min(was) /\ Max(is) >= Max(was)
      same == Min(is) = Min(was) /\ Max(is) = Max(was)
  IN IF row = None \/ (widens /\ ~same) \/ (same /\ new.fetched >= row.fetched)
       THEN new ELSE row

-----------------------------------------------------------------------------
(* The provider.  It knows the boundaries up to the clock, and shows the    *)
(* next one before it is published: an open as it is, a close that still    *)
(* develops.  Its prices are split-adjusted up to today; a dividend's       *)
(* factor is cumulative through the latest distribution.                    *)

Today == SessionOf(clock)
Shown == {b \in Boundary : b <= clock + 1}
Final(b) == b <= clock \/ b = OpenOf(SessionOf(b))
SplitsAfter(d) == {s \in Split : d < s /\ s <= Today}

Counted(A) == [a \in Action |-> IF a \in A THEN 1 ELSE 0]
GroupedPoint(b) ==
  [final |-> Final(b), basis |-> Counted({"split"} \X SplitsAfter(SessionOf(b)))]

\* _session_action_factors of a session.
SessionFactor(d) ==
  Counted(({"split"} \X (Split \cap {d})) \cup
          ({"dividend"} \X (IF d \in Dividend THEN {x \in Dividend : d <= x /\ x <= Today}
                                              ELSE {})))

\* apply_dividend_adjustments: the first factor whose ex-date follows the price.
FullPoint(b, target) ==
  LET after == {d \in Dividend : SessionOf(b) < d /\ d <= target}
      cumulative == IF after = {} THEN {} ELSE {d \in Dividend : Min(after) <= d /\ d <= Today}
  IN [final |-> Final(b),
      basis |-> Counted(({"split"} \X SplitsAfter(SessionOf(b))) \cup
                        ({"dividend"} \X cumulative))]

\* A download through the session target, of which the provider has all
\* boundaries up to upto.
Download(from, target, upto) ==
  [b \in Boundary |-> IF /\ b \in Shown /\ b <= upto
                         /\ from <= SessionOf(b) /\ SessionOf(b) <= target
                        THEN FullPoint(b, target) ELSE None]

-----------------------------------------------------------------------------
(* A pass. *)

Required(now) == {s \in Symbol : Start[s] <= SessionOf(now)}
Ready(s, now) == Covers(cache[s], Start[s]) /\ Has(cache[s], now)

\* The sessions a symbol lacks, when grouped responses may supply them.
Missing(e, s, now) ==
  IF ~Covers(e, Start[s]) THEN {}
  ELSE LET ahead == (Latest(e) + 1)..SessionOf(now)
           missing == IF Latest(e) = SessionOf(now) /\ ~Has(e, now)
                        THEN {SessionOf(now)} ELSE ahead
       IN IF Cardinality(missing) <= CatchUp THEN missing ELSE {}

\* The boundary that tells whether a session has been merged.
Wanted(d, now) == IF d = SessionOf(now) THEN now ELSE CloseOf(d)

Rank(s) == CHOOSE i \in DOMAIN Order : Order[i] = s
FirstOf(S) == {s \in S : Cardinality({r \in S : Rank(r) < Rank(s)}) < Batch}

\* Variant: a series is due only when a time to live has passed.
DueByAge(s, now, aged) == cache[s] = None \/ s \in aged
RefreshDue(s, now, aged) ==
  ~Covers(cache[s], Start[s]) \/ s \in aged \/ ~Has(cache[s], now)

Init ==
  /\ clock = 1 /\ cache = [s \in Symbol |-> None] /\ lock = None
  /\ pass = [p \in Process |-> Idle] /\ faults = 0

Tick ==
  /\ clock < 2 * Sessions /\ clock' = clock + 1
  /\ UNCHANGED <<cache, lock, pass, faults>>

\* refresh_market_data_once takes its time before it asks for the lock.
Begin(p) ==
  /\ pass[p].stage = "idle"
  /\ pass' = [pass EXCEPT ![p] = [stage |-> "lock", now |-> clock]]
  /\ UNCHANGED <<clock, cache, lock, faults>>

NotAcquired(p) ==
  /\ pass[p].stage = "lock" /\ lock # None
  /\ pass' = [pass EXCEPT ![p] = Idle]
  /\ UNCHANGED <<clock, cache, lock, faults>>

KeepLock == UNCHANGED lock   \* variant: the pass returns with the lock
Unlock == lock' = None

Acquire(p) ==
  /\ pass[p].stage = "lock" /\ lock = None
  /\ lock' = p
  /\ LET now == pass[p].now
         Lacks == [s \in Required(now) |-> Missing(cache[s], s, now)]
     IN pass' = [pass EXCEPT ![p] =
          [stage |-> "grouped", now |-> now, working |-> cache,
           candidates |-> {s \in Required(now) : Lacks[s] # {}},
           sessions |-> UNION {Lacks[s] : s \in Required(now)}]]
  /\ UNCHANGED <<clock, cache, faults>>

\* One grouped response: answer gives the fields it has of each pending symbol;
\* a symbol without a bar, or with a malformed action, has none.
Merge(p, d, pending, answer) ==
  LET now == pass[p].now
      working == pass[p].working
      Fields(s) == [b \in Boundary |-> IF b \in answer[s] THEN GroupedPoint(b) ELSE None]
      Row(s) == [series |-> MergeSeries(Published(Fields(s), now),
                   ApplyHistoricalFactor(working[s].series,
                     FactorOnce(working[s], d, SessionFactor(d)), d)),
                 fetched |-> now]
      merged == {s \in pending : Published(Fields(s), now) # Empty}
  IN /\ pass' = [pass EXCEPT ![p].sessions = @ \ {d},
                   ![p].working = [s \in Symbol |-> IF s \in merged THEN Row(s) ELSE @[s]]]
     /\ cache' = [s \in Symbol |-> IF s \in merged THEN Upsert(cache[s], Row(s)) ELSE cache[s]]

Grouped(p) ==
  /\ pass[p].stage = "grouped" /\ pass[p].sessions # {}
  /\ LET d == Min(pass[p].sessions)
         pending == {s \in pass[p].candidates : ~Has(pass[p].working[s], Wanted(d, pass[p].now))}
         known == {OpenOf(d), CloseOf(d)} \cap Shown
     IN \/ \E answer \in [pending -> SUBSET known] :
          /\ \A s \in pending \cap Silent : answer[s] = {}
          /\ Merge(p, d, pending, answer)
        \/ /\ pending # {}     \* the request fails, and with it the catching up
           /\ pass' = [pass EXCEPT ![p].sessions = {}]
           /\ UNCHANGED cache
  /\ UNCHANGED <<clock, lock, faults>>

\* The repair of a batch of symbols: upto is how much of each the provider has.
Repair(p, batch, upto) ==
  LET now == pass[p].now
      from == Min({IF cache[s] = None THEN Start[s]
                   ELSE Min({Start[s]} \cup Covered(cache[s].series)) : s \in batch})
      Data(s) == Published(Download(from, SessionOf(now), upto[s]), now)
      Row(s) == [series |-> IF cache[s] = None THEN Data(s)
                            ELSE MergeSeries(Data(s), cache[s].series),
                 fetched |-> now]
  IN cache' = [s \in Symbol |->
       IF s \in batch /\ Data(s) # Empty
         THEN IF cache[s] = None THEN Row(s) ELSE Upsert(cache[s], Row(s))
         ELSE cache[s]]

\* aged are symbols whose rows have outlived their time to live.
Regular(p) ==
  /\ pass[p].stage = "grouped" /\ pass[p].sessions = {}
  /\ \E aged \in SUBSET {s \in Symbol : cache[s] # None /\ cache[s].fetched <= pass[p].now} :
       LET due == {s \in Required(pass[p].now) : RefreshDue(s, pass[p].now, aged)}
       IN IF due = {} THEN UNCHANGED cache
          ELSE \E upto \in [FirstOf(due) -> {0, clock + 1} \cup {clock - n : n \in Lag}] :
                 /\ \A s \in FirstOf(due) \cap Silent : upto[s] = 0
                 /\ Repair(p, FirstOf(due), upto)
  /\ Unlock /\ pass' = [pass EXCEPT ![p] = Idle]
  /\ UNCHANGED <<clock, faults>>

\* The process dies or the pass raises; its connection gives the lock back.
Crash(p) ==
  /\ pass[p].stage # "idle" /\ faults < MaxFault
  /\ pass' = [pass EXCEPT ![p] = Idle]
  /\ lock' = IF lock = p THEN None ELSE lock
  /\ faults' = faults + 1
  /\ UNCHANGED <<clock, cache>>

ClearCache ==
  /\ faults < MaxFault /\ faults' = faults + 1
  /\ cache' = [s \in Symbol |-> None]
  /\ UNCHANGED <<clock, lock, pass>>

Next == \/ Tick \/ ClearCache
        \/ \E p \in Process : \/ Begin(p) \/ NotAcquired(p) \/ Acquire(p)
                              \/ Grouped(p) \/ Regular(p) \/ Crash(p)

Spec == Init /\ [][Next]_vars

-----------------------------------------------------------------------------
(* Fairness: each process's loop goes on, and the provider answers a repair *)
(* in full from time to time.                                               *)

AnsweredInFull(p) ==
  /\ pass[p].stage = "grouped" /\ pass[p].sessions = {}
  /\ LET due == {s \in Required(pass[p].now) : RefreshDue(s, pass[p].now, {})}
     IN IF due = {} THEN UNCHANGED cache
        ELSE Repair(p, FirstOf(due),
               [s \in FirstOf(due) |-> IF s \in Silent THEN 0 ELSE clock + 1])
  /\ Unlock /\ pass' = [pass EXCEPT ![p] = Idle]
  /\ UNCHANGED <<clock, faults>>

Fairness ==
  \A p \in Process :
    /\ WF_vars(Begin(p)) /\ SF_vars(Acquire(p))
    /\ WF_vars(Grouped(p)) /\ WF_vars(Regular(p)) /\ SF_vars(AnsweredInFull(p))

FairSpec == Spec /\ Fairness

-----------------------------------------------------------------------------
TypeOK ==
  /\ clock \in Boundary /\ lock \in Process \cup {None} /\ faults \in 0..MaxFault
  /\ \A s \in Symbol : cache[s] # None =>
       /\ cache[s].series \in Series /\ cache[s].fetched \in Boundary
       /\ Covered(cache[s].series) # {}
  /\ \A p \in Process : pass[p].stage \in {"idle", "lock", "grouped"}
                        /\ (pass[p].stage = "grouped" <=> lock = p)

\* A cached price is one the market had settled, however early it was fetched
\* and whatever the age of the pass that stores it.
PricesAreFinal ==
  \A s \in Symbol, b \in Boundary : Has(cache[s], b) => cache[s].series[b].final

\* Each price of a row has every corporate action after it and up to session d
\* exactly once.
OnBasis(e, d) ==
  \A b \in Boundary : Has(e, b) =>
    e.series[b].basis = Counted({a \in Action : SessionOf(b) < a[2] /\ a[2] <= d})

\* All prices of a symbol, opens and closes, are on the basis of one session.
OneBasis == \A s \in Symbol : cache[s] # None => \E d \in 1..Sessions : OnBasis(cache[s], d)

\* A row is recent if its latest prices are of yesterday or today, and it is on
\* the basis of that session; a pass is timely if its session has not ended and
\* it has no other to catch up.
Recent(e) == e = None \/ (Latest(e) \in {Today - 1, Today} /\ OnBasis(e, Latest(e)))
Timely(p) == SessionOf(pass[p].now) = Today /\ pass[p].sessions \subseteq {Today}

\* Whatever is stored of a symbol whose row is recent puts all of its prices on
\* the basis of the day, if the passes are timely and a download lacks no more
\* than the latest boundary: a factor is applied to the whole history and once,
\* whether the response of the opening or of the close brings it, and not to a
\* history that was downloaded with it.  (Where a recent row ends before the day
\* and is on its basis nevertheless, as a download that lacks the day's bar leaves
\* it, OneBasis breaks.)
StaysOnBasis ==
  [][\A s \in Symbol :
       /\ Lag \subseteq {1} /\ Recent(cache[s])
       /\ \A p \in Process : pass[p].stage = "grouped" => Timely(p) /\ Recent(pass[p].working[s])
       /\ cache'[s] \notin {None, cache[s]}
       => OnBasis(cache'[s], Today)]_vars

\* Apart from clearing the cache, no pass takes a boundary away, whatever the
\* pass has read before and however little the provider answers.
NothingIsLost ==
  [][(\E s \in Symbol : cache'[s] # None) =>
       \A s \in Symbol, b \in Boundary : Has(cache[s], b) => Has(cache'[s], b)]_vars

\* Once boundaries stop arriving, every symbol the provider knows gets its history
\* and its latest price and keeps them, whatever it never answers of the others.
CatchesUp == <>[](\A s \in Required(clock) \ Silent : Ready(s, clock))
=============================================================================
