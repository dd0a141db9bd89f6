---------------------------- MODULE EvaluatorQueue ----------------------------
(***************************************************************************)
(* The evaluation queue of backend/app/services/evaluator.py: the rows of  *)
(* evaluation_runs, the decisions (allocations and signals) they produce,  *)
(* the switches that gate them and the calls that move them.               *)
(*                                                                         *)
(* Every queue operation takes the lock of the singleton settings row, so  *)
(* it is one action here.  What the code reads BEFORE that lock (the       *)
(* clock, the set of liquidated shorts, and the version rows the valuation *)
(* loads into the session's identity map) is kept in a call record from    *)
(* the Begin action to the action that completes the call, and may be      *)
(* stale by then.                                                          *)
(***************************************************************************)
EXTENDS Integers, FiniteSets

CONSTANTS
  Portfolio, Version, Harness,
  VersionOf,      \* the arena version a portfolio belongs to
  HarnessOf,      \* the harness of a portfolio's agent, copied to its runs
  ShortManaged,   \* the managed short portfolios: those that can liquidate
  Run,            \* row slots of evaluation_runs (bounds the rows that coexist)
  Decision,       \* row slots of allocations and signals
  Session,        \* trading days, as increasing naturals
  EnqueueAt,      \* [p][s]: when the scheduled window of session s opens
  BoundaryAt,     \* [p][s]: the opening or closing instant of session s
  Due,            \* [p]: the sessions a portfolio's weekdays make due
  MaxAttempts,    \* settings.max_attempts, copied to every run
  MaxConcurrency, \* bound on settings.max_concurrency
  LeaseLen,       \* attempt timeout plus the 60 seconds of grace
  MaxTime,        \* horizon of the clock
  MaxCalls,       \* bound on calls, beside the polls, between first read and lock
  None

Time == 0..MaxTime
Expiry == 0..(MaxTime + LeaseLen)
Status == {"queued", "running", "cancel_requested",
           "cancelled", "succeeded", "failed", "skipped"}
Active == {"queued", "running", "cancel_requested"}
Leased == {"running", "cancel_requested"}
Finished == Status \ Active

RunRow == [portfolio: Portfolio, scheduled: BOOLEAN,
           scheduled_for: Session \cup {None}, status: Status,
           attempt_count: 0..MaxAttempts, lease: Expiry \cup {None},
           result: Decision \cup {None}]
DecisionRow == [portfolio: Portfolio, session: Session]

\* The versions that a valuation can load: those with a managed short.
ShortVersions == {VersionOf[p] : p \in ShortManaged}

\* A session's first reads: the clock, the liquidated portfolios, and the
\* versions whose row the valuation loaded (on: seen enabled).
Reads == [at: Time, liq: SUBSET ShortManaged,
          loaded: SUBSET ShortVersions, on: SUBSET ShortVersions]
ClaimCall == [op: {"claim"}, harness: Harness, reads: Reads]
ManualCall == [op: {"manual"}, portfolios: SUBSET Portfolio, reads: Reads]
RetryCall == [op: {"retry"}, run: Run, at: Time]
EnableCall == [op: {"enable"}, portfolio: Portfolio]
SubmitCall == [op: {"submit"}, run: Run, attempt: 1..MaxAttempts,
               at: Time, liquidated: BOOLEAN]
Call == ClaimCall \cup ManualCall \cup RetryCall \cup EnableCall \cup SubmitCall

ASSUME ConstantsAssumption ==
  /\ VersionOf \in [Portfolio -> Version]
  /\ HarnessOf \in [Portfolio -> Harness]
  /\ ShortManaged \subseteq Portfolio
  /\ Session \subseteq Nat
  /\ EnqueueAt \in [Portfolio -> [Session -> Int]]
  /\ BoundaryAt \in [Portfolio -> [Session -> Int]]
  /\ Due \in [Portfolio -> SUBSET Session]
  /\ MaxAttempts \in Nat \ {0} /\ MaxConcurrency \in Nat \ {0}
  /\ LeaseLen \in Nat \ {0} /\ MaxTime \in Nat /\ MaxCalls \in Nat

ASSUME SentinelAssumption ==
  /\ None \notin Session /\ None \notin Decision /\ None \notin Expiry
  /\ None \notin RunRow /\ None \notin DecisionRow

\* The horizon ends before the last session does: every instant has a next boundary.
ASSUME CalendarAssumption ==
  \A p \in Portfolio, t \in Time : \E s \in Session : t < BoundaryAt[p][s]

ASSUME FiniteAssumption == IsFiniteSet(Run) /\ IsFiniteSet(Portfolio)

VARIABLES
  enabled,         \* settings.enabled
  max_concurrency, \* settings.max_concurrency
  automation,      \* portfolios whose evaluator config is enabled
  evaluating,      \* versions whose evaluation_enabled is set
  runs,            \* [Run -> a row, or None]
  decisions,       \* [Decision -> a row, or None]
  now,
  liquidated,      \* short portfolios the market has liquidated
  calls            \* calls past their first reads, before their lock

switches == <<enabled, max_concurrency, automation, evaluating>>
vars == <<enabled, max_concurrency, automation, evaluating, runs, decisions,
          now, liquidated, calls>>

-----------------------------------------------------------------------------
(* Reading the tables.  rt is a state of the runs table. *)

\* effective_date_for: the first session whose boundary is strictly later.
EffectiveDateFor(p, t) ==
  CHOOSE s \in Session : /\ t < BoundaryAt[p][s]
                         /\ \A u \in Session : t < BoundaryAt[p][u] => s <= u

Rows(rt) == {r \in Run : rt[r] # None}
With(rt, S) == {r \in Rows(rt) : rt[r].status \in S}
ActiveRuns(rt, p) == {r \in With(rt, Active) : rt[r].portfolio = p}
HasResult(p, s) == \E d \in Decision : decisions[d] = [portfolio |-> p, session |-> s]

\* The session a run's result is for: fixed for scheduled work and its
\* retries, chosen at the time of the call otherwise.
Target(row, t) ==
  IF row.scheduled_for # None THEN row.scheduled_for
                              ELSE EffectiveDateFor(row.portfolio, t)

AutomationEnabled(p) == p \in automation /\ VersionOf[p] \in evaluating

\* The same test through the session's identity map: a version row that a valuation
\* has loaded serves every portfolio of that version.
AutomationSeen(p, reads) ==
  /\ p \in automation
  /\ VersionOf[p] \in IF VersionOf[p] \in reads.loaded THEN reads.on ELSE evaluating

\* scheduled stands for trigger_kind = "scheduled"; manual runs and retries differ
\* only in scheduled_for.
NewRun(p, scheduled, s) ==
  [portfolio |-> p, scheduled |-> scheduled, scheduled_for |-> s, status |-> "queued",
   attempt_count |-> 0, lease |-> None, result |-> None]

\* The portfolios a valuation loads: shorts with a decision past its boundary.
Valued == {p \in ShortManaged : \E d \in Decision :
             /\ decisions[d] # None /\ decisions[d].portfolio = p
             /\ BoundaryAt[p][decisions[d].session] <= now}

\* What a call that values the portfolios in S reads before its lock.
ReadsOf(S) ==
  LET loaded == {VersionOf[p] : p \in Valued \cap S}
  IN [at |-> now, liq |-> liquidated \cap S, loaded |-> loaded, on |-> loaded \cap evaluating]

\* The bound on the calls in progress beside the polls, of which a harness has one.
Room == Cardinality({c \in calls : c.op # "claim"}) < MaxCalls

-----------------------------------------------------------------------------
Init ==
  /\ enabled = TRUE
  /\ max_concurrency = MaxConcurrency
  /\ automation = {}
  /\ evaluating = {}
  /\ runs = [r \in Run |-> None]
  /\ decisions = [d \in Decision |-> None]
  /\ now = 0
  /\ liquidated = {}
  /\ calls = {}

Tick ==
  /\ now < MaxTime
  /\ now' = now + 1
  /\ UNCHANGED <<switches, runs, decisions, liquidated, calls>>

\* The market takes the NAV of a short portfolio to zero.
Liquidate(p) ==
  /\ p \in Valued \ liquidated
  /\ liquidated' = liquidated \cup {p}
  /\ UNCHANGED <<switches, runs, decisions, now, calls>>

-----------------------------------------------------------------------------
(* Switches. *)

UpdateSettings(on, n) ==
  /\ <<on, n>> # <<enabled, max_concurrency>>
  /\ enabled' = on
  /\ max_concurrency' = n
  /\ UNCHANGED <<automation, evaluating, runs, decisions, now, liquidated, calls>>

CancelRows(rt, S) ==
  [r \in Run |-> IF r \in S THEN [rt[r] EXCEPT !.status = "cancelled"] ELSE rt[r]]

\* update_version: pausing cancels the version's queued runs in the same transaction.
ResumeVersion(v) ==
  /\ v \notin evaluating
  /\ evaluating' = evaluating \cup {v}
  /\ UNCHANGED <<enabled, max_concurrency, automation, runs, decisions, now, liquidated, calls>>

QueuedOfVersion(v) == {r \in With(runs, {"queued"}) : VersionOf[runs[r].portfolio] = v}

PauseVersion(v) ==
  /\ v \in evaluating
  /\ evaluating' = evaluating \ {v}
  /\ runs' = CancelRows(runs, QueuedOfVersion(v))
  /\ UNCHANGED <<enabled, max_concurrency, automation, decisions, now, liquidated, calls>>

\* update_portfolio_config(enabled=True) values the portfolio before its lock.
BeginEnable(p) ==
  /\ Room
  /\ p \notin automation \cup liquidated
  /\ calls' = calls \cup {[op |-> "enable", portfolio |-> p]}
  /\ UNCHANGED <<switches, runs, decisions, now, liquidated>>

EnableAutomation(c) ==
  /\ calls' = calls \ {c}
  /\ automation' = automation \cup {c.portfolio}
  /\ UNCHANGED <<enabled, max_concurrency, evaluating, runs, decisions, now, liquidated>>

\* update_portfolio_config(enabled=False) skips the rows another transaction holds.
DisableAutomation(p) ==
  /\ p \in automation
  /\ automation' = automation \ {p}
  /\ \E locked \in SUBSET Rows(runs) :
       runs' = CancelRows(runs, {r \in With(runs, {"queued"}) \ locked : runs[r].portfolio = p})
  /\ UNCHANGED <<enabled, max_concurrency, evaluating, decisions, now, liquidated, calls>>

-----------------------------------------------------------------------------
(* Creating work by hand. *)

InsertRun(row) ==
  \E r \in Run \ Rows(runs) : runs' = [runs EXCEPT ![r] = row]

\* Rows for the portfolios in P: each takes a slot of its own.  A full pool is a
\* bound of the model: a batch that would overflow it is not explored.
Placements(rt, P) ==
  {slot \in [P -> Run \ Rows(rt)] : \A p, q \in P : slot[p] = slot[q] => p = q}

\* The table with a new row for each portfolio of slot, for the session it is given.
Inserted(rt, slot, scheduled, session) ==
  [r \in Run |-> IF \E p \in DOMAIN slot : slot[p] = r
                 THEN LET p == CHOOSE p \in DOMAIN slot : slot[p] = r
                      IN NewRun(p, scheduled, session[p])
                 ELSE rt[r]]

\* A batch of portfolios is valued before the lock.
BeginManual(P) ==
  /\ Room
  /\ P # {}
  /\ calls' = calls \cup {[op |-> "manual", portfolios |-> P, reads |-> ReadsOf(P)]}
  /\ UNCHANGED <<switches, runs, decisions, now, liquidated>>

\* Variant: the slot of active work is not checked.
AcceptedAnyway(c) ==
  {p \in c.portfolios :
     /\ enabled /\ AutomationSeen(p, c.reads) /\ p \notin c.reads.liq
     /\ ~HasResult(p, EffectiveDateFor(p, c.reads.at))}

\* enqueue_manual_runs: the portfolios of the batch that get a run.
Accepted(c) ==
  {p \in c.portfolios :
     /\ enabled
     /\ AutomationSeen(p, c.reads)
     /\ p \notin c.reads.liq
     /\ ActiveRuns(runs, p) = {}
     /\ ~HasResult(p, EffectiveDateFor(p, c.reads.at))}

EnqueueManual(c) ==
  /\ calls' = calls \ {c}
  /\ \E slot \in Placements(runs, Accepted(c)) :
       runs' = Inserted(runs, slot, FALSE, [p \in DOMAIN slot |-> None])
  /\ UNCHANGED <<switches, decisions, now, liquidated>>

BeginRetry(r) ==
  /\ Room
  /\ r \in With(runs, {"failed"})
  /\ calls' = calls \cup {[op |-> "retry", run |-> r, at |-> now]}
  /\ UNCHANGED <<switches, runs, decisions, now, liquidated>>

\* retry_run: only the clock is read before the lock.
MayRetry(c) ==
  /\ c.run \in With(runs, {"failed"})
  /\ enabled
  /\ LET row == runs[c.run] IN
       /\ row.portfolio \notin liquidated
       /\ AutomationEnabled(row.portfolio)
       /\ ActiveRuns(runs, row.portfolio) = {}
       /\ ~HasResult(row.portfolio, Target(row, c.at))

RetryRun(c) ==
  /\ calls' = calls \ {c}
  /\ IF MayRetry(c)
     THEN InsertRun(NewRun(runs[c.run].portfolio, FALSE, runs[c.run].scheduled_for))
     ELSE UNCHANGED runs
  /\ UNCHANGED <<switches, decisions, now, liquidated>>

-----------------------------------------------------------------------------
(* claim_runs: one poll of a harness.  The stages below run in this order on  *)
(* the runs table, and all but the scheduling one lock the rows they look at, *)
(* with SKIP LOCKED: free is the set of rows such a query can see.            *)

\* Variants: one attempt too many; a pending cancellation is requeued.
ExpiryRetriesOnceMore(row, reads) ==
  IF row.status = "cancel_requested" THEN [row EXCEPT !.status = "cancelled"]
  ELSE IF row.attempt_count <= MaxAttempts /\ enabled /\ AutomationSeen(row.portfolio, reads)
       THEN [row EXCEPT !.status = "queued", !.lease = None]
       ELSE [row EXCEPT !.status = "failed", !.lease = None]

ExpiryRetriesCancelled(row, reads) ==
  IF row.attempt_count < MaxAttempts /\ enabled /\ AutomationSeen(row.portfolio, reads)
  THEN [row EXCEPT !.status = "queued", !.lease = None]
  ELSE [row EXCEPT !.status = "failed", !.lease = None]

\* A lease that ran out: a retry if one is left and allowed, else the end.
AfterExpiry(row, reads) ==
  IF row.status = "cancel_requested" THEN [row EXCEPT !.status = "cancelled"]
  ELSE IF row.attempt_count < MaxAttempts /\ enabled /\ AutomationSeen(row.portfolio, reads)
       THEN [row EXCEPT !.status = "queued", !.lease = None]
       ELSE [row EXCEPT !.status = "failed", !.lease = None]

\* Variant: recovery looks at running rows only.
StaleRunning(rt, t) == {r \in With(rt, {"running"}) : rt[r].lease # None /\ rt[r].lease <= t}

Stale(rt, t) == {r \in With(rt, Leased) : rt[r].lease # None /\ rt[r].lease <= t}

RecoverStale(rt, free, reads) ==
  [r \in Run |-> IF r \in Stale(rt, reads.at) \cap free
                 THEN AfterExpiry(rt[r], reads) ELSE rt[r]]

CancelDisabled(rt, free, reads) ==
  CancelRows(rt, {r \in With(rt, {"queued"}) \cap free :
                    ~AutomationSeen(rt[r].portfolio, reads)})

\* Variant: queued work of a liquidated short is left alone.
KeepLiquidated(rt, free, reads) == rt

CancelLiquidated(rt, free, reads) ==
  CancelRows(rt, {r \in With(rt, {"queued"}) \cap free : rt[r].portfolio \in reads.liq})

InWindow(p, t) == EnqueueAt[p][EffectiveDateFor(p, t)] <= t

\* Variant: an earlier scheduled run of the session is not looked up.
NeedsScheduledAgain(rt, reads) ==
  {p \in Portfolio :
     LET s == EffectiveDateFor(p, reads.at) IN
       /\ enabled /\ AutomationEnabled(p) /\ InWindow(p, reads.at)
       /\ p \notin reads.liq /\ s \in Due[p]
       /\ ActiveRuns(rt, p) = {} /\ ~HasResult(p, s)}

\* The portfolios whose scheduled window is open and whose session needs a run.
NeedsScheduled(rt, reads) ==
  {p \in Portfolio :
     LET s == EffectiveDateFor(p, reads.at) IN
       /\ enabled /\ AutomationEnabled(p) /\ InWindow(p, reads.at)
       /\ p \notin reads.liq /\ s \in Due[p]
       /\ ActiveRuns(rt, p) = {}
       /\ ~HasResult(p, s)
       /\ \A r \in Rows(rt) : ~ /\ rt[r].portfolio = p /\ rt[r].scheduled
                               /\ rt[r].scheduled_for = s}

EnqueueScheduled(rt, slot, reads) ==
  Inserted(rt, slot, TRUE, [p \in DOMAIN slot |-> EffectiveDateFor(p, reads.at)])

\* Variant: queued work is not checked again before it is claimed.
SkipNothing(rt, free, reads) == rt

SkipCompleted(rt, free, reads) ==
  [r \in Run |-> IF /\ r \in With(rt, {"queued"}) \cap free
                    /\ HasResult(rt[r].portfolio, Target(rt[r], reads.at))
                 THEN [rt[r] EXCEPT !.status = "skipped", !.lease = None] ELSE rt[r]]

OfHarness(rt, S, h) == {r \in With(rt, S) : HarnessOf[rt[r].portfolio] = h}

\* Variants: runs awaiting cancellation do not count; queued runs count too.
CapacityOfRunning(rt, h) == max_concurrency - Cardinality(OfHarness(rt, {"running"}, h))
CapacityOfActive(rt, h) == max_concurrency - Cardinality(OfHarness(rt, Active, h))

Capacity(rt, h) == max_concurrency - Cardinality(OfHarness(rt, Leased, h))

\* Variant: a paused evaluator still claims.
BatchesWhilePaused(rt, free, c) ==
  LET ready == {r \in OfHarness(rt, {"queued"}, c.harness) \cap free :
                  AutomationEnabled(rt[r].portfolio)}
  IN {S \in SUBSET ready : Cardinality(S) <= Capacity(rt, c.harness)}

\* The batches a poll may take: as many unlocked queued rows as capacity allows
\* (which ones is left open: the order of creation is not modelled).
Batches(rt, free, c) ==
  LET ready == {r \in OfHarness(rt, {"queued"}, c.harness) \cap free :
                  AutomationEnabled(rt[r].portfolio)}
      room == Capacity(rt, c.harness)
  IN IF ~enabled \/ room <= 0 THEN {{}}
     ELSE {S \in SUBSET ready : IF Cardinality(ready) <= room THEN S = ready
                                ELSE Cardinality(S) = room}

\* A claimed row starts its next attempt under a lease counted from the poll's clock.
Start(rt, S, reads) ==
  [r \in Run |-> IF r \in S
                 THEN [rt[r] EXCEPT !.status = "running", !.attempt_count = @ + 1,
                                    !.lease = reads.at + LeaseLen]
                 ELSE rt[r]]

BeginClaim(h) ==
  /\ \A c \in calls : c.op = "claim" => c.harness # h
  /\ calls' = calls \cup {[op |-> "claim", harness |-> h, reads |-> ReadsOf(automation)]}
  /\ UNCHANGED <<switches, runs, decisions, now, liquidated>>

\* The first of the five locking queries of a poll that finds each row free (6: none
\* does); it keeps the row locked for the later ones.  Outside the settings lock a row
\* is held by a cancellation, which ends it, or by an answer: only a run that waits
\* for another attempt may be let go, still queued, between two queries, by a late one.
HeldByAnswer(r) ==
  /\ r \in With(runs, {"queued"})
  /\ \E d \in calls : d.op = "submit" /\ d.run = r

Sightings ==
  {seen \in [Run -> 1..6] :
     \A r \in Run : /\ seen[r] \notin {1, 6} => HeldByAnswer(r)
                    /\ r \notin Rows(runs) => seen[r] = 1}

FreeFor(query, seen) == {r \in Run : seen[r] <= query}

Claim(c, seen) ==
  LET recovered == RecoverStale(runs, FreeFor(1, seen), c.reads)
      checked == CancelDisabled(recovered, FreeFor(2, seen), c.reads)
      cleaned == CancelLiquidated(checked, FreeFor(3, seen), c.reads)
  IN /\ calls' = calls \ {c}
     /\ \E slot \in Placements(cleaned, NeedsScheduled(cleaned, c.reads)) :
          LET filled == EnqueueScheduled(cleaned, slot, c.reads)
              queue == SkipCompleted(filled, FreeFor(4, seen), c.reads)
          IN \E S \in Batches(queue, FreeFor(5, seen), c) : runs' = Start(queue, S, c.reads)
     /\ UNCHANGED <<switches, decisions, now, liquidated>>

ClaimRuns(c) == \E seen \in Sightings : Claim(c, seen)

-----------------------------------------------------------------------------
(* The worker's calls.  A worker holds the pair of a run and the attempt it   *)
(* claimed; any such pair may be sent at any time, late, again or never.      *)

\* A submission sent to a run that ended without a result is refused whatever
\* it carries, so only the others are followed.
BeginSubmit(r) ==
  /\ Room
  /\ r \in With(runs, Active \cup {"succeeded"}) /\ runs[r].attempt_count > 0
  /\ calls' = calls \cup
       {[op |-> "submit", run |-> r, attempt |-> runs[r].attempt_count, at |-> now,
         liquidated |-> runs[r].status \in Leased /\ runs[r].portfolio \in liquidated]}
  /\ UNCHANGED <<switches, runs, decisions, now, liquidated>>

\* Variant: the attempt is not compared.
IsAnyAttempt(r, attempt) == r \in Rows(runs)

\* _require_attempt, on the row as it is under its lock.
IsCurrent(r, attempt) == r \in Rows(runs) /\ runs[r].attempt_count = attempt

InLease(c) ==
  /\ IsCurrent(c.run, c.attempt)
  /\ runs[c.run].status = "running"
  /\ runs[c.run].lease # None /\ c.at < runs[c.run].lease

EndRun(r, status, d) ==
  runs' = [runs EXCEPT ![r].status = status, ![r].lease = None, ![r].result = d]

\* 404, 409 or a repeated success: the row stays; so it does when the proposal
\* fails validation (422), which any live submission may.
SubmitRefused(c) ==
  /\ \/ ~IsCurrent(c.run, c.attempt)
     \/ runs[c.run].status \notin Leased
     \/ runs[c.run].status = "running" /\ (InLease(c) => ~c.liquidated)
  /\ UNCHANGED <<runs, decisions>>

SubmitCancelled(c) ==
  /\ IsCurrent(c.run, c.attempt)
  /\ runs[c.run].status = "cancel_requested"
  /\ EndRun(c.run, "cancelled", None)
  /\ UNCHANGED decisions

\* A short that liquidated before the call, or a session that already has a result.
SubmitSkipped(c) ==
  /\ InLease(c)
  /\ \/ c.liquidated
     \/ HasResult(runs[c.run].portfolio, Target(runs[c.run], c.at))
  /\ EndRun(c.run, "skipped", None)
  /\ UNCHANGED decisions

\* Variant: the duplicate check under the portfolio lock is missing.
SubmitRecordedAgain(c) ==
  /\ InLease(c) /\ ~c.liquidated
  /\ LET row == runs[c.run] IN
       \E d \in Decision :
         /\ decisions[d] = None
         /\ decisions' = [decisions EXCEPT ![d] =
                            [portfolio |-> row.portfolio, session |-> Target(row, c.at)]]
         /\ EndRun(c.run, "succeeded", d)

SubmitRecorded(c) ==
  /\ InLease(c) /\ ~c.liquidated
  /\ LET row == runs[c.run]
         s == Target(row, c.at)
     IN /\ ~HasResult(row.portfolio, s)
        /\ \E d \in Decision :
             /\ decisions[d] = None
             /\ decisions' = [decisions EXCEPT ![d] = [portfolio |-> row.portfolio, session |-> s]]
             /\ EndRun(c.run, "succeeded", d)

SubmitRun(c) ==
  /\ calls' = calls \ {c}
  /\ SubmitRefused(c) \/ SubmitCancelled(c) \/ SubmitSkipped(c) \/ SubmitRecorded(c)
  /\ UNCHANGED <<switches, now, liquidated>>

\* Variants: the budget of attempts, or the switches, are not consulted.
FailureAlwaysRetries(row) == IF row.status = "cancel_requested" THEN "cancelled" ELSE "queued"
FailureIgnoresSwitches(row) ==
  IF row.status = "cancel_requested" THEN "cancelled"
  ELSE IF row.attempt_count < MaxAttempts THEN "queued" ELSE "failed"

\* fail_run for the current attempt (an older one gets 409, a finished run is
\* left alone).  The worker sets its cancelled flag only after it has seen
\* cancel_requested, so the flag and the status lead to the same branch.
AfterFailure(row) ==
  IF row.status = "cancel_requested" THEN "cancelled"
  ELSE IF row.attempt_count < MaxAttempts /\ enabled /\ AutomationEnabled(row.portfolio)
       THEN "queued" ELSE "failed"

\* Variant: a failure reported for a finished run is applied.
FailAnyRun(r) ==
  /\ r \in Rows(runs)
  /\ runs[r].attempt_count > 0
  /\ runs' = [runs EXCEPT ![r].status = AfterFailure(runs[r]), ![r].lease = None]
  /\ UNCHANGED <<switches, decisions, now, liquidated, calls>>

FailRun(r) ==
  /\ r \in With(runs, Active)
  /\ runs[r].attempt_count > 0
  /\ runs' = [runs EXCEPT ![r].status = AfterFailure(runs[r]), ![r].lease = None]
  /\ UNCHANGED <<switches, decisions, now, liquidated, calls>>

CancelRun(r) ==
  /\ \/ /\ r \in With(runs, {"queued"})
        /\ runs' = [runs EXCEPT ![r].status = "cancelled"]
     \/ /\ r \in With(runs, {"running"})
        /\ runs' = [runs EXCEPT ![r].status = "cancel_requested"]
  /\ UNCHANGED <<switches, decisions, now, liquidated, calls>>

-----------------------------------------------------------------------------
(* Decisions entered by hand, and erasing history. *)

\* create_allocation and create_signal, under the portfolio lock.
CreateDecision(p) ==
  LET s == EffectiveDateFor(p, now) IN
  /\ p \notin liquidated
  /\ ~HasResult(p, s)
  /\ \E d \in Decision :
       /\ decisions[d] = None
       /\ decisions' = [decisions EXCEPT ![d] = [portfolio |-> p, session |-> s]]
  /\ UNCHANGED <<switches, runs, now, liquidated, calls>>

\* Erasing the rows R and the decisions D.  A call on an erased row can only
\* get 404, so it ends here; that makes the slot free for a new row.  What is
\* left of a portfolio's history may value differently: it may be solvent again.
Erase(R, D) ==
  /\ runs' = [r \in Run |-> IF r \in R THEN None ELSE runs[r]]
  /\ decisions' = [d \in Decision |-> IF d \in D THEN None ELSE decisions[d]]
  /\ calls' = {c \in calls : c.op \in {"submit", "retry"} => c.run \notin R}
  /\ UNCHANGED <<switches, now>>

DecisionsOf(p) == {d \in Decision : decisions[d] # None /\ decisions[d].portfolio = p}

Revalued(p, D) ==
  liquidated' \in IF DecisionsOf(p) \subseteq D THEN {liquidated \ {p}}
                  ELSE IF D = {} THEN {liquidated}
                  ELSE {liquidated, liquidated \ {p}}

DeleteRun(r) ==
  /\ r \in Rows(runs)
  /\ LET D == {runs[r].result} \cap Decision IN
       Erase({r}, D) /\ Revalued(runs[r].portfolio, D)

\* Variant: the runs that point at a deleted decision stay.
DeleteDecisionOnly(d) ==
  /\ decisions[d] # None
  /\ Erase({}, {d})
  /\ Revalued(decisions[d].portfolio, {d})

DeleteDecision(d) ==
  /\ decisions[d] # None
  /\ Erase({r \in Rows(runs) : runs[r].result = d}, {d})
  /\ Revalued(decisions[d].portfolio, {d})

ResetPortfolio(p) ==
  /\ Erase({r \in Rows(runs) : runs[r].portfolio = p}, DecisionsOf(p))
  /\ Revalued(p, DecisionsOf(p))

-----------------------------------------------------------------------------
Administer ==
  \/ \E on \in BOOLEAN, n \in 1..MaxConcurrency : UpdateSettings(on, n)
  \/ \E v \in Version : ResumeVersion(v) \/ PauseVersion(v)
  \/ \E p \in Portfolio : \/ BeginEnable(p) \/ DisableAutomation(p)
                          \/ CreateDecision(p) \/ ResetPortfolio(p)
  \/ \E P \in SUBSET Portfolio : BeginManual(P)
  \/ \E r \in Run : BeginRetry(r) \/ CancelRun(r) \/ DeleteRun(r)
  \/ \E d \in Decision : DeleteDecision(d)

Work ==
  \/ \E h \in Harness : BeginClaim(h)
  \/ \E r \in Run : BeginSubmit(r) \/ FailRun(r)

Complete(c) ==
  \/ c.op = "enable" /\ EnableAutomation(c)
  \/ c.op = "manual" /\ EnqueueManual(c)
  \/ c.op = "retry" /\ RetryRun(c)
  \/ c.op = "claim" /\ ClaimRuns(c)
  \/ c.op = "submit" /\ SubmitRun(c)

Next ==
  \/ Tick
  \/ \E p \in Portfolio : Liquidate(p)
  \/ Administer
  \/ Work
  \/ \E c \in calls : Complete(c)

Spec == Init /\ [][Next]_vars

-----------------------------------------------------------------------------
(* Properties. *)

\* The tables, switches and call records stay well formed.
TypeOK ==
  /\ enabled \in BOOLEAN
  /\ max_concurrency \in 1..MaxConcurrency
  /\ automation \subseteq Portfolio
  /\ evaluating \subseteq Version
  /\ runs \in [Run -> RunRow \cup {None}]
  /\ decisions \in [Decision -> DecisionRow \cup {None}]
  /\ now \in Time
  /\ liquidated \subseteq ShortManaged
  /\ calls \subseteq Call

\* Manual, scheduled, retried and requeued work of a portfolio share one slot,
\* also while a cancellation is pending.
OneActiveRunPerPortfolio ==
  \A p \in Portfolio : \A q, r \in ActiveRuns(runs, p) : q = r

\* Whatever mixture of late submissions, retries and manual entries targets a
\* session, a portfolio gets one decision for it.
OneDecisionPerSession ==
  \A d, e \in Decision : decisions[d] # None /\ decisions[d] = decisions[e] => d = e

\* A run has a result exactly when it succeeded; the result is a live decision
\* of the same portfolio, for the session a scheduled run was queued for
\* (however late it finished), and belongs to no other run.
ResultsAreOwned ==
  \A r \in Rows(runs) :
    /\ (runs[r].status = "succeeded") <=> (runs[r].result # None)
    /\ runs[r].result # None =>
         LET d == decisions[runs[r].result] IN
         /\ d # None /\ d.portfolio = runs[r].portfolio
         /\ runs[r].scheduled_for # None => d.session = runs[r].scheduled_for
         /\ \A q \in Rows(runs) : runs[q].result = runs[r].result => q = r

\* A session is scheduled at most once per portfolio; only retries reuse it.
ScheduledOnce ==
  \A q, r \in Rows(runs) :
    /\ runs[q].scheduled /\ runs[r].scheduled
    /\ runs[q].portfolio = runs[r].portfolio
    /\ runs[q].scheduled_for = runs[r].scheduled_for
    => q = r

\* Leased work can always be recovered and queued work always has an attempt
\* left: no failure, expiry or late report breaks the budget of attempts.
AttemptBudget ==
  \A r \in Rows(runs) :
    /\ r \in With(runs, {"queued"}) => /\ runs[r].attempt_count < MaxAttempts
                                      /\ runs[r].lease = None
    /\ r \in With(runs, Leased) => runs[r].attempt_count > 0 /\ runs[r].lease # None

\* Pausing a version cancels queued work and none comes back while it is paused.
PausedVersionHasNoQueue ==
  \A r \in With(runs, {"queued"}) : VersionOf[runs[r].portfolio] \in evaluating

\* A claim never takes a harness above its concurrency limit, whatever lowered
\* the limit or was left running (runs awaiting cancellation count).
ClaimWithinLimit ==
  \A h \in Harness :
    Cardinality(OfHarness(runs', Leased, h)) > Cardinality(OfHarness(runs, Leased, h))
      => Cardinality(OfHarness(runs', Leased, h)) <= max_concurrency
NeverAboveLimit == [][ClaimWithinLimit]_vars

\* A pending cancellation wins over results, failures and expired leases.
CancelWins ==
  \A r \in With(runs, {"cancel_requested"}) :
    runs'[r] = None \/ runs'[r].status \in {"cancel_requested", "cancelled"}
CancellationIsHonoured == [][CancelWins]_vars

\* A finished run is only ever deleted: no late report or stale claim revives it.
FinishedStays ==
  \A r \in With(runs, Finished) : runs'[r] = None \/ runs'[r] = runs[r]
FinishedIsFinal == [][FinishedStays]_vars

\* An attempt starts only while the settings, the version and the portfolio all
\* allow evaluation at that moment, even if the claim read older values.
Started(r) == /\ r \in Rows(runs')
              /\ runs'[r].status = "running"
              /\ r \in Rows(runs) => runs'[r].attempt_count > runs[r].attempt_count
AttemptNeedsSwitches ==
  \A r \in Run : Started(r) => enabled /\ AutomationEnabled(runs'[r].portfolio)
NoAttemptWhilePaused == [][AttemptNeedsSwitches]_vars

\* Research is not started for a session that already has a result, be the run new,
\* waiting or recovered in the same poll; but a run that waits for another attempt may
\* escape the check while a late answer of an earlier one holds its row.
AttemptIsNeeded ==
  \A c \in calls \ calls', r \in Run :
    Started(r) /\ c.op = "claim"
      => HeldByAnswer(r) \/ ~HasResult(runs'[r].portfolio, Target(runs'[r], c.reads.at))
NoAttemptForCompletedSession == [][AttemptIsNeeded]_vars

\* Only the attempt that holds the run records a result: a superseded attempt's
\* submission, or one sent after its lease ran out, changes nothing.
Succeeds(r) == r \in With(runs', {"succeeded"}) /\ r \notin With(runs, {"succeeded"})

RecordedByHolder ==
  \A c \in calls \ calls' :
    c.op = "submit" /\ Succeeds(c.run) => c.attempt = runs[c.run].attempt_count /\ c.at < runs[c.run].lease
OnlyHolderRecords == [][RecordedByHolder]_vars

\* A short that had liquidated when a submission made its first reads gets no result
\* from it, and one that had when a claim made them gets no attempt, save that of a
\* waiting run whose row a late answer held while the claim cancelled such work.
LiquidationBlocks ==
  \A c \in calls \ calls' :
    /\ c.op = "claim" => \A r \in Run : Started(r) => \/ HeldByAnswer(r)
                                                    \/ runs'[r].portfolio \notin c.reads.liq
    /\ c.op = "submit" /\ c.liquidated => ~Succeeds(c.run)
LiquidatedShortGetsNothing == [][LiquidationBlocks]_vars

\* After a reset a short may be evaluated again: a claim cancels queued work only
\* for a switch that is off or a portfolio that is liquidated.
ClaimCancelsWithCause ==
  \A c \in calls \ calls', r \in With(runs, {"queued"}) :
    c.op = "claim" /\ r \in With(runs', {"cancelled"})
      => ~AutomationSeen(runs[r].portfolio, c.reads) \/ runs[r].portfolio \in liquidated
ResetEndsLiquidation == [][ClaimCancelsWithCause]_vars

-----------------------------------------------------------------------------
(* The promise the queue keeps (EvaluationLedger): its rows are items whose    *)
(* result is the session of their decision.                                   *)

ItemOf(row) ==
  [portfolio |-> row.portfolio, scheduled_for |-> row.scheduled_for, status |-> row.status,
   attempts |-> row.attempt_count,
   result |-> IF row.result = None THEN None ELSE decisions[row.result].session]

WorkOf == [r \in Rows(runs) |-> ItemOf(runs[r])]

ResultsOf == {<<decisions[d].portfolio, decisions[d].session>> :
                d \in {e \in Decision : decisions[e] # None}}

Ledger == INSTANCE EvaluationLedger WITH work <- WorkOf, results <- ResultsOf

\* The queue implements the ledger: whatever polls, late reports, cancellations,
\* retries and deletions do, each run lives its life once, attempts are never given
\* back, and each session's result comes from its running work or from a hand.
KeepsTheLedger == Ledger!Spec

-----------------------------------------------------------------------------
(* Liveness.  The scheduler of each harness polls for ever (the supervisor     *)
(* restarts a worker that dies), the clock advances, and since a row lock      *)
(* lasts one short transaction, a worker that keeps polling keeps meeting      *)
(* polls that find every row unlocked.                                        *)

Fairness ==
  /\ WF_vars(Tick)
  /\ \A h \in Harness :
       /\ WF_vars(BeginClaim(h))
       /\ SF_vars(\E c \in calls : /\ c.op = "claim" /\ c.harness = h
                                  /\ Claim(c, [r \in Run |-> 1]))

LiveSpec == Spec /\ Fairness

Holds(r, k) == r \in With(runs, Leased) /\ runs[r].attempt_count = k

\* A worker that dies, hangs or ignores a cancellation cannot hold a run: once
\* its lease can run out within the horizon, the attempt ends.
ExpiredAttemptEnds ==
  \A r \in Run, k \in 1..MaxAttempts :
    (Holds(r, k) /\ runs[r].lease <= MaxTime) ~> ~Holds(r, k)

\* Work for a portfolio that stays switched on does not stay queued.
QueueDrains ==
  \A r \in Run :
    LET Open == enabled /\ r \in With(runs, {"queued"}) /\ AutomationEnabled(runs[r].portfolio)
    IN ~ <>[]Open
=============================================================================
