------------------------- MODULE EvaluatorQueueProofs -------------------------
(***************************************************************************)
(* Proofs about EvaluatorQueue, for every value of its constants: its      *)
(* invariants, what its steps may do, and that it implements the ledger.   *)
(***************************************************************************)
EXTENDS EvaluatorQueue, FiniteSetTheorems, WellFoundedInduction, TLAPS

Table == [Run -> RunRow \cup {None}]

-----------------------------------------------------------------------------
(* Helpers of the model. *)

\* effective_date_for finds a session, and it is the first that is still open.
LEMMA EffectiveDateIsFirst ==
  ASSUME NEW p \in Portfolio, NEW t \in Time
  PROVE  /\ EffectiveDateFor(p, t) \in Session
         /\ t < BoundaryAt[p][EffectiveDateFor(p, t)]
         /\ \A u \in Session : t < BoundaryAt[p][u] => EffectiveDateFor(p, t) <= u
<1> DEFINE later == {s \in Session : t < BoundaryAt[p][s]}
<1>1. later \subseteq Nat /\ later # {}
  BY CalendarAssumption, ConstantsAssumption
<1>2. PICK s \in later : \A u \in later : ~(<<u, s>> \in OpToRel(<, Nat))
  <2>1. IsWellFoundedOn(OpToRel(<, Nat), Nat)
    BY NatLessThanWellFounded
  <2> HIDE DEF later
  <2>2. QED
    BY <1>1, <2>1, WFMin
<1>3. \A u \in later : s <= u
  <2> HIDE DEF later
  <2>1. \A m, n \in Nat : m < n => <<m, n>> \in OpToRel(<, Nat)
    BY Zenon DEF OpToRel
  <2>2. \A u \in later : ~(u < s)
    BY <1>1, <1>2, <2>1
  <2>3. QED
    BY <1>1, <2>2
<1>4. QED
  BY <1>3 DEF EffectiveDateFor

\* A new row, and each change the code makes to a row, is a row.
LEMMA NewRunType ==
  ASSUME NEW p \in Portfolio, NEW b \in BOOLEAN, NEW s \in Session \cup {None}
  PROVE  NewRun(p, b, s) \in RunRow
  BY ConstantsAssumption DEF NewRun, RunRow, Status

\* A row whose status, lease or result claim_runs or a result changes is still a row.
LEMMA RowChangeType ==
  ASSUME NEW row \in RunRow, NEW s \in Status
  PROVE  /\ [row EXCEPT !.status = s] \in RunRow
         /\ [row EXCEPT !.status = s, !.lease = None] \in RunRow
         /\ \A d \in Decision \cup {None} :
              [row EXCEPT !.status = s, !.lease = None, !.result = d] \in RunRow
  BY DEF RunRow

\* A row that claim_runs starts is a row.
LEMMA StartedRowType ==
  ASSUME NEW row \in RunRow, NEW l \in Expiry, row.attempt_count < MaxAttempts
  PROVE  [row EXCEPT !.status = "running", !.attempt_count = @ + 1, !.lease = l] \in RunRow
<1>1. row.attempt_count + 1 \in 0..MaxAttempts
  BY ConstantsAssumption DEF RunRow
<1>2. QED
  BY <1>1 DEF RunRow, Status

-----------------------------------------------------------------------------
(* The inductive invariant of the runs table, stated for any table so that    *)
(* it can be carried through the stages of a claim one by one.                *)

Sound(row) ==
  /\ row \in RunRow
  /\ row.status = "queued" => row.attempt_count < MaxAttempts /\ row.lease = None
  /\ row.status \in Leased => row.attempt_count > 0 /\ row.lease # None
  /\ (row.status = "succeeded") <=> (row.result # None)

SameWork(row, was) ==
  /\ row.portfolio = was.portfolio
  /\ row.scheduled = was.scheduled
  /\ row.scheduled_for = was.scheduled_for
  /\ row.result = was.result

\* What any step may do to a row it does not delete or complete with a result:
\* the work stays the same, attempts are not given back, finished rows stay as
\* they are, and a pending cancellation stays or takes effect.
Follows(row, was) ==
  /\ Sound(row) /\ SameWork(row, was)
  /\ row.attempt_count >= was.attempt_count
  /\ row.status \in Active => was.status \in Active
  /\ was.status \in Finished => row = was
  /\ was.status = "cancel_requested" => row.status \in {"cancel_requested", "cancelled"}

TableInv(rt) ==
  /\ rt \in Table
  /\ \A r \in Rows(rt) : Sound(rt[r])
  /\ \A q, r \in Rows(rt) :
       /\ rt[q].status \in Active /\ rt[r].status \in Active
       /\ rt[q].portfolio = rt[r].portfolio
       => q = r
  /\ \A q, r \in Rows(rt) :
       /\ rt[q].scheduled /\ rt[r].scheduled
       /\ rt[q].portfolio = rt[r].portfolio
       /\ rt[q].scheduled_for = rt[r].scheduled_for
       => q = r
  /\ \A q, r \in Rows(rt) :
       rt[q].result # None /\ rt[q].result = rt[r].result => q = r

\* st is rt after steps that create no row and delete none.
Advances(rt, st) ==
  /\ st \in Table
  /\ \A r \in Run : IF rt[r] = None THEN st[r] = None
                                    ELSE st[r] # None /\ Follows(st[r], rt[r])

\* A row follows itself.
LEMMA FollowsReflexive ==
  ASSUME NEW row, Sound(row)
  PROVE  Follows(row, row)
<1>1. row.attempt_count \in Int
  BY DEF Sound, RunRow
<1>2. QED
  BY <1>1 DEF Follows, SameWork

\* What follows a row that follows another follows that one.
LEMMA FollowsTransitive ==
  ASSUME NEW a, NEW b, NEW c, Sound(a), Sound(b), Follows(b, a), Follows(c, b)
  PROVE  Follows(c, a)
<1>1. b.status \in Status /\ c.status \in Status
  BY DEF Follows, Sound, RunRow
<1>2. a.attempt_count \in Int /\ b.attempt_count \in Int /\ c.attempt_count \in Int
  BY DEF Follows, Sound, RunRow
<1>3. QED
  BY <1>1, <1>2 DEF Follows, SameWork, Finished, Active, Status

\* Two tables that advance one after the other advance.
LEMMA AdvancesTransitive ==
  ASSUME NEW rt, NEW st, NEW ut, TableInv(rt), TableInv(st), Advances(rt, st), Advances(st, ut)
  PROVE  Advances(rt, ut)
<1>1. ASSUME NEW r \in Run, rt[r] # None
      PROVE  ut[r] # None /\ Follows(ut[r], rt[r])
  <2>1. /\ st[r] # None /\ Follows(st[r], rt[r])
        /\ ut[r] # None /\ Follows(ut[r], st[r])
    BY <1>1 DEF Advances
  <2>2. Sound(rt[r]) /\ Sound(st[r])
    BY <1>1, <2>1 DEF TableInv, Rows
  <2>3. QED
    BY <2>1, <2>2, FollowsTransitive
<1>2. QED
  BY <1>1 DEF Advances

\* Such steps keep the invariant.
LEMMA AdvanceKeepsInv ==
  ASSUME NEW rt, NEW st, TableInv(rt), Advances(rt, st)
  PROVE  TableInv(st)
<1>1. Rows(st) = Rows(rt)
  BY DEF Advances, Rows
<1>2. \A r \in Rows(st) : /\ r \in Rows(rt) /\ Sound(st[r]) /\ SameWork(st[r], rt[r])
                          /\ st[r].status \in Active => rt[r].status \in Active
  BY <1>1 DEF Advances, Rows, Follows
<1>3. st \in Table
  BY DEF Advances
<1>4. ASSUME NEW q \in Rows(st), NEW r \in Rows(st)
      PROVE  /\ /\ st[q].status \in Active /\ st[r].status \in Active
                /\ st[q].portfolio = st[r].portfolio
                => q = r
             /\ /\ st[q].scheduled /\ st[r].scheduled
                /\ st[q].portfolio = st[r].portfolio
                /\ st[q].scheduled_for = st[r].scheduled_for
                => q = r
             /\ st[q].result # None /\ st[q].result = st[r].result => q = r
  <2>1. SameWork(st[q], rt[q]) /\ SameWork(st[r], rt[r]) /\ q \in Rows(rt) /\ r \in Rows(rt)
    BY <1>2
  <2>2. (st[q].status \in Active => rt[q].status \in Active)
        /\ (st[r].status \in Active => rt[r].status \in Active)
    BY <1>2
  <2>3. QED
    BY <2>1, <2>2, Zenon DEF TableInv, SameWork
<1>5. \A r \in Rows(st) : Sound(st[r])
  BY <1>2
<1>6. QED
  BY <1>3, <1>4, <1>5, Zenon DEF TableInv

\* A table in which the rows of S are replaced by sound rows for the same work advances.
LEMMA ReplaceAdvances ==
  ASSUME NEW rt, TableInv(rt), NEW S, NEW st,
         \A r \in Run : IF r \in S THEN rt[r] # None /\ Follows(st[r], rt[r])
                                ELSE st[r] = rt[r],
         st = [r \in Run |-> st[r]]
  PROVE  Advances(rt, st)
<1>1. \A r \in Run : st[r] \in RunRow \cup {None}
  BY DEF TableInv, Table, Sound, Follows
<1>2. st \in Table
  BY <1>1 DEF Table
<1>3. \A r \in Run : rt[r] # None => Follows(rt[r], rt[r])
  BY FollowsReflexive DEF TableInv, Rows
<1>4. \A r \in Run : rt[r] # None => st[r] # None
  BY SentinelAssumption DEF Sound, Follows
<1>5. QED
  BY <1>2, <1>3, <1>4 DEF Advances

\* Cancelling an active row at once leaves a sound row.
LEMMA CancelledRow ==
  ASSUME NEW row, Sound(row), row.status \in Active
  PROVE  Follows([row EXCEPT !.status = "cancelled"], row)
<1>1. [row EXCEPT !.status = "cancelled"] \in RunRow
  BY RowChangeType DEF Sound, Status
<1>2. QED
  BY <1>1 DEF Follows, Sound, SameWork, RunRow, Active, Leased, Finished

\* Ending an active row without a result, too; a pending cancellation ends cancelled.
LEMMA EndedRow ==
  ASSUME NEW row, Sound(row), row.status \in Active,
         NEW s \in {"cancelled", "failed", "skipped"},
         row.status = "cancel_requested" => s = "cancelled"
  PROVE  Follows([row EXCEPT !.status = s, !.lease = None], row)
<1>1. [row EXCEPT !.status = s, !.lease = None] \in RunRow
  BY RowChangeType DEF Sound, Status
<1>2. QED
  BY <1>1 DEF Follows, Sound, SameWork, RunRow, Active, Leased, Finished

\* A row goes back to the queue only with an attempt left.
LEMMA RequeuedRow ==
  ASSUME NEW row, Sound(row), row.status \in {"queued", "running"},
         row.attempt_count < MaxAttempts
  PROVE  Follows([row EXCEPT !.status = "queued", !.lease = None], row)
<1>1. [row EXCEPT !.status = "queued", !.lease = None] \in RunRow
  BY RowChangeType DEF Sound, Status
<1>2. QED
  BY <1>1 DEF Follows, Sound, SameWork, RunRow, Active, Leased, Finished

\* A cancellation asked of running work keeps the attempt and its lease.
LEMMA RequestedRow ==
  ASSUME NEW row, Sound(row), row.status = "running"
  PROVE  Follows([row EXCEPT !.status = "cancel_requested"], row)
<1>1. [row EXCEPT !.status = "cancel_requested"] \in RunRow
  BY RowChangeType DEF Sound, Status
<1>2. QED
  BY <1>1 DEF Follows, Sound, SameWork, RunRow, Active, Leased, Finished

\* Starting a queued row uses up an attempt and sets a lease.
LEMMA StartedRow ==
  ASSUME NEW row, Sound(row), row.status = "queued", NEW l \in Expiry
  PROVE  Follows([row EXCEPT !.status = "running", !.attempt_count = @ + 1, !.lease = l], row)
<1>1. [row EXCEPT !.status = "running", !.attempt_count = @ + 1, !.lease = l] \in RunRow
  BY StartedRowType DEF Sound
<1>2. row.attempt_count \in 0..MaxAttempts /\ l # None
  BY SentinelAssumption DEF Sound, RunRow
<1>3. QED
  BY <1>1, <1>2, ConstantsAssumption DEF Follows, Sound, SameWork, RunRow, Active, Leased, Finished

-----------------------------------------------------------------------------
(* The stages of a claim, and the row changes of the other actions. *)

\* Cancelling a set of active rows advances the table.
LEMMA CancelRowsAdvances ==
  ASSUME NEW rt, TableInv(rt), NEW S, S \subseteq With(rt, Active)
  PROVE  Advances(rt, CancelRows(rt, S))
<1>1. \A r \in S : /\ rt[r] # None /\ Sound(rt[r]) /\ rt[r].status \in Active /\ r \in Run
  BY DEF TableInv, With, Rows
<1>2. \A r \in S : LET new == [rt[r] EXCEPT !.status = "cancelled"]
                  IN Follows(new, rt[r])
  BY <1>1, CancelledRow
<1>3. QED
  BY <1>1, <1>2, ReplaceAdvances DEF CancelRows

\* Recovering expired leases advances the table: a row goes back to the queue
\* only with an attempt left, and any other expired row ends.
LEMMA RecoverStaleAdvances ==
  ASSUME NEW rt, TableInv(rt), NEW free, NEW reads
  PROVE  Advances(rt, RecoverStale(rt, free, reads))
<1> DEFINE S == Stale(rt, reads.at) \cap free
           st == RecoverStale(rt, free, reads)
<1>1. \A r \in S : /\ rt[r] # None /\ Sound(rt[r]) /\ rt[r].status \in Active /\ r \in Run
  BY DEF TableInv, Stale, With, Rows, Leased, Active
<1>2. ASSUME NEW r \in S
      PROVE  Follows(AfterExpiry(rt[r], reads), rt[r])
  <2>0. rt[r].status \in {"running", "cancel_requested"}
    BY DEF Stale, With, Leased
  <2>1. CASE rt[r].status = "cancel_requested"
    BY <1>1, <2>1, CancelledRow DEF AfterExpiry
  <2>2. CASE /\ rt[r].status # "cancel_requested" /\ rt[r].attempt_count < MaxAttempts
             /\ enabled /\ AutomationSeen(rt[r].portfolio, reads)
    BY <1>1, <2>0, <2>2, RequeuedRow DEF AfterExpiry
  <2>3. CASE /\ rt[r].status # "cancel_requested"
             /\ ~(/\ rt[r].attempt_count < MaxAttempts
                  /\ enabled /\ AutomationSeen(rt[r].portfolio, reads))
    BY <1>1, <2>3, EndedRow DEF AfterExpiry
  <2>4. QED
    BY <2>1, <2>2, <2>3
<1>3. st = [r \in Run |-> st[r]]
  BY DEF RecoverStale
<1>4. ASSUME NEW r \in Run
      PROVE  IF r \in S
             THEN rt[r] # None /\ Follows(st[r], rt[r])
             ELSE st[r] = rt[r]
  <2>1. st[r] = IF r \in S THEN AfterExpiry(rt[r], reads) ELSE rt[r]
    BY DEF RecoverStale
  <2>2. QED
    BY <1>1, <1>2, <2>1
<1>5. QED
  <2> HIDE DEF S, st
  <2>1. Advances(rt, st)
    BY <1>3, <1>4, ReplaceAdvances
  <2>2. QED
    BY <2>1 DEF st

\* Skipping queued work for completed sessions advances the table.
LEMMA SkipCompletedAdvances ==
  ASSUME NEW rt, TableInv(rt), NEW free, NEW reads
  PROVE  Advances(rt, SkipCompleted(rt, free, reads))
<1> DEFINE S == {r \in With(rt, {"queued"}) \cap free :
                   HasResult(rt[r].portfolio, Target(rt[r], reads.at))}
           st == SkipCompleted(rt, free, reads)
<1>1. \A r \in S : /\ rt[r] # None /\ Sound(rt[r]) /\ r \in Run
                   /\ rt[r].status = "queued" /\ rt[r].status \in Active
  BY DEF TableInv, With, Rows, Active
<1>2. \A r \in S : LET new == [rt[r] EXCEPT !.status = "skipped", !.lease = None]
                  IN Follows(new, rt[r])
  BY <1>1, EndedRow
<1>3. st = [r \in Run |-> st[r]]
  BY DEF SkipCompleted
<1>4. ASSUME NEW r \in Run
      PROVE  IF r \in S
             THEN rt[r] # None /\ Follows(st[r], rt[r])
             ELSE st[r] = rt[r]
  <2>1. st[r] = IF r \in S THEN [rt[r] EXCEPT !.status = "skipped", !.lease = None] ELSE rt[r]
    BY DEF SkipCompleted
  <2>2. QED
    BY <1>1, <1>2, <2>1
<1>5. QED
  <2> HIDE DEF S, st
  <2>1. Advances(rt, st)
    BY <1>3, <1>4, ReplaceAdvances
  <2>2. QED
    BY <2>1 DEF st

\* Starting queued rows under a lease advances the table.
LEMMA StartAdvances ==
  ASSUME NEW rt, TableInv(rt), NEW reads \in Reads,
         NEW S, S \subseteq With(rt, {"queued"})
  PROVE  Advances(rt, Start(rt, S, reads))
<1> DEFINE st == Start(rt, S, reads)
           new(r) == [rt[r] EXCEPT !.status = "running", !.attempt_count = @ + 1,
                                   !.lease = reads.at + LeaseLen]
<1>1. \A r \in S : /\ rt[r] # None /\ Sound(rt[r]) /\ r \in Run
                   /\ rt[r].status = "queued" /\ rt[r].status \in Active
  BY DEF TableInv, With, Rows, Active
<1>2. reads.at + LeaseLen \in Expiry
  BY ConstantsAssumption DEF Reads, Time, Expiry
<1>3. \A r \in S : Follows(new(r), rt[r])
  BY <1>1, <1>2, StartedRow
<1>4. st = [r \in Run |-> st[r]]
  BY DEF Start
<1>5. ASSUME NEW r \in Run
      PROVE  IF r \in S
             THEN rt[r] # None /\ Follows(st[r], rt[r])
             ELSE st[r] = rt[r]
  <2>1. st[r] = IF r \in S THEN new(r) ELSE rt[r]
    BY DEF Start
  <2> HIDE DEF st, new
  <2>2. QED
    BY <1>1, <1>3, <2>1
<1>6. QED
  <2> HIDE DEF st
  <2>1. Advances(rt, st)
    BY <1>4, <1>5, ReplaceAdvances
  <2>2. QED
    BY <2>1 DEF st

\* A batch of new rows: each portfolio's is in a slot of its own that was free, and
\* the other rows stay.
LEMMA InsertedRows ==
  ASSUME NEW rt, NEW P, NEW slot \in Placements(rt, P),
         NEW scheduled \in BOOLEAN, NEW session
  PROVE  LET st == Inserted(rt, slot, scheduled, session) IN
         /\ \A p \in P : /\ slot[p] \in Run \ Rows(rt)
                         /\ st[slot[p]] = NewRun(p, scheduled, session[p])
         /\ \A p, q \in P : slot[p] = slot[q] => p = q
         /\ \A r \in Run : (\E p \in P : r = slot[p]) \/ st[r] = rt[r]
         /\ st = [r \in Run |-> st[r]]
<1> DEFINE st == Inserted(rt, slot, scheduled, session)
<1>1. /\ slot \in [P -> Run \ Rows(rt)]
      /\ \A p, q \in P : slot[p] = slot[q] => p = q
  BY DEF Placements
<1>2. ASSUME NEW p \in P
      PROVE  slot[p] \in Run \ Rows(rt) /\ st[slot[p]] = NewRun(p, scheduled, session[p])
  <2>1. slot[p] \in Run \ Rows(rt)
    BY <1>1
  <2>2. (CHOOSE q \in P : slot[q] = slot[p]) = p
    BY <1>1
  <2>3. QED
    BY <1>1, <2>1, <2>2 DEF Inserted
<1>3. \A r \in Run : (\E p \in P : r = slot[p]) \/ st[r] = rt[r]
  BY <1>1 DEF Inserted
<1>4. st = [r \in Run |-> st[r]]
  BY DEF Inserted
<1>5. QED
  BY <1>1, <1>2, <1>3, <1>4

\* It keeps the table sound if none of the portfolios has active work, or a scheduled
\* run of the session it is scheduled for.
LEMMA InsertedKeepsInv ==
  ASSUME NEW rt, TableInv(rt), NEW P \in SUBSET Portfolio, NEW slot \in Placements(rt, P),
         NEW scheduled \in BOOLEAN, NEW session \in [P -> Session \cup {None}],
         \A p \in P : ActiveRuns(rt, p) = {},
         scheduled => \A p \in P, r \in Rows(rt) :
           ~ /\ rt[r].portfolio = p /\ rt[r].scheduled
             /\ rt[r].scheduled_for = session[p]
  PROVE  TableInv(Inserted(rt, slot, scheduled, session))
<1> DEFINE st == Inserted(rt, slot, scheduled, session)
           row(p) == NewRun(p, scheduled, session[p])
<1>1. /\ \A p \in P : slot[p] \in Run \ Rows(rt) /\ st[slot[p]] = row(p)
      /\ \A p, q \in P : slot[p] = slot[q] => p = q
      /\ \A r \in Run : (\E p \in P : r = slot[p]) \/ st[r] = rt[r]
      /\ st = [r \in Run |-> st[r]]
  BY InsertedRows
<1>2. ASSUME NEW p \in P
      PROVE  Sound(row(p)) /\ row(p) # None
  <2>1. p \in Portfolio /\ session[p] \in Session \cup {None}
    OBVIOUS
  <2>2. row(p) \in RunRow
    BY <2>1, NewRunType
  <2>3. /\ row(p).status = "queued" /\ row(p).attempt_count = 0
        /\ row(p).lease = None /\ row(p).result = None
    BY DEF NewRun
  <2> HIDE DEF row
  <2>4. Sound(row(p))
    BY <2>2, <2>3, ConstantsAssumption DEF Sound, Leased
  <2>5. QED
    BY <2>4, SentinelAssumption DEF Sound
<1>3. \A p \in P : /\ row(p).portfolio = p /\ row(p).result = None
                   /\ row(p).scheduled = scheduled /\ row(p).scheduled_for = session[p]
  BY DEF NewRun
<1> HIDE DEF st, row
<1>4. ASSUME NEW p \in P, NEW r \in Rows(rt)
      PROVE  /\ ~ (rt[r].status \in Active /\ rt[r].portfolio = row(p).portfolio)
             /\ ~ (/\ rt[r].scheduled /\ row(p).scheduled /\ rt[r].portfolio = row(p).portfolio
                   /\ rt[r].scheduled_for = row(p).scheduled_for)
  <2>1. row(p).portfolio = p /\ row(p).scheduled_for = session[p] /\ row(p).scheduled = scheduled
    BY <1>3
  <2>2. ~ (rt[r].status \in Active /\ rt[r].portfolio = p)
    BY DEF ActiveRuns, With
  <2>3. scheduled => ~ (/\ rt[r].portfolio = p /\ rt[r].scheduled
                        /\ rt[r].scheduled_for = session[p])
    OBVIOUS
  <2>4. QED
    BY <2>1, <2>2, <2>3, Zenon
<1>5. st \in Table
  <2>1. \A r \in Run : st[r] \in RunRow \cup {None}
    BY <1>1, <1>2 DEF Sound, TableInv, Table
  <2>2. QED
    BY <2>1, <1>1 DEF Table
<1>6. \A r \in Rows(st) : (\E p \in P : r = slot[p] /\ st[r] = row(p))
                         \/ (r \in Rows(rt) /\ st[r] = rt[r])
  BY <1>1, <1>2 DEF Rows
<1>7. \A r \in Rows(st) : Sound(st[r])
  BY <1>2, <1>6 DEF TableInv
<1>8. ASSUME NEW q \in Rows(st), NEW r \in Rows(st)
      PROVE  /\ /\ st[q].status \in Active /\ st[r].status \in Active
                /\ st[q].portfolio = st[r].portfolio
                => q = r
             /\ /\ st[q].scheduled /\ st[r].scheduled
                /\ st[q].portfolio = st[r].portfolio
                /\ st[q].scheduled_for = st[r].scheduled_for
                => q = r
             /\ st[q].result # None /\ st[q].result = st[r].result => q = r
  <2>1. CASE \E p \in P : q = slot[p] /\ st[q] = row(p)
    <3>1. PICK p \in P : q = slot[p] /\ st[q] = row(p)
      BY <2>1
    <3>2. CASE \E u \in P : r = slot[u] /\ st[r] = row(u)
      BY <1>3, <3>1, <3>2
    <3>3. CASE r \in Rows(rt) /\ st[r] = rt[r]
      BY <1>3, <1>4, <3>1, <3>3
    <3>4. QED
      BY <1>6, <3>2, <3>3
  <2>2. CASE q \in Rows(rt) /\ st[q] = rt[q]
    <3>1. CASE \E u \in P : r = slot[u] /\ st[r] = row(u)
      BY <1>3, <1>4, <2>2, <3>1
    <3>2. CASE r \in Rows(rt) /\ st[r] = rt[r]
      BY <2>2, <3>2 DEF TableInv
    <3>3. QED
      BY <1>6, <3>1, <3>2
  <2>3. QED
    BY <1>6, <2>1, <2>2
<1>9. TableInv(st)
  BY <1>5, <1>7, <1>8, Zenon DEF TableInv
<1>10. QED
  BY <1>9 DEF st

\* Scheduling gives each needed portfolio one new row, and only to portfolios
\* without active work and without a scheduled run of that session.
LEMMA EnqueueScheduledKeepsInv ==
  ASSUME NEW rt, TableInv(rt), NEW reads \in Reads,
         NEW slot \in Placements(rt, NeedsScheduled(rt, reads))
  PROVE  TableInv(EnqueueScheduled(rt, slot, reads))
<1> DEFINE Needed == NeedsScheduled(rt, reads)
           session == [p \in Needed |-> EffectiveDateFor(p, reads.at)]
<1>1. Needed \in SUBSET Portfolio
  BY DEF NeedsScheduled
<1>2. session \in [Needed -> Session \cup {None}]
  <2>1. \A p \in Portfolio : EffectiveDateFor(p, reads.at) \in Session
    BY EffectiveDateIsFirst DEF Reads
  <2> HIDE DEF Needed
  <2>2. QED
    BY <1>1, <2>1
<1>3. \A p \in Needed : ActiveRuns(rt, p) = {}
  BY DEF NeedsScheduled
<1>4. \A p \in Needed, r \in Rows(rt) :
        ~ /\ rt[r].portfolio = p /\ rt[r].scheduled
          /\ rt[r].scheduled_for = session[p]
  BY DEF NeedsScheduled
<1>5. DOMAIN slot = Needed
  BY DEF Placements
<1>6. EnqueueScheduled(rt, slot, reads) = Inserted(rt, slot, TRUE, session)
  BY <1>5 DEF EnqueueScheduled
<1> HIDE DEF Needed, session
<1>7. TableInv(Inserted(rt, slot, TRUE, session))
  BY <1>1, <1>2, <1>3, <1>4, InsertedKeepsInv DEF Needed
<1>8. QED
  BY <1>6, <1>7

\* A claim: the rows that were there advance and the table stays sound.
LEMMA ClaimKeepsTable ==
  ASSUME TableInv(runs), NEW c \in calls, c.reads \in Reads, NEW seen, Claim(c, seen)
  PROVE  /\ TableInv(runs')
         /\ \A r \in Rows(runs) : runs'[r] # None /\ Follows(runs'[r], runs[r])
         /\ \A r \in Rows(runs') : r \in Rows(runs) \/ runs'[r].result = None
<1> DEFINE recovered == RecoverStale(runs, FreeFor(1, seen), c.reads)
           checked == CancelDisabled(recovered, FreeFor(2, seen), c.reads)
           cleaned == CancelLiquidated(checked, FreeFor(3, seen), c.reads)
<1>1. Advances(runs, recovered) /\ TableInv(recovered)
  BY RecoverStaleAdvances, AdvanceKeepsInv
<1>2. Advances(recovered, checked) /\ TableInv(checked)
  <2> HIDE DEF recovered
  <2>1. With(recovered, {"queued"}) \subseteq With(recovered, Active)
    BY DEF With, Active
  <2>2. Advances(recovered, checked)
    BY <1>1, <2>1, CancelRowsAdvances DEF CancelDisabled
  <2>3. QED
    BY <1>1, <2>2, AdvanceKeepsInv
<1>3. Advances(checked, cleaned) /\ TableInv(cleaned)
  <2> HIDE DEF checked
  <2>1. With(checked, {"queued"}) \subseteq With(checked, Active)
    BY DEF With, Active
  <2>2. Advances(checked, cleaned)
    BY <1>2, <2>1, CancelRowsAdvances DEF CancelLiquidated
  <2>3. QED
    BY <1>2, <2>2, AdvanceKeepsInv
<1>4. Advances(runs, cleaned)
  <2> HIDE DEF recovered, checked, cleaned
  <2>1. QED
    BY <1>1, <1>2, <1>3, AdvancesTransitive
<1>5. PICK slot \in Placements(cleaned, NeedsScheduled(cleaned, c.reads)) :
        LET filled == EnqueueScheduled(cleaned, slot, c.reads)
            queue == SkipCompleted(filled, FreeFor(4, seen), c.reads)
        IN \E S \in Batches(queue, FreeFor(5, seen), c) : runs' = Start(queue, S, c.reads)
  BY DEF Claim
<1> DEFINE filled == EnqueueScheduled(cleaned, slot, c.reads)
           queue == SkipCompleted(filled, FreeFor(4, seen), c.reads)
<1>6. PICK S \in Batches(queue, FreeFor(5, seen), c) : runs' = Start(queue, S, c.reads)
  BY <1>5
<1> HIDE DEF recovered, checked, cleaned
<1>7. /\ TableInv(filled)
      /\ \A r \in Rows(cleaned) : filled[r] = cleaned[r]
      /\ \A r \in Rows(filled) : r \in Rows(cleaned) \/ filled[r].result = None
  <2>1. TableInv(filled)
    BY <1>3, <1>5, EnqueueScheduledKeepsInv
  <2>2. \A r \in Rows(cleaned) : filled[r] = cleaned[r]
    BY <1>5 DEF EnqueueScheduled, Inserted, Placements, Rows
  <2>3. \A r \in Rows(filled) : r \in Rows(cleaned) \/ filled[r].result = None
    BY DEF EnqueueScheduled, Inserted, Rows, NewRun
  <2>4. QED
    BY <2>1, <2>2, <2>3
<1> HIDE DEF filled
<1>8. Advances(filled, queue) /\ TableInv(queue)
  BY <1>7, SkipCompletedAdvances, AdvanceKeepsInv
<1> HIDE DEF queue
<1>9. S \subseteq With(queue, {"queued"})
  BY <1>6 DEF Batches, OfHarness
<1>10. Advances(queue, runs') /\ TableInv(runs')
  BY <1>6, <1>8, <1>9, StartAdvances, AdvanceKeepsInv
<1>11. Advances(filled, runs')
  BY <1>7, <1>8, <1>10, AdvancesTransitive
<1>12. ASSUME NEW r \in Rows(runs)
       PROVE  runs'[r] # None /\ Follows(runs'[r], runs[r])
  <2>1. r \in Run /\ runs[r] # None
    BY DEF Rows
  <2>2. cleaned[r] # None /\ Follows(cleaned[r], runs[r])
    BY <1>4, <2>1 DEF Advances
  <2>3. filled[r] = cleaned[r]
    BY <1>7, <2>1, <2>2 DEF Rows
  <2>4. runs'[r] # None /\ Follows(runs'[r], filled[r])
    BY <1>11, <2>1, <2>2, <2>3 DEF Advances
  <2>5. Sound(runs[r]) /\ Sound(cleaned[r])
    BY <2>2 DEF TableInv, Follows
  <2>6. QED
    BY <2>2, <2>3, <2>4, <2>5, FollowsTransitive
<1>13. ASSUME NEW r \in Rows(runs')
       PROVE  r \in Rows(runs) \/ runs'[r].result = None
  <2>1. filled[r] # None /\ Follows(runs'[r], filled[r]) /\ r \in Run
    BY <1>11 DEF Advances, Rows
  <2>2. r \in Rows(cleaned) \/ filled[r].result = None
    BY <1>7, <2>1 DEF Rows
  <2>3. r \in Rows(cleaned) => r \in Rows(runs)
    BY <1>4 DEF Advances, Rows
  <2>4. QED
    BY <2>1, <2>2, <2>3 DEF Follows, SameWork
<1>14. QED
  BY <1>10, <1>12, <1>13

\* Changing one row to one that follows it advances the table.
LEMMA ChangeAdvances ==
  ASSUME NEW rt, TableInv(rt), NEW r \in Rows(rt), NEW new, Follows(new, rt[r])
  PROVE  LET st == [rt EXCEPT ![r] = new] IN Advances(rt, st) /\ TableInv(st)
<1> DEFINE st == [rt EXCEPT ![r] = new]
           S == {r}
<1>1. /\ rt = [q \in Run |-> rt[q]] /\ r \in Run /\ rt[r] # None
  BY DEF TableInv, Table, Rows
<1>2. st = [q \in Run |-> st[q]]
  BY <1>1
<1>3. \A q \in Run : IF q \in S THEN rt[q] # None /\ Follows(st[q], rt[q]) ELSE st[q] = rt[q]
  BY <1>1
<1> HIDE DEF st, S
<1>4. Advances(rt, st)
  BY <1>2, <1>3, ReplaceAdvances
<1>5. TableInv(st)
  BY <1>4, AdvanceKeepsInv
<1>6. QED
  BY <1>4, <1>5 DEF st

\* Inserting a row queued by hand for a portfolio without active work.
LEMMA InsertKeepsInv ==
  ASSUME NEW rt, TableInv(rt), NEW r \in Run \ Rows(rt), NEW p \in Portfolio,
         NEW s \in Session \cup {None}, ActiveRuns(rt, p) = {}
  PROVE  TableInv([rt EXCEPT ![r] = NewRun(p, FALSE, s)])
<1> DEFINE row == NewRun(p, FALSE, s)
           st == [rt EXCEPT ![r] = row]
<1>1. /\ row \in RunRow /\ row.status = "queued" /\ row.attempt_count = 0 /\ row.lease = None
      /\ row.result = None /\ row.scheduled = FALSE /\ row.portfolio = p
  <2>1. row \in RunRow
    BY NewRunType
  <2>2. QED
    BY <2>1 DEF NewRun
<1>2. \A q \in Rows(rt) : ~(rt[q].status \in Active /\ rt[q].portfolio = p)
  BY DEF ActiveRuns, With
<1> HIDE DEF row
<1>3. Sound(row) /\ row # None
  BY <1>1, ConstantsAssumption, SentinelAssumption DEF Sound, Leased
<1>4. st \in Table /\ st[r] = row /\ \A q \in Rows(st) : q = r \/ (q \in Rows(rt) /\ st[q] = rt[q])
  BY <1>1 DEF TableInv, Table, Rows
<1> HIDE DEF st
<1>5. ASSUME NEW q \in Rows(st), NEW u \in Rows(st)
      PROVE  /\ /\ st[q].status \in Active /\ st[u].status \in Active
                /\ st[q].portfolio = st[u].portfolio
                => q = u
             /\ /\ st[q].scheduled /\ st[u].scheduled
                /\ st[q].portfolio = st[u].portfolio
                /\ st[q].scheduled_for = st[u].scheduled_for
                => q = u
             /\ st[q].result # None /\ st[q].result = st[u].result => q = u
  <2>1. CASE q = r
    BY <1>1, <1>2, <1>4, <2>1
  <2>2. CASE u = r
    BY <1>1, <1>2, <1>4, <2>2
  <2>3. CASE q # r /\ u # r
    BY <1>4, <2>3 DEF TableInv
  <2>4. QED
    BY <2>1, <2>2, <2>3
<1>6. \A q \in Rows(st) : Sound(st[q])
  BY <1>3, <1>4 DEF TableInv
<1>7. TableInv(st)
  BY <1>4, <1>5, <1>6, Zenon DEF TableInv
<1>8. QED
  BY <1>7 DEF st, row

\* Erasing rows keeps the table sound.
LEMMA EraseKeepsTable ==
  ASSUME NEW rt, TableInv(rt), NEW S
  PROVE  TableInv([r \in Run |-> IF r \in S THEN None ELSE rt[r]])
<1> DEFINE st == [r \in Run |-> IF r \in S THEN None ELSE rt[r]]
<1>1. st \in Table /\ \A q \in Rows(st) : q \in Rows(rt) /\ st[q] = rt[q]
  BY DEF TableInv, Table, Rows
<1> HIDE DEF st
<1>2. TableInv(st)
  BY <1>1 DEF TableInv
<1>3. QED
  BY <1>2 DEF st

\* Completing an active row with a result no other row has.
LEMMA SucceedKeepsTable ==
  ASSUME NEW rt, TableInv(rt), NEW r \in Rows(rt), rt[r].status \in Active,
         NEW d \in Decision, \A q \in Rows(rt) : rt[q].result # d
  PROVE  TableInv([rt EXCEPT ![r].status = "succeeded", ![r].lease = None, ![r].result = d])
<1> DEFINE new == [rt[r] EXCEPT !.status = "succeeded", !.lease = None, !.result = d]
           st == [rt EXCEPT ![r] = new]
<1>1. Sound(rt[r]) /\ rt[r] \in RunRow /\ r \in Run
  BY DEF TableInv, Sound, Rows
<1>2. new \in RunRow
  BY <1>1, RowChangeType DEF Status
<1>3. /\ new.status = "succeeded" /\ new.result = d /\ new.portfolio = rt[r].portfolio
      /\ new.scheduled = rt[r].scheduled /\ new.scheduled_for = rt[r].scheduled_for
  BY <1>1 DEF RunRow
<1> HIDE DEF new
<1>4. Sound(new) /\ new.status \notin Active /\ new # None
  BY <1>2, <1>3, SentinelAssumption DEF Sound, Leased, Active
<1>5. /\ st \in Table /\ st[r] = new
      /\ \A q \in Rows(st) : q \in Rows(rt) /\ (q # r => st[q] = rt[q])
  BY <1>1, <1>2 DEF TableInv, Table, Rows
<1>6. [rt EXCEPT ![r].status = "succeeded", ![r].lease = None, ![r].result = d] = st
  BY <1>1 DEF new, TableInv, Table
<1> HIDE DEF st
<1>7. ASSUME NEW q \in Rows(st), NEW u \in Rows(st)
      PROVE  /\ /\ st[q].status \in Active /\ st[u].status \in Active
                /\ st[q].portfolio = st[u].portfolio
                => q = u
             /\ /\ st[q].scheduled /\ st[u].scheduled
                /\ st[q].portfolio = st[u].portfolio
                /\ st[q].scheduled_for = st[u].scheduled_for
                => q = u
             /\ st[q].result # None /\ st[q].result = st[u].result => q = u
  <2>1. CASE q = r
    BY <1>3, <1>4, <1>5, <2>1 DEF TableInv
  <2>2. CASE u = r
    BY <1>3, <1>4, <1>5, <2>2 DEF TableInv
  <2>3. CASE q # r /\ u # r
    BY <1>5, <2>3 DEF TableInv
  <2>4. QED
    BY <2>1, <2>2, <2>3
<1>8. \A q \in Rows(st) : Sound(st[q])
  BY <1>4, <1>5 DEF TableInv
<1>9. TableInv(st)
  BY <1>5, <1>7, <1>8, Zenon DEF TableInv
<1>10. QED
  BY <1>6, <1>9

-----------------------------------------------------------------------------
(* The inductive invariant of the whole queue, and what a step may do to a    *)
(* row.  TableInv says that rows are sound and do not compete; Owned ties     *)
(* results to live decisions, so that a decision that does not exist yet is   *)
(* nobody's result.                                                           *)

Owned ==
  \A r \in Rows(runs) : runs[r].result # None =>
    LET d == decisions[runs[r].result] IN
    /\ d # None /\ d.portfolio = runs[r].portfolio
    /\ runs[r].scheduled_for # None => d.session = runs[r].scheduled_for

IInv == TypeOK /\ TableInv(runs) /\ OneDecisionPerSession /\ Owned

\* The forms a step takes: rows move and appear, running work gets its result, a
\* decision is entered, or rows and decisions are erased.
Progress ==
  /\ UNCHANGED decisions
  /\ \A r \in Rows(runs) : runs'[r] # None /\ Follows(runs'[r], runs[r])
  /\ \A r \in Rows(runs') : r \in Rows(runs) \/ runs'[r].result = None

NewDecision(d, p, s) ==
  /\ decisions[d] = None /\ ~HasResult(p, s)
  /\ decisions' = [decisions EXCEPT ![d] = [portfolio |-> p, session |-> s]]

Recording(r, d, s) ==
  /\ runs[r].status = "running" /\ runs[r].scheduled_for \in {s, None}
  /\ NewDecision(d, runs[r].portfolio, s)
  /\ EndRun(r, "succeeded", d)

Entering(p, d, s) == NewDecision(d, p, s) /\ UNCHANGED runs

Erasing(R, D) ==
  /\ Erase(R, D)
  /\ \A r \in Rows(runs) : r \notin R => runs[r].result \notin D

StepForm ==
  \/ Progress
  \/ \E r \in Rows(runs), d \in Decision, s \in Session : Recording(r, d, s)
  \/ \E p \in Portfolio, d \in Decision, s \in Session : Entering(p, d, s)
  \/ \E R, D : Erasing(R, D)

RowsStep ==
  /\ \A r \in Rows(runs) :
       \/ runs'[r] = None
       \/ Follows(runs'[r], runs[r])
       \/ runs[r].status = "running" /\ runs'[r].status = "succeeded"
  /\ StepForm

\* What a step that touches no decision has to show.
LEMMA RowsAdvance ==
  ASSUME IInv, TableInv(runs'), UNCHANGED decisions,
         \A r \in Rows(runs) : runs'[r] # None /\ Follows(runs'[r], runs[r]),
         \A r \in Rows(runs') : r \in Rows(runs) \/ runs'[r].result = None
  PROVE  OneDecisionPerSession' /\ Owned' /\ RowsStep
<1>1. OneDecisionPerSession'
  BY DEF IInv, OneDecisionPerSession
<1>2. ASSUME NEW r \in Rows(runs'), runs'[r].result # None
      PROVE  LET d == decisions'[runs'[r].result] IN
             /\ d # None /\ d.portfolio = runs'[r].portfolio
             /\ runs'[r].scheduled_for # None => d.session = runs'[r].scheduled_for
  <2>1. r \in Rows(runs) /\ SameWork(runs'[r], runs[r])
    BY <1>2 DEF Follows
  <2>2. QED
    BY <1>2, <2>1 DEF IInv, Owned, SameWork
<1>3. Owned'
  BY <1>2 DEF Owned
<1>4. RowsStep
  BY DEF RowsStep, StepForm, Progress
<1>5. QED
  BY <1>1, <1>3, <1>4

\* A step that leaves both tables alone.
LEMMA QuietStep ==
  ASSUME IInv, UNCHANGED <<runs, decisions>>
  PROVE  TableInv(runs') /\ OneDecisionPerSession' /\ Owned' /\ RowsStep
<1>1. TableInv(runs')
  BY DEF IInv
<1>2. \A r \in Rows(runs) : runs'[r] # None /\ Follows(runs'[r], runs[r])
  BY FollowsReflexive DEF IInv, TableInv, Rows
<1>3. Rows(runs') = Rows(runs)
  BY DEF Rows
<1>4. QED
  BY <1>1, <1>2, <1>3, RowsAdvance

\* A step that only advances the runs table.
LEMMA AdvanceStep ==
  ASSUME IInv, Advances(runs, runs'), UNCHANGED decisions
  PROVE  TableInv(runs') /\ OneDecisionPerSession' /\ Owned' /\ RowsStep
<1>1. TableInv(runs')
  BY AdvanceKeepsInv DEF IInv
<1>2. \A r \in Rows(runs) : runs'[r] # None /\ Follows(runs'[r], runs[r])
  BY DEF Advances, Rows
<1>3. Rows(runs') = Rows(runs)
  BY DEF Advances, Rows
<1>4. QED
  BY <1>1, <1>2, <1>3, RowsAdvance

\* Erasing rows and decisions, when no row that stays has an erased result.
LEMMA EraseStep ==
  ASSUME IInv, NEW R, NEW D, Erase(R, D),
         \A r \in Rows(runs) : r \notin R => runs[r].result \notin D
  PROVE  TableInv(runs') /\ OneDecisionPerSession' /\ Owned' /\ RowsStep
<1>1. TableInv(runs')
  BY EraseKeepsTable DEF IInv, Erase
<1>2. OneDecisionPerSession'
  BY DEF IInv, Erase, OneDecisionPerSession
<1>3. \A r \in Run : runs'[r] = None \/ (r \in Rows(runs) /\ runs'[r] = runs[r] /\ r \notin R)
  BY DEF Erase, Rows
<1>4. RowsStep
  <2>1. Erasing(R, D)
    BY DEF Erasing
  <2>2. StepForm
    BY <2>1 DEF StepForm
  <2>3. QED
    BY <1>3, <2>2, FollowsReflexive DEF RowsStep, IInv, TableInv, Rows
<1>5. ASSUME NEW r \in Rows(runs'), runs'[r].result # None
      PROVE  LET d == decisions'[runs'[r].result] IN
             /\ d # None /\ d.portfolio = runs'[r].portfolio
             /\ runs'[r].scheduled_for # None => d.session = runs'[r].scheduled_for
  <2>1. r \in Rows(runs) /\ runs'[r] = runs[r] /\ runs[r].result \notin D
    BY <1>3 DEF Rows
  <2>2. runs[r].result \in Decision
    BY <1>5, <2>1 DEF IInv, TableInv, Sound, RunRow
  <2>3. decisions'[runs[r].result] = decisions[runs[r].result]
    BY <2>1, <2>2 DEF Erase
  <2>4. QED
    BY <1>5, <2>1, <2>3 DEF IInv, Owned
<1>6. QED
  BY <1>1, <1>2, <1>4, <1>5 DEF Owned

\* A new decision for a session without a result.
LEMMA FreshDecision ==
  ASSUME IInv, NEW p \in Portfolio, NEW s \in Session, ~HasResult(p, s),
         NEW d \in Decision, decisions[d] = None,
         decisions' = [decisions EXCEPT ![d] = [portfolio |-> p, session |-> s]]
  PROVE  /\ decisions' \in [Decision -> DecisionRow \cup {None}]
         /\ decisions'[d] = [portfolio |-> p, session |-> s] /\ decisions'[d] # None
         /\ \A e \in Decision : e # d => decisions'[e] = decisions[e]
         /\ OneDecisionPerSession'
         /\ \A r \in Rows(runs) : runs[r].result # d
<1>1. /\ decisions' \in [Decision -> DecisionRow \cup {None}]
      /\ decisions'[d] = [portfolio |-> p, session |-> s]
      /\ \A e \in Decision : e # d => decisions'[e] = decisions[e]
  BY DEF IInv, TypeOK, DecisionRow
<1>2. decisions'[d] # None
  BY <1>1, SentinelAssumption DEF DecisionRow
<1>3. \A e \in Decision : decisions[e] # [portfolio |-> p, session |-> s]
  BY DEF HasResult
<1>4. OneDecisionPerSession'
  BY <1>1, <1>3 DEF IInv, OneDecisionPerSession
<1>5. \A r \in Rows(runs) : runs[r].result # d
  BY SentinelAssumption DEF IInv, Owned
<1>6. QED
  BY <1>1, <1>2, <1>4, <1>5

\* The record kept of a pending call has the fields its operation uses.
LEMMA CallTypes ==
  ASSUME TypeOK, NEW c \in calls
  PROVE  /\ c.op = "claim" => c \in ClaimCall
         /\ c.op = "manual" => c \in ManualCall
         /\ c.op = "retry" => c \in RetryCall
         /\ c.op = "enable" => c \in EnableCall
         /\ c.op = "submit" => c \in SubmitCall
<1>1. c \in Call
  BY DEF TypeOK
<1>2. QED
  BY <1>1 DEF Call, ClaimCall, ManualCall, RetryCall, EnableCall, SubmitCall

\* A call's first reads are a record of the declared type.
LEMMA ReadsType ==
  ASSUME TypeOK, NEW S
  PROVE  ReadsOf(S) \in Reads
<1> DEFINE loaded == {VersionOf[p] : p \in Valued \cap S}
<1>2. loaded \in SUBSET ShortVersions
  BY DEF Valued, ShortVersions
<1> HIDE DEF loaded
<1>3. [at |-> now, liq |-> liquidated \cap S, loaded |-> loaded,
       on |-> loaded \cap evaluating] \in Reads
  BY <1>2 DEF TypeOK, Reads
<1>4. QED
  BY <1>3 DEF ReadsOf, loaded

\* TypeOK after a step that leaves the tables to TableInv and the switches alone.
LEMMA TypeStep ==
  ASSUME TypeOK, TableInv(runs'), UNCHANGED <<enabled, max_concurrency>>,
         automation' \subseteq Portfolio, evaluating' \subseteq Version,
         decisions' \in [Decision -> DecisionRow \cup {None}],
         now' \in Time, liquidated' \subseteq ShortManaged, calls' \subseteq Call
  PROVE  TypeOK'
  BY DEF TypeOK, TableInv, Table

StepOK == IInv' /\ RowsStep

-----------------------------------------------------------------------------
(* One lemma per group of actions: IInv is inductive and every step respects  *)
(* RowsStep.                                                                  *)

\* The market, the clock, the settings and every first read leave both tables alone.
LEMMA QuietActions ==
  ASSUME IInv,
         \/ Tick
         \/ \E p \in Portfolio : Liquidate(p) \/ BeginEnable(p)
         \/ \E P \in SUBSET Portfolio : BeginManual(P)
         \/ \E on \in BOOLEAN, n \in 1..MaxConcurrency : UpdateSettings(on, n)
         \/ \E v \in Version : ResumeVersion(v)
         \/ \E r \in Run : BeginRetry(r) \/ BeginSubmit(r)
         \/ \E h \in Harness : BeginClaim(h)
         \/ \E c \in calls : c.op = "enable" /\ EnableAutomation(c)
  PROVE  StepOK
<1>1. UNCHANGED <<runs, decisions>>
  BY DEF Tick, Liquidate, BeginEnable, BeginManual, UpdateSettings, ResumeVersion,
         BeginRetry, BeginSubmit, BeginClaim, EnableAutomation, switches
<1>2. TypeOK
  BY DEF IInv
<1>3. TypeOK'
  <2>1. CASE Tick
    BY <1>2, <2>1, ConstantsAssumption DEF Tick, TypeOK, Time, switches
  <2>2. ASSUME NEW p \in Portfolio, Liquidate(p) PROVE TypeOK'
    BY <1>2, <2>2 DEF Liquidate, Valued, TypeOK, switches
  <2>3. ASSUME NEW p \in Portfolio, BeginEnable(p) PROVE TypeOK'
    <3>1. [op |-> "enable", portfolio |-> p] \in Call
      BY DEF Call, EnableCall
    <3>2. QED
      BY <1>2, <2>3, <3>1 DEF BeginEnable, TypeOK, switches
  <2>4. ASSUME NEW P \in SUBSET Portfolio, BeginManual(P) PROVE TypeOK'
    <3>1. [op |-> "manual", portfolios |-> P, reads |-> ReadsOf(P)] \in Call
      BY <1>2, ReadsType DEF Call, ManualCall
    <3>2. QED
      BY <1>2, <2>4, <3>1 DEF BeginManual, TypeOK, switches
  <2>5. ASSUME NEW on \in BOOLEAN, NEW n \in 1..MaxConcurrency, UpdateSettings(on, n)
        PROVE  TypeOK'
    BY <1>2, <2>5 DEF UpdateSettings, TypeOK
  <2>6. ASSUME NEW v \in Version, ResumeVersion(v) PROVE TypeOK'
    BY <1>2, <2>6 DEF ResumeVersion, TypeOK
  <2>7. ASSUME NEW r \in Run, BeginRetry(r) PROVE TypeOK'
    <3>1. [op |-> "retry", run |-> r, at |-> now] \in Call
      BY <1>2 DEF TypeOK, Call, RetryCall
    <3>2. QED
      BY <1>2, <2>7, <3>1 DEF BeginRetry, TypeOK, switches
  <2>8. ASSUME NEW r \in Run, BeginSubmit(r) PROVE TypeOK'
    <3> DEFINE sent == [op |-> "submit", run |-> r, attempt |-> runs[r].attempt_count,
                        at |-> now,
                        liquidated |-> runs[r].status \in Leased
                                         /\ runs[r].portfolio \in liquidated]
    <3>1. runs[r].attempt_count \in 0..MaxAttempts /\ runs[r].attempt_count > 0
      BY <2>8 DEF BeginSubmit, With, IInv, TableInv, Sound, RunRow
    <3>2. runs[r].attempt_count \in 1..MaxAttempts /\ now \in Time
      BY <1>2, <3>1, ConstantsAssumption DEF TypeOK
    <3>3. sent \in Call
      BY <3>2, Zenon DEF Call, SubmitCall
    <3>4. calls' = calls \cup {sent}
      BY <2>8 DEF BeginSubmit
    <3> HIDE DEF sent
    <3>5. QED
      BY <1>2, <2>8, <3>3, <3>4 DEF BeginSubmit, TypeOK, switches
  <2>9. ASSUME NEW h \in Harness, BeginClaim(h) PROVE TypeOK'
    <3>1. [op |-> "claim", harness |-> h, reads |-> ReadsOf(automation)] \in Call
      BY <1>2, ReadsType DEF Call, ClaimCall
    <3>2. QED
      BY <1>2, <2>9, <3>1 DEF BeginClaim, TypeOK, switches
  <2>10. ASSUME NEW c \in calls, c.op = "enable", EnableAutomation(c) PROVE TypeOK'
    <3>1. c.portfolio \in Portfolio
      BY <1>2, <2>10, CallTypes DEF EnableCall
    <3>2. QED
      BY <1>2, <2>10, <3>1 DEF EnableAutomation, TypeOK
  <2>11. QED
    BY <2>1, <2>2, <2>3, <2>4, <2>5, <2>6, <2>7, <2>8, <2>9, <2>10
<1>4. QED
  BY <1>1, <1>3, QuietStep DEF StepOK, IInv

\* Pausing a version or a portfolio only cancels queued rows.
LEMMA PauseActions ==
  ASSUME IInv,
         \/ \E v \in Version : PauseVersion(v)
         \/ \E p \in Portfolio : DisableAutomation(p)
  PROVE  StepOK
<1>1. With(runs, {"queued"}) \subseteq With(runs, Active)
  BY DEF With, Active
<1>2. TypeOK /\ TableInv(runs)
  BY DEF IInv
<1>3. Advances(runs, runs')
  <2>1. ASSUME NEW v \in Version, PauseVersion(v) PROVE Advances(runs, runs')
    <3>1. QueuedOfVersion(v) \subseteq With(runs, Active)
      BY <1>1 DEF QueuedOfVersion
    <3>2. QED
      BY <1>2, <2>1, <3>1, CancelRowsAdvances DEF PauseVersion
  <2>2. ASSUME NEW p \in Portfolio, DisableAutomation(p) PROVE Advances(runs, runs')
    <3>1. PICK locked \in SUBSET Rows(runs) :
            runs' = CancelRows(runs, {r \in With(runs, {"queued"}) \ locked :
                                        runs[r].portfolio = p})
      BY <2>2 DEF DisableAutomation
    <3>2. {r \in With(runs, {"queued"}) \ locked : runs[r].portfolio = p}
            \subseteq With(runs, Active)
      BY <1>1
    <3>3. QED
      BY <1>2, <3>1, <3>2, CancelRowsAdvances
  <2>3. QED
    BY <2>1, <2>2
<1>4. /\ UNCHANGED <<enabled, max_concurrency, decisions, now, liquidated, calls>>
      /\ automation' \subseteq Portfolio /\ evaluating' \subseteq Version
  BY <1>2 DEF PauseVersion, DisableAutomation, TypeOK
<1>5. TableInv(runs') /\ OneDecisionPerSession' /\ Owned' /\ RowsStep
  BY <1>3, <1>4, AdvanceStep
<1>6. TypeOK'
  BY <1>2, <1>4, <1>5 DEF TypeOK, TableInv, Table
<1>7. QED
  BY <1>5, <1>6 DEF StepOK, IInv

\* Inserting a run by hand, or the refusal of it.
LEMMA InsertStep ==
  ASSUME IInv, NEW p \in Portfolio, NEW s \in Session \cup {None}, ActiveRuns(runs, p) = {},
         InsertRun(NewRun(p, FALSE, s)), UNCHANGED decisions
  PROVE  TableInv(runs') /\ OneDecisionPerSession' /\ Owned' /\ RowsStep
<1>1. PICK r \in Run \ Rows(runs) : runs' = [runs EXCEPT ![r] = NewRun(p, FALSE, s)]
  BY DEF InsertRun
<1>2. TableInv(runs) /\ runs \in Table
  BY DEF IInv, TableInv
<1>3. TableInv(runs')
  BY <1>1, <1>2, InsertKeepsInv
<1>4. \A q \in Rows(runs) : runs'[q] = runs[q]
  BY <1>1, <1>2 DEF Table, Rows
<1>5. \A q \in Rows(runs) : runs'[q] # None /\ Follows(runs'[q], runs[q])
  BY <1>2, <1>4, FollowsReflexive DEF TableInv, Rows
<1>6. NewRun(p, FALSE, s).result = None
  BY DEF NewRun
<1>7. \A q \in Rows(runs') : q \in Rows(runs) \/ runs'[q].result = None
  BY <1>1, <1>2, <1>6 DEF Table, Rows
<1>8. QED
  BY <1>3, <1>5, <1>7, RowsAdvance

\* Work created by hand.
LEMMA ManualActions ==
  ASSUME IInv, NEW c \in calls,
         (c.op = "manual" /\ EnqueueManual(c)) \/ (c.op = "retry" /\ RetryRun(c))
  PROVE  StepOK
<1>1. TypeOK /\ TableInv(runs)
  BY DEF IInv
<1>2. UNCHANGED <<switches, decisions, now, liquidated>> /\ calls' \subseteq Call
  BY <1>1 DEF EnqueueManual, RetryRun, TypeOK
<1>3. TableInv(runs') /\ OneDecisionPerSession' /\ Owned' /\ RowsStep
  <2>1. CASE UNCHANGED runs
    BY <1>2, <2>1, QuietStep
  <2>2. CASE c.op = "manual" /\ EnqueueManual(c)
    <3> DEFINE P == Accepted(c)
               none == [p \in P |-> None]
    <3>1. P \in SUBSET Portfolio /\ \A p \in P : ActiveRuns(runs, p) = {}
      BY <1>1, <2>2, CallTypes DEF ManualCall, Accepted
    <3>2. PICK slot \in Placements(runs, P) : runs' = Inserted(runs, slot, FALSE, none)
      BY <2>2 DEF EnqueueManual, Placements
    <3>3. none \in [P -> Session \cup {None}]
      OBVIOUS
    <3> HIDE DEF P, none
    <3>4. TableInv(runs')
      BY <1>1, <3>1, <3>2, <3>3, InsertedKeepsInv
    <3>5. /\ \A p \in P : /\ slot[p] \in Run \ Rows(runs)
                          /\ runs'[slot[p]] = NewRun(p, FALSE, none[p])
          /\ \A r \in Run : (\E p \in P : r = slot[p]) \/ runs'[r] = runs[r]
      <4> DEFINE hand == FALSE
      <4>1. hand \in BOOLEAN /\ runs' = Inserted(runs, slot, hand, none)
        BY <3>2
      <4> HIDE DEF hand
      <4>2. /\ \A p \in P : /\ slot[p] \in Run \ Rows(runs)
                            /\ runs'[slot[p]] = NewRun(p, hand, none[p])
            /\ \A r \in Run : (\E p \in P : r = slot[p]) \/ runs'[r] = runs[r]
        BY <4>1, InsertedRows
      <4>3. QED
        BY <4>2 DEF hand
    <3>6. \A q \in Rows(runs) : runs'[q] # None /\ Follows(runs'[q], runs[q])
      BY <1>1, <3>5, FollowsReflexive DEF TableInv, Rows
    <3>7. \A q \in Rows(runs') : q \in Rows(runs) \/ runs'[q].result = None
      <4> SUFFICES ASSUME NEW q \in Rows(runs')
                   PROVE  q \in Rows(runs) \/ runs'[q].result = None
        OBVIOUS
      <4>1. CASE \E p \in P : q = slot[p]
        <5>1. PICK p \in P : q = slot[p]
          BY <4>1
        <5>2. NewRun(p, FALSE, none[p]).result = None
          BY DEF NewRun
        <5>3. QED
          BY <3>5, <5>1, <5>2
      <4>2. QED
        BY <3>5, <4>1 DEF Rows
    <3>8. QED
      BY <1>2, <3>4, <3>6, <3>7, RowsAdvance
  <2>3. CASE c.op = "retry" /\ RetryRun(c) /\ MayRetry(c)
    <3>1. c.run \in Rows(runs) /\ ActiveRuns(runs, runs[c.run].portfolio) = {}
      BY <2>3 DEF MayRetry, With
    <3>2. /\ runs[c.run].portfolio \in Portfolio
          /\ runs[c.run].scheduled_for \in Session \cup {None}
      BY <1>1, <3>1 DEF TableInv, Sound, RunRow
    <3>3. InsertRun(NewRun(runs[c.run].portfolio, FALSE, runs[c.run].scheduled_for))
      BY <2>3 DEF RetryRun
    <3>4. QED
      BY <1>2, <3>1, <3>2, <3>3, InsertStep
  <2>4. QED
    BY <2>1, <2>2, <2>3 DEF EnqueueManual, RetryRun
<1>4. TypeOK'
  BY <1>1, <1>2, <1>3 DEF TypeOK, TableInv, Table, switches
<1>5. QED
  BY <1>3, <1>4 DEF StepOK, IInv

\* A poll, whatever rows each of its queries finds locked.
LEMMA ClaimActions ==
  ASSUME IInv, NEW c \in calls, c.op = "claim", ClaimRuns(c)
  PROVE  StepOK
<1>1. TypeOK /\ TableInv(runs)
  BY DEF IInv
<1>2. c.reads \in Reads
  BY <1>1, CallTypes DEF ClaimCall
<1>3. PICK seen \in Sightings : Claim(c, seen)
  BY DEF ClaimRuns
<1>4. UNCHANGED <<switches, decisions, now, liquidated>> /\ calls' = calls \ {c}
  BY <1>3 DEF Claim
<1>5. TableInv(runs') /\ OneDecisionPerSession' /\ Owned' /\ RowsStep
  <2>1. /\ TableInv(runs')
        /\ \A r \in Rows(runs) : runs'[r] # None /\ Follows(runs'[r], runs[r])
        /\ \A r \in Rows(runs') : r \in Rows(runs) \/ runs'[r].result = None
    BY <1>1, <1>2, <1>3, ClaimKeepsTable
  <2>2. QED
    BY <1>4, <2>1, RowsAdvance
<1>6. TypeOK'
  BY <1>1, <1>4, <1>5 DEF TypeOK, TableInv, Table, switches
<1>7. QED
  BY <1>5, <1>6 DEF StepOK, IInv

\* Ending a run without a result, as a submission does for cancelled or
\* superseded work.
LEMMA EndStep ==
  ASSUME IInv, NEW r \in Rows(runs), NEW s \in {"cancelled", "skipped"},
         runs[r].status \in Active, runs[r].status = "cancel_requested" => s = "cancelled",
         EndRun(r, s, None)
  PROVE  Advances(runs, runs')
<1>1. TableInv(runs) /\ Sound(runs[r]) /\ runs \in Table /\ runs[r] \in RunRow /\ r \in Run
  BY DEF IInv, TableInv, Sound, Rows
<1> DEFINE new == [runs[r] EXCEPT !.status = s, !.lease = None]
<1>2. runs[r].result = None
  BY <1>1 DEF Sound, Active
<1>3. runs' = [runs EXCEPT ![r] = [runs[r] EXCEPT !.status = s, !.lease = None, !.result = None]]
  BY <1>1 DEF EndRun, Table
<1>4. [runs[r] EXCEPT !.status = s, !.lease = None, !.result = None] = new
  BY <1>1, <1>2 DEF RunRow
<1>5. Follows(new, runs[r])
  BY <1>1, EndedRow
<1> HIDE DEF new
<1>6. runs' = [runs EXCEPT ![r] = new]
  BY <1>3, <1>4
<1>7. QED
  BY <1>1, <1>5, <1>6, ChangeAdvances

\* Recording a result: the decision is new, so it is nobody else's result.
LEMMA RecordStep ==
  ASSUME IInv, NEW c \in SubmitCall, SubmitRecorded(c)
  PROVE  /\ TableInv(runs') /\ OneDecisionPerSession' /\ Owned' /\ RowsStep
         /\ decisions' \in [Decision -> DecisionRow \cup {None}]
<1> DEFINE row == runs[c.run]
           s == Target(row, c.at)
<1>1. c.run \in Rows(runs) /\ row.status = "running" /\ ~HasResult(row.portfolio, s)
  BY DEF SubmitRecorded, InLease, IsCurrent
<1>2. PICK d \in Decision :
        /\ decisions[d] = None
        /\ decisions' = [decisions EXCEPT ![d] = [portfolio |-> row.portfolio, session |-> s]]
        /\ EndRun(c.run, "succeeded", d)
  BY DEF SubmitRecorded
<1>3. TableInv(runs) /\ runs \in Table /\ row \in RunRow /\ c.run \in Run /\ row.portfolio \in Portfolio
  BY <1>1 DEF IInv, TableInv, Sound, Rows, RunRow
<1>4. s \in Session /\ (row.scheduled_for # None => s = row.scheduled_for)
  <2>1. c.at \in Time
    BY DEF SubmitCall
  <2>2. EffectiveDateFor(row.portfolio, c.at) \in Session
    BY <1>3, <2>1, EffectiveDateIsFirst
  <2>3. QED
    BY <1>3, <2>2 DEF Target, RunRow
<1> HIDE DEF s
<1>5. /\ decisions' \in [Decision -> DecisionRow \cup {None}]
      /\ decisions'[d] = [portfolio |-> row.portfolio, session |-> s] /\ decisions'[d] # None
      /\ \A e \in Decision : e # d => decisions'[e] = decisions[e]
      /\ OneDecisionPerSession'
      /\ \A r \in Rows(runs) : runs[r].result # d
  BY <1>1, <1>2, <1>3, <1>4, FreshDecision
<1>6. runs' = [runs EXCEPT ![c.run].status = "succeeded", ![c.run].lease = None, ![c.run].result = d]
  BY <1>2 DEF EndRun
<1>7. TableInv(runs')
  <2>1. row.status \in Active
    BY <1>1 DEF Active
  <2>2. QED
    BY <1>1, <1>3, <1>5, <1>6, <2>1, SucceedKeepsTable
<1>8. /\ runs'[c.run].result = d /\ runs'[c.run].portfolio = row.portfolio
      /\ runs'[c.run].scheduled_for = row.scheduled_for /\ runs'[c.run].status = "succeeded"
  BY <1>3, <1>6 DEF Table, RunRow
<1>9. \A r \in Run : r # c.run => runs'[r] = runs[r]
  BY <1>3, <1>6 DEF Table
<1>10. ASSUME NEW r \in Rows(runs'), runs'[r].result # None
       PROVE  LET e == decisions'[runs'[r].result] IN
              /\ e # None /\ e.portfolio = runs'[r].portfolio
              /\ runs'[r].scheduled_for # None => e.session = runs'[r].scheduled_for
  <2>1. CASE r = c.run
    BY <1>4, <1>5, <1>8, <2>1
  <2>2. CASE r # c.run
    <3>1. r \in Rows(runs) /\ runs'[r] = runs[r]
      BY <1>9, <2>2 DEF Rows
    <3>2. runs[r].result \in Decision /\ runs[r].result # d
      BY <1>5, <1>10, <3>1 DEF IInv, TableInv, Sound, RunRow
    <3>3. QED
      BY <1>5, <1>10, <3>1, <3>2 DEF IInv, Owned
  <2>3. QED
    BY <2>1, <2>2
<1>11. RowsStep
  <2>1. ASSUME NEW r \in Rows(runs), r # c.run PROVE Follows(runs'[r], runs[r])
    BY <1>3, <1>9, <2>1, FollowsReflexive DEF TableInv, Rows
  <2>2. Recording(c.run, d, s)
    BY <1>1, <1>2, <1>4 DEF Recording, NewDecision
  <2>3. StepForm
    BY <1>1, <1>4, <2>2 DEF StepForm
  <2>4. QED
    BY <1>1, <1>8, <2>1, <2>3 DEF RowsStep
<1>12. QED
  BY <1>5, <1>7, <1>10, <1>11 DEF Owned

\* Every outcome of a submission.
LEMMA SubmitActions ==
  ASSUME IInv, NEW c \in calls, c.op = "submit", SubmitRun(c)
  PROVE  StepOK
<1>1. TypeOK /\ TableInv(runs) /\ c \in SubmitCall
  BY CallTypes DEF IInv
<1>2. UNCHANGED <<switches, now, liquidated>> /\ calls' = calls \ {c}
  BY DEF SubmitRun
<1>3. CASE SubmitRefused(c)
  <2>1. UNCHANGED <<runs, decisions>>
    BY <1>3 DEF SubmitRefused
  <2>2. TableInv(runs') /\ OneDecisionPerSession' /\ Owned' /\ RowsStep
    BY <2>1, QuietStep
  <2>3. QED
    BY <1>1, <1>2, <2>1, <2>2 DEF StepOK, IInv, TypeOK, TableInv, Table, switches
<1>4. CASE SubmitCancelled(c) \/ SubmitSkipped(c)
  <2>1. /\ c.run \in Rows(runs) /\ runs[c.run].status \in Active
        /\ UNCHANGED decisions
        /\ \E s \in {"cancelled", "skipped"} :
             /\ runs[c.run].status = "cancel_requested" => s = "cancelled"
             /\ EndRun(c.run, s, None)
    BY <1>4 DEF SubmitCancelled, SubmitSkipped, InLease, IsCurrent, Active
  <2>2. Advances(runs, runs')
    BY <2>1, EndStep
  <2>3. TableInv(runs') /\ OneDecisionPerSession' /\ Owned' /\ RowsStep
    BY <2>1, <2>2, AdvanceStep
  <2>4. QED
    BY <1>1, <1>2, <2>1, <2>3 DEF StepOK, IInv, TypeOK, TableInv, Table, switches
<1>5. CASE SubmitRecorded(c)
  <2>1. /\ TableInv(runs') /\ OneDecisionPerSession' /\ Owned' /\ RowsStep
        /\ decisions' \in [Decision -> DecisionRow \cup {None}]
    BY <1>1, <1>5, RecordStep
  <2>2. QED
    BY <1>1, <1>2, <2>1 DEF StepOK, IInv, TypeOK, TableInv, Table, switches
<1>6. QED
  BY <1>3, <1>4, <1>5 DEF SubmitRun

\* A reported failure or a cancellation changes one row, to one that follows it.
LEMMA RowActions ==
  ASSUME IInv, NEW r \in Run, FailRun(r) \/ CancelRun(r)
  PROVE  StepOK
<1>1. UNCHANGED <<switches, decisions, now, liquidated, calls>>
  BY DEF FailRun, CancelRun
<1>2. TypeOK /\ TableInv(runs) /\ runs \in Table
  BY DEF IInv, TableInv
<1>3. r \in Rows(runs) /\ Sound(runs[r]) /\ runs[r] \in RunRow /\ runs[r].status \in Active
  BY <1>2 DEF FailRun, CancelRun, With, Active, TableInv, Sound
<1>4. Advances(runs, runs')
  <2>1. CASE FailRun(r)
    <3> DEFINE new == [runs[r] EXCEPT !.status = AfterFailure(runs[r]), !.lease = None]
    <3>1. runs' = [runs EXCEPT ![r] = new]
      BY <1>2, <1>3, <2>1 DEF FailRun, Table, Rows
    <3>2. Follows(new, runs[r])
      <4>1. CASE runs[r].status = "cancel_requested"
        <5>1. AfterFailure(runs[r]) = "cancelled"
          BY <4>1 DEF AfterFailure
        <5>2. QED
          BY <1>3, <4>1, <5>1, EndedRow
      <4>2. CASE /\ runs[r].status # "cancel_requested" /\ runs[r].attempt_count < MaxAttempts
                 /\ enabled /\ AutomationEnabled(runs[r].portfolio)
        <5>1. runs[r].status \in {"queued", "running"} /\ AfterFailure(runs[r]) = "queued"
          BY <1>3, <4>2 DEF Active, AfterFailure
        <5>2. QED
          BY <1>3, <4>2, <5>1, RequeuedRow
      <4>3. CASE /\ runs[r].status # "cancel_requested"
                 /\ ~(/\ runs[r].attempt_count < MaxAttempts
                      /\ enabled /\ AutomationEnabled(runs[r].portfolio))
        <5>1. AfterFailure(runs[r]) = "failed"
          BY <4>3 DEF AfterFailure
        <5>2. QED
          BY <1>3, <4>3, <5>1, EndedRow
      <4>4. QED
        BY <4>1, <4>2, <4>3
    <3> HIDE DEF new
    <3>3. QED
      BY <1>2, <1>3, <3>1, <3>2, ChangeAdvances
  <2>2. CASE CancelRun(r)
    <3>1. PICK s \in {"cancelled", "cancel_requested"} :
            /\ runs' = [runs EXCEPT ![r].status = s]
            /\ s = "cancel_requested" => runs[r].status = "running"
      BY <2>2 DEF CancelRun, With
    <3> DEFINE new == [runs[r] EXCEPT !.status = s]
    <3>2. Follows(new, runs[r])
      BY <1>3, <3>1, CancelledRow, RequestedRow
    <3>3. runs' = [runs EXCEPT ![r] = new]
      BY <1>2, <1>3, <3>1 DEF Table, Rows
    <3> HIDE DEF new
    <3>4. QED
      BY <1>2, <1>3, <3>2, <3>3, ChangeAdvances
  <2>3. QED
    BY <2>1, <2>2
<1>5. TableInv(runs') /\ OneDecisionPerSession' /\ Owned' /\ RowsStep
  BY <1>1, <1>4, AdvanceStep
<1>6. QED
  BY <1>1, <1>2, <1>5 DEF StepOK, IInv, TypeOK, TableInv, Table, switches

\* A decision entered by hand.
LEMMA CreateActions ==
  ASSUME IInv, NEW p \in Portfolio, CreateDecision(p)
  PROVE  StepOK
<1> DEFINE s == EffectiveDateFor(p, now)
<1>1. TypeOK /\ TableInv(runs) /\ UNCHANGED <<switches, runs, now, liquidated, calls>>
  BY DEF IInv, CreateDecision
<1>2. s \in Session
  BY <1>1, EffectiveDateIsFirst DEF TypeOK
<1>3. ~HasResult(p, s) /\ \E d \in Decision :
        /\ decisions[d] = None
        /\ decisions' = [decisions EXCEPT ![d] = [portfolio |-> p, session |-> s]]
  BY DEF CreateDecision
<1> HIDE DEF s
<1>4. PICK d \in Decision :
        /\ decisions' \in [Decision -> DecisionRow \cup {None}]
        /\ \A e \in Decision : e # d => decisions'[e] = decisions[e]
        /\ OneDecisionPerSession'
        /\ \A r \in Rows(runs) : runs[r].result # d
        /\ NewDecision(d, p, s)
  <2>1. PICK d \in Decision :
          /\ decisions[d] = None
          /\ decisions' = [decisions EXCEPT ![d] = [portfolio |-> p, session |-> s]]
    BY <1>3
  <2>2. /\ decisions' \in [Decision -> DecisionRow \cup {None}]
        /\ \A e \in Decision : e # d => decisions'[e] = decisions[e]
        /\ OneDecisionPerSession'
        /\ \A r \in Rows(runs) : runs[r].result # d
    BY <1>2, <1>3, <2>1, FreshDecision
  <2>3. NewDecision(d, p, s)
    BY <1>3, <2>1 DEF NewDecision
  <2>4. QED
    BY <2>2, <2>3
<1>5. TypeOK'
  BY <1>1, <1>4 DEF TypeOK, switches
<1>6. ASSUME NEW r \in Rows(runs'), runs'[r].result # None
      PROVE  LET e == decisions'[runs'[r].result] IN
             /\ e # None /\ e.portfolio = runs'[r].portfolio
             /\ runs'[r].scheduled_for # None => e.session = runs'[r].scheduled_for
  <2>1. r \in Rows(runs) /\ runs'[r] = runs[r]
    BY <1>1 DEF Rows
  <2>2. runs[r].result \in Decision /\ runs[r].result # d
    BY <1>1, <1>4, <1>6, <2>1 DEF TableInv, Sound, RunRow
  <2>3. QED
    BY <1>4, <1>6, <2>1, <2>2 DEF IInv, Owned
<1>7. RowsStep
  <2>1. Entering(p, d, s)
    BY <1>1, <1>4 DEF Entering
  <2>2. StepForm
    BY <1>2, <2>1 DEF StepForm
  <2>3. QED
    BY <1>1, <2>2, FollowsReflexive DEF RowsStep, TableInv
<1>8. QED
  BY <1>1, <1>4, <1>5, <1>6, <1>7 DEF StepOK, IInv, Owned

\* Deleting a run with its decision, a decision with its run, or a whole history.
LEMMA DeleteActions ==
  ASSUME IInv,
         \/ \E r \in Run : DeleteRun(r)
         \/ \E d \in Decision : DeleteDecision(d)
         \/ \E p \in Portfolio : ResetPortfolio(p)
  PROVE  StepOK
<1>1. TypeOK /\ TableInv(runs) /\ Owned
  BY DEF IInv
<1> DEFINE Erased(R, D) ==
             /\ Erase(R, D)
             /\ \A r \in Rows(runs) : r \notin R => runs[r].result \notin D
             /\ \E p \in Portfolio : Revalued(p, D)
<1>2. \E R, D : Erased(R, D)
  <2>1. ASSUME NEW r \in Run, DeleteRun(r)
        PROVE  Erased({r}, {runs[r].result} \cap Decision)
    <3>1. r \in Rows(runs) /\ runs[r].portfolio \in Portfolio
      BY <1>1, <2>1 DEF DeleteRun, TableInv, Sound, RunRow
    <3>2. \A q \in Rows(runs) : runs[q].result # None /\ runs[q].result = runs[r].result => q = r
      BY <1>1, <3>1 DEF TableInv
    <3>3. QED
      BY <2>1, <3>1, <3>2, SentinelAssumption DEF DeleteRun
  <2>2. ASSUME NEW d \in Decision, DeleteDecision(d)
        PROVE  Erased({r \in Rows(runs) : runs[r].result = d}, {d})
    <3>1. decisions[d].portfolio \in Portfolio
      BY <1>1, <2>2 DEF DeleteDecision, TypeOK, DecisionRow
    <3>2. QED
      BY <2>2, <3>1 DEF DeleteDecision
  <2>3. ASSUME NEW p \in Portfolio, ResetPortfolio(p)
        PROVE  Erased({r \in Rows(runs) : runs[r].portfolio = p}, DecisionsOf(p))
    <3>1. \A q \in Rows(runs) : q \notin {r \in Rows(runs) : runs[r].portfolio = p}
            => runs[q].result \notin DecisionsOf(p)
      BY <1>1, SentinelAssumption DEF DecisionsOf, Owned
    <3>2. QED
      BY <2>3, <3>1 DEF ResetPortfolio
  <2> HIDE DEF Erased
  <2>4. QED
    BY <2>1, <2>2, <2>3
<1>3. TableInv(runs') /\ OneDecisionPerSession' /\ Owned' /\ RowsStep
  BY <1>2, EraseStep
<1>4. liquidated' \subseteq ShortManaged
  BY <1>1, <1>2 DEF Revalued, TypeOK
<1>5. TypeOK'
  BY <1>1, <1>2, <1>3, <1>4 DEF Erase, TypeOK, TableInv, Table, switches
<1>6. QED
  BY <1>3, <1>5 DEF StepOK, IInv

-----------------------------------------------------------------------------
(* Which steps start an attempt, and on which rows.  IInv says nothing of the *)
(* switches: what an attempt needs is shown of the step that starts it.       *)

\* The attempts row r has used before the step.
Before(r) == IF r \in Rows(runs) THEN runs[r].attempt_count ELSE 0

\* Work may wait for portfolio p: only the stale version row that the valuation of a
\* managed short of p's version loaded lets it wait while that version is paused.
MayWait(p) == VersionOf[p] \in evaluating \cup ShortVersions

\* What row r becomes in a step that does not start it.
Rests(row, r) ==
  /\ row.attempt_count = Before(r)
  /\ \/ r \in Rows(runs) /\ row = runs[r]
     \/ row.status = "queued" /\ MayWait(row.portfolio)
     \/ row.status \in Finished
     \/ /\ row.status = "cancel_requested" /\ r \in With(runs, {"running"})
        /\ row = [runs[r] EXCEPT !.status = "cancel_requested"]

\* What a claim leaves of a row it does not start: only work that waited, or
\* whose lease had run out by the poll's clock, is changed.
LeftByClaim(row, r, reads) ==
  /\ Rests(row, r)
  /\ r \in Rows(runs) /\ row # runs[r] => runs[r].status = "queued" \/ r \in Stale(runs, reads.at)

\* A row that a claim starts.
Claimed(c, r) ==
  LET row == runs'[r] IN
  /\ row.status = "running" /\ row.attempt_count = Before(r) + 1
  /\ row.lease = c.reads.at + LeaseLen
  /\ HarnessOf[row.portfolio] = c.harness
  /\ enabled /\ AutomationEnabled(row.portfolio)
  /\ \/ HeldByAnswer(r)
     \/ /\ row.portfolio \notin c.reads.liq
        /\ ~HasResult(row.portfolio, Target(row, c.reads.at))
  /\ r \in Rows(runs) => runs[r].status = "queued" \/ r \in Stale(runs, c.reads.at)

\* A row a claim has left so far, and then ends, is left by the claim.
LEMMA EndedIsLeft ==
  ASSUME NEW reads, NEW r, NEW row, LeftByClaim(row, r, reads), row.status = "queued",
         NEW new, new.attempt_count = row.attempt_count, new.status \in Finished
  PROVE  LeftByClaim(new, r, reads)
<1>1. new.attempt_count = Before(r)
  BY DEF LeftByClaim, Rests
<1>2. r \in Rows(runs) => runs[r].status = "queued" \/ r \in Stale(runs, reads.at)
  BY DEF LeftByClaim
<1>3. QED
  BY <1>1, <1>2 DEF LeftByClaim, Rests

\* Recovering expired leases leaves rows as a claim may.
LEMMA RecoverLeaves ==
  ASSUME TableInv(runs), NEW reads \in Reads, NEW free, NEW r \in Rows(runs)
  PROVE  LeftByClaim(RecoverStale(runs, free, reads)[r], r, reads)
<1> DEFINE row == RecoverStale(runs, free, reads)[r]
<1>1. r \in Run /\ runs[r] \in RunRow
  BY DEF Rows, TableInv, Sound
<1>2. CASE r \notin Stale(runs, reads.at) \cap free
  <2>1. row = runs[r]
    BY <1>1, <1>2 DEF RecoverStale
  <2>2. QED
    BY <2>1 DEF LeftByClaim, Rests, Before
<1>3. CASE r \in Stale(runs, reads.at) \cap free
  <2>1. row = AfterExpiry(runs[r], reads)
    BY <1>1, <1>3 DEF RecoverStale
  <2>2. row.attempt_count = runs[r].attempt_count /\ row.portfolio = runs[r].portfolio
    BY <1>1, <2>1 DEF AfterExpiry, RunRow
  <2>3. \/ row.status \in Finished
        \/ row.status = "queued" /\ AutomationSeen(row.portfolio, reads)
    BY <1>1, <2>1, <2>2 DEF AfterExpiry, RunRow, Finished, Active, Status
  <2>4. AutomationSeen(row.portfolio, reads) => MayWait(row.portfolio)
    BY DEF AutomationSeen, MayWait, Reads
  <2> HIDE DEF row
  <2>5. LeftByClaim(row, r, reads)
    BY <1>3, <2>2, <2>3, <2>4 DEF LeftByClaim, Rests, Before
  <2>6. QED
    BY <2>5 DEF row
<1>4. QED
  BY <1>2, <1>3

\* Cancelling queued rows leaves rows as a claim may, and no other status changes.
LEMMA CancelLeaves ==
  ASSUME NEW rt, TableInv(rt), NEW reads, NEW S, S \subseteq With(rt, {"queued"}),
         NEW r \in Rows(rt), LeftByClaim(rt[r], r, reads)
  PROVE  LET row == CancelRows(rt, S)[r] IN
         /\ LeftByClaim(row, r, reads)
         /\ row.status = "queued" => row = rt[r] /\ r \notin S
<1> DEFINE row == CancelRows(rt, S)[r]
<1>1. r \in Run /\ rt[r] \in RunRow
  BY DEF Rows, TableInv, Sound
<1>2. CASE r \notin S
  BY <1>1, <1>2 DEF CancelRows
<1>3. CASE r \in S
  <2>1. row = [rt[r] EXCEPT !.status = "cancelled"] /\ rt[r].status = "queued"
    BY <1>1, <1>3 DEF CancelRows, With
  <2>2. row.status = "cancelled" /\ row.attempt_count = rt[r].attempt_count
    BY <1>1, <2>1 DEF RunRow
  <2> HIDE DEF row
  <2>3. "cancelled" \in Finished
    BY DEF Finished, Status, Active
  <2>4. LeftByClaim(row, r, reads)
    BY <2>1, <2>2, <2>3, EndedIsLeft
  <2>5. QED
    BY <2>2, <2>4 DEF row
<1>4. QED
  BY <1>2, <1>3

\* Scheduling leaves the rows that were there and queues work where it may wait,
\* of portfolios the poll had not seen liquidated.
LEMMA EnqueueLeaves ==
  ASSUME NEW rt, TableInv(rt), Rows(rt) = Rows(runs), NEW reads \in Reads,
         NEW slot \in Placements(rt, NeedsScheduled(rt, reads)),
         NEW r \in Rows(EnqueueScheduled(rt, slot, reads)),
         r \in Rows(rt) => LeftByClaim(rt[r], r, reads)
  PROVE  LET row == EnqueueScheduled(rt, slot, reads)[r] IN
         /\ LeftByClaim(row, r, reads)
         /\ \/ r \in Rows(rt) /\ row = rt[r]
            \/ row.status = "queued" /\ row.portfolio \notin reads.liq
<1> DEFINE row == EnqueueScheduled(rt, slot, reads)[r]
           Needed == NeedsScheduled(rt, reads)
           session == [p \in Needed |-> EffectiveDateFor(p, reads.at)]
<1>1. r \in Run /\ row # None
  BY DEF Rows
<1>2. EnqueueScheduled(rt, slot, reads) = Inserted(rt, slot, TRUE, session)
  BY DEF EnqueueScheduled, Placements
<1>3. /\ \A p \in Needed : /\ slot[p] \in Run \ Rows(rt)
                           /\ Inserted(rt, slot, TRUE, session)[slot[p]] = NewRun(p, TRUE, session[p])
      /\ \A q \in Run : \/ \E p \in Needed : q = slot[p]
                        \/ Inserted(rt, slot, TRUE, session)[q] = rt[q]
  <2> DEFINE scheduled == TRUE
  <2>1. slot \in Placements(rt, Needed) /\ scheduled \in BOOLEAN
    OBVIOUS
  <2> HIDE DEF Needed, session, scheduled
  <2>2. /\ \A p \in Needed : /\ slot[p] \in Run \ Rows(rt)
                             /\ Inserted(rt, slot, scheduled, session)[slot[p]]
                                  = NewRun(p, scheduled, session[p])
        /\ \A q \in Run : \/ \E p \in Needed : q = slot[p]
                          \/ Inserted(rt, slot, scheduled, session)[q] = rt[q]
    BY <2>1, InsertedRows
  <2>3. QED
    BY <2>2 DEF scheduled
<1>4. CASE \E p \in Needed : r = slot[p]
  <2>1. PICK q \in Needed : r = slot[q]
    BY <1>4
  <2>2. r \notin Rows(runs) /\ row = NewRun(q, TRUE, session[q])
    BY <1>2, <1>3, <2>1
  <2>3. q \notin reads.liq /\ MayWait(q)
    BY <2>1 DEF NeedsScheduled, AutomationEnabled, MayWait
  <2>4. row.status = "queued" /\ row.attempt_count = 0 /\ row.portfolio = q
    BY <2>2 DEF NewRun
  <2> HIDE DEF row
  <2>5. LeftByClaim(row, r, reads) /\ row.status = "queued" /\ row.portfolio \notin reads.liq
    BY <2>2, <2>3, <2>4 DEF LeftByClaim, Rests, Before
  <2>6. QED
    BY <2>5 DEF row
<1>5. CASE ~ \E p \in Needed : r = slot[p]
  <2>1. row = rt[r]
    BY <1>1, <1>2, <1>3, <1>5
  <2>2. r \in Rows(rt)
    BY <1>1, <2>1 DEF Rows
  <2>3. QED
    BY <2>1, <2>2
<1>6. QED
  BY <1>4, <1>5

\* Skipping finished sessions leaves rows as a claim may; what it could see and
\* left queued has no result yet.
LEMMA SkipLeaves ==
  ASSUME NEW rt, TableInv(rt), NEW free, NEW reads \in Reads,
         NEW r \in Rows(rt), LeftByClaim(rt[r], r, reads)
  PROVE  LET row == SkipCompleted(rt, free, reads)[r] IN
         /\ LeftByClaim(row, r, reads)
         /\ row.status = "queued" =>
              row = rt[r] /\ (r \in free => ~HasResult(row.portfolio, Target(row, reads.at)))
<1> DEFINE row == SkipCompleted(rt, free, reads)[r]
           S == {q \in With(rt, {"queued"}) \cap free :
                   HasResult(rt[q].portfolio, Target(rt[q], reads.at))}
<1>1. r \in Run /\ rt[r] \in RunRow
  BY DEF Rows, TableInv, Sound
<1>2. CASE r \notin S
  <2>1. row = rt[r]
    BY <1>1, <1>2 DEF SkipCompleted
  <2>2. QED
    BY <1>2, <2>1 DEF With
<1>3. CASE r \in S
  <2>1. row = [rt[r] EXCEPT !.status = "skipped", !.lease = None] /\ rt[r].status = "queued"
    BY <1>1, <1>3 DEF SkipCompleted, With
  <2>2. row.status = "skipped" /\ row.attempt_count = rt[r].attempt_count
    BY <1>1, <2>1 DEF RunRow
  <2> HIDE DEF row
  <2>3. "skipped" \in Finished
    BY DEF Finished, Status, Active
  <2>4. LeftByClaim(row, r, reads)
    BY <2>1, <2>2, <2>3, EndedIsLeft
  <2>5. QED
    BY <2>2, <2>4 DEF row
<1>4. QED
  BY <1>2, <1>3

\* A claim starts the rows of one batch, each with cause, and leaves the others;
\* the batch fits beside the leased rows of the harness.
LEMMA ClaimRows ==
  ASSUME TableInv(runs), max_concurrency \in Nat,
         NEW c \in calls, c.reads \in Reads, NEW seen \in Sightings, Claim(c, seen)
  PROVE  \E S \in SUBSET Rows(runs') :
           /\ \A r \in S : Claimed(c, r)
           /\ \A r \in Rows(runs') \ S : LeftByClaim(runs'[r], r, c.reads)
           /\ S = {} \/ Cardinality(S) <= max_concurrency
                         - Cardinality(OfHarness(runs', Leased, c.harness) \ S)
<1> DEFINE recovered == RecoverStale(runs, FreeFor(1, seen), c.reads)
           checked == CancelDisabled(recovered, FreeFor(2, seen), c.reads)
           cleaned == CancelLiquidated(checked, FreeFor(3, seen), c.reads)
<1>1. PICK slot \in Placements(cleaned, NeedsScheduled(cleaned, c.reads)) :
        LET filled == EnqueueScheduled(cleaned, slot, c.reads)
            queue == SkipCompleted(filled, FreeFor(4, seen), c.reads)
        IN \E S \in Batches(queue, FreeFor(5, seen), c) : runs' = Start(queue, S, c.reads)
  BY DEF Claim
<1> DEFINE filled == EnqueueScheduled(cleaned, slot, c.reads)
           queue == SkipCompleted(filled, FreeFor(4, seen), c.reads)
<1>2. PICK S \in Batches(queue, FreeFor(5, seen), c) : runs' = Start(queue, S, c.reads)
  BY <1>1
<1> DEFINE free == FreeFor(1, seen)
<1>0. free \subseteq FreeFor(3, seen) /\ free \subseteq FreeFor(4, seen)
  BY DEF Sightings, FreeFor
<1>3. /\ TableInv(recovered) /\ Rows(recovered) = Rows(runs)
      /\ \A r \in Rows(runs) : LeftByClaim(recovered[r], r, c.reads)
  BY RecoverStaleAdvances, AdvanceKeepsInv, RecoverLeaves DEF Advances, Rows
<1>4. /\ TableInv(checked) /\ Rows(checked) = Rows(runs)
      /\ \A r \in Rows(runs) : LeftByClaim(checked[r], r, c.reads)
  <2> HIDE DEF recovered
  <2> DEFINE T == {r \in With(recovered, {"queued"}) \cap FreeFor(2, seen) :
                     ~AutomationSeen(recovered[r].portfolio, c.reads)}
  <2>1. checked = CancelRows(recovered, T)
    BY DEF CancelDisabled
  <2>2. T \subseteq With(recovered, {"queued"}) /\ T \subseteq With(recovered, Active)
    BY DEF With, Active
  <2> HIDE DEF T, checked
  <2>3. Advances(recovered, checked)
    BY <1>3, <2>1, <2>2, CancelRowsAdvances
  <2>4. TableInv(checked) /\ Rows(checked) = Rows(recovered)
    BY <1>3, <2>3, AdvanceKeepsInv DEF Advances, Rows
  <2>5. QED
    BY <1>3, <2>1, <2>2, <2>4, CancelLeaves
<1>5. /\ TableInv(cleaned) /\ Rows(cleaned) = Rows(runs)
      /\ \A r \in Rows(runs) :
           /\ LeftByClaim(cleaned[r], r, c.reads)
           /\ cleaned[r].status = "queued" /\ r \in free => cleaned[r].portfolio \notin c.reads.liq
  <2> HIDE DEF checked
  <2> DEFINE T == {r \in With(checked, {"queued"}) \cap FreeFor(3, seen) : checked[r].portfolio \in c.reads.liq}
  <2>1. cleaned = CancelRows(checked, T)
    BY DEF CancelLiquidated
  <2>2. T \subseteq With(checked, {"queued"}) /\ T \subseteq With(checked, Active)
    BY DEF With, Active
  <2>3. \A r \in Rows(checked) \cap free : checked[r].status = "queued" /\ r \notin T
          => checked[r].portfolio \notin c.reads.liq
    BY <1>0 DEF With
  <2> HIDE DEF T, cleaned, free
  <2>4. Advances(checked, cleaned)
    BY <1>4, <2>1, <2>2, CancelRowsAdvances
  <2>5. TableInv(cleaned) /\ Rows(cleaned) = Rows(checked)
    BY <1>4, <2>4, AdvanceKeepsInv DEF Advances, Rows
  <2>6. ASSUME NEW r \in Rows(checked)
        PROVE  /\ LeftByClaim(cleaned[r], r, c.reads)
               /\ cleaned[r].status = "queued" => cleaned[r] = checked[r] /\ r \notin T
    <3>1. LeftByClaim(checked[r], r, c.reads)
      BY <1>4
    <3>2. /\ LeftByClaim(CancelRows(checked, T)[r], r, c.reads)
          /\ CancelRows(checked, T)[r].status = "queued"
               => CancelRows(checked, T)[r] = checked[r] /\ r \notin T
      BY <1>4, <2>2, <3>1, CancelLeaves
    <3>3. QED
      BY <2>1, <3>2
  <2>7. QED
    BY <1>4, <2>3, <2>5, <2>6
<1> HIDE DEF recovered, checked, cleaned
<1>6. /\ TableInv(filled)
      /\ \A r \in Rows(filled) :
           /\ LeftByClaim(filled[r], r, c.reads)
           /\ filled[r].status = "queued" /\ r \in free => filled[r].portfolio \notin c.reads.liq
  <2>1. TableInv(filled)
    BY <1>1, <1>5, EnqueueScheduledKeepsInv
  <2>2. ASSUME NEW r \in Rows(filled)
        PROVE  /\ LeftByClaim(filled[r], r, c.reads)
               /\ \/ r \in Rows(cleaned) /\ filled[r] = cleaned[r]
                  \/ filled[r].status = "queued" /\ filled[r].portfolio \notin c.reads.liq
    BY <1>1, <1>5, EnqueueLeaves
  <2> HIDE DEF filled, free
  <2>3. QED
    BY <1>5, <2>1, <2>2
<1> HIDE DEF filled
<1>7. /\ TableInv(queue) /\ Rows(queue) = Rows(filled)
      /\ \A r \in Rows(queue) :
           /\ LeftByClaim(queue[r], r, c.reads)
           /\ queue[r].status = "queued" /\ r \in free =>
                /\ queue[r].portfolio \notin c.reads.liq
                /\ ~HasResult(queue[r].portfolio, Target(queue[r], c.reads.at))
  <2>1. TableInv(queue) /\ Rows(queue) = Rows(filled)
    BY <1>6, SkipCompletedAdvances, AdvanceKeepsInv DEF Advances, Rows
  <2>2. ASSUME NEW r \in Rows(filled)
        PROVE  /\ LeftByClaim(queue[r], r, c.reads)
               /\ queue[r].status = "queued" =>
                    /\ queue[r] = filled[r]
                    /\ r \in free => ~HasResult(queue[r].portfolio, Target(queue[r], c.reads.at))
    <3>1. /\ LeftByClaim(queue[r], r, c.reads)
          /\ queue[r].status = "queued" =>
               /\ queue[r] = filled[r]
               /\ r \in FreeFor(4, seen) => ~HasResult(queue[r].portfolio, Target(queue[r], c.reads.at))
      BY <1>6, SkipLeaves
    <3> HIDE DEF queue, free
    <3>2. QED
      BY <3>1, <1>0
  <2> HIDE DEF queue, free
  <2>3. QED
    BY <1>6, <2>1, <2>2
<1> HIDE DEF queue
<1>8. /\ S \subseteq OfHarness(queue, {"queued"}, c.harness) \cap FreeFor(5, seen)
      /\ \A r \in S : enabled /\ AutomationEnabled(queue[r].portfolio)
  BY <1>2 DEF Batches
<1>s. \A r \in S : HeldByAnswer(r) \/ r \in free
  BY <1>8 DEF Sightings, FreeFor, OfHarness, With, Rows
<1> HIDE DEF free
<1>9. S \subseteq Rows(queue) /\ \A r \in S : /\ queue[r].status = "queued" /\ queue[r] \in RunRow
                                             /\ HarnessOf[queue[r].portfolio] = c.harness
  BY <1>7, <1>8 DEF OfHarness, With, TableInv, Sound
<1> DEFINE started(r) == [queue[r] EXCEPT !.status = "running", !.attempt_count = @ + 1,
                                          !.lease = c.reads.at + LeaseLen]
<1>10. \A r \in Run : runs'[r] = IF r \in S THEN started(r) ELSE queue[r]
  <2>1. \A r \in Run : Start(queue, S, c.reads)[r] = IF r \in S THEN started(r) ELSE queue[r]
    BY DEF Start
  <2> HIDE DEF started
  <2>2. QED
    BY <1>2, <2>1
<1>11. ASSUME NEW r \in S
       PROVE  /\ runs'[r].status = "running" /\ runs'[r].attempt_count = queue[r].attempt_count + 1
              /\ runs'[r].lease = c.reads.at + LeaseLen
              /\ runs'[r].portfolio = queue[r].portfolio
              /\ runs'[r].scheduled_for = queue[r].scheduled_for
              /\ runs'[r] # None
  <2>1. r \in Run /\ queue[r] \in RunRow
    BY <1>9 DEF Rows
  <2>2. runs'[r] = started(r)
    <3> HIDE DEF started
    <3>1. QED
      BY <1>10, <2>1
  <2>3. TableInv(runs')
    BY ClaimKeepsTable
  <2>4. runs'[r] \in RunRow \cup {None}
    BY <2>1, <2>3 DEF TableInv, Table
  <2>5. runs'[r] # None
    <3>1. S \subseteq With(queue, {"queued"})
      BY <1>8 DEF OfHarness
    <3>2. Advances(queue, runs')
      BY <1>2, <1>7, <3>1, StartAdvances
    <3>3. QED
      BY <1>9, <3>2 DEF Advances, Rows
  <2>6. QED
    BY <2>1, <2>2, <2>5 DEF RunRow
<1> HIDE DEF started
<1>12. Rows(runs') = Rows(queue)
  BY <1>9, <1>10, <1>11 DEF Rows
<1>13. ASSUME NEW r \in S
       PROVE  Claimed(c, r)
  <2>1. queue[r].attempt_count = Before(r)
    BY <1>7, <1>9 DEF LeftByClaim, Rests
  <2>2. r \in Rows(runs) => runs[r].status = "queued" \/ r \in Stale(runs, c.reads.at)
    BY <1>7, <1>9 DEF LeftByClaim
  <2>3. Target(runs'[r], c.reads.at) = Target(queue[r], c.reads.at)
    BY <1>11 DEF Target
  <2>4. QED
    BY <1>7, <1>8, <1>s, <1>9, <1>11, <2>1, <2>2, <2>3 DEF Claimed
<1>14. ASSUME NEW r \in Rows(runs') \ S
       PROVE  runs'[r] = queue[r] /\ LeftByClaim(runs'[r], r, c.reads)
  BY <1>7, <1>10, <1>12 DEF Rows
<1>15. OfHarness(queue, Leased, c.harness) = OfHarness(runs', Leased, c.harness) \ S
  <2>1. \A r \in S : r \notin OfHarness(queue, Leased, c.harness)
    BY <1>9 DEF OfHarness, With, Leased
  <2>2. QED
    BY <1>12, <1>14, <2>1 DEF OfHarness, With
<1>16. S = {} \/ Cardinality(S) <= max_concurrency - Cardinality(OfHarness(queue, Leased, c.harness))
  <2> DEFINE ready == {r \in OfHarness(queue, {"queued"}, c.harness) \cap FreeFor(5, seen) :
                         AutomationEnabled(queue[r].portfolio)}
             room == Capacity(queue, c.harness)
  <2>1. \/ S = {}
        \/ Cardinality(ready) <= room /\ S = ready
        \/ Cardinality(S) = room
    BY <1>2 DEF Batches
  <2>2. room = max_concurrency - Cardinality(OfHarness(queue, Leased, c.harness))
    BY DEF Capacity
  <2>3. /\ Cardinality(OfHarness(queue, Leased, c.harness)) \in Nat
        /\ S # {} => Cardinality(S) \in Nat
    <3>1. IsFiniteSet(OfHarness(queue, Leased, c.harness)) /\ IsFiniteSet(S)
      BY <1>9, FiniteAssumption, FS_Subset DEF OfHarness, With, Rows
    <3>2. QED
      BY <3>1, FS_CardinalityType
  <2> HIDE DEF ready, room
  <2>4. QED
    BY <2>1, <2>2, <2>3
<1>17. QED
  BY <1>9, <1>12, <1>13, <1>14, <1>15, <1>16

RestsAll == \A r \in Rows(runs') : Rests(runs'[r], r)

\* A step that keeps or erases rows starts none.
LEMMA KeptRests ==
  ASSUME \A r \in Rows(runs') : r \in Rows(runs) /\ runs'[r] = runs[r]
  PROVE  RestsAll
  BY DEF RestsAll, Rests, Before

\* Nor does one that changes one row without starting it.
LEMMA ChangedRests ==
  ASSUME runs \in Table, NEW r \in Rows(runs), NEW new,
         runs' = [runs EXCEPT ![r] = new], Rests(new, r)
  PROVE  RestsAll
<1>1. \A q \in Run : q # r => runs'[q] = runs[q]
  BY DEF Table
<1>2. runs'[r] = new
  BY DEF Table, Rows
<1>3. \A q \in Rows(runs') : q # r => q \in Rows(runs) /\ Rests(runs'[q], q)
  BY <1>1 DEF Rows, Rests, Before
<1>4. QED
  BY <1>2, <1>3 DEF RestsAll

\* Pausing starts nothing.
LEMMA PauseRests ==
  ASSUME TableInv(runs), NEW S, S \subseteq With(runs, {"queued"}), runs' = CancelRows(runs, S)
  PROVE  RestsAll
<1>1. ASSUME NEW r \in Rows(runs')
      PROVE  Rests(runs'[r], r)
  <2>1. r \in Run /\ runs'[r] = IF r \in S THEN [runs[r] EXCEPT !.status = "cancelled"] ELSE runs[r]
    BY DEF CancelRows, Rows
  <2>2. CASE r \in S
    <3>1. r \in Rows(runs) /\ runs[r] \in RunRow
      BY <2>2 DEF With, TableInv, Sound
    <3>2. runs'[r].status \in Finished /\ runs'[r].attempt_count = runs[r].attempt_count
      BY <2>1, <2>2, <3>1 DEF RunRow, Finished, Status, Active
    <3>3. QED
      BY <3>1, <3>2 DEF Rests, Before
  <2>3. CASE r \notin S
    BY <2>1, <2>3 DEF Rests, Before, Rows
  <2>4. QED
    BY <2>2, <2>3
<1>2. QED
  BY <1>1 DEF RestsAll

\* Work that is created by hand waits for an enabled portfolio and is not started.
LEMMA InsertRests ==
  ASSUME runs \in Table, NEW p, MayWait(p), NEW s, InsertRun(NewRun(p, FALSE, s))
  PROVE  RestsAll
<1>1. PICK q \in Run \ Rows(runs) : runs' = [runs EXCEPT ![q] = NewRun(p, FALSE, s)]
  BY DEF InsertRun
<1>2. runs'[q] = NewRun(p, FALSE, s) /\ \A r \in Run : r # q => runs'[r] = runs[r]
  BY <1>1 DEF Table
<1>3. Rests(NewRun(p, FALSE, s), q)
  BY DEF NewRun, Rests, Before
<1>4. QED
  BY <1>2, <1>3 DEF RestsAll, Rests, Before, Rows

\* Only a claim starts an attempt: any other step leaves rows at rest.
LEMMA OtherRows ==
  ASSUME IInv, [Next]_vars
  PROVE  RestsAll \/ \E c \in calls : c.op = "claim" /\ ClaimRuns(c)
<1>1. TypeOK /\ TableInv(runs) /\ runs \in Table
  BY DEF IInv, TableInv
<1>2. ASSUME UNCHANGED runs PROVE RestsAll
  BY <1>2, KeptRests DEF Rows
<1>3. ASSUME NEW R, NEW D, Erase(R, D) PROVE RestsAll
  BY <1>3, KeptRests DEF Erase, Rows
<1>4. CASE Administer
  <2>1. ASSUME NEW v \in Version, PauseVersion(v) PROVE RestsAll
    <3>1. QueuedOfVersion(v) \subseteq With(runs, {"queued"})
      BY DEF QueuedOfVersion
    <3>2. QED
      BY <1>1, <2>1, <3>1, PauseRests DEF PauseVersion
  <2>2. ASSUME NEW p \in Portfolio, DisableAutomation(p) PROVE RestsAll
    <3>1. PICK locked \in SUBSET Rows(runs) :
            runs' = CancelRows(runs, {r \in With(runs, {"queued"}) \ locked :
                                        runs[r].portfolio = p})
      BY <2>2 DEF DisableAutomation
    <3>2. QED
      BY <1>1, <3>1, PauseRests
  <2>3. ASSUME NEW r \in Run, CancelRun(r) PROVE RestsAll
    <3>1. r \in Rows(runs) /\ runs[r] \in RunRow
      BY <1>1, <2>3 DEF CancelRun, With, TableInv, Sound
    <3>2. PICK status \in {"cancelled", "cancel_requested"} :
            /\ status = "cancel_requested" => r \in With(runs, {"running"})
            /\ runs' = [runs EXCEPT ![r].status = status]
      BY <2>3 DEF CancelRun
    <3> DEFINE new == [runs[r] EXCEPT !.status = status]
    <3>3. runs' = [runs EXCEPT ![r] = new]
      BY <1>1, <3>1, <3>2 DEF Table, Rows
    <3>4. new.status = status /\ new.attempt_count = runs[r].attempt_count
      BY <3>1 DEF RunRow
    <3>5. Rests(new, r)
      BY <3>1, <3>2, <3>4 DEF Rests, Before, Finished, Status, Active
    <3> HIDE DEF new
    <3>6. QED
      BY <1>1, <3>1, <3>3, <3>5, ChangedRests
  <2>4. ASSUME \/ \E on \in BOOLEAN, n \in 1..MaxConcurrency : UpdateSettings(on, n)
               \/ \E v \in Version : ResumeVersion(v)
               \/ \E p \in Portfolio : BeginEnable(p) \/ CreateDecision(p)
               \/ \E P \in SUBSET Portfolio : BeginManual(P)
               \/ \E r \in Run : BeginRetry(r)
        PROVE  UNCHANGED runs
    BY <2>4 DEF UpdateSettings, ResumeVersion, BeginEnable, BeginManual, CreateDecision, BeginRetry
  <2>5. ASSUME \/ \E r \in Run : DeleteRun(r)
               \/ \E d \in Decision : DeleteDecision(d)
               \/ \E p \in Portfolio : ResetPortfolio(p)
        PROVE  \E R, D : Erase(R, D)
    BY <2>5 DEF DeleteRun, DeleteDecision, ResetPortfolio
  <2>6. QED
    BY <1>2, <1>3, <1>4, <2>1, <2>2, <2>3, <2>4, <2>5 DEF Administer
<1>5. CASE Work
  <2>1. ASSUME NEW r \in Run, FailRun(r) PROVE RestsAll
    <3>1. r \in Rows(runs) /\ runs[r] \in RunRow
      BY <1>1, <2>1 DEF FailRun, With, TableInv, Sound
    <3> DEFINE new == [runs[r] EXCEPT !.status = AfterFailure(runs[r]), !.lease = None]
    <3>2. runs' = [runs EXCEPT ![r] = new]
      BY <1>1, <2>1, <3>1 DEF FailRun, Table, Rows
    <3>3. /\ new.status = AfterFailure(runs[r]) /\ new.attempt_count = runs[r].attempt_count
          /\ new.portfolio = runs[r].portfolio
      BY <3>1 DEF RunRow
    <3>4. \/ AfterFailure(runs[r]) \in Finished
          \/ AfterFailure(runs[r]) = "queued" /\ MayWait(runs[r].portfolio)
      BY DEF AfterFailure, AutomationEnabled, MayWait, Finished, Status, Active
    <3> HIDE DEF new
    <3>5. Rests(new, r)
      BY <3>1, <3>3, <3>4 DEF Rests, Before
    <3>6. QED
      BY <1>1, <3>1, <3>2, <3>5, ChangedRests
  <2>2. ASSUME \/ \E h \in Harness : BeginClaim(h)
               \/ \E r \in Run : BeginSubmit(r)
        PROVE  UNCHANGED runs
    BY <2>2 DEF BeginClaim, BeginSubmit
  <2>3. QED
    BY <1>2, <1>5, <2>1, <2>2 DEF Work
<1>6. ASSUME NEW c \in calls, Complete(c), ~(c.op = "claim" /\ ClaimRuns(c))
      PROVE  RestsAll
  <2>1. CASE c.op = "enable" /\ EnableAutomation(c)
    BY <1>2, <2>1 DEF EnableAutomation
  <2>2. CASE c.op = "manual" /\ EnqueueManual(c)
    <3> DEFINE P == Accepted(c)
               none == [p \in P |-> None]
    <3>1. c.reads \in Reads
      BY <1>1, <2>2, CallTypes DEF ManualCall
    <3>2. \A p \in P : MayWait(p)
      BY <3>1 DEF Accepted, AutomationSeen, MayWait, Reads
    <3>3. PICK slot \in Placements(runs, P) : runs' = Inserted(runs, slot, FALSE, none)
      BY <2>2 DEF EnqueueManual, Placements
    <3> HIDE DEF P, none
    <3>4. /\ \A p \in P : /\ slot[p] \in Run \ Rows(runs)
                          /\ runs'[slot[p]] = NewRun(p, FALSE, none[p])
          /\ \A r \in Run : (\E p \in P : r = slot[p]) \/ runs'[r] = runs[r]
      <4> DEFINE hand == FALSE
      <4>1. hand \in BOOLEAN /\ runs' = Inserted(runs, slot, hand, none)
        BY <3>3
      <4> HIDE DEF hand
      <4>2. /\ \A p \in P : /\ slot[p] \in Run \ Rows(runs)
                            /\ runs'[slot[p]] = NewRun(p, hand, none[p])
            /\ \A r \in Run : (\E p \in P : r = slot[p]) \/ runs'[r] = runs[r]
        BY <4>1, InsertedRows
      <4>3. QED
        BY <4>2 DEF hand
    <3>5. ASSUME NEW p \in P
          PROVE  Rests(runs'[slot[p]], slot[p])
      <4>1. /\ runs'[slot[p]].status = "queued" /\ runs'[slot[p]].attempt_count = 0
            /\ runs'[slot[p]].portfolio = p
        <5>1. /\ NewRun(p, FALSE, none[p]).status = "queued"
              /\ NewRun(p, FALSE, none[p]).attempt_count = 0
              /\ NewRun(p, FALSE, none[p]).portfolio = p
          BY DEF NewRun
        <5>2. runs'[slot[p]] = NewRun(p, FALSE, none[p])
          BY <3>4
        <5>3. QED
          BY <5>1, <5>2
      <4>2. QED
        BY <3>2, <3>4, <4>1 DEF Rests, Before
    <3>6. QED
      BY <3>4, <3>5 DEF RestsAll, Rests, Before, Rows
  <2>3. CASE c.op = "retry" /\ RetryRun(c)
    <3>1. CASE MayRetry(c)
      <4>1. MayWait(runs[c.run].portfolio)
        BY <3>1 DEF MayRetry, AutomationEnabled, MayWait
      <4>2. InsertRun(NewRun(runs[c.run].portfolio, FALSE, runs[c.run].scheduled_for))
        BY <2>3, <3>1 DEF RetryRun
      <4>3. QED
        BY <1>1, <4>1, <4>2, InsertRests
    <3>2. QED
      BY <1>2, <2>3, <3>1 DEF RetryRun
  <2>4. CASE c.op = "submit" /\ SubmitRun(c)
    <3>1. CASE SubmitRefused(c)
      BY <1>2, <3>1 DEF SubmitRefused
    <3>2. CASE SubmitCancelled(c) \/ SubmitSkipped(c) \/ SubmitRecorded(c)
      <4>1. PICK status, d : status \in {"cancelled", "skipped", "succeeded"} /\ EndRun(c.run, status, d)
        BY <3>2 DEF SubmitCancelled, SubmitSkipped, SubmitRecorded
      <4>2. c.run \in Rows(runs) /\ runs[c.run] \in RunRow
        BY <1>1, <3>2 DEF SubmitCancelled, SubmitSkipped, SubmitRecorded, InLease, IsCurrent,
                          TableInv, Sound
      <4> DEFINE new == [runs[c.run] EXCEPT !.status = status, !.lease = None, !.result = d]
      <4>3. runs' = [runs EXCEPT ![c.run] = new]
        BY <1>1, <4>1, <4>2 DEF EndRun, Table, Rows
      <4>4. new.status \in Finished /\ new.attempt_count = runs[c.run].attempt_count
        BY <4>1, <4>2 DEF RunRow, Finished, Status, Active
      <4> HIDE DEF new
      <4>5. Rests(new, c.run)
        BY <4>2, <4>4 DEF Rests, Before
      <4>6. QED
        BY <1>1, <4>2, <4>3, <4>5, ChangedRests
    <3>3. QED
      BY <2>4, <3>1, <3>2 DEF SubmitRun
  <2>5. QED
    BY <1>6, <2>1, <2>2, <2>3, <2>4 DEF Complete
<1>7. CASE UNCHANGED vars \/ Tick \/ \E p \in Portfolio : Liquidate(p)
  BY <1>2, <1>7 DEF vars, Tick, Liquidate
<1>8. QED
  BY <1>4, <1>5, <1>6, <1>7 DEF Next

\* A row at rest is not started by the step.
LEMMA RestIsNoStart ==
  ASSUME NEW r \in Rows(runs'), Rests(runs'[r], r), TableInv(runs)
  PROVE  ~Started(r)
<1>1. r \in Rows(runs) => runs[r].attempt_count \in Int
  BY DEF TableInv, Sound, RunRow
<1>2. QED
  BY <1>1 DEF Rests, Before, Started, Finished, Active, With

\* What a completed poll starts, it starts with cause.
LEMMA ClaimStarts ==
  ASSUME IInv, NEW c \in calls, c.op = "claim", ClaimRuns(c), NEW r \in Run, Started(r)
  PROVE  Claimed(c, r)
<1>1. r \in Rows(runs') /\ TableInv(runs)
  BY DEF Started, IInv
<1>2. PICK seen \in Sightings : Claim(c, seen)
  BY DEF ClaimRuns
<1>3. c.reads \in Reads /\ max_concurrency \in Nat
  BY CallTypes, ConstantsAssumption DEF IInv, TypeOK, ClaimCall
<1>4. Claimed(c, r) \/ LeftByClaim(runs'[r], r, c.reads)
  BY <1>1, <1>2, <1>3, ClaimRows
<1>5. QED
  BY <1>1, <1>4, RestIsNoStart DEF LeftByClaim

\* A step starts an attempt only by completing a poll, and with cause.
LEMMA StartsAreClaimed ==
  ASSUME IInv, [Next]_vars, NEW r \in Run, Started(r)
  PROVE  \E c \in calls : c.op = "claim" /\ ClaimRuns(c) /\ Claimed(c, r)
<1>1. r \in Rows(runs') /\ TableInv(runs)
  BY DEF Started, IInv
<1>2. PICK c \in calls : c.op = "claim" /\ ClaimRuns(c)
  BY <1>1, OtherRows, RestIsNoStart DEF RestsAll
<1>3. QED
  BY <1>2, ClaimStarts

\* A poll that is no longer pending was completed by this step; a submission was,
\* or its run was erased.
LEMMA CompletedCall ==
  ASSUME [Next]_vars, NEW c \in calls \ calls'
  PROVE  /\ c.op = "claim" => ClaimRuns(c)
         /\ c.op = "submit" => SubmitRun(c) \/ \E R, D : Erase(R, D)
<1>1. ASSUME calls \subseteq calls' PROVE FALSE
  BY <1>1
<1>2. CASE Administer
  <2>1. ASSUME \/ \E on \in BOOLEAN, n \in 1..MaxConcurrency : UpdateSettings(on, n)
               \/ \E v \in Version : ResumeVersion(v) \/ PauseVersion(v)
               \/ \E p \in Portfolio : BeginEnable(p) \/ DisableAutomation(p) \/ CreateDecision(p)
               \/ \E P \in SUBSET Portfolio : BeginManual(P)
               \/ \E r \in Run : BeginRetry(r) \/ CancelRun(r)
        PROVE  calls \subseteq calls'
    BY <2>1 DEF UpdateSettings, ResumeVersion, PauseVersion, BeginEnable, DisableAutomation,
                BeginManual, CreateDecision, BeginRetry, CancelRun
  <2>2. ASSUME \/ \E r \in Run : DeleteRun(r)
               \/ \E d \in Decision : DeleteDecision(d)
               \/ \E p \in Portfolio : ResetPortfolio(p)
        PROVE  \E R, D : Erase(R, D)
    BY <2>2 DEF DeleteRun, DeleteDecision, ResetPortfolio
  <2>3. ASSUME NEW R, NEW D, Erase(R, D) PROVE c.op # "claim"
    BY <2>3 DEF Erase
  <2>4. QED
    BY <1>1, <1>2, <2>1, <2>2, <2>3 DEF Administer
<1>3. CASE Work
  BY <1>1, <1>3 DEF Work, BeginClaim, BeginSubmit, FailRun
<1>4. ASSUME NEW d \in calls, Complete(d)
      PROVE  c = d /\ Complete(c)
  BY <1>4 DEF Complete, EnableAutomation, EnqueueManual, RetryRun, ClaimRuns, Claim, SubmitRun
<1>5. ~(UNCHANGED vars \/ Tick \/ \E p \in Portfolio : Liquidate(p))
  BY <1>1 DEF vars, Tick, Liquidate
<1>6. QED
  BY <1>2, <1>3, <1>4, <1>5 DEF Next, Complete

\* What makes a run succeed is a submission of the attempt that holds it, which
\* had not seen the portfolio liquidated.
LEMMA SubmissionRecords ==
  ASSUME IInv, [Next]_vars, NEW c \in calls \ calls', c.op = "submit", Succeeds(c.run)
  PROVE  InLease(c) /\ ~c.liquidated
<1>1. runs \in Table /\ TableInv(runs)
  BY DEF IInv, TableInv
<1>2. c.run \in Rows(runs') /\ runs'[c.run].status = "succeeded"
  BY DEF Succeeds, With
<1>3. runs'[c.run] # runs[c.run]
  BY <1>2 DEF Succeeds, With, Rows
<1>4. ASSUME NEW R, NEW D, Erase(R, D) PROVE FALSE
  BY <1>2, <1>3, <1>4 DEF Erase, Rows
<1>5. CASE SubmitRun(c)
  <2>1. ~SubmitRefused(c)
    BY <1>3 DEF SubmitRefused
  <2>2. ASSUME NEW status, EndRun(c.run, status, None) PROVE status = "succeeded"
    <3>1. c.run \in Run /\ runs[c.run] \in RunRow \cup {None}
      BY <1>1, <1>2 DEF Rows, Table
    <3>2. CASE c.run \in Rows(runs)
      <4>1. runs[c.run] \in RunRow
        BY <3>1, <3>2 DEF Rows
      <4>2. runs'[c.run].status = status
        BY <1>1, <2>2, <3>1, <4>1 DEF EndRun, Table, RunRow
      <4>3. QED
        BY <1>2, <4>2
    <3>3. CASE c.run \notin Rows(runs)
      BY <1>5, <2>1, <3>3 DEF SubmitRun, SubmitCancelled, SubmitSkipped, SubmitRecorded,
                              InLease, IsCurrent, EndRun, With, Succeeds
    <3>4. QED
      BY <3>2, <3>3
  <2>3. ~SubmitCancelled(c) /\ ~SubmitSkipped(c)
    BY <2>2 DEF SubmitCancelled, SubmitSkipped
  <2>4. QED
    BY <1>5, <2>1, <2>3 DEF SubmitRun, SubmitRecorded
<1>6. QED
  BY <1>4, <1>5, CompletedCall

\* Where a step starts nothing on a harness, its leased rows were leased before.
LEMMA LeasedBefore ==
  ASSUME TableInv(runs), NEW h, NEW r \in OfHarness(runs', Leased, h),
         Rests(runs'[r], r)
  PROVE  r \in OfHarness(runs, Leased, h)
<1>1. r \in Rows(runs') /\ runs'[r].status \in Leased /\ HarnessOf[runs'[r].portfolio] = h
  BY DEF OfHarness, With
<1>2. CASE r \in Rows(runs) /\ runs'[r] = runs[r]
  BY <1>1, <1>2 DEF OfHarness, With
<1>3. CASE /\ r \in With(runs, {"running"})
           /\ runs'[r] = [runs[r] EXCEPT !.status = "cancel_requested"]
  <2>1. r \in Rows(runs) /\ runs[r] \in RunRow /\ runs[r].status = "running"
    BY <1>3 DEF With, TableInv, Sound
  <2>2. runs'[r].portfolio = runs[r].portfolio
    BY <1>3, <2>1 DEF RunRow
  <2>3. QED
    BY <1>1, <2>1, <2>2 DEF OfHarness, With, Leased
<1>4. QED
  BY <1>1, <1>2, <1>3 DEF Rests, Leased, Finished, Active

\* The leased rows of a harness grow in number only within its limit.
LEMMA StepWithinLimit ==
  ASSUME IInv, [Next]_vars
  PROVE  ClaimWithinLimit
<1> SUFFICES ASSUME NEW h \in Harness,
                    Cardinality(OfHarness(runs', Leased, h)) > Cardinality(OfHarness(runs, Leased, h))
             PROVE  Cardinality(OfHarness(runs', Leased, h)) <= max_concurrency
  BY DEF ClaimWithinLimit
<1> DEFINE was == OfHarness(runs, Leased, h)
           is == OfHarness(runs', Leased, h)
<1>1. TableInv(runs) /\ max_concurrency \in Nat
  BY ConstantsAssumption DEF IInv, TypeOK
<1>2. IsFiniteSet(was) /\ IsFiniteSet(is)
  BY FiniteAssumption, FS_Subset DEF OfHarness, With, Rows
<1>3. ~(is \subseteq was)
  <2> HIDE DEF was, is
  <2>1. is \subseteq was => Cardinality(is) <= Cardinality(was)
    BY <1>2, FS_Subset
  <2>2. Cardinality(is) \in Nat /\ Cardinality(was) \in Nat /\ Cardinality(is) > Cardinality(was)
    BY <1>2, FS_CardinalityType DEF is, was
  <2>3. QED
    BY <2>1, <2>2
<1>4. ~RestsAll
  BY <1>1, <1>3, LeasedBefore DEF RestsAll, OfHarness, With
<1>5. PICK c \in calls : c.op = "claim" /\ ClaimRuns(c)
  BY <1>4, OtherRows
<1>6. PICK seen \in Sightings : Claim(c, seen)
  BY <1>5 DEF ClaimRuns
<1>7. c.reads \in Reads
  BY <1>5, CallTypes DEF IInv, ClaimCall
<1>8. PICK S \in SUBSET Rows(runs') :
        /\ \A r \in S : Claimed(c, r)
        /\ \A r \in Rows(runs') \ S : LeftByClaim(runs'[r], r, c.reads)
        /\ S = {} \/ Cardinality(S) <= max_concurrency
                      - Cardinality(OfHarness(runs', Leased, c.harness) \ S)
  BY <1>1, <1>6, <1>7, ClaimRows
<1>9. is \ S \subseteq was
  BY <1>1, <1>8, LeasedBefore DEF LeftByClaim, OfHarness, With
<1>10. S # {} /\ h = c.harness
  BY <1>3, <1>8, <1>9 DEF Claimed, OfHarness
<1>11. S \subseteq is
  BY <1>8, <1>10 DEF Claimed, OfHarness, With, Leased
<1>12. Cardinality(S) <= max_concurrency - Cardinality(is \ S)
  BY <1>8, <1>10
<1> HIDE DEF is, was
<1>13. IsFiniteSet(S) /\ IsFiniteSet(is \ S)
  BY <1>2, <1>11, FS_Subset
<1>14. Cardinality(is) = Cardinality(S) + Cardinality(is \ S)
  <2>1. S \cup (is \ S) = is /\ S \cap (is \ S) = {}
    BY <1>11
  <2>2. Cardinality(is) = Cardinality(S) + Cardinality(is \ S) - Cardinality({})
    BY <1>13, <2>1, FS_Union
  <2>3. QED
    BY <1>13, <2>2, FS_EmptySet, FS_CardinalityType
<1>15. Cardinality(is) <= max_concurrency
  BY <1>1, <1>12, <1>13, <1>14, FS_CardinalityType
<1>16. QED
  BY <1>15 DEF is

\* The leased runs of each harness never outnumber the largest limit ever set.
LeasedWithinBound ==
  \A h \in Harness : Cardinality(OfHarness(runs, Leased, h)) <= MaxConcurrency

\* A claim stays within the limit of its moment, and nothing else adds to them.
LEMMA LeasedWithinBoundStep ==
  ASSUME IInv, LeasedWithinBound, [Next]_vars
  PROVE  LeasedWithinBound'
<1> SUFFICES ASSUME NEW h \in Harness
             PROVE  Cardinality(OfHarness(runs', Leased, h)) <= MaxConcurrency
  BY DEF LeasedWithinBound, OfHarness, With, Rows
<1>1. /\ Cardinality(OfHarness(runs, Leased, h)) \in Nat
      /\ Cardinality(OfHarness(runs', Leased, h)) \in Nat
  <2>1. IsFiniteSet(OfHarness(runs, Leased, h)) /\ IsFiniteSet(OfHarness(runs', Leased, h))
    BY FiniteAssumption, FS_Subset DEF OfHarness, With, Rows
  <2>2. QED
    BY <2>1, FS_CardinalityType
<1>2. max_concurrency \in Int /\ max_concurrency <= MaxConcurrency /\ MaxConcurrency \in Int
  BY ConstantsAssumption DEF IInv, TypeOK
<1>3. Cardinality(OfHarness(runs, Leased, h)) <= MaxConcurrency
  BY DEF LeasedWithinBound
<1>4. Cardinality(OfHarness(runs', Leased, h)) > Cardinality(OfHarness(runs, Leased, h))
        => Cardinality(OfHarness(runs', Leased, h)) <= max_concurrency
  BY StepWithinLimit DEF ClaimWithinLimit
<1>5. QED
  BY <1>1, <1>2, <1>3, <1>4

\* A paused version with queued work has a managed short.
PausedQueueHasShort ==
  \A r \in With(runs, {"queued"}) : MayWait(runs[r].portfolio)

\* Every step keeps it so: pausing cancels what waits, and only the stale version row
\* that a short's valuation loaded puts work back into a paused queue.
LEMMA PausedQueueStep ==
  ASSUME IInv, PausedQueueHasShort, [Next]_vars
  PROVE  PausedQueueHasShort'
<1>1. TableInv(runs)
  BY DEF IInv
<1>2. ASSUME NEW r \in Rows(runs'), runs'[r].status = "queued"
      PROVE  MayWait(runs'[r].portfolio)
  <2>1. Rests(runs'[r], r)
    <3>1. CASE RestsAll
      BY <3>1 DEF RestsAll
    <3>2. ASSUME NEW c \in calls, c.op = "claim", ClaimRuns(c)
          PROVE  Rests(runs'[r], r)
      <4>1. PICK seen \in Sightings : Claim(c, seen)
        BY <3>2 DEF ClaimRuns
      <4>2. c.reads \in Reads /\ max_concurrency \in Nat
        BY <3>2, CallTypes, ConstantsAssumption DEF IInv, TypeOK, ClaimCall
      <4>3. Claimed(c, r) \/ LeftByClaim(runs'[r], r, c.reads)
        BY <1>1, <4>1, <4>2, ClaimRows
      <4>4. QED
        BY <1>2, <4>3 DEF LeftByClaim, Claimed
    <3>3. QED
      BY <3>1, <3>2, OtherRows
  <2>2. QED
    BY <1>2, <2>1 DEF Rests, PausedQueueHasShort, With, Finished, Active
<1>3. CASE \E v \in Version : PauseVersion(v)
  <2>1. PICK v \in Version : PauseVersion(v)
    BY <1>3
  <2>2. ASSUME NEW r \in With(runs', {"queued"}) PROVE VersionOf[runs'[r].portfolio] # v
    <3>1. r \in Run /\ runs'[r] # None /\ runs'[r].status = "queued"
      BY DEF With, Rows
    <3>2. runs' = CancelRows(runs, QueuedOfVersion(v))
      BY <2>1 DEF PauseVersion
    <3>3. CASE r \in QueuedOfVersion(v)
      <4>1. runs[r] \in RunRow /\ runs'[r] = [runs[r] EXCEPT !.status = "cancelled"]
        BY <1>1, <3>1, <3>2, <3>3 DEF QueuedOfVersion, With, TableInv, Sound, CancelRows
      <4>2. QED
        BY <3>1, <4>1 DEF RunRow
    <3>4. CASE r \notin QueuedOfVersion(v)
      BY <3>1, <3>2, <3>4 DEF QueuedOfVersion, With, Rows, CancelRows
    <3>5. QED
      BY <3>3, <3>4
  <2>3. evaluating' = evaluating \ {v}
    BY <2>1 DEF PauseVersion
  <2>4. QED
    BY <1>2, <2>2, <2>3 DEF PausedQueueHasShort, MayWait, With
<1>4. CASE ~ \E v \in Version : PauseVersion(v)
  <2>1. evaluating \subseteq evaluating'
    BY <1>4 DEF Next, vars, switches, Tick, Liquidate, Administer, Work, Complete, UpdateSettings,
       ResumeVersion, BeginEnable, DisableAutomation, BeginManual, CreateDecision, ResetPortfolio,
       BeginRetry, CancelRun, DeleteRun, DeleteDecision, Erase, BeginClaim, BeginSubmit, FailRun,
       EnableAutomation, EnqueueManual, RetryRun, ClaimRuns, Claim, SubmitRun
  <2>2. QED
    BY <1>2, <2>1 DEF PausedQueueHasShort, MayWait, With
<1>5. QED
  BY <1>3, <1>4

-----------------------------------------------------------------------------
(* The theorems. *)

\* The empty tables satisfy the invariant.
LEMMA InitInv == Init => IInv
<1> SUFFICES ASSUME Init PROVE IInv
  OBVIOUS
<1>1. Rows(runs) = {}
  BY DEF Init, Rows
<1>2. TypeOK
  BY ConstantsAssumption DEF Init, TypeOK, Time
<1>3. TableInv(runs) /\ Owned
  BY <1>1 DEF Init, TableInv, Table, Owned
<1>4. OneDecisionPerSession
  BY DEF Init, OneDecisionPerSession
<1>5. QED
  BY <1>2, <1>3, <1>4 DEF IInv

\* Every step keeps the invariant and respects RowsStep.
LEMMA NextInv == IInv /\ [Next]_vars => StepOK
<1> SUFFICES ASSUME IInv, [Next]_vars PROVE StepOK
  OBVIOUS
<1>1. CASE UNCHANGED vars
  <2>1. TableInv(runs') /\ OneDecisionPerSession' /\ Owned' /\ RowsStep
    BY <1>1, QuietStep DEF vars
  <2>2. QED
    BY <1>1, <2>1 DEF StepOK, IInv, vars, TypeOK
<1>2. CASE Tick \/ \E p \in Portfolio : Liquidate(p)
  BY <1>2, QuietActions
<1>3. CASE Administer
  BY <1>3, QuietActions, PauseActions, CreateActions, RowActions, DeleteActions DEF Administer
<1>4. CASE Work
  BY <1>4, QuietActions, RowActions DEF Work
<1>5. CASE \E c \in calls : Complete(c)
  BY <1>5, QuietActions, ManualActions, ClaimActions, SubmitActions DEF Complete
<1>6. QED
  BY <1>1, <1>2, <1>3, <1>4, <1>5 DEF Next

\* The inductive invariant holds in every reachable state.
LEMMA SpecInv == Spec => []IInv
<1>1. IInv /\ [Next]_vars => IInv'
  BY NextInv DEF StepOK
<1>2. QED
  BY InitInv, <1>1, PTL DEF Spec

\* The tables, the switches and the call records stay well formed.
THEOREM TypeCorrect == Spec => []TypeOK
<1>1. IInv => TypeOK
  BY DEF IInv
<1>2. QED
  BY <1>1, SpecInv, PTL

\* A portfolio never has two active runs, however scheduling, manual calls,
\* retries, requeues and polls with locked rows interleave.
THEOREM SingleActiveRun == Spec => []OneActiveRunPerPortfolio
<1>1. IInv => OneActiveRunPerPortfolio
  BY DEF IInv, TableInv, OneActiveRunPerPortfolio, ActiveRuns, With
<1>2. QED
  BY <1>1, SpecInv, PTL

\* A portfolio never has two decisions for one session.
THEOREM SingleDecision == Spec => []OneDecisionPerSession
<1>1. IInv => OneDecisionPerSession
  BY DEF IInv
<1>2. QED
  BY <1>1, SpecInv, PTL

\* Results are live decisions of the run's own portfolio and session, and no
\* two runs share one.
THEOREM ResultOwnership == Spec => []ResultsAreOwned
<1>1. IInv => ResultsAreOwned
  BY DEF IInv, TableInv, Sound, Owned, ResultsAreOwned
<1>2. QED
  BY <1>1, SpecInv, PTL

\* A session is scheduled at most once per portfolio.
THEOREM SingleSchedule == Spec => []ScheduledOnce
<1>1. IInv => ScheduledOnce
  BY DEF IInv, TableInv, ScheduledOnce
<1>2. QED
  BY <1>1, SpecInv, PTL

\* Queued work has an attempt left and leased work can expire.
THEOREM BudgetRespected == Spec => []AttemptBudget
<1>1. IInv => AttemptBudget
  BY DEF IInv, TableInv, Sound, AttemptBudget, With, Leased
<1>2. QED
  BY <1>1, SpecInv, PTL

\* A pending cancellation is never overtaken by a result, a failure or a retry.
THEOREM CancellationWins == Spec => CancellationIsHonoured
<1>1. RowsStep => CancelWins
  BY DEF RowsStep, CancelWins, With, Follows
<1>2. IInv /\ [Next]_vars => CancelWins
  BY <1>1, NextInv DEF StepOK
<1>3. IInv /\ [Next]_vars => [CancelWins]_vars
  BY <1>2
<1>4. QED
  BY <1>3, SpecInv, PTL DEF Spec, CancellationIsHonoured

\* A finished run never changes again, until it is deleted.
THEOREM FinishedForGood == Spec => FinishedIsFinal
<1>1. RowsStep => FinishedStays
  BY DEF RowsStep, FinishedStays, With, Follows, Finished, Active
<1>2. IInv /\ [Next]_vars => [FinishedStays]_vars
  BY <1>1, NextInv DEF StepOK
<1>3. QED
  BY <1>2, SpecInv, PTL DEF Spec, FinishedIsFinal

\* An attempt starts only while the settings, the version and the portfolio all
\* allow it at that moment, whatever the poll had read before its lock.
THEOREM SwitchesRespected == Spec => NoAttemptWhilePaused
<1>1. IInv /\ [Next]_vars => AttemptNeedsSwitches
  BY StartsAreClaimed DEF AttemptNeedsSwitches, Claimed
<1>2. IInv /\ [Next]_vars => [AttemptNeedsSwitches]_vars
  BY <1>1
<1>3. QED
  BY <1>2, SpecInv, PTL DEF Spec, NoAttemptWhilePaused

\* No attempt is started for a session that has its result, whether the row was new,
\* waiting or recovered by the same poll; save that of a run which waits for another
\* attempt, whose row a late answer may hold while the poll looks for finished work.
THEOREM NoNeedlessAttempt == Spec => NoAttemptForCompletedSession
<1>1. IInv /\ [Next]_vars => AttemptIsNeeded
  BY ClaimStarts, CompletedCall DEF AttemptIsNeeded, Claimed
<1>2. IInv /\ [Next]_vars => [AttemptIsNeeded]_vars
  BY <1>1
<1>3. QED
  BY <1>2, SpecInv, PTL DEF Spec, NoAttemptForCompletedSession

\* Late, repeated and superseded submissions record nothing: only the attempt that
\* holds the run's lease does.
THEOREM HolderRecords == Spec => OnlyHolderRecords
<1>1. IInv /\ [Next]_vars => RecordedByHolder
  BY SubmissionRecords DEF RecordedByHolder, InLease, IsCurrent
<1>2. IInv /\ [Next]_vars => [RecordedByHolder]_vars
  BY <1>1
<1>3. QED
  BY <1>2, SpecInv, PTL DEF Spec, OnlyHolderRecords

\* A short that a submission has seen liquidated gets no result from it; one that a
\* poll has seen liquidated gets no attempt, save on a run that waits for another one
\* and was held by a late answer while the poll cancelled such work.
THEOREM LiquidationRespected == Spec => LiquidatedShortGetsNothing
<1>1. IInv /\ [Next]_vars => LiquidationBlocks
  BY ClaimStarts, CompletedCall, SubmissionRecords DEF LiquidationBlocks, Claimed
<1>2. IInv /\ [Next]_vars => [LiquidationBlocks]_vars
  BY <1>1
<1>3. QED
  BY <1>2, SpecInv, PTL DEF Spec, LiquidatedShortGetsNothing

\* No step takes the leased runs of a harness above the limit of that moment, even
\* where a lowered limit has left more of them running.
THEOREM LimitRespected == Spec => NeverAboveLimit
<1>1. IInv /\ [Next]_vars => [ClaimWithinLimit]_vars
  BY StepWithinLimit
<1>2. QED
  BY <1>1, SpecInv, PTL DEF Spec, NeverAboveLimit

\* However stale what a call has read, only a version with a managed short, whose
\* valuation loads the version's row before the lock, can have queued work while paused;
\* the work may be that of any portfolio of the version.
THEOREM OnlyShortVersionsWaitPaused == Spec => []PausedQueueHasShort
<1>1. Init => PausedQueueHasShort
  BY DEF Init, PausedQueueHasShort, With, Rows
<1>2. IInv /\ PausedQueueHasShort /\ [Next]_vars => PausedQueueHasShort'
  BY PausedQueueStep
<1>3. QED
  BY <1>1, <1>2, SpecInv, PTL DEF Spec

\* Where there are no managed shorts, a paused version has no queued work.
THEOREM PausedMeansEmpty ==
  ASSUME ShortManaged = {}
  PROVE  Spec => []PausedVersionHasNoQueue
<1>1. PausedQueueHasShort => PausedVersionHasNoQueue
  BY DEF PausedQueueHasShort, PausedVersionHasNoQueue, MayWait, ShortVersions
<1>2. QED
  BY <1>1, OnlyShortVersionsWaitPaused, PTL

-----------------------------------------------------------------------------
(* The queue implements the ledger.  The forms a step takes (StepForm) are       *)
(* matched one by one with the ledger's actions; the rest is what the            *)
(* refinement mapping makes of a row.                                            *)

DecisionTable == [Decision -> DecisionRow \cup {None}]

\* A row as an item, beside any table of decisions.
Item(row, dt) ==
  [portfolio |-> row.portfolio, scheduled_for |-> row.scheduled_for, status |-> row.status,
   attempts |-> row.attempt_count,
   result |-> IF row.result = None THEN None ELSE dt[row.result].session]

ResultKept(row, dt) == row.result # None => dt[row.result] # None

\* A sound row whose decision is live is an item, without a result only if the row is.
LEMMA ItemType ==
  ASSUME NEW row, Sound(row), NEW dt \in DecisionTable, ResultKept(row, dt)
  PROVE  /\ Item(row, dt) \in Ledger!Item
         /\ Item(row, dt).result = None <=> row.result = None
<1>1. row \in RunRow
  BY DEF Sound
<1>2. ASSUME row.result # None
      PROVE  dt[row.result].session \in Session
  BY <1>1, <1>2 DEF RunRow, DecisionTable, DecisionRow, ResultKept
<1>3. Item(row, dt) \in Ledger!Item
  BY <1>1, <1>2 DEF Item, RunRow, Status, Ledger!Item, Ledger!Open, Ledger!Closed
<1>4. QED
  BY <1>2, <1>3, SentinelAssumption DEF Item

\* The mapped work, in this state and the next.
LEMMA WorkItems ==
  /\ WorkOf = [r \in Rows(runs) |-> Item(runs[r], decisions)]
  /\ WorkOf' = [r \in Rows(runs') |-> Item(runs'[r], decisions')]
  BY DEF WorkOf, ItemOf, Item

\* What the invariant says of the rows a mapped state is built from.
LEMMA SoundRows ==
  ASSUME IInv
  PROVE  /\ decisions \in DecisionTable
         /\ \A r \in Rows(runs) : r \in Run /\ Sound(runs[r]) /\ ResultKept(runs[r], decisions)
  BY DEF IInv, TypeOK, TableInv, Owned, ResultKept, Rows, DecisionTable

\* The same of the next state.
LEMMA NextSoundRows ==
  ASSUME IInv'
  PROVE  /\ decisions' \in DecisionTable
         /\ \A r \in Rows(runs') : r \in Run /\ Sound(runs'[r]) /\ ResultKept(runs'[r], decisions')
  BY DEF IInv, TypeOK, TableInv, Owned, ResultKept, Rows, DecisionTable

\* A row that follows another is a later item of it.
LEMMA FollowerIsLater ==
  ASSUME NEW row, NEW was, Sound(was), Follows(row, was),
         NEW dt \in DecisionTable, ResultKept(was, dt)
  PROVE  Item(row, dt) \in Ledger!Later(Item(was, dt))
<1>1. Sound(row) /\ SameWork(row, was) /\ ResultKept(row, dt)
  BY DEF Follows, SameWork, ResultKept
<1>2. Item(row, dt) \in Ledger!Item
  BY <1>1, ItemType
<1>3. was.status \in Ledger!Closed => row = was
  BY DEF Follows, Ledger!Closed, Finished, Status, Active
<1>4. was.status \in Ledger!Open => row.status # "succeeded"
  BY <1>1 DEF Sound, SameWork, Ledger!Open
<1>5. /\ was.status = "cancel_requested" => row.status \in {"cancel_requested", "cancelled"}
      /\ row.attempt_count >= was.attempt_count
      /\ row.status = "queued" => row.attempt_count < MaxAttempts
  BY <1>1 DEF Follows, Sound
<1>6. QED
  BY <1>1, <1>2, <1>3, <1>4, <1>5 DEF Ledger!Later, Item, SameWork

\* Rows that move or appear move or open items.
LEMMA ProgressProceeds ==
  ASSUME IInv, IInv', Progress
  PROVE  Ledger!Proceed
<1>1. decisions' = decisions /\ ResultsOf' = ResultsOf
  BY DEF Progress, ResultsOf
<1>2. /\ DOMAIN WorkOf = Rows(runs) /\ DOMAIN WorkOf' = Rows(runs')
      /\ \A r \in Rows(runs) : WorkOf[r] = Item(runs[r], decisions)
      /\ \A r \in Rows(runs') : WorkOf'[r] = Item(runs'[r], decisions)
  BY <1>1, WorkItems
<1>3. Rows(runs) \subseteq Rows(runs') /\ Rows(runs') \subseteq Run
  BY DEF Progress, Rows
<1>4. ASSUME NEW r \in Rows(runs')
      PROVE  WorkOf'[r] \in IF r \in Rows(runs) THEN Ledger!Later(WorkOf[r]) ELSE Ledger!Fresh
  <2>1. CASE r \in Rows(runs)
    BY <1>2, <2>1, SoundRows, FollowerIsLater DEF Progress
  <2>2. CASE r \notin Rows(runs)
    <3>1. runs'[r].result = None /\ Sound(runs'[r]) /\ ResultKept(runs'[r], decisions)
      BY <2>2, NextSoundRows DEF Progress, ResultKept
    <3>2. runs'[r].status # "succeeded"
      BY <3>1 DEF Sound
    <3>3. QED
      BY <1>2, <2>2, <3>1, <3>2, SoundRows, ItemType DEF Ledger!Fresh, Item
  <2>3. QED
    BY <2>1, <2>2
<1>5. ASSUME NEW q \in Rows(runs'), NEW r \in Rows(runs'),
             WorkOf'[q].status \in Ledger!Open, WorkOf'[r].status \in Ledger!Open,
             WorkOf'[q].portfolio = WorkOf'[r].portfolio
      PROVE  q = r
  <2>1. /\ runs'[q].status \in Active /\ runs'[r].status \in Active
        /\ runs'[q].portfolio = runs'[r].portfolio
    BY <1>2, <1>5 DEF Item, Ledger!Open, Active
  <2>2. QED
    BY <2>1 DEF IInv, TableInv
<1>6. QED
  BY <1>1, <1>2, <1>3, <1>4, <1>5 DEF Ledger!Proceed

\* The pairs that have a decision, before and after a new one.
LEMMA ResultAdded ==
  ASSUME IInv, NEW p \in Portfolio, NEW d \in Decision, NEW s \in Session, NewDecision(d, p, s)
  PROVE  /\ <<p, s>> \notin ResultsOf
         /\ ResultsOf' = ResultsOf \cup {<<p, s>>}
<1> DEFINE row == [portfolio |-> p, session |-> s]
<1>1. /\ decisions \in DecisionTable /\ decisions[d] = None
      /\ decisions' = [decisions EXCEPT ![d] = row]
      /\ row # None
  BY SoundRows, SentinelAssumption DEF NewDecision, DecisionRow
<1>2. <<p, s>> \notin ResultsOf
  <2> SUFFICES ASSUME NEW e \in Decision, decisions[e] # None,
                      decisions[e].portfolio = p, decisions[e].session = s
               PROVE  FALSE
    BY DEF ResultsOf
  <2>1. decisions[e] = row
    BY <1>1 DEF DecisionTable, DecisionRow
  <2>2. QED
    BY <2>1 DEF NewDecision, HasResult
<1>3. /\ decisions'[d] = row /\ row.portfolio = p /\ row.session = s
      /\ \A e \in Decision : e # d => decisions'[e] = decisions[e]
  BY <1>1 DEF DecisionTable
<1> HIDE DEF row
<1>4. QED
  BY <1>1, <1>2, <1>3 DEF ResultsOf

\* A result for running work is recorded in the ledger.
LEMMA RecordingRecords ==
  ASSUME IInv, IInv', NEW r \in Rows(runs), NEW d \in Decision, NEW s \in Session,
         Recording(r, d, s)
  PROVE  Ledger!Record(r, s)
<1>1. /\ decisions \in DecisionTable /\ runs \in Table /\ r \in Run
      /\ runs[r] \in RunRow /\ runs[r].portfolio \in Portfolio
      /\ \A q \in Rows(runs) : q \in Run /\ Sound(runs[q]) /\ ResultKept(runs[q], decisions)
  BY SoundRows DEF IInv, TableInv, Sound, RunRow
<1>2. /\ runs[r].status = "running" /\ runs[r].scheduled_for \in {s, None}
      /\ decisions[d] = None
      /\ decisions' = [decisions EXCEPT ![d] = [portfolio |-> runs[r].portfolio, session |-> s]]
      /\ runs' = [runs EXCEPT ![r].status = "succeeded", ![r].lease = None, ![r].result = d]
  BY DEF Recording, NewDecision, EndRun
<1>3. /\ <<runs[r].portfolio, s>> \notin ResultsOf
      /\ ResultsOf' = ResultsOf \cup {<<runs[r].portfolio, s>>}
  BY <1>1, ResultAdded DEF Recording
<1>4. /\ runs'[r] = [runs[r] EXCEPT !.status = "succeeded", !.lease = None, !.result = d]
      /\ \A q \in Run : q # r => runs'[q] = runs[q]
  BY <1>1, <1>2 DEF Table
<1>5. Rows(runs') = Rows(runs)
  <2>1. "succeeded" \in Status /\ d \in Decision \cup {None}
    BY DEF Status
  <2>2. [runs[r] EXCEPT !.status = "succeeded", !.lease = None, !.result = d] \in RunRow
    BY <1>1, <2>1 DEF RunRow
  <2>3. QED
    BY <1>1, <1>4, <2>2, SentinelAssumption DEF Rows
<1>6. Item(runs'[r], decisions') = [Item(runs[r], decisions) EXCEPT !.status = "succeeded", !.result = s]
  <2>1. d # None /\ decisions'[d].session = s
    BY <1>1, <1>2, SentinelAssumption DEF DecisionTable
  <2>2. /\ runs'[r].portfolio = runs[r].portfolio
        /\ runs'[r].scheduled_for = runs[r].scheduled_for
        /\ runs'[r].attempt_count = runs[r].attempt_count
        /\ runs'[r].status = "succeeded" /\ runs'[r].result = d
    BY <1>1, <1>4 DEF RunRow
  <2>3. Item(runs'[r], decisions') =
          [portfolio |-> runs[r].portfolio, scheduled_for |-> runs[r].scheduled_for,
           status |-> "succeeded", attempts |-> runs[r].attempt_count, result |-> s]
    BY <2>1, <2>2 DEF Item
  <2>4. DEFINE was == Item(runs[r], decisions)
  <2>5. /\ was \in Ledger!Item
        /\ was.portfolio = runs[r].portfolio /\ was.scheduled_for = runs[r].scheduled_for
        /\ was.attempts = runs[r].attempt_count
    BY <1>1, ItemType DEF Item
  <2> HIDE DEF was
  <2>6. \A i \in Ledger!Item :
          i = [portfolio |-> i.portfolio, scheduled_for |-> i.scheduled_for,
               status |-> i.status, attempts |-> i.attempts, result |-> i.result]
    BY DEF Ledger!Item
  <2>7. DEFINE is == [was EXCEPT !.status = "succeeded", !.result = s]
  <2>8. /\ is \in Ledger!Item /\ is.status = "succeeded" /\ is.result = s
        /\ is.portfolio = was.portfolio /\ is.scheduled_for = was.scheduled_for
        /\ is.attempts = was.attempts
    BY <2>5 DEF Ledger!Item, Ledger!Closed
  <2> HIDE DEF is
  <2>9. Item(runs'[r], decisions') = is
    BY <2>3, <2>5, <2>6, <2>8
  <2>10. QED
    BY <2>9 DEF was, is
<1>7. ASSUME NEW q \in Rows(runs), q # r
      PROVE  Item(runs'[q], decisions') = Item(runs[q], decisions)
  <2>1. runs'[q] = runs[q] /\ runs[q].result \in Decision \cup {None}
    BY <1>1, <1>4, <1>7 DEF Sound, RunRow
  <2>2. runs[q].result # None => runs[q].result # d
    BY <1>1, <1>2 DEF ResultKept
  <2>3. runs[q].result # None => decisions'[runs[q].result] = decisions[runs[q].result]
    BY <1>1, <1>2, <2>1, <2>2 DEF DecisionTable
  <2>4. QED
    BY <2>1, <2>3 DEF Item
<1>8. WorkOf' = [WorkOf EXCEPT ![r].status = "succeeded", ![r].result = s]
  BY <1>5, <1>6, <1>7, WorkItems
<1>9. WorkOf[r].portfolio = runs[r].portfolio /\ WorkOf[r].status = runs[r].status
      /\ WorkOf[r].scheduled_for = runs[r].scheduled_for
  BY WorkItems DEF Item
<1>10. QED
  BY <1>2, <1>3, <1>8, <1>9 DEF Ledger!Record

\* A decision entered by hand is entered in the ledger.
LEMMA EnteringEnters ==
  ASSUME IInv, NEW p \in Portfolio, NEW d \in Decision, NEW s \in Session, Entering(p, d, s)
  PROVE  Ledger!Enter(p, s)
<1>1. NewDecision(d, p, s) /\ runs' = runs
  BY DEF Entering
<1>2. <<p, s>> \notin ResultsOf /\ ResultsOf' = ResultsOf \cup {<<p, s>>}
  BY <1>1, ResultAdded
<1>3. ASSUME NEW r \in Rows(runs)
      PROVE  Item(runs[r], decisions') = Item(runs[r], decisions)
  <2>1. ResultKept(runs[r], decisions) /\ runs[r].result \in Decision \cup {None}
    BY SoundRows DEF Sound, RunRow
  <2>2. runs[r].result # None => runs[r].result # d
    BY <1>1, <2>1 DEF ResultKept, NewDecision
  <2>3. runs[r].result # None => decisions'[runs[r].result] = decisions[runs[r].result]
    BY <1>1, <2>1, <2>2, SoundRows DEF NewDecision, DecisionTable
  <2>4. QED
    BY <2>3 DEF Item
<1>4. WorkOf' = WorkOf
  BY <1>1, <1>3, WorkItems
<1>5. QED
  BY <1>2, <1>4 DEF Ledger!Enter

\* Erased rows and decisions are erased from the ledger, and what stays is backed.
LEMMA ErasingErases ==
  ASSUME IInv, IInv', NEW R, NEW D, Erasing(R, D)
  PROVE  Ledger!Erase
<1>1. /\ \A r \in Run : runs'[r] = IF r \in R THEN None ELSE runs[r]
      /\ \A d \in Decision : decisions'[d] = IF d \in D THEN None ELSE decisions[d]
      /\ \A r \in Rows(runs) : r \notin R => runs[r].result \notin D
  BY DEF Erasing, Erase
<1>2. ResultsOf' \subseteq ResultsOf
  BY <1>1 DEF ResultsOf
<1>3. ASSUME NEW r \in Rows(runs')
      PROVE  /\ r \in Rows(runs) /\ WorkOf'[r] = WorkOf[r]
             /\ WorkOf[r].result # None => <<WorkOf[r].portfolio, WorkOf[r].result>> \in ResultsOf'
  <2>1. r \in Rows(runs) /\ r \notin R /\ runs'[r] = runs[r]
    BY <1>1 DEF Rows
  <2>2. runs[r].result \in Decision \cup {None}
    BY <2>1, SoundRows DEF Sound, RunRow
  <2>3. runs[r].result # None => decisions'[runs[r].result] = decisions[runs[r].result]
    BY <1>1, <2>1, <2>2
  <2>4. WorkOf[r] = Item(runs[r], decisions) /\ WorkOf'[r] = WorkOf[r]
    BY <2>1, <2>3, WorkItems DEF Item
  <2>5. ASSUME runs[r].result # None
        PROVE  <<runs[r].portfolio, decisions'[runs[r].result].session>> \in ResultsOf'
    <3>1. /\ decisions'[runs[r].result] # None
          /\ decisions'[runs[r].result].portfolio = runs[r].portfolio
      BY <2>1, <2>5 DEF IInv, Owned
    <3>2. QED
      BY <2>2, <2>5, <3>1 DEF ResultsOf
  <2>6. QED
    BY <2>1, <2>3, <2>4, <2>5 DEF Item
<1>4. QED
  BY <1>2, <1>3, WorkItems DEF Ledger!Erase

\* The empty tables map to the empty ledger.
LEMMA InitLedger == Init => Ledger!Init
<1> SUFFICES ASSUME Init PROVE Ledger!Init
  OBVIOUS
<1>1. Rows(runs) = {} /\ ResultsOf = {}
  BY DEF Init, Rows, ResultsOf
<1>2. QED
  BY <1>1 DEF Ledger!Init, WorkOf

\* Every step of the queue is a step of the ledger, or leaves it as it is.
LEMMA StepLedger ==
  ASSUME IInv, [Next]_vars
  PROVE  [Ledger!Next]_(Ledger!ledger)
<1>1. IInv' /\ StepForm
  BY NextInv DEF StepOK, RowsStep
<1>2. CASE Progress
  BY <1>1, <1>2, ProgressProceeds DEF Ledger!Next
<1>3. CASE \E r \in Rows(runs), d \in Decision, s \in Session : Recording(r, d, s)
  <2>1. DOMAIN WorkOf = Rows(runs)
    BY DEF WorkOf
  <2>2. QED
    BY <1>1, <1>3, <2>1, RecordingRecords DEF Ledger!Next
<1>4. CASE \E p \in Portfolio, d \in Decision, s \in Session : Entering(p, d, s)
  BY <1>4, EnteringEnters DEF Ledger!Next
<1>5. CASE \E R, D : Erasing(R, D)
  BY <1>1, <1>5, ErasingErases DEF Ledger!Next
<1>6. QED
  BY <1>1, <1>2, <1>3, <1>4, <1>5 DEF StepForm

-----------------------------------------------------------------------------
\* The queue implements the ledger.
THEOREM QueueImplementsLedger == Spec => KeepsTheLedger
<1>1. IInv /\ [Next]_vars => [Ledger!Next]_(Ledger!ledger)
  BY StepLedger
<1>2. QED
  BY InitLedger, <1>1, SpecInv, PTL DEF Spec, KeepsTheLedger, Ledger!Spec
=============================================================================
