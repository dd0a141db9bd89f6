------------------------- MODULE EvaluatorWorkerProofs -------------------------
(***************************************************************************)
(* Proofs about EvaluatorWorker, for every value of its constants: a       *)
(* harness process holds the lease of its run for as long as it lives,     *)
(* from which it follows that portfolios are researched by one process at  *)
(* a time and that the processes of a harness stay within its limit.       *)
(*                                                                         *)
(* Every step of the workers is a step of the queue or leaves it alone, so *)
(* the queue's invariant comes from EvaluatorQueueProofs.                  *)
(***************************************************************************)
EXTENDS EvaluatorWorker, EvaluatorQueueProofs

\* An attempt between its claim and the end of its process.
Working == {"starting"} \cup Live

-----------------------------------------------------------------------------
(* The inductive invariant.  Clocks: a poll and a start are never older than  *)
(* Delay, a process never older than TimeoutLen.  Leases: what works has more *)
(* of its lease left than it may still take, so the clock of no pending poll  *)
(* is past it.  Calls: a submission in flight is of an attempt that is no     *)
(* longer working, so its completion takes nothing from a process.            *)

CallsInv ==
  \A c \in calls :
    /\ c.op = "claim" => c.reads.at <= now /\ now <= c.reads.at + Delay
    /\ c.op = "submit" =>
         /\ c.run \in Rows(runs) /\ c.attempt <= runs[c.run].attempt_count
         /\ \A a \in attempts : a.run = c.run /\ a.attempt = c.attempt => a.pc \notin Working

Timely(a) ==
  /\ a.pc = "starting" => a.since \in Time /\ a.since <= now /\ now <= a.since + Delay
  /\ a.pc \in Live => a.since \in Time /\ a.since <= now /\ now <= a.since + TimeoutLen

Backed(a) ==
  Exists(a) =>
    /\ a.attempt <= runs[a.run].attempt_count
    /\ a.harness = HarnessOf[runs[a.run].portfolio]
    /\ a.pc \in Working => Holds(a.run, a.attempt)
    /\ a.pc = "starting" => runs[a.run].lease >= a.since + LeaseLen
    /\ a.pc \in Live => runs[a.run].lease > a.since + TimeoutLen

WInv ==
  /\ IInv /\ WTypeOK /\ CallsInv
  /\ \A a \in attempts : Timely(a) /\ Backed(a)

-----------------------------------------------------------------------------
(* The steps of the workers as steps of the queue. *)

\* A step of the workers and their surroundings is a step of the queue, or leaves
\* it as it is.
LEMMA WorkersUseTheQueue ==
  ASSUME WTypeOK, [WNext]_workerVars
  PROVE  [Next]_vars
<1>1. CASE UNCHANGED workerVars
  BY <1>1 DEF workerVars
<1>2. CASE WTick
  BY <1>2 DEF WTick, Next
<1>3. CASE Environment
  <2>1. (\E n \in 1..MaxConcurrency : UpdateSettings(TRUE, n)) => Administer
    BY DEF Administer
  <2>2. (\E r \in Run : BeginRetry(r) \/ CancelRun(r) \/ DeleteRun(r)) => Administer
    BY DEF Administer
  <2>3. (\E h \in Harness : BeginClaim(h)) => Work
    BY DEF Work
  <2>4. \A c \in calls : c.op = "retry" /\ RetryRun(c) => Complete(c)
    BY DEF Complete
  <2>5. QED
    BY <1>3, <2>1, <2>2, <2>3, <2>4 DEF Environment, Next
<1>4. ASSUME NEW c \in calls, Answer(c) \/ Submitted(c) PROVE Next
  <2>1. Complete(c)
    BY <1>4 DEF Answer, Submitted, Complete
  <2>2. QED
    BY <2>1 DEF Next
<1>5. ASSUME NEW a \in attempts, Step(a) PROVE [Next]_vars
  <2>1. UNCHANGED vars \/ BeginSubmit(a.run) \/ FailRun(a.run)
    BY <1>5 DEF Step, Launch, Exit, TimeOut, Observe, Stopped, Send, GiveUp, Report, Stop, Quiet
  <2>2. a.run \in Run
    BY DEF WTypeOK, Attempt
  <2>3. QED
    BY <2>1, <2>2 DEF Next, Work
<1>6. CASE Shutdown
  BY <1>6 DEF Shutdown, Quiet
<1>7. QED
  BY <1>1, <1>2, <1>3, <1>4, <1>5, <1>6 DEF WNext

\* A row that stays keeps its portfolio, and its attempts are not given back.
LEMMA RowsGrow ==
  ASSUME IInv, [Next]_vars, NEW r \in Rows(runs), r \in Rows(runs')
  PROVE  /\ runs'[r].attempt_count >= runs[r].attempt_count
         /\ runs'[r].portfolio = runs[r].portfolio
<1>1. r \in Run /\ runs[r] \in RunRow /\ runs \in Table /\ runs'[r] # None
  BY DEF IInv, TableInv, Sound, Rows
<1>2. StepForm
  BY NextInv DEF StepOK, RowsStep
<1>3. CASE Progress
  BY <1>3 DEF Progress, Follows, SameWork
<1>4. ASSUME NEW q \in Rows(runs), NEW d, EndRun(q, "succeeded", d)
      PROVE  /\ runs'[r].attempt_count >= runs[r].attempt_count
             /\ runs'[r].portfolio = runs[r].portfolio
  <2>1. /\ runs'[r].attempt_count = runs[r].attempt_count
        /\ runs'[r].portfolio = runs[r].portfolio
    BY <1>1, <1>4 DEF EndRun, Table, RunRow
  <2>2. runs[r].attempt_count \in Int
    BY <1>1 DEF RunRow
  <2>3. QED
    BY <2>1, <2>2
<1>5. ASSUME runs'[r] = runs[r]
      PROVE  /\ runs'[r].attempt_count >= runs[r].attempt_count
             /\ runs'[r].portfolio = runs[r].portfolio
  BY <1>1, <1>5 DEF RunRow
<1>6. CASE \E p \in Portfolio, d \in Decision, s \in Session : Entering(p, d, s)
  BY <1>5, <1>6 DEF Entering
<1>7. CASE \E R, D : Erasing(R, D)
  BY <1>1, <1>5, <1>7 DEF Erasing, Erase
<1>8. QED
  BY <1>2, <1>3, <1>4, <1>6, <1>7 DEF StepForm, Recording

-----------------------------------------------------------------------------
(* What can happen to the row of a working attempt: nothing, a request to     *)
(* cancel it, or its deletion.                                                *)

Undisturbed(r) ==
  \/ runs'[r] = None
  \/ runs'[r] = runs[r]
  \/ runs[r].status = "running" /\ runs'[r] = [runs[r] EXCEPT !.status = "cancel_requested"]

\* The lease of a working attempt has not run out.
LEMMA WorkingIsLeased ==
  ASSUME WInv, NEW a \in attempts, a.pc \in Working, Exists(a)
  PROVE  /\ a.run \in Rows(runs) /\ runs[a.run] \in RunRow /\ runs[a.run].status \in Leased
         /\ runs[a.run].attempt_count = a.attempt
         /\ runs[a.run].lease \in Expiry /\ now < runs[a.run].lease
<1>1. Timely(a) /\ Backed(a) /\ TableInv(runs) /\ now \in Time
  BY DEF WInv, IInv, TypeOK
<1>2. /\ a.run \in Rows(runs) /\ runs[a.run].status \in Leased
      /\ runs[a.run].attempt_count = a.attempt
  BY <1>1 DEF Backed, Holds, With
<1>3. runs[a.run] \in RunRow /\ runs[a.run].lease \in Expiry
  BY <1>1, <1>2 DEF TableInv, Sound, RunRow
<1>4. now < runs[a.run].lease
  <2>1. CASE a.pc = "starting"
    BY <1>1, <1>3, <2>1, ConstantsAssumption, GraceAssumption DEF Timely, Backed, Time, Expiry
  <2>2. CASE a.pc \in Live
    BY <1>1, <1>3, <2>2, ConstantsAssumption, GraceAssumption DEF Timely, Backed, Time, Expiry
  <2>3. QED
    BY <2>1, <2>2 DEF Working
<1>5. QED
  BY <1>2, <1>3, <1>4

\* No poll recovers it, for the clock of a poll is never ahead.
LEMMA PollsPassBy ==
  ASSUME WInv, NEW a \in attempts, a.pc \in Working, Exists(a),
         NEW c \in calls, c.op = "claim", ClaimRuns(c)
  PROVE  Undisturbed(a.run)
<1>1. /\ a.run \in Rows(runs) /\ runs[a.run].status \in Leased
      /\ runs[a.run].lease \in Expiry /\ now < runs[a.run].lease
  BY WorkingIsLeased
<1>2. TableInv(runs) /\ max_concurrency \in Nat /\ c.reads \in Reads /\ now \in Time
  BY CallTypes, ConstantsAssumption DEF WInv, IInv, TypeOK, ClaimCall
<1>3. c.reads.at <= now
  BY DEF WInv, CallsInv
<1>4. c.reads.at \in Int /\ now \in Int /\ runs[a.run].lease \in Int
  BY <1>1, <1>2, ConstantsAssumption DEF Reads, Time, Expiry
<1>5. a.run \notin Stale(runs, c.reads.at) /\ runs[a.run].status # "queued"
  BY <1>1, <1>3, <1>4 DEF Stale, Leased
<1>6. PICK seen \in Sightings : Claim(c, seen)
  BY DEF ClaimRuns
<1>7. a.run \in Rows(runs') => runs'[a.run] = runs[a.run]
  BY <1>1, <1>2, <1>5, <1>6, ClaimRows DEF Claimed, LeftByClaim
<1>8. QED
  BY <1>1, <1>7 DEF Undisturbed, Rows

\* Nor does any other step of the system disturb it.
LEMMA WorkingUndisturbed ==
  ASSUME WInv, [WNext]_workerVars, NEW a \in attempts, a.pc \in Working, Exists(a)
  PROVE  Undisturbed(a.run)
<1>1. /\ a.run \in Rows(runs) /\ runs[a.run] \in RunRow /\ runs[a.run].status \in Leased
      /\ runs[a.run].attempt_count = a.attempt /\ a.run \in Run
  BY WorkingIsLeased DEF Rows
<1>2. runs \in Table
  BY DEF WInv, IInv, TableInv
<1>3. ASSUME NEW r \in Run, r # a.run, NEW new, runs' = [runs EXCEPT ![r] = new]
      PROVE  runs'[a.run] = runs[a.run]
  BY <1>1, <1>2, <1>3 DEF Table
<1>4. CASE UNCHANGED runs
  BY <1>4 DEF Undisturbed
<1>5. CASE Environment
  <2>1. ASSUME NEW r \in Run, CancelRun(r) PROVE Undisturbed(a.run)
    <3>1. CASE r = a.run
      <4>1. runs[r].status # "queued" /\ runs[r].status = "running"
        BY <1>1, <2>1, <3>1 DEF CancelRun, With, Leased
      <4>2. runs' = [runs EXCEPT ![r] = [runs[r] EXCEPT !.status = "cancel_requested"]]
        BY <1>2, <2>1, <4>1 DEF CancelRun, With, Table
      <4>3. runs'[r] = [runs[r] EXCEPT !.status = "cancel_requested"]
        BY <1>2, <4>2 DEF Table
      <4>4. QED
        BY <3>1, <4>1, <4>3 DEF Undisturbed
    <3>2. CASE r # a.run
      BY <1>1, <1>2, <2>1, <3>2 DEF CancelRun, Undisturbed, Table
    <3>3. QED
      BY <3>1, <3>2
  <2>2. ASSUME NEW r \in Run, DeleteRun(r) PROVE Undisturbed(a.run)
    BY <1>1, <2>2 DEF DeleteRun, Erase, Undisturbed
  <2>3. ASSUME NEW c \in calls, RetryRun(c) PROVE Undisturbed(a.run)
    <3>1. CASE UNCHANGED runs
      BY <3>1 DEF Undisturbed
    <3>2. CASE InsertRun(NewRun(runs[c.run].portfolio, FALSE, runs[c.run].scheduled_for))
      <4>1. PICK q \in Run \ Rows(runs) :
              runs' = [runs EXCEPT ![q] = NewRun(runs[c.run].portfolio, FALSE,
                                                 runs[c.run].scheduled_for)]
        BY <3>2 DEF InsertRun
      <4>2. QED
        BY <1>1, <1>3, <4>1 DEF Undisturbed
    <3>3. QED
      BY <2>3, <3>1, <3>2 DEF RetryRun
  <2>4. ASSUME \/ \E n \in 1..MaxConcurrency : UpdateSettings(TRUE, n)
               \/ \E r \in Run : BeginRetry(r)
               \/ \E h \in Harness : BeginClaim(h)
        PROVE  UNCHANGED runs
    BY <2>4 DEF UpdateSettings, BeginRetry, BeginClaim
  <2>5. QED
    BY <1>4, <1>5, <2>1, <2>2, <2>3, <2>4 DEF Environment
<1>6. ASSUME NEW c \in calls, Answer(c) PROVE Undisturbed(a.run)
  BY <1>6, PollsPassBy DEF Answer
<1>7. ASSUME NEW c \in calls, Submitted(c) PROVE Undisturbed(a.run)
  <2>1. c.op = "submit" /\ SubmitRun(c)
    BY <1>7 DEF Submitted
  <2>2. ~(c.run = a.run /\ c.attempt = a.attempt)
    BY <2>1 DEF WInv, CallsInv
  <2>3. CASE UNCHANGED runs
    BY <2>3 DEF Undisturbed
  <2>4. CASE SubmitCancelled(c) \/ SubmitSkipped(c) \/ SubmitRecorded(c)
    <3>1. IsCurrent(c.run, c.attempt) /\ \E status, d : EndRun(c.run, status, d)
      BY <2>4 DEF SubmitCancelled, SubmitSkipped, SubmitRecorded, InLease
    <3>2. c.run \in Run /\ c.run # a.run
      BY <1>1, <2>2, <3>1 DEF IsCurrent, Rows
    <3>3. runs'[a.run] = runs[a.run]
      BY <1>1, <1>2, <3>1, <3>2 DEF EndRun, Table
    <3>4. QED
      BY <3>3 DEF Undisturbed
  <2>5. QED
    BY <2>1, <2>3, <2>4 DEF SubmitRun, SubmitRefused
<1>8. ASSUME NEW b \in attempts, Step(b) PROVE Undisturbed(a.run)
  <2>1. UNCHANGED runs \/ (b.pc = "failing" /\ Current(b) /\ FailRun(b.run))
    BY <1>8 DEF Step, Launch, Exit, TimeOut, Observe, Stopped, Send, GiveUp, Report, Stop,
                Quiet, vars, BeginSubmit
  <2>2. CASE b.pc = "failing" /\ Current(b) /\ FailRun(b.run)
    <3>1. a # b
      BY <2>2 DEF Working, Live
    <3>2. b.run # a.run
      BY <1>1, <2>2, <3>1 DEF Current, IsCurrent, WInv, WTypeOK
    <3>3. runs'[a.run] = runs[a.run]
      BY <1>1, <1>2, <2>2, <3>2 DEF FailRun, Table
    <3>4. QED
      BY <3>3 DEF Undisturbed
  <2>3. QED
    BY <1>4, <2>1, <2>2
<1>9. CASE UNCHANGED workerVars \/ WTick \/ Shutdown
  BY <1>4, <1>9 DEF workerVars, vars, WTick, Tick, Shutdown, Quiet
<1>10. QED
  BY <1>5, <1>6, <1>7, <1>8, <1>9 DEF WNext

-----------------------------------------------------------------------------
(* What a step does to the attempts: each moves on or leaves, and the answer  *)
(* of a poll adds those it started.                                           *)

Evolves(a, b) ==
  /\ b \in Attempt /\ b.run = a.run /\ b.attempt = a.attempt /\ b.harness = a.harness
  /\ \/ b = a
     \/ b.pc \notin Working
     \/ a.pc = "starting" /\ b.pc = "process" /\ b.since = now
     \/ a.pc = "process" /\ b.pc = "stopping" /\ b.since = a.since

New(b) ==
  /\ UNCHANGED <<now, decisions>>
  /\ \E c \in calls : c.op = "claim" /\ ClaimRuns(c) /\ b \in StartedBy(c)

\* Become replaces one attempt by what it evolves to.
LEMMA BecomeEvolves ==
  ASSUME WTypeOK, NEW a \in attempts, NEW b, Evolves(a, b), Become(a, b)
  PROVE  \E F : /\ \A x \in attempts : Evolves(x, F[x])
                /\ \A x \in attempts' : \E y \in attempts : x = F[y]
<1> DEFINE F == [x \in attempts |-> IF x = a THEN b ELSE x]
<1>1. \A x \in attempts : Evolves(x, F[x])
  BY DEF Evolves, WTypeOK
<1>2. \A x \in attempts' : \E y \in attempts : x = F[y]
  BY DEF Become
<1> HIDE DEF F
<1>3. QED
  BY <1>1, <1>2

\* Attempts that are only kept or dropped evolve as they are.
LEMMA KeptEvolve ==
  ASSUME WTypeOK, attempts' \subseteq attempts
  PROVE  \E F : /\ \A x \in attempts : Evolves(x, F[x])
                /\ \A x \in attempts' : \E y \in attempts : x = F[y]
<1> DEFINE F == [x \in attempts |-> x]
<1>1. \A x \in attempts : Evolves(x, F[x])
  BY DEF Evolves, WTypeOK
<1>2. \A x \in attempts' : \E y \in attempts : x = F[y]
  OBVIOUS
<1> HIDE DEF F
<1>3. QED
  BY <1>1, <1>2

\* The steps of one attempt.
LEMMA StepEvolves ==
  ASSUME WTypeOK, NEW a \in attempts, Step(a), now \in Time
  PROVE  \E F : /\ \A x \in attempts : Evolves(x, F[x])
                /\ \A x \in attempts' : \E y \in attempts : x = F[y]
<1>1. a \in Attempt
  BY DEF WTypeOK
<1>2. CASE Launch(a)
  <2>1. Evolves(a, [a EXCEPT !.pc = "process", !.since = now])
    BY <1>1, <1>2 DEF Launch, Evolves, Attempt, Live
  <2>2. QED
    BY <1>2, <2>1, BecomeEvolves DEF Launch
<1>3. ASSUME NEW next \in {"submitting", "failing"}, Stop(a, next), a.pc = "process"
      PROVE  \E F : /\ \A x \in attempts : Evolves(x, F[x])
                    /\ \A x \in attempts' : \E y \in attempts : x = F[y]
  <2>1. Evolves(a, [a EXCEPT !.pc = "stopping", !.next = next])
    BY <1>1, <1>3 DEF Evolves, Attempt, Live
  <2>2. QED
    BY <1>3, <2>1, BecomeEvolves DEF Stop
<1>4. CASE Stopped(a)
  <2>1. a.next \in {"submitting", "failing"}
    BY <1>1 DEF Attempt
  <2>2. Evolves(a, [a EXCEPT !.pc = a.next, !.since = None, !.next = "failing"])
    BY <1>1, <2>1 DEF Evolves, Attempt, Live, Working
  <2>3. QED
    BY <1>4, <2>2, BecomeEvolves DEF Stopped
<1>5. CASE Send(a) \/ GiveUp(a)
  <2>1. PICK pc \in {"sent", "failing"} : Become(a, [a EXCEPT !.pc = pc])
    BY <1>5 DEF Send, GiveUp
  <2>2. Evolves(a, [a EXCEPT !.pc = pc])
    BY <1>1 DEF Evolves, Attempt, Live, Working
  <2>3. QED
    BY <2>1, <2>2, BecomeEvolves
<1>6. CASE Report(a)
  BY <1>6, KeptEvolve DEF Report, Drop
<1>7. QED
  BY <1>2, <1>3, <1>4, <1>5, <1>6 DEF Step, Exit, TimeOut, Observe

\* Every step.
LEMMA AttemptsMove ==
  ASSUME WTypeOK, now \in Time, [WNext]_workerVars
  PROVE  \E F : /\ \A x \in attempts : Evolves(x, F[x])
                /\ \A x \in attempts' : New(x) \/ \E y \in attempts : x = F[y]
<1>1. CASE attempts' \subseteq attempts
  BY <1>1, KeptEvolve
<1>2. ASSUME NEW a \in attempts, Step(a)
      PROVE  \E F : /\ \A x \in attempts : Evolves(x, F[x])
                    /\ \A x \in attempts' : New(x) \/ \E y \in attempts : x = F[y]
  BY <1>2, StepEvolves
<1>3. ASSUME NEW c \in calls, Answer(c)
      PROVE  \E F : /\ \A x \in attempts : Evolves(x, F[x])
                    /\ \A x \in attempts' : New(x) \/ \E y \in attempts : x = F[y]
  <2> DEFINE F == [x \in attempts |-> x]
  <2>1. \A x \in attempts : Evolves(x, F[x])
    BY DEF Evolves, WTypeOK
  <2>2. attempts' \subseteq attempts \cup StartedBy(c)
    BY <1>3 DEF Answer
  <2>3. \A x \in StartedBy(c) : New(x)
    <3>1. UNCHANGED <<now, decisions>>
      BY <1>3 DEF Answer, ClaimRuns, Claim
    <3>2. QED
      BY <1>3, <3>1 DEF New, Answer
  <2>4. \A x \in attempts' : New(x) \/ \E y \in attempts : x = F[y]
    BY <2>2, <2>3
  <2> HIDE DEF F
  <2>5. QED
    BY <2>1, <2>4
<1>4. ASSUME NEW c \in calls, Submitted(c)
      PROVE  \E F : /\ \A x \in attempts : Evolves(x, F[x])
                    /\ \A x \in attempts' : New(x) \/ \E y \in attempts : x = F[y]
  <2> DEFINE waiting == {a \in attempts : a.pc = "sent" /\ a.run = c.run /\ a.attempt = c.attempt}
             F == [x \in attempts |-> IF x \in waiting THEN [x EXCEPT !.pc = "failing"] ELSE x]
  <2>1. \A x \in attempts : Evolves(x, F[x])
    BY DEF Evolves, WTypeOK, Attempt, Working, Live
  <2>2. attempts' \subseteq (attempts \ waiting) \cup {[a EXCEPT !.pc = "failing"] : a \in waiting}
    BY <1>4 DEF Submitted
  <2>3. \A x \in attempts' : \E y \in attempts : x = F[y]
    <3>1. ASSUME NEW x \in attempts' PROVE \E y \in attempts : x = F[y]
      <4>1. CASE x \in attempts \ waiting
        BY <4>1
      <4>2. CASE x \in {[a EXCEPT !.pc = "failing"] : a \in waiting}
        BY <4>2
      <4> HIDE DEF waiting
      <4>3. QED
        BY <2>2, <4>1, <4>2
    <3>2. QED
      BY <3>1
  <2> HIDE DEF F
  <2>4. QED
    BY <2>1, <2>3
<1>5. (UNCHANGED workerVars \/ WTick \/ Shutdown \/ (Environment /\ UNCHANGED attempts))
        => attempts' \subseteq attempts
  BY DEF workerVars, WTick, Shutdown
<1>6. QED
  BY <1>1, <1>2, <1>3, <1>4, <1>5 DEF WNext

\* The attempts a poll starts are well formed, timely and backed by their leases,
\* and newer than every attempt and every submission of their run.
LEMMA NewAttempts ==
  ASSUME WInv, [WNext]_workerVars, NEW b \in attempts', New(b)
  PROVE  /\ b \in Attempt /\ b.pc = "starting" /\ Timely(b)' /\ Backed(b)'
         /\ b.run \in Rows(runs') /\ b.attempt = runs'[b.run].attempt_count
         /\ b.run \in Rows(runs) => b.attempt > runs[b.run].attempt_count
<1>1. PICK c \in calls : c.op = "claim" /\ ClaimRuns(c) /\ b \in StartedBy(c)
  BY DEF New
<1>2. PICK r \in Run : /\ Started(r)
                       /\ b = [run |-> r, attempt |-> runs'[r].attempt_count,
                               harness |-> c.harness, since |-> c.reads.at,
                               pc |-> "starting", next |-> "failing"]
  BY <1>1 DEF StartedBy
<1>3. IInv /\ c \in ClaimCall /\ c.reads \in Reads
  BY <1>1, CallTypes DEF WInv, IInv, ClaimCall
<1>4. Claimed(c, r)
  BY <1>1, <1>2, <1>3, ClaimStarts
<1>5. TableInv(runs')
  <2>1. WTypeOK
    BY DEF WInv
  <2>2. QED
    BY <1>3, <2>1, WorkersUseTheQueue, NextInv DEF StepOK, IInv
<1>6. r \in Rows(runs') /\ runs'[r] \in RunRow
  BY <1>2, <1>5 DEF Started, TableInv, Sound
<1>7. /\ b.run = r /\ b.attempt = runs'[r].attempt_count /\ b.since = c.reads.at
      /\ b.pc = "starting" /\ b.harness = c.harness
  BY <1>2
<1>8. runs'[r].attempt_count \in 1..MaxAttempts /\ c.reads.at \in Time /\ c.harness \in Harness
  <2>1. runs'[r].attempt_count \in 0..MaxAttempts /\ runs'[r].attempt_count > 0
    BY <1>4, <1>5, <1>6 DEF TableInv, Sound, RunRow, Claimed, Leased
  <2>2. QED
    BY <1>3, <2>1, ConstantsAssumption DEF Reads, ClaimCall
<1>9. b \in Attempt
  BY <1>2, <1>8 DEF Attempt
<1>10. Timely(b)'
  <2>1. c.reads.at <= now /\ now <= c.reads.at + Delay
    BY <1>1 DEF WInv, CallsInv
  <2>2. now' = now
    BY DEF New
  <2>3. QED
    BY <1>7, <1>8, <2>1, <2>2 DEF Timely, Live
<1>11. r \in Rows(runs) => b.attempt > runs[r].attempt_count
  BY <1>3, <1>4, <1>7, <1>8 DEF Claimed, Before, IInv, TableInv, Sound, RunRow
<1>12. Backed(b)'
  BY <1>4, <1>6, <1>7, <1>8, ConstantsAssumption
     DEF Backed, Claimed, Holds, With, Leased, Working, Live, Time
<1>13. QED
  BY <1>6, <1>7, <1>9, <1>10, <1>11, <1>12

\* No slot of a remembered run is used again.
LEMMA SlotsStay ==
  ASSUME [WNext]_workerVars, NEW a \in attempts, a.run \in Rows(runs')
  PROVE  a.run \in Rows(runs)
<1>1. CASE NoReuse
  BY <1>1 DEF NoReuse, Rows
<1>2. CASE UNCHANGED workerVars
  BY <1>2 DEF workerVars, vars, Rows
<1>3. QED
  BY <1>1, <1>2 DEF WNext

\* Only the clock's own step moves it.
LEMMA ClockMoves ==
  ASSUME [WNext]_workerVars
  PROVE  WTick \/ now' = now
<1>1. ASSUME NEW c \in calls, Answer(c) \/ Submitted(c) PROVE now' = now
  BY <1>1 DEF Answer, Submitted, ClaimRuns, Claim, SubmitRun
<1>2. ASSUME NEW x \in attempts, Step(x) PROVE now' = now
  BY <1>2 DEF Step, Launch, Exit, TimeOut, Observe, Stopped, Send, GiveUp, Report, Stop,
              Quiet, vars, BeginSubmit, FailRun
<1>3. Environment => now' = now
  BY DEF Environment, UpdateSettings, BeginRetry, CancelRun, DeleteRun, Erase, BeginClaim, RetryRun
<1>4. Shutdown \/ UNCHANGED workerVars => now' = now
  BY DEF Shutdown, Quiet, vars, workerVars
<1>5. QED
  BY <1>1, <1>2, <1>3, <1>4 DEF WNext

\* An attempt that moves on stays within its time.
LEMMA EvolvedIsTimely ==
  ASSUME WInv, [WNext]_workerVars, NEW a \in attempts, NEW b \in attempts', Evolves(a, b)
  PROVE  Timely(b)'
<1>1. Timely(a) /\ a \in Attempt /\ now \in Time /\ now \in Int
  BY ConstantsAssumption DEF WInv, WTypeOK, IInv, TypeOK, Time
<1>2. CASE WTick
  <2>1. now' = now + 1 /\ InTime /\ UNCHANGED attempts
    BY <1>2 DEF WTick, Tick
  <2>2. /\ b.pc = "starting" => now < b.since + Delay
        /\ b.pc \in Live => now < b.since + TimeoutLen
    BY <2>1 DEF InTime
  <2>3. Timely(b)
    BY <2>1 DEF WInv
  <2>4. QED
    BY <1>1, <2>1, <2>2, <2>3, ConstantsAssumption, GraceAssumption DEF Timely, Time
<1>3. CASE now' = now
  <2>1. CASE b = a
    BY <1>1, <1>3, <2>1 DEF Timely
  <2>2. CASE b.pc \notin Working
    BY <1>1, <2>2 DEF Timely, Working
  <2>3. CASE b.pc = "process" /\ b.since = now
    BY <1>1, <1>3, <2>3, GraceAssumption DEF Timely, Live
  <2>4. CASE a.pc = "process" /\ b.pc = "stopping" /\ b.since = a.since
    BY <1>1, <1>3, <2>4 DEF Timely, Live
  <2>5. QED
    BY <2>1, <2>2, <2>3, <2>4 DEF Evolves
<1>4. QED
  BY <1>2, <1>3, ClockMoves

\* And if it works, it keeps the lease it needs.
LEMMA EvolvedIsBacked ==
  ASSUME WInv, [WNext]_workerVars, NEW a \in attempts, NEW b \in attempts', Evolves(a, b)
  PROVE  Backed(b)'
<1> SUFFICES ASSUME b.run \in Rows(runs')
             PROVE  /\ b.attempt <= runs'[b.run].attempt_count
                    /\ b.harness = HarnessOf[runs'[b.run].portfolio]
                    /\ b.pc \in Working => Holds(b.run, b.attempt)'
                    /\ b.pc = "starting" => runs'[b.run].lease >= b.since + LeaseLen
                    /\ b.pc \in Live => runs'[b.run].lease > b.since + TimeoutLen
  BY DEF Backed, Exists
<1> DEFINE r == a.run
<1>1. /\ b.run = r /\ b.attempt = a.attempt /\ b.harness = a.harness /\ r \in Rows(runs)
      /\ a \in Attempt
  BY SlotsStay DEF Evolves, WInv, WTypeOK
<1>2. Timely(a) /\ Backed(a) /\ Exists(a) /\ IInv /\ WTypeOK /\ TableInv(runs) /\ r \in Run
  BY <1>1 DEF WInv, Exists, IInv, Rows
<1>3. [Next]_vars
  BY <1>2, WorkersUseTheQueue
<1>4. TableInv(runs')
  BY <1>2, <1>3, NextInv DEF StepOK, IInv
<1>5. /\ runs'[r].attempt_count >= runs[r].attempt_count
      /\ runs'[r].portfolio = runs[r].portfolio
  BY <1>1, <1>2, <1>3, RowsGrow
<1>6. /\ runs[r].attempt_count \in Int /\ runs'[r].attempt_count \in Int /\ a.attempt \in Int
      /\ runs[r] \in RunRow /\ runs'[r] # None
  BY <1>1, <1>2, <1>4 DEF TableInv, Sound, RunRow, Attempt, Rows
<1>7. b.attempt <= runs'[b.run].attempt_count /\ b.harness = HarnessOf[runs'[b.run].portfolio]
  BY <1>1, <1>2, <1>5, <1>6 DEF Backed
<1>8. CASE b.pc \notin Working
  BY <1>7, <1>8 DEF Working
<1>9. CASE b.pc \in Working
  <2>1. /\ a.pc \in Working /\ (b.pc = "starting" => a.pc = "starting")
        /\ \/ b.since = a.since /\ (b.pc \in Live => a.pc \in Live)
           \/ a.pc = "starting" /\ b.pc \in Live /\ b.since = now
    BY <1>9 DEF Evolves, Working, Live
  <2>2. /\ runs[r].status \in Leased /\ runs[r].attempt_count = a.attempt
        /\ runs[r].lease \in Expiry
    BY <1>2, <2>1, WorkingIsLeased
  <2>3. runs'[r] = runs[r] \/ runs'[r] = [runs[r] EXCEPT !.status = "cancel_requested"]
    BY <1>2, <1>6, <2>1, WorkingUndisturbed DEF Undisturbed
  <2>4. /\ runs'[r].status \in Leased /\ runs'[r].attempt_count = a.attempt
        /\ runs'[r].lease = runs[r].lease
    BY <1>6, <2>2, <2>3 DEF RunRow, Leased
  <2>5. Holds(b.run, b.attempt)'
    BY <1>1, <2>4 DEF Holds, With
  <2>6. b.pc = "starting" => runs'[r].lease >= b.since + LeaseLen
    BY <1>2, <2>1, <2>4 DEF Backed, Live
  <2>7. b.pc \in Live => runs'[r].lease > b.since + TimeoutLen
    <3>1. CASE a.pc \in Live /\ b.since = a.since
      BY <1>2, <2>4, <3>1 DEF Backed
    <3>2. CASE a.pc = "starting" /\ b.since = now
      <4>1. runs[r].lease >= a.since + LeaseLen /\ now <= a.since + Delay /\ a.since \in Time
        BY <1>2, <3>2 DEF Backed, Timely
      <4>2. now \in Int /\ a.since \in Int /\ runs[r].lease \in Int
        BY <1>2, <2>2, <4>1, ConstantsAssumption DEF IInv, TypeOK, Time, Expiry
      <4>3. QED
        BY <2>4, <3>2, <4>1, <4>2, ConstantsAssumption, GraceAssumption
    <3>3. QED
      BY <2>1, <3>1, <3>2 DEF Live
  <2>8. QED
    BY <1>1, <1>7, <2>5, <2>6, <2>7
<1>10. QED
  BY <1>8, <1>9

\* An attempt is held once.
LEMMA HeldOnce ==
  ASSUME WInv, [WNext]_workerVars
  PROVE  WTypeOK'
<1>1. WTypeOK /\ now \in Time
  BY DEF WInv, IInv, TypeOK
<1>2. PICK F : /\ \A x \in attempts : Evolves(x, F[x])
               /\ \A x \in attempts' : New(x) \/ \E y \in attempts : x = F[y]
  BY <1>1, AttemptsMove
<1>3. attempts' \subseteq Attempt
  BY <1>2, NewAttempts DEF Evolves
<1>4. ASSUME NEW x \in attempts, NEW b \in attempts', New(b)
      PROVE  ~(x.run = b.run /\ x.attempt = b.attempt)
  <2>1. /\ b.run \in Rows(runs')
        /\ b.run \in Rows(runs) => b.attempt > runs[b.run].attempt_count
    BY <1>4, NewAttempts
  <2>2. x.run = b.run => x.run \in Rows(runs) /\ x.attempt <= runs[x.run].attempt_count
    BY <2>1, SlotsStay DEF WInv, Backed, Exists
  <2>3. /\ x.attempt \in Int /\ b.attempt \in Int
        /\ x.run \in Rows(runs) => runs[x.run].attempt_count \in Int
    BY <1>1, <1>3 DEF WTypeOK, Attempt, WInv, IInv, TableInv, Sound, RunRow
  <2>4. QED
    BY <2>1, <2>2, <2>3
<1>5. ASSUME NEW b \in attempts', NEW d \in attempts', New(b), New(d),
             b.run = d.run, b.attempt = d.attempt
      PROVE  b = d
  <2>1. PICK c \in calls : c.op = "claim" /\ ClaimRuns(c) /\ b \in StartedBy(c)
    BY <1>5 DEF New
  <2>2. PICK e \in calls : e.op = "claim" /\ ClaimRuns(e) /\ d \in StartedBy(e)
    BY <1>5 DEF New
  <2>3. c = e
    BY <2>1, <2>2 DEF ClaimRuns, Claim
  <2>4. QED
    BY <1>5, <2>1, <2>2, <2>3 DEF StartedBy
<1>6. ASSUME NEW b \in attempts', NEW d \in attempts', b.run = d.run, b.attempt = d.attempt
      PROVE  b = d
  <2>1. CASE New(b) /\ New(d)
    BY <1>5, <1>6, <2>1
  <2>2. ASSUME NEW x \in attempts, NEW y \in attempts', NEW z \in attempts',
               y = F[x], New(z), y.run = z.run, y.attempt = z.attempt
        PROVE  FALSE
    BY <1>2, <1>4, <2>2 DEF Evolves
  <2>3. ASSUME NEW x \in attempts, NEW y \in attempts, b = F[x], d = F[y]
        PROVE  b = d
    BY <1>1, <1>2, <1>6, <2>3 DEF Evolves, WTypeOK
  <2>4. QED
    BY <1>2, <1>6, <2>1, <2>2, <2>3
<1>7. QED
  BY <1>3, <1>6 DEF WTypeOK

-----------------------------------------------------------------------------
(* What a step does to the calls in flight. *)

\* The submission of attempt a, on its way.
SentBy(a, c) ==
  /\ c.op = "submit" /\ c.run = a.run /\ c.attempt = a.attempt
  /\ Current(a) /\ UNCHANGED runs
  /\ Become(a, [a EXCEPT !.pc = "sent"])

\* A call that a step adds is a poll with the present clock, a retry, or the
\* submission of an attempt that waits for its answer.
LEMMA NewCalls ==
  ASSUME WTypeOK, [WNext]_workerVars, NEW c \in calls' \ calls
  PROVE  \/ c.op = "claim" /\ c.reads.at = now /\ now' = now
         \/ c.op = "retry"
         \/ \E a \in attempts : SentBy(a, c)
<1>1. CASE Environment
  <2>1. ASSUME NEW h \in Harness, BeginClaim(h)
        PROVE  c.op = "claim" /\ c.reads.at = now /\ now' = now
    BY <2>1 DEF BeginClaim, ReadsOf
  <2>2. ASSUME NEW r \in Run, BeginRetry(r) PROVE c.op = "retry"
    BY <2>2 DEF BeginRetry
  <2>3. QED
    BY <1>1, <2>1, <2>2 DEF Environment, UpdateSettings, CancelRun, DeleteRun, Erase, RetryRun
<1>2. ASSUME NEW d \in calls, Answer(d) \/ Submitted(d) PROVE FALSE
  BY <1>2 DEF Answer, Submitted, ClaimRuns, Claim, SubmitRun
<1>3. ASSUME NEW a \in attempts, Step(a) PROVE \E x \in attempts : SentBy(x, c)
  <2>1. Send(a) /\ ~Quiet
    BY <1>3 DEF Step, Launch, Exit, TimeOut, Observe, Stopped, Send, GiveUp, Report, Stop,
                Quiet, vars, FailRun
  <2>2. Current(a) /\ BeginSubmit(a.run) /\ Become(a, [a EXCEPT !.pc = "sent"])
    BY <2>1 DEF Send
  <2>3. c.op = "submit" /\ c.run = a.run /\ c.attempt = a.attempt /\ UNCHANGED runs
    BY <2>2 DEF BeginSubmit, Current, IsCurrent
  <2>4. QED
    BY <2>2, <2>3 DEF SentBy
<1>4. ~(WTick \/ Shutdown \/ UNCHANGED workerVars)
  BY DEF WTick, Tick, Shutdown, Quiet, vars, workerVars
<1>5. QED
  BY <1>1, <1>2, <1>3, <1>4 DEF WNext

\* The row of a submission that stays in flight stays.
LEMMA SubmittedRowStays ==
  ASSUME IInv, [Next]_vars, NEW c \in calls \cap calls', c.op = "submit", c.run \in Rows(runs)
  PROVE  c.run \in Rows(runs')
<1>1. c.run \in Run /\ runs[c.run] # None /\ runs[c.run] \in RunRow /\ runs \in Table
  BY DEF IInv, TableInv, Sound, Rows
<1>2. StepForm
  BY NextInv DEF StepOK, RowsStep
<1>3. CASE Progress
  BY <1>1, <1>3 DEF Progress, Rows
<1>4. ASSUME NEW r \in Rows(runs), NEW d \in Decision, EndRun(r, "succeeded", d)
      PROVE  runs'[c.run] # None
  <2>1. CASE r = c.run
    <3> DEFINE new == [runs[r] EXCEPT !.status = "succeeded", !.lease = None, !.result = d]
    <3>1. runs[r] \in RunRow /\ r \in Run
      BY <1>1, <2>1
    <3>2. runs' = [runs EXCEPT ![r] = new]
      BY <1>1, <1>4, <3>1 DEF EndRun, Table
    <3>3. new \in RunRow
      BY <3>1 DEF RunRow, Status
    <3> HIDE DEF new
    <3>4. runs'[r] = new
      BY <1>1, <3>1, <3>2 DEF Table
    <3>5. QED
      BY <2>1, <3>3, <3>4, SentinelAssumption
  <2>2. CASE r # c.run
    BY <1>1, <1>4, <2>2 DEF EndRun, Table
  <2>3. QED
    BY <2>1, <2>2
<1>5. CASE \E R, D : Erasing(R, D)
  BY <1>1, <1>5 DEF Erasing, Erase, Rows
<1>6. CASE \E p \in Portfolio, d \in Decision, s \in Session : Entering(p, d, s)
  BY <1>6 DEF Entering
<1>7. QED
  BY <1>1, <1>2, <1>3, <1>4, <1>5, <1>6 DEF StepForm, Recording, Rows

\* The clocks of polls stay fresh and no submission is of a working attempt.
LEMMA CallsStep ==
  ASSUME WInv, [WNext]_workerVars
  PROVE  CallsInv'
<1>1. IInv /\ WTypeOK /\ CallsInv /\ TypeOK /\ now \in Time /\ now \in Int
  BY ConstantsAssumption DEF WInv, IInv, TypeOK, Time
<1>2. [Next]_vars
  BY <1>1, WorkersUseTheQueue
<1>3. TypeOK' /\ TableInv(runs')
  BY <1>1, <1>2, NextInv DEF StepOK, IInv
<1>4. ASSUME NEW c \in calls', c.op = "claim"
      PROVE  c.reads.at <= now' /\ now' <= c.reads.at + Delay
  <2>1. CASE c \in calls
    <3>1. c.reads.at <= now /\ now <= c.reads.at + Delay
      BY <1>1, <1>4, <2>1 DEF CallsInv
    <3>2. c.reads.at \in Int
      BY <1>1, <1>4, <2>1, CallTypes DEF ClaimCall, Reads, Time
    <3>3. CASE now' = now
      BY <3>1, <3>3
    <3>4. CASE WTick
      <4>1. now' = now + 1 /\ now < c.reads.at + Delay
        BY <1>4, <2>1, <3>4 DEF WTick, Tick, InTime
      <4>2. QED
        BY <1>1, <3>1, <3>2, <4>1, GraceAssumption
    <3>5. QED
      BY <1>1, <1>2, <3>3, <3>4, ClockMoves
  <2>2. CASE c \notin calls
    <3>1. c.reads.at = now /\ now' = now
      BY <1>1, <1>4, <2>2, NewCalls DEF SentBy
    <3>2. QED
      BY <1>1, <3>1, GraceAssumption
  <2>3. QED
    BY <2>1, <2>2
<1>5. PICK F : /\ \A x \in attempts : Evolves(x, F[x])
               /\ \A x \in attempts' : New(x) \/ \E y \in attempts : x = F[y]
  BY <1>1, AttemptsMove
<1>6. ASSUME NEW c \in calls', c.op = "submit"
      PROVE  /\ c.run \in Rows(runs') /\ c.attempt <= runs'[c.run].attempt_count
             /\ \A a \in attempts' : a.run = c.run /\ a.attempt = c.attempt => a.pc \notin Working
  <2>1. CASE c \in calls
    <3>1. /\ c.run \in Rows(runs) /\ c.attempt <= runs[c.run].attempt_count
          /\ \A a \in attempts : a.run = c.run /\ a.attempt = c.attempt => a.pc \notin Working
      BY <1>1, <1>6, <2>1 DEF CallsInv
    <3>2. c.run \in Rows(runs')
      BY <1>1, <1>2, <1>6, <2>1, <3>1, SubmittedRowStays
    <3>3. /\ c.attempt \in Int /\ runs[c.run].attempt_count \in Int
          /\ runs'[c.run].attempt_count \in Int
      BY <1>1, <1>3, <1>6, <2>1, <3>1, <3>2, CallTypes
         DEF SubmitCall, IInv, TableInv, Sound, RunRow
    <3>4. runs'[c.run].attempt_count >= runs[c.run].attempt_count
      BY <1>1, <1>2, <3>1, <3>2, RowsGrow
    <3>5. ASSUME NEW a \in attempts', a.run = c.run, a.attempt = c.attempt
          PROVE  a.pc \notin Working
      <4>1. CASE New(a)
        <5>1. a.attempt > runs[c.run].attempt_count
          BY <3>1, <3>5, <4>1, NewAttempts
        <5>2. QED
          BY <3>1, <3>3, <3>5, <5>1
      <4>2. ASSUME NEW x \in attempts, a = F[x] PROVE a.pc \notin Working
        <5>1. Evolves(x, a)
          BY <1>5, <4>2
        <5>2. x.pc \notin Working
          BY <3>1, <3>5, <5>1 DEF Evolves
        <5>3. QED
          BY <5>1, <5>2 DEF Evolves, Working, Live
      <4>3. QED
        BY <1>5, <4>1, <4>2
    <3>6. QED
      BY <3>1, <3>2, <3>3, <3>4, <3>5
  <2>2. CASE c \notin calls
    <3>1. PICK a \in attempts : SentBy(a, c)
      BY <1>1, <1>6, <2>2, NewCalls
    <3>2. c.run \in Rows(runs') /\ c.attempt = runs'[c.run].attempt_count
      BY <3>1 DEF SentBy, Current, IsCurrent, Rows
    <3>3. runs'[c.run].attempt_count \in Int
      BY <1>3, <3>2 DEF TableInv, Sound, RunRow
    <3>4. ASSUME NEW b \in attempts', b.run = c.run, b.attempt = c.attempt
          PROVE  b.pc \notin Working
      <4>1. a \in Attempt
        BY <1>1 DEF WTypeOK
      <4>2. b = [a EXCEPT !.pc = "sent"]
        BY <1>1, <3>1, <3>4 DEF SentBy, Become, WTypeOK
      <4>3. QED
        BY <4>1, <4>2 DEF Attempt, Working, Live
    <3>5. QED
      BY <3>2, <3>3, <3>4
  <2>3. QED
    BY <2>1, <2>2
<1>7. QED
  BY <1>4, <1>6 DEF CallsInv

-----------------------------------------------------------------------------
(* The theorems. *)

\* Everything switched on, and nothing under way.
LEMMA WInitInv == WInit => WInv
<1> SUFFICES ASSUME WInit PROVE WInv
  OBVIOUS
<1>1. Rows(runs) = {}
  BY DEF WInit, Rows
<1>2. TypeOK
  BY ConstantsAssumption DEF WInit, TypeOK, Time
<1>3. TableInv(runs) /\ Owned
  BY <1>1 DEF WInit, TableInv, Table, Owned
<1>4. OneDecisionPerSession /\ WTypeOK /\ CallsInv
  BY DEF WInit, OneDecisionPerSession, WTypeOK, CallsInv
<1>5. QED
  BY <1>2, <1>3, <1>4 DEF WInit, WInv, IInv

\* Every step keeps the invariant.
LEMMA WNextInv == WInv /\ [WNext]_workerVars => WInv'
<1> SUFFICES ASSUME WInv, [WNext]_workerVars PROVE WInv'
  OBVIOUS
<1>1. WTypeOK /\ IInv /\ now \in Time
  BY DEF WInv, IInv, TypeOK
<1>2. IInv'
  BY <1>1, WorkersUseTheQueue, NextInv DEF StepOK
<1>3. WTypeOK' /\ CallsInv'
  BY HeldOnce, CallsStep
<1>4. PICK F : /\ \A x \in attempts : Evolves(x, F[x])
               /\ \A x \in attempts' : New(x) \/ \E y \in attempts : x = F[y]
  BY <1>1, AttemptsMove
<1>5. ASSUME NEW b \in attempts' PROVE Timely(b)' /\ Backed(b)'
  <2>1. CASE New(b)
    BY <2>1, NewAttempts
  <2>2. ASSUME NEW a \in attempts, b = F[a] PROVE Timely(b)' /\ Backed(b)'
    BY <1>4, <2>2, EvolvedIsTimely, EvolvedIsBacked
  <2>3. QED
    BY <1>4, <2>1, <2>2
<1>6. QED
  BY <1>2, <1>3, <1>5 DEF WInv

\* The invariant holds in every reachable state.
LEMMA WSpecInv == WSpec => []WInv
  BY WInitInv, WNextInv, PTL DEF WSpec

\* The workers share the limit, for they take work from the queue alone.
LEMMA WSpecWithinBound == WSpec => []LeasedWithinBound
<1>1. WInit => LeasedWithinBound
  <2> SUFFICES ASSUME WInit, NEW h \in Harness
               PROVE  Cardinality(OfHarness(runs, Leased, h)) <= MaxConcurrency
    BY DEF LeasedWithinBound
  <2>1. OfHarness(runs, Leased, h) = {}
    BY DEF WInit, OfHarness, With, Rows
  <2>2. QED
    BY <2>1, FS_EmptySet, ConstantsAssumption
<1>2. WInv /\ LeasedWithinBound /\ [WNext]_workerVars => LeasedWithinBound'
  BY WorkersUseTheQueue, LeasedWithinBoundStep DEF WInv
<1>3. QED
  BY <1>1, <1>2, WSpecInv, PTL DEF WSpec

\* A live harness process holds the lease of its run, unless the run was deleted:
\* no expiry, late report, cancellation or answer to another attempt takes it away.
THEOREM LeaseOutlivesProcess == WSpec => []ProcessHoldsLease
<1>1. WInv => ProcessHoldsLease
  BY DEF WInv, Backed, Working, ProcessHoldsLease
<1>2. QED
  BY <1>1, WSpecInv, PTL

\* No portfolio is researched by two processes at once.
THEOREM ProcessesDoNotCompete == WSpec => []OneProcessPerPortfolio
<1>1. ASSUME WInv PROVE OneProcessPerPortfolio
  <2>1. ASSUME NEW a \in attempts, NEW b \in attempts,
               a.pc \in Live, Exists(a), b.pc \in Live, Exists(b),
               runs[a.run].portfolio = runs[b.run].portfolio
        PROVE  a = b
    <3>1. /\ runs[a.run].status \in Active /\ runs[a.run].attempt_count = a.attempt
          /\ runs[b.run].status \in Active /\ runs[b.run].attempt_count = b.attempt
      BY <1>1, <2>1, WorkingIsLeased DEF Working, Leased, Active
    <3>2. a.run = b.run
      BY <1>1, <2>1, <3>1 DEF WInv, IInv, TableInv, Exists
    <3>3. QED
      BY <1>1, <3>1, <3>2 DEF WInv, WTypeOK
  <2>2. QED
    BY <2>1 DEF OneProcessPerPortfolio
<1>2. QED
  BY <1>1, WSpecInv, PTL

\* Over all the workers of a harness, the processes of existing runs, those being
\* cancelled included, stay within the limit: each holds a lease of its own.
THEOREM ProcessesShareTheLimit == WSpec => []ProcessesWithinLimit
<1>1. ASSUME WInv, LeasedWithinBound PROVE ProcessesWithinLimit
  <2> SUFFICES ASSUME NEW h \in Harness
               PROVE  Cardinality({a \in Processes(h) : Exists(a)}) <= MaxConcurrency
    BY DEF ProcessesWithinLimit
  <2> DEFINE P == {a \in Processes(h) : Exists(a)}
             L == OfHarness(runs, Leased, h)
             runOf == [a \in P |-> a.run]
  <2>1. ASSUME NEW a \in P
        PROVE  a.run \in L /\ runs[a.run].attempt_count = a.attempt
    <3>1. a \in attempts /\ a.harness = h /\ a.pc \in Working /\ Exists(a)
      BY DEF Processes, Working
    <3>2. Backed(a)
      BY <1>1, <3>1 DEF WInv
    <3>3. QED
      BY <3>1, <3>2 DEF Backed, Holds, OfHarness, With
  <2>2. \A a, b \in P : a.run = b.run => a = b
    BY <1>1, <2>1 DEF WInv, WTypeOK, Processes
  <2> HIDE DEF P, L
  <2>3. runOf \in Injection(P, L)
    BY <2>1, <2>2 DEF Injection, IsInjective
  <2>4. IsFiniteSet(L)
    BY FiniteAssumption, FS_Subset DEF L, OfHarness, With, Rows
  <2> HIDE DEF runOf
  <2>5. IsFiniteSet(P) /\ Cardinality(P) <= Cardinality(L)
    BY <2>3, <2>4, FS_Injection
  <2>6. Cardinality(P) \in Nat /\ Cardinality(L) \in Nat
    BY <2>4, <2>5, FS_CardinalityType
  <2>7. Cardinality(L) <= MaxConcurrency
    BY <1>1 DEF L, LeasedWithinBound
  <2>8. Cardinality(P) <= MaxConcurrency
    BY <2>5, <2>6, <2>7, ConstantsAssumption
  <2>9. QED
    BY <2>8 DEF P
<1>2. QED
  BY <1>1, WSpecInv, WSpecWithinBound, PTL
=============================================================================
