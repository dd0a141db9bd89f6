---------------------------- MODULE EvaluatorWorker ----------------------------
(***************************************************************************)
(* The evaluation queue with the workers that serve it: the attempts of    *)
(* backend/app/evaluator/worker.py, each a harness process that may        *)
(* finish, time out or be cancelled, and whose calls to the queue may be   *)
(* answered late or not at all.  An attempt's calls are those of           *)
(* EvaluatorQueue; what the workers do beside them is here, and the        *)
(* switches stay on: what they gate is EvaluatorQueue's subject.           *)
(*                                                                         *)
(* One harness process stands for the one or two that an attempt runs one  *)
(* after the other under one deadline.                                     *)
(***************************************************************************)
EXTENDS EvaluatorQueue

CONSTANTS
  TimeoutLen,  \* run.timeout_seconds
  Delay        \* the longest time from a poll's clock to the start of its processes

\* The 60 seconds by which a lease outlives the timeout cover that delay and the
\* few seconds it takes to kill a process group.
ASSUME GraceAssumption ==
  /\ TimeoutLen \in Nat \ {0} /\ Delay \in Nat
  /\ Delay + TimeoutLen < LeaseLen

VARIABLE attempts  \* the attempts the workers hold, in worker memory only

workerVars == <<vars, attempts>>

\* A process that runs, or whose group is being killed.  since is when the poll
\* of a starting attempt read its clock, then when its process began; next is
\* what follows the end of the process.
Live == {"process", "stopping"}
Attempt == [run : Run, attempt : 1..MaxAttempts, harness : Harness,
            since : Time \cup {None},
            pc : {"starting", "submitting", "sent", "failing"} \cup Live,
            next : {"submitting", "failing"}]

\* Everything has been switched on, and no worker holds anything yet.
WInit ==
  /\ enabled = TRUE /\ max_concurrency = MaxConcurrency
  /\ automation = Portfolio /\ evaluating = Version
  /\ runs = [r \in Run |-> None] /\ decisions = [d \in Decision |-> None]
  /\ now = 0 /\ liquidated = {} /\ calls = {} /\ attempts = {}

Current(a) == IsCurrent(a.run, a.attempt)
Become(a, b) == attempts' = (attempts \ {a}) \cup {b}
Drop(a) == attempts' = attempts \ {a}
Quiet == UNCHANGED vars

\* Work is timely: a poll is answered and its processes start within Delay, and
\* a process group is dead by the instant its deadline fires.
InTime ==
  /\ \A c \in calls : c.op = "claim" => now < c.reads.at + Delay
  /\ \A a \in attempts : /\ a.pc = "starting" => now < a.since + Delay
                         /\ a.pc \in Live => now < a.since + TimeoutLen

WTick == Tick /\ InTime /\ UNCHANGED attempts

-----------------------------------------------------------------------------
(* scheduler and evaluate_run *)

StartedBy(c) ==
  {[run |-> r, attempt |-> runs'[r].attempt_count, harness |-> c.harness,
    since |-> c.reads.at, pc |-> "starting", next |-> "failing"] :
     r \in {q \in Run : Started(q)}}

\* The answer of a poll, which may be lost: its runs are then leased to nobody.
Answer(c) ==
  /\ c.op = "claim" /\ ClaimRuns(c)
  /\ attempts' \in {attempts, attempts \cup StartedBy(c)}

Launch(a) ==
  /\ a.pc = "starting"
  /\ Become(a, [a EXCEPT !.pc = "process", !.since = now])
  /\ Quiet

\* _communicate_run: the process ends by itself with a proposal or an error,
\* its time is up, or the control poll finds that the attempt is over.
Stop(a, next) == Become(a, [a EXCEPT !.pc = "stopping", !.next = next]) /\ Quiet

Exit(a) == a.pc = "process" /\ \E next \in {"submitting", "failing"} : Stop(a, next)

TimeOut(a) == a.pc = "process" /\ now >= a.since + TimeoutLen /\ Stop(a, "failing")

\* Variant: a cancellation is noticed only once it is complete.
OverWhenCancelled(a) == Current(a) => runs[a.run].status = "cancelled"

\* What the control poll takes for the end: 404, 409, or a cancellation.
Over(a) == Current(a) => runs[a.run].status \in {"cancel_requested", "cancelled"}

Observe(a) == a.pc = "process" /\ Over(a) /\ Stop(a, "failing")

\* _stop_process ends the whole group before anything is reported.
Stopped(a) ==
  /\ a.pc = "stopping"
  /\ Become(a, [a EXCEPT !.pc = a.next, !.since = None, !.next = "failing"])
  /\ Quiet

\* The submission reaches the server, or is refused there at once.
Send(a) ==
  /\ a.pc = "submitting"
  /\ IF Current(a) /\ runs[a.run].status \in Active \cup {"succeeded"}
     THEN BeginSubmit(a.run) /\ Become(a, [a EXCEPT !.pc = "sent"])
     ELSE Quiet /\ Become(a, [a EXCEPT !.pc = "failing"])

\* Variant: a refused worker reports the failure and goes on waiting.
SubmittedStillWaiting(c) ==
  LET waiting == {a \in attempts : a.pc = "sent" /\ a.run = c.run /\ a.attempt = c.attempt}
  IN /\ c.op = "submit" /\ SubmitRun(c)
     /\ attempts' = attempts \cup {[a EXCEPT !.pc = "failing"] : a \in waiting}

\* The server completes a submission; a worker that still waits for it hears
\* that it was recorded or skipped as a duplicate, or reports a failure.
Submitted(c) ==
  LET waiting == {a \in attempts : a.pc = "sent" /\ a.run = c.run /\ a.attempt = c.attempt}
      accepted == /\ IsCurrent(c.run, c.attempt)
                  /\ \/ runs'[c.run].status = "succeeded"
                     \/ ~c.liquidated /\ runs[c.run] # runs'[c.run]
                        /\ runs'[c.run].status = "skipped"
  IN /\ c.op = "submit" /\ SubmitRun(c)
     /\ attempts' = (attempts \ waiting) \cup
          IF accepted THEN {} ELSE {[a EXCEPT !.pc = "failing"] : a \in waiting}

\* Variant: no timeout once the request is sent.
GiveUpUnsent(a) ==
  /\ a.pc = "submitting"
  /\ Become(a, [a EXCEPT !.pc = "failing"])
  /\ Quiet

\* The worker's request times out or its connection fails; the server may still
\* complete the submission.
GiveUp(a) ==
  /\ a.pc \in {"submitting", "sent"}
  /\ Become(a, [a EXCEPT !.pc = "failing"])
  /\ Quiet

\* Variant: the failure is reported before the process group is killed.
ReportEarly(a) ==
  /\ \/ a.pc = "failing" /\ Drop(a)
     \/ a.pc = "stopping" /\ a.next = "failing" /\ UNCHANGED attempts
  /\ \/ Quiet
     \/ Current(a) /\ FailRun(a.run)

\* The failure is recorded, refused, or lost; the attempt ends in each case.
Report(a) ==
  /\ a.pc = "failing" /\ Drop(a)
  /\ \/ Quiet
     \/ Current(a) /\ FailRun(a.run)

\* The worker shuts down: the processes are stopped and nothing is reported.
Shutdown == attempts # {} /\ attempts' = {} /\ Quiet

-----------------------------------------------------------------------------
Step(a) ==
  \/ Launch(a) \/ Exit(a) \/ TimeOut(a) \/ Observe(a) \/ Stopped(a)
  \/ Send(a) \/ GiveUp(a) \/ Report(a)

\* Polls, and the administrator's calls that meet a worker's attempt; its work is
\* scheduled or retried.
Environment ==
  \/ \E n \in 1..MaxConcurrency : UpdateSettings(TRUE, n)
  \/ \E r \in Run : BeginRetry(r) \/ CancelRun(r) \/ DeleteRun(r)
  \/ \E h \in Harness : BeginClaim(h)
  \/ \E c \in calls : c.op = "retry" /\ RetryRun(c)

\* Row ids are never reused: no slot is, while a worker remembers its old row.
NoReuse == \A a \in attempts : runs[a.run] = None => runs'[a.run] = None

WNext ==
  /\ \/ WTick
     \/ Environment /\ UNCHANGED attempts
     \/ \E c \in calls : Answer(c) \/ Submitted(c)
     \/ \E a \in attempts : Step(a)
     \/ Shutdown
  /\ NoReuse

WSpec == WInit /\ [][WNext]_workerVars

-----------------------------------------------------------------------------
(* Properties. *)

\* The workers' attempts stay well formed, and an attempt is held once.
WTypeOK ==
  /\ attempts \subseteq Attempt
  /\ \A a, b \in attempts : a.run = b.run /\ a.attempt = b.attempt => a = b

Exists(a) == a.run \in Rows(runs)

\* While a harness process is alive its attempt still holds the run's lease,
\* unless the run was deleted: no expiry, late failure report, cancellation or
\* answer to an older attempt hands a run on while its process still works.
ProcessHoldsLease ==
  \A a \in attempts : a.pc \in Live /\ Exists(a) => Holds(a.run, a.attempt)

\* No portfolio is researched by two processes at once, however its attempts
\* were lost, retried or superseded.
OneProcessPerPortfolio ==
  \A a, b \in attempts :
    /\ a.pc \in Live /\ Exists(a) /\ b.pc \in Live /\ Exists(b)
    /\ runs[a.run].portfolio = runs[b.run].portfolio
    => a = b

\* All the workers of a harness together run at most the configured number of
\* processes, those being cancelled included, beside those whose run was deleted.
Processes(h) == {a \in attempts : a.harness = h /\ a.pc \in Live}
ProcessesWithinLimit ==
  \A h \in Harness : Cardinality({a \in Processes(h) : Exists(a)}) <= MaxConcurrency

\* The same of every process, as the documentation of the setting has it.
AtMostLimitAtOnce == \A h \in Harness : Cardinality(Processes(h)) <= MaxConcurrency

\* Every worker keeps its own steps going: asyncio runs what is ready, deadlines
\* fire, requests time out, and a poll is answered.  Nothing forces a process to
\* end by itself, a submission to be answered, or the worker to shut down.
WFairness ==
  /\ WF_workerVars(WTick)
  /\ WF_workerVars(\E c \in calls : Answer(c) /\ NoReuse)
  /\ \A r \in Run, k \in 1..MaxAttempts :
       LET Do(A(_)) == \E a \in attempts : a.run = r /\ a.attempt = k /\ A(a) /\ NoReuse
       IN /\ WF_workerVars(Do(Launch)) /\ WF_workerVars(Do(TimeOut))
          /\ WF_workerVars(Do(Observe)) /\ WF_workerVars(Do(Stopped))
          /\ WF_workerVars(Do(GiveUp)) /\ WF_workerVars(Do(Report))

WLiveSpec == WSpec /\ WFairness

Held(r, k) == {a \in attempts : a.run = r /\ a.attempt = k}

\* The process of a run that is cancelled, deleted or superseded is stopped,
\* without waiting for its deadline.
EndOfRunStopsProcess ==
  \A r \in Run, k \in 1..MaxAttempts :
    LET Doomed == \/ r \notin Rows(runs) \/ runs[r].attempt_count # k
                  \/ runs[r].status = "cancel_requested"
    IN (Doomed /\ \E a \in Held(r, k) : a.pc = "process")
         ~> ~ \E a \in Held(r, k) : a.pc \in Live

\* When an attempt's process has ended, at the latest.
Deadline(a) == CASE a.pc = "starting" -> a.since + Delay + TimeoutLen
                 [] a.pc \in Live    -> a.since + TimeoutLen
                 [] OTHER            -> 0

\* An attempt whose deadline falls within the horizon leaves the worker's hands,
\* whatever its process does and however its calls are answered.
EveryAttemptEnds ==
  \A r \in Run, k \in 1..MaxAttempts :
    (\E a \in Held(r, k) : Deadline(a) <= MaxTime) ~> Held(r, k) = {}
=============================================================================
