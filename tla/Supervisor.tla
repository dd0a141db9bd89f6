------------------------------ MODULE Supervisor ------------------------------
(* production.py: the supervisor starts the web application, then keeps one      *)
(* evaluator running beside it, and ends both on a signal or when the web ends.  *)
(* The evaluator stops the process groups of its harnesses before it exits.      *)
(* The lengths of waits are left out: stopping its groups may take the evaluator *)
(* longer than the ten seconds after which it is killed itself.                  *)
EXTENDS Naturals

CONSTANT MaxTries   \* health probes before the start is given up

VARIABLES
  main,       \* where run() is
  tries,      \* health probes made
  stop,       \* the stop event
  keeper,     \* where the evaluator's supervisor is
  web,        \* the web process
  evaluator,  \* the evaluator process
  group,      \* process groups of harnesses the evaluator holds
  orphan      \* groups left behind by an evaluator that crashed or was killed

supervisorVars == <<main, tries, stop, keeper, web, evaluator, group, orphan>>
processes == <<web, evaluator, group, orphan>>

SupervisorInit ==
  /\ main = "startup" /\ tries = 0 /\ stop = FALSE /\ keeper = "absent"
  /\ web = "starting" /\ evaluator = "none" /\ group = FALSE /\ orphan = FALSE

Signal ==
  /\ main # "exited" /\ ~stop /\ stop' = TRUE
  /\ UNCHANGED <<main, tries, keeper, processes>>

-----------------------------------------------------------------------------
(* run() *)

\* One round of _wait_for_web: a failed start skips to the clean-up.
WaitForWeb ==
  /\ main = "startup"
  /\ \/ web = "exited" /\ main' = "cleanup" /\ UNCHANGED <<tries, keeper>>
     \/ web = "healthy" /\ main' = "serving" /\ keeper' = "check" /\ UNCHANGED tries
     \/ web = "starting" /\ tries < MaxTries /\ tries' = tries + 1 /\ UNCHANGED <<main, keeper>>
     \/ web = "starting" /\ tries = MaxTries /\ main' = "cleanup" /\ UNCHANGED <<tries, keeper>>
  /\ UNCHANGED <<stop, processes>>

\* Variant: the end of the web leaves the event alone.
ServeQuietly ==
  /\ main = "serving"
  /\ \/ web = "exited" /\ UNCHANGED web
     \/ stop /\ web # "exited" /\ web' = "stopping"
  /\ main' = "awaitKeeper"
  /\ UNCHANGED <<tries, stop, keeper, evaluator, group, orphan>>

\* The end of the web stops the evaluator; a signal terminates the web first.
ServeWeb ==
  /\ main = "serving"
  /\ \/ web = "exited" /\ stop' = TRUE /\ main' = "cleanup" /\ UNCHANGED web
     \/ stop /\ web # "exited" /\ web' = "stopping" /\ main' = "terminate" /\ UNCHANGED stop
  /\ UNCHANGED <<tries, keeper, evaluator, group, orphan>>

WebTerminated ==
  /\ main = "terminate" /\ web = "exited" /\ main' = "cleanup"
  /\ UNCHANGED <<tries, stop, keeper, processes>>

\* The finally block: the event is set, and the web is terminated if it still runs.
CleanUp ==
  /\ main = "cleanup"
  /\ stop' = TRUE
  /\ IF web = "exited" THEN main' = "awaitKeeper" /\ UNCHANGED web
     ELSE main' = "terminate" /\ web' = "stopping"
  /\ UNCHANGED <<tries, keeper, evaluator, group, orphan>>

\* Variant: the evaluator's supervisor is not awaited.
LeaveAtOnce ==
  /\ main = "awaitKeeper" /\ main' = "exited"
  /\ UNCHANGED <<tries, stop, keeper, processes>>

Leave ==
  /\ main = "awaitKeeper" /\ keeper \in {"absent", "done"} /\ main' = "exited"
  /\ UNCHANGED <<tries, stop, keeper, processes>>

-----------------------------------------------------------------------------
(* _evaluator_supervisor() *)

\* The event is tested before the process is created, and the creation is awaited.
Check ==
  /\ keeper = "check" /\ keeper' = IF stop THEN "done" ELSE "spawn"
  /\ UNCHANGED <<main, tries, stop, processes>>

Spawn ==
  /\ keeper = "spawn" /\ keeper' = "watch" /\ evaluator' = "running"
  /\ UNCHANGED <<main, tries, stop, web, group, orphan>>

\* Variant: only the end of the process ends the watch.
WatchProcessOnly ==
  /\ keeper = "watch" /\ evaluator = "exited" /\ keeper' = "backoff"
  /\ UNCHANGED <<main, tries, stop, processes>>

\* Variant: the end of the process ends the supervisor of it.
WatchOnce ==
  /\ keeper = "watch"
  /\ \/ stop /\ evaluator = "running" /\ keeper' = "terminate" /\ evaluator' = "stopping"
     \/ evaluator = "exited" /\ keeper' = "done" /\ UNCHANGED evaluator
  /\ UNCHANGED <<main, tries, stop, web, group, orphan>>

\* The stop event wins when the process ends at the same time.
Watch ==
  /\ keeper = "watch"
  /\ \/ stop /\ evaluator = "running" /\ keeper' = "terminate" /\ evaluator' = "stopping"
     \/ stop /\ evaluator = "exited" /\ keeper' = "done" /\ UNCHANGED evaluator
     \/ ~stop /\ evaluator = "exited" /\ keeper' = "backoff" /\ UNCHANGED evaluator
  /\ UNCHANGED <<main, tries, stop, web, group, orphan>>

EvaluatorTerminated ==
  /\ keeper = "terminate" /\ evaluator = "exited" /\ keeper' = "done"
  /\ UNCHANGED <<main, tries, stop, processes>>

\* The delay ends, or the event is set during it.
Backoff ==
  /\ keeper = "backoff" /\ keeper' = "check"
  /\ UNCHANGED <<main, tries, stop, processes>>

-----------------------------------------------------------------------------
(* The processes. *)

\* The groups of an evaluator that dies lead sessions of their own, and run on.
Abandon == group' = FALSE /\ orphan' = (orphan \/ group)

\* _terminate: what has not ended within ten seconds of its signal is killed.
Kill ==
  /\ \/ web = "stopping" /\ web' = "exited" /\ UNCHANGED <<evaluator, group, orphan>>
     \/ evaluator = "stopping" /\ evaluator' = "exited" /\ Abandon /\ UNCHANGED web
  /\ UNCHANGED <<main, tries, stop, keeper>>

WebBecomesHealthy ==
  /\ web = "starting" /\ web' = "healthy"
  /\ UNCHANGED <<main, tries, stop, keeper, evaluator, group, orphan>>

WebEnds ==
  /\ web # "exited" /\ web' = "exited"
  /\ UNCHANGED <<main, tries, stop, keeper, evaluator, group, orphan>>

EvaluatorCrashes ==
  /\ evaluator \in {"running", "stopping"} /\ evaluator' = "exited" /\ Abandon
  /\ UNCHANGED <<main, tries, stop, keeper, web>>

StartGroup ==
  /\ evaluator = "running" /\ ~group /\ group' = TRUE
  /\ UNCHANGED <<main, tries, stop, keeper, web, evaluator, orphan>>

\* A harness ends, or its group is killed when its attempt is over.
EndGroup ==
  /\ group /\ group' = FALSE
  /\ UNCHANGED <<main, tries, stop, keeper, web, evaluator, orphan>>

\* Variant: the evaluator exits on its signal and leaves its groups.
EvaluatorExitsAtOnce ==
  /\ evaluator = "stopping" /\ evaluator' = "exited"
  /\ UNCHANGED <<main, tries, stop, keeper, web, group, orphan>>

\* Every task of the evaluator is cancelled and awaited, and with it its group.
EvaluatorExits ==
  /\ evaluator = "stopping" /\ ~group /\ evaluator' = "exited"
  /\ UNCHANGED <<main, tries, stop, keeper, web, group, orphan>>

Main == WaitForWeb \/ ServeWeb \/ WebTerminated \/ CleanUp \/ Leave
Keeper == Check \/ Spawn \/ Watch \/ EvaluatorTerminated \/ Backoff

SupervisorNext ==
  \/ Signal \/ Main \/ Keeper
  \/ Kill \/ WebBecomesHealthy \/ WebEnds
  \/ EvaluatorCrashes \/ StartGroup \/ EndGroup \/ EvaluatorExits

\* Event loops go on and timeouts fire; an evaluator that stops kills its groups.
\* Nothing obliges a process to become healthy, to heed its signal or to crash.
SupervisorFairness ==
  /\ WF_supervisorVars(Main) /\ WF_supervisorVars(Keeper) /\ WF_supervisorVars(Kill)
  /\ WF_supervisorVars(evaluator = "stopping" /\ EndGroup)

SupervisorSpec == SupervisorInit /\ [][SupervisorNext]_supervisorVars /\ SupervisorFairness

-----------------------------------------------------------------------------
(* Properties. *)

\* When the supervisor is gone neither process runs on, whatever ended first, nor a
\* group of an evaluator that ended by itself: only one that crashed, or was killed
\* because stopping its groups took too long, leaves groups behind (orphan).
NothingOutlivesSupervisor ==
  main = "exited" => web = "exited" /\ evaluator \in {"none", "exited"} /\ ~group

\* A signal at any moment, also while the web is still starting or an evaluator is
\* being created or restarted, ends the supervisor, and so does the end of the web.
StopEnds == (stop \/ web = "exited") ~> main = "exited"

\* Until then an evaluator that ended is started again.
EvaluatorReturns == (main = "serving" /\ evaluator = "exited") ~> (evaluator = "running" \/ stop)
=============================================================================
