---------------------------- MODULE Administration ----------------------------
(***************************************************************************)
(* The administrator's catalogue: one model's harness capability, agents,  *)
(* prompts with their revisions, portfolios and their automation           *)
(* (backend/app/services/admin_ops.py, model_catalog.py), beside the parts *)
(* of the evaluation queue that use them.  EvaluatorQueue has the queue in *)
(* full; here a portfolio's latest run is enough.                          *)
(*                                                                         *)
(* A call that reads before it locks, or locks one row after another, is   *)
(* several actions; what it has read and the locks it holds are in its     *)
(* record of calls.  Every other call is one action, which needs the locks *)
(* it takes to be free.                                                    *)
(***************************************************************************)
EXTENDS Integers, Sequences, FiniteSets

CONSTANTS
  Agent, Prompt, Portfolio,  \* row slots
  Effort,       \* reasoning efforts a capability may declare
  Track,        \* portfolios' tracks: mode and direction taken together
  Managed,      \* the tracks of mode managed; the others are rebuilt
  Shorts,       \* managed short tracks, which a poll values before its lock
  Support,      \* sets of tracks a prompt revision may have text for
  Boundary,     \* execution boundaries: open, close
  Weekdays,     \* the schedules an administrator chooses: daily or not
  MaxVersion,   \* bound on the revisions of all prompts together
  MaxDecision,  \* bound on the kinds of decisions a portfolio has
  MaxCalls,     \* bound on the calls in progress beside the edits of agents
  None

\* What a model declares of the harness: nothing, or its reasoning efforts.
Capability == (SUBSET Effort) \cup {None}
\* An agent's profile: auto stands for a harness that supports automation.
Profile == [auto: {TRUE}, effort: Effort \cup {None}]
             \cup [auto: {FALSE}, effort: {None}]
PortfolioRow == [agent: Agent, prompt: Prompt, track: Track, boundary: Boundary,
                 locked: BOOLEAN]
\* daily: the weekdays are Monday to Friday.
Config == [enabled: BOOLEAN, daily: BOOLEAN]
Revision == Prompt \X (Nat \ {0})
Status == {"queued", "running", "cancel_requested",
           "cancelled", "succeeded", "failed"}
Active == {"queued", "running", "cancel_requested"}
RunRow == [status: Status, agent: Agent, boundary: Boundary,
           revision: Revision \cup {None}]
DecisionRow == [track: Track, boundary: Boundary]
Change == [agent: Agent \cup {None}, prompt: Prompt \cup {None},
           track: Track, boundary: Boundary]

ASSUME CatalogueAssumption ==
  /\ Managed \subseteq Track /\ Shorts \subseteq Managed /\ Weekdays \subseteq BOOLEAN
  /\ Support \subseteq SUBSET Track /\ MaxVersion \in Nat \ {0}
  /\ MaxDecision \in Nat /\ MaxCalls \in Nat
  /\ None \notin Agent \cup Prompt \cup Portfolio \cup Effort
  /\ None \notin PortfolioRow /\ None \notin RunRow /\ None \notin Revision

VARIABLES
  capability,  \* None, or the efforts of the model's capability for the harness
  agents,      \* [Agent -> a profile, or None]
  prompts,     \* [Prompt -> what each revision supports; <<>> where there is none]
  portfolios,  \* [Portfolio -> a row, or None]
  config,      \* [Portfolio -> the evaluator config]
  run,         \* [Portfolio -> its latest evaluation run, or None]
  decisions,   \* [Portfolio -> its decisions]
  calls

vars == <<capability, agents, prompts, portfolios, config, run, decisions, calls>>

-----------------------------------------------------------------------------
(* Row locks. *)

Settings == <<"settings", None>>
Model == <<"model", None>>
AgentRow(a) == <<"agent", a>>
PromptRow(q) == <<"prompt", q>>
Run(p) == <<"run", p>>
\* Variant: an edit leaves the portfolio's row unlocked.
LifecycleUnlocked(p) == {Settings, Run(p)}

\* _lock_portfolio_lifecycle: settings, then the portfolio's runs, then its row.
Lifecycle(p) == {Settings, Run(p), <<"portfolio", p>>}

Locks(c) ==
  CASE c.op = "update_agent" ->
         {AgentRow(c.agent)} \cup (IF c.stage = "write" THEN {Model} ELSE {})
    [] c.op = "update_portfolio" ->
         Lifecycle(c.portfolio) \cup
         (IF c.stage = "agent" /\ c.change.prompt # None
            THEN {PromptRow(c.change.prompt)} ELSE {})
    [] OTHER -> {}

Held(C) == UNION {Locks(c) : c \in C}
Free(S) == S \cap Held(calls) = {}
FreeFor(c, S) == S \cap Held(calls \ {c}) = {}

\* An agent has one edit at a time; MaxCalls bounds the calls beside those edits.
Begin(c) ==
  /\ c.op # "update_agent" =>
       Cardinality({d \in calls : d.op # "update_agent"}) < MaxCalls
  /\ calls' = calls \cup {c}
End(c) == calls' = calls \ {c}
Advance(c, d) == calls' = (calls \ {c}) \cup {d}

-----------------------------------------------------------------------------
(* Reading the tables. *)

IsActive(p) == run[p] # None /\ run[p].status \in Active
IsRunning(p) == run[p] # None /\ run[p].status \in {"running", "cancel_requested"}
\* Variant: only portfolios with automation use an agent.
EnabledUsersOfAgent(a) ==
  {p \in Portfolio : portfolios[p] # None /\ portfolios[p].agent = a /\ config[p].enabled}

UsersOfAgent(a) == {p \in Portfolio : portfolios[p] # None /\ portfolios[p].agent = a}
UsersOfPrompt(q) == {p \in Portfolio : portfolios[p] # None /\ portfolios[p].prompt = q}
Current(q) == prompts[q][Len(prompts[q])]
RoomForRevision ==
  Cardinality(UNION {{q} \X DOMAIN prompts[q] : q \in Prompt}) < MaxVersion

\* validate_agent_profile: the harness is configured, and an effort is named
\* exactly when the capability declares efforts.
ValidProfile(f) ==
  f.auto => /\ capability # None
            /\ IF capability = {} THEN f.effort = None ELSE f.effort \in capability
Taken(f, others) == \E a \in others : agents[a] = f

\* A row that goes takes with it the calls that name it: they can only fail.
Names(c, kind, x) ==
  CASE kind = "portfolio" ->
         \/ c.op \in {"update_portfolio", "config", "manual"} /\ c.portfolio = x
         \/ c.op = "update_agent" /\ x \in c.disable \cup c.queued
    [] kind = "run" -> c.op = "update_agent" /\ x \in c.queued
    [] kind = "agent" -> \/ c.op = "manual" /\ c.seen.agent = x
                         \/ c.op = "update_portfolio" /\ c.change.agent = x
    [] kind = "prompt" -> \/ c.op = "update_portfolio" /\ c.change.prompt = x
                          \/ /\ c.op = "claim"
                             /\ \E p \in Portfolio : c.loaded[p] # None
                                                     /\ c.loaded[p].prompt = x
Forget(kind, x) == calls' = {c \in calls : ~Names(c, kind, x)}

-----------------------------------------------------------------------------
Init ==
  /\ capability \in SUBSET Effort
  /\ agents = [a \in Agent |-> None]
  /\ prompts = [q \in Prompt |-> <<>>]
  /\ portfolios = [p \in Portfolio |-> None]
  /\ config = [p \in Portfolio |-> [enabled |-> FALSE, daily |-> TRUE]]
  /\ run = [p \in Portfolio |-> None]
  /\ decisions = [p \in Portfolio |-> {}]
  /\ calls = {}

(* The model and its agents. *)

\* None of the agents may use what the new capability takes away; the foreign
\* key of agents stands behind the check of the harness.
UpdateModel(efforts) ==
  /\ Free({Model})
  /\ \A a \in Agent : agents[a] # None /\ agents[a].auto =>
       /\ efforts # None
       /\ agents[a].effort \in efforts \/ (agents[a].effort = None /\ efforts = {})
  /\ capability' = efforts
  /\ UNCHANGED <<agents, prompts, portfolios, config, run, decisions, calls>>

\* The profile is validated before the model row is locked.
BeginCreateAgent(f) ==
  /\ ValidProfile(f)
  /\ Begin([op |-> "create_agent", profile |-> f])
  /\ UNCHANGED <<capability, agents, prompts, portfolios, config, run, decisions>>

CreateAgent(c) ==
  /\ c.op = "create_agent" /\ Free({Model})
  /\ \/ /\ ~Taken(c.profile, Agent) /\ (c.profile.auto => capability # None)
        /\ \E a \in Agent : /\ agents[a] = None
                            /\ agents' = [agents EXCEPT ![a] = c.profile]
     \/ /\ Taken(c.profile, Agent) \/ (c.profile.auto /\ capability = None)
        /\ UNCHANGED agents
  /\ End(c)
  /\ UNCHANGED <<capability, prompts, portfolios, config, run, decisions>>

BeginUpdateAgent(a, f) ==
  /\ agents[a] # None /\ Free({AgentRow(a)}) /\ ValidProfile(f)
  /\ Begin([op |-> "update_agent", agent |-> a, profile |-> f, stage |-> "read",
            disable |-> {}, queued |-> {}])
  /\ UNCHANGED <<capability, agents, prompts, portfolios, config, run, decisions>>

\* The portfolios of an agent that loses automation.
LosesAutomation(c) ==
  IF agents[c.agent].auto /\ ~c.profile.auto THEN UsersOfAgent(c.agent) ELSE {}

\* Under the model's lock the edit reads their configs and queued runs, and locks
\* neither.
ReadAgentWork(c) ==
  /\ c.op = "update_agent" /\ c.stage = "read" /\ FreeFor(c, {Model})
  /\ IF Taken(c.profile, Agent \ {c.agent}) THEN End(c)
     ELSE Advance(c, [c EXCEPT !.stage = "write",
            !.disable = {p \in LosesAutomation(c) : config[p].enabled},
            !.queued = {p \in LosesAutomation(c) :
                          run[p] # None /\ run[p].status = "queued"}])
  /\ UNCHANGED <<capability, agents, prompts, portfolios, config, run, decisions>>

\* The rows are updated by their keys, whatever has become of them meanwhile.
UpdateAgent(c) ==
  /\ c.op = "update_agent" /\ c.stage = "write"
  /\ FreeFor(c, {Run(p) : p \in c.queued})
  /\ IF c.profile.auto /\ capability = None THEN UNCHANGED <<agents, config, run>>
     ELSE /\ agents' = [agents EXCEPT ![c.agent] = c.profile]
          /\ config' = [p \in Portfolio |-> IF p \in c.disable
                          THEN [config[p] EXCEPT !.enabled = FALSE] ELSE config[p]]
          /\ run' = [p \in Portfolio |-> IF p \in c.queued
                       THEN [run[p] EXCEPT !.status = "cancelled"] ELSE run[p]]
  /\ End(c)
  /\ UNCHANGED <<capability, prompts, portfolios, decisions>>

AgentInUse(a) ==
  UsersOfAgent(a) # {} \/ \E p \in Portfolio : run[p] # None /\ run[p].agent = a

DeleteAgent(a) ==
  /\ agents[a] # None /\ Free({AgentRow(a)}) /\ ~AgentInUse(a)
  /\ agents' = [agents EXCEPT ![a] = None]
  /\ Forget("agent", a)
  /\ UNCHANGED <<capability, prompts, portfolios, config, run, decisions>>

-----------------------------------------------------------------------------
(* Prompts.  A prompt's row lock covers each of these whole. *)

CreatePrompt(q, s) ==
  /\ prompts[q] = <<>> /\ RoomForRevision
  /\ prompts' = [prompts EXCEPT ![q] = <<s>>]
  /\ UNCHANGED <<capability, agents, portfolios, config, run, decisions, calls>>

\* Variant: the edit does not look for running work.
MayEditAnyway(q, s) ==
  /\ prompts[q] # <<>> /\ Free({PromptRow(q)})
  /\ \A p \in UsersOfPrompt(q) : portfolios[p].track \in s

\* No edit while a portfolio of the prompt has running work, nor one that drops
\* the text a portfolio uses.
MayEdit(q, s) ==
  /\ prompts[q] # <<>> /\ Free({PromptRow(q)})
  /\ \A p \in UsersOfPrompt(q) : ~IsRunning(p) /\ portfolios[p].track \in s

\* _append_prompt_version: the revision after the current one becomes current.
AppendVersion(q, s) ==
  /\ RoomForRevision
  /\ prompts' = [prompts EXCEPT ![q] = Append(@, s)]

UpdatePrompt(q, s) ==
  /\ MayEdit(q, s) /\ AppendVersion(q, s)
  /\ UNCHANGED <<capability, agents, portfolios, config, run, decisions, calls>>

\* A restored revision is a new one.
RestorePrompt(q, n) ==
  /\ MayEdit(q, prompts[q][n]) /\ AppendVersion(q, prompts[q][n])
  /\ UNCHANGED <<capability, agents, portfolios, config, run, decisions, calls>>

PromptInUse(q) ==
  \/ UsersOfPrompt(q) # {}
  \/ \E p \in Portfolio : run[p] # None /\ run[p].revision # None /\ run[p].revision[1] = q

DeletePrompt(q) ==
  /\ prompts[q] # <<>> /\ Free({PromptRow(q)}) /\ ~PromptInUse(q)
  /\ prompts' = [prompts EXCEPT ![q] = <<>>]
  /\ Forget("prompt", q)
  /\ UNCHANGED <<capability, agents, portfolios, config, run, decisions>>

-----------------------------------------------------------------------------
(* Portfolios. *)

CreatePortfolio(p, a, q, t, b) ==
  /\ portfolios[p] = None
  /\ agents[a] # None /\ prompts[q] # <<>> /\ t \in Current(q)
  /\ Free({Settings, AgentRow(a), PromptRow(q)})
  /\ portfolios' = [portfolios EXCEPT ![p] =
       [agent |-> a, prompt |-> q, track |-> t, boundary |-> b, locked |-> FALSE]]
  /\ UNCHANGED <<capability, agents, prompts, config, run, decisions, calls>>

\* Variant: the timing is free while there are no decisions.
MayRetimeEmpty(p, ch) ==
  LET row == portfolios[p]
      assigns == \/ ch.agent \notin {None, row.agent} \/ ch.prompt \notin {None, row.prompt}
                 \/ ch.boundary # row.boundary
  IN /\ IsActive(p) => ch.track = row.track /\ ~assigns
     /\ ch.track # row.track \/ ch.boundary # row.boundary => decisions[p] = {}

\* What update_portfolio refuses before it looks at the prompt.
MayChange(p, ch) ==
  LET row == portfolios[p]
      assigns == \/ ch.agent \notin {None, row.agent} \/ ch.prompt \notin {None, row.prompt}
                 \/ ch.boundary # row.boundary
  IN /\ IsActive(p) => ch.track = row.track /\ ~assigns
     /\ ch.track # row.track => decisions[p] = {}
     /\ ch.boundary # row.boundary => ~row.locked

BeginUpdatePortfolio(p, ch) ==
  /\ portfolios[p] # None /\ Free(Lifecycle(p)) /\ MayChange(p, ch)
  /\ Begin([op |-> "update_portfolio", portfolio |-> p, change |-> ch, stage |-> "prompt"])
  /\ UNCHANGED <<capability, agents, prompts, portfolios, config, run, decisions>>

\* A prompt that is assigned is locked first; the one that stays is only read.
CheckPrompt(c) ==
  /\ c.op = "update_portfolio" /\ c.stage = "prompt"
  /\ c.change.prompt # None => FreeFor(c, {PromptRow(c.change.prompt)})
  /\ LET q == IF c.change.prompt # None THEN c.change.prompt
                                        ELSE portfolios[c.portfolio].prompt
     IN IF prompts[q] # <<>> /\ c.change.track \in Current(q)
          THEN Advance(c, [c EXCEPT !.stage = "agent"]) ELSE End(c)
  /\ UNCHANGED <<capability, agents, prompts, portfolios, config, run, decisions>>

Changed(row, ch) ==
  [row EXCEPT !.agent = IF ch.agent = None THEN row.agent ELSE ch.agent,
              !.prompt = IF ch.prompt = None THEN row.prompt ELSE ch.prompt,
              !.track = ch.track, !.boundary = ch.boundary]

\* The agent is locked even when it is the one the portfolio has; one that is not
\* there ends the edit.
UpdatePortfolio(c) ==
  /\ c.op = "update_portfolio" /\ c.stage = "agent"
  /\ c.change.agent # None => FreeFor(c, {AgentRow(c.change.agent)})
  /\ LET p == c.portfolio
         ch == c.change
         row == portfolios[p]
         disable == ch.agent # None /\ ~agents[ch.agent].auto
         becomesRebuilt == ch.track # row.track /\ ch.track \notin Managed
                           /\ row.track \in Managed
     IN IF ch.agent # None /\ agents[ch.agent] = None THEN UNCHANGED <<portfolios, config, run>>
        ELSE /\ portfolios' = [portfolios EXCEPT ![p] = Changed(row, ch)]
             /\ config' = [config EXCEPT ![p] =
                  [enabled |-> config[p].enabled /\ ~disable,
                   daily |-> config[p].daily \/ becomesRebuilt]]
             /\ run' = IF disable /\ run[p] # None /\ run[p].status = "queued"
                         THEN [run EXCEPT ![p].status = "cancelled"] ELSE run
  /\ End(c)
  /\ UNCHANGED <<capability, agents, prompts, decisions>>

DeletePortfolio(p) ==
  /\ portfolios[p] # None /\ Free(Lifecycle(p))
  /\ portfolios' = [portfolios EXCEPT ![p] = None]
  /\ config' = [config EXCEPT ![p] = [enabled |-> FALSE, daily |-> TRUE]]
  /\ run' = [run EXCEPT ![p] = None]
  /\ decisions' = [decisions EXCEPT ![p] = {}]
  /\ Forget("portfolio", p)
  /\ UNCHANGED <<capability, agents, prompts>>

\* Identity, configuration and the timing lock stay.
ResetPortfolio(p) ==
  /\ portfolios[p] # None /\ Free(Lifecycle(p))
  /\ run' = [run EXCEPT ![p] = None]
  /\ decisions' = [decisions EXCEPT ![p] = {}]
  /\ Forget("run", p)
  /\ UNCHANGED <<capability, agents, prompts, portfolios, config>>

\* update_portfolio_config reads the portfolio and its agent before its lock.
BeginConfig(p, enable, daily) ==
  /\ portfolios[p] # None
  /\ Begin([op |-> "config", portfolio |-> p, track |-> portfolios[p].track,
            auto |-> agents[portfolios[p].agent].auto, enable |-> enable,
            daily |-> daily])
  /\ UNCHANGED <<capability, agents, prompts, portfolios, config, run, decisions>>

SetConfig(c) ==
  /\ c.op = "config" /\ Free({Settings})
  /\ LET p == c.portfolio
     IN IF c.enable /\ ~c.auto THEN UNCHANGED <<config, run>>
        ELSE /\ config' = [config EXCEPT ![p] =
                  [enabled |-> c.enable, daily |-> c.daily \/ c.track \notin Managed]]
             /\ run' = IF ~c.enable /\ run[p] # None /\ run[p].status = "queued"
                         THEN [run EXCEPT ![p].status = "cancelled"] ELSE run
  /\ End(c)
  /\ UNCHANGED <<capability, agents, prompts, portfolios, decisions>>

\* _new_allocation, _new_signal: the portfolio's timing locks with the decision.
Decide(p, boundary) ==
  LET d == [track |-> portfolios[p].track, boundary |-> boundary]
  IN /\ Cardinality(decisions[p] \cup {d}) <= MaxDecision
     /\ decisions' = [decisions EXCEPT ![p] = @ \cup {d}]
     /\ portfolios' = [portfolios EXCEPT ![p].locked = TRUE]

\* A decision entered by hand, under the portfolio's lock.
CreateDecision(p) ==
  /\ portfolios[p] # None /\ Free({<<"portfolio", p>>})
  /\ Decide(p, portfolios[p].boundary)
  /\ UNCHANGED <<capability, agents, prompts, config, run, calls>>

-----------------------------------------------------------------------------
(* The queue, as far as it uses the catalogue. *)

Queued(row) == [status |-> "queued", agent |-> row.agent, boundary |-> row.boundary,
                revision |-> None]

\* A new run takes the place of the portfolio's latest one in this model; an
\* agent's edit that means to cancel the old row no longer touches what is here.
Displace(C, P) ==
  {IF c.op = "update_agent" THEN [c EXCEPT !.queued = @ \ P] ELSE c : c \in C}

\* _new_run: row is the portfolio as the call sees it.  The foreign key of the
\* run waits for an edit of the agent.
MayQueue(p, row) ==
  /\ config[p].enabled /\ ~IsActive(p)
  /\ agents[row.agent] # None /\ agents[row.agent].auto /\ capability # None
  /\ Free({AgentRow(row.agent)})

\* enqueue_manual_runs has the portfolio from before its lock.
BeginManual(p) ==
  /\ portfolios[p] # None
  /\ Begin([op |-> "manual", portfolio |-> p, seen |-> portfolios[p]])
  /\ UNCHANGED <<capability, agents, prompts, portfolios, config, run, decisions>>

EnqueueManual(c) ==
  /\ c.op = "manual" /\ Free({Settings})
  /\ \/ /\ MayQueue(c.portfolio, c.seen)
        /\ run' = [run EXCEPT ![c.portfolio] = Queued(c.seen)]
        /\ calls' = Displace(calls \ {c}, {c.portfolio})
     \/ /\ ~MayQueue(c.portfolio, c.seen) /\ Free({AgentRow(c.seen.agent)})
        /\ End(c) /\ UNCHANGED run
  /\ UNCHANGED <<capability, agents, prompts, portfolios, config, decisions>>

\* A poll values the managed shorts with automation before its lock, which
\* loads their rows.
BeginClaim ==
  /\ Begin([op |-> "claim", loaded |-> [p \in Portfolio |->
       IF portfolios[p] # None /\ config[p].enabled /\ portfolios[p].track \in Shorts
         THEN portfolios[p] ELSE None]])
  /\ UNCHANGED <<capability, agents, prompts, portfolios, config, run, decisions>>

\* The portfolio as the poll sees it: what it loaded before its lock, if anything.
Seen(c, p) == IF c.loaded[p] # None THEN c.loaded[p] ELSE portfolios[p]

\* The poll queues what is due and cancels what is disabled.
Prepared(c, due) ==
  [p \in Portfolio |->
     IF p \in due THEN Queued(Seen(c, p))
     ELSE IF run[p] # None /\ run[p].status = "queued" /\ ~config[p].enabled
       THEN [run[p] EXCEPT !.status = "cancelled"]
     ELSE run[p]]

\* A queued run starts on the current revision of its prompt.
MayStart(c, runs, p) ==
  LET q == Seen(c, p).prompt
  IN /\ runs[p] # None /\ runs[p].status = "queued"
     /\ prompts[q] # <<>> /\ Free({PromptRow(q)})
Claimed(c, row, p) ==
  [row EXCEPT !.status = "running",
              !.revision = <<Seen(c, p).prompt, Len(prompts[Seen(c, p).prompt])>>]

\* Any set of portfolios may be due, and any of the queued runs start.
ClaimRuns(c) ==
  /\ c.op = "claim" /\ Free({Settings})
  /\ \E due, take \in SUBSET {p \in Portfolio : portfolios[p] # None} :
       LET runs == Prepared(c, due)
       IN /\ \A p \in due : MayQueue(p, Seen(c, p))
          /\ \A p \in take : MayStart(c, runs, p)
          /\ run' = [p \in Portfolio |-> IF p \in take THEN Claimed(c, runs[p], p) ELSE runs[p]]
          /\ calls' = Displace(calls \ {c}, due)
  /\ UNCHANGED <<capability, agents, prompts, portfolios, config, decisions>>

\* submit_run: the run's boundary fixes the session of the decision.
SubmitRun(p) ==
  /\ run[p] # None /\ run[p].status = "running" /\ Free({Run(p), <<"portfolio", p>>})
  /\ run' = [run EXCEPT ![p].status = "succeeded"]
  /\ Decide(p, run[p].boundary)
  /\ UNCHANGED <<capability, agents, prompts, config, calls>>

\* A failed or lost attempt; with an attempt left it is queued again.
FailRun(p) ==
  /\ IsRunning(p) /\ Free({Run(p)})
  /\ \E s \in IF run[p].status = "running" THEN {"queued", "failed"} ELSE {"cancelled"} :
       run' = [run EXCEPT ![p].status = s]
  /\ UNCHANGED <<capability, agents, prompts, portfolios, config, decisions, calls>>

CancelRun(p) ==
  /\ IsActive(p) /\ Free({Run(p)})
  /\ run' = [run EXCEPT ![p].status = IF @ = "queued" THEN "cancelled" ELSE "cancel_requested"]
  /\ UNCHANGED <<capability, agents, prompts, portfolios, config, decisions, calls>>

\* PostgreSQL ends one of two transactions that wait for each other.
BreakDeadlock(c) ==
  /\ c.op = "update_agent" /\ c.stage = "write"
  /\ \E d \in calls : /\ d.op = "update_portfolio" /\ d.stage = "agent"
                      /\ d.change.agent = c.agent /\ d.portfolio \in c.queued
                      /\ \E e \in {c, d} : End(e)
  /\ UNCHANGED <<capability, agents, prompts, portfolios, config, run, decisions>>

-----------------------------------------------------------------------------
EditCatalogue ==
  \/ \E e \in Capability : UpdateModel(e)
  \/ \E f \in Profile : BeginCreateAgent(f)
  \/ \E a \in Agent : DeleteAgent(a) \/ \E f \in Profile : BeginUpdateAgent(a, f)
  \/ \E q \in Prompt : \/ DeletePrompt(q)
                       \/ \E s \in Support : CreatePrompt(q, s) \/ UpdatePrompt(q, s)
                       \/ \E n \in 1..Len(prompts[q]) : RestorePrompt(q, n)

EditPortfolio(p) ==
  \/ \E a \in Agent, q \in Prompt, t \in Track, b \in Boundary : CreatePortfolio(p, a, q, t, b)
  \/ \E ch \in Change : BeginUpdatePortfolio(p, ch)
  \/ \E e \in BOOLEAN, d \in Weekdays : BeginConfig(p, e, d)
  \/ DeletePortfolio(p) \/ ResetPortfolio(p) \/ CreateDecision(p)

UseQueue(p) == BeginManual(p) \/ SubmitRun(p) \/ FailRun(p) \/ CancelRun(p)

Continue(c) ==
  \/ CreateAgent(c) \/ ReadAgentWork(c) \/ UpdateAgent(c) \/ BreakDeadlock(c)
  \/ CheckPrompt(c) \/ UpdatePortfolio(c) \/ SetConfig(c)
  \/ EnqueueManual(c) \/ ClaimRuns(c)

Next == \/ EditCatalogue \/ BeginClaim
        \/ \E p \in Portfolio : EditPortfolio(p) \/ UseQueue(p)
        \/ \E c \in calls : Continue(c)

Spec == Init /\ [][Next]_vars

-----------------------------------------------------------------------------
\* The rows have their types, and what they refer to is there whatever is
\* deleted beside them.
TypeOK ==
  /\ capability \in Capability
  /\ agents \in [Agent -> Profile \cup {None}]
  /\ \A q \in Prompt : prompts[q] \in Seq(Support) /\ Len(prompts[q]) <= MaxVersion
  /\ portfolios \in [Portfolio -> PortfolioRow \cup {None}]
  /\ config \in [Portfolio -> Config]
  /\ run \in [Portfolio -> RunRow \cup {None}]
  /\ decisions \in [Portfolio -> SUBSET DecisionRow]
  /\ \A p \in Portfolio :
       /\ portfolios[p] # None => agents[portfolios[p].agent] # None
                                 /\ prompts[portfolios[p].prompt] # <<>>
       /\ run[p] # None => portfolios[p] # None /\ agents[run[p].agent] # None

\* While work runs, its portfolio's prompt stays at the revision the claim
\* recorded: edits, restores and reassignments are refused or come after.
NoEditUnderRunningWork ==
  \A p \in Portfolio : IsRunning(p) =>
    run[p].revision = <<portfolios[p].prompt, Len(prompts[portfolios[p].prompt])>>

\* A portfolio's whole history was decided under its present mode and direction.
DecisionsFitTrack ==
  \A p \in Portfolio : portfolios[p] # None =>
    \A d \in decisions[p] : d.track = portfolios[p].track

\* A portfolio's timing never changes once it has had a decision, whatever is
\* edited or reset at the same time.
TimingIsPermanent ==
  [][\A p \in Portfolio :
       portfolios[p] # None /\ portfolios[p].locked /\ portfolios'[p] # None =>
         portfolios'[p].locked /\ portfolios'[p].boundary = portfolios[p].boundary]_vars

\* What README.md says of running work: it is asked to stop, and ends cancelled
\* only after that.
RunningWorkIsAskedToStop ==
  [][\A p \in Portfolio :
       run[p] # None /\ run[p].status = "running" /\ run'[p] # None =>
         run'[p].status # "cancelled"]_vars

\* What README.md says of timing: a decision's session is one of its portfolio's
\* own boundary.
TimingBelongsToPortfolio ==
  \A p \in Portfolio : portfolios[p] # None =>
    \A d \in decisions[p] : d.boundary = portfolios[p].boundary

\* What README.md says of prompts: a portfolio's prompt has text for its track.
PromptsSupportPortfolios ==
  \A p \in Portfolio : portfolios[p] # None =>
    portfolios[p].track \in Current(portfolios[p].prompt)

\* What README.md says of agents: each has a profile its model offers.
AgentsAreConfigured == \A a \in Agent : agents[a] # None => ValidProfile(agents[a])

\* What README.md says of rebuilt portfolios: they run Monday through Friday.
RebuiltRunsDaily ==
  \A p \in Portfolio : portfolios[p] # None /\ portfolios[p].track \notin Managed =>
    config[p].daily
=============================================================================
