-------------------------- MODULE AdministrationProofs --------------------------
(***************************************************************************)
(* Proofs about Administration, for every number of agents, prompts,       *)
(* portfolios, tracks and calls in progress: what is decided under a track *)
(* and a timing stays under them, and running work keeps the prompt it was *)
(* given.                                                                  *)
(*                                                                         *)
(* The argument is one of locks.  A portfolio's edit checks its rows and   *)
(* writes them in different steps; between the two it holds the lock of    *)
(* the settings, which every poll and every other edit of portfolios needs,*)
(* and those of the portfolio and its runs, which submissions, reports and *)
(* cancellations need.  So what it has checked still holds when it writes. *)
(***************************************************************************)
EXTENDS Administration, TLAPS

tables == <<prompts, portfolios, run, decisions>>

\* What is known of the records of calls.
Call ==
  [op: {"update_agent"}, agent: Agent, profile: Profile, stage: {"read", "write"},
   disable: SUBSET Portfolio, queued: SUBSET Portfolio]
    \cup [op: {"update_portfolio"}, portfolio: Portfolio, change: Change,
          stage: {"prompt", "agent"}]
    \cup [op: {"manual"}, portfolio: Portfolio, seen: PortfolioRow]
    \cup [op: {"claim"}, loaded: [Portfolio -> PortfolioRow \cup {None}]]
IsCall(c) ==
  \/ c \in Call
  \/ c.op = "create_agent"
  \/ c.op = "config" /\ c.portfolio \in Portfolio

\* The tables the properties are about, with what their rows refer to.
TablesInv ==
  /\ DOMAIN prompts = Prompt /\ \A q \in Prompt : prompts[q] \in Seq(Support)
  /\ portfolios \in [Portfolio -> PortfolioRow \cup {None}]
  /\ run \in [Portfolio -> RunRow \cup {None}]
  /\ decisions \in [Portfolio -> SUBSET DecisionRow]
  /\ \A p \in Portfolio :
       IF portfolios[p] = None THEN run[p] = None /\ decisions[p] = {}
                               ELSE prompts[portfolios[p].prompt] # <<>>

\* What a call in progress has found or read, and still relies on.
Relies(c) ==
  /\ c.op \in {"config", "manual"} => portfolios[c.portfolio] # None
  /\ c.op = "update_agent" => \A p \in c.queued : run[p] # None
  /\ c.op = "update_portfolio" =>
       /\ portfolios[c.portfolio] # None /\ MayChange(c.portfolio, c.change)
       /\ c.stage = "agent" /\ c.change.prompt # None => prompts[c.change.prompt] # <<>>

\* One edit of a portfolio at a time: it holds the lock of the settings.
OneEdit ==
  \A c, d \in calls : c.op = "update_portfolio" /\ d.op = "update_portfolio" => c = d

IInv ==
  /\ TablesInv /\ DecisionsFitTrack
  /\ \A c \in calls : IsCall(c) /\ Relies(c)
  /\ OneEdit

-----------------------------------------------------------------------------
(* Locks and records. *)

\* An edit of a portfolio holds its locks.
LEMMA EditHolds ==
  ASSUME NEW c \in calls, c.op = "update_portfolio", NEW S, Free(S)
  PROVE  S \cap Lifecycle(c.portfolio) = {}
<1>1. Lifecycle(c.portfolio) \subseteq Locks(c)
  BY DEF Locks
<1>2. Locks(c) \subseteq Held(calls)
  BY DEF Held
<1>3. QED
  BY <1>1, <1>2 DEF Free

\* Against another call as well.
LEMMA EditHoldsAgainst ==
  ASSUME NEW c \in calls, c.op = "update_portfolio", NEW d, d # c, NEW S, FreeFor(d, S)
  PROVE  S \cap Lifecycle(c.portfolio) = {}
<1>1. Lifecycle(c.portfolio) \subseteq Locks(c)
  BY DEF Locks
<1>2. Locks(c) \subseteq Held(calls \ {d})
  BY DEF Held
<1>3. QED
  BY <1>1, <1>2 DEF FreeFor

\* A prompt an edit assigns is locked from its check on.
LEMMA EditHoldsPrompt ==
  ASSUME NEW c \in calls, c.op = "update_portfolio", c.stage = "agent",
         c.change.prompt # None
  PROVE  ~Free({PromptRow(c.change.prompt)})
<1>1. PromptRow(c.change.prompt) \in Locks(c)
  BY DEF Locks
<1>2. QED
  BY <1>1 DEF Free, Held

-----------------------------------------------------------------------------
(* Which steps change which tables. *)

PromptStep ==
  \E q \in Prompt : \/ DeletePrompt(q)
                    \/ \E s \in Support : CreatePrompt(q, s) \/ UpdatePrompt(q, s)
                    \/ \E n \in 1..Len(prompts[q]) : RestorePrompt(q, n)
RunStep ==
  \/ \E c \in calls : UpdateAgent(c) \/ SetConfig(c) \/ EnqueueManual(c) \/ ClaimRuns(c)
  \/ \E p \in Portfolio : FailRun(p) \/ CancelRun(p)
PortfolioStep ==
  \/ \E p \in Portfolio :
       \/ \E a \in Agent, q \in Prompt, t \in Track, b \in Boundary : CreatePortfolio(p, a, q, t, b)
       \/ DeletePortfolio(p) \/ ResetPortfolio(p) \/ CreateDecision(p) \/ SubmitRun(p)
  \/ \E c \in calls : UpdatePortfolio(c)

LEMMA Steps ==
  ASSUME [Next]_vars
  PROVE  \/ UNCHANGED tables
         \/ PromptStep /\ UNCHANGED <<portfolios, run, decisions>>
         \/ RunStep /\ UNCHANGED <<prompts, portfolios, decisions>>
         \/ PortfolioStep /\ UNCHANGED prompts
<1>1. CASE UNCHANGED vars
  BY <1>1 DEF vars, tables
<1>2. CASE EditCatalogue
  <2>1. CASE \/ \E e \in Capability : UpdateModel(e)
             \/ \E f \in Profile : BeginCreateAgent(f)
             \/ \E a \in Agent : DeleteAgent(a) \/ \E f \in Profile : BeginUpdateAgent(a, f)
    BY <2>1 DEF tables, UpdateModel, BeginCreateAgent, DeleteAgent, BeginUpdateAgent
  <2>2. CASE PromptStep
    BY <2>2 DEF PromptStep, DeletePrompt, CreatePrompt, UpdatePrompt, RestorePrompt
  <2>3. QED
    BY <1>2, <2>1, <2>2 DEF EditCatalogue, PromptStep
<1>3. CASE BeginClaim
  BY <1>3 DEF BeginClaim, tables
<1>4. ASSUME NEW p \in Portfolio, EditPortfolio(p)
      PROVE  UNCHANGED tables \/ (PortfolioStep /\ UNCHANGED prompts)
  <2>1. CASE \/ \E ch \in Change : BeginUpdatePortfolio(p, ch)
             \/ \E e \in BOOLEAN, d \in Weekdays : BeginConfig(p, e, d)
    BY <2>1 DEF tables, BeginUpdatePortfolio, BeginConfig
  <2>2. CASE \/ \E a \in Agent, q \in Prompt, t \in Track, b \in Boundary :
                  CreatePortfolio(p, a, q, t, b)
             \/ DeletePortfolio(p) \/ ResetPortfolio(p) \/ CreateDecision(p)
    BY <2>2 DEF PortfolioStep, CreatePortfolio, DeletePortfolio, ResetPortfolio, CreateDecision
  <2>3. QED
    BY <1>4, <2>1, <2>2 DEF EditPortfolio
<1>5. ASSUME NEW p \in Portfolio, UseQueue(p)
      PROVE  \/ UNCHANGED tables
             \/ RunStep /\ UNCHANGED <<prompts, portfolios, decisions>>
             \/ PortfolioStep /\ UNCHANGED prompts
  BY <1>5 DEF UseQueue, tables, RunStep, PortfolioStep, BeginManual, SubmitRun, FailRun, CancelRun
<1>6. ASSUME NEW c \in calls, Continue(c)
      PROVE  \/ UNCHANGED tables
             \/ RunStep /\ UNCHANGED <<prompts, portfolios, decisions>>
             \/ PortfolioStep /\ UNCHANGED prompts
  <2>1. CASE CreateAgent(c) \/ ReadAgentWork(c) \/ BreakDeadlock(c) \/ CheckPrompt(c)
    BY <2>1 DEF tables, CreateAgent, ReadAgentWork, BreakDeadlock, CheckPrompt
  <2>2. CASE UpdateAgent(c) \/ SetConfig(c) \/ EnqueueManual(c) \/ ClaimRuns(c)
    <3>1. RunStep
      BY <2>2 DEF RunStep
    <3>2. CASE UpdateAgent(c)
      BY <3>1, <3>2 DEF UpdateAgent
    <3>3. CASE SetConfig(c)
      BY <3>1, <3>3 DEF SetConfig
    <3>4. CASE EnqueueManual(c)
      BY <3>1, <3>4 DEF EnqueueManual
    <3>5. CASE ClaimRuns(c)
      BY <3>1, <3>5 DEF ClaimRuns
    <3>6. QED
      BY <2>2, <3>2, <3>3, <3>4, <3>5
  <2>3. CASE UpdatePortfolio(c)
    <3>1. PortfolioStep
      BY <2>3 DEF PortfolioStep
    <3>2. QED
      BY <2>3, <3>1 DEF UpdatePortfolio
  <2>4. QED
    BY <1>6, <2>1, <2>2, <2>3 DEF Continue
<1>7. QED
  BY <1>1, <1>2, <1>3, <1>4, <1>5, <1>6 DEF Next

\* While an edit is under way, nothing else touches its portfolio, its runs or its
\* decisions.
LEMMA EditIsUndisturbed ==
  ASSUME IInv, [Next]_vars, NEW c \in calls, c.op = "update_portfolio", ~UpdatePortfolio(c)
  PROVE  LET p == c.portfolio
         IN portfolios'[p] = portfolios[p] /\ run'[p] = run[p] /\ decisions'[p] = decisions[p]
<1> DEFINE p == c.portfolio
<1>1. /\ p \in Portfolio /\ DOMAIN portfolios = Portfolio /\ DOMAIN run = Portfolio
      /\ DOMAIN decisions = Portfolio
  BY DEF IInv, TablesInv, IsCall, Call
<1>2. ~Free({Settings}) /\ \A S : Settings \in S => ~Free(S)
  BY EditHolds DEF Lifecycle
<1>3. \A S : Run(p) \in S => ~Free(S)
  BY EditHolds DEF Lifecycle
<1>4. \A S : <<"portfolio", p>> \in S => ~Free(S)
  BY EditHolds DEF Lifecycle
<1> HIDE DEF p
<1>5. CASE RunStep /\ UNCHANGED <<portfolios, decisions>>
  <2>1. ASSUME NEW d \in calls, UpdateAgent(d) PROVE run'[p] = run[p]
    <3>1. d # c /\ FreeFor(d, {Run(q) : q \in d.queued})
      BY <2>1 DEF UpdateAgent
    <3>2. {Run(q) : q \in d.queued} \cap Lifecycle(c.portfolio) = {}
      BY <3>1, EditHoldsAgainst
    <3>3. p \notin d.queued
      BY <3>2 DEF p, Lifecycle
    <3>4. QED
      BY <1>1, <2>1, <3>3 DEF UpdateAgent
  <2>2. ASSUME NEW d \in calls, SetConfig(d) \/ EnqueueManual(d) \/ ClaimRuns(d) PROVE FALSE
    <3>1. ~SetConfig(d) /\ ~EnqueueManual(d)
      BY <1>2 DEF SetConfig, EnqueueManual
    <3>2. ~ClaimRuns(d)
      BY <1>2 DEF ClaimRuns
    <3>3. QED
      BY <2>2, <3>1, <3>2
  <2>3. ASSUME NEW q \in Portfolio, FailRun(q) \/ CancelRun(q) PROVE run'[p] = run[p]
    <3>1. q # p
      BY <1>3, <2>3 DEF FailRun, CancelRun
    <3>2. QED
      BY <1>1, <2>3, <3>1 DEF FailRun, CancelRun
  <2>4. QED
    BY <1>5, <2>1, <2>2, <2>3 DEF RunStep, p
<1>6. CASE PortfolioStep
  <2>1. ASSUME NEW q \in Portfolio,
               \/ \E a \in Agent, x \in Prompt, t \in Track, b \in Boundary :
                    CreatePortfolio(q, a, x, t, b)
               \/ DeletePortfolio(q) \/ ResetPortfolio(q)
        PROVE  FALSE
    <3>1. Settings \in Lifecycle(q)
      BY DEF Lifecycle
    <3>2. \E S : Settings \in S /\ Free(S)
      BY <2>1, <3>1 DEF CreatePortfolio, DeletePortfolio, ResetPortfolio
    <3>3. QED
      BY <1>2, <3>2
  <2>2. ASSUME NEW q \in Portfolio, CreateDecision(q) \/ SubmitRun(q)
        PROVE  portfolios'[p] = portfolios[p] /\ run'[p] = run[p] /\ decisions'[p] = decisions[p]
    <3>1. q # p
      BY <1>4, <2>2 DEF CreateDecision, SubmitRun
    <3>2. QED
      BY <1>1, <2>2, <3>1 DEF CreateDecision, SubmitRun, Decide
  <2>3. ASSUME NEW d \in calls, UpdatePortfolio(d) PROVE FALSE
    BY <2>3 DEF IInv, OneEdit, UpdatePortfolio
  <2>4. QED
    BY <1>6, <2>1, <2>2, <2>3 DEF PortfolioStep, p
<1>7. QED
  BY <1>5, <1>6, Steps DEF tables, p

-----------------------------------------------------------------------------
(* What a step of the runs makes of each row. *)

\* A claim starts the run on the latest revision of the prompt it sees.
Starts(p) ==
  \E c \in calls : /\ c.op = "claim" /\ Seen(c, p) \in PortfolioRow
                   /\ run'[p].revision =
                        <<Seen(c, p).prompt, Len(prompts[Seen(c, p).prompt])>>

\* It becomes new, which is a row exactly where there was or is a portfolio; a run
\* that is running afterwards was running on the same revision before, or starts.
RowMoves(p) ==
  /\ run'[p] \in RunRow \cup {None}
  /\ run[p] # None => run'[p] # None
  /\ portfolios[p] = None => run'[p] = None
  /\ IsRunning(p)' => \/ IsRunning(p) /\ run'[p].revision = run[p].revision
                      \/ ~IsRunning(p) /\ Starts(p)

LEMMA RowKept ==
  ASSUME TablesInv, NEW p \in Portfolio, run'[p] = run[p]
  PROVE  RowMoves(p)
  BY DEF TablesInv, RowMoves, IsRunning

\* A row whose status alone changes.
LEMMA RowRestated ==
  ASSUME TablesInv, NEW p \in Portfolio, run[p] # None, NEW s \in Status,
         run'[p] = [run[p] EXCEPT !.status = s],
         s \in {"running", "cancel_requested"} => IsRunning(p)
  PROVE  RowMoves(p)
<1>1. run[p] \in RunRow /\ portfolios[p] # None
  BY DEF TablesInv
<1>2. /\ run'[p] \in RunRow /\ run'[p].status = s /\ run'[p].revision = run[p].revision
  BY <1>1 DEF RunRow
<1>3. run'[p] # None
  BY <1>2, CatalogueAssumption
<1>4. QED
  BY <1>1, <1>2, <1>3 DEF RowMoves, IsRunning

\* A row that is queued.
LEMMA RowQueued ==
  ASSUME TablesInv, NEW p \in Portfolio, portfolios[p] # None,
         NEW row \in PortfolioRow, run'[p] = Queued(row)
  PROVE  RowMoves(p)
<1>1. Queued(row) \in RunRow /\ Queued(row).status = "queued"
  BY DEF Queued, RunRow, Status, PortfolioRow
<1>2. run'[p] # None
  BY <1>1, CatalogueAssumption
<1>3. QED
  BY <1>1, <1>2 DEF RowMoves, IsRunning

LEMMA ClaimMoves ==
  ASSUME IInv, NEW c \in calls, ClaimRuns(c)
  PROVE  \A p \in Portfolio : RowMoves(p)
<1>1. TablesInv /\ c.op = "claim" /\ c.loaded \in [Portfolio -> PortfolioRow \cup {None}]
  BY DEF IInv, ClaimRuns, IsCall, Call
<1>2. PICK due \in SUBSET {p \in Portfolio : portfolios[p] # None},
           take \in SUBSET {p \in Portfolio : portfolios[p] # None} :
        LET runs == Prepared(c, due)
        IN /\ \A p \in due : MayQueue(p, Seen(c, p))
           /\ \A p \in take : MayStart(c, runs, p)
           /\ run' = [p \in Portfolio |-> IF p \in take THEN Claimed(c, runs[p], p) ELSE runs[p]]
  BY DEF ClaimRuns
<1> DEFINE runs == Prepared(c, due)
<1> SUFFICES ASSUME NEW p \in Portfolio PROVE RowMoves(p)
  OBVIOUS
<1>3. run'[p] = IF p \in take THEN Claimed(c, runs[p], p) ELSE runs[p]
  BY <1>2
<1>4. portfolios[p] # None => Seen(c, p) \in PortfolioRow
  BY <1>1 DEF TablesInv, Seen
<1>5. \/ p \in due /\ runs[p] = Queued(Seen(c, p))
      \/ /\ run[p] # None /\ run[p].status = "queued"
         /\ runs[p] = [run[p] EXCEPT !.status = "cancelled"]
      \/ runs[p] = run[p]
  BY DEF Prepared
<1>6. (p \in take => MayStart(c, runs, p)) /\ (p \in due => ~IsActive(p))
  BY <1>2 DEF MayQueue
<1> HIDE DEF runs
<1>7. CASE p \notin take
  <2>1. CASE p \in due /\ runs[p] = Queued(Seen(c, p))
    BY <1>1, <1>2, <1>3, <1>4, <1>7, <2>1, RowQueued
  <2>2. CASE /\ run[p] # None /\ run[p].status = "queued"
             /\ runs[p] = [run[p] EXCEPT !.status = "cancelled"]
    BY <1>1, <1>3, <1>7, <2>2, RowRestated DEF Status
  <2>3. CASE runs[p] = run[p]
    BY <1>1, <1>3, <1>7, <2>3, RowKept
  <2>4. QED
    BY <1>5, <2>1, <2>2, <2>3
<1>8. CASE p \in take
  <2> DEFINE q == Seen(c, p).prompt
  <2>1. portfolios[p] # None /\ Seen(c, p) \in PortfolioRow /\ q \in Prompt
    BY <1>2, <1>4, <1>8 DEF PortfolioRow
  <2>2. runs[p] \in RunRow
    <3>1. CASE p \in due /\ runs[p] = Queued(Seen(c, p))
      BY <2>1, <3>1 DEF Queued, RunRow, Status, PortfolioRow
    <3>2. CASE run[p] # None /\ runs[p] = [run[p] EXCEPT !.status = "cancelled"]
      BY <1>1, <3>2 DEF TablesInv, RunRow, Status
    <3>3. CASE runs[p] = run[p]
      BY <1>1, <1>6, <1>8, <3>3 DEF TablesInv, MayStart
    <3>4. QED
      BY <1>5, <3>1, <3>2, <3>3
  <2>3. prompts[q] \in Seq(Support) /\ prompts[q] # <<>>
    BY <1>1, <1>6, <1>8, <2>1 DEF TablesInv, MayStart
  <2>4. Len(prompts[q]) \in Nat \ {0}
    BY <2>3
  <2>5. <<q, Len(prompts[q])>> \in Revision
    BY <2>1, <2>4 DEF Revision
  <2>6. run'[p] = [runs[p] EXCEPT !.status = "running", !.revision = <<q, Len(prompts[q])>>]
    BY <1>3, <1>8 DEF Claimed
  <2> HIDE DEF q
  <2>7. run'[p] \in RunRow /\ run'[p].revision = <<q, Len(prompts[q])>>
    BY <2>2, <2>5, <2>6 DEF RunRow, Status
  <2>8. run'[p] # None /\ Starts(p)
    BY <1>1, <2>1, <2>7, CatalogueAssumption DEF Starts, q
  <2>9. ~IsRunning(p)
    <3>1. runs[p].status = "queued"
      BY <1>6, <1>8 DEF MayStart
    <3>2. CASE p \in due
      BY <1>6, <3>2 DEF IsActive, IsRunning, Active
    <3>3. CASE run[p] # None /\ run[p].status = "queued"
      BY <3>3 DEF IsRunning
    <3>4. CASE runs[p] = run[p]
      BY <3>1, <3>4 DEF IsRunning
    <3>5. QED
      BY <1>5, <3>2, <3>3, <3>4
  <2>10. QED
    BY <2>1, <2>7, <2>8, <2>9 DEF RowMoves
<1>9. QED
  BY <1>7, <1>8

LEMMA RunStepMoves ==
  ASSUME IInv, RunStep
  PROVE  \A p \in Portfolio : RowMoves(p)
<1>1. TablesInv /\ DOMAIN run = Portfolio
  BY DEF IInv, TablesInv
<1>2. ASSUME NEW c \in calls, UpdateAgent(c), NEW p \in Portfolio PROVE RowMoves(p)
  <2>1. c.queued \subseteq Portfolio /\ \A q \in c.queued : run[q] # None
    BY <1>2 DEF UpdateAgent, IInv, IsCall, Call, Relies
  <2>2. \/ run'[p] = run[p]
        \/ p \in c.queued /\ run'[p] = [run[p] EXCEPT !.status = "cancelled"]
    BY <1>2 DEF UpdateAgent
  <2>3. QED
    BY <1>1, <2>1, <2>2, RowKept, RowRestated DEF Status
<1>3. ASSUME NEW c \in calls, SetConfig(c), NEW p \in Portfolio PROVE RowMoves(p)
  <2>1. \/ run'[p] = run[p]
        \/ run[p] # None /\ run'[p] = [run[p] EXCEPT !.status = "cancelled"]
    BY <1>1, <1>3 DEF SetConfig
  <2>2. QED
    BY <1>1, <2>1, RowKept, RowRestated DEF Status
<1>4. ASSUME NEW c \in calls, EnqueueManual(c), NEW p \in Portfolio PROVE RowMoves(p)
  <2>1. c.portfolio \in Portfolio /\ c.seen \in PortfolioRow /\ portfolios[c.portfolio] # None
    BY <1>4 DEF EnqueueManual, IInv, IsCall, Call, Relies
  <2>2. \/ run'[p] = run[p]
        \/ p = c.portfolio /\ run'[p] = Queued(c.seen)
    BY <1>1, <1>4 DEF EnqueueManual
  <2>3. QED
    BY <1>1, <2>1, <2>2, RowKept, RowQueued
<1>5. ASSUME NEW q \in Portfolio, FailRun(q) \/ CancelRun(q), NEW p \in Portfolio PROVE RowMoves(p)
  <2>1. \/ run'[p] = run[p]
        \/ /\ run[p] # None
           /\ \E s \in {"queued", "failed", "cancelled"} : run'[p] = [run[p] EXCEPT !.status = s]
        \/ IsRunning(p) /\ run'[p] = [run[p] EXCEPT !.status = "cancel_requested"]
    <3>1. CASE FailRun(q)
      BY <1>1, <3>1 DEF FailRun, IsRunning
    <3>2. CASE CancelRun(q)
      <4>1. run[q] # None /\ run[q].status \in Active
        BY <3>2 DEF CancelRun, IsActive
      <4>2. CASE run[q].status = "queued"
        <5>1. run' = [run EXCEPT ![q] = [run[q] EXCEPT !.status = "cancelled"]]
          BY <1>1, <3>2, <4>2 DEF CancelRun
        <5>2. QED
          BY <1>1, <4>1, <5>1
      <4>3. CASE run[q].status # "queued"
        <5>1. run' = [run EXCEPT ![q] = [run[q] EXCEPT !.status = "cancel_requested"]]
          BY <1>1, <3>2, <4>3 DEF CancelRun
        <5>2. IsRunning(q)
          BY <4>1, <4>3 DEF Active, IsRunning
        <5>3. QED
          BY <1>1, <5>1, <5>2
      <4>4. QED
        BY <4>2, <4>3
    <3>3. QED
      BY <1>5, <3>1, <3>2
  <2>2. QED
    BY <1>1, <2>1, RowKept, RowRestated DEF Status, IsRunning
<1>6. QED
  BY <1>2, <1>3, <1>4, <1>5, ClaimMoves DEF RunStep

-----------------------------------------------------------------------------
(* What a step of the portfolios makes of each. *)

\* Its rows, where there are any, belong together; its decisions have its track; a
\* run that is running was so before, on the prompt that the portfolio keeps; and
\* its timing, once locked, stays.
PortfolioMoves(p) ==
  /\ portfolios'[p] \in PortfolioRow \cup {None}
  /\ run'[p] \in RunRow \cup {None} /\ decisions'[p] \subseteq DecisionRow
  /\ IF portfolios'[p] = None THEN run'[p] = None /\ decisions'[p] = {}
     ELSE /\ prompts[portfolios'[p].prompt] # <<>>
          /\ \A d \in decisions'[p] : d.track = portfolios'[p].track
  /\ IsRunning(p)' => /\ IsRunning(p) /\ run'[p].revision = run[p].revision
                      /\ portfolios'[p].prompt = portfolios[p].prompt
  /\ portfolios[p] # None /\ portfolios[p].locked /\ portfolios'[p] # None =>
       portfolios'[p].locked /\ portfolios'[p].boundary = portfolios[p].boundary

LEMMA PortfolioKept ==
  ASSUME IInv, NEW p \in Portfolio,
         portfolios'[p] = portfolios[p], run'[p] = run[p], decisions'[p] = decisions[p]
  PROVE  PortfolioMoves(p)
  BY DEF IInv, TablesInv, DecisionsFitTrack, PortfolioMoves, IsRunning

\* A decision is of the portfolio's present track, and locks its timing.
LEMMA Decided ==
  ASSUME IInv, NEW p \in Portfolio, portfolios[p] # None, NEW b \in Boundary, Decide(p, b),
         run'[p] \in RunRow \cup {None}, IsRunning(p)' => run'[p] = run[p]
  PROVE  PortfolioMoves(p)
<1> DEFINE d == [track |-> portfolios[p].track, boundary |-> b]
           new == [portfolios[p] EXCEPT !.locked = TRUE]
<1>1. TablesInv /\ DecisionsFitTrack /\ portfolios[p] \in PortfolioRow
  BY DEF IInv, TablesInv
<1>2. decisions' = [decisions EXCEPT ![p] = @ \cup {d}]
  BY DEF Decide
<1>3. portfolios' = [portfolios EXCEPT ![p] = new]
  BY <1>1 DEF Decide, TablesInv
<1>4. d \in DecisionRow /\ d.track = portfolios[p].track
  BY <1>1 DEF DecisionRow, PortfolioRow
<1>5. /\ new \in PortfolioRow /\ new.locked /\ new.track = portfolios[p].track
      /\ new.prompt = portfolios[p].prompt /\ new.boundary = portfolios[p].boundary
  BY <1>1 DEF PortfolioRow
<1> HIDE DEF d, new
<1>6. portfolios'[p] = new /\ decisions'[p] = decisions[p] \cup {d} /\ new # None
  BY <1>1, <1>2, <1>3, <1>5, CatalogueAssumption DEF TablesInv
<1>7. \A e \in decisions'[p] : e \in DecisionRow /\ e.track = new.track
  BY <1>1, <1>4, <1>5, <1>6 DEF TablesInv, DecisionsFitTrack
<1>8. prompts[new.prompt] # <<>>
  BY <1>1, <1>5 DEF TablesInv
<1>9. QED
  BY <1>5, <1>6, <1>7, <1>8 DEF PortfolioMoves, IsRunning

\* An edit changes what its check allowed, which still holds.
LEMMA EditMoves ==
  ASSUME IInv, NEW c \in calls, UpdatePortfolio(c)
  PROVE  \A p \in Portfolio : PortfolioMoves(p)
<1> DEFINE q == c.portfolio
           ch == c.change
           row == portfolios[q]
           new == Changed(row, ch)
<1>1. /\ TablesInv /\ DecisionsFitTrack /\ c.op = "update_portfolio" /\ c.stage = "agent"
      /\ q \in Portfolio /\ ch \in Change /\ Relies(c)
  BY DEF IInv, UpdatePortfolio, IsCall, Call
<1>2. /\ row \in PortfolioRow /\ MayChange(q, ch) /\ ch.track \in Track
      /\ ch.boundary \in Boundary /\ ch.agent \in Agent \cup {None}
      /\ ch.prompt \in Prompt \cup {None}
      /\ ch.prompt # None => prompts[ch.prompt] # <<>>
      /\ prompts[row.prompt] # <<>>
  BY <1>1 DEF Relies, TablesInv, Change
<1> SUFFICES ASSUME portfolios' # portfolios \/ run' # run
             PROVE  \A p \in Portfolio : PortfolioMoves(p)
  BY PortfolioKept DEF UpdatePortfolio
<1>3. /\ portfolios' = [portfolios EXCEPT ![q] = new]
      /\ \/ run' = run
         \/ /\ run[q] # None /\ run[q].status = "queued"
            /\ run' = [run EXCEPT ![q] = [run[q] EXCEPT !.status = "cancelled"]]
      /\ UNCHANGED decisions
  BY <1>1 DEF UpdatePortfolio, TablesInv
<1>4. /\ new \in PortfolioRow /\ new.track = ch.track /\ new.boundary = ch.boundary
      /\ new.locked = row.locked
      /\ new.prompt = IF ch.prompt = None THEN row.prompt ELSE ch.prompt
  BY <1>2 DEF Changed, PortfolioRow
<1>5. new # None
  BY <1>4, CatalogueAssumption
<1>6. /\ ch.track # row.track => decisions[q] = {}
      /\ ch.boundary # row.boundary => ~row.locked
      /\ IsActive(q) => ch.prompt \in {None, row.prompt}
  BY <1>2 DEF MayChange
<1> HIDE DEF new
<1>7. portfolios'[q] = new
  BY <1>1, <1>3 DEF TablesInv
<1>8. IsRunning(q)' => run'[q] = run[q] /\ IsRunning(q)
  BY <1>1, <1>3 DEF TablesInv, IsRunning, RunRow
<1>9. run'[q] \in RunRow \cup {None}
  <2>1. run \in [Portfolio -> RunRow \cup {None}] /\ q \in Portfolio
    BY <1>1 DEF TablesInv
  <2>2. run[q] # None => [run[q] EXCEPT !.status = "cancelled"] \in RunRow
    BY <2>1 DEF RunRow, Status
  <2>3. QED
    BY <1>3, <2>1, <2>2
<1>10. IsRunning(q)' => new.prompt = row.prompt
  BY <1>4, <1>6, <1>8 DEF IsRunning, IsActive, Active
<1>11. \A d \in decisions'[q] : d \in DecisionRow /\ d.track = new.track
  BY <1>1, <1>2, <1>3, <1>4, <1>6 DEF TablesInv, DecisionsFitTrack
<1>12. prompts[new.prompt] # <<>>
  BY <1>2, <1>4
<1>13. PortfolioMoves(q)
  BY <1>4, <1>5, <1>6, <1>7, <1>8, <1>9, <1>10, <1>11, <1>12 DEF PortfolioMoves
<1>14. ASSUME NEW p \in Portfolio, p # q PROVE PortfolioMoves(p)
  <2>1. portfolios'[p] = portfolios[p] /\ run'[p] = run[p] /\ decisions'[p] = decisions[p]
    BY <1>1, <1>3, <1>14 DEF TablesInv
  <2>2. QED
    BY <2>1, PortfolioKept
<1>15. QED
  BY <1>13, <1>14

LEMMA PortfolioStepMoves ==
  ASSUME IInv, PortfolioStep
  PROVE  \A p \in Portfolio : PortfolioMoves(p)
<1>1. /\ TablesInv /\ DOMAIN portfolios = Portfolio /\ DOMAIN run = Portfolio
      /\ DOMAIN decisions = Portfolio
  BY DEF IInv, TablesInv
<1>2. ASSUME NEW q \in Portfolio, NEW a \in Agent, NEW x \in Prompt, NEW t \in Track,
             NEW b \in Boundary, CreatePortfolio(q, a, x, t, b), NEW p \in Portfolio
      PROVE  PortfolioMoves(p)
  <2> DEFINE new == [agent |-> a, prompt |-> x, track |-> t, boundary |-> b, locked |-> FALSE]
  <2>1. portfolios' = [portfolios EXCEPT ![q] = new] /\ UNCHANGED <<run, decisions>>
        /\ portfolios[q] = None /\ prompts[x] # <<>>
    BY <1>2 DEF CreatePortfolio
  <2>2. new \in PortfolioRow /\ new.prompt = x
    BY DEF PortfolioRow
  <2> HIDE DEF new
  <2>3. CASE p = q
    <3>1. portfolios'[p] = new /\ new # None /\ run'[p] = None /\ decisions'[p] = {}
      BY <1>1, <2>1, <2>2, <2>3, CatalogueAssumption DEF TablesInv
    <3>2. QED
      BY <2>1, <2>2, <2>3, <3>1 DEF PortfolioMoves, IsRunning
  <2>4. CASE p # q
    BY <1>1, <2>1, <2>4, PortfolioKept
  <2>5. QED
    BY <2>3, <2>4
<1>3. ASSUME NEW q \in Portfolio, DeletePortfolio(q) \/ ResetPortfolio(q), NEW p \in Portfolio
      PROVE  PortfolioMoves(p)
  <2>1. CASE p = q
    <3>1. /\ run'[p] = None /\ decisions'[p] = {}
          /\ portfolios'[p] = None \/ portfolios'[p] = portfolios[p]
      BY <1>1, <1>3, <2>1 DEF DeletePortfolio, ResetPortfolio
    <3>2. QED
      BY <1>1, <3>1 DEF PortfolioMoves, IsRunning, TablesInv
  <2>2. CASE p # q
    BY <1>1, <1>3, <2>2, PortfolioKept DEF DeletePortfolio, ResetPortfolio
  <2>3. QED
    BY <2>1, <2>2
<1>4. ASSUME NEW q \in Portfolio, CreateDecision(q), NEW p \in Portfolio PROVE PortfolioMoves(p)
  <2>1. /\ portfolios[q] # None /\ portfolios[q].boundary \in Boundary
        /\ Decide(q, portfolios[q].boundary) /\ UNCHANGED run
    BY <1>1, <1>4 DEF CreateDecision, TablesInv, PortfolioRow
  <2>2. p # q => portfolios'[p] = portfolios[p] /\ decisions'[p] = decisions[p]
    BY <1>1, <2>1 DEF Decide
  <2>3. QED
    BY <1>1, <2>1, <2>2, PortfolioKept, Decided DEF TablesInv
<1>5. ASSUME NEW q \in Portfolio, SubmitRun(q), NEW p \in Portfolio PROVE PortfolioMoves(p)
  <2> DEFINE new == [run[q] EXCEPT !.status = "succeeded"]
  <2>1. run[q] \in RunRow /\ portfolios[q] # None
    BY <1>1, <1>5 DEF SubmitRun, TablesInv
  <2>2. run' = [run EXCEPT ![q] = new] /\ Decide(q, run[q].boundary) /\ run[q].boundary \in Boundary
    BY <1>1, <1>5, <2>1 DEF SubmitRun, RunRow
  <2>3. new \in RunRow /\ new.status = "succeeded"
    BY <2>1 DEF RunRow, Status
  <2> HIDE DEF new
  <2>4. run'[q] = new /\ ~IsRunning(q)'
    BY <1>1, <2>2, <2>3 DEF IsRunning
  <2>5. p # q => /\ portfolios'[p] = portfolios[p] /\ decisions'[p] = decisions[p]
                 /\ run'[p] = run[p]
    BY <1>1, <2>2 DEF Decide
  <2>6. PortfolioMoves(q)
    BY <2>1, <2>2, <2>3, <2>4, Decided
  <2>7. QED
    BY <2>5, <2>6, PortfolioKept
<1>6. QED
  BY <1>2, <1>3, <1>4, <1>5, EditMoves DEF PortfolioStep

-----------------------------------------------------------------------------
(* The prompts. *)

LEMMA PromptStepKeeps ==
  ASSUME IInv, PromptStep
  PROVE  /\ DOMAIN prompts' = Prompt
         /\ \A q \in Prompt :
              /\ prompts'[q] \in Seq(Support)
              /\ UsersOfPrompt(q) # {} /\ prompts[q] # <<>> => prompts'[q] # <<>>
              /\ \A p \in UsersOfPrompt(q) :
                   IsRunning(p) /\ prompts[q] # <<>> => prompts'[q] = prompts[q]
<1>1. DOMAIN prompts = Prompt /\ \A q \in Prompt : prompts[q] \in Seq(Support)
  BY DEF IInv, TablesInv
<1>2. ASSUME NEW q \in Prompt, DeletePrompt(q)
      PROVE  prompts' = [prompts EXCEPT ![q] = <<>>] /\ UsersOfPrompt(q) = {}
  BY <1>2 DEF DeletePrompt, PromptInUse
<1>3. ASSUME NEW q \in Prompt, NEW s \in Support, CreatePrompt(q, s)
      PROVE  prompts' = [prompts EXCEPT ![q] = <<s>>] /\ prompts[q] = <<>>
  BY <1>3 DEF CreatePrompt
<1>4. ASSUME NEW q \in Prompt, NEW s \in Support, MayEdit(q, s), AppendVersion(q, s)
      PROVE  /\ prompts' = [prompts EXCEPT ![q] = Append(prompts[q], s)]
             /\ \A p \in UsersOfPrompt(q) : ~IsRunning(p)
  BY <1>1, <1>4 DEF MayEdit, AppendVersion
<1>5. \A q \in Prompt, s \in Support :
        Append(prompts[q], s) \in Seq(Support) /\ Append(prompts[q], s) # <<>>
  BY <1>1
<1>6. ASSUME NEW q \in Prompt, NEW n \in 1..Len(prompts[q]) PROVE prompts[q][n] \in Support
  BY <1>1
<1>7. \/ \E q \in Prompt : prompts' = [prompts EXCEPT ![q] = <<>>] /\ UsersOfPrompt(q) = {}
      \/ \E q \in Prompt, s \in Support :
           prompts' = [prompts EXCEPT ![q] = <<s>>] /\ prompts[q] = <<>>
      \/ \E q \in Prompt, s \in Support :
           /\ prompts' = [prompts EXCEPT ![q] = Append(prompts[q], s)]
           /\ \A p \in UsersOfPrompt(q) : ~IsRunning(p)
  BY <1>2, <1>3, <1>4, <1>6 DEF PromptStep, UpdatePrompt, RestorePrompt
<1>8. <<>> \in Seq(Support) /\ \A s \in Support : <<s>> \in Seq(Support) /\ <<s>> # <<>>
  OBVIOUS
<1>9. DOMAIN prompts' = Prompt
  BY <1>1, <1>7
<1>10. ASSUME NEW q \in Prompt
       PROVE  \/ prompts'[q] = prompts[q]
              \/ prompts'[q] = <<>> /\ UsersOfPrompt(q) = {}
              \/ prompts[q] = <<>> /\ \E s \in Support : prompts'[q] = <<s>>
              \/ /\ \E s \in Support : prompts'[q] = Append(prompts[q], s)
                 /\ \A p \in UsersOfPrompt(q) : ~IsRunning(p)
  BY <1>1, <1>7
<1>11. QED
  BY <1>1, <1>5, <1>8, <1>9, <1>10

\* The tables stay tables of the same slots.
LEMMA RunStaysTable ==
  ASSUME TablesInv, RunStep
  PROVE  run' = [p \in Portfolio |-> run'[p]]
<1>1. run = [p \in Portfolio |-> run[p]]
  BY DEF TablesInv
<1>2. ASSUME NEW c \in calls, UpdateAgent(c) PROVE run' = [p \in Portfolio |-> run'[p]]
  BY <1>1, <1>2 DEF UpdateAgent
<1>3. ASSUME NEW c \in calls, SetConfig(c) \/ EnqueueManual(c)
      PROVE  run' = [p \in Portfolio |-> run'[p]]
  <2>1. run' = run \/ \E q, row : run' = [run EXCEPT ![q] = row]
    BY <1>3 DEF SetConfig, EnqueueManual
  <2>2. QED
    BY <1>1, <2>1
<1>4. ASSUME NEW c \in calls, ClaimRuns(c) PROVE run' = [p \in Portfolio |-> run'[p]]
  BY <1>4 DEF ClaimRuns
<1>5. ASSUME NEW p \in Portfolio, FailRun(p) \/ CancelRun(p)
      PROVE  run' = [q \in Portfolio |-> run'[q]]
  <2>1. \E q, row : run' = [run EXCEPT ![q] = row]
    BY <1>5 DEF FailRun, CancelRun
  <2>2. QED
    BY <1>1, <2>1
<1>6. QED
  BY <1>2, <1>3, <1>4, <1>5 DEF RunStep

LEMMA PortfoliosStayTables ==
  ASSUME TablesInv, PortfolioStep
  PROVE  /\ portfolios' = [p \in Portfolio |-> portfolios'[p]]
         /\ run' = [p \in Portfolio |-> run'[p]]
         /\ decisions' = [p \in Portfolio |-> decisions'[p]]
<1>1. /\ portfolios = [p \in Portfolio |-> portfolios[p]] /\ run = [p \in Portfolio |-> run[p]]
      /\ decisions = [p \in Portfolio |-> decisions[p]]
  BY DEF TablesInv
<1>2. \E q, x, y, z :
        /\ portfolios' = portfolios \/ portfolios' = [portfolios EXCEPT ![q] = x]
        /\ run' = run \/ run' = [run EXCEPT ![q] = y]
        /\ decisions' = decisions \/ decisions' = [decisions EXCEPT ![q] = z]
  <2>1. ASSUME NEW p \in Portfolio,
               \/ \E a \in Agent, q \in Prompt, t \in Track, b \in Boundary :
                    CreatePortfolio(p, a, q, t, b)
               \/ DeletePortfolio(p) \/ ResetPortfolio(p)
        PROVE  <1>2!:
    <3>1. ASSUME NEW a \in Agent, NEW q \in Prompt, NEW t \in Track, NEW b \in Boundary,
                 CreatePortfolio(p, a, q, t, b)
          PROVE  <1>2!:
      BY <3>1 DEF CreatePortfolio
    <3>2. CASE DeletePortfolio(p)
      BY <3>2 DEF DeletePortfolio
    <3>3. CASE ResetPortfolio(p)
      BY <3>3 DEF ResetPortfolio
    <3>4. QED
      BY <2>1, <3>1, <3>2, <3>3
  <2>2. ASSUME NEW p \in Portfolio, CreateDecision(p) \/ SubmitRun(p)
        PROVE  <1>2!:
    BY <2>2 DEF CreateDecision, SubmitRun, Decide
  <2>3. ASSUME NEW c \in calls, UpdatePortfolio(c)
        PROVE  <1>2!:
    BY <2>3 DEF UpdatePortfolio
  <2>4. QED
    BY <2>1, <2>2, <2>3 DEF PortfolioStep
<1>3. QED
  BY <1>1, <1>2

\* The tables stay well formed, and no decision ends up under another track.
LEMMA TablesStep ==
  ASSUME IInv, [Next]_vars
  PROVE  TablesInv' /\ DecisionsFitTrack'
<1>1. TablesInv /\ DecisionsFitTrack
  BY DEF IInv
<1>2. CASE UNCHANGED tables
  BY <1>1, <1>2 DEF tables, TablesInv, DecisionsFitTrack
<1>3. CASE PromptStep /\ UNCHANGED <<portfolios, run, decisions>>
  <2>1. \A p \in Portfolio : portfolios[p] # None =>
          /\ portfolios[p].prompt \in Prompt /\ p \in UsersOfPrompt(portfolios[p].prompt)
          /\ prompts[portfolios[p].prompt] # <<>>
    BY <1>1 DEF TablesInv, PortfolioRow, UsersOfPrompt
  <2>2. \A p \in Portfolio : portfolios[p] # None => prompts'[portfolios[p].prompt] # <<>>
    BY <1>3, <2>1, PromptStepKeeps
  <2>3. QED
    BY <1>1, <1>3, <2>2, PromptStepKeeps DEF TablesInv, DecisionsFitTrack
<1>4. CASE RunStep /\ UNCHANGED <<prompts, portfolios, decisions>>
  <2>1. \A p \in Portfolio : RowMoves(p)
    BY <1>4, RunStepMoves
  <2>2. run' = [p \in Portfolio |-> run'[p]]
    BY <1>1, <1>4, RunStaysTable
  <2>3. run' \in [Portfolio -> RunRow \cup {None}]
    BY <2>1, <2>2 DEF RowMoves
  <2>4. QED
    BY <1>1, <1>4, <2>1, <2>3 DEF TablesInv, DecisionsFitTrack, RowMoves
<1>5. CASE PortfolioStep /\ UNCHANGED prompts
  <2>1. \A p \in Portfolio : PortfolioMoves(p)
    BY <1>5, PortfolioStepMoves
  <2>2. /\ portfolios' = [p \in Portfolio |-> portfolios'[p]]
        /\ run' = [p \in Portfolio |-> run'[p]]
        /\ decisions' = [p \in Portfolio |-> decisions'[p]]
    BY <1>1, <1>5, PortfoliosStayTables
  <2>3. /\ portfolios' \in [Portfolio -> PortfolioRow \cup {None}]
        /\ run' \in [Portfolio -> RunRow \cup {None}]
        /\ decisions' \in [Portfolio -> SUBSET DecisionRow]
    BY <2>1, <2>2 DEF PortfolioMoves
  <2>4. QED
    BY <1>1, <1>5, <2>1, <2>3 DEF TablesInv, DecisionsFitTrack, PortfolioMoves
<1>6. QED
  BY <1>2, <1>3, <1>4, <1>5, Steps

-----------------------------------------------------------------------------
(* The calls in progress. *)

\* A portfolio goes when it is deleted, its run when it is deleted or reset.
LEMMA GoneRows ==
  ASSUME IInv, [Next]_vars, NEW p \in Portfolio
  PROVE  /\ portfolios[p] # None /\ portfolios'[p] = None => DeletePortfolio(p)
         /\ run[p] # None /\ run'[p] = None => DeletePortfolio(p) \/ ResetPortfolio(p)
<1>1. /\ TablesInv /\ DOMAIN portfolios = Portfolio /\ DOMAIN run = Portfolio
  BY DEF IInv, TablesInv
<1>2. CASE UNCHANGED <<portfolios, run>>
  BY <1>2
<1>3. CASE RunStep /\ UNCHANGED portfolios
  BY <1>3, RunStepMoves DEF RowMoves
<1>4. CASE PortfolioStep
  <2>1. ASSUME NEW q \in Portfolio, NEW a \in Agent, NEW x \in Prompt, NEW t \in Track,
               NEW b \in Boundary, CreatePortfolio(q, a, x, t, b)
        PROVE  run'[p] = run[p] /\ (portfolios[p] # None => portfolios'[p] # None)
    BY <1>1, <2>1 DEF CreatePortfolio
  <2>2. ASSUME NEW q \in Portfolio, DeletePortfolio(q) \/ ResetPortfolio(q), q # p
        PROVE  run'[p] = run[p] /\ portfolios'[p] = portfolios[p]
    BY <1>1, <2>2 DEF DeletePortfolio, ResetPortfolio
  <2>3. ResetPortfolio(p) => portfolios'[p] = portfolios[p]
    BY DEF ResetPortfolio
  <2>4. ASSUME NEW q \in Portfolio, CreateDecision(q) \/ SubmitRun(q)
        PROVE  /\ run[p] # None => run'[p] # None
               /\ portfolios[p] # None => portfolios'[p] # None
    <3>1. \E b : Decide(q, b)
      BY <2>4 DEF CreateDecision, SubmitRun
    <3>2. portfolios[q] # None => [portfolios[q] EXCEPT !.locked = TRUE] \in PortfolioRow
      BY <1>1 DEF TablesInv, PortfolioRow
    <3>3. portfolios'[p] = IF p = q THEN [portfolios[q] EXCEPT !.locked = TRUE] ELSE portfolios[p]
      BY <1>1, <3>1 DEF Decide
    <3>4. portfolios[p] # None => portfolios'[p] # None
      BY <3>2, <3>3, CatalogueAssumption
    <3>5. run[q] # None => [run[q] EXCEPT !.status = "succeeded"] \in RunRow
      BY <1>1 DEF TablesInv, RunRow, Status
    <3>6. run'[p] \in {run[p], [run[p] EXCEPT !.status = "succeeded"]} /\ (p # q => run'[p] = run[p])
      BY <1>1, <2>4 DEF CreateDecision, SubmitRun
    <3>7. run[p] # None => run'[p] # None
      BY <3>5, <3>6, CatalogueAssumption
    <3>8. QED
      BY <3>4, <3>7
  <2>5. ASSUME NEW c \in calls, UpdatePortfolio(c)
        PROVE  /\ run[p] # None => run'[p] # None
               /\ portfolios[p] # None => portfolios'[p] # None
    <3>1. /\ c.portfolio \in Portfolio /\ portfolios[c.portfolio] \in PortfolioRow
          /\ c.change \in Change
      BY <1>1, <2>5 DEF IInv, IsCall, Call, Relies, UpdatePortfolio, TablesInv
    <3>2. Changed(portfolios[c.portfolio], c.change) \in PortfolioRow
      BY <3>1 DEF Changed, Change, PortfolioRow
    <3>3. /\ portfolios'[p] \in {portfolios[p], Changed(portfolios[c.portfolio], c.change)}
          /\ run'[p] \in {run[p], [run[p] EXCEPT !.status = "cancelled"]}
      BY <1>1, <2>5 DEF UpdatePortfolio
    <3>4. run[p] # None => [run[p] EXCEPT !.status = "cancelled"] \in RunRow
      BY <1>1 DEF TablesInv, RunRow, Status
    <3>5. QED
      BY <3>2, <3>3, <3>4, CatalogueAssumption
  <2>6. QED
    BY <1>4, <2>1, <2>2, <2>3, <2>4, <2>5 DEF PortfolioStep
<1>5. QED
  BY <1>2, <1>3, <1>4, Steps DEF tables

\* A prompt goes when it is deleted.
LEMMA GonePrompt ==
  ASSUME IInv, [Next]_vars, NEW q \in Prompt, prompts[q] # <<>>, prompts'[q] = <<>>
  PROVE  DeletePrompt(q)
<1>1. DOMAIN prompts = Prompt /\ \A x \in Prompt : prompts[x] \in Seq(Support)
  BY DEF IInv, TablesInv
<1>2. PromptStep
  BY Steps DEF tables
<1>3. ASSUME NEW x \in Prompt, NEW s, prompts' = [prompts EXCEPT ![x] = <<s>>] PROVE FALSE
  BY <1>1, <1>3
<1>4. ASSUME NEW x \in Prompt, NEW s \in Support, prompts' = [prompts EXCEPT ![x] = Append(@, s)]
      PROVE  FALSE
  <2>1. Append(prompts[x], s) # <<>>
    BY <1>1
  <2>2. QED
    BY <1>1, <1>4, <2>1
<1>5. ASSUME NEW x \in Prompt, NEW s \in Support, CreatePrompt(x, s) \/ UpdatePrompt(x, s)
      PROVE  FALSE
  BY <1>3, <1>4, <1>5 DEF CreatePrompt, UpdatePrompt, AppendVersion
<1>6. ASSUME NEW x \in Prompt, NEW n \in 1..Len(prompts[x]), RestorePrompt(x, n) PROVE FALSE
  <2>1. prompts[x][n] \in Support
    BY <1>1
  <2>2. QED
    BY <1>4, <1>6, <2>1 DEF RestorePrompt, AppendVersion
<1>7. ASSUME NEW x \in Prompt, x # q PROVE ~DeletePrompt(x)
  BY <1>1, <1>7 DEF DeletePrompt
<1>8. QED
  BY <1>2, <1>5, <1>6, <1>7 DEF PromptStep

\* A call that stays still has what it relies on: what goes takes its calls with
\* it, and an edit's findings stay as it holds the locks.
LEMMA KeptCall ==
  ASSUME IInv, [Next]_vars, NEW c \in calls, c \in calls'
  PROVE  Relies(c)'
<1>1. IsCall(c) /\ Relies(c) /\ TablesInv
  BY DEF IInv
<1>2. ASSUME c.op \in {"config", "manual"} PROVE portfolios'[c.portfolio] # None
  <2>1. c.portfolio \in Portfolio /\ portfolios[c.portfolio] # None
    BY <1>1, <1>2 DEF IsCall, Call, Relies
  <2>2. ~DeletePortfolio(c.portfolio)
    BY <1>2 DEF DeletePortfolio, Forget, Names
  <2>3. QED
    BY <2>1, <2>2, GoneRows
<1>3. ASSUME c.op = "update_agent", NEW p \in c.queued PROVE run'[p] # None
  <2>1. p \in Portfolio /\ run[p] # None
    BY <1>1, <1>3 DEF IsCall, Call, Relies
  <2>2. ~DeletePortfolio(p)
    BY <1>3 DEF DeletePortfolio, Forget, Names
  <2>3. ~ResetPortfolio(p)
    BY <1>3 DEF ResetPortfolio, Forget, Names
  <2>4. QED
    BY <2>1, <2>2, <2>3, GoneRows
<1>4. ASSUME c.op = "update_portfolio"
      PROVE  /\ portfolios'[c.portfolio] # None /\ MayChange(c.portfolio, c.change)'
             /\ c.stage = "agent" /\ c.change.prompt # None => prompts'[c.change.prompt] # <<>>
  <2>1. ~UpdatePortfolio(c)
    BY DEF UpdatePortfolio, End
  <2>2. /\ portfolios'[c.portfolio] = portfolios[c.portfolio]
        /\ run'[c.portfolio] = run[c.portfolio]
        /\ decisions'[c.portfolio] = decisions[c.portfolio]
    BY <1>4, <2>1, EditIsUndisturbed
  <2>3. portfolios'[c.portfolio] # None /\ MayChange(c.portfolio, c.change)'
    BY <1>1, <1>4, <2>2 DEF Relies, MayChange, IsActive
  <2>4. ASSUME c.stage = "agent", c.change.prompt # None PROVE prompts'[c.change.prompt] # <<>>
    <3>1. c.change.prompt \in Prompt /\ prompts[c.change.prompt] # <<>>
      BY <1>1, <1>4, <2>4 DEF IsCall, Call, Change, Relies
    <3>2. ~DeletePrompt(c.change.prompt)
      BY <1>4, <2>4, EditHoldsPrompt DEF DeletePrompt
    <3>3. QED
      BY <3>1, <3>2, GonePrompt
  <2>5. QED
    BY <2>3, <2>4
<1>5. QED
  BY <1>2, <1>3, <1>4 DEF Relies

\* The steps that may leave a call that was not there.
NewCalls ==
  \/ \E f \in Profile : BeginCreateAgent(f)
  \/ \E a \in Agent, f \in Profile : BeginUpdateAgent(a, f)
  \/ \E p \in Portfolio : \/ BeginManual(p)
                          \/ \E ch \in Change : BeginUpdatePortfolio(p, ch)
                          \/ \E e \in BOOLEAN, d \in Weekdays : BeginConfig(p, e, d)
  \/ BeginClaim
  \/ \E c \in calls : \/ ReadAgentWork(c) \/ CheckPrompt(c)
                      \/ EnqueueManual(c) \/ ClaimRuns(c)

LEMMA CallSteps ==
  ASSUME [Next]_vars
  PROVE  calls' \subseteq calls \/ NewCalls
<1>1. CASE UNCHANGED vars
  BY <1>1 DEF vars
<1>2. CASE EditCatalogue
  <2>1. CASE \/ \E e \in Capability : UpdateModel(e)
             \/ \E a \in Agent : DeleteAgent(a)
    BY <2>1 DEF UpdateModel, DeleteAgent, Forget
  <2>2. CASE PromptStep
    BY <2>2 DEF PromptStep, DeletePrompt, CreatePrompt, UpdatePrompt, RestorePrompt, Forget
  <2>3. QED
    BY <1>2, <2>1, <2>2 DEF EditCatalogue, PromptStep, NewCalls
<1>3. ASSUME NEW p \in Portfolio, EditPortfolio(p) PROVE calls' \subseteq calls \/ NewCalls
  <2>1. CASE \/ \E a \in Agent, q \in Prompt, t \in Track, b \in Boundary :
                  CreatePortfolio(p, a, q, t, b)
             \/ DeletePortfolio(p) \/ ResetPortfolio(p) \/ CreateDecision(p)
    BY <2>1 DEF CreatePortfolio, DeletePortfolio, ResetPortfolio, CreateDecision, Forget
  <2>2. QED
    BY <1>3, <2>1 DEF EditPortfolio, NewCalls
<1>4. ASSUME NEW p \in Portfolio, UseQueue(p) PROVE calls' \subseteq calls \/ NewCalls
  BY <1>4 DEF UseQueue, NewCalls, SubmitRun, FailRun, CancelRun
<1>5. ASSUME NEW c \in calls, Continue(c) PROVE calls' \subseteq calls \/ NewCalls
  <2>1. CreateAgent(c) => calls' \subseteq calls
    BY DEF CreateAgent, End
  <2>2. UpdateAgent(c) => calls' \subseteq calls
    BY DEF UpdateAgent, End
  <2>3. BreakDeadlock(c) => calls' \subseteq calls
    BY DEF BreakDeadlock, End
  <2>4. UpdatePortfolio(c) => calls' \subseteq calls
    BY DEF UpdatePortfolio, End
  <2>5. SetConfig(c) => calls' \subseteq calls
    BY DEF SetConfig, End
  <2>6. QED
    BY <1>5, <2>1, <2>2, <2>3, <2>4, <2>5 DEF Continue, NewCalls
<1>6. QED
  BY <1>1, <1>2, <1>3, <1>4, <1>5 DEF Next, NewCalls

\* An agent's edit whose run was replaced relies on less.
LEMMA Displaced ==
  ASSUME IInv, RunStep, NEW b \in calls, NEW P, calls' = Displace(calls \ {b}, P),
         NEW c \in calls', c \notin calls
  PROVE  IsCall(c) /\ Relies(c)' /\ c.op = "update_agent"
<1>1. PICK d \in calls : d.op = "update_agent" /\ c = [d EXCEPT !.queued = @ \ P]
  BY DEF Displace
<1>2. d \in [op: {"update_agent"}, agent: Agent, profile: Profile, stage: {"read", "write"},
             disable: SUBSET Portfolio, queued: SUBSET Portfolio]
  BY <1>1 DEF IInv, IsCall, Call
<1>3. c \in Call /\ c.op = "update_agent" /\ c.queued \subseteq d.queued
  BY <1>1, <1>2 DEF Call
<1>4. \A p \in d.queued : p \in Portfolio /\ run[p] # None
  BY <1>1, <1>2 DEF IInv, Relies
<1>5. \A p \in Portfolio : run[p] # None => run'[p] # None
  BY RunStepMoves DEF RowMoves
<1>6. QED
  BY <1>3, <1>4, <1>5 DEF IsCall, Relies

\* A call that is new is well formed and has what it relies on.
LEMMA NewCall ==
  ASSUME IInv, NewCalls, NEW c \in calls', c \notin calls
  PROVE  /\ IsCall(c) /\ Relies(c)'
         /\ c.op = "update_portfolio" =>
              \/ \E p \in Portfolio, ch \in Change : BeginUpdatePortfolio(p, ch)
              \/ \E b \in calls : CheckPrompt(b)
         /\ c.op = "claim" => BeginClaim
<1>1. /\ TablesInv /\ DOMAIN portfolios = Portfolio
      /\ \A d \in calls : IsCall(d) /\ Relies(d)
  BY DEF IInv, TablesInv
<1>2. ASSUME NEW f \in Profile, BeginCreateAgent(f)
      PROVE  c.op = "create_agent"
  BY <1>2 DEF BeginCreateAgent, Begin
<1>3. ASSUME NEW a \in Agent, NEW f \in Profile, BeginUpdateAgent(a, f)
      PROVE  c \in Call /\ c.op = "update_agent" /\ c.queued = {}
  BY <1>3 DEF BeginUpdateAgent, Begin, Call
<1>4. ASSUME NEW p \in Portfolio, BeginManual(p)
      PROVE  c \in Call /\ c.op = "manual" /\ portfolios'[c.portfolio] # None
  <2>1. c = [op |-> "manual", portfolio |-> p, seen |-> portfolios[p]]
    BY <1>4 DEF BeginManual, Begin
  <2>2. portfolios[p] \in PortfolioRow /\ portfolios'[p] # None
    BY <1>1, <1>4 DEF BeginManual, TablesInv
  <2>3. QED
    BY <2>1, <2>2 DEF Call
<1>5. ASSUME NEW p \in Portfolio, NEW ch \in Change, BeginUpdatePortfolio(p, ch)
      PROVE  c \in Call /\ c.op = "update_portfolio" /\ Relies(c)'
  <2>1. c = [op |-> "update_portfolio", portfolio |-> p, change |-> ch, stage |-> "prompt"]
    BY <1>5 DEF BeginUpdatePortfolio, Begin
  <2>2. portfolios[p] # None /\ MayChange(p, ch) /\ UNCHANGED <<portfolios, run, decisions>>
    BY <1>5 DEF BeginUpdatePortfolio
  <2>3. portfolios'[p] # None /\ MayChange(p, ch)'
    BY <2>2 DEF MayChange, IsActive
  <2>4. QED
    BY <2>1, <2>3 DEF Call, Relies
<1>6. ASSUME NEW p \in Portfolio, NEW e \in BOOLEAN, NEW d \in Weekdays, BeginConfig(p, e, d)
      PROVE  c.op = "config" /\ c.portfolio \in Portfolio /\ portfolios'[c.portfolio] # None
  BY <1>6 DEF BeginConfig, Begin
<1>7. ASSUME BeginClaim
      PROVE  c \in Call /\ c.op = "claim"
  <2> DEFINE loaded == [p \in Portfolio |->
               IF portfolios[p] # None /\ config[p].enabled /\ portfolios[p].track \in Shorts
                 THEN portfolios[p] ELSE None]
  <2>1. c = [op |-> "claim", loaded |-> loaded]
    BY <1>7 DEF BeginClaim, Begin
  <2>2. loaded \in [Portfolio -> PortfolioRow \cup {None}]
    BY <1>1 DEF TablesInv
  <2> HIDE DEF loaded
  <2>3. QED
    BY <2>1, <2>2 DEF Call
<1>8. ASSUME NEW b \in calls, ReadAgentWork(b)
      PROVE  c \in Call /\ c.op = "update_agent" /\ \A p \in c.queued : run'[p] # None
  <2> DEFINE disable == {p \in LosesAutomation(b) : config[p].enabled}
             queued == {p \in LosesAutomation(b) : run[p] # None /\ run[p].status = "queued"}
             d == [b EXCEPT !.stage = "write", !.disable = disable, !.queued = queued]
  <2>1. (End(b) \/ Advance(b, d)) /\ b.op = "update_agent" /\ UNCHANGED run
    BY <1>8 DEF ReadAgentWork
  <2>2. disable \subseteq Portfolio /\ queued \subseteq Portfolio /\ \A p \in queued : run[p] # None
    BY DEF LosesAutomation, UsersOfAgent
  <2>3. b \in [op: {"update_agent"}, agent: Agent, profile: Profile, stage: {"read", "write"},
               disable: SUBSET Portfolio, queued: SUBSET Portfolio]
    BY <1>1, <2>1 DEF IsCall, Call
  <2> HIDE DEF disable, queued
  <2>4. d \in Call /\ d.op = "update_agent" /\ d.queued = queued
    BY <2>2, <2>3 DEF Call
  <2> HIDE DEF d
  <2>5. c = d
    BY <2>1 DEF End, Advance
  <2>6. QED
    BY <2>1, <2>2, <2>4, <2>5
<1>9. ASSUME NEW b \in calls, CheckPrompt(b)
      PROVE  c \in Call /\ c.op = "update_portfolio" /\ Relies(c)'
  <2>1. b.op = "update_portfolio" /\ UNCHANGED <<prompts, portfolios, run, decisions>>
    BY <1>9 DEF CheckPrompt
  <2>2. c = [b EXCEPT !.stage = "agent"] /\ (b.change.prompt # None => prompts[b.change.prompt] # <<>>)
    BY <1>9 DEF CheckPrompt, Advance, End
  <2>3. /\ b \in [op: {"update_portfolio"}, portfolio: Portfolio, change: Change,
                  stage: {"prompt", "agent"}]
        /\ portfolios[b.portfolio] # None /\ MayChange(b.portfolio, b.change)
    BY <1>1, <2>1 DEF IsCall, Call, Relies
  <2>4. portfolios'[b.portfolio] # None /\ MayChange(b.portfolio, b.change)'
    BY <2>1, <2>3 DEF MayChange, IsActive
  <2>5. /\ c \in Call /\ c.op = "update_portfolio" /\ c.portfolio = b.portfolio
        /\ c.change = b.change
    BY <2>2, <2>3 DEF Call
  <2>6. QED
    BY <2>1, <2>2, <2>4, <2>5 DEF Relies
<1>10. ASSUME NEW b \in calls, EnqueueManual(b) \/ ClaimRuns(b)
       PROVE  IsCall(c) /\ Relies(c)' /\ c.op = "update_agent"
  <2>1. RunStep
    BY <1>10 DEF RunStep
  <2>2. EnqueueManual(b) => \E P : calls' = Displace(calls \ {b}, P)
    BY DEF EnqueueManual, End
  <2>3. ClaimRuns(b) => \E P : calls' = Displace(calls \ {b}, P)
    BY DEF ClaimRuns
  <2>4. QED
    BY <1>10, <2>1, <2>2, <2>3, Displaced
<1>11. c.op # "update_portfolio" /\ (c.op \in {"config", "manual"} => portfolios'[c.portfolio] # None)
         /\ (c.op = "update_agent" => \A p \in c.queued : run'[p] # None) => Relies(c)'
  BY DEF Relies
<1>12. QED
  BY <1>2, <1>3, <1>4, <1>5, <1>6, <1>7, <1>8, <1>9, <1>10, <1>11 DEF NewCalls, IsCall

\* Two edits of portfolios are never under way together.
LEMMA OneEditStep ==
  ASSUME IInv, [Next]_vars
  PROVE  OneEdit'
<1>1. CASE \E p \in Portfolio, ch \in Change : BeginUpdatePortfolio(p, ch)
  <2>1. PICK p \in Portfolio, ch \in Change : BeginUpdatePortfolio(p, ch)
    BY <1>1
  <2>2. \A c \in calls : c.op # "update_portfolio"
    BY <2>1, EditHolds DEF BeginUpdatePortfolio, Lifecycle
  <2>3. \E d : calls' = calls \cup {d}
    BY <2>1 DEF BeginUpdatePortfolio, Begin
  <2>4. QED
    BY <2>2, <2>3 DEF OneEdit
<1>2. CASE \E b \in calls : CheckPrompt(b)
  <2>1. PICK b \in calls : CheckPrompt(b)
    BY <1>2
  <2>2. \E d : calls' \subseteq (calls \ {b}) \cup {d}
    BY <2>1 DEF CheckPrompt, End, Advance
  <2>3. \A c \in calls \ {b} : c.op # "update_portfolio"
    BY <2>1 DEF CheckPrompt, IInv, OneEdit
  <2>4. QED
    BY <2>2, <2>3 DEF OneEdit
<1>3. CASE /\ ~\E p \in Portfolio, ch \in Change : BeginUpdatePortfolio(p, ch)
           /\ ~\E b \in calls : CheckPrompt(b)
  <2>1. \A c \in calls' : c.op = "update_portfolio" => c \in calls
    BY <1>3, CallSteps, NewCall
  <2>2. QED
    BY <2>1 DEF IInv, OneEdit
<1>4. QED
  BY <1>1, <1>2, <1>3

-----------------------------------------------------------------------------
LEMMA InitInv == Init => IInv
<1> SUFFICES ASSUME Init PROVE IInv
  OBVIOUS
<1>1. <<>> \in Seq(Support)
  OBVIOUS
<1>2. TablesInv
  BY <1>1 DEF Init, TablesInv
<1>3. QED
  BY <1>2 DEF Init, IInv, DecisionsFitTrack, OneEdit

LEMMA NextInv == IInv /\ [Next]_vars => IInv'
<1> SUFFICES ASSUME IInv, [Next]_vars PROVE IInv'
  OBVIOUS
<1>1. ASSUME NEW c \in calls' PROVE IsCall(c) /\ Relies(c)'
  <2>1. CASE c \in calls
    BY <2>1, KeptCall DEF IInv
  <2>2. CASE c \notin calls
    BY <2>2, CallSteps, NewCall
  <2>3. QED
    BY <2>1, <2>2
<1>2. \A c \in calls' : IsCall(c)' /\ Relies(c)'
  BY <1>1 DEF IsCall
<1>3. QED
  BY <1>2, TablesStep, OneEditStep DEF IInv

LEMMA SpecInv == Spec => []IInv
  BY InitInv, NextInv, PTL DEF Spec

\* A portfolio's whole history was decided under its present track: an edit that
\* finds no decisions changes the track in a later step, when there are still none
\* (update_portfolio in admin_ops.py, beside submit_run in evaluator.py).
THEOREM HistoryFitsTrack == Spec => []DecisionsFitTrack
<1>1. IInv => DecisionsFitTrack
  BY DEF IInv
<1>2. QED
  BY <1>1, SpecInv, PTL

\* Once a portfolio has had a decision its timing stays locked and never changes,
\* though the edit that changes it was checked before (update_portfolio, against
\* _new_allocation and _new_signal, which lock the timing).
THEOREM LockedTimingStays == Spec => TimingIsPermanent
<1>1. IInv /\ [Next]_vars =>
        [\A p \in Portfolio :
           portfolios[p] # None /\ portfolios[p].locked /\ portfolios'[p] # None =>
             portfolios'[p].locked /\ portfolios'[p].boundary = portfolios[p].boundary]_vars
  <2> SUFFICES ASSUME IInv, [Next]_vars, NEW p \in Portfolio,
                      portfolios[p] # None, portfolios[p].locked, portfolios'[p] # None
               PROVE  portfolios'[p].locked /\ portfolios'[p].boundary = portfolios[p].boundary
    OBVIOUS
  <2>1. CASE portfolios' = portfolios
    BY <2>1
  <2>2. CASE PortfolioStep
    BY <2>2, PortfolioStepMoves DEF PortfolioMoves
  <2>3. QED
    BY <2>1, <2>2, Steps DEF tables
<1>2. QED
  BY <1>1, SpecInv, PTL DEF Spec, TimingIsPermanent

-----------------------------------------------------------------------------
(* Running work. *)

\* From step to step a run that is running keeps its revision, its portfolio keeps
\* its prompt, and the prompt its text.
RunningWorkKeepsItsPrompt ==
  [][\A p \in Portfolio : IsRunning(p) /\ IsRunning(p)' =>
       /\ run'[p].revision = run[p].revision
       /\ portfolios'[p].prompt = portfolios[p].prompt
       /\ prompts'[portfolios[p].prompt] = prompts[portfolios[p].prompt]]_vars

LEMMA KeepsItsPrompt ==
  ASSUME IInv, [Next]_vars, NEW p \in Portfolio, IsRunning(p)'
  PROVE  \/ /\ IsRunning(p) /\ run'[p].revision = run[p].revision
            /\ portfolios'[p].prompt = portfolios[p].prompt
            /\ prompts'[portfolios[p].prompt] = prompts[portfolios[p].prompt]
         \/ /\ ~IsRunning(p) /\ Starts(p) /\ portfolios[p] # None
            /\ UNCHANGED <<prompts, portfolios>>
<1>1. CASE UNCHANGED tables
  BY <1>1 DEF tables, IsRunning
<1>2. CASE PromptStep /\ UNCHANGED <<portfolios, run, decisions>>
  <2>1. IsRunning(p) /\ portfolios[p] # None
    BY <1>2 DEF IsRunning, IInv, TablesInv
  <2>2. /\ portfolios[p].prompt \in Prompt /\ p \in UsersOfPrompt(portfolios[p].prompt)
        /\ prompts[portfolios[p].prompt] # <<>>
    BY <2>1 DEF IInv, TablesInv, PortfolioRow, UsersOfPrompt
  <2>3. QED
    BY <1>2, <2>1, <2>2, PromptStepKeeps
<1>3. CASE RunStep /\ UNCHANGED <<prompts, portfolios, decisions>>
  <2>1. RowMoves(p)
    BY <1>3, RunStepMoves
  <2>2. QED
    BY <1>3, <2>1 DEF RowMoves, IsRunning
<1>4. CASE PortfolioStep /\ UNCHANGED prompts
  BY <1>4, PortfolioStepMoves DEF PortfolioMoves
<1>5. QED
  BY <1>1, <1>2, <1>3, <1>4, Steps

\* What a claim gave a run to work on stays under it until it ends, whatever is
\* edited, restored, reassigned or reset meanwhile (_prompt_has_running_work and
\* the checks of update_portfolio, against claim_runs).
THEOREM WorkKeepsItsPrompt == Spec => RunningWorkKeepsItsPrompt
<1>1. IInv /\ [Next]_vars =>
        [\A p \in Portfolio : IsRunning(p) /\ IsRunning(p)' =>
           /\ run'[p].revision = run[p].revision
           /\ portfolios'[p].prompt = portfolios[p].prompt
           /\ prompts'[portfolios[p].prompt] = prompts[portfolios[p].prompt]]_vars
  BY KeepsItsPrompt
<1>2. QED
  BY <1>1, SpecInv, PTL DEF Spec, RunningWorkKeepsItsPrompt

-----------------------------------------------------------------------------
(* Where no track is valued before the lock. *)

\* No poll has loaded a portfolio before its lock.
NothingLoaded ==
  \A c \in calls : c.op = "claim" => \A p \in Portfolio : c.loaded[p] = None

LEMMA NothingLoadedStep ==
  ASSUME Shorts = {}, IInv, NothingLoaded, [Next]_vars
  PROVE  NothingLoaded'
<1> SUFFICES ASSUME NEW c \in calls', c \notin calls, c.op = "claim", NEW p \in Portfolio
             PROVE  c.loaded[p] = None
  BY DEF NothingLoaded
<1> DEFINE loaded == [x \in Portfolio |->
             IF portfolios[x] # None /\ config[x].enabled /\ portfolios[x].track \in Shorts
               THEN portfolios[x] ELSE None]
<1>1. BeginClaim
  BY CallSteps, NewCall
<1>2. c = [op |-> "claim", loaded |-> loaded]
  BY <1>1 DEF BeginClaim, Begin
<1>3. loaded[p] = None
  OBVIOUS
<1> HIDE DEF loaded
<1>4. QED
  BY <1>2, <1>3

\* While work runs, its portfolio's prompt is the one the claim read, and it is
\* still at the revision the claim recorded.  It holds where a poll has no managed
\* short to value, so that it reads every portfolio under its lock (claim_runs);
\* with one it may record a prompt that an edit has replaced meanwhile.
THEOREM NoEditUnderWork ==
  ASSUME Shorts = {}
  PROVE  Spec => []NoEditUnderRunningWork
<1> DEFINE Inv == IInv /\ NothingLoaded /\ NoEditUnderRunningWork
<1>1. Init => Inv
  BY InitInv DEF Init, NothingLoaded, NoEditUnderRunningWork, IsRunning
<1>2. Inv /\ [Next]_vars => Inv'
  <2> SUFFICES ASSUME Inv, [Next]_vars, NEW p \in Portfolio, IsRunning(p)'
               PROVE  run'[p].revision =
                        <<portfolios'[p].prompt, Len(prompts'[portfolios'[p].prompt])>>
    BY NextInv, NothingLoadedStep DEF NoEditUnderRunningWork
  <2>1. CASE /\ IsRunning(p) /\ run'[p].revision = run[p].revision
             /\ portfolios'[p].prompt = portfolios[p].prompt
             /\ prompts'[portfolios[p].prompt] = prompts[portfolios[p].prompt]
    BY <2>1 DEF NoEditUnderRunningWork
  <2>2. CASE Starts(p) /\ UNCHANGED <<prompts, portfolios>>
    BY <2>2 DEF Starts, Seen, NothingLoaded
  <2>3. QED
    BY <2>1, <2>2, KeepsItsPrompt
<1>3. Inv => NoEditUnderRunningWork
  OBVIOUS
<1>4. QED
  BY <1>1, <1>2, <1>3, PTL DEF Spec
=============================================================================
