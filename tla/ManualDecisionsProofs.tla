------------------------- MODULE ManualDecisionsProofs -------------------------
(***************************************************************************)
(* Proofs about ManualDecisions, for every value of its constants.         *)
(***************************************************************************)
EXTENDS ManualDecisions, WellFoundedInduction, TLAPS

\* effective_date_for finds a session.
LEMMA EffectiveDateIsSession ==
  ASSUME NEW t \in Time
  PROVE  EffectiveDateFor(t) \in Session
<1> DEFINE later == {s \in Session : t < BoundaryAt[s]}
<1>1. later \subseteq Nat /\ later # {}
  BY DecisionsAssumption
<1>2. PICK s \in later : \A u \in later : ~(<<u, s>> \in OpToRel(<, Nat))
  <2>1. IsWellFoundedOn(OpToRel(<, Nat), Nat)
    BY NatLessThanWellFounded
  <2> HIDE DEF later
  <2>2. QED
    BY <1>1, <2>1, WFMin
<1>3. \A u \in later : s <= u
  <2> HIDE DEF later
  <2>1. \A m, n \in Nat : m < n => <<m, n>> \in OpToRel(<, Nat)
    BY Zenon DEF OpToRel
  <2>2. \A u \in later : ~(u < s)
    BY <1>1, <1>2, <2>1
  <2>3. QED
    BY <1>1, <2>2
<1>4. QED
  BY <1>3 DEF EffectiveDateFor

-----------------------------------------------------------------------------
(* The inductive invariant.                                                   *)

\* A call between its check for a decision and its insert holds the portfolio.
CheckIsLocked ==
  \A c \in Client :
    \/ calls[c].op \in {"create", "save"}
    \/ calls[c].op = "submit" /\ calls[c].locked
    => portfolio = c

\* What the check found stays true until the insert.
CheckHolds == \A c \in Client : calls[c].op = "save" => ~Taken(calls[c].session)

\* A decision exists only once the call that creates it has ended.
CreatedByEnded == \A c \in Client : Exists(c) => calls[c].op = "done"

\* The edit of a signal holds its row, and loaded what is still in it.
EditIsLocked ==
  kind = "signal" =>
    \A c \in Client :
      calls[c].op = "edit" =>
        LET d == calls[c].decision IN
          rowlock[d] = c /\ Exists(d) /\ calls[c].loaded = decisions[d].rows

IInv ==
  /\ TypeOK
  /\ OneDecisionPerSession
  /\ CheckIsLocked
  /\ CheckHolds
  /\ CreatedByEnded
  /\ EditIsLocked
  /\ SignalsAreWhole

LEMMA InitInv == Init => IInv
<1> SUFFICES ASSUME Init PROVE IInv
  OBVIOUS
<1>1. TypeOK
  BY DecisionsAssumption DEF Init, TypeOK, Time, Call, Idle
<1>2. \A c \in Client : ~Exists(c) /\ calls[c].op = "idle"
  BY DEF Init, Exists, Idle
<1>3. QED
  BY <1>1, <1>2 DEF IInv, OneDecisionPerSession, CheckIsLocked, CheckHolds, CreatedByEnded,
                    EditIsLocked, SignalsAreWhole, PositionsAreOneProposal

-----------------------------------------------------------------------------
(* One lemma per action: it preserves the invariant.                          *)

\* Types of the call records, and what a record's op says of its fields.
LEMMA CallTypes ==
  ASSUME NEW k \in Call
  PROVE  /\ k.op \in {"idle", "done", "create", "save", "submit", "wait", "edit"}
         /\ k.op = "idle" <=> k = Idle
         /\ k.op = "done" <=> k = Done
         /\ k.op = "create" => k \in CreateCall
         /\ k.op = "save" => k \in SaveCall
         /\ k.op = "submit" => k \in SubmitCall
         /\ k.op \in {"wait", "edit"} => k \in EditCall
<1>1. CASE k \in {Idle, Done}
  BY <1>1 DEF Idle, Done
<1>2. CASE k \in CreateCall
  BY <1>2 DEF CreateCall, Idle, Done
<1>3. CASE k \in SaveCall
  BY <1>3 DEF SaveCall, Idle, Done
<1>4. CASE k \in SubmitCall
  BY <1>4 DEF SubmitCall, Idle, Done
<1>5. CASE k \in EditCall
  BY <1>5 DEF EditCall, Idle, Done
<1>6. QED
  BY <1>1, <1>2, <1>3, <1>4, <1>5 DEF Call

LEMMA TickInv == IInv /\ Tick => IInv'
<1> SUFFICES ASSUME IInv, Tick PROVE IInv'
  OBVIOUS
<1>1. TypeOK'
  BY DecisionsAssumption DEF IInv, TypeOK, Tick, Time
<1>2. QED
  BY <1>1 DEF IInv, Tick, OneDecisionPerSession, CheckIsLocked, CheckHolds, CreatedByEnded,
              EditIsLocked, SignalsAreWhole, PositionsAreOneProposal, Exists, Taken

LEMMA StartCreateInv ==
  ASSUME NEW c \in Client, IInv, StartCreate(c)
  PROVE  IInv'
<1>0. UNCHANGED kind
  BY DEF StartCreate
<1> USE <1>0
<1>1. TypeOK'
  BY DEF IInv, TypeOK, StartCreate, Call, CreateCall
<1>2. calls' = [calls EXCEPT ![c] = [op |-> "create", at |-> now]] /\ calls[c].op = "idle"
  BY DEF StartCreate, Idle
<1>3. CheckIsLocked' /\ CheckHolds'
  BY <1>2, DecisionsAssumption DEF IInv, TypeOK, StartCreate, CheckIsLocked, CheckHolds, Taken, Exists
<1>4. CreatedByEnded' /\ EditIsLocked'
  BY <1>2 DEF IInv, TypeOK, StartCreate, CreatedByEnded, EditIsLocked, Exists
<1>5. QED
  BY <1>1, <1>3, <1>4 DEF IInv, StartCreate, OneDecisionPerSession, SignalsAreWhole,
                          PositionsAreOneProposal, Exists

LEMMA StartSubmitInv ==
  ASSUME NEW c \in Client, IInv, StartSubmit(c)
  PROVE  IInv'
<1>0. UNCHANGED kind
  BY DEF StartSubmit
<1> USE <1>0
<1>1. PICK s \in {None} \cup {EffectiveDateFor(t) : t \in 0..now} :
        calls' = [calls EXCEPT ![c] = [op |-> "submit", at |-> now, target |-> s, locked |-> FALSE]]
  BY DEF StartSubmit
<1>2. s \in Session \cup {None}
  BY <1>1, EffectiveDateIsSession, DecisionsAssumption DEF IInv, TypeOK, Time
<1>3. TypeOK'
  BY <1>1, <1>2 DEF IInv, TypeOK, StartSubmit, Call, SubmitCall
<1>4. calls[c].op = "idle"
  BY DEF StartSubmit, Idle
<1>5. CheckIsLocked' /\ CheckHolds'
  BY <1>1, <1>4 DEF IInv, TypeOK, StartSubmit, CheckIsLocked, CheckHolds, Taken, Exists
<1>6. CreatedByEnded' /\ EditIsLocked'
  BY <1>1, <1>4 DEF IInv, TypeOK, StartSubmit, CreatedByEnded, EditIsLocked, Exists
<1>7. QED
  BY <1>3, <1>5, <1>6 DEF IInv, StartSubmit, OneDecisionPerSession, SignalsAreWhole,
                          PositionsAreOneProposal, Exists

LEMMA LockSubmitInv ==
  ASSUME NEW c \in Client, IInv, LockSubmit(c)
  PROVE  IInv'
<1>0. UNCHANGED kind
  BY DEF LockSubmit
<1> USE <1>0
<1>1. calls[c] \in SubmitCall
  BY CallTypes DEF IInv, TypeOK, LockSubmit
<1>2. /\ calls' = [calls EXCEPT ![c] = [calls[c] EXCEPT !.locked = TRUE]]
      /\ [calls[c] EXCEPT !.locked = TRUE] \in SubmitCall
  BY <1>1 DEF LockSubmit, SubmitCall
<1>3. TypeOK'
  BY <1>2 DEF IInv, TypeOK, LockSubmit, Call
<1>4. calls'[c].op = "submit" /\ \A e \in Client \ {c} : calls'[e] = calls[e]
  BY <1>1, <1>2 DEF IInv, TypeOK, SubmitCall
<1>5. CheckIsLocked' /\ CheckHolds'
  BY <1>4, DecisionsAssumption DEF IInv, LockSubmit, CheckIsLocked, CheckHolds, Taken, Exists
<1>6. CreatedByEnded' /\ EditIsLocked'
  BY <1>4 DEF IInv, LockSubmit, CreatedByEnded, EditIsLocked, Exists
<1>7. QED
  BY <1>3, <1>5, <1>6 DEF IInv, LockSubmit, OneDecisionPerSession, SignalsAreWhole,
                          PositionsAreOneProposal, Exists

LEMMA CheckInv ==
  ASSUME NEW c \in Client, NEW s \in Session, IInv, Check(c, s), portfolio = c,
         calls[c].op \in {"create", "submit"}
  PROVE  IInv'
<1>0. UNCHANGED kind
  BY DEF Check
<1> USE <1>0
<1>1. CASE calls' = [calls EXCEPT ![c] = Done] /\ portfolio' = Unlocked(c)
  <2>1. TypeOK'
    BY <1>1 DEF IInv, TypeOK, Check, Call, Unlocked
  <2>2. calls'[c].op = "done" /\ \A e \in Client \ {c} : calls'[e] = calls[e]
    BY <1>1 DEF IInv, TypeOK, Done
  <2>3. CheckIsLocked' /\ CheckHolds'
    BY <2>2, DecisionsAssumption DEF IInv, Check, CheckIsLocked, CheckHolds, Taken, Exists
  <2>4. CreatedByEnded' /\ EditIsLocked'
    BY <2>2 DEF IInv, Check, CreatedByEnded, EditIsLocked, Exists
  <2>5. QED
    BY <2>1, <2>3, <2>4 DEF IInv, Check, OneDecisionPerSession, SignalsAreWhole,
                            PositionsAreOneProposal, Exists
<1>2. CASE /\ ~Taken(s)
           /\ calls' = [calls EXCEPT ![c] = [op |-> "save", session |-> s]]
           /\ UNCHANGED portfolio
  <2>1. TypeOK'
    BY <1>2 DEF IInv, TypeOK, Check, Call, SaveCall
  <2>2. /\ calls'[c].op = "save" /\ calls'[c].session = s
        /\ \A e \in Client \ {c} : calls'[e] = calls[e]
    BY <1>2 DEF IInv, TypeOK
  <2>3. CheckIsLocked' /\ CheckHolds'
    BY <1>2, <2>2 DEF IInv, Check, CheckIsLocked, CheckHolds, Taken, Exists
  <2>4. CreatedByEnded' /\ EditIsLocked'
    BY <2>2 DEF IInv, Check, CreatedByEnded, EditIsLocked, Exists
  <2>5. QED
    BY <2>1, <2>3, <2>4 DEF IInv, Check, OneDecisionPerSession, SignalsAreWhole,
                            PositionsAreOneProposal, Exists
<1>3. QED
  BY <1>1, <1>2 DEF Check

LEMMA CheckCreateInv ==
  ASSUME NEW c \in Client, IInv, CheckCreate(c)
  PROVE  IInv'
<1>1. calls[c] \in CreateCall
  BY CallTypes DEF IInv, TypeOK, CheckCreate
<1>2. CreationTime(c) \in Time
  BY <1>1 DEF IInv, TypeOK, CreationTime, CreateCall
<1>3. portfolio = c
  BY DEF IInv, CheckIsLocked, CheckCreate
<1>4. QED
  BY <1>2, <1>3, EffectiveDateIsSession, CheckInv DEF CheckCreate

LEMMA CheckSubmitInv ==
  ASSUME NEW c \in Client, IInv, CheckSubmit(c)
  PROVE  IInv'
<1> DEFINE s == IF calls[c].target # None THEN calls[c].target
                ELSE EffectiveDateFor(calls[c].at)
<1>1. calls[c] \in SubmitCall
  BY CallTypes DEF IInv, TypeOK, CheckSubmit
<1>2. s \in Session
  BY <1>1, EffectiveDateIsSession DEF SubmitCall
<1>3. portfolio = c
  BY DEF IInv, CheckIsLocked, CheckSubmit
<1>4. Check(c, s)
  BY DEF CheckSubmit
<1>5. QED
  BY <1>2, <1>3, <1>4, CheckInv DEF CheckSubmit

\* The rows a call inserts are rows, all its own.
LEMMA NewRowsType ==
  ASSUME NEW c \in Client, NEW symbols \in Proposal
  PROVE  /\ NewRows(symbols, c) \in SUBSET PositionRow
         /\ \A row \in NewRows(symbols, c) : row.by = c
  BY DecisionsAssumption DEF NewRows, PositionRow

LEMMA SaveInv ==
  ASSUME NEW c \in Client, IInv, Save(c)
  PROVE  IInv'
<1>0. UNCHANGED kind
  BY DEF Save
<1> USE <1>0
<1>1. /\ calls[c] \in SaveCall
      /\ calls[c].op = "save"
      /\ portfolio = c
      /\ ~Taken(calls[c].session)
      /\ ~Exists(c)
  BY CallTypes DEF IInv, TypeOK, Save, CheckIsLocked, CheckHolds, CreatedByEnded
<1>2. PICK symbols \in Proposal :
        decisions' = [decisions EXCEPT ![c] = [session |-> calls[c].session,
                                               rows |-> NewRows(symbols, c)]]
  BY <1>1 DEF Save
<1>3. /\ calls'[c].op = "done"
      /\ \A e \in Client \ {c} : calls'[e] = calls[e] /\ decisions'[e] = decisions[e]
      /\ decisions'[c] = [session |-> calls[c].session, rows |-> NewRows(symbols, c)]
      /\ UNCHANGED rowlock
  BY <1>2 DEF IInv, TypeOK, Save, Done
<1>4. TypeOK'
  <2>1. [session |-> calls[c].session, rows |-> NewRows(symbols, c)] \in DecisionRow
    BY <1>1, NewRowsType DEF SaveCall, DecisionRow
  <2>2. QED
    BY <1>2, <2>1 DEF IInv, TypeOK, Save, Call, Unlocked
<1>5. OneDecisionPerSession'
  BY <1>1, <1>3 DEF IInv, OneDecisionPerSession, Exists, Taken
<1>6. \A e \in Client : calls'[e].op # "save" /\ calls'[e].op # "create"
                        /\ ~(calls'[e].op = "submit" /\ calls'[e].locked)
  BY <1>1, <1>3, DecisionsAssumption DEF IInv, CheckIsLocked
<1>7. CheckIsLocked' /\ CheckHolds'
  BY <1>6 DEF CheckIsLocked, CheckHolds
<1>8. CreatedByEnded'
  BY <1>3 DEF IInv, CreatedByEnded, Exists
<1>9. EditIsLocked'
  <2> SUFFICES ASSUME kind = "signal", NEW e \in Client, calls'[e].op = "edit"
               PROVE  /\ rowlock'[calls'[e].decision] = e
                      /\ decisions'[calls'[e].decision] # None
                      /\ calls'[e].loaded = decisions'[calls'[e].decision].rows
    BY DEF EditIsLocked, Exists
  <2> DEFINE d == calls[e].decision
  <2>1. calls'[e] = calls[e]
    BY <1>3
  <2>2. d \in Client /\ rowlock[d] = e /\ Exists(d) /\ calls[e].loaded = decisions[d].rows
    BY <2>1, CallTypes DEF IInv, TypeOK, EditIsLocked, EditCall
  <2>3. d # c
    BY <1>1, <2>2
  <2>4. QED
    BY <1>3, <2>1, <2>2, <2>3 DEF Exists
<1>10. SignalsAreWhole'
  BY <1>3, NewRowsType DEF IInv, SignalsAreWhole, PositionsAreOneProposal, Exists
<1>11. QED
  BY <1>4, <1>5, <1>7, <1>8, <1>9, <1>10 DEF IInv

\* Conjuncts that look only at rows' sessions and at calls that hold the portfolio.
LEMMA EditingKeeps ==
  ASSUME NEW c \in Client, IInv, TypeOK', UNCHANGED portfolio,
         calls'[c].op \in {"wait", "edit", "done"},
         \A e \in Client \ {c} : calls'[e] = calls[e],
         \A d \in Client : Exists(d)' => Exists(d) /\ decisions'[d].session = decisions[d].session,
         calls[c].op = "done" => calls'[c].op = "done",
         \A d \in Client : Exists(d)' => d # c \/ calls'[c].op = "done"
  PROVE  OneDecisionPerSession' /\ CheckIsLocked' /\ CheckHolds' /\ CreatedByEnded'
<1>1. OneDecisionPerSession'
  BY DEF IInv, OneDecisionPerSession, Exists
<1>2. CheckIsLocked'
  BY DEF IInv, CheckIsLocked
<1>3. CheckHolds'
  BY DEF IInv, CheckHolds, Taken
<1>4. CreatedByEnded'
  BY DEF IInv, CreatedByEnded, Exists
<1>5. QED
  BY <1>1, <1>2, <1>3, <1>4

LEMMA StartEditAllocationInv ==
  ASSUME NEW c \in Client, NEW d \in Client, IInv, StartEditAllocation(c, d)
  PROVE  IInv'
<1>0. UNCHANGED kind
  BY DEF StartEditAllocation
<1> USE <1>0
<1> DEFINE k == [op |-> "edit", at |-> now, decision |-> d, loaded |-> decisions[d].rows]
<1>1. decisions[d].rows \in SUBSET PositionRow
  BY DEF IInv, TypeOK, StartEditAllocation, Exists, DecisionRow
<1>2. k \in EditCall
  BY <1>1 DEF IInv, TypeOK, EditCall
<1>3. TypeOK'
  BY <1>2 DEF IInv, TypeOK, StartEditAllocation, Call
<1>4. calls'[c].op = "edit" /\ calls[c].op = "idle" /\ \A e \in Client \ {c} : calls'[e] = calls[e]
  BY DEF IInv, TypeOK, StartEditAllocation, Idle
<1>5. ~Exists(c)
  BY <1>4 DEF IInv, CreatedByEnded
<1>6. OneDecisionPerSession' /\ CheckIsLocked' /\ CheckHolds' /\ CreatedByEnded'
  BY <1>3, <1>4, <1>5, EditingKeeps DEF StartEditAllocation, Exists
<1>7. kind # "signal"
  BY DEF StartEditAllocation
<1>8. QED
  BY <1>3, <1>6, <1>7 DEF IInv, EditIsLocked, SignalsAreWhole

LEMMA StartEditSignalInv ==
  ASSUME NEW c \in Client, NEW d \in Client, IInv, StartEditSignal(c, d)
  PROVE  IInv'
<1>0. UNCHANGED kind
  BY DEF StartEditSignal
<1> USE <1>0
<1> DEFINE k == [op |-> "wait", at |-> now, decision |-> d, loaded |-> {}]
<1>1. k \in EditCall
  BY DEF IInv, TypeOK, EditCall
<1>2. TypeOK'
  BY <1>1 DEF IInv, TypeOK, StartEditSignal, Call
<1>3. calls'[c].op = "wait" /\ calls[c].op = "idle" /\ \A e \in Client \ {c} : calls'[e] = calls[e]
  BY DEF IInv, TypeOK, StartEditSignal, Idle
<1>4. ~Exists(c)
  BY <1>3 DEF IInv, CreatedByEnded
<1>5. OneDecisionPerSession' /\ CheckIsLocked' /\ CheckHolds' /\ CreatedByEnded'
  BY <1>2, <1>3, <1>4, EditingKeeps DEF StartEditSignal, Exists
<1>6. EditIsLocked'
  BY <1>3 DEF IInv, StartEditSignal, EditIsLocked, Exists
<1>7. QED
  BY <1>2, <1>5, <1>6 DEF IInv, StartEditSignal, SignalsAreWhole, PositionsAreOneProposal, Exists

LEMMA LockSignalInv ==
  ASSUME NEW c \in Client, IInv, LockSignal(c)
  PROVE  IInv'
<1>0. UNCHANGED kind
  BY DEF LockSignal
<1> USE <1>0
<1> DEFINE d == calls[c].decision
<1>1. calls[c] \in EditCall /\ calls[c].op = "wait" /\ d \in Client /\ rowlock[d] = None
  BY CallTypes DEF IInv, TypeOK, LockSignal, EditCall
<1>2. ~Exists(c)
  BY <1>1 DEF IInv, CreatedByEnded
<1>3. CASE calls' = [calls EXCEPT ![c] = Done] /\ UNCHANGED rowlock
  <2>1. TypeOK'
    BY <1>3 DEF IInv, TypeOK, LockSignal, Call
  <2>2. calls'[c].op = "done" /\ \A e \in Client \ {c} : calls'[e] = calls[e]
    BY <1>3 DEF IInv, TypeOK, Done
  <2>3. OneDecisionPerSession' /\ CheckIsLocked' /\ CheckHolds' /\ CreatedByEnded'
    BY <1>1, <2>1, <2>2, EditingKeeps DEF LockSignal, Exists
  <2>4. EditIsLocked'
    BY <1>3, <2>2 DEF IInv, LockSignal, EditIsLocked, Exists
  <2>5. QED
    BY <2>1, <2>3, <2>4 DEF IInv, LockSignal, SignalsAreWhole, PositionsAreOneProposal, Exists
<1>4. CASE /\ Exists(d)
           /\ calls' = [calls EXCEPT ![c].op = "edit", ![c].loaded = decisions[d].rows]
           /\ rowlock' = [rowlock EXCEPT ![d] = c]
  <2> DEFINE k == [calls[c] EXCEPT !.op = "edit", !.loaded = decisions[d].rows]
  <2>1. decisions[d].rows \in SUBSET PositionRow
    BY <1>1, <1>4 DEF IInv, TypeOK, Exists, DecisionRow
  <2>2. k \in EditCall /\ k.op = "edit" /\ k.decision = d /\ k.loaded = decisions[d].rows
    BY <1>1, <2>1 DEF EditCall
  <2>3. calls' = [calls EXCEPT ![c] = k]
    BY <1>4 DEF IInv, TypeOK
  <2> HIDE DEF k
  <2>4. calls'[c] = k /\ \A e \in Client \ {c} : calls'[e] = calls[e]
    BY <2>3 DEF IInv, TypeOK
  <2>5. TypeOK'
    BY <1>1, <1>4, <2>2, <2>3 DEF IInv, TypeOK, LockSignal, Call
  <2>6. OneDecisionPerSession' /\ CheckIsLocked' /\ CheckHolds' /\ CreatedByEnded'
    BY <1>1, <1>2, <2>2, <2>4, <2>5, EditingKeeps DEF LockSignal, Exists
  <2>7. EditIsLocked'
    <3> SUFFICES ASSUME kind = "signal", NEW e \in Client, calls'[e].op = "edit"
                 PROVE  /\ rowlock'[calls'[e].decision] = e
                        /\ decisions'[calls'[e].decision] # None
                        /\ calls'[e].loaded = decisions'[calls'[e].decision].rows
      BY DEF EditIsLocked, Exists
    <3>1. CASE e = c
      BY <1>1, <1>4, <2>2, <2>4, <3>1 DEF IInv, TypeOK, LockSignal, Exists
    <3>2. CASE e # c
      <4>1. calls'[e] = calls[e]
        BY <2>4, <3>2
      <4>2. /\ rowlock[calls[e].decision] = e /\ Exists(calls[e].decision)
            /\ calls[e].loaded = decisions[calls[e].decision].rows
        BY <4>1 DEF IInv, EditIsLocked
      <4>3. calls[e].decision # d
        BY <1>1, <4>2, DecisionsAssumption
      <4>4. calls[e].decision \in Client
        BY <4>1, CallTypes DEF IInv, TypeOK, EditCall
      <4>5. QED
        BY <1>4, <4>1, <4>2, <4>3, <4>4 DEF IInv, TypeOK, LockSignal, Exists
    <3>3. QED
      BY <3>1, <3>2
  <2>8. QED
    BY <2>5, <2>6, <2>7 DEF IInv, LockSignal, SignalsAreWhole, PositionsAreOneProposal, Exists
<1>5. QED
  BY <1>3, <1>4 DEF LockSignal

LEMMA FinishEditInv ==
  ASSUME NEW c \in Client, IInv, FinishEdit(c)
  PROVE  IInv'
<1>0. UNCHANGED kind
  BY DEF FinishEdit
<1> USE <1>0
<1> DEFINE d == calls[c].decision
<1>1. calls[c] \in EditCall /\ calls[c].op = "edit" /\ d \in Client
  BY CallTypes DEF IInv, TypeOK, FinishEdit, EditCall
<1>2. ~Exists(c)
  BY <1>1 DEF IInv, CreatedByEnded
<1>3. calls'[c].op = "done" /\ \A e \in Client \ {c} : calls'[e] = calls[e]
  BY DEF IInv, TypeOK, FinishEdit, Done
<1>4. \A e \in Client : rowlock'[e] = IF rowlock[e] = c THEN None ELSE rowlock[e]
  BY DEF FinishEdit
<1>5. calls' \in [Client -> Call] /\ rowlock' \in [Client -> Client \cup {None}]
  BY DEF IInv, TypeOK, FinishEdit, Call
<1>6. CASE UNCHANGED decisions
  <2>1. TypeOK'
    BY <1>5, <1>6 DEF IInv, TypeOK, FinishEdit
  <2>2. OneDecisionPerSession' /\ CheckIsLocked' /\ CheckHolds' /\ CreatedByEnded'
    BY <1>1, <1>3, <1>6, <2>1, EditingKeeps DEF FinishEdit, Exists
  <2>3. EditIsLocked'
    <3> SUFFICES ASSUME kind = "signal", NEW e \in Client, calls'[e].op = "edit"
                 PROVE  /\ rowlock'[calls'[e].decision] = e
                        /\ decisions'[calls'[e].decision] # None
                        /\ calls'[e].loaded = decisions'[calls'[e].decision].rows
      BY DEF EditIsLocked, Exists
    <3>1. e # c /\ calls'[e] = calls[e]
      BY <1>3
    <3>2. calls[e].decision \in Client
      BY <3>1, CallTypes DEF IInv, TypeOK, EditCall
    <3>3. QED
      BY <1>4, <1>6, <3>1, <3>2 DEF IInv, EditIsLocked, Exists
  <2>4. QED
    BY <1>6, <2>1, <2>2, <2>3 DEF IInv, SignalsAreWhole, PositionsAreOneProposal, Exists
<1>7. CASE Replace(c)
  <2> DEFINE kept == decisions[d].rows \ calls[c].loaded
  <2>1. PICK symbols \in Proposal :
          decisions' = [decisions EXCEPT ![d].rows = kept \cup NewRows(symbols, c)]
    BY <1>7 DEF Replace
  <2>2. Exists(d) /\ decisions[d] \in DecisionRow
    BY <1>1, <1>7 DEF IInv, TypeOK, Replace, Exists
  <2> DEFINE row == [decisions[d] EXCEPT !.rows = kept \cup NewRows(symbols, c)]
  <2>3. /\ row \in DecisionRow
        /\ row.session = decisions[d].session
        /\ row.rows = kept \cup NewRows(symbols, c)
    BY <2>2, NewRowsType DEF DecisionRow
  <2>4. decisions' = [decisions EXCEPT ![d] = row]
    BY <2>1 DEF IInv, TypeOK
  <2> HIDE DEF row
  <2>5. decisions'[d] = row /\ \A e \in Client \ {d} : decisions'[e] = decisions[e]
    BY <1>1, <2>4 DEF IInv, TypeOK
  <2>6. TypeOK'
    BY <1>5, <2>3, <2>4 DEF IInv, TypeOK, FinishEdit
  <2>7. \A e \in Client : Exists(e)' => Exists(e) /\ decisions'[e].session = decisions[e].session
    BY <2>2, <2>3, <2>5 DEF Exists
  <2>8. UNCHANGED portfolio /\ calls'[c].op \in {"wait", "edit", "done"}
    BY <1>3 DEF FinishEdit
  <2>9. OneDecisionPerSession' /\ CheckIsLocked' /\ CheckHolds' /\ CreatedByEnded'
    BY <1>1, <1>3, <2>6, <2>7, <2>8, EditingKeeps
  <2>10. EditIsLocked'
    <3> SUFFICES ASSUME kind = "signal", NEW e \in Client, calls'[e].op = "edit"
                 PROVE  /\ rowlock'[calls'[e].decision] = e
                        /\ decisions'[calls'[e].decision] # None
                        /\ calls'[e].loaded = decisions'[calls'[e].decision].rows
      BY DEF EditIsLocked, Exists
    <3>1. e # c /\ calls'[e] = calls[e]
      BY <1>3
    <3>2. calls[e].decision \in Client
      BY <3>1, CallTypes DEF IInv, TypeOK, EditCall
    <3>3. rowlock[calls[e].decision] = e /\ rowlock[d] = c
      BY <1>1, <3>1 DEF IInv, EditIsLocked
    <3>4. QED
      BY <1>4, <2>5, <3>1, <3>2, <3>3 DEF IInv, EditIsLocked, Exists
  <2>11. SignalsAreWhole'
    <3> SUFFICES ASSUME kind = "signal" PROVE PositionsAreOneProposal'
      BY DEF SignalsAreWhole
    <3>1. kept = {}
      BY <1>1 DEF IInv, EditIsLocked
    <3>2. \A r \in row.rows : r.by = c
      BY <2>3, <3>1, NewRowsType
    <3>3. PositionsAreOneProposal
      BY DEF IInv, SignalsAreWhole
    <3>4. QED
      BY <2>5, <3>2, <3>3 DEF PositionsAreOneProposal, Exists
  <2>12. QED
    BY <2>6, <2>9, <2>10, <2>11 DEF IInv
<1>8. QED
  BY <1>6, <1>7 DEF FinishEdit

LEMMA DeleteInv ==
  ASSUME NEW c \in Client, NEW D \in SUBSET Client, IInv, Delete(c, D)
  PROVE  IInv'
<1>0. UNCHANGED kind
  BY DEF Delete
<1> USE <1>0
<1>1. calls[c].op = "idle" /\ calls'[c].op = "done" /\ \A e \in Client \ {c} : calls'[e] = calls[e]
  BY DEF IInv, TypeOK, Delete, Idle, Done
<1>2. /\ \A d \in Client : decisions'[d] = IF d \in D THEN None ELSE decisions[d]
      /\ \A d \in D : rowlock[d] = None
      /\ UNCHANGED <<portfolio, rowlock>>
  BY DEF Delete
<1>3. TypeOK'
  BY DEF IInv, TypeOK, Delete, Call
<1>4. \A d \in Client : Exists(d)' => Exists(d) /\ decisions'[d] = decisions[d]
  BY <1>2 DEF Exists
<1>5. OneDecisionPerSession' /\ CheckIsLocked' /\ CheckHolds' /\ CreatedByEnded'
  BY <1>1, <1>2, <1>3, <1>4, EditingKeeps
<1>6. EditIsLocked'
  <2> SUFFICES ASSUME kind = "signal", NEW e \in Client, calls'[e].op = "edit"
               PROVE  /\ rowlock'[calls'[e].decision] = e
                      /\ decisions'[calls'[e].decision] # None
                      /\ calls'[e].loaded = decisions'[calls'[e].decision].rows
    BY DEF EditIsLocked, Exists
  <2>1. calls'[e] = calls[e]
    BY <1>1
  <2>2. calls[e].decision \in Client
    BY <2>1, CallTypes DEF IInv, TypeOK, EditCall
  <2>3. calls[e].decision \notin D
    BY <1>2, <2>1, DecisionsAssumption DEF IInv, EditIsLocked
  <2>4. QED
    BY <1>2, <2>1, <2>2, <2>3 DEF IInv, EditIsLocked, Exists
<1>7. QED
  BY <1>3, <1>4, <1>5, <1>6 DEF IInv, SignalsAreWhole, PositionsAreOneProposal, Exists

LEMMA NextInv == IInv /\ [Next]_vars => IInv'
<1> SUFFICES ASSUME IInv, [Next]_vars PROVE IInv'
  OBVIOUS
<1>1. CASE Tick
  BY <1>1, TickInv
<1>2. ASSUME NEW c \in Client, Begin(c) PROVE IInv'
  <2>1. CASE StartCreate(c)
    BY <2>1, StartCreateInv
  <2>2. CASE StartSubmit(c)
    BY <2>2, StartSubmitInv
  <2>3. CASE ResetPortfolio(c)
    BY <2>3, DeleteInv DEF ResetPortfolio
  <2>4. ASSUME NEW d \in Client, StartEditAllocation(c, d) PROVE IInv'
    BY <2>4, StartEditAllocationInv
  <2>5. ASSUME NEW d \in Client, StartEditSignal(c, d) PROVE IInv'
    BY <2>5, StartEditSignalInv
  <2>6. ASSUME NEW d \in Client, DeleteDecision(c, d) PROVE IInv'
    BY <2>6, DeleteInv DEF DeleteDecision
  <2>7. QED
    BY <1>2, <2>1, <2>2, <2>3, <2>4, <2>5, <2>6 DEF Begin
<1>3. ASSUME NEW c \in Client, Continue(c) PROVE IInv'
  BY <1>3, CheckCreateInv, LockSubmitInv, CheckSubmitInv, SaveInv, LockSignalInv, FinishEditInv
     DEF Continue
<1>4. CASE UNCHANGED vars
  BY <1>4 DEF vars, IInv, TypeOK, OneDecisionPerSession, CheckIsLocked, CheckHolds, CreatedByEnded,
              EditIsLocked, SignalsAreWhole, PositionsAreOneProposal, Exists, Taken
<1>5. QED
  BY <1>1, <1>2, <1>3, <1>4 DEF Next

LEMMA SpecInv == Spec => []IInv
  BY InitInv, NextInv, PTL DEF Spec

-----------------------------------------------------------------------------
\* Rows, locks and calls stay well formed for any number of concurrent calls.
THEOREM TypeCorrect == Spec => []TypeOK
<1>1. IInv => TypeOK
  BY DEF IInv
<1>2. QED
  BY <1>1, SpecInv, PTL

\* The portfolio lock, held across symbol validation, keeps a session to one
\* decision, although allocations have no unique key.
THEOREM SingleDecision == Spec => []OneDecisionPerSession
<1>1. IInv => OneDecisionPerSession
  BY DEF IInv
<1>2. QED
  BY <1>1, SpecInv, PTL

\* The row lock of update_signal keeps the positions of two edits apart; for
\* allocations, which are edited without one, this is false.
THEOREM SignalsAreOneProposal == Spec => []SignalsAreWhole
<1>1. IInv => SignalsAreWhole
  BY DEF IInv
<1>2. QED
  BY <1>1, SpecInv, PTL

-----------------------------------------------------------------------------
(* Edits that begin after the boundary.                                       *)

\* An edit is of a decision whose creation has ended; once it has passed its
\* check, that decision was open when the edit read the clock.
EditIsTimely ==
  \A c \in Client :
    calls[c].op \in {"wait", "edit"} =>
      /\ calls[calls[c].decision].op = "done"
      /\ calls[c].op = "edit" /\ Exists(calls[c].decision)
           => ~IsLocked(decisions[calls[c].decision].session, calls[c].at)

\* Ended calls stay ended, and saved decisions keep their sessions.
LEMMA EndedStays ==
  ASSUME IInv, [Next]_vars, NEW d \in Client, calls[d].op = "done"
  PROVE  /\ calls'[d] = calls[d]
         /\ Exists(d)' => Exists(d) /\ decisions'[d].session = decisions[d].session
<1> DEFINE Same == /\ calls'[d] = calls[d]
                   /\ decisions'[d] # None =>
                        decisions[d] # None /\ decisions'[d].session = decisions[d].session
<1> SUFFICES Same
  BY DEF Exists
<1>1. CASE Tick \/ UNCHANGED vars
  BY <1>1 DEF Tick, vars
<1>2. ASSUME NEW c \in Client, Begin(c) PROVE Same
  <2>1. calls[c].op = "idle"
    BY <1>2 DEF Begin, StartCreate, StartSubmit, StartEditAllocation, StartEditSignal,
                ResetPortfolio, DeleteDecision, Delete, Idle
  <2>2. calls'[d] = calls[d]
    BY <1>2, <2>1 DEF IInv, TypeOK, Begin, StartCreate, StartSubmit, StartEditAllocation,
                      StartEditSignal, ResetPortfolio, DeleteDecision, Delete
  <2>3. decisions'[d] \in {decisions[d], None}
    BY <1>2 DEF Begin, StartCreate, StartSubmit, StartEditAllocation, StartEditSignal,
                ResetPortfolio, DeleteDecision, Delete
  <2>4. QED
    BY <2>2, <2>3
<1>3. ASSUME NEW c \in Client, Continue(c) PROVE Same
  <2>1. calls[c].op # "done"
    BY <1>3 DEF Continue, CheckCreate, LockSubmit, CheckSubmit, Save, LockSignal, FinishEdit
  <2>2. calls'[d] = calls[d]
    BY <1>3, <2>1 DEF IInv, TypeOK, Continue, CheckCreate, LockSubmit, CheckSubmit, Check, Save,
                      LockSignal, FinishEdit
  <2>3. CASE UNCHANGED decisions
    BY <2>2, <2>3
  <2>4. CASE Save(c)
    BY <2>1, <2>2, <2>4 DEF IInv, TypeOK, Save
  <2>5. CASE Replace(c)
    <3>1. PICK rows : decisions' = [decisions EXCEPT ![calls[c].decision].rows = rows]
      BY <2>5 DEF Replace
    <3>2. CASE d = calls[c].decision
      <4>1. decisions[d] # None /\ decisions[d] \in DecisionRow
        BY <2>5, <3>2 DEF IInv, TypeOK, Replace, Exists
      <4>2. decisions'[d].session = decisions[d].session
        BY <3>1, <3>2, <4>1 DEF IInv, TypeOK, DecisionRow
      <4>3. QED
        BY <2>2, <4>1, <4>2
    <3>3. CASE d # calls[c].decision
      BY <2>2, <3>1, <3>3 DEF IInv, TypeOK
    <3>4. QED
      BY <3>2, <3>3
  <2>6. QED
    BY <1>3, <2>3, <2>4, <2>5 DEF Continue, CheckCreate, LockSubmit, CheckSubmit, Check,
                                  LockSignal, FinishEdit
<1>4. QED
  BY <1>1, <1>2, <1>3 DEF Next

LEMMA EditIsTimelyInv == IInv /\ EditIsTimely /\ [Next]_vars => EditIsTimely'
<1> SUFFICES ASSUME IInv, EditIsTimely, [Next]_vars,
                    NEW e \in Client, calls'[e].op \in {"wait", "edit"}
             PROVE  /\ calls'[calls'[e].decision].op = "done"
                    /\ calls'[e].op = "edit" /\ decisions'[calls'[e].decision] # None
                         => ~IsLocked(decisions'[calls'[e].decision].session, calls'[e].at)
  BY DEF EditIsTimely, Exists
<1>1. CASE calls'[e] = calls[e]
  <2>1. calls[calls[e].decision].op = "done" /\ calls[e].decision \in Client
    BY <1>1, CallTypes DEF EditIsTimely, IInv, TypeOK, EditCall
  <2>2. QED
    BY <1>1, <2>1, EndedStays DEF EditIsTimely, Exists
<1>2. CASE calls'[e] # calls[e]
  <2>1. \/ \E d \in Client : StartEditAllocation(e, d) \/ StartEditSignal(e, d)
        \/ LockSignal(e)
    <3>1. PICK c \in Client : Begin(c) \/ Continue(c)
      BY <1>2 DEF Next, Tick, vars
    <3>2. c = e
      BY <1>2, <3>1 DEF IInv, TypeOK, Begin, StartCreate, StartSubmit, StartEditAllocation,
             StartEditSignal, ResetPortfolio, DeleteDecision, Delete, Continue, CheckCreate,
             LockSubmit, CheckSubmit, Check, Save, LockSignal, FinishEdit
    <3>3. \A d \in Client : ~StartCreate(e) /\ ~StartSubmit(e) /\ ~ResetPortfolio(e)
                             /\ ~DeleteDecision(e, d)
      BY DEF IInv, TypeOK, StartCreate, StartSubmit, ResetPortfolio, DeleteDecision, Delete, Done
    <3>4. ~CheckCreate(e) /\ ~CheckSubmit(e) /\ ~Save(e) /\ ~FinishEdit(e)
      BY DEF IInv, TypeOK, CheckCreate, CheckSubmit, Check, Save, FinishEdit, Done
    <3>5. ~LockSubmit(e)
      <4> SUFFICES ASSUME LockSubmit(e) PROVE FALSE
        OBVIOUS
      <4>1. calls[e] \in SubmitCall
        BY CallTypes DEF IInv, TypeOK, LockSubmit
      <4>2. calls'[e].op = "submit"
        BY <4>1 DEF IInv, TypeOK, LockSubmit, SubmitCall
      <4>3. QED
        BY <4>2
    <3>6. QED
      BY <3>1, <3>2, <3>3, <3>4, <3>5 DEF Begin, Continue
  <2>2. ASSUME NEW d \in Client, StartEditAllocation(e, d) \/ StartEditSignal(e, d)
        PROVE  /\ calls'[e].decision = d /\ calls[d].op = "done" /\ d # e
               /\ calls'[d] = calls[d] /\ UNCHANGED decisions
               /\ calls'[e].op = "edit" => ~IsLocked(decisions[d].session, calls'[e].at)
    <3>1. calls[e].op = "idle" /\ calls[d].op = "done"
      BY <2>2 DEF IInv, CreatedByEnded, StartEditAllocation, StartEditSignal, Idle
    <3>2. QED
      BY <2>2, <3>1 DEF IInv, TypeOK, StartEditAllocation, StartEditSignal
  <2>3. CASE LockSignal(e)
    <3> DEFINE d == calls[e].decision
    <3>1. calls[e] \in EditCall /\ calls[e].op = "wait" /\ calls[d].op = "done" /\ d # e
      BY <2>3, CallTypes DEF EditIsTimely, IInv, TypeOK, LockSignal
    <3>2. calls'[e].op = "edit"
      BY <2>3, <3>1 DEF IInv, TypeOK, LockSignal, EditCall, Done
    <3>3. ~IsLocked(decisions[d].session, calls[e].at)
      BY <2>3, <3>2 DEF IInv, TypeOK, LockSignal, Done
    <3>4. /\ calls' = [calls EXCEPT ![e].op = "edit", ![e].loaded = decisions[d].rows]
          /\ UNCHANGED decisions
      BY <2>3, <3>2 DEF IInv, TypeOK, LockSignal, Done
    <3>5. calls'[e].decision = d /\ calls'[e].at = calls[e].at /\ calls'[d] = calls[d]
      BY <3>1, <3>4 DEF IInv, TypeOK, EditCall
    <3>6. QED
      BY <3>1, <3>3, <3>4, <3>5
  <2>4. QED
    BY <2>1, <2>2, <2>3
<1>3. QED
  BY <1>1, <1>2

\* An edit that begins after the boundary of its decision changes nothing, in
\* either table and whatever it waits for.
THEOREM LateEditsRefused == Spec => LateEditsAreRefused
<1>1. Init => EditIsTimely
  BY DEF Init, EditIsTimely, Idle
<1>2. IInv /\ EditIsTimely /\ [Next]_vars => OnlyTimelyEdits
  <2> SUFFICES ASSUME IInv, EditIsTimely, [Next]_vars, NEW c \in Client, NEW d \in Client,
                      calls[c].op = "edit", calls'[c] = Done, Edited(d)
               PROVE  ~IsLocked(decisions[d].session, calls[c].at)
    BY DEF OnlyTimelyEdits
  <2>1. calls'[c] # calls[c]
    BY DEF Done
  <2>2. PICK e \in Client : Begin(e) \/ Continue(e)
    BY <2>1 DEF Next, Tick, vars
  <2>3. e = c
    BY <2>1, <2>2 DEF IInv, TypeOK, Begin, StartCreate, StartSubmit, StartEditAllocation,
           StartEditSignal, ResetPortfolio, DeleteDecision, Delete, Continue, CheckCreate,
           LockSubmit, CheckSubmit, Check, Save, LockSignal, FinishEdit
  <2>4. FinishEdit(c)
    BY <2>2, <2>3 DEF Begin, StartCreate, StartSubmit, StartEditAllocation, StartEditSignal,
           ResetPortfolio, DeleteDecision, Delete, Continue, CheckCreate, LockSubmit,
           CheckSubmit, Save, LockSignal, Idle
  <2>5. Replace(c)
    BY <2>4 DEF FinishEdit, Edited
  <2>6. d = calls[c].decision
    BY <2>5 DEF IInv, TypeOK, Replace, Edited
  <2>7. QED
    BY <2>5, <2>6 DEF EditIsTimely, Replace
<1>3. QED
  BY <1>1, <1>2, SpecInv, EditIsTimelyInv, PTL DEF Spec, LateEditsAreRefused
=============================================================================
