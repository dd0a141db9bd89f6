--------------------------- MODULE ManualDecisions ---------------------------
(***************************************************************************)
(* How the decisions of one portfolio are created, edited and deleted while *)
(* symbols are validated over the network: create_allocation,              *)
(* update_allocation, create_signal, update_signal and _delete_decision of *)
(* backend/app/services/admin_ops.py, with the submission of an evaluation *)
(* that competes with them.  Every call is one database transaction, split *)
(* where the network is awaited; locks are held from one part to the next. *)
(*                                                                         *)
(* kind chooses the table: "allocation" for a managed portfolio, "signal"  *)
(* for a rebuilt one.  Edits of a note alone touch no position and are     *)
(* left out; the weights of a proposal are represented by its symbols.     *)
(***************************************************************************)
EXTENDS Integers

CONSTANTS
  Kinds,       \* the kinds of decision a portfolio may have
  Client,      \* each makes one call; a decision is identified by its creator
  Session,     \* trading days, as increasing naturals
  BoundaryAt,  \* [s]: the boundary of session s for this portfolio
  Symbol,
  Proposal,    \* the sets of symbols that calls submit
  MaxTime,     \* horizon of the clock
  None

Time == 0..MaxTime

ASSUME DecisionsAssumption ==
  /\ Kinds \subseteq {"allocation", "signal"}
  /\ Session \subseteq Nat /\ BoundaryAt \in [Session -> Int] /\ MaxTime \in Nat
  /\ Proposal \subseteq SUBSET Symbol
  /\ None \notin Client
  /\ \A t \in Time : \E s \in Session : t < BoundaryAt[s]

VARIABLES
  kind,       \* "allocation" or "signal": the mode of the portfolio
  now,
  decisions,  \* [Client -> a decision row, or None]
  portfolio,  \* who holds the lock of the portfolio row
  rowlock,    \* [Client -> who holds the lock of that decision's row]
  calls       \* [Client -> the call it is in]

vars == <<kind, now, decisions, portfolio, rowlock, calls>>

\* A position row remembers the call that inserted it.
PositionRow == [symbol : Symbol, by : Client]
DecisionRow == [session : Session, rows : SUBSET PositionRow]

Idle == [op |-> "idle"]
Done == [op |-> "done"]
CreateCall == [op : {"create"}, at : Time]
SaveCall == [op : {"save"}, session : Session]
SubmitCall == [op : {"submit"}, at : Time, target : Session \cup {None}, locked : BOOLEAN]
EditCall == [op : {"wait", "edit"}, at : Time, decision : Client, loaded : SUBSET PositionRow]
Call == {Idle, Done} \cup CreateCall \cup SaveCall \cup SubmitCall \cup EditCall

\* Variant: the next calendar day, whether the market trades or not.
EffectiveDayAfter(t) ==
  1 + CHOOSE s \in Session : t < BoundaryAt[s] /\ \A u \in Session : t < BoundaryAt[u] => s <= u

\* The first session whose boundary is strictly after t.
EffectiveDateFor(t) ==
  CHOOSE s \in Session : t < BoundaryAt[s] /\ \A u \in Session : t < BoundaryAt[u] => s <= u
IsLocked(s, t) == t >= BoundaryAt[s]

Exists(d) == decisions[d] # None
Taken(s) == \E d \in Client : Exists(d) /\ decisions[d].session = s
NewRows(symbols, c) == {[symbol |-> y, by |-> c] : y \in symbols}
SymbolsOf(rows) == {row.symbol : row \in rows}

Init ==
  /\ kind \in Kinds
  /\ now = 0
  /\ decisions = [d \in Client |-> None]
  /\ portfolio = None
  /\ rowlock = [d \in Client |-> None]
  /\ calls = [c \in Client |-> Idle]

Tick ==
  /\ now < MaxTime
  /\ now' = now + 1
  /\ UNCHANGED <<kind, decisions, portfolio, rowlock, calls>>

-----------------------------------------------------------------------------
(* Creating a decision: create_allocation, create_signal and submit_run.      *)

\* Variant: the portfolio row is read without its lock.
StartCreateUnlocked(c) ==
  /\ calls[c] = Idle
  /\ calls' = [calls EXCEPT ![c] = [op |-> "create", at |-> now]]
  /\ UNCHANGED <<kind, now, decisions, portfolio, rowlock>>

\* Up to the network: the portfolio is locked, and the time is read.
StartCreate(c) ==
  /\ calls[c] = Idle
  /\ portfolio = None
  /\ portfolio' = c
  /\ calls' = [calls EXCEPT ![c] = [op |-> "create", at |-> now]]
  /\ UNCHANGED <<kind, now, decisions, rowlock>>

\* A submission reads its time first; a scheduled run brings the session it
\* was queued for, at some earlier time.
StartSubmit(c) ==
  /\ calls[c] = Idle
  /\ \E s \in {None} \cup {EffectiveDateFor(t) : t \in 0..now} :
       calls' = [calls EXCEPT ![c] = [op |-> "submit", at |-> now, target |-> s, locked |-> FALSE]]
  /\ UNCHANGED <<kind, now, decisions, portfolio, rowlock>>

LockSubmit(c) ==
  /\ calls[c].op = "submit" /\ ~calls[c].locked
  /\ portfolio = None
  /\ portfolio' = c
  /\ calls' = [calls EXCEPT ![c].locked = TRUE]
  /\ UNCHANGED <<kind, now, decisions, rowlock>>

Unlocked(c) == IF portfolio = c THEN None ELSE portfolio

\* Variant: a refused call returns without ending its transaction.
CheckKeepsLock(c, s) ==
  /\ \/ calls' = [calls EXCEPT ![c] = Done]
     \/ ~Taken(s) /\ calls' = [calls EXCEPT ![c] = [op |-> "save", session |-> s]]
  /\ UNCHANGED <<kind, now, decisions, portfolio, rowlock>>

\* After the network: an invalid proposal is refused, and so is one for a
\* session that already has a decision.
Check(c, s) ==
  /\ \/ calls' = [calls EXCEPT ![c] = Done] /\ portfolio' = Unlocked(c)
     \/ /\ ~Taken(s)
        /\ calls' = [calls EXCEPT ![c] = [op |-> "save", session |-> s]]
        /\ UNCHANGED portfolio
  /\ UNCHANGED <<kind, now, decisions, rowlock>>

\* create_allocation reads the clock after the network, create_signal before it.
CreationTime(c) == IF kind = "signal" THEN calls[c].at ELSE now

CheckCreate(c) ==
  /\ calls[c].op = "create"
  /\ Check(c, EffectiveDateFor(CreationTime(c)))

CheckSubmit(c) ==
  /\ calls[c].op = "submit" /\ calls[c].locked
  /\ Check(c, IF calls[c].target # None THEN calls[c].target
              ELSE EffectiveDateFor(calls[c].at))

\* The insert and the commit.  Only signals have a unique key of portfolio and
\* session, which refuses the row; allocations rely on the lock.
Save(c) ==
  /\ calls[c].op = "save"
  /\ IF kind = "signal" /\ Taken(calls[c].session)
     THEN UNCHANGED decisions
     ELSE \E symbols \in Proposal :
            decisions' = [decisions EXCEPT ![c] = [session |-> calls[c].session,
                                                   rows |-> NewRows(symbols, c)]]
  /\ portfolio' = Unlocked(c)
  /\ calls' = [calls EXCEPT ![c] = Done]
  /\ UNCHANGED <<kind, now, rowlock>>

-----------------------------------------------------------------------------
(* Replacing the positions of a decision: update_allocation, update_signal.   *)

\* update_allocation takes no lock: it reads the row, its positions and the
\* clock together, and refuses at once a decision whose boundary has passed.
StartEditAllocation(c, d) ==
  /\ kind = "allocation"
  /\ calls[c] = Idle /\ Exists(d)
  /\ ~IsLocked(decisions[d].session, now)
  /\ calls' = [calls EXCEPT ![c] = [op |-> "edit", at |-> now, decision |-> d,
                                    loaded |-> decisions[d].rows]]
  /\ UNCHANGED <<kind, now, decisions, portfolio, rowlock>>

\* update_signal reads the clock, then waits for the lock of the row.
StartEditSignal(c, d) ==
  /\ kind = "signal"
  /\ calls[c] = Idle /\ Exists(d)
  /\ calls' = [calls EXCEPT ![c] = [op |-> "wait", at |-> now, decision |-> d, loaded |-> {}]]
  /\ UNCHANGED <<kind, now, decisions, portfolio, rowlock>>

\* Variants: the row is read without its lock; the boundary is not checked.
LockSignalNot(c) ==
  /\ calls[c].op = "wait"
  /\ LET d == calls[c].decision IN
       IF ~Exists(d) \/ IsLocked(decisions[d].session, calls[c].at)
       THEN calls' = [calls EXCEPT ![c] = Done]
       ELSE calls' = [calls EXCEPT ![c].op = "edit", ![c].loaded = decisions[d].rows]
  /\ UNCHANGED <<kind, now, decisions, portfolio, rowlock>>

LockSignalUnchecked(c) ==
  /\ calls[c].op = "wait"
  /\ LET d == calls[c].decision IN
       /\ rowlock[d] = None
       /\ IF ~Exists(d)
          THEN calls' = [calls EXCEPT ![c] = Done] /\ UNCHANGED rowlock
          ELSE /\ calls' = [calls EXCEPT ![c].op = "edit", ![c].loaded = decisions[d].rows]
               /\ rowlock' = [rowlock EXCEPT ![d] = c]
  /\ UNCHANGED <<kind, now, decisions, portfolio>>

\* The positions are loaded under the lock, the boundary is compared with the
\* time read before it.
LockSignal(c) ==
  /\ calls[c].op = "wait"
  /\ LET d == calls[c].decision IN
       /\ rowlock[d] = None
       /\ IF ~Exists(d) \/ IsLocked(decisions[d].session, calls[c].at)
          THEN calls' = [calls EXCEPT ![c] = Done] /\ UNCHANGED rowlock
          ELSE /\ calls' = [calls EXCEPT ![c].op = "edit", ![c].loaded = decisions[d].rows]
               /\ rowlock' = [rowlock EXCEPT ![d] = c]
  /\ UNCHANGED <<kind, now, decisions, portfolio>>

\* After the network: the rows that were loaded are deleted, as far as they are
\* still there, and the new ones inserted.  Symbols are unique within a
\* decision, and a decision deleted meanwhile takes no rows.
Replace(c) ==
  LET d == calls[c].decision
      kept == decisions[d].rows \ calls[c].loaded
  IN /\ Exists(d)
     /\ \E symbols \in Proposal :
          /\ symbols \cap SymbolsOf(kept) = {}
          /\ decisions' = [decisions EXCEPT ![d].rows = kept \cup NewRows(symbols, c)]

\* Variant: a refused edit returns without ending its transaction.
FinishEditKeepsLock(c) ==
  /\ calls[c].op = "edit"
  /\ \/ UNCHANGED <<decisions, rowlock>>
     \/ Replace(c) /\ rowlock' = [rowlock EXCEPT ![calls[c].decision] = None]
  /\ calls' = [calls EXCEPT ![c] = Done]
  /\ UNCHANGED <<kind, now, portfolio>>

FinishEdit(c) ==
  /\ calls[c].op = "edit"
  /\ UNCHANGED decisions \/ Replace(c)
  /\ rowlock' = [d \in Client |-> IF rowlock[d] = c THEN None ELSE rowlock[d]]
  /\ calls' = [calls EXCEPT ![c] = Done]
  /\ UNCHANGED <<kind, now, portfolio>>

-----------------------------------------------------------------------------
(* _delete_decision and reset_portfolio, under the portfolio lock; the rows   *)
(* they delete must be unlocked.                                              *)

Delete(c, D) ==
  /\ calls[c] = Idle
  /\ portfolio = None
  /\ \A d \in D : Exists(d) /\ rowlock[d] = None
  /\ decisions' = [d \in Client |-> IF d \in D THEN None ELSE decisions[d]]
  /\ calls' = [calls EXCEPT ![c] = Done]
  /\ UNCHANGED <<kind, now, portfolio, rowlock>>

DeleteDecision(c, d) == Delete(c, {d})
ResetPortfolio(c) == Delete(c, {d \in Client : Exists(d)})

-----------------------------------------------------------------------------
\* The steps a call takes once it has begun.
Continue(c) ==
  \/ CheckCreate(c) \/ LockSubmit(c) \/ CheckSubmit(c) \/ Save(c)
  \/ LockSignal(c) \/ FinishEdit(c)

Begin(c) ==
  \/ StartCreate(c) \/ StartSubmit(c) \/ ResetPortfolio(c)
  \/ \E d \in Client : \/ StartEditAllocation(c, d) \/ StartEditSignal(c, d)
                       \/ DeleteDecision(c, d)

Next == Tick \/ \E c \in Client : Begin(c) \/ Continue(c)

Spec == Init /\ [][Next]_vars

\* A transaction in progress is not abandoned, and Postgres hands a row lock
\* that is released to a transaction that waits for it.
LiveSpec == Spec /\ \A c \in Client : WF_vars(Continue(c))

-----------------------------------------------------------------------------
\* Rows, locks and calls are well formed.
TypeOK ==
  /\ kind \in Kinds
  /\ now \in Time
  /\ decisions \in [Client -> DecisionRow \cup {None}]
  /\ portfolio \in Client \cup {None}
  /\ rowlock \in [Client -> Client \cup {None}]
  /\ calls \in [Client -> Call]

\* However long validation takes, a session never gets two decisions: manual
\* entries and submissions check for one and insert theirs under one lock.
OneDecisionPerSession ==
  \A d, e \in Client :
    Exists(d) /\ Exists(e) /\ decisions[d].session = decisions[e].session => d = e

\* The positions of a decision are those of one proposal, never a mixture of
\* two edits (whose weights could exceed 100 percent together).
PositionsAreOneProposal ==
  \A d \in Client : Exists(d) => \A row, other \in decisions[d].rows : row.by = other.by

\* Edits of signals lock the row before they load its positions.
SignalsAreWhole == kind = "signal" => PositionsAreOneProposal

Edited(d) == Exists(d) /\ decisions'[d] # None /\ decisions'[d].rows # decisions[d].rows

\* A decision whose boundary has passed keeps its positions.
LockedPositionsStay == \A d \in Client : Edited(d) => ~IsLocked(decisions[d].session, now)
PositionsAreFrozen == [][LockedPositionsStay]_vars

\* What the code achieves: an edit that begins after the boundary changes nothing.
OnlyTimelyEdits ==
  \A c, d \in Client :
    calls[c].op = "edit" /\ calls'[c] = Done /\ Edited(d)
      => ~IsLocked(decisions[d].session, calls[c].at)
LateEditsAreRefused == [][OnlyTimelyEdits]_vars

\* Validation does not outlast the boundary a decision entered by hand targets:
\* the session it will be saved for is still open when validation ends.
CreatedInTime ==
  \A c \in Client :
    calls[c].op = "create" /\ calls'[c].op = "save" => ~IsLocked(calls'[c].session, now)
NeverBackdated == [][CreatedInTime]_vars

\* No order of locks leaves a call waiting for ever.
EveryCallEnds ==
  \A c \in Client : calls[c] \notin {Idle, Done} ~> calls[c] = Done
=============================================================================
