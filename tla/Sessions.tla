------------------------------- MODULE Sessions -------------------------------
(* Browser sessions: security.py and api/auth.py.  One browser with several     *)
(* tabs shares one cookie; its requests overlap, and each reads its session     *)
(* row, decides, and writes the row later.  A row is keyed by the hash of a     *)
(* token that is never issued twice.                                            *)
EXTENDS Naturals

CONSTANTS
  Tab, Token,
  IdleSeconds,      \* SESSION_IDLE_SECONDS
  AbsoluteSeconds,  \* SESSION_ABSOLUTE_SECONDS
  MaxTime,          \* bound of the clock
  Missing           \* no token, no row, no operation

VARIABLES
  time,      \* the server's clock
  rows,      \* the session rows
  cookie,    \* the browser's cookie
  requests,  \* each tab's request
  ended,     \* tokens that a committed logout or login ended
  used       \* when each token was issued and last used by the browser

sessionVars == <<time, rows, cookie, requests, ended, used>>

NoRequest ==
  [op |-> Missing, token |-> Missing, now |-> 0, pc |-> "done", dead |-> FALSE, new |-> Missing]
Exists(t) == t # Missing /\ rows[t] # Missing
Expired(row, now) == now >= row.until \/ now >= row.seen + IdleSeconds

SessionsInit ==
  /\ time = 0 /\ cookie = Missing /\ ended = {}
  /\ rows = [t \in Token |-> Missing]
  /\ requests = [b \in Tab |-> NoRequest]
  /\ used = [t \in Token |-> Missing]

Tick == time < MaxTime /\ time' = time + 1 /\ UNCHANGED <<rows, cookie, requests, ended, used>>

To(b, pc) == requests' = [requests EXCEPT ![b].pc = pc]
Finish(b) == requests' = [requests EXCEPT ![b] = NoRequest]

\* A request carries the cookie of the moment it is sent; the server reads its
\* clock when a request of a session arrives.  Such a request is an operation of
\* the administrator or a report of activity: which of them, its last step says.
Begin(b, op) ==
  /\ requests[b] = NoRequest
  /\ requests' = [requests EXCEPT ![b] =
       [NoRequest EXCEPT !.op = op, !.token = cookie, !.pc = "load",
                         !.now = IF op = "session" THEN time ELSE 0,
                         !.dead = op = "session" /\ cookie \in ended]]
  /\ UNCHANGED <<time, rows, cookie, ended, used>>

-----------------------------------------------------------------------------
\* The provider's callback: expired rows and the replaced one are deleted and the
\* new row is added in one transaction.
CreateAuthSession(b) ==
  /\ requests[b].op = "login" /\ requests[b].pc = "load"
  /\ \E n \in {t \in Token : used[t] = Missing} :
       /\ rows' = [t \in Token |->
            CASE t = n -> [seen |-> time, until |-> time + AbsoluteSeconds]
              [] t = requests[b].token -> Missing
              [] rows[t] # Missing /\ Expired(rows[t], time) -> Missing
              [] OTHER -> rows[t]]
       /\ used' = [used EXCEPT ![n] = [issued |-> time, last |-> time]]
       /\ requests' = [requests EXCEPT ![b].pc = "respond", ![b].new = n]
  /\ ended' = ended \cup ({requests[b].token} \ {Missing})
  /\ UNCHANGED <<time, cookie>>

\* The answers of login and logout set and clear the cookie, in any order.
Respond(b) ==
  /\ requests[b].pc = "respond"
  /\ cookie' = requests[b].new
  /\ Finish(b)
  /\ UNCHANGED <<time, rows, ended, used>>

\* Variant: only the absolute end of a session is looked at.
LoadUntilAbsolute(b) ==
  LET r == requests[b] IN
  /\ r.op = "session" /\ r.pc = "load"
  /\ IF ~Exists(r.token) THEN Finish(b)
     ELSE To(b, IF r.now >= rows[r.token].until THEN "expired" ELSE "admitted")
  /\ UNCHANGED <<time, rows, cookie, ended, used>>

\* Every admin request and every report of activity loads its session.
LoadActiveSession(b) ==
  LET r == requests[b] IN
  /\ r.op = "session" /\ r.pc = "load"
  /\ IF ~Exists(r.token) THEN Finish(b)
     ELSE To(b, IF Expired(rows[r.token], r.now) THEN "expired" ELSE "admitted")
  /\ UNCHANGED <<time, rows, cookie, ended, used>>

\* The row read as expired is deleted by its key, whatever became of it.
DeleteExpired(b) ==
  /\ requests[b].pc = "expired"
  /\ rows' = [rows EXCEPT ![requests[b].token] = Missing]
  /\ Finish(b)
  /\ UNCHANGED <<time, cookie, ended, used>>

\* The admin operation runs.
RequireAdmin(b) ==
  /\ requests[b].pc = "admitted"
  /\ Finish(b)
  /\ UNCHANGED <<time, rows, cookie, ended, used>>

\* Variant: the row is written back whether or not it still exists.
RecordActivityAlways(b) ==
  LET r == requests[b] IN
  /\ r.pc = "admitted"
  /\ rows' = [rows EXCEPT ![r.token] =
                 [seen |-> r.now, until |-> used[r.token].issued + AbsoluteSeconds]]
  /\ used' = [used EXCEPT ![r.token].last = IF r.now > @ THEN r.now ELSE @]
  /\ Finish(b)
  /\ UNCHANGED <<time, cookie, ended>>

\* An update of a row that is gone fails and inserts nothing.
RecordActivity(b) ==
  LET r == requests[b] IN
  /\ r.pc = "admitted"
  /\ rows' = IF Exists(r.token) THEN [rows EXCEPT ![r.token].seen = r.now] ELSE rows
  /\ used' = [used EXCEPT ![r.token].last = IF r.now > @ THEN r.now ELSE @]
  /\ Finish(b)
  /\ UNCHANGED <<time, cookie, ended>>

\* Logout deletes the row if it is there; the answer clears the cookie either way.
Logout(b) ==
  /\ requests[b].op = "logout" /\ requests[b].pc = "load"
  /\ rows' = IF requests[b].token = Missing THEN rows
             ELSE [rows EXCEPT ![requests[b].token] = Missing]
  /\ ended' = ended \cup ({requests[b].token} \ {Missing})
  /\ To(b, "respond")
  /\ UNCHANGED <<time, cookie, used>>

SessionsNext ==
  \/ Tick
  \/ \E b \in Tab :
       \/ \E op \in {"login", "session", "logout"} : Begin(b, op)
       \/ CreateAuthSession(b) \/ Respond(b) \/ LoadActiveSession(b) \/ DeleteExpired(b)
       \/ RequireAdmin(b) \/ RecordActivity(b) \/ Logout(b)

SessionsSpec == SessionsInit /\ [][SessionsNext]_sessionVars

-----------------------------------------------------------------------------
(* Properties. *)

\* A session that was signed out or replaced never comes back, however late a
\* report of activity that was admitted before is written; and no request is
\* admitted that was sent after the end of its session, after its absolute end,
\* or when the browser had been idle for too long.
OnlyLiveSessionsAdmit ==
  /\ \A t \in ended : rows[t] = Missing
  /\ \A b \in Tab :
       LET r == requests[b] IN
       r.pc = "admitted" =>
         /\ ~r.dead
         /\ r.now < used[r.token].issued + AbsoluteSeconds
         /\ r.now < used[r.token].last + IdleSeconds
=============================================================================
