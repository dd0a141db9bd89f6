---------------------------- MODULE ServicesProofs ----------------------------
(***************************************************************************)
(* Proofs about the small services that share no state: sessions, the      *)
(* supervisor of the processes, the shared prompts across the database's   *)
(* revisions, the settings, the browser's cache of responses, the cache of *)
(* analyses and the output of a harness, for every value of their          *)
(* constants.                                                              *)
(***************************************************************************)
EXTENDS HarnessOutput, SingleFlightLru, Sessions, Supervisor, PromptUpgrades, Settings, PublicQueries,
        Induction, FiniteSetTheorems, TLAPS

-----------------------------------------------------------------------------
(* Sessions, for every number of tabs and tokens and every length of the two  *)
(* limits.                                                                    *)

SessionRow == [seen: Nat, until: Nat]
Use == [issued: Nat, last: Nat]

\* The limits are numbers of seconds, and Missing is neither a token nor a record.
LimitsAreLengths ==
  /\ IdleSeconds \in Nat /\ AbsoluteSeconds \in Nat
  /\ Missing \notin Token /\ Missing \notin Use

SessionRequest ==
  [op: {Missing, "login", "session", "logout"}, token: Token \cup {Missing}, now: Nat,
   pc: {"done", "load", "respond", "expired", "admitted"}, dead: BOOLEAN,
   new: Token \cup {Missing}]

SessionsTyped ==
  /\ time \in Nat
  /\ rows \in [Token -> SessionRow \cup {Missing}]
  /\ cookie \in Token \cup {Missing}
  /\ requests \in [Tab -> SessionRequest]
  /\ ended \in SUBSET Token
  /\ used \in [Token -> Use \cup {Missing}]

(* The inductive invariant: a row agrees with what its token was issued and   *)
(* last used for, an ended token has no row, and a request names an issued    *)
(* token and knows of its end.                                                *)
Issued(t) == used[t] \in Use
RowsAreUsed ==
  \A t \in Token :
    /\ t \in ended => Issued(t) /\ rows[t] = Missing
    /\ rows[t] # Missing => /\ Issued(t)
                         /\ rows[t].until = used[t].issued + AbsoluteSeconds
                         /\ rows[t].seen <= used[t].last
Tokened(r) ==
  /\ r.token # Missing => Issued(r.token)
  /\ r.new # Missing => Issued(r.new)
  /\ r.dead => r.token \in ended
Admitted(r) ==
  r.pc = "admitted" =>
    /\ r.token \in Token /\ ~r.dead
    /\ r.now < used[r.token].issued + AbsoluteSeconds
    /\ r.now < used[r.token].last + IdleSeconds
RequestsAreTokened == \A b \in Tab : Tokened(requests[b]) /\ Admitted(requests[b])

SessionsInv ==
  /\ SessionsTyped /\ RowsAreUsed /\ RequestsAreTokened
  /\ cookie # Missing => Issued(cookie)

-----------------------------------------------------------------------------
LEMMA NoRequestIsFine == Tokened(NoRequest) /\ Admitted(NoRequest) /\ NoRequest \in SessionRequest
  BY DEF NoRequest, Tokened, Admitted, SessionRequest

\* One request moves; the tokens stay as they are.
LEMMA OneRequestMoves ==
  ASSUME SessionsInv, NEW b \in Tab, NEW r \in SessionRequest, requests' = [requests EXCEPT ![b] = r],
         UNCHANGED <<time, rows, cookie, ended, used>>, Tokened(r), Admitted(r)
  PROVE  SessionsInv'
<1>1. SessionsTyped'
  BY DEF SessionsInv, SessionsTyped
<1>2. RowsAreUsed' /\ (cookie # Missing => Issued(cookie))'
  BY DEF SessionsInv, RowsAreUsed, Issued
<1>3. ASSUME NEW o \in Tab PROVE (Tokened(requests[o]) /\ Admitted(requests[o]))'
  <2>1. requests'[o] = IF o = b THEN r ELSE requests[o]
    BY DEF SessionsInv, SessionsTyped
  <2>2. Tokened(requests'[o]) /\ Admitted(requests'[o])
    BY <2>1 DEF SessionsInv, RequestsAreTokened
  <2>3. QED
    BY <2>2 DEF Tokened, Admitted, Issued
<1>4. QED
  BY <1>1, <1>2, <1>3 DEF SessionsInv, RequestsAreTokened

LEMMA SessionsInitInv ==
  ASSUME LimitsAreLengths, SessionsInit
  PROVE  SessionsInv
<1>1. SessionsTyped
  BY NoRequestIsFine DEF SessionsInit, SessionsTyped
<1>2. QED
  BY <1>1, NoRequestIsFine DEF SessionsInit, SessionsInv, RowsAreUsed, RequestsAreTokened

LEMMA BeginInv ==
  ASSUME SessionsInv, NEW b \in Tab, NEW op \in {"login", "session", "logout"}, Begin(b, op)
  PROVE  SessionsInv'
<1> DEFINE now == IF op = "session" THEN time ELSE 0
           dead == op = "session" /\ cookie \in ended
           r == [NoRequest EXCEPT !.op = op, !.token = cookie, !.pc = "load",
                                  !.now = now, !.dead = dead]
<1>1. requests' = [requests EXCEPT ![b] = r] /\ UNCHANGED <<time, rows, cookie, ended, used>>
  BY DEF Begin
<1>2. now \in Nat /\ dead \in BOOLEAN /\ (dead => cookie \in ended)
  BY DEF SessionsInv, SessionsTyped
<1> HIDE DEF now, dead
<1>3. r \in SessionRequest
  BY <1>2 DEF NoRequest, SessionRequest, SessionsInv, SessionsTyped
<1>4. r.token = cookie /\ r.new = Missing /\ r.pc = "load" /\ (r.dead <=> dead)
  BY <1>2 DEF NoRequest
<1>5. Tokened(r) /\ Admitted(r)
  BY <1>2, <1>4 DEF Tokened, Admitted, SessionsInv
<1> HIDE DEF r
<1>6. QED
  BY <1>1, <1>3, <1>5, OneRequestMoves

LEMMA LoadInv ==
  ASSUME SessionsInv, NEW b \in Tab, LoadActiveSession(b), LimitsAreLengths
  PROVE  SessionsInv'
<1> DEFINE r == requests[b]
<1>1. r \in SessionRequest /\ Tokened(r)
  BY DEF SessionsInv, SessionsTyped, RequestsAreTokened
<1>2. CASE ~Exists(r.token)
  BY <1>2, NoRequestIsFine, OneRequestMoves DEF LoadActiveSession, Finish
<1>3. CASE Exists(r.token)
  <2> DEFINE pc == IF Expired(rows[r.token], r.now) THEN "expired" ELSE "admitted"
             q == [r EXCEPT !.pc = pc]
  <2>1. requests' = [requests EXCEPT ![b] = q] /\ UNCHANGED <<time, rows, cookie, ended, used>>
    BY <1>3 DEF LoadActiveSession, To, SessionsInv, SessionsTyped
  <2>2. q \in SessionRequest /\ Tokened(q)
    BY <1>1 DEF SessionRequest, Tokened
  <2>3. r.token \in Token /\ rows[r.token] \in SessionRow /\ r.token \notin ended
    BY <1>1, <1>3 DEF Exists, LimitsAreLengths, SessionRequest, SessionsInv, SessionsTyped, RowsAreUsed
  <2>4. /\ used[r.token] \in Use
        /\ rows[r.token].until = used[r.token].issued + AbsoluteSeconds
        /\ rows[r.token].seen <= used[r.token].last
    BY <1>3, <2>3 DEF Exists, SessionsInv, RowsAreUsed, Issued
  <2>5. ASSUME pc = "admitted"
        PROVE  /\ ~r.dead
               /\ r.now < used[r.token].issued + AbsoluteSeconds
               /\ r.now < used[r.token].last + IdleSeconds
    <3>1. ~r.dead
      BY <1>1, <2>3 DEF Tokened
    <3>2. ~(r.now >= rows[r.token].until) /\ ~(r.now >= rows[r.token].seen + IdleSeconds)
      BY <2>5 DEF Expired
    <3>3. QED
      BY <3>1, <3>2, <1>1, <2>3, <2>4, LimitsAreLengths
         DEF LimitsAreLengths, SessionRow, Use, SessionRequest
  <2>6. Admitted(q)
    BY <1>1, <2>3, <2>5 DEF Admitted, SessionRequest
  <2> HIDE DEF q
  <2>7. QED
    BY <2>1, <2>2, <2>6, OneRequestMoves
<1>4. QED
  BY <1>2, <1>3

\* Rows go; none comes.
LEMMA RowsGo ==
  ASSUME SessionsInv, NEW b \in Tab, NEW r \in SessionRequest, NEW gone \in SUBSET Token,
         requests' = [requests EXCEPT ![b] = r], Tokened(r)', Admitted(r)',
         rows' = [t \in Token |-> IF t \in gone THEN Missing ELSE rows[t]],
         ended \subseteq ended', ended' \subseteq ended \cup gone,
         \A t \in gone \cap ended' : Issued(t),
         UNCHANGED <<time, cookie, used>>
  PROVE  SessionsInv'
<1>1. SessionsTyped'
  BY DEF SessionsInv, SessionsTyped
<1>2. RowsAreUsed' /\ (cookie # Missing => Issued(cookie))'
  BY DEF SessionsInv, RowsAreUsed, Issued, SessionsTyped
<1>3. ASSUME NEW o \in Tab PROVE (Tokened(requests[o]) /\ Admitted(requests[o]))'
  <2>1. requests'[o] = IF o = b THEN r ELSE requests[o]
    BY DEF SessionsInv, SessionsTyped
  <2>2. o # b => Tokened(requests[o]) /\ Admitted(requests[o])
    BY DEF SessionsInv, RequestsAreTokened
  <2>3. QED
    BY <2>1, <2>2 DEF Tokened, Admitted, Issued
<1>4. QED
  BY <1>1, <1>2, <1>3 DEF SessionsInv, RequestsAreTokened

LEMMA DeleteExpiredInv ==
  ASSUME SessionsInv, NEW b \in Tab, DeleteExpired(b)
  PROVE  SessionsInv'
<1> DEFINE gone == {t \in Token : t = requests[b].token}
<1>1. rows' = [t \in Token |-> IF t \in gone THEN Missing ELSE rows[t]]
  BY DEF DeleteExpired, SessionsInv, SessionsTyped
<1>2. /\ requests' = [requests EXCEPT ![b] = NoRequest]
      /\ UNCHANGED <<time, cookie, ended, used>>
  BY DEF DeleteExpired, Finish
<1>3. \A t \in gone \cap ended' : Issued(t)
  BY <1>2 DEF SessionsInv, RowsAreUsed
<1>4. Tokened(NoRequest)' /\ Admitted(NoRequest)'
  BY DEF NoRequest, Tokened, Admitted
<1> HIDE DEF gone
<1>5. gone \in SUBSET Token
  BY DEF gone
<1>6. QED
  BY <1>1, <1>2, <1>3, <1>4, <1>5, NoRequestIsFine, RowsGo

LEMMA LogoutInv ==
  ASSUME SessionsInv, NEW b \in Tab, Logout(b), LimitsAreLengths
  PROVE  SessionsInv'
<1> DEFINE r == requests[b]
           gone == {t \in Token : t = r.token}
<1> PICK q : q = [r EXCEPT !.pc = "respond"]
  OBVIOUS
<1>1. r \in SessionRequest /\ Tokened(r)
  BY DEF SessionsInv, SessionsTyped, RequestsAreTokened
<1>2. rows' = [t \in Token |-> IF t \in gone THEN Missing ELSE rows[t]]
  BY <1>1 DEF Logout, SessionsInv, SessionsTyped, LimitsAreLengths
<1>3. /\ requests' = [requests EXCEPT ![b] = q]
      /\ ended' = ended \cup gone
      /\ UNCHANGED <<time, cookie, used>>
  BY <1>1 DEF Logout, To, SessionsInv, SessionsTyped, SessionRequest, LimitsAreLengths
<1>4. \A t \in gone : Issued(t)
  BY <1>1 DEF Tokened, LimitsAreLengths
<1>5. q \in SessionRequest /\ Tokened(q)' /\ Admitted(q)'
  BY <1>1, <1>3 DEF SessionRequest, Tokened, Admitted, Issued
<1>6. gone \in SUBSET Token
  OBVIOUS
<1> HIDE DEF gone
<1>7. QED
  BY <1>2, <1>3, <1>4, <1>5, <1>6, RowsGo

LEMMA RespondInv ==
  ASSUME SessionsInv, NEW b \in Tab, Respond(b)
  PROVE  SessionsInv'
<1>1. requests[b] \in SessionRequest /\ Tokened(requests[b])
  BY DEF SessionsInv, SessionsTyped, RequestsAreTokened
<1>2. /\ cookie' = requests[b].new /\ requests' = [requests EXCEPT ![b] = NoRequest]
      /\ UNCHANGED <<time, rows, ended, used>>
  BY DEF Respond, Finish
<1>3. SessionsTyped'
  BY <1>1, <1>2, NoRequestIsFine DEF SessionsInv, SessionsTyped, SessionRequest
<1>4. RowsAreUsed' /\ (cookie # Missing => Issued(cookie))'
  BY <1>1, <1>2 DEF SessionsInv, RowsAreUsed, Issued, Tokened
<1>5. ASSUME NEW o \in Tab PROVE (Tokened(requests[o]) /\ Admitted(requests[o]))'
  <2>1. requests'[o] = IF o = b THEN NoRequest ELSE requests[o]
    BY <1>2 DEF SessionsInv, SessionsTyped
  <2>2. Tokened(requests'[o]) /\ Admitted(requests'[o])
    BY <2>1, NoRequestIsFine DEF SessionsInv, RequestsAreTokened
  <2>3. QED
    BY <1>2, <2>2 DEF Tokened, Admitted, Issued
<1>6. QED
  BY <1>3, <1>4, <1>5 DEF SessionsInv, RequestsAreTokened

LEMMA RecordActivityInv ==
  ASSUME SessionsInv, NEW b \in Tab, RecordActivity(b), LimitsAreLengths
  PROVE  SessionsInv'
<1> DEFINE r == requests[b]
           t == r.token
<1>1. r \in SessionRequest /\ Tokened(r) /\ t \in Token /\ Issued(t) /\ r.now \in Nat
  BY DEF RecordActivity, SessionsInv, SessionsTyped, RequestsAreTokened, Admitted, Tokened,
         LimitsAreLengths, SessionRequest
<1>2. /\ rows' = IF Exists(t) THEN [rows EXCEPT ![t].seen = r.now] ELSE rows
      /\ used' = [used EXCEPT ![t].last = IF r.now > @ THEN r.now ELSE @]
      /\ requests' = [requests EXCEPT ![b] = NoRequest]
      /\ UNCHANGED <<time, cookie, ended>>
  BY DEF RecordActivity, Finish
<1> HIDE DEF r, t
<1>3. /\ used'[t] \in Use /\ used'[t].issued = used[t].issued
      /\ used'[t].last >= used[t].last /\ used'[t].last >= r.now
      /\ \A o \in Token : o # t => used'[o] = used[o]
  BY <1>1, <1>2 DEF SessionsInv, SessionsTyped, Issued, Use
<1>4. \A o \in Token : Issued(o) => Issued(o)'
  BY <1>3 DEF Issued
<1>5. SessionsTyped'
  <2>1. used' \in [Token -> Use \cup {Missing}]
    BY <1>2, <1>3 DEF SessionsInv, SessionsTyped
  <2>2. rows' \in [Token -> SessionRow \cup {Missing}]
    BY <1>1, <1>2 DEF SessionsInv, SessionsTyped, Exists, SessionRow
  <2>3. QED
    BY <1>2, <2>1, <2>2, NoRequestIsFine DEF SessionsInv, SessionsTyped
<1>6. RowsAreUsed'
  <2> SUFFICES ASSUME NEW o \in Token
               PROVE  (/\ o \in ended => Issued(o) /\ rows[o] = Missing
                       /\ rows[o] # Missing => /\ Issued(o)
                                            /\ rows[o].until = used[o].issued + AbsoluteSeconds
                                            /\ rows[o].seen <= used[o].last)'
    BY DEF RowsAreUsed
  <2>1. CASE o # t \/ ~Exists(t)
    <3>1. rows'[o] = rows[o]
      BY <2>1, <1>1, <1>2 DEF SessionsInv, SessionsTyped
    <3>2. rows[o] # Missing => o # t
      BY <2>1, <1>1 DEF Exists, LimitsAreLengths
    <3>3. QED
      BY <1>2, <1>3, <1>4, <3>1, <3>2 DEF SessionsInv, RowsAreUsed
  <2>2. CASE o = t /\ Exists(t)
    <3>1. rows[t] # Missing /\ rows[t] \in SessionRow /\ t \notin ended
      BY <2>2, <1>1 DEF Exists, SessionsInv, SessionsTyped, RowsAreUsed
    <3>2. rows'[t].seen = r.now /\ rows'[t].until = rows[t].until
      BY <2>2, <1>1, <1>2, <3>1 DEF SessionsInv, SessionsTyped, SessionRow
    <3>3. QED
      BY <2>2, <1>1, <1>2, <1>3, <1>4, <3>1, <3>2 DEF SessionsInv, RowsAreUsed
  <2>3. QED
    BY <2>1, <2>2
<1>7. ASSUME NEW q \in SessionRequest, Tokened(q), Admitted(q)
      PROVE  Tokened(q)' /\ Admitted(q)'
  <2>1. Tokened(q)'
    BY <1>2, <1>4, <1>7 DEF Tokened, SessionRequest
  <2>2. CASE q.pc = "admitted"
    <3>1. q.token \in Token /\ q.now \in Nat /\ Issued(q.token)
      BY <1>7, <2>2 DEF Admitted, Tokened, LimitsAreLengths, SessionRequest
    <3>2. /\ used'[q.token].issued = used[q.token].issued
          /\ used'[q.token].last >= used[q.token].last
          /\ used'[q.token].last \in Nat /\ used[q.token].last \in Nat
      <4>1. CASE q.token = t
        BY <4>1, <1>1, <1>3 DEF Issued, Use
      <4>2. CASE q.token # t
        BY <4>2, <1>3, <3>1 DEF Issued, Use
      <4>3. QED
        BY <4>1, <4>2
    <3>3. QED
      BY <1>7, <2>1, <2>2, <3>1, <3>2 DEF Admitted, LimitsAreLengths
  <2>3. QED
    BY <2>1, <2>2 DEF Admitted
<1>8. ASSUME NEW o \in Tab PROVE (Tokened(requests[o]) /\ Admitted(requests[o]))'
  <2>1. requests'[o] = IF o = b THEN NoRequest ELSE requests[o]
    BY <1>2 DEF SessionsInv, SessionsTyped
  <2>2. requests'[o] \in SessionRequest /\ Tokened(requests'[o]) /\ Admitted(requests'[o])
    BY <2>1, NoRequestIsFine DEF SessionsInv, SessionsTyped, RequestsAreTokened
  <2>3. QED
    BY <1>7, <2>2 DEF Tokened, Admitted, Issued
<1>9. (cookie # Missing => Issued(cookie))'
  BY <1>2, <1>4 DEF SessionsInv, SessionsTyped
<1>10. QED
  BY <1>5, <1>6, <1>8, <1>9 DEF SessionsInv, RequestsAreTokened

LEMMA LoginInv ==
  ASSUME SessionsInv, NEW b \in Tab, CreateAuthSession(b), LimitsAreLengths
  PROVE  SessionsInv'
<1> DEFINE r == requests[b]
<1>1. r \in SessionRequest /\ Tokened(r)
  BY DEF SessionsInv, SessionsTyped, RequestsAreTokened
<1>2. PICK n \in {t \in Token : used[t] = Missing} :
        /\ rows' = [t \in Token |->
             CASE t = n                                        -> [seen |-> time, until |-> time + AbsoluteSeconds]
               [] t = requests[b].token                        -> Missing
               [] rows[t] # Missing /\ Expired(rows[t], time)     -> Missing
               [] OTHER                                        -> rows[t]]
        /\ used' = [used EXCEPT ![n] = [issued |-> time, last |-> time]]
        /\ requests' = [requests EXCEPT ![b].pc = "respond", ![b].new = n]
  BY DEF CreateAuthSession
<1> DEFINE q == [r EXCEPT !.pc = "respond", !.new = n]
<1>3. /\ ended' = ended \cup ({r.token} \ {Missing}) /\ UNCHANGED <<time, cookie>>
      /\ requests' = [requests EXCEPT ![b] = q]
  BY <1>2 DEF CreateAuthSession, SessionsInv, SessionsTyped
<1>4. q \in SessionRequest /\ q.pc = "respond" /\ q.new = n /\ q.token = r.token /\ q.dead = r.dead
  BY <1>1 DEF SessionRequest
<1> HIDE DEF q
<1>5. /\ n \in Token /\ ~Issued(n) /\ used'[n] \in Use
      /\ used'[n].issued = time /\ used'[n].last = time
      /\ \A o \in Token : o # n => used'[o] = used[o]
  BY <1>2 DEF SessionsInv, SessionsTyped, Issued, Use, LimitsAreLengths
<1>6. \A o \in Token : Issued(o) => Issued(o)' /\ used'[o] = used[o]
  BY <1>5 DEF Issued
<1>7. rows'[n] = [seen |-> time, until |-> time + AbsoluteSeconds]
  <2>1. rows[n] = Missing
    BY <1>5 DEF SessionsInv, RowsAreUsed
  <2>2. n # requests[b].token
    BY <1>1, <1>5 DEF Tokened, Issued, LimitsAreLengths, SessionRequest
  <2>3. QED
    BY <1>2, <1>5, <2>1, <2>2
<1>8. \A o \in Token : o # n => rows'[o] = Missing \/ rows'[o] = rows[o]
  BY <1>2, <1>5
<1>9. r.token # Missing => r.token \in Token /\ r.token # n /\ rows'[r.token] = Missing
  <2>1. r.token # Missing => r.token \in Token /\ Issued(r.token)
    BY <1>1 DEF Tokened, SessionRequest
  <2>2. QED
    BY <1>2, <1>5, <2>1
<1>10. SessionsTyped'
  <2>1. rows' \in [Token -> SessionRow \cup {Missing}]
    <3>1. \A o \in Token : rows'[o] \in SessionRow \cup {Missing}
      BY <1>7, <1>8 DEF SessionsInv, SessionsTyped, SessionRow, LimitsAreLengths
    <3>2. rows' = [o \in Token |-> rows'[o]]
      BY <1>2
    <3>3. QED
      BY <3>1, <3>2
  <2>2. used' \in [Token -> Use \cup {Missing}]
    BY <1>2, <1>5 DEF SessionsInv, SessionsTyped
  <2>3. ended' \in SUBSET Token
    BY <1>1, <1>3 DEF SessionsInv, SessionsTyped, SessionRequest
  <2>4. QED
    BY <1>3, <1>4, <2>1, <2>2, <2>3 DEF SessionsInv, SessionsTyped
<1>11. RowsAreUsed'
  <2> SUFFICES ASSUME NEW o \in Token
               PROVE  (/\ o \in ended => Issued(o) /\ rows[o] = Missing
                       /\ rows[o] # Missing => /\ Issued(o)
                                            /\ rows[o].until = used[o].issued + AbsoluteSeconds
                                            /\ rows[o].seen <= used[o].last)'
    BY DEF RowsAreUsed
  <2>1. CASE o = n
    <3>1. n \notin ended'
      BY <1>3, <1>5, <1>9 DEF SessionsInv, RowsAreUsed
    <3>2. QED
      BY <2>1, <3>1, <1>5, <1>7 DEF Issued, SessionsInv, SessionsTyped
  <2>2. CASE o # n
    <3>1. o \in ended' => Issued(o) /\ rows'[o] = Missing
      BY <2>2, <1>1, <1>3, <1>8, <1>9 DEF SessionsInv, RowsAreUsed, Tokened
    <3>2. rows'[o] # Missing => rows[o] # Missing /\ rows'[o] = rows[o]
      BY <2>2, <1>8
    <3>3. QED
      BY <2>2, <3>1, <3>2, <1>5, <1>6 DEF SessionsInv, RowsAreUsed
  <2>3. QED
    BY <2>1, <2>2
<1>12. ASSUME NEW o \in Tab PROVE (Tokened(requests[o]) /\ Admitted(requests[o]))'
  <2>1. CASE o = b
    <3>1. requests'[o] = q
      BY <2>1, <1>3 DEF SessionsInv, SessionsTyped
    <3>2. (q.token # Missing => used'[q.token] \in Use) /\ used'[q.new] \in Use
      BY <1>1, <1>4, <1>5, <1>6 DEF Tokened, SessionRequest, Issued
    <3>3. q.dead => q.token \in ended'
      BY <1>1, <1>3, <1>4 DEF Tokened
    <3>4. QED
      BY <3>1, <3>2, <3>3, <1>4 DEF Tokened, Admitted, Issued
  <2>2. CASE o # b
    <3>1. requests'[o] = requests[o]
      BY <2>2, <1>3 DEF SessionsInv, SessionsTyped
    <3>2. requests[o] \in SessionRequest /\ Tokened(requests[o]) /\ Admitted(requests[o])
      BY DEF SessionsInv, SessionsTyped, RequestsAreTokened
    <3>3. Tokened(requests[o])'
      BY <3>1, <3>2, <1>3, <1>6 DEF Tokened, SessionRequest, Issued
    <3>4. Admitted(requests[o])'
      BY <3>1, <3>2, <1>6 DEF Admitted, Tokened, LimitsAreLengths
    <3>5. QED
      BY <3>3, <3>4
  <2>3. QED
    BY <2>1, <2>2
<1>13. (cookie # Missing => Issued(cookie))'
  BY <1>3, <1>6 DEF SessionsInv, SessionsTyped
<1>14. QED
  BY <1>10, <1>11, <1>12, <1>13 DEF SessionsInv, RequestsAreTokened

LEMMA SessionsNextInv ==
  ASSUME LimitsAreLengths, SessionsInv, [SessionsNext]_sessionVars
  PROVE  SessionsInv'
<1>1. CASE Tick
  BY <1>1 DEF Tick, SessionsInv, SessionsTyped, RowsAreUsed, RequestsAreTokened, Tokened,
              Admitted, Issued
<1>2. ASSUME NEW b \in Tab, NEW op \in {"login", "session", "logout"}, Begin(b, op)
      PROVE  SessionsInv'
  BY <1>2, BeginInv
<1>3. ASSUME NEW b \in Tab, CreateAuthSession(b) PROVE SessionsInv'
  BY <1>3, LoginInv
<1>4. ASSUME NEW b \in Tab, Respond(b) PROVE SessionsInv'
  BY <1>4, RespondInv
<1>5. ASSUME NEW b \in Tab, LoadActiveSession(b) PROVE SessionsInv'
  BY <1>5, LoadInv
<1>6. ASSUME NEW b \in Tab, DeleteExpired(b) PROVE SessionsInv'
  BY <1>6, DeleteExpiredInv
<1>7. ASSUME NEW b \in Tab, RequireAdmin(b) PROVE SessionsInv'
  BY <1>7, NoRequestIsFine, OneRequestMoves DEF RequireAdmin, Finish
<1>8. ASSUME NEW b \in Tab, RecordActivity(b) PROVE SessionsInv'
  BY <1>8, RecordActivityInv
<1>9. ASSUME NEW b \in Tab, Logout(b) PROVE SessionsInv'
  BY <1>9, LogoutInv
<1>10. CASE UNCHANGED sessionVars
  BY <1>10 DEF sessionVars, SessionsInv, SessionsTyped, RowsAreUsed, RequestsAreTokened,
               Tokened, Admitted, Issued
<1>11. QED
  BY <1>1, <1>2, <1>3, <1>4, <1>5, <1>6, <1>7, <1>8, <1>9, <1>10 DEF SessionsNext

\* However logins, logouts and reports of activity of any number of tabs overlap,
\* an ended session stays ended and only a live one admits (load_active_session,
\* record_activity and logout of security.py and api/auth.py).
THEOREM OnlyLiveSessions ==
  ASSUME LimitsAreLengths
  PROVE  SessionsSpec => []OnlyLiveSessionsAdmit
<1>1. SessionsInit => SessionsInv
  BY SessionsInitInv
<1>2. SessionsInv /\ [SessionsNext]_sessionVars => SessionsInv'
  BY SessionsNextInv
<1>3. SessionsInv => OnlyLiveSessionsAdmit
  BY DEF SessionsInv, SessionsTyped, RowsAreUsed, RequestsAreTokened, Admitted,
         OnlyLiveSessionsAdmit
<1>4. QED
  BY <1>1, <1>2, <1>3, PTL DEF SessionsSpec


-----------------------------------------------------------------------------
(* Supervisor.  Each of its two coroutines knows how the process it keeps    *)
(* stands, and main leaves only when both are through.                       *)

SupervisorInv ==
  /\ main \in {"startup", "serving", "terminate", "cleanup", "awaitKeeper", "exited"}
  /\ keeper \in {"absent", "check", "spawn", "watch", "terminate", "backoff", "done"}
  /\ evaluator \in {"none", "running", "stopping", "exited"}
  /\ group \in BOOLEAN
  /\ main \in {"awaitKeeper", "exited"} => web = "exited"
  /\ main = "exited" => keeper \in {"absent", "done"}
  /\ main = "startup" => keeper = "absent"
  /\ keeper = "absent" => evaluator = "none"
  /\ evaluator = "running" => keeper = "watch"
  /\ evaluator = "stopping" => keeper = "terminate"
  /\ group => evaluator \in {"running", "stopping"}

LEMMA SupervisorStep == SupervisorInv /\ [SupervisorNext]_supervisorVars => SupervisorInv'
<1> SUFFICES ASSUME SupervisorInv, [SupervisorNext]_supervisorVars PROVE SupervisorInv'
  OBVIOUS
<1> USE DEF SupervisorInv, processes
<1>1. CASE UNCHANGED supervisorVars
  BY <1>1 DEF supervisorVars
<1>2. CASE Signal
  BY <1>2 DEF Signal
<1>3. CASE Main
  <2>1. CASE WaitForWeb
    BY <2>1 DEF WaitForWeb
  <2>2. CASE ServeWeb
    BY <2>2 DEF ServeWeb
  <2>3. CASE WebTerminated \/ Leave
    BY <2>3 DEF WebTerminated, Leave
  <2>4. CASE CleanUp
    BY <2>4 DEF CleanUp
  <2>5. QED
    BY <1>3, <2>1, <2>2, <2>3, <2>4 DEF Main
<1>4. CASE Keeper
  <2>1. CASE Check
    BY <2>1 DEF Check
  <2>2. CASE Spawn
    BY <2>2 DEF Spawn
  <2>3. CASE Watch
    BY <2>3 DEF Watch
  <2>4. CASE EvaluatorTerminated \/ Backoff
    BY <2>4 DEF EvaluatorTerminated, Backoff
  <2>5. QED
    BY <1>4, <2>1, <2>2, <2>3, <2>4 DEF Keeper
<1>5. CASE Kill
  <2>1. CASE web = "stopping" /\ web' = "exited" /\ UNCHANGED <<main, keeper, evaluator, group>>
    BY <2>1
  <2>2. CASE /\ evaluator = "stopping" /\ evaluator' = "exited" /\ group' = FALSE
             /\ UNCHANGED <<main, keeper, web>>
    BY <2>2
  <2>3. QED
    BY <1>5, <2>1, <2>2 DEF Kill, Abandon
<1>6. CASE WebBecomesHealthy \/ WebEnds
  BY <1>6 DEF WebBecomesHealthy, WebEnds
<1>7. CASE EvaluatorCrashes \/ EvaluatorExits
  <2>1. /\ UNCHANGED <<main, keeper, web>> /\ evaluator \in {"running", "stopping"}
        /\ evaluator' = "exited" /\ group' = FALSE
    BY <1>7 DEF EvaluatorCrashes, EvaluatorExits, Abandon
  <2>2. QED
    BY <2>1
<1>8. CASE StartGroup \/ EndGroup
  BY <1>8 DEF StartGroup, EndGroup
<1>9. QED
  BY <1>1, <1>2, <1>3, <1>4, <1>5, <1>6, <1>7, <1>8 DEF SupervisorNext

\* When the supervisor has exited, neither process runs, nor a process group of an
\* evaluator that ended by itself, whatever crashed, was killed or was signalled, and
\* when (run and _evaluator_supervisor in production.py).
THEOREM SupervisorLeavesNothing == SupervisorSpec => []NothingOutlivesSupervisor
<1>1. SupervisorInit => SupervisorInv
  BY DEF SupervisorInit, SupervisorInv
<1>2. SupervisorInv => NothingOutlivesSupervisor
  BY DEF SupervisorInv, NothingOutlivesSupervisor
<1>3. QED
  BY <1>1, <1>2, SupervisorStep, PTL DEF SupervisorSpec

-----------------------------------------------------------------------------
(* Shared prompts.  A revision that rewrites a wrapper keeps what the         *)
(* application fills in; only the first revision finds no wrapper.            *)

Fillable(t) == t \in TextRow /\ Holes \subseteq t.has
Directed(t) == t.has \cap DirectionHole # {}

\* What a wrapper has that its rendering needs.
KeepsUse(t, u) == Fillable(u) /\ (Directed(t) => Directed(u))

WrapperInv ==
  key \in Wrappers =>
    /\ text # NoRow => Fillable(text)
    /\ at >= 11 => text # NoRow
    /\ at >= 20 => Directed(text)

LEMMA ReplaceKeepsUse ==
  ASSUME NEW t, Fillable(t), NEW old, old \notin Holes \cup DirectionHole,
         NEW new \in SUBSET Wording
  PROVE  KeepsUse(t, Replace(t, old, new))
<1>1. t # NoRow
  BY UpgradesAssumption DEF Fillable
<1>2. CASE old \notin t.has
  BY <1>1, <1>2 DEF Replace, KeepsUse
<1>3. CASE old \in t.has
  <2>1. Replace(t, old, new) = [t EXCEPT !.has = (t.has \ {old}) \cup new]
    BY <1>1, <1>3 DEF Replace
  <2>2. /\ Replace(t, old, new) \in TextRow
        /\ Replace(t, old, new).has = (t.has \ {old}) \cup new
    BY <2>1 DEF Fillable, TextRow
  <2>3. QED
    BY <2>2 DEF KeepsUse, Fillable, Directed
<1>4. QED
  BY <1>2, <1>3

LEMMA DocumentFillable ==
  ASSUME NEW w \in Wrappers \cup {"edited"}, NEW n \in Nat,
         NEW more \in SUBSET (DirectionHole \cup Wording)
  PROVE  Fillable(Document(<<w, n>>, Holes \cup more))
  BY DEF Fillable, TextRow, Document

\* The documents that revisions insert are usable.
LEMMA CarriedFillable ==
  /\ \A k \in Wrappers : /\ Fillable(Wrapper11[k]) /\ Fillable(Wrapper12[k])
                         /\ Fillable(Before19[k]) /\ Fillable(Wrapper19[k])
  /\ Fillable(Wrapper16) /\ Fillable(ManagedDefault) /\ Fillable(RebuiltDefault)
  /\ Directed(ManagedDefault) /\ Directed(RebuiltDefault)
<1>1. ASSUME NEW k \in Wrappers
      PROVE  /\ Fillable(Wrapper11[k]) /\ Fillable(Wrapper12[k])
             /\ Fillable(Before19[k]) /\ Fillable(Wrapper19[k])
  <2>1. Fillable(Wrapper11[k]) /\ Fillable(Wrapper12[k])
    BY DocumentFillable DEF Wrapper11, Wrapper12, Wording
  <2>2. Fillable(Before19[k])
    <3>1. CASE k = "managed"
      BY <3>1, DocumentFillable DEF Before19, Wording
    <3>2. CASE k # "managed"
      BY <3>2, DocumentFillable DEF Before19, Wording
    <3>3. QED
      BY <3>1, <3>2
  <2>3. Fillable(Wrapper19[k])
    <3> DEFINE more == {"anchor", "matched broken", "mirror"}
                         \cup (IF k = "managed" THEN {"costs"} ELSE {})
    <3>1. more \in SUBSET Wording
      BY DEF Wording
    <3>2. Wrapper19[k] = Document(<<k, 19>>, Holes \cup more)
      BY DEF Wrapper19
    <3> HIDE DEF more
    <3>3. QED
      BY <3>1, <3>2, DocumentFillable
  <2>4. QED
    BY <2>1, <2>2, <2>3
<1>2. Fillable(Wrapper16) /\ Fillable(ManagedDefault) /\ Fillable(RebuiltDefault)
  BY DEF Fillable, TextRow, Document, Wrapper16, ManagedDefault, RebuiltDefault, Selection,
         Wrappers, DirectionHole, Wording
<1>3. Directed(ManagedDefault) /\ Directed(RebuiltDefault)
  BY DEF Directed, ManagedDefault, RebuiltDefault, Selection, DirectionHole, Document
<1>4. QED
  BY <1>1, <1>2, <1>3

\* What a revision makes of a usable wrapper is usable, and where it does not take
\* the direction's place away, it leaves one.
LEMMA RevisionsKeepUse ==
  ASSUME NEW t, Fillable(t)
  PROVE  /\ KeepsUse(t, Replace(t, "outperform", {"matched"}))
         /\ KeepsUse(t, Replace(t, "matched", {"outperform"}))
         /\ KeepsUse(t, Replace(t, "costs", {}))
         /\ KeepsUse(t, AllocateReference(t))
         /\ KeepsUse(t, AddDirectionBlock(t)) /\ Directed(AddDirectionBlock(t))
         /\ Fillable(RemoveDirectionBlock(t))
<1> USE DEF Holes, DirectionHole, Wording
<1>1. KeepsUse(t, Replace(t, "outperform", {"matched"}))
  BY ReplaceKeepsUse
<1>2. KeepsUse(t, Replace(t, "matched", {"outperform"}))
  BY ReplaceKeepsUse
<1>3. KeepsUse(t, Replace(t, "costs", {}))
  BY ReplaceKeepsUse
<1>4. KeepsUse(t, AllocateReference(t))
  <2> DEFINE u == Replace(t, "whole", {"by policy"})
             v == Replace(u, "nothing else", {"no placeholders"})
  <2>1. KeepsUse(t, u)
    BY ReplaceKeepsUse
  <2> HIDE DEF u
  <2>2. KeepsUse(u, v)
    BY <2>1, ReplaceKeepsUse DEF KeepsUse
  <2> HIDE DEF v
  <2>3. KeepsUse(v, Replace(v, "mirror", {"supplied"}))
    BY <2>2, ReplaceKeepsUse DEF KeepsUse
  <2>4. AllocateReference(t) = Replace(v, "mirror", {"supplied"})
    BY DEF AllocateReference, u, v
  <2>5. QED
    BY <2>1, <2>2, <2>3, <2>4 DEF KeepsUse
<1>5. /\ AddDirectionBlock(t) \in TextRow /\ t.has \subseteq AddDirectionBlock(t).has
      /\ Directed(AddDirectionBlock(t))
  BY DEF AddDirectionBlock, Directed, Fillable, TextRow
<1>6. Fillable(RemoveDirectionBlock(t))
  BY DEF RemoveDirectionBlock, Fillable, TextRow
<1>7. QED
  BY <1>1, <1>2, <1>3, <1>4, <1>5, <1>6 DEF KeepsUse, Fillable, Directed

LEMMA ConciseKeepsUse ==
  ASSUME NEW t, Fillable(t), key \in Wrappers
  PROVE  KeepsUse(t, Concise(t))
<1> DEFINE plain == Replace(t, "supplied", {})
<1>1. KeepsUse(t, plain)
  BY ReplaceKeepsUse DEF Holes, DirectionHole, Wording
<1>2. Concise(t) = IF key = "managed" /\ "policy" \in plain.has
                   THEN [plain EXCEPT !.has = @ \cup {"decision"}] ELSE plain
  BY DEF Concise, Wrappers, Directions
<1> HIDE DEF plain
<1>3. [plain EXCEPT !.has = @ \cup {"decision"}] \in TextRow
  BY <1>1 DEF KeepsUse, Fillable, TextRow, Wording
<1>4. QED
  BY <1>1, <1>2, <1>3 DEF KeepsUse, Fillable, Directed, TextRow

LEMMA WrapperStep == WrapperInv /\ [UpgradesNext]_upgradeVars => WrapperInv'
<1> SUFFICES ASSUME WrapperInv, [UpgradesNext]_upgradeVars, key' \in Wrappers
             PROVE  /\ text' # NoRow => Fillable(text')
                    /\ at' >= 11 => text' # NoRow
                    /\ at' >= 20 => Directed(text')
  BY DEF WrapperInv
<1>0. \A t : Fillable(t) => t # NoRow
  BY UpgradesAssumption DEF Fillable
<1>1. CASE UNCHANGED upgradeVars
  BY <1>1 DEF upgradeVars, WrapperInv
<1>2. CASE Upgrade11 \/ Downgrade11
  BY <1>2, <1>0, CarriedFillable DEF Upgrade11, Downgrade11, Move, WrapperInv
<1>3. CASE Upgrade12 \/ Downgrade12
  BY <1>3, <1>0, CarriedFillable DEF Upgrade12, Downgrade12, ReplaceDefault, Move, WrapperInv
<1>4. CASE Upgrade16 \/ Downgrade16
  BY <1>4, <1>0, CarriedFillable DEF Upgrade16, Downgrade16, Move, WrapperInv
<1>5. CASE Upgrade17 \/ Downgrade17
  BY <1>5, <1>0, RevisionsKeepUse DEF Upgrade17, Downgrade17, Move, WrapperInv, KeepsUse
<1>6. CASE Upgrade19 \/ Downgrade19
  BY <1>6, <1>0, CarriedFillable DEF Upgrade19, Downgrade19, ReplaceWrapper, Move, WrapperInv
<1>7. CASE Upgrade20 \/ Downgrade20
  <2>1. CASE Upgrade20
    <3>1. Fillable(text) /\ at' = 20
      BY <2>1, <1>0 DEF Upgrade20, Move, WrapperInv
    <3>2. text' = AddDirectionBlock(text)
      BY <2>1 DEF Upgrade20, Wrappers, Directions
    <3>3. QED
      BY <1>0, <3>1, <3>2, RevisionsKeepUse DEF KeepsUse
  <2>2. CASE Downgrade20
    <3>1. Fillable(text) /\ at' = 19
      BY <2>2, <1>0 DEF Downgrade20, Move, WrapperInv
    <3>2. text' = RemoveDirectionBlock(text)
      BY <2>2 DEF Downgrade20, Wrappers, Directions
    <3>3. QED
      BY <1>0, <3>1, <3>2, RevisionsKeepUse
  <2>3. QED
    BY <1>7, <2>1, <2>2
<1>8. CASE Upgrade27 \/ Upgrade28
  BY <1>8, <1>0, RevisionsKeepUse DEF Upgrade27, Upgrade28, Move, WrapperInv, KeepsUse
<1>9. CASE Upgrade29
  BY <1>9, <1>0, ConciseKeepsUse DEF Upgrade29, Move, WrapperInv, KeepsUse
<1>10. CASE Upgrade30 \/ Downgrade28 \/ Downgrade30 \/ SeedSettings
  BY <1>10, <1>0, CarriedFillable DEF Upgrade30, Downgrade28, Downgrade30, SeedSettings, Default,
     Wrappers, Move, WrapperInv
<1>11. CASE Edit
  <2>1. PICK s \in SUBSET Phrases :
          /\ text' = Document(<<"edited", 0>>, s \cup (IF key \in Wrappers THEN Holes ELSE {}))
          /\ Accepts(text')
    BY <1>11 DEF Edit
  <2>2. key \in Wrappers /\ at' = at
    BY <1>11 DEF Edit
  <2>3. s \in SUBSET (DirectionHole \cup Wording)
    BY <2>2 DEF Phrases, Wording
  <2>4. Fillable(text')
    BY <2>1, <2>2, <2>3 DEF Fillable, TextRow, Document
  <2>5. QED
    BY <1>0, <2>1, <2>2, <2>4 DEF Accepts, Directed
<1>12. QED
  BY <1>1, <1>2, <1>3, <1>4, <1>5, <1>6, <1>7, <1>8, <1>9, <1>10, <1>11 DEF UpgradesNext

\* However a database went up and down its revisions, and whatever was edited in
\* between, every wrapper holds the values that the application fills in, and from
\* revision 20 a place for the direction (the revisions of alembic).
THEOREM WrappersUsable == UpgradesSpec => []WrappersStayUsable
<1>1. UpgradesInit => WrapperInv
  BY DEF UpgradesInit, WrapperInv
<1>2. WrapperInv => WrappersStayUsable
  BY DEF WrapperInv, WrappersStayUsable, Fillable, Directed
<1>3. QED
  BY <1>1, <1>2, WrapperStep, PTL DEF UpgradesSpec

-----------------------------------------------------------------------------
(* Settings.  A call knows the rows it has locked as they stand, for nobody   *)
(* else writes them; when it has them all, what it writes is what stands.     *)

SettingKey == {"max", "min", "prompt"}
Limit == {p[1] : p \in Policies} \cup {p[2] : p \in Policies}
Stand == [min: Limit, max: Limit, prompt: Texts]
CallRow ==
  {Resting}
    \cup [op: {"save"}, values: Stand, seen: Stand, row: 1..4]
    \cup [op: {"restore"}, values: {Nothing}, seen: Stand, row: {3, 4}]
    \cup [op: {"read"}, values: {Nothing}, seen: [min: Limit], row: {0}]

\* Client c has locked row k, and has read it as it is.
Has(c, k) == holder[k] = c /\ call[c].seen[k] = setting[k]

LockedInOrder(c) ==
  /\ call[c].op = "save" /\ call[c].row > 1 => Has(c, "max")
  /\ call[c].op = "save" /\ call[c].row > 2 => Has(c, "min")
  /\ call[c].op \in {"save", "restore"} /\ call[c].row > 3 => Has(c, "prompt")

SettingsInv ==
  /\ setting \in Stand /\ LastSaveStands
  /\ revisions \in Seq([text: Texts, from: Nat])
  /\ holder \in [SettingKey -> Client \cup {Nothing}]
  /\ call \in [Client -> CallRow]
  /\ \A c \in Client : LockedInOrder(c)

LEMMA KeyFacts ==
  /\ Range(Keys) = SettingKey /\ Len(Keys) = 3
  /\ Keys[1] = "max" /\ Keys[2] = "min" /\ Keys[3] = "prompt"
  BY DEF Range, Keys, SettingKey

\* A call is of the kind that its op says.
LEMMA CallKinds ==
  ASSUME NEW x \in CallRow
  PROVE  /\ x.op = "save" => x \in [op: {"save"}, values: Stand, seen: Stand, row: 1..4]
         /\ x.op = "restore" =>
              x \in [op: {"restore"}, values: {Nothing}, seen: Stand, row: {3, 4}]
         /\ x.op = "read" =>
              x \in [op: {"read"}, values: {Nothing}, seen: [min: Limit], row: {0}]
  BY SettingsAssumption DEF CallRow, Resting

\* A call that locks nothing and writes nothing.
LEMMA QuietStep ==
  ASSUME SettingsInv, NEW c \in Client, NEW x \in CallRow,
         call' = [call EXCEPT ![c] = x], UNCHANGED <<setting, revisions, holder, saved>>,
         x.op = "save" => x.row = 1, x.op = "restore" => x.row = 3
  PROVE  SettingsInv'
<1>1. call' \in [Client -> CallRow]
  BY DEF SettingsInv
<1>2. ASSUME NEW d \in Client PROVE LockedInOrder(d)'
  <2>1. CASE d = c
    BY <2>1 DEF SettingsInv, LockedInOrder
  <2>2. CASE d # c
    BY <2>2 DEF SettingsInv, LockedInOrder, Has
  <2>3. QED
    BY <2>1, <2>2
<1>3. QED
  BY <1>1, <1>2 DEF SettingsInv, LastSaveStands

\* A call that has locked one more row is still of its kind.
LEMMA OneRowMore ==
  ASSUME NEW op, NEW V, NEW R, NEW x \in [op: {op}, values: V, seen: Stand, row: R],
         NEW row \in R, NEW seen \in Stand
  PROVE  LET y == [x EXCEPT !.row = row, !.seen = seen]
         IN /\ y \in [op: {op}, values: V, seen: Stand, row: R]
            /\ y.op = x.op /\ y.row = row /\ y.seen = seen
  OBVIOUS

LEMMA LockStep ==
  ASSUME SettingsInv, NEW c \in Client, LockRow(c)
  PROVE  SettingsInv'
<1> DEFINE k == Keys[call[c].row]
           seen == [call[c].seen EXCEPT ![k] = setting[k]]
           x == [call[c] EXCEPT !.row = call[c].row + 1, !.seen = seen]
<1>1. /\ call[c] \in CallRow /\ call[c].op \in {"save", "restore"} /\ call[c].row \in 1..3
      /\ k \in SettingKey
  BY KeyFacts, CallKinds DEF SettingsInv, LockRow, SettingKey
<1>2. /\ holder[k] = Nothing /\ holder' = [holder EXCEPT ![k] = c]
      /\ call' = [call EXCEPT ![c] = x] /\ UNCHANGED <<setting, revisions, saved>>
  BY DEF LockRow, SettingsInv
<1>3. seen \in Stand
  BY <1>1, CallKinds DEF SettingsInv, Stand, SettingKey
<1>4. /\ x \in CallRow /\ x.op = call[c].op /\ x.row = call[c].row + 1
      /\ x.seen = seen
  <2> HIDE DEF k, seen
  <2>1. CASE call[c].op = "save"
    <3>1. call[c] \in [op: {"save"}, values: Stand, seen: Stand, row: 1..4]
      BY <1>1, <2>1, CallKinds
    <3>2. call[c].row + 1 \in 1..4
      BY <1>1
    <3>3. /\ x \in [op: {"save"}, values: Stand, seen: Stand, row: 1..4]
          /\ x.op = call[c].op /\ x.row = call[c].row + 1 /\ x.seen = seen
      BY <1>3, <3>1, <3>2, OneRowMore
    <3>4. QED
      BY <3>3 DEF CallRow
  <2>2. CASE call[c].op = "restore"
    <3>1. call[c] \in [op: {"restore"}, values: {Nothing}, seen: Stand, row: {3, 4}]
      BY <1>1, <2>2, CallKinds
    <3>2. call[c].row + 1 \in {3, 4}
      BY <1>1, <3>1
    <3>3. /\ x \in [op: {"restore"}, values: {Nothing}, seen: Stand, row: {3, 4}]
          /\ x.op = call[c].op /\ x.row = call[c].row + 1 /\ x.seen = seen
      BY <1>3, <3>1, <3>2, OneRowMore
    <3>4. QED
      BY <3>3 DEF CallRow
  <2>3. QED
    BY <1>1, <2>1, <2>2
<1>5. call' \in [Client -> CallRow] /\ holder' \in [SettingKey -> Client \cup {Nothing}]
  BY <1>1, <1>2, <1>4 DEF SettingsInv
<1>6. ASSUME NEW d \in Client PROVE LockedInOrder(d)'
  <2>1. CASE d = c
    <3>1. call'[c] = x
      BY <1>2 DEF SettingsInv
    <3>2. ASSUME NEW j \in SettingKey, j = k \/ Has(c, j) PROVE Has(c, j)'
      BY <1>1, <1>2, <1>4, <3>1, <3>2, CallKinds DEF Has, SettingsInv, Stand, SettingKey
    <3>3. QED
      BY <1>1, <1>4, <2>1, <3>1, <3>2, KeyFacts, CallKinds
         DEF LockedInOrder, SettingsInv, SettingKey
  <2>2. CASE d # c
    BY <1>1, <1>2, <2>2, SettingsAssumption DEF SettingsInv, LockedInOrder, Has, SettingKey
  <2>3. QED
    BY <2>1, <2>2
<1>7. QED
  BY <1>2, <1>5, <1>6 DEF SettingsInv, LastSaveStands

\* A call that has all its rows commits w as the settings, which differs from what
\* stands only in its rows.
LEMMA CommitStep ==
  ASSUME SettingsInv, NEW c \in Client, call[c].op \in {"save", "restore"}, call[c].row > 3,
         NEW w \in Stand, setting' = w, saved' = w,
         call[c].op = "restore" => w.max = setting.max /\ w.min = setting.min,
         revisions' \in Seq([text: Texts, from: Nat]), Last(revisions').text = w.prompt,
         Release(c), EndCall(c)
  PROVE  SettingsInv'
<1>1. call' = [call EXCEPT ![c] = Resting] /\ call' \in [Client -> CallRow]
  BY DEF EndCall, SettingsInv, CallRow
<1>2. /\ holder' \in [SettingKey -> Client \cup {Nothing}]
      /\ \A k \in SettingKey : holder[k] # c => holder'[k] = holder[k]
  BY KeyFacts DEF Release, SettingsInv
<1>3. ASSUME NEW d \in Client PROVE LockedInOrder(d)'
  <2>1. CASE d = c
    BY <1>1, <2>1, SettingsAssumption DEF LockedInOrder, SettingsInv, Resting
  <2>2. CASE d # c
    <3>1. call'[d] = call[d]
      BY <1>1, <2>2 DEF SettingsInv
    <3>2. ASSUME NEW k \in SettingKey, Has(d, k) PROVE Has(d, k)'
      <4>1. holder[k] = d /\ holder'[k] = d
        BY <1>2, <2>2, <3>2 DEF Has
      <4>2. call[c].op = "restore" /\ k # "prompt"
        <5>1. LockedInOrder(c) /\ call[c].row \in Nat
          BY CallKinds DEF SettingsInv
        <5>2. QED
          BY <2>2, <4>1, <5>1 DEF LockedInOrder, Has, SettingKey
      <4>3. setting'[k] = setting[k]
        BY <4>2 DEF SettingKey
      <4>4. QED
        BY <3>1, <3>2, <4>1, <4>3 DEF Has
    <3>3. LockedInOrder(d)
      BY DEF SettingsInv
    <3>4. QED
      BY <3>1, <3>2, <3>3 DEF LockedInOrder, SettingKey
  <2>3. QED
    BY <2>1, <2>2
<1>4. QED
  BY <1>1, <1>2, <1>3 DEF SettingsInv, LastSaveStands

LEMMA UpdateStep ==
  ASSUME SettingsInv, NEW c \in Client, CommitUpdate(c)
  PROVE  SettingsInv'
<1> DEFINE w == call[c].values
<1>1. call[c].op = "save" /\ call[c].row > 3
  BY KeyFacts DEF CommitUpdate
<1>2. w \in Stand /\ call[c].seen \in Stand
  BY <1>1, CallKinds DEF SettingsInv
<1>3. \A k \in SettingKey : call[c].seen[k] = setting[k]
  BY <1>1, <1>2, CallKinds DEF SettingsInv, LockedInOrder, Has, SettingKey
<1>4. /\ WritePrompt(call[c].seen.prompt, w.prompt, 0)
      /\ setting' = [k \in SettingKey |->
                       IF w[k] = call[c].seen[k] THEN setting[k] ELSE w[k]]
      /\ saved' = w /\ Release(c) /\ EndCall(c)
  BY KeyFacts DEF CommitUpdate
<1> HIDE DEF w
<1>5. setting' = w
  BY <1>2, <1>3, <1>4 DEF Stand, SettingKey, SettingsInv
<1>6. /\ revisions' \in Seq([text: Texts, from: Nat])
      /\ Last(revisions').text = w.prompt
  <2>1. w.prompt \in Texts /\ revisions \in Seq([text: Texts, from: Nat])
    BY <1>2 DEF Stand, SettingsInv
  <2>2. CASE w.prompt = call[c].seen.prompt
    BY <1>3, <1>4, <2>1, <2>2 DEF WritePrompt, SettingsInv, LastSaveStands, SettingKey
  <2>3. CASE w.prompt # call[c].seen.prompt
    <3> DEFINE new == [text |-> w.prompt, from |-> 0]
    <3>1. revisions' = Append(revisions, new)
      BY <1>4, <2>3 DEF WritePrompt
    <3>2. new \in [text: Texts, from: Nat] /\ new.text = w.prompt
      BY <2>1
    <3> HIDE DEF new
    <3>3. QED
      BY <2>1, <3>1, <3>2 DEF Last
  <2>4. QED
    BY <2>2, <2>3
<1>7. QED
  BY <1>1, <1>2, <1>4, <1>5, <1>6, CommitStep

LEMMA ElementOfSequence ==
  ASSUME NEW S, NEW s \in Seq(S), NEW i \in 1..Len(s)
  PROVE  s[i] \in S
  OBVIOUS

LEMMA RestoreStep ==
  ASSUME SettingsInv, NEW c \in Client, CommitRestore(c)
  PROVE  SettingsInv'
<1>1. /\ call[c].op = "restore" /\ call[c].row > 3
      /\ Release(c) /\ EndCall(c)
  BY KeyFacts DEF CommitRestore
<1>2. PICK version \in DOMAIN revisions :
        /\ WritePrompt(call[c].seen.prompt, revisions[version].text, version)
        /\ setting' = [setting EXCEPT !.prompt =
             IF revisions[version].text = call[c].seen.prompt THEN @
             ELSE revisions[version].text]
        /\ saved' = [saved EXCEPT !.prompt = revisions[version].text]
  BY DEF CommitRestore
<1> DEFINE text1 == revisions[version].text
           w == [setting EXCEPT !.prompt = text1]
<1>3. /\ revisions \in Seq([text: Texts, from: Nat]) /\ version \in Nat \ {0}
      /\ text1 \in Texts
  <2>1. revisions \in Seq([text: Texts, from: Nat])
    BY DEF SettingsInv
  <2>2. version \in 1..Len(revisions) /\ Len(revisions) \in Nat
    BY <2>1
  <2>3. revisions[version] \in [text: Texts, from: Nat]
    BY <2>1, <2>2, ElementOfSequence
  <2>4. QED
    BY <2>1, <2>2, <2>3
<1>4. call[c].seen.prompt = setting.prompt /\ setting = saved /\ setting \in Stand
  BY <1>1 DEF SettingsInv, LockedInOrder, Has, LastSaveStands
<1>5. setting' = w /\ saved' = w
  BY <1>2, <1>4 DEF Stand
<1>6. w \in Stand /\ w.prompt = text1 /\ w.max = setting.max /\ w.min = setting.min
  BY <1>3, <1>4 DEF Stand
<1>7. /\ revisions' \in Seq([text: Texts, from: Nat])
      /\ Last(revisions').text = text1
  <2> DEFINE new == [text |-> text1, from |-> version]
  <2>1. revisions' = Append(revisions, new)
    BY <1>2, <1>3 DEF WritePrompt
  <2>2. new \in [text: Texts, from: Nat] /\ new.text = text1
    BY <1>3
  <2> HIDE DEF new, text1
  <2>3. QED
    BY <1>3, <2>1, <2>2 DEF Last
<1> HIDE DEF w, text1
<1>8. QED
  BY <1>1, <1>5, <1>6, <1>7, CommitStep

LEMMA AbortStep ==
  ASSUME SettingsInv, NEW c \in Client, Abort(c)
  PROVE  SettingsInv'
<1>1. /\ call[c].op = "restore" /\ call[c].row > 3 /\ setting \in Stand
      /\ setting' = setting /\ saved' = setting /\ revisions' = revisions
      /\ Last(revisions).text = setting.prompt
      /\ revisions \in Seq([text: Texts, from: Nat]) /\ Release(c) /\ EndCall(c)
  BY KeyFacts DEF Abort, SettingsInv, LastSaveStands
<1>2. QED
  BY <1>1, CommitStep

LEMMA SettingsStep == SettingsInv /\ [SettingsNext]_settingVars => SettingsInv'
<1> SUFFICES ASSUME SettingsInv, [SettingsNext]_settingVars PROVE SettingsInv'
  OBVIOUS
<1>1. CASE UNCHANGED settingVars
  BY <1>1 DEF settingVars, SettingsInv, LastSaveStands, LockedInOrder, Has
<1>2. ASSUME NEW c \in Client, SaveSettings(c) PROVE SettingsInv'
  <2>1. PICK p \in Policies, t \in Texts : UpdateSettings(c, p, t)
    BY <1>2 DEF SaveSettings
  <2> DEFINE x == [op |-> "save", values |-> [min |-> p[1], max |-> p[2], prompt |-> t],
                   seen |-> setting, row |-> 1]
  <2>2. x \in CallRow /\ x.op = "save" /\ x.row = 1
    BY DEF CallRow, Stand, Limit, SettingsInv
  <2>3. call' = [call EXCEPT ![c] = x] /\ UNCHANGED <<setting, revisions, holder, saved>>
    BY <2>1 DEF UpdateSettings
  <2> HIDE DEF x
  <2>4. QED
    BY <1>2, <2>2, <2>3, QuietStep
<1>3. ASSUME NEW c \in Client, RestoreVersion(c) PROVE SettingsInv'
  <2> DEFINE x == [Resting EXCEPT !.op = "restore", !.seen = setting, !.row = 3]
  <2>1. x \in CallRow /\ x.op = "restore" /\ x.row = 3
    BY DEF CallRow, Resting, SettingsInv
  <2>2. call' = [call EXCEPT ![c] = x] /\ UNCHANGED <<setting, revisions, holder, saved>>
    BY <1>3 DEF RestoreVersion
  <2> HIDE DEF x
  <2>3. QED
    BY <1>3, <2>1, <2>2, QuietStep
<1>4. ASSUME NEW c \in Client, ReadMinimum(c) PROVE SettingsInv'
  <2> DEFINE x == [Resting EXCEPT !.op = "read", !.seen = [min |-> setting.min]]
  <2>1. x \in CallRow /\ x.op = "read"
    BY DEF CallRow, Resting, SettingsInv, Stand
  <2>2. call' = [call EXCEPT ![c] = x] /\ UNCHANGED <<setting, revisions, holder, saved>>
    BY <1>4 DEF ReadMinimum
  <2> HIDE DEF x
  <2>3. QED
    BY <1>4, <2>1, <2>2, QuietStep
<1>5. ASSUME NEW c \in Client, ReadMaximum(c) PROVE SettingsInv'
  <2>1. /\ Resting \in CallRow /\ Resting.op \notin {"save", "restore"}
        /\ call' = [call EXCEPT ![c] = Resting]
        /\ UNCHANGED <<setting, revisions, holder, saved>>
    BY <1>5, SettingsAssumption DEF ReadMaximum, EndCall, CallRow, Resting
  <2>2. QED
    BY <1>5, <2>1, QuietStep
<1>6. QED
  BY <1>1, <1>2, <1>3, <1>4, <1>5, LockStep, UpdateStep, RestoreStep, AbortStep
     DEF SettingsNext, Work

\* However saves and restorations overlap, the settings are the whole of the one that
\* committed last, and the newest revision of the prompt is the text in use
\* (update_settings and restore_setting_prompt_version in admin_ops.py: each row is read again
\* once it is locked, and only what differs is written).
THEOREM LastSaveIsWhole == SettingsSpec => []LastSaveStands
<1>1. SettingsInit => SettingsInv
  <2> SUFFICES ASSUME SettingsInit PROVE SettingsInv
    OBVIOUS
  <2>1. PICK p \in Policies, t \in Texts :
          /\ setting = [min |-> p[1], max |-> p[2], prompt |-> t]
          /\ revisions = <<[text |-> t, from |-> 0]>>
    BY DEF SettingsInit
  <2>2. setting \in Stand
    BY <2>1 DEF Stand, Limit
  <2>3. revisions \in Seq([text: Texts, from: Nat]) /\ Last(revisions).text = setting.prompt
    BY <2>1 DEF Last
  <2>4. /\ holder \in [SettingKey -> Client \cup {Nothing}] /\ call \in [Client -> CallRow]
        /\ \A c \in Client : LockedInOrder(c)
    BY KeyFacts, SettingsAssumption DEF SettingsInit, CallRow, Resting, LockedInOrder
  <2>5. QED
    BY <2>2, <2>3, <2>4 DEF SettingsInv, LastSaveStands, SettingsInit
<1>2. SettingsInv => LastSaveStands
  BY DEF SettingsInv
<1>3. QED
  BY <1>1, <1>2, SettingsStep, PTL DEF SettingsSpec

-----------------------------------------------------------------------------
(* The browser.  The invariant of a tab between two callbacks is that of a    *)
(* tab within one (Sound) and that there is no garbage (Clean).               *)

QueryRequest ==
  [query: Query, live: BOOLEAN, seen: Nat \cup {Absent}, for: SUBSET {"page", "prefetch"}]
TabRow ==
  [entries: Seq(Query), queries: [Query -> QueryRow \cup {Absent}], requests: SUBSET QueryRequest,
   page: Query \cup {Absent}, queued: SUBSET Url, timer: BOOLEAN,
   loop: {"idle", "ready", "waiting"}]

OneEntryPerUrl(entries) ==
  \A i, j \in DOMAIN entries : entries[i][1] = entries[j][1] => i = j

\* Versions from which on what a tab keeps, and what it only shows, is.
Since(t, q, b) == IF q \in Range(t.entries) THEN b.kept ELSE b.shown

\* A query in use exists, and what it has or is about to get is not from before bounds b.
Fresh(t, b) ==
  /\ \A q \in Reachable(t) :
       /\ t.queries[q] # Absent
       /\ t.queries[q].data # Absent => t.queries[q].data >= Since(t, q, b)
  /\ \A r \in t.requests :
       /\ t.queries[r.query] # Absent
       /\ r.live /\ r.query \in Reachable(t) /\ r.seen # Absent => r.seen >= Since(t, r.query, b)

\* A query has one live request at most, and the prefetch queue awaits one at most.
Shared(t) ==
  /\ \A r \in t.requests : r.live => t.queries[r.query].pending
  /\ \A r, s \in t.requests : r.live /\ s.live /\ r.query = s.query => r = s
  /\ \A r \in t.requests : "prefetch" \in r.for => t.loop = "waiting"
  /\ \A r, s \in t.requests : "prefetch" \in r.for /\ "prefetch" \in s.for => r = s

Sound(t, b) == t \in TabRow /\ OneEntryPerUrl(t.entries) /\ Fresh(t, b) /\ Shared(t)

Clean(t) ==
  \A q \in Query : t.queries[q] # Absent =>
    q \in Reachable(t) \/ \E r \in t.requests : r.query = q /\ "prefetch" \in r.for

\* What a tab keeps is from the last answer to a save on; what it shows and no longer
\* keeps from the last answer that emptied it.
Answers == [kept |-> acknowledged, shown |-> emptied]

DisplayInv ==
  /\ published \in Nat /\ acknowledged \in 0..published /\ emptied \in 0..acknowledged
  /\ sending \in Nat /\ committed \subseteq 1..published
  /\ Sound(tab, Answers) /\ Clean(tab)

\* Taking a query out of the entries.
LEMMA OthersFacts ==
  ASSUME NEW s \in Seq(Query), OneEntryPerUrl(s), NEW q \in Query
  PROVE  /\ Others(s, q) \in Seq(Query) /\ OneEntryPerUrl(Others(s, q))
         /\ \A x \in Query : x \in Range(Others(s, q)) <=> x \in Range(s) /\ x # q
<1>1. CASE q \notin Range(s)
  BY <1>1 DEF Others, Range
<1>2. CASE q \in Range(s)
  <2> DEFINE i == CHOOSE i \in DOMAIN s : s[i] = q
             u == RemoveAt(s, i)
  <2>1. i \in 1..Len(s) /\ s[i] = q
    BY <1>2 DEF Range
  <2> HIDE DEF i
  <2>2. u = SubSeq(s, 1, i - 1) \o SubSeq(s, i + 1, Len(s))
    BY DEF RemoveAt
  <2>3. /\ u \in Seq(Query) /\ Len(u) = Len(s) - 1
        /\ \A j \in 1..Len(u) : u[j] = IF j < i THEN s[j] ELSE s[j + 1]
    <3> DEFINE a == SubSeq(s, 1, i - 1)
               b == SubSeq(s, i + 1, Len(s))
    <3>1. a \in Seq(Query) /\ Len(a) = i - 1 /\ \A j \in 1..(i - 1) : a[j] = s[j]
      BY <2>1
    <3>2. /\ b \in Seq(Query) /\ Len(b) = Len(s) - i
          /\ \A j \in 1..(Len(s) - i) : b[j] = s[j + i]
      BY <2>1
    <3> HIDE DEF a, b, u
    <3>3. u = a \o b
      BY <2>2 DEF a, b
    <3>4. u \in Seq(Query) /\ Len(u) = Len(s) - 1
      BY <2>1, <3>1, <3>2, <3>3
    <3>5. ASSUME NEW j \in 1..Len(u) PROVE u[j] = IF j < i THEN s[j] ELSE s[j + 1]
      <4>1. CASE j < i
        BY <2>1, <3>1, <3>2, <3>3, <3>4, <4>1
      <4>2. CASE ~(j < i)
        <5>1. u[j] = b[j - (i - 1)]
          BY <2>1, <3>1, <3>2, <3>3, <3>4, <4>2
        <5>2. j - (i - 1) \in 1..(Len(s) - i) /\ (j - (i - 1)) + i = j + 1
          BY <2>1, <3>4, <4>2
        <5>3. QED
          BY <3>2, <4>2, <5>1, <5>2
      <4>3. QED
        BY <4>1, <4>2
    <3>6. QED
      BY <3>4, <3>5
  <2> HIDE DEF u
  <2>4. OneEntryPerUrl(u)
    <3> SUFFICES ASSUME NEW j \in 1..Len(u), NEW k \in 1..Len(u), u[j][1] = u[k][1]
                 PROVE  j = k
      BY <2>3 DEF OneEntryPerUrl
    <3> DEFINE old(n) == IF n < i THEN n ELSE n + 1
    <3>1. /\ old(j) \in 1..Len(s) /\ old(k) \in 1..Len(s)
          /\ u[j] = s[old(j)] /\ u[k] = s[old(k)]
      BY <2>1, <2>3
    <3>2. old(j) = old(k)
      BY <3>1 DEF OneEntryPerUrl
    <3>3. QED
      BY <2>1, <2>3, <3>2
  <2>5. ASSUME NEW x \in Query PROVE x \in Range(u) <=> x \in Range(s) /\ x # q
    <3>1. ASSUME x \in Range(u) PROVE x \in Range(s) /\ x # q
      <4>1. PICK j \in 1..Len(u) : u[j] = x
        BY <3>1, <2>3 DEF Range
      <4>2. PICK k \in 1..Len(s) : s[k] = x /\ k # i
        BY <2>1, <2>3, <4>1
      <4>3. QED
        BY <2>1, <4>2 DEF OneEntryPerUrl, Range
    <3>2. ASSUME x \in Range(s), x # q PROVE x \in Range(u)
      <4>1. PICK k \in 1..Len(s) : s[k] = x
        BY <3>2 DEF Range
      <4>2. PICK j \in 1..Len(u) : u[j] = x
        <5>1. CASE k < i
          BY <2>1, <2>3, <4>1, <5>1
        <5>2. CASE k > i
          <6>1. k - 1 \in 1..Len(u) /\ ~(k - 1 < i) /\ (k - 1) + 1 = k
            BY <2>1, <2>3, <4>1, <5>2
          <6>2. QED
            BY <2>3, <4>1, <6>1
        <5>3. QED
          BY <2>1, <3>2, <4>1, <5>1, <5>2
      <4>3. QED
        BY <2>3, <4>2 DEF Range
    <3>3. QED
      BY <3>1, <3>2
  <2>6. Others(s, q) = u
    BY <1>2 DEF Others, u, i
  <2>7. QED
    BY <2>3, <2>4, <2>5, <2>6
<1>3. QED
  BY <1>1, <1>2

\* Ending the oldest entry when there are too many.
LEMMA BoundedFacts ==
  ASSUME NEW s \in Seq(Query), OneEntryPerUrl(s)
  PROVE  /\ Bounded(s) \in Seq(Query) /\ OneEntryPerUrl(Bounded(s))
         /\ \A x \in Range(Bounded(s)) : x \in Range(s)
         /\ Len(s) > 0 => s[Len(s)] \in Range(Bounded(s))
<1>1. CASE Len(s) <= MaxQueries
  <2>1. Bounded(s) = s
    BY <1>1, DisplayAssumption DEF Bounded
  <2>2. Len(s) > 0 => Len(s) \in 1..Len(s)
    OBVIOUS
  <2>3. QED
    BY <2>1, <2>2 DEF Range
<1>2. CASE Len(s) > MaxQueries
  <2> DEFINE u == Tail(s)
  <2>1. Bounded(s) = u
    BY <1>2 DEF Bounded
  <2>2. Len(s) \in Nat /\ Len(s) > 1
    BY <1>2, DisplayAssumption
  <2>3. /\ u \in Seq(Query) /\ Len(u) = Len(s) - 1
        /\ \A i \in 1..Len(u) : u[i] = s[i + 1]
    BY <2>2
  <2> HIDE DEF u
  <2>4. \A i \in 1..Len(u) : i + 1 \in 1..Len(s)
    BY <2>2, <2>3
  <2>5. OneEntryPerUrl(u)
    <3> SUFFICES ASSUME NEW i \in 1..Len(u), NEW j \in 1..Len(u), u[i][1] = u[j][1]
                 PROVE  i = j
      BY <2>3 DEF OneEntryPerUrl
    <3>1. /\ i + 1 \in 1..Len(s) /\ j + 1 \in 1..Len(s)
          /\ s[i + 1][1] = s[j + 1][1]
      BY <2>3, <2>4
    <3>2. i + 1 = j + 1
      BY <3>1 DEF OneEntryPerUrl
    <3>3. QED
      BY <2>2, <2>3, <3>2
  <2>6. \A x \in Range(u) : x \in Range(s)
    BY <2>3, <2>4 DEF Range
  <2>7. s[Len(s)] \in Range(u)
    <3>1. Len(u) \in 1..Len(u) /\ u[Len(u)] = s[Len(s)]
      BY <2>2, <2>3
    <3>2. QED
      BY <3>1, <2>3 DEF Range
  <2>8. QED
    BY <2>1, <2>3, <2>5, <2>6, <2>7
<1>3. Len(s) \in Nat /\ MaxQueries \in Nat
  BY DisplayAssumption
<1>4. QED
  BY <1>1, <1>2, <1>3

LEMMA ReachableFacts ==
  ASSUME NEW t \in TabRow
  PROVE  /\ Reachable(t) \subseteq Query
         /\ \A q \in Query : q \in Reachable(t) <=> q \in Range(t.entries) \/ q = t.page
<1>1. Range(t.entries) \subseteq Query
  BY DEF Range, TabRow
<1>2. QED
  BY <1>1, DisplayAssumption DEF Reachable, TabRow

\* The smallest of some numbers up to three is one of them.
LEMMA MinOfThree ==
  ASSUME NEW S \in SUBSET (1..3), S # {}
  PROVE  Min(S) \in S
<1>1. PICK x \in S : \A y \in S : x <= y
  <2>1. CASE 1 \in S
    BY <2>1
  <2>2. CASE 1 \notin S /\ 2 \in S
    BY <2>2
  <2>3. CASE 1 \notin S /\ 2 \notin S
    <3>1. \A y \in S : y \in 1..3 /\ y # 1 /\ y # 2
      BY <2>3
    <3>2. \A y \in S : y = 3
      BY <3>1
    <3>3. PICK x \in S : TRUE
      OBVIOUS
    <3>4. x = 3 /\ \A y \in S : x <= y
      BY <3>2, <3>3
    <3>5. QED
      BY <3>4
  <2>4. QED
    BY <2>1, <2>2, <2>3
<1>2. QED
  BY <1>1 DEF Min

\* A URL with an entry finds it.
LEMMA FindsEntry ==
  ASSUME NEW t, NEW url \in Url, NEW n \in 1..3, <<url, n>> \in Range(t.entries)
  PROVE  /\ Find(t, url) \in Range(t.entries) \cap Query
         /\ Find(t, url)[1] = url
<1> DEFINE old == {m \in 1..3 : <<url, m>> \in Range(t.entries)}
<1>1. Min(old) \in old
  BY MinOfThree
<1>2. Find(t, url) = <<url, Min(old)>>
  BY <1>1 DEF Find
<1> HIDE DEF old
<1>3. Min(old) \in 1..3 /\ <<url, Min(old)>> \in Range(t.entries)
  BY <1>1 DEF old
<1>4. QED
  BY <1>2, <1>3 DEF Query

\* Without garbage a URL that has no entry finds a query that nothing uses.
LEMMA FindsFree ==
  ASSUME NEW t, NEW a, Sound(t, a), Clean(t), NEW url \in Url,
         \A n \in 1..3 : <<url, n>> \notin Range(t.entries)
  PROVE  /\ Find(t, url) \in Query /\ Find(t, url)[1] = url
         /\ t.queries[Find(t, url)] = Absent
<1> DEFINE free == {n \in 1..3 : t.queries[<<url, n>>] = Absent}
<1>1. free # {}
  <2>1. PICK x : \A r \in t.requests : "prefetch" \in r.for => r.query = x
    BY DEF Sound, Shared
  <2>2. PICK n \in 1..3 : <<url, n>> # t.page /\ <<url, n>> # x
    <3>1. \A m, k \in 1..3 : <<url, m>> = <<url, k>> => m = k
      OBVIOUS
    <3>2. 1 \in 1..3 /\ 2 \in 1..3 /\ 3 \in 1..3
      OBVIOUS
    <3>3. QED
      BY <3>1, <3>2
  <2>3. <<url, n>> \in Query /\ <<url, n>> \notin Reachable(t)
    BY <2>2, ReachableFacts DEF Sound, Query
  <2>4. t.queries[<<url, n>>] = Absent
    BY <2>1, <2>2, <2>3 DEF Clean
  <2>5. QED
    BY <2>4
<1>2. Min(free) \in free
  BY <1>1, MinOfThree
<1>3. Find(t, url) = <<url, Min(free)>>
  BY DEF Find
<1> HIDE DEF free
<1>4. Min(free) \in 1..3 /\ t.queries[<<url, Min(free)>>] = Absent
  BY <1>2 DEF free
<1>5. QED
  BY <1>3, <1>4 DEF Query

\* What keeps the entries, the queries and the requests of a sound tab, and shows no
\* query but an entry's, is sound.
LEMMA OtherFields ==
  ASSUME NEW t, NEW a, Sound(t, a), NEW u \in TabRow,
         u.entries = t.entries, u.queries = t.queries, u.requests = t.requests,
         u.page = t.page \/ u.page = Absent \/ u.page \in Range(t.entries),
         u.loop = t.loop \/ \A r \in t.requests : "prefetch" \notin r.for
  PROVE  Sound(u, a)
<1>1. /\ \A q \in Reachable(u) : q \in Reachable(t)
      /\ \A q : Since(u, q, a) = Since(t, q, a)
  BY DEF Reachable, Since
<1>2. Fresh(u, a)
  BY <1>1 DEF Sound, Fresh
<1>3. Shared(u)
  BY DEF Sound, Shared
<1>4. QED
  BY <1>2, <1>3 DEF Sound

\* The query that Find returns is an entry's or free.
LEMMA FindFacts ==
  ASSUME NEW t, NEW a, Sound(t, a), Clean(t), NEW url \in Url
  PROVE  /\ Find(t, url) \in Query /\ Find(t, url)[1] = url
         /\ \/ Find(t, url) \in Range(t.entries)
            \/ /\ t.queries[Find(t, url)] = Absent
               /\ \A n \in 1..3 : <<url, n>> \notin Range(t.entries)
<1>1. CASE \E n \in 1..3 : <<url, n>> \in Range(t.entries)
  BY <1>1, FindsEntry
<1>2. CASE \A n \in 1..3 : <<url, n>> \notin Range(t.entries)
  BY <1>2, FindsFree
<1>3. QED
  BY <1>1, <1>2

\* A query becomes the newest of the entries.
LEMMA NewestFacts ==
  ASSUME NEW s \in Seq(Query), OneEntryPerUrl(s), NEW q \in Query,
         q \in Range(s) \/ \A n \in 1..3 : <<q[1], n>> \notin Range(s)
  PROVE  /\ Append(Others(s, q), q) \in Seq(Query)
         /\ OneEntryPerUrl(Append(Others(s, q), q))
         /\ \A x \in Query : x \in Range(Append(Others(s, q), q)) <=> x \in Range(s) \/ x = q
         /\ LET u == Append(Others(s, q), q) IN Len(u) > 0 /\ u[Len(u)] = q
<1> DEFINE o == Others(s, q)
<1>1. /\ o \in Seq(Query) /\ OneEntryPerUrl(o)
      /\ \A x \in Query : x \in Range(o) <=> x \in Range(s) /\ x # q
  BY OthersFacts
<1> HIDE DEF o
<1> DEFINE u == Append(o, q)
<1>2. /\ u \in Seq(Query) /\ Len(u) = Len(o) + 1 /\ u[Len(u)] = q
      /\ \A i \in 1..Len(o) : u[i] = o[i]
  BY <1>1
<1> HIDE DEF u
<1>3. \A i \in 1..Len(o) : o[i] \in Query /\ o[i] \in Range(s) /\ o[i] # q
  <2> TAKE i \in 1..Len(o)
  <2>1. o[i] \in Query /\ o[i] \in Range(o)
    BY <1>1 DEF Range
  <2>2. QED
    BY <2>1, <1>1
<1>4. \A i \in 1..Len(o) : o[i][1] # q[1]
  <2> SUFFICES ASSUME NEW i \in 1..Len(o), o[i][1] = q[1] PROVE FALSE
    OBVIOUS
  <2>1. PICK n \in 1..3 : o[i] = <<q[1], n>>
    <3>1. o[i] \in Url \X (1..3)
      BY <1>3 DEF Query
    <3>2. QED
      BY <3>1
  <2>2. q \in Range(s)
    BY <2>1, <1>3
  <2>3. PICK j, k \in DOMAIN s : s[j] = q /\ s[k] = o[i]
    BY <2>2, <1>3 DEF Range
  <2>4. QED
    BY <2>3, <1>3 DEF OneEntryPerUrl
<1>5. OneEntryPerUrl(u)
  <2> SUFFICES ASSUME NEW i \in 1..Len(u), NEW j \in 1..Len(u), u[i][1] = u[j][1]
               PROVE  i = j
    BY <1>2 DEF OneEntryPerUrl
  <2>1. CASE i = Len(u) \/ j = Len(u)
    <3>1. ASSUME NEW m \in 1..Len(u), NEW n \in 1..Len(u), u[m][1] = u[n][1], m = Len(u)
          PROVE  n = m
      <4>1. n \in 1..Len(o) \/ n = Len(u)
        BY <1>1, <1>2
      <4>2. ~(n \in 1..Len(o))
        BY <3>1, <1>2, <1>4
      <4>3. QED
        BY <3>1, <4>1, <4>2
    <3>2. QED
      BY <2>1, <3>1
  <2>2. CASE i # Len(u) /\ j # Len(u)
    <3>1. i \in 1..Len(o) /\ j \in 1..Len(o)
      BY <2>2, <1>1, <1>2
    <3>2. QED
      BY <3>1, <1>1, <1>2 DEF OneEntryPerUrl
  <2>3. QED
    BY <2>1, <2>2
<1>6. ASSUME NEW x \in Query PROVE x \in Range(u) <=> x \in Range(s) \/ x = q
  <2>1. ASSUME x \in Range(u) PROVE x \in Range(s) \/ x = q
    <3>1. PICK i \in 1..Len(u) : u[i] = x
      BY <2>1, <1>2 DEF Range
    <3>2. i \in 1..Len(o) \/ i = Len(u)
      BY <1>1, <1>2
    <3>3. QED
      BY <3>1, <3>2, <1>2, <1>3
  <2>2. ASSUME x \in Range(s), x # q PROVE x \in Range(u)
    <3>1. PICK i \in 1..Len(o) : o[i] = x
      BY <2>2, <1>1 DEF Range
    <3>2. i \in 1..Len(u) /\ u[i] = x
      BY <3>1, <1>1, <1>2
    <3>3. QED
      BY <3>2, <1>2 DEF Range
  <2>3. q \in Range(u)
    <3>1. Len(u) \in 1..Len(u)
      BY <1>1, <1>2
    <3>2. QED
      BY <3>1, <1>2 DEF Range
  <2>4. QED
    BY <2>1, <2>2, <2>3
<1>7. QED
  BY <1>2, <1>5, <1>6 DEF u, o

\* The bounds: what is shown may be older than what is kept.
OrderedBounds(b) == b.kept \in Nat /\ b.shown \in Nat /\ b.shown <= b.kept

\* What a tab finds or makes for a URL is the newest entry, and as fresh as the rest; if
\* that ends the oldest entry while it is shown, it is out of the saves' reach.
LEMMA GetFacts ==
  ASSUME NEW t, NEW a, OrderedBounds(a), Sound(t, a), Clean(t), NEW url \in Url
  PROVE  /\ Sound(Get(t, url), a)
         /\ Find(t, url) \in Range(Get(t, url).entries) \cap Query
         /\ Get(t, url).page = t.page /\ Get(t, url).loop = t.loop
         /\ Get(t, url).requests = t.requests
<1> DEFINE q == Find(t, url)
           e == Append(Others(t.entries, q), q)
           k == Bounded(e)
           u == Get(t, url)
<1>1. /\ q \in Query
      /\ \/ q \in Range(t.entries)
         \/ /\ t.queries[q] = Absent
            /\ \A n \in 1..3 : <<q[1], n>> \notin Range(t.entries)
  <2>1. q \in Query /\ q[1] = url
    BY FindFacts
  <2>2. \/ q \in Range(t.entries)
        \/ /\ t.queries[q] = Absent
           /\ \A n \in 1..3 : <<url, n>> \notin Range(t.entries)
    BY FindFacts
  <2> HIDE DEF q
  <2>3. QED
    BY <2>1, <2>2
<1> HIDE DEF q
<1>2. /\ e \in Seq(Query) /\ OneEntryPerUrl(e) /\ Len(e) > 0 /\ e[Len(e)] = q
      /\ \A x \in Query : x \in Range(e) <=> x \in Range(t.entries) \/ x = q
  <2>1. t.entries \in Seq(Query) /\ OneEntryPerUrl(t.entries)
    BY DEF Sound, TabRow
  <2>2. QED
    BY <2>1, <1>1, NewestFacts
<1> HIDE DEF e
<1>3. /\ k \in Seq(Query) /\ OneEntryPerUrl(k) /\ q \in Range(k)
      /\ \A x \in Range(k) : x \in Range(e)
  BY <1>2, BoundedFacts
<1>4. u = [t EXCEPT !.entries = k, !.queries[q] = IF @ = Absent THEN New ELSE @]
  BY DEF Get, q, e
<1> HIDE DEF k, u
<1>5. t \in TabRow /\ t.queries \in [Query -> QueryRow \cup {Absent}]
  BY DEF Sound, TabRow
<1>6. New \in QueryRow /\ New.data = Absent
  BY DEF New, QueryRow
<1>7. /\ u \in TabRow
      /\ u.entries = k /\ u.requests = t.requests /\ u.page = t.page /\ u.loop = t.loop
      /\ \A x \in Query : u.queries[x] = IF x = q /\ t.queries[q] = Absent THEN New ELSE t.queries[x]
  BY <1>1, <1>3, <1>4, <1>5, <1>6 DEF TabRow
<1>8. \A x \in Query : x \in Reachable(u) => x \in Reachable(t) \/ x = q
  BY <1>2, <1>3, <1>5, <1>7, ReachableFacts
<1>9. Reachable(u) \subseteq Query /\ \A r \in t.requests : r.query \in Query
  BY <1>5, <1>7, ReachableFacts DEF TabRow, QueryRequest
<1>10. q \in Reachable(t) \/ (t.queries[q] = Absent /\ \A r \in t.requests : r.query # q)
  BY <1>1, <1>5, ReachableFacts DEF Sound, Fresh
<1>11. Fresh(u, a)
  <2>1. ASSUME NEW x \in Query, x # q \/ q \in Reachable(t), NEW v \in Nat, v >= Since(t, x, a)
        PROVE  v >= Since(u, x, a)
    <3>1. CASE x \in Range(k)
      <4>1. x \in Range(t.entries)
        BY <2>1, <3>1, <1>1, <1>2, <1>3, <1>10 DEF Sound, Fresh
      <4>2. QED
        BY <2>1, <3>1, <4>1, <1>7 DEF Since
    <3>2. CASE x \notin Range(k)
      BY <2>1, <3>2, <1>7 DEF Since, OrderedBounds
    <3>3. QED
      BY <3>1, <3>2
  <2>2. ASSUME NEW x \in Reachable(u)
        PROVE  /\ u.queries[x] # Absent
               /\ u.queries[x].data # Absent => u.queries[x].data >= Since(u, x, a)
    <3>1. x \in Query
      BY <1>9
    <3>2. CASE x = q /\ t.queries[q] = Absent
      <4>1. u.queries[x] = New
        BY <3>1, <3>2, <1>7
      <4>2. New # Absent
        BY <1>6, DisplayAssumption
      <4>3. QED
        BY <4>1, <4>2, <1>6
    <3>3. CASE ~(x = q /\ t.queries[q] = Absent)
      <4>1. x \in Reachable(t) /\ u.queries[x] = t.queries[x]
        BY <3>1, <3>3, <1>1, <1>5, <1>7, <1>8, ReachableFacts
      <4>2. /\ t.queries[x] # Absent
            /\ t.queries[x].data # Absent => t.queries[x].data >= Since(t, x, a)
        BY <4>1 DEF Sound, Fresh
      <4>3. t.queries[x].data # Absent => t.queries[x].data \in Nat
        BY <3>1, <4>2, <1>5 DEF QueryRow
      <4>4. QED
        BY <2>1, <3>1, <4>1, <4>2, <4>3
    <3>4. QED
      BY <3>2, <3>3
  <2>3. ASSUME NEW r \in t.requests
        PROVE  /\ u.queries[r.query] # Absent
               /\ r.live /\ r.query \in Reachable(u) /\ r.seen # Absent => r.seen >= Since(u, r.query, a)
    <3>1. /\ t.queries[r.query] # Absent /\ r.query \in Query
          /\ r.live /\ r.query \in Reachable(t) /\ r.seen # Absent => r.seen >= Since(t, r.query, a)
      BY <1>9 DEF Sound, Fresh
    <3>2. u.queries[r.query] = t.queries[r.query] /\ (r.query # q \/ q \in Reachable(t))
      BY <3>1, <1>7, <1>10
    <3>3. r.query \in Reachable(u) => r.query \in Reachable(t)
      BY <3>1, <3>2, <1>8
    <3>4. r.seen # Absent => r.seen \in Nat
      BY <1>5 DEF TabRow, QueryRequest
    <3>5. QED
      BY <2>1, <3>1, <3>2, <3>3, <3>4
  <2>4. QED
    BY <2>2, <2>3, <1>7 DEF Fresh
<1>12. Shared(u)
  BY <1>7, <1>9, <1>10 DEF Sound, Shared, Fresh
<1>13. Sound(u, a)
  BY <1>3, <1>7, <1>11, <1>12 DEF Sound
<1>14. QED
  BY <1>1, <1>3, <1>7, <1>13 DEF u, q

\* The page shows the query of its URL, which is an entry's.
LEMMA ShowFacts ==
  ASSUME NEW t, NEW a, OrderedBounds(a), Sound(t, a), Clean(t), NEW url \in Url
  PROVE  /\ Sound(Show(t, url), a)
         /\ Show(t, url).page \in Range(Show(t, url).entries) \cap Query
<1> DEFINE g == Get(t, url)
           q == Find(t, url)
           u == Show(t, url)
<1>1. Sound(g, a) /\ q \in Range(g.entries) \cap Query
  BY GetFacts
<1>2. u = [g EXCEPT !.page = q]
  BY DEF Show
<1> HIDE DEF g, q, u
<1>3. /\ u \in TabRow /\ u.entries = g.entries /\ u.queries = g.queries
      /\ u.requests = g.requests /\ u.page = q /\ u.loop = g.loop
  BY <1>1, <1>2 DEF Sound, TabRow
<1>4. Sound(u, a)
  BY <1>1, <1>3, OtherFields
<1>5. QED
  BY <1>1, <1>3, <1>4 DEF u

LEMMA CancelFacts ==
  ASSUME NEW t, NEW a, Sound(t, a)
  PROVE  /\ Sound(Cancel(t), a)
         /\ Cancel(t).page = t.page /\ Cancel(t).entries = t.entries
<1>1. /\ Cancel(t) \in TabRow /\ Cancel(t).entries = t.entries /\ Cancel(t).queries = t.queries
      /\ Cancel(t).requests = t.requests /\ Cancel(t).page = t.page /\ Cancel(t).loop = t.loop
  BY DEF Cancel, Sound, TabRow
<1>2. QED
  BY <1>1, OtherFields

LEMMA ResumeFacts ==
  ASSUME NEW t, NEW a, Sound(t, a), NEW q \in Query, NEW who \in {"page", "prefetch"},
         who = "prefetch" => \A r \in t.requests : "prefetch" \notin r.for
  PROVE  /\ Sound(Resume(t, q, who), a)
         /\ Resume(t, q, who).page = t.page /\ Resume(t, q, who).entries = t.entries
         /\ Resume(t, q, who).requests = t.requests
<1> DEFINE u == Resume(t, q, who)
<1>1. t \in TabRow
  BY DEF Sound
<1>2. /\ u \in TabRow /\ u.entries = t.entries /\ u.queries = t.queries
      /\ u.requests = t.requests /\ u.page = t.page
      /\ u.loop = t.loop \/ who = "prefetch"
  <2>1. CASE who = "prefetch"
    <3>1. u = [t EXCEPT !.loop = "ready"]
      BY <2>1 DEF Resume
    <3>2. QED
      BY <3>1, <2>1, <1>1 DEF TabRow
  <2>2. CASE who = "page"
    <3>1. u = [t EXCEPT !.queued = Url \ {q[1]}, !.timer = TRUE] \/ u = t
      BY <2>2 DEF Resume
    <3>2. Url \ {q[1]} \in SUBSET Url
      OBVIOUS
    <3>3. QED
      BY <3>1, <3>2, <1>1 DEF TabRow
  <2>3. QED
    BY <2>1, <2>2
<1> HIDE DEF u
<1>3. Sound(u, a)
  BY <1>2, OtherFields
<1>4. QED
  BY <1>2, <1>3 DEF u

\* A live request of q is shared by one who does not await any, if he is the prefetch queue.
LEMMA ShareFacts ==
  ASSUME NEW t, NEW a, Sound(t, a), NEW q \in Query, NEW who \in {"page", "prefetch"},
         who = "prefetch" => /\ t.loop = "waiting"
                             /\ \A r \in t.requests : "prefetch" \notin r.for
  PROVE  /\ Sound(Share(t, q, who), a)
         /\ Share(t, q, who).page = t.page /\ Share(t, q, who).entries = t.entries
<1> DEFINE share(r) == [r EXCEPT !.for = IF r.query = q /\ r.live THEN @ \cup {who} ELSE @]
           all == {share(r) : r \in t.requests}
           u == Share(t, q, who)
<1>1. t \in TabRow /\ t.requests \in SUBSET QueryRequest
  BY DEF Sound, TabRow
<1>2. \A r \in t.requests :
        /\ share(r) \in QueryRequest
        /\ share(r).query = r.query /\ share(r).live = r.live /\ share(r).seen = r.seen
        /\ share(r).for = IF r.query = q /\ r.live THEN r.for \cup {who} ELSE r.for
  BY <1>1 DEF QueryRequest
<1> HIDE DEF share
<1>3. all \in SUBSET QueryRequest
  BY <1>2
<1>4. u = [t EXCEPT !.requests = all]
  BY DEF Share, share
<1>5. \A x \in all : \E r \in t.requests : x = share(r)
  OBVIOUS
<1> HIDE DEF all, u
<1>6. /\ u \in TabRow /\ u.entries = t.entries /\ u.queries = t.queries /\ u.requests = all
      /\ u.page = t.page /\ u.loop = t.loop
  BY <1>1, <1>3, <1>4 DEF TabRow
<1>7. Reachable(u) = Reachable(t) /\ \A x : Since(u, x, a) = Since(t, x, a)
  BY <1>6 DEF Reachable, Since
<1>8. Fresh(u, a)
  <2>1. ASSUME NEW r \in t.requests
        PROVE  /\ u.queries[share(r).query] # Absent
               /\ share(r).live /\ share(r).query \in Reachable(u) /\ share(r).seen # Absent
                    => share(r).seen >= Since(u, share(r).query, a)
    <3>1. /\ share(r).query = r.query /\ share(r).live = r.live /\ share(r).seen = r.seen
          /\ Since(u, r.query, a) = Since(t, r.query, a)
      BY <1>2, <1>7
    <3>2. t.queries[r.query] # Absent
      BY DEF Sound, Fresh
    <3>3. r.live /\ r.query \in Reachable(t) /\ r.seen # Absent => r.seen >= Since(t, r.query, a)
      BY DEF Sound, Fresh
    <3>4. QED
      BY <3>1, <3>2, <3>3, <1>6, <1>7
  <2>2. \A x \in u.requests :
          /\ u.queries[x.query] # Absent
          /\ x.live /\ x.query \in Reachable(u) /\ x.seen # Absent => x.seen >= Since(u, x.query, a)
    BY <1>5, <1>6, <2>1
  <2>3. QED
    BY <2>2, <1>6, <1>7 DEF Sound, Fresh
<1>9. Shared(u)
  <2>1. ASSUME NEW r \in t.requests
        PROVE  /\ share(r).live => u.queries[share(r).query].pending
               /\ "prefetch" \in share(r).for => u.loop = "waiting"
    <3>1. share(r).live => u.queries[share(r).query].pending
      BY <1>2, <1>6 DEF Sound, Shared
    <3>2. "prefetch" \in share(r).for => "prefetch" \in r.for \/ who = "prefetch"
      <4>1. share(r).for = r.for \cup {who} \/ share(r).for = r.for
        BY <1>2
      <4>2. QED
        BY <4>1
    <3>3. QED
      BY <3>1, <3>2, <1>6 DEF Sound, Shared
  <2>2. ASSUME NEW r \in t.requests, NEW s \in t.requests,
               \/ share(r).live /\ share(s).live /\ share(r).query = share(s).query
               \/ "prefetch" \in share(r).for /\ "prefetch" \in share(s).for
        PROVE  r = s
    <3>1. CASE share(r).live /\ share(s).live /\ share(r).query = share(s).query
      BY <3>1, <1>2 DEF Sound, Shared
    <3>2. CASE "prefetch" \in share(r).for /\ "prefetch" \in share(s).for
      <4>1. CASE who = "prefetch"
        <5>1. r.query = q /\ r.live /\ s.query = q /\ s.live
          BY <3>2, <4>1, <1>2
        <5>2. QED
          BY <5>1 DEF Sound, Shared
      <4>2. CASE who = "page"
        <5>1. "prefetch" \in r.for /\ "prefetch" \in s.for
          <6>1. ASSUME NEW x \in t.requests, "prefetch" \in share(x).for
                PROVE  "prefetch" \in x.for
            <7>1. share(x).for = x.for \cup {"page"} \/ share(x).for = x.for
              BY <4>2, <1>2
            <7>2. QED
              BY <6>1, <7>1
          <6>2. QED
            BY <3>2, <6>1
        <5>2. QED
          BY <5>1 DEF Sound, Shared
      <4>3. QED
        BY <4>1, <4>2
    <3>3. QED
      BY <2>2, <3>1, <3>2
  <2>3. \A x \in all :
          /\ x.live => u.queries[x.query].pending
          /\ "prefetch" \in x.for => u.loop = "waiting"
    BY <1>5, <2>1
  <2>4. \A x, y \in all :
          \/ x.live /\ y.live /\ x.query = y.query
          \/ "prefetch" \in x.for /\ "prefetch" \in y.for
          => x = y
    BY <1>5, <2>2
  <2>5. QED
    BY <2>3, <2>4, <1>6 DEF Shared
<1>10. QED
  BY <1>1, <1>6, <1>8, <1>9 DEF Sound, u

\* A query in use whose request is not pending has no live request: a new one is the only one.
LEMMA RequestFacts ==
  ASSUME NEW t, NEW a, Sound(t, a), NEW q \in Query, q \in Reachable(t), ~t.queries[q].pending,
         NEW who \in {"page", "prefetch"},
         who = "prefetch" => /\ t.loop = "waiting"
                             /\ \A r \in t.requests : "prefetch" \notin r.for
  PROVE  /\ Sound(Request(t, q, who), a)
         /\ Request(t, q, who).page = t.page /\ Request(t, q, who).entries = t.entries
<1> DEFINE new == [query |-> q, live |-> TRUE, seen |-> Absent, for |-> {who}]
           all == t.requests \cup {new}
           u == Request(t, q, who)
<1>1. t \in TabRow /\ t.requests \in SUBSET QueryRequest /\ t.queries[q] \in QueryRow
  BY DEF Sound, TabRow, Fresh
<1>2. /\ new \in QueryRequest /\ new.query = q /\ new.live /\ new.seen = Absent
      /\ new.for = {who}
  BY DEF QueryRequest
<1>3. u = [t EXCEPT !.queries = [t.queries EXCEPT ![q] = [t.queries[q] EXCEPT !.pending = TRUE, !.error = FALSE]],
                    !.requests = all]
  BY DEF Request
<1> HIDE DEF new, all, u
<1>4. /\ u \in TabRow /\ u.entries = t.entries /\ u.requests = all
      /\ u.page = t.page /\ u.loop = t.loop
      /\ \A x \in Query : x # q => u.queries[x] = t.queries[x]
      /\ u.queries[q] \in QueryRow /\ u.queries[q].pending
      /\ u.queries[q].data = t.queries[q].data
  <2>1. all \in SUBSET QueryRequest
    BY <1>1, <1>2 DEF all
  <2> DEFINE n == [t.queries[q] EXCEPT !.pending = TRUE, !.error = FALSE]
             qs == [t.queries EXCEPT ![q] = n]
  <2>2. n \in QueryRow /\ n.pending /\ n.data = t.queries[q].data
    BY <1>1 DEF QueryRow
  <2>3. u = [t EXCEPT !.queries = qs, !.requests = all]
    BY <1>3
  <2> HIDE DEF n
  <2>4. /\ qs \in [Query -> QueryRow \cup {Absent}] /\ qs[q] = n
        /\ \A x \in Query : x # q => qs[x] = t.queries[x]
    BY <1>1, <2>2 DEF TabRow
  <2> HIDE DEF qs
  <2>5. QED
    BY <1>1, <2>1, <2>2, <2>3, <2>4 DEF TabRow
<1>5. /\ Reachable(u) = Reachable(t) /\ Reachable(u) \subseteq Query
      /\ \A x : Since(u, x, a) = Since(t, x, a)
  BY <1>1, <1>4, ReachableFacts DEF Reachable, Since
<1>6. \A x \in all : x = new \/ x \in t.requests
  BY DEF all
<1>7. \A r \in t.requests : r.query \in Query
  BY <1>1 DEF QueryRequest
<1>8. Fresh(u, a)
  BY <1>2, <1>4, <1>5, <1>6, <1>7, DisplayAssumption DEF Sound, Fresh
<1>9. \A r \in t.requests : r.live => r.query # q
  BY DEF Sound, Shared
<1>10. Shared(u)
  BY <1>2, <1>4, <1>6, <1>7, <1>9 DEF Sound, Shared
<1>11. QED
  BY <1>4, <1>5, <1>8, <1>10 DEF Sound, u

LEMMA LoadFacts ==
  ASSUME NEW t, NEW a, Sound(t, a), NEW q \in Query, q \in Reachable(t),
         NEW who \in {"page", "prefetch"},
         who = "prefetch" => /\ t.loop = "waiting"
                             /\ \A r \in t.requests : "prefetch" \notin r.for,
         NEW force \in BOOLEAN, NEW u \in Load(t, q, force, who)
  PROVE  Sound(u, a) /\ u.page = t.page /\ u.entries = t.entries
<1>1. CASE t.queries[q].pending
  BY <1>1, ShareFacts DEF Load
<1>2. CASE ~t.queries[q].pending
  <2>1. u = Request(t, q, who) \/ u = Resume(t, q, who)
    BY <1>2 DEF Load
  <2>2. QED
    BY <1>2, <2>1, RequestFacts, ResumeFacts
<1>3. QED
  BY <1>1, <1>2

\* Collecting garbage takes nothing that matters, and leaves none.
LEMMA TidyFacts ==
  ASSUME NEW t, NEW a, Sound(t, a)
  PROVE  /\ Sound(Tidy(t), a) /\ Clean(Tidy(t))
         /\ Tidy(t).page = t.page /\ Tidy(t).entries = t.entries
<1> DEFINE kept == {r \in t.requests : r.query \in Reachable(t) \/ "prefetch" \in r.for}
           inUse == Reachable(t) \cup {r.query : r \in kept}
           left == [q \in Query |-> IF q \in inUse THEN t.queries[q] ELSE Absent]
           u == Tidy(t)
<1>1. t \in TabRow /\ Reachable(t) \subseteq Query
  BY ReachableFacts DEF Sound
<1>2. u = [t EXCEPT !.requests = kept, !.queries = left]
  BY DEF Tidy
<1>3. /\ \A r \in kept : /\ r \in t.requests /\ r.query \in inUse /\ r.query \in Query
                         /\ r.query \in Reachable(t) \/ "prefetch" \in r.for
      /\ \A q \in Reachable(t) : q \in inUse
      /\ \A q \in inUse : q \in Reachable(t) \/ \E r \in kept : r.query = q
  BY <1>1 DEF TabRow, QueryRequest
<1>4. /\ kept \in SUBSET QueryRequest /\ left \in [Query -> QueryRow \cup {Absent}]
      /\ \A q \in Query : left[q] = IF q \in inUse THEN t.queries[q] ELSE Absent
  BY <1>1 DEF TabRow
<1> HIDE DEF kept, inUse, left, u
<1>5. /\ u \in TabRow /\ u.entries = t.entries /\ u.requests = kept /\ u.queries = left
      /\ u.page = t.page /\ u.loop = t.loop
  BY <1>1, <1>2, <1>4 DEF TabRow
<1>6. Reachable(u) = Reachable(t) /\ \A x : Since(u, x, a) = Since(t, x, a)
  BY <1>5 DEF Reachable, Since
<1>7. Fresh(u, a)
  BY <1>1, <1>3, <1>4, <1>5, <1>6 DEF Sound, Fresh
<1>8. Shared(u)
  BY <1>3, <1>4, <1>5 DEF Sound, Shared
<1>9. Clean(u)
  BY <1>3, <1>4, <1>5, <1>6 DEF Clean
<1>10. QED
  BY <1>5, <1>7, <1>8, <1>9 DEF Sound, u

\* The tab after request r ended and left its query as given.
Ended(t, r, query) == [t EXCEPT !.queries[r.query] = query, !.requests = @ \ {r}]

\* An answer to a live request is fresh, and the request was the only live one.
LEMMA AnsweredFacts ==
  ASSUME NEW t, NEW a, Sound(t, a), NEW r \in t.requests,
         NEW query \in Answered(r, t.queries[r.query])
  PROVE  /\ Sound(Ended(t, r, query), a)
         /\ Ended(t, r, query).page = t.page /\ Ended(t, r, query).entries = t.entries
         /\ "prefetch" \in r.for => \A s \in Ended(t, r, query).requests : "prefetch" \notin s.for
<1> DEFINE old == t.queries[r.query]
           u == Ended(t, r, query)
<1>1. /\ t \in TabRow /\ t.queries \in [Query -> QueryRow \cup {Absent}]
      /\ r \in QueryRequest /\ r.query \in Query /\ old \in QueryRow
      /\ Reachable(t) \subseteq Query
      /\ \A s \in t.requests : s.query \in Query
  BY ReachableFacts DEF Sound, TabRow, Fresh, QueryRequest
<1>2. /\ query \in QueryRow
      /\ ~r.live => query = old
      /\ query.data = old.data \/ query.data = Absent
           \/ (r.live /\ query.data = r.seen /\ r.seen # Absent)
  <2> DEFINE over == [old EXCEPT !.pending = FALSE]
  <2>1. over \in QueryRow /\ over.data = old.data
    BY <1>1 DEF QueryRow
  <2>2. CASE ~r.live
    BY <2>2, <1>1 DEF Answered
  <2>3. CASE r.live
    <3>1. \/ query = [over EXCEPT !.error = TRUE]
          \/ query = [over EXCEPT !.error = TRUE, !.data = Absent]
          \/ r.seen # Absent /\ query = [over EXCEPT !.data = r.seen]
      BY <2>3 DEF Answered
    <3> HIDE DEF over, old
    <3>2. r.seen \in Nat \cup {Absent}
      BY <1>1 DEF QueryRequest
    <3>3. QED
      BY <2>1, <2>3, <3>1, <3>2 DEF QueryRow
  <2>4. QED
    BY <2>2, <2>3
<1> DEFINE qs == [t.queries EXCEPT ![r.query] = query]
<1>3. /\ qs \in [Query -> QueryRow \cup {Absent}] /\ qs[r.query] = query
      /\ \A x \in Query : x # r.query => qs[x] = t.queries[x]
  BY <1>1, <1>2
<1>4. u = [t EXCEPT !.queries = qs, !.requests = @ \ {r}]
  BY DEF Ended
<1> HIDE DEF qs, u
<1>5. /\ u \in TabRow /\ u.entries = t.entries /\ u.queries = qs
      /\ u.requests = t.requests \ {r} /\ u.page = t.page /\ u.loop = t.loop
  BY <1>1, <1>3, <1>4 DEF TabRow
<1>6. Reachable(u) = Reachable(t) /\ \A x : Since(u, x, a) = Since(t, x, a)
  BY <1>5 DEF Reachable, Since
<1>7. Fresh(u, a)
  <2>1. query # Absent
    BY <1>2, DisplayAssumption
  <2>2. r.query \in Reachable(t) /\ query.data # Absent => query.data >= Since(t, r.query, a)
    BY <1>2 DEF Sound, Fresh
  <2>3. QED
    BY <2>1, <2>2, <1>1, <1>3, <1>5, <1>6 DEF Sound, Fresh
<1>8. \A s \in u.requests : s.live => s.query # r.query \/ ~r.live
  BY <1>5 DEF Sound, Shared
<1>9. Shared(u)
  BY <1>1, <1>2, <1>3, <1>5, <1>8 DEF Sound, Shared
<1>10. "prefetch" \in r.for => \A s \in u.requests : "prefetch" \notin s.for
  BY <1>5 DEF Sound, Shared
<1>11. Sound(u, a)
  BY <1>5, <1>7, <1>9 DEF Sound
<1>12. QED
  BY <1>5, <1>10, <1>11 DEF u

\* The server computes a response from what it has now.
LEMMA ServedFacts ==
  ASSUME NEW t, NEW a, Sound(t, a), NEW r \in t.requests, NEW p \in Nat,
         a.kept <= p, a.shown <= p, NEW u, u = [t EXCEPT !.requests = (@ \ {r}) \cup {[r EXCEPT !.seen = p]}]
  PROVE  Sound(u, a) /\ u.page = t.page /\ u.entries = t.entries
<1> DEFINE new == [r EXCEPT !.seen = p]
           all == (t.requests \ {r}) \cup {new}
<1>1. /\ t \in TabRow /\ r \in QueryRequest
  BY DEF Sound, TabRow
<1>2. /\ new \in QueryRequest /\ new.query = r.query /\ new.live = r.live
      /\ new.for = r.for /\ new.seen = p
  BY <1>1 DEF QueryRequest
<1>3. u = [t EXCEPT !.requests = all]
  OBVIOUS
<1> HIDE DEF new
<1>4. /\ all \in SUBSET QueryRequest
      /\ \A x \in all : x = new \/ (x \in t.requests /\ x # r)
  BY <1>1, <1>2 DEF TabRow
<1> HIDE DEF all
<1>5. /\ u \in TabRow /\ u.entries = t.entries /\ u.queries = t.queries /\ u.requests = all
      /\ u.page = t.page /\ u.loop = t.loop
  BY <1>1, <1>3, <1>4 DEF TabRow
<1>6. Reachable(u) = Reachable(t) /\ \A x : Since(u, x, a) = Since(t, x, a)
  BY <1>5 DEF Reachable, Since
<1>7. Fresh(u, a)
  <2>1. p >= Since(t, r.query, a)
    BY DEF Since
  <2>2. QED
    BY <2>1, <1>2, <1>4, <1>5, <1>6 DEF Sound, Fresh
<1>8. Shared(u)
  BY <1>2, <1>4, <1>5 DEF Sound, Shared
<1>9. QED
  BY <1>5, <1>7, <1>8 DEF Sound

\* Leaving the page: nothing awaits a request any more.
LEMMA UnmountedFacts ==
  ASSUME NEW t, NEW a, Sound(t, a),
         NEW u, u = [Cancel(t) EXCEPT !.page = Absent, !.loop = "idle",
                                      !.requests = {[r EXCEPT !.for = {}] : r \in @}]
  PROVE  Sound(u, a) /\ u.page = Absent
<1> DEFINE forget(r) == [r EXCEPT !.for = {}]
           all == {forget(r) : r \in t.requests}
<1>1. t \in TabRow /\ t.requests \in SUBSET QueryRequest
  BY DEF Sound, TabRow
<1>2. \A r \in t.requests :
        /\ forget(r) \in QueryRequest
        /\ forget(r).query = r.query /\ forget(r).live = r.live /\ forget(r).seen = r.seen
        /\ forget(r).for = {}
  BY <1>1 DEF QueryRequest
<1>3. u = [t EXCEPT !.queued = {}, !.timer = FALSE, !.page = Absent, !.loop = "idle",
                    !.requests = all]
  BY <1>1 DEF Cancel, TabRow
<1> HIDE DEF forget
<1>4. all \in SUBSET QueryRequest /\ \A x \in all : \E r \in t.requests : x = forget(r)
  BY <1>2
<1> HIDE DEF all
<1>5. /\ u \in TabRow /\ u.entries = t.entries /\ u.queries = t.queries /\ u.requests = all
      /\ u.page = Absent
  BY <1>1, <1>3, <1>4 DEF TabRow
<1>6. /\ \A x \in Reachable(u) : x \in Reachable(t)
      /\ \A x : Since(u, x, a) = Since(t, x, a)
  BY <1>5 DEF Reachable, Since
<1>7. Fresh(u, a)
  <2>1. ASSUME NEW r \in t.requests
        PROVE  /\ u.queries[forget(r).query] # Absent
               /\ forget(r).live /\ forget(r).query \in Reachable(u) /\ forget(r).seen # Absent
                    => forget(r).seen >= Since(u, forget(r).query, a)
    BY <1>2, <1>5, <1>6 DEF Sound, Fresh
  <2>2. \A x \in all :
          /\ u.queries[x.query] # Absent
          /\ x.live /\ x.query \in Reachable(u) /\ x.seen # Absent => x.seen >= Since(u, x.query, a)
    BY <1>4, <2>1
  <2>3. QED
    BY <2>2, <1>5, <1>6 DEF Sound, Fresh
<1>8. Shared(u)
  <2>1. ASSUME NEW r \in t.requests
        PROVE  /\ forget(r).live => u.queries[forget(r).query].pending
               /\ "prefetch" \notin forget(r).for
    BY <1>2, <1>5 DEF Sound, Shared
  <2>2. ASSUME NEW r \in t.requests, NEW s \in t.requests,
               forget(r).live, forget(s).live, forget(r).query = forget(s).query
        PROVE  r = s
    BY <2>2, <1>2 DEF Sound, Shared
  <2>3. \A x \in all : (x.live => u.queries[x.query].pending) /\ "prefetch" \notin x.for
    BY <1>4, <2>1
  <2>4. \A x, y \in all : x.live /\ y.live /\ x.query = y.query => x = y
    BY <1>4, <2>2
  <2>5. QED
    BY <2>3, <2>4, <1>5 DEF Shared
<1>9. QED
  BY <1>5, <1>7, <1>8 DEF Sound

\* A save's answer ends the request of every entry and takes its data: what the tab
\* keeps afterwards is from after any version, and what it shows as well if that was
\* an entry.
LEMMA ClearedFacts ==
  ASSUME NEW t, NEW a, Sound(t, a), NEW b,
         t.page \in Range(t.entries) \/ b.shown = a.shown
  PROVE  Sound(ClearQueries(t), b)
<1> DEFINE gone == Range(t.entries)
           end(r) == [r EXCEPT !.live = @ /\ r.query \notin gone]
           all == {end(r) : r \in t.requests}
           qs == [q \in Query |-> IF q \in gone THEN New ELSE t.queries[q]]
           u == ClearQueries(t)
<1>1. t \in TabRow /\ t.requests \in SUBSET QueryRequest
  BY DEF Sound, TabRow
<1>2. \A r \in t.requests :
        /\ end(r) \in QueryRequest
        /\ end(r).query = r.query /\ end(r).for = r.for /\ end(r).seen = r.seen
        /\ end(r).live <=> r.live /\ r.query \notin gone
        /\ r.query \in Query
  BY <1>1 DEF QueryRequest
<1>3. u = [t EXCEPT !.queries = qs, !.requests = all, !.entries = <<>>]
  BY DEF ClearQueries, Invalidate
<1>4. New \in QueryRow /\ New.data = Absent /\ New # Absent
  <2>1. New \in QueryRow /\ New.data = Absent
    BY DEF New, QueryRow
  <2>2. QED
    BY <2>1, DisplayAssumption
<1> HIDE DEF end
<1>5. all \in SUBSET QueryRequest /\ \A x \in all : \E r \in t.requests : x = end(r)
  BY <1>2
<1>6. /\ qs \in [Query -> QueryRow \cup {Absent}]
      /\ \A q \in Query : qs[q] = IF q \in gone THEN New ELSE t.queries[q]
  BY <1>1, <1>4 DEF TabRow
<1> HIDE DEF all, qs, u, gone
<1>7. /\ u \in TabRow /\ u.entries = <<>> /\ u.queries = qs /\ u.requests = all
      /\ u.page = t.page /\ u.loop = t.loop
  <2> DEFINE empty == <<>>
  <2>1. empty \in Seq(Query) /\ u = [t EXCEPT !.queries = qs, !.requests = all, !.entries = empty]
    BY <1>3
  <2> HIDE DEF empty
  <2>2. /\ u \in TabRow /\ u.entries = empty /\ u.queries = qs /\ u.requests = all
        /\ u.page = t.page /\ u.loop = t.loop
    BY <1>1, <1>5, <1>6, <2>1 DEF TabRow
  <2>3. QED
    BY <2>2 DEF empty
<1>8. \A x \in Reachable(u) :
        x \in Query /\ x \in Reachable(t) /\ (x \in gone \/ b.shown = a.shown)
  <2>1. Reachable(u) \subseteq {t.page} \ {Absent}
    BY <1>7 DEF Reachable, Range
  <2>2. t.page \in Query \cup {Absent}
    BY <1>1 DEF TabRow
  <2>3. \A x \in {t.page} \ {Absent} : x \in Reachable(t)
    BY DEF Reachable
  <2>4. QED
    BY <2>1, <2>2, <2>3 DEF gone
<1>9. Fresh(u, b)
  <2>1. /\ \A x : Since(u, x, b) = b.shown
        /\ \A x : x \notin gone => Since(t, x, a) = a.shown
    BY <1>7 DEF Since, Range, gone
  <2>2. ASSUME NEW r \in t.requests
        PROVE  /\ u.queries[end(r).query] # Absent
               /\ end(r).live /\ end(r).query \in Reachable(u) /\ end(r).seen # Absent
                    => end(r).seen >= b.shown
    <3>1. u.queries[end(r).query] # Absent
      BY <1>2, <1>4, <1>6, <1>7 DEF Sound, Fresh
    <3>2. ASSUME end(r).live, end(r).query \in Reachable(u), end(r).seen # Absent
          PROVE  end(r).seen >= b.shown
      <4>1. /\ r.live /\ r.query \notin gone /\ r.query \in Reachable(t) /\ r.seen # Absent
            /\ b.shown = a.shown
        BY <3>2, <1>2, <1>8
      <4>2. r.seen >= Since(t, r.query, a)
        BY <4>1 DEF Sound, Fresh
      <4>3. QED
        BY <4>1, <4>2, <2>1, <1>2
    <3>3. QED
      BY <3>1, <3>2
  <2>3. \A x \in all :
          /\ u.queries[x.query] # Absent
          /\ x.live /\ x.query \in Reachable(u) /\ x.seen # Absent => x.seen >= b.shown
    BY <1>5, <2>2
  <2>4. ASSUME NEW x \in Reachable(u)
        PROVE  /\ u.queries[x] # Absent
               /\ u.queries[x].data # Absent => u.queries[x].data >= b.shown
    <3>1. CASE x \in gone
      BY <3>1, <1>4, <1>6, <1>7, <1>8
    <3>2. CASE x \notin gone
      <4>1. u.queries[x] = t.queries[x] /\ x \in Reachable(t) /\ b.shown = a.shown
        BY <3>2, <1>6, <1>7, <1>8
      <4>2. QED
        BY <3>2, <4>1, <2>1 DEF Sound, Fresh
    <3>3. QED
      BY <3>1, <3>2
  <2>5. QED
    BY <2>1, <2>3, <2>4, <1>7 DEF Fresh
<1>10. Shared(u)
  <2>1. ASSUME NEW r \in t.requests
        PROVE  /\ end(r).live => u.queries[end(r).query].pending
               /\ "prefetch" \in end(r).for => u.loop = "waiting"
    BY <1>2, <1>6, <1>7 DEF Sound, Shared
  <2>2. ASSUME NEW r \in t.requests, NEW s \in t.requests,
               \/ end(r).live /\ end(s).live /\ end(r).query = end(s).query
               \/ "prefetch" \in end(r).for /\ "prefetch" \in end(s).for
        PROVE  r = s
    BY <2>2, <1>2 DEF Sound, Shared
  <2>3. \A x \in all :
          /\ x.live => u.queries[x.query].pending
          /\ "prefetch" \in x.for => u.loop = "waiting"
    BY <1>5, <2>1
  <2>4. \A x, y \in all :
          \/ x.live /\ y.live /\ x.query = y.query
          \/ "prefetch" \in x.for /\ "prefetch" \in y.for
          => x = y
    BY <1>5, <2>2
  <2>5. QED
    BY <2>3, <2>4, <1>7 DEF Shared
<1>11. OneEntryPerUrl(u.entries)
  BY <1>7 DEF OneEntryPerUrl
<1>12. QED
  BY <1>7, <1>9, <1>10, <1>11 DEF Sound, u

LEMMA AnswersAreOrdered ==
  ASSUME DisplayInv
  PROVE  OrderedBounds(Answers)
  BY DEF DisplayInv, Answers, OrderedBounds

\* A callback leaves a tab that is sound and clean.
LEMMA BecomesFacts ==
  ASSUME DisplayInv, NEW u, Sound(u, Answers), Becomes(u)
  PROVE  DisplayInv'
<1>1. tab' = Tidy(u) /\ UNCHANGED <<published, sending, committed, acknowledged, emptied>>
  BY DEF Becomes
<1>2. Answers' = Answers
  BY <1>1 DEF Answers
<1>3. Sound(tab', Answers') /\ Clean(tab')
  BY <1>1, <1>2, TidyFacts
<1>4. QED
  BY <1>1, <1>3 DEF DisplayInv

\* The two ways in which the page loads the query that it shows.
LEMMA LoadArenaFacts ==
  ASSUME DisplayInv, NEW t, Sound(t, Answers), t.page # Absent,
         NEW force \in BOOLEAN, BecomesOne(LoadArena(t, force))
  PROVE  DisplayInv'
<1> DEFINE c == Cancel(t)
<1>1. Sound(c, Answers) /\ c.page = t.page /\ c.entries = t.entries
  BY CancelFacts
<1>2. PICK u \in Load(c, c.page, force, "page") : Becomes(u)
  BY DEF BecomesOne, LoadArena
<1> HIDE DEF c
<1>3. c.page \in Query /\ c.page \in Reachable(c)
  <2>1. c.page \in Query
    BY <1>1 DEF Sound, TabRow
  <2>2. QED
    BY <2>1, <1>1, ReachableFacts DEF Sound
<1>4. "page" \in {"page", "prefetch"} /\ "page" # "prefetch"
  OBVIOUS
<1>5. Sound(u, Answers) /\ u.page = c.page /\ u.entries = c.entries
  BY <1>1, <1>2, <1>3, <1>4, LoadFacts
<1>6. QED
  BY <1>1, <1>2, <1>5, BecomesFacts

LEMMA LoadViewFacts ==
  ASSUME DisplayInv, NEW url \in Url, LoadView(url)
  PROVE  DisplayInv'
<1>1. PICK s : s = Show(tab, url) /\ BecomesOne(LoadArena(s, FALSE))
  BY DEF LoadView
<1>2. Sound(s, Answers) /\ s.page \in Range(s.entries) \cap Query
  BY <1>1, ShowFacts, AnswersAreOrdered DEF DisplayInv
<1>3. s.page # Absent /\ FALSE \in BOOLEAN
  BY <1>2, DisplayAssumption
<1>4. QED
  BY <1>1, <1>2, <1>3, LoadArenaFacts

LEMMA PrefetchFacts ==
  ASSUME DisplayInv, Prefetch
  PROVE  DisplayInv'
<1>1. /\ Sound(tab, Answers) /\ Clean(tab) /\ tab \in TabRow /\ tab.loop = "ready"
      /\ \A r \in tab.requests : "prefetch" \notin r.for
  BY DEF DisplayInv, Prefetch, Sound, Shared
<1>2. ASSUME NEW url \in tab.queued,
             \E t \in {[Get(tab, url) EXCEPT !.queued = @ \ {url}, !.loop = "waiting"]} :
               BecomesOne(Load(t, Find(t, url), FALSE, "prefetch"))
      PROVE  DisplayInv'
  <2> DEFINE g == Get(tab, url)
             t == [g EXCEPT !.queued = @ \ {url}, !.loop = "waiting"]
             q == Find(tab, url)
  <2>1. url \in Url
    BY <1>1 DEF TabRow
  <2>2. /\ Sound(g, Answers) /\ q \in Range(g.entries) \cap Query
        /\ g.page = tab.page /\ g.requests = tab.requests
    BY <1>1, <2>1, GetFacts, AnswersAreOrdered
  <2>3. BecomesOne(Load(t, Find(t, url), FALSE, "prefetch"))
    BY <1>2
  <2> HIDE DEF g
  <2>4. /\ t \in TabRow /\ t.entries = g.entries /\ t.queries = g.queries
        /\ t.requests = g.requests /\ t.page = g.page /\ t.loop = "waiting"
    BY <2>2 DEF Sound, TabRow
  <2> HIDE DEF t
  <2>5. Sound(t, Answers)
    BY <1>1, <2>2, <2>4, OtherFields
  <2>6. Find(t, url) \in Range(t.entries) \cap Query
    <3>1. \E n \in 1..3 : <<url, n>> \in Range(t.entries)
      <4>1. q[1] = url /\ q \in Query
        BY <1>1, <2>1, FindFacts
      <4> HIDE DEF q
      <4>2. \E n \in 1..3 : q = <<url, n>>
        BY <4>1 DEF Query
      <4>3. QED
        BY <4>2, <2>2, <2>4
    <3>2. QED
      BY <2>1, <3>1, FindsEntry
  <2>7. PICK u \in Load(t, Find(t, url), FALSE, "prefetch") : Becomes(u)
    BY <2>3 DEF BecomesOne
  <2>8. /\ Find(t, url) \in Reachable(t) /\ "prefetch" \in {"page", "prefetch"}
        /\ t.loop = "waiting" /\ \A r \in t.requests : "prefetch" \notin r.for
    BY <1>1, <2>2, <2>4, <2>6 DEF Reachable
  <2>9. Sound(u, Answers) /\ u.page = t.page /\ u.entries = t.entries
    BY <2>5, <2>6, <2>7, <2>8, LoadFacts
  <2>10. QED
    BY <1>1, <2>2, <2>4, <2>7, <2>9, BecomesFacts
<1>3. ASSUME Becomes([tab EXCEPT !.loop = "idle"]) PROVE DisplayInv'
  <2> DEFINE u == [tab EXCEPT !.loop = "idle"]
  <2>1. /\ u \in TabRow /\ u.entries = tab.entries /\ u.queries = tab.queries
        /\ u.requests = tab.requests /\ u.page = tab.page
    BY <1>1 DEF TabRow
  <2>2. Becomes(u)
    BY <1>3
  <2> HIDE DEF u
  <2>3. Sound(u, Answers)
    BY <1>1, <2>1, OtherFields
  <2>4. QED
    BY <1>1, <2>1, <2>2, <2>3, BecomesFacts
<1>4. QED
  BY <1>2, <1>3 DEF Prefetch

LEMMA AnswerFacts ==
  ASSUME DisplayInv, NEW r \in tab.requests, Answer(r)
  PROVE  DisplayInv'
<1>1. /\ Sound(tab, Answers) /\ r.query \in Query
  BY DEF DisplayInv, Sound, TabRow, QueryRequest
<1>2. PICK query \in Answered(r, tab.queries[r.query]) :
        \E t \in {Ended(tab, r, query)} :
        \E paged \in {IF "page" \in r.for THEN Resume(t, r.query, "page") ELSE t} :
          Becomes(IF "prefetch" \in r.for THEN Resume(paged, r.query, "prefetch") ELSE paged)
  BY DEF Answer, Ended
<1>3. PICK t : /\ t = Ended(tab, r, query)
               /\ \E paged \in {IF "page" \in r.for THEN Resume(t, r.query, "page") ELSE t} :
                    Becomes(IF "prefetch" \in r.for THEN Resume(paged, r.query, "prefetch")
                            ELSE paged)
  BY <1>2
<1>4. PICK paged : /\ paged = IF "page" \in r.for THEN Resume(t, r.query, "page") ELSE t
                   /\ Becomes(IF "prefetch" \in r.for THEN Resume(paged, r.query, "prefetch")
                              ELSE paged)
  BY <1>3
<1>5. PICK u : /\ u = IF "prefetch" \in r.for THEN Resume(paged, r.query, "prefetch") ELSE paged
               /\ Becomes(u)
  BY <1>4
<1>6. /\ Sound(t, Answers) /\ t.page = tab.page /\ t.entries = tab.entries
      /\ "prefetch" \in r.for => \A s \in t.requests : "prefetch" \notin s.for
  BY <1>1, <1>2, <1>3, AnsweredFacts
<1>7. "page" \in {"page", "prefetch"} /\ "prefetch" \in {"page", "prefetch"} /\ "page" # "prefetch"
  OBVIOUS
<1>8. /\ Sound(paged, Answers) /\ paged.page = tab.page /\ paged.entries = tab.entries
      /\ paged.requests = t.requests
  <2>1. CASE "page" \in r.for
    BY <2>1, <1>1, <1>4, <1>6, <1>7, ResumeFacts
  <2>2. CASE "page" \notin r.for
    BY <2>2, <1>4, <1>6
  <2>3. QED
    BY <2>1, <2>2
<1>9. Sound(u, Answers) /\ u.page = tab.page /\ u.entries = tab.entries
  <2>1. CASE "prefetch" \in r.for
    BY <2>1, <1>1, <1>5, <1>6, <1>7, <1>8, ResumeFacts
  <2>2. CASE "prefetch" \notin r.for
    BY <2>2, <1>5, <1>8
  <2>3. QED
    BY <2>1, <2>2
<1>10. QED
  BY <1>1, <1>5, <1>9, BecomesFacts

LEMMA ServeFacts ==
  ASSUME DisplayInv, NEW r \in tab.requests, Serve(r)
  PROVE  DisplayInv'
<1> DEFINE u == [tab EXCEPT !.requests = (@ \ {r}) \cup {[r EXCEPT !.seen = published]}]
<1>1. /\ Sound(tab, Answers) /\ published \in Nat
      /\ Answers.kept <= published /\ Answers.shown <= published
  BY DEF DisplayInv, Answers
<1>2. Becomes(u)
  BY DEF Serve
<1>3. Sound(u, Answers) /\ u.page = tab.page /\ u.entries = tab.entries
  BY <1>1, ServedFacts
<1> HIDE DEF u
<1>4. QED
  BY <1>1, <1>2, <1>3, BecomesFacts

LEMMA AcknowledgeFacts ==
  ASSUME DisplayInv, NEW v \in committed, Acknowledge(v)
  PROVE  DisplayInv'
<1>1. /\ Sound(tab, Answers) /\ published \in Nat /\ v \in 1..published
      /\ acknowledged \in 0..published /\ emptied \in 0..acknowledged
  BY DEF DisplayInv
<1>2. /\ tab' = Tidy(ClearQueries(tab)) /\ committed' = committed \ {v}
      /\ published' = published /\ sending' = sending
      /\ acknowledged' = Max({acknowledged, v})
      /\ emptied' = IF tab.page \in Range(tab.entries) THEN acknowledged' ELSE emptied
  BY DEF Acknowledge
<1>3. acknowledged' \in {acknowledged, v} /\ acknowledged' >= acknowledged
  <2>1. \E x \in {acknowledged, v} : \A y \in {acknowledged, v} : x >= y
    <3>1. CASE acknowledged >= v
      BY <3>1, <1>1
    <3>2. CASE v >= acknowledged
      BY <3>2, <1>1
    <3>3. QED
      BY <3>1, <3>2, <1>1
  <2>2. QED
    BY <1>2, <2>1 DEF Max
<1>4. acknowledged' \in 0..published /\ emptied' \in 0..acknowledged'
  BY <1>1, <1>2, <1>3
<1>5. tab.page \in Range(tab.entries) \/ Answers'.shown = Answers.shown
  BY <1>2 DEF Answers
<1>6. Sound(ClearQueries(tab), Answers')
  BY <1>1, <1>5, ClearedFacts
<1>7. Sound(tab', Answers') /\ Clean(tab')
  BY <1>2, <1>6, TidyFacts
<1>8. QED
  BY <1>1, <1>2, <1>4, <1>7 DEF DisplayInv

LEMMA DisplayStart == DisplayInit => DisplayInv
<1> SUFFICES ASSUME DisplayInit PROVE DisplayInv
  OBVIOUS
<1> DEFINE none == [q \in Query |-> Absent]
           empty == <<>>
<1>1. /\ none \in [Query -> QueryRow \cup {Absent}] /\ \A q \in Query : none[q] = Absent
      /\ empty \in Seq(Query) /\ Range(empty) = {} /\ OneEntryPerUrl(empty)
  BY DEF Range, OneEntryPerUrl
<1>2. tab = [entries |-> empty, queries |-> none, requests |-> {}, page |-> Absent,
             queued |-> {}, timer |-> FALSE, loop |-> "idle"]
  BY DEF DisplayInit
<1> HIDE DEF none, empty
<1>3. /\ tab \in TabRow /\ tab.entries = empty /\ tab.queries = none /\ tab.requests = {}
      /\ tab.page = Absent
  BY <1>1, <1>2 DEF TabRow
<1>4. Reachable(tab) = {}
  BY <1>1, <1>3 DEF Reachable
<1>5. Sound(tab, Answers) /\ Clean(tab)
  BY <1>1, <1>3, <1>4 DEF Sound, Fresh, Shared, Clean
<1>6. published = 0 /\ acknowledged = 0 /\ emptied = 0 /\ sending = 0 /\ committed = {}
  BY DEF DisplayInit
<1>7. QED
  BY <1>5, <1>6 DEF DisplayInv

LEMMA DisplayStep == DisplayInv /\ [DisplayNext]_displayVars => DisplayInv'
<1> SUFFICES ASSUME DisplayInv, [DisplayNext]_displayVars PROVE DisplayInv'
  OBVIOUS
<1>1. /\ Sound(tab, Answers) /\ tab \in TabRow
  BY DEF DisplayInv, Sound
<1>2. CASE Mount
  BY <1>2, LoadViewFacts DEF Mount
<1>3. CASE ChangeView
  BY <1>3, LoadViewFacts DEF ChangeView
<1>4. CASE Unmount
  <2>1. PICK u : /\ u = [Cancel(tab) EXCEPT !.page = Absent, !.loop = "idle",
                                            !.requests = {[r EXCEPT !.for = {}] : r \in @}]
                 /\ Becomes(u)
    BY <1>4 DEF Unmount
  <2>2. Sound(u, Answers) /\ u.page = Absent
    BY <1>1, <2>1, UnmountedFacts
  <2>3. QED
    BY <2>1, <2>2, BecomesFacts
<1>5. CASE Refresh
  BY <1>1, <1>5, LoadArenaFacts DEF Refresh
<1>6. CASE Focus
  BY <1>1, <1>6, LoadArenaFacts DEF Focus
<1>7. CASE Hide
  <2>1. Sound(Cancel(tab), Answers) /\ Cancel(tab).page = tab.page /\ Cancel(tab).entries = tab.entries
    BY <1>1, CancelFacts
  <2>2. QED
    BY <1>1, <1>7, <2>1, BecomesFacts DEF Hide
<1>8. CASE Timer
  <2> DEFINE u == [tab EXCEPT !.timer = FALSE, !.loop = IF @ = "idle" THEN "ready" ELSE @]
  <2>1. /\ u \in TabRow /\ u.entries = tab.entries /\ u.queries = tab.queries
        /\ u.requests = tab.requests /\ u.page = tab.page
        /\ u.loop = tab.loop \/ tab.loop = "idle"
    BY <1>1 DEF TabRow
  <2>2. Becomes(u)
    BY <1>8 DEF Timer
  <2>3. tab.loop = "idle" => \A r \in tab.requests : "prefetch" \notin r.for
    BY <1>1 DEF Sound, Shared
  <2> HIDE DEF u
  <2>4. Sound(u, Answers)
    BY <1>1, <2>1, <2>3, OtherFields
  <2>5. QED
    BY <1>1, <2>1, <2>2, <2>4, BecomesFacts
<1>9. CASE Prefetch
  BY <1>9, PrefetchFacts
<1>10. CASE \E r \in tab.requests : Serve(r) \/ Answer(r)
  BY <1>10, ServeFacts, AnswerFacts
<1>11. CASE Publish \/ SendSave \/ Commit \/ SaveFails
  <2>1. UNCHANGED <<acknowledged, emptied, tab>>
    BY <1>11 DEF Publish, SendSave, Commit, SaveFails
  <2>2. Sound(tab, Answers)' /\ Clean(tab)'
    BY <2>1 DEF DisplayInv, Answers
  <2>3. /\ published' \in Nat /\ published' >= published
        /\ sending' \in Nat /\ committed' \subseteq 1..published'
    <3>1. CASE Publish
      BY <3>1 DEF Publish, DisplayInv
    <3>2. CASE SendSave
      BY <3>2 DEF SendSave, DisplayInv
    <3>3. CASE Commit
      BY <3>3 DEF Commit, DisplayInv
    <3>4. CASE SaveFails
      <4>1. CASE sending > 0 /\ sending' = sending - 1 /\ UNCHANGED <<published, committed>>
        BY <4>1 DEF DisplayInv
      <4>2. CASE UNCHANGED <<published, sending>> /\ committed' \subseteq committed
        BY <4>2 DEF DisplayInv
      <4>3. QED
        BY <3>4, <4>1, <4>2 DEF SaveFails
    <3>5. QED
      BY <1>11, <3>1, <3>2, <3>3, <3>4
  <2>4. acknowledged' \in 0..published' /\ emptied' \in 0..acknowledged'
    BY <2>1, <2>3 DEF DisplayInv
  <2>5. QED
    BY <2>2, <2>3, <2>4 DEF DisplayInv
<1>12. CASE \E v \in committed : Acknowledge(v)
  BY <1>12, AcknowledgeFacts
<1>13. CASE UNCHANGED displayVars
  BY <1>13 DEF displayVars, DisplayInv, Answers
<1>14. QED
  BY <1>2, <1>3, <1>4, <1>5, <1>6, <1>7, <1>8, <1>9, <1>10, <1>11, <1>12, <1>13 DEF DisplayNext

\* Once a save was answered, nothing that a tab keeps is from before it, and a page is
\* as new as the last answer that emptied its query, however saves overlap: an answer
\* ends the requests of what it empties.
THEOREM SavesShown == DisplaySpec => []SavesAreShown
<1>1. DisplayInit => DisplayInv
  BY DisplayStart
<1>2. DisplayInv /\ [DisplayNext]_displayVars => DisplayInv'
  BY DisplayStep
<1>3. DisplayInv => SavesAreShown
  <2> SUFFICES ASSUME DisplayInv PROVE SavesAreShown
    OBVIOUS
  <2>1. /\ tab \in TabRow /\ Reachable(tab) \subseteq Query
        /\ \A q \in Range(tab.entries) : q \in Reachable(tab) /\ Since(tab, q, Answers) = acknowledged
        /\ tab.page # Absent => tab.page \in Reachable(tab) /\ Since(tab, tab.page, Answers) \in {acknowledged, emptied}
    BY ReachableFacts DEF DisplayInv, Sound, Reachable, Since, Answers
  <2>2. \A q \in Reachable(tab) :
          tab.queries[q].data # Absent =>
            tab.queries[q].data \in Nat /\ tab.queries[q].data >= Since(tab, q, Answers)
    BY <2>1 DEF DisplayInv, Sound, Fresh, TabRow, QueryRow
  <2>3. QED
    BY <2>1, <2>2 DEF SavesAreShown, DisplayInv
<1>4. QED
  BY <1>1, <1>2, <1>3, PTL DEF DisplaySpec

-----------------------------------------------------------------------------
(* The cache of analyses, for every number of threads, keys and entries.         *)

\* Using a key keeps the others' order and adds no key but that one.
LEMMA UsedKeys ==
  ASSUME NEW s \in Seq(Key), NEW k \in Key
  PROVE  /\ Used(s, k) \in Seq(Key)
         /\ Range(Used(s, k)) \subseteq Range(s) \cup {k}
         /\ Len(Used(s, k)) <= Len(s) + 1
         /\ k \in Range(s) => Len(Used(s, k)) = Len(s)
<1>1. CASE k \notin Range(s)
  BY <1>1 DEF Used, Range
<1>2. CASE k \in Range(s)
  <2> DEFINE i == CHOOSE i \in DOMAIN s : s[i] = k
             u == [j \in DOMAIN s |-> IF j < i THEN s[j] ELSE IF j < Len(s) THEN s[j + 1] ELSE k]
  <2>1. i \in 1..Len(s)
    BY <1>2 DEF Range
  <2>2. Used(s, k) = u
    BY <1>2 DEF Used
  <2> HIDE DEF i
  <2>3. \A j \in 1..Len(s) : u[j] \in Range(s) \cup {k} /\ u[j] \in Key
    BY <2>1 DEF Range
  <2>4. u \in Seq(Key) /\ Len(u) = Len(s)
    BY <2>3
  <2>5. Range(u) \subseteq Range(s) \cup {k}
    BY <2>3, <2>4 DEF Range
  <2>6. QED
    BY <2>2, <2>4, <2>5
<1>3. QED
  BY <1>1, <1>2

\* Trimming bounds the length and adds no key.
LEMMA TrimmedKeys ==
  ASSUME NEW s \in Seq(Key)
  PROVE  /\ Trimmed(s) \in Seq(Key)
         /\ Range(Trimmed(s)) \subseteq Range(s)
         /\ Len(Trimmed(s)) <= MaxEntries
<1>1. CASE Len(s) > MaxEntries
  <2> DEFINE u == SubSeq(s, Len(s) - MaxEntries + 1, Len(s))
  <2>1. /\ u \in Seq(Key) /\ Len(u) = MaxEntries
        /\ \A j \in 1..MaxEntries : u[j] = s[Len(s) - MaxEntries + j]
    BY <1>1, CacheAssumption
  <2>2. \A j \in 1..MaxEntries : Len(s) - MaxEntries + j \in 1..Len(s)
    BY <1>1, CacheAssumption
  <2>t. Trimmed(s) = u
    BY <1>1 DEF Trimmed
  <2> HIDE DEF u
  <2>3. Range(u) \subseteq Range(s)
    <3>1. DOMAIN u = 1..MaxEntries /\ DOMAIN s = 1..Len(s)
      BY <2>1
    <3>2. \A j \in DOMAIN u : u[j] \in Range(s)
      BY <2>1, <2>2, <3>1 DEF Range
    <3>3. QED
      BY <3>2 DEF Range
  <2>4. Len(u) <= MaxEntries
    BY <2>1, CacheAssumption
  <2>5. QED
    BY <2>1, <2>3, <2>4, <2>t
<1>2. CASE ~(Len(s) > MaxEntries)
  BY <1>2, CacheAssumption DEF Trimmed
<1>3. QED
  BY <1>1, <1>2

-----------------------------------------------------------------------------
(* The inductive invariant: TypeOK, SingleFlight, NoLostWakeup, and that a    *)
(* flight that is not done has a builder, on which a woken thread relies when *)
(* it goes back to sleep.                                                     *)
FlightsHaveBuilders ==
  \A f \in Flight :
    flights[f] = "building" =>
      \E u \in Thread : threads[u].pc = "building" /\ threads[u].flight = f

IInv == TypeOK /\ SingleFlight /\ NoLostWakeup /\ FlightsHaveBuilders

LEMMA ThreadTypes ==
  ASSUME NEW s \in {Idle} \cup Building \cup Waiting
  PROVE  /\ s.pc = "idle" <=> s = Idle
         /\ s.pc = "building" => s \in Building
         /\ s.pc = "waiting" => s \in Waiting
         /\ s.pc \in {"idle", "building", "waiting"}
  BY DEF Idle, Building, Waiting

LEMMA InitInv == Init => IInv
<1> SUFFICES ASSUME Init PROVE IInv
  OBVIOUS
<1>1. TypeOK
  BY CacheAssumption DEF Init, TypeOK, Outcome
<1>2. QED
  BY <1>1 DEF Init, IInv, SingleFlight, NoLostWakeup, FlightsHaveBuilders, Builds, Idle

LEMMA HitInv ==
  ASSUME NEW t \in Thread, NEW k \in Key, IInv, Hit(t, k)
  PROVE  IInv'
<1>1. k \in Range(values) /\ values \in Seq(Key)
  BY DEF Hit, Cached, IInv, TypeOK
<1>2. TypeOK'
  BY <1>1, UsedKeys DEF Hit, IInv, TypeOK
<1>3. \A j \in Key : Cached(j)' => Cached(j)
  BY <1>1, UsedKeys DEF Hit, Cached
<1>4. QED
  BY <1>2, <1>3 DEF Hit, IInv, SingleFlight, NoLostWakeup, FlightsHaveBuilders, Builds

LEMMA JoinInv ==
  ASSUME NEW t \in Thread, NEW k \in Key, IInv, Join(t, k)
  PROVE  IInv'
<1> DEFINE f == pending[k]
<1>1. f \in Flight
  BY DEF Join, IInv, TypeOK
<1>2. TypeOK'
  BY <1>1 DEF Join, IInv, TypeOK, Waiting
<1>3. /\ threads[t].pc = "idle"
      /\ threads'[t] = [pc |-> "waiting", flight |-> f]
      /\ \A u \in Thread \ {t} : threads'[u] = threads[u]
  BY DEF Join, IInv, TypeOK, Idle
<1>4. \A u \in Thread, j \in Key : Builds(u, j)' <=> Builds(u, j)
  BY <1>3 DEF Builds
<1>5. SingleFlight'
  <2>1. \A u \in Thread, j \in Key : Builds(u, j) => threads'[u] = threads[u]
    BY <1>3 DEF Builds
  <2>2. QED
    BY <1>4, <2>1 DEF Join, IInv, SingleFlight, Cached
<1>6. PICK u \in Thread : threads[u].pc = "building" /\ threads[u].flight = f
  BY <1>1, CacheAssumption DEF Join, IInv, SingleFlight, Builds
<1>7. NoLostWakeup'
  BY <1>3, <1>6 DEF Join, IInv, TypeOK, NoLostWakeup
<1>8. FlightsHaveBuilders'
  BY <1>3 DEF Join, IInv, FlightsHaveBuilders
<1>9. QED
  BY <1>2, <1>5, <1>7, <1>8 DEF IInv

LEMMA MissInv ==
  ASSUME NEW t \in Thread, NEW k \in Key, IInv, Miss(t, k)
  PROVE  IInv'
<1>1. PICK f \in Flight :
        /\ Free(f)
        /\ threads' = [threads EXCEPT ![t] = [pc |-> "building", key |-> k, flight |-> f]]
        /\ pending' = [pending EXCEPT ![k] = f]
        /\ flights' = [flights EXCEPT ![f] = "building"]
  BY DEF Miss
<1>2. TypeOK'
  BY <1>1 DEF Miss, IInv, TypeOK, Building, Outcome
<1>3. /\ threads[t].pc = "idle"
      /\ threads'[t] = [pc |-> "building", key |-> k, flight |-> f]
      /\ \A u \in Thread \ {t} : threads'[u] = threads[u]
  BY <1>1 DEF Miss, IInv, TypeOK, Idle
<1>4. \A u \in Thread : ~Builds(u, k)
  BY CacheAssumption, ThreadTypes DEF Miss, IInv, TypeOK, SingleFlight, Builds, Building
<1>5. SingleFlight'
  <2>1. \A u \in Thread, j \in Key :
          Builds(u, j)' => IF u = t THEN j = k ELSE j # k /\ Builds(u, j) /\ threads'[u] = threads[u]
    BY <1>3, <1>4 DEF Builds
  <2>2. /\ pending'[k] = f /\ threads'[t].flight = f /\ Builds(t, k)'
        /\ \A j \in Key \ {k} : pending'[j] = pending[j]
    BY <1>1, <1>3 DEF IInv, TypeOK, Builds
  <2>3. \A j \in Key : Cached(j)' <=> Cached(j)
    BY DEF Miss, Cached
  <2>4. ~Cached(k)
    BY DEF Miss
  <2>5. \A u \in Thread, j \in Key : u # t /\ Builds(u, j) => Builds(u, j)'
    BY <1>3 DEF Builds
  <2>6. \A j \in Key \ {k} : pending[j] # None => \E u \in Thread : u # t /\ Builds(u, j)
    BY <1>3 DEF IInv, SingleFlight, Builds
  <2>7. QED
    BY <2>1, <2>2, <2>3, <2>4, <2>5, <2>6 DEF IInv, SingleFlight
<1>6. NoLostWakeup'
  <2> SUFFICES ASSUME NEW w \in asleep
               PROVE  /\ threads'[w].pc = "waiting"
                      /\ \E u \in Thread : /\ threads'[u].pc = "building"
                                           /\ threads'[u].flight = threads'[w].flight
    BY DEF Miss, NoLostWakeup
  <2>1. w \in Thread /\ w # t /\ threads[w].pc = "waiting"
    BY <1>3 DEF IInv, TypeOK, NoLostWakeup
  <2>2. PICK u \in Thread : threads[u].pc = "building" /\ threads[u].flight = threads[w].flight
    BY DEF IInv, NoLostWakeup
  <2>3. QED
    BY <1>3, <2>1, <2>2
<1>7. FlightsHaveBuilders'
  <2> SUFFICES ASSUME NEW g \in Flight, flights'[g] = "building"
               PROVE  \E u \in Thread : threads'[u].pc = "building" /\ threads'[u].flight = g
    BY DEF FlightsHaveBuilders
  <2>1. CASE g = f
    BY <1>3, <2>1
  <2>2. CASE g # f
    BY <1>1, <1>3, <2>2 DEF IInv, TypeOK, FlightsHaveBuilders
  <2>3. QED
    BY <2>1, <2>2
<1>8. QED
  BY <1>2, <1>5, <1>6, <1>7 DEF IInv

LEMMA LandInv ==
  ASSUME NEW t \in Thread, NEW o \in {"value", "error"}, IInv, Land(t, o),
         values' \in Seq(Key), Len(values') <= MaxEntries,
         Range(values') \subseteq Range(values) \cup {threads[t].key}
  PROVE  IInv'
<1> DEFINE k == threads[t].key
           f == threads[t].flight
<1>1. threads[t].pc = "building" /\ k \in Key /\ f \in Flight
  BY ThreadTypes DEF Land, IInv, TypeOK, Building
<1>2. TypeOK'
  BY <1>1 DEF Land, NotifyAll, IInv, TypeOK, Outcome
<1>3. /\ threads'[t].pc = "idle"
      /\ \A u \in Thread \ {t} : threads'[u] = threads[u]
      /\ \A j \in Key : pending'[j] = IF j = k THEN None ELSE pending[j]
      /\ \A g \in Flight : flights'[g] = IF g = f THEN o ELSE flights[g]
      /\ asleep' = {}
  BY <1>1 DEF Land, NotifyAll, IInv, TypeOK, Idle
<1>4. Builds(t, k)
  BY <1>1 DEF Builds
<1>5. \A u \in Thread, j \in Key : Builds(u, j)' <=> u # t /\ Builds(u, j)
  BY <1>3 DEF Builds
<1>6. \A u \in Thread : u # t => ~Builds(u, k)
  BY <1>1, <1>4 DEF IInv, SingleFlight
<1>7. \A j \in Key \ {k} : Cached(j)' => Cached(j)
  BY DEF Cached
<1>8. SingleFlight'
  <2>1. \A j \in Key : \A u, w \in Thread : Builds(u, j)' /\ Builds(w, j)' => u = w
    BY <1>5 DEF IInv, SingleFlight
  <2>2. \A j \in Key, u \in Thread : Builds(u, j)' => ~Cached(j)' /\ pending'[j] = threads'[u].flight
    BY <1>3, <1>5, <1>6, <1>7 DEF IInv, SingleFlight
  <2>3. \A j \in Key : pending'[j] # None => \E u \in Thread : Builds(u, j)'
    <3> SUFFICES ASSUME NEW j \in Key, j # k, pending[j] # None
                 PROVE  \E u \in Thread : Builds(u, j)'
      BY <1>3
    <3>1. PICK u \in Thread : Builds(u, j)
      BY DEF IInv, SingleFlight
    <3>2. u # t
      BY <3>1 DEF Builds
    <3>3. QED
      BY <1>5, <3>1, <3>2
  <2>4. QED
    BY <2>1, <2>2, <2>3 DEF SingleFlight
<1>9. NoLostWakeup'
  BY <1>3 DEF NoLostWakeup
<1>10. FlightsHaveBuilders'
  <2> SUFFICES ASSUME NEW g \in Flight, flights'[g] = "building"
               PROVE  \E u \in Thread : threads'[u].pc = "building" /\ threads'[u].flight = g
    BY DEF FlightsHaveBuilders
  <2>1. g # f /\ flights[g] = "building"
    BY <1>3
  <2>2. PICK u \in Thread : threads[u].pc = "building" /\ threads[u].flight = g
    BY <2>1 DEF IInv, FlightsHaveBuilders
  <2>3. QED
    BY <1>3, <2>1, <2>2
<1>11. QED
  BY <1>2, <1>8, <1>9, <1>10 DEF IInv

LEMMA SucceedInv ==
  ASSUME NEW t \in Thread, IInv, Succeed(t)
  PROVE  IInv'
<1>1. threads[t].key \in Key /\ values \in Seq(Key)
  BY ThreadTypes DEF Succeed, Land, IInv, TypeOK, Building
<1>2. /\ values' \in Seq(Key) /\ Len(values') <= MaxEntries
      /\ Range(values') \subseteq Range(values) \cup {threads[t].key}
  BY <1>1, UsedKeys, TrimmedKeys DEF Succeed
<1>3. QED
  BY <1>2, LandInv DEF Succeed

LEMMA FailInv ==
  ASSUME NEW t \in Thread, IInv, Fail(t)
  PROVE  IInv'
  BY LandInv DEF Fail, IInv, TypeOK

LEMMA WakeInv ==
  ASSUME NEW t \in Thread, IInv, Wake(t)
  PROVE  IInv'
<1>1. threads[t].pc = "waiting" /\ threads[t].flight \in Flight /\ t \notin asleep
  BY ThreadTypes DEF Wake, IInv, TypeOK, Waiting
<1>2. CASE flights[threads[t].flight] = "building"
  <2>1. TypeOK'
    BY <1>2 DEF Wake, IInv, TypeOK
  <2>2. NoLostWakeup'
    BY <1>1, <1>2 DEF Wake, IInv, NoLostWakeup, FlightsHaveBuilders
  <2>3. QED
    BY <1>2, <2>1, <2>2 DEF Wake, IInv, SingleFlight, FlightsHaveBuilders, Builds, Cached
<1>3. CASE flights[threads[t].flight] # "building"
  <2>1. TypeOK'
    BY <1>3 DEF Wake, IInv, TypeOK
  <2>2. /\ threads'[t].pc = "idle" /\ UNCHANGED <<values, pending, flights, asleep>>
        /\ \A u \in Thread \ {t} : threads'[u] = threads[u]
    BY <1>3 DEF Wake, IInv, TypeOK, Idle
  <2>3. \A u \in Thread, j \in Key : Builds(u, j)' <=> Builds(u, j)
    BY <1>1, <2>2 DEF Builds
  <2>4. \A u \in Thread, j \in Key : Builds(u, j) => threads'[u] = threads[u]
    BY <1>1, <2>2 DEF Builds
  <2>5. SingleFlight'
    BY <2>2, <2>3, <2>4 DEF IInv, SingleFlight, Cached
  <2>6. \A u \in Thread : threads[u].pc = "building" => threads'[u] = threads[u]
    BY <1>1, <2>2
  <2>7. FlightsHaveBuilders'
    BY <2>2, <2>6 DEF IInv, FlightsHaveBuilders
  <2>8. NoLostWakeup'
    BY <1>1, <2>2, <2>6 DEF IInv, TypeOK, NoLostWakeup
  <2>9. QED
    BY <2>1, <2>5, <2>7, <2>8 DEF IInv
<1>4. QED
  BY <1>2, <1>3

LEMMA ClearInv == IInv /\ Clear => IInv'
<1> SUFFICES ASSUME IInv, Clear PROVE IInv'
  OBVIOUS
<1>1. TypeOK'
  BY CacheAssumption DEF Clear, IInv, TypeOK
<1>2. QED
  BY <1>1 DEF Clear, IInv, SingleFlight, NoLostWakeup, FlightsHaveBuilders, Builds, Cached, Range

LEMMA NextInv == IInv /\ [Next]_vars => IInv'
<1> SUFFICES ASSUME IInv, [Next]_vars PROVE IInv'
  OBVIOUS
<1>1. CASE Clear
  BY <1>1, ClearInv
<1>2. ASSUME NEW t \in Thread, Call(t) PROVE IInv'
  BY <1>2, HitInv, JoinInv, MissInv DEF Call
<1>3. ASSUME NEW t \in Thread, Return(t) PROVE IInv'
  BY <1>3, SucceedInv, FailInv, WakeInv DEF Return
<1>4. CASE UNCHANGED vars
  BY <1>4 DEF vars, IInv, TypeOK, SingleFlight, NoLostWakeup, FlightsHaveBuilders, Builds, Cached
<1>5. QED
  BY <1>1, <1>2, <1>3, <1>4 DEF Next

LEMMA SpecInv == Spec => []IInv
  BY InitInv, NextInv, PTL DEF Spec

-----------------------------------------------------------------------------
\* The cache stays within its bound for any number of threads and keys.
THEOREM TypeCorrect == Spec => []TypeOK
<1>1. IInv => TypeOK
  BY DEF IInv
<1>2. QED
  BY <1>1, SpecInv, PTL

\* Threads that miss the same key share one builder, whatever is evicted,
\* cleared or fails meanwhile.
THEOREM OneBuilder == Spec => []SingleFlight
<1>1. IInv => SingleFlight
  BY DEF IInv
<1>2. QED
  BY <1>1, SpecInv, PTL

\* A thread sleeps only while its own flight has a builder to wake it.
THEOREM NoWakeupIsLost == Spec => []NoLostWakeup
<1>1. IInv => NoLostWakeup
  BY DEF IInv
<1>2. QED
  BY <1>1, SpecInv, PTL

-----------------------------------------------------------------------------
(* The output of the harnesses, for every length of a stream, every number of     *)
(* messages, parts and subagents and every text.                                  *)

Kind == {"started", "completed", "failed", "cancelled", "step_start", "text", "step_finish",
         "error", "SUCCESS", "ERROR", "output"}
Written == Text \cup {Void, "stop", "tool-calls", "length"}
Emitted == [kind : Kind, who : {"root", "sub"}, message : Nat, part : Nat, value : Written]

IsDecoding(upto, s, m) ==
  upto = [n \in 0..m |-> IF n = 0 THEN Blank
                         ELSE IF s[n].who # s[1].who THEN upto[n - 1] ELSE Decode(upto[n - 1], s[n])]

\* The recursion of the decoder has a solution: one for n events extends to n + 1.
LEMMA DecodingIs ==
  ASSUME NEW s, Len(s) \in Nat
  PROVE  IsDecoding(Decoding(s), s, Len(s))
<1> DEFINE P == {m \in Nat : \E upto : IsDecoding(upto, s, m)}
<1>1. 0 \in P
  <2> DEFINE upto == [n \in 0..0 |-> Blank]
  <2>1. IsDecoding(upto, s, 0)
    BY DEF IsDecoding
  <2>2. QED
    BY <2>1
<1>2. ASSUME NEW m \in Nat, m \in P
      PROVE  m + 1 \in P
  <2>1. PICK upto : IsDecoding(upto, s, m)
    BY <1>2
  <2> DEFINE next == IF s[m + 1].who # s[1].who THEN upto[m] ELSE Decode(upto[m], s[m + 1])
             more == [n \in 0..m + 1 |-> IF n = m + 1 THEN next ELSE upto[n]]
  <2>2. \A n \in 0..m : more[n] = upto[n]
    BY <1>2
  <2>3. ASSUME NEW n \in 0..m + 1
        PROVE  more[n] = IF n = 0 THEN Blank
                         ELSE IF s[n].who # s[1].who THEN more[n - 1] ELSE Decode(more[n - 1], s[n])
    <3>1. CASE n = m + 1
      <4>1. more[n - 1] = upto[m] /\ n # 0
        BY <1>2, <2>2, <3>1
      <4>2. more[n] = next
        BY <3>1
      <4>3. QED
        BY <3>1, <4>1, <4>2
    <3>2. CASE n # m + 1
      <4>1. n \in 0..m /\ (n # 0 => n - 1 \in 0..m)
        BY <1>2, <3>2
      <4>2. upto[n] = IF n = 0 THEN Blank
                      ELSE IF s[n].who # s[1].who THEN upto[n - 1] ELSE Decode(upto[n - 1], s[n])
        BY <2>1, <4>1 DEF IsDecoding
      <4> HIDE DEF more
      <4>3. QED
        BY <2>2, <4>1, <4>2
    <3>3. QED
      BY <3>1, <3>2
  <2>4. more = [n \in 0..m + 1 |-> IF n = 0 THEN Blank
                 ELSE IF s[n].who # s[1].who THEN more[n - 1] ELSE Decode(more[n - 1], s[n])]
    <3>1. more = [n \in 0..m + 1 |-> more[n]]
      OBVIOUS
    <3> HIDE DEF more
    <3>2. QED
      BY <2>3, <3>1
  <2> HIDE DEF more
  <2>5. IsDecoding(more, s, m + 1)
    BY <2>4 DEF IsDecoding
  <2>6. QED
    BY <2>5
<1> HIDE DEF P
<1>3. Len(s) \in P
  BY <1>1, <1>2, Upward
<1>4. \E upto : IsDecoding(upto, s, Len(s))
  BY <1>3 DEF P
<1>5. Decoding(s) = CHOOSE upto : IsDecoding(upto, s, Len(s))
  BY DEF Decoding, IsDecoding
<1>6. QED
  BY <1>4, <1>5

\* What has been decoded of a stream.
Current(s) == Decoding(s)[Len(s)]

LEMMA NothingDecoded == Current(<<>>) = Blank
<1>1. Len(<<>>) = 0 /\ Len(<<>>) \in Nat
  OBVIOUS
<1>2. IsDecoding(Decoding(<<>>), <<>>, 0)
  BY <1>1, DecodingIs
<1>3. QED
  BY <1>1, <1>2 DEF IsDecoding, Current

LEMMA OneMoreDecoded ==
  ASSUME NEW s \in Seq(Emitted), NEW e \in Emitted
  PROVE  Current(Append(s, e)) =
           IF s # <<>> /\ e.who # s[1].who THEN Current(s) ELSE Decode(Current(s), e)
<1> DEFINE t == Append(s, e)
           before == Decoding(s)
           after == Decoding(t)
           P == {n \in 0..Len(s) : before[n] = after[n]}
<1>1. Len(s) \in Nat /\ Len(t) = Len(s) + 1 /\ Len(t) \in Nat /\ t[Len(s) + 1] = e
  OBVIOUS
<1>2. \A n \in 1..Len(s) : t[n] = s[n]
  OBVIOUS
<1>3. t[1] = IF s = <<>> THEN e ELSE s[1]
  <2>1. CASE s = <<>>
    BY <2>1
  <2>2. CASE s # <<>>
    <3>1. 1 \in 1..Len(s)
      BY <2>2
    <3>2. QED
      BY <1>2, <2>2, <3>1
  <2>3. QED
    BY <2>1, <2>2
<1>4. IsDecoding(before, s, Len(s)) /\ IsDecoding(after, t, Len(t))
  BY <1>1, DecodingIs
<1> HIDE DEF before, after, t
<1>5. 0 \in P
  <2>1. 0 \in 0..Len(s) /\ 0 \in 0..Len(t)
    BY <1>1
  <2>2. before[0] = Blank /\ after[0] = Blank
    BY <1>4, <2>1 DEF IsDecoding
  <2>3. QED
    BY <2>1, <2>2
<1>6. ASSUME NEW n \in 0..Len(s), n + 1 \in 0..Len(s), n \in P
      PROVE  n + 1 \in P
  <2>1. n + 1 \in 0..Len(t) /\ n + 1 # 0 /\ (n + 1) - 1 = n /\ n + 1 \in 1..Len(s)
    BY <1>1, <1>6
  <2>2. s # <<>> /\ t[n + 1] = s[n + 1] /\ t[1] = s[1]
    BY <1>2, <1>3, <2>1
  <2>3. before[n + 1] = IF s[n + 1].who # s[1].who THEN before[n] ELSE Decode(before[n], s[n + 1])
    BY <1>4, <1>6, <2>1 DEF IsDecoding
  <2>4. after[n + 1] = IF t[n + 1].who # t[1].who THEN after[n] ELSE Decode(after[n], t[n + 1])
    BY <1>4, <2>1 DEF IsDecoding
  <2>5. QED
    BY <1>6, <2>2, <2>3, <2>4
<1> HIDE DEF P
<1>7. Len(s) \in P
  <2>1. \A n \in 0..Len(s) : n \in P
    BY <1>1, <1>5, <1>6, UpTo
  <2>2. QED
    BY <1>1, <2>1
<1>8. after[Len(s)] = Current(s)
  BY <1>7 DEF P, Current, before
<1>9. after[Len(t)] = IF e.who # t[1].who THEN after[Len(s)] ELSE Decode(after[Len(s)], e)
  <2>1. Len(t) \in 0..Len(t) /\ Len(t) # 0 /\ Len(t) - 1 = Len(s)
    BY <1>1
  <2>2. QED
    BY <1>1, <1>4, <2>1 DEF IsDecoding
<1>10. QED
  BY <1>3, <1>8, <1>9 DEF Current, after, t

\* The parts of a message, numbered as they were written.
Numbered(ps) == [i \in DOMAIN ps |-> [part |-> i, value |-> ps[i]]]

PartsOf(ps) == IF ps = <<>> THEN <<>> ELSE Numbered(ps)
With(ps, n, v) == IF n > Len(ps) THEN Append(ps, v) ELSE [ps EXCEPT ![n] = v]

LEMMA WithIs ==
  ASSUME NEW ps \in Seq(Written), NEW n \in 1..(Len(ps) + 1), NEW v \in Written
  PROVE  /\ With(ps, n, v) \in Seq(Written) /\ With(ps, n, v) # <<>>
         /\ Len(With(ps, n, v)) = IF n > Len(ps) THEN n ELSE Len(ps)
         /\ \A i \in 1..Len(With(ps, n, v)) : With(ps, n, v)[i] = IF i = n THEN v ELSE ps[i]
<1>1. Len(ps) \in Nat /\ n \in Nat /\ DOMAIN ps = 1..Len(ps)
  OBVIOUS
<1>2. CASE n > Len(ps)
  <2> DEFINE qs == Append(ps, v)
  <2>1. n = Len(ps) + 1 /\ With(ps, n, v) = qs
    BY <1>1, <1>2 DEF With
  <2>2. qs \in Seq(Written) /\ Len(qs) = Len(ps) + 1
    OBVIOUS
  <2>3. \A i \in 1..Len(ps) : qs[i] = ps[i]
    OBVIOUS
  <2>4. qs[Len(ps) + 1] = v
    OBVIOUS
  <2> HIDE DEF qs
  <2>5. qs # <<>>
    BY <1>1, <2>2
  <2>6. \A i \in 1..Len(qs) : qs[i] = IF i = n THEN v ELSE ps[i]
    BY <1>1, <2>1, <2>2, <2>3, <2>4
  <2>7. QED
    BY <1>2, <2>1, <2>2, <2>5, <2>6
<1>3. CASE ~(n > Len(ps))
  <2> DEFINE qs == [ps EXCEPT ![n] = v]
  <2>1. n \in 1..Len(ps) /\ With(ps, n, v) = qs
    BY <1>1, <1>3 DEF With
  <2>2. qs \in Seq(Written) /\ Len(qs) = Len(ps)
    BY <1>1, <2>1
  <2>3. \A i \in 1..Len(ps) : qs[i] = IF i = n THEN v ELSE ps[i]
    BY <1>1, <2>1
  <2> HIDE DEF qs
  <2>4. qs # <<>>
    BY <1>1, <2>1, <2>2
  <2>5. QED
    BY <1>3, <2>1, <2>2, <2>3, <2>4
<1>4. QED
  BY <1>2, <1>3

LEMMA PartsOfIs ==
  ASSUME NEW ps \in Seq(Written)
  PROVE  /\ DOMAIN PartsOf(ps) = 1..Len(ps)
         /\ PartsOf(ps) \in Seq([part : Nat, value : Written]) /\ Len(PartsOf(ps)) = Len(ps)
         /\ \A i \in 1..Len(ps) : PartsOf(ps)[i] = [part |-> i, value |-> ps[i]]
<1>1. CASE ps = <<>>
  BY <1>1 DEF PartsOf
<1>2. CASE ps # <<>>
  <2>1. PartsOf(ps) = [i \in 1..Len(ps) |-> [part |-> i, value |-> ps[i]]]
    BY <1>2 DEF PartsOf, Numbered
  <2>2. \A i \in 1..Len(ps) : [part |-> i, value |-> ps[i]] \in [part : Nat, value : Written]
    OBVIOUS
  <2>3. Len(ps) \in Nat
    OBVIOUS
  <2>4. QED
    BY <2>1, <2>2, <2>3
<1>3. QED
  BY <1>1, <1>2

LEMMA RevisedIs ==
  ASSUME NEW ps \in Seq(Written), NEW n \in 1..(Len(ps) + 1), NEW v \in Written
  PROVE  Revised(PartsOf(ps), [part |-> n, value |-> v]) = Numbered(With(ps, n, v))
<1> DEFINE old == PartsOf(ps)
           new == [part |-> n, value |-> v]
           there == {i \in DOMAIN old : old[i].part = n}
           qs == With(ps, n, v)
           later == IF there = {} THEN Append(old, new) ELSE [i \in DOMAIN old |-> IF i \in there THEN new ELSE old[i]]
<1>1. Len(ps) \in Nat /\ n \in Nat /\ new.part = n /\ new \in [part : Nat, value : Written]
  OBVIOUS
<1>2. /\ DOMAIN old = 1..Len(ps) /\ old \in Seq([part : Nat, value : Written]) /\ Len(old) = Len(ps)
      /\ \A i \in 1..Len(ps) : old[i] = [part |-> i, value |-> ps[i]]
  BY PartsOfIs
<1>3. /\ qs \in Seq(Written) /\ Len(qs) = (IF n > Len(ps) THEN n ELSE Len(ps))
      /\ \A i \in 1..Len(qs) : qs[i] = IF i = n THEN v ELSE ps[i]
  BY WithIs
<1>4. Revised(old, new) = later
  BY <1>1 DEF Revised
<1>5. Numbered(qs) = [i \in 1..Len(qs) |-> [part |-> i, value |-> qs[i]]]
  BY <1>3 DEF Numbered
<1> HIDE DEF old, qs
<1>6. \A i \in 1..Len(ps) : old[i].part = i
  BY <1>2
<1>7. CASE n > Len(ps)
  <2>1. n = Len(ps) + 1 /\ Len(qs) = n
    BY <1>1, <1>3, <1>7
  <2>2. there = {}
    BY <1>1, <1>2, <1>6, <1>7
  <2> DEFINE longer == Append(old, new)
  <2>3. longer \in Seq([part : Nat, value : Written]) /\ Len(longer) = n /\ longer[n] = new
    BY <1>1, <1>2, <2>1
  <2>4. \A i \in 1..Len(ps) : longer[i] = old[i]
    BY <1>1, <1>2
  <2>5. \A i \in 1..n : longer[i] = [part |-> i, value |-> qs[i]]
    <3> HIDE DEF longer, there
    <3>1. TAKE i \in 1..n
    <3>2. CASE i = n
      BY <1>1, <1>3, <2>1, <2>3, <3>2
    <3>3. CASE i # n
      <4>1. i \in 1..Len(ps) /\ i \in 1..Len(qs)
        BY <1>1, <2>1, <3>3
      <4>2. longer[i] = [part |-> i, value |-> ps[i]] /\ qs[i] = ps[i]
        BY <1>2, <1>3, <2>4, <3>3, <4>1
      <4>3. QED
        BY <4>2
    <3>4. QED
      BY <3>2, <3>3
  <2>6. later = longer
    BY <2>2
  <2> HIDE DEF longer, later, there, new
  <2>7. longer = [i \in 1..n |-> [part |-> i, value |-> qs[i]]]
    BY <1>1, <2>3, <2>5
  <2>8. QED
    BY <1>4, <1>5, <2>1, <2>6, <2>7 DEF old, qs, new
<1>8. CASE ~(n > Len(ps))
  <2>1. n \in 1..Len(ps) /\ Len(qs) = Len(ps)
    BY <1>1, <1>3, <1>8
  <2>2. there = {n}
    BY <1>1, <1>2, <1>6, <2>1
  <2>3. later = [i \in 1..Len(ps) |-> IF i \in there THEN new ELSE old[i]]
    BY <1>2, <2>2
  <2>4. \A i \in 1..Len(ps) : (IF i \in there THEN new ELSE old[i]) = [part |-> i, value |-> qs[i]]
    <3>1. TAKE i \in 1..Len(ps)
    <3>2. qs[i] = (IF i = n THEN v ELSE ps[i]) /\ old[i] = [part |-> i, value |-> ps[i]]
      BY <1>2, <1>3, <2>1
    <3>3. i \in there <=> i = n
      BY <2>2
    <3> HIDE DEF there
    <3>4. QED
      BY <3>2, <3>3
  <2> HIDE DEF later, there, new
  <2>5. later = [i \in 1..Len(ps) |-> [part |-> i, value |-> qs[i]]]
    BY <2>3, <2>4
  <2>6. QED
    BY <1>4, <1>5, <2>1, <2>5 DEF old, qs, new
<1>9. QED
  BY <1>7, <1>8

\* The decoder's texts are the parts of the root agent's message under way.
Holds(texts, r) ==
  /\ \A m \in DOMAIN texts : m \in Nat /\ m <= r.message
  /\ r.message \in DOMAIN texts <=> r.parts # <<>>
  /\ r.message \in DOMAIN texts => texts[r.message] = Numbered(r.parts)

\* The decoder follows the root agent.
Follows(d, r) ==
  /\ d = [current |-> d.current, terminal |-> d.terminal, reason |-> d.reason, texts |-> d.texts, bad |-> d.bad]
  /\ d.bad \in BOOLEAN
  /\ r.state = "unborn" => d = Blank /\ r.message = 0
  /\ r.state # "unborn" => r.message # 0
  /\ r.state \in {"open", "paused", "answered"} => d.bad = FALSE /\ d.current = r.message /\ Holds(d.texts, r)
  /\ r.state = "open" => d.terminal = 0
  /\ r.state = "paused" => d.terminal = r.message /\ d.reason = "tool-calls"
  /\ r.state = "answered" => d.terminal = r.message /\ d.reason = "stop" /\ r.parts # <<>>
  /\ r.state = "failed" => d.bad = TRUE \/ d.reason # "stop" \/ d.terminal \notin DOMAIN d.texts

State == {"unborn", "open", "paused", "answered", "failed"}
RootRow == [state : State, message : Nat, parts : Seq(Written)]

LEMMA StepFollows ==
  ASSUME NEW d, NEW r \in RootRow, Follows(d, r), r.state \in {"unborn", "paused", "answered"},
         NEW e \in Emitted, e.kind = "step_start", e.message = r.message + 1,
         NEW q, q = [state |-> "open", message |-> r.message + 1, parts |-> <<>>]
  PROVE  Follows(Decode(d, e), q)
<1> DEFINE later == Decode(d, e)
<1>1. d = [current |-> d.current, terminal |-> d.terminal, reason |-> d.reason, texts |-> d.texts, bad |-> d.bad]
      /\ d.bad = FALSE
  BY DEF Follows, Blank
<1>2. later = [d EXCEPT !.current = e.message, !.terminal = 0, !.reason = Void]
  BY <1>1 DEF Decode
<1>3. later = [current |-> r.message + 1, terminal |-> 0, reason |-> Void, texts |-> d.texts, bad |-> FALSE]
  BY <1>1, <1>2
<1>4. \A m \in DOMAIN d.texts : m \in Nat /\ m <= r.message
  <2>1. CASE r.state = "unborn"
    BY <2>1 DEF Follows, Blank
  <2>2. CASE r.state # "unborn"
    BY <2>2 DEF Follows, Holds
  <2>3. QED
    BY <2>1, <2>2
<1>5. r.message \in Nat
  BY DEF RootRow
<1> HIDE DEF later
<1>6. Holds(later.texts, q)
  BY <1>3, <1>4, <1>5 DEF Holds
<1>7. QED
  BY <1>3, <1>5, <1>6 DEF Follows, later

LEMMA TextFollows ==
  ASSUME NEW d, NEW r \in RootRow, Follows(d, r), r.state = "open",
         NEW e \in Emitted, e.kind = "text", e.message = r.message, e.part \in 1..(Len(r.parts) + 1),
         NEW ps, ps = With(r.parts, e.part, e.value), NEW q, q = [r EXCEPT !.parts = ps]
  PROVE  q \in RootRow /\ Follows(Decode(d, e), q)
<1> DEFINE later == Decode(d, e)
           parts == IF e.message \in DOMAIN d.texts THEN d.texts[e.message] ELSE <<>>
           new == [part |-> e.part, value |-> e.value]
<1>1. d = [current |-> d.current, terminal |-> d.terminal, reason |-> d.reason, texts |-> d.texts, bad |-> d.bad]
      /\ d.bad = FALSE /\ d.current = r.message /\ Holds(d.texts, r) /\ d.terminal = 0
  BY DEF Follows
<1>2. later = [d EXCEPT !.texts = Collected(d.texts, e)]
  BY <1>1 DEF Decode
<1>3. later = [current |-> r.message, terminal |-> 0, reason |-> d.reason,
               texts |-> Collected(d.texts, e), bad |-> FALSE]
  BY <1>1, <1>2
<1>4. r.message \in Nat /\ r.message # 0 /\ r.parts \in Seq(Written) /\ e.value \in Written
  BY DEF RootRow, Emitted, Follows
<1>5. q = [state |-> "open", message |-> r.message, parts |-> ps]
  BY DEF RootRow
<1>6. parts = PartsOf(r.parts)
  BY <1>1 DEF Holds, PartsOf
<1>7. ps \in Seq(Written) /\ ps # <<>> /\ Revised(parts, new) = Numbered(ps)
  <2> HIDE DEF parts
  <2>1. ps \in Seq(Written) /\ ps # <<>>
    BY <1>4, WithIs
  <2>2. Revised(PartsOf(r.parts), [part |-> e.part, value |-> e.value]) = Numbered(ps)
    BY <1>4, RevisedIs
  <2>3. QED
    BY <1>6, <2>1, <2>2
<1>8. Collected(d.texts, e) = [m \in DOMAIN d.texts \cup {r.message} |->
                                 IF m = r.message THEN Revised(parts, new) ELSE d.texts[m]]
  BY DEF Collected
<1> HIDE DEF later, parts, new
<1>9. Holds(Collected(d.texts, e), q)
  BY <1>1, <1>4, <1>5, <1>7, <1>8 DEF Holds
<1>10. Follows(later, q)
  BY <1>3, <1>4, <1>5, <1>9 DEF Follows
<1>11. q \in RootRow
  BY <1>4, <1>5, <1>7 DEF RootRow, State
<1>12. QED
  BY <1>10, <1>11 DEF later

LEMMA FinishFollows ==
  ASSUME NEW d, NEW r \in RootRow, Follows(d, r), r.state = "open",
         NEW e \in Emitted, e.kind = "step_finish", e.message = r.message,
         NEW state \in State,
         \/ e.value = "stop" /\ r.parts # <<>> /\ state = "answered"
         \/ e.value = "tool-calls" /\ state = "paused"
         \/ e.value # "stop" /\ state = "failed"
         \/ r.parts = <<>> /\ state = "failed",
         NEW q, q = [r EXCEPT !.state = state]
  PROVE  q \in RootRow /\ Follows(Decode(d, e), q)
<1> DEFINE later == Decode(d, e)
<1>1. d = [current |-> d.current, terminal |-> d.terminal, reason |-> d.reason, texts |-> d.texts, bad |-> d.bad]
      /\ d.bad = FALSE /\ d.current = r.message /\ Holds(d.texts, r)
  BY DEF Follows
<1>2. later = [d EXCEPT !.terminal = e.message, !.reason = e.value]
  BY <1>1 DEF Decode
<1>3. later = [current |-> r.message, terminal |-> r.message, reason |-> e.value, texts |-> d.texts, bad |-> FALSE]
  BY <1>1, <1>2
<1>4. q = [state |-> state, message |-> r.message, parts |-> r.parts]
  BY DEF RootRow
<1>5. r.message # 0 /\ r.message \in Nat /\ r.parts \in Seq(Written)
  BY DEF Follows, RootRow
<1> HIDE DEF later
<1>6. Holds(d.texts, q)
  BY <1>1, <1>4 DEF Holds
<1>7. Follows(later, q)
  <2>1. state # "unborn" /\ state # "open"
    OBVIOUS
  <2>2. state = "failed" => later.reason # "stop" \/ later.terminal \notin DOMAIN later.texts
    BY <1>1, <1>3 DEF Holds
  <2>3. QED
    BY <1>3, <1>4, <1>5, <1>6, <2>1, <2>2 DEF Follows
<1>8. QED
  BY <1>4, <1>5, <1>7 DEF RootRow, later

LEMMA ErrorFollows ==
  ASSUME NEW d, NEW r \in RootRow, Follows(d, r), r.state \in {"open", "paused"},
         NEW e \in Emitted, e.kind = "error", NEW q, q = [r EXCEPT !.state = "failed"]
  PROVE  q \in RootRow /\ Follows(Decode(d, e), q)
<1> DEFINE later == Decode(d, e)
<1>1. d = [current |-> d.current, terminal |-> d.terminal, reason |-> d.reason, texts |-> d.texts, bad |-> d.bad]
      /\ d.bad = FALSE
  BY DEF Follows
<1>2. later = [d EXCEPT !.bad = TRUE]
  BY <1>1 DEF Decode
<1>3. later = [current |-> d.current, terminal |-> d.terminal, reason |-> d.reason, texts |-> d.texts, bad |-> TRUE]
  BY <1>1, <1>2
<1>4. q = [state |-> "failed", message |-> r.message, parts |-> r.parts]
  BY DEF RootRow
<1>5. r.message # 0 /\ r.message \in Nat /\ r.parts \in Seq(Written)
  BY DEF Follows, RootRow
<1> HIDE DEF later
<1>6. QED
  BY <1>3, <1>4, <1>5 DEF Follows, RootRow, State, later

\* What OpenCode's stream decodes to.
LEMMA OpencodeDecodes ==
  ASSUME NEW s, NEW r \in RootRow, Follows(Current(s), r)
  PROVE  OpencodeResult(s) = IF r.state = "answered" THEN r.parts ELSE Void
<1> DEFINE d == Current(s)
<1>1. OpencodeResult(s) =
        IF d.bad \/ d.terminal = 0 \/ d.terminal # d.current \/ d.reason # "stop" \/ d.terminal \notin DOMAIN d.texts
        THEN Void ELSE [i \in DOMAIN d.texts[d.terminal] |-> d.texts[d.terminal][i].value]
  BY DEF OpencodeResult, Current
<1> HIDE DEF d
<1>2. r.state \in State
  BY DEF RootRow
<1>3. Follows(d, r)
  BY DEF d
<1>4. CASE r.state = "answered"
  <2>1. /\ d.bad = FALSE /\ d.terminal = r.message /\ r.message # 0 /\ d.current = r.message /\ d.reason = "stop"
        /\ r.message \in DOMAIN d.texts /\ d.texts[r.message] = Numbered(r.parts)
    BY <1>3, <1>4 DEF Follows, Holds
  <2>2. OpencodeResult(s) = [i \in DOMAIN Numbered(r.parts) |-> Numbered(r.parts)[i].value]
    BY <1>1, <2>1
  <2>3. r.parts \in Seq(Written)
    BY DEF RootRow
  <2>4. [i \in DOMAIN Numbered(r.parts) |-> Numbered(r.parts)[i].value] = r.parts
    <3>1. DOMAIN Numbered(r.parts) = DOMAIN r.parts
      BY DEF Numbered
    <3>2. \A i \in DOMAIN r.parts : Numbered(r.parts)[i].value = r.parts[i]
      BY DEF Numbered
    <3>3. r.parts = [i \in DOMAIN r.parts |-> r.parts[i]]
      BY <2>3
    <3>4. QED
      BY <3>1, <3>2, <3>3
  <2>5. QED
    BY <1>4, <2>2, <2>4
<1>5. CASE r.state # "answered"
  <2>1. d.bad = TRUE \/ d.terminal = 0 \/ d.reason # "stop" \/ d.terminal \notin DOMAIN d.texts
    BY <1>2, <1>3, <1>5 DEF Follows, State, Blank
  <2>2. QED
    BY <1>1, <1>5, <2>1
<1>6. QED
  BY <1>4, <1>5

\* Muse: no run of the root agent has ended, or one event ended it.
IsEnd(s, i) == s[i].who = "root" /\ s[i].kind # "started"
Open(s) == \A i \in 1..Len(s) : ~IsEnd(s, i)
EndedBy(s, i) == i \in 1..Len(s) /\ IsEnd(s, i) /\ \A j \in 1..Len(s) : IsEnd(s, j) => j = i
Closed(s, r) == \E i \in 1..Len(s) : /\ EndedBy(s, i) /\ r.parts = <<s[i].value>>
                                     /\ r.state = "answered" <=> s[i].kind = "completed"
MuseStands(s, r) ==
  /\ r.state \in {"unborn", "open", "answered", "failed"}
  /\ r.state = "unborn" => s = <<>>
  /\ r.state # "unborn" => s # <<>> /\ s[1].kind = "started" /\ s[1].who = "root"
  /\ r.state = "open" => Open(s)
  /\ r.state \in {"answered", "failed"} => Closed(s, r)

OpencodeStands(s, r) ==
  /\ r.state = "unborn" <=> s = <<>>
  /\ s # <<>> => s[1].who = "root"
  /\ Follows(Current(s), r)

AgyStands(s, r, note) ==
  /\ r.state \in {"unborn", "answered", "failed"}
  /\ r.state = "unborn" => s = <<>> /\ note = FALSE
  /\ r.state # "unborn" => Len(s) = 1
  /\ r.state = "answered" => note = FALSE /\ s[1].kind = "SUCCESS" /\ s[1].value # Void /\ r.parts = <<s[1].value>>
  /\ r.state = "failed" => note = TRUE \/ s[1].kind # "SUCCESS" \/ s[1].value = Void

CodexStands(s, r) ==
  /\ r.state \in {"unborn", "answered"}
  /\ r.state = "unborn" => s = <<>>
  /\ r.state = "answered" => s # <<>> /\ r.parts = <<s[1].value>>

Stands ==
  /\ harness = "muse" => MuseStands(stream, root)
  /\ harness = "opencode" => OpencodeStands(stream, root)
  /\ harness = "agy" => AgyStands(stream, root, noted)
  /\ harness = "codex" => CodexStands(stream, root)

\* The inductive invariant: the stream and the root agent agree, each harness in its
\* way, nothing is judged before the end, and what is submitted is the answer.
Emits ==
  /\ harness \in {"codex", "muse", "opencode", "agy"}
  /\ stream \in Seq(Emitted) /\ root \in RootRow /\ noted \in BOOLEAN
  /\ Stands
  /\ phase # "over" => outcome = Void
  /\ outcome # Void /\ outcome.does = "submit" => root.state = "answered" /\ outcome.text = root.parts

LEMMA AppendIs ==
  ASSUME NEW s \in Seq(Emitted), NEW e \in Emitted
  PROVE  /\ Append(s, e) \in Seq(Emitted) /\ Append(s, e) # <<>> /\ Len(s) \in Nat
         /\ Len(Append(s, e)) = Len(s) + 1 /\ Append(s, e)[Len(s) + 1] = e
         /\ \A i \in 1..Len(s) : Append(s, e)[i] = s[i]
         /\ s # <<>> => Append(s, e)[1] = s[1]
         /\ s = <<>> => Append(s, e)[1] = e /\ Len(Append(s, e)) = 1
<1> DEFINE t == Append(s, e)
<1>1. t \in Seq(Emitted) /\ Len(t) = Len(s) + 1 /\ Len(s) \in Nat /\ t[Len(s) + 1] = e
  OBVIOUS
<1>2. \A i \in 1..Len(s) : t[i] = s[i]
  OBVIOUS
<1>3. t # <<>>
  <2> HIDE DEF t
  <2>1. QED
    BY <1>1
<1>4. s # <<>> => 1 \in 1..Len(s)
  OBVIOUS
<1>5. s = <<>> => Len(s) = 0
  OBVIOUS
<1> HIDE DEF t
<1>6. QED
  BY <1>1, <1>2, <1>3, <1>4, <1>5 DEF t

\* A run of Muse' root agent starts first, and only it starts the others.
LEMMA MuseStartsStands ==
  ASSUME NEW s \in Seq(Emitted), NEW r \in RootRow, NEW q, MuseStands(s, r),
         NEW e \in Emitted, e.kind = "started",
         \/ e.who = "root" /\ r.state = "unborn" /\ q = [r EXCEPT !.state = "open"]
         \/ e.who = "sub" /\ r.state = "open" /\ q = r
  PROVE  q \in RootRow /\ MuseStands(Append(s, e), q)
<1> DEFINE t == Append(s, e)
<1>1. /\ t # <<>> /\ Len(s) \in Nat /\ Len(t) = Len(s) + 1 /\ t[Len(s) + 1] = e
      /\ \A i \in 1..Len(s) : t[i] = s[i]
      /\ s # <<>> => t[1] = s[1]
      /\ s = <<>> => t[1] = e /\ Len(t) = 1
  BY AppendIs
<1> HIDE DEF t
<1>2. q \in RootRow /\ q.state = "open"
  BY DEF RootRow, State
<1>3. t[1].kind = "started" /\ t[1].who = "root"
  <2>1. CASE r.state = "unborn"
    BY <1>1, <2>1 DEF MuseStands
  <2>2. CASE r.state # "unborn"
    BY <1>1, <2>2 DEF MuseStands
  <2>3. QED
    BY <2>1, <2>2
<1>4. \A i \in 1..Len(s) : ~IsEnd(s, i)
  <2>1. CASE r.state = "unborn"
    <3>1. Len(s) = 0
      BY <2>1 DEF MuseStands
    <3>2. QED
      BY <3>1
  <2>2. CASE r.state # "unborn"
    BY <2>2 DEF MuseStands, Open
  <2>3. QED
    BY <2>1, <2>2
<1>5. Open(t)
  BY <1>1, <1>4 DEF Open, IsEnd
<1>6. QED
  BY <1>1, <1>2, <1>3, <1>5 DEF MuseStands, t

\* What another agent's run comes to does not end the root's; its own event does.
LEMMA MuseEndsStands ==
  ASSUME NEW s \in Seq(Emitted), NEW r \in RootRow, NEW q, MuseStands(s, r), r.state = "open",
         NEW e \in Emitted, e.kind \in {"completed", "failed", "cancelled"},
         \/ e.who = "sub" /\ q = r
         \/ /\ e.who = "root"
            /\ q = [r EXCEPT !.state = IF e.kind = "completed" THEN "answered" ELSE "failed",
                             !.parts = <<e.value>>]
  PROVE  q \in RootRow /\ MuseStands(Append(s, e), q)
<1> DEFINE t == Append(s, e)
<1>1. /\ t # <<>> /\ Len(s) \in Nat /\ Len(t) = Len(s) + 1 /\ t[Len(s) + 1] = e
      /\ \A i \in 1..Len(s) : t[i] = s[i]
      /\ s # <<>> => t[1] = s[1]
  BY AppendIs
<1> HIDE DEF t
<1>2. t[1].kind = "started" /\ t[1].who = "root"
  BY <1>1 DEF MuseStands
<1>3. \A i \in 1..Len(s) : ~IsEnd(t, i)
  BY <1>1 DEF MuseStands, Open, IsEnd
<1>4. CASE e.who = "sub" /\ q = r
  <2>1. ~IsEnd(t, Len(s) + 1)
    BY <1>1, <1>4 DEF IsEnd
  <2>2. Open(t)
    BY <1>1, <1>3, <2>1 DEF Open
  <2>3. QED
    BY <1>1, <1>2, <1>4, <2>2 DEF MuseStands, t
<1>5. CASE e.who = "root"
  <2>1. q = [state |-> IF e.kind = "completed" THEN "answered" ELSE "failed",
             message |-> r.message, parts |-> <<e.value>>]
    BY <1>5 DEF RootRow
  <2>2. e.value \in Written
    BY DEF Emitted
  <2>3. <<e.value>> \in Seq(Written)
    BY <2>2
  <2>4. q \in RootRow
    BY <2>1, <2>3 DEF RootRow, State
  <2>5. EndedBy(t, Len(s) + 1)
    BY <1>1, <1>3, <1>5 DEF EndedBy, IsEnd
  <2>6. Closed(t, q)
    <3>1. Len(s) + 1 \in 1..Len(t)
      BY <1>1
    <3>2. q.parts = <<t[Len(s) + 1].value>>
      BY <1>1, <2>1
    <3>3. q.state = "answered" <=> t[Len(s) + 1].kind = "completed"
      BY <1>1, <2>1
    <3>4. QED
      BY <2>5, <3>1, <3>2, <3>3 DEF Closed
  <2>7. q.state \in {"answered", "failed"}
    BY <2>1
  <2>8. QED
    BY <1>1, <1>2, <2>4, <2>6, <2>7 DEF MuseStands, t
<1>6. QED
  BY <1>4, <1>5

\* What Muse' stream decodes to.
LEMMA MuseDecodes ==
  ASSUME NEW s \in Seq(Emitted), NEW r \in RootRow, MuseStands(s, r)
  PROVE  MuseResult(s) = IF r.state = "answered" THEN r.parts ELSE Void
<1> DEFINE started == {i \in DOMAIN s : s[i].kind = "started"}
           ends == {i \in DOMAIN s : s[i].kind # "started" /\ started # {}
                                     /\ i > Min(started) /\ s[i].who = s[Min(started)].who}
<1>1. MuseResult(s) = IF \E i \in ends : ends = {i} /\ s[i].kind = "completed" THEN <<s[Min(ends)].value>> ELSE Void
  BY DEF MuseResult
<1>2. DOMAIN s = 1..Len(s) /\ Len(s) \in Nat
  OBVIOUS
<1>3. CASE r.state = "unborn"
  <2>1. s = <<>> /\ Len(s) = 0
    BY <1>3 DEF MuseStands
  <2>2. ends = {}
    BY <1>2, <2>1
  <2> HIDE DEF ends
  <2>3. QED
    BY <1>1, <1>3, <2>2
<1>4. CASE r.state # "unborn"
  <2>1. s # <<>> /\ s[1].kind = "started" /\ s[1].who = "root"
    BY <1>4 DEF MuseStands
  <2>2. 1 \in started /\ \A i \in started : 1 <= i /\ i \in Nat
    BY <1>2, <2>1
  <2> HIDE DEF started
  <2>3. Min(started) = 1
    <3>1. \A m \in started : (\A i \in started : m <= i) => m = 1
      BY <2>2
    <3>2. QED
      BY <2>2, <3>1 DEF Min
  <2>4. \A i : i \in ends <=> i \in 1..Len(s) /\ IsEnd(s, i)
    <3>1. \A i : i \in ends <=> i \in 1..Len(s) /\ s[i].kind # "started" /\ i > 1 /\ s[i].who = "root"
      BY <1>2, <2>1, <2>2, <2>3
    <3>2. \A i \in 1..Len(s) : s[i].kind # "started" => i > 1
      BY <1>2, <2>1
    <3> HIDE DEF ends
    <3>3. QED
      BY <3>1, <3>2 DEF IsEnd
  <2> HIDE DEF ends
  <2>5. CASE r.state = "open"
    <3>1. ends = {}
      BY <2>4, <2>5 DEF MuseStands, Open
    <3>2. QED
      BY <1>1, <2>5, <3>1
  <2>6. CASE r.state \in {"answered", "failed"}
    <3>1. PICK i \in 1..Len(s) : /\ EndedBy(s, i) /\ r.parts = <<s[i].value>>
                                 /\ r.state = "answered" <=> s[i].kind = "completed"
      BY <2>6 DEF MuseStands, Closed
    <3>2. ends = {i}
      BY <2>4, <3>1 DEF EndedBy
    <3>3. Min(ends) = i
      <4>1. i \in Nat /\ i <= i
        BY <1>2
      <4>2. QED
        BY <3>2, <4>1 DEF Min
    <3>4. (\E j \in ends : ends = {j} /\ s[j].kind = "completed") <=> r.state = "answered"
      BY <3>1, <3>2
    <3>5. QED
      BY <1>1, <3>1, <3>3, <3>4
  <2>7. QED
    BY <1>4, <2>5, <2>6 DEF MuseStands
<1>5. QED
  BY <1>3, <1>4

\* What each harness' process yields when it has ended well, and when it has not.
LEMMA TheAnswerIsDecoded ==
  ASSUME Emits
  PROVE  /\ Decoded(0) = IF root.state = "answered" THEN root.parts ELSE Void
         /\ Decoded(1) = Void
<1>1. stream \in Seq(Emitted) /\ root \in RootRow /\ Stands
  BY DEF Emits
<1>2. CASE harness = "codex"
  <2>1. Decoded(0) = CodexResult(stream) /\ Decoded(1) = Void
    BY <1>2 DEF Decoded, RunCodex
  <2>2. QED
    BY <1>1, <1>2, <2>1 DEF Stands, CodexStands, CodexResult
<1>3. CASE harness = "muse"
  <2>1. Decoded(0) = MuseResult(stream) /\ Decoded(1) = Void
    BY <1>3 DEF Decoded, RunMuse
  <2>2. MuseStands(stream, root)
    BY <1>1, <1>3 DEF Stands
  <2>3. QED
    BY <1>1, <2>1, <2>2, MuseDecodes
<1>4. CASE harness = "opencode"
  <2>1. Decoded(0) = OpencodeResult(stream) /\ Decoded(1) = Void
    BY <1>4 DEF Decoded, RunOpencode
  <2>2. Follows(Current(stream), root)
    BY <1>1, <1>4 DEF Stands, OpencodeStands
  <2>3. QED
    BY <1>1, <2>1, <2>2, OpencodeDecodes
<1>5. CASE harness = "agy"
  <2>1. Decoded(0) = AgyDecoded(stream, noted) /\ Decoded(1) = Void
    BY <1>5 DEF Decoded, RunAgy
  <2>2. AgyStands(stream, root, noted)
    BY <1>1, <1>5 DEF Stands
  <2>3. root.state = "unborn" => Len(stream) = 0
    BY <2>2 DEF AgyStands
  <2>4. QED
    BY <2>1, <2>2, <2>3 DEF AgyStands, AgyDecoded
<1>6. QED
  BY <1>2, <1>3, <1>4, <1>5 DEF Emits

\* While a process runs nothing is judged: the stream and the root agent are what
\* may change.
LEMMA RunningStaysTrue ==
  ASSUME Emits, NEW h, Running(h), UNCHANGED <<harness, phase, outcome>>,
         stream' \in Seq(Emitted), root' \in RootRow, noted' \in BOOLEAN, Stands'
  PROVE  Emits'
<1>1. harness' = harness /\ phase' = phase /\ outcome' = outcome /\ phase = "running" /\ outcome = Void
  BY DEF Emits, Running
<1>2. QED
  BY <1>1 DEF Emits

LEMMA EmitsInitially == OutputInit => Emits
<1> SUFFICES ASSUME OutputInit
             PROVE  Emits
  OBVIOUS
<1>1. stream = <<>> /\ root = NoRoot /\ noted = FALSE /\ outcome = Void
      /\ harness \in {"codex", "muse", "opencode", "agy"}
  BY DEF OutputInit
<1>2. root = [state |-> "unborn", message |-> 0, parts |-> <<>>]
  BY <1>1 DEF NoRoot
<1>3. <<>> \in Seq(Written) /\ <<>> \in Seq(Emitted)
  OBVIOUS
<1>4. root \in RootRow
  BY <1>2, <1>3 DEF RootRow, State
<1>5. Current(stream) = Blank
  BY <1>1, NothingDecoded
<1>6. Follows(Current(stream), root)
  BY <1>2, <1>5 DEF Follows, Blank
<1>7. Stands
  BY <1>1, <1>2, <1>6 DEF Stands, MuseStands, OpencodeStands, AgyStands, CodexStands
<1>8. QED
  BY <1>1, <1>3, <1>4, <1>7 DEF Emits

LEMMA ProbeEmits == Emits /\ (Probe \/ Start) => Emits'
<1> SUFFICES ASSUME Emits, Probe \/ Start
             PROVE  Emits'
  OBVIOUS
<1>1. /\ phase = "preflight" /\ UNCHANGED <<harness, stream, root, noted>>
      /\ \/ phase' = "running" /\ outcome' = outcome
         \/ phase' = "over" /\ outcome' = Failed(Void)
  BY DEF Probe, Start
<1>2. Stands'
  BY <1>1 DEF Emits, Stands, Current, Decoding
<1>3. outcome = Void
  BY <1>1 DEF Emits
<1>4. Failed(Void).does = "fail"
  BY DEF Failed
<1>5. QED
  BY <1>1, <1>2, <1>3, <1>4 DEF Emits

LEMMA MuseEmits ==
  ASSUME Emits, NEW who \in {"root", "sub"},
         \/ MuseStarts(who)
         \/ \E how \in {"completed", "failed", "cancelled"}, v \in Text : MuseEnds(who, how, v)
  PROVE  Emits'
<1>1. /\ Running("muse") /\ UNCHANGED <<harness, phase, outcome>> /\ noted' = noted
      /\ harness = "muse" /\ MuseStands(stream, root)
      /\ stream \in Seq(Emitted) /\ root \in RootRow /\ noted \in BOOLEAN
  BY DEF MuseStarts, MuseEnds, Same, Running, Emits, Stands
<1>2. ASSUME NEW e \in Emitted, stream' = Append(stream, e), root' \in RootRow, MuseStands(Append(stream, e), root')
      PROVE  Emits'
  <2>1. stream' \in Seq(Emitted)
    BY <1>1, <1>2
  <2>2. Stands'
    BY <1>1, <1>2 DEF Stands
  <2>3. QED
    BY <1>1, <1>2, <2>1, <2>2, RunningStaysTrue
<1>3. CASE MuseStarts(who)
  <2> DEFINE e == Event("started", who, 0, 0, Void)
  <2>1. /\ stream' = Append(stream, e)
        /\ \/ who = "root" /\ root.state = "unborn" /\ root' = [root EXCEPT !.state = "open"]
           \/ who = "sub" /\ root.state = "open" /\ root' = root
    BY <1>3 DEF MuseStarts, Write
  <2>2. e \in Emitted /\ e.kind = "started" /\ e.who = who
    BY DEF Event, Emitted, Kind, Written
  <2> HIDE DEF e
  <2>3. root' \in RootRow /\ MuseStands(Append(stream, e), root')
    BY <1>1, <2>1, <2>2, MuseStartsStands
  <2>4. QED
    BY <1>2, <2>1, <2>2, <2>3
<1>4. ASSUME NEW how \in {"completed", "failed", "cancelled"}, NEW v \in Text, MuseEnds(who, how, v)
      PROVE  Emits'
  <2> DEFINE e == Event(how, who, 0, 0, v)
  <2>1. /\ stream' = Append(stream, e) /\ root.state = "open"
        /\ \/ who = "sub" /\ root' = root
           \/ who = "root" /\ root' = [root EXCEPT !.state = IF how = "completed" THEN "answered" ELSE "failed",
                                                   !.parts = <<v>>]
    BY <1>4 DEF MuseEnds, Write
  <2>2. e \in Emitted /\ e.kind = how /\ e.who = who /\ e.value = v
    BY DEF Event, Emitted, Kind, Written
  <2> HIDE DEF e
  <2>3. root' \in RootRow /\ MuseStands(Append(stream, e), root')
    BY <1>1, <2>1, <2>2, MuseEndsStands
  <2>4. QED
    BY <1>2, <2>1, <2>2, <2>3
<1>5. QED
  BY <1>3, <1>4

\* OpenCode: an event of the root agent moves the decoder with it, one of another
\* agent moves neither.
LEMMA OpencodeWrites ==
  ASSUME Emits, Running("opencode"), Same, NEW e \in Emitted, stream' = Append(stream, e),
         \/ e.who = "root" /\ root' \in RootRow /\ root'.state # "unborn" /\ Follows(Decode(Current(stream), e), root')
         \/ e.who = "sub" /\ root.state = "open" /\ root' = root
  PROVE  Emits'
<1>1. /\ harness = "opencode" /\ harness' = harness /\ phase' = phase /\ outcome' = outcome /\ noted' = noted
      /\ stream \in Seq(Emitted) /\ root \in RootRow /\ noted \in BOOLEAN /\ OpencodeStands(stream, root)
  BY DEF Running, Same, Emits, Stands
<1>2. /\ stream' \in Seq(Emitted) /\ stream' # <<>>
      /\ stream # <<>> => stream'[1] = stream[1]
      /\ stream = <<>> => stream'[1] = e
  BY <1>1, AppendIs
<1>3. Current(stream') = IF stream # <<>> /\ e.who # stream[1].who THEN Current(stream) ELSE Decode(Current(stream), e)
  BY <1>1, OneMoreDecoded
<1>4. stream # <<>> => stream[1].who = "root"
  BY <1>1 DEF OpencodeStands
<1>5. CASE e.who = "root"
  <2>1. Current(stream') = Decode(Current(stream), e)
    BY <1>3, <1>4, <1>5
  <2>2. OpencodeStands(stream', root') /\ root' \in RootRow
    BY <1>2, <1>4, <1>5, <2>1 DEF OpencodeStands
  <2>3. Stands'
    BY <1>1, <2>2 DEF Stands
  <2>4. QED
    BY <1>1, <1>2, <2>2, <2>3, RunningStaysTrue
<1>6. CASE e.who = "sub" /\ root.state = "open" /\ root' = root
  <2>1. stream # <<>> /\ Follows(Current(stream), root)
    BY <1>1, <1>6 DEF OpencodeStands
  <2>2. Current(stream') = Current(stream)
    BY <1>3, <1>4, <1>6, <2>1
  <2>3. OpencodeStands(stream', root')
    BY <1>2, <1>4, <1>6, <2>1, <2>2 DEF OpencodeStands
  <2>4. Stands'
    BY <1>1, <2>3 DEF Stands
  <2>5. QED
    BY <1>1, <1>2, <1>6, <2>4, RunningStaysTrue
<1>7. QED
  BY <1>5, <1>6

LEMMA OpencodeEmits ==
  ASSUME Emits, NEW who \in {"root", "sub"},
         \/ OpencodeStep(who)
         \/ \E part \in 1..MaxParts, v \in Text : OpencodeText(who, part, v)
         \/ \E reason \in {"stop", "tool-calls", "length"} : OpencodeFinish(who, reason)
         \/ OpencodeError
  PROVE  Emits'
<1> DEFINE d == Current(stream)
<1>1. Running("opencode") /\ Same /\ root \in RootRow /\ Follows(d, root) /\ root.message \in Nat
  BY DEF OpencodeStep, OpencodeText, OpencodeFinish, OpencodeError, Emits, Stands, OpencodeStands, Running, Same, RootRow
<1> HIDE DEF d
<1>2. CASE OpencodeStep(who)
  <2> DEFINE e == Event("step_start", who, root.message + 1, 0, Void)
  <2>1. /\ stream' = Append(stream, e)
        /\ \/ /\ who = "root" /\ root.state \in {"unborn", "paused", "answered"}
              /\ root' = [state |-> "open", message |-> root.message + 1, parts |-> <<>>]
           \/ who = "sub" /\ root.state = "open" /\ root' = root
    BY <1>2 DEF OpencodeStep, Write
  <2>2. e \in Emitted /\ e.kind = "step_start" /\ e.who = who /\ e.message = root.message + 1
    BY <1>1 DEF Event, Emitted, Kind, Written
  <2> HIDE DEF e
  <2>3. CASE who = "root"
    <3>1. Follows(Decode(d, e), root')
      BY <1>1, <2>1, <2>2, <2>3, StepFollows
    <3>2. <<>> \in Seq(Written)
      OBVIOUS
    <3>3. root' = [state |-> "open", message |-> root.message + 1, parts |-> <<>>]
      BY <2>1, <2>3
    <3>4. root.message + 1 \in Nat
      BY <1>1
    <3>5. root' \in RootRow /\ root'.state # "unborn"
      BY <3>2, <3>3, <3>4 DEF RootRow, State
    <3>6. QED
      BY <1>1, <2>1, <2>2, <2>3, <3>1, <3>5, OpencodeWrites DEF d
  <2>4. CASE who = "sub"
    BY <1>1, <2>1, <2>2, <2>4, OpencodeWrites
  <2>5. QED
    BY <2>3, <2>4
<1>3. ASSUME NEW part \in 1..MaxParts, NEW v \in Text, OpencodeText(who, part, v)
      PROVE  Emits'
  <2> DEFINE e == Event("text", who, root.message, part, v)
             ps == With(root.parts, part, v)
  <2>1. /\ stream' = Append(stream, e) /\ root.state = "open" /\ part \in 1..(Len(root.parts) + 1)
        /\ \/ who = "root" /\ root' = [root EXCEPT !.parts = ps]
           \/ who = "sub" /\ root' = root
    BY <1>3 DEF OpencodeText, Write, With
  <2>2. e \in Emitted /\ e.kind = "text" /\ e.who = who /\ e.message = root.message /\ e.part = part /\ e.value = v
    <3>1. part \in Nat
      BY <2>1
    <3>2. QED
      BY <1>1, <3>1 DEF Event, Emitted, Kind, Written
  <2> HIDE DEF e, ps
  <2>3. CASE who = "root"
    <3>1. ps = With(root.parts, e.part, e.value)
      BY <2>2 DEF ps
    <3>2. root' \in RootRow /\ Follows(Decode(d, e), root')
      BY <1>1, <2>1, <2>2, <2>3, <3>1, TextFollows
    <3>3. root'.state # "unborn"
      BY <1>1, <2>1, <2>3 DEF RootRow
    <3>4. QED
      BY <1>1, <2>1, <2>2, <2>3, <3>2, <3>3, OpencodeWrites DEF d
  <2>4. CASE who = "sub"
    BY <1>1, <2>1, <2>2, <2>4, OpencodeWrites
  <2>5. QED
    BY <2>3, <2>4
<1>4. ASSUME NEW reason \in {"stop", "tool-calls", "length"}, OpencodeFinish(who, reason)
      PROVE  Emits'
  <2> DEFINE e == Event("step_finish", who, root.message, 0, reason)
             state == IF reason = "stop" /\ root.parts # <<>> THEN "answered"
                      ELSE IF reason = "tool-calls" THEN "paused" ELSE "failed"
  <2>1. /\ stream' = Append(stream, e) /\ root.state = "open"
        /\ \/ who = "root" /\ root' = [root EXCEPT !.state = state]
           \/ who = "sub" /\ root' = root
    BY <1>4 DEF OpencodeFinish, Write
  <2>2. e \in Emitted /\ e.kind = "step_finish" /\ e.who = who /\ e.message = root.message /\ e.value = reason
    BY <1>1 DEF Event, Emitted, Kind, Written
  <2>3. /\ state \in State /\ state # "unborn"
        /\ \/ reason = "stop" /\ root.parts # <<>> /\ state = "answered"
           \/ reason = "tool-calls" /\ state = "paused"
           \/ reason # "stop" /\ state = "failed"
           \/ root.parts = <<>> /\ state = "failed"
    BY DEF State
  <2> HIDE DEF e, state
  <2>4. CASE who = "root"
    <3>1. root' \in RootRow /\ Follows(Decode(d, e), root')
      BY <1>1, <2>1, <2>2, <2>3, <2>4, FinishFollows
    <3>2. root'.state # "unborn"
      BY <1>1, <2>1, <2>3, <2>4 DEF RootRow
    <3>3. QED
      BY <1>1, <2>1, <2>2, <2>4, <3>1, <3>2, OpencodeWrites DEF d
  <2>5. CASE who = "sub"
    BY <1>1, <2>1, <2>2, <2>5, OpencodeWrites
  <2>6. QED
    BY <2>4, <2>5
<1>5. CASE OpencodeError
  <2> DEFINE e == Event("error", "root", root.message, 0, Void)
  <2>1. /\ stream' = Append(stream, e) /\ root.state \in {"open", "paused"}
        /\ root' = [root EXCEPT !.state = "failed"]
    BY <1>5 DEF OpencodeError, Write
  <2>2. e \in Emitted /\ e.kind = "error" /\ e.who = "root"
    BY <1>1 DEF Event, Emitted, Kind, Written
  <2> HIDE DEF e
  <2>3. root' \in RootRow /\ Follows(Decode(d, e), root')
    BY <1>1, <2>1, <2>2, ErrorFollows
  <2>4. root'.state # "unborn"
    BY <1>1, <2>1 DEF RootRow
  <2>5. QED
    BY <1>1, <2>1, <2>2, <2>3, <2>4, OpencodeWrites DEF d
<1>6. QED
  BY <1>2, <1>3, <1>4, <1>5

LEMMA AgyEmits ==
  ASSUME Emits,
         \/ \E status \in {"SUCCESS", "ERROR"}, v \in Text \cup {Void} : AgyResult(status, v)
         \/ \E v \in Text : AgyTimesOut(v)
  PROVE  Emits'
<1>1. /\ Running("agy") /\ harness = "agy" /\ UNCHANGED <<harness, phase, outcome>> /\ root.state = "unborn"
      /\ stream \in Seq(Emitted) /\ root \in RootRow /\ noted = FALSE /\ stream = <<>>
  BY DEF AgyResult, AgyTimesOut, Same, Running, Emits, Stands, AgyStands
<1>2. ASSUME NEW e \in Emitted, stream' = Append(stream, e), root' \in RootRow, noted' \in BOOLEAN,
             root'.state \in {"answered", "failed"},
             root'.state = "answered" =>
               noted' = FALSE /\ e.kind = "SUCCESS" /\ e.value # Void /\ root'.parts = <<e.value>>,
             root'.state = "failed" => noted' = TRUE \/ e.kind # "SUCCESS" \/ e.value = Void
      PROVE  Emits'
  <2>1. stream' \in Seq(Emitted) /\ stream'[1] = e /\ Len(stream') = 1
    BY <1>1, <1>2, AppendIs
  <2>2. AgyStands(stream', root', noted')
    BY <1>2, <2>1 DEF AgyStands
  <2>3. Stands'
    BY <1>1, <2>2 DEF Stands
  <2>4. QED
    BY <1>1, <1>2, <2>1, <2>3, RunningStaysTrue
<1>3. ASSUME NEW status \in {"SUCCESS", "ERROR"}, NEW v \in Text \cup {Void}, AgyResult(status, v)
      PROVE  Emits'
  <2> DEFINE e == Event(status, "root", 0, 0, v)
             state == IF status = "SUCCESS" /\ v # Void THEN "answered" ELSE "failed"
  <2>1. stream' = Append(stream, e) /\ root' = [root EXCEPT !.state = state, !.parts = <<v>>] /\ noted' = noted
    BY <1>3 DEF AgyResult, Write, Same
  <2>2. e \in Emitted /\ e.kind = status /\ e.value = v
    BY DEF Event, Emitted, Kind, Written
  <2>3. <<v>> \in Seq(Written)
    BY DEF Written
  <2>4. root' = [state |-> state, message |-> root.message, parts |-> <<v>>]
    BY <1>1, <2>1 DEF RootRow
  <2>5. root' \in RootRow
    BY <1>1, <2>3, <2>4 DEF RootRow, State
  <2> HIDE DEF e
  <2>6. QED
    BY <1>1, <1>2, <2>1, <2>2, <2>4, <2>5
<1>4. ASSUME NEW v \in Text, AgyTimesOut(v)
      PROVE  Emits'
  <2> DEFINE e == Event("SUCCESS", "root", 0, 0, v)
  <2>1. stream' = Append(stream, e) /\ root' = [root EXCEPT !.state = "failed"] /\ noted' = TRUE
    BY <1>4 DEF AgyTimesOut, Write
  <2>2. e \in Emitted
    BY DEF Event, Emitted, Kind, Written
  <2>3. root' \in RootRow /\ root'.state = "failed"
    BY <1>1, <2>1 DEF RootRow, State
  <2> HIDE DEF e
  <2>4. QED
    BY <1>2, <2>1, <2>2, <2>3
<1>5. QED
  BY <1>3, <1>4

LEMMA CodexEmits ==
  ASSUME Emits, NEW v \in Text, CodexWrites(v)
  PROVE  Emits'
<1> DEFINE e == Event("output", "root", 0, 0, v)
<1>1. /\ Running("codex") /\ harness = "codex" /\ UNCHANGED <<harness, phase, outcome>> /\ noted' = noted
      /\ root.state = "unborn" /\ stream \in Seq(Emitted) /\ root \in RootRow /\ noted \in BOOLEAN /\ stream = <<>>
      /\ stream' = Append(stream, e) /\ root' = [root EXCEPT !.state = "answered", !.parts = <<v>>]
  BY DEF CodexWrites, Write, Same, Running, Emits, Stands, CodexStands
<1>2. e \in Emitted /\ e.value = v
  BY DEF Event, Emitted, Kind, Written
<1>3. <<v>> \in Seq(Written)
  BY DEF Written
<1>4. root' = [state |-> "answered", message |-> root.message, parts |-> <<v>>]
  BY <1>1 DEF RootRow
<1>5. root' \in RootRow
  BY <1>1, <1>3, <1>4 DEF RootRow, State
<1> HIDE DEF e
<1>6. stream' \in Seq(Emitted) /\ stream'[1] = e /\ stream' # <<>>
  BY <1>1, <1>2, AppendIs
<1>7. CodexStands(stream', root')
  BY <1>2, <1>4, <1>6 DEF CodexStands
<1>8. Stands'
  BY <1>1, <1>7 DEF Stands
<1>9. QED
  BY <1>1, <1>5, <1>6, <1>8, RunningStaysTrue

\* What is judged was decoded of what the root agent answered.
LEMMA ExitEmits ==
  ASSUME Emits, (\E code \in {0, 1} : Exit(code)) \/ Stop
  PROVE  Emits'
<1>1. phase = "running" /\ phase' = "over" /\ UNCHANGED <<harness, stream, root, noted>>
  BY DEF Exit, Stop
<1>2. Stands'
  BY <1>1 DEF Emits, Stands, Current, Decoding
<1>3. \A words : Failed(words).does = "fail"
  BY DEF Failed
<1>4. outcome'.does = "submit" => root.state = "answered" /\ outcome'.text = root.parts
  <2>1. ASSUME NEW code \in {0, 1}, Exit(code)
        PROVE  outcome'.does = "submit" => root.state = "answered" /\ outcome'.text = root.parts
    <3> DEFINE words == Decoded(code)
    <3>1. Judge(code)
      BY <2>1 DEF Exit
    <3>2. PICK says \in Says :
            outcome' = CASE words # Void /\ Proposal(says)     -> [does |-> "submit", text |-> words]
                         [] words # Void /\ says = "blocked"   -> Failed(words)
                         [] OTHER                             -> Failed(Void)
      BY <3>1 DEF Judge
    <3> HIDE DEF words
    <3>3. ~(Proposal(says) /\ says = "blocked")
      BY DEF Proposal, PromptGuided
    <3>4. outcome'.does = "submit" => words # Void /\ outcome'.text = words
      BY <1>3, <3>2, <3>3
    <3>5. words # Void => root.state = "answered" /\ words = root.parts
      BY TheAnswerIsDecoded DEF words
    <3>6. QED
      BY <3>4, <3>5
  <2>2. ASSUME Stop
        PROVE  outcome'.does # "submit"
    BY <1>3, <2>2 DEF Stop
  <2>3. QED
    BY <2>1, <2>2
<1>5. QED
  BY <1>1, <1>2, <1>4 DEF Emits

LEMMA EmitsNext == Emits /\ [OutputNext]_outputVars => Emits'
<1> SUFFICES ASSUME Emits, [OutputNext]_outputVars
             PROVE  Emits'
  OBVIOUS
<1>1. CASE UNCHANGED outputVars
  <2>1. UNCHANGED <<harness, phase, stream, root, noted, outcome>>
    BY <1>1 DEF outputVars
  <2>2. QED
    BY <2>1 DEF Emits, Stands, Current, Decoding
<1>2. CASE Probe \/ Start
  BY <1>2, ProbeEmits
<1>3. ASSUME NEW who \in {"root", "sub"},
             \/ MuseStarts(who)
             \/ \E how \in {"completed", "failed", "cancelled"}, v \in Text : MuseEnds(who, how, v)
      PROVE  Emits'
  BY <1>3, MuseEmits
<1>4. ASSUME NEW who \in {"root", "sub"},
             \/ OpencodeStep(who)
             \/ \E part \in 1..MaxParts, v \in Text : OpencodeText(who, part, v)
             \/ \E reason \in {"stop", "tool-calls", "length"} : OpencodeFinish(who, reason)
      PROVE  Emits'
  BY <1>4, OpencodeEmits
<1>5. CASE OpencodeError
  BY <1>5, OpencodeEmits
<1>6. CASE \/ \E status \in {"SUCCESS", "ERROR"}, v \in Text \cup {Void} : AgyResult(status, v)
           \/ \E v \in Text : AgyTimesOut(v)
  BY <1>6, AgyEmits
<1>7. ASSUME NEW v \in Text, CodexWrites(v)
      PROVE  Emits'
  BY <1>7, CodexEmits
<1>8. CASE (\E code \in {0, 1} : Exit(code)) \/ Stop
  BY <1>8, ExitEmits
<1>9. QED
  BY <1>1, <1>2, <1>3, <1>4, <1>5, <1>6, <1>7, <1>8 DEF OutputNext

\* For every length of a stream, every number of messages, parts and subagents and
\* every text, in each of the four formats: what the worker submits is what the root
\* agent answered last, and an answer it has given is what its stream decodes to.
THEOREM FinalAnswerSubmitted == OutputSpec => []OnlyTheFinalAnswer
<1>1. Emits => OnlyTheFinalAnswer
  BY TheAnswerIsDecoded DEF Emits, OnlyTheFinalAnswer
<1>2. QED
  BY <1>1, EmitsInitially, EmitsNext, PTL DEF OutputSpec
=============================================================================
