----------------------------- MODULE PublicQueries -----------------------------
(* The browser's cache of public responses (frontend/src/lib/api): requests are *)
(* shared and superseded by generations (publicQuery.svelte.ts), the most       *)
(* recent queries are kept and a save empties them (publicCache.ts, client.ts), *)
(* and other views are warmed one at a time (arenaPrefetch.ts), as the          *)
(* leaderboard uses them.  A tab runs one callback at a time: an action is one  *)
(* callback with the continuations it sets off.  A response is the version of   *)
(* the server's state that it was computed from.                                *)
EXTENDS Naturals, Sequences, FiniteSetsExt, SequencesExt

CONSTANTS
  Url,
  MaxQueries,  \* MAX_PUBLIC_QUERIES
  MaxVersion,  \* bound of the server's versions
  Absent

VARIABLES
  published,     \* the server's version
  sending,       \* how many saves were sent and are not committed
  committed,     \* the versions of the saves committed and not yet answered
  acknowledged,  \* the newest version of a save that was answered
  emptied,       \* history: what acknowledged was when the query shown was last emptied
  tab            \* what the tab holds

displayVars == <<published, sending, committed, acknowledged, emptied, tab>>

\* PublicQuery objects.  Of a URL at most three matter at a time: that of the entry,
\* the one shown and the one the prefetch queue awaits; Tidy frees the others.
Query == Url \X (1..3)
QueryRow == [data: Nat \cup {Absent}, pending: BOOLEAN, error: BOOLEAN]
New == [data |-> Absent, pending |-> FALSE, error |-> FALSE]

ASSUME DisplayAssumption ==
  /\ MaxQueries \in Nat \ {0} /\ MaxVersion \in Nat
  /\ Absent \notin Nat /\ Absent \notin Query /\ Absent \notin QueryRow /\ Absent # <<>>

DisplayInit ==
  /\ published = 0 /\ sending = 0 /\ committed = {} /\ acknowledged = 0 /\ emptied = 0
  /\ tab = [entries |-> <<>>, queries |-> [q \in Query |-> Absent], requests |-> {},
            page |-> Absent, queued |-> {}, timer |-> FALSE, loop |-> "idle"]

-----------------------------------------------------------------------------
(* What callbacks do to a tab t. *)

Reachable(t) == Range(t.entries) \cup ({t.page} \ {Absent})

\* Garbage: what no page shows and no entry leads to is never looked at again.
Tidy(t) ==
  LET kept == {r \in t.requests : r.query \in Reachable(t) \/ "prefetch" \in r.for}
      used == Reachable(t) \cup {r.query : r \in kept}
  IN [t EXCEPT !.requests = kept,
               !.queries = [q \in Query |-> IF q \in used THEN t.queries[q] ELSE Absent]]

\* Variant: the cache is full one query early.
FullEarly(entries) == IF Len(entries) >= MaxQueries THEN Tail(entries) ELSE entries

\* The entry used longest ago goes when there are too many.
Bounded(entries) == IF Len(entries) > MaxQueries THEN Tail(entries) ELSE entries

\* The entries without q.
Others(entries, q) ==
  IF q \in Range(entries) THEN RemoveAt(entries, CHOOSE i \in DOMAIN entries : entries[i] = q)
  ELSE entries

\* PublicQueryCache.get: the query of the URL, old or new, is the newest entry.
Find(t, url) ==
  LET old == {n \in 1..3 : <<url, n>> \in Range(t.entries)}
  IN <<url, Min(IF old # {} THEN old ELSE {n \in 1..3 : t.queries[<<url, n>>] = Absent})>>
Get(t, url) ==
  LET q == Find(t, url)
  IN [t EXCEPT !.entries = Bounded(Append(Others(@, q), q)),
               !.queries[q] = IF @ = Absent THEN New ELSE @]

\* ArenaPrefetchQueue.cancel; a request under way goes on.
Cancel(t) == [t EXCEPT !.queued = {}, !.timer = FALSE]

\* The continuation of an awaited load of q: loadArena schedules the other views if
\* q is still the one shown, the loop of the prefetch queue takes its next turn.
Resume(t, q, who) ==
  CASE who = "prefetch" -> [t EXCEPT !.loop = "ready"]
    [] who = "page" /\ t.page = q /\ t.queries[q].data # Absent /\ ~t.queries[q].error ->
         [t EXCEPT !.queued = Url \ {q[1]}, !.timer = TRUE]
    [] OTHER -> t

\* PublicQuery.load: a request under way is shared, also by who forces a load, and a
\* response of the last five minutes needs none.  The age of responses is left open.
Share(t, q, who) ==
  [t EXCEPT !.requests =
     {[r EXCEPT !.for = IF r.query = q /\ r.live THEN @ \cup {who} ELSE @] : r \in @}]
Request(t, q, who) ==
  [t EXCEPT !.queries[q] = [@ EXCEPT !.pending = TRUE, !.error = FALSE],
            !.requests = @ \cup {[query |-> q, live |-> TRUE, seen |-> Absent, for |-> {who}]}]
Load(t, q, force, who) ==
  LET query == t.queries[q] IN
  IF query.pending THEN {Share(t, q, who)}
  ELSE {Request(t, q, who)}
         \cup (IF force \/ query.data = Absent THEN {} ELSE {Resume(t, q, who)})

\* Variant: the pending request is remembered.
InvalidateKeepsPending(query) == [New EXCEPT !.pending = query.pending]

Invalidate(query) == New

\* PublicQueryCache.clear: the generation of each entry ends, and with it its request.
ClearQueries(t) ==
  LET gone == Range(t.entries)
  IN [t EXCEPT !.queries = [q \in Query |-> IF q \in gone THEN Invalidate(@[q]) ELSE @[q]],
               !.requests = {[r EXCEPT !.live = @ /\ r.query \notin gone] : r \in @},
               !.entries = <<>>]

Show(t, url) == [Get(t, url) EXCEPT !.page = Find(t, url)]
LoadArena(t, force) == UNION {Load(c, c.page, force, "page") : c \in {Cancel(t)}}

Becomes(t) ==
  tab' \in {Tidy(u) : u \in {t}} /\ UNCHANGED <<published, sending, committed, acknowledged, emptied>>
BecomesOne(ts) == \E t \in ts : Becomes(t)
LoadView(url) == \E t \in {Show(tab, url)} : BecomesOne(LoadArena(t, FALSE))

-----------------------------------------------------------------------------
(* The leaderboard: mounting, another view, the timer, focus and visibility.    *)
(* Whether the page is visible at an instant is left open.                      *)

Mount ==
  /\ tab.page = Absent
  /\ \E url \in Url : LoadView(url)

ChangeView ==
  /\ tab.page # Absent
  /\ \E url \in Url \ {tab.page[1]} : LoadView(url)

\* What the page awaited finds it unmounted and does nothing.
Unmount ==
  /\ tab.page # Absent
  /\ Becomes([Cancel(tab) EXCEPT !.page = Absent, !.loop = "idle",
                                 !.requests = {[r EXCEPT !.for = {}] : r \in @}])

Refresh == tab.page # Absent /\ BecomesOne(LoadArena(tab, TRUE))
Focus == tab.page # Absent /\ BecomesOne(LoadArena(tab, FALSE))
Hide == tab.page # Absent /\ Becomes(Cancel(tab))

(* The prefetch queue. *)

Timer ==
  /\ tab.timer
  /\ Becomes([tab EXCEPT !.timer = FALSE, !.loop = IF @ = "idle" THEN "ready" ELSE @])

CanRun == tab.page # Absent /\ ~tab.queries[tab.page].pending

\* A hidden page ends the loop.  The order of the queue is left open.
Prefetch ==
  /\ tab.loop = "ready"
  /\ \/ CanRun /\ \E url \in tab.queued :
          \E t \in {[Get(tab, url) EXCEPT !.queued = @ \ {url}, !.loop = "waiting"]} :
            BecomesOne(Load(t, Find(t, url), FALSE, "prefetch"))
     \/ Becomes([tab EXCEPT !.loop = "idle"])

(* Requests. *)

Serve(r) ==
  /\ r.seen = Absent
  /\ Becomes([tab EXCEPT !.requests = (@ \ {r}) \cup {[r EXCEPT !.seen = published]}])

\* Variant: the generation is not compared.
AnswerOfAnyGeneration(r, query) ==
  {[query EXCEPT !.pending = FALSE, !.data = r.seen]}

\* A response, a refusal (401, 403, 404) that takes the data away, or a failure.
Answered(r, query) ==
  LET ended == [query EXCEPT !.pending = FALSE] IN
  IF ~r.live THEN {query}
  ELSE {[ended EXCEPT !.error = TRUE], [ended EXCEPT !.error = TRUE, !.data = Absent]}
         \cup (IF r.seen = Absent THEN {} ELSE {[ended EXCEPT !.data = r.seen]})

Answer(r) ==
  \E query \in Answered(r, tab.queries[r.query]) :
    \E t \in {[tab EXCEPT !.queries[r.query] = query, !.requests = @ \ {r}]} :
    \E paged \in {IF "page" \in r.for THEN Resume(t, r.query, "page") ELSE t} :
      Becomes(IF "prefetch" \in r.for THEN Resume(paged, r.query, "prefetch") ELSE paged)

-----------------------------------------------------------------------------
(* Writes.  Administrators save on other pages, a form at a time, and may leave  *)
(* before the answer, so the saves of several forms overlap; evaluations and     *)
(* other browsers write as well.                                                 *)

Publish ==
  /\ published + sending < MaxVersion /\ published' = published + 1
  /\ UNCHANGED <<sending, committed, acknowledged, emptied, tab>>

SendSave ==
  /\ tab.page = Absent
  /\ published + sending < MaxVersion /\ sending' = sending + 1
  /\ UNCHANGED <<published, committed, acknowledged, emptied, tab>>

Commit ==
  /\ sending > 0 /\ sending' = sending - 1
  /\ published' = published + 1 /\ committed' = committed \cup {published + 1}
  /\ UNCHANGED <<acknowledged, emptied, tab>>

\* apiFetch calls its listeners for a successful answer to a write.  The clearing
\* reaches the query shown only while that is an entry.
Acknowledge(v) ==
  /\ committed' = committed \ {v} /\ acknowledged' = Max({acknowledged, v})
  /\ emptied' = IF tab.page \in Range(tab.entries) THEN acknowledged' ELSE emptied
  /\ tab' \in {Tidy(t) : t \in {ClearQueries(tab)}}
  /\ UNCHANGED <<published, sending>>

\* A save is refused, or its answer is lost.
SaveFails ==
  /\ \/ sending > 0 /\ sending' = sending - 1 /\ UNCHANGED committed
     \/ UNCHANGED sending /\ \E v \in committed : committed' = committed \ {v}
  /\ UNCHANGED <<published, acknowledged, emptied, tab>>

DisplayNext ==
  \/ Mount \/ ChangeView \/ Unmount \/ Refresh \/ Focus \/ Hide
  \/ Timer \/ Prefetch
  \/ \E r \in tab.requests : Serve(r) \/ Answer(r)
  \/ Publish \/ SendSave \/ Commit \/ SaveFails
  \/ \E v \in committed : Acknowledge(v)

\* Requests are answered or fail, and the timer of a page that is visible from time
\* to time fires.
AnswerTo(url) == \E r \in tab.requests : r.query[1] = url /\ Answer(r)
DisplayFairness == WF_displayVars(Refresh) /\ \A url \in Url : WF_displayVars(AnswerTo(url))
DisplaySpec == DisplayInit /\ [][DisplayNext]_displayVars /\ DisplayFairness

-----------------------------------------------------------------------------
(* Properties. *)

\* Once a save was answered, nothing that the cache keeps is from before it, whatever
\* requests were under way.  A page is as new as the last save whose answer emptied
\* its query: a query that is shown but was taken out of the cache, by such an answer
\* or to make room, is out of the reach of the next one, and may show what is older
\* until the page loads it again (clear in publicCache.ts reaches the entries alone).
SavesAreShown ==
  /\ \A q \in Range(tab.entries) :
       tab.queries[q].data # Absent => tab.queries[q].data >= acknowledged
  /\ tab.page # Absent /\ tab.queries[tab.page].data # Absent =>
       tab.queries[tab.page].data >= emptied

\* A page does not stay without a response and without an error, although
\* a late acknowledgement may empty the query it shows.
NoPageStaysBlank ==
  \A url \in Url :
    LET Blank == /\ tab.page # Absent /\ tab.page[1] = url
                 /\ tab.queries[tab.page].data = Absent /\ ~tab.queries[tab.page].error
    IN ~ <>[]Blank
=============================================================================
