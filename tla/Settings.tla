------------------------------- MODULE Settings -------------------------------
(* The application settings: the limits of an allocation policy and a wrapper   *)
(* prompt with its revisions (services/admin_ops.py), and the rules a policy    *)
(* puts on a book of positions (services/prompt_policy.py, symbols.py).  Saves  *)
(* lock the rows they write in the order of their keys; readers take no lock    *)
(* and read row after row.  Weights are counted in parts of Total.              *)
EXTENDS Integers, Sequences, FiniteSets, SequencesExt, FiniteSetsExt

CONSTANTS
  Client,
  Policies,      \* the pairs <<minimum, maximum>> that administrators enter
  Texts,         \* contents of the wrapper prompt
  BadTexts,      \* those whose placeholders are malformed, missing or unknown
  MaxRevisions,  \* bound of the revisions
  Details,       \* what Massive says of each symbol
  Total,         \* 100%
  Nothing

ASSUME SettingsAssumption == Nothing \notin Client \cup {"save", "restore", "read"}

VARIABLES
  setting,    \* the committed rows
  revisions,  \* the wrapper prompt's revisions, oldest first
  holder,     \* the client that holds each row's lock
  call,       \* what each client's call does
  saved,      \* the values of the save or restoration that committed last
  shown       \* the policy a reader is given in this step, or Nothing

settingVars == <<setting, revisions, holder, call, saved, shown>>

\* In the order of the rows' keys.
Keys == <<"max", "min", "prompt">>
Resting == [op |-> Nothing, values |-> Nothing, seen |-> Nothing, row |-> 0]

-----------------------------------------------------------------------------
(* prompt_policy.py: the rules of a policy. *)

ValidLimits(p) == 0 < p[1] /\ p[1] <= p[2] /\ p[2] <= Total

\* Variant: the bound is rounded up.
RoundedPolicy(p) ==
  [minimum |-> p[1], maximum |-> p[2], positions |-> (Total + p[1] - 1) \div p[1]]

PolicyFromLimits(p) == [minimum |-> p[1], maximum |-> p[2], positions |-> Total \div p[1]]

\* A template is rejected for a placeholder, and for being blank.
ValidTemplate(text) == text \notin BadTexts

Weight(book) == FoldLeft(LAMBDA w, position : w + position.weight, 0, book)

ValidWeights(policy, book) ==
  /\ \A i \in DOMAIN book : book[i].weight \in policy.minimum..policy.maximum
  /\ Weight(book) = Min({Total, Len(book) * policy.maximum})

\* The weight that is left over is the reference's.
Summary(book) ==
  [reference |-> Max({0, Total - Weight(book)}),
   outcome   |-> CASE Weight(book) = 0     -> "abstained"
                   [] Weight(book) < Total -> "partially_allocated"
                   [] OTHER                -> "allocated"]

ValidNote(book, explained) == Summary(book).reference > 0 => explained

ValidPositions(book) ==
  /\ \A i, j \in DOMAIN book : book[i].symbol = book[j].symbol => i = j
  /\ \A i \in DOMAIN book : book[i].weight \in 1..Total
  /\ Weight(book) <= Total

\* A listed, active security in dollars whose dividends are known.
Resolves(symbol) ==
  LET d == Details[symbol]
  IN /\ d # Nothing
     /\ d.active /\ d.market \in {"stocks", "otc"} /\ d.type \in {"CS", "ADRC", "ETF"}
     /\ d.currency = "USD" /\ d.dividends

Accepted(policy, book, explained) ==
  /\ ValidPositions(book) /\ ValidWeights(policy, book) /\ ValidNote(book, explained)
  /\ \A i \in DOMAIN book : Resolves(book[i].symbol)

-----------------------------------------------------------------------------
SettingsInit ==
  /\ \E p \in Policies, t \in Texts \ BadTexts :
       /\ setting = [min |-> p[1], max |-> p[2], prompt |-> t]
       /\ revisions = <<[text |-> t, from |-> 0]>>
  /\ holder = [k \in Range(Keys) |-> Nothing]
  /\ call = [c \in Client |-> Resting]
  /\ saved = setting
  /\ shown = Nothing

EndCall(c) == call' = [call EXCEPT ![c] = Resting]

\* MaxRevisions bounds the calls that may add one.
Writers == {c \in Client : call[c].op \in {"save", "restore"}}
Room == Len(revisions) + Cardinality(Writers) < MaxRevisions

\* The policy and the prompts are validated before anything is read.
UpdateSettings(c, p, t) ==
  /\ call[c] = Resting /\ ValidLimits(p) /\ ValidTemplate(t) /\ Room
  /\ call' = [call EXCEPT ![c] =
       [op |-> "save", values |-> [min |-> p[1], max |-> p[2], prompt |-> t],
        seen |-> setting, row |-> 1]]
  /\ UNCHANGED <<setting, revisions, holder, saved>> /\ shown' = Nothing

RestoreVersion(c) ==
  /\ call[c] = Resting /\ Room
  /\ call' = [call EXCEPT ![c] = [Resting EXCEPT !.op = "restore", !.seen = setting, !.row = 3]]
  /\ UNCHANGED <<setting, revisions, holder, saved>> /\ shown' = Nothing

\* Variant: rows are locked in no particular order.
LockAnyRow(c) ==
  /\ call[c].op \in {"save", "restore"}
  /\ \E k \in Range(Keys) :
       /\ holder[k] = Nothing /\ (call[c].op = "restore" => k = "prompt")
       /\ holder' = [holder EXCEPT ![k] = c]
       /\ call' = [call EXCEPT ![c].seen[k] = setting[k],
            ![c].row = IF call[c].op = "restore" THEN 4
                       ELSE 2 + Cardinality({x \in Range(Keys) : holder[x] = c})]
  /\ UNCHANGED <<setting, revisions, saved>> /\ shown' = Nothing

\* Variant: what the session read before it held the lock is kept.
LockStaleRow(c) ==
  /\ call[c].op \in {"save", "restore"} /\ call[c].row <= Len(Keys)
  /\ holder[Keys[call[c].row]] = Nothing
  /\ holder' = [holder EXCEPT ![Keys[call[c].row]] = c]
  /\ call' = [call EXCEPT ![c].row = @ + 1]
  /\ UNCHANGED <<setting, revisions, saved>> /\ shown' = Nothing

\* SELECT ... ORDER BY key FOR UPDATE, with the row as it is once it is locked.
LockRow(c) ==
  /\ call[c].op \in {"save", "restore"} /\ call[c].row <= Len(Keys)
  /\ LET k == Keys[call[c].row] IN
       /\ holder[k] = Nothing
       /\ holder' = [holder EXCEPT ![k] = c]
       /\ call' = [call EXCEPT ![c].row = @ + 1, ![c].seen[k] = setting[k]]
  /\ UNCHANGED <<setting, revisions, saved>> /\ shown' = Nothing

\* The commit releases every lock.
Release(c) == holder' = [k \in Range(Keys) |-> IF holder[k] = c THEN Nothing ELSE holder[k]]

\* _write_setting_prompt: a text that is there already makes no revision, unless it
\* is restored.
WritePrompt(old, text, from) ==
  IF old = text /\ from = 0 THEN UNCHANGED revisions
  ELSE revisions' = Append(revisions, [text |-> text, from |-> from])

\* An attribute set to the value it was read with is not written.
CommitUpdate(c) ==
  LET w == call[c].values IN
  /\ call[c].op = "save" /\ call[c].row > Len(Keys)
  /\ WritePrompt(call[c].seen.prompt, w.prompt, 0)
  /\ setting' = [k \in Range(Keys) |-> IF w[k] = call[c].seen[k] THEN setting[k] ELSE w[k]]
  /\ saved' = w
  /\ Release(c) /\ EndCall(c)
  /\ shown' = Nothing

\* Restoring a version validates its text anew and appends it as the newest.
CommitRestore(c) ==
  /\ call[c].op = "restore" /\ call[c].row > Len(Keys)
  /\ \E version \in DOMAIN revisions :
       LET text == revisions[version].text IN
       /\ ValidTemplate(text)
       /\ WritePrompt(call[c].seen.prompt, text, version)
       /\ setting' = [setting EXCEPT !.prompt = IF text = call[c].seen.prompt THEN @ ELSE text]
       /\ saved' = [saved EXCEPT !.prompt = text]
  /\ Release(c) /\ EndCall(c)
  /\ shown' = Nothing

\* The version asked for does not exist, or its text no longer passes.
Abort(c) ==
  /\ call[c].op = "restore" /\ call[c].row > Len(Keys)
  /\ Release(c) /\ EndCall(c)
  /\ UNCHANGED <<setting, revisions, saved>> /\ shown' = Nothing

\* get_app_settings: the minimum is read first.
ReadMinimum(c) ==
  /\ call[c] = Resting
  /\ call' = [call EXCEPT ![c] = [Resting EXCEPT !.op = "read", !.seen = [min |-> setting.min]]]
  /\ UNCHANGED <<setting, revisions, holder, saved>> /\ shown' = Nothing

ReadMaximum(c) ==
  /\ call[c].op = "read"
  /\ LET p == <<call[c].seen.min, setting.max>> IN
     shown' = IF ValidLimits(p) THEN PolicyFromLimits(p) ELSE Nothing
  /\ EndCall(c)
  /\ UNCHANGED <<setting, revisions, holder, saved>>

SaveSettings(c) == \E p \in Policies, t \in Texts : UpdateSettings(c, p, t)
Work(c) == LockRow(c) \/ CommitUpdate(c) \/ CommitRestore(c) \/ Abort(c) \/ ReadMaximum(c)

SettingsNext == \E c \in Client : SaveSettings(c) \/ RestoreVersion(c) \/ ReadMinimum(c) \/ Work(c)

\* A request that may go on does; a row's lock is granted to whoever waits for it.
SettingsFairness == \A c \in Client : SF_settingVars(Work(c))
SettingsSpec == SettingsInit /\ [][SettingsNext]_settingVars /\ SettingsFairness

-----------------------------------------------------------------------------
(* Properties. *)

\* However saves and restorations overlap, what stands is the whole of the one that
\* committed last, never a mixture, and the newest revision is the text in use.
LastSaveStands == setting = saved /\ Last(revisions).text = setting.prompt

\* Whatever policy a reader is given, also one put together from two saves, there is
\* an acceptable book for every number of positions up to the advertised bound and
\* for none above it; and a book leaves weight to the reference only when every
\* position has its maximum and a note explains it.
Tradable == {s \in DOMAIN Details : Resolves(s)}
Books(n) ==
  {[i \in 1..n |-> [symbol |-> s[i], weight |-> w[i]]] :
     s \in [1..n -> DOMAIN Details], w \in [1..n -> 1..Total]}

Feasible(policy) ==
  \A n \in 0..Cardinality(Tradable) :
    LET accepted == {b \in Books(n) : Accepted(policy, b, TRUE)} IN
    /\ (accepted # {}) <=> (n <= policy.positions)
    /\ \A b \in accepted :
         Summary(b).reference > 0 =>
           /\ \A i \in 1..n : b[i].weight = policy.maximum
           /\ ~Accepted(policy, b, FALSE)

FeasibleFor == [p \in (1..Total) \X (1..Total) |-> Feasible(PolicyFromLimits(p))]

ShownPoliciesAreFeasible == shown # Nothing => FeasibleFor[shown.minimum, shown.maximum]

\* Saves, restorations and readers that overlap never wait for each other forever.
EverySettingCallEnds == \A c \in Client : call[c] # Resting ~> call[c] = Resting
=============================================================================
