---------------------------- MODULE HarnessOutput ----------------------------
(* One attempt as the worker sees it: the harness is checked, its CLI runs and   *)
(* writes a stream of events in which a root agent and the subagents it starts   *)
(* are mixed, and the worker decodes the stream after the process has ended      *)
(* (evaluator/worker.py, muse.py, opencode.py, agy.py).  A text is the sequence  *)
(* of its parts; what the root agent finally answered is kept beside the stream. *)
EXTENDS Integers, Sequences, FiniteSetsExt

CONSTANTS
  MaxEvents,   \* bound of the stream
  MaxParts,    \* bound of the parts of a message
  Text,        \* contents of a part
  Void

VARIABLES
  harness, phase,
  stream,      \* the events written to standard output
  root,        \* the root agent: its state, its message, that message's parts
  noted,       \* a print timeout was noted on standard error
  outcome      \* what the worker does with the attempt

outputVars == <<harness, phase, stream, root, noted, outcome>>

NoRoot == [state |-> "unborn", message |-> 0, parts |-> <<>>]

Event(kind, who, message, part, value) ==
  [kind |-> kind, who |-> who, message |-> message, part |-> part, value |-> value]

Write(e) == Len(stream) < MaxEvents /\ stream' = Append(stream, e)

OutputInit ==
  /\ harness \in {"codex", "muse", "opencode", "agy"}
  /\ phase = "preflight" /\ stream = <<>> /\ root = NoRoot /\ noted = FALSE /\ outcome = Void

-----------------------------------------------------------------------------
(* The CLI. *)

\* opencode and agy list their models first, within the attempt's deadline; the
\* listing may be unreadable or empty, or lack the run's model, tools or variant.
Listing == {"malformed", "empty", "absent", "toolless", "variantless", "complete"}
OpencodeModels(listing) == listing # "malformed"
ValidOpencodeModel(listing) == listing = "complete"
AgyModels(listing) == listing # "malformed"

\* Antigravity accepts names it does not list: only an empty listing stops it.
Usable(listing) ==
  CASE harness = "opencode" -> OpencodeModels(listing) /\ ValidOpencodeModel(listing)
    [] harness = "agy"      -> AgyModels(listing) /\ listing # "empty"
    [] OTHER                -> TRUE

Failed(text) == [does |-> "fail", text |-> text]

\* The listing is another process, which may fail, hang until the deadline, or be
\* stopped by a cancellation.
Probe ==
  /\ phase = "preflight" /\ harness \in {"opencode", "agy"}
  /\ \E listing \in Listing \cup {Void} :
       IF listing # Void /\ Usable(listing) THEN phase' = "running" /\ UNCHANGED outcome
       ELSE phase' = "over" /\ outcome' = Failed(Void)
  /\ UNCHANGED <<harness, stream, root, noted>>

Start ==
  /\ phase = "preflight" /\ harness \in {"codex", "muse"}
  /\ phase' = "running"
  /\ UNCHANGED <<harness, stream, root, noted, outcome>>

Running(h) == phase = "running" /\ harness = h
Same == UNCHANGED <<harness, phase, noted, outcome>>

\* Muse: every run of an agent is started and reaches one terminal event.
MuseStarts(who) ==
  /\ Running("muse")
  /\ IF who = "root" THEN root.state = "unborn" /\ root' = [root EXCEPT !.state = "open"]
     ELSE root.state = "open" /\ UNCHANGED root
  /\ Write(Event("started", who, 0, 0, Void))
  /\ Same

MuseEnds(who, how, value) ==
  /\ Running("muse") /\ root.state = "open"
  /\ IF who = "root"
     THEN root' = [root EXCEPT !.state = IF how = "completed" THEN "answered" ELSE "failed",
                               !.parts = <<value>>]
     ELSE UNCHANGED root
  /\ Write(Event(how, who, 0, 0, value))
  /\ Same

\* OpenCode: an agent writes messages of steps; a finished step may be followed by
\* another message, and a part may be written again when it is revised.
OpencodeStep(who) ==
  /\ Running("opencode")
  /\ IF who = "root"
     THEN /\ root.state \in {"unborn", "paused", "answered"}
          /\ root' = [state |-> "open", message |-> root.message + 1, parts |-> <<>>]
     ELSE root.state = "open" /\ UNCHANGED root
  /\ Write(Event("step_start", who, root.message + 1, 0, Void))
  /\ Same

OpencodeText(who, part, value) ==
  /\ Running("opencode") /\ root.state = "open" /\ part \in 1..(Len(root.parts) + 1)
  /\ IF who = "root"
     THEN root' = [root EXCEPT !.parts = IF part > Len(@) THEN Append(@, value)
                                                         ELSE [@ EXCEPT ![part] = value]]
     ELSE UNCHANGED root
  /\ Write(Event("text", who, root.message, part, value))
  /\ Same

OpencodeFinish(who, reason) ==
  /\ Running("opencode") /\ root.state = "open"
  /\ IF who = "root"
     THEN root' = [root EXCEPT !.state = CASE reason = "stop" /\ root.parts # <<>> -> "answered"
                                           [] reason = "tool-calls"                -> "paused"
                                           [] OTHER                                -> "failed"]
     ELSE UNCHANGED root
  /\ Write(Event("step_finish", who, root.message, 0, reason))
  /\ Same

OpencodeError ==
  /\ Running("opencode") /\ root.state \in {"open", "paused"}
  /\ root' = [root EXCEPT !.state = "failed"]
  /\ Write(Event("error", "root", root.message, 0, Void))
  /\ Same

\* Antigravity: one result event; a print timeout may report success as well.
AgyResult(status, value) ==
  /\ Running("agy") /\ root.state = "unborn"
  /\ root' = [root EXCEPT !.state = IF status = "SUCCESS" /\ value # Void THEN "answered" ELSE "failed",
                          !.parts = <<value>>]
  /\ Write(Event(status, "root", 0, 0, value))
  /\ Same

AgyTimesOut(value) ==
  /\ Running("agy") /\ root.state = "unborn"
  /\ root' = [root EXCEPT !.state = "failed"] /\ noted' = TRUE
  /\ Write(Event("SUCCESS", "root", 0, 0, value))
  /\ UNCHANGED <<harness, phase, outcome>>

\* Codex writes its last message to a file of its own.
CodexWrites(value) ==
  /\ Running("codex") /\ root.state = "unborn"
  /\ root' = [root EXCEPT !.state = "answered", !.parts = <<value>>]
  /\ Write(Event("output", "root", 0, 0, value))
  /\ Same

-----------------------------------------------------------------------------
(* The decoders: each returns a text, or Void where the code raises. *)

\* Variant: the last terminal event of any run.
MuseResultOfAnyone(s) ==
  LET ends == {i \in DOMAIN s : s[i].kind # "started"}
  IN IF ends = {} \/ s[Max(ends)].kind # "completed" THEN Void ELSE <<s[Max(ends)].value>>

\* The one terminal event of the run that started first.
MuseResult(s) ==
  LET started == {i \in DOMAIN s : s[i].kind = "started"}
      ends == {i \in DOMAIN s : s[i].kind # "started" /\ started # {}
                                /\ i > Min(started) /\ s[i].who = s[Min(started)].who}
  IN IF \E i \in ends : ends = {i} /\ s[i].kind = "completed" THEN <<s[Min(ends)].value>> ELSE Void

\* The decoder's state: the message under way, the one that finished, why, and the
\* parts of each message in the order they first appeared.
Blank == [current |-> 0, terminal |-> 0, reason |-> Void, texts |-> <<>>, bad |-> FALSE]

\* A part joins those of its message, or replaces the one with its number.
Revised(parts, new) ==
  LET at == {i \in DOMAIN parts : parts[i].part = new.part}
  IN IF at = {} THEN Append(parts, new) ELSE [i \in DOMAIN parts |-> IF i \in at THEN new ELSE parts[i]]

Collected(texts, e) ==
  LET parts == IF e.message \in DOMAIN texts THEN texts[e.message] ELSE <<>>
  IN [m \in DOMAIN texts \cup {e.message} |->
        IF m = e.message THEN Revised(parts, [part |-> e.part, value |-> e.value]) ELSE texts[m]]

Decode(d, e) ==
  CASE d.bad                  -> d
    [] ~d.bad /\ e.kind = "error"      -> [d EXCEPT !.bad = TRUE]
    [] ~d.bad /\ e.kind = "step_start" -> [d EXCEPT !.current = e.message, !.terminal = 0, !.reason = Void]
    [] ~d.bad /\ e.kind = "step_finish" ->
         IF e.message # d.current THEN [d EXCEPT !.bad = TRUE]
         ELSE [d EXCEPT !.terminal = e.message, !.reason = e.value]
    [] ~d.bad /\ e.kind = "text"       -> [d EXCEPT !.texts = Collected(@, e)]

\* The decoder after each event; events of other agents than the first are passed over.
Decoding(s) ==
  LET at[n \in 0..Len(s)] ==
        IF n = 0 THEN Blank
        ELSE IF s[n].who # s[1].who THEN at[n - 1] ELSE Decode(at[n - 1], s[n])
  IN at

OpencodeResult(s) ==
  LET d == Decoding(s)[Len(s)]
  IN IF d.bad \/ d.terminal = 0 \/ d.terminal # d.current \/ d.reason # "stop" \/ d.terminal \notin DOMAIN d.texts
     THEN Void ELSE [i \in DOMAIN d.texts[d.terminal] |-> d.texts[d.terminal][i].value]

AgyDecoded(s, note) ==
  IF note \/ Len(s) # 1 \/ s[1].kind # "SUCCESS" \/ s[1].value = Void THEN Void ELSE <<s[1].value>>

CodexResult(s) == IF s = <<>> THEN Void ELSE <<s[1].value>>

\* What each harness' run yields: nothing is decoded of a process that failed.
RunCodex(code) == IF code = 0 THEN CodexResult(stream) ELSE Void
RunMuse(code) == IF code = 0 THEN MuseResult(stream) ELSE Void
RunOpencode(code) == IF code = 0 THEN OpencodeResult(stream) ELSE Void
RunAgy(code) == IF code = 0 THEN AgyDecoded(stream, noted) ELSE Void

Decoded(code) ==
  CASE harness = "codex"    -> RunCodex(code)
    [] harness = "muse"     -> RunMuse(code)
    [] harness = "opencode" -> RunOpencode(code)
    [] harness = "agy"      -> RunAgy(code)

\* What a text says.  Muse and OpenCode follow a prompt and may leave out the fields
\* that a success implies; the others are held to the schema.
Says == {"proposal", "bare", "blocked", "invalid"}
PromptGuided(says) == says \in {"proposal", "bare"}
Proposal(says) == says = "proposal" \/ (harness \in {"muse", "opencode"} /\ PromptGuided(says))

Judge(code) ==
  LET text == Decoded(code)
  IN \E says \in Says :
       outcome' = CASE text # Void /\ Proposal(says)     -> [does |-> "submit", text |-> text]
                    [] text # Void /\ says = "blocked"   -> Failed(text)
                    [] OTHER                             -> Failed(Void)

\* The process ends by itself, whatever it has written by then.
Exit(code) ==
  /\ phase = "running" /\ phase' = "over"
  /\ Judge(code)
  /\ UNCHANGED <<harness, stream, root, noted>>

\* The deadline passes or the run is cancelled: nothing is decoded.
Stop ==
  /\ phase = "running" /\ phase' = "over"
  /\ outcome' = Failed(Void)
  /\ UNCHANGED <<harness, stream, root, noted>>

OutputNext ==
  \/ Probe \/ Start
  \/ \E who \in {"root", "sub"} :
       \/ MuseStarts(who)
       \/ \E how \in {"completed", "failed", "cancelled"}, v \in Text : MuseEnds(who, how, v)
       \/ OpencodeStep(who)
       \/ \E part \in 1..MaxParts, v \in Text : OpencodeText(who, part, v)
       \/ \E reason \in {"stop", "tool-calls", "length"} : OpencodeFinish(who, reason)
  \/ OpencodeError
  \/ \E status \in {"SUCCESS", "ERROR"}, v \in Text \cup {Void} : AgyResult(status, v)
  \/ \E v \in Text : AgyTimesOut(v) \/ CodexWrites(v)
  \/ \E code \in {0, 1} : Exit(code)
  \/ Stop

OutputSpec == OutputInit /\ [][OutputNext]_outputVars

-----------------------------------------------------------------------------
(* Properties. *)

\* What is submitted is what the root agent answered last: never a subagent's
\* text, a message it had moved on from, a part it revised, or an answer that a
\* timeout or a crash cut off.  And whenever the root agent has answered, the stream
\* decodes to that answer.
OnlyTheFinalAnswer ==
  /\ outcome # Void /\ outcome.does = "submit" => root.state = "answered" /\ outcome.text = root.parts
  /\ phase = "running" /\ root.state = "answered" => Decoded(0) = root.parts
=============================================================================
