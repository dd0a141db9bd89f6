---------------------------- MODULE PromptUpgrades ----------------------------
(* The shared prompts of the settings through the database's revisions          *)
(* (backend/alembic, backend/app/seed.py): each release may be upgraded,        *)
(* downgraded where that is supported, and its prompts edited meanwhile.  Rows  *)
(* do not meet, so one key is followed.  A text is the document it descends     *)
(* from and the phrases in it that some revision, or the rendering, looks for;  *)
(* a phrase broken over two lines is another phrase.                            *)
EXTENDS Naturals, Sequences, SequencesExt

CONSTANTS
  MaxHistory,  \* bound of the history
  NoRow

VARIABLES
  key,      \* the row that is followed
  at,       \* the revision the database is at
  text,     \* the row's value, NoRow when there is no row
  edited,   \* an administrator wrote it, and no revision has replaced it since
  history   \* setting_prompt_versions

upgradeVars == <<key, at, text, edited, history>>

Wrappers == {"managed", "rebuilt"}
Directions == {"long", "short"}

Document(words, has) == [words |-> words, has |-> has]
Holes == {"slug", "strategy", "policy", "submission"}
DirectionHole == {"block", "trailing", "inline"}   \* where {{direction_instructions}} stands
Wording ==
  {"anchor", "outperform", "mirror broken", "mirror", "matched broken", "matched", "supplied",
   "costs", "decision", "intro", "whole", "by policy", "nothing else", "no placeholders", "concise"}
TextRow ==
  [words: (Wrappers \cup Directions \cup {"instructions", "edited"}) \X Nat,
   has: SUBSET (Holes \cup DirectionHole \cup Wording)]

ASSUME UpgradesAssumption == NoRow \notin TextRow

-----------------------------------------------------------------------------
(* The documents the revisions carry. *)

Wrapper11 == [k \in Wrappers |-> Document(<<k, 11>>, Holes \cup {"anchor"})]
Wrapper12 == [k \in Wrappers |-> Document(<<k, 12>>, Holes \cup {"anchor", "outperform", "mirror broken"})]
Wrapper16 == Document(<<"rebuilt", 16>>, Holes \cup {"anchor", "outperform", "mirror broken"})
Before19 ==
  [k \in Wrappers |-> Document(IF k = "managed" THEN <<k, 12>> ELSE <<k, 16>>,
                           Holes \cup {"anchor", "matched broken", "mirror"})]
Wrapper19 ==
  [k \in Wrappers |-> Document(<<k, 19>>, Holes \cup {"anchor", "matched broken", "mirror"}
                                        \cup (IF k = "managed" THEN {"costs"} ELSE {}))]
Direction20 == [k \in Directions |-> Document(<<k, 20>>, {"intro", "whole", "nothing else"})]

\* The texts of the application of revision 30, and those of the time before them.
Selection == Holes \cup {"anchor", "inline"}
ManagedDefault == Document(<<"managed", 30>>, Selection \cup {"decision"})
RebuiltDefault == Document(<<"rebuilt", 30>>, Selection)
DirectionDefault == [k \in Directions |-> Document(<<k, 20>>, {"concise"})]
InstructionsDefault == Document(<<"instructions", 30>>, {})
Default ==
  CASE key = "managed"     -> ManagedDefault
    [] key = "rebuilt"     -> RebuiltDefault
    [] key \in Directions  -> DirectionDefault[key]
    [] OTHER               -> InstructionsDefault

ManagedBaseline ==
  Document(<<"managed", 0>>, Holes \cup {"anchor", "block", "matched broken", "decision"})
Baseline ==
  CASE key = "managed"     -> ManagedBaseline
    [] key = "rebuilt"     -> Document(<<"rebuilt", 19>>, Holes \cup {"anchor", "block", "matched broken"})
    [] key \in Directions  -> DirectionDefault[key]
    [] OTHER               -> Document(<<"instructions", 0>>, {})

-----------------------------------------------------------------------------
(* What revisions do to a text. *)

Replace(t, old, new) ==
  IF t = NoRow \/ old \notin t.has THEN t ELSE [t EXCEPT !.has = (@ \ {old}) \cup new]

\* Only a text that is still the old default is replaced.
ReplaceDefault(t, old, new) == IF t = old THEN new ELSE t

\* Revision 19 compares without regard to white space.
Flat(t) ==
  Replace(Replace(t, "matched broken", {"matched"}), "mirror broken", {"mirror"})

\* Variant: line breaks count.
ReplaceExact(t, old, new) == IF t = old THEN new ELSE t
ReplaceWrapper(t, old, new) == IF t # NoRow /\ Flat(t) = Flat(old) THEN new ELSE t

\* Variant: a wrapper without the strategy's heading is left as it is.
AddAtAnchor(t) ==
  IF t.has \cap DirectionHole # {} \/ "anchor" \notin t.has THEN t
  ELSE [t EXCEPT !.has = @ \cup {"block"}]

AddDirectionBlock(t) ==
  CASE t.has \cap DirectionHole # {} -> t
    [] "anchor" \in t.has            -> [t EXCEPT !.has = @ \cup {"block"}]
    [] OTHER                         -> [t EXCEPT !.has = @ \cup {"trailing"}]

RemoveDirectionBlock(t) ==
  CASE "block" \in t.has    -> [t EXCEPT !.has = @ \ {"block"}]
    [] "trailing" \in t.has -> [t EXCEPT !.has = @ \ {"trailing"}]
    [] OTHER                -> [t EXCEPT !.has = @ \ {"inline"}]

AllocateReference(t) ==
  Replace(Replace(Replace(t, "whole", {"by policy"}), "nothing else", {"no placeholders"}),
          "mirror", {"supplied"})

\* The three lines of a direction's text, one after the other.
LongBlock == {"intro", "by policy", "no placeholders"}

Concise(t) ==
  LET short == IF key \in Directions /\ LongBlock \subseteq t.has
               THEN [t EXCEPT !.has = (@ \ LongBlock) \cup {"concise"}] ELSE t
      plain == Replace(short, "supplied", {})
  IN IF key = "managed" /\ "policy" \in plain.has THEN [plain EXCEPT !.has = @ \cup {"decision"}]
     ELSE plain

-----------------------------------------------------------------------------
UpgradesInit ==
  /\ key \in Wrappers \cup Directions \cup {"instructions"}
  /\ at = 10 /\ text = NoRow /\ edited = FALSE /\ history = <<>>

Move(from, to) == at = from /\ at' = to

Upgrade11 ==
  /\ Move(10, 11)
  /\ text' = IF key \in Wrappers /\ text = NoRow THEN Wrapper11[key] ELSE text
  /\ UNCHANGED <<key, edited, history>>

Downgrade11 ==
  /\ Move(11, 10)
  /\ IF key \in Wrappers THEN text' = NoRow /\ edited' = FALSE ELSE UNCHANGED <<text, edited>>
  /\ UNCHANGED <<key, history>>

Upgrade12 ==
  /\ Move(11, 12)
  /\ text' = IF key \in Wrappers THEN ReplaceDefault(text, Wrapper11[key], Wrapper12[key]) ELSE text
  /\ UNCHANGED <<key, edited, history>>

Downgrade12 ==
  /\ Move(12, 11)
  /\ text' = IF key \in Wrappers THEN ReplaceDefault(text, Wrapper12[key], Wrapper11[key]) ELSE text
  /\ UNCHANGED <<key, edited, history>>

\* The rebuilt wrapper is written anew, edited or not; the downgrade leaves it.
Upgrade16 ==
  /\ Move(12, 16)
  /\ IF key = "rebuilt" THEN text' = Wrapper16 /\ edited' = FALSE ELSE UNCHANGED <<text, edited>>
  /\ UNCHANGED <<key, history>>

Downgrade16 == Move(16, 12) /\ UNCHANGED <<key, text, edited, history>>

Upgrade17 ==
  /\ Move(16, 17)
  /\ text' = IF key \in Wrappers THEN Replace(text, "outperform", {"matched"}) ELSE text
  /\ UNCHANGED <<key, edited, history>>

Downgrade17 ==
  /\ Move(17, 16)
  /\ text' = IF key \in Wrappers THEN Replace(text, "matched", {"outperform"}) ELSE text
  /\ UNCHANGED <<key, edited, history>>

Upgrade19 ==
  /\ Move(17, 19)
  /\ text' = IF key \in Wrappers THEN ReplaceWrapper(text, Before19[key], Wrapper19[key]) ELSE text
  /\ UNCHANGED <<key, edited, history>>

Downgrade19 ==
  /\ Move(19, 17)
  /\ text' = IF key \in Wrappers THEN ReplaceWrapper(text, Wrapper19[key], Before19[key]) ELSE text
  /\ UNCHANGED <<key, edited, history>>

Upgrade20 ==
  /\ Move(19, 20)
  /\ text' = CASE key \in Wrappers                   -> AddDirectionBlock(text)
               [] key \in Directions /\ text = NoRow  -> Direction20[key]
               [] OTHER                              -> text
  /\ UNCHANGED <<key, edited, history>>

Downgrade20 ==
  /\ Move(20, 19)
  /\ text' = CASE key \in Wrappers   -> RemoveDirectionBlock(text)
               [] key \in Directions -> NoRow
               [] OTHER              -> text
  /\ edited' = (edited /\ key \notin Directions)
  /\ UNCHANGED <<key, history>>

\* From here on a downgrade is refused.
Upgrade27 ==
  /\ Move(20, 27)
  /\ text' = IF key = "managed" THEN Replace(text, "costs", {}) ELSE text
  /\ UNCHANGED <<key, edited, history>>

Upgrade28 ==
  /\ Move(27, 28)
  /\ text' = IF text = NoRow THEN NoRow ELSE AllocateReference(text)
  /\ UNCHANGED <<key, edited, history>>

Upgrade29 ==
  /\ Move(28, 29)
  /\ text' = IF text = NoRow THEN NoRow ELSE Concise(text)
  /\ UNCHANGED <<key, edited, history>>

\* Variant: the history begins with the defaults.
Upgrade30FromDefaults ==
  /\ Move(29, 30)
  /\ text' = IF text = NoRow THEN Default ELSE text
  /\ history' = <<Baseline, Default>>
  /\ UNCHANGED <<key, edited>>

Upgrade30 ==
  /\ Move(29, 30)
  /\ text' = IF text = NoRow THEN Default ELSE text
  /\ history' = <<Baseline, text'>>
  /\ UNCHANGED <<key, edited>>

\* The texts are left as they are; the history goes.
Downgrade28 == \E r \in {28, 29} : Move(r, r - 1) /\ UNCHANGED <<key, text, edited, history>>
Downgrade30 == Move(30, 29) /\ history' = <<>> /\ UNCHANGED <<key, text, edited>>

\* Every start adds what is missing and changes nothing that is there.
SeedSettings ==
  /\ at = 30
  /\ text' = IF text = NoRow THEN Default ELSE text
  /\ history' = IF Len(history) = 0 THEN <<Baseline, text'>> ELSE history
  /\ UNCHANGED <<key, at, edited>>

\* An administrator saves a text that the release accepts.
Accepts(t) ==
  /\ key \in Wrappers => Holes \subseteq t.has
  /\ key \in Wrappers /\ at >= 20 => t.has \cap DirectionHole # {}
  /\ key \in Wrappers /\ at < 20 => t.has \cap DirectionHole = {}
  /\ "block" \in t.has => "anchor" \in t.has

Phrases ==
  IF key \in Wrappers THEN {"anchor", "outperform", "costs", "mirror"} \cup DirectionHole
  ELSE IF key \in Directions THEN {"intro", "whole", "nothing else", "by policy", "no placeholders"}
  ELSE {}

Edit ==
  /\ text # NoRow
  /\ \E s \in SUBSET Phrases :
       LET t == Document(<<"edited", 0>>, s \cup (IF key \in Wrappers THEN Holes ELSE {})) IN
       /\ Accepts(t)
       /\ IF at < 30 \/ t = text THEN UNCHANGED history
          ELSE Len(history) < MaxHistory /\ history' = Append(history, t)
       /\ text' = t
  /\ edited' = TRUE
  /\ UNCHANGED <<key, at>>

UpgradesNext ==
  \/ Upgrade11 \/ Upgrade12 \/ Upgrade16 \/ Upgrade17 \/ Upgrade19 \/ Upgrade20
  \/ Upgrade27 \/ Upgrade28 \/ Upgrade29 \/ Upgrade30
  \/ Downgrade11 \/ Downgrade12 \/ Downgrade16 \/ Downgrade17 \/ Downgrade19 \/ Downgrade20
  \/ Downgrade28 \/ Downgrade30
  \/ SeedSettings \/ Edit

UpgradesSpec == UpgradesInit /\ [][UpgradesNext]_upgradeVars

-----------------------------------------------------------------------------
(* Properties. *)

\* Whatever was edited, upgraded or downgraded, every wrapper can be rendered: it
\* holds each value the application fills in, also where an administrator removed
\* the heading that a revision anchors its insertion to.
WrappersStayUsable ==
  key \in Wrappers /\ text # NoRow =>
    Holes \subseteq text.has /\ (at >= 20 => text.has \cap DirectionHole # {})

\* A prompt that nobody edited ends up the same in every database, on whatever way
\* up and down it went, although each revision knows the text only as the one
\* before should have left it.
Final ==
  CASE key = "managed"    -> Document(<<"managed", 19>>, Holes \cup {"anchor", "block", "matched broken", "decision"})
    [] key = "rebuilt"    -> Document(<<"rebuilt", 19>>, Holes \cup {"anchor", "block", "matched broken"})
    [] key \in Directions -> DirectionDefault[key]
    [] OTHER              -> InstructionsDefault

UneditedPromptsAgree == at = 30 /\ ~edited => text = Final

\* What an administrator wrote stands, and the history ends with the text in use.
EditsStand ==
  /\ edited => text # NoRow /\ text.words[1] = "edited"
  /\ at = 30 => Last(history) = text
=============================================================================
