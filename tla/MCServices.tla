------------------------------ MODULE MCServices ------------------------------
(* The small services beside the queue, for TLC.  They share no state and call  *)
(* nothing of each other, so a behaviour follows one of them and the rest stay  *)
(* as they began: the cache of analyses, the trading calendar, sessions, the    *)
(* supervisor, a harness' output, the settings, their prompts' upgrades and     *)
(* the browser's cache of responses.                                            *)
EXTENDS HarnessOutput, SingleFlightLru, TradingCalendar, Sessions, PublicQueries, Supervisor, Settings,
        PromptUpgrades, TLC


VARIABLES
  part   \* the service that moves

\* The days of the exchange's published calendars, 2024 to 2028 (nyse.com): closures
\* and early closes as months and days of a year.
Published ==
  [closed |->
     (2024 :> {<<1,1>>, <<1,15>>, <<2,19>>, <<3,29>>, <<5,27>>, <<6,19>>, <<7,4>>, <<9,2>>, <<11,28>>, <<12,25>>}
   @@ 2025 :> {<<1,1>>, <<1,20>>, <<2,17>>, <<4,18>>, <<5,26>>, <<6,19>>, <<7,4>>, <<9,1>>, <<11,27>>, <<12,25>>}
   @@ 2026 :> {<<1,1>>, <<1,19>>, <<2,16>>, <<4,3>>, <<5,25>>, <<6,19>>, <<7,3>>, <<9,7>>, <<11,26>>, <<12,25>>}
   @@ 2027 :> {<<1,1>>, <<1,18>>, <<2,15>>, <<3,26>>, <<5,31>>, <<6,18>>, <<7,5>>, <<9,6>>, <<11,25>>, <<12,24>>}
   @@ 2028 :> {<<1,17>>, <<2,21>>, <<4,14>>, <<5,29>>, <<6,19>>, <<7,4>>, <<9,4>>, <<11,23>>, <<12,25>>}),
   early |->
     (2024 :> {<<7,3>>, <<11,29>>, <<12,24>>} @@ 2025 :> {<<7,3>>, <<11,28>>, <<12,24>>}
   @@ 2026 :> {<<11,27>>, <<12,24>>} @@ 2027 :> {<<11,26>>} @@ 2028 :> {<<7,3>>, <<11,24>>})]

DaysOf(table) == UNION {{Date(y, d[1], d[2]) : d \in table[y]} : y \in DOMAIN table}
MCClosures == DaysOf(Published.closed)
MCHalves == DaysOf(Published.early)

Listed == [active |-> TRUE, market |-> "stocks", type |-> "CS", currency |-> "USD", dividends |-> TRUE]
Tickers == ("AAPL" :> Listed @@ "SPY" :> [Listed EXCEPT !.type = "ETF"]
            @@ "GLD" :> [Listed EXCEPT !.dividends = FALSE] @@ "XYZ" :> Nothing)

MCPolicies == {<<2, 3>>, <<4, 5>>}


Services == {"cache", "calendar", "sessions", "supervisor", "output", "settings", "upgrades", "display"}

allVars == <<vars, part, today, sessionVars, supervisorVars, outputVars,
             settingVars, upgradeVars, displayVars>>

MCInit ==
  /\ part \in Services
  /\ Init /\ CalendarInit /\ SessionsInit /\ SupervisorInit
  /\ OutputInit /\ SettingsInit /\ UpgradesInit /\ DisplayInit
  /\ part # "output" => harness = "codex"
  /\ part # "settings" => setting.min = 2 /\ setting.prompt = CHOOSE t \in Texts : TRUE
  /\ part # "upgrades" => key = "instructions"

Cache == part = "cache" /\ Next
  /\ UNCHANGED <<part, today, sessionVars, supervisorVars, outputVars,
                 settingVars, upgradeVars, displayVars>>
CalendarDay == part = "calendar" /\ Walk
  /\ UNCHANGED <<vars, part, sessionVars, supervisorVars, outputVars,
                 settingVars, upgradeVars, displayVars>>
BrowserStep == part = "sessions" /\ SessionsNext
  /\ UNCHANGED <<vars, part, today, supervisorVars, outputVars,
                 settingVars, upgradeVars, displayVars>>
ProcessStep == part = "supervisor" /\ SupervisorNext
  /\ UNCHANGED <<vars, part, today, sessionVars, outputVars,
                 settingVars, upgradeVars, displayVars>>
OutputStep == part = "output" /\ OutputNext
  /\ UNCHANGED <<vars, part, today, sessionVars, supervisorVars,
                 settingVars, upgradeVars, displayVars>>
SettingsStep == part = "settings" /\ SettingsNext
  /\ UNCHANGED <<vars, part, today, sessionVars, supervisorVars, outputVars,
                 upgradeVars, displayVars>>
UpgradesStep == part = "upgrades" /\ UpgradesNext
  /\ UNCHANGED <<vars, part, today, sessionVars, supervisorVars, outputVars,
                 settingVars, displayVars>>
BesideDisplay ==
  part = "display" /\ UNCHANGED <<vars, part, today, sessionVars, supervisorVars, outputVars,
                                 settingVars, upgradeVars>>
DisplayStep == BesideDisplay /\ DisplayNext

MCNext ==
  \/ Cache \/ CalendarDay \/ BrowserStep \/ ProcessStep
  \/ OutputStep \/ SettingsStep \/ UpgradesStep \/ DisplayStep

\* Each service's own fairness, where it is the one that moves.
MCFairness ==
  /\ \A t \in Thread : WF_vars(Cache /\ Return(t))
  /\ WF_allVars(ProcessStep /\ Main) /\ WF_allVars(ProcessStep /\ Keeper)
  /\ WF_allVars(ProcessStep /\ Kill)
  /\ WF_allVars(ProcessStep /\ evaluator = "stopping" /\ EndGroup)
  /\ \A c \in Client : SF_allVars(SettingsStep /\ Work(c))
  /\ WF_allVars(BesideDisplay /\ Refresh)
  /\ \A url \in Url : WF_allVars(BesideDisplay /\ AnswerTo(url))

MCSpec == MCInit /\ [][MCNext]_allVars /\ MCFairness

-----------------------------------------------------------------------------
(* One of the services' properties is evaluated only where its part moves; the      *)
(* others are those of their modules.                                               *)

\* Entries take the exchange's published boundaries (trading_calendar.py).
CalendarIsTheExchanges == part = "calendar" => EntriesTakePublishedBoundaries
=============================================================================
