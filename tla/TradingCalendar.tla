--------------------------- MODULE TradingCalendar ---------------------------
(* The NYSE sessions and their boundaries, as services/trading_calendar.py      *)
(* derives them by rule.  A date is the number of days since Monday 1 January   *)
(* of the year Epoch, a time the minutes since New York's midnight.  The        *)
(* machine walks one day at a time and keeps nothing else.                      *)
EXTENDS Naturals, FiniteSets, FiniteSetsExt

CONSTANTS
  Epoch,     \* a year that begins on a Monday
  Horizon,   \* the last day walked
  Closures,  \* the full closures the exchange scheduled
  Halves     \* the early closes the exchange scheduled

VARIABLE today

Leap(y) == y % 4 = 0 /\ (y % 100 # 0 \/ y % 400 = 0)

Years == Epoch..(Epoch + (Horizon \div 365) + 1)
FirstDay == [y \in Years |-> 365 * (y - Epoch) + Cardinality({x \in Epoch..(y - 1) : Leap(x)})]
FirstOfMonth == <<0, 31, 59, 90, 120, 151, 181, 212, 243, 273, 304, 334, 365>>

\* The day of a civil date.
Date(y, m, d) == FirstDay[y] + FirstOfMonth[m] + (IF m > 2 /\ Leap(y) THEN 1 ELSE 0) + d - 1

YearOf(d) == Max({y \in Years : FirstDay[y] <= d})

Weekday(d) == d % 7     \* Monday is 0

-----------------------------------------------------------------------------
(* The rules. *)

\* The anonymous Gregorian computus.
Easter(y) ==
  LET a == y % 19
      b == y \div 100
      c == y % 100
      f == (b + 8) \div 25
      g == (b - f + 1) \div 3
      h == (19 * a + b - (b \div 4) - g + 15) % 30
      l == (32 + 2 * (b % 4) + 2 * (c \div 4) + 35 - h - (c % 4)) % 7
      m == (a + 11 * h + 22 * l) \div 451
      n == (h + l + 114) - 7 * m
  IN Date(y, n \div 31, (n % 31) + 1)

NthWeekday(y, m, w, n) ==
  LET first == Date(y, m, 1)
  IN first + ((w + 7 - Weekday(first)) % 7) + 7 * (n - 1)

LastWeekday(y, m, w) ==
  LET last == Date(y, m + 1, 1) - 1
  IN last - ((Weekday(last) + 7 - w) % 7)

\* Variant: a Sunday's holiday is not moved.
ObservedBackOnly(d) == IF Weekday(d) = 5 THEN d - 1 ELSE d

Observed(d) ==
  CASE Weekday(d) = 5 -> d - 1
    [] Weekday(d) = 6 -> d + 1
    [] OTHER          -> d

\* A New Year's Day observed in the year before belongs to neither year's set.
MarketHolidays(y) ==
  {d \in {NthWeekday(y, 1, 0, 3), NthWeekday(y, 2, 0, 3), Easter(y) - 2, LastWeekday(y, 5, 0),
          Observed(Date(y, 6, 19)), Observed(Date(y, 7, 4)), NthWeekday(y, 9, 0, 1),
          NthWeekday(y, 11, 3, 4), Observed(Date(y, 12, 25))}
         \cup (IF Weekday(Date(y, 1, 1)) = 5 THEN {} ELSE {Observed(Date(y, 1, 1))}) :
     YearOf(d) = y}

HolidaysOf == [y \in Years |-> MarketHolidays(y)]
IsTradingDay(d) == Weekday(d) < 5 /\ d \notin HolidaysOf[YearOf(d)]

OpenTime == 9 * 60 + 30
RegularClose == 16 * 60
EarlyClose == 13 * 60

CloseTime(d) ==
  LET y == YearOf(d)
      early == {Date(y, 7, 3), NthWeekday(y, 11, 3, 4) + 1, Date(y, 12, 24)}
  IN IF d \in early /\ IsTradingDay(d)
        /\ d \notin {Observed(Date(y, 7, 4)), Observed(Date(y, 12, 25))}
     THEN EarlyClose ELSE RegularClose

BoundaryTime(d, phase) == IF phase = "open" THEN OpenTime ELSE CloseTime(d)

\* The boundary of day d is strictly after minute t of day e.
StrictlyAfter(d, phase, e, t) == d > e \/ (d = e /\ BoundaryTime(d, phase) > t)

EffectiveDateFor(e, t, phase) ==
  Min({d \in e..(e + 7) : IsTradingDay(d) /\ StrictlyAfter(d, phase, e, t)})

IsLocked(effective, e, t, phase) == ~StrictlyAfter(effective, phase, e, t)

-----------------------------------------------------------------------------
CalendarInit == today = 0

Walk == today < Horizon /\ today' = today + 1

CalendarSpec == CalendarInit /\ [][Walk]_today

-----------------------------------------------------------------------------
(* Properties. *)

\* By rule alone the program trades exactly the sessions the exchange scheduled,
\* and closes early exactly on its early closes.  A manual entry takes the next
\* published boundary: also when it is made in the minute of a boundary, after an
\* early close, or before a run of closed days; and the entry before it is locked.
PublishedSession(d) == Weekday(d) < 5 /\ d \notin Closures
PublishedBoundary(d, phase) ==
  CASE phase = "open" -> OpenTime
    [] d \in Halves   -> EarlyClose
    [] OTHER          -> RegularClose

NextPublished(e, t, phase) ==
  CHOOSE d \in e..(e + 7) :
    /\ PublishedSession(d) /\ (d > e \/ PublishedBoundary(d, phase) > t)
    /\ \A x \in e..(d - 1) : ~(PublishedSession(x) /\ (x > e \/ PublishedBoundary(x, phase) > t))

Instants == {OpenTime - 1, OpenTime, EarlyClose - 1, EarlyClose, RegularClose - 1, RegularClose}

EntriesTakePublishedBoundaries ==
  \A t \in Instants, phase \in {"open", "close"} :
    LET e == EffectiveDateFor(today, t, phase)
    IN /\ e = NextPublished(today, t, phase)
       /\ BoundaryTime(e, phase) = PublishedBoundary(e, phase)
       /\ ~IsLocked(e, today, t, phase)
=============================================================================
