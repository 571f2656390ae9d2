--------------------------- MODULE TenantCalendar ---------------------------
(***************************************************************************)
(* When a regulatory clock runs out: Calendar.Due of                       *)
(* backend/internal/dispute/domain/deadline.go, in the tenant's time zone, *)
(* over weekends, the tenant's holidays and the changes of the zone's      *)
(* offset.  Due moves by calendar days with Go's time package, which names *)
(* a moment by a local day and hour; a local hour may not exist, or exist  *)
(* twice, on the day the offset changes.                                   *)
(*                                                                         *)
(* Instants are hours, counted from local midnight of a Monday in UTC; a   *)
(* day is 24 of them unless the zone changes its offset.  A due time is    *)
(* the first instant after the deadline, where the code subtracts a        *)
(* nanosecond.                                                             *)
(***************************************************************************)
EXTENDS Integers, FiniteSets

CONSTANTS
  Zones,        \* [before, after, change]: offsets around the instant it changes
  Calendars,    \* calendars tenants have: [zone, holidays]
  Starts,       \* instants at which clocks start
  Clocks,       \* [count, unit]
  MaxDays       \* bound: days looked at

VARIABLES
  calendar,     \* tenants.settings: the zone and the holidays
  clock         \* a clock opened under it: <<>> or <<[start, clock, calendar, due]>>

calendarVars == <<calendar, clock>>

-----------------------------------------------------------------------------
(* The time package, as far as Due uses it *)

lookup(zone, u) == IF u < zone.change THEN zone.before ELSE zone.after

Day(zone, u) == (u + lookup(zone, u)) \div 24
Hour24(zone, u) == (u + lookup(zone, u)) % 24

\* time.Date: the offset in force at the local hour read as UTC, and if that leads out
\* of its own period, the offset in force there.
Date(zone, day, hour) ==
  LET unix == 24 * day + hour
      guess == lookup(zone, unix)
      within == (unix - guess < zone.change) <=> (unix < zone.change)
  IN IF guess = 0 \/ within THEN unix - guess ELSE unix - lookup(zone, unix - guess)

\* AddDate(0, 0, 1): the same hour of the next local day.
AddDay(zone, u) == Date(zone, Day(zone, u) + 1, Hour24(zone, u))

-----------------------------------------------------------------------------
(* Due *)

Weekend(day) == day % 7 \in {5, 6}

BusinessDay(cal, day) == ~Weekend(day) /\ day \notin cal.holidays

IsBusinessDay(cal, u) == BusinessDay(cal, Day(cal.zone, u))

\* The rounds of Due's loop: the day it stands on before the first and after each.
rounds(cal, start) ==
  LET step[n \in 0 .. MaxDays] ==
        IF n = 0 THEN Date(cal.zone, Day(cal.zone, start), 0) ELSE AddDay(cal.zone, step[n - 1])
  IN step

\* The loop ends after the first round up to which as many counted as the clock has days.
lastRound(counted, count) ==
  CHOOSE n \in 0 .. MaxDays :
    /\ Cardinality(counted \cap (1 .. n)) = count
    /\ \A m \in 0 .. n - 1 : Cardinality(counted \cap (1 .. m)) # count

\* Fault: a clock of business days counts the tenant's holidays.
Due_Fault(cal, start, c) ==
  LET step == rounds(cal, start)
      counted == {m \in 1 .. MaxDays : c.unit = "CALENDAR" \/ ~Weekend(Day(cal.zone, step[m]))}
  IN AddDay(cal.zone, step[lastRound(counted, c.count)])

Due(cal, start, c) ==
  LET step == rounds(cal, start)
      counted == {m \in 1 .. MaxDays : c.unit = "CALENDAR" \/ IsBusinessDay(cal, step[m])}
  IN AddDay(cal.zone, step[lastRound(counted, c.count)])

\* cmd/tenant upsert; clocks opened before keep the due time they were given.
SetCalendar(cal) ==
  /\ calendar' = cal
  /\ clock' = <<>>

OpenClock(start, c) ==
  /\ clock = <<>>
  /\ clock' = <<[start |-> start, clock |-> c, calendar |-> calendar, due |-> Due(calendar, start, c)]>>
  /\ UNCHANGED calendar

-----------------------------------------------------------------------------
(* Properties *)

\* The days that count, up to this one, and the day a clock should run out on, all on the
\* wall calendar.
CountedDays(cal, start, c, day) ==
  {d \in Day(cal.zone, start) + 1 .. day : c.unit = "CALENDAR" \/ BusinessDay(cal, d)}
RunsOutOn(cal, start, c, day) ==
  /\ day \in CountedDays(cal, start, c, day)
  /\ Cardinality(CountedDays(cal, start, c, day)) = c.count
LastDay(cal, start, c) ==
  CHOOSE day \in Day(cal.zone, start) .. Day(cal.zone, start) + MaxDays : RunsOutOn(cal, start, c, day)

\* The first instant of a local day, whatever the zone does that night.
FirstInstant(zone, day) ==
  CHOOSE u \in 24 * day - 26 .. 24 * day + 26 : Day(zone, u) >= day /\ Day(zone, u - 1) < day

\* The local hour at which the zone's offset changes, and the one it changes to.
FromHour(zone) == zone.change + zone.before
ToHour(zone) == zone.change + zone.after

\* The zone's clocks jump over a midnight, or come back to it.
SkipsMidnight(zone) == ToHour(zone) > FromHour(zone) /\ FromHour(zone) % 24 = 0
RepeatsMidnight(zone) == ToHour(zone) < FromHour(zone) /\ ToHour(zone) % 24 = 0

\* Changes as zones make them: one that skips a midnight starts there, lasts half a day
\* at most and, west of Greenwich, falls on a Sunday; one that sets the clocks back does
\* not go back to the day before, unless it starts at midnight.
ZoneAsUsed(zone) ==
  /\ zone.before \in -12 .. 14 /\ zone.after \in -12 .. 14 /\ zone.change \in Int
  /\ ToHour(zone) > FromHour(zone) =>
       IF FromHour(zone) % 24 = 0
       THEN /\ ToHour(zone) - FromHour(zone) <= 12
            /\ zone.before < 0 => (FromHour(zone) \div 24) % 7 = 6
       ELSE (FromHour(zone) - 1) \div 24 = (ToHour(zone) - 1) \div 24
  /\ ToHour(zone) < FromHour(zone) => (FromHour(zone) - 1) \div 24 = ToHour(zone) \div 24

\* MaxDays is no bound: every clock runs out before it.
ASSUME CalendarAssumption ==
  /\ Starts \subseteq Int /\ MaxDays \in Nat
  /\ \A c \in Clocks : c.count \in Nat \ {0}
  /\ \A cal \in Calendars : cal.zone \in Zones
  /\ \A zone \in Zones : ZoneAsUsed(zone)
  /\ \A cal \in Calendars, start \in Starts, c \in Clocks :
       \E day \in Day(cal.zone, start) .. Day(cal.zone, start) + MaxDays - 1 : RunsOutOn(cal, start, c, day)

End(x) == FirstInstant(x.calendar.zone, LastDay(x.calendar, x.start, x.clock) + 1)

\* A clock runs out with the last of its days: its due time is the end of that day on
\* the tenant's wall calendar, however many weekends, holidays and changes of the
\* offset lie between.  Where the change of the offset skips a midnight the code may
\* miss that, by no more than the hours skipped before it and by less than a day after;
\* where it comes back to midnight, by no more than the hours that come twice.
DueEndsTheLastDay ==
  clock # <<>> =>
    LET x == clock[1]
        zone == x.calendar.zone
        off == x.due - End(x)
    IN IF SkipsMidnight(zone) THEN zone.before - zone.after <= off /\ off < 24
       ELSE IF RepeatsMidnight(zone) THEN 0 <= off /\ off <= zone.before - zone.after
       ELSE off = 0

=============================================================================
