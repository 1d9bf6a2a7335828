--------------------------------- MODULE Calendar ---------------------------------
(***************************************************************************)
(* What the program makes of the real calendar, day by day: the weeks of   *)
(* schedule_for_year, the rows of the building's page, the columns of the  *)
(* PDF, the events of the feed and what a calendar application keeps of    *)
(* them, and the names under which the nightly backups are stored.  Weeks  *)
(* are ISO weeks, years are calendar years, and they do not begin          *)
(* together.                                                               *)
(*                                                                         *)
(* A day is the number of days since 0000-12-31, so that day 1 is a        *)
(* Monday.  Who has a week is Schedule's subject; a week is its year, its  *)
(* number and its Monday here.                                             *)
(***************************************************************************)
EXTENDS Integers, FiniteSets, SequencesExt

CONSTANTS FirstYear, LastYear,  \* the calendar goes from the first to the last
          PastYears             \* how long a calendar application keeps events

ASSUME CalendarYears == LastYear \in Nat /\ FirstYear \in 2..LastYear /\ PastYears \in Nat

-----------------------------------------------------------------------------
(* chrono *)

\* January 1st, by the days and the leap days before it.
NewYear(y) == LET n == y - 1 IN 365 * n + n \div 4 - n \div 100 + n \div 400 + 1

\* 0 on Mondays.
Weekday(d) == (d - 1) % 7

MondayOf(d) == d - Weekday(d)

\* Week 1 is the one with January 4th.
IsoNewYear(y) == MondayOf(NewYear(y) + 3)

\* NaiveDate::iso_week, for the days of the calendar year y and those next to it.
IsoYear(d, y) == CHOOSE i \in y - 1..y + 1 : IsoNewYear(i) <= d /\ d < IsoNewYear(i + 1)
IsoWeek(d, y) == 1 + (d - IsoNewYear(IsoYear(d, y))) \div 7

-----------------------------------------------------------------------------
VARIABLES day, year,   \* Local::now() and Utc::now(): the day and its year
          polled,      \* the year in which the calendar application last fetched the feed
          stored       \* the day of the newest nightly backup of each name

calendarVars == <<day, year, polled, stored>>

\* schedule_for_year: Mondays from week 1 on, as long as they are of the ISO year.
schedule_for_year(y) ==
  [i \in 1..(IsoNewYear(y + 1) - IsoNewYear(y)) \div 7 |->
     [year |-> y, iso_week |-> i, start |-> IsoNewYear(y) + 7 * (i - 1)]]

End(w) == w.start + 6

\* Mutant: the last day of a week is not counted.
NotOverYet(w, today) == End(w) > today

Remaining(w, today) == End(w) >= today

\* The building's page: the remaining weeks of the year that the first clock read
\* gives, and at most twelve; `today' is read again.
PageRows(y, today) ==
  LET rest == {w \in ToSet(schedule_for_year(y)) : Remaining(w, today)}
  IN {w \in rest : Cardinality({v \in rest : v.start < w.start}) < 12}

is_current(w, today) == w.start <= today /\ today <= End(w)

-----------------------------------------------------------------------------
(* The PDF *)

\* Mutant: one week of the next year at the bottom.
ColumnsOneShort(y) ==
  LET current == schedule_for_year(y)
      prev == schedule_for_year(y - 1)
      next == schedule_for_year(y + 1)
      n == Len(current)
      perColumn == (n + 3) \div 2
  IN IF n % 2 = 0
       THEN <<SubSeq(current, 1, n \div 2), SubSeq(current, n \div 2 + 1, n)>>
       ELSE <<<<prev[Len(prev)]>> \o SubSeq(current, 1, perColumn - 1),
              SubSeq(current, perColumn, n) \o SubSeq(next, 1, 1)>>

\* The rows of the left and of the right column.  A year of 53 weeks takes one of
\* the previous and two of the next year along.
balanced_columns(y) ==
  LET current == schedule_for_year(y)
      prev == schedule_for_year(y - 1)
      next == schedule_for_year(y + 1)
      n == Len(current)
      perColumn == (n + 3) \div 2
  IN IF n % 2 = 0
       THEN <<SubSeq(current, 1, n \div 2), SubSeq(current, n \div 2 + 1, n)>>
       ELSE <<<<prev[Len(prev)]>> \o SubSeq(current, 1, perColumn - 1),
              SubSeq(current, perColumn, n) \o SubSeq(next, 1, 2)>>

-----------------------------------------------------------------------------
(* The feed *)

\* Mutant: the calendar year of the Monday instead of the ISO year.
UidOfMonday(w) ==
  [year |-> IF w.start < NewYear(w.year) THEN w.year - 1 ELSE w.year, iso_week |-> w.iso_week]

uid_for(w) == [year |-> w.year, iso_week |-> w.iso_week]

\* FEED_YEARS: the events of the feed fetched in the year y.
Feed(y) ==
  LET weeks == ToSet(schedule_for_year(y)) \cup ToSet(schedule_for_year(y + 1))
  IN {[uid |-> uid_for(w), start |-> w.start, end |-> End(w) + 1] : w \in weeks}

\* A calendar application that keeps what it has and replaces an event by its UID.
Subscribed ==
  IF polled = 0 THEN Feed(year)
  ELSE LET new == Feed(year)
           uids == {e.uid : e \in new}
       IN new \cup {e \in Feed(polled) : e.uid \notin uids}

-----------------------------------------------------------------------------
(* The nightly backups *)

\* The last Sunday that is not after the day d.
SundayUntil(d) == d - ((Weekday(d) + 1) % 7)

\* Mutant: ISO week 52.
SundayOfWeek52(d, y) == IsoWeek(d, y) = 52

last_sunday_of_year(d, y) == d = SundayUntil(NewYear(y + 1) - 1)

\* The name of the backup at 04:00.
object_name(d, y) ==
  IF Weekday(d) # 6 THEN <<"daily", Weekday(d)>>
  ELSE IF last_sunday_of_year(d, y) THEN <<"yearly", y>>
  ELSE <<"weekly", IsoWeek(d, y)>>

Night(d, y) ==
  [name \in DOMAIN stored \cup {object_name(d, y)} |->
     IF name = object_name(d, y) THEN d ELSE stored[name]]

-----------------------------------------------------------------------------
CalendarInit ==
  /\ year = FirstYear /\ day = NewYear(year)
  /\ polled = 0
  /\ stored = [name \in {object_name(day, year)} |-> day]

\* The next day, with its backup.
Midnight ==
  /\ year' = IF day + 1 = NewYear(year + 1) THEN year + 1 ELSE year
  /\ year' <= LastYear
  /\ day' = day + 1
  /\ stored' = Night(day', year')
  /\ polled' = IF year' - polled > PastYears THEN 0 ELSE polled

\* The calendar application fetches the feed; it need not do it every year.
Poll ==
  /\ polled' = year
  /\ UNCHANGED <<day, year, stored>>

CalendarNext == Midnight \/ Poll

CalendarSpec == CalendarInit /\ [][CalendarNext]_calendarVars

-----------------------------------------------------------------------------
(* Properties *)

\* schedule_rows and the building's page: the present week is there, first and as the
\* only one marked, on every day and when midnight falls between the two clock
\* reads; but for the days around New Year whose ISO year is not the calendar year,
\* on which no week is marked.
PageMarksThisWeek ==
  \A today \in {day, day + 1} :
    LET rows == PageRows(year, today)
        marked == {w \in rows : is_current(w, today)}
    IN IF IsoYear(today, year) = year
         THEN \E w \in rows : marked = {w} /\ \A v \in rows : w.start <= v.start
         ELSE marked = {}

\* balanced_columns: both columns of the PDF have the same length, and read one
\* after the other they are consecutive weeks, among them every week of the year; it
\* is enough to look on the first day of the year.
ColumnsAreConsecutive ==
  day = NewYear(year) =>
  LET left == balanced_columns(year)[1]
      right == balanced_columns(year)[2]
      rows == left \o right
  IN /\ Len(left) = Len(right)
     /\ \A i \in 1..Len(rows) - 1 : rows[i + 1].start = rows[i].start + 7
     /\ ToSet(schedule_for_year(year)) \subseteq ToSet(rows)

\* uid_for: events are replaced, never duplicated and never confused, however long
\* the application has not fetched the feed: no two of those that it holds are of the
\* same days or have the same UID, and from the first to the last week of the feed
\* none is missing.
EveryWeekIsOneEvent ==
  LET starts == {e.start : e \in Subscribed}
  IN /\ Cardinality(starts) = Cardinality(Subscribed)
     /\ Cardinality({e.uid : e \in Subscribed}) = Cardinality(Subscribed)
     /\ \A e \in Feed(year) : e.end \in starts \cup {IsoNewYear(year + 2)}

\* naming: retention by overwriting, with names that recur in years of 52 and of 53
\* weeks.  Every night of the last week but a Sunday's, every Sunday's of the last
\* 52 weeks, and the last Sunday's of every year are in the store.
NightsAreRetained ==
  LET kept == {stored[name] : name \in DOMAIN stored}
      first == NewYear(FirstYear)
  IN /\ \A d \in day - 6..day : d >= first => d \in kept
     /\ \A n \in 0..51 : SundayUntil(day) - 7 * n >= first => SundayUntil(day) - 7 * n \in kept
     /\ \A y \in FirstYear..year - 1 : SundayUntil(NewYear(y + 1) - 1) \in kept
=============================================================================
