-------------------------------- MODULE Schedule --------------------------------
(***************************************************************************)
(* The rules of src/scheduler/mod.rs that turn the periods of a building   *)
(* into a weekly assignment, as operators on the data they read.           *)
(*                                                                         *)
(* The calendar of PeriodChain is cut into weeks of WeekDays days, seven   *)
(* in the code; the days of the first Monday are 1..WeekDays.              *)
(***************************************************************************)
EXTENDS PeriodChain, FiniteSets

CONSTANTS WeekDays,     \* 7
          EpochWeek,    \* the week of 2020-01-06, which the rotation counts from
          YearStart     \* the weeks that are week 1 of an ISO year

Week == 1..LastDay \div WeekDays

ASSUME WeekAssumption ==
  /\ WeekDays \in Nat \ {0}
  /\ EpochWeek \in Int
  /\ YearStart \subseteq Week

\* Monday and Sunday of a week.
WeekStart(w) == (w - 1) * WeekDays + 1
WeekEnd(w) == w * WeekDays

\* `days >= 4': more than half of the week.
MajorityDays == WeekDays \div 2 + 1

\* Mutant: the last day is not counted.
OverlapExclusive(p, w) ==
  LET first == IF p.start > WeekStart(w) THEN p.start ELSE WeekStart(w)
      last == IF p.end < WeekEnd(w) THEN p.end ELSE WeekEnd(w)
  IN IF first > last THEN 0 ELSE last - first

overlap_days(p, w) ==
  LET first == IF p.start > WeekStart(w) THEN p.start ELSE WeekStart(w)
      last == IF p.end < WeekEnd(w) THEN p.end ELSE WeekEnd(w)
  IN IF first > last THEN 0 ELSE last - first + 1

\* Mutant: `days > 4'.
MajorityAboveFour(C, w) ==
  {p \in C : /\ overlap_days(p, w) > MajorityDays
             /\ \A q \in C \ {p} :
                  \/ overlap_days(q, w) < overlap_days(p, w)
                  \/ overlap_days(q, w) = overlap_days(p, w) /\ p.start <= q.start}

\* Mutant: without `days >= 4', whoever covers most of the week.
PluralityOwner(C, w) ==
  {p \in C : /\ overlap_days(p, w) > 0
             /\ \A q \in C \ {p} :
                  \/ overlap_days(q, w) < overlap_days(p, w)
                  \/ overlap_days(q, w) = overlap_days(p, w) /\ p.start <= q.start}

\* The period of the chain C that the week w belongs to, or none: the loop keeps
\* the first of the longest, in the order of the start dates.
majority_owner(C, w) ==
  {p \in C : /\ overlap_days(p, w) >= MajorityDays
             /\ \A q \in C \ {p} :
                  \/ overlap_days(q, w) < overlap_days(p, w)
                  \/ overlap_days(q, w) = overlap_days(p, w) /\ p.start <= q.start}

\* Mutant: a part of the week is enough.
OverlapsWeek(p, w) == p.start <= WeekEnd(w) /\ WeekStart(w) <= p.end

covers_week(p, w) == p.start <= WeekStart(w) /\ WeekEnd(w) <= p.end

-----------------------------------------------------------------------------
\* Mutant: the week of the ISO year, the first year being one of 53 weeks.
week_of_year(w) ==
  LET starts == YearStart \cup {s - 53 : s \in YearStart}
  IN 1 + w - CHOOSE s \in starts : s <= w /\ \A r \in starts : r <= w => r <= s

global_week_index(w) == w - EpochWeek

\* rem_euclid: never negative, whatever the seed and however old the week.
ChosenIndex(seed, w, n) == (seed + global_week_index(w)) % n

\* What schedule_for_year reads: the apartments, which of them is older than which
\* (created_at, then id), the chains of each apartment and of the building, and the
\* building's seed.
OwnersOfWeek(d, a, w) ==
  LET own == majority_owner(d.ownerships[a], w)
  IN IF own # {} THEN own ELSE majority_owner(d.buildingOwners, w)

covered(d, w) == {a \in d.apartments : OwnersOfWeek(d, a, w) # {}}

\* S[i], the oldest first, counted from 0.
Nth(S, older, i) == CHOOSE a \in S : Cardinality({c \in S : <<c, a>> \in older}) = i

Nobody == [apartment |-> "nobody", periods |-> {}, delegated |-> FALSE]

\* The assignment of one week.  An owner's periods hold one element, and so do a
\* tenant's: `find' returns the first of those that cover the week.
Assignment(d, w) ==
  LET rotation == covered(d, w)
      a == Nth(rotation, d.older, ChosenIndex(d.seed, w, Cardinality(rotation)))
      tenants == {t \in d.tenancies[a] : covers_week(t, w)}
  IN IF rotation = {} THEN Nobody
     ELSE [apartment |-> a,
           periods   |-> IF tenants # {} THEN tenants ELSE OwnersOfWeek(d, a, w),
           delegated |-> tenants # {}]

\* The ISO years, by how many of them have begun; the weeks of one of them.
Year == 0..Cardinality(YearStart)

WeeksOf(y) == {w \in Week : Cardinality({s \in YearStart : s <= w}) = y}

schedule_for_year(d, y) == [w \in WeeksOf(y) |-> Assignment(d, w)]
=============================================================================
