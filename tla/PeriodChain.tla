------------------------------ MODULE PeriodChain ------------------------------
(***************************************************************************)
(* The chain rules of migrations/0012: what the triggers on `ownerships'   *)
(* (keyed by the apartment) and on `building_owners' (keyed by the         *)
(* building) accept.  The two sets of triggers are the same text with the  *)
(* key renamed, so both tables are modelled by the operators below.        *)
(*                                                                         *)
(* A chain is the set of periods stored under one key.  The rows' ids are  *)
(* left out: the overlap triggers never let two rows of one key hold the   *)
(* same dates, so inside a chain the dates identify the row.               *)
(***************************************************************************)
EXTENDS Integers

CONSTANT LastDay        \* bound of the calendar: the days are 1..LastDay

ASSUME LastDayAssumption == LastDay \in Nat \ {0}

Day == 1..LastDay

\* A missing end date, COALESCE(end_date, '9999-12-31'): after every day.
Open == LastDay + 1

Period == [start : Day, end : Day \cup {Open}]

-----------------------------------------------------------------------------
\* start_date <= d AND (end_date IS NULL OR end_date >= d)
Covers(p, d) == p.start <= d /\ d <= p.end

CoveredOn(C, d) == \E p \in C : Covers(p, d)

\* Mutant: strict comparisons.
OverlapsInside(p, q) == p.start < q.end /\ q.start < p.end

Overlaps(p, q) == p.start <= q.end /\ q.start <= p.end

Before(p, q) == p.end < q.start

\* Mutant: no *_date_order triggers.
AnyOrder(p) == TRUE

\* The *_date_order triggers.
Ordered(p) == p.start <= p.end

\* The *_chain_overlap triggers.
FreeOfOverlap(C, p) == \A o \in C : ~ Overlaps(p, o)

\* The *_chain_gap_prev triggers: MAX(end_date) among the periods that end
\* before p starts is, if there is one, the day before p starts.
JoinsPrevious(C, p) ==
  (\E o \in C : Before(o, p)) => \E o \in C : o.end + 1 = p.start

\* Mutant: no *_chain_gap_next triggers.
AnyNext(C, p) == TRUE

\* The *_chain_gap_next triggers: MIN(start_date) among the later periods is,
\* if there is one, the day after p ends.
JoinsNext(C, p) ==
  (\E o \in C : Before(p, o)) => \E o \in C : o.start - 1 = p.end

\* Every BEFORE INSERT trigger of the chain; with C without the old row, every
\* BEFORE UPDATE trigger.
Fits(C, p) ==
  /\ Ordered(p)
  /\ FreeOfOverlap(C, p)
  /\ JoinsPrevious(C, p)
  /\ JoinsNext(C, p)

\* UPDATE ... SET start_date, end_date of the row old.
Updated(C, old, new) == (C \ {old}) \cup {new}

UpdateFits(C, old, new) == old \in C /\ Fits(C \ {old}, new)

\* create_*_closing_previous: the previous period ends the day before p
\* starts.  The triggers see the UPDATE first, alone, and then the INSERT.
Closed(prev, p) == [prev EXCEPT !.end = p.start - 1]

ClosingPrevious(C, prev, p) == Updated(C, prev, Closed(prev, p)) \cup {p}

ClosingPreviousFits(C, prev, p) ==
  /\ UpdateFits(C, prev, Closed(prev, p))
  /\ Fits(Updated(C, prev, Closed(prev, p)), p)

\* The *_guard_middle triggers: p lies between two other periods.
InTheMiddle(C, p) ==
  /\ \E o \in C : Before(o, p)
  /\ \E o \in C : Before(p, o)

-----------------------------------------------------------------------------
(* What the rules are for. *)

Disjoint(C) == \A p, q \in C : p # q => ~ Overlaps(p, q)

WellOrdered(C) == \A p \in C : Ordered(p)

\* The periods tile the timeline: what ends before another period starts is
\* continued on the very next day.
Tiled(C) == \A p, q \in C : Before(p, q) => \E r \in C : r.start = p.end + 1

\* One row of the chain was moved to the other side of a row that stayed.
Jumped(C, D) ==
  \E old \in C \ D, new \in D \ C, r \in C \cap D :
    \/ Before(old, r) /\ Before(r, new)
    \/ Before(new, r) /\ Before(r, old)
=============================================================================
