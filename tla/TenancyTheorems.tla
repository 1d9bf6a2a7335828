----------------------------- MODULE TenancyTheorems -----------------------------
(***************************************************************************)
(* What holds of Tenancy and of ApartmentWeek for every set of apartments, *)
(* every calendar and weeks of any length.  The inductive invariant of     *)
(* Tenancy is IInv: the tenancies of an apartment are ordered and disjoint *)
(* periods, and there are none without it.  That of ApartmentWeek adds the *)
(* same of the ownerships; the rest is counting the days of a week.        *)
(***************************************************************************)
EXTENDS ApartmentWeek, PeriodChainTheorems, FiniteSetTheorems

IInv ==
  /\ TypeOK
  /\ TenanciesOfApartments
  /\ \A a \in Apartment : GoodChain(tenancies[a])

-----------------------------------------------------------------------------
(* The rules on one apartment's tenancies *)

LEMMA StandingKeeps ==
  ASSUME NEW C, GoodChain(C), NEW p \in Period, MayStand(C, p)
  PROVE  GoodChain(C \cup {p})
  BY DEF GoodChain, Disjoint, WellOrdered, MayStand, FreeOfOverlap, Overlaps

LEMMA MovingKeeps ==
  ASSUME NEW C, GoodChain(C), NEW old, NEW new \in Period, MoveFits(C, old, new)
  PROVE  GoodChain(Updated(C, old, new))
<1>1. GoodChain(C \ {old})
  BY DEF GoodChain, Disjoint, WellOrdered
<1>2. QED
  BY <1>1, StandingKeeps DEF MoveFits, Updated

LEMMA ClosingStays ==
  ASSUME NEW C, GoodChain(C), NEW prev \in C, NEW p \in Period, ClosingFits(C, prev, p)
  PROVE  GoodChain(ClosingPrevious(C, prev, p))
<1>1. prev \in Period
  BY DEF GoodChain
<1>2. Closed(prev, p) \in Period
  BY <1>1, ClosedPeriod DEF ClosingFits, MoveFits, MayStand
<1>3. GoodChain(Updated(C, prev, Closed(prev, p)))
  BY <1>2, MovingKeeps DEF ClosingFits
<1>4. QED
  BY <1>3, StandingKeeps DEF ClosingFits, ClosingPrevious

-----------------------------------------------------------------------------
LEMMA InitIInv == Init => IInv
  BY DEF Init, IInv, TypeOK, TenanciesOfApartments, GoodChain, Disjoint, WellOrdered

LEMMA StepIInv == IInv /\ [Next]_vars => IInv'
<1> SUFFICES ASSUME IInv, [Next]_vars PROVE IInv'
  OBVIOUS
<1> USE DEF IInv, TypeOK, TenanciesOfApartments
<1>1. ASSUME NEW a \in Apartment, create_apartment(a) PROVE IInv'
  BY <1>1 DEF create_apartment
<1>2. ASSUME NEW a \in Apartment, NEW p \in Period, create_tenancy(a, p) PROVE IInv'
  <2>1. GoodChain(tenancies[a] \cup {p})
    BY <1>2, StandingKeeps DEF create_tenancy
  <2>2. QED
    BY <1>2, <2>1 DEF create_tenancy, GoodChain
<1>3. ASSUME NEW a \in Apartment, NEW p \in Period, NEW prev \in tenancies[a],
             create_tenancy_closing_previous(a, prev, p)
      PROVE  IInv'
  <2>1. GoodChain(ClosingPrevious(tenancies[a], prev, p))
    BY <1>3, ClosingStays DEF create_tenancy_closing_previous
  <2>2. QED
    BY <1>3, <2>1 DEF create_tenancy_closing_previous, GoodChain
<1>4. ASSUME NEW a \in Apartment, NEW p \in Period, NEW old \in tenancies[a],
             update_tenancy(a, old, p)
      PROVE  IInv'
  <2>1. GoodChain(Updated(tenancies[a], old, p))
    BY <1>4, MovingKeeps DEF update_tenancy
  <2>2. a \in apartments
    BY <1>4
  <2>3. QED
    BY <1>4, <2>1, <2>2 DEF update_tenancy, GoodChain
<1>5. ASSUME NEW a \in Apartment, NEW p \in tenancies[a], delete_tenancy(a, p) PROVE IInv'
  <2>1. GoodChain(tenancies[a] \ {p})
    BY DEF GoodChain, Disjoint, WellOrdered
  <2>2. QED
    BY <1>5, <2>1 DEF delete_tenancy, GoodChain
<1>6. ASSUME NEW gone \in SUBSET apartments, DeleteApartments(gone) PROVE IInv'
  <2>1. GoodChain({})
    BY DEF GoodChain, Disjoint, WellOrdered
  <2>2. QED
    BY <1>6, <2>1 DEF DeleteApartments, GoodChain
<1>7. CASE UNCHANGED vars
  BY <1>7 DEF vars
<1>8. QED
  BY <1>1, <1>2, <1>3, <1>4, <1>5, <1>6, <1>7 DEF Next

\* The inductive invariant holds in every reachable state.
THEOREM Invariance == Spec => []IInv
  BY InitIInv, StepIInv, PTL DEF Spec

-----------------------------------------------------------------------------
\* The table holds periods of the calendar, the end dates that closing creates
\* write included.
THEOREM TypeCorrect == Spec => []TypeOK
<1>1. IInv => TypeOK
  BY DEF IInv
<1>2. QED
  BY <1>1, Invariance, PTL

\* No tenancy outlives its apartment.
THEOREM NoOrphans == Spec => []TenanciesOfApartments
<1>1. IInv => TenanciesOfApartments
  BY DEF IInv
<1>2. QED
  BY <1>1, Invariance, PTL

\* On no day does an apartment have two tenants.
THEOREM OneTenantPerDay == Spec => []AtMostOneTenantPerDay
<1>1. ASSUME NEW C, GoodChain(C), NEW d \in Day, NEW p \in C, NEW q \in C,
             Covers(p, d), Covers(q, d)
      PROVE  p = q
  BY <1>1, PeriodFields DEF GoodChain, Disjoint, Overlaps, Covers, Day
<1>2. IInv => AtMostOneTenantPerDay
  BY <1>1 DEF IInv, AtMostOneTenantPerDay
<1>3. QED
  BY <1>2, Invariance, PTL

\* What the triggers accept of a closing create is what keeps the rules.
LEMMA ClosingExact ==
  ASSUME NEW C, GoodChain(C), NEW prev \in C, NEW p \in Period, Covers(prev, p.start)
  PROVE  ClosingFits(C, prev, p)
           <=> /\ WellOrdered(ClosingPrevious(C, prev, p))
               /\ Disjoint(ClosingPrevious(C, prev, p))
<1> DEFINE q == Closed(prev, p)
           D == ClosingPrevious(C, prev, p)
<1>1. prev \in Period
  BY DEF GoodChain
<1>2. q.start = prev.start /\ q.end = p.start - 1
  BY <1>1 DEF Closed, Period
<1>3. D = (C \ {prev}) \cup {q, p}
  BY DEF ClosingPrevious, Updated
<1>4. ASSUME ClosingFits(C, prev, p) PROVE WellOrdered(D) /\ Disjoint(D)
  BY <1>4, ClosingStays DEF GoodChain
<1>5. ASSUME WellOrdered(D), Disjoint(D) PROVE ClosingFits(C, prev, p)
  <2>1. Ordered(q) /\ Ordered(p)
    BY <1>3, <1>5 DEF WellOrdered
  <2>2. q # p
    <3>1. p.start \in Int /\ prev.start \in Int /\ p.end \in Int
      BY <1>1, PeriodFields
    <3>2. q.end # p.end
      BY <1>2, <2>1, <3>1 DEF Ordered
    <3>3. QED
      BY <3>2
  <2>3. ASSUME NEW r \in C \ {prev} PROVE ~ Overlaps(q, r) /\ ~ Overlaps(p, r)
    <3>1. r \in Period /\ ~ Overlaps(prev, r) /\ Ordered(r)
      BY DEF GoodChain, Disjoint, WellOrdered
    <3>2. /\ r.start \in Int /\ r.end \in Int /\ r.start <= r.end
          /\ prev.start \in Int /\ prev.end \in Int /\ p.start \in Int /\ p.end \in Int
          /\ prev.start <= p.start /\ p.start <= prev.end /\ p.start <= p.end
      BY <1>1, <2>1, <3>1, PeriodFields DEF Ordered, Covers
    <3>3. r.start # prev.start /\ r.start # p.start
      BY <3>1, <3>2 DEF Overlaps
    <3>4. r # q /\ r # p
      BY <1>2, <3>3
    <3>5. QED
      BY <1>3, <1>5, <3>4 DEF Disjoint
  <2>4. ~ Overlaps(p, q)
    BY <1>3, <1>5, <2>2 DEF Disjoint
  <2>5. MoveFits(C, prev, q)
    BY <2>1, <2>3 DEF MoveFits, MayStand, FreeOfOverlap
  <2>6. MayStand(Updated(C, prev, q), p)
    BY <2>1, <2>3, <2>4 DEF MayStand, FreeOfOverlap, Updated
  <2>7. QED
    BY <2>5, <2>6 DEF ClosingFits
<1>6. QED
  BY <1>4, <1>5

\* The triggers, which see the UPDATE and the INSERT one after the other, accept
\* exactly the combined changes that keep the rules.
THEOREM CombinedChangeIsValidated == Spec => []CombinedChangeValidated
<1>1. IInv => CombinedChangeValidated
  BY ClosingExact DEF IInv, CombinedChangeValidated
<1>2. QED
  BY <1>1, Invariance, PTL

-----------------------------------------------------------------------------
(* The apartment with its owners *)

WeekIInv ==
  /\ IInv
  /\ GoodChain(chain)
  /\ chain # {} => Flat \in apartments

LEMMA WeekInitIInv == WeekInit => WeekIInv
  BY InitIInv DEF WeekInit, WeekIInv, GoodChain, Disjoint, WellOrdered

LEMMA WeekStepsTenancy == [WeekNext]_weekVars => [Next]_vars
<1>1. OwnerStep => UNCHANGED vars
  BY DEF OwnerStep
<1>2. TenantStep => Next
  BY DEF TenantStep, Next, delete_tenancy
<1>3. ApartmentStep => Next
  BY DEF ApartmentStep, Next
<1>4. QED
  BY <1>1, <1>2, <1>3 DEF WeekNext, weekVars

LEMMA WeekStepIInv == WeekIInv /\ [WeekNext]_weekVars => WeekIInv'
<1> SUFFICES ASSUME WeekIInv, [WeekNext]_weekVars PROVE WeekIInv'
  OBVIOUS
<1> USE DEF WeekIInv
<1>1. IInv'
  BY WeekStepsTenancy, StepIInv
<1>2. CASE OwnerStep
  <2>1. ChainStep(chain, chain')
    BY <1>2 DEF OwnerStep, Create, CreateClosing, Update, Delete, ChainStep
  <2>2. GoodChain(chain')
    BY <2>1, ChainStepKeeps
  <2>3. QED
    BY <1>1, <1>2, <2>2 DEF OwnerStep, vars
<1>3. CASE TenantStep
  BY <1>1, <1>3 DEF TenantStep, create_tenancy, create_tenancy_closing_previous, update_tenancy,
     delete_tenancy
<1>4. CASE ApartmentStep
  <2>1. ASSUME NEW a \in Apartment, create_apartment(a),
               IF a = Flat THEN \E p \in Period : Fits({}, p) /\ chain' = {p} ELSE UNCHANGED chain
        PROVE  WeekIInv'
    <3>1. CASE a = Flat
      <4>1. chain = {} /\ Flat \in apartments'
        BY <2>1, <3>1 DEF create_apartment
      <4>2. ChainStep(chain, chain')
        BY <2>1, <3>1, <4>1 DEF ChainStep
      <4>3. QED
        BY <1>1, <4>1, <4>2, ChainStepKeeps
    <3>2. CASE a # Flat
      BY <1>1, <2>1, <3>2 DEF create_apartment
    <3>3. QED
      BY <3>1, <3>2
  <2>2. ASSUME NEW gone \in SUBSET apartments, DeleteApartments(gone),
               chain' = IF Flat \in gone THEN {} ELSE chain
        PROVE  WeekIInv'
    <3>1. GoodChain({})
      BY DEF GoodChain, Disjoint, WellOrdered
    <3>2. QED
      BY <1>1, <2>2, <3>1 DEF DeleteApartments
  <2>3. QED
    BY <1>4, <2>1, <2>2 DEF ApartmentStep
<1>5. CASE UNCHANGED weekVars
  BY <1>1, <1>5 DEF weekVars, vars
<1>6. QED
  BY <1>2, <1>3, <1>4, <1>5 DEF WeekNext

LEMMA WeekInvariance == WeekSpec => []WeekIInv
  BY WeekInitIInv, WeekStepIInv, PTL DEF WeekSpec

-----------------------------------------------------------------------------
(* Counting the days of a week *)

LEMMA WeekFields ==
  ASSUME NEW w \in Week
  PROVE  /\ w \in Int /\ WeekStart(w) \in Int /\ WeekEnd(w) \in Int
         /\ WeekEnd(w) = WeekStart(w) + WeekDays - 1
         /\ 1 <= WeekStart(w) /\ WeekEnd(w) <= LastDay
         /\ WeekStart(w + 1) = WeekEnd(w) + 1
<1> DEFINE q == LastDay \div WeekDays
           k == q - w
           v == w - 1
<1>1. q \in Int /\ WeekDays * q <= LastDay
  BY LastDayAssumption, WeekAssumption
<1>2. w \in Int /\ 1 <= w /\ w <= q
  BY <1>1 DEF Week
<1> HIDE DEF q
<1>3. k \in Nat /\ v \in Nat /\ WeekDays \in Nat
  BY <1>1, <1>2, WeekAssumption
<1>4. w * WeekDays = v * WeekDays + WeekDays /\ (w + 1) - 1 = w
  BY <1>2, WeekAssumption
<1>5. WeekDays * q = w * WeekDays + k * WeekDays
  BY <1>1, <1>2, WeekAssumption
<1> HIDE DEF k, v
<1>6. k * WeekDays \in Nat /\ v * WeekDays \in Nat
  BY <1>3
<1>7. w * WeekDays \in Int /\ WeekDays * q \in Int
  BY <1>1, <1>2, WeekAssumption
<1>8. w * WeekDays <= LastDay
  BY <1>1, <1>5, <1>6, <1>7, LastDayAssumption
<1>9. WeekStart(w) = v * WeekDays + 1 /\ WeekEnd(w) = w * WeekDays
      /\ WeekStart(w + 1) = w * WeekDays + 1
  BY <1>4 DEF WeekStart, WeekEnd, v
<1>10. QED
  BY <1>2, <1>4, <1>6, <1>7, <1>8, <1>9, WeekAssumption

LEMMA Majority ==
  /\ MajorityDays \in Nat /\ MajorityDays <= WeekDays
  /\ 2 * MajorityDays > WeekDays /\ 2 * MajorityDays <= WeekDays + 2
  BY WeekAssumption DEF MajorityDays

\* The interval arithmetic counts days.
LEMMA OverlapCounts ==
  ASSUME NEW w \in Week, NEW p \in Period
  PROVE  /\ overlap_days(p, w) \in Nat
         /\ Cardinality(DaysServed(p, w)) = overlap_days(p, w)
<1> DEFINE first == IF p.start > WeekStart(w) THEN p.start ELSE WeekStart(w)
           last == IF p.end < WeekEnd(w) THEN p.end ELSE WeekEnd(w)
<1>1. /\ p.start \in Int /\ p.end \in Int /\ WeekStart(w) \in Int /\ WeekEnd(w) \in Int
      /\ first \in Int /\ last \in Int
  BY PeriodFields, WeekFields
<1>2. DaysServed(p, w) = first..last
  BY <1>1 DEF DaysServed, DaysOf, Covers
<1>3. overlap_days(p, w) = IF first > last THEN 0 ELSE last - first + 1
  BY DEF overlap_days
<1> HIDE DEF first, last
<1>4. Cardinality(first..last) = IF first > last THEN 0 ELSE last - first + 1
  BY <1>1, FS_Interval
<1>5. QED
  BY <1>1, <1>2, <1>3, <1>4

\* Two periods of a chain share the week.
LEMMA ShareTheWeek ==
  ASSUME NEW C, GoodChain(C), NEW p \in C, NEW q \in C, p # q, NEW w \in Week
  PROVE  overlap_days(p, w) + overlap_days(q, w) <= WeekDays
<1>1. Before(p, q) \/ Before(q, p)
  BY Follow DEF GoodChain
<1>2. /\ p \in Period /\ q \in Period /\ Ordered(p) /\ Ordered(q)
  BY DEF GoodChain, WellOrdered
<1>3. QED
  BY <1>1, <1>2, PeriodFields, WeekFields, WeekAssumption DEF overlap_days, Before, Ordered

LEMMA OneMajority ==
  ASSUME NEW C, GoodChain(C), NEW w \in Week
  PROVE  /\ majority_owner(C, w) = {p \in C : overlap_days(p, w) >= MajorityDays}
         /\ \A p, q \in majority_owner(C, w) : p = q
<1>1. ASSUME NEW p \in C, NEW q \in C, p # q, overlap_days(p, w) >= MajorityDays
      PROVE  overlap_days(q, w) < overlap_days(p, w)
  <2>1. overlap_days(p, w) \in Nat /\ overlap_days(q, w) \in Nat
    BY OverlapCounts DEF GoodChain
  <2>2. QED
    BY <1>1, <2>1, ShareTheWeek, Majority, WeekAssumption
<1>2. majority_owner(C, w) = {p \in C : overlap_days(p, w) >= MajorityDays}
  BY <1>1 DEF majority_owner
<1>3. ASSUME NEW p \in majority_owner(C, w), NEW q \in majority_owner(C, w), p # q PROVE FALSE
  <2>1. /\ p \in C /\ q \in C
        /\ overlap_days(p, w) >= MajorityDays /\ overlap_days(q, w) >= MajorityDays
    BY <1>2
  <2>2. overlap_days(p, w) \in Nat /\ overlap_days(q, w) \in Nat
    BY <2>1, OverlapCounts DEF GoodChain
  <2>3. QED
    BY <1>1, <1>3, <2>1, <2>2
<1>4. QED
  BY <1>2, <1>3

\* At most one element.
LEMMA AtMostOne ==
  ASSUME NEW S, \A x, y \in S : x = y
  PROVE  Cardinality(S) <= 1 /\ (S # {} => Cardinality(S) = 1)
<1>1. CASE S = {}
  BY <1>1, FS_EmptySet
<1>2. CASE S # {}
  <2>1. PICK x \in S : S = {x}
    BY <1>2
  <2>2. Cardinality(S) = 1
    BY <2>1, FS_Singleton
  <2>3. QED
    BY <1>2, <2>2
<1>3. QED
  BY <1>1, <1>2

-----------------------------------------------------------------------------
\* Each week belongs to the period of the chain that has most of its days, and there is
\* never more than one.
THEOREM MajorityDecides == WeekSpec => []WeekBelongsToTheMajority
<1>1. ASSUME WeekIInv PROVE WeekBelongsToTheMajority
  <2> SUFFICES ASSUME NEW w \in Week
               PROVE  /\ majority_owner(chain, w)
                           = {p \in chain : 2 * Cardinality(DaysServed(p, w)) > WeekDays}
                      /\ Cardinality(majority_owner(chain, w)) <= 1
    BY DEF WeekBelongsToTheMajority
  <2>1. GoodChain(chain)
    BY <1>1 DEF WeekIInv
  <2>2. \A p \in chain : 2 * Cardinality(DaysServed(p, w)) > WeekDays
                           <=> overlap_days(p, w) >= MajorityDays
    BY <2>1, OverlapCounts, Majority, WeekAssumption DEF GoodChain
  <2>3. QED
    BY <2>1, <2>2, OneMajority, AtMostOne
<1>2. QED
  BY <1>1, WeekInvariance, PTL

\* In weeks with an odd number of days, a handover loses no week.
THEOREM HandoversLoseNoWeek ==
  ASSUME WeekDays % 2 = 1
  PROVE  WeekSpec => []HandoversAreResolved
<1>1. ASSUME WeekIInv PROVE HandoversAreResolved
  <2> SUFFICES ASSUME \A p \in chain : p.end >= p.start + MajorityDays - 1,
                      NEW w \in Week, Spans(w)
               PROVE  majority_owner(chain, w) # {}
    BY DEF HandoversAreResolved
  <2>1. GoodChain(chain)
    BY <1>1 DEF WeekIInv
  <2>2. WeekDays = 2 * MajorityDays - 1
    BY WeekAssumption DEF MajorityDays
  <2>3. PICK first \in chain, last \in chain :
          first.start <= WeekStart(w) /\ WeekEnd(w) <= last.end
    BY DEF Spans
  <2>4. PICK p \in chain : Covers(p, WeekStart(w))
    <3>1. WeekStart(w) \in Nat /\ WeekStart(w) <= last.end
      BY <2>1, <2>3, PeriodFields, WeekFields, WeekAssumption DEF GoodChain
    <3>2. QED
      BY <2>1, <2>3, <3>1, TiledCovers DEF Spans, GoodChain, CoveredOn
  <2>5. CASE overlap_days(p, w) >= MajorityDays
    BY <2>1, <2>5, OneMajority
  <2>6. CASE ~ (overlap_days(p, w) >= MajorityDays)
    <3>1. p \in Period /\ last \in Period
      BY <2>1 DEF GoodChain
    <3>2. p.end < WeekStart(w) + MajorityDays - 1 /\ p.end < WeekEnd(w)
      BY <2>4, <2>6, <3>1, PeriodFields, WeekFields, Majority, WeekAssumption
      DEF overlap_days, Covers
    <3>3. ~ Before(last, p) /\ last # p
      BY <2>3, <2>4, <3>1, <3>2, PeriodFields, WeekFields, WeekAssumption DEF Before, Covers
    <3>4. PICK r \in chain : r.start = p.end + 1
      BY <2>1, <3>3, Follow DEF Spans, Tiled, GoodChain
    <3>5. r \in Period /\ r.end >= r.start + MajorityDays - 1
      BY <2>1 DEF GoodChain
    <3>6. overlap_days(r, w) >= MajorityDays
      BY <2>2, <2>4, <3>1, <3>2, <3>4, <3>5, PeriodFields, WeekFields, Majority, WeekAssumption
      DEF overlap_days, Covers
    <3>7. QED
      BY <2>1, <3>6, OneMajority
  <2>7. QED
    BY <2>5, <2>6
<1>2. QED
  BY <1>1, WeekInvariance, PTL

\* The first owner of an apartment serves from the week on of which he has most.
THEOREM JoiningWeek == WeekSpec => []JoinsWithTheFirstWholeWeek
<1>1. ASSUME WeekIInv PROVE JoinsWithTheFirstWholeWeek
  <2> SUFFICES ASSUME NEW p \in chain, NEW w \in Week, \A q \in chain : p.start <= q.start,
                      p.end = Open, WeekStart(w) <= p.start, p.start <= WeekEnd(w)
               PROVE  /\ majority_owner(chain, w) # {}
                              <=> WeekEnd(w) - p.start >= p.start - WeekStart(w)
                      /\ w + 1 \in Week => majority_owner(chain, w + 1) = {p}
    BY DEF JoinsWithTheFirstWholeWeek
  <2>1. GoodChain(chain) /\ p \in Period
    BY <1>1 DEF WeekIInv, GoodChain
  <2>2. chain = {p}
    <3>1. ASSUME NEW q \in chain, q # p PROVE FALSE
      <4>1. q \in Period /\ Ordered(q) /\ (Before(p, q) \/ Before(q, p))
        BY <2>1, <3>1, Follow DEF GoodChain, WellOrdered
      <4>2. q.start <= LastDay /\ p.start <= q.start /\ q.start <= q.end /\ p.end = LastDay + 1
        BY <4>1, PeriodFields DEF Open, Ordered
      <4>3. QED
        BY <2>1, <4>1, <4>2, PeriodFields, LastDayAssumption DEF Before
    <3>2. QED
      BY <3>1
  <2>3. ASSUME NEW v \in Week
        PROVE  majority_owner(chain, v) = IF overlap_days(p, v) >= MajorityDays THEN {p} ELSE {}
    BY <2>1, <2>2, OneMajority
  <2>4. overlap_days(p, w) = WeekEnd(w) - p.start + 1
    BY <2>1, PeriodFields, WeekFields, LastDayAssumption DEF overlap_days, Open
  <2>5. majority_owner(chain, w) # {} <=> WeekEnd(w) - p.start >= p.start - WeekStart(w)
    BY <2>1, <2>3, <2>4, PeriodFields, WeekFields, Majority, WeekAssumption
  <2>6. ASSUME w + 1 \in Week PROVE overlap_days(p, w + 1) = WeekDays
    <3>1. p.start < WeekStart(w + 1) /\ WeekEnd(w + 1) < p.end
      BY <2>1, <2>6, PeriodFields, WeekFields, LastDayAssumption DEF Open
    <3>2. QED
      BY <2>1, <2>6, <3>1, PeriodFields, WeekFields, WeekAssumption DEF overlap_days
  <2>7. QED
    BY <2>3, <2>5, <2>6, Majority, WeekAssumption
<1>2. QED
  BY <1>1, WeekInvariance, PTL

-----------------------------------------------------------------------------
(* Who of the apartment serves *)

LEMMA WholeWeek ==
  ASSUME NEW w \in Week, NEW t \in Period
  PROVE  /\ covers_week(t, w) <=> DaysServed(t, w) = DaysOf(w)
         /\ covers_week(t, w) => Covers(t, WeekStart(w))
<1>1. WeekStart(w) \in DaysOf(w) /\ WeekEnd(w) \in DaysOf(w)
  BY WeekFields, WeekAssumption DEF DaysOf
<1>2. ASSUME DaysServed(t, w) = DaysOf(w) PROVE covers_week(t, w)
  BY <1>1, <1>2 DEF DaysServed, Covers, covers_week
<1>3. ASSUME covers_week(t, w) PROVE DaysServed(t, w) = DaysOf(w)
  BY <1>3, PeriodFields, WeekFields DEF DaysServed, DaysOf, Covers, covers_week
<1>4. ASSUME covers_week(t, w) PROVE Covers(t, WeekStart(w))
  BY <1>4, PeriodFields, WeekFields, WeekAssumption DEF Covers, covers_week
<1>5. QED
  BY <1>2, <1>3, <1>4

\* Of one apartment, the first is the only one.
LEMMA OnlyOne ==
  ASSUME NEW w \in Week
  PROVE  Nth({Flat}, {}, ChosenIndex(0, w, Cardinality({Flat}))) = Flat
<1>1. Cardinality({Flat}) = 1
  BY FS_Singleton
<1>2. ChosenIndex(0, w, 1) = 0
  BY WeekFields, WeekAssumption DEF ChosenIndex, global_week_index
<1>3. \A a : {c \in {Flat} : <<c, a>> \in {}} = {}
  OBVIOUS
<1>4. QED
  BY <1>1, <1>2, <1>3, FS_EmptySet DEF Nth

LEMMA FlatServes ==
  ASSUME WeekIInv, NEW w \in Week
  PROVE  LET whole == {t \in tenancies[Flat] : covers_week(t, w)}
         IN IF majority_owner(chain, w) = {} THEN Serves(w) = Nobody
            ELSE /\ Serves(w).periods = IF whole # {} THEN whole ELSE majority_owner(chain, w)
                 /\ Serves(w).delegated <=> whole # {}
<1>1. majority_owner({}, w) = {}
  BY DEF majority_owner
<1>2. OwnersOfWeek(Data, Flat, w) = majority_owner(chain, w)
  BY <1>1 DEF OwnersOfWeek, Data
<1>3. CASE majority_owner(chain, w) = {}
  <2>1. covered(Data, w) = {}
    BY <1>2, <1>3 DEF covered, Data
  <2>2. QED
    BY <1>3, <2>1 DEF Serves, Assignment
<1>4. CASE majority_owner(chain, w) # {}
  <2>1. chain # {}
    BY <1>1, <1>4
  <2>2. covered(Data, w) = {Flat}
    BY <1>2, <1>4, <2>1 DEF covered, Data, WeekIInv
  <2>3. Nth(covered(Data, w), Data.older, ChosenIndex(Data.seed, w, Cardinality(covered(Data, w))))
          = Flat
    BY <2>2, OnlyOne DEF Data
  <2> DEFINE whole == {t \in tenancies[Flat] : covers_week(t, w)}
             periods == IF whole # {} THEN whole ELSE majority_owner(chain, w)
  <2>4. Serves(w) = [apartment |-> Flat, periods |-> periods, delegated |-> whole # {}]
    <3>1. Data.tenancies = tenancies
      BY DEF Data
    <3>2. QED
      BY <1>2, <2>2, <2>3, <3>1 DEF Serves, Assignment
  <2>5. Serves(w).periods = periods /\ Serves(w).delegated = (whole # {})
    <3> HIDE DEF whole, periods
    <3>1. QED
      BY <2>4
  <2>6. QED
    BY <1>4, <2>5
<1>5. QED
  BY <1>3, <1>4

\* A tenant serves the weeks that his tenancy covers wholly, the owner the others, and
\* it is always one.
THEOREM TenantsServe == WeekSpec => []TenantsServeWholeWeeks
<1>1. ASSUME WeekIInv PROVE TenantsServeWholeWeeks
  <2> SUFFICES ASSUME NEW w \in Week
               PROVE  LET whole == {t \in tenancies[Flat] : DaysServed(t, w) = DaysOf(w)}
                      IN IF majority_owner(chain, w) = {} THEN Serves(w) = Nobody
                         ELSE /\ Serves(w).periods
                                   = IF whole # {} THEN whole ELSE majority_owner(chain, w)
                              /\ Cardinality(Serves(w).periods) = 1
                              /\ Serves(w).delegated <=> whole # {}
    BY DEF TenantsServeWholeWeeks
  <2> DEFINE whole == {t \in tenancies[Flat] : covers_week(t, w)}
  <2>1. GoodChain(chain) /\ GoodChain(tenancies[Flat])
    BY <1>1, FlatAssumption DEF WeekIInv, IInv
  <2>2. whole = {t \in tenancies[Flat] : DaysServed(t, w) = DaysOf(w)}
    BY <2>1, WholeWeek DEF GoodChain
  <2>3. \A s, t \in whole : s = t
    <3>1. ASSUME NEW s \in whole, NEW t \in whole, s # t PROVE FALSE
      <4>1. /\ s \in Period /\ t \in Period /\ ~ Overlaps(s, t)
            /\ Covers(s, WeekStart(w)) /\ Covers(t, WeekStart(w))
        BY <2>1, <3>1, WholeWeek DEF GoodChain, Disjoint
      <4>2. QED
        BY <4>1, PeriodFields, WeekFields DEF Overlaps, Covers
    <3>2. QED
      BY <3>1
  <2> DEFINE served == IF whole # {} THEN whole ELSE majority_owner(chain, w)
  <2>4. ASSUME majority_owner(chain, w) # {} PROVE Cardinality(served) = 1
    <3>1. served # {} /\ \A s, t \in served : s = t
      BY <2>1, <2>3, <2>4, OneMajority
    <3> HIDE DEF served
    <3>2. QED
      BY <3>1, AtMostOne
  <2>5. IF majority_owner(chain, w) = {} THEN Serves(w) = Nobody
        ELSE Serves(w).periods = served /\ (Serves(w).delegated <=> whole # {})
    BY <1>1, FlatServes
  <2>6. QED
    BY <2>2, <2>4, <2>5
<1>2. QED
  BY <1>1, WeekInvariance, PTL
=============================================================================
