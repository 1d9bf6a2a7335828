-------------------------- MODULE PeriodChainTheorems --------------------------
(* What the chain rules of PeriodChain guarantee, for every calendar.        *)
EXTENDS PeriodChain, WellFoundedInduction, TLAPS

LEMMA PeriodFields ==
  ASSUME NEW p \in Period
  PROVE  /\ p.start \in Int /\ p.end \in Int
         /\ 1 <= p.start /\ p.start <= LastDay
         /\ 1 <= p.end /\ p.end <= LastDay + 1
  BY LastDayAssumption DEF Period, Day, Open

\* The rules of a good chain other than its tiling.
LEMMA FitsDisjoint ==
  ASSUME NEW C \in SUBSET Period, NEW p \in Period, Disjoint(C), Fits(C, p)
  PROVE  Disjoint(C \cup {p})
  BY DEF Disjoint, Fits, FreeOfOverlap, Overlaps

LEMMA FitsWellOrdered ==
  ASSUME NEW C \in SUBSET Period, NEW p \in Period, WellOrdered(C), Fits(C, p)
  PROVE  WellOrdered(C \cup {p})
  BY DEF WellOrdered, Fits

LEMMA SubsetKeeps ==
  ASSUME NEW C, NEW D \in SUBSET C, Disjoint(C), WellOrdered(C)
  PROVE  Disjoint(D) /\ WellOrdered(D)
  BY DEF Disjoint, WellOrdered

\* The end date create_*_closing_previous writes is a day.
LEMMA ClosedPeriod ==
  ASSUME NEW prev \in Period, NEW p \in Period, Ordered(Closed(prev, p))
  PROVE  Closed(prev, p) \in Period
<1>1. /\ prev.start \in Day /\ p.start \in Day
      /\ prev.start \in Int /\ p.start \in Int
  BY LastDayAssumption DEF Period, Day
<1>2. Closed(prev, p) = [start |-> prev.start, end |-> p.start - 1]
  BY DEF Closed, Period
<1>3. prev.start <= p.start - 1
  BY <1>2 DEF Ordered
<1>4. p.start - 1 \in Day
  BY <1>1, <1>3, LastDayAssumption DEF Day
<1>5. QED
  BY <1>1, <1>2, <1>4 DEF Period

-----------------------------------------------------------------------------
(* Tiling *)

\* Two different periods of a good chain follow one another.
LEMMA Follow ==
  ASSUME NEW C \in SUBSET Period, Disjoint(C), NEW x \in C, NEW y \in C, x # y
  PROVE  Before(x, y) \/ Before(y, x)
  BY PeriodFields DEF Disjoint, Overlaps, Before

\* In a good chain, what follows x without a gap starts no later than anything
\* else after x.
LEMMA NoRoomBetween ==
  ASSUME NEW C \in SUBSET Period, Disjoint(C), WellOrdered(C),
         NEW x \in C, NEW r \in C, r.start = x.end + 1,
         NEW y \in C, Before(x, y), y # r
  PROVE  Before(r, y)
<1>1. ~ Before(y, r)
  BY PeriodFields DEF Before, WellOrdered, Ordered
<1>2. QED
  BY <1>1, Follow

\* Inserting a period the triggers accept leaves no gap.
LEMMA FitsTiled ==
  ASSUME NEW C \in SUBSET Period, NEW p \in Period,
         Disjoint(C), WellOrdered(C), Tiled(C), Fits(C, p)
  PROVE  Tiled(C \cup {p})
<1> DEFINE D == C \cup {p}
<1> SUFFICES ASSUME NEW x \in D, NEW y \in D, Before(x, y)
             PROVE  \E r \in D : r.start = x.end + 1
  BY DEF Tiled
<1>1. CASE x \in C /\ y \in C
  BY <1>1 DEF Tiled
<1>2. CASE x = p /\ y \in C
  <2>1. PICK r \in C : r.start - 1 = p.end
    BY <1>2 DEF Fits, JoinsNext
  <2>2. QED
    BY <1>2, <2>1, PeriodFields
<1>3. CASE x \in C /\ y = p
  <2>1. PICK o \in C : o.end + 1 = p.start
    BY <1>3 DEF Fits, JoinsPrevious
  <2>2. CASE o = x
    BY <1>3, <2>1, <2>2
  <2>3. CASE o # x
    <3>1. ~ Before(o, x)
      BY <1>3, <2>1, PeriodFields DEF Before, WellOrdered, Ordered
    <3>2. Before(x, o)
      BY <1>3, <2>3, <3>1, Follow
    <3>3. QED
      BY <1>3, <3>2 DEF Tiled
  <2>4. QED
    BY <2>2, <2>3
<1>4. CASE x = p /\ y = p
  BY <1>4, PeriodFields DEF Before, Fits, Ordered
<1>5. QED
  BY <1>1, <1>2, <1>3, <1>4

\* Deleting a period that is not in the middle leaves no gap.
LEMMA EndDeletedTiled ==
  ASSUME NEW C \in SUBSET Period, NEW p \in C,
         Disjoint(C), WellOrdered(C), Tiled(C), ~ InTheMiddle(C, p)
  PROVE  Tiled(C \ {p})
<1> SUFFICES ASSUME NEW x \in C \ {p}, NEW y \in C \ {p}, Before(x, y)
             PROVE  \E r \in C \ {p} : r.start = x.end + 1
  BY DEF Tiled
<1>1. PICK r \in C : r.start = x.end + 1
  BY DEF Tiled
<1>2. CASE r = p
  <2>1. Before(p, y)
    BY <1>1, <1>2, NoRoomBetween
  <2>2. Before(x, p)
    BY <1>1, <1>2, PeriodFields DEF Before
  <2>3. QED
    BY <2>1, <2>2 DEF InTheMiddle
<1>3. QED
  BY <1>1, <1>2

\* An update that moves its row past no other row leaves no gap.  The rows on
\* either side of the old dates are on the same sides of the new ones, so
\* joining both neighbours closes the gap the old row leaves.
LEMMA UpdateTiled ==
  ASSUME NEW C \in SUBSET Period, NEW old \in C, NEW new \in Period,
         Disjoint(C), WellOrdered(C), Tiled(C), Fits(C \ {old}, new),
         \A r \in C \ {old} : /\ ~ (Before(old, r) /\ Before(r, new))
                              /\ ~ (Before(new, r) /\ Before(r, old))
  PROVE  Tiled(Updated(C, old, new))
<1> DEFINE D == C \ {old}
           E == D \cup {new}
<1> USE PeriodFields
<1>1. Updated(C, old, new) = E
  BY DEF Updated
<1>2. \A r \in D : (Before(r, old) \/ Before(old, r)) /\ (Before(r, new) \/ Before(new, r))
  BY Follow DEF Fits, FreeOfOverlap, Overlaps, Before
<1>3. \A r \in D : (Before(r, old) => Before(r, new)) /\ (Before(old, r) => Before(new, r))
  BY <1>2
<1>4. \A x \in C, r \in C, y \in C :
        r.start = x.end + 1 /\ Before(x, y) /\ y # r => Before(r, y)
  BY NoRoomBetween
<1> SUFFICES ASSUME NEW x \in E, NEW y \in E, Before(x, y)
             PROVE  \E r \in E : r.start = x.end + 1
  BY <1>1 DEF Tiled
<1>5. CASE x = new
  <2>1. y \in D
    BY <1>5 DEF Before, Fits, Ordered
  <2>2. PICK r \in D : r.start - 1 = new.end
    BY <1>5, <2>1 DEF Fits, JoinsNext
  <2>3. QED
    BY <1>5, <2>2
<1>6. CASE x \in D
  \* If the new row follows x at a distance, the row ending just before it does
  \* too; then x has a successor other than the moved row.
  <2>1. ASSUME Before(x, new), new.start # x.end + 1
        PROVE  \E r \in D : r.start = x.end + 1
    <3>1. PICK o \in D : o.end + 1 = new.start
      BY <1>6, <2>1 DEF Fits, JoinsPrevious
    <3>2. o # x /\ ~ Before(o, x)
      BY <1>6, <2>1, <3>1 DEF Before, WellOrdered, Ordered
    <3>3. Before(x, o)
      BY <1>6, <3>1, <3>2, Follow
    <3>4. PICK r \in C : r.start = x.end + 1
      BY <1>6, <3>3 DEF Tiled
    <3>5. CASE r = old
      <4>1. Before(old, o)
        BY <1>4, <1>6, <3>3, <3>4, <3>5
      <4>2. Before(o, new)
        BY <3>1 DEF Before
      <4>3. QED
        BY <4>1, <4>2
    <3>6. QED
      BY <3>4, <3>5
  <2>2. CASE y = new
    BY <1>6, <2>1, <2>2
  <2>3. CASE y \in D
    <3>1. PICK r \in C : r.start = x.end + 1
      BY <1>6, <2>3 DEF Tiled
    <3>2. CASE r = old
      <4>1. Before(x, old)
        BY <3>1, <3>2 DEF Before
      <4>2. Before(x, new)
        BY <1>3, <1>6, <4>1
      <4>3. QED
        BY <2>1, <4>2
    <3>3. QED
      BY <3>1, <3>2
  <2>4. QED
    BY <2>2, <2>3
<1>7. QED
  BY <1>5, <1>6

\* Closing the previous period moves its end only: it passes no other row.
LEMMA ClosingKeeps ==
  ASSUME NEW C \in SUBSET Period, NEW prev \in C, NEW p \in Period,
         Disjoint(C), WellOrdered(C), ClosingPreviousFits(C, prev, p)
  PROVE  /\ ClosingPrevious(C, prev, p) \in SUBSET Period
         /\ Disjoint(ClosingPrevious(C, prev, p))
         /\ WellOrdered(ClosingPrevious(C, prev, p))
         /\ Tiled(C) => Tiled(ClosingPrevious(C, prev, p))
<1> DEFINE q == Closed(prev, p)
           D == Updated(C, prev, q)
<1>1. Fits(C \ {prev}, q) /\ Fits(D, p)
  BY DEF ClosingPreviousFits, UpdateFits
<1>2. q \in Period
  BY <1>1, ClosedPeriod DEF Fits
<1>3. D \in SUBSET Period
  BY <1>2 DEF Updated
<1>4. Disjoint(C \ {prev}) /\ WellOrdered(C \ {prev})
  BY SubsetKeeps
<1>5. Disjoint(D) /\ WellOrdered(D)
  <2>1. C \ {prev} \in SUBSET Period
    OBVIOUS
  <2>2. QED
    BY <1>1, <1>2, <1>4, <2>1, FitsDisjoint, FitsWellOrdered DEF Updated
<1>6. ASSUME Tiled(C) PROVE Tiled(D)
  <2>1. q.start = prev.start
    BY DEF Closed, Period
  <2>2. ASSUME NEW r \in C \ {prev}
        PROVE  ~ (Before(prev, r) /\ Before(r, q)) /\ ~ (Before(q, r) /\ Before(r, prev))
    <3>1. Ordered(r) /\ Ordered(prev) /\ Ordered(q)
      BY <1>1 DEF WellOrdered, Fits
    <3>2. QED
      BY <1>2, <2>1, <2>2, <3>1, PeriodFields DEF Before, Ordered
  <2>3. QED
    BY <1>1, <1>2, <1>6, <2>2, UpdateTiled
<1>7. ClosingPrevious(C, prev, p) = D \cup {p}
  BY DEF ClosingPrevious
<1>8. QED
  BY <1>1, <1>3, <1>5, <1>6, <1>7, FitsDisjoint, FitsWellOrdered, FitsTiled

\* A bounded, not empty set of numbers has a greatest one.
LEMMA Greatest ==
  ASSUME NEW N \in SUBSET Nat, NEW m \in Nat, N # {}, \A n \in N : n <= m
  PROVE  \E n \in N : \A k \in N : k <= n
<1> DEFINE T == {t \in Nat : \A n \in N : n <= t}
           Less == OpToRel(<, Nat)
<1>1. IsWellFoundedOn(Less, Nat)
  BY NatLessThanWellFounded
<1>2. T \subseteq Nat /\ T # {}
  OBVIOUS
<1> HIDE DEF T, Less
<1>3. PICK t \in T : \A y \in T : ~ (<<y, t>> \in Less)
  BY <1>1, <1>2, WFMin
<1>4. \A y \in T : ~ (y < t)
  BY <1>2, <1>3 DEF Less, OpToRel
<1>5. t \in Nat /\ \A n \in N : n <= t
  BY <1>3 DEF T
<1>6. ASSUME t \notin N PROVE FALSE
  <2>1. t # 0
    <3>1. PICK n \in N : TRUE
      OBVIOUS
    <3>2. n \in Nat /\ n <= t /\ n # t
      BY <1>5, <1>6
    <3>3. QED
      BY <3>2
  <2>2. t - 1 \in Nat /\ \A n \in N : n <= t - 1
    BY <1>5, <1>6, <2>1
  <2>3. QED
    BY <1>4, <1>5, <2>2 DEF T
<1>7. QED
  BY <1>5, <1>6

\* A seamless chain covers every day between two that it covers.
LEMMA TiledCovers ==
  ASSUME NEW C \in SUBSET Period, Disjoint(C), WellOrdered(C), Tiled(C), NEW d \in Nat,
         NEW first \in C, first.start <= d, NEW last \in C, d <= last.end
  PROVE  CoveredOn(C, d)
<1> DEFINE N == {p.start : p \in {p \in C : p.start <= d}}
<1>1. N \in SUBSET Nat /\ N # {} /\ \A n \in N : n <= d
  BY PeriodFields
<1> HIDE DEF N
<1>2. PICK n \in N : \A k \in N : k <= n
  BY <1>1, Greatest
<1>3. PICK p \in C : p.start = n /\ p.start <= d
  BY DEF N
<1>4. \A q \in C : q.start <= d => q.start <= p.start
  BY <1>2, <1>3 DEF N
<1>5. CASE p.end < d
  <2>1. ~ Before(last, p) /\ last # p
    BY <1>3, <1>5, PeriodFields DEF Before
  <2>2. PICK r \in C : r.start = p.end + 1
    BY <2>1, Follow DEF Tiled
  <2>3. r.start <= d /\ p.start < r.start
    BY <1>5, <2>2, PeriodFields DEF WellOrdered, Ordered
  <2>4. QED
    BY <1>4, <2>3, PeriodFields
<1>6. CASE ~ (p.end < d)
  BY <1>3, <1>6, PeriodFields DEF CoveredOn, Covers
<1>7. QED
  BY <1>5, <1>6

-----------------------------------------------------------------------------
(* The changes that the triggers let a write make of a chain *)

ChainStep(C, D) ==
  \/ D = C
  \/ D = {}
  \/ \E p \in Period : Fits(C, p) /\ D = C \cup {p}
  \/ \E prev \in C, p \in Period :
       ClosingPreviousFits(C, prev, p) /\ D = ClosingPrevious(C, prev, p)
  \/ \E old \in C, new \in Period :
       UpdateFits(C, old, new) /\ D = Updated(C, old, new)
  \/ \E p \in C : ~ InTheMiddle(C, p) /\ D = C \ {p}

GoodChain(C) == C \in SUBSET Period /\ Disjoint(C) /\ WellOrdered(C)

\* What one change does to a chain.
LEMMA ChainStepKeeps ==
  ASSUME NEW C, NEW D, GoodChain(C), ChainStep(C, D)
  PROVE  GoodChain(D) /\ (Tiled(C) /\ ~ Tiled(D) => Jumped(C, D))
<1> USE DEF GoodChain
<1>1. CASE D = C
  BY <1>1
<1>2. CASE D = {}
  BY <1>2 DEF Disjoint, WellOrdered, Tiled
<1>3. ASSUME NEW p \in Period, Fits(C, p), D = C \cup {p}
      PROVE  GoodChain(D) /\ (Tiled(C) => Tiled(D))
  BY <1>3, FitsDisjoint, FitsWellOrdered, FitsTiled
<1>4. ASSUME NEW prev \in C, NEW p \in Period,
             ClosingPreviousFits(C, prev, p), D = ClosingPrevious(C, prev, p)
      PROVE  GoodChain(D) /\ (Tiled(C) => Tiled(D))
  BY <1>4, ClosingKeeps
<1>5. ASSUME NEW old \in C, NEW new \in Period,
             UpdateFits(C, old, new), D = Updated(C, old, new)
      PROVE  GoodChain(D) /\ (Tiled(C) /\ ~ Tiled(D) => Jumped(C, D))
  <2>1. Fits(C \ {old}, new)
    BY <1>5 DEF UpdateFits
  <2>2. GoodChain(C \ {old})
    BY SubsetKeeps
  <2>3. GoodChain(D)
    BY <1>5, <2>1, <2>2, FitsDisjoint, FitsWellOrdered DEF Updated
  <2>4. ASSUME Tiled(C), ~ Tiled(D) PROVE Jumped(C, D)
    <3>1. PICK r \in C \ {old} : \/ Before(old, r) /\ Before(r, new)
                                 \/ Before(new, r) /\ Before(r, old)
      BY <1>5, <2>1, <2>4, UpdateTiled
    <3>2. old # new
      BY <1>5, <2>4 DEF Updated
    <3>3. new \notin C
      <4>1. Overlaps(new, new)
        BY <2>1 DEF Fits, Ordered, Overlaps
      <4>2. new \notin C \ {old}
        BY <2>1, <4>1 DEF Fits, FreeOfOverlap
      <4>3. QED
        BY <3>2, <4>2
    <3>4. old \in C \ D /\ new \in D \ C /\ r \in C \cap D
      BY <1>5, <3>1, <3>2, <3>3 DEF Updated
    <3>5. QED
      BY <3>1, <3>4 DEF Jumped
  <2>5. QED
    BY <2>3, <2>4
<1>6. ASSUME NEW p \in C, ~ InTheMiddle(C, p), D = C \ {p}
      PROVE  GoodChain(D) /\ (Tiled(C) => Tiled(D))
  BY <1>6, SubsetKeeps, EndDeletedTiled
<1>7. QED
  BY <1>1, <1>2, <1>3, <1>4, <1>5, <1>6 DEF ChainStep
=============================================================================
