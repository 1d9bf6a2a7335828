---------------------------- MODULE KehrwocheTheorems ----------------------------
(***************************************************************************)
(* What holds of the ownership data, of the rotation that is computed from *)
(* them and of a request that reads them, for every calendar and every set *)
(* of buildings and apartments: the theorems of Ownership, of Kehrwoche    *)
(* and of ScheduleRead, in this order.  Nearly all of those of Ownership   *)
(* follow from one fact: a step of the system takes every chain through    *)
(* one of six changes.                                                     *)
(***************************************************************************)
EXTENDS ScheduleRead, PeriodChainTheorems, FiniteSetTheorems, FunctionTheorems

GoodChains ==
  /\ \A a \in Apartment : GoodChain(ownerships[a])
  /\ \A b \in Building : GoodChain(buildingOwners[b])

\* The inductive invariant.  The chains need no help from the other parts but
\* NoOrphanRows: it makes the chain of a new building empty.
IInv ==
  /\ TypeOK
  /\ NoOrphanRows
  /\ GoodChains
  /\ EveryApartmentHasAnOwnerRecord

-----------------------------------------------------------------------------
\* Every step takes every chain through one change.
LEMMA StepOnChains ==
  ASSUME TypeOK, NoOrphanRows, [Next]_vars
  PROVE  /\ \A a \in Apartment : ChainStep(ownerships[a], ownerships'[a])
         /\ \A b \in Building : ChainStep(buildingOwners[b], buildingOwners'[b])
<1> DEFINE Goal == /\ \A a \in Apartment : ChainStep(ownerships[a], ownerships'[a])
                   /\ \A b \in Building : ChainStep(buildingOwners[b], buildingOwners'[b])
<1> USE DEF TypeOK, ChainStep
<1>1. ASSUME NEW b \in Building, CreateBuilding(b) PROVE Goal
  BY <1>1 DEF CreateBuilding
<1>2. ASSUME NEW b \in Building, NEW p \in Period, CreateBuildingWithOwner(b, p) PROVE Goal
  <2>1. buildingOwners[b] = {}
    BY <1>2 DEF CreateBuildingWithOwner, NoOrphanRows
  <2>2. QED
    BY <1>2, <2>1 DEF CreateBuildingWithOwner
<1>3. ASSUME NEW b \in Building, DeleteBuilding(b) PROVE Goal
  BY <1>3 DEF DeleteBuilding
<1>4. ASSUME NEW a \in Apartment, NEW b \in Building, NEW p \in Period,
             CreateApartment(a, b, p)
      PROVE  Goal
  <2>1. ownerships[a] = {}
    BY <1>4 DEF CreateApartment, NoOrphanRows
  <2>2. QED
    BY <1>4, <2>1 DEF CreateApartment
<1>5. ASSUME NEW a \in Apartment, NEW b \in Building, CreateApartmentBuildingOwned(a, b) PROVE Goal
  BY <1>5 DEF CreateApartmentBuildingOwned
<1>6. ASSUME NEW a \in Apartment, DeleteApartment(a) PROVE Goal
  BY <1>6 DEF DeleteApartment
<1>7. ASSUME NEW a \in Apartment, NEW p \in Period, CreateOwnership(a, p) PROVE Goal
  BY <1>7 DEF CreateOwnership, OwnershipsUnlike
<1>8. ASSUME NEW a \in Apartment, NEW p \in Period, DeleteOwnership(a, p) PROVE Goal
  BY <1>8 DEF DeleteOwnership, OwnershipDeletable, OwnershipsUnlike
<1>9. ASSUME NEW a \in Apartment, NEW p \in Period, NEW prev \in ownerships[a],
             CreateOwnershipClosingPrevious(a, prev, p)
      PROVE  Goal
  BY <1>9 DEF CreateOwnershipClosingPrevious, OwnershipsUnlike
<1>10. ASSUME NEW a \in Apartment, NEW p \in Period, NEW old \in ownerships[a],
              UpdateOwnership(a, old, p)
       PROVE  Goal
  BY <1>10 DEF UpdateOwnership, OwnershipsUnlike
<1>11. ASSUME NEW b \in Building, NEW p \in Period, CreateBuildingOwner(b, p) PROVE Goal
  BY <1>11 DEF CreateBuildingOwner, BuildingOwnersUnlike
<1>12. ASSUME NEW b \in Building, NEW p \in Period, DeleteBuildingOwner(b, p) PROVE Goal
  BY <1>12 DEF DeleteBuildingOwner, BuildingOwnerDeletable, BuildingOwnersUnlike
<1>13. ASSUME NEW b \in Building, NEW p \in Period, NEW prev \in buildingOwners[b],
              CreateBuildingOwnerClosingPrevious(b, prev, p)
       PROVE  Goal
  BY <1>13 DEF CreateBuildingOwnerClosingPrevious, BuildingOwnersUnlike
<1>14. ASSUME NEW b \in Building, NEW p \in Period, NEW old \in buildingOwners[b],
              UpdateBuildingOwner(b, old, p)
       PROVE  Goal
  BY <1>14 DEF UpdateBuildingOwner, BuildingOwnersUnlike
<1>15. ASSUME Midnight PROVE Goal
  BY <1>15 DEF Midnight
<1>16. ASSUME UNCHANGED vars PROVE Goal
  BY <1>16 DEF vars
<1>17. QED
  BY <1>1, <1>2, <1>3, <1>4, <1>5, <1>6, <1>7, <1>8, <1>9, <1>10, <1>11, <1>12,
     <1>13, <1>14, <1>15, <1>16
  DEF Next, BuildingStep, ApartmentStep, OwnershipStep, BuildingOwnerStep

-----------------------------------------------------------------------------
(* The inductive invariant *)

LEMMA InitIInv == Init => IInv
<1> SUFFICES ASSUME Init PROVE IInv
  OBVIOUS
<1>1. TypeOK
  BY DEF Init, TypeOK
<1>2. NoOrphanRows /\ EveryApartmentHasAnOwnerRecord
  BY DEF Init, NoOrphanRows, EveryApartmentHasAnOwnerRecord, Exists
<1>3. GoodChains
  BY DEF Init, GoodChains, GoodChain, Disjoint, WellOrdered
<1>4. QED
  BY <1>1, <1>2, <1>3 DEF IInv

\* The chains stay chains of periods.
LEMMA ChainTypes ==
  ASSUME IInv, [Next]_vars
  PROVE  /\ \A a \in Apartment : ownerships'[a] \in SUBSET Period
         /\ \A b \in Building : buildingOwners'[b] \in SUBSET Period
         /\ GoodChains'
<1>1. /\ \A a \in Apartment : GoodChain(ownerships'[a])
      /\ \A b \in Building : GoodChain(buildingOwners'[b])
  BY StepOnChains, ChainStepKeeps DEF IInv, GoodChains
<1>2. QED
  BY <1>1 DEF GoodChains, GoodChain

LEMMA StepIInv == IInv /\ [Next]_vars => IInv'
<1> SUFFICES ASSUME IInv, [Next]_vars PROVE IInv'
  OBVIOUS
<1> DEFINE Chains == /\ \A a \in Apartment : ownerships'[a] \in SUBSET Period
                     /\ \A b \in Building : buildingOwners'[b] \in SUBSET Period
           Goal == TypeOK' /\ NoOrphanRows' /\ EveryApartmentHasAnOwnerRecord'
<1>0. Chains /\ GoodChains'
  BY ChainTypes
<1> USE <1>0 DEF IInv, TypeOK, NoOrphanRows, EveryApartmentHasAnOwnerRecord, Exists
<1>1. ASSUME NEW b \in Building, CreateBuilding(b) PROVE Goal
  BY <1>1 DEF CreateBuilding
<1>2. ASSUME NEW b \in Building, NEW p \in Period, CreateBuildingWithOwner(b, p) PROVE Goal
  BY <1>2 DEF CreateBuildingWithOwner
<1>3. ASSUME NEW b \in Building, DeleteBuilding(b) PROVE Goal
  BY <1>3 DEF DeleteBuilding
<1>4. ASSUME NEW a \in Apartment, NEW b \in Building, NEW p \in Period,
             CreateApartment(a, b, p)
      PROVE  Goal
  BY <1>4, NoBuildingAssumption DEF CreateApartment
<1>5. ASSUME NEW a \in Apartment, NEW b \in Building, CreateApartmentBuildingOwned(a, b)
      PROVE  Goal
  \* The owner covering today is an owner record.
  <2>1. buildingOwners[b] # {}
    BY <1>5 DEF CreateApartmentBuildingOwned, WhollyOwned, CoveredOn
  <2>2. QED
    BY <1>5, <2>1, NoBuildingAssumption DEF CreateApartmentBuildingOwned
<1>6. ASSUME NEW a \in Apartment, DeleteApartment(a) PROVE Goal
  BY <1>6 DEF DeleteApartment
<1>7. ASSUME NEW a \in Apartment, NEW p \in Period, CreateOwnership(a, p) PROVE Goal
  BY <1>7 DEF CreateOwnership, OwnershipsUnlike
<1>8. ASSUME NEW a \in Apartment, NEW p \in Period, DeleteOwnership(a, p) PROVE Goal
  \* Either another row remains or the building owner's row does.
  <2>1. home[a] \in Building
    BY <1>8 DEF DeleteOwnership
  <2>2. ownerships[a] \ {p} # {} \/ buildingOwners[home[a]] # {}
    BY <1>8 DEF DeleteOwnership, OwnershipDeletable, WhollyOwned, CoveredOn
  <2>3. QED
    BY <1>8, <2>1, <2>2 DEF DeleteOwnership, OwnershipsUnlike
<1>9. ASSUME NEW a \in Apartment, NEW p \in Period, NEW prev \in ownerships[a],
             CreateOwnershipClosingPrevious(a, prev, p)
      PROVE  Goal
  BY <1>9 DEF CreateOwnershipClosingPrevious, OwnershipsUnlike, ClosingPrevious, Updated
<1>10. ASSUME NEW a \in Apartment, NEW p \in Period, NEW old \in ownerships[a],
              UpdateOwnership(a, old, p)
       PROVE  Goal
  BY <1>10 DEF UpdateOwnership, OwnershipsUnlike, Updated
<1>11. ASSUME NEW b \in Building, NEW p \in Period, CreateBuildingOwner(b, p) PROVE Goal
  BY <1>11 DEF CreateBuildingOwner, BuildingOwnersUnlike
<1>12. ASSUME NEW b \in Building, NEW p \in Period, DeleteBuildingOwner(b, p) PROVE Goal
  \* Either another row remains or every apartment covers today by itself.
  <2>1. ASSUME NEW a \in Apartment, home[a] = b, ownerships[a] = {}
        PROVE  buildingOwners[b] \ {p} # {}
    BY <1>12, <2>1 DEF DeleteBuildingOwner, BuildingOwnerDeletable, HasDependents,
       ApartmentsOf, CoveredOn
  <2>2. QED
    BY <1>12, <2>1 DEF DeleteBuildingOwner, BuildingOwnersUnlike
<1>13. ASSUME NEW b \in Building, NEW p \in Period, NEW prev \in buildingOwners[b],
              CreateBuildingOwnerClosingPrevious(b, prev, p)
       PROVE  Goal
  BY <1>13 DEF CreateBuildingOwnerClosingPrevious, BuildingOwnersUnlike, ClosingPrevious, Updated
<1>14. ASSUME NEW b \in Building, NEW p \in Period, NEW old \in buildingOwners[b],
              UpdateBuildingOwner(b, old, p)
       PROVE  Goal
  BY <1>14 DEF UpdateBuildingOwner, BuildingOwnersUnlike, Updated
<1>15. ASSUME Midnight PROVE Goal
  BY <1>15, LastDayAssumption DEF Midnight, Day
<1>16. ASSUME UNCHANGED vars PROVE Goal
  BY <1>16 DEF vars
<1>17. Goal
  BY <1>1, <1>2, <1>3, <1>4, <1>5, <1>6, <1>7, <1>8, <1>9, <1>10, <1>11, <1>12,
     <1>13, <1>14, <1>15, <1>16
  DEF Next, BuildingStep, ApartmentStep, OwnershipStep, BuildingOwnerStep
<1>18. QED
  BY <1>17

\* The inductive invariant holds in every reachable state.
THEOREM Invariance == Spec => []IInv
  BY InitIInv, StepIInv, PTL DEF Spec

-----------------------------------------------------------------------------
(* The invariants *)

\* The tables hold what their columns declare; in particular the end date that
\* a closing create writes into the previous row is a day of the calendar.
THEOREM TypeCorrect == Spec => []TypeOK
<1>1. IInv => TypeOK
  BY DEF IInv
<1>2. QED
  BY <1>1, Invariance, PTL

\* Cascades and foreign keys leave no row without its parent.
THEOREM ReferencesKept == Spec => []NoOrphanRows
<1>1. IInv => NoOrphanRows
  BY DEF IInv
<1>2. QED
  BY <1>1, Invariance, PTL

\* On no day does a chain name two owners.
THEOREM OneOwnerPerDay == Spec => []AtMostOneOwnerPerDay
<1>1. ASSUME NEW C, GoodChain(C), NEW d \in Day, NEW p \in C, NEW q \in C,
             Covers(p, d), Covers(q, d)
      PROVE  p = q
  BY <1>1, PeriodFields DEF GoodChain, Disjoint, Overlaps, Covers, Day
<1>2. IInv => AtMostOneOwnerPerDay
  BY <1>1 DEF IInv, GoodChains, AtMostOneOwnerPerDay
<1>3. QED
  BY <1>2, Invariance, PTL

\* No apartment is ever without an owner record.
THEOREM OwnerRecordKept == Spec => []EveryApartmentHasAnOwnerRecord
<1>1. IInv => EveryApartmentHasAnOwnerRecord
  BY DEF IInv
<1>2. QED
  BY <1>1, Invariance, PTL

-----------------------------------------------------------------------------
(* The action properties *)

\* A gap in a timeline takes an update that moves a row past another one.
THEOREM GapsNeedAJump == Spec => GapOnlyByJump
<1> DEFINE A == /\ \A a \in Apartment :
                     Tiled(ownerships[a]) /\ ~ Tiled(ownerships'[a])
                       => Jumped(ownerships[a], ownerships'[a])
                /\ \A b \in Building :
                     Tiled(buildingOwners[b]) /\ ~ Tiled(buildingOwners'[b])
                       => Jumped(buildingOwners[b], buildingOwners'[b])
<1>1. IInv /\ [Next]_vars => [A]_vars
  BY StepOnChains, ChainStepKeeps DEF IInv, GoodChains
<1>2. QED
  BY <1>1, Invariance, PTL DEF Spec, GapOnlyByJump

\* An edit that neither adds nor removes dates changes nothing: what shrinks a
\* chain is a delete, what an edit turns into a larger chain keeps every row.
LEMMA EditsDoNotShrink ==
  ASSUME NEW C, GoodChain(C), NEW p \in Period, NEW old \in C
  PROVE  /\ /\ UpdateFits(C, old, p)
            /\ Updated(C, old, p) \subseteq C \/ C \subseteq Updated(C, old, p)
            => Updated(C, old, p) = C
         /\ ClosingPreviousFits(C, old, p) => ~ (ClosingPrevious(C, old, p) \subseteq C)
<1> USE DEF GoodChain
<1>1. ASSUME NEW D \in SUBSET Period, Fits(D, p) PROVE p \notin D
  BY <1>1 DEF Fits, Ordered, FreeOfOverlap, Overlaps
<1>2. UpdateFits(C, old, p) => p \notin C \ {old}
  BY <1>1 DEF UpdateFits
<1>3. ASSUME ClosingPreviousFits(C, old, p)
      PROVE  ~ (ClosingPrevious(C, old, p) \subseteq C)
  <2> DEFINE q == Closed(old, p)
  <2>1. q \in Period /\ Ordered(q) /\ q.start = old.start /\ q.end = p.start - 1
    BY <1>3, ClosedPeriod DEF ClosingPreviousFits, UpdateFits, Fits, Closed, Period
  <2>2. p \notin Updated(C, old, q)
    BY <1>1, <1>3, <2>1 DEF ClosingPreviousFits, Updated
  <2>3. p # old
    BY <2>1, PeriodFields DEF Ordered
  <2>4. QED
    BY <2>2, <2>3 DEF ClosingPrevious, Updated
<1>4. QED
  BY <1>2, <1>3 DEF Updated

CoverageStep(a) ==
  /\ Exists(a) /\ home'[a] = home[a]
  /\ today' = today
  /\ NothingEdited
  /\ Covered(a)
  => Covered(a)'

\* A chain that did not shrink covers what it covered.
LEMMA GrowingKeepsCoverage ==
  ASSUME TypeOK, NEW a \in Apartment, Exists(a), home'[a] = home[a], today' = today,
         Covered(a), ownerships[a] \subseteq ownerships'[a],
         buildingOwners[home[a]] \subseteq buildingOwners'[home[a]]
  PROVE  Covered(a)'
  BY DEF TypeOK, Exists, Covered, WhollyOwned, CoveredOn

LEMMA StepCoverage ==
  ASSUME IInv, [Next]_vars, NEW x \in Apartment PROVE CoverageStep(x)
<1> SUFFICES ASSUME Exists(x), home'[x] = home[x], today' = today, NothingEdited, Covered(x)
             PROVE  Covered(x)'
  BY DEF CoverageStep
<1> DEFINE Grown == /\ ownerships[x] \subseteq ownerships'[x]
                    /\ buildingOwners[home[x]] \subseteq buildingOwners'[home[x]]
<1>0. /\ home[x] \in Building
      /\ TypeOK
      /\ NoOrphanRows
      /\ \A a \in Apartment : GoodChain(ownerships[a])
      /\ \A b \in Building : GoodChain(buildingOwners[b])
  BY DEF IInv, TypeOK, Exists, GoodChains
<1>1. SUFFICES ASSUME ~ Grown PROVE Covered(x)'
  BY <1>0, GrowingKeepsCoverage
<1> USE <1>0, <1>1 DEF TypeOK
<1>2. ASSUME NEW b \in Building, CreateBuilding(b) PROVE FALSE
  BY <1>2 DEF CreateBuilding
<1>3. ASSUME NEW b \in Building, NEW p \in Period, CreateBuildingWithOwner(b, p) PROVE FALSE
  BY <1>3 DEF CreateBuildingWithOwner, NoOrphanRows
<1>4. ASSUME NEW b \in Building, DeleteBuilding(b) PROVE FALSE
  BY <1>4, NoBuildingAssumption DEF DeleteBuilding
<1>5. ASSUME NEW a \in Apartment, NEW b \in Building, NEW p \in Period,
             CreateApartment(a, b, p)
      PROVE  FALSE
  BY <1>5 DEF CreateApartment, NoOrphanRows
<1>6. ASSUME NEW a \in Apartment, NEW b \in Building, CreateApartmentBuildingOwned(a, b)
      PROVE  FALSE
  BY <1>6 DEF CreateApartmentBuildingOwned
<1>7. ASSUME NEW a \in Apartment, DeleteApartment(a) PROVE FALSE
  BY <1>7, NoBuildingAssumption DEF DeleteApartment
<1>8. ASSUME NEW a \in Apartment, NEW p \in Period, CreateOwnership(a, p) PROVE FALSE
  BY <1>8 DEF CreateOwnership, OwnershipsUnlike
<1>9. ASSUME NEW a \in Apartment, NEW p \in Period, NEW prev \in ownerships[a],
             CreateOwnershipClosingPrevious(a, prev, p)
      PROVE  FALSE
  BY <1>9, EditsDoNotShrink
  DEF CreateOwnershipClosingPrevious, OwnershipsUnlike, NothingEdited
<1>10. ASSUME NEW a \in Apartment, NEW p \in Period, NEW old \in ownerships[a],
              UpdateOwnership(a, old, p)
       PROVE  FALSE
  BY <1>10, EditsDoNotShrink DEF UpdateOwnership, OwnershipsUnlike, NothingEdited
<1>11. ASSUME NEW a \in Apartment, NEW p \in Period, DeleteOwnership(a, p)
       PROVE  Covered(x)'
  <2>1. CASE Covers(p, today) /\ a = x
    BY <1>11, <2>1 DEF DeleteOwnership, OwnershipDeletable, OwnershipsUnlike,
       Covered, WhollyOwned
  <2>2. CASE ~ (Covers(p, today) /\ a = x)
    BY <1>11, <2>2 DEF DeleteOwnership, OwnershipsUnlike, Covered, WhollyOwned, CoveredOn
  <2>3. QED
    BY <2>1, <2>2
<1>12. ASSUME NEW b \in Building, NEW p \in Period, CreateBuildingOwner(b, p) PROVE FALSE
  BY <1>12 DEF CreateBuildingOwner, BuildingOwnersUnlike
<1>13. ASSUME NEW b \in Building, NEW p \in Period, NEW prev \in buildingOwners[b],
              CreateBuildingOwnerClosingPrevious(b, prev, p)
       PROVE  FALSE
  BY <1>13, EditsDoNotShrink
  DEF CreateBuildingOwnerClosingPrevious, BuildingOwnersUnlike, NothingEdited
<1>14. ASSUME NEW b \in Building, NEW p \in Period, NEW old \in buildingOwners[b],
              UpdateBuildingOwner(b, old, p)
       PROVE  FALSE
  BY <1>14, EditsDoNotShrink DEF UpdateBuildingOwner, BuildingOwnersUnlike, NothingEdited
<1>15. ASSUME NEW b \in Building, NEW p \in Period, DeleteBuildingOwner(b, p)
       PROVE  Covered(x)'
  <2>1. CASE Covers(p, today) /\ b = home[x]
    <3>1. CoveredOn(ownerships[x], today)
      BY <1>15, <2>1 DEF DeleteBuildingOwner, BuildingOwnerDeletable, HasDependents,
         ApartmentsOf
    <3>2. QED
      BY <1>15, <3>1 DEF DeleteBuildingOwner, BuildingOwnersUnlike, Covered
  <2>2. CASE ~ (Covers(p, today) /\ b = home[x])
    BY <1>15, <2>2 DEF DeleteBuildingOwner, BuildingOwnersUnlike, Covered, WhollyOwned,
       CoveredOn
  <2>3. QED
    BY <2>1, <2>2
<1>16. ASSUME Midnight PROVE FALSE
  BY <1>16 DEF Midnight
<1>17. ASSUME UNCHANGED vars PROVE FALSE
  BY <1>17 DEF vars
<1>18. QED
  BY <1>2, <1>3, <1>4, <1>5, <1>6, <1>7, <1>8, <1>9, <1>10, <1>11, <1>12, <1>13, <1>14,
     <1>15, <1>16, <1>17
  DEF Next, BuildingStep, ApartmentStep, OwnershipStep, BuildingOwnerStep

\* Deleting rows never takes today's owner from an apartment.
THEOREM DeletesKeepCoverage == Spec => CoverageSurvivesDeletes
<1> DEFINE A == \A a \in Apartment : CoverageStep(a)
<1>1. IInv /\ [Next]_vars => [A]_vars
  BY StepCoverage
<1>2. QED
  BY <1>1, Invariance, PTL DEF Spec, CoverageSurvivesDeletes, CoverageStep

-----------------------------------------------------------------------------
StructureStep(b) ==
  today' = today /\ buildingOwners[b] \subseteq buildingOwners'[b] /\ ~ Mixed(b)
    => ~ Mixed(b)'

LEMMA StepStructure ==
  ASSUME IInv, [Next]_vars, NEW x \in Building PROVE StructureStep(x)
<1> SUFFICES ASSUME today' = today, buildingOwners[x] \subseteq buildingOwners'[x],
                    ~ Mixed(x), Mixed(x)'
             PROVE  FALSE
  BY DEF StructureStep
<1>0. /\ TypeOK
      /\ NoOrphanRows
      /\ \A b \in Building : GoodChain(buildingOwners[b])
      /\ WhollyOwned(x)'
  BY DEF IInv, GoodChains, Mixed
<1>1. PICK y \in Apartment : home'[y] = x /\ ownerships'[y] # {}
  BY DEF Mixed, HasApartmentOwners, ApartmentsOf
<1>2. ~ WhollyOwned(x) \/ ~ (home[y] = x /\ ownerships[y] # {})
  BY DEF Mixed, HasApartmentOwners, ApartmentsOf
\* Who owned the building keeps owning it: the owner covering today is new only
\* if the chain of x changed.
<1>3. buildingOwners'[x] = buildingOwners[x] => WhollyOwned(x)
  BY <1>0 DEF WhollyOwned
<1> USE <1>0, <1>1, <1>2, <1>3, NoBuildingAssumption DEF TypeOK, NoOrphanRows, Exists
<1>4. ASSUME NEW b \in Building, CreateBuilding(b) PROVE FALSE
  BY <1>4 DEF CreateBuilding
<1>5. ASSUME NEW b \in Building, NEW p \in Period, CreateBuildingWithOwner(b, p) PROVE FALSE
  BY <1>5 DEF CreateBuildingWithOwner
<1>6. ASSUME NEW b \in Building, DeleteBuilding(b) PROVE FALSE
  BY <1>6 DEF DeleteBuilding
<1>7. ASSUME NEW a \in Apartment, NEW b \in Building, NEW p \in Period,
             CreateApartment(a, b, p)
      PROVE  FALSE
  BY <1>7 DEF CreateApartment
<1>8. ASSUME NEW a \in Apartment, NEW b \in Building, CreateApartmentBuildingOwned(a, b)
      PROVE  FALSE
  BY <1>8 DEF CreateApartmentBuildingOwned
<1>9. ASSUME NEW a \in Apartment, DeleteApartment(a) PROVE FALSE
  BY <1>9 DEF DeleteApartment
<1>10. ASSUME NEW a \in Apartment, NEW p \in Period, CreateOwnership(a, p) PROVE FALSE
  BY <1>10 DEF CreateOwnership, OwnershipsUnlike
<1>11. ASSUME NEW a \in Apartment, NEW p \in Period, DeleteOwnership(a, p) PROVE FALSE
  BY <1>11 DEF DeleteOwnership, OwnershipsUnlike
<1>12. ASSUME NEW a \in Apartment, NEW p \in Period, NEW prev \in ownerships[a],
              CreateOwnershipClosingPrevious(a, prev, p)
       PROVE  FALSE
  BY <1>12 DEF CreateOwnershipClosingPrevious, OwnershipsUnlike
<1>13. ASSUME NEW a \in Apartment, NEW p \in Period, NEW old \in ownerships[a],
              UpdateOwnership(a, old, p)
       PROVE  FALSE
  BY <1>13 DEF UpdateOwnership, OwnershipsUnlike
<1>14. ASSUME NEW b \in Building, NEW p \in Period, CreateBuildingOwner(b, p) PROVE FALSE
  BY <1>14 DEF CreateBuildingOwner, BuildingOwnersUnlike, HasApartmentOwners, ApartmentsOf
<1>15. ASSUME NEW b \in Building, NEW p \in Period, DeleteBuildingOwner(b, p) PROVE FALSE
  BY <1>15 DEF DeleteBuildingOwner, BuildingOwnersUnlike
<1>16. ASSUME NEW b \in Building, NEW p \in Period, NEW prev \in buildingOwners[b],
              CreateBuildingOwnerClosingPrevious(b, prev, p)
       PROVE  FALSE
  BY <1>16 DEF CreateBuildingOwnerClosingPrevious, BuildingOwnersUnlike,
     HasApartmentOwners, ApartmentsOf
<1>17. ASSUME NEW b \in Building, NEW p \in Period, NEW old \in buildingOwners[b],
              UpdateBuildingOwner(b, old, p)
       PROVE  FALSE
  BY <1>17, EditsDoNotShrink DEF UpdateBuildingOwner, BuildingOwnersUnlike
<1>18. ASSUME Midnight PROVE FALSE
  BY <1>18 DEF Midnight
<1>19. ASSUME UNCHANGED vars PROVE FALSE
  BY <1>19 DEF vars
<1>20. QED
  BY <1>4, <1>5, <1>6, <1>7, <1>8, <1>9, <1>10, <1>11, <1>12, <1>13, <1>14, <1>15, <1>16,
     <1>17, <1>18, <1>19
  DEF Next, BuildingStep, ApartmentStep, OwnershipStep, BuildingOwnerStep

\* No insert makes a building wholly owned and a WEG at once.
THEOREM InsertsKeepTheStructure == Spec => InsertsKeepStructure
<1> DEFINE A == \A b \in Building : StructureStep(b)
<1>1. IInv /\ [Next]_vars => [A]_vars
  BY StepStructure
<1>2. QED
  BY <1>1, Invariance, PTL DEF Spec, InsertsKeepStructure, StructureStep

-----------------------------------------------------------------------------
(* Arithmetic and finite sets *)

\* The quotient and the remainder are the only ones.
LEMMA Remainder ==
  ASSUME NEW d \in Nat \ {0}, NEW q \in Int, NEW r \in 0..d - 1
  PROVE  (d * q + r) % d = r
<1> DEFINE a == d * q + r
           p == a \div d
           s == a % d
<1>1. a \in Int /\ p \in Int /\ s \in 0..d - 1 /\ a = d * p + s
  OBVIOUS
<1> HIDE DEF a, p, s
<1>2. d * q + r = d * p + s
  BY <1>1 DEF a
<1>3. d * (q - p) = s - r
  BY <1>1, <1>2
<1>4. ~ q - p >= 1
  <2> SUFFICES ASSUME q - p >= 1 PROVE FALSE
    OBVIOUS
  <2>1. PICK k \in Nat : q - p = 1 + k
    BY <1>1, q - p - 1 \in Nat
  <2>2. d * (q - p) = d + d * k /\ d * k >= 0
    BY <2>1
  <2>3. QED
    BY <1>1, <1>3, <2>2
<1>5. ~ p - q >= 1
  <2> SUFFICES ASSUME p - q >= 1 PROVE FALSE
    OBVIOUS
  <2>1. PICK k \in Nat : p - q = 1 + k
    BY <1>1, p - q - 1 \in Nat
  <2>2. d * (q - p) = - d - d * k /\ d * k >= 0
    BY <1>1, <2>1
  <2>3. QED
    BY <1>1, <1>3, <2>2
<1>6. p = q
  BY <1>1, <1>4, <1>5
<1>7. QED
  BY <1>1, <1>2, <1>6 DEF a, s

\* d numbers in a row have all the remainders.
LEMMA AllRemainders ==
  ASSUME NEW d \in Nat \ {0}, NEW k \in Int, NEW w \in Int, NEW i \in 0..d - 1
  PROVE  \E v \in w..(w + d - 1) : (k + v) % d = i
<1> DEFINE q == (k + w) \div d
           r == (k + w) % d
<1>1. q \in Int /\ r \in 0..d - 1 /\ k + w = d * q + r
  OBVIOUS
<1> HIDE DEF q, r
<1>2. CASE r <= i
  <2>1. k + (w + i - r) = d * q + i
    BY <1>1
  <2>2. (k + (w + i - r)) % d = i
    BY <1>1, <2>1, Remainder
  <2>3. w + i - r \in w..(w + d - 1)
    BY <1>1, <1>2
  <2>4. QED
    BY <2>2, <2>3
<1>3. CASE i < r
  <2>1. d * (q + 1) = d * q + d /\ q + 1 \in Int
    BY <1>1
  <2>2. k + (w + i - r + d) = d * (q + 1) + i
    BY <1>1, <2>1
  <2>3. (k + (w + i - r + d)) % d = i
    BY <2>1, <2>2, Remainder
  <2>4. w + i - r + d \in w..(w + d - 1)
    BY <1>1, <1>3
  <2>5. QED
    BY <2>3, <2>4
<1>4. QED
  BY <1>1, <1>2, <1>3

-----------------------------------------------------------------------------
(* The order of the apartments *)

\* The order that a subset inherits.
LEMMA SubsetOrder ==
  ASSUME NEW R, NEW S, StrictOrder(R, S), NEW T \in SUBSET S
  PROVE  /\ \A x, y \in T : x # y <=> <<x, y>> \in R \/ <<y, x>> \in R
         /\ \A x, y, z \in T : <<x, y>> \in R /\ <<y, z>> \in R => <<x, z>> \in R
         /\ \A x \in T : <<x, x>> \notin R
  BY DEF StrictOrder

\* Nth numbers the elements of a finite set, each of them once: the number of an
\* element is the number of those before it.
LEMMA Numbering ==
  ASSUME NEW S, IsFiniteSet(S), NEW R,
         \A x, y \in S : x # y <=> <<x, y>> \in R \/ <<y, x>> \in R,
         \A x, y, z \in S : <<x, y>> \in R /\ <<y, z>> \in R => <<x, z>> \in R
  PROVE  /\ \A i \in 0..Cardinality(S) - 1 :
              /\ Nth(S, R, i) \in S
              /\ Cardinality({c \in S : <<c, Nth(S, R, i)>> \in R}) = i
         /\ \A a \in S : \E i \in 0..Cardinality(S) - 1 : Nth(S, R, i) = a
<1> DEFINE n == Cardinality(S)
           P(a) == {c \in S : <<c, a>> \in R}
           rank == [a \in S |-> Cardinality(P(a))]
<1>1. n \in Nat
  BY FS_CardinalityType
<1>2. ASSUME NEW a \in S
      PROVE  /\ IsFiniteSet(P(a)) /\ Cardinality(P(a)) \in 0..n - 1
  <2>1. P(a) \in SUBSET (S \ {a})
    OBVIOUS
  <2>2. IsFiniteSet(S \ {a}) /\ Cardinality(S \ {a}) = n - 1
    BY FS_RemoveElement
  <2>3. IsFiniteSet(P(a)) /\ Cardinality(P(a)) <= n - 1
    <3> HIDE DEF P, n
    <3>1. IsFiniteSet(P(a)) /\ Cardinality(P(a)) <= Cardinality(S \ {a})
      BY <2>1, <2>2, FS_Subset
    <3>2. QED
      BY <2>2, <3>1
  <2>4. Cardinality(P(a)) \in Nat
    BY <2>3, FS_CardinalityType
  <2>5. QED
    BY <1>1, <2>3, <2>4
<1>3. ASSUME NEW a \in S, NEW b \in S, <<a, b>> \in R
      PROVE  Cardinality(P(a)) # Cardinality(P(b))
  <2>1. a \in P(b) /\ a \notin P(a) /\ P(a) \in SUBSET P(b)
    BY <1>3
  <2>2. IsFiniteSet(P(b))
    BY <1>2
  <2>3. QED
    BY <2>1, <2>2, FS_Subset
<1>4. rank \in [S -> 0..n - 1]
  BY <1>2
<1>5. ASSUME NEW a \in S, NEW b \in S, a # b PROVE rank[a] # rank[b]
  <2>1. <<a, b>> \in R \/ <<b, a>> \in R
    BY <1>5
  <2>2. QED
    BY <1>3, <2>1
<1>6. rank \in Injection(S, 0..n - 1)
  BY <1>4, <1>5, Fun_IsInj
<1>7. IsFiniteSet(0..n - 1) /\ Cardinality(0..n - 1) = n
  BY <1>1, FS_Interval
<1>8. rank \in Surjection(S, 0..n - 1)
  BY <1>6, <1>7, FS_Injection
<1>9. \A i \in 0..n - 1 : \E a \in S : rank[a] = i
  BY <1>8 DEF Surjection
<1>10. ASSUME NEW i \in 0..n - 1
       PROVE  Nth(S, R, i) \in S /\ rank[Nth(S, R, i)] = i
  <2>1. \E a \in S : Cardinality(P(a)) = i
    BY <1>9, <1>10
  <2>2. Nth(S, R, i) \in S /\ Cardinality(P(Nth(S, R, i))) = i
    BY <2>1 DEF Nth
  <2>3. QED
    BY <2>2
<1>11. ASSUME NEW a \in S PROVE \E i \in 0..n - 1 : Nth(S, R, i) = a
  <2>1. rank[a] \in 0..n - 1
    BY <1>4
  <2>2. Nth(S, R, rank[a]) = a
    BY <1>5, <1>10, <2>1
  <2>3. QED
    BY <2>1, <2>2
<1>12. QED
  BY <1>10, <1>11

\* Neither a new apartment, wherever it comes in the order, ...
LEMMA InsertedOrder ==
  ASSUME NEW R, NEW P, StrictOrder(R, P), NEW a, a \notin P, NEW S \in SUBSET P,
         \A y \in S, x \in P : <<x, y>> \in R => x \in S
  PROVE  LET Q == (R \cup (S \X {a})) \cup ({a} \X (P \ S))
         IN /\ StrictOrder(Q, P \cup {a})
            /\ \A x, y \in P : <<x, y>> \in Q <=> <<x, y>> \in R
<1> DEFINE Q == (R \cup (S \X {a})) \cup ({a} \X (P \ S))
<1>1. Q \subseteq (P \cup {a}) \X (P \cup {a})
  BY DEF StrictOrder
<1>2. \A x, y \in P : <<x, y>> \in Q <=> <<x, y>> \in R
  OBVIOUS
<1>3. \A x \in P : /\ <<x, a>> \in Q <=> x \in S
                   /\ <<a, x>> \in Q <=> x \notin S
  BY DEF StrictOrder
<1>4. <<a, a>> \notin Q
  BY DEF StrictOrder
<1> HIDE DEF Q
<1>5. \A x, y \in P \cup {a} : x # y <=> <<x, y>> \in Q \/ <<y, x>> \in Q
  BY <1>2, <1>3, <1>4 DEF StrictOrder
<1>6. ASSUME NEW x \in P \cup {a}, NEW y \in P \cup {a}, NEW z \in P \cup {a},
             <<x, y>> \in Q, <<y, z>> \in Q
      PROVE  <<x, z>> \in Q
  <2>1. \A u, v \in P : u # v => <<u, v>> \in R \/ <<v, u>> \in R
    BY DEF StrictOrder
  <2>2. CASE x = a \/ y = a \/ z = a
    BY <1>2, <1>3, <1>4, <1>6, <2>1, <2>2
  <2>3. CASE x # a /\ y # a /\ z # a
    BY <1>2, <1>6, <2>3 DEF StrictOrder
  <2>4. QED
    BY <2>2, <2>3
<1>7. QED
  BY <1>1, <1>2, <1>5, <1>6 DEF StrictOrder, Q

\* ... nor deleted ones change the order of the others.
LEMMA RestrictedOrder ==
  ASSUME NEW R, NEW P, StrictOrder(R, P), NEW G
  PROVE  LET Q == {e \in R : e[1] \notin G /\ e[2] \notin G}
         IN /\ StrictOrder(Q, P \ G)
            /\ \A x, y \in P \ G : <<x, y>> \in Q <=> <<x, y>> \in R
<1> DEFINE Q == {e \in R : e[1] \notin G /\ e[2] \notin G}
<1>1. \A x, y \in P \ G : <<x, y>> \in Q <=> <<x, y>> \in R
  OBVIOUS
<1>2. Q \subseteq (P \ G) \X (P \ G)
  BY DEF StrictOrder
<1> HIDE DEF Q
<1>3. StrictOrder(Q, P \ G)
  BY <1>1, <1>2 DEF StrictOrder
<1>4. QED
  BY <1>1, <1>3 DEF Q

-----------------------------------------------------------------------------
(* The positions *)

HouseIInv == IInv /\ HouseTypeOK /\ PositionsDiffer

LEMMA Houses ==
  ASSUME HouseTypeOK, NEW b \in Building
  PROVE  /\ ApartmentsOf(b) \in SUBSET Present
         /\ IsFiniteSet(ApartmentsOf(b)) /\ Cardinality(ApartmentsOf(b)) \in Nat
         /\ \A a \in Apartment : position[a] \in 0..MaxPosition
<1>1. ApartmentsOf(b) \in SUBSET Apartment
  BY DEF ApartmentsOf
<1>2. IsFiniteSet(ApartmentsOf(b))
  BY <1>1, HouseAssumption, FS_Subset
<1>3. Cardinality(ApartmentsOf(b)) \in Nat
  BY <1>2, FS_CardinalityType
<1>4. ApartmentsOf(b) \in SUBSET Present
  BY NoBuildingAssumption DEF ApartmentsOf, Present, Exists
<1>5. QED
  BY <1>2, <1>3, <1>4 DEF HouseTypeOK

\* A new apartment comes behind all others of its building.
LEMMA NextPositionIsBehind ==
  ASSUME HouseTypeOK, NEW b \in Building
  PROVE  /\ NextPosition(b) \in Nat
         /\ \A a \in ApartmentsOf(b) : position[a] < NextPosition(b)
<1>1. CASE ApartmentsOf(b) = {}
  BY <1>1 DEF NextPosition
<1>2. CASE ApartmentsOf(b) # {}
  <2> DEFINE N == {position[a] : a \in ApartmentsOf(b)}
             top == CHOOSE n \in N : \A a \in ApartmentsOf(b) : position[a] <= n
  <2>1. N \in SUBSET Nat /\ N # {} /\ \A n \in N : n <= MaxPosition
    <3>1. ASSUME NEW a \in ApartmentsOf(b)
          PROVE  position[a] \in Nat /\ position[a] <= MaxPosition
      <4>1. a \in Apartment
        BY DEF ApartmentsOf
      <4>2. position[a] \in 0..MaxPosition
        BY <4>1 DEF HouseTypeOK
      <4>3. QED
        BY <4>2, HouseAssumption
    <3>2. QED
      BY <1>2, <3>1
  <2>2. \E n \in N : \A k \in N : k <= n
    <3> HIDE DEF N
    <3>1. QED
      BY <2>1, HouseAssumption, Greatest
  <2>3. top \in N /\ \A a \in ApartmentsOf(b) : position[a] <= top
    BY <2>2
  <2>4. NextPosition(b) = 1 + top
    BY <1>2 DEF NextPosition
  <2> HIDE DEF top
  <2>5. top \in Nat /\ \A a \in ApartmentsOf(b) : position[a] \in Nat
    BY <2>1, <2>3
  <2>6. QED
    BY <2>3, <2>4, <2>5
<1>3. QED
  BY <1>1, <1>2

\* Different positions within the bound: there are no more apartments than positions.
LEMMA FewEnough ==
  ASSUME HouseTypeOK, PositionsDiffer, NEW b \in Building
  PROVE  Cardinality(ApartmentsOf(b)) <= MaxPosition + 1
<1> DEFINE A == ApartmentsOf(b)
           f == [a \in A |-> position[a]]
<1>1. f \in [A -> 0..MaxPosition]
  BY Houses DEF ApartmentsOf
<1>2. \A x, y \in A : f[x] = f[y] => x = y
  BY NoBuildingAssumption DEF PositionsDiffer, ApartmentsOf, Exists
<1> HIDE DEF f, A
<1>3. f \in Injection(A, 0..MaxPosition)
  BY <1>1, <1>2, Fun_IsInj
<1>4. IsFiniteSet(0..MaxPosition) /\ Cardinality(0..MaxPosition) = MaxPosition + 1
  BY HouseAssumption, FS_Interval
<1>5. Cardinality(A) <= Cardinality(0..MaxPosition)
  BY <1>3, <1>4, FS_Injection
<1>6. QED
  BY <1>4, <1>5 DEF A

\* A list that reorder_apartments accepts names each apartment of the building at one
\* place.
LEMMA AcceptedList ==
  ASSUME HouseTypeOK, NEW b \in Building, NEW ids \in SeqOf(Apartment, Cardinality(Apartment)),
         Len(ids) = Cardinality(ApartmentsOf(b)), IsInjective(ids),
         \A i \in 1..Len(ids) : ids[i] \in ApartmentsOf(b)
  PROVE  /\ ToSet(ids) = ApartmentsOf(b)
         /\ \A a \in ApartmentsOf(b) :
              /\ (CHOOSE i \in 1..Len(ids) : ids[i] = a) \in 1..Len(ids)
              /\ ids[CHOOSE i \in 1..Len(ids) : ids[i] = a] = a
<1> DEFINE A == ApartmentsOf(b)
           n == Len(ids)
<1>1. PICK m \in 0..Cardinality(Apartment) : ids \in [1..m -> Apartment]
  BY DEF SeqOf
<1>2. m \in Nat
  BY HouseAssumption, FS_CardinalityType
<1>3. n = m /\ DOMAIN ids = 1..n
  BY <1>1, <1>2
<1>4. n \in Nat /\ n = Cardinality(A) /\ IsFiniteSet(A)
  BY <1>2, <1>3, Houses
<1>5. ids \in [1..n -> A]
  BY <1>1, <1>3
<1>6. \A i, j \in 1..n : ids[i] = ids[j] => i = j
  BY <1>3 DEF IsInjective
<1> HIDE DEF A, n
<1>7. ids \in Injection(1..n, A)
  BY <1>5, <1>6, Fun_IsInj
<1>8. Cardinality(1..n) = n
  BY <1>4, FS_Interval
<1>9. ids \in Surjection(1..n, A)
  BY <1>4, <1>7, <1>8, FS_Injection
<1>10. \A a \in A : \E i \in 1..n : ids[i] = a
  BY <1>9 DEF Surjection
<1>11. ToSet(ids) = A
  BY <1>3, <1>5, <1>10 DEF ToSet
<1>12. QED
  BY <1>10, <1>11 DEF A, n

-----------------------------------------------------------------------------
(* The inductive invariant *)

LEMMA HouseInitIInv == HouseInit => HouseIInv
<1> SUFFICES ASSUME HouseInit PROVE HouseIInv
  OBVIOUS
<1>1. IInv
  BY InitIInv DEF HouseInit
<1>2. Present = {}
  BY DEF HouseInit, Init, Present, Exists
<1>3. StrictOrder(older, Present)
  BY <1>2 DEF HouseInit, StrictOrder
<1>4. PositionsDiffer
  BY <1>2 DEF PositionsDiffer, Present
<1>5. HouseTypeOK
  BY <1>1, <1>3, HouseAssumption, SeedAssumption DEF HouseInit, HouseTypeOK, IInv
<1>6. QED
  BY <1>1, <1>4, <1>5 DEF HouseIInv

\* A step of the house is a step of the ownership data, or leaves them alone.
LEMMA HouseStepsOwnership == [HouseNext]_allVars => [Next]_vars
<1> SUFFICES ASSUME [HouseNext]_allVars PROVE [Next]_vars
  OBVIOUS
<1>1. CASE CreateStep
  BY <1>1 DEF CreateStep, Next, BuildingStep
<1>2. CASE HouseStep
  <2>1. ASSUME NEW b \in Building, delete_building(b) PROVE Next
    BY <2>1 DEF delete_building, Next, BuildingStep
  <2>2. ASSUME NEW b \in Building, NEW a \in Apartment, create_apartment(a, b) PROVE Next
    BY <2>2 DEF create_apartment, Next, ApartmentStep
  <2>3. ASSUME NEW b \in Building, NEW ids, reorder_apartments(b, ids) PROVE UNCHANGED vars
    BY <2>3 DEF reorder_apartments
  <2>4. ASSUME NEW b \in Building, NEW s, update_building_rotation_seed(b, s)
        PROVE  UNCHANGED vars
    BY <2>4 DEF update_building_rotation_seed
  <2>5. ASSUME NEW a \in Apartment, delete_apartment(a) PROVE Next
    BY <2>5 DEF delete_apartment, Next, ApartmentStep
  <2>6. QED
    BY <1>2, <2>1, <2>2, <2>3, <2>4, <2>5 DEF HouseStep
<1>3. CASE OwnerStep
  BY <1>3 DEF OwnerStep, Next
<1>4. CASE UNCHANGED allVars
  BY <1>4 DEF allVars
<1>5. QED
  BY <1>1, <1>2, <1>3, <1>4 DEF HouseNext

\* The steps that leave the apartments where they are.
LEMMA HomesStay ==
  ASSUME CreateStep \/ OwnerStep
  PROVE  home' = home /\ UNCHANGED houseVars
<1>1. CASE CreateStep
  BY <1>1 DEF CreateStep, CreateBuilding, CreateBuildingWithOwner
<1>2. CASE OwnerStep
  <2>1. ASSUME NEW a \in Apartment, NEW p \in Period,
               \/ CreateOwnership(a, p)
               \/ DeleteOwnership(a, p)
               \/ \E prev \in ownerships[a] : CreateOwnershipClosingPrevious(a, prev, p)
               \/ \E old \in ownerships[a] : UpdateOwnership(a, old, p)
        PROVE  home' = home
    BY <2>1 DEF CreateOwnership, DeleteOwnership, CreateOwnershipClosingPrevious,
       UpdateOwnership, OwnershipsUnlike
  <2>2. ASSUME NEW b \in Building, NEW p \in Period,
               \/ CreateBuildingOwner(b, p)
               \/ DeleteBuildingOwner(b, p)
               \/ \E prev \in buildingOwners[b] : CreateBuildingOwnerClosingPrevious(b, prev, p)
               \/ \E old \in buildingOwners[b] : UpdateBuildingOwner(b, old, p)
        PROVE  home' = home
    BY <2>2 DEF CreateBuildingOwner, DeleteBuildingOwner, CreateBuildingOwnerClosingPrevious,
       UpdateBuildingOwner, BuildingOwnersUnlike
  <2>3. QED
    BY <1>2, <2>1, <2>2 DEF OwnerStep, OwnershipStep, BuildingOwnerStep, Midnight
<1>3. QED
  BY <1>1, <1>2

\* What a new apartment is.
LEMMA NewApartment ==
  ASSUME HouseTypeOK, NEW a \in Apartment, NEW b \in Building, create_apartment(a, b)
  PROVE  /\ a \notin Present /\ home[a] = NoBuilding
         /\ home' = [home EXCEPT ![a] = b]
         /\ Present' = Present \cup {a}
         /\ position' = [position EXCEPT ![a] = NextPosition(b)]
         /\ NextPosition(b) \in 0..MaxPosition
         /\ rotation_seed' = rotation_seed
<1>1. ~ Exists(a) /\ home' = [home EXCEPT ![a] = b]
  BY DEF create_apartment, CreateApartment, CreateApartmentBuildingOwned
<1>2. Present' = Present \cup {a}
  BY <1>1, NoBuildingAssumption DEF Present, Exists, HouseTypeOK, TypeOK
<1>3. NextPosition(b) \in 0..MaxPosition
  BY NextPositionIsBehind, HouseAssumption DEF create_apartment
<1>4. QED
  BY <1>1, <1>2, <1>3 DEF create_apartment, Present, Exists

\* What a deletion leaves.
LEMMA WhatIsGone ==
  ASSUME HouseTypeOK,
         \/ \E a \in Apartment : delete_apartment(a)
         \/ \E b \in Building : delete_building(b)
  PROVE  /\ Present' = Present \ Gone
         /\ \A a \in Apartment : home'[a] = IF a \in Gone THEN NoBuilding ELSE home[a]
         /\ Cascade
<1>1. ASSUME NEW x \in Apartment, delete_apartment(x)
      PROVE  \A a \in Apartment : home'[a] \in {NoBuilding, home[a]}
  BY <1>1 DEF delete_apartment, DeleteApartment, HouseTypeOK, TypeOK
<1>2. ASSUME NEW b \in Building, delete_building(b)
      PROVE  \A a \in Apartment : home'[a] \in {NoBuilding, home[a]}
  BY <1>2 DEF delete_building, DeleteBuilding, HouseTypeOK, TypeOK
<1>3. \A a \in Apartment : home'[a] \in {NoBuilding, home[a]}
  BY <1>1, <1>2
<1>4. QED
  BY <1>3 DEF Gone, Present, Exists, delete_apartment, delete_building

LEMMA HouseStepIInv == HouseIInv /\ [HouseNext]_allVars => HouseIInv'
<1> SUFFICES ASSUME HouseIInv, [HouseNext]_allVars PROVE HouseIInv'
  OBVIOUS
<1> USE DEF HouseIInv
<1>1. IInv' /\ TypeOK'
  BY HouseStepsOwnership, StepIInv DEF IInv
<1> DEFINE Goal == /\ StrictOrder(older', Present')
                   /\ position' \in [Apartment -> 0..MaxPosition]
                   /\ rotation_seed' \in [Building -> Seed]
                   /\ PositionsDiffer'
<1>2. ASSUME home' = home, older' = older, position' = position,
             rotation_seed' \in [Building -> Seed]
      PROVE  Goal
  BY <1>2 DEF HouseTypeOK, Present, Exists, PositionsDiffer
<1>3. ASSUME CreateStep \/ OwnerStep PROVE Goal
  BY <1>2, <1>3, HomesStay DEF HouseTypeOK, houseVars
<1>4. ASSUME UNCHANGED allVars PROVE Goal
  BY <1>2, <1>4 DEF HouseTypeOK, allVars, vars, houseVars
<1>5. ASSUME NEW b \in Building, NEW s \in Seed, update_building_rotation_seed(b, s)
      PROVE  Goal
  BY <1>2, <1>5 DEF update_building_rotation_seed, vars, HouseTypeOK
<1>6. ASSUME NEW b \in Building, NEW a \in Apartment, create_apartment(a, b) PROVE Goal
  <2>1. /\ a \notin Present /\ home' = [home EXCEPT ![a] = b]
        /\ Present' = Present \cup {a}
        /\ position' = [position EXCEPT ![a] = NextPosition(b)]
        /\ NextPosition(b) \in 0..MaxPosition
        /\ rotation_seed' = rotation_seed
    BY <1>6, NewApartment
  <2>2. PICK S \in SUBSET Present :
          /\ \A y \in S, x \in Present : <<x, y>> \in older => x \in S
          /\ older' = older \cup (S \X {a}) \cup ({a} \X (Present \ S))
    BY <1>6 DEF create_apartment, CreationOrder
  <2>3. StrictOrder(older', Present')
    BY <2>1, <2>2, InsertedOrder DEF HouseTypeOK
  <2>4. position' \in [Apartment -> 0..MaxPosition]
    BY <2>1 DEF HouseTypeOK
  <2>5. \A x \in ApartmentsOf(b) : position[x] # NextPosition(b)
    <3>1. \A x \in ApartmentsOf(b) : position[x] < NextPosition(b)
      BY NextPositionIsBehind
    <3>2. \A x \in ApartmentsOf(b) : position[x] \in 0..MaxPosition
      BY Houses DEF ApartmentsOf
    <3>3. QED
      BY <3>1, <3>2, HouseAssumption
  <2>6. PositionsDiffer'
    BY <2>1, <2>5 DEF PositionsDiffer, Present, Exists, ApartmentsOf, HouseTypeOK, TypeOK
  <2>7. QED
    BY <2>1, <2>3, <2>4, <2>6 DEF HouseTypeOK
<1>7. ASSUME \/ \E a \in Apartment : delete_apartment(a)
             \/ \E b \in Building : delete_building(b)
      PROVE  Goal
  <2>1. /\ Present' = Present \ Gone
        /\ \A a \in Apartment : home'[a] = IF a \in Gone THEN NoBuilding ELSE home[a]
        /\ Cascade
    BY <1>7, WhatIsGone
  <2>2. StrictOrder(older', Present')
    BY <2>1, RestrictedOrder DEF Cascade, HouseTypeOK
  <2>3. position' = [a \in Apartment |-> IF a \in Gone THEN 0 ELSE position[a]]
    BY <2>1 DEF Cascade
  <2>4. position' \in [Apartment -> 0..MaxPosition]
    BY <2>3, HouseAssumption DEF HouseTypeOK
  <2>5. PositionsDiffer'
    BY <2>1, <2>3 DEF PositionsDiffer, Exists
  <2>6. rotation_seed' \in [Building -> Seed]
    BY <1>7, SeedAssumption DEF delete_apartment, delete_building, HouseTypeOK
  <2>7. QED
    BY <2>2, <2>4, <2>5, <2>6
<1>8. ASSUME NEW b \in Building, NEW ids \in SeqOf(Apartment, Cardinality(Apartment)),
             reorder_apartments(b, ids)
      PROVE  Goal
  <2> DEFINE place(a) == CHOOSE i \in 1..Len(ids) : ids[i] = a
             A == ApartmentsOf(b)
  <2>1. /\ Len(ids) = Cardinality(A)
        /\ position' = [a \in Apartment |-> IF a \in ToSet(ids) THEN place(a) - 1
                                                              ELSE position[a]]
        /\ UNCHANGED <<vars, older, rotation_seed>>
    BY <1>8 DEF reorder_apartments
  <2>2. ToSet(ids) = A /\ \A a \in A : place(a) \in 1..Len(ids) /\ ids[place(a)] = a
    BY <1>8, AcceptedList DEF reorder_apartments
  <2>3. Cardinality(A) \in Nat /\ Cardinality(A) <= MaxPosition + 1
    BY FewEnough, Houses
  <2> HIDE DEF place, A
  <2>4. \A a \in A : place(a) \in Int /\ place(a) - 1 \in 0..MaxPosition
    BY <2>1, <2>2, <2>3, HouseAssumption
  <2>5. position' \in [Apartment -> 0..MaxPosition]
    BY <2>1, <2>2, <2>4 DEF HouseTypeOK
  <2>6. ASSUME NEW x \in Apartment, NEW y \in Apartment, Exists(x), home[x] = home[y],
               position'[x] = position'[y]
        PROVE  x = y
    <3>1. x \in A <=> y \in A
      BY <2>6 DEF A, ApartmentsOf
    <3>2. CASE x \in A
      <4>1. place(x) - 1 = place(y) - 1
        BY <2>1, <2>2, <2>6, <3>1, <3>2
      <4>2. place(x) = place(y)
        BY <2>4, <3>1, <3>2, <4>1
      <4>3. QED
        BY <2>2, <3>1, <3>2, <4>2
    <3>3. CASE x \notin A
      BY <2>1, <2>2, <2>6, <3>1, <3>3 DEF PositionsDiffer
    <3>4. QED
      BY <3>2, <3>3
  <2>7. home' = home /\ older' = older /\ rotation_seed' = rotation_seed
    BY <2>1 DEF vars
  <2>8. Present' = Present
    BY <2>7 DEF Present, Exists
  <2>9. PositionsDiffer'
    BY <2>6, <2>7 DEF PositionsDiffer, Exists
  <2>10. QED
    BY <2>5, <2>7, <2>8, <2>9 DEF HouseTypeOK
<1>9. Goal
  BY <1>3, <1>4, <1>5, <1>6, <1>7, <1>8 DEF HouseNext, HouseStep
<1>10. QED
  BY <1>1, <1>9 DEF HouseTypeOK

\* The inductive invariant of the house holds in every reachable state.
THEOREM HouseInvariance == HouseSpec => []HouseIInv
  BY HouseInitIInv, HouseStepIInv, PTL DEF HouseSpec

\* The tables of the house are well-typed: positions within their bound although a
\* reordering renumbers, and the apartments in one strict order by age.
THEOREM HouseTypeCorrect == HouseSpec => []HouseTypeOK
<1>1. HouseIInv => HouseTypeOK
  BY DEF HouseIInv
<1>2. QED
  BY <1>1, HouseInvariance, PTL

\* No two apartments of a building ever have the same position.
THEOREM PositionsAreDifferent == HouseSpec => []PositionsDiffer
<1>1. HouseIInv => PositionsDiffer
  BY DEF HouseIInv
<1>2. QED
  BY <1>1, HouseInvariance, PTL

-----------------------------------------------------------------------------
(* The weeks *)

\* Every week has its year, so that the schedule of some year has its assignment.
LEMMA YearOfWeek ==
  ASSUME NEW w \in Week
  PROVE  \E y \in Year : w \in WeeksOf(y)
<1> DEFINE begun == {s \in YearStart : s <= w}
<1>1. LastDay \div WeekDays \in Int
  BY LastDayAssumption, WeekAssumption
<1>2. IsFiniteSet(Week)
  BY <1>1, FS_Interval DEF Week
<1>3. IsFiniteSet(YearStart)
  BY <1>2, WeekAssumption, FS_Subset
<1>4. begun \in SUBSET YearStart
  OBVIOUS
<1> HIDE DEF begun
<1>5. IsFiniteSet(begun) /\ Cardinality(begun) <= Cardinality(YearStart)
  BY <1>3, <1>4, FS_Subset
<1>6. Cardinality(begun) \in Nat /\ Cardinality(YearStart) \in Nat
  BY <1>3, <1>5, FS_CardinalityType
<1>7. Cardinality(begun) \in Year
  BY <1>5, <1>6 DEF Year
<1>8. QED
  BY <1>7 DEF WeeksOf, begun

LEMMA Scheduled ==
  ASSUME NEW d, NEW w \in Week
  PROVE  LET y == CHOOSE y \in Year : w \in WeeksOf(y)
         IN schedule_for_year(d, y)[w] = Assignment(d, w)
  BY YearOfWeek DEF schedule_for_year

LEMMA Chosen ==
  ASSUME NEW d, NEW w, covered(d, w) # {}
  PROVE  Assignment(d, w).apartment
           = Nth(covered(d, w), d.older, ChosenIndex(d.seed, w, Cardinality(covered(d, w))))
  BY DEF Assignment

\* Two orders that agree on a set number it alike.
LEMMA SameNumbers ==
  ASSUME NEW S, NEW R, NEW Q, \A x, y \in S : <<x, y>> \in R <=> <<x, y>> \in Q, NEW i
  PROVE  Nth(S, R, i) = Nth(S, Q, i)
<1>1. \A a \in S : {c \in S : <<c, a>> \in R} = {c \in S : <<c, a>> \in Q}
  OBVIOUS
<1>2. QED
  BY <1>1 DEF Nth

\* Who takes part in the rotation of a week, in which order.
LEMMA Rotating ==
  ASSUME HouseTypeOK, NEW b \in Building, NEW w \in Week
  PROVE  /\ Rotation(b, w) \in SUBSET ApartmentsOf(b)
         /\ IsFiniteSet(Rotation(b, w)) /\ Cardinality(Rotation(b, w)) \in Nat
         /\ Rotation(b, w) # {} <=> Cardinality(Rotation(b, w)) > 0
         /\ \A x, y \in ApartmentsOf(b) : <<x, y>> \in RotationOrder(b) <=> <<x, y>> \in older
         /\ \A i \in 0..Cardinality(Rotation(b, w)) - 1 :
              /\ Nth(Rotation(b, w), RotationOrder(b), i) \in Rotation(b, w)
              /\ \A j \in 0..Cardinality(Rotation(b, w)) - 1 :
                   Nth(Rotation(b, w), RotationOrder(b), i)
                     = Nth(Rotation(b, w), RotationOrder(b), j) => i = j
         /\ \A a \in Rotation(b, w) : \E i \in 0..Cardinality(Rotation(b, w)) - 1 :
              Nth(Rotation(b, w), RotationOrder(b), i) = a
<1> DEFINE R == Rotation(b, w)
           O == RotationOrder(b)
<1>1. R \in SUBSET ApartmentsOf(b)
  BY DEF Rotation, covered, DataOf
<1>2. \A x, y \in ApartmentsOf(b) : <<x, y>> \in O <=> <<x, y>> \in older
  BY DEF RotationOrder, ApartmentsOf
<1>3. R \in SUBSET Present
  BY <1>1, Houses
<1> HIDE DEF R, O
<1>4. IsFiniteSet(R)
  BY <1>1, Houses, FS_Subset
<1>5. Cardinality(R) \in Nat /\ (R # {} <=> Cardinality(R) > 0)
  BY <1>4, FS_CardinalityType, FS_EmptySet
<1>6. /\ \A x, y \in R : x # y <=> <<x, y>> \in O \/ <<y, x>> \in O
      /\ \A x, y, z \in R : <<x, y>> \in O /\ <<y, z>> \in O => <<x, z>> \in O
  <2>1. /\ \A x, y \in R : x # y <=> <<x, y>> \in older \/ <<y, x>> \in older
        /\ \A x, y, z \in R : <<x, y>> \in older /\ <<y, z>> \in older => <<x, z>> \in older
    BY <1>3, SubsetOrder DEF HouseTypeOK
  <2>2. QED
    BY <1>1, <1>2, <2>1
<1>7. /\ \A i \in 0..Cardinality(R) - 1 :
           /\ Nth(R, O, i) \in R
           /\ Cardinality({c \in R : <<c, Nth(R, O, i)>> \in O}) = i
      /\ \A a \in R : \E i \in 0..Cardinality(R) - 1 : Nth(R, O, i) = a
  BY <1>4, <1>6, Numbering
<1>8. \A i, j \in 0..Cardinality(R) - 1 : Nth(R, O, i) = Nth(R, O, j) => i = j
  BY <1>7
<1>9. QED
  BY <1>1, <1>2, <1>4, <1>5, <1>7, <1>8 DEF R, O

\* The duty of a week under any offset.
LEMMA DutyOf ==
  ASSUME HouseTypeOK, NEW b \in Building, NEW w \in Week, NEW s \in Int, Rotation(b, w) # {}
  PROVE  Assignment([DataOf(b) EXCEPT !.seed = s], w).apartment
           = Nth(Rotation(b, w), RotationOrder(b),
                 (s - EpochWeek + w) % Cardinality(Rotation(b, w)))
<1> DEFINE d == [DataOf(b) EXCEPT !.seed = s]
<1>1. covered(d, w) = Rotation(b, w) /\ d.older = RotationOrder(b) /\ d.seed = s
  BY DEF DataOf, Rotation, covered, OwnersOfWeek
<1>2. w \in Int
  BY LastDayAssumption, WeekAssumption DEF Week
<1>3. ChosenIndex(s, w, Cardinality(Rotation(b, w)))
        = (s - EpochWeek + w) % Cardinality(Rotation(b, w))
  <2>1. s + (w - EpochWeek) = s - EpochWeek + w
    BY <1>2, WeekAssumption
  <2>2. QED
    BY <2>1 DEF ChosenIndex, global_week_index
<1> HIDE DEF d
<1>4. Assignment(d, w).apartment
        = Nth(covered(d, w), d.older, ChosenIndex(d.seed, w, Cardinality(covered(d, w))))
  BY <1>1, Chosen
<1>5. QED
  BY <1>1, <1>3, <1>4 DEF d

LEMMA DutyServed ==
  ASSUME HouseTypeOK, NEW b \in Building, NEW w \in Week, Rotation(b, w) # {}
  PROVE  Serves(b, w).apartment
           = Nth(Rotation(b, w), RotationOrder(b),
                 (rotation_seed[b] - EpochWeek + w) % Cardinality(Rotation(b, w)))
<1>1. Serves(b, w) = Assignment(DataOf(b), w)
  BY Scheduled DEF Serves
<1>2. DataOf(b) = [DataOf(b) EXCEPT !.seed = rotation_seed[b]]
  BY DEF DataOf
<1>3. rotation_seed[b] \in Int
  BY SeedAssumption DEF HouseTypeOK
<1>4. QED
  BY <1>1, <1>2, <1>3, DutyOf

-----------------------------------------------------------------------------
\* Every apartment gets its week in every round, whatever the number of apartments, the
\* offset and the years that the round belongs to.
THEOREM RotationIsRoundRobin == HouseSpec => []RoundRobin
<1>1. ASSUME HouseIInv PROVE RoundRobin
  <2> SUFFICES ASSUME NEW b \in Building, NEW w \in Week,
                      Cardinality(Rotation(b, w)) > 0,
                      w + Cardinality(Rotation(b, w)) - 1 \in Week,
                      \A v \in w..(w + Cardinality(Rotation(b, w)) - 1) :
                        Rotation(b, v) = Rotation(b, w)
               PROVE  {Serves(b, v).apartment :
                         v \in w..(w + Cardinality(Rotation(b, w)) - 1)} = Rotation(b, w)
    BY DEF RoundRobin
  <2> DEFINE R == Rotation(b, w)
             O == RotationOrder(b)
             n == Cardinality(R)
             k == rotation_seed[b] - EpochWeek
  <2>1. HouseTypeOK
    BY <1>1 DEF HouseIInv
  <2>2. /\ n \in Nat \ {0} /\ R # {}
        /\ \A i \in 0..n - 1 : Nth(R, O, i) \in R
        /\ \A a \in R : \E i \in 0..n - 1 : Nth(R, O, i) = a
    BY <2>1, Rotating
  <2>3. k \in Int
    <3>1. rotation_seed[b] \in Int
      BY <2>1, SeedAssumption DEF HouseTypeOK
    <3>2. QED
      BY <3>1, WeekAssumption
  <2>4. w \in Int /\ \A v \in w..(w + n - 1) : v \in Week /\ v \in Int
    BY <2>2, LastDayAssumption, WeekAssumption DEF Week
  <2>5. ASSUME NEW v \in w..(w + n - 1) PROVE Serves(b, v).apartment = Nth(R, O, (k + v) % n)
    <3>1. v \in Week /\ Rotation(b, v) = R
      BY <2>4
    <3>2. QED
      BY <2>1, <2>2, <3>1, DutyServed
  <2> HIDE DEF R, O, n, k
  <2>6. ASSUME NEW v \in w..(w + n - 1) PROVE (k + v) % n \in 0..n - 1
    BY <2>2, <2>3, <2>4
  <2>7. ASSUME NEW a \in R PROVE \E v \in w..(w + n - 1) : Serves(b, v).apartment = a
    <3>1. PICK i \in 0..n - 1 : Nth(R, O, i) = a
      BY <2>2
    <3>2. PICK v \in w..(w + n - 1) : (k + v) % n = i
      BY <2>2, <2>3, <2>4, AllRemainders
    <3>3. QED
      BY <2>5, <3>1, <3>2
  <2>8. {Serves(b, v).apartment : v \in w..(w + n - 1)} = R
    BY <2>2, <2>5, <2>6, <2>7
  <2>9. QED
    BY <2>8 DEF R, n
<1>2. QED
  BY <1>1, HouseInvariance, PTL

-----------------------------------------------------------------------------
(* The offsets *)

LEMMA ReducedOffset ==
  ASSUME NEW n \in Nat \ {0}, NEW s \in Int, NEW k \in Int
  PROVE  (s + k) % n = ((s % n) + k) % n
<1> DEFINE q == s \div n
           o == s % n
           p == (o + k) \div n
           r == (o + k) % n
<1>1. q \in Int /\ o \in 0..n - 1 /\ s = n * q + o
  OBVIOUS
<1>2. p \in Int /\ r \in 0..n - 1 /\ o + k = n * p + r
  BY <1>1
<1> HIDE DEF q, o, p, r
<1>3. n * (q + p) = n * q + n * p /\ q + p \in Int
  BY <1>1, <1>2
<1>4. s + k = n * (q + p) + r
  BY <1>1, <1>2, <1>3
<1>5. (s + k) % n = r
  BY <1>2, <1>3, <1>4, Remainder
<1>6. QED
  BY <1>5 DEF r, o

LEMMA DifferentOffsets ==
  ASSUME NEW n \in Nat \ {0}, NEW s \in 0..n - 1, NEW t \in 0..n - 1, NEW k \in Int,
         (s + k) % n = (t + k) % n
  PROVE  s = t
<1> DEFINE r == (s + k) % n
           p == (s + k) \div n
           q == (t + k) \div n
<1>1. r \in 0..n - 1 /\ p \in Int /\ s + k = n * p + r
  OBVIOUS
<1>2. q \in Int /\ t + k = n * q + r
  OBVIOUS
<1> HIDE DEF p, q, r
<1>3. n * (p - q) = n * p - n * q /\ p - q \in Int
  BY <1>1, <1>2
<1>4. s - t = n * (p - q)
  BY <1>1, <1>2, <1>3
<1>5. s = n * (p - q) + t /\ s = n * 0 + s
  BY <1>3, <1>4
<1> DEFINE m == p - q
<1> HIDE DEF m
<1>6. (n * m + t) % n = t
  BY <1>3, Remainder DEF m
<1>7. (n * 0 + s) % n = s
  BY Remainder
<1>8. QED
  BY <1>5, <1>6, <1>7 DEF m

\* The danger zone offers every phase of the rotation, and each of them once.
THEOREM EveryPhaseIsOffered == HouseSpec => []OffersEveryPhase
<1>1. ASSUME HouseIInv PROVE OffersEveryPhase
  <2> SUFFICES ASSUME NEW b \in buildings,
                      \A w \in Week : Rotation(b, w) = ApartmentsOf(b),
                      0 < Cardinality(ApartmentsOf(b)), Week # {}
               PROVE  LET n == Cardinality(ApartmentsOf(b))
                          options == rotation_seed_options(b)
                      IN /\ \A s \in -n..2 * n : \E o \in options : Phase(b, o) = Phase(b, s)
                         /\ Cardinality({Phase(b, o) : o \in options})
                              = Cardinality(options \ {s \in {rotation_seed[b]} : s \notin 0..n - 1})
    BY DEF OffersEveryPhase
  <2> DEFINE A == ApartmentsOf(b)
             O == RotationOrder(b)
             n == Cardinality(A)
             options == rotation_seed_options(b)
             k(w) == w - EpochWeek
  <2>1. HouseTypeOK /\ b \in Building
    BY <1>1 DEF HouseIInv, HouseTypeOK, TypeOK
  <2>2. n \in Nat \ {0} /\ A # {}
    BY <2>1, Houses, FS_EmptySet
  <2>3. \A w \in Week : k(w) \in Int
    BY LastDayAssumption, WeekAssumption DEF Week
  <2>4. ASSUME NEW s \in Int, NEW w \in Week PROVE Phase(b, s)[w] = Nth(A, O, (s + k(w)) % n)
    <3>1. Assignment([DataOf(b) EXCEPT !.seed = s], w).apartment
            = Nth(A, O, (s - EpochWeek + w) % n)
      BY <2>1, <2>2, DutyOf
    <3>2. s - EpochWeek + w = s + k(w)
      BY LastDayAssumption, WeekAssumption DEF Week
    <3>3. QED
      BY <3>1, <3>2 DEF Phase
  <2>5. \A s : Phase(b, s) = [w \in Week |-> Phase(b, s)[w]]
    BY DEF Phase
  <2>6. PICK first \in Week : TRUE
    OBVIOUS
  <2>7. \A i, j \in 0..n - 1 : Nth(A, O, i) = Nth(A, O, j) => i = j
    BY <2>1, Rotating
  <2>8. rotation_seed[b] \in Int /\ options = (0..n - 1) \cup {rotation_seed[b]}
    BY <2>1, SeedAssumption DEF HouseTypeOK, rotation_seed_options
  <2> DEFINE T == {Phase(b, o) : o \in 0..n - 1}
             f == [o \in 0..n - 1 |-> Phase(b, o)]
  <2> HIDE DEF A, O, n, options, k
  <2>9. ASSUME NEW s \in Int PROVE s % n \in 0..n - 1 /\ Phase(b, s % n) = Phase(b, s)
    <3>1. s % n \in 0..n - 1 /\ s % n \in Int
      BY <2>2
    <3>2. ASSUME NEW w \in Week PROVE Phase(b, s % n)[w] = Phase(b, s)[w]
      <4>1. (s + k(w)) % n = ((s % n) + k(w)) % n
        BY <2>2, <2>3, ReducedOffset
      <4>2. QED
        BY <2>4, <3>1, <4>1
    <3>3. QED
      BY <2>5, <3>1, <3>2
  <2>10. ASSUME NEW s \in 0..n - 1, NEW t \in 0..n - 1, Phase(b, s) = Phase(b, t)
         PROVE  s = t
    <3>1. s \in Int /\ t \in Int /\ k(first) \in Int
      BY <2>2, <2>3
    <3>2. Nth(A, O, (s + k(first)) % n) = Nth(A, O, (t + k(first)) % n)
      BY <2>4, <2>10, <3>1
    <3>3. (s + k(first)) % n \in 0..n - 1 /\ (t + k(first)) % n \in 0..n - 1
      BY <2>2, <3>1
    <3>4. QED
      BY <2>2, <2>7, <3>1, <3>2, <3>3, DifferentOffsets
  <2>11. {Phase(b, o) : o \in options} = T
    BY <2>8, <2>9
  <2>12. options \ {s \in {rotation_seed[b]} : s \notin 0..n - 1} = 0..n - 1
    BY <2>8
  <2>13. Cardinality(T) = Cardinality(0..n - 1)
    <3>1. f \in [0..n - 1 -> T] /\ \A t \in T : \E o \in 0..n - 1 : f[o] = t
      OBVIOUS
    <3>2. \A s, t \in 0..n - 1 : f[s] = f[t] => s = t
      BY <2>10
    <3>3. IsFiniteSet(0..n - 1)
      BY <2>2, FS_Interval
    <3> HIDE DEF f, T
    <3>4. f \in Surjection(0..n - 1, T) /\ f \in Injection(0..n - 1, T)
      BY <3>1, <3>2, Fun_IsInj, Fun_IsSurj
    <3>5. QED
      BY <3>3, <3>4, FS_Surjection
  <2>14. ASSUME NEW s \in -n..2 * n PROVE \E o \in options : Phase(b, o) = Phase(b, s)
    BY <2>2, <2>8, <2>9
  <2>15. QED
    BY <2>11, <2>12, <2>13, <2>14 DEF n, A, options
<1>2. QED
  BY <1>1, HouseInvariance, PTL

-----------------------------------------------------------------------------
(* What moves a duty *)

\* The order of two apartments is for as long as both exist.
LEMMA OrderStays ==
  ASSUME HouseIInv, [HouseNext]_allVars,
         NEW x \in Present, NEW y \in Present, x \in Present', y \in Present'
  PROVE  <<x, y>> \in older <=> <<x, y>> \in older'
<1> USE DEF HouseIInv
<1>1. ASSUME older' = older PROVE <<x, y>> \in older <=> <<x, y>> \in older'
  BY <1>1
<1>2. CASE CreateStep \/ OwnerStep
  BY <1>1, <1>2, HomesStay DEF houseVars
<1>3. CASE UNCHANGED allVars
  BY <1>1, <1>3 DEF allVars, houseVars
<1>4. ASSUME NEW b \in Building, NEW a \in Apartment, create_apartment(a, b)
      PROVE  <<x, y>> \in older <=> <<x, y>> \in older'
  <2>1. a \notin Present
    BY <1>4, NewApartment
  <2>2. PICK S \in SUBSET Present :
          /\ \A v \in S, u \in Present : <<u, v>> \in older => u \in S
          /\ older' = older \cup (S \X {a}) \cup ({a} \X (Present \ S))
    BY <1>4 DEF create_apartment, CreationOrder
  <2>3. QED
    BY <2>1, <2>2
<1>5. ASSUME \/ \E a \in Apartment : delete_apartment(a)
             \/ \E b \in Building : delete_building(b)
      PROVE  <<x, y>> \in older <=> <<x, y>> \in older'
  <2>1. Present' = Present \ Gone /\ Cascade
    BY <1>5, WhatIsGone
  <2>2. QED
    BY <2>1 DEF Cascade
<1>6. ASSUME NEW b \in Building, NEW ids, reorder_apartments(b, ids)
      PROVE  <<x, y>> \in older <=> <<x, y>> \in older'
  BY <1>6 DEF reorder_apartments
<1>7. ASSUME NEW b \in Building, NEW s, update_building_rotation_seed(b, s)
      PROVE  <<x, y>> \in older <=> <<x, y>> \in older'
  BY <1>7 DEF update_building_rotation_seed
<1>8. QED
  BY <1>2, <1>3, <1>4, <1>5, <1>6, <1>7 DEF HouseNext, HouseStep

\* Whose the weeks are, in a form that can be asked of two states.
RotationsServe ==
  \A b \in Building, w \in Week :
    /\ Rotation(b, w) \subseteq Present
    /\ \A x, y \in Rotation(b, w) : <<x, y>> \in RotationOrder(b) <=> <<x, y>> \in older
    /\ Serves(b, w).apartment =
         IF Rotation(b, w) = {} THEN "nobody"
         ELSE Nth(Rotation(b, w), RotationOrder(b),
                  (rotation_seed[b] - EpochWeek + w) % Cardinality(Rotation(b, w)))

LEMMA HousesServe == HouseIInv => RotationsServe
<1> SUFFICES ASSUME HouseIInv, NEW b \in Building, NEW w \in Week
             PROVE  /\ Rotation(b, w) \subseteq Present
                    /\ \A x, y \in Rotation(b, w) :
                         <<x, y>> \in RotationOrder(b) <=> <<x, y>> \in older
                    /\ Serves(b, w).apartment =
                         IF Rotation(b, w) = {} THEN "nobody"
                         ELSE Nth(Rotation(b, w), RotationOrder(b),
                                  (rotation_seed[b] - EpochWeek + w)
                                    % Cardinality(Rotation(b, w)))
  BY DEF RotationsServe
<1>1. HouseTypeOK
  BY DEF HouseIInv
<1>2. /\ Rotation(b, w) \in SUBSET ApartmentsOf(b)
      /\ \A x, y \in ApartmentsOf(b) : <<x, y>> \in RotationOrder(b) <=> <<x, y>> \in older
  BY <1>1, Rotating
<1>3. Rotation(b, w) \subseteq Present
  BY <1>1, <1>2, Houses
<1>4. CASE Rotation(b, w) = {}
  <2>1. Serves(b, w) = Assignment(DataOf(b), w)
    BY Scheduled DEF Serves
  <2>2. Serves(b, w) = Nobody
    BY <1>4, <2>1 DEF Assignment, Rotation
  <2>3. QED
    BY <1>3, <1>4, <2>2 DEF Nobody
<1>5. CASE Rotation(b, w) # {}
  BY <1>1, <1>2, <1>3, <1>5, DutyServed
<1>6. QED
  BY <1>4, <1>5

\* As long as the same apartments take part in a week and the offset stays, the week
\* stays with its apartment.
LEMMA StepMovesDuties ==
  ASSUME HouseIInv, RotationsServe, RotationsServe', [HouseNext]_allVars,
         NEW b \in Building, NEW w \in Week,
         rotation_seed'[b] = rotation_seed[b], Rotation(b, w) = Rotation(b, w)'
  PROVE  Serves(b, w).apartment = Serves(b, w).apartment'
<1> DEFINE R == Rotation(b, w)
           i == (rotation_seed[b] - EpochWeek + w) % Cardinality(R)
<1>1. /\ R \subseteq Present
      /\ \A x, y \in R : <<x, y>> \in RotationOrder(b) <=> <<x, y>> \in older
      /\ Serves(b, w).apartment =
           IF R = {} THEN "nobody" ELSE Nth(R, RotationOrder(b), i)
  BY DEF RotationsServe
<1>2. /\ R \subseteq Present'
      /\ \A x, y \in R : <<x, y>> \in RotationOrder(b)' <=> <<x, y>> \in older'
      /\ Serves(b, w).apartment' =
           IF R = {} THEN "nobody" ELSE Nth(R, RotationOrder(b)', i)
  BY DEF RotationsServe
<1>3. \A x, y \in R : <<x, y>> \in older <=> <<x, y>> \in older'
  BY <1>1, <1>2, OrderStays
<1>4. \A x, y \in R : <<x, y>> \in RotationOrder(b) <=> <<x, y>> \in RotationOrder(b)'
  BY <1>1, <1>2, <1>3
<1> HIDE DEF R, i
<1>5. Nth(R, RotationOrder(b), i) = Nth(R, RotationOrder(b)', i)
  <2>1. ASSUME NEW Q, Q = RotationOrder(b)' PROVE Nth(R, RotationOrder(b), i) = Nth(R, Q, i)
    BY <1>4, <2>1, SameNumbers
  <2>2. QED
    BY <2>1
<1>6. QED
  BY <1>1, <1>2, <1>5

\* No step moves a duty, but for one that changes the offset or who takes part.
THEOREM DutiesMoveWithCoverage == HouseSpec => OnlyCoverageMovesDuties
<1>1. HouseIInv /\ RotationsServe /\ RotationsServe' /\ [HouseNext]_allVars
        => [\A b \in Building, w \in Week :
              /\ rotation_seed'[b] = rotation_seed[b]
              /\ Rotation(b, w) = Rotation(b, w)'
              => Serves(b, w).apartment = Serves(b, w).apartment']_allVars
  BY StepMovesDuties
<1>2. QED
  BY <1>1, HousesServe, HouseInvariance, PTL DEF HouseSpec, OnlyCoverageMovesDuties

-----------------------------------------------------------------------------
(* A schedule that is read while another session writes *)

\* What of the rows decides a week.
LEMMA SameDuty ==
  ASSUME NEW d, NEW e, NEW w, covered(d, w) = covered(e, w), d.seed = e.seed,
         \A x, y \in covered(d, w) : <<x, y>> \in d.older <=> <<x, y>> \in e.older
  PROVE  Assignment(d, w).apartment = Assignment(e, w).apartment
<1>1. CASE covered(d, w) = {}
  BY <1>1 DEF Assignment
<1>2. CASE covered(d, w) # {}
  <2> DEFINE i == ChosenIndex(d.seed, w, Cardinality(covered(d, w)))
  <2>1. /\ Assignment(d, w).apartment = Nth(covered(d, w), d.older, i)
        /\ Assignment(e, w).apartment = Nth(covered(d, w), e.older, i)
    BY <1>2, Chosen
  <2> HIDE DEF i
  <2>2. Nth(covered(d, w), d.older, i) = Nth(covered(d, w), e.older, i)
    BY SameNumbers
  <2>3. QED
    BY <2>1, <2>2
<1>3. QED
  BY <1>1, <1>2

HouseOwnerships(b) == [a \in Apartment |-> IF home[a] = b THEN ownerships[a] ELSE {}]

\* What one write may change of the rows of a building, where the apartments stay.
LEMMA OneTableChanges ==
  ASSUME CreateStep \/ OwnerStep
  PROVE  ownerships' = ownerships \/ buildingOwners' = buildingOwners
<1>1. CASE CreateStep
  BY <1>1 DEF CreateStep, CreateBuilding, CreateBuildingWithOwner
<1>2. CASE OwnerStep
  <2>1. ASSUME NEW a \in Apartment, NEW p \in Period,
               \/ CreateOwnership(a, p)
               \/ DeleteOwnership(a, p)
               \/ \E prev \in ownerships[a] : CreateOwnershipClosingPrevious(a, prev, p)
               \/ \E old \in ownerships[a] : UpdateOwnership(a, old, p)
        PROVE  buildingOwners' = buildingOwners
    BY <2>1 DEF CreateOwnership, DeleteOwnership, CreateOwnershipClosingPrevious,
       UpdateOwnership, OwnershipsUnlike
  <2>2. ASSUME NEW b \in Building, NEW p \in Period,
               \/ CreateBuildingOwner(b, p)
               \/ DeleteBuildingOwner(b, p)
               \/ \E prev \in buildingOwners[b] : CreateBuildingOwnerClosingPrevious(b, prev, p)
               \/ \E old \in buildingOwners[b] : UpdateBuildingOwner(b, old, p)
        PROVE  ownerships' = ownerships
    BY <2>2 DEF CreateBuildingOwner, DeleteBuildingOwner, CreateBuildingOwnerClosingPrevious,
       UpdateBuildingOwner, BuildingOwnersUnlike
  <2>3. QED
    BY <1>2, <2>1, <2>2 DEF OwnerStep, OwnershipStep, BuildingOwnerStep, Midnight
<1>3. QED
  BY <1>1, <1>2

\* Rows of which some are of the state before a write and some of the one after: the
\* offset from before, the apartments from after, the owners from either.
LEMMA TornRows ==
  ASSUME HouseIInv, HouseIInv', HouseNext, NEW b \in Building, NEW w,
         NEW own \in {HouseOwnerships(b), HouseOwnerships(b)'},
         NEW bos \in {buildingOwners[b], buildingOwners'[b]}, NEW tenants
  PROVE  LET mixed == [apartments |-> ApartmentsOf(b)', older |-> RotationOrder(b)',
                       ownerships |-> own, buildingOwners |-> bos,
                       tenancies |-> tenants, seed |-> rotation_seed[b]]
         IN \/ Assignment(mixed, w).apartment = Assignment(DataOf(b), w).apartment
            \/ Assignment(mixed, w).apartment = Assignment(DataOf(b), w).apartment'
<1> DEFINE A == ApartmentsOf(b)
           B == ApartmentsOf(b)'
           mixed == [apartments |-> B, older |-> RotationOrder(b)',
                     ownerships |-> own, buildingOwners |-> bos,
                     tenancies |-> tenants, seed |-> rotation_seed[b]]
           Own(C) == majority_owner(C, w) # {}
           Goal == \/ Assignment(mixed, w).apartment = Assignment(DataOf(b), w).apartment
                   \/ Assignment(mixed, w).apartment = Assignment(DataOf(b), w).apartment'
           Former == {a \in A : Own(ownerships[a]) \/ Own(buildingOwners[b])}
           Later == {a \in B : Own(ownerships'[a]) \/ Own(buildingOwners'[b])}
           Torn == {a \in B : Own(own[a]) \/ Own(bos)}
<1> SUFFICES Goal
  OBVIOUS
<1>1. HouseTypeOK /\ HouseTypeOK' /\ TypeOK /\ IInv
  BY DEF HouseIInv, HouseTypeOK
<1>2. covered(mixed, w) = Torn /\ mixed.older = RotationOrder(b)' /\ mixed.seed = rotation_seed[b]
  BY DEF covered, OwnersOfWeek
<1>3. /\ covered(DataOf(b), w) = Former /\ DataOf(b).older = RotationOrder(b)
      /\ DataOf(b).seed = rotation_seed[b]
  BY DEF covered, OwnersOfWeek, DataOf
<1>4. /\ covered(DataOf(b), w)' = Later /\ DataOf(b)'.older = RotationOrder(b)'
      /\ DataOf(b)'.seed = rotation_seed'[b]
  BY DEF covered, OwnersOfWeek, DataOf
<1>5. A \in SUBSET Present /\ B \in SUBSET Present'
  BY NoBuildingAssumption DEF ApartmentsOf, Present, Exists
<1>6. A = {a \in Apartment : home[a] = b} /\ B = {a \in Apartment : home'[a] = b}
  BY DEF ApartmentsOf
<1>7. /\ \A a \in A : HouseOwnerships(b)[a] = ownerships[a]
      /\ \A a \in B : HouseOwnerships(b)'[a] = ownerships'[a]
      /\ \A a \in Apartment \ A : HouseOwnerships(b)[a] = {}
  BY DEF HouseOwnerships, ApartmentsOf
<1>8. /\ \A x, y \in A : <<x, y>> \in RotationOrder(b) <=> <<x, y>> \in older
      /\ \A x, y \in B : <<x, y>> \in RotationOrder(b)' <=> <<x, y>> \in older'
  BY DEF RotationOrder, ApartmentsOf
<1>9. ~ Own({})
  BY DEF majority_owner
<1>10. Torn \subseteq B /\ Former \subseteq A
  OBVIOUS
<1> HIDE DEF mixed, Own, A, B
<1>11. ASSUME Torn = Former PROVE Goal
  <2>1. \A x, y \in Torn : <<x, y>> \in RotationOrder(b)' <=> <<x, y>> \in RotationOrder(b)
    BY <1>5, <1>8, <1>10, <1>11, OrderStays
  <2> HIDE DEF Torn, Former
  <2>2. /\ covered(mixed, w) = covered(DataOf(b), w)
        /\ mixed.seed = DataOf(b).seed
        /\ \A x, y \in covered(mixed, w) :
             <<x, y>> \in mixed.older <=> <<x, y>> \in DataOf(b).older
    BY <1>2, <1>3, <1>11, <2>1
  <2>3. Assignment(mixed, w).apartment = Assignment(DataOf(b), w).apartment
    BY <2>2, SameDuty
  <2>4. QED
    BY <2>3
<1>12. ASSUME Torn = Later, rotation_seed'[b] = rotation_seed[b] PROVE Goal
  <2> HIDE DEF Torn, Later
  <2>1. ASSUME NEW e, e = DataOf(b)'
        PROVE  Assignment(mixed, w).apartment = Assignment(e, w).apartment
    <3>1. /\ covered(mixed, w) = covered(e, w) /\ mixed.seed = e.seed
          /\ mixed.older = e.older
      BY <1>2, <1>4, <1>12, <2>1
    <3>2. QED
      BY <3>1, SameDuty
  <2>2. QED
    BY <2>1
<1>13. CASE CreateStep \/ OwnerStep
  <2>1. A = B /\ rotation_seed' = rotation_seed
    BY <1>6, <1>13, HomesStay DEF houseVars
  <2>2. CASE ownerships' = ownerships
    <3>1. \A a \in B : own[a] = ownerships[a]
      BY <1>7, <2>1, <2>2
    <3>2. Torn = Former \/ Torn = Later
      BY <2>1, <2>2, <3>1
    <3>3. QED
      BY <1>11, <1>12, <2>1, <3>2
  <2>3. CASE buildingOwners' = buildingOwners
    <3>1. (\A a \in B : own[a] = ownerships[a]) \/ (\A a \in B : own[a] = ownerships'[a])
      BY <1>7, <2>1
    <3>2. Torn = Former \/ Torn = Later
      BY <2>1, <2>3, <3>1
    <3>3. QED
      BY <1>11, <1>12, <2>1, <3>2
  <2>4. QED
    BY <1>13, <2>2, <2>3, OneTableChanges
<1>14. ASSUME NEW c \in Building, NEW a \in Apartment, create_apartment(a, c) PROVE Goal
  <2>1. /\ a \notin Present /\ home' = [home EXCEPT ![a] = c] /\ rotation_seed' = rotation_seed
    BY <1>1, <1>14, NewApartment
  <2>2. /\ buildingOwners' = buildingOwners
        /\ \A x \in Apartment \ {a} : ownerships'[x] = ownerships[x]
    BY <1>1, <1>14
    DEF create_apartment, CreateApartment, CreateApartmentBuildingOwned, TypeOK
  <2>3. a \notin A /\ B = IF b = c THEN A \cup {a} ELSE A
    BY <1>1, <1>5, <1>6, <2>1 DEF TypeOK, HouseTypeOK
  <2>4. \A x \in B \ {a} : own[x] = ownerships[x] /\ ownerships'[x] = ownerships[x]
    BY <1>6, <1>7, <2>2, <2>3
  <2>5. CASE b # c
    <3>1. Torn = Later
      BY <2>2, <2>3, <2>4, <2>5
    <3>2. QED
      BY <1>12, <2>1, <3>1
  <2>6. CASE b = c
    <3>1. own[a] = {} \/ own[a] = ownerships'[a]
      BY <1>7, <2>3, <2>6
    <3>2. Torn = Former \/ Torn = Later
      BY <1>9, <2>2, <2>3, <2>4, <2>6, <3>1
    <3>3. QED
      BY <1>11, <1>12, <2>1, <3>2
  <2>7. QED
    BY <2>5, <2>6
<1>15. ASSUME NEW a \in Apartment, delete_apartment(a) PROVE Goal
  <2>1. B = A \ {a} /\ buildingOwners' = buildingOwners /\ rotation_seed' = rotation_seed
    BY <1>1, <1>6, <1>15, NoBuildingAssumption DEF delete_apartment, DeleteApartment, TypeOK
  <2>2. \A x \in B : ownerships'[x] = ownerships[x]
    BY <1>1, <1>6, <1>15, <2>1 DEF delete_apartment, DeleteApartment, TypeOK
  <2>3. Torn = Later
    BY <1>7, <2>1, <2>2
  <2>4. QED
    BY <1>12, <2>1, <2>3
<1>16. ASSUME NEW c \in Building, delete_building(c) PROVE Goal
  <2>1. CASE c = b
    <3>1. B = {}
      BY <1>1, <1>6, <1>16, <2>1, NoBuildingAssumption
      DEF delete_building, DeleteBuilding, TypeOK
    <3>2. covered(mixed, w) = {} /\ covered(DataOf(b), w)' = {}
      BY <1>2, <1>4, <3>1
    <3>3. Assignment(mixed, w) = Nobody /\ Assignment(DataOf(b), w)' = Nobody
      BY <3>2 DEF Assignment
    <3>4. QED
      BY <3>3
  <2>2. CASE c # b
    <3>1. B = A /\ rotation_seed'[b] = rotation_seed[b] /\ buildingOwners'[b] = buildingOwners[b]
      BY <1>1, <1>6, <1>16, <2>2, NoBuildingAssumption
      DEF delete_building, DeleteBuilding, TypeOK, HouseTypeOK
    <3>2. \A x \in B : ownerships'[x] = ownerships[x]
      BY <1>1, <1>6, <1>16, <2>2, <3>1 DEF delete_building, DeleteBuilding, TypeOK
    <3>3. Torn = Later
      BY <1>7, <3>1, <3>2
    <3>4. QED
      BY <1>12, <3>1, <3>3
  <2>3. QED
    BY <2>1, <2>2
<1>17. ASSUME \/ \E c \in Building, ids \in SeqOf(Apartment, Cardinality(Apartment)) :
                   reorder_apartments(c, ids)
              \/ \E c \in Building, s \in Seed : update_building_rotation_seed(c, s)
       PROVE  Goal
  <2>1. UNCHANGED vars
    BY <1>17 DEF reorder_apartments, update_building_rotation_seed
  <2>2. A = B /\ \A a \in B : own[a] = ownerships[a]
    BY <1>6, <1>7, <2>1 DEF vars
  <2>3. Torn = Former
    BY <2>1, <2>2 DEF vars
  <2>4. QED
    BY <1>11, <2>3
<1>18. QED
  BY <1>13, <1>14, <1>15, <1>16, <1>17 DEF HouseNext, HouseStep

\* The rows that the year's computation would be given if nothing were written any more.
Completed ==
  [apartments |-> IF stage = "computed" THEN rows.apartments ELSE ApartmentsOf(asked),
   older |-> IF stage = "computed" THEN rows.older ELSE RotationOrder(asked),
   ownerships |-> IF stage = "ownerships" THEN HouseOwnerships(asked) ELSE rows.ownerships,
   buildingOwners |-> IF stage \in {"ownerships", "buildingOwners"} THEN buildingOwners[asked]
                      ELSE rows.buildingOwners,
   tenancies |-> rows.tenancies,
   seed |-> rows.seed]

\* Nothing has been written since the building was read.
NothingWritten ==
  /\ seen = <<Duties(DataOf(asked), Head(years))>>
  /\ rows.seed = rotation_seed[asked]
  /\ stage # "ownerships" => rows.ownerships = HouseOwnerships(asked)
  /\ stage \in {"apartments", "computed"} => rows.buildingOwners = buildingOwners[asked]
  /\ stage = "computed" => rows.apartments = ApartmentsOf(asked) /\ rows.older = RotationOrder(asked)

\* One write fell between the reads.
OneWrite ==
  /\ Len(seen) = 2
  /\ \A w \in WeeksOf(Head(years)) :
       Assignment(Completed, w).apartment \in {seen[1][w], seen[2][w]}

ReadIInv ==
  /\ HouseIInv
  /\ stage \in {"idle", "building", "ownerships", "buildingOwners", "apartments", "computed"}
  /\ rows = [apartments |-> rows.apartments, older |-> rows.older, ownerships |-> rows.ownerships,
             buildingOwners |-> rows.buildingOwners, tenancies |-> rows.tenancies,
             seed |-> rows.seed]
  /\ stage # "idle" => asked \in Building
  /\ IF stage \in {"idle", "building"} THEN seen = <<>> ELSE NothingWritten \/ OneWrite

LEMMA Appended ==
  ASSUME NEW S, NEW x \in S, NEW y \in S
  PROVE  Len(Append(<<x>>, y)) = 2 /\ Append(<<x>>, y)[1] = x /\ Append(<<x>>, y)[2] = y
<1>1. <<x>> \in Seq(S) /\ Len(<<x>>) = 1
  OBVIOUS
<1>2. QED
  BY <1>1

LEMMA DutyOfYear ==
  ASSUME NEW d, NEW y, NEW w \in WeeksOf(y)
  PROVE  Duties(d, y)[w] = Assignment(d, w).apartment
  BY DEF Duties, schedule_for_year

LEMMA ReadInitIInv == ReadInit => ReadIInv
<1>1. HouseInit => HouseIInv
  BY HouseInitIInv
<1>2. QED
  BY <1>1 DEF ReadInit, ReadIInv, NoRows

LEMMA ReadStepIInv ==
  ASSUME MaxWrites <= 1, ReadIInv, [ReadNext]_everything
  PROVE  ReadIInv'
<1> USE DEF ReadIInv
<1>1. HouseIInv'
  <2>1. [HouseNext]_allVars
    BY DEF ReadNext, Ask, ReadBuilding, ReadOwnerships, ReadBuildingOwners, ReadApartments,
       NextYear, Write, everything
  <2>2. QED
    BY <2>1, HouseStepIInv
<1>2. ASSUME NEW b \in Building, Ask(b) PROVE ReadIInv'
  BY <1>1, <1>2 DEF Ask
<1>3. ASSUME Answered PROVE ReadIInv'
  BY <1>1, <1>3 DEF Answered, NoRows
<1>4. CASE ReadBuilding
  <2>1. CASE asked \in buildings
    <3>1. /\ rows' = [NoRows EXCEPT !.seed = rotation_seed[asked]]
          /\ seen' = <<Duties(DataOf(asked), Head(years))>>
          /\ stage = "building" /\ stage' = "ownerships"
          /\ UNCHANGED <<asked, years>> /\ UNCHANGED allVars
      BY <1>4, <2>1 DEF ReadBuilding
    <3>2. NothingWritten'
      <4>1. DataOf(asked)' = DataOf(asked)
        BY <3>1 DEF DataOf, ApartmentsOf, RotationOrder, allVars, vars, houseVars
      <4>2. Duties(DataOf(asked), Head(years))' = Duties(DataOf(asked), Head(years))
        BY <3>1, <4>1 DEF Duties, schedule_for_year
      <4>3. QED
        BY <3>1, <4>2 DEF NothingWritten, NoRows, allVars, houseVars
    <3>3. QED
      BY <1>1, <3>1, <3>2 DEF NoRows
  <2>2. CASE asked \notin buildings
    BY <1>3, <1>4, <2>2 DEF ReadBuilding
  <2>3. QED
    BY <2>1, <2>2
<1>5. CASE ReadOwnerships \/ ReadBuildingOwners \/ ReadApartments
  <2>1. /\ stage \in {"ownerships", "buildingOwners", "apartments"}
        /\ stage' = IF stage = "ownerships" THEN "buildingOwners"
                    ELSE IF stage = "buildingOwners" THEN "apartments" ELSE "computed"
        /\ UNCHANGED <<asked, years, seen>> /\ UNCHANGED allVars
        /\ stage = "ownerships" =>
             rows' = [rows EXCEPT !.ownerships = HouseOwnerships(asked)]
        /\ stage = "buildingOwners" =>
             rows' = [rows EXCEPT !.buildingOwners = buildingOwners[asked]]
        /\ stage = "apartments" =>
             rows' = [rows EXCEPT !.apartments = ApartmentsOf(asked), !.older = RotationOrder(asked)]
    BY <1>5 DEF ReadOwnerships, ReadBuildingOwners, ReadApartments, HouseOwnerships
  <2>2. /\ HouseOwnerships(asked)' = HouseOwnerships(asked) /\ DataOf(asked)' = DataOf(asked)
        /\ ApartmentsOf(asked)' = ApartmentsOf(asked)
        /\ RotationOrder(asked)' = RotationOrder(asked)
        /\ rotation_seed' = rotation_seed /\ buildingOwners' = buildingOwners
    BY <2>1 DEF HouseOwnerships, DataOf, ApartmentsOf, RotationOrder, allVars, vars, houseVars
  <2>3. rows' = [apartments |-> rows'.apartments, older |-> rows'.older,
                 ownerships |-> rows'.ownerships, buildingOwners |-> rows'.buildingOwners,
                 tenancies |-> rows'.tenancies, seed |-> rows'.seed]
    BY <2>1
  <2>4. ASSUME NothingWritten PROVE NothingWritten'
    <3>1. Duties(DataOf(asked), Head(years))' = Duties(DataOf(asked), Head(years))
      BY <2>1, <2>2 DEF Duties, schedule_for_year
    <3>2. QED
      BY <2>1, <2>2, <2>4, <3>1 DEF NothingWritten
  <2>5. ASSUME OneWrite PROVE OneWrite'
    <3>1. Completed' = Completed
      BY <2>1, <2>2 DEF Completed
    <3>2. QED
      BY <2>1, <2>5, <3>1 DEF OneWrite
  <2>6. QED
    BY <1>1, <2>1, <2>3, <2>4, <2>5
<1>6. CASE NextYear
  <2>1. CASE Len(years) = 1
    BY <1>3, <1>6, <2>1 DEF NextYear
  <2>2. CASE Len(years) # 1
    BY <1>1, <1>6, <2>2 DEF NextYear, NoRows
  <2>3. QED
    BY <2>1, <2>2
<1>7. CASE Write
  <2>1. /\ stage # "computed" /\ Len(seen) <= 1 /\ HouseNext
        /\ UNCHANGED <<stage, asked, years, rows>>
        /\ seen' = IF seen = <<>> THEN <<>>
                   ELSE Append(seen, Duties(DataOf(asked), Head(years))')
    BY <1>7, ReadAssumption DEF Write
  <2>2. CASE stage \in {"idle", "building"}
    BY <1>1, <2>1, <2>2
  <2>3. CASE stage \notin {"idle", "building"}
    <3>1. NothingWritten
      BY <2>1, <2>3 DEF OneWrite
    <3>2. /\ Len(seen') = 2 /\ seen'[1] = Duties(DataOf(asked), Head(years))
          /\ seen'[2] = Duties(DataOf(asked), Head(years))'
      <4>1. /\ seen = <<Duties(DataOf(asked), Head(years))>>
            /\ seen' = Append(seen, Duties(DataOf(asked), Head(years))')
        BY <2>1, <3>1 DEF NothingWritten
      <4>2. ASSUME NEW before, NEW after
            PROVE  /\ Len(Append(<<before>>, after)) = 2
                   /\ Append(<<before>>, after)[1] = before
                   /\ Append(<<before>>, after)[2] = after
        <5>1. before \in {before, after} /\ after \in {before, after}
          OBVIOUS
        <5>2. QED
          BY <5>1, Appended
      <4>3. QED
        BY <4>1, <4>2
    <3>3. ASSUME NEW w \in WeeksOf(Head(years))
          PROVE  Assignment(Completed, w)'.apartment \in {seen'[1][w], seen'[2][w]}
      <4> DEFINE own == IF stage = "ownerships" THEN HouseOwnerships(asked)'
                        ELSE HouseOwnerships(asked)
                 bos == IF stage \in {"ownerships", "buildingOwners"} THEN buildingOwners'[asked]
                        ELSE buildingOwners[asked]
                 mixed == [apartments |-> ApartmentsOf(asked)', older |-> RotationOrder(asked)',
                           ownerships |-> own, buildingOwners |-> bos,
                           tenancies |-> rows.tenancies, seed |-> rotation_seed[asked]]
      <4>1. Completed' = mixed
        <5>1. rows' = rows /\ stage' = stage /\ asked' = asked
          BY <2>1
        <5>2. QED
          BY <2>1, <2>3, <3>1, <5>1 DEF Completed, NothingWritten, HouseOwnerships,
             ApartmentsOf, RotationOrder
      <4>2. asked \in Building
        BY <2>3
      <4>3. /\ own \in {HouseOwnerships(asked), HouseOwnerships(asked)'}
            /\ bos \in {buildingOwners[asked], buildingOwners'[asked]}
        OBVIOUS
      <4> HIDE DEF own, bos
      <4>4. \/ Assignment(mixed, w).apartment = Assignment(DataOf(asked), w).apartment
            \/ \E b \in Building : /\ b = asked
                                   /\ Assignment(mixed, w).apartment
                                        = Assignment(DataOf(b), w).apartment'
        BY <1>1, <2>1, <4>2, <4>3, TornRows
      <4>5. seen'[1][w] = Assignment(DataOf(asked), w).apartment
        BY <3>2, DutyOfYear
      <4>6. seen'[2][w] = Assignment(DataOf(asked), w).apartment'
        <5>1. ASSUME NEW e, e = DataOf(asked)' PROVE seen'[2][w] = Assignment(e, w).apartment
          <6>1. seen'[2] = Duties(e, Head(years))
            BY <2>1, <3>2, <5>1 DEF Duties, schedule_for_year
          <6>2. QED
            BY <6>1, DutyOfYear
        <5>2. QED
          BY <2>1, <5>1 DEF Assignment
      <4>7. QED
        BY <2>1, <4>1, <4>4, <4>5, <4>6
    <3>4. Len(seen') = 2
      BY <3>2
    <3>5. OneWrite'
      BY <2>1, <3>3, <3>4 DEF OneWrite
    <3>6. QED
      BY <1>1, <2>1, <2>3, <3>5
  <2>4. QED
    BY <2>2, <2>3
<1>8. CASE UNCHANGED everything
  <2>1. UNCHANGED <<stage, asked, years, rows, seen>> /\ UNCHANGED allVars
    BY <1>8 DEF everything, readVars
  <2>2. DataOf(asked)' = DataOf(asked) /\ Completed' = Completed
        /\ HouseOwnerships(asked)' = HouseOwnerships(asked)
    BY <2>1 DEF HouseOwnerships, DataOf, ApartmentsOf, RotationOrder, Completed, allVars, vars,
       houseVars
  <2>3. NothingWritten => NothingWritten'
    BY <2>1, <2>2 DEF NothingWritten, Duties, schedule_for_year, ApartmentsOf, RotationOrder,
       allVars, vars, houseVars
  <2>4. OneWrite => OneWrite'
    BY <2>1, <2>2 DEF OneWrite
  <2>5. QED
    BY <1>1, <2>1, <2>3, <2>4
<1>9. QED
  BY <1>2, <1>4, <1>5, <1>6, <1>7, <1>8 DEF ReadNext

\* A single write among the reads of a year never makes up a duty.
THEOREM ReadsMakeUpNoDuty ==
  ASSUME MaxWrites <= 1
  PROVE  ReadSpec => []WeeksAreOfOneState
<1>1. ReadIInv => WeeksAreOfOneState
  <2> SUFFICES ASSUME ReadIInv, stage = "computed", NEW w \in WeeksOf(Head(years))
               PROVE  \E i \in 1..Len(seen) : Duties(rows, Head(years))[w] = seen[i][w]
    BY DEF WeeksAreOfOneState
  <2>1. Duties(rows, Head(years))[w] = Assignment(rows, w).apartment
    BY DutyOfYear
  <2>2. CASE NothingWritten
    <3>1. /\ covered(rows, w) = covered(DataOf(asked), w) /\ rows.seed = DataOf(asked).seed
          /\ rows.older = DataOf(asked).older
      BY <2>2 DEF NothingWritten, covered, OwnersOfWeek, DataOf, HouseOwnerships, ApartmentsOf
    <3>2. Assignment(rows, w).apartment = Assignment(DataOf(asked), w).apartment
      BY <3>1, SameDuty
    <3>3. seen[1][w] = Assignment(DataOf(asked), w).apartment /\ Len(seen) = 1
      BY <2>2, DutyOfYear DEF NothingWritten
    <3>4. QED
      BY <2>1, <3>2, <3>3
  <2>3. CASE OneWrite
    <3>1. Completed = rows
      BY DEF Completed, ReadIInv
    <3>2. QED
      BY <2>1, <2>3, <3>1 DEF OneWrite
  <2>4. QED
    BY <2>2, <2>3 DEF ReadIInv
<1>2. ReadSpec => []ReadIInv
  <2>1. ReadIInv /\ [ReadNext]_everything => ReadIInv'
    BY ReadStepIInv
  <2>2. QED
    BY <2>1, ReadInitIInv, PTL DEF ReadSpec
<1>3. QED
  BY <1>1, <1>2, PTL
=============================================================================
