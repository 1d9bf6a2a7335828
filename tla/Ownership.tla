------------------------------- MODULE Ownership -------------------------------
(***************************************************************************)
(* The ownership data of kehrkraft: the tables buildings, apartments,      *)
(* ownerships and building_owners with every trigger of migrations         *)
(* 0010-0013 that accepts or rejects a write, and the transactions of      *)
(* src/db/queries.rs that write them.  One action is one committed         *)
(* transaction (BEGIN ... COMMIT, cascades and triggers included); a       *)
(* transaction that a trigger rejects rolls back and is no step.           *)
(*                                                                         *)
(* The arguments are not what a careful caller would pass but whatever the *)
(* web handlers can pass: they read the tables in separate awaits before   *)
(* they write, so a row they name may have been edited in between.         *)
(***************************************************************************)
EXTENDS PeriodChain

CONSTANTS Building,     \* the ids a building may get
          Apartment,    \* the ids an apartment may get
          NoBuilding    \* the home of an apartment that does not exist

ASSUME NoBuildingAssumption == NoBuilding \notin Building

VARIABLES buildings,        \* the rows of `buildings'
          home,             \* apartments.building_id
          ownerships,       \* the chain of each apartment
          buildingOwners,   \* the chain of each building
          today             \* date('now', 'localtime')

vars == <<buildings, home, ownerships, buildingOwners, today>>

TypeOK ==
  /\ buildings \subseteq Building
  /\ home \in [Apartment -> Building \cup {NoBuilding}]
  /\ ownerships \in [Apartment -> SUBSET Period]
  /\ buildingOwners \in [Building -> SUBSET Period]
  /\ today \in Day

Exists(a) == home[a] # NoBuilding

ApartmentsOf(b) == {a \in Apartment : home[a] = b}

\* EXISTS (SELECT 1 FROM building_owners ... covering date('now'))
WhollyOwned(b) == CoveredOn(buildingOwners[b], today)

\* Some apartment of b has no ownership covering today: it depends on the
\* building owner.
HasDependents(b) == \E a \in ApartmentsOf(b) : ~ CoveredOn(ownerships[a], today)

Init ==
  /\ buildings = {}
  /\ home = [a \in Apartment |-> NoBuilding]
  /\ ownerships = [a \in Apartment |-> {}]
  /\ buildingOwners = [b \in Building |-> {}]
  /\ today \in Day

-----------------------------------------------------------------------------
(* Buildings *)

CreateBuilding(b) ==
  /\ b \notin buildings
  /\ buildings' = buildings \cup {b}
  /\ UNCHANGED <<home, ownerships, buildingOwners, today>>

\* create_building_with_owner: the building and its first owner, in one
\* transaction.
CreateBuildingWithOwner(b, p) ==
  /\ b \notin buildings
  /\ Fits({}, p)
  /\ buildings' = buildings \cup {b}
  /\ buildingOwners' = [buildingOwners EXCEPT ![b] = {p}]
  /\ UNCHANGED <<home, ownerships, today>>

\* DELETE FROM buildings: ON DELETE CASCADE takes the apartments with their
\* ownerships and the building owners; the delete guards look the parent row
\* up, do not find it and let the cascade pass.
DeleteBuilding(b) ==
  /\ b \in buildings
  /\ buildings' = buildings \ {b}
  /\ home' = [a \in Apartment |-> IF home[a] = b THEN NoBuilding ELSE home[a]]
  /\ ownerships' = [a \in Apartment |-> IF home[a] = b THEN {} ELSE ownerships[a]]
  /\ buildingOwners' = [buildingOwners EXCEPT ![b] = {}]
  /\ UNCHANGED today

-----------------------------------------------------------------------------
(* Apartments *)

\* create_apartment: the ownership is inserted before its apartment, so the
\* ownership triggers that look the apartment up pass, and the two apartment
\* triggers decide.
CreateApartment(a, b, p) ==
  /\ ~ Exists(a)
  /\ b \in buildings
  /\ Fits({}, p)
  /\ ~ WhollyOwned(b)
  /\ home' = [home EXCEPT ![a] = b]
  /\ ownerships' = [ownerships EXCEPT ![a] = {p}]
  /\ UNCHANGED <<buildings, buildingOwners, today>>

CreateApartmentBuildingOwned(a, b) ==
  /\ ~ Exists(a)
  /\ b \in buildings
  /\ WhollyOwned(b)
  /\ home' = [home EXCEPT ![a] = b]
  /\ UNCHANGED <<buildings, ownerships, buildingOwners, today>>

\* Mutant: no ON DELETE CASCADE on ownerships.
DeleteApartmentOnly(a) ==
  /\ Exists(a)
  /\ home' = [home EXCEPT ![a] = NoBuilding]
  /\ UNCHANGED <<buildings, ownerships, buildingOwners, today>>

DeleteApartment(a) ==
  /\ Exists(a)
  /\ home' = [home EXCEPT ![a] = NoBuilding]
  /\ ownerships' = [ownerships EXCEPT ![a] = {}]
  /\ UNCHANGED <<buildings, buildingOwners, today>>

-----------------------------------------------------------------------------
(* Ownerships *)

OwnershipsUnlike == UNCHANGED <<buildings, home, buildingOwners, today>>

\* Mutant: without ownerships_reject_when_building_owned_insert.
CreateOwnershipAnywhere(a, p) ==
  /\ Exists(a)
  /\ Fits(ownerships[a], p)
  /\ ownerships' = [ownerships EXCEPT ![a] = @ \cup {p}]
  /\ OwnershipsUnlike

CreateOwnership(a, p) ==
  /\ Exists(a)
  /\ ~ WhollyOwned(home[a])
  /\ Fits(ownerships[a], p)
  /\ ownerships' = [ownerships EXCEPT ![a] = @ \cup {p}]
  /\ OwnershipsUnlike

CreateOwnershipClosingPrevious(a, prev, p) ==
  /\ Exists(a)
  /\ ~ WhollyOwned(home[a])
  /\ ClosingPreviousFits(ownerships[a], prev, p)
  /\ ownerships' = [ownerships EXCEPT ![a] = ClosingPrevious(@, prev, p)]
  /\ OwnershipsUnlike

UpdateOwnership(a, old, new) ==
  /\ UpdateFits(ownerships[a], old, new)
  /\ ownerships' = [ownerships EXCEPT ![a] = Updated(@, old, new)]
  /\ OwnershipsUnlike

\* Mutant: before 0011, without ownerships_guard_current.
OwnershipDeletable0010(a, p) ==
  /\ ownerships[a] # {p} \/ WhollyOwned(home[a])
  /\ ~ InTheMiddle(ownerships[a], p)

\* The triggers ownerships_guard_last (COUNT(*) <= 1: p is the only row),
\* _guard_middle and _guard_current.
OwnershipDeletable(a, p) ==
  /\ ownerships[a] # {p} \/ WhollyOwned(home[a])
  /\ ~ InTheMiddle(ownerships[a], p)
  /\ ~ Covers(p, today) \/ WhollyOwned(home[a])

DeleteOwnership(a, p) ==
  /\ p \in ownerships[a]
  /\ OwnershipDeletable(a, p)
  /\ ownerships' = [ownerships EXCEPT ![a] = @ \ {p}]
  /\ OwnershipsUnlike

-----------------------------------------------------------------------------
(* Building owners *)

BuildingOwnersUnlike == UNCHANGED <<buildings, home, ownerships, today>>

\* building_owners_reject_when_apartments_owned_insert: past periods count.
HasApartmentOwners(b) == \E a \in ApartmentsOf(b) : ownerships[a] # {}

CreateBuildingOwner(b, p) ==
  /\ b \in buildings
  /\ ~ HasApartmentOwners(b)
  /\ Fits(buildingOwners[b], p)
  /\ buildingOwners' = [buildingOwners EXCEPT ![b] = @ \cup {p}]
  /\ BuildingOwnersUnlike

CreateBuildingOwnerClosingPrevious(b, prev, p) ==
  /\ b \in buildings
  /\ ~ HasApartmentOwners(b)
  /\ ClosingPreviousFits(buildingOwners[b], prev, p)
  /\ buildingOwners' = [buildingOwners EXCEPT ![b] = ClosingPrevious(@, prev, p)]
  /\ BuildingOwnersUnlike

UpdateBuildingOwner(b, old, new) ==
  /\ UpdateFits(buildingOwners[b], old, new)
  /\ buildingOwners' = [buildingOwners EXCEPT ![b] = Updated(@, old, new)]
  /\ BuildingOwnersUnlike

\* Mutant: neither building_owners_guard_last nor _guard_current.
BuildingOwnerDeletableAtEnds(b, p) == ~ InTheMiddle(buildingOwners[b], p)

\* The triggers building_owners_guard_last (COUNT(*) = 1), _guard_middle and
\* _guard_current.
BuildingOwnerDeletable(b, p) ==
  /\ buildingOwners[b] # {p} \/ ~ HasDependents(b)
  /\ ~ InTheMiddle(buildingOwners[b], p)
  /\ ~ Covers(p, today) \/ ~ HasDependents(b)

DeleteBuildingOwner(b, p) ==
  /\ p \in buildingOwners[b]
  /\ BuildingOwnerDeletable(b, p)
  /\ buildingOwners' = [buildingOwners EXCEPT ![b] = @ \ {p}]
  /\ BuildingOwnersUnlike

-----------------------------------------------------------------------------
Midnight ==
  /\ today < LastDay
  /\ today' = today + 1
  /\ UNCHANGED <<buildings, home, ownerships, buildingOwners>>

BuildingStep ==
  \E b \in Building :
    \/ CreateBuilding(b)
    \/ DeleteBuilding(b)
    \/ \E p \in Period : CreateBuildingWithOwner(b, p)

ApartmentStep ==
  \E a \in Apartment :
    \/ DeleteApartment(a)
    \/ \E b \in Building : CreateApartmentBuildingOwned(a, b)
    \/ \E b \in Building, p \in Period : CreateApartment(a, b, p)

OwnershipStep ==
  \E a \in Apartment, p \in Period :
    \/ CreateOwnership(a, p)
    \/ DeleteOwnership(a, p)
    \/ \E prev \in ownerships[a] : CreateOwnershipClosingPrevious(a, prev, p)
    \/ \E old \in ownerships[a] : UpdateOwnership(a, old, p)

BuildingOwnerStep ==
  \E b \in Building, p \in Period :
    \/ CreateBuildingOwner(b, p)
    \/ DeleteBuildingOwner(b, p)
    \/ \E prev \in buildingOwners[b] : CreateBuildingOwnerClosingPrevious(b, prev, p)
    \/ \E old \in buildingOwners[b] : UpdateBuildingOwner(b, old, p)

Next ==
  \/ BuildingStep
  \/ ApartmentStep
  \/ OwnershipStep
  \/ BuildingOwnerStep
  \/ Midnight

Spec == Init /\ [][Next]_vars

-----------------------------------------------------------------------------
(* Properties *)

Covered(a) == CoveredOn(ownerships[a], today) \/ WhollyOwned(home[a])

\* No write leaves a row behind whose parent is gone: an ownership of a deleted
\* apartment, an apartment or an owner of a deleted building (the ON DELETE
\* CASCADE clauses and the deferred foreign keys of 0002 and 0005).
NoOrphanRows ==
  /\ \A a \in Apartment : Exists(a) => home[a] \in buildings
  /\ \A a \in Apartment : ownerships[a] # {} => Exists(a)
  /\ \A b \in Building : buildingOwners[b] # {} => b \in buildings

\* get_ownership_on and get_building_owner_on return the first of the periods
\* covering a date; there is never a second one, on any day, whichever rows the
\* creates, closing creates and updates have moved.
AtMostOneOwnerPerDay ==
  /\ \A a \in Apartment, d \in Day :
       \A p, q \in ownerships[a] : Covers(p, d) /\ Covers(q, d) => p = q
  /\ \A b \in Building, d \in Day :
       \A p, q \in buildingOwners[b] : Covers(p, d) /\ Covers(q, d) => p = q

\* An apartment never exists without any ownership record: it has periods of
\* its own or its building has a building owner (0004/0005: creating apartments
\* in a wholly owned building, deleting the last row on either side, in any
\* order and while the day changes in between).
EveryApartmentHasAnOwnerRecord ==
  \A a \in Apartment : Exists(a) => ownerships[a] # {} \/ buildingOwners[home[a]] # {}

\* What only inserts or only deletes rows, in either table, never uncovers an
\* apartment that is covered today (0011): losing today's owner takes an edit of
\* a period or a change of date.
NothingEdited ==
  /\ \A a \in Apartment : \/ ownerships'[a] \subseteq ownerships[a]
                          \/ ownerships[a] \subseteq ownerships'[a]
  /\ \A b \in Building : \/ buildingOwners'[b] \subseteq buildingOwners[b]
                         \/ buildingOwners[b] \subseteq buildingOwners'[b]

CoverageSurvivesDeletes ==
  [][\A a \in Apartment :
       /\ Exists(a) /\ home'[a] = home[a]
       /\ today' = today
       /\ NothingEdited
       /\ Covered(a)
       => Covered(a)']_vars

\* The chain rules do not promise a seamless timeline for every update, but the
\* one way to tear it is an update that moves a row past another row of its
\* chain; inserts, closing creates, deletes and all other updates keep it.
GapOnlyByJump ==
  [][/\ \A a \in Apartment :
          Tiled(ownerships[a]) /\ ~ Tiled(ownerships'[a])
            => Jumped(ownerships[a], ownerships'[a])
     /\ \A b \in Building :
          Tiled(buildingOwners[b]) /\ ~ Tiled(buildingOwners'[b])
            => Jumped(buildingOwners[b], buildingOwners'[b])]_vars

\* 0010: a building is wholly owned or a WEG, never both.  A building becomes
\* mixed (owner covering today and apartments with ownerships) only when the
\* date changes or an existing building owner is edited: no insert into either
\* table, whatever the order in which its rows arrive, makes it so.
Mixed(b) == WhollyOwned(b) /\ HasApartmentOwners(b)

InsertsKeepStructure ==
  [][\A b \in Building :
       today' = today /\ buildingOwners[b] \subseteq buildingOwners'[b] /\ ~ Mixed(b)
         => ~ Mixed(b)']_vars

-----------------------------------------------------------------------------
(* Statements of the repository that the code does not keep. *)

\* README.markdown: the periods of a chain "tile its timeline seamlessly".
SeamlessTimelines ==
  /\ \A a \in Apartment : Tiled(ownerships[a])
  /\ \A b \in Building : Tiled(buildingOwners[b])

\* 0010: "either wholly owned or a WEG -- never both".
NeverMixed == \A b \in Building : ~ Mixed(b)

\* create_ownership_closing_previous: "The chain-tiling triggers validate the
\* combined change", so a combined change that keeps the rules is accepted.
CombinedChangeValidated ==
  \A a \in Apartment, p \in Period :
    \A prev \in ownerships[a] :
      LET combined == ClosingPrevious(ownerships[a], prev, p)
      IN /\ Covers(prev, p.start)
         /\ WellOrdered(combined) /\ Disjoint(combined) /\ Tiled(combined)
         => ClosingPreviousFits(ownerships[a], prev, p)
=============================================================================
