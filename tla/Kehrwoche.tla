-------------------------------- MODULE Kehrwoche --------------------------------
(***************************************************************************)
(* Which apartment of a building has which week: the ownership data, the   *)
(* order of the apartments and the rotation offset, with every transaction *)
(* that changes one of them.  Composes Ownership with the rest of the      *)
(* buildings' and apartments' state and reads it through Schedule.  Who of *)
(* the apartment serves, its owner or a tenant, is ApartmentWeek's         *)
(* subject; tenancies do not enter the choice of the apartment.            *)
(***************************************************************************)
EXTENDS Ownership, Schedule, SequencesExt

CONSTANTS Seed,         \* the offsets the danger zone offers
          MaxPosition   \* bound of apartments.position

ASSUME SeedAssumption == Seed \subseteq Int /\ 0 \in Seed

ASSUME HouseAssumption == IsFiniteSet(Apartment) /\ MaxPosition \in Nat

VARIABLES older,          \* <<x, y>>: x sorts before y by created_at, then by id
          position,       \* apartments.position
          rotation_seed   \* buildings.rotation_seed

houseVars == <<older, position, rotation_seed>>

allVars == <<vars, houseVars>>

Present == {a \in Apartment : Exists(a)}

StrictOrder(R, S) ==
  /\ R \subseteq S \X S
  /\ \A x, y \in S : x # y <=> <<x, y>> \in R \/ <<y, x>> \in R
  /\ \A x, y, z \in S : <<x, y>> \in R /\ <<y, z>> \in R => <<x, z>> \in R

HouseTypeOK ==
  /\ TypeOK
  /\ StrictOrder(older, Present)
  /\ position \in [Apartment -> 0..MaxPosition]
  /\ rotation_seed \in [Building -> Seed]

HouseInit ==
  /\ Init
  /\ older = {}
  /\ position = [a \in Apartment |-> 0]
  /\ rotation_seed = [b \in Building |-> 0]

-----------------------------------------------------------------------------
(* Apartments *)

\* Mutant: without `+ 1'.
LastPosition(b) ==
  IF ApartmentsOf(b) = {} THEN -1
  ELSE CHOOSE n \in {position[a] : a \in ApartmentsOf(b)} :
         \A a \in ApartmentsOf(b) : position[a] <= n

\* Mutant: the number of apartments, which deletions make smaller.
CountPosition(b) == Cardinality(ApartmentsOf(b))

\* COALESCE((SELECT MAX(position) ...), -1) + 1
NextPosition(b) ==
  IF ApartmentsOf(b) = {} THEN 0
  ELSE 1 + CHOOSE n \in {position[a] : a \in ApartmentsOf(b)} :
             \A a \in ApartmentsOf(b) : position[a] <= n

\* The new row is the youngest, unless it shares its second with others: then
\* their random ids decide.
CreationOrder(a) ==
  \E S \in SUBSET Present :
    /\ \A y \in S, x \in Present : <<x, y>> \in older => x \in S
    /\ older' = older \cup (S \X {a}) \cup ({a} \X (Present \ S))

create_apartment(a, b) ==
  /\ CreateApartmentBuildingOwned(a, b) \/ \E p \in Period : CreateApartment(a, b, p)
  /\ NextPosition(b) <= MaxPosition
  /\ position' = [position EXCEPT ![a] = NextPosition(b)]
  /\ CreationOrder(a)
  /\ UNCHANGED rotation_seed

\* What goes with the apartments that a step deletes.
Gone == {a \in Apartment : Exists(a) /\ ~ Exists(a)'}

Cascade ==
  /\ position' = [a \in Apartment |-> IF a \in Gone THEN 0 ELSE position[a]]
  /\ older' = {e \in older : e[1] \notin Gone /\ e[2] \notin Gone}

delete_apartment(a) == DeleteApartment(a) /\ Cascade /\ UNCHANGED rotation_seed

delete_building(b) ==
  /\ DeleteBuilding(b)
  /\ Cascade
  /\ rotation_seed' = [rotation_seed EXCEPT ![b] = 0]

\* Mutant: duplicate ids are not looked for.
ReorderUnchecked(b, ids) ==
  /\ Len(ids) = Cardinality(ApartmentsOf(b))
  /\ \A i \in 1..Len(ids) : ids[i] \in ApartmentsOf(b)
  /\ position' = [a \in Apartment |->
                    IF a \in ToSet(ids) THEN (CHOOSE i \in 1..Len(ids) : ids[i] = a) - 1
                                        ELSE position[a]]
  /\ UNCHANGED <<vars, older, rotation_seed>>

\* ids is the list a browser has loaded earlier and sends: it must be exactly the
\* building's apartments by now, or everything rolls back.
reorder_apartments(b, ids) ==
  /\ Len(ids) = Cardinality(ApartmentsOf(b))
  /\ IsInjective(ids)
  /\ \A i \in 1..Len(ids) : ids[i] \in ApartmentsOf(b)
  /\ position' = [a \in Apartment |->
                    IF a \in ToSet(ids) THEN (CHOOSE i \in 1..Len(ids) : ids[i] = a) - 1
                                        ELSE position[a]]
  /\ UNCHANGED <<vars, older, rotation_seed>>

update_building_rotation_seed(b, s) ==
  /\ b \in buildings
  /\ rotation_seed' = [rotation_seed EXCEPT ![b] = s]
  /\ UNCHANGED <<vars, older, position>>

-----------------------------------------------------------------------------
CreateStep ==
  \E b \in Building :
    /\ CreateBuilding(b) \/ \E p \in Period : CreateBuildingWithOwner(b, p)
    /\ UNCHANGED houseVars

HouseStep ==
  \/ \E b \in Building :
       \/ delete_building(b)
       \/ \E a \in Apartment : create_apartment(a, b)
       \/ \E ids \in SeqOf(Apartment, Cardinality(Apartment)) : reorder_apartments(b, ids)
       \/ \E s \in Seed : update_building_rotation_seed(b, s)
  \/ \E a \in Apartment : delete_apartment(a)

OwnerStep == (OwnershipStep \/ BuildingOwnerStep \/ Midnight) /\ UNCHANGED houseVars

HouseNext == CreateStep \/ HouseStep \/ OwnerStep

HouseSpec == HouseInit /\ [][HouseNext]_allVars

-----------------------------------------------------------------------------
(* The schedule of a building *)

\* Mutant: the order in which the apartments are displayed.
DisplayOrder(b) ==
  {e \in ApartmentsOf(b) \X ApartmentsOf(b) : position[e[1]] < position[e[2]]}

\* apartments.sort_by(created_at, then id)
RotationOrder(b) == {e \in older : home[e[1]] = b /\ home[e[2]] = b}

\* The rows schedule_for_year loads, but for the tenancies.
DataOf(b) ==
  [apartments |-> ApartmentsOf(b), older |-> RotationOrder(b), ownerships |-> ownerships,
   buildingOwners |-> buildingOwners[b], tenancies |-> [a \in Apartment |-> {}],
   seed |-> rotation_seed[b]]

\* Who serves in week w: the one of the yearly schedules that has the week.
Serves(b, w) == LET y == CHOOSE y \in Year : w \in WeeksOf(y)
                IN schedule_for_year(DataOf(b), y)[w]

\* Mutant: the range includes the number of apartments.
OptionsToCount(b) == 0..Cardinality(ApartmentsOf(b)) \cup {rotation_seed[b]}

\* The offsets that the danger zone offers: one for each apartment, and the present.
rotation_seed_options(b) == 0..Cardinality(ApartmentsOf(b)) - 1 \cup {rotation_seed[b]}

\* The apartments taking part in the rotation in week w.
Rotation(b, w) == covered(DataOf(b), w)

-----------------------------------------------------------------------------
(* Properties *)

\* README.markdown: responsibility is assigned round-robin and the rotation
\* counter continues across years: whenever the same n apartments take part in n
\* weeks in a row, each of them serves in one of these weeks, also when a year
\* ends among them and whatever the offset.
RoundRobin ==
  \A b \in Building, w \in Week :
    LET n == Cardinality(Rotation(b, w))
    IN /\ n > 0 /\ w + n - 1 \in Week
       /\ \A v \in w..(w + n - 1) : Rotation(b, v) = Rotation(b, w)
       => {Serves(b, v).apartment : v \in w..(w + n - 1)} = Rotation(b, w)

\* rotation_seed_options: "the canonical options are exactly 0..n-1; anything beyond
\* would only repeat an equivalent phase".  So it is as long as every apartment takes
\* part in every week: each option makes another schedule, but for a stored offset
\* outside of the range, and no offset makes one that is not offered.
Phase(b, s) == [w \in Week |-> Assignment([DataOf(b) EXCEPT !.seed = s], w).apartment]

OffersEveryPhase ==
  \A b \in buildings :
    LET n == Cardinality(ApartmentsOf(b))
        options == rotation_seed_options(b)
    IN (\A w \in Week : Rotation(b, w) = ApartmentsOf(b)) /\ 0 < n /\ Week # {} =>
         /\ \A s \in -n..2 * n : \E o \in options : Phase(b, o) = Phase(b, s)
         /\ Cardinality({Phase(b, o) : o \in options})
              = Cardinality(options \ {s \in {rotation_seed[b]} : s \notin 0..n - 1})

\* The displayed order (position, then name) is the one that was submitted, for
\* no two apartments of a building ever have the same position, although they
\* are appended at MAX + 1, deleted, and renumbered from lists that may be stale.
PositionsDiffer ==
  \A x, y \in Apartment :
    Exists(x) /\ home[x] = home[y] /\ position[x] = position[y] => x = y

\* The duty weeks are a matter of ownership coverage and of the offset only: as
\* long as the same apartments take part in a week, no step moves it to another
\* one: no reordering, no apartment that comes or goes elsewhere, no new owner.
OnlyCoverageMovesDuties ==
  [][\A b \in Building, w \in Week :
       /\ rotation_seed'[b] = rotation_seed[b]
       /\ Rotation(b, w) = Rotation(b, w)'
       => Serves(b, w).apartment = Serves(b, w).apartment']_allVars

-----------------------------------------------------------------------------
(* A statement of the repository that the code does not keep. *)

\* schedule_for_year: "owner and tenant changes never shift the duty weeks of
\* other apartments".
ChangesShiftNobodyElse ==
  [][\A a \in Apartment, b \in Building, w \in Week :
       /\ home' = home /\ older' = older /\ rotation_seed' = rotation_seed
       /\ buildingOwners' = buildingOwners
       /\ \A c \in Apartment \ {a} : ownerships'[c] = ownerships[c]
       /\ Serves(b, w).apartment \notin {a, "nobody"}
       => Serves(b, w).apartment' = Serves(b, w).apartment]_allVars
=============================================================================
