------------------------------ MODULE ScheduleRead ------------------------------
(***************************************************************************)
(* A request that shows a schedule: the building's page, the feed, the     *)
(* PDF.  It looks the building up and runs schedule_for_year for one year  *)
(* after the other; each run reads the building, the ownerships, the       *)
(* building owners and the apartments in queries of their own, outside of  *)
(* a transaction, so that Kehrwoche's writes fall between them.  The       *)
(* tenancies, read after the ownerships, do not enter the choice of the    *)
(* apartment and are empty here.                                           *)
(***************************************************************************)
EXTENDS Kehrwoche

CONSTANTS PresentYear,  \* of Local::now()
          MaxWrites     \* bound of the writes while one year is read

ASSUME ReadAssumption == PresentYear \in Year /\ MaxWrites \in Nat

VARIABLES stage,    \* what the request reads next
          asked,    \* its building
          years,    \* the years that it has yet to show, the present one first
          rows,     \* what it has read of the year
          seen      \* the duties of the year, before the first read and after every write

readVars == <<stage, asked, years, rows, seen>>
everything == <<allVars, readVars>>

NoRows ==
  [apartments |-> {}, older |-> {}, ownerships |-> [a \in Apartment |-> {}], buildingOwners |-> {},
   tenancies |-> [a \in Apartment |-> {}], seed |-> 0]

ReadInit ==
  /\ HouseInit
  /\ stage = "idle" /\ asked = NoBuilding /\ years = <<>> /\ rows = NoRows /\ seen = <<>>

\* What the building's page, the feed (FEED_YEARS) and the PDF show, as far as the
\* model's years go.
YearsShown ==
  {SelectSeq(shown, LAMBDA y : y \in Year) :
     shown \in {<<PresentYear>>, <<PresentYear, PresentYear + 1>>,
                <<PresentYear, PresentYear - 1, PresentYear + 1>>}}

\* Whose duty each week of the year is.
Duties(d, y) == [w \in WeeksOf(y) |-> schedule_for_year(d, y)[w].apartment]

\* The end of the request, whatever its status.
Answered ==
  /\ stage' = "idle" /\ asked' = NoBuilding /\ years' = <<>> /\ rows' = NoRows /\ seen' = <<>>

\* get_building_by_slug; a building that is not there answers 404 and changes nothing.
Ask(b) ==
  /\ stage = "idle" /\ b \in buildings
  /\ stage' = "building" /\ asked' = b
  /\ years' \in YearsShown
  /\ UNCHANGED <<allVars, rows, seen>>

ReadBuilding ==
  /\ stage = "building"
  /\ IF asked \in buildings
       THEN /\ rows' = [NoRows EXCEPT !.seed = rotation_seed[asked]]
            /\ seen' = <<Duties(DataOf(asked), Head(years))>>
            /\ stage' = "ownerships"
            /\ UNCHANGED <<asked, years>>
       ELSE Answered   \* BuildingNotFound
  /\ UNCHANGED allVars

\* list_ownerships_for_building: of the apartments that are the building's now.
ReadOwnerships ==
  /\ stage = "ownerships"
  /\ rows' = [rows EXCEPT !.ownerships =
                [a \in Apartment |-> IF home[a] = asked THEN ownerships[a] ELSE {}]]
  /\ stage' = "buildingOwners"
  /\ UNCHANGED <<allVars, asked, years, seen>>

ReadBuildingOwners ==
  /\ stage = "buildingOwners"
  /\ rows' = [rows EXCEPT !.buildingOwners = buildingOwners[asked]]
  /\ stage' = "apartments"
  /\ UNCHANGED <<allVars, asked, years, seen>>

\* list_apartments, sorted by created_at and id.
ReadApartments ==
  /\ stage = "apartments"
  /\ rows' = [rows EXCEPT !.apartments = ApartmentsOf(asked), !.older = RotationOrder(asked)]
  /\ stage' = "computed"
  /\ UNCHANGED <<allVars, asked, years, seen>>

\* Mutant: the building and its ownerships are loaded once for all years.
NextYearFromSameRows ==
  /\ stage = "computed"
  /\ IF Len(years) = 1
       THEN Answered
       ELSE /\ years' = Tail(years) /\ stage' = "buildingOwners"
            /\ seen' = <<Duties(DataOf(asked), years[2])>>
            /\ UNCHANGED <<asked, rows>>
  /\ UNCHANGED allVars

\* The weeks of the year are computed from the rows; the next year, or the answer.
NextYear ==
  /\ stage = "computed"
  /\ IF Len(years) = 1
       THEN Answered
       ELSE /\ years' = Tail(years) /\ stage' = "building" /\ seen' = <<>> /\ rows' = NoRows
            /\ UNCHANGED asked
  /\ UNCHANGED allVars

\* Another session writes; between two years, as often as it likes.  What happens
\* while the weeks are computed is not read.
Write ==
  /\ stage # "computed" /\ Len(seen) <= MaxWrites
  /\ HouseNext
  /\ allVars' # allVars
  /\ UNCHANGED <<stage, asked, years, rows>>
  /\ seen' = IF seen = <<>> THEN <<>> ELSE Append(seen, Duties(DataOf(asked), Head(years))')

ReadNext ==
  \/ \E b \in Building : Ask(b)
  \/ ReadBuilding \/ ReadOwnerships \/ ReadBuildingOwners \/ ReadApartments \/ NextYear
  \/ Write

ReadSpec == ReadInit /\ [][ReadNext]_everything

-----------------------------------------------------------------------------
(* Properties *)

ReadTypeOK ==
  /\ HouseTypeOK
  /\ stage \in {"idle", "building", "ownerships", "buildingOwners", "apartments", "computed"}
  /\ asked \in Building \cup {NoBuilding}
  /\ years \in SeqOf(Year, 3)
  /\ Len(seen) <= MaxWrites + 1

\* schedule_for_year reads without a transaction, and its reads may belong to
\* different states: still, a single write of another session never makes it up a
\* duty: each week's is the one before the write or the one after it.
WeeksAreOfOneState ==
  stage = "computed" =>
    \A w \in WeeksOf(Head(years)) :
      \E i \in 1..Len(seen) : Duties(rows, Head(years))[w] = seen[i][w]
=============================================================================
