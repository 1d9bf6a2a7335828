-------------------------- MODULE PeriodHandlersTheorems --------------------------
(***************************************************************************)
(* The handlers of the ownerships and building owners implement the        *)
(* transactions of Ownership, for every calendar and every set of row ids. *)
(* The argument: the rows of a table never overlap, so the dates of a row  *)
(* identify it, and what is written to a row by its id is what Ownership   *)
(* writes to the set of rows.                                              *)
(***************************************************************************)
EXTENDS PeriodHandlers, PeriodChainTheorems

RowsOf(r) == {r[i] : i \in Row} \ {None}

StoredIn(r) == {i \in Row : r[i] # None}

\* One table of periods.
GoodTable(r) ==
  /\ r \in [Row -> Period \cup {None}]
  /\ \A i \in StoredIn(r) : Ordered(r[i])
  /\ \A i, j \in StoredIn(r) : i # j => ~ Overlaps(r[i], r[j])

TablesInv ==
  /\ rows \in [Table -> [Row -> Period \cup {None}]]
  /\ \A t \in Table : GoodTable(rows[t])
  /\ apartment => building
  /\ \A t \in Table : ~ Exists(t) => RowsOf(rows[t]) = {}

-----------------------------------------------------------------------------
(* One table *)

LEMMA Rows ==
  ASSUME NEW r, GoodTable(r)
  PROVE  /\ \A i \in StoredIn(r) : r[i] \in Period /\ r[i] \in RowsOf(r)
         /\ \A p \in RowsOf(r) : \E i \in StoredIn(r) : r[i] = p
         /\ \A i, j \in StoredIn(r) : i # j => r[i] # r[j]
         /\ RowsOf(r) \in SUBSET Period
  BY PeriodFields DEF GoodTable, StoredIn, RowsOf, Ordered, Overlaps

LEMMA Inserted ==
  ASSUME NEW r, GoodTable(r), NEW i \in Row, r[i] = None,
         NEW p \in Period, Fits(RowsOf(r), p)
  PROVE  /\ GoodTable([r EXCEPT ![i] = p])
         /\ RowsOf([r EXCEPT ![i] = p]) = RowsOf(r) \cup {p}
<1> DEFINE s == [r EXCEPT ![i] = p]
<1>1. p # None /\ s \in [Row -> Period \cup {None}] /\ s[i] = p
      /\ \A j \in Row \ {i} : s[j] = r[j]
  BY NoneAssumption DEF GoodTable
<1> HIDE DEF s
<1>2. StoredIn(s) = StoredIn(r) \cup {i}
  BY <1>1 DEF StoredIn
<1>3. RowsOf(s) = RowsOf(r) \cup {p}
  BY <1>1 DEF RowsOf
<1>4. GoodTable(s)
  BY <1>1, <1>2, Rows DEF GoodTable, Fits, FreeOfOverlap, Overlaps, StoredIn
<1>5. QED
  BY <1>3, <1>4 DEF s

LEMMA Edited ==
  ASSUME NEW r, GoodTable(r), NEW i \in Row, r[i] # None,
         NEW p \in Period, UpdateFits(RowsOf(r), r[i], p)
  PROVE  /\ GoodTable([r EXCEPT ![i] = p])
         /\ RowsOf([r EXCEPT ![i] = p]) = Updated(RowsOf(r), r[i], p)
<1> DEFINE s == [r EXCEPT ![i] = p]
<1>1. p # None /\ s \in [Row -> Period \cup {None}] /\ s[i] = p
      /\ \A j \in Row \ {i} : s[j] = r[j]
  BY NoneAssumption DEF GoodTable
<1> HIDE DEF s
<1>2. StoredIn(s) = StoredIn(r) /\ i \in StoredIn(r)
  BY <1>1 DEF StoredIn
<1>3. \A j \in StoredIn(r) \ {i} : r[j] \in RowsOf(r) \ {r[i]}
  BY <1>2, Rows
<1>4. RowsOf(s) = Updated(RowsOf(r), r[i], p)
  BY <1>1, <1>2, Rows DEF RowsOf, Updated, StoredIn
<1>5. GoodTable(s)
  BY <1>1, <1>2, <1>3 DEF GoodTable, StoredIn, UpdateFits, Fits, FreeOfOverlap, Overlaps
<1>6. QED
  BY <1>4, <1>5 DEF s

LEMMA ClosedAndInserted ==
  ASSUME NEW r, GoodTable(r), NEW i \in Row, NEW j \in Row, r[i] = None, r[j] # None,
         NEW p \in Period, ClosingPreviousFits(RowsOf(r), r[j], p)
  PROVE  /\ GoodTable([r EXCEPT ![j] = Closed(r[j], p), ![i] = p])
         /\ RowsOf([r EXCEPT ![j] = Closed(r[j], p), ![i] = p])
              = ClosingPrevious(RowsOf(r), r[j], p)
<1> DEFINE q == Closed(r[j], p)
           s == [r EXCEPT ![j] = q]
<1>1. r[j] \in Period
  BY Rows DEF StoredIn
<1>2. q \in Period
  BY <1>1, ClosedPeriod DEF ClosingPreviousFits, UpdateFits, Fits
<1>3. GoodTable(s) /\ RowsOf(s) = Updated(RowsOf(r), r[j], q)
  BY <1>2, Edited DEF ClosingPreviousFits
<1>4. s[i] = None
  BY DEF GoodTable
<1>5. [r EXCEPT ![j] = q, ![i] = p] = [s EXCEPT ![i] = p]
  OBVIOUS
<1>6. Fits(RowsOf(s), p)
  BY <1>3 DEF ClosingPreviousFits
<1> HIDE DEF s, q
<1>7. GoodTable([s EXCEPT ![i] = p]) /\ RowsOf([s EXCEPT ![i] = p]) = RowsOf(s) \cup {p}
  BY <1>3, <1>4, <1>6, Inserted
<1>8. QED
  BY <1>3, <1>5, <1>7 DEF ClosingPrevious, q

LEMMA Removed ==
  ASSUME NEW r, GoodTable(r), NEW i \in Row, r[i] # None
  PROVE  /\ GoodTable([r EXCEPT ![i] = None])
         /\ RowsOf([r EXCEPT ![i] = None]) = RowsOf(r) \ {r[i]}
<1> DEFINE s == [r EXCEPT ![i] = None]
<1>1. s \in [Row -> Period \cup {None}] /\ s[i] = None
      /\ \A j \in Row \ {i} : s[j] = r[j]
  BY DEF GoodTable
<1> HIDE DEF s
<1>2. StoredIn(s) = StoredIn(r) \ {i}
  BY <1>1 DEF StoredIn
<1>3. GoodTable(s)
  BY <1>1, <1>2 DEF GoodTable, StoredIn
<1>4. RowsOf(s) = RowsOf(r) \ {r[i]}
  BY <1>1, Rows DEF RowsOf, StoredIn
<1>5. QED
  BY <1>3, <1>4 DEF s

LEMMA NoRows == GoodTable([i \in Row |-> None]) /\ RowsOf([i \in Row |-> None]) = {}
  BY DEF GoodTable, RowsOf, StoredIn

-----------------------------------------------------------------------------
(* The transactions of this module are those of Ownership. *)

\* The operators of PeriodChain that Ownership brings along are the same.
LEMMA SameRules ==
  /\ Tables!Period = Period
  /\ \A C, p : Tables!Fits(C, p) <=> Fits(C, p)
  /\ \A C, old, new : Tables!Updated(C, old, new) = Updated(C, old, new)
  /\ \A C, old, new : Tables!UpdateFits(C, old, new) <=> UpdateFits(C, old, new)
  /\ \A C, q, p : Tables!ClosingPrevious(C, q, p) = ClosingPrevious(C, q, p)
  /\ \A C, q, p : Tables!ClosingPreviousFits(C, q, p) <=> ClosingPreviousFits(C, q, p)
  /\ \A C, p : Tables!InTheMiddle(C, p) <=> InTheMiddle(C, p)
  /\ \A p, d : Tables!Covers(p, d) <=> Covers(p, d)
  /\ \A C, d : Tables!CoveredOn(C, d) <=> CoveredOn(C, d)
<1>1. Tables!Period = Period
  BY DEF Tables!Period, Period, Tables!Day, Day, Tables!Open, Open
<1>2. \A C, p : Tables!Fits(C, p) <=> Fits(C, p)
  BY DEF Tables!Fits, Tables!Ordered, Tables!FreeOfOverlap, Tables!Overlaps,
         Tables!JoinsPrevious, Tables!JoinsNext, Tables!Before,
         Fits, Ordered, FreeOfOverlap, Overlaps, JoinsPrevious, JoinsNext, Before
<1>3. \A C, old, new : Tables!Updated(C, old, new) = Updated(C, old, new)
  BY DEF Tables!Updated, Updated
<1>4. \A q, p : Tables!Closed(q, p) = Closed(q, p)
  BY DEF Tables!Closed, Closed
<1>5. \A C, old, new : Tables!UpdateFits(C, old, new) <=> UpdateFits(C, old, new)
  BY <1>2 DEF Tables!UpdateFits, UpdateFits
<1>6. \A C, q, p : Tables!ClosingPrevious(C, q, p) = ClosingPrevious(C, q, p)
  BY <1>3, <1>4 DEF Tables!ClosingPrevious, ClosingPrevious
<1>7. \A C, q, p : Tables!ClosingPreviousFits(C, q, p) <=> ClosingPreviousFits(C, q, p)
  BY <1>2, <1>3, <1>4, <1>5 DEF Tables!ClosingPreviousFits, ClosingPreviousFits
<1>8. \A C, p : Tables!InTheMiddle(C, p) <=> InTheMiddle(C, p)
  BY DEF Tables!InTheMiddle, Tables!Before, InTheMiddle, Before
<1>9. /\ \A p, d : Tables!Covers(p, d) <=> Covers(p, d)
      /\ \A C, d : Tables!CoveredOn(C, d) <=> CoveredOn(C, d)
  BY DEF Tables!CoveredOn, Tables!Covers, CoveredOn, Covers
<1>10. QED
  BY <1>1, <1>2, <1>3, <1>5, <1>6, <1>7, <1>8, <1>9

\* The state that Ownership sees.
Home == [a \in {"apartment"} |-> IF apartment THEN "building" ELSE "none"]
Owned == [a \in {"apartment"} |-> Chain("ownerships")]
BuildingOwned == [b \in {"building"} |-> Chain("building_owners")]

LEMMA Seen ==
  ASSUME TablesInv
  PROVE  /\ Tables!Exists("apartment") <=> apartment
         /\ Tables!WhollyOwned("building") <=> WhollyOwned
         /\ Tables!HasApartmentOwners("building") <=> Chain("ownerships") # {}
         /\ Tables!HasDependents("building") <=> HasDependents
<1>1. ~ apartment => Chain("ownerships") = {}
  BY DEF TablesInv, Table, Exists, Chain, RowsOf
<1>2. Tables!ApartmentsOf("building") = IF apartment THEN {"apartment"} ELSE {}
  BY DEF Tables!ApartmentsOf
<1>3. Tables!Exists("apartment") <=> apartment
  BY DEF Tables!Exists
<1>4. Tables!WhollyOwned("building") <=> WhollyOwned
  BY SameRules DEF Tables!WhollyOwned, WhollyOwned
<1>5. Tables!HasApartmentOwners("building") <=> Chain("ownerships") # {}
  BY <1>1, <1>2 DEF Tables!HasApartmentOwners
<1>6. Tables!HasDependents("building") <=> HasDependents
  BY <1>2, SameRules DEF Tables!HasDependents, HasDependents
<1>7. QED
  BY <1>3, <1>4, <1>5, <1>6

\* A change of one table, in which nothing else changes.
Changed(t, D) ==
  /\ UNCHANGED <<building, apartment, today>>
  /\ Chain(t)' = D
  /\ \A u \in Table \ {t} : Chain(u)' = Chain(u)

LEMMA TableChange ==
  ASSUME TablesInv, NEW t \in Table, Exists(t), NEW r, GoodTable(r),
         rows' = [rows EXCEPT ![t] = r], UNCHANGED <<building, apartment, today>>
  PROVE  TablesInv' /\ Changed(t, RowsOf(r))
<1>1. rows'[t] = r /\ \A u \in Table \ {t} : rows'[u] = rows[u]
  BY DEF TablesInv
<1>2. rows' \in [Table -> [Row -> Period \cup {None}]]
  BY DEF TablesInv, GoodTable
<1>3. Chain(t)' = RowsOf(r) /\ \A u \in Table \ {t} : Chain(u)' = Chain(u)
  BY <1>1 DEF Chain, RowsOf
<1>4. \A u \in Table : Exists(u)' <=> Exists(u)
  BY DEF Exists
<1>5. TablesInv'
  BY <1>1, <1>2, <1>4 DEF TablesInv
<1>6. QED
  BY <1>3, <1>5 DEF Changed

\* What Ownership leaves alone when one of the tables changes.
LEMMA Unlike ==
  /\ \A D : Changed("ownerships", D) =>
       /\ Owned' = [Owned EXCEPT !["apartment"] = D]
       /\ Tables!OwnershipsUnlike
  /\ \A D : Changed("building_owners", D) =>
       /\ BuildingOwned' = [BuildingOwned EXCEPT !["building"] = D]
       /\ Tables!BuildingOwnersUnlike
  BY DEF Changed, Table, Owned, BuildingOwned, Tables!OwnershipsUnlike,
         Tables!BuildingOwnersUnlike

Kept == TablesInv' /\ [Tables!Next]_Tables!vars

\* The actions of Ownership for the one apartment and the one building.
LEMMA OwnershipNext ==
  ASSUME NEW p \in Period
  PROVE  /\ Tables!CreateOwnership("apartment", p) => Tables!Next
         /\ Tables!DeleteOwnership("apartment", p) => Tables!Next
         /\ \A q \in Chain("ownerships") :
              \/ Tables!CreateOwnershipClosingPrevious("apartment", q, p)
              \/ Tables!UpdateOwnership("apartment", q, p)
              => Tables!Next
<1>1. p \in Tables!Period /\ Owned["apartment"] = Chain("ownerships")
  BY SameRules DEF Owned
<1>2. QED
  BY <1>1 DEF Tables!Next, Tables!OwnershipStep, Owned

LEMMA BuildingOwnerNext ==
  ASSUME NEW p \in Period
  PROVE  /\ Tables!CreateBuildingOwner("building", p) => Tables!Next
         /\ Tables!DeleteBuildingOwner("building", p) => Tables!Next
         /\ \A q \in Chain("building_owners") :
              \/ Tables!CreateBuildingOwnerClosingPrevious("building", q, p)
              \/ Tables!UpdateBuildingOwner("building", q, p)
              => Tables!Next
<1>1. p \in Tables!Period /\ BuildingOwned["building"] = Chain("building_owners")
  BY SameRules DEF BuildingOwned
<1>2. QED
  BY <1>1 DEF Tables!Next, Tables!BuildingOwnerStep, BuildingOwned

LEMMA InsertStep ==
  ASSUME TablesInv, NEW t \in Table, NEW i \in Row, NEW p \in Period,
         Insert(t, i, p), UNCHANGED <<building, apartment, today>>
  PROVE  Kept
<1> DEFINE r == [rows[t] EXCEPT ![i] = p]
<1>1. /\ Exists(t) /\ MayInsert(t) /\ Fits(Chain(t), p)
      /\ rows' = [rows EXCEPT ![t] = r]
  BY DEF Insert, MayInsert, TablesInv
<1>2. Chain(t) = RowsOf(rows[t]) /\ GoodTable(rows[t])
  BY DEF Chain, RowsOf, TablesInv
<1>3. TablesInv' /\ Changed(t, Chain(t) \cup {p})
  <2>1. GoodTable(r) /\ RowsOf(r) = Chain(t) \cup {p}
    BY <1>1, <1>2, Inserted DEF Insert
  <2> HIDE DEF r
  <2>2. QED
    BY <1>1, <2>1, TableChange
<1>4. CASE t = "ownerships"
  <2>1. Tables!CreateOwnership("apartment", p)
    BY <1>1, <1>3, <1>4, Seen, Unlike, SameRules
       DEF Tables!CreateOwnership, Owned, Exists, MayInsert
  <2>2. QED
    BY <1>3, <2>1, OwnershipNext DEF Kept
<1>5. CASE t = "building_owners"
  <2>1. Tables!CreateBuildingOwner("building", p)
    BY <1>1, <1>3, <1>5, Seen, Unlike, SameRules
       DEF Tables!CreateBuildingOwner, BuildingOwned, Exists, MayInsert
  <2>2. QED
    BY <1>3, <2>1, BuildingOwnerNext DEF Kept
<1>6. QED
  BY <1>4, <1>5 DEF Table

LEMMA UpdateStep ==
  ASSUME TablesInv, NEW t \in Table, NEW i \in Row, NEW p \in Period,
         Update(t, i, p), UNCHANGED <<building, apartment, today>>
  PROVE  Kept
<1> DEFINE old == rows[t][i]
           r == [rows[t] EXCEPT ![i] = p]
<1>1. /\ old # None /\ UpdateFits(Chain(t), old, p)
      /\ rows' = [rows EXCEPT ![t] = r]
  BY DEF Update
<1>2. Chain(t) = RowsOf(rows[t]) /\ GoodTable(rows[t])
  BY DEF Chain, RowsOf, TablesInv
<1>3. old \in Chain(t) /\ Exists(t)
  BY <1>1, <1>2 DEF UpdateFits, TablesInv
<1>4. TablesInv' /\ Changed(t, Updated(Chain(t), old, p))
  <2>1. GoodTable(r) /\ RowsOf(r) = Updated(Chain(t), old, p)
    BY <1>1, <1>2, Edited
  <2> HIDE DEF r
  <2>2. QED
    BY <1>1, <1>3, <2>1, TableChange
<1>5. CASE t = "ownerships"
  <2>1. Tables!UpdateOwnership("apartment", old, p)
    BY <1>1, <1>4, <1>5, Unlike, SameRules DEF Tables!UpdateOwnership, Owned
  <2>2. QED
    BY <1>3, <1>4, <1>5, <2>1, OwnershipNext DEF Kept
<1>6. CASE t = "building_owners"
  <2>1. Tables!UpdateBuildingOwner("building", old, p)
    BY <1>1, <1>4, <1>6, Unlike, SameRules DEF Tables!UpdateBuildingOwner, BuildingOwned
  <2>2. QED
    BY <1>3, <1>4, <1>6, <2>1, BuildingOwnerNext DEF Kept
<1>7. QED
  BY <1>5, <1>6 DEF Table

LEMMA CloseStep ==
  ASSUME TablesInv, NEW t \in Table, NEW i \in Row, NEW j \in Row, NEW p \in Period,
         CloseAndInsert(t, j, i, p), UNCHANGED <<building, apartment, today>>
  PROVE  Kept
<1> DEFINE prev == rows[t][j]
           r == [rows[t] EXCEPT ![j] = Closed(prev, p), ![i] = p]
<1>1. CASE prev = None
  BY <1>1, InsertStep DEF CloseAndInsert
<1>2. CASE prev # None
  <2>1. /\ rows[t][i] = None /\ MayInsert(t) /\ Exists(t)
        /\ ClosingPreviousFits(Chain(t), prev, p)
        /\ rows' = [rows EXCEPT ![t] = r]
    BY <1>2 DEF CloseAndInsert, Insert, MayInsert, TablesInv
  <2>2. Chain(t) = RowsOf(rows[t]) /\ GoodTable(rows[t])
    BY DEF Chain, RowsOf, TablesInv
  <2>3. prev \in Chain(t)
    BY <2>1 DEF ClosingPreviousFits, UpdateFits
  <2>4. GoodTable(r) /\ RowsOf(r) = ClosingPrevious(Chain(t), prev, p)
    BY <1>2, <2>1, <2>2, ClosedAndInserted
  <2>5. TablesInv' /\ Changed(t, ClosingPrevious(Chain(t), prev, p))
    <3> HIDE DEF r
    <3>1. QED
      BY <2>1, <2>4, TableChange
  <2>6. CASE t = "ownerships"
    <3>1. Tables!CreateOwnershipClosingPrevious("apartment", prev, p)
      BY <2>1, <2>5, <2>6, Seen, Unlike, SameRules
         DEF Tables!CreateOwnershipClosingPrevious, Owned, Exists, MayInsert
    <3>2. QED
      BY <2>3, <2>5, <2>6, <3>1, OwnershipNext DEF Kept
  <2>7. CASE t = "building_owners"
    <3>1. Tables!CreateBuildingOwnerClosingPrevious("building", prev, p)
      BY <2>1, <2>5, <2>7, Seen, Unlike, SameRules
         DEF Tables!CreateBuildingOwnerClosingPrevious, BuildingOwned, Exists, MayInsert
    <3>2. QED
      BY <2>3, <2>5, <2>7, <3>1, BuildingOwnerNext DEF Kept
  <2>8. QED
    BY <2>6, <2>7 DEF Table
<1>3. QED
  BY <1>1, <1>2

LEMMA DeleteStep ==
  ASSUME TablesInv, NEW t \in Table, NEW i \in Row,
         Delete(t, i), UNCHANGED <<building, apartment, today>>
  PROVE  Kept
<1> DEFINE p == rows[t][i]
           r == [rows[t] EXCEPT ![i] = None]
<1>1. /\ p # None /\ Deletable(t, p)
      /\ rows' = [rows EXCEPT ![t] = r]
  BY DEF Delete
<1>2. Chain(t) = RowsOf(rows[t]) /\ GoodTable(rows[t])
  BY DEF Chain, RowsOf, TablesInv
<1>3. p \in Chain(t) /\ p \in Period /\ Exists(t)
  BY <1>1, <1>2, Rows DEF StoredIn, TablesInv
<1>4. TablesInv' /\ Changed(t, Chain(t) \ {p})
  <2>1. GoodTable(r) /\ RowsOf(r) = Chain(t) \ {p}
    BY <1>1, <1>2, Removed
  <2> HIDE DEF r
  <2>2. QED
    BY <1>1, <1>3, <2>1, TableChange
<1>5. CASE t = "ownerships"
  <2>1. Tables!OwnershipDeletable("apartment", p)
    BY <1>1, <1>3, <1>5, Seen, SameRules DEF Tables!OwnershipDeletable, Deletable, Exists
  <2>2. Tables!DeleteOwnership("apartment", p)
    BY <1>3, <1>4, <1>5, <2>1, Unlike DEF Tables!DeleteOwnership, Owned
  <2>3. QED
    BY <1>3, <1>4, <2>2, OwnershipNext DEF Kept
<1>6. CASE t = "building_owners"
  <2>1. Tables!BuildingOwnerDeletable("building", p)
    BY <1>1, <1>3, <1>6, Seen, SameRules DEF Tables!BuildingOwnerDeletable, Deletable
  <2>2. Tables!DeleteBuildingOwner("building", p)
    BY <1>3, <1>4, <1>6, <2>1, Unlike DEF Tables!DeleteBuildingOwner, BuildingOwned
  <2>3. QED
    BY <1>3, <1>4, <2>2, BuildingOwnerNext DEF Kept
<1>7. QED
  BY <1>5, <1>6 DEF Table

-----------------------------------------------------------------------------
(* Buildings, apartments and the calendar *)

LEMMA GoodEmpty ==
  ASSUME NEW i \in Row, NEW p \in Ordinary
  PROVE  /\ GoodTable([[k \in Row |-> None] EXCEPT ![i] = p])
         /\ RowsOf([[k \in Row |-> None] EXCEPT ![i] = p]) = {p}
         /\ Fits({}, p)
<1> DEFINE r == [k \in Row |-> None]
<1>1. Fits({}, p) /\ p \in Period
  BY DEF Ordinary, Fits, FreeOfOverlap, JoinsPrevious, JoinsNext
<1>2. GoodTable(r) /\ RowsOf(r) = {} /\ r[i] = None
  BY NoRows
<1> HIDE DEF r
<1>3. Fits(RowsOf(r), p)
  BY <1>1, <1>2
<1>4. GoodTable([r EXCEPT ![i] = p]) /\ RowsOf([r EXCEPT ![i] = p]) = RowsOf(r) \cup {p}
  BY <1>1, <1>2, <1>3, Inserted
<1>5. QED
  BY <1>1, <1>2, <1>4 DEF r

\* A table without rows.
LEMMA EmptyTable ==
  ASSUME TablesInv, NEW t \in Table, ~ Exists(t)
  PROVE  rows[t] = [k \in Row |-> None] /\ Chain(t) = {}
<1>1. rows[t] \in [Row -> Period \cup {None}] /\ RowsOf(rows[t]) = {}
  BY DEF TablesInv
<1>2. \A k \in Row : rows[t][k] = None
  BY <1>1 DEF RowsOf
<1>3. Chain(t) = {}
  BY <1>1 DEF Chain, RowsOf
<1>4. QED
  BY <1>1, <1>2, <1>3

LEMMA CreateStep ==
  ASSUME TablesInv, CreateParent, UNCHANGED today
  PROVE  Kept
<1> USE DEF Table, Exists
<1>1. CASE ~ building /\ building' = TRUE /\ UNCHANGED <<apartment, rows>>
  <2>1. TablesInv'
    BY <1>1 DEF TablesInv
  <2>2. UNCHANGED <<Chain("ownerships"), Chain("building_owners")>>
    BY <1>1 DEF Chain
  <2>3. Tables!CreateBuilding("building")
    BY <1>1, <2>2 DEF Tables!CreateBuilding
  <2>4. QED
    BY <2>1, <2>3 DEF Kept, Tables!Next, Tables!BuildingStep
<1>2. ASSUME ~ building, building' = TRUE, UNCHANGED apartment, NEW i \in Row,
             NEW p \in Ordinary, rows' = [rows EXCEPT !["building_owners"][i] = p]
      PROVE  Kept
  <2> DEFINE r == [[k \in Row |-> None] EXCEPT ![i] = p]
  <2>1. rows["building_owners"] = [k \in Row |-> None] /\ Chain("building_owners") = {}
    BY <1>2, EmptyTable
  <2>2. rows' = [rows EXCEPT !["building_owners"] = r]
    BY <1>2, <2>1
  <2>3. GoodTable(r) /\ RowsOf(r) = {p} /\ Fits({}, p) /\ p \in Period
    BY GoodEmpty DEF Ordinary
  <2> HIDE DEF r
  <2>4. rows'["building_owners"] = r /\ rows'["ownerships"] = rows["ownerships"]
    BY <2>2 DEF TablesInv
  <2>5. Chain("building_owners")' = {p} /\ Chain("ownerships")' = Chain("ownerships")
    BY <2>3, <2>4 DEF Chain, RowsOf
  <2>6. rows' \in [Table -> [Row -> Period \cup {None}]]
    BY <2>2, <2>3 DEF TablesInv, GoodTable
  <2>7. TablesInv'
    BY <1>2, <2>3, <2>4, <2>6 DEF TablesInv
  <2>8. Tables!CreateBuildingWithOwner("building", p)
    BY <1>2, <2>3, <2>5, SameRules DEF Tables!CreateBuildingWithOwner
  <2>9. QED
    BY <2>3, <2>7, <2>8, SameRules DEF Kept, Tables!Next, Tables!BuildingStep
<1>3. CASE building /\ ~ apartment /\ apartment' = TRUE
           /\ UNCHANGED <<building, rows>> /\ WhollyOwned
  <2>1. TablesInv'
    BY <1>3 DEF TablesInv
  <2>2. UNCHANGED <<Chain("ownerships"), Chain("building_owners")>>
    BY <1>3 DEF Chain
  <2>3. Tables!CreateApartmentBuildingOwned("apartment", "building")
    BY <1>3, <2>2, Seen DEF Tables!CreateApartmentBuildingOwned
  <2>4. QED
    BY <2>1, <2>3 DEF Kept, Tables!Next, Tables!ApartmentStep
<1>4. ASSUME building, ~ apartment, apartment' = TRUE, UNCHANGED building,
             ~ WhollyOwned, NEW i \in Row, NEW p \in Ordinary,
             rows' = [rows EXCEPT !["ownerships"][i] = p]
      PROVE  Kept
  <2> DEFINE r == [[k \in Row |-> None] EXCEPT ![i] = p]
  <2>1. rows["ownerships"] = [k \in Row |-> None] /\ Chain("ownerships") = {}
    BY <1>4, EmptyTable
  <2>2. rows' = [rows EXCEPT !["ownerships"] = r]
    BY <1>4, <2>1
  <2>3. GoodTable(r) /\ RowsOf(r) = {p} /\ Fits({}, p) /\ p \in Period
    BY GoodEmpty DEF Ordinary
  <2> HIDE DEF r
  <2>4. /\ rows'["ownerships"] = r
        /\ rows'["building_owners"] = rows["building_owners"]
    BY <2>2 DEF TablesInv
  <2>5. Chain("ownerships")' = {p} /\ Chain("building_owners")' = Chain("building_owners")
    BY <2>3, <2>4 DEF Chain, RowsOf
  <2>6. rows' \in [Table -> [Row -> Period \cup {None}]]
    BY <2>2, <2>3 DEF TablesInv, GoodTable
  <2>7. TablesInv'
    BY <1>4, <2>3, <2>4, <2>6 DEF TablesInv
  <2>8. Tables!CreateApartment("apartment", "building", p)
    BY <1>4, <2>3, <2>5, Seen, SameRules DEF Tables!CreateApartment
  <2>9. QED
    BY <2>3, <2>7, <2>8, SameRules DEF Kept, Tables!Next, Tables!ApartmentStep
<1>5. QED
  BY <1>1, <1>2, <1>3, <1>4 DEF CreateParent

LEMMA DeleteParentStep ==
  ASSUME TablesInv, DeleteParent, UNCHANGED today
  PROVE  Kept
<1> USE DEF Table, Exists
<1>1. CASE apartment /\ apartment' = FALSE /\ UNCHANGED building
           /\ rows' = [rows EXCEPT !["ownerships"] = [i \in Row |-> None]]
  <2>1. /\ rows'["ownerships"] = [i \in Row |-> None]
        /\ rows'["building_owners"] = rows["building_owners"]
        /\ rows' \in [Table -> [Row -> Period \cup {None}]]
    BY <1>1 DEF TablesInv
  <2>2. Chain("ownerships")' = {} /\ Chain("building_owners")' = Chain("building_owners")
    BY <2>1, NoRows DEF Chain, RowsOf
  <2>3. TablesInv'
    BY <1>1, <2>1, NoRows DEF TablesInv
  <2>4. Tables!DeleteApartment("apartment")
    BY <1>1, <2>2 DEF Tables!DeleteApartment, Tables!Exists
  <2>5. QED
    BY <2>3, <2>4 DEF Kept, Tables!Next, Tables!ApartmentStep
<1>2. CASE building /\ building' = FALSE /\ apartment' = FALSE
           /\ rows' = [t \in Table |-> [i \in Row |-> None]]
  <2>1. \A t \in Table : rows'[t] = [i \in Row |-> None]
    BY <1>2
  <2>2. Chain("ownerships")' = {} /\ Chain("building_owners")' = {}
    BY <2>1, NoRows DEF Chain, RowsOf
  <2>3. TablesInv'
    BY <1>2, <2>1, NoRows DEF TablesInv
  <2>4. ~ apartment => Chain("ownerships") = {}
    BY EmptyTable
  <2>5. Tables!DeleteBuilding("building")
    BY <1>2, <2>2, <2>4 DEF Tables!DeleteBuilding
  <2>6. QED
    BY <2>3, <2>5 DEF Kept, Tables!Next, Tables!BuildingStep
<1>3. QED
  BY <1>1, <1>2 DEF DeleteParent

LEMMA StillStep ==
  ASSUME TablesInv, UNCHANGED <<building, apartment, rows>>,
         UNCHANGED today \/ (today < LastDay /\ today' = today + 1)
  PROVE  Kept
<1>1. UNCHANGED <<Chain("ownerships"), Chain("building_owners")>>
  BY DEF Chain
<1>2. TablesInv'
  BY DEF TablesInv, Exists
<1>3. CASE UNCHANGED today
  BY <1>1, <1>2, <1>3 DEF Kept, Tables!vars
<1>4. CASE today < LastDay /\ today' = today + 1
  BY <1>1, <1>2, <1>4 DEF Kept, Tables!Next, Tables!Midnight
<1>5. QED
  BY <1>3, <1>4

-----------------------------------------------------------------------------
(* The request *)

Named == {"edit", "askEnd", "warn", "update", "close", "delete"}

\* What a request names is an id.  An edit about to be written that was not
\* confirmed does no harm, as far as its handler could see.
RequestInv ==
  /\ request.at \in Named => request.row \in Row
  /\ /\ At("update") /\ request.answer # "yes" /\ ~ request.blind
     /\ rows[T][request.row] # None
     => NoHarm(T) \/ ~ EndDropsToday(rows[T][request.row], request.form)

IInv ==
  /\ TypeOK
  /\ TablesInv
  /\ RequestInv

LEMMA IdleRequest == Idle \in Request /\ Idle.at = "idle"
<1>1. 1 \in Day
  BY LastDayAssumption DEF Day
<1>2. [start |-> 1, end |-> 1] \in Period
  BY <1>1 DEF Period
<1>3. QED
  BY <1>2 DEF Idle, Request, Page, Table

LEMMA AnsweredKeeps ==
  ASSUME Answered
  PROVE  request' \in Request /\ RequestInv'
  BY IdleRequest DEF Answered, RequestInv, Named, At

\* A step of the handler or of the user that writes nothing.
LEMMA ReadStep ==
  ASSUME IInv, Submit \/ Answer \/ FindPrevious \/ CheckGap \/ LoadRow \/ Warn \/ Reject
  PROVE  request' \in Request /\ RequestInv'
<1> USE DEF IInv, TypeOK, Named, At, T
<1>1. UNCHANGED <<building, apartment, rows, today>>
  BY DEF Submit, Answer, FindPrevious, CheckGap, LoadRow, Warn, Reject, OnlyRequest
<1>2. CASE Answered
  BY <1>2, AnsweredKeeps
<1>3. ASSUME request' \in Request, request'.at \in Named => request'.row \in Row,
             request'.at # "update"
      PROVE  RequestInv'
  BY <1>3 DEF RequestInv
<1>4. CASE Submit
  <2>1. /\ request' \in Request /\ request'.at # "update"
        /\ request'.at \in Named => request'.row \in Row
    BY <1>4, IdleRequest DEF Submit, Request, Step, Ordinary
  <2>2. QED
    BY <1>3, <2>1
<1>5. CASE Answer
  <2>1. CASE \E yes \in {"yes", "no"} :
               request' = [request EXCEPT !.at = IF At("askEnd") THEN "edit" ELSE "create",
                                          !.answer = yes]
    <3>1. /\ request' \in Request /\ request'.at # "update"
          /\ request'.at \in Named => request'.row \in Row
      BY <2>1 DEF RequestInv, Request, Step
    <3>2. QED
      BY <1>3, <3>1
  <2>2. QED
    BY <1>2, <1>5, <2>1 DEF Answer
<1>6. CASE FindPrevious
  <2>1. CASE request' = [Idle EXCEPT !.at = "gap", !.table = T, !.form = request.form]
    <3>1. request' \in Request /\ request'.at = "gap"
      BY <2>1, IdleRequest DEF Request, Step
    <3>2. QED
      BY <1>3, <3>1
  <2>2. ASSUME NEW i \in Row,
               \/ request' = [request EXCEPT !.at = "askClose", !.shown = i]
               \/ request' = [request EXCEPT !.at = "close", !.row = i]
        PROVE  request' \in Request /\ RequestInv'
    <3>1. /\ request' \in Request /\ request'.at # "update"
          /\ request'.at \in Named => request'.row \in Row
      BY <2>2 DEF Request, Step, Page
    <3>2. QED
      BY <1>3, <3>1
  <2>3. QED
    BY <1>2, <1>6, <2>1, <2>2 DEF FindPrevious
<1>7. CASE CheckGap
  <2>1. CASE GoTo("insert")
    <3>1. request' \in Request /\ request'.at = "insert"
      BY <2>1 DEF GoTo, Request, Step
    <3>2. QED
      BY <1>3, <3>1
  <2>2. QED
    BY <1>2, <1>7, <2>1 DEF CheckGap
<1>8. CASE LoadRow
  <2>1. CASE GoTo("warn") /\ At("edit")
    <3>1. request' \in Request /\ request'.at = "warn" /\ request'.row \in Row
      BY <2>1 DEF GoTo, Request, Step, RequestInv
    <3>2. QED
      BY <1>3, <3>1
  <2>2. CASE GoTo("update") /\ At("edit")
             /\ ~ EndDropsToday(rows[T][request.row], request.form)
    <3>1. /\ request' \in Request /\ request'.row \in Row /\ request'.row = request.row
          /\ request'.table = request.table /\ request'.form = request.form
      BY <2>2 DEF GoTo, Request, Step, RequestInv
    <3>2. ~ EndDropsToday(rows[T][request.row], request.form)'
      BY <1>1, <2>2, <3>1 DEF EndDropsToday
    <3>3. QED
      BY <3>1, <3>2 DEF RequestInv
  <2>3. QED
    BY <1>2, <1>8, <2>1, <2>2 DEF LoadRow
<1>9. CASE Warn
  <2>1. At("warn") /\ request.row \in Row
    BY <1>9 DEF Warn, RequestInv
  <2>2. CASE GoTo("update") /\ NoHarm(T)
    <3>1. /\ request' \in Request /\ request'.row \in Row
          /\ request'.table = request.table
      BY <2>1, <2>2 DEF GoTo, Request, Step
    <3>2. NoHarm(T)'
      BY <1>1, <2>2, <3>1
         DEF NoHarm, WhollyOwned, HasDependents, Chain
    <3>3. QED
      BY <3>1, <3>2 DEF RequestInv
  <2>3. CASE request' = [request EXCEPT !.at = "askEnd", !.blind = FALSE]
    <3>1. request' \in Request /\ request'.at = "askEnd" /\ request'.row \in Row
      BY <2>1, <2>3 DEF Request, Page
    <3>2. QED
      BY <1>3, <3>1
  <2>4. CASE GoTo("update") /\ request.answer = "yes"
    <3>1. /\ request' \in Request /\ request'.row \in Row /\ request'.answer = "yes"
      BY <2>1, <2>4 DEF GoTo, Request, Step
    <3>2. QED
      BY <3>1 DEF RequestInv
  <2>5. CASE request' = [request EXCEPT !.at = "update", !.blind = TRUE]
    <3>1. /\ request' \in Request /\ request'.row \in Row /\ request'.blind
      BY <2>1, <2>5 DEF Request, Step
    <3>2. QED
      BY <3>1 DEF RequestInv
  <2>6. QED
    BY <1>2, <1>9, <2>2, <2>3, <2>4, <2>5 DEF Warn
<1>10. CASE Reject
  BY <1>2, <1>10 DEF Reject
<1>11. QED
  BY <1>4, <1>5, <1>6, <1>7, <1>8, <1>9, <1>10

\* A step of others: what the handler has seen still holds, or it is blind.
LEMMA BlindStep ==
  ASSUME IInv, NowBlind
  PROVE  request' \in Request /\ RequestInv'
<1> USE DEF IInv, TypeOK, Named, At, T
<1> DEFINE Moved == /\ request.at \in {"warn", "update"}
                    /\ \/ rows'[T][request.row] # rows[T][request.row]
                       \/ today' # today
                       \/ NoHarm(T)' # NoHarm(T)
<1>1. request' = IF Moved THEN [request EXCEPT !.blind = TRUE] ELSE request
  BY DEF NowBlind
<1>2. CASE Moved
  <2> HIDE DEF Moved
  <2>1. request' = [request EXCEPT !.blind = TRUE]
    BY <1>1, <1>2
  <2>2. /\ request' \in Request /\ request'.blind
        /\ request'.at = request.at /\ request'.row = request.row
    BY <2>1 DEF Request
  <2>3. QED
    BY <2>2 DEF RequestInv
<1>3. CASE ~ Moved /\ ~ At("update")
  <2>1. request' = request
    BY <1>1, <1>3
  <2>2. QED
    BY <1>3, <2>1 DEF RequestInv
<1>4. CASE ~ Moved /\ At("update")
  <2>1. request' = request
    BY <1>1, <1>4
  <2>2. /\ rows'[T][request.row] = rows[T][request.row]
        /\ today' = today
        /\ NoHarm(T)' = NoHarm(T)
    BY <1>4
  <2>3. EndDropsToday(rows[T][request.row], request.form)'
          <=> EndDropsToday(rows[T][request.row], request.form)
    BY <2>1, <2>2 DEF EndDropsToday
  <2>4. NoHarm(T)' <=> NoHarm(T)
    BY <2>2
  <2>5. QED
    BY <2>1, <2>2, <2>3, <2>4 DEF RequestInv
<1>5. QED
  BY <1>2, <1>3, <1>4

-----------------------------------------------------------------------------
(* Every step is a transaction or leaves the tables alone. *)

LEMMA OthersKept ==
  ASSUME TablesInv, Others
  PROVE  Kept
<1>1. UNCHANGED today
  BY DEF Others
<1>2. ASSUME NEW t \in Table, NEW i \in Row, UNCHANGED <<building, apartment>>,
             Delete(t, i)
      PROVE  Kept
  BY <1>1, <1>2, DeleteStep
<1>3. ASSUME NEW t \in Table, NEW i \in Row, UNCHANGED <<building, apartment>>,
             NEW p \in Period, Insert(t, i, p)
      PROVE  Kept
  BY <1>1, <1>3, InsertStep
<1>4. ASSUME NEW t \in Table, NEW i \in Row, UNCHANGED <<building, apartment>>,
             NEW p \in Period, Update(t, i, p)
      PROVE  Kept
  BY <1>1, <1>4, UpdateStep
<1>5. ASSUME NEW t \in Table, NEW i \in Row, UNCHANGED <<building, apartment>>,
             NEW p \in Period, NEW j \in Row, CloseAndInsert(t, j, i, p)
      PROVE  Kept
  BY <1>1, <1>5, CloseStep
<1>6. CASE CreateParent
  BY <1>1, <1>6, CreateStep
<1>7. CASE DeleteParent
  BY <1>1, <1>7, DeleteParentStep
<1>8. QED
  BY <1>2, <1>3, <1>4, <1>5, <1>6, <1>7 DEF Others, Ordinary

LEMMA CommitKept ==
  ASSUME IInv, Commit
  PROVE  Kept
<1>1. /\ TablesInv /\ T \in Table /\ request.form \in Period
      /\ UNCHANGED <<building, apartment, today>>
  BY DEF IInv, TypeOK, Request, Commit, T
<1>2. CASE \E i \in Row : Insert(T, i, request.form)
  BY <1>1, <1>2, InsertStep
<1>3. CASE At("close") /\ \E i \in Row \ {request.row} :
                              CloseAndInsert(T, request.row, i, request.form)
  BY <1>1, <1>3, CloseStep DEF IInv, RequestInv, At, Named
<1>4. CASE At("update") /\ Update(T, request.row, request.form)
  BY <1>1, <1>4, UpdateStep DEF IInv, RequestInv, At, Named
<1>5. CASE At("delete") /\ Delete(T, request.row)
  BY <1>1, <1>5, DeleteStep DEF IInv, RequestInv, At, Named
<1>6. QED
  BY <1>2, <1>3, <1>4, <1>5 DEF Commit, Write

LEMMA InitIInv == Init => IInv
<1>1. Init => TypeOK
  BY IdleRequest DEF Init, TypeOK
<1>2. Init => TablesInv
  BY NoRows DEF Init, TablesInv, Exists, GoodTable, RowsOf
<1>3. Init => RequestInv
  BY IdleRequest DEF Init, RequestInv, Named, At
<1>4. QED
  BY <1>1, <1>2, <1>3 DEF IInv

LEMMA NextKeeps == IInv /\ [Next]_vars => IInv' /\ [Tables!Next]_Tables!vars
<1> SUFFICES ASSUME IInv, [Next]_vars PROVE IInv' /\ Kept
  BY DEF Kept
<1>1. ASSUME Kept, request' \in Request, RequestInv',
             building' \in BOOLEAN, apartment' \in BOOLEAN, today' \in Day
      PROVE  IInv'
  BY <1>1 DEF IInv, TypeOK, Kept, TablesInv
<1>2. CASE Submit \/ Answer \/ FindPrevious \/ CheckGap \/ LoadRow \/ Warn \/ Reject
  <2>1. UNCHANGED <<building, apartment, rows, today>>
    BY <1>2 DEF Submit, Answer, FindPrevious, CheckGap, LoadRow, Warn, Reject, OnlyRequest
  <2>2. Kept
    BY <2>1, StillStep DEF IInv
  <2>3. QED
    BY <1>1, <1>2, <2>1, <2>2, ReadStep DEF IInv, TypeOK
<1>3. CASE Commit
  <2>1. Kept /\ Answered /\ UNCHANGED <<building, apartment, today>>
    BY <1>3, CommitKept DEF Commit
  <2>2. QED
    BY <1>1, <2>1, AnsweredKeeps DEF IInv, TypeOK
<1>4. CASE Others
  <2>1. Kept
    BY <1>4, OthersKept DEF IInv
  <2>2. NowBlind /\ building' \in BOOLEAN /\ apartment' \in BOOLEAN /\ today' \in Day
    BY <1>4 DEF Others, CreateParent, DeleteParent, IInv, TypeOK
  <2>3. QED
    BY <1>1, <2>1, <2>2, BlindStep
<1>5. CASE Midnight
  <2>1. Kept
    BY <1>5, StillStep DEF Midnight, IInv
  <2>2. NowBlind /\ UNCHANGED <<building, apartment>> /\ today' \in Day
    BY <1>5, LastDayAssumption DEF Midnight, IInv, TypeOK, Day
  <2>3. QED
    BY <1>1, <2>1, <2>2, BlindStep DEF IInv, TypeOK
<1>6. CASE UNCHANGED vars
  <2>1. Kept
    BY <1>6, StillStep DEF vars, IInv
  <2>2. RequestInv'
    BY <1>6
       DEF vars, IInv, RequestInv, At, T, NoHarm, WhollyOwned, HasDependents, Chain,
           EndDropsToday
  <2>3. QED
    BY <1>1, <1>6, <2>1, <2>2 DEF vars, IInv, TypeOK
<1>7. QED
  BY <1>2, <1>3, <1>4, <1>5, <1>6 DEF Next

\* The inductive invariant holds in every reachable state.
THEOREM Invariance == Spec => []IInv
  BY InitIInv, NextKeeps, PTL DEF Spec

-----------------------------------------------------------------------------
\* The handlers implement the transactions: their writes, by ids they have read in
\* an earlier await, are writes of Ownership.
THEOREM HandlersImplement == Spec => WritesAreTransactions
<1>1. Init => Tables!Init
  BY SameRules DEF Init, Tables!Init, Tables!Day, Day, Chain, Table
<1>2. QED
  BY <1>1, InitIInv, NextKeeps, PTL DEF Spec, WritesAreTransactions, Tables!Spec

\* The gap check in Rust and the chain triggers in SQL agree.
THEOREM TurnedDownOnlyRightly == Spec => []TurnedDownRightly
<1>1. ASSUME IInv, LeavesGap(Chain(T), request.form), Fits(Chain(T), request.form)
      PROVE  FALSE
  <2> DEFINE C == Chain(T)
             p == request.form
             ended == {o.end : o \in {q \in C : q.end < p.start}}
  <2>1. T \in Table /\ p \in Period
    BY <1>1 DEF IInv, TypeOK, Request, T
  <2>2. C \in SUBSET Period
    BY <1>1, <2>1, Rows DEF IInv, TablesInv, Chain, RowsOf
  <2>3. PICK d \in ended : (\A e \in ended : e <= d) /\ p.start # d + 1
    BY <1>1 DEF LeavesGap
  <2>4. PICK o \in C : o.end + 1 = p.start
    BY <1>1, <2>3 DEF Fits, JoinsPrevious, Before
  <2>5. o.end \in ended /\ d < p.start /\ d \in Int /\ o.end \in Int /\ p.start \in Int
    BY <2>1, <2>2, <2>3, <2>4, PeriodFields
  <2>6. QED
    BY <2>3, <2>4, <2>5
<1>2. ASSUME IInv, NEW i \in Row, CoversStart(i), Fits(Chain(T), request.form)
      PROVE  FALSE
  <2>1. T \in Table /\ request.form \in Period
    BY <1>2 DEF IInv, TypeOK, Request, T
  <2>2. rows[T][i] \in Period /\ rows[T][i] \in Chain(T)
    BY <1>2, <2>1, Rows DEF IInv, TablesInv, CoversStart, StoredIn, Chain, RowsOf
  <2>3. ~ Overlaps(request.form, rows[T][i]) /\ Ordered(request.form)
    BY <1>2, <2>2 DEF Fits, FreeOfOverlap
  <2>4. QED
    BY <1>2, <2>1, <2>2, <2>3, PeriodFields DEF CoversStart, Covers, Overlaps, Ordered
<1>3. IInv => TurnedDownRightly
  BY <1>1, <1>2 DEF TurnedDownRightly
<1>4. QED
  BY <1>3, Invariance, PTL

\* A row other than the edited one still covers today, and the edited one ends
\* early only where that does no harm.
LEMMA EditKeepsToday ==
  ASSUME TypeOK, NEW t \in Table, NEW i \in Row, NEW p \in Period, Update(t, i, p),
         UNCHANGED <<building, apartment, today>>, ~ p.start > today,
         NoHarm(t) \/ ~ EndDropsToday(rows[t][i], p), Covered
  PROVE  Covered'
<1>1. /\ rows[t][i] # None /\ rows'[t] = [rows[t] EXCEPT ![i] = p]
      /\ \A u \in Table \ {t} : rows'[u] = rows[u]
      /\ rows[t] \in [Row -> Period \cup {None}] /\ today \in Day
  BY DEF Update, TypeOK
<1>2. \A u \in Table \ {t} : Chain(u)' = Chain(u)
  BY <1>1 DEF Chain
<1>3. ASSUME CoveredOn(Chain(t), today), ~ EndDropsToday(rows[t][i], p)
      PROVE  CoveredOn(Chain(t)', today)
  <2>1. PICK k \in Row : rows[t][k] # None /\ Covers(rows[t][k], today)
    BY <1>3 DEF CoveredOn, Chain
  <2>2. CASE k # i
    BY <1>1, <2>1, <2>2 DEF CoveredOn, Chain
  <2>3. CASE k = i
    <3>1. p.end = Open \/ ~ p.end < today
      BY <1>3, <2>1, <2>3 DEF EndDropsToday
    <3>2. Covers(p, today)
      BY <1>1, <3>1, PeriodFields, LastDayAssumption DEF Covers, Day, Open
    <3>3. p \in Chain(t)'
      BY <1>1, NoneAssumption DEF Chain
    <3>4. QED
      BY <3>2, <3>3 DEF CoveredOn
  <2>4. QED
    BY <2>2, <2>3
<1>4. CASE t = "ownerships"
  <2>1. Chain("building_owners")' = Chain("building_owners")
    BY <1>2, <1>4 DEF Table
  <2>2. WhollyOwned' <=> WhollyOwned
    BY <2>1 DEF WhollyOwned
  <2>3. QED
    BY <1>3, <1>4, <2>2 DEF Covered, NoHarm
<1>5. CASE t = "building_owners"
  <2>1. Chain("ownerships")' = Chain("ownerships")
    BY <1>2, <1>5 DEF Table
  <2>2. CASE CoveredOn(Chain("ownerships"), today)
    BY <2>1, <2>2 DEF Covered
  <2>3. CASE ~ CoveredOn(Chain("ownerships"), today)
    <3>1. ~ NoHarm(t) /\ WhollyOwned
      BY <1>5, <2>3 DEF Covered, NoHarm, HasDependents
    <3>2. QED
      BY <1>3, <1>5, <3>1 DEF Covered, WhollyOwned
  <2>4. QED
    BY <2>2, <2>3
<1>6. QED
  BY <1>4, <1>5 DEF Table

\* An unconfirmed edit ends the coverage of today only by moving the start of the
\* period, or when something has changed since the handler looked.
THEOREM AsksBeforeEndingToday == Spec => AskedBeforeEndingToday
<1>1. IInv /\ [Next]_vars =>
        [At("update") /\ Commit /\ Covered /\ ~ Covered'
           => \/ request.answer = "yes"
              \/ request.form.start > today
              \/ request.blind]_vars
  <2> SUFFICES ASSUME IInv, At("update"), Commit, Covered,
                      request.answer # "yes", ~ request.form.start > today, ~ request.blind
               PROVE  Covered'
    OBVIOUS
  <2>1. PICK t \in Table, i \in Row, p \in Period :
          t = T /\ i = request.row /\ p = request.form
    BY DEF At, IInv, RequestInv, Named, TypeOK, Request, T
  <2>2. Update(t, i, p) /\ UNCHANGED <<building, apartment, today>>
    BY <2>1 DEF Commit, Write, At
  <2>3. rows[t][i] # None /\ ~ p.start > today
    BY <2>1, <2>2 DEF Update
  <2>4. NoHarm(t) \/ ~ EndDropsToday(rows[t][i], p)
    BY <2>1, <2>3 DEF IInv, RequestInv
  <2>5. QED
    BY <2>2, <2>3, <2>4, EditKeepsToday DEF IInv, TypeOK
<1>2. QED
  BY <1>1, Invariance, PTL DEF Spec, AskedBeforeEndingToday
=============================================================================
