------------------------- MODULE TenancyHandlersTheorems -------------------------
(***************************************************************************)
(* The handlers of the tenancies implement the transactions of Tenancy,    *)
(* for every calendar and every set of row ids.  The argument: the rows of *)
(* the table never overlap, so the dates of a row identify it and what is  *)
(* written to a row by its id is what Tenancy writes to the set of rows.   *)
(***************************************************************************)
EXTENDS TenancyHandlers, PeriodChainTheorems

Stored == {i \in Row : rows[i] # None}

\* The table: one tenancy a day, none without the apartment.
TableInv ==
  /\ rows \in [Row -> Period \cup {None}]
  /\ ~ apartment => Stored = {}
  /\ \A i \in Stored : Ordered(rows[i])
  /\ \A i, j \in Stored : i # j => ~ Overlaps(rows[i], rows[j])

Named == {"edit", "delete", "close", "update", "remove"}

\* What a request names is an id; what it will close covered its start when read.
RequestInv ==
  /\ request.at \in Named => request.row \in Row
  /\ At("close") => Covers(request.seen, request.form.start)

IInv ==
  /\ TypeOK
  /\ TableInv
  /\ RequestInv

LEMMA Rows ==
  ASSUME TableInv
  PROVE  /\ \A i \in Stored : rows[i] \in Period /\ rows[i] \in Chain
         /\ \A p \in Chain : \E i \in Stored : rows[i] = p
         /\ \A i, j \in Stored : i # j => rows[i] # rows[j]
  BY PeriodFields DEF TableInv, Stored, Chain, Ordered, Overlaps

\* The operators of PeriodChain that Tenancy brings along are the same.
LEMMA SameRules ==
  /\ \A C, p : Table!MayStand(C, p) <=> MayStand(C, p)
  /\ \A C, old, new : Table!Updated(C, old, new) = Updated(C, old, new)
  /\ \A q, p : Table!Closed(q, p) = Closed(q, p)
  BY DEF Table!MayStand, Table!Ordered, Table!FreeOfOverlap, Table!Overlaps,
         Table!Updated, Table!Closed, MayStand, Ordered, FreeOfOverlap, Overlaps,
         Updated, Closed

-----------------------------------------------------------------------------
(* One transaction on the rows is one on the set of them. *)

LEMMA InsertStep ==
  ASSUME TableInv, NEW i \in Row, NEW p \in Period, Insert(i, p), UNCHANGED apartment
  PROVE  TableInv' /\ Table!create_tenancy("apartment", p)
<1>1. p # None /\ rows[i] = None /\ apartment /\ MayStand(Chain, p)
  BY NoneAssumption DEF Insert
<1>2. rows' = [rows EXCEPT ![i] = p] /\ rows' \in [Row -> Period \cup {None}]
  BY DEF Insert, TableInv
<1>3. Stored' = Stored \cup {i}
  BY <1>1, <1>2 DEF Stored, TableInv
<1>4. Chain' = Chain \cup {p}
  BY <1>1, <1>2 DEF Chain, TableInv
<1>5. TableInv'
  BY <1>1, <1>2, <1>3, Rows DEF TableInv, MayStand, FreeOfOverlap, Overlaps, Stored
<1>6. Table!create_tenancy("apartment", p)
  BY <1>1, <1>4, SameRules DEF Table!create_tenancy
<1>7. QED
  BY <1>5, <1>6

LEMMA UpdateStep ==
  ASSUME TableInv, NEW i \in Row, NEW p \in Period, Update(i, p), UNCHANGED apartment
  PROVE  /\ TableInv'
         /\ rows[i] \in Chain
         /\ Table!update_tenancy("apartment", rows[i], p)
<1>1. p # None /\ i \in Stored /\ apartment /\ MayStand(Chain \ {rows[i]}, p)
  BY NoneAssumption DEF Update, Stored, TableInv
<1>2. rows' = [rows EXCEPT ![i] = p] /\ rows' \in [Row -> Period \cup {None}]
  BY DEF Update, TableInv
<1>3. Stored' = Stored
  BY <1>1, <1>2 DEF Stored, TableInv
<1>4. Chain' = Updated(Chain, rows[i], p)
  BY <1>1, <1>2, Rows DEF Chain, TableInv, Updated, Stored
<1>5. \A j \in Stored \ {i} : rows[j] \in Chain \ {rows[i]}
  BY <1>1, Rows
<1>6. TableInv'
  BY <1>1, <1>2, <1>3, <1>5 DEF TableInv, MayStand, FreeOfOverlap, Overlaps, Stored
<1>7. rows[i] \in Chain
  BY <1>1, Rows
<1>8. Table!update_tenancy("apartment", rows[i], p)
  BY <1>1, <1>4, <1>7, SameRules DEF Table!update_tenancy, Table!MoveFits
<1>9. QED
  BY <1>6, <1>7, <1>8

LEMMA CloseStep ==
  ASSUME TableInv, NEW i \in Row, NEW j \in Row \ {i}, NEW p \in Period, rows[j] # None,
         CloseAndInsert(j, i, p), UNCHANGED apartment
  PROVE  /\ TableInv'
         /\ rows[j] \in Chain
         /\ Table!create_tenancy_closing_previous("apartment", rows[j], p)
<1> DEFINE q == Closed(rows[j], p)
<1>1. /\ apartment /\ rows[i] = None
      /\ MayStand(Chain \ {rows[j]}, q)
      /\ MayStand(Updated(Chain, rows[j], q), p)
      /\ rows' = [rows EXCEPT ![j] = q, ![i] = p]
  BY DEF CloseAndInsert
<1>2. j \in Stored /\ rows[j] \in Period /\ rows[j] \in Chain
  BY Rows DEF Stored
<1>3. q \in Period
  BY <1>1, <1>2, ClosedPeriod DEF MayStand
<1>4. p # None /\ q # None
  BY <1>3, NoneAssumption
<1>5. rows \in [Row -> Period \cup {None}]
  BY DEF TableInv
<1>6. /\ rows'[j] = q /\ rows'[i] = p
      /\ \A k \in Row \ {i, j} : rows'[k] = rows[k]
      /\ rows' \in [Row -> Period \cup {None}]
  <2> HIDE DEF q
  <2>1. QED
    BY <1>1, <1>3, <1>5
<1> HIDE DEF q
<1>7. Stored' = Stored \cup {i}
  BY <1>2, <1>4, <1>6 DEF Stored
<1>8. Chain' = Updated(Chain, rows[j], q) \cup {p}
  <2>1. Chain \ {rows[j]} = {rows[k] : k \in Stored \ {j}}
    BY <1>2, Rows DEF Chain, Stored
  <2>2. Chain' = {rows'[k] : k \in Stored'}
    BY DEF Chain, Stored
  <2>3. Chain' = {rows[k] : k \in Stored \ {j}} \cup {q, p}
    BY <1>1, <1>2, <1>6, <1>7, <2>2 DEF Stored
  <2>4. QED
    BY <2>1, <2>3 DEF Updated
<1>9. TableInv'
  <2>1. \A k \in Stored \ {j} : rows[k] \in Chain \ {rows[j]}
    BY <1>2, Rows
  <2>2. \A k \in Stored \ {j} : ~ Overlaps(q, rows[k]) /\ ~ Overlaps(p, rows[k])
    BY <1>1, <2>1 DEF MayStand, FreeOfOverlap, Updated
  <2>3. ~ Overlaps(p, q)
    BY <1>1 DEF MayStand, FreeOfOverlap, Updated
  <2>4. \A k \in Stored \ {j} : ~ Overlaps(rows[k], q) /\ ~ Overlaps(rows[k], p)
    BY <2>2 DEF Overlaps
  <2>5. ~ Overlaps(q, p)
    BY <2>3 DEF Overlaps
  <2>6. \A k \in Stored' : k = i \/ k = j \/ (k \in Stored \ {i, j} /\ rows'[k] = rows[k])
    BY <1>6, <1>7 DEF Stored
  <2>7. \A k \in Stored' : Ordered(rows'[k])
    BY <1>1, <1>6, <2>6 DEF TableInv, MayStand
  <2>8. \A k, l \in Stored' : k # l => ~ Overlaps(rows'[k], rows'[l])
    BY <1>6, <2>2, <2>3, <2>4, <2>5, <2>6 DEF TableInv
  <2>9. QED
    BY <1>1, <1>6, <2>7, <2>8 DEF TableInv
<1>10. Table!create_tenancy_closing_previous("apartment", rows[j], p)
  BY <1>1, <1>2, <1>8, SameRules
     DEF Table!create_tenancy_closing_previous, Table!ClosingFits, Table!MoveFits,
         Table!ClosingPrevious, q
<1>11. QED
  BY <1>2, <1>9, <1>10

LEMMA DeleteStep ==
  ASSUME TableInv, NEW i \in Row, Delete(i), UNCHANGED apartment
  PROVE  /\ TableInv'
         /\ rows[i] \in Chain
         /\ Table!delete_tenancy("apartment", rows[i])
<1>1. i \in Stored /\ apartment /\ rows' = [rows EXCEPT ![i] = None]
  BY DEF Delete, Stored, TableInv
<1>2. Stored' = Stored \ {i}
  BY <1>1 DEF Stored, TableInv
<1>3. Chain' = Chain \ {rows[i]}
  BY <1>1, Rows DEF Chain, Stored, TableInv
<1>4. TableInv'
  BY <1>1, <1>2 DEF TableInv
<1>5. rows[i] \in Chain
  BY <1>1, Rows
<1>6. Table!delete_tenancy("apartment", rows[i])
  BY <1>1, <1>3, <1>5 DEF Table!delete_tenancy
<1>7. QED
  BY <1>4, <1>5, <1>6

-----------------------------------------------------------------------------
(* Every step is a transaction or leaves the table alone. *)

\* In Tenancy's Next, for the one apartment there is.
LEMMA Transactions ==
  /\ \A p \in Period : Table!create_tenancy("apartment", p) => Table!Next
  /\ \A p \in Period, q \in Chain :
       \/ Table!create_tenancy_closing_previous("apartment", q, p)
       \/ Table!update_tenancy("apartment", q, p)
       => Table!Next
  /\ \A q \in Chain : Table!delete_tenancy("apartment", q) => Table!Next
<1>1. Table!Period = Period
  BY DEF Table!Period, Period, Table!Day, Day, Table!Open, Open
<1>2. "apartment" \in {"apartment"} /\ [a \in {"apartment"} |-> Chain]["apartment"] = Chain
  OBVIOUS
<1>3. QED
  BY <1>1, <1>2 DEF Table!Next

Kept == TableInv' /\ [Table!Next]_Table!vars

LEMMA CloseKept ==
  ASSUME TableInv, NEW i \in Row, NEW j \in Row \ {i}, NEW p \in Period,
         CloseAndInsert(j, i, p), UNCHANGED apartment
  PROVE  Kept
<1>1. CASE rows[j] = None
  <2>1. Insert(i, p)
    BY <1>1 DEF CloseAndInsert
  <2>2. QED
    BY <2>1, InsertStep, Transactions DEF Kept
<1>2. CASE rows[j] # None
  BY <1>2, CloseStep, Transactions DEF Kept
<1>3. QED
  BY <1>1, <1>2

LEMMA UnchangedKept ==
  ASSUME TableInv, UNCHANGED <<apartment, rows>>
  PROVE  Kept
<1>1. Chain' = Chain
  BY DEF Chain
<1>2. TableInv'
  BY DEF TableInv, Stored
<1>3. QED
  BY <1>1, <1>2 DEF Kept, Table!vars

LEMMA OthersKept ==
  ASSUME TableInv, Others
  PROVE  Kept
<1>1. ASSUME NEW i \in Row, Delete(i), UNCHANGED apartment PROVE Kept
  BY <1>1, DeleteStep, Transactions DEF Kept
<1>2. ASSUME NEW i \in Row, NEW p \in Period, Insert(i, p), UNCHANGED apartment
      PROVE  Kept
  BY <1>2, InsertStep, Transactions DEF Kept
<1>3. ASSUME NEW i \in Row, NEW p \in Period, Update(i, p), UNCHANGED apartment
      PROVE  Kept
  BY <1>3, UpdateStep, Transactions DEF Kept
<1>4. ASSUME NEW i \in Row, NEW j \in Row \ {i}, NEW p \in Period,
             CloseAndInsert(j, i, p), UNCHANGED apartment
      PROVE  Kept
  BY <1>4, CloseKept
<1>5. CASE ~ apartment /\ apartment' = TRUE /\ UNCHANGED rows
  <2>1. Chain' = Chain /\ TableInv'
    BY <1>5 DEF Chain, TableInv, Stored
  <2>2. Table!create_apartment("apartment")
    BY <1>5, <2>1 DEF Table!create_apartment
  <2>3. QED
    BY <2>1, <2>2 DEF Kept, Table!Next
<1>6. CASE apartment /\ apartment' = FALSE /\ rows' = [i \in Row |-> None]
  <2>1. Chain' = {}
    BY <1>6 DEF Chain
  <2>2. TableInv'
    BY <1>6 DEF TableInv, Stored
  <2>3. Table!DeleteApartments({"apartment"})
    BY <1>6, <2>1 DEF Table!DeleteApartments
  <2>4. Table!Next
    BY <1>6, <2>3 DEF Table!Next
  <2>5. QED
    BY <2>2, <2>4 DEF Kept
<1>7. QED
  BY <1>1, <1>2, <1>3, <1>4, <1>5, <1>6 DEF Others, Ordinary

LEMMA CommitKept ==
  ASSUME IInv, Commit
  PROVE  Kept
<1>1. TableInv /\ request.form \in Period /\ UNCHANGED apartment
  BY DEF IInv, TypeOK, Request, Commit
<1>2. CASE \E i \in Row : Insert(i, request.form)
  BY <1>1, <1>2, InsertStep, Transactions DEF Kept
<1>3. CASE At("close") /\ \E i \in Row \ {request.row} :
                              CloseAndInsert(request.row, i, request.form)
  BY <1>1, <1>3, CloseKept DEF IInv, RequestInv, At, Named
<1>4. CASE At("update") /\ Update(request.row, request.form)
  BY <1>1, <1>4, UpdateStep, Transactions
     DEF IInv, RequestInv, At, Named, Kept
<1>5. CASE At("remove") /\ Delete(request.row)
  BY <1>1, <1>5, DeleteStep, Transactions
     DEF IInv, RequestInv, At, Named, Kept
<1>6. QED
  BY <1>2, <1>3, <1>4, <1>5 DEF Commit, Write

LEMMA IdleRequest == Idle \in Request /\ Idle.at = "idle"
<1>1. 1 \in Day
  BY LastDayAssumption DEF Day
<1>2. [start |-> 1, end |-> 1] \in Period
  BY <1>1 DEF Period
<1>3. QED
  BY <1>2 DEF Idle, Request

LEMMA RequestStep ==
  ASSUME IInv, Submit \/ Answer \/ FindPrevious \/ LoadRow \/ Reject \/ Answered
  PROVE  request' \in Request /\ RequestInv'
<1> USE DEF IInv, TypeOK, RequestInv, Named, At, Request
<1>1. Idle \in Request /\ Idle.at = "idle"
  BY IdleRequest
<1>2. CASE Answered
  BY <1>1, <1>2 DEF Answered
<1>3. CASE Submit
  BY <1>1, <1>3 DEF Submit, Ordinary
<1>4. CASE Answer
  BY <1>2, <1>4 DEF Answer
<1>5. CASE FindPrevious
  BY <1>2, <1>5 DEF FindPrevious, CoversStart
<1>6. CASE LoadRow
  BY <1>2, <1>6 DEF LoadRow
<1>7. CASE Reject
  BY <1>2, <1>7 DEF Reject
<1>8. QED
  BY <1>2, <1>3, <1>4, <1>5, <1>6, <1>7

LEMMA InitIInv == Init => IInv
  BY IdleRequest DEF Init, IInv, RequestInv, At, TypeOK, TableInv, Stored, Named

LEMMA Step == IInv /\ [Next]_vars => IInv' /\ [Table!Next]_Table!vars
<1> SUFFICES ASSUME IInv, [Next]_vars PROVE IInv' /\ Kept
  BY DEF Kept
<1>1. CASE Submit \/ Answer \/ FindPrevious \/ LoadRow \/ Reject
  <2>1. UNCHANGED <<apartment, rows>>
    BY <1>1 DEF Submit, Answer, FindPrevious, LoadRow, Reject, OnlyRequest
  <2>2. Kept
    BY <2>1, UnchangedKept DEF IInv
  <2>3. QED
    BY <1>1, <2>1, <2>2, RequestStep DEF IInv, TypeOK, Kept
<1>2. CASE Commit
  <2>1. Kept
    BY <1>2, CommitKept
  <2>2. Answered /\ UNCHANGED apartment
    BY <1>2 DEF Commit
  <2>3. QED
    BY <2>1, <2>2, RequestStep DEF IInv, TypeOK, Kept, TableInv
<1>3. CASE Others
  <2>1. Kept
    BY <1>3, OthersKept DEF IInv
  <2>2. UNCHANGED request /\ apartment' \in BOOLEAN
    BY <1>3 DEF Others, IInv, TypeOK
  <2>3. QED
    BY <2>1, <2>2 DEF IInv, RequestInv, At, TypeOK, Kept, TableInv
<1>4. CASE UNCHANGED vars
  <2>1. Kept
    BY <1>4, UnchangedKept DEF vars, IInv
  <2>2. QED
    BY <1>4, <2>1 DEF vars, IInv, RequestInv, At, TypeOK, Kept, TableInv
<1>5. QED
  BY <1>1, <1>2, <1>3, <1>4 DEF Next

\* The inductive invariant holds in every reachable state: the rows of the table
\* are ordered and disjoint, and a request that names a row names an id.
THEOREM Invariance == Spec => []IInv
  BY InitIInv, Step, PTL DEF Spec

-----------------------------------------------------------------------------
\* However the requests of several sessions interleave, no two rows of an
\* apartment cover the same day.
THEOREM OneRowPerDay == Spec => []AtMostOneTenantPerDay
<1>1. IInv => AtMostOneTenantPerDay
  BY PeriodFields
     DEF IInv, TableInv, Stored, AtMostOneTenantPerDay, Overlaps, Covers, Day
<1>2. QED
  BY <1>1, Invariance, PTL

\* The handlers implement the transactions: their writes, by ids they have read in
\* an earlier await, are writes of Tenancy.
THEOREM HandlersImplement == Spec => WritesAreTransactions
<1>1. Init => Table!Init
  BY DEF Init, Table!Init, Chain
<1>2. QED
  BY <1>1, InitIInv, Step, PTL DEF Spec, WritesAreTransactions, Table!Spec

\* tenancies_create turns a form down only if the database would have rejected it.
THEOREM TurnedDownOnlyRightly == Spec => []TurnedDownRightly
<1>1. IInv => TurnedDownRightly
  <2> SUFFICES ASSUME IInv, NEW i \in Row, CoversStart(i), MayStand(Chain, request.form)
               PROVE  FALSE
    BY DEF TurnedDownRightly
  <2>1. i \in Stored /\ TableInv
    BY DEF CoversStart, Stored, IInv
  <2>2. rows[i] \in Period /\ rows[i] \in Chain /\ request.form \in Period
    BY <2>1, Rows DEF IInv, TypeOK, Request
  <2>3. ~ Overlaps(request.form, rows[i]) /\ Ordered(request.form)
    BY <2>2 DEF MayStand, FreeOfOverlap
  <2>4. QED
    BY <2>2, <2>3, PeriodFields DEF CoversStart, Covers, Overlaps, Ordered
<1>2. QED
  BY <1>1, Invariance, PTL

\* A closing create extends the previous tenancy only if its row was edited after
\* the handler read it.
THEOREM ExtensionIsARace == Spec => ExtendsOnlyIfEdited
<1>1. IInv /\ [Next]_vars =>
        [At("close") /\ Commit /\ rows[request.row] # None
           => \/ rows'[request.row].end <= rows[request.row].end
              \/ rows[request.row] # request.seen]_vars
  <2> SUFFICES ASSUME IInv, At("close"), Commit, rows[request.row] # None,
                      rows[request.row] = request.seen
               PROVE  rows'[request.row].end <= rows[request.row].end
    OBVIOUS
  <2> DEFINE j == request.row
             p == request.form
  <2>1. PICK i \in Row \ {j} : CloseAndInsert(j, i, p)
    BY DEF Commit, Write, At
  <2>2. j \in Row /\ rows[j] \in Period /\ p \in Period /\ Covers(rows[j], p.start)
    BY DEF IInv, RequestInv, TypeOK, Request, At, Named
  <2>3. rows'[j] = Closed(rows[j], p)
    BY <2>1, <2>2 DEF CloseAndInsert, IInv, TypeOK
  <2>4. rows'[j].end = p.start - 1
    BY <2>2, <2>3 DEF Closed, Period
  <2>5. QED
    BY <2>2, <2>4, PeriodFields DEF Covers
<1>2. QED
  BY <1>1, Invariance, PTL DEF Spec, ExtendsOnlyIfEdited
=============================================================================
