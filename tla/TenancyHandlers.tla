----------------------------- MODULE TenancyHandlers -----------------------------
(***************************************************************************)
(* The handlers of src/web/admin.rs for the tenancies of one apartment,    *)
(* await by await, while other sessions commit anything in between         *)
(* (Others).  Rows have ids; Tenancy is what the handlers implement.       *)
(***************************************************************************)
EXTENDS PeriodChain

CONSTANTS Row,    \* the ids a tenancy may get
          None    \* no row

ASSUME NoneAssumption == None \notin Row /\ None \notin Period

VARIABLES apartment,  \* the apartment's row exists
          rows,       \* tenancies
          request     \* the request that is followed

vars == <<apartment, rows, request>>

Request ==
  [at     : {"idle", "create", "insert", "ask", "close",
             "edit", "update", "delete", "remove"},
   form   : Period,
   answer : {"-", "yes", "no"},    \* close_previous
   row    : Row \cup {None},       \* the row it names or has found
   seen   : Period \cup {None}]    \* that row, as it was found

TypeOK ==
  /\ apartment \in BOOLEAN
  /\ rows \in [Row -> Period \cup {None}]
  /\ request \in Request

Idle == [at |-> "idle", form |-> [start |-> 1, end |-> 1], answer |-> "-",
         row |-> None, seen |-> None]

Chain == {rows[i] : i \in Row} \ {None}

\* A form with its dates out of order is rejected whatever the table holds.
Ordinary == {p \in Period : Ordered(p)}

Init ==
  /\ apartment = FALSE
  /\ rows = [i \in Row |-> None]
  /\ request = Idle

-----------------------------------------------------------------------------
(* The transactions, by id *)

MayStand(C, p) == Ordered(p) /\ FreeOfOverlap(C, p)

Insert(i, p) ==
  /\ apartment
  /\ rows[i] = None
  /\ MayStand(Chain, p)
  /\ rows' = [rows EXCEPT ![i] = p]

\* A row that is gone is not updated, and the INSERT goes ahead.
CloseAndInsert(j, i, p) ==
  IF rows[j] = None
    THEN Insert(i, p)
    ELSE /\ apartment
         /\ rows[i] = None
         /\ MayStand(Chain \ {rows[j]}, Closed(rows[j], p))
         /\ MayStand(Updated(Chain, rows[j], Closed(rows[j], p)), p)
         /\ rows' = [rows EXCEPT ![j] = Closed(@, p), ![i] = p]

\* Mutant: without tenancies_no_overlap_update.
UpdateAnywhere(i, p) ==
  /\ rows[i] # None
  /\ Ordered(p)
  /\ rows' = [rows EXCEPT ![i] = p]

Update(i, p) ==
  /\ rows[i] # None
  /\ MayStand(Chain \ {rows[i]}, p)
  /\ rows' = [rows EXCEPT ![i] = p]

Delete(i) == rows[i] # None /\ rows' = [rows EXCEPT ![i] = None]

-----------------------------------------------------------------------------
(* The request *)

At(s) == request.at = s

OnlyRequest == UNCHANGED <<apartment, rows>>

Answered == request' = Idle

Submit ==
  /\ At("idle")
  /\ \/ \E p \in Ordinary :
          \/ request' = [Idle EXCEPT !.at = "create", !.form = p]
          \/ \E i \in Row : request' = [Idle EXCEPT !.at = "edit", !.form = p, !.row = i]
     \/ \E i \in Row : request' = [Idle EXCEPT !.at = "delete", !.row = i]
  /\ OnlyRequest

\* The page that asks is answered or left.
Answer ==
  /\ At("ask")
  /\ \/ \E yes \in {"yes", "no"} :
          request' = [request EXCEPT !.at = "create", !.answer = yes]
     \/ Answered
  /\ OnlyRequest

\* Mutant: without `end_date >= ?'.
StartsBefore(i) == rows[i] # None /\ rows[i].start <= request.form.start

\* get_tenancy_on(start)
CoversStart(i) == rows[i] # None /\ Covers(rows[i], request.form.start)

\* tenancies_create up to its write; an error of the read counts as no row.
FindPrevious ==
  /\ At("create")
  /\ \/ ~ apartment /\ Answered
     \/ /\ apartment
        /\ \E i \in Row :
             /\ CoversStart(i)
             /\ CASE request.answer = "-" -> request' = [request EXCEPT !.at = "ask"]
                  [] request.answer = "yes" ->
                       request' = [request EXCEPT !.at = "close", !.row = i,
                                                  !.seen = rows[i]]
                  [] OTHER -> Answered
     \/ apartment /\ request' = [request EXCEPT !.at = "insert"]
  /\ OnlyRequest

\* tenancies_update, tenancies_delete: 404 unless the row is there.
LoadRow ==
  /\ At("edit") \/ At("delete")
  /\ IF rows[request.row] = None
       THEN Answered
       ELSE request' = [request EXCEPT !.at = IF At("edit") THEN "update" ELSE "remove",
                                       !.seen = rows[request.row]]
  /\ OnlyRequest

Write ==
  \/ At("insert") /\ \E i \in Row : Insert(i, request.form)
  \/ At("close") /\ \E i \in Row \ {request.row} :
                      CloseAndInsert(request.row, i, request.form)
  \/ At("update") /\ Update(request.row, request.form)
  \/ At("remove") /\ Delete(request.row)

Commit == Write /\ Answered /\ UNCHANGED apartment

\* The database rejects it or fails; or the row is gone.
Reject == request.at \in {"insert", "close", "update", "remove"} /\ Answered /\ OnlyRequest

-----------------------------------------------------------------------------
Others ==
  /\ \/ /\ \E i \in Row :
             \/ Delete(i)
             \/ \E p \in Ordinary :
                  \/ Insert(i, p)
                  \/ Update(i, p)
                  \/ \E j \in {k \in Row \ {i} : rows[k] # None} : CloseAndInsert(j, i, p)
        /\ UNCHANGED apartment
     \/ ~ apartment /\ apartment' = TRUE /\ UNCHANGED rows
     \/ apartment /\ apartment' = FALSE /\ rows' = [i \in Row |-> None]
  /\ UNCHANGED request

Next == Submit \/ Answer \/ FindPrevious \/ LoadRow \/ Commit \/ Reject \/ Others

Spec == Init /\ [][Next]_vars

-----------------------------------------------------------------------------
(* Properties *)

\* Row by row and by ids read earlier, the handlers write what Tenancy's
\* transactions write.
Table ==
  INSTANCE Tenancy WITH
    Apartment <- {"apartment"},
    apartments <- IF apartment THEN {"apartment"} ELSE {},
    tenancies <- [a \in {"apartment"} |-> Chain]

WritesAreTransactions == Table!Spec

\* get_tenancy_on looks for `the' tenancy of a day: however the requests of several
\* sessions interleave, no two rows cover the same day.
AtMostOneTenantPerDay ==
  \A i, j \in Row, d \in Day :
    /\ rows[i] # None /\ Covers(rows[i], d)
    /\ rows[j] # None /\ Covers(rows[j], d)
    => i = j

\* A form that tenancies_create itself turns down ("no" to the question) is one
\* the database would have rejected; and the question is asked of no other form.
TurnedDownRightly ==
  At("create") /\ (\E i \in Row : CoversStart(i)) => ~ MayStand(Chain, request.form)

\* The period between the old end and the day before the new start is given to
\* the previous tenant only by a race: the row was edited after it was read.
ExtendsOnlyIfEdited ==
  [][At("close") /\ Commit /\ rows[request.row] # None
       => \/ rows'[request.row].end <= rows[request.row].end
          \/ rows[request.row] # request.seen]_vars

-----------------------------------------------------------------------------
(* A statement of the repository that the code does not keep. *)

\* create_tenancy_closing_previous: the previous tenant's "open period shall end
\* the day before the new tenancy starts": a closing create ends a tenancy
\* earlier, never later.
ClosingShortens ==
  [][At("close") /\ Commit =>
       (rows[request.row] # None => rows'[request.row].end <= rows[request.row].end)]_vars
=============================================================================
