----------------------------- MODULE PeriodHandlers -----------------------------
(***************************************************************************)
(* The web handlers of src/web/admin.rs that create, edit and delete the   *)
(* periods of one apartment (ownerships) and of its building (building     *)
(* owners).  A handler reads in one or more awaits and writes in another,  *)
(* while other sessions commit whatever they like in between;              *)
(* it asks before it closes a period or ends today's coverage, and the     *)
(* answer comes back in a new request that reads everything again.         *)
(*                                                                         *)
(* One request is followed await by await; all other sessions are Others,  *)
(* which commits any transaction.  Rows have ids here: Ownership, whose    *)
(* chains are sets of periods, is implemented by this module.              *)
(***************************************************************************)
EXTENDS PeriodChain

CONSTANTS Row,    \* the ids a row of either table may get
          None    \* no row

Table == {"ownerships", "building_owners"}

ASSUME NoneAssumption == None \notin Row /\ None \notin Period

VARIABLES building,   \* the building's row exists
          apartment,  \* the apartment's row exists
          rows,       \* the two tables of periods
          today,      \* Local::now() and date('now', 'localtime')
          request     \* the request that is followed

vars == <<building, apartment, rows, today, request>>

Step == {"create", "gap", "insert", "close",   \* building_/ownerships_create
         "edit", "warn", "update",             \* building_/ownerships_update
         "delete"}

\* The pages that ask, and no request at all.
Page == {"idle", "askClose", "askEnd"}

Request ==
  [at     : Step \cup Page,
   table  : Table,
   form   : Period,               \* the dates in the form
   answer : {"-", "yes", "no"},   \* close_previous, confirm_end
   row    : Row \cup {None},      \* the row it names or has found
   shown  : Row \cup {None},      \* the row a question was about
   blind  : BOOLEAN]              \* what it has read is not so

TypeOK ==
  /\ building \in BOOLEAN
  /\ apartment \in BOOLEAN
  /\ rows \in [Table -> [Row -> Period \cup {None}]]
  /\ today \in Day
  /\ request \in Request

\* No request; the other fields say nothing.
Idle == [at |-> "idle", table |-> "ownerships", form |-> [start |-> 1, end |-> 1],
         answer |-> "-", row |-> None, shown |-> None, blind |-> FALSE]

Chain(t) == {rows[t][i] : i \in Row} \ {None}

Exists(t) == IF t = "ownerships" THEN apartment ELSE building

WhollyOwned == CoveredOn(Chain("building_owners"), today)

\* The apartment has an owner today.
Covered == apartment /\ (CoveredOn(Chain("ownerships"), today) \/ WhollyOwned)

\* A form whose dates are out of order comes to nothing whatever the tables hold
\* (the *_date_order triggers); it is left out.
Ordinary == {p \in Period : Ordered(p)}

\* building_has_apartments_depending_on_building_owner
HasDependents == apartment /\ ~ CoveredOn(Chain("ownerships"), today)

Init ==
  /\ building = FALSE
  /\ apartment = FALSE
  /\ rows = [t \in Table |-> [i \in Row |-> None]]
  /\ today \in Day
  /\ request = Idle

-----------------------------------------------------------------------------
(* The transactions, by id. *)

\* Mutant: the triggers of 0010 are missing.
MayInsertAnywhere(t) == Exists(t)

MayInsert(t) ==
  /\ Exists(t)
  /\ IF t = "ownerships" THEN ~ WhollyOwned ELSE Chain("ownerships") = {}

Insert(t, i, p) ==
  /\ rows[t][i] = None
  /\ MayInsert(t)
  /\ Fits(Chain(t), p)
  /\ rows' = [rows EXCEPT ![t][i] = p]

\* UPDATE ... WHERE id = j, then the INSERT; a row that is gone matches nothing.
CloseAndInsert(t, j, i, p) ==
  \/ /\ rows[t][j] = None
     /\ Insert(t, i, p)
  \/ /\ rows[t][j] # None
     /\ rows[t][i] = None
     /\ MayInsert(t)
     /\ ClosingPreviousFits(Chain(t), rows[t][j], p)
     /\ rows' = [rows EXCEPT ![t][j] = Closed(@, p), ![t][i] = p]

\* A row that is gone: the join rows have no period and the COMMIT fails.
Update(t, i, p) ==
  /\ rows[t][i] # None
  /\ UpdateFits(Chain(t), rows[t][i], p)
  /\ rows' = [rows EXCEPT ![t][i] = p]

Deletable(t, p) ==
  LET needed == IF t = "ownerships" THEN ~ WhollyOwned ELSE HasDependents
  IN /\ ~ InTheMiddle(Chain(t), p)
     /\ needed => Chain(t) # {p} /\ ~ Covers(p, today)

Delete(t, i) ==
  /\ rows[t][i] # None
  /\ Deletable(t, rows[t][i])
  /\ rows' = [rows EXCEPT ![t][i] = None]

\* Buildings and apartments, created with or without a first period.
CreateParent ==
  \/ /\ ~ building
     /\ building' = TRUE
     /\ UNCHANGED apartment
     /\ \/ UNCHANGED rows
        \/ \E i \in Row, p \in Ordinary :
             rows' = [rows EXCEPT !["building_owners"][i] = p]
  \/ /\ building /\ ~ apartment
     /\ apartment' = TRUE
     /\ UNCHANGED building
     /\ \/ WhollyOwned /\ UNCHANGED rows
        \/ /\ ~ WhollyOwned
           /\ \E i \in Row, p \in Ordinary :
                rows' = [rows EXCEPT !["ownerships"][i] = p]

DeleteParent ==
  \/ /\ apartment
     /\ apartment' = FALSE
     /\ rows' = [rows EXCEPT !["ownerships"] = [i \in Row |-> None]]
     /\ UNCHANGED building
  \/ /\ building
     /\ building' = FALSE
     /\ apartment' = FALSE
     /\ rows' = [t \in Table |-> [i \in Row |-> None]]

-----------------------------------------------------------------------------
(* The request *)

At(s) == request.at = s

T == request.table

OnlyRequest == UNCHANGED <<building, apartment, rows, today>>

GoTo(s) == request' = [request EXCEPT !.at = s]

\* A page without a question: the redirect, an error, 404.
Answered == request' = Idle

\* The browser posts a form.
Submit ==
  /\ At("idle")
  /\ \E t \in Table, p \in Ordinary, i \in Row :
       \/ request' = [Idle EXCEPT !.at = "create", !.table = t, !.form = p]
       \/ request' = [Idle EXCEPT !.at = "edit", !.table = t, !.form = p, !.row = i]
       \/ request' = [Idle EXCEPT !.at = "delete", !.table = t, !.row = i]
  /\ OnlyRequest

\* The user answers the question, or leaves it.
Answer ==
  /\ request.at \in {"askClose", "askEnd"}
  /\ \/ \E yes \in {"yes", "no"} :
          request' = [request EXCEPT !.at = IF At("askEnd") THEN "edit" ELSE "create",
                                     !.answer = yes]
     \/ Answered
  /\ OnlyRequest

\* get_ownership_on(start), get_building_owner_on(start); an error of the read
\* is taken for `no such row'.
CoversStart(i) == rows[T][i] # None /\ Covers(rows[T][i], request.form.start)

FindPrevious ==
  /\ At("create")
  /\ \/ ~ Exists(T) /\ Answered
     \/ /\ Exists(T)
        /\ \E i \in Row :
             /\ CoversStart(i)
             /\ CASE request.answer = "-" ->
                       request' = [request EXCEPT !.at = "askClose", !.shown = i]
                  [] request.answer = "yes" ->
                       request' = [request EXCEPT !.at = "close", !.row = i]
                  [] OTHER -> Answered
     \/ /\ Exists(T)
        /\ request' = [Idle EXCEPT !.at = "gap", !.table = T, !.form = request.form]
  /\ OnlyRequest

\* Mutant: the new period may begin on the day the previous one ends.
StartsOnEnd(C, p) ==
  LET ended == {o.end : o \in {q \in C : q.end < p.start}}
  IN \E d \in ended : (\A e \in ended : e <= d) /\ p.start # d

\* get_*_end_before: the latest end before the start is not the day before it.
LeavesGap(C, p) ==
  LET ended == {o.end : o \in {q \in C : q.end < p.start}}
  IN \E d \in ended : (\A e \in ended : e <= d) /\ p.start # d + 1

CheckGap ==
  /\ At("gap")
  /\ IF LeavesGap(Chain(T), request.form) THEN Answered ELSE GoTo("insert")
  /\ OnlyRequest

\* Mutant: the end may be yesterday: an off-by-one in the comparison.
EndDropsLater(p, q) ==
  Covers(p, today) /\ q.end # Open /\ q.end < today - 1

\* get_ownership, get_building_owner, and whether the new end is before today
\* and the row is today's (end_drops_today_coverage).
EndDropsToday(p, q) ==
  Covers(p, today) /\ q.end # Open /\ q.end < today

LoadRow ==
  /\ At("edit")
  /\ LET p == rows[T][request.row]
     IN IF p = None
          THEN Answered
          ELSE GoTo(IF EndDropsToday(p, request.form) THEN "warn" ELSE "update")
  /\ OnlyRequest

\* ownership_end_date_warning, building_owner_end_date_warning: nobody is left
\* without an owner.
NoHarm(t) == IF t = "ownerships" THEN WhollyOwned ELSE ~ HasDependents

Warn ==
  /\ At("warn")
  /\ \/ NoHarm(T) /\ GoTo("update")
     \/ /\ ~ NoHarm(T)
        /\ CASE request.answer = "-" -> request' = [request EXCEPT !.at = "askEnd",
                                                                   !.blind = FALSE]
             [] request.answer = "yes" -> GoTo("update")
             [] OTHER -> Answered
     \/ \* unwrap_or(false): the read fails
        /\ T = "building_owners"
        /\ request' = [request EXCEPT !.at = "update", !.blind = TRUE]
  /\ OnlyRequest

\* What the last await of a handler writes.
Write ==
  LET p == request.form IN
  \/ At("insert") /\ \E i \in Row : Insert(T, i, p)
  \/ At("close")  /\ \E i \in Row \ {request.row} : CloseAndInsert(T, request.row, i, p)
  \/ At("update") /\ Update(T, request.row, p)
  \/ At("delete") /\ Delete(T, request.row)

Commit ==
  /\ Write
  /\ Answered
  /\ UNCHANGED <<building, apartment, today>>

\* The database rejects it or fails, or the form names no person.
Reject ==
  /\ request.at \in {"insert", "close", "update", "delete"}
  /\ Answered
  /\ OnlyRequest

-----------------------------------------------------------------------------
(* Meanwhile *)

\* What an edit has looked at has changed: its row, the day, the other table.
NowBlind ==
  \E t \in {T} :
    request' = IF /\ request.at \in {"warn", "update"}
                  /\ \/ rows'[t][request.row] # rows[t][request.row]
                     \/ today' # today
                     \/ NoHarm(t)' # NoHarm(t)
                 THEN [request EXCEPT !.blind = TRUE] ELSE request

Others ==
  /\ \/ /\ \E t \in Table, i \in Row :
             \/ Delete(t, i)
             \/ \E p \in Ordinary :
                  \/ Insert(t, i, p)
                  \/ Update(t, i, p)
                  \/ \E j \in {k \in Row \ {i} : rows[t][k] # None} :
                       CloseAndInsert(t, j, i, p)
        /\ UNCHANGED <<building, apartment>>
     \/ CreateParent
     \/ DeleteParent
  /\ UNCHANGED today
  /\ NowBlind

Midnight ==
  /\ today < LastDay
  /\ today' = today + 1
  /\ UNCHANGED <<building, apartment, rows>>
  /\ NowBlind

Next ==
  \/ Submit \/ Answer
  \/ FindPrevious \/ CheckGap \/ LoadRow \/ Warn \/ Commit \/ Reject
  \/ Others \/ Midnight

Spec == Init /\ [][Next]_vars

-----------------------------------------------------------------------------
(* Properties *)

\* What the handlers and everybody else do to the tables are the transactions
\* of Ownership: whatever they have read before, their writes are among those
\* its theorems speak of, and leaving out the ids loses nothing.
Tables ==
  INSTANCE Ownership WITH
    Building <- {"building"}, Apartment <- {"apartment"}, NoBuilding <- "none",
    buildings <- IF building THEN {"building"} ELSE {},
    home <- [a \in {"apartment"} |-> IF apartment THEN "building" ELSE "none"],
    ownerships <- [a \in {"apartment"} |-> Chain("ownerships")],
    buildingOwners <- [b \in {"building"} |-> Chain("building_owners")]

WritesAreTransactions == Tables!Spec

\* The handler asks before an edit ends today's coverage of the apartment
\* (0011): without a `yes' a committed edit uncovers today only by moving the
\* start of the period, or if the tables or the day have changed since the
\* handler looked.
AskedBeforeEndingToday ==
  [][At("update") /\ Commit /\ Covered /\ ~ Covered'
       => \/ request.answer = "yes"
          \/ request.form.start > today
          \/ request.blind]_vars

\* The handler turns down a form before the database sees it only when the
\* database would have rejected it: the gap check in Rust and the chain triggers
\* in SQL agree, and a period that covers the start is an overlap.
TurnedDownRightly ==
  /\ At("gap") /\ LeavesGap(Chain(T), request.form) => ~ Fits(Chain(T), request.form)
  /\ At("create") /\ request.answer = "no" /\ (\E i \in Row : CoversStart(i))
       => ~ Fits(Chain(T), request.form)

-----------------------------------------------------------------------------
(* Statements of the repository that the code does not keep. *)

\* create_ownership_closing_previous: "Used when the user confirms that the
\* previous owner's open period shall end": what is closed is what was shown.
ClosesWhatWasConfirmed ==
  At("close") /\ rows[T][request.row] # None => request.row = request.shown

\* ownerships_update: "Setting the end date of the currently-covering period
\* before today would leave the apartment without an owner; ask for confirmation
\* first."
AsksFirst ==
  At("update") /\ T = "ownerships" /\ request.answer # "yes"
  /\ rows[T][request.row] # None /\ ~ WhollyOwned
    => ~ EndDropsToday(rows[T][request.row], request.form)
=============================================================================
