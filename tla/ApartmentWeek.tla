------------------------------ MODULE ApartmentWeek ------------------------------
(***************************************************************************)
(* Who serves in the weeks of one apartment: its chain of owners and its   *)
(* tenancies, changed by the writes the triggers accept, and what          *)
(* majority_owner, covers_week and the delegation of schedule_for_year     *)
(* (src/scheduler/mod.rs) make of them.  Composes Tenancy, all of it, with *)
(* the ownerships of the apartment and reads them through Schedule.  The   *)
(* apartment is the only one of its building, so that every week with an   *)
(* owner is its own; Kehrwoche has the rotation.                           *)
(***************************************************************************)
EXTENDS Tenancy, Schedule

CONSTANTS Flat,         \* the apartment
          MaxPeriods,   \* bound of its ownerships
          MaxTenancies  \* bound of the tenancies of an apartment

ASSUME FlatAssumption == Flat \in Apartment

ASSUME BoundAssumption == MaxPeriods \in Nat /\ MaxTenancies \in Nat

VARIABLE chain          \* the ownerships of the apartment

weekVars == <<vars, chain>>

WeekInit == Init /\ chain = {}

\* create_ownership, create_ownership_closing_previous, update_ownership,
\* delete_ownership; Ownership has their other guards.
Create(p) ==
  /\ Cardinality(chain) < MaxPeriods
  /\ Fits(chain, p)
  /\ chain' = chain \cup {p}

CreateClosing(prev, p) ==
  /\ Cardinality(chain) < MaxPeriods
  /\ ClosingPreviousFits(chain, prev, p)
  /\ chain' = ClosingPrevious(chain, prev, p)

Update(old, new) ==
  /\ UpdateFits(chain, old, new)
  /\ chain' = Updated(chain, old, new)

Delete(p) ==
  /\ chain # {p}
  /\ ~ InTheMiddle(chain, p)
  /\ chain' = chain \ {p}

OwnerStep ==
  /\ Flat \in apartments
  /\ \/ \E p \in Period :
          \/ Create(p)
          \/ \E q \in chain : CreateClosing(q, p) \/ Update(q, p)
     \/ \E p \in chain : Delete(p)
  /\ UNCHANGED vars

TenantStep ==
  /\ \E a \in Apartment, p \in Period :
       \/ Cardinality(tenancies[a]) < MaxTenancies /\ create_tenancy(a, p)
       \/ \E q \in tenancies[a] :
            \/ Cardinality(tenancies[a]) < MaxTenancies /\ create_tenancy_closing_previous(a, q, p)
            \/ update_tenancy(a, q, p)
       \/ delete_tenancy(a, p)
  /\ UNCHANGED chain

\* The first owner comes along with the apartment; what is deleted with it, by ON
\* DELETE CASCADE, are its ownerships too.
ApartmentStep ==
  \/ \E a \in Apartment :
       /\ create_apartment(a)
       /\ IF a = Flat THEN \E p \in Period : Fits({}, p) /\ chain' = {p} ELSE UNCHANGED chain
  \/ \E gone \in SUBSET apartments :
       /\ DeleteApartments(gone)
       /\ chain' = IF Flat \in gone THEN {} ELSE chain

WeekNext == OwnerStep \/ TenantStep \/ ApartmentStep

WeekSpec == WeekInit /\ [][WeekNext]_weekVars

-----------------------------------------------------------------------------
(* What schedule_for_year makes of it *)

Data ==
  [apartments |-> apartments \cap {Flat}, older |-> {}, ownerships |-> [a \in {Flat} |-> chain],
   buildingOwners |-> {}, tenancies |-> tenancies, seed |-> 0]

Serves(w) == Assignment(Data, w)

-----------------------------------------------------------------------------
(* Properties *)

DaysOf(w) == WeekStart(w)..WeekEnd(w)

DaysServed(p, w) == {d \in DaysOf(w) : Covers(p, d)}

\* README.markdown: a week belongs to the owner whose period covers most of its
\* days.  The interval arithmetic with its open ends agrees with counting days,
\* and nobody but one period of the chain can have more than half of them.
WeekBelongsToTheMajority ==
  \A w \in Week :
    /\ majority_owner(chain, w)
         = {p \in chain : 2 * Cardinality(DaysServed(p, w)) > WeekDays}
    /\ Cardinality(majority_owner(chain, w)) <= 1

\* The chain is seamless from before the week to after it.
Spans(w) ==
  /\ Tiled(chain)
  /\ \E p, q \in chain : p.start <= WeekStart(w) /\ WeekEnd(w) <= q.end

\* No week is lost in a handover: inside a seamless chain every week has its
\* owner, as long as no period is shorter than MajorityDays.
HandoversAreResolved ==
  (\A p \in chain : p.end >= p.start + MajorityDays - 1)
    => \A w \in Week : Spans(w) => majority_owner(chain, w) # {}

\* The first, partial week of an apartment: it joins the rotation that week only
\* if its owner has most of it, otherwise the week after.
JoinsWithTheFirstWholeWeek ==
  \A p \in chain, w \in Week :
    /\ \A q \in chain : p.start <= q.start
    /\ p.end = Open
    /\ WeekStart(w) <= p.start /\ p.start <= WeekEnd(w)
    => /\ majority_owner(chain, w) # {}
            <=> WeekEnd(w) - p.start >= p.start - WeekStart(w)
       /\ w + 1 \in Week => majority_owner(chain, w + 1) = {p}

\* The whole-week rule: a tenant serves exactly the weeks that one tenancy covers
\* from Monday to Sunday, if the apartment takes part at all: two tenancies that
\* share the week do not, and nobody serves in a week without an owner.
TenantsServeWholeWeeks ==
  \A w \in Week :
    LET whole == {t \in tenancies[Flat] : DaysServed(t, w) = DaysOf(w)}
    IN IF majority_owner(chain, w) = {} THEN Serves(w) = Nobody
       ELSE /\ Serves(w).periods = IF whole # {} THEN whole ELSE majority_owner(chain, w)
            /\ Cardinality(Serves(w).periods) = 1
            /\ Serves(w).delegated <=> whole # {}

-----------------------------------------------------------------------------
(* A statement of the repository that the code does not keep. *)

\* majority_owner: "from the first period on exactly one owner covers at least 4
\* of the 7 days and every week is resolved".
EveryWeekIsResolved == \A w \in Week : Spans(w) => majority_owner(chain, w) # {}
=============================================================================
