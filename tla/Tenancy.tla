--------------------------------- MODULE Tenancy ---------------------------------
(***************************************************************************)
(* The tenancies of the apartments: the triggers of migrations/0012 on     *)
(* `tenancies' and the transactions of src/db/queries.rs that write them.  *)
(* A tenant's periods may have gaps; the only chain rule is that they do   *)
(* not overlap.  The arguments are whatever a handler can pass, the row to *)
(* close included, which it has read in an earlier await.                  *)
(***************************************************************************)
EXTENDS PeriodChain

CONSTANT Apartment

VARIABLES apartments,   \* the rows of `apartments'
          tenancies     \* the tenancies of each apartment

vars == <<apartments, tenancies>>

TypeOK ==
  /\ apartments \subseteq Apartment
  /\ tenancies \in [Apartment -> SUBSET Period]

Init ==
  /\ apartments = {}
  /\ tenancies = [a \in Apartment |-> {}]

-----------------------------------------------------------------------------
\* tenancies_date_order_*, tenancies_no_overlap_*
MayStand(C, p) == Ordered(p) /\ FreeOfOverlap(C, p)

\* Mutant: no tenancies_no_overlap_update.
MoveFitsAnywhere(C, old, new) == old \in C /\ Ordered(new)

\* The UPDATE of one row; its triggers compare it with the other rows.
MoveFits(C, old, new) == old \in C /\ MayStand(C \ {old}, new)

create_tenancy(a, p) ==
  /\ a \in apartments
  /\ MayStand(tenancies[a], p)
  /\ tenancies' = [tenancies EXCEPT ![a] = @ \cup {p}]
  /\ UNCHANGED apartments

\* Mutant: the INSERT comes before the UPDATE.
InsertFirstFits(C, prev, p) ==
  MayStand(C, p) /\ MoveFits(C \cup {p}, prev, Closed(prev, p))

\* The UPDATE and then the INSERT, each with its triggers.
ClosingFits(C, prev, p) ==
  /\ MoveFits(C, prev, Closed(prev, p))
  /\ MayStand(Updated(C, prev, Closed(prev, p)), p)

create_tenancy_closing_previous(a, prev, p) ==
  /\ a \in apartments
  /\ ClosingFits(tenancies[a], prev, p)
  /\ tenancies' = [tenancies EXCEPT ![a] = ClosingPrevious(@, prev, p)]
  /\ UNCHANGED apartments

update_tenancy(a, old, new) ==
  /\ MoveFits(tenancies[a], old, new)
  /\ tenancies' = [tenancies EXCEPT ![a] = Updated(@, old, new)]
  /\ UNCHANGED apartments

delete_tenancy(a, p) ==
  /\ p \in tenancies[a]
  /\ tenancies' = [tenancies EXCEPT ![a] = @ \ {p}]
  /\ UNCHANGED apartments

create_apartment(a) ==
  /\ a \notin apartments
  /\ apartments' = apartments \cup {a}
  /\ UNCHANGED tenancies

\* Mutant: no ON DELETE CASCADE on tenancies.
DeleteApartmentsOnly(gone) ==
  /\ gone # {}
  /\ apartments' = apartments \ gone
  /\ UNCHANGED tenancies

\* delete_apartment, and the apartments of delete_building: ON DELETE CASCADE.
DeleteApartments(gone) ==
  /\ gone # {}
  /\ apartments' = apartments \ gone
  /\ tenancies' = [a \in Apartment |-> IF a \in gone THEN {} ELSE tenancies[a]]

Next ==
  \/ \E a \in Apartment :
       \/ create_apartment(a)
       \/ \E p \in Period :
            \/ create_tenancy(a, p)
            \/ \E q \in tenancies[a] :
                 create_tenancy_closing_previous(a, q, p) \/ update_tenancy(a, q, p)
       \/ \E p \in tenancies[a] : delete_tenancy(a, p)
  \/ \E gone \in SUBSET apartments : DeleteApartments(gone)

Spec == Init /\ [][Next]_vars

-----------------------------------------------------------------------------
(* Properties *)

\* README.markdown: "At any point in time, not more than one tenancy may be
\* active for an apartment", whichever rows the creates, closing creates and
\* edits have moved; so get_tenancy_on and the scheduler's `find' have one row
\* to find.
AtMostOneTenantPerDay ==
  \A a \in Apartment, d \in Day :
    \A p, q \in tenancies[a] : Covers(p, d) /\ Covers(q, d) => p = q

\* No tenancy outlives its apartment.
TenanciesOfApartments == \A a \in Apartment : tenancies[a] # {} => a \in apartments

\* create_tenancy_closing_previous: "The no-overlap triggers validate the
\* combined change".  Although they see its two statements one after the other,
\* what they accept is exactly the combined changes that keep the rules; for
\* ownerships, whose triggers also look for gaps, that is not so.
CombinedChangeValidated ==
  \A a \in Apartment, p \in Period :
    \A prev \in tenancies[a] :
      LET combined == ClosingPrevious(tenancies[a], prev, p)
      IN Covers(prev, p.start) =>
           (ClosingFits(tenancies[a], prev, p)
              <=> WellOrdered(combined) /\ Disjoint(combined))
=============================================================================
