--------------------------------- MODULE People ---------------------------------
(***************************************************************************)
(* The persons behind owners, tenants and administrators (0007-0009,       *)
(* 0013): one row of `people' per e-mail address, referenced by the join   *)
(* rows of the ownership periods, by the tenancies and by the building     *)
(* administrators, and deleted by the *_people_cleanup triggers.           *)
(*                                                                         *)
(* One action is one committed transaction.  Whether the period or the     *)
(* tenancy itself is accepted is Ownership's and Tenancy's subject: here   *)
(* every such write may happen.  Names and display names follow the row    *)
(* and no rule reads them; they are left out.                              *)
(***************************************************************************)
EXTENDS Integers, FiniteSets, Functions

CONSTANTS Person,     \* the ids a row of `people' may get
          Email,      \* the addresses, trimmed and lower-cased
          Owned,      \* the ids of ownerships and building_owners
          Tenancy,    \* the ids of tenancies
          Building,   \* the ids of buildings
          None        \* no row, no reference

ASSUME NoneAssumption == None \notin Person \cup Email

VARIABLES email,      \* people.email; None: the row does not exist
          periods,    \* the rows of ownerships and building_owners
          owners,     \* ownership_people and building_owner_people
          tenant,     \* tenancies.person_id; None: the row does not exist
          buildings,  \* the rows of buildings
          admin       \* building_administrators.person_id

vars == <<email, periods, owners, tenant, buildings, admin>>

TypeOK ==
  /\ email \in [Person -> Email \cup {None}]
  /\ periods \subseteq Owned
  /\ owners \in [Owned -> SUBSET Person]
  /\ tenant \in [Tenancy -> Person \cup {None}]
  /\ buildings \subseteq Building
  /\ admin \in [Building -> Person \cup {None}]

Known(x) == email[x] # None

Referenced(x) ==
  \/ \E o \in Owned : x \in owners[o]
  \/ \E t \in Tenancy : tenant[t] = x
  \/ \E b \in Building : admin[b] = x

Init ==
  /\ email = [x \in Person |-> None]
  /\ periods = {}
  /\ owners = [o \in Owned |-> {}]
  /\ tenant = [t \in Tenancy |-> None]
  /\ buildings = {}
  /\ admin = [b \in Building |-> None]

-----------------------------------------------------------------------------
(* resolve_person, resolve_people *)

\* The row of an address is reused; an unknown address gets a new row.
Reuses(es, f) ==
  \A e \in es :
    IF \E x \in Person : email[x] = e
      THEN email[f[e]] = e
      ELSE email[f[e]] = None

\* The persons that resolve_people may return for the addresses es.
Resolved(es) == {f \in Injection(es, Person) : Reuses(es, f)}

\* `people' after it.
WithPeople(f) ==
  [x \in Person |-> IF x \in Range(f) THEN CHOOSE e \in DOMAIN f : f[e] = x
                                      ELSE email[x]]

\* resolve_person
ResolvedOne(e) == {f[e] : f \in Resolved({e})}

WithPerson(x, e) == [email EXCEPT ![x] = e]

-----------------------------------------------------------------------------
(* Buildings.  The administrator is optional: e is None when the form's fields *)
(* are left blank.                                                             *)

\* create_building
CreateBuilding(b, e) ==
  /\ b \notin buildings
  /\ buildings' = buildings \cup {b}
  /\ \E f \in Resolved({e} \ {None}) :
       /\ email' = WithPeople(f)
       /\ admin' = [admin EXCEPT ![b] = IF e = None THEN None ELSE f[e]]
  /\ UNCHANGED <<periods, owners, tenant>>

\* create_building_with_owner: the administrator and the owners of the first
\* period, in one transaction.
CreateBuildingWithOwner(b, e, o, es) ==
  /\ b \notin buildings
  /\ o \notin periods
  /\ buildings' = buildings \cup {b}
  /\ periods' = periods \cup {o}
  /\ \E f \in Resolved((es \cup {e}) \ {None}) :
       /\ email' = WithPeople(f)
       /\ owners' = [owners EXCEPT ![o] = {f[d] : d \in es}]
       /\ admin' = [admin EXCEPT ![b] = IF e = None THEN None ELSE f[e]]
  /\ UNCHANGED tenant

\* update_building with an administrator: the row is pointed at the person, or
\* inserted.
UpdateBuildingAdmin(b, e) ==
  /\ b \in buildings
  /\ \E x \in ResolvedOne(e) :
       /\ email' = WithPerson(x, e)
       /\ admin' = [admin EXCEPT ![b] = x]
  /\ UNCHANGED <<periods, owners, tenant, buildings>>

-----------------------------------------------------------------------------
(* Owners *)

\* insert_period_with_people and the INSERT of the period: at least one person
\* (*_people_required_insert), no person twice (the primary key).
CreatePeriod(o, es) ==
  /\ o \notin periods
  /\ periods' = periods \cup {o}
  /\ \E f \in Resolved(es) :
       /\ email' = WithPeople(f)
       /\ owners' = [owners EXCEPT ![o] = Range(f)]
  /\ UNCHANGED <<tenant, buildings, admin>>

\* Mutants: everyone in gone is deleted; everyone without references is.
CleanedAlways(Pm, gone) == [x \in Person |-> IF x \in gone THEN None ELSE Pm[x]]
CleanedAll(Pm, gone) == [x \in Person |-> IF Referenced(x)' THEN Pm[x] ELSE None]

\* The persons in gone that the step leaves without any reference: the
\* *_people_cleanup triggers delete them.  Pm is `people' before the triggers.
Cleaned(Pm, gone) ==
  [x \in Person |-> IF x \in gone /\ ~ Referenced(x)' THEN None ELSE Pm[x]]

\* replace_period_people: insert the new join rows, delete the others.
ReplacePeople(o, es) ==
  /\ o \in periods
  /\ \E f \in Resolved(es) :
       /\ owners' = [owners EXCEPT ![o] = Range(f)]
       /\ UNCHANGED <<periods, tenant, buildings, admin>>
       /\ email' = Cleaned(WithPeople(f), owners[o] \ Range(f))

-----------------------------------------------------------------------------
(* Tenants *)

\* create_tenancy, create_tenancy_closing_previous
CreateTenancy(t, e) ==
  /\ tenant[t] = None
  /\ \E x \in ResolvedOne(e) :
       /\ email' = WithPerson(x, e)
       /\ tenant' = [tenant EXCEPT ![t] = x]
  /\ UNCHANGED <<periods, owners, buildings, admin>>

\* Mutant: the address is stored in the place of the id.
UpdateTenancyByEmail(t, e) ==
  /\ \E x \in ResolvedOne(e) : email' = WithPerson(x, e)
  /\ tenant' = [tenant EXCEPT ![t] = IF @ = None THEN None ELSE e]
  /\ UNCHANGED <<periods, owners, buildings, admin>>

\* update_tenancy: the UPDATE runs no cleanup trigger.  The handler read the
\* tenancy in an earlier await: if it was deleted since, the UPDATE matches no
\* row, and the transaction commits the resolved person all the same.
UpdateTenancy(t, e) ==
  /\ \E x \in ResolvedOne(e) :
       /\ email' = WithPerson(x, e)
       /\ tenant' = [tenant EXCEPT ![t] = IF @ = None THEN None ELSE x]
  /\ UNCHANGED <<periods, owners, buildings, admin>>

-----------------------------------------------------------------------------
(* The person page *)

\* Mutant: without people_email_unique_update.
UpdatePersonAnyEmail(x, e) ==
  /\ Known(x)
  /\ email' = [email EXCEPT ![x] = e]
  /\ UNCHANGED <<periods, owners, tenant, buildings, admin>>

\* update_person; people_email_unique_update
UpdatePerson(x, e) ==
  /\ Known(x)
  /\ \A y \in Person \ {x} : email[y] # e
  /\ email' = [email EXCEPT ![x] = e]
  /\ UNCHANGED <<periods, owners, tenant, buildings, admin>>

-----------------------------------------------------------------------------
(* Deletions *)

\* Mutant: the triggers of 0008, which do not look at the join rows.
LosingTenants(os, ts, bs) == {tenant[t] : t \in ts} \cup {admin[b] : b \in bs}

\* Who loses a reference when these rows go.
Losing(os, ts, bs) ==
  (UNION {owners[o] : o \in os})
    \cup {tenant[t] : t \in ts} \cup {admin[b] : b \in bs}

\* Mutant: no ON DELETE CASCADE on the join rows.
DeletePeriodOnly(o) ==
  /\ o \in periods
  /\ periods' = periods \ {o}
  /\ UNCHANGED <<email, owners, tenant, buildings, admin>>

\* The rows go with their join rows; every row that goes runs its cleanup
\* trigger, and the last reference of a person takes the person along.
DeleteRows(os, ts, bs) ==
  /\ periods' = periods \ os
  /\ owners' = [o \in Owned |-> IF o \in os THEN {} ELSE owners[o]]
  /\ tenant' = [t \in Tenancy |-> IF t \in ts THEN None ELSE tenant[t]]
  /\ buildings' = buildings \ bs
  /\ admin' = [b \in Building |-> IF b \in bs THEN None ELSE admin[b]]
  /\ email' = Cleaned(email, Losing(os, ts, bs))

Tenancies == {t \in Tenancy : tenant[t] # None}

\* delete_ownership, delete_building_owner
DeletePeriod(o) == o \in periods /\ DeleteRows({o}, {}, {})

DeleteTenancy(t) == t \in Tenancies /\ DeleteRows({}, {t}, {})

\* ON DELETE CASCADE takes the periods os and the tenancies ts of the apartment.
DeleteApartment(os, ts) ==
  os \subseteq periods /\ ts \subseteq Tenancies /\ DeleteRows(os, ts, {})

\* ... and those of the building, with its administrator.
DeleteBuilding(b, os, ts) ==
  /\ b \in buildings
  /\ os \subseteq periods /\ ts \subseteq Tenancies
  /\ DeleteRows(os, ts, {b})

-----------------------------------------------------------------------------
\* The persons of one form: at least one.
Group == (SUBSET Email) \ {{}}

BuildingStep ==
  \E b \in Building :
    \/ \E e \in Email \cup {None} : CreateBuilding(b, e)
    \/ \E e \in Email \cup {None}, o \in Owned, es \in Group :
         CreateBuildingWithOwner(b, e, o, es)
    \/ \E e \in Email : UpdateBuildingAdmin(b, e)

OwnerStep == \E o \in Owned, es \in Group : CreatePeriod(o, es) \/ ReplacePeople(o, es)

TenancyStep == \E t \in Tenancy, e \in Email : CreateTenancy(t, e) \/ UpdateTenancy(t, e)

PersonStep == \E x \in Person, e \in Email : UpdatePerson(x, e)

DeleteStep ==
  \/ \E o \in Owned : DeletePeriod(o)
  \/ \E t \in Tenancy : DeleteTenancy(t)
  \/ \E os \in SUBSET Owned, ts \in SUBSET Tenancy :
       \/ DeleteApartment(os, ts)
       \/ \E b \in Building : DeleteBuilding(b, os, ts)

Next == BuildingStep \/ OwnerStep \/ TenancyStep \/ PersonStep \/ DeleteStep

Spec == Init /\ [][Next]_vars

-----------------------------------------------------------------------------
(* Properties *)

\* Every join row, tenancy and administrator names a row of `people': the
\* cleanup triggers, which fire row by row inside a cascade and inside the
\* replacement of a period's persons, never delete somebody still in use.
ReferencesExist == \A x \in Person : Referenced(x) => Known(x)

\* README.markdown: a person is identified by the e-mail address.  There are
\* never two rows of one address, although addresses enter through five forms
\* and change on the person page.
EmailIsIdentity ==
  \A x, y \in Person : Known(x) /\ email[x] = email[y] => x = y

\* 0013: a period has at least one person, and only existing periods have any.
PeriodsHavePeople == \A o \in Owned : o \in periods <=> owners[o] # {}

\* A person is deleted exactly when the last of its references is: nobody in use
\* before and after a step goes, and somebody without references is not
\* collected later, only adopted by the next form that names the address.
PersonGoesWithLastReference ==
  [][\A x \in Person :
       Known(x) /\ ~ Known(x)' => Referenced(x) /\ ~ Referenced(x)']_vars

\* The cleanup has one hole: nobody loses the last reference and stays, unless an
\* UPDATE points a tenancy or an administrator row at somebody else.
Repointed(x) ==
  \/ \E t \in Tenancy : tenant[t] = x /\ tenant'[t] \notin {x, None}
  \/ \E b \in Building : admin[b] = x /\ admin'[b] \notin {x, None}

OrphanedOnlyByRepointing ==
  [][\A x \in Person :
       Referenced(x) /\ ~ Referenced(x)' /\ Known(x)' => Repointed(x)]_vars

-----------------------------------------------------------------------------
(* A statement of the repository that the code does not keep. *)

\* 0013: "People without any reference are deleted automatically".
NoOrphanPeople == \A x \in Person : Known(x) => Referenced(x)
=============================================================================
