------------------------------ MODULE PeopleTheorems ------------------------------
(***************************************************************************)
(* What holds of People for any number of persons, addresses and rows.     *)
(* The invariants of the runs are inductive together: that every reference *)
(* names somebody (ReferencesExist) needs that resolving an address never  *)
(* takes an id that is in use, and that (Grown) needs EmailIsIdentity.     *)
(***************************************************************************)
EXTENDS People, TLAPS

IInv == TypeOK /\ ReferencesExist /\ EmailIsIdentity /\ PeriodsHavePeople

\* `people' after resolving addresses: nobody is changed, and every row still has
\* an address of its own.
Grown(E) ==
  /\ E \in [Person -> Email \cup {None}]
  /\ \A x \in Person : Known(x) => E[x] = email[x]
  /\ \A x, y \in Person : E[x] # None /\ E[x] = E[y] => x = y

-----------------------------------------------------------------------------
(* Resolving *)

LEMMA OnePersonResolved ==
  ASSUME TypeOK, EmailIsIdentity, NEW e \in Email, NEW x \in ResolvedOne(e)
  PROVE  /\ x \in Person
         /\ Grown(WithPerson(x, e))
         /\ WithPerson(x, e)[x] # None
<1>1. PICK f \in Resolved({e}) : x = f[e]
  BY DEF ResolvedOne
<1>2. x \in Person
  BY <1>1 DEF Resolved, Injection
<1>3. IF \E y \in Person : email[y] = e THEN email[x] = e ELSE email[x] = None
  BY <1>1 DEF Resolved, Reuses
<1>4. e # None
  BY NoneAssumption
<1>5. QED
  BY <1>2, <1>3, <1>4 DEF Grown, WithPerson, TypeOK, Known, EmailIsIdentity

LEMMA GroupResolved ==
  ASSUME TypeOK, EmailIsIdentity, NEW es \in SUBSET Email, NEW f \in Resolved(es)
  PROVE  /\ \A e \in es : f[e] \in Person
         /\ Grown(WithPeople(f))
         /\ \A e \in es : WithPeople(f)[f[e]] # None
<1>1. /\ DOMAIN f = es /\ \A e \in es : f[e] \in Person
      /\ \A d, e \in es : f[d] = f[e] => d = e
  BY DEF Resolved, Injection, IsInjective
<1>2. \A e \in es : IF \E y \in Person : email[y] = e THEN email[f[e]] = e
                                                      ELSE email[f[e]] = None
  BY DEF Resolved, Reuses
<1> DEFINE W == WithPeople(f)
<1>3. \A e \in es : W[f[e]] = e
  BY <1>1 DEF WithPeople, Range
<1>4. \A x \in Person : (\A e \in es : f[e] # x) => W[x] = email[x]
  BY <1>1 DEF WithPeople, Range
<1>5. \A e \in es : e \in Email /\ e # None
  BY NoneAssumption
<1>6. W \in [Person -> Email \cup {None}]
  <2>1. \A x \in Person : W[x] \in Email \cup {None}
    BY <1>3, <1>4, <1>5 DEF TypeOK
  <2>2. QED
    BY <2>1 DEF WithPeople
<1>7. \A x \in Person : Known(x) => W[x] = email[x]
  BY <1>1, <1>2, <1>3, <1>4 DEF Known
<1>8. ASSUME NEW x \in Person, NEW y \in Person, W[x] # None, W[x] = W[y] PROVE x = y
  <2>1. CASE \E d \in es : f[d] = x
    <3>1. PICK d \in es : f[d] = x
      BY <2>1
    <3>2. CASE \E e \in es : f[e] = y
      BY <1>3, <1>8, <3>1, <3>2
    <3>3. CASE \A e \in es : f[e] # y
      BY <1>2, <1>3, <1>4, <1>5, <1>8, <3>1, <3>3 DEF EmailIsIdentity, Known
    <3>4. QED
      BY <3>2, <3>3
  <2>2. CASE \A d \in es : f[d] # x
    <3>1. CASE \E e \in es : f[e] = y
      BY <1>2, <1>3, <1>4, <1>5, <1>8, <2>2, <3>1 DEF EmailIsIdentity, Known
    <3>2. CASE \A e \in es : f[e] # y
      BY <1>4, <1>8, <2>2, <3>2 DEF EmailIsIdentity, Known
    <3>3. QED
      BY <3>1, <3>2
  <2>3. QED
    BY <2>1, <2>2
<1>9. QED
  BY <1>1, <1>3, <1>5, <1>6, <1>7, <1>8 DEF Grown

\* Deleting rows keeps the addresses apart and whoever is still in use.
LEMMA CleanedKeeps ==
  ASSUME NEW E, Grown(E), NEW G
  PROVE  /\ Cleaned(E, G) \in [Person -> Email \cup {None}]
         /\ \A x \in Person : Referenced(x)' => Cleaned(E, G)[x] = E[x]
         /\ \A x, y \in Person :
              Cleaned(E, G)[x] # None /\ Cleaned(E, G)[x] = Cleaned(E, G)[y] => x = y
<1>1. \A x \in Person : Cleaned(E, G)[x] = E[x] \/ Cleaned(E, G)[x] = None
  BY DEF Cleaned
<1>2. QED
  BY <1>1 DEF Cleaned, Grown

LEMMA SameIsGrown == TypeOK /\ EmailIsIdentity => Grown(email)
  BY DEF TypeOK, EmailIsIdentity, Grown, Known

-----------------------------------------------------------------------------
LEMMA InitIInv == Init => IInv
<1> SUFFICES ASSUME Init PROVE IInv
  OBVIOUS
<1>1. TypeOK /\ EmailIsIdentity /\ PeriodsHavePeople
  BY DEF Init, TypeOK, EmailIsIdentity, PeriodsHavePeople, Known
<1>2. ReferencesExist
  BY NoneAssumption DEF Init, ReferencesExist, Referenced
<1>3. QED
  BY <1>1, <1>2 DEF IInv

\* A step that only adds: the new references are to persons of E.
LEMMA AddingKeeps ==
  ASSUME IInv, NEW E, Grown(E), email' = E,
         periods' \subseteq Owned, buildings' \subseteq Building,
         owners' \in [Owned -> SUBSET Person],
         tenant' \in [Tenancy -> Person \cup {None}],
         admin' \in [Building -> Person \cup {None}],
         \A x \in Person : Referenced(x)' => Referenced(x) \/ E[x] # None,
         \A o \in Owned : o \in periods' <=> owners'[o] # {}
  PROVE  IInv'
<1>1. ReferencesExist'
  BY DEF IInv, ReferencesExist, Grown, Known
<1>2. EmailIsIdentity' /\ TypeOK' /\ PeriodsHavePeople'
  BY DEF Grown, EmailIsIdentity, TypeOK, PeriodsHavePeople, Known
<1>3. QED
  BY <1>1, <1>2 DEF IInv

LEMMA DeletingKeeps ==
  ASSUME IInv, NEW os \in SUBSET Owned, NEW ts \in SUBSET Tenancy,
         NEW bs \in SUBSET Building, DeleteRows(os, ts, bs)
  PROVE  IInv'
<1>1. Grown(email)
  BY SameIsGrown DEF IInv
<1>2. email' = Cleaned(email, Losing(os, ts, bs))
  BY DEF DeleteRows
<1>3. /\ owners' = [o \in Owned |-> IF o \in os THEN {} ELSE owners[o]]
      /\ tenant' = [t \in Tenancy |-> IF t \in ts THEN None ELSE tenant[t]]
      /\ admin' = [b \in Building |-> IF b \in bs THEN None ELSE admin[b]]
      /\ periods' = periods \ os /\ buildings' = buildings \ bs
  BY DEF DeleteRows
<1>4. ASSUME NEW x \in Person, Referenced(x)' PROVE Known(x)'
  <2>1. Referenced(x)
    BY <1>3, <1>4, NoneAssumption DEF Referenced
  <2>2. email[x] # None
    BY <2>1 DEF IInv, ReferencesExist, Known
  <2>3. QED
    BY <1>1, <1>2, <1>4, <2>2, CleanedKeeps DEF Known
<1>5. EmailIsIdentity'
  BY <1>1, <1>2, CleanedKeeps DEF EmailIsIdentity, Known
<1>6. TypeOK'
  BY <1>1, <1>2, <1>3, CleanedKeeps DEF IInv, TypeOK
<1>7. PeriodsHavePeople'
  BY <1>3 DEF IInv, TypeOK, PeriodsHavePeople
<1>8. QED
  BY <1>4, <1>5, <1>6, <1>7 DEF IInv, ReferencesExist

LEMMA StepIInv == IInv /\ [Next]_vars => IInv'
<1> SUFFICES ASSUME IInv, [Next]_vars PROVE IInv'
  OBVIOUS
<1>t. TypeOK /\ EmailIsIdentity /\ ReferencesExist /\ PeriodsHavePeople
  BY DEF IInv
<1>1. ASSUME NEW b \in Building, NEW e \in Email \cup {None}, CreateBuilding(b, e)
      PROVE  IInv'
  <2>1. PICK f \in Resolved({e} \ {None}) :
          /\ email' = WithPeople(f)
          /\ admin' = [admin EXCEPT ![b] = IF e = None THEN None ELSE f[e]]
    BY <1>1 DEF CreateBuilding
  <2>2. /\ \A d \in {e} \ {None} : f[d] \in Person
        /\ Grown(WithPeople(f))
        /\ \A d \in {e} \ {None} : WithPeople(f)[f[d]] # None
    <3>1. {e} \ {None} \in SUBSET Email
      OBVIOUS
    <3>2. QED
      BY <1>t, <3>1, GroupResolved
  <2>3. \A x \in Person : Referenced(x)' => Referenced(x) \/ WithPeople(f)[x] # None
    BY <1>1, <1>t, <2>1, <2>2, NoneAssumption DEF CreateBuilding, Referenced, TypeOK
  <2>4. QED
    BY <1>1, <1>t, <2>1, <2>2, <2>3, AddingKeeps
    DEF CreateBuilding, TypeOK, PeriodsHavePeople
<1>2. ASSUME NEW b \in Building, NEW e \in Email \cup {None}, NEW o \in Owned,
             NEW es \in Group, CreateBuildingWithOwner(b, e, o, es)
      PROVE  IInv'
  <2> DEFINE ds == (es \cup {e}) \ {None}
  <2>1. PICK f \in Resolved(ds) :
          /\ email' = WithPeople(f)
          /\ owners' = [owners EXCEPT ![o] = {f[d] : d \in es}]
          /\ admin' = [admin EXCEPT ![b] = IF e = None THEN None ELSE f[e]]
    BY <1>2 DEF CreateBuildingWithOwner
  <2>2. ds \in SUBSET Email /\ es \subseteq ds /\ es # {} /\ (e # None => e \in ds)
    BY NoneAssumption DEF Group
  <2>3. /\ \A d \in ds : f[d] \in Person
        /\ Grown(WithPeople(f))
        /\ \A d \in ds : WithPeople(f)[f[d]] # None
    BY <1>t, <2>2, GroupResolved
  <2>4. \A x \in Person : Referenced(x)' => Referenced(x) \/ WithPeople(f)[x] # None
    BY <1>2, <1>t, <2>1, <2>2, <2>3, NoneAssumption
    DEF CreateBuildingWithOwner, Referenced, TypeOK
  <2>5. {f[d] : d \in es} \in SUBSET Person /\ {f[d] : d \in es} # {}
    BY <2>2, <2>3
  <2>6. /\ periods' = periods \cup {o} /\ buildings' = buildings \cup {b}
        /\ tenant' = tenant
    BY <1>2 DEF CreateBuildingWithOwner
  <2>7. owners' \in [Owned -> SUBSET Person] /\ admin' \in [Building -> Person \cup {None}]
    BY <1>t, <2>1, <2>2, <2>3, <2>5 DEF TypeOK
  <2>8. \A p \in Owned : p \in periods' <=> owners'[p] # {}
    BY <1>t, <2>1, <2>5, <2>6 DEF TypeOK, PeriodsHavePeople
  <2>9. periods' \subseteq Owned /\ buildings' \subseteq Building
        /\ tenant' \in [Tenancy -> Person \cup {None}]
    BY <1>t, <2>6 DEF TypeOK
  <2>10. QED
    BY <2>1, <2>3, <2>4, <2>7, <2>8, <2>9, AddingKeeps
<1>3. ASSUME NEW b \in Building, NEW e \in Email, UpdateBuildingAdmin(b, e) PROVE IInv'
  <2>1. PICK x \in ResolvedOne(e) : /\ email' = WithPerson(x, e)
                                   /\ admin' = [admin EXCEPT ![b] = x]
    BY <1>3 DEF UpdateBuildingAdmin
  <2>2. x \in Person /\ Grown(WithPerson(x, e)) /\ WithPerson(x, e)[x] # None
    BY <1>t, OnePersonResolved
  <2>3. \A y \in Person : Referenced(y)' => Referenced(y) \/ WithPerson(x, e)[y] # None
    BY <1>3, <1>t, <2>1, <2>2 DEF UpdateBuildingAdmin, Referenced, TypeOK
  <2>4. QED
    BY <1>3, <1>t, <2>1, <2>2, <2>3, AddingKeeps
    DEF UpdateBuildingAdmin, TypeOK, PeriodsHavePeople
<1>4. ASSUME NEW o \in Owned, NEW es \in Group, CreatePeriod(o, es) PROVE IInv'
  <2>1. PICK f \in Resolved(es) : /\ email' = WithPeople(f)
                                 /\ owners' = [owners EXCEPT ![o] = Range(f)]
    BY <1>4 DEF CreatePeriod
  <2>2. es \in SUBSET Email /\ es # {} /\ Range(f) = {f[d] : d \in es}
    BY DEF Group, Resolved, Injection, Range
  <2>3. /\ \A d \in es : f[d] \in Person
        /\ Grown(WithPeople(f))
        /\ \A d \in es : WithPeople(f)[f[d]] # None
    BY <1>t, <2>2, GroupResolved
  <2>4. \A x \in Person : Referenced(x)' => Referenced(x) \/ WithPeople(f)[x] # None
    BY <1>4, <1>t, <2>1, <2>2, <2>3 DEF CreatePeriod, Referenced, TypeOK
  <2>5. QED
    BY <1>4, <1>t, <2>1, <2>2, <2>3, <2>4, AddingKeeps
    DEF CreatePeriod, TypeOK, PeriodsHavePeople
<1>5. ASSUME NEW o \in Owned, NEW es \in Group, ReplacePeople(o, es) PROVE IInv'
  <2>1. PICK f \in Resolved(es) :
          /\ owners' = [owners EXCEPT ![o] = Range(f)]
          /\ UNCHANGED <<periods, tenant, buildings, admin>>
          /\ email' = Cleaned(WithPeople(f), owners[o] \ Range(f))
    BY <1>5 DEF ReplacePeople
  <2>2. es \in SUBSET Email /\ es # {} /\ Range(f) = {f[d] : d \in es}
    BY DEF Group, Resolved, Injection, Range
  <2>3. /\ \A d \in es : f[d] \in Person
        /\ Grown(WithPeople(f))
        /\ \A d \in es : WithPeople(f)[f[d]] # None
    BY <1>t, <2>2, GroupResolved
  <2>4. ASSUME NEW x \in Person, Referenced(x)' PROVE Known(x)'
    <3>1. Referenced(x) \/ x \in Range(f)
      BY <1>t, <2>1, <2>4 DEF Referenced, TypeOK
    <3>2. WithPeople(f)[x] # None
      BY <1>t, <2>2, <2>3, <3>1 DEF ReferencesExist, Known, Grown
    <3>3. QED
      BY <2>1, <2>3, <2>4, <3>2, CleanedKeeps DEF Known
  <2>5. EmailIsIdentity'
    BY <2>1, <2>3, CleanedKeeps DEF EmailIsIdentity, Known
  <2>6. TypeOK'
    <3>1. email' \in [Person -> Email \cup {None}]
      BY <2>1, <2>3, CleanedKeeps
    <3>2. QED
      BY <1>t, <2>1, <2>2, <2>3, <3>1 DEF TypeOK
  <2>7. PeriodsHavePeople'
    BY <1>5, <1>t, <2>1, <2>2 DEF ReplacePeople, PeriodsHavePeople, TypeOK
  <2>8. QED
    BY <2>4, <2>5, <2>6, <2>7 DEF IInv, ReferencesExist
<1>6. ASSUME NEW t \in Tenancy, NEW e \in Email, CreateTenancy(t, e) \/ UpdateTenancy(t, e)
      PROVE  IInv'
  <2>1. PICK x \in ResolvedOne(e) :
          /\ email' = WithPerson(x, e)
          /\ \/ tenant' = [tenant EXCEPT ![t] = x]
             \/ tenant' = [tenant EXCEPT ![t] = IF @ = None THEN None ELSE x]
    BY <1>6 DEF CreateTenancy, UpdateTenancy
  <2>2. UNCHANGED <<periods, owners, buildings, admin>>
    BY <1>6 DEF CreateTenancy, UpdateTenancy
  <2>3. x \in Person /\ Grown(WithPerson(x, e)) /\ WithPerson(x, e)[x] # None
    BY <1>t, OnePersonResolved
  <2>4. \A y \in Person : Referenced(y)' => Referenced(y) \/ WithPerson(x, e)[y] # None
    BY <1>t, <2>1, <2>2, <2>3, NoneAssumption DEF Referenced, TypeOK
  <2>5. tenant' \in [Tenancy -> Person \cup {None}]
    BY <1>t, <2>1, <2>3 DEF TypeOK
  <2>6. QED
    BY <1>t, <2>1, <2>2, <2>3, <2>4, <2>5, AddingKeeps DEF TypeOK, PeriodsHavePeople
<1>7. ASSUME NEW x \in Person, NEW e \in Email, UpdatePerson(x, e) PROVE IInv'
  <2>1. /\ email' = [email EXCEPT ![x] = e] /\ Known(x) /\ e # None
        /\ \A y \in Person \ {x} : email[y] # e
        /\ UNCHANGED <<periods, owners, tenant, buildings, admin>>
    BY <1>7, NoneAssumption DEF UpdatePerson
  <2>2. \A y \in Person : /\ Known(y)' <=> Known(y)
                          /\ Referenced(y)' <=> Referenced(y)
    BY <1>t, <2>1 DEF Known, Referenced, TypeOK
  <2>3. EmailIsIdentity'
    BY <1>t, <2>1 DEF EmailIsIdentity, Known, TypeOK
  <2>4. QED
    BY <1>t, <2>1, <2>2, <2>3
    DEF IInv, TypeOK, ReferencesExist, PeriodsHavePeople
<1>8. CASE DeleteStep
  <2>1. ASSUME NEW o \in Owned, DeletePeriod(o) PROVE IInv'
    BY <2>1, {o} \in SUBSET Owned, {} \in SUBSET Tenancy, {} \in SUBSET Building,
       DeletingKeeps
    DEF DeletePeriod
  <2>2. ASSUME NEW t \in Tenancy, DeleteTenancy(t) PROVE IInv'
    BY <2>2, {} \in SUBSET Owned, {t} \in SUBSET Tenancy, {} \in SUBSET Building,
       DeletingKeeps
    DEF DeleteTenancy
  <2>3. ASSUME NEW os \in SUBSET Owned, NEW ts \in SUBSET Tenancy,
               DeleteApartment(os, ts)
        PROVE  IInv'
    BY <2>3, {} \in SUBSET Building, DeletingKeeps DEF DeleteApartment
  <2>4. ASSUME NEW os \in SUBSET Owned, NEW ts \in SUBSET Tenancy, NEW b \in Building,
               DeleteBuilding(b, os, ts)
        PROVE  IInv'
    BY <2>4, {b} \in SUBSET Building, DeletingKeeps DEF DeleteBuilding
  <2>5. QED
    BY <1>8, <2>1, <2>2, <2>3, <2>4 DEF DeleteStep
<1>9. CASE UNCHANGED vars
  BY <1>9 DEF vars, IInv, TypeOK, ReferencesExist, EmailIsIdentity, PeriodsHavePeople,
              Known, Referenced
<1>10. QED
  BY <1>1, <1>2, <1>3, <1>4, <1>5, <1>6, <1>7, <1>8, <1>9
  DEF Next, BuildingStep, OwnerStep, TenancyStep, PersonStep

\* The inductive invariant holds in every reachable state.
THEOREM Invariance == Spec => []IInv
  BY InitIInv, StepIInv, PTL DEF Spec

-----------------------------------------------------------------------------
\* The columns hold what they declare, after any sequence of writes.
THEOREM TypeCorrect == Spec => []TypeOK
<1>1. IInv => TypeOK
  BY DEF IInv
<1>2. QED
  BY <1>1, Invariance, PTL

\* The cleanup never deletes somebody still in use.
THEOREM ReferencesKept == Spec => []ReferencesExist
<1>1. IInv => ReferencesExist
  BY DEF IInv
<1>2. QED
  BY <1>1, Invariance, PTL

\* An address is one person.
THEOREM OnePersonPerEmail == Spec => []EmailIsIdentity
<1>1. IInv => EmailIsIdentity
  BY DEF IInv
<1>2. QED
  BY <1>1, Invariance, PTL

\* A period keeps at least one person as long as it exists.
THEOREM PeopleOfPeriods == Spec => []PeriodsHavePeople
<1>1. IInv => PeriodsHavePeople
  BY DEF IInv
<1>2. QED
  BY <1>1, Invariance, PTL

-----------------------------------------------------------------------------
(* Who is collected, and who is not: what a step does to the references and to
   the rows together.  Here it matters that a new building has no administrator
   left over, nor a new period persons, whose reference the step would take.   *)

AdminsHaveBuildings == \A b \in Building : admin[b] # None => b \in buildings

LEMMA AdminInvariance == Spec => []AdminsHaveBuildings
<1>1. Init => AdminsHaveBuildings
  BY DEF Init, AdminsHaveBuildings
<1>2. IInv /\ AdminsHaveBuildings /\ [Next]_vars => AdminsHaveBuildings'
  <2> SUFFICES ASSUME IInv, AdminsHaveBuildings, [Next]_vars PROVE AdminsHaveBuildings'
    OBVIOUS
  <2>t. TypeOK
    BY DEF IInv
  <2>1. CASE BuildingStep
    BY <2>t, <2>1 DEF BuildingStep, CreateBuilding, CreateBuildingWithOwner,
                      UpdateBuildingAdmin, AdminsHaveBuildings, TypeOK
  <2>2. CASE OwnerStep \/ TenancyStep \/ PersonStep \/ UNCHANGED vars
    BY <2>2 DEF OwnerStep, CreatePeriod, ReplacePeople, TenancyStep, CreateTenancy,
                UpdateTenancy, PersonStep, UpdatePerson, AdminsHaveBuildings, vars
  <2>3. CASE DeleteStep
    BY <2>3 DEF DeleteStep, DeletePeriod, DeleteTenancy, DeleteApartment,
                DeleteBuilding, DeleteRows, AdminsHaveBuildings
  <2>4. QED
    BY <2>1, <2>2, <2>3 DEF Next
<1>3. QED
  BY <1>1, <1>2, Invariance, PTL DEF Spec

\* A person is deleted only with the last reference, ...
Collects(x) == Known(x) /\ ~ Known(x)' => Referenced(x) /\ ~ Referenced(x)'

\* ... and stays without one only if a row was pointed at somebody else.
Leaves(x) == Referenced(x) /\ ~ Referenced(x)' /\ Known(x)' => Repointed(x)

\* A step that deletes nobody and takes no reference but by pointing elsewhere.
LEMMA AddingCollects ==
  ASSUME NEW E, Grown(E), email' = E, NEW x \in Person,
         Referenced(x) => Referenced(x)' \/ Repointed(x)
  PROVE  Collects(x) /\ Leaves(x)
  BY DEF Collects, Leaves, Grown, Known

\* A step whose cleanup sees all those who lose a reference.
LEMMA CleaningCollects ==
  ASSUME NEW E, Grown(E), NEW G, email' = Cleaned(E, G), NEW x \in Person,
         x \in G => Referenced(x),
         Referenced(x) => Referenced(x)' \/ x \in G
  PROVE  Collects(x) /\ Leaves(x)
<1>1. email'[x] = IF x \in G /\ ~ Referenced(x)' THEN None ELSE E[x]
  BY DEF Cleaned
<1>2. QED
  BY <1>1 DEF Collects, Leaves, Grown, Known

LEMMA DeletingCollects ==
  ASSUME IInv, NEW os \in SUBSET Owned, NEW ts \in SUBSET Tenancy,
         NEW bs \in SUBSET Building, DeleteRows(os, ts, bs), NEW x \in Person
  PROVE  Collects(x) /\ Leaves(x)
<1> DEFINE G == Losing(os, ts, bs)
<1>1. Grown(email) /\ email' = Cleaned(email, G)
  BY SameIsGrown DEF IInv, DeleteRows
<1>2. x \in G <=> \/ \E o \in os : x \in owners[o]
                  \/ \E t \in ts : tenant[t] = x
                  \/ \E b \in bs : admin[b] = x
  BY DEF Losing
<1>3. x \in G => Referenced(x)
  BY <1>2 DEF Referenced
<1>4. Referenced(x) => Referenced(x)' \/ x \in G
  <2>1. ASSUME NEW o \in Owned, x \in owners[o], o \notin os PROVE x \in owners'[o]
    BY <2>1 DEF DeleteRows
  <2>2. ASSUME NEW t \in Tenancy, tenant[t] = x, t \notin ts PROVE tenant'[t] = x
    BY <2>2 DEF DeleteRows
  <2>3. ASSUME NEW b \in Building, admin[b] = x, b \notin bs PROVE admin'[b] = x
    BY <2>3 DEF DeleteRows
  <2>4. QED
    BY <1>2, <2>1, <2>2, <2>3 DEF Referenced
<1>5. QED
  BY <1>1, <1>3, <1>4, CleaningCollects

LEMMA StepCollects ==
  ASSUME IInv, AdminsHaveBuildings, [Next]_vars, NEW x \in Person
  PROVE  Collects(x) /\ Leaves(x)
<1>t. TypeOK /\ EmailIsIdentity /\ PeriodsHavePeople /\ x # None
  BY NoneAssumption DEF IInv
<1>1. ASSUME NEW b \in Building, NEW e \in Email \cup {None}, CreateBuilding(b, e)
      PROVE  Collects(x) /\ Leaves(x)
  <2>1. PICK f \in Resolved({e} \ {None}) : email' = WithPeople(f)
    BY <1>1 DEF CreateBuilding
  <2>2. Grown(WithPeople(f))
    BY <1>t, {e} \ {None} \in SUBSET Email, GroupResolved
  <2>3. Referenced(x) => Referenced(x)'
    BY <1>1, <1>t DEF CreateBuilding, Referenced, AdminsHaveBuildings, TypeOK
  <2>4. QED
    BY <2>1, <2>2, <2>3, AddingCollects
<1>2. ASSUME NEW b \in Building, NEW e \in Email \cup {None}, NEW o \in Owned,
             NEW es \in Group, CreateBuildingWithOwner(b, e, o, es)
      PROVE  Collects(x) /\ Leaves(x)
  <2>1. PICK f \in Resolved((es \cup {e}) \ {None}) : email' = WithPeople(f)
    BY <1>2 DEF CreateBuildingWithOwner
  <2>2. Grown(WithPeople(f))
    <3>1. (es \cup {e}) \ {None} \in SUBSET Email
      BY DEF Group
    <3>2. QED
      BY <1>t, <3>1, GroupResolved
  <2>3. Referenced(x) => Referenced(x)'
    <3>1. owners[o] = {} /\ admin[b] = None
      BY <1>2, <1>t DEF CreateBuildingWithOwner, PeriodsHavePeople, AdminsHaveBuildings
    <3>2. /\ \A p \in Owned \ {o} : owners'[p] = owners[p]
          /\ \A c \in Building \ {b} : admin'[c] = admin[c]
          /\ tenant' = tenant
      BY <1>2, <1>t DEF CreateBuildingWithOwner, TypeOK
    <3>3. QED
      BY <1>t, <3>1, <3>2 DEF Referenced
  <2>4. QED
    BY <2>1, <2>2, <2>3, AddingCollects
<1>3. ASSUME NEW b \in Building, NEW e \in Email, UpdateBuildingAdmin(b, e)
      PROVE  Collects(x) /\ Leaves(x)
  <2>1. PICK y \in ResolvedOne(e) : /\ email' = WithPerson(y, e)
                                   /\ admin' = [admin EXCEPT ![b] = y]
    BY <1>3 DEF UpdateBuildingAdmin
  <2>2. y \in Person /\ y # None /\ Grown(WithPerson(y, e))
    BY <1>t, OnePersonResolved, NoneAssumption
  <2>3. Referenced(x) => Referenced(x)' \/ Repointed(x)
    BY <1>3, <1>t, <2>1, <2>2 DEF UpdateBuildingAdmin, Referenced, Repointed, TypeOK
  <2>4. QED
    BY <2>1, <2>2, <2>3, AddingCollects
<1>4. ASSUME NEW o \in Owned, NEW es \in Group, CreatePeriod(o, es)
      PROVE  Collects(x) /\ Leaves(x)
  <2>1. PICK f \in Resolved(es) : email' = WithPeople(f)
    BY <1>4 DEF CreatePeriod
  <2>2. Grown(WithPeople(f))
    BY <1>t, GroupResolved DEF Group
  <2>3. Referenced(x) => Referenced(x)'
    <3>1. owners[o] = {} /\ \A p \in Owned \ {o} : owners'[p] = owners[p]
      BY <1>4, <1>t DEF CreatePeriod, PeriodsHavePeople, TypeOK
    <3>2. QED
      BY <1>4, <3>1 DEF CreatePeriod, Referenced
  <2>4. QED
    BY <2>1, <2>2, <2>3, AddingCollects
<1>5. ASSUME NEW o \in Owned, NEW es \in Group, ReplacePeople(o, es)
      PROVE  Collects(x) /\ Leaves(x)
  <2>1. PICK f \in Resolved(es) :
          /\ owners' = [owners EXCEPT ![o] = Range(f)]
          /\ UNCHANGED <<periods, tenant, buildings, admin>>
          /\ email' = Cleaned(WithPeople(f), owners[o] \ Range(f))
    BY <1>5 DEF ReplacePeople
  <2>2. Grown(WithPeople(f))
    BY <1>t, GroupResolved DEF Group
  <2>3. x \in owners[o] \ Range(f) => Referenced(x)
    BY DEF Referenced
  <2>4. Referenced(x) => Referenced(x)' \/ x \in owners[o] \ Range(f)
    BY <1>t, <2>1 DEF Referenced, TypeOK
  <2>5. QED
    BY <2>1, <2>2, <2>3, <2>4, CleaningCollects
<1>6. ASSUME NEW t \in Tenancy, NEW e \in Email, CreateTenancy(t, e) \/ UpdateTenancy(t, e)
      PROVE  Collects(x) /\ Leaves(x)
  <2>1. PICK y \in ResolvedOne(e) :
          /\ email' = WithPerson(y, e)
          /\ \/ tenant[t] = None /\ tenant' = [tenant EXCEPT ![t] = y]
             \/ tenant' = [tenant EXCEPT ![t] = IF @ = None THEN None ELSE y]
    BY <1>6 DEF CreateTenancy, UpdateTenancy
  <2>2. UNCHANGED <<owners, admin>>
    BY <1>6 DEF CreateTenancy, UpdateTenancy
  <2>3. y \in Person /\ y # None /\ Grown(WithPerson(y, e))
    BY <1>t, OnePersonResolved, NoneAssumption
  <2>4. Referenced(x) => Referenced(x)' \/ Repointed(x)
    BY <1>t, <2>1, <2>2, <2>3 DEF Referenced, Repointed, TypeOK
  <2>5. QED
    BY <2>1, <2>3, <2>4, AddingCollects
<1>7. ASSUME NEW y \in Person, NEW e \in Email, UpdatePerson(y, e)
      PROVE  Collects(x) /\ Leaves(x)
  <2>1. email' = [email EXCEPT ![y] = e] /\ e # None /\ Known(y)
        /\ UNCHANGED <<owners, tenant, admin>>
    BY <1>7, NoneAssumption DEF UpdatePerson
  <2>2. (Known(x)' <=> Known(x)) /\ (Referenced(x)' <=> Referenced(x))
    BY <1>t, <2>1 DEF Known, Referenced, TypeOK
  <2>3. QED
    BY <2>2 DEF Collects, Leaves
<1>8. CASE DeleteStep
  <2>1. ASSUME NEW o \in Owned, DeletePeriod(o) PROVE Collects(x) /\ Leaves(x)
    BY <2>1, {o} \in SUBSET Owned, {} \in SUBSET Tenancy, {} \in SUBSET Building,
       DeletingCollects
    DEF DeletePeriod
  <2>2. ASSUME NEW t \in Tenancy, DeleteTenancy(t) PROVE Collects(x) /\ Leaves(x)
    BY <2>2, {} \in SUBSET Owned, {t} \in SUBSET Tenancy, {} \in SUBSET Building,
       DeletingCollects
    DEF DeleteTenancy
  <2>3. ASSUME NEW os \in SUBSET Owned, NEW ts \in SUBSET Tenancy,
               DeleteApartment(os, ts)
        PROVE  Collects(x) /\ Leaves(x)
    BY <2>3, {} \in SUBSET Building, DeletingCollects DEF DeleteApartment
  <2>4. ASSUME NEW os \in SUBSET Owned, NEW ts \in SUBSET Tenancy, NEW b \in Building,
               DeleteBuilding(b, os, ts)
        PROVE  Collects(x) /\ Leaves(x)
    BY <2>4, {b} \in SUBSET Building, DeletingCollects DEF DeleteBuilding
  <2>5. QED
    BY <1>8, <2>1, <2>2, <2>3, <2>4 DEF DeleteStep
<1>9. CASE UNCHANGED vars
  BY <1>9 DEF vars, Collects, Leaves, Known, Referenced
<1>10. QED
  BY <1>1, <1>2, <1>3, <1>4, <1>5, <1>6, <1>7, <1>8, <1>9
  DEF Next, BuildingStep, OwnerStep, TenancyStep, PersonStep

-----------------------------------------------------------------------------
\* The cleanup triggers take a person along exactly with the last reference,
\* whatever cascade they fire in.
THEOREM CollectedWithTheLastReference == Spec => PersonGoesWithLastReference
<1>1. IInv /\ AdminsHaveBuildings /\ [Next]_vars =>
        [\A x \in Person :
           Known(x) /\ ~ Known(x)' => Referenced(x) /\ ~ Referenced(x)']_vars
  BY StepCollects DEF Collects
<1>2. QED
  BY <1>1, Invariance, AdminInvariance, PTL DEF Spec, PersonGoesWithLastReference

\* Only an UPDATE that points a row at somebody else leaves a person behind.
THEOREM OrphansAreRepointed == Spec => OrphanedOnlyByRepointing
<1>1. IInv /\ AdminsHaveBuildings /\ [Next]_vars =>
        [\A x \in Person :
           Referenced(x) /\ ~ Referenced(x)' /\ Known(x)' => Repointed(x)]_vars
  BY StepCollects DEF Leaves
<1>2. QED
  BY <1>1, Invariance, AdminInvariance, PTL DEF Spec, OrphanedOnlyByRepointing
=============================================================================
