------------------------------ MODULE MCOwnership ------------------------------
(* Ownership for TLC: one building (buildings share no state), its apartments
   interchangeable, and at most MaxRows periods in all chains together.      *)
EXTENDS Ownership, FiniteSetsExt, TLC

CONSTANT MaxRows        \* bound of the chains

ApartmentSymmetry == Permutations(Apartment)

FewRows ==
  MapThenSumSet(LAMBDA a : Cardinality(ownerships[a]), Apartment)
    + MapThenSumSet(LAMBDA b : Cardinality(buildingOwners[b]), Building) <= MaxRows
=============================================================================
