------------------------------- MODULE MCKehrwoche -------------------------------
(* Kehrwoche for TLC: the apartments are interchangeable. *)
EXTENDS Kehrwoche

ApartmentSymmetry == Permutations(Apartment)
=============================================================================
