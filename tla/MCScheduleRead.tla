----------------------------- MODULE MCScheduleRead -----------------------------
(* ScheduleRead for TLC: the apartments are interchangeable. *)
EXTENDS ScheduleRead

ApartmentSymmetry == Permutations(Apartment)
=============================================================================
