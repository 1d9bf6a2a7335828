-------------------------------- MODULE MCPeople --------------------------------
(* People for TLC.  Ids, addresses and rows of one kind are interchangeable; as
   many ids as addresses, so that a new address always finds a free id.       *)
EXTENDS People, TLC

Symmetry ==
  Permutations(Person) \cup Permutations(Email) \cup Permutations(Owned)
    \cup Permutations(Tenancy)
=============================================================================
