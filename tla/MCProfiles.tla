------------------------------ MODULE MCProfiles ------------------------------
(* Profiles for TLC.                                                         *)
EXTENDS Profiles, TLC

Symmetry == Permutations(Requests) \cup Permutations(Slugs)
==============================================================================
