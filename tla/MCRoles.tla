------------------------------- MODULE MCRoles -------------------------------
(* Roles for TLC.                                                           *)
EXTENDS Roles, TLC

Symmetry == Permutations(Calls) \cup Permutations(RoleIds)
==============================================================================
