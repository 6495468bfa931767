--------------------------- MODULE MCTeacherRating ---------------------------
(* TeacherRating for TLC.                                                   *)
EXTENDS TeacherRating, TLC

Symmetry == Permutations(Writers) \cup Permutations(Bookings)
==============================================================================
