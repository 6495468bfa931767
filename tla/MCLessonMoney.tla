--------------------------- MODULE MCLessonMoney ----------------------------
(* LessonMoney on small instances: bookings and request slots as model      *)
(* values, so that both may be permuted in runs that check only safety.     *)
EXTENDS LessonMoneyClaims, TLC

Symmetry == Permutations(Requests) \cup Permutations(Bookings)

LifecycleOps == {"create", "pay", "complete", "cancel"}
RacingOps    == LifecycleOps \cup {"force_keep"}
RefundingOps == OpNames \ {"force_keep"}
=============================================================================
