------------------------- MODULE LessonMoneyClaims --------------------------
(* Statements the repository's comments and documents make about bookings   *)
(* and payments, as properties of LessonMoney.  The runs that check them    *)
(* end in a counterexample: the code does something else.                   *)
EXTENDS LessonMoney

\* openapi.yaml, cancel: "an authorized intent is refunded in full (the hold is
\* released)": once no request runs, a cancelled booking holds no money.
CancelledHoldsNoMoney ==
  AtRest => \A b \in Bookings :
    status[b] = "cancelled" => payment[b].status \notin {"authorized", "captured"}

\* Migration 000005: no transition leaves refunded; in particular money that
\* went back to the student is never captured afterwards.
RefundedIsNotCaptured ==
  [][\A b \in Bookings :
       payment[b].status = "refunded" => payment'[b].status # "captured"]_vars
=============================================================================
