--------------------------- MODULE EarningsPromise ---------------------------
(***************************************************************************)
(* What the platform promises about a teacher's earning for one lesson,    *)
(* independently of payments, webhooks and requests: it is credited at     *)
(* most once, it matures through the clearing window, and it leaves the    *)
(* open states exactly once, either paid out or reversed.                  *)
(***************************************************************************)

CONSTANT Bookings      \* the lessons that may earn something

VARIABLE earning       \* Bookings -> the earning's effective state

EarningState == {"none", "held", "available", "paid", "reversed"}

EarningType == earning \in [Bookings -> EarningState]

PromiseInit == earning = [b \in Bookings |-> "none"]

Credit(b) == /\ earning[b] = "none"
             /\ earning' = [earning EXCEPT ![b] = "held"]

Mature(b) == /\ earning[b] = "held"
             /\ earning' = [earning EXCEPT ![b] = "available"]

Reverse(b) == /\ earning[b] \in {"held", "available"}
              /\ earning' = [earning EXCEPT ![b] = "reversed"]

\* A payout run settles a set of matured earnings in one step.
Settle(S) == /\ \A b \in S : earning[b] = "available"
             /\ earning' = [b \in Bookings |-> IF b \in S THEN "paid" ELSE earning[b]]

PromiseNext == \/ \E b \in Bookings : Credit(b) \/ Mature(b) \/ Reverse(b)
               \/ \E S \in (SUBSET Bookings) \ {{}} : Settle(S)

Promise == PromiseInit /\ [][PromiseNext]_earning
==============================================================================
