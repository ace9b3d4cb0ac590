------------------------------ MODULE MCBilling ------------------------------
(* Instances of Billing for TLC. *)
EXTENDS Billing, TLC

CONSTANTS u1, u2, o1, o2, e1, e2, e3, small, large

MCPrice == (small :> 500) @@ (large :> 1500)

Completed(e, o, req, k, cents) ==
    [type |-> "checkout.completed", event |-> e, request |-> req,
     checkout |-> o, pack |-> k, amount |-> cents, usd |-> TRUE]

\* One event per order.  Whatever pack the order is for, one body of the event
\* fits it and the others must be refused; the second order's event carries no
\* request id.
OneEvent ==
    { Completed(e1, o1, o1, small, 500), Completed(e1, o1, o1, large, 1500),
      Completed(e2, o2, None, small, 500), Completed(e2, o2, None, large, 1500) }

\* Bodies that must not credit anything.
Refused ==
    { Completed(e1, o1, o1, small, None),
      [Completed(e1, o1, o1, small, 500) EXCEPT !.usd = FALSE],
      Completed(e1, o1, o1, None, 500),
      [Completed(e2, o2, None, small, 500) EXCEPT !.type = "other"],
      [Completed(e2, o2, None, small, 500) EXCEPT !.type = "malformed"] }

OneEventOrRefused == OneEvent \cup Refused

\* Two event ids for the first order.
TwoEvents ==
    { p \in OneEvent : p.checkout = o1 } \cup
    { Completed(e3, o1, o1, small, 500), Completed(e3, o1, o1, large, 1500) }
=============================================================================
