----------------------------- MODULE Purchases -----------------------------
(***************************************************************************)
(* What billing promises, however many webhook calls overlap, repeat, fail *)
(* or roll back: an order is placed once, and each Creem event counts for  *)
(* its order once, in one atomic step that marks the order paid and adds   *)
(* the credits of its pack to what its owner had just before.  Billing,    *)
(* where a credit takes seven statements of a transaction, implements this *)
(* specification.                                                          *)
(***************************************************************************)
EXTENDS Naturals

CONSTANTS Orders, Events, Users, Packs,
          Worth,   \* pack -> credits
          None

VARIABLES
    order,   \* order -> its status, owner and pack
    used,    \* events that have been applied
    credits  \* user -> credits

Init ==
    /\ order = [o \in Orders |-> [status |-> "absent", user |-> None, pack |-> None]]
    /\ used = {}
    /\ credits = [u \in Users |-> 0]

Place(o, u, k) ==
    /\ order[o].status = "absent"
    /\ order' = [order EXCEPT ![o] = [status |-> "pending", user |-> u, pack |-> k]]
    /\ UNCHANGED <<used, credits>>

Credit(o, e) ==
    /\ order[o].status # "absent"
    /\ e \notin used
    /\ order' = [order EXCEPT ![o].status = "paid"]
    /\ used' = used \cup {e}
    /\ credits' = [credits EXCEPT ![order[o].user] = @ + Worth[order[o].pack]]

Next ==
    \/ \E o \in Orders, u \in Users, k \in Packs : Place(o, u, k)
    \/ \E o \in Orders, e \in Events : Credit(o, e)

Spec == Init /\ [][Next]_<<order, used, credits>>

=============================================================================
