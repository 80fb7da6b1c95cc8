-------------------------------- MODULE MCApi -------------------------------
(***************************************************************************)
(* Api with three calls under two keys: the owner of payment 1, another    *)
(* merchant, a customer and an admin meet on it and on one subscription.   *)
(***************************************************************************)
EXTENDS Api, TLC

CONSTANTS c1, c2, c3, k1, k2, shop, cafe, alice

MCCalls     == {c1, c2, c3}
MCKeys      == {k1, k2}
MCAccounts  == {shop, cafe}
MCCustomers == {alice}

Is(role, id) == [role |-> role, id |-> id]

(* Captures and cancellations share the empty body.  The shop owns payment *)
(* 1 and the subscription in one initial state, the cafe in the other.     *)
MCRequests ==
    {[op |-> "create", actor |-> Is("customer", alice), merchant |-> shop, amount |-> 100],
     [op |-> "subscribe", actor |-> Is("admin", Admin), merchant |-> shop, customer |-> alice],
     [op |-> "subscribe", actor |-> Is("merchant", cafe), merchant |-> shop, customer |-> alice],
     [op |-> "capture", actor |-> Is("merchant", shop), id |-> 1],
     [op |-> "refund", actor |-> Is("merchant", shop), id |-> 1, amount |-> 50],
     [op |-> "cancel", actor |-> Is("merchant", shop), id |-> 1]}

(* Calls and keys are interchangeable.                                     *)
MCSymmetry == Permutations(MCCalls) \cup Permutations(MCKeys)

=============================================================================
