------------------------------ MODULE MCPaging ------------------------------
(***************************************************************************)
(* Dashboard, and Paging with it, on three payments of two merchants over  *)
(* two timestamps, each a day of its own, with pages of one payment.       *)
(***************************************************************************)
EXTENDS Dashboard, TLC

CONSTANTS m1, m2

MCMerchants == {m1, m2}
MCKinds     == {[currency |-> "GBP", amount |-> 10]}

(* No operation tells two merchants apart.                                 *)
MCSymmetry == Permutations(MCMerchants)

(* No filter, one merchant, one status, the older half.                    *)
MCAskedFilters ==
    {NoFilters} \cup {[NoFilters EXCEPT !.merchant = m] : m \in MCMerchants} \cup
    {[NoFilters EXCEPT !.status = "authorized"],
     [NoFilters EXCEPT !.to = 0]}

=============================================================================
