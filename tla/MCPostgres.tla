----------------------------- MODULE MCPostgres -----------------------------
(***************************************************************************)
(* PostgresStore with two sessions that meet on one payment, one balance   *)
(* row and one merchant.                                                   *)
(***************************************************************************)
EXTENDS PostgresStore, TLC

CONSTANTS s1, s2, alice, shop, shopUSD

MCSessions   == {s1, s2}
MCAccounts   == {shopUSD}
MCCustomers  == {alice}
MCMerchantOf == [a \in MCAccounts |-> shop]
(* Sessions are interchangeable; not used where liveness is checked.       *)
SessionSymmetry == Permutations(MCSessions)

MCMethods    == {"direct_debit", "bank_transfer"}
MCAmounts    == {100}
MCRefundAmounts == {50, 100}

=============================================================================
