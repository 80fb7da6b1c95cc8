------------------------------ MODULE MCMongo -------------------------------
(***************************************************************************)
(* MongoStore with two sessions that meet on one payment, its refunds, one *)
(* balance and one merchant.                                               *)
(***************************************************************************)
EXTENDS MongoStore, TLC

CONSTANTS s1, s2, alice, shop, shopUSD

MCSessions   == {s1, s2}
MCAccounts   == {shopUSD}
MCCustomers  == {alice}
MCMerchantOf == [a \in MCAccounts |-> shop]
(* Sessions are interchangeable, and no liveness is checked here.          *)
SessionSymmetry == Permutations(MCSessions)

MCMethods    == {"direct_debit", "bank_transfer"}
MCAmounts    == {100}
MCRefundAmounts == {50, 100}

=============================================================================
