------------------------------ MODULE MCLedger ------------------------------
(***************************************************************************)
(* Ledger and Reports on a small instance: a shop with two currencies and  *)
(* a cafe with one of them, two payments, two refunds.                     *)
(* 100 has an exact fee (3), 50 sits on a half (1.5), 113 ends in the      *)
(* decline tail and has a fee rounded down (3.39).                         *)
(***************************************************************************)
EXTENDS Reports, TLC

CONSTANTS shopUSD, shopEUR, cafeEUR

MCAccounts == {shopUSD, shopEUR, cafeEUR}
MCMerchantOf == [a \in MCAccounts |-> IF a = cafeEUR THEN "cafe" ELSE "shop"]
MCCurrencyOf == [a \in MCAccounts |-> IF a = shopUSD THEN "USD" ELSE "EUR"]
MCAmounts  == {50, 100, 113}
MCRefundAmounts == {50, 100}

=============================================================================
