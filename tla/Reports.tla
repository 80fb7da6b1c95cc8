------------------------------- MODULE Reports ------------------------------
(***************************************************************************)
(* The balance reads of both stores over the ledger's tables: a merchant's *)
(* own balances, the admin's list of all of them, and Gripe's revenue.     *)
(* (AdminVolumeReport reads the payments only: module Paging.)             *)
(***************************************************************************)
EXTENDS Ledger, Functions

CONSTANTS
    MerchantOf,     \* the merchant and
    CurrencyOf      \* the currency of each account

(* The accounts with a balance row: the first posting inserts it.          *)
Posted == {a \in Accounts : \/ \E p \in PaymentIds : CreditedTo(a, p)
                            \/ \E r \in RefundIds : DebitedFrom(a, r)}

BalanceRowsOf(S) == [a \in Posted \cap S |-> balance[a]]

GetMerchantBalances(m) == BalanceRowsOf({a \in Accounts : MerchantOf[a] = m})
AdminBalanceReport     == BalanceRowsOf(Accounts)

\* Mutant: fees summed without grouping by currency.
AdminRevenueUngrouped ==
    [cur \in {CurrencyOf[a] : a \in Posted} |-> SumFunction([a \in Posted |-> balance[a].fees])]

AdminRevenueReport ==
    [cur \in {CurrencyOf[a] : a \in Posted} |->
       SumFunction([a \in {b \in Posted : CurrencyOf[b] = cur} |-> balance[a].fees])]

-----------------------------------------------------------------------------
(* What settled in a currency, net of the refunds that settled: the        *)
(* amounts of the payments and of the refunds, in columns.                 *)
SettledIn(cur) ==
    LET paid   == [p \in PaymentIds |->
                     IF p \in credited /\ CurrencyOf[payment[p].account] = cur
                       THEN payment[p].amount ELSE 0]
        repaid == [r \in RefundIds |->
                     IF /\ r \in DOMAIN refund /\ refund[r].status = "settled"
                        /\ CurrencyOf[payment[refund[r].payment].account] = cur
                       THEN refund[r].amount ELSE 0]
    IN  Total(paid, MaxPayments) - Total(repaid, MaxRefunds)

(* What merchant m reads as its balance in cur.                            *)
Holding(m, cur) ==
    SumFunction([a \in {b \in DOMAIN GetMerchantBalances(m) : CurrencyOf[b] = cur} |->
                   GetMerchantBalances(m)[a].balance])

(* In each currency the merchants' balances, read merchant by merchant,    *)
(* and Gripe's revenue make up exactly the money settled: no unit is lost  *)
(* to rounding, counted for two merchants or moved to another currency.    *)
BooksBalance ==
    \A cur \in DOMAIN AdminRevenueReport :
       LET holdings == [m \in {MerchantOf[a] : a \in DOMAIN AdminBalanceReport} |-> Holding(m, cur)]
       IN  SumFunction(holdings) + AdminRevenueReport[cur] = SettledIn(cur)

=============================================================================
