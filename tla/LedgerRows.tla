----------------------------- MODULE LedgerRows -----------------------------
(***************************************************************************)
(* The rows of the three money tables and what one write does to a row,    *)
(* shared by Ledger and by the two backends that implement it.             *)
(*                                                                         *)
(* An account is a (merchant, currency) pair, the key of a balance row.    *)
(* Rows are numbered 1, 2, ... here; the program draws random ids.         *)
(***************************************************************************)
EXTENDS GripeDomain, FiniteSets

CONSTANTS
    Accounts,       \* the (merchant, currency) pairs
    MaxPayments,    \* bound: payment rows ever created
    MaxRefunds,     \* bound: refund rows ever created
    Amounts,        \* the amounts a payment may have
    RefundAmounts   \* the amounts a refund may ask for

ASSUME AccountsAssumption == IsFiniteSet(Accounts)
ASSUME BoundsAssumption   == MaxPayments \in Nat /\ MaxRefunds \in Nat
(* The store refuses an amount that is not positive.                       *)
ASSUME AmountsAssumption  == Amounts \subseteq Nat \ {0} /\ RefundAmounts \subseteq Nat \ {0}

-----------------------------------------------------------------------------
PaymentIds == 1..MaxPayments
RefundIds  == 1..MaxRefunds

(* A payment row; networkFee 0 stands for "not set yet".                   *)
PaymentRows ==
    [account : Accounts, amount : Nat \ {0}, status : PaymentStatuses,
     refunded : Nat, networkFee : Nat]
RefundRows  == [payment : PaymentIds, amount : Nat \ {0}, status : RefundStatuses]
BalanceRows == [balance : Int, fees : Int]

NoRows == [i \in {} |-> {}]

Insert(table, id, row) ==
    [i \in DOMAIN table \cup {id} |-> IF i = id THEN row ELSE table[i]]

NewPayment(acct, amt, method) ==
    [account |-> acct, amount |-> amt, status |-> InitialStatus(method, amt),
     refunded |-> 0, networkFee |-> 0]

\* Mutant: the refund takes the payment's status instead of its own.
NewRefundWithPaymentStatus(p, amt) == [payment |-> p, amount |-> amt, status |-> "captured"]

NewRefund(p, amt) == [payment |-> p, amount |-> amt, status |-> "created"]

(* The row after amt more of it is refunded; the last unit flips it.       *)
Refunded(row, amt) ==
    [row EXCEPT !.refunded = @ + amt,
                !.status   = IF row.refunded + amt = row.amount THEN "refunded" ELSE @]

\* Mutant: the check forgets what was refunded before.
RefundableOnce(row, amt) ==
    /\ row.status \in {"captured", "settled"}
    /\ amt <= row.amount

Refundable(row, amt) ==
    /\ row.status \in {"captured", "settled"}
    /\ row.refunded + amt <= row.amount

\* Mutants: a settled payment settles again; a declined one settles.
SettleableAgain(row)    == row.status \in {"captured", "pending", "settled"}
SettleableDeclined(row) == row.status \in {"captured", "pending", "declined"}

Settleable(row) == row.status \in {"captured", "pending"}

(* A balance row moved by deltaBalance and deltaFees.                      *)
Moved(row, deltaBalance, deltaFees) ==
    [row EXCEPT !.balance = @ + deltaBalance, !.fees = @ + deltaFees]

(* A settled payment is credited net of the fee; a settled refund gives    *)
(* back the same function of the refunded slice.                           *)
Credit(row, amt) == Moved(row, Net(amt), GripeFee(amt))
Debit(row, amt)  == Moved(row, -Net(amt), -GripeFee(amt))

=============================================================================
