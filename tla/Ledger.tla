------------------------------- MODULE Ledger -------------------------------
(***************************************************************************)
(* What Gripe's Store interface (internal/store/store.go) promises of the  *)
(* money: every operation is one atomic step on three tables, payments,    *)
(* refunds and merchant balances.  PostgresStore and MongoStore, which     *)
(* take several steps per operation, are shown to implement this module.   *)
(***************************************************************************)
EXTENDS LedgerRows, Sums

VARIABLES
    payment,        \* the payments table, a function on the ids in use
    refund,         \* the refunds table, likewise
    balance,        \* the merchant_balances table; a missing row reads 0, 0
    credited        \* history: the payments whose settlement was credited

vars == <<payment, refund, balance, credited>>

TypeOK ==
    /\ DOMAIN payment \subseteq PaymentIds
    /\ payment \in [DOMAIN payment -> PaymentRows]
    /\ DOMAIN refund \subseteq RefundIds
    /\ refund \in [DOMAIN refund -> RefundRows]
    /\ \A r \in DOMAIN refund : refund[r].payment \in DOMAIN payment
    /\ balance \in [Accounts -> BalanceRows]
    /\ credited \subseteq DOMAIN payment

-----------------------------------------------------------------------------
Init ==
    /\ payment = NoRows
    /\ refund = NoRows
    /\ balance = [a \in Accounts |-> [balance |-> 0, fees |-> 0]]
    /\ credited = {}

CreatePayment(p, acct, amt, method) ==
    /\ p \notin DOMAIN payment
    /\ payment' = Insert(payment, p, NewPayment(acct, amt, method))
    /\ UNCHANGED <<refund, balance, credited>>

\* Mutant: capture without its status guard.
CaptureAnyPayment(p) ==
    /\ p \in DOMAIN payment
    /\ payment' = [payment EXCEPT ![p].status = "captured"]
    /\ UNCHANGED <<refund, balance, credited>>

CapturePayment(p) ==
    /\ p \in DOMAIN payment
    /\ payment[p].status = "authorized"
    /\ payment' = [payment EXCEPT ![p].status = "captured"]
    /\ UNCHANGED <<refund, balance, credited>>

SettlePayment(p) ==
    /\ p \in DOMAIN payment
    /\ Settleable(payment[p])
    /\ payment' = [payment EXCEPT ![p].status = "settled"]
    /\ balance' = [balance EXCEPT ![payment[p].account] = Credit(@, payment[p].amount)]
    /\ credited' = credited \cup {p}
    /\ UNCHANGED refund

RefundPayment(p, r, amt) ==
    /\ p \in DOMAIN payment
    /\ r \notin DOMAIN refund
    /\ Refundable(payment[p], amt)
    /\ payment' = [payment EXCEPT ![p] = Refunded(@, amt)]
    /\ refund' = Insert(refund, r, NewRefund(p, amt))
    /\ UNCHANGED <<balance, credited>>

SettleRefund(r) ==
    /\ r \in DOMAIN refund
    /\ refund[r].status = "created"
    /\ refund' = [refund EXCEPT ![r].status = "settled"]
    /\ balance' = [balance EXCEPT ![payment[refund[r].payment].account] =
                     Debit(@, refund[r].amount)]
    /\ UNCHANGED <<payment, credited>>

(* The first fee sticks; it never moves a balance.                         *)
SettleNetworkFee(p) ==
    /\ p \in DOMAIN payment
    /\ payment[p].networkFee = 0
    /\ payment' = [payment EXCEPT ![p].networkFee = MockNetworkFee(payment[p].amount)]
    /\ UNCHANGED <<refund, balance, credited>>

Next ==
    \/ \E p \in PaymentIds :
          \/ \E acct \in Accounts, amt \in Amounts, method \in PaymentMethods :
                CreatePayment(p, acct, amt, method)
          \/ CapturePayment(p)
          \/ SettlePayment(p)
          \/ \E r \in RefundIds, amt \in RefundAmounts : RefundPayment(p, r, amt)
          \/ SettleNetworkFee(p)
    \/ \E r \in RefundIds : SettleRefund(r)

Spec == Init /\ [][Next]_vars

-----------------------------------------------------------------------------
(* The entries behind account a: what each payment was credited and each   *)
(* settled refund gave back, as gross, fee and count columns.              *)
CreditedTo(a, p)  == p \in credited /\ payment[p].account = a
DebitedFrom(a, r) ==
    /\ r \in DOMAIN refund
    /\ refund[r].status = "settled"
    /\ payment[refund[r].payment].account = a

NetCredits(a) == [p \in PaymentIds |-> IF CreditedTo(a, p) THEN Net(payment[p].amount) ELSE 0]
FeeCredits(a) == [p \in PaymentIds |-> IF CreditedTo(a, p) THEN GripeFee(payment[p].amount) ELSE 0]
NetDebits(a)  == [r \in RefundIds  |-> IF DebitedFrom(a, r) THEN Net(refund[r].amount) ELSE 0]
FeeDebits(a)  == [r \in RefundIds  |-> IF DebitedFrom(a, r) THEN GripeFee(refund[r].amount) ELSE 0]

CreditCount(a) == [p \in PaymentIds |-> IF CreditedTo(a, p) THEN 1 ELSE 0]
DebitCount(a)  == [r \in RefundIds  |-> IF DebitedFrom(a, r) THEN 1 ELSE 0]

(* What was refunded of payment p, by refund.                              *)
RefundsOf(p) ==
    [r \in RefundIds |-> IF r \in DOMAIN refund /\ refund[r].payment = p
                           THEN refund[r].amount ELSE 0]

(* Every balance row equals the settlements behind it: each payment that   *)
(* ever settled is credited net of its fee exactly once, each settled      *)
(* refund debited exactly once, and nothing else moves a balance.          *)
Reconciled ==
    \A a \in Accounts :
       /\ balance[a].balance = Total(NetCredits(a), MaxPayments) - Total(NetDebits(a), MaxRefunds)
       /\ balance[a].fees    = Total(FeeCredits(a), MaxPayments) - Total(FeeDebits(a), MaxRefunds)

(* Half-even rounding per posting never strays further from 3% of the      *)
(* money moved than half a minor unit per posting, however the refunds are *)
(* sliced.  (10000 * half a unit = 5000.)                                  *)
FeeDriftBounded ==
    \A a \in Accounts :
       LET gross    == balance[a].balance + balance[a].fees
           drift    == 10000 * balance[a].fees - GripeFeeBasisPoints * gross
           postings == Total(CreditCount(a), MaxPayments) + Total(DebitCount(a), MaxRefunds)
       IN  -5000 * postings <= drift /\ drift <= 5000 * postings

(* refunded_minor is the sum of the payment's refunds, never more than its *)
(* amount, and the payment reads 'refunded' exactly when nothing is left,  *)
(* whatever settlements came between the refunds.                          *)
RefundsAddUp ==
    \A p \in DOMAIN payment :
       /\ payment[p].refunded = Total(RefundsOf(p), MaxRefunds)
       /\ payment[p].refunded <= payment[p].amount
       /\ payment[p].status = "refunded" <=> payment[p].refunded = payment[p].amount

(* A payment reads 'settled' only with its credit booked, and one that was *)
(* credited can only go on to be refunded.                                 *)
CreditMatchesStatus ==
    \A p \in DOMAIN payment :
       /\ payment[p].status = "settled" => p \in credited
       /\ p \in credited => payment[p].status \in {"settled", "refunded"}

(* The moves of a payment's life; declined and refunded are final.         *)
Moves == {<<"authorized", "captured">>, <<"captured", "settled">>, <<"pending", "settled">>,
          <<"captured", "refunded">>, <<"settled", "refunded">>}

(* No step loses a payment, moves it backwards, shrinks what was refunded, *)
(* or changes its account, its amount or a network fee once set.           *)
PaymentsOnlyMoveForward ==
    [][\A p \in DOMAIN payment :
          /\ p \in DOMAIN payment'
          /\ \/ payment'[p].status = payment[p].status
             \/ <<payment[p].status, payment'[p].status>> \in Moves
          /\ payment'[p].refunded >= payment[p].refunded
          /\ payment'[p].account = payment[p].account
          /\ payment'[p].amount = payment[p].amount
          /\ payment[p].networkFee # 0 => payment'[p].networkFee = payment[p].networkFee]_vars

=============================================================================
