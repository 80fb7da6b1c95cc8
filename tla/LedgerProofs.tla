---------------------------- MODULE LedgerProofs ----------------------------
(***************************************************************************)
(* Proofs about Ledger and Reports, for every set of accounts and amounts, *)
(* any number of payments and refunds, merchants and currencies: the type  *)
(* invariant, that every balance row is explained, to the minor unit, by   *)
(* the settlements booked, and that the reports add up to what settled;    *)
(* and about the width of integers that the fee formula needs.             *)
(***************************************************************************)
EXTENDS Reports, SumLemmas

-----------------------------------------------------------------------------
(* The fee formula: a fee is a natural number, at most the amount, and     *)
(* within half a minor unit of 3% of it.                                   *)
LEMMA FeeFacts ==
    ASSUME NEW amt \in Nat
    PROVE  /\ GripeFee(amt) \in Nat
           /\ GripeFee(amt) <= amt
           /\ Net(amt) \in Nat
           /\ Net(amt) + GripeFee(amt) = amt
           /\ 10000 * GripeFee(amt) - 300 * amt <= 5000
           /\ -5000 <= 10000 * GripeFee(amt) - 300 * amt
<1> DEFINE n == amt * 300
           q == n \div 10000
           r == n % 10000
<1>1. n \in Nat /\ q \in Nat /\ r \in 0..9999 /\ n = 10000 * q + r
  OBVIOUS
<1>2. GripeFee(amt) = IF 2 * r < 10000 \/ (2 * r = 10000 /\ q % 2 = 0) THEN q ELSE q + 1
  BY DEF GripeFee, DivHalfEven, GripeFeeBasisPoints
<1>3. n = 300 * amt
  OBVIOUS
<1> HIDE DEF n, q, r
<1>4. GripeFee(amt) \in Nat
  BY <1>1, <1>2
<1>5. 10000 * GripeFee(amt) - 300 * amt <= 5000 /\ -5000 <= 10000 * GripeFee(amt) - 300 * amt
  BY <1>1, <1>2, <1>3
<1>6. GripeFee(amt) <= amt
  <2>1. CASE amt = 0
    BY <1>1, <1>2, <1>3, <2>1
  <2>2. CASE amt > 0
    BY <1>4, <1>5, <2>2
  <2> QED BY <2>1, <2>2
<1> QED BY <1>4, <1>5, <1>6 DEF Net

(* The network fee a worker computes is never 0, the mark of "not set".    *)
LEMMA MockNetworkFeePositive ==
    ASSUME NEW amt \in Nat
    PROVE  MockNetworkFee(amt) \in Nat \ {0}
BY DEF MockNetworkFee

LEMMA InitialStatusType ==
    ASSUME NEW method, NEW amt \in Nat
    PROVE  InitialStatus(method, amt) \in {"declined", "authorized", "pending", "captured"}
BY DEF InitialStatus

(* What a posting does to a balance row.                                   *)
LEMMA MovedFacts ==
    ASSUME NEW row \in BalanceRows, NEW db \in Int, NEW df \in Int
    PROVE  /\ Moved(row, db, df) \in BalanceRows
           /\ Moved(row, db, df).balance = row.balance + db
           /\ Moved(row, db, df).fees = row.fees + df
<1>1. row.balance + db \in Int /\ row.fees + df \in Int
  BY DEF BalanceRows
<1> QED BY <1>1 DEF Moved, BalanceRows

LEMMA PostingFacts ==
    ASSUME NEW row \in BalanceRows, NEW amt \in Nat
    PROVE  /\ Credit(row, amt) \in BalanceRows
           /\ Credit(row, amt).balance = row.balance + Net(amt)
           /\ Credit(row, amt).fees = row.fees + GripeFee(amt)
           /\ Debit(row, amt) \in BalanceRows
           /\ Debit(row, amt).balance = row.balance - Net(amt)
           /\ Debit(row, amt).fees = row.fees - GripeFee(amt)
<1>1. Net(amt) \in Int /\ GripeFee(amt) \in Int /\ -Net(amt) \in Int /\ -GripeFee(amt) \in Int
  BY FeeFacts
<1>2. row.balance \in Int /\ row.fees \in Int
  BY DEF BalanceRows
<1>3. Credit(row, amt) = Moved(row, Net(amt), GripeFee(amt))
  BY DEF Credit
<1>4. Debit(row, amt) = Moved(row, -Net(amt), -GripeFee(amt))
  BY DEF Debit
<1>5. /\ Credit(row, amt) \in BalanceRows
      /\ Credit(row, amt).balance = row.balance + Net(amt)
      /\ Credit(row, amt).fees = row.fees + GripeFee(amt)
  BY <1>1, <1>3, MovedFacts
<1>6. /\ Debit(row, amt) \in BalanceRows
      /\ Debit(row, amt).balance = row.balance + (-Net(amt))
      /\ Debit(row, amt).fees = row.fees + (-GripeFee(amt))
  BY <1>1, <1>4, MovedFacts
<1> QED BY <1>1, <1>2, <1>5, <1>6

(* A refund keeps the row well formed and touches two of its fields.       *)
LEMMA RefundedFacts ==
    ASSUME NEW row \in PaymentRows, NEW amt \in Nat
    PROVE  /\ Refunded(row, amt) \in PaymentRows
           /\ Refunded(row, amt).refunded = row.refunded + amt
           /\ Refunded(row, amt).status =
                 IF row.refunded + amt = row.amount THEN "refunded" ELSE row.status
           /\ Refunded(row, amt).account = row.account
           /\ Refunded(row, amt).amount = row.amount
           /\ Refunded(row, amt).networkFee = row.networkFee
<1> DEFINE new == IF row.refunded + amt = row.amount THEN "refunded" ELSE row.status
<1>1. row.refunded + amt \in Nat /\ new \in PaymentStatuses
  BY DEF PaymentRows, PaymentStatuses
<1>2. Refunded(row, amt) = [row EXCEPT !.refunded = row.refunded + amt, !.status = new]
  BY DEF Refunded, PaymentRows
<1> HIDE DEF new
<1>3. /\ Refunded(row, amt) \in PaymentRows
      /\ Refunded(row, amt).refunded = row.refunded + amt
      /\ Refunded(row, amt).status = new
      /\ Refunded(row, amt).account = row.account
      /\ Refunded(row, amt).amount = row.amount
      /\ Refunded(row, amt).networkFee = row.networkFee
  BY <1>1, <1>2 DEF PaymentRows
<1> QED BY <1>3 DEF new

-----------------------------------------------------------------------------
(* Every step keeps the rows well formed.                                  *)
LEMMA TypeStep == TypeOK /\ [Next]_vars => TypeOK'
<1> USE DEF PaymentIds, RefundIds
<1> SUFFICES ASSUME TypeOK, [Next]_vars PROVE TypeOK'
  OBVIOUS
<1>1. ASSUME NEW p \in PaymentIds, NEW acct \in Accounts, NEW amt \in Amounts,
             NEW method \in PaymentMethods, CreatePayment(p, acct, amt, method)
      PROVE  TypeOK'
  <2>1. amt \in Nat \ {0}
    BY AmountsAssumption
  <2>2. NewPayment(acct, amt, method) \in PaymentRows
    BY <2>1, InitialStatusType DEF NewPayment, PaymentRows, PaymentStatuses
  <2> HIDE DEF PaymentIds
  <2> QED BY <1>1, <2>2 DEF CreatePayment, TypeOK, Insert
<1>2. ASSUME NEW p \in PaymentIds, CapturePayment(p) PROVE TypeOK'
  BY <1>2 DEF CapturePayment, TypeOK, PaymentRows, PaymentStatuses
<1>3. ASSUME NEW p \in PaymentIds, SettlePayment(p) PROVE TypeOK'
  <2>1. payment[p] \in PaymentRows /\ balance[payment[p].account] \in BalanceRows
    BY <1>3 DEF SettlePayment, TypeOK, PaymentRows
  <2>2. Credit(balance[payment[p].account], payment[p].amount) \in BalanceRows
    BY <2>1, PostingFacts DEF PaymentRows
  <2>3. balance' \in [Accounts -> BalanceRows]
    BY <1>3, <2>2 DEF SettlePayment, TypeOK
  <2> QED BY <1>3, <2>3 DEF SettlePayment, TypeOK, PaymentRows, PaymentStatuses
<1>4. ASSUME NEW p \in PaymentIds, NEW r \in RefundIds, NEW amt \in RefundAmounts,
             RefundPayment(p, r, amt)
      PROVE  TypeOK'
  <2>1. amt \in Nat \ {0}
    BY AmountsAssumption
  <2>2. Refunded(payment[p], amt) \in PaymentRows
    BY <1>4, <2>1, RefundedFacts DEF RefundPayment, TypeOK
  <2>3. NewRefund(p, amt) \in RefundRows
    BY <2>1 DEF NewRefund, RefundRows, RefundStatuses
  <2> HIDE DEF PaymentIds, RefundIds
  <2>4. DOMAIN payment' = DOMAIN payment /\ payment' \in [DOMAIN payment' -> PaymentRows]
    BY <1>4, <2>2 DEF RefundPayment, TypeOK
  <2>5. /\ DOMAIN refund' \subseteq RefundIds
        /\ refund' \in [DOMAIN refund' -> RefundRows]
        /\ \A i \in DOMAIN refund' : refund'[i].payment \in DOMAIN payment
    BY <1>4, <2>3 DEF RefundPayment, TypeOK, Insert, NewRefund
  <2> QED BY <1>4, <2>4, <2>5 DEF RefundPayment, TypeOK
<1>5. ASSUME NEW p \in PaymentIds, SettleNetworkFee(p) PROVE TypeOK'
  <2>1. MockNetworkFee(payment[p].amount) \in Nat
    BY <1>5, MockNetworkFeePositive DEF SettleNetworkFee, TypeOK, PaymentRows
  <2> QED BY <1>5, <2>1 DEF SettleNetworkFee, TypeOK, PaymentRows
<1>6. ASSUME NEW r \in RefundIds, SettleRefund(r) PROVE TypeOK'
  <2> DEFINE a == payment[refund[r].payment].account
  <2>1. a \in Accounts /\ refund[r].amount \in Nat
    BY <1>6 DEF SettleRefund, TypeOK, PaymentRows, RefundRows
  <2>2. Debit(balance[a], refund[r].amount) \in BalanceRows
    BY <2>1, PostingFacts DEF TypeOK
  <2>3. balance' \in [Accounts -> BalanceRows]
    BY <1>6, <2>2 DEF SettleRefund, TypeOK
  <2> QED BY <1>6, <2>3 DEF SettleRefund, TypeOK, RefundRows, RefundStatuses
<1>7. CASE UNCHANGED vars
  BY <1>7 DEF vars, TypeOK
<1> QED BY <1>1, <1>2, <1>3, <1>4, <1>5, <1>6, <1>7 DEF Next

(* The tables only ever hold well-formed rows.                             *)
THEOREM TypeCorrect == Spec => []TypeOK
<1>1. Init => TypeOK
  BY DEF Init, TypeOK, NoRows, BalanceRows
<1>2. TypeOK /\ [Next]_vars => TypeOK'
  BY TypeStep
<1> QED BY <1>1, <1>2, PTL DEF Spec

-----------------------------------------------------------------------------
(* The columns behind an account are columns of integers.                  *)
LEMMA CreditColumns ==
    ASSUME TypeOK, NEW a
    PROVE  /\ NetCredits(a) \in [1..MaxPayments -> Int]
           /\ FeeCredits(a) \in [1..MaxPayments -> Int]
           /\ CreditCount(a) \in [1..MaxPayments -> Int]
<1>1. \A p \in PaymentIds : CreditedTo(a, p) =>
        Net(payment[p].amount) \in Int /\ GripeFee(payment[p].amount) \in Int
  BY FeeFacts DEF TypeOK, CreditedTo, PaymentRows
<1> QED BY <1>1 DEF NetCredits, FeeCredits, CreditCount, PaymentIds

LEMMA DebitColumns ==
    ASSUME TypeOK, NEW a
    PROVE  /\ NetDebits(a) \in [1..MaxRefunds -> Int]
           /\ FeeDebits(a) \in [1..MaxRefunds -> Int]
           /\ DebitCount(a) \in [1..MaxRefunds -> Int]
<1>1. \A r \in RefundIds : DebitedFrom(a, r) =>
        Net(refund[r].amount) \in Int /\ GripeFee(refund[r].amount) \in Int
  BY FeeFacts DEF TypeOK, DebitedFrom, RefundRows
<1> QED BY <1>1 DEF NetDebits, FeeDebits, DebitCount, RefundIds

LEMMA RefundColumn ==
    ASSUME TypeOK, NEW p
    PROVE  RefundsOf(p) \in [1..MaxRefunds -> Nat]
BY DEF TypeOK, RefundsOf, RefundRows, RefundIds

(* A step that credits nothing keeps the credit columns, and one that      *)
(* settles no refund keeps the debit columns.                              *)
KeepsPayments ==
    \A p \in DOMAIN payment :
       /\ p \in DOMAIN payment'
       /\ payment'[p].account = payment[p].account
       /\ payment'[p].amount = payment[p].amount

KeepsSettledRefunds ==
    \A r \in RefundIds :
       /\ (r \in DOMAIN refund' /\ refund'[r].status = "settled")
            <=> (r \in DOMAIN refund /\ refund[r].status = "settled")
       /\ r \in DOMAIN refund => refund'[r].payment = refund[r].payment
                                /\ refund'[r].amount = refund[r].amount

LEMMA SameCredits ==
    ASSUME TypeOK, KeepsPayments, credited' = credited, NEW a
    PROVE  /\ NetCredits(a)' = NetCredits(a)
           /\ FeeCredits(a)' = FeeCredits(a)
           /\ CreditCount(a)' = CreditCount(a)
<1>1. \A p : CreditedTo(a, p)' <=> CreditedTo(a, p)
  BY DEF TypeOK, KeepsPayments, CreditedTo
<1>2. \A p : CreditedTo(a, p) => payment'[p].amount = payment[p].amount
  BY DEF TypeOK, KeepsPayments, CreditedTo
<1> QED BY <1>1, <1>2 DEF NetCredits, FeeCredits, CreditCount

LEMMA SameDebits ==
    ASSUME TypeOK, KeepsPayments, KeepsSettledRefunds, NEW a
    PROVE  /\ NetDebits(a)' = NetDebits(a)
           /\ FeeDebits(a)' = FeeDebits(a)
           /\ DebitCount(a)' = DebitCount(a)
<1>1. \A r \in RefundIds : DebitedFrom(a, r)' <=> DebitedFrom(a, r)
  BY DEF TypeOK, KeepsPayments, KeepsSettledRefunds, DebitedFrom
<1>2. \A r \in RefundIds : DebitedFrom(a, r) => refund'[r].amount = refund[r].amount
  BY DEF KeepsSettledRefunds, DebitedFrom
<1> QED BY <1>1, <1>2 DEF NetDebits, FeeDebits, DebitCount

(* The books: what a balance row must equal, and how far its fees stray.   *)
LEMMA SameBooks ==
    ASSUME TypeOK, Reconciled, FeeDriftBounded,
           KeepsPayments, KeepsSettledRefunds, credited' = credited, balance' = balance
    PROVE  Reconciled' /\ FeeDriftBounded'
<1>1. Reconciled'
  BY SameCredits, SameDebits DEF Reconciled
<1>2. FeeDriftBounded'
  BY SameCredits, SameDebits DEF FeeDriftBounded
<1> QED BY <1>1, <1>2

(* Settling payment p fills entry p of its account's credit columns.       *)
LEMMA SettleFillsCredits ==
    ASSUME TypeOK, NEW p \in PaymentIds, SettlePayment(p), p \notin credited, NEW a
    PROVE  LET here == payment[p].account = a
               amt  == payment[p].amount
           IN  /\ Total(NetCredits(a)', MaxPayments) =
                     Total(NetCredits(a), MaxPayments) + (IF here THEN Net(amt) ELSE 0)
               /\ Total(FeeCredits(a)', MaxPayments) =
                     Total(FeeCredits(a), MaxPayments) + (IF here THEN GripeFee(amt) ELSE 0)
               /\ Total(CreditCount(a)', MaxPayments) =
                     Total(CreditCount(a), MaxPayments) + (IF here THEN 1 ELSE 0)
<1> DEFINE here == payment[p].account = a
           amt  == payment[p].amount
<1>1. /\ p \in DOMAIN payment /\ amt \in Nat
      /\ credited' = credited \cup {p}
      /\ \A q \in DOMAIN payment : payment'[q].account = payment[q].account
                                /\ payment'[q].amount = payment[q].amount
  BY DEF TypeOK, SettlePayment, PaymentRows
<1>2. /\ CreditedTo(a, p)' <=> here
      /\ ~ CreditedTo(a, p)
      /\ \A q \in PaymentIds \ {p} : CreditedTo(a, q)' <=> CreditedTo(a, q)
      /\ \A q \in PaymentIds : CreditedTo(a, q) => payment'[q].amount = payment[q].amount
  BY <1>1 DEF TypeOK, CreditedTo
<1>3. Net(amt) \in Int /\ GripeFee(amt) \in Int
  BY <1>1, FeeFacts
<1>4. payment'[p].amount = amt
  BY <1>1
<1> DEFINE net == NetCredits(a)
           fee == FeeCredits(a)
           count == CreditCount(a)
<1>5. net \in [1..MaxPayments -> Int] /\ fee \in [1..MaxPayments -> Int]
        /\ count \in [1..MaxPayments -> Int]
  BY CreditColumns
<1> HIDE DEF amt, here
<1>6. /\ net' = [net EXCEPT ![p] = IF here THEN Net(amt) ELSE 0]
      /\ net[p] = 0
  BY <1>2, <1>4 DEF NetCredits
<1>7. /\ fee' = [fee EXCEPT ![p] = IF here THEN GripeFee(amt) ELSE 0]
      /\ fee[p] = 0
  BY <1>2, <1>4 DEF FeeCredits
<1>8. /\ count' = [count EXCEPT ![p] = IF here THEN 1 ELSE 0]
      /\ count[p] = 0
  BY <1>2 DEF CreditCount
<1> HIDE DEF net, fee, count
<1>9. MaxPayments \in Nat /\ p \in 1..MaxPayments
  BY BoundsAssumption DEF PaymentIds
<1>10. Total(net', MaxPayments) = Total(net, MaxPayments) + (IF here THEN Net(amt) ELSE 0)
  <2>1. (IF here THEN Net(amt) ELSE 0) \in Int
    BY <1>3
  <2> QED BY <1>5, <1>6, <1>9, <2>1, TotalFill
<1>11. Total(fee', MaxPayments) = Total(fee, MaxPayments) + (IF here THEN GripeFee(amt) ELSE 0)
  <2>1. (IF here THEN GripeFee(amt) ELSE 0) \in Int
    BY <1>3
  <2> QED BY <1>5, <1>7, <1>9, <2>1, TotalFill
<1>12. Total(count', MaxPayments) = Total(count, MaxPayments) + (IF here THEN 1 ELSE 0)
  <2>1. (IF here THEN 1 ELSE 0) \in Int
    OBVIOUS
  <2> QED BY <1>5, <1>8, <1>9, <2>1, TotalFill
<1> QED BY <1>10, <1>11, <1>12 DEF amt, here, net, fee, count

(* Settling refund r fills entry r of its account's debit columns.         *)
LEMMA SettleFillsDebits ==
    ASSUME TypeOK, NEW r \in RefundIds, SettleRefund(r), NEW a
    PROVE  LET here == payment[refund[r].payment].account = a
               amt  == refund[r].amount
           IN  /\ Total(NetDebits(a)', MaxRefunds) =
                     Total(NetDebits(a), MaxRefunds) + (IF here THEN Net(amt) ELSE 0)
               /\ Total(FeeDebits(a)', MaxRefunds) =
                     Total(FeeDebits(a), MaxRefunds) + (IF here THEN GripeFee(amt) ELSE 0)
               /\ Total(DebitCount(a)', MaxRefunds) =
                     Total(DebitCount(a), MaxRefunds) + (IF here THEN 1 ELSE 0)
<1> DEFINE here == payment[refund[r].payment].account = a
           amt  == refund[r].amount
<1>1. /\ r \in DOMAIN refund /\ amt \in Nat
      /\ payment' = payment
      /\ DOMAIN refund' = DOMAIN refund
      /\ refund[r].status = "created" /\ refund'[r].status = "settled"
      /\ \A q \in DOMAIN refund : refund'[q].payment = refund[q].payment
                               /\ refund'[q].amount = refund[q].amount
      /\ \A q \in DOMAIN refund \ {r} : refund'[q] = refund[q]
  BY DEF TypeOK, SettleRefund, RefundRows
<1>2. /\ DebitedFrom(a, r)' <=> here
      /\ ~ DebitedFrom(a, r)
      /\ \A q \in RefundIds \ {r} : DebitedFrom(a, q)' <=> DebitedFrom(a, q)
      /\ \A q \in RefundIds : DebitedFrom(a, q) => refund'[q].amount = refund[q].amount
  BY <1>1 DEF TypeOK, DebitedFrom
<1>3. Net(amt) \in Int /\ GripeFee(amt) \in Int
  BY <1>1, FeeFacts
<1>4. refund'[r].amount = amt
  BY <1>1
<1> DEFINE net == NetDebits(a)
           fee == FeeDebits(a)
           count == DebitCount(a)
<1>5. net \in [1..MaxRefunds -> Int] /\ fee \in [1..MaxRefunds -> Int]
        /\ count \in [1..MaxRefunds -> Int]
  BY DebitColumns
<1> HIDE DEF amt, here
<1>6. /\ net' = [net EXCEPT ![r] = IF here THEN Net(amt) ELSE 0]
      /\ net[r] = 0
  BY <1>2, <1>4 DEF NetDebits
<1>7. /\ fee' = [fee EXCEPT ![r] = IF here THEN GripeFee(amt) ELSE 0]
      /\ fee[r] = 0
  BY <1>2, <1>4 DEF FeeDebits
<1>8. /\ count' = [count EXCEPT ![r] = IF here THEN 1 ELSE 0]
      /\ count[r] = 0
  BY <1>2 DEF DebitCount
<1> HIDE DEF net, fee, count
<1>9. MaxRefunds \in Nat /\ r \in 1..MaxRefunds
  BY BoundsAssumption DEF RefundIds
<1>10. Total(net', MaxRefunds) = Total(net, MaxRefunds) + (IF here THEN Net(amt) ELSE 0)
  <2>1. (IF here THEN Net(amt) ELSE 0) \in Int
    BY <1>3
  <2> QED BY <1>5, <1>6, <1>9, <2>1, TotalFill
<1>11. Total(fee', MaxRefunds) = Total(fee, MaxRefunds) + (IF here THEN GripeFee(amt) ELSE 0)
  <2>1. (IF here THEN GripeFee(amt) ELSE 0) \in Int
    BY <1>3
  <2> QED BY <1>5, <1>7, <1>9, <2>1, TotalFill
<1>12. Total(count', MaxRefunds) = Total(count, MaxRefunds) + (IF here THEN 1 ELSE 0)
  <2>1. (IF here THEN 1 ELSE 0) \in Int
    OBVIOUS
  <2> QED BY <1>5, <1>8, <1>9, <2>1, TotalFill
<1> QED BY <1>10, <1>11, <1>12 DEF amt, here, net, fee, count

(* The two settlements keep the books.                                     *)
LEMMA SettlePaymentBooks ==
    ASSUME TypeOK, Reconciled, FeeDriftBounded,
           NEW p \in PaymentIds, SettlePayment(p), p \notin credited
    PROVE  Reconciled' /\ FeeDriftBounded'
<1> DEFINE acct == payment[p].account
           amt  == payment[p].amount
<1>1. /\ KeepsPayments /\ KeepsSettledRefunds
      /\ acct \in Accounts /\ amt \in Nat
      /\ balance' = [balance EXCEPT ![acct] = Credit(balance[acct], amt)]
  BY DEF TypeOK, SettlePayment, PaymentRows, KeepsPayments, KeepsSettledRefunds
<1>2. \A a \in Accounts :
         /\ balance[a].balance \in Int /\ balance[a].fees \in Int
         /\ a # acct => balance'[a] = balance[a]
  BY <1>1 DEF TypeOK, BalanceRows
<1>3. /\ balance'[acct].balance = balance[acct].balance + Net(amt)
      /\ balance'[acct].fees = balance[acct].fees + GripeFee(amt)
  <2>1. balance'[acct] = Credit(balance[acct], amt) /\ balance[acct] \in BalanceRows
    BY <1>1 DEF TypeOK
  <2> HIDE DEF acct, amt
  <2> QED BY <1>1, <2>1, PostingFacts
<1>4. /\ Net(amt) \in Int /\ GripeFee(amt) \in Int
      /\ Net(amt) + GripeFee(amt) = amt
      /\ 10000 * GripeFee(amt) - 300 * amt <= 5000
      /\ -5000 <= 10000 * GripeFee(amt) - 300 * amt
  <2> HIDE DEF amt
  <2> QED BY <1>1, FeeFacts
<1>5. ASSUME NEW a \in Accounts
      PROVE  /\ Total(NetDebits(a)', MaxRefunds) = Total(NetDebits(a), MaxRefunds)
             /\ Total(FeeDebits(a)', MaxRefunds) = Total(FeeDebits(a), MaxRefunds)
             /\ Total(DebitCount(a)', MaxRefunds) = Total(DebitCount(a), MaxRefunds)
             /\ Total(NetDebits(a), MaxRefunds) \in Int
             /\ Total(FeeDebits(a), MaxRefunds) \in Int
             /\ Total(DebitCount(a), MaxRefunds) \in Int
  BY <1>1, SameDebits, DebitColumns, TotalType, BoundsAssumption
<1>6. ASSUME NEW a \in Accounts
      PROVE  /\ Total(NetCredits(a)', MaxPayments) =
                   Total(NetCredits(a), MaxPayments) + (IF acct = a THEN Net(amt) ELSE 0)
             /\ Total(FeeCredits(a)', MaxPayments) =
                   Total(FeeCredits(a), MaxPayments) + (IF acct = a THEN GripeFee(amt) ELSE 0)
             /\ Total(CreditCount(a)', MaxPayments) =
                   Total(CreditCount(a), MaxPayments) + (IF acct = a THEN 1 ELSE 0)
             /\ Total(NetCredits(a), MaxPayments) \in Int
             /\ Total(FeeCredits(a), MaxPayments) \in Int
             /\ Total(CreditCount(a), MaxPayments) \in Int
  BY SettleFillsCredits, CreditColumns, TotalType, BoundsAssumption
<1> HIDE DEF acct, amt
<1>7. Reconciled'
  <2>1. ASSUME NEW a \in Accounts
        PROVE  /\ balance'[a].balance = Total(NetCredits(a)', MaxPayments)
                                          - Total(NetDebits(a)', MaxRefunds)
               /\ balance'[a].fees = Total(FeeCredits(a)', MaxPayments)
                                       - Total(FeeDebits(a)', MaxRefunds)
    BY <1>2, <1>3, <1>4, <1>5, <1>6 DEF Reconciled
  <2> QED BY <2>1 DEF Reconciled
<1>8. FeeDriftBounded'
  <2>1. ASSUME NEW a \in Accounts
        PROVE  LET gross    == balance'[a].balance + balance'[a].fees
                   drift    == 10000 * balance'[a].fees - 300 * gross
                   postings == Total(CreditCount(a)', MaxPayments) + Total(DebitCount(a)', MaxRefunds)
               IN  -5000 * postings <= drift /\ drift <= 5000 * postings
    BY <1>2, <1>3, <1>4, <1>5, <1>6 DEF FeeDriftBounded, GripeFeeBasisPoints
  <2> QED BY <2>1 DEF FeeDriftBounded, GripeFeeBasisPoints
<1> QED BY <1>7, <1>8

LEMMA SettleRefundBooks ==
    ASSUME TypeOK, Reconciled, FeeDriftBounded, NEW r \in RefundIds, SettleRefund(r)
    PROVE  Reconciled' /\ FeeDriftBounded'
<1> DEFINE acct == payment[refund[r].payment].account
           amt  == refund[r].amount
<1>1. /\ KeepsPayments /\ credited' = credited
      /\ acct \in Accounts /\ amt \in Nat
      /\ balance' = [balance EXCEPT ![acct] = Debit(balance[acct], amt)]
  BY DEF TypeOK, SettleRefund, PaymentRows, RefundRows, KeepsPayments
<1>2. \A a \in Accounts :
         /\ balance[a].balance \in Int /\ balance[a].fees \in Int
         /\ a # acct => balance'[a] = balance[a]
  BY <1>1 DEF TypeOK, BalanceRows
<1>3. /\ balance'[acct].balance = balance[acct].balance - Net(amt)
      /\ balance'[acct].fees = balance[acct].fees - GripeFee(amt)
  <2>1. balance'[acct] = Debit(balance[acct], amt) /\ balance[acct] \in BalanceRows
    BY <1>1 DEF TypeOK
  <2> HIDE DEF acct, amt
  <2> QED BY <1>1, <2>1, PostingFacts
<1>4. /\ Net(amt) \in Int /\ GripeFee(amt) \in Int
      /\ Net(amt) + GripeFee(amt) = amt
      /\ 10000 * GripeFee(amt) - 300 * amt <= 5000
      /\ -5000 <= 10000 * GripeFee(amt) - 300 * amt
  <2> HIDE DEF amt
  <2> QED BY <1>1, FeeFacts
<1>5. ASSUME NEW a \in Accounts
      PROVE  /\ Total(NetCredits(a)', MaxPayments) = Total(NetCredits(a), MaxPayments)
             /\ Total(FeeCredits(a)', MaxPayments) = Total(FeeCredits(a), MaxPayments)
             /\ Total(CreditCount(a)', MaxPayments) = Total(CreditCount(a), MaxPayments)
             /\ Total(NetCredits(a), MaxPayments) \in Int
             /\ Total(FeeCredits(a), MaxPayments) \in Int
             /\ Total(CreditCount(a), MaxPayments) \in Int
  BY <1>1, SameCredits, CreditColumns, TotalType, BoundsAssumption
<1>6. ASSUME NEW a \in Accounts
      PROVE  /\ Total(NetDebits(a)', MaxRefunds) =
                   Total(NetDebits(a), MaxRefunds) + (IF acct = a THEN Net(amt) ELSE 0)
             /\ Total(FeeDebits(a)', MaxRefunds) =
                   Total(FeeDebits(a), MaxRefunds) + (IF acct = a THEN GripeFee(amt) ELSE 0)
             /\ Total(DebitCount(a)', MaxRefunds) =
                   Total(DebitCount(a), MaxRefunds) + (IF acct = a THEN 1 ELSE 0)
             /\ Total(NetDebits(a), MaxRefunds) \in Int
             /\ Total(FeeDebits(a), MaxRefunds) \in Int
             /\ Total(DebitCount(a), MaxRefunds) \in Int
  BY SettleFillsDebits, DebitColumns, TotalType, BoundsAssumption
<1> HIDE DEF acct, amt
<1>7. Reconciled'
  <2>1. ASSUME NEW a \in Accounts
        PROVE  /\ balance'[a].balance = Total(NetCredits(a)', MaxPayments)
                                          - Total(NetDebits(a)', MaxRefunds)
               /\ balance'[a].fees = Total(FeeCredits(a)', MaxPayments)
                                       - Total(FeeDebits(a)', MaxRefunds)
    BY <1>2, <1>3, <1>4, <1>5, <1>6 DEF Reconciled
  <2> QED BY <2>1 DEF Reconciled
<1>8. FeeDriftBounded'
  <2>1. ASSUME NEW a \in Accounts
        PROVE  LET gross    == balance'[a].balance + balance'[a].fees
                   drift    == 10000 * balance'[a].fees - 300 * gross
                   postings == Total(CreditCount(a)', MaxPayments) + Total(DebitCount(a)', MaxRefunds)
               IN  -5000 * postings <= drift /\ drift <= 5000 * postings
    BY <1>2, <1>3, <1>4, <1>5, <1>6 DEF FeeDriftBounded, GripeFeeBasisPoints
  <2> QED BY <2>1 DEF FeeDriftBounded, GripeFeeBasisPoints
<1> QED BY <1>7, <1>8

-----------------------------------------------------------------------------
(* The status and the refunded total of a payment agree with its credit    *)
(* and with its refunds.  Neither is inductive without the other parts of  *)
(* LedgerInv: a second credit is impossible because a credited payment is  *)
(* settled or refunded, and a refund fits because the total is exact.      *)
LedgerInv ==
    /\ TypeOK
    /\ CreditMatchesStatus
    /\ RefundsAddUp
    /\ Reconciled
    /\ FeeDriftBounded

(* A step that adds no refund keeps what was refunded of every payment.    *)
KeepsRefunds ==
    \A r \in RefundIds :
       /\ r \in DOMAIN refund' <=> r \in DOMAIN refund
       /\ r \in DOMAIN refund => refund'[r].payment = refund[r].payment
                                /\ refund'[r].amount = refund[r].amount

LEMMA SameRefunds ==
    ASSUME KeepsRefunds, NEW p
    PROVE  RefundsOf(p)' = RefundsOf(p)
BY DEF KeepsRefunds, RefundsOf

LEMMA InitHolds == Init => LedgerInv
<1> SUFFICES ASSUME Init PROVE LedgerInv
  OBVIOUS
<1>1. TypeOK
  BY DEF Init, TypeOK, NoRows, BalanceRows
<1>2. CreditMatchesStatus /\ RefundsAddUp
  BY DEF Init, NoRows, CreditMatchesStatus, RefundsAddUp
<1>3. ASSUME NEW a \in Accounts
      PROVE  /\ Total(NetCredits(a), MaxPayments) = 0
             /\ Total(FeeCredits(a), MaxPayments) = 0
             /\ Total(CreditCount(a), MaxPayments) = 0
             /\ Total(NetDebits(a), MaxRefunds) = 0
             /\ Total(FeeDebits(a), MaxRefunds) = 0
             /\ Total(DebitCount(a), MaxRefunds) = 0
  <2>1. \A i \in 1..MaxPayments :
           NetCredits(a)[i] = 0 /\ FeeCredits(a)[i] = 0 /\ CreditCount(a)[i] = 0
    BY DEF Init, NetCredits, FeeCredits, CreditCount, CreditedTo, PaymentIds
  <2>2. \A i \in 1..MaxRefunds :
           NetDebits(a)[i] = 0 /\ FeeDebits(a)[i] = 0 /\ DebitCount(a)[i] = 0
    BY DEF Init, NoRows, NetDebits, FeeDebits, DebitCount, DebitedFrom, RefundIds
  <2> QED BY <2>1, <2>2, TotalZero, BoundsAssumption
<1>4. \A a \in Accounts : balance[a].balance = 0 /\ balance[a].fees = 0
  BY DEF Init
<1>5. Reconciled /\ FeeDriftBounded
  BY <1>3, <1>4 DEF Reconciled, FeeDriftBounded, GripeFeeBasisPoints
<1> QED BY <1>1, <1>2, <1>5 DEF LedgerInv

(* What the refunds add up to, after each kind of step.                    *)
LEMMA RefundsAddUpKept ==
    ASSUME TypeOK, RefundsAddUp, KeepsRefunds, DOMAIN payment' = DOMAIN payment,
           \A p \in DOMAIN payment :
              /\ payment'[p].refunded = payment[p].refunded
              /\ payment'[p].amount = payment[p].amount
              /\ payment'[p].status = "refunded" <=> payment[p].status = "refunded"
    PROVE  RefundsAddUp'
<1>1. \A p \in DOMAIN payment : Total(RefundsOf(p)', MaxRefunds) = Total(RefundsOf(p), MaxRefunds)
  BY SameRefunds
<1> QED BY <1>1 DEF RefundsAddUp

LEMMA CreatePaymentRefunds ==
    ASSUME TypeOK, RefundsAddUp, NEW p \in PaymentIds, NEW acct \in Accounts,
           NEW amt \in Nat \ {0}, NEW method, CreatePayment(p, acct, amt, method)
    PROVE  RefundsAddUp'
<1>1. /\ p \notin DOMAIN payment /\ refund' = refund
      /\ DOMAIN payment' = DOMAIN payment \cup {p}
      /\ payment'[p] = NewPayment(acct, amt, method)
      /\ \A q \in DOMAIN payment : payment'[q] = payment[q]
  BY DEF CreatePayment, Insert
<1>2. /\ payment'[p].refunded = 0 /\ payment'[p].amount = amt
      /\ payment'[p].status # "refunded"
  BY <1>1, InitialStatusType DEF NewPayment
<1>3. \A q : RefundsOf(q)' = RefundsOf(q)
  BY <1>1 DEF RefundsOf
<1>4. Total(RefundsOf(p), MaxRefunds) = 0
  <2>1. \A r \in 1..MaxRefunds : RefundsOf(p)[r] = 0
    BY <1>1 DEF TypeOK, RefundsOf, RefundIds
  <2> QED BY <2>1, TotalZero, BoundsAssumption
<1> QED BY <1>1, <1>2, <1>3, <1>4 DEF RefundsAddUp

LEMMA RefundPaymentRefunds ==
    ASSUME TypeOK, RefundsAddUp, NEW p \in PaymentIds, NEW r \in RefundIds,
           NEW amt \in Nat \ {0}, RefundPayment(p, r, amt)
    PROVE  RefundsAddUp'
<1>1. /\ p \in DOMAIN payment /\ r \notin DOMAIN refund
      /\ Refundable(payment[p], amt)
      /\ DOMAIN payment' = DOMAIN payment
      /\ payment'[p] = Refunded(payment[p], amt)
      /\ \A q \in DOMAIN payment \ {p} : payment'[q] = payment[q]
      /\ DOMAIN refund' = DOMAIN refund \cup {r}
      /\ refund'[r] = NewRefund(p, amt)
      /\ \A i \in DOMAIN refund : refund'[i] = refund[i]
  BY DEF TypeOK, RefundPayment, Insert
<1>2. payment[p] \in PaymentRows
  BY <1>1 DEF TypeOK
<1>3. /\ payment'[p].refunded = payment[p].refunded + amt
      /\ payment'[p].amount = payment[p].amount
      /\ payment'[p].status = "refunded" <=> payment[p].refunded + amt = payment[p].amount
      /\ payment[p].refunded + amt <= payment[p].amount
  BY <1>1, <1>2, RefundedFacts DEF Refundable
<1>4. RefundsOf(p)' = [RefundsOf(p) EXCEPT ![r] = amt] /\ RefundsOf(p)[r] = 0
  <2> DEFINE Of(i)  == i \in DOMAIN refund /\ refund[i].payment = p
             Now(i) == i \in DOMAIN refund' /\ refund'[i].payment = p
  <2>1. Now(r) /\ ~ Of(r) /\ refund'[r].amount = amt
    BY <1>1 DEF NewRefund
  <2>2. \A i \in RefundIds \ {r} :
           (Now(i) <=> Of(i)) /\ (Of(i) => refund'[i].amount = refund[i].amount)
    BY <1>1
  <2>3. RefundsOf(p)' = [i \in RefundIds |-> IF Now(i) THEN refund'[i].amount ELSE 0]
    BY DEF RefundsOf
  <2>4. RefundsOf(p) = [i \in RefundIds |-> IF Of(i) THEN refund[i].amount ELSE 0]
    BY DEF RefundsOf
  <2> HIDE DEF Of, Now
  <2> QED BY <2>1, <2>2, <2>3, <2>4
<1>5. Total(RefundsOf(p)', MaxRefunds) = Total(RefundsOf(p), MaxRefunds) + amt
  <2>1. RefundsOf(p) \in [1..MaxRefunds -> Int]
    BY RefundColumn
  <2>2. MaxRefunds \in Nat /\ r \in 1..MaxRefunds /\ amt \in Int
    BY BoundsAssumption DEF RefundIds
  <2> DEFINE col == RefundsOf(p)
             new == RefundsOf(p)'
  <2>3. col \in [1..MaxRefunds -> Int] /\ col[r] = 0 /\ new = [col EXCEPT ![r] = amt]
    BY <1>4, <2>1
  <2> HIDE DEF col, new
  <2>4. Total([col EXCEPT ![r] = amt], MaxRefunds) = Total(col, MaxRefunds) + amt
    BY <2>2, <2>3, TotalFill
  <2> QED BY <2>3, <2>4 DEF col, new
<1>6. \A q \in DOMAIN payment \ {p} : RefundsOf(q)' = RefundsOf(q)
  BY <1>1 DEF RefundsOf, NewRefund
<1> QED BY <1>1, <1>3, <1>5, <1>6 DEF RefundsAddUp

(* Every step keeps the invariant.                                         *)
LEMMA StepKeepsInv == LedgerInv /\ TypeOK' /\ [Next]_vars => LedgerInv'
<1> SUFFICES ASSUME LedgerInv, TypeOK', [Next]_vars PROVE LedgerInv'
  OBVIOUS
<1> USE DEF LedgerInv
<1>1. ASSUME NEW p \in PaymentIds, NEW acct \in Accounts, NEW amt \in Amounts,
             NEW method \in PaymentMethods, CreatePayment(p, acct, amt, method)
      PROVE  LedgerInv'
  <2>1. amt \in Nat \ {0}
    BY AmountsAssumption
  <2>2. KeepsPayments /\ KeepsSettledRefunds /\ credited' = credited /\ balance' = balance
    BY <1>1 DEF CreatePayment, Insert, KeepsPayments, KeepsSettledRefunds
  <2>3. CreditMatchesStatus'
    BY <1>1, <2>1, InitialStatusType
       DEF TypeOK, CreatePayment, Insert, NewPayment, CreditMatchesStatus
  <2> QED BY <1>1, <2>1, <2>2, <2>3, SameBooks, CreatePaymentRefunds
<1>2. ASSUME NEW p \in PaymentIds, CapturePayment(p) PROVE LedgerInv'
  <2>1. /\ KeepsPayments /\ KeepsSettledRefunds /\ KeepsRefunds
        /\ credited' = credited /\ balance' = balance
    BY <1>2 DEF TypeOK, PaymentRows, CapturePayment, KeepsPayments, KeepsSettledRefunds, KeepsRefunds
  <2>2. CreditMatchesStatus'
    BY <1>2 DEF TypeOK, PaymentRows, CapturePayment, CreditMatchesStatus
  <2>3. RefundsAddUp'
    BY <1>2, <2>1, RefundsAddUpKept DEF TypeOK, PaymentRows, CapturePayment
  <2> QED BY <2>1, <2>2, <2>3, SameBooks
<1>3. ASSUME NEW p \in PaymentIds, SettlePayment(p) PROVE LedgerInv'
  <2>1. p \notin credited
    BY <1>3 DEF SettlePayment, Settleable, CreditMatchesStatus
  <2>2. CreditMatchesStatus'
    BY <1>3 DEF TypeOK, PaymentRows, SettlePayment, CreditMatchesStatus
  <2>3. RefundsAddUp'
    <3>1. KeepsRefunds
      BY <1>3 DEF SettlePayment, KeepsRefunds
    <3> QED BY <1>3, <3>1, RefundsAddUpKept DEF TypeOK, PaymentRows, SettlePayment, Settleable
  <2> QED BY <1>3, <2>1, <2>2, <2>3, SettlePaymentBooks
<1>4. ASSUME NEW p \in PaymentIds, NEW r \in RefundIds, NEW amt \in RefundAmounts,
             RefundPayment(p, r, amt)
      PROVE  LedgerInv'
  <2>1. amt \in Nat \ {0}
    BY AmountsAssumption
  <2>2. /\ p \in DOMAIN payment /\ payment[p] \in PaymentRows /\ r \notin DOMAIN refund
        /\ payment' = [payment EXCEPT ![p] = Refunded(payment[p], amt)]
        /\ refund' = Insert(refund, r, NewRefund(p, amt))
        /\ credited' = credited /\ balance' = balance
        /\ payment[p].status \in {"captured", "settled"}
    BY <1>4 DEF TypeOK, RefundPayment, Refundable
  <2>3. /\ Refunded(payment[p], amt).account = payment[p].account
        /\ Refunded(payment[p], amt).amount = payment[p].amount
        /\ Refunded(payment[p], amt).status \in {"refunded", payment[p].status}
    BY <2>1, <2>2, RefundedFacts
  <2>4. KeepsPayments /\ KeepsSettledRefunds
    BY <2>2, <2>3 DEF TypeOK, Insert, NewRefund, KeepsPayments, KeepsSettledRefunds
  <2>5. CreditMatchesStatus'
    BY <2>2, <2>3 DEF TypeOK, CreditMatchesStatus
  <2> QED BY <1>4, <2>1, <2>2, <2>4, <2>5, SameBooks, RefundPaymentRefunds
<1>5. ASSUME NEW p \in PaymentIds, SettleNetworkFee(p) PROVE LedgerInv'
  <2>1. /\ KeepsPayments /\ KeepsSettledRefunds /\ KeepsRefunds
        /\ credited' = credited /\ balance' = balance
    BY <1>5 DEF TypeOK, PaymentRows, SettleNetworkFee, KeepsPayments, KeepsSettledRefunds, KeepsRefunds
  <2>2. CreditMatchesStatus'
    BY <1>5 DEF TypeOK, PaymentRows, SettleNetworkFee, CreditMatchesStatus
  <2>3. RefundsAddUp'
    BY <1>5, <2>1, RefundsAddUpKept DEF TypeOK, PaymentRows, SettleNetworkFee
  <2> QED BY <2>1, <2>2, <2>3, SameBooks
<1>6. ASSUME NEW r \in RefundIds, SettleRefund(r) PROVE LedgerInv'
  <2>1. KeepsRefunds /\ payment' = payment /\ credited' = credited
    BY <1>6 DEF TypeOK, RefundRows, SettleRefund, KeepsRefunds
  <2>2. CreditMatchesStatus'
    BY <2>1 DEF CreditMatchesStatus
  <2>3. RefundsAddUp'
    BY <2>1, RefundsAddUpKept
  <2> QED BY <1>6, <2>2, <2>3, SettleRefundBooks
<1>7. CASE UNCHANGED vars
  <2>1. /\ KeepsPayments /\ KeepsSettledRefunds /\ KeepsRefunds
        /\ payment' = payment /\ credited' = credited /\ balance' = balance
    BY <1>7 DEF vars, KeepsPayments, KeepsSettledRefunds, KeepsRefunds
  <2>2. CreditMatchesStatus'
    BY <2>1 DEF CreditMatchesStatus
  <2> QED BY <2>1, <2>2, SameBooks, RefundsAddUpKept
<1> QED BY <1>1, <1>2, <1>3, <1>4, <1>5, <1>6, <1>7 DEF Next

-----------------------------------------------------------------------------
(* Every balance row is the credits of the payments that ever settled less *)
(* the settled refunds; with it, what the invariant carries along.         *)
THEOREM InvHolds == Spec => []LedgerInv
<1>1. Init => LedgerInv
  BY InitHolds
<1>2. LedgerInv /\ TypeOK' /\ [Next]_vars => LedgerInv'
  BY StepKeepsInv
<1> QED BY <1>1, <1>2, TypeCorrect, PTL DEF Spec

(* store.go's promise of SettlePayment and SettleRefund: balances move     *)
(* exactly once per settlement, for any number of payments and refunds.    *)
THEOREM BalancesReconcile == Spec => []Reconciled
<1>1. LedgerInv => Reconciled
  BY DEF LedgerInv
<1> QED BY <1>1, InvHolds, PTL

(* The banker's rounding of money.go never drifts: half a unit a posting.  *)
THEOREM FeesDoNotDrift == Spec => []FeeDriftBounded
<1>1. LedgerInv => FeeDriftBounded
  BY DEF LedgerInv
<1> QED BY <1>1, InvHolds, PTL

(* No sequence of partial refunds exceeds the payment it refunds.          *)
THEOREM RefundsNeverExceed == Spec => []RefundsAddUp
<1>1. LedgerInv => RefundsAddUp
  BY DEF LedgerInv
<1> QED BY <1>1, InvHolds, PTL

(* A payment reads settled only with its credit booked.                    *)
THEOREM SettledIsCredited == Spec => []CreditMatchesStatus
<1>1. LedgerInv => CreditMatchesStatus
  BY DEF LedgerInv
<1> QED BY <1>1, InvHolds, PTL

(* A payment's life only goes forward, and its network fee is set once.    *)
THEOREM LifeGoesForward == Spec => PaymentsOnlyMoveForward
<1> DEFINE Forward ==
      \A p \in DOMAIN payment :
          /\ p \in DOMAIN payment'
          /\ \/ payment'[p].status = payment[p].status
             \/ <<payment[p].status, payment'[p].status>> \in Moves
          /\ payment'[p].refunded >= payment[p].refunded
          /\ payment'[p].account = payment[p].account
          /\ payment'[p].amount = payment[p].amount
          /\ payment[p].networkFee # 0 => payment'[p].networkFee = payment[p].networkFee
<1>1. TypeOK /\ [Next]_vars => [Forward]_vars
  <2> SUFFICES ASSUME TypeOK, Next PROVE Forward
    BY DEF vars
  <2>1. ASSUME NEW p \in PaymentIds, NEW acct \in Accounts, NEW amt \in Amounts,
               NEW method \in PaymentMethods, CreatePayment(p, acct, amt, method)
        PROVE  Forward
    BY <2>1 DEF CreatePayment, Insert, TypeOK, PaymentRows
  <2>2. ASSUME NEW p \in PaymentIds, CapturePayment(p) PROVE Forward
    BY <2>2 DEF CapturePayment, TypeOK, PaymentRows, Moves
  <2>3. ASSUME NEW p \in PaymentIds, SettlePayment(p) PROVE Forward
    BY <2>3 DEF SettlePayment, Settleable, TypeOK, PaymentRows, Moves
  <2>4. ASSUME NEW p \in PaymentIds, NEW r \in RefundIds, NEW amt \in RefundAmounts,
               RefundPayment(p, r, amt)
        PROVE  Forward
    <3>1. amt \in Nat /\ payment[p] \in PaymentRows
      BY <2>4, AmountsAssumption DEF RefundPayment, TypeOK
    <3> QED BY <2>4, <3>1, RefundedFacts
            DEF RefundPayment, Refundable, TypeOK, PaymentRows, Moves
  <2>5. ASSUME NEW p \in PaymentIds, SettleNetworkFee(p) PROVE Forward
    BY <2>5 DEF SettleNetworkFee, TypeOK, PaymentRows
  <2>6. ASSUME NEW r \in RefundIds, SettleRefund(r) PROVE Forward
    BY <2>6 DEF SettleRefund, TypeOK, PaymentRows
  <2> QED BY <2>1, <2>2, <2>3, <2>4, <2>5, <2>6 DEF Next
<1>2. (Spec => [][Forward]_vars) => (Spec => PaymentsOnlyMoveForward)
  BY DEF PaymentsOnlyMoveForward
<1> HIDE DEF Forward
<1> QED BY <1>1, <1>2, TypeCorrect, PTL DEF Spec

-----------------------------------------------------------------------------
(* The reports.  Balance and fees of an account make up the amounts of the *)
(* payments credited to it less those of the refunds settled from it; the  *)
(* columns of both, for a set S of accounts, and what S holds:             *)
PaidTo(S) ==
    [p \in PaymentIds |-> IF p \in credited /\ payment[p].account \in S
                            THEN payment[p].amount ELSE 0]

RepaidFrom(S) ==
    [r \in RefundIds |-> IF /\ r \in DOMAIN refund /\ refund[r].status = "settled"
                            /\ payment[refund[r].payment].account \in S
                           THEN refund[r].amount ELSE 0]

Gross == [a \in Accounts |-> balance[a].balance + balance[a].fees]

LEMMA AmountColumns ==
    ASSUME TypeOK, NEW S
    PROVE  /\ PaidTo(S) \in [1..MaxPayments -> Int]
           /\ RepaidFrom(S) \in [1..MaxRefunds -> Int]
<1>1. \A p \in credited : payment[p].amount \in Int
  BY DEF TypeOK, PaymentRows
<1>2. \A r \in DOMAIN refund : refund[r].amount \in Int
  BY DEF TypeOK, RefundRows
<1> QED BY <1>1, <1>2 DEF PaidTo, RepaidFrom, PaymentIds, RefundIds

LEMMA GrossType == TypeOK => \A a \in Accounts : /\ balance[a].balance \in Int
                                                 /\ balance[a].fees \in Int
                                                 /\ Gross[a] = balance[a].balance + balance[a].fees
                                                 /\ Gross[a] \in Int
BY DEF TypeOK, BalanceRows, Gross

(* Net and fee of an amount make up the amount.                            *)
LEMMA GrossOfAccount ==
    ASSUME TypeOK, Reconciled, NEW a \in Accounts
    PROVE  Gross[a] = Total(PaidTo({a}), MaxPayments) - Total(RepaidFrom({a}), MaxRefunds)
<1>1. MaxPayments \in Nat /\ MaxRefunds \in Nat
  BY BoundsAssumption
<1>2. /\ NetCredits(a) \in [1..MaxPayments -> Int] /\ FeeCredits(a) \in [1..MaxPayments -> Int]
      /\ NetDebits(a) \in [1..MaxRefunds -> Int] /\ FeeDebits(a) \in [1..MaxRefunds -> Int]
  BY CreditColumns, DebitColumns
<1>3. \A p \in 1..MaxPayments : PaidTo({a})[p] = NetCredits(a)[p] + FeeCredits(a)[p]
  <2>1. \A p \in credited : payment[p].amount = Net(payment[p].amount) + GripeFee(payment[p].amount)
    BY FeeFacts DEF TypeOK, PaymentRows
  <2> QED BY <2>1 DEF PaidTo, NetCredits, FeeCredits, CreditedTo, PaymentIds
<1>4. \A r \in 1..MaxRefunds : RepaidFrom({a})[r] = NetDebits(a)[r] + FeeDebits(a)[r]
  <2>1. \A r \in DOMAIN refund :
           refund[r].amount = Net(refund[r].amount) + GripeFee(refund[r].amount)
    BY FeeFacts DEF TypeOK, RefundRows
  <2> QED BY <2>1 DEF RepaidFrom, NetDebits, FeeDebits, DebitedFrom, RefundIds
<1>5. Total(PaidTo({a}), MaxPayments)
        = Total(NetCredits(a), MaxPayments) + Total(FeeCredits(a), MaxPayments)
  BY <1>1, <1>2, <1>3, TotalPlus
<1>6. Total(RepaidFrom({a}), MaxRefunds)
        = Total(NetDebits(a), MaxRefunds) + Total(FeeDebits(a), MaxRefunds)
  BY <1>1, <1>2, <1>4, TotalPlus
<1>7. /\ Total(NetCredits(a), MaxPayments) \in Int /\ Total(FeeCredits(a), MaxPayments) \in Int
      /\ Total(NetDebits(a), MaxRefunds) \in Int /\ Total(FeeDebits(a), MaxRefunds) \in Int
  BY <1>1, <1>2, TotalType
<1>8. /\ balance[a].balance = Total(NetCredits(a), MaxPayments) - Total(NetDebits(a), MaxRefunds)
      /\ balance[a].fees    = Total(FeeCredits(a), MaxPayments) - Total(FeeDebits(a), MaxRefunds)
  BY DEF Reconciled
<1> QED BY <1>5, <1>6, <1>7, <1>8, GrossType

(* A payment has one account: what a set of accounts holds is the sum over *)
(* its members.                                                            *)
LEMMA GrossOfAccounts ==
    ASSUME TypeOK, Reconciled, NEW A \in SUBSET Accounts
    PROVE  SumFunctionOnSet(Gross, A)
             = Total(PaidTo(A), MaxPayments) - Total(RepaidFrom(A), MaxRefunds)
<1> DEFINE Explained(S) == SumFunctionOnSet(Gross, S)
                             = Total(PaidTo(S), MaxPayments) - Total(RepaidFrom(S), MaxRefunds)
           Bad == {S \in SUBSET Accounts : ~ Explained(S)}
<1>1. SUFFICES ASSUME Bad # {} PROVE FALSE
  OBVIOUS
<1>2. PICK S \in Bad : \A k \in Bad : k \subseteq S => k = S
  <2>1. Bad \in SUBSET (SUBSET Accounts)
    OBVIOUS
  <2> HIDE DEF Bad
  <2> QED BY <1>1, <2>1, AccountsAssumption, MinimalSubset
<1>3. S \in SUBSET Accounts /\ IsFiniteSet(S) /\ ~ Explained(S)
  BY <1>2, AccountsAssumption, FS_Subset
<1>4. MaxPayments \in Nat /\ MaxRefunds \in Nat
  BY BoundsAssumption
<1>5. ASSUME S = {} PROVE FALSE
  <2>1. Total(PaidTo({}), MaxPayments) = 0
    BY <1>4, TotalZero DEF PaidTo, PaymentIds
  <2>2. Total(RepaidFrom({}), MaxRefunds) = 0
    BY <1>4, TotalZero DEF RepaidFrom, RefundIds
  <2>3. SumFunctionOnSet(Gross, {}) = 0
    BY <1>3, <1>5, SumFirst
  <2> QED BY <1>3, <1>5, <2>1, <2>2, <2>3
<1>6. PICK a \in S : TRUE
  BY <1>5
<1> DEFINE R == S \ {a}
<1>7. R \in SUBSET Accounts /\ R \subseteq S /\ R # S /\ a \in Accounts
  BY <1>3, <1>6
<1>8. Explained(R)
  BY <1>2, <1>7
<1>9. SumFunctionOnSet(Gross, S) = Gross[a] + SumFunctionOnSet(Gross, R)
  BY <1>3, <1>6, GrossType, SumRemove
<1>10. \A p \in 1..MaxPayments : PaidTo(S)[p] = PaidTo({a})[p] + PaidTo(R)[p]
  <2>1. \A p \in credited : payment[p].amount \in Int
    BY DEF TypeOK, PaymentRows
  <2> QED BY <1>6, <2>1 DEF PaidTo, PaymentIds
<1>11. \A r \in 1..MaxRefunds : RepaidFrom(S)[r] = RepaidFrom({a})[r] + RepaidFrom(R)[r]
  <2>1. \A r \in DOMAIN refund : refund[r].amount \in Int
    BY DEF TypeOK, RefundRows
  <2> QED BY <1>6, <2>1 DEF RepaidFrom, RefundIds
<1> HIDE DEF R
<1>12. Total(PaidTo(S), MaxPayments)
         = Total(PaidTo({a}), MaxPayments) + Total(PaidTo(R), MaxPayments)
  BY <1>4, <1>10, AmountColumns, TotalPlus
<1>13. Total(RepaidFrom(S), MaxRefunds)
         = Total(RepaidFrom({a}), MaxRefunds) + Total(RepaidFrom(R), MaxRefunds)
  BY <1>4, <1>11, AmountColumns, TotalPlus
<1>14. /\ Total(PaidTo({a}), MaxPayments) \in Int /\ Total(PaidTo(R), MaxPayments) \in Int
       /\ Total(RepaidFrom({a}), MaxRefunds) \in Int /\ Total(RepaidFrom(R), MaxRefunds) \in Int
  BY <1>4, AmountColumns, TotalType
<1>15. Gross[a] = Total(PaidTo({a}), MaxPayments) - Total(RepaidFrom({a}), MaxRefunds)
  BY <1>7, GrossOfAccount
<1> QED BY <1>3, <1>8, <1>9, <1>12, <1>13, <1>14, <1>15

(* The accounts that hold a currency hold what settled in it.              *)
LEMMA SettledByAccounts ==
    ASSUME TypeOK, NEW cur
    PROVE  LET A == {a \in Posted : CurrencyOf[a] = cur}
           IN  SettledIn(cur) = Total(PaidTo(A), MaxPayments) - Total(RepaidFrom(A), MaxRefunds)
<1> DEFINE A == {a \in Posted : CurrencyOf[a] = cur}
           paid   == [p \in PaymentIds |->
                        IF p \in credited /\ CurrencyOf[payment[p].account] = cur
                          THEN payment[p].amount ELSE 0]
           repaid == [r \in RefundIds |->
                        IF /\ r \in DOMAIN refund /\ refund[r].status = "settled"
                           /\ CurrencyOf[payment[refund[r].payment].account] = cur
                          THEN refund[r].amount ELSE 0]
<1>1. \A p \in credited : payment[p].account \in Accounts /\ p \in PaymentIds
  BY DEF TypeOK, PaymentRows
<1>2. \A p \in credited : payment[p].account \in Posted
  BY <1>1 DEF Posted, CreditedTo
<1>3. \A r \in DOMAIN refund : payment[refund[r].payment].account \in Accounts /\ r \in RefundIds
  BY DEF TypeOK, PaymentRows
<1>4. \A r \in DOMAIN refund : refund[r].status = "settled" =>
         payment[refund[r].payment].account \in Posted
  BY <1>3 DEF Posted, DebitedFrom
<1>5. paid = PaidTo(A)
  BY <1>2 DEF PaidTo
<1>6. repaid = RepaidFrom(A)
  BY <1>4 DEF RepaidFrom
<1>7. SettledIn(cur) = Total(paid, MaxPayments) - Total(repaid, MaxRefunds)
  BY DEF SettledIn
<1> QED BY <1>5, <1>6, <1>7

(* Summing merchant by merchant leaves out no account and counts none      *)
(* twice.                                                                  *)
LEMMA HoldingsAddUp ==
    ASSUME TypeOK, NEW cur
    PROVE  LET A == {a \in Posted : CurrencyOf[a] = cur}
           IN  SumFunction([m \in {MerchantOf[a] : a \in DOMAIN AdminBalanceReport} |-> Holding(m, cur)])
                 = SumFunctionOnSet([a \in Accounts |-> balance[a].balance], A)
<1> DEFINE A == {a \in Posted : CurrencyOf[a] = cur}
           f == [a \in Accounts |-> balance[a].balance]
           M == {MerchantOf[a] : a \in DOMAIN AdminBalanceReport}
           g == [m \in M |-> Holding(m, cur)]
           Of(m) == {x \in A : MerchantOf[x] = m}
<1>1. Posted \subseteq Accounts /\ A \subseteq Accounts /\ IsFiniteSet(A) /\ IsFiniteSet(Posted)
  <2>1. Posted \subseteq Accounts /\ A \subseteq Accounts
    BY DEF Posted
  <2> QED BY <2>1, AccountsAssumption, FS_Subset
<1>2. M = {MerchantOf[a] : a \in Posted}
  BY <1>1 DEF AdminBalanceReport, BalanceRowsOf
<1>3. IsFiniteSet(M)
  <2> DEFINE F == [a \in Posted |-> MerchantOf[a]]
  <2>1. F \in Surjection(Posted, M)
    BY <1>2 DEF Surjection
  <2> HIDE DEF F, M
  <2> QED BY <1>1, <2>1, FS_Surjection
<1>4. \A a \in A : f[a] \in Int /\ f[a] = balance[a].balance /\ MerchantOf[a] \in M
  BY <1>1, <1>2, GrossType
<1>5. ASSUME NEW m \in M PROVE g[m] = SumFunctionOnSet(f, Of(m))
  <2> DEFINE h == [a \in {b \in DOMAIN GetMerchantBalances(m) : CurrencyOf[b] = cur} |->
                     GetMerchantBalances(m)[a].balance]
  <2>1. DOMAIN h = Of(m)
    BY <1>1 DEF GetMerchantBalances, BalanceRowsOf
  <2>2. \A x \in Of(m) : f[x] \in Int /\ h[x] = f[x]
    BY <1>1, <1>4 DEF GetMerchantBalances, BalanceRowsOf
  <2>3. IsFiniteSet(Of(m))
    BY <1>1, FS_Subset
  <2>4. g[m] = SumFunctionOnSet(h, DOMAIN h)
    BY DEF Holding, SumFunction
  <2> HIDE DEF Of, h, f, g
  <2>5. SumFunctionOnSet(h, Of(m)) = SumFunctionOnSet(f, Of(m))
    BY <2>2, <2>3, SumSame
  <2> QED BY <2>1, <2>4, <2>5
<1>6. SumFunction(g) = SumFunctionOnSet(g, M)
  BY DEF SumFunction
<1> DEFINE class == [m \in M |-> Of(m)]
<1>7. \A m \in M : g[m] = SumFunctionOnSet(f, class[m])
  BY <1>5
<1>8. /\ \A m \in M : class[m] \subseteq A
      /\ \A a \in A : \E m \in M : a \in class[m]
      /\ \A m, n \in M : m # n => class[m] \cap class[n] = {}
  BY <1>4
<1>9. SumFunctionOnSet(g, M) = SumFunctionOnSet(f, A)
  <2>1. \A a \in A : f[a] \in Int
    BY <1>4
  <2> HIDE DEF A, M, f, g, Of, class
  <2> QED BY <1>1, <1>3, <1>7, <1>8, <2>1, SumByClass
<1> QED BY <1>6, <1>9

LEMMA BooksOfCurrency ==
    ASSUME TypeOK, Reconciled
    PROVE  BooksBalance
<1> SUFFICES ASSUME NEW cur \in DOMAIN AdminRevenueReport
             PROVE  SumFunction([m \in {MerchantOf[a] : a \in DOMAIN AdminBalanceReport} |->
                                   Holding(m, cur)]) + AdminRevenueReport[cur] = SettledIn(cur)
  BY DEF BooksBalance
<1> DEFINE A == {a \in Posted : CurrencyOf[a] = cur}
           f == [a \in Accounts |-> balance[a].balance]
           g == [a \in Accounts |-> balance[a].fees]
           h == [a \in A |-> balance[a].fees]
<1>1. A \in SUBSET Accounts /\ IsFiniteSet(A)
  <2>1. A \in SUBSET Accounts
    BY DEF Posted
  <2> QED BY <2>1, AccountsAssumption, FS_Subset
<1>2. \A a \in A : f[a] \in Int /\ g[a] \in Int /\ h[a] = g[a] /\ Gross[a] = f[a] + g[a]
  BY <1>1, GrossType
<1>3. AdminRevenueReport[cur] = SumFunctionOnSet(h, A)
  BY DEF AdminRevenueReport, SumFunction
<1>4. SumFunction([m \in {MerchantOf[a] : a \in DOMAIN AdminBalanceReport} |-> Holding(m, cur)])
        = SumFunctionOnSet(f, A)
  BY HoldingsAddUp
<1>5. SettledIn(cur) = Total(PaidTo(A), MaxPayments) - Total(RepaidFrom(A), MaxRefunds)
  BY SettledByAccounts
<1> HIDE DEF A, f, g, h
<1>6. SumFunctionOnSet(h, A) = SumFunctionOnSet(g, A)
  BY <1>1, <1>2, SumSame
<1>7. SumFunctionOnSet(Gross, A) = SumFunctionOnSet(f, A) + SumFunctionOnSet(g, A)
  BY <1>1, <1>2, SumPlus
<1>8. SumFunctionOnSet(Gross, A)
        = Total(PaidTo(A), MaxPayments) - Total(RepaidFrom(A), MaxRefunds)
  BY <1>1, GrossOfAccounts
<1> QED BY <1>3, <1>4, <1>5, <1>6, <1>7, <1>8

(* What the merchants read and Gripe's revenue make up what settled, for   *)
(* any merchants, currencies and history of payments and refunds.          *)
THEOREM ReportsAddUp == Spec => []BooksBalance
<1>1. LedgerInv => BooksBalance
  BY BooksOfCurrency DEF LedgerInv
<1> QED BY <1>1, InvHolds, PTL

-----------------------------------------------------------------------------
(* The fee in the machine's integers.                                      *)
LEMMA RemainderOfSmall ==
    ASSUME NEW n \in Nat, NEW d \in Nat \ {0}, n < d
    PROVE  n % d = n
OBVIOUS

LEMMA RemainderOnce ==
    ASSUME NEW n \in Nat, NEW d \in Nat \ {0}, d <= n, n < 2 * d
    PROVE  n % d = n - d
OBVIOUS

(* money.go computes the fee of Ledger as long as amount * 300 does not    *)
(* overflow: for int64, up to 30,744,573,456,182,586 minor units.          *)
THEOREM FeesFitTheirWidth ==
    ASSUME NEW maxInt \in Nat, NEW amount \in Nat,
           amount * GripeFeeBasisPoints <= maxInt
    PROVE  FixedWidthFee(amount, maxInt) = GripeFee(amount)
<1> DEFINE n == amount * GripeFeeBasisPoints
<1>1. n \in Nat
  BY DEF GripeFeeBasisPoints
<1> HIDE DEF n
<1>2. (n + maxInt + 1) % (2 * maxInt + 2) = n + maxInt + 1
  BY <1>1, RemainderOfSmall DEF n
<1>3. Wrapped(n, maxInt) = n
  BY <1>1, <1>2 DEF Wrapped
<1> QED BY <1>1, <1>3 DEF n, FixedWidthFee, GripeFee

(* Beyond that, until the product has wrapped all the way round, the fee   *)
(* comes out zero or negative: the merchant would be credited the amount   *)
(* and more, and Gripe's revenue would shrink.                             *)
THEOREM OverflowedFeesAreNotPositive ==
    ASSUME NEW maxInt \in Nat, NEW amount \in Nat,
           maxInt < amount * GripeFeeBasisPoints,
           amount * GripeFeeBasisPoints <= 2 * maxInt + 1
    PROVE  FixedWidthFee(amount, maxInt) <= 0
<1> DEFINE n == amount * GripeFeeBasisPoints
           w == Wrapped(n, maxInt)
<1>1. n \in Nat
  BY DEF GripeFeeBasisPoints
<1> HIDE DEF n
<1>2. (n + maxInt + 1) % (2 * maxInt + 2) = (n + maxInt + 1) - (2 * maxInt + 2)
  BY <1>1, RemainderOnce DEF n
<1>3. w = n - (2 * maxInt + 2) /\ w \in Int /\ w < 0
  BY <1>1, <1>2 DEF n, Wrapped
<1> HIDE DEF w
<1>4. (- w) \div 10000 >= 0 /\ (- w) \div 10000 \in Int
  BY <1>3
<1>5. FixedWidthFee(amount, maxInt) = - ((- w) \div 10000)
  BY <1>3 DEF FixedWidthFee, n, w
<1> QED BY <1>4, <1>5

=============================================================================
