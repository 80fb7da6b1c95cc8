----------------------------- MODULE MongoProofs -----------------------------
(***************************************************************************)
(* Proofs about MongoStore, for any number of sessions, accounts, parties  *)
(* and rows: however the single-document writes interleave and wherever a  *)
(* request stops between two of them, the documents plus the postings      *)
(* still owed are the atomic Ledger, "ok" is only said of what both writes *)
(* have done, and no payment is inserted before its parties.               *)
(***************************************************************************)
EXTENDS MongoStore, SumLemmas

CONSTANT CurrencyOf     \* the currency of each account, for the reports

LP == INSTANCE LedgerProofs WITH balance <- BooksWithOwed

-----------------------------------------------------------------------------
(* The inductive invariant.  The refinement rests on OwedIsSettled and     *)
(* CreditedStays: a flip finds a row that owes nothing, so the debt it     *)
(* leaves is new.  That each debt is paid once rests on CreditsPending: a  *)
(* session about to $inc owns its debt, and no two own the same.           *)
Steps == {"idle", "merchant", "customer", "insert", "update", "credit", "probe"}

SessionsTyped == tx \in [Sessions -> [pc : Steps, req : Requests \cup {NoRequest}]]

RowOps == {"capture", "settlePayment", "networkFee", "refund"}

(* Which requests get to which step.                                       *)
OpInPlace(s) ==
    LET op == tx[s].req.op
    IN  /\ op = "none" <=> At(s, "idle")
        /\ tx[s].pc \in {"merchant", "customer", "insert"} => op \in {"create", "subscribe"}
        /\ tx[s].pc \in {"update", "probe"} => op \in RowOps \cup {"settleRefund"}
        /\ At(s, "credit") => op \in {"settlePayment", "settleRefund"}

OpsInPlace == \A s \in Sessions : OpInPlace(s)

(* A request names a row that exists or one that never will.               *)
NamesKnown ==
    \A s \in Sessions : tx[s].req.op \in RowOps =>
       tx[s].req.payment \in DOMAIN payment \cup {NoSuchId}

(* A fee already set is why SettleNetworkFee misses a payment that exists. *)
FeeSeen(s) ==
    LET p == tx[s].req.payment
    IN  tx[s].req.op = "networkFee" /\ p \in DOMAIN payment => payment[p].networkFee # 0

FeesSeen == \A s \in Sessions : At(s, "probe") => FeeSeen(s)

(* What is owed was flipped, and a flipped row cannot be flipped again.    *)
SettledRefunds == {r \in DOMAIN refund : refund[r].status = "settled"}

OwedIsSettled == owed \subseteq ({"payment"} \X credited) \cup ({"refund"} \X SettledRefunds)

CreditedStays == \A p \in credited : payment[p].status \in {"settled", "refunded"}

CreditsPending ==
    \A s \in Sessions : At(s, "credit") =>
       /\ Target(tx[s].req) \in owed
       /\ \A t \in Sessions \ {s} : At(t, "credit") => Target(tx[t].req) # Target(tx[s].req)

(* The cache never runs ahead of the documents.                            *)
OnboardedFor(s) ==
    /\ tx[s].pc \in {"customer", "insert"} => MerchantOf[tx[s].req.account] \in party
    /\ At(s, "insert") => tx[s].req.customer \in party

PartiesOnboarded ==
    /\ seen \subseteq party /\ party \subseteq Parties
    /\ \A s \in Sessions : OnboardedFor(s)

AnswerTyped == answer \in [to : Sessions, is : Answers] \cup {NoAnswer}

RecordsTyped ==
    /\ balance \in [Accounts -> BalanceRows]
    /\ subscription \subseteq Accounts \X Customers
    /\ AnswerTyped

IInv ==
    /\ L!TypeOK
    /\ SessionsTyped /\ OpsInPlace /\ NamesKnown /\ FeesSeen
    /\ OwedIsSettled /\ CreditedStays /\ CreditsPending
    /\ PartiesOnboarded /\ RecordsTyped

-----------------------------------------------------------------------------
(* A column of the chosen entries of v, and what choosing one more does.   *)
Chosen(v, S, n) == [i \in 1..n |-> IF i \in S THEN v[i] ELSE 0]

LEMMA ChooseOne ==
    ASSUME NEW n \in Nat, NEW v, NEW S \in SUBSET (1..n), NEW k \in (1..n) \ S,
           \A i \in S \cup {k} : v[i] \in Int
    PROVE  /\ Total(Chosen(v, S, n), n) \in Int
           /\ Total(Chosen(v, S \cup {k}, n), n) = Total(Chosen(v, S, n), n) + v[k]
<1> DEFINE f == Chosen(v, S, n)
           g == Chosen(v, S \cup {k}, n)
<1>1. f \in [1..n -> Int] /\ f[k] = 0 /\ v[k] \in Int
  BY DEF Chosen
<1>2. g = [f EXCEPT ![k] = v[k]]
  BY DEF Chosen
<1> HIDE DEF f, g
<1>3. Total(f, n) \in Int
  BY <1>1, TotalType
<1>4. Total([f EXCEPT ![k] = v[k]], n) = Total(f, n) + v[k]
  BY <1>1, TotalFill
<1> QED BY <1>2, <1>3, <1>4 DEF f, g

LEMMA NoneChosen ==
    ASSUME NEW n \in Nat, NEW v
    PROVE  Total(Chosen(v, {}, n), n) = 0
BY TotalZero DEF Chosen

LEMMA ChosenType ==
    ASSUME NEW n \in Nat, NEW v, NEW S \in SUBSET (1..n), \A i \in S : v[i] \in Int
    PROVE  Total(Chosen(v, S, n), n) \in Int
<1>1. Chosen(v, S, n) \in [1..n -> Int]
  BY DEF Chosen
<1> QED BY <1>1, TotalType

-----------------------------------------------------------------------------
(* What documents pay and ref owe account a when the rows of ow are owed.  *)
PaymentsOwed(pay, ow, a) ==
    {p \in PaymentIds : <<"payment", p>> \in ow /\ pay[p].account = a}
RefundsOwed(pay, ref, ow, a) ==
    {r \in RefundIds : <<"refund", r>> \in ow /\ pay[ref[r].payment].account = a}

NetOf(table, ids) == [i \in ids |-> Net(table[i].amount)]
FeeOf(table, ids) == [i \in ids |-> GripeFee(table[i].amount)]

NetOwed(pay, ref, ow, a) ==
    Total(Chosen(NetOf(pay, PaymentIds), PaymentsOwed(pay, ow, a), MaxPayments), MaxPayments)
    - Total(Chosen(NetOf(ref, RefundIds), RefundsOwed(pay, ref, ow, a), MaxRefunds), MaxRefunds)
FeesOwed(pay, ref, ow, a) ==
    Total(Chosen(FeeOf(pay, PaymentIds), PaymentsOwed(pay, ow, a), MaxPayments), MaxPayments)
    - Total(Chosen(FeeOf(ref, RefundIds), RefundsOwed(pay, ref, ow, a), MaxRefunds), MaxRefunds)

LEMMA OwedColumns ==
    \A a : /\ OwedNet(a) = NetOwed(payment, refund, owed, a)
           /\ OwedFees(a) = FeesOwed(payment, refund, owed, a)
           /\ OwedNet(a)' = NetOwed(payment', refund', owed', a)
           /\ OwedFees(a)' = FeesOwed(payment', refund', owed', a)
<1> TAKE a
<1> USE DEF OwedPayment, OwedRefund, PaymentIds, RefundIds, Chosen, NetOf, FeeOf, PaymentsOwed,
            RefundsOwed
<1>1. OwedNet(a) = NetOwed(payment, refund, owed, a)
  BY DEF OwedNet, NetOwed
<1>2. OwedFees(a) = FeesOwed(payment, refund, owed, a)
  BY DEF OwedFees, FeesOwed
<1>3. OwedNet(a)' = NetOwed(payment', refund', owed', a)
  BY DEF OwedNet, NetOwed
<1>4. OwedFees(a)' = FeesOwed(payment', refund', owed', a)
  BY DEF OwedFees, FeesOwed
<1> QED BY <1>1, <1>2, <1>3, <1>4

(* The amounts of the rows that are owed.                                  *)
OwedRowsTyped(pay, ref, ow) ==
    /\ \A p \in PaymentIds : <<"payment", p>> \in ow => pay[p].amount \in Nat
    /\ \A r \in RefundIds : <<"refund", r>> \in ow => ref[r].amount \in Nat

LEMMA FeeType ==
    ASSUME NEW amt \in Nat
    PROVE  GripeFee(amt) \in Int /\ Net(amt) \in Int
BY DEF GripeFee, Net, DivHalfEven, GripeFeeBasisPoints

LEMMA OwedType ==
    ASSUME NEW pay, NEW ref, NEW ow, OwedRowsTyped(pay, ref, ow), NEW a
    PROVE  NetOwed(pay, ref, ow, a) \in Int /\ FeesOwed(pay, ref, ow, a) \in Int
<1> DEFINE ps == PaymentsOwed(pay, ow, a)
           rs == RefundsOwed(pay, ref, ow, a)
<1>1. ps \in SUBSET (1..MaxPayments) /\ rs \in SUBSET (1..MaxRefunds)
  BY DEF PaymentsOwed, RefundsOwed, PaymentIds, RefundIds
<1>2. \A p \in ps : NetOf(pay, PaymentIds)[p] \in Int /\ FeeOf(pay, PaymentIds)[p] \in Int
  BY FeeType DEF PaymentsOwed, OwedRowsTyped, NetOf, FeeOf
<1>3. \A r \in rs : NetOf(ref, RefundIds)[r] \in Int /\ FeeOf(ref, RefundIds)[r] \in Int
  BY FeeType DEF RefundsOwed, OwedRowsTyped, NetOf, FeeOf
<1> HIDE DEF ps, rs
<1>4. /\ Total(Chosen(NetOf(pay, PaymentIds), ps, MaxPayments), MaxPayments) \in Int
      /\ Total(Chosen(FeeOf(pay, PaymentIds), ps, MaxPayments), MaxPayments) \in Int
  BY <1>1, <1>2, BoundsAssumption, ChosenType
<1>5. /\ Total(Chosen(NetOf(ref, RefundIds), rs, MaxRefunds), MaxRefunds) \in Int
      /\ Total(Chosen(FeeOf(ref, RefundIds), rs, MaxRefunds), MaxRefunds) \in Int
  BY <1>1, <1>3, BoundsAssumption, ChosenType
<1> QED BY <1>4, <1>5 DEF NetOwed, FeesOwed, ps, rs

(* Rows that keep account and amount owe what they owed.                   *)
LEMMA OwedSame ==
    ASSUME NEW pay, NEW ref, NEW pay2, NEW ref2, NEW ow, NEW a,
           \A p \in PaymentIds : <<"payment", p>> \in ow =>
              pay2[p].account = pay[p].account /\ pay2[p].amount = pay[p].amount,
           \A r \in RefundIds : <<"refund", r>> \in ow =>
              /\ pay2[ref2[r].payment].account = pay[ref[r].payment].account
              /\ ref2[r].amount = ref[r].amount
    PROVE  /\ NetOwed(pay2, ref2, ow, a) = NetOwed(pay, ref, ow, a)
           /\ FeesOwed(pay2, ref2, ow, a) = FeesOwed(pay, ref, ow, a)
<1> DEFINE ps == PaymentsOwed(pay, ow, a)
           rs == RefundsOwed(pay, ref, ow, a)
<1>1. PaymentsOwed(pay2, ow, a) = ps
  BY DEF PaymentsOwed
<1>2. RefundsOwed(pay2, ref2, ow, a) = rs
  BY DEF RefundsOwed
<1>3. /\ Chosen(NetOf(pay2, PaymentIds), ps, MaxPayments) =
            Chosen(NetOf(pay, PaymentIds), ps, MaxPayments)
      /\ Chosen(FeeOf(pay2, PaymentIds), ps, MaxPayments) =
            Chosen(FeeOf(pay, PaymentIds), ps, MaxPayments)
  BY DEF Chosen, NetOf, FeeOf, PaymentsOwed, PaymentIds
<1>4. /\ Chosen(NetOf(ref2, RefundIds), rs, MaxRefunds) =
            Chosen(NetOf(ref, RefundIds), rs, MaxRefunds)
      /\ Chosen(FeeOf(ref2, RefundIds), rs, MaxRefunds) =
            Chosen(FeeOf(ref, RefundIds), rs, MaxRefunds)
  BY DEF Chosen, NetOf, FeeOf, RefundsOwed, RefundIds
<1> HIDE DEF ps, rs
<1> QED BY <1>1, <1>2, <1>3, <1>4 DEF NetOwed, FeesOwed, ps, rs

(* What account a is owed when a credit, or a debit, of amt to acct is     *)
(* owed too.                                                               *)
CreditOwed(pay, ref, ow, more, a, acct, amt) ==
    /\ NetOwed(pay, ref, more, a) = NetOwed(pay, ref, ow, a) + (IF acct = a THEN Net(amt) ELSE 0)
    /\ FeesOwed(pay, ref, more, a) =
          FeesOwed(pay, ref, ow, a) + (IF acct = a THEN GripeFee(amt) ELSE 0)
DebitOwed(pay, ref, ow, more, a, acct, amt) ==
    /\ NetOwed(pay, ref, more, a) = NetOwed(pay, ref, ow, a) - (IF acct = a THEN Net(amt) ELSE 0)
    /\ FeesOwed(pay, ref, more, a) =
          FeesOwed(pay, ref, ow, a) - (IF acct = a THEN GripeFee(amt) ELSE 0)

(* One more payment owed, to its account and no other.                     *)
LEMMA OwePayment ==
    ASSUME NEW pay, NEW ref, NEW ow, NEW p \in PaymentIds, <<"payment", p>> \notin ow,
           NEW more, more = ow \cup {<<"payment", p>>}, OwedRowsTyped(pay, ref, more), NEW a
    PROVE  CreditOwed(pay, ref, ow, more, a, pay[p].account, pay[p].amount)
<1> DEFINE acct == pay[p].account
           amt == pay[p].amount
           ps == PaymentsOwed(pay, ow, a)
           ps2 == PaymentsOwed(pay, more, a)
           rs == RefundsOwed(pay, ref, ow, a)
           N == NetOf(pay, PaymentIds)
           F == FeeOf(pay, PaymentIds)
<1>1. RefundsOwed(pay, ref, more, a) = rs
  BY DEF RefundsOwed
<1>2. ps2 = IF acct = a THEN ps \cup {p} ELSE ps
  BY DEF PaymentsOwed
<1>3. OwedRowsTyped(pay, ref, ow)
  BY DEF OwedRowsTyped
<1>4. NetOwed(pay, ref, ow, a) \in Int /\ FeesOwed(pay, ref, ow, a) \in Int
  BY <1>3, OwedType
<1>5. /\ ps \in SUBSET (1..MaxPayments) /\ rs \in SUBSET (1..MaxRefunds)
      /\ p \in (1..MaxPayments) \ ps
  BY DEF PaymentsOwed, RefundsOwed, PaymentIds, RefundIds
<1>6. \A i \in ps \cup {p} : N[i] \in Int /\ F[i] \in Int
  BY FeeType DEF PaymentsOwed, OwedRowsTyped, NetOf, FeeOf
<1>7. N[p] = Net(amt) /\ F[p] = GripeFee(amt)
  BY DEF NetOf, FeeOf
<1> DEFINE X == Total(Chosen(NetOf(ref, RefundIds), rs, MaxRefunds), MaxRefunds)
           Y == Total(Chosen(FeeOf(ref, RefundIds), rs, MaxRefunds), MaxRefunds)
<1>8. X \in Int /\ Y \in Int
  <2>1. \A i \in rs : NetOf(ref, RefundIds)[i] \in Int /\ FeeOf(ref, RefundIds)[i] \in Int
    BY <1>3, FeeType DEF PaymentsOwed, RefundsOwed, OwedRowsTyped, NetOf, FeeOf
  <2> HIDE DEF rs
  <2> QED BY <1>5, <2>1, BoundsAssumption, ChosenType
<1>9. /\ NetOwed(pay, ref, ow, a) = Total(Chosen(N, ps, MaxPayments), MaxPayments) - X
      /\ FeesOwed(pay, ref, ow, a) = Total(Chosen(F, ps, MaxPayments), MaxPayments) - Y
      /\ NetOwed(pay, ref, more, a) = Total(Chosen(N, ps2, MaxPayments), MaxPayments) - X
      /\ FeesOwed(pay, ref, more, a) = Total(Chosen(F, ps2, MaxPayments), MaxPayments) - Y
  BY <1>1 DEF NetOwed, FeesOwed
<1> HIDE DEF acct, amt, ps, ps2, rs, N, F, X, Y
<1>10. /\ Total(Chosen(N, ps, MaxPayments), MaxPayments) \in Int
       /\ Total(Chosen(F, ps, MaxPayments), MaxPayments) \in Int
       /\ Total(Chosen(N, ps \cup {p}, MaxPayments), MaxPayments) =
             Total(Chosen(N, ps, MaxPayments), MaxPayments) + N[p]
       /\ Total(Chosen(F, ps \cup {p}, MaxPayments), MaxPayments) =
             Total(Chosen(F, ps, MaxPayments), MaxPayments) + F[p]
  <2>1. /\ Total(Chosen(N, ps, MaxPayments), MaxPayments) \in Int
        /\ Total(Chosen(N, ps \cup {p}, MaxPayments), MaxPayments) =
              Total(Chosen(N, ps, MaxPayments), MaxPayments) + N[p]
    <3>1. MaxPayments \in Nat /\ \A i \in ps \cup {p} : N[i] \in Int
      BY <1>6, BoundsAssumption
    <3> QED BY <1>5, <3>1, ChooseOne
  <2>2. /\ Total(Chosen(F, ps, MaxPayments), MaxPayments) \in Int
        /\ Total(Chosen(F, ps \cup {p}, MaxPayments), MaxPayments) =
              Total(Chosen(F, ps, MaxPayments), MaxPayments) + F[p]
    <3>1. MaxPayments \in Nat /\ \A i \in ps \cup {p} : F[i] \in Int
      BY <1>6, BoundsAssumption
    <3> QED BY <1>5, <3>1, ChooseOne
  <2> QED BY <2>1, <2>2
<1>11. N[p] \in Int /\ F[p] \in Int
  BY <1>6
<1>12. acct = a => CreditOwed(pay, ref, ow, more, a, acct, amt)
  <2> HAVE acct = a
  <2>1. /\ NetOwed(pay, ref, more, a) = NetOwed(pay, ref, ow, a) + N[p]
        /\ FeesOwed(pay, ref, more, a) = FeesOwed(pay, ref, ow, a) + F[p]
    BY <1>2, <1>8, <1>9, <1>10, <1>11
  <2> QED BY <2>1, <1>7 DEF CreditOwed
<1>13. acct # a => CreditOwed(pay, ref, ow, more, a, acct, amt)
  <2> HAVE acct # a
  <2>1. /\ NetOwed(pay, ref, more, a) = NetOwed(pay, ref, ow, a)
        /\ FeesOwed(pay, ref, more, a) = FeesOwed(pay, ref, ow, a)
    BY <1>2, <1>9
  <2> QED BY <2>1, <1>4 DEF CreditOwed
<1> QED BY <1>12, <1>13 DEF acct, amt

(* One more refund owed: it is taken from its payment's account.           *)
LEMMA OweRefund ==
    ASSUME NEW pay, NEW ref, NEW ow, NEW r \in RefundIds, <<"refund", r>> \notin ow,
           NEW more, more = ow \cup {<<"refund", r>>}, OwedRowsTyped(pay, ref, more), NEW a
    PROVE  DebitOwed(pay, ref, ow, more, a, pay[ref[r].payment].account, ref[r].amount)
<1> DEFINE acct == pay[ref[r].payment].account
           amt == ref[r].amount
           ps == PaymentsOwed(pay, ow, a)
           rs == RefundsOwed(pay, ref, ow, a)
           rs2 == RefundsOwed(pay, ref, more, a)
           N == NetOf(ref, RefundIds)
           F == FeeOf(ref, RefundIds)
<1>1. PaymentsOwed(pay, more, a) = ps
  BY DEF PaymentsOwed
<1>2. rs2 = IF acct = a THEN rs \cup {r} ELSE rs
  BY DEF RefundsOwed
<1>3. OwedRowsTyped(pay, ref, ow)
  BY DEF OwedRowsTyped
<1>4. NetOwed(pay, ref, ow, a) \in Int /\ FeesOwed(pay, ref, ow, a) \in Int
  BY <1>3, OwedType
<1>5. /\ ps \in SUBSET (1..MaxPayments) /\ rs \in SUBSET (1..MaxRefunds)
      /\ r \in (1..MaxRefunds) \ rs
  BY DEF PaymentsOwed, RefundsOwed, PaymentIds, RefundIds
<1>6. \A i \in rs \cup {r} : N[i] \in Int /\ F[i] \in Int
  BY FeeType DEF RefundsOwed, OwedRowsTyped, NetOf, FeeOf
<1>7. N[r] = Net(amt) /\ F[r] = GripeFee(amt)
  BY DEF NetOf, FeeOf
<1> DEFINE X == Total(Chosen(NetOf(pay, PaymentIds), ps, MaxPayments), MaxPayments)
           Y == Total(Chosen(FeeOf(pay, PaymentIds), ps, MaxPayments), MaxPayments)
<1>8. X \in Int /\ Y \in Int
  <2>1. \A i \in ps : NetOf(pay, PaymentIds)[i] \in Int /\ FeeOf(pay, PaymentIds)[i] \in Int
    BY <1>3, FeeType DEF PaymentsOwed, RefundsOwed, OwedRowsTyped, NetOf, FeeOf
  <2> HIDE DEF acct, amt, ps
  <2> QED BY <1>5, <2>1, BoundsAssumption, ChosenType
<1>9. /\ NetOwed(pay, ref, ow, a) = X - Total(Chosen(N, rs, MaxRefunds), MaxRefunds)
      /\ FeesOwed(pay, ref, ow, a) = Y - Total(Chosen(F, rs, MaxRefunds), MaxRefunds)
      /\ NetOwed(pay, ref, more, a) = X - Total(Chosen(N, rs2, MaxRefunds), MaxRefunds)
      /\ FeesOwed(pay, ref, more, a) = Y - Total(Chosen(F, rs2, MaxRefunds), MaxRefunds)
  BY <1>1 DEF NetOwed, FeesOwed
<1> HIDE DEF ps, rs, rs2, N, F, X, Y
<1>10. /\ Total(Chosen(N, rs, MaxRefunds), MaxRefunds) \in Int
       /\ Total(Chosen(F, rs, MaxRefunds), MaxRefunds) \in Int
       /\ Total(Chosen(N, rs \cup {r}, MaxRefunds), MaxRefunds) =
             Total(Chosen(N, rs, MaxRefunds), MaxRefunds) + N[r]
       /\ Total(Chosen(F, rs \cup {r}, MaxRefunds), MaxRefunds) =
             Total(Chosen(F, rs, MaxRefunds), MaxRefunds) + F[r]
  BY <1>5, <1>6, BoundsAssumption, ChooseOne
<1>11. N[r] \in Int /\ F[r] \in Int
  BY <1>6
<1>12. acct = a => DebitOwed(pay, ref, ow, more, a, acct, amt)
  <2> HAVE acct = a
  <2>1. /\ NetOwed(pay, ref, more, a) = NetOwed(pay, ref, ow, a) - N[r]
        /\ FeesOwed(pay, ref, more, a) = FeesOwed(pay, ref, ow, a) - F[r]
    BY <1>2, <1>8, <1>9, <1>10, <1>11
  <2> QED BY <2>1, <1>7 DEF DebitOwed
<1>13. acct # a => DebitOwed(pay, ref, ow, more, a, acct, amt)
  <2> HAVE acct # a
  <2>1. /\ NetOwed(pay, ref, more, a) = NetOwed(pay, ref, ow, a)
        /\ FeesOwed(pay, ref, more, a) = FeesOwed(pay, ref, ow, a)
    BY <1>2, <1>9
  <2> QED BY <2>1, <1>4 DEF DebitOwed
<1> QED BY <1>12, <1>13 DEF acct, amt

-----------------------------------------------------------------------------
(* The instances of Ledger here and in LedgerProofs, and this module, name *)
(* the same rows and the same arithmetic.                                  *)
LEMMA LedgerRowsAreOurs ==
    /\ L!NoRows = NoRows
    /\ L!PaymentIds = PaymentIds
    /\ L!RefundIds = RefundIds
    /\ L!PaymentMethods = PaymentMethods
    /\ L!PaymentRows = PaymentRows
    /\ L!RefundRows = RefundRows
    /\ L!BalanceRows = BalanceRows
    /\ \A x, y, z : L!Insert(x, y, z) = Insert(x, y, z)
    /\ \A x, y, z : L!NewPayment(x, y, z) = NewPayment(x, y, z)
    /\ \A x, y : L!NewRefund(x, y) = NewRefund(x, y)
    /\ \A x, y : L!Refunded(x, y) = Refunded(x, y)
    /\ \A x, y : L!Refundable(x, y) = Refundable(x, y)
    /\ \A x : L!Settleable(x) = Settleable(x)
    /\ \A x, y : L!Credit(x, y) = Credit(x, y)
    /\ \A x, y : L!Debit(x, y) = Debit(x, y)
    /\ \A x : L!MockNetworkFee(x) = MockNetworkFee(x)
BY DEF NoRows, L!NoRows, Insert, L!Insert, Credit, L!Credit, Debit,
           L!Debit, Moved, L!Moved, Net, L!Net, GripeFee, L!GripeFee,
           DivHalfEven, L!DivHalfEven, GripeFeeBasisPoints,
           L!GripeFeeBasisPoints, Settleable, L!Settleable, Refundable,
           L!Refundable, Refunded, L!Refunded, NewPayment, L!NewPayment,
           NewRefund, L!NewRefund, MockNetworkFee, L!MockNetworkFee,
           InitialStatus, L!InitialStatus, CardMethods, L!CardMethods,
           DeclineTail, L!DeclineTail, PaymentIds, L!PaymentIds, RefundIds,
           L!RefundIds, PaymentMethods, L!PaymentMethods, PaymentRows,
           L!PaymentRows, RefundRows, L!RefundRows, BalanceRows,
           L!BalanceRows, PaymentStatuses, L!PaymentStatuses, RefundStatuses,
           L!RefundStatuses

LEMMA ProofRowsAreOurs ==
    /\ LP!NoRows = NoRows
    /\ LP!PaymentIds = PaymentIds
    /\ LP!RefundIds = RefundIds
    /\ LP!PaymentMethods = PaymentMethods
    /\ LP!PaymentRows = PaymentRows
    /\ LP!RefundRows = RefundRows
    /\ LP!BalanceRows = BalanceRows
    /\ \A x, y, z : LP!Insert(x, y, z) = Insert(x, y, z)
    /\ \A x, y, z : LP!NewPayment(x, y, z) = NewPayment(x, y, z)
    /\ \A x, y : LP!NewRefund(x, y) = NewRefund(x, y)
    /\ \A x, y : LP!Refunded(x, y) = Refunded(x, y)
    /\ \A x, y : LP!Refundable(x, y) = Refundable(x, y)
    /\ \A x : LP!Settleable(x) = Settleable(x)
    /\ \A x, y : LP!Credit(x, y) = Credit(x, y)
    /\ \A x, y : LP!Debit(x, y) = Debit(x, y)
    /\ \A x : LP!MockNetworkFee(x) = MockNetworkFee(x)
BY DEF NoRows, LP!NoRows, Insert, LP!Insert, Credit, LP!Credit, Debit,
           LP!Debit, Moved, LP!Moved, Net, LP!Net, GripeFee, LP!GripeFee,
           DivHalfEven, LP!DivHalfEven, GripeFeeBasisPoints,
           LP!GripeFeeBasisPoints, Settleable, LP!Settleable, Refundable,
           LP!Refundable, Refunded, LP!Refunded, NewPayment, LP!NewPayment,
           NewRefund, LP!NewRefund, MockNetworkFee, LP!MockNetworkFee,
           InitialStatus, LP!InitialStatus, CardMethods, LP!CardMethods,
           DeclineTail, LP!DeclineTail, PaymentIds, LP!PaymentIds, RefundIds,
           LP!RefundIds, PaymentMethods, LP!PaymentMethods, PaymentRows,
           LP!PaymentRows, RefundRows, LP!RefundRows, BalanceRows,
           LP!BalanceRows, PaymentStatuses, LP!PaymentStatuses,
           RefundStatuses, LP!RefundStatuses

LEMMA SameLedger ==
    /\ LP!TypeOK <=> L!TypeOK
    /\ LP!Init <=> L!Init
    /\ [LP!Next]_(LP!vars) <=> [L!Next]_(L!vars)
<1> USE LedgerRowsAreOurs, ProofRowsAreOurs
<1>1. LP!TypeOK <=> L!TypeOK
  BY DEF L!TypeOK, LP!TypeOK
<1>2. LP!Init <=> L!Init
  BY DEF L!Init, LP!Init
<1>3. LP!Next <=> L!Next
  BY DEF L!Next, LP!Next, L!CreatePayment, LP!CreatePayment, L!CapturePayment,
         LP!CapturePayment, L!SettlePayment, LP!SettlePayment, L!RefundPayment,
         LP!RefundPayment, L!SettleRefund, LP!SettleRefund, L!SettleNetworkFee,
         LP!SettleNetworkFee
<1>4. LP!vars = L!vars
  BY DEF L!vars, LP!vars
<1>5. LP!vars' = L!vars'
  BY DEF L!vars, LP!vars
<1> QED BY <1>1, <1>2, <1>3, <1>4, <1>5

LEMMA AccountsFinite == LP!IsFiniteSet(Accounts)
BY AccountsAssumption DEF IsFiniteSet, LP!IsFiniteSet

(* A step of the ledger keeps its tables well formed (LedgerProofs).       *)
LEMMA LedgerTypeStep == L!TypeOK /\ [L!Next]_(L!vars) => L!TypeOK'
<1>1. LP!TypeOK /\ [LP!Next]_(LP!vars) => LP!TypeOK'
  BY AccountsFinite, BoundsAssumption, AmountsAssumption, LP!TypeStep
<1>2. LP!TypeOK' <=> L!TypeOK'
  BY LedgerRowsAreOurs, ProofRowsAreOurs DEF L!TypeOK, LP!TypeOK
<1> QED BY <1>1, <1>2, SameLedger

-----------------------------------------------------------------------------
(* Requests by operation.                                                  *)
LEMMA RequestFacts ==
    ASSUME NEW req \in Requests
    PROVE  /\ req.op \in RowOps \cup {"create", "subscribe", "settleRefund"}
           /\ req.op = "create" => /\ req.account \in Accounts /\ req.customer \in Customers
                                   /\ req.amount \in Amounts /\ req.method \in Methods
           /\ req.op = "subscribe" => req.account \in Accounts /\ req.customer \in Customers
           /\ req.op \in RowOps => req.payment \in PaymentIds \cup {NoSuchId}
           /\ req.op = "refund" => req.amount \in RefundAmounts
           /\ req.op = "settleRefund" => req.refund \in RefundIds \cup {NoSuchId}
BY DEF Requests, RowOps

(* What a session does to the session states.                              *)
LEMMA GoesOnFacts ==
    ASSUME SessionsTyped, NEW s \in Sessions, NEW pc \in Steps, GoesOn(s, pc)
    PROVE  /\ SessionsTyped'
           /\ tx'[s].pc = pc /\ tx'[s].req = tx[s].req
           /\ \A t \in Sessions \ {s} : tx'[t] = tx[t]
           /\ answer' = NoAnswer
BY DEF SessionsTyped, GoesOn

LEMMA EndsFacts ==
    ASSUME SessionsTyped, NEW s \in Sessions, NEW is, Ends(s, is)
    PROVE  /\ SessionsTyped'
           /\ tx'[s] = Idle
           /\ \A t \in Sessions \ {s} : tx'[t] = tx[t]
           /\ answer' = [to |-> s, is |-> is]
BY DEF SessionsTyped, Ends, Idle, Steps

LEMMA BeginFacts ==
    ASSUME SessionsTyped, NEW s \in Sessions, NEW req \in Requests, Begin(s, req)
    PROVE  /\ SessionsTyped'
           /\ tx'[s].pc = IF req.op \in {"create", "subscribe"} THEN "merchant" ELSE "update"
           /\ tx'[s].req = req
           /\ \A t \in Sessions \ {s} : tx'[t] = tx[t]
           /\ answer' = NoAnswer
BY DEF SessionsTyped, Begin, Steps

LEMMA RestartFacts ==
    ASSUME Restart
    PROVE  /\ SessionsTyped'
           /\ \A t \in Sessions : tx'[t] = Idle
BY DEF SessionsTyped, Restart, Idle, Steps

(* Sessions at work have a request; what it names is in the tables.        *)
LEMMA AtWork ==
    ASSUME SessionsTyped, OpsInPlace, NEW s \in Sessions, ~ At(s, "idle")
    PROVE  tx[s].req \in Requests
BY DEF SessionsTyped, OpsInPlace, OpInPlace, NoRequest, At

-----------------------------------------------------------------------------
(* The books: no step changes them but a flip, which posts to the account  *)
(* of the row it flips.                                                    *)
AmountsKept ==
    /\ \A p \in DOMAIN payment :
          payment'[p].account = payment[p].account /\ payment'[p].amount = payment[p].amount
    /\ \A r \in DOMAIN refund :
          refund'[r].payment = refund[r].payment /\ refund'[r].amount = refund[r].amount

LEMMA MovedFacts ==
    ASSUME NEW row \in BalanceRows, NEW b \in Int, NEW f \in Int
    PROVE  /\ Moved(row, b, f) \in BalanceRows
           /\ Moved(row, b, f).balance = row.balance + b
           /\ Moved(row, b, f).fees = row.fees + f
<1>1. row.balance + b \in Int /\ row.fees + f \in Int
  BY DEF BalanceRows
<1> QED BY <1>1 DEF Moved, BalanceRows

LEMMA SameRow ==
    ASSUME NEW row \in BalanceRows, NEW other \in BalanceRows,
           row.balance = other.balance, row.fees = other.fees
    PROVE  row = other
BY DEF BalanceRows

LEMMA MovedTwice ==
    ASSUME NEW row \in BalanceRows, NEW b \in Int, NEW f \in Int, NEW b2 \in Int, NEW f2 \in Int
    PROVE  Moved(Moved(row, b, f), b2, f2) = Moved(row, b + b2, f + f2)
<1> DEFINE once == Moved(row, b, f)
           twice == Moved(once, b2, f2)
           both == Moved(row, b + b2, f + f2)
<1>1. /\ once \in BalanceRows
      /\ once.balance = row.balance + b /\ once.fees = row.fees + f
  BY MovedFacts
<1> HIDE DEF once
<1>2. /\ twice \in BalanceRows
      /\ twice.balance = once.balance + b2 /\ twice.fees = once.fees + f2
  BY <1>1, MovedFacts
<1>3. /\ both \in BalanceRows
      /\ both.balance = row.balance + (b + b2) /\ both.fees = row.fees + (f + f2)
  BY MovedFacts
<1>4. row.balance \in Int /\ row.fees \in Int
  BY DEF BalanceRows
<1> HIDE DEF twice, both
<1>5. twice = both
  BY <1>1, <1>2, <1>3, <1>4, SameRow
<1> QED BY <1>5 DEF once, twice, both

LEMMA TablesTyped ==
    ASSUME L!TypeOK, OwedIsSettled
    PROVE  /\ DOMAIN payment \subseteq PaymentIds /\ DOMAIN refund \subseteq RefundIds
           /\ \A p \in DOMAIN payment : payment[p] \in PaymentRows
           /\ \A r \in DOMAIN refund :
                 refund[r] \in RefundRows /\ refund[r].payment \in DOMAIN payment
           /\ \A p : <<"payment", p>> \in owed => p \in credited /\ p \in DOMAIN payment
           /\ \A r : <<"refund", r>> \in owed => r \in DOMAIN refund /\ refund[r].status = "settled"
BY LedgerRowsAreOurs DEF L!TypeOK, OwedIsSettled, SettledRefunds

LEMMA OwedRows ==
    ASSUME L!TypeOK, OwedIsSettled
    PROVE  OwedRowsTyped(payment, refund, owed)
BY TablesTyped DEF OwedRowsTyped, PaymentRows, RefundRows

LEMMA BooksKept ==
    ASSUME L!TypeOK, OwedIsSettled, AmountsKept, balance' = balance, owed' = owed
    PROVE  BooksWithOwed' = BooksWithOwed
<1>1. ASSUME NEW a
      PROVE  OwedNet(a)' = OwedNet(a) /\ OwedFees(a)' = OwedFees(a)
  <2>1. \A p \in PaymentIds : <<"payment", p>> \in owed =>
          payment'[p].account = payment[p].account /\ payment'[p].amount = payment[p].amount
    BY TablesTyped DEF AmountsKept
  <2>2. \A r \in RefundIds : <<"refund", r>> \in owed =>
          /\ payment'[refund'[r].payment].account = payment[refund[r].payment].account
          /\ refund'[r].amount = refund[r].amount
    BY TablesTyped DEF AmountsKept
  <2>3. /\ NetOwed(payment', refund', owed, a) = NetOwed(payment, refund, owed, a)
        /\ FeesOwed(payment', refund', owed, a) = FeesOwed(payment, refund, owed, a)
    BY <2>1, <2>2, OwedSame
  <2> QED BY <2>3, OwedColumns
<1> QED BY <1>1 DEF BooksWithOwed

(* A flipped payment: its credit joins the books at once, as a debt.       *)
LEMMA PaymentFlips ==
    ASSUME L!TypeOK, OwedIsSettled, RecordsTyped, AmountsKept,
           NEW p \in DOMAIN payment, p \notin credited,
           owed' = owed \cup {<<"payment", p>>}, balance' = balance
    PROVE  BooksWithOwed' =
              [BooksWithOwed EXCEPT ![payment[p].account] = Credit(@, payment[p].amount)]
<1> DEFINE more == owed \cup {<<"payment", p>>}
           amt  == payment[p].amount
           acct == payment[p].account
<1>1. /\ p \in PaymentIds /\ amt \in Nat /\ acct \in Accounts
      /\ <<"payment", p>> \notin owed
  BY TablesTyped DEF PaymentRows
<1>2. OwedRowsTyped(payment, refund, more)
  BY <1>1, OwedRows DEF OwedRowsTyped
<1>3. ASSUME NEW a
      PROVE  /\ OwedNet(a)' = OwedNet(a) + (IF acct = a THEN Net(amt) ELSE 0)
             /\ OwedFees(a)' = OwedFees(a) + (IF acct = a THEN GripeFee(amt) ELSE 0)
  <2>1. \A q \in PaymentIds : <<"payment", q>> \in more =>
          payment'[q].account = payment[q].account /\ payment'[q].amount = payment[q].amount
    BY TablesTyped DEF AmountsKept
  <2>2. \A r \in RefundIds : <<"refund", r>> \in more =>
          /\ payment'[refund'[r].payment].account = payment[refund[r].payment].account
          /\ refund'[r].amount = refund[r].amount
    BY TablesTyped DEF AmountsKept
  <2> HIDE DEF more
  <2>3. /\ NetOwed(payment', refund', more, a) = NetOwed(payment, refund, more, a)
        /\ FeesOwed(payment', refund', more, a) = FeesOwed(payment, refund, more, a)
    BY <2>1, <2>2, OwedSame
  <2>4. CreditOwed(payment, refund, owed, more, a, acct, amt)
    BY <1>1, <1>2, OwePayment DEF more
  <2>5. owed' = more
    BY DEF more
  <2> HIDE DEF acct, amt
  <2> QED BY <2>3, <2>4, <2>5, OwedColumns DEF CreditOwed
<1>4. \A a : OwedNet(a) \in Int /\ OwedFees(a) \in Int
  BY OwedColumns, OwedRows, OwedType
<1>5. Net(amt) \in Int /\ GripeFee(amt) \in Int
  BY <1>1, FeeType
<1> HIDE DEF amt, acct
<1>6. ASSUME NEW a \in Accounts
      PROVE  Moved(balance[a], OwedNet(a)', OwedFees(a)') =
                IF a = acct THEN Credit(BooksWithOwed[a], amt) ELSE BooksWithOwed[a]
  <2>1. balance[a] \in BalanceRows /\ BooksWithOwed[a] = Moved(balance[a], OwedNet(a), OwedFees(a))
    BY DEF RecordsTyped, BooksWithOwed
  <2>2. CASE a = acct
    <3>1. Moved(Moved(balance[a], OwedNet(a), OwedFees(a)), Net(amt), GripeFee(amt)) =
             Moved(balance[a], OwedNet(a) + Net(amt), OwedFees(a) + GripeFee(amt))
      BY <1>4, <1>5, <2>1, MovedTwice
    <3>2. OwedNet(a)' = OwedNet(a) + Net(amt) /\ OwedFees(a)' = OwedFees(a) + GripeFee(amt)
      BY <1>3, <2>2
    <3> QED BY <2>1, <2>2, <3>1, <3>2 DEF Credit
  <2>3. CASE a # acct
    <3>1. OwedNet(a)' = OwedNet(a) /\ OwedFees(a)' = OwedFees(a)
      BY <1>3, <1>4, <2>3
    <3> QED BY <2>1, <2>3, <3>1
  <2> QED BY <2>2, <2>3
<1>7. BooksWithOwed' = [a \in Accounts |-> Moved(balance[a], OwedNet(a)', OwedFees(a)')]
  BY DEF BooksWithOwed
<1>8. DOMAIN BooksWithOwed = Accounts
  BY DEF BooksWithOwed
<1> QED BY <1>6, <1>7, <1>8 DEF amt, acct

(* A flipped refund: its debit joins the books at once, as a debt.         *)
LEMMA RefundFlips ==
    ASSUME L!TypeOK, OwedIsSettled, RecordsTyped, AmountsKept,
           NEW r \in DOMAIN refund, refund[r].status = "created",
           owed' = owed \cup {<<"refund", r>>}, balance' = balance
    PROVE  BooksWithOwed' =
              [BooksWithOwed EXCEPT ![payment[refund[r].payment].account] =
                  Debit(@, refund[r].amount)]
<1> DEFINE more == owed \cup {<<"refund", r>>}
           amt  == refund[r].amount
           acct == payment[refund[r].payment].account
<1>1. r \in RefundIds /\ amt \in Nat /\ acct \in Accounts /\ <<"refund", r>> \notin owed
  BY TablesTyped DEF PaymentRows, RefundRows
<1>2. OwedRowsTyped(payment, refund, more)
  BY <1>1, OwedRows DEF OwedRowsTyped
<1>3. ASSUME NEW a
      PROVE  /\ OwedNet(a)' = OwedNet(a) - (IF acct = a THEN Net(amt) ELSE 0)
             /\ OwedFees(a)' = OwedFees(a) - (IF acct = a THEN GripeFee(amt) ELSE 0)
  <2>1. \A q \in PaymentIds : <<"payment", q>> \in more =>
          payment'[q].account = payment[q].account /\ payment'[q].amount = payment[q].amount
    BY TablesTyped DEF AmountsKept
  <2>2. \A q \in RefundIds : <<"refund", q>> \in more =>
          /\ payment'[refund'[q].payment].account = payment[refund[q].payment].account
          /\ refund'[q].amount = refund[q].amount
    BY TablesTyped DEF AmountsKept
  <2> HIDE DEF more
  <2>3. /\ NetOwed(payment', refund', more, a) = NetOwed(payment, refund, more, a)
        /\ FeesOwed(payment', refund', more, a) = FeesOwed(payment, refund, more, a)
    BY <2>1, <2>2, OwedSame
  <2>4. DebitOwed(payment, refund, owed, more, a, acct, amt)
    BY <1>1, <1>2, OweRefund DEF more
  <2>5. owed' = more
    BY DEF more
  <2> HIDE DEF acct, amt
  <2> QED BY <2>3, <2>4, <2>5, OwedColumns DEF DebitOwed
<1>4. \A a : OwedNet(a) \in Int /\ OwedFees(a) \in Int
  BY OwedColumns, OwedRows, OwedType
<1>5. -Net(amt) \in Int /\ -GripeFee(amt) \in Int /\ Net(amt) \in Int /\ GripeFee(amt) \in Int
  <2>1. Net(amt) \in Int /\ GripeFee(amt) \in Int
    BY <1>1, FeeType
  <2> QED BY <2>1
<1> HIDE DEF amt, acct
<1>6. ASSUME NEW a \in Accounts
      PROVE  Moved(balance[a], OwedNet(a)', OwedFees(a)') =
                IF a = acct THEN Debit(BooksWithOwed[a], amt) ELSE BooksWithOwed[a]
  <2>1. balance[a] \in BalanceRows /\ BooksWithOwed[a] = Moved(balance[a], OwedNet(a), OwedFees(a))
    BY DEF RecordsTyped, BooksWithOwed
  <2>2. CASE a = acct
    <3>1. Moved(Moved(balance[a], OwedNet(a), OwedFees(a)), -Net(amt), -GripeFee(amt)) =
             Moved(balance[a], OwedNet(a) + (-Net(amt)), OwedFees(a) + (-GripeFee(amt)))
      BY <1>4, <1>5, <2>1, MovedTwice
    <3>2. /\ OwedNet(a)' = OwedNet(a) + (-Net(amt))
          /\ OwedFees(a)' = OwedFees(a) + (-GripeFee(amt))
      BY <1>3, <1>4, <1>5, <2>2
    <3> QED BY <2>1, <2>2, <3>1, <3>2 DEF Debit
  <2>3. CASE a # acct
    <3>1. OwedNet(a)' = OwedNet(a) /\ OwedFees(a)' = OwedFees(a)
      BY <1>3, <1>4, <2>3
    <3> QED BY <2>1, <2>3, <3>1
  <2> QED BY <2>2, <2>3
<1>7. BooksWithOwed' = [a \in Accounts |-> Moved(balance[a], OwedNet(a)', OwedFees(a)')]
  BY DEF BooksWithOwed
<1>8. DOMAIN BooksWithOwed = Accounts
  BY DEF BooksWithOwed
<1> QED BY <1>6, <1>7, <1>8 DEF amt, acct

(* The $inc pays a debt: what enters the balance leaves what is owed.      *)
LEMMA DebtPaid ==
    ASSUME L!TypeOK, SessionsTyped, OpsInPlace, OwedIsSettled, CreditsPending, RecordsTyped,
           NEW s \in Sessions, ApplyBalanceDelta(s)
    PROVE  BooksWithOwed' = BooksWithOwed /\ balance' \in [Accounts -> BalanceRows]
<1> DEFINE req == tx[s].req
           debt == Target(req)
           less == owed \ {debt}
<1>1. /\ req.op \in {"settlePayment", "settleRefund"} /\ debt \in owed /\ owed' = less
      /\ payment' = payment /\ refund' = refund
  BY DEF ApplyBalanceDelta, OpsInPlace, OpInPlace, CreditsPending, At
<1>2. debt \notin less /\ owed = less \cup {debt}
  BY <1>1
<1>3. OwedRowsTyped(payment, refund, owed) /\ OwedRowsTyped(payment, refund, less)
  BY OwedRows DEF OwedRowsTyped
<1>4. PICK acct \in Accounts, b \in Int, f \in Int :
        /\ balance' = [balance EXCEPT ![acct] = Moved(@, b, f)]
        /\ \A a : /\ OwedNet(a) = OwedNet(a)' + (IF acct = a THEN b ELSE 0)
                  /\ OwedFees(a) = OwedFees(a)' + (IF acct = a THEN f ELSE 0)
  <2>1. CASE req.op = "settlePayment"
    <3> DEFINE p == req.payment
               amt == payment[p].amount
               acct == payment[p].account
    <3>1. debt = <<"payment", p>>
      BY <2>1 DEF Target
    <3>2. p \in PaymentIds /\ amt \in Nat /\ acct \in Accounts
      BY <1>1, <3>1, TablesTyped DEF PaymentRows
    <3>3. Net(amt) \in Int /\ GripeFee(amt) \in Int
      BY <3>2, FeeType
    <3>4. balance' = [balance EXCEPT ![acct] = Moved(@, Net(amt), GripeFee(amt))]
      BY <2>1 DEF ApplyBalanceDelta, Credit
    <3>5. ASSUME NEW a
          PROVE  /\ OwedNet(a) = OwedNet(a)' + (IF acct = a THEN Net(amt) ELSE 0)
                 /\ OwedFees(a) = OwedFees(a)' + (IF acct = a THEN GripeFee(amt) ELSE 0)
      <4> HIDE DEF less, debt, p
      <4>1. owed = less \cup {<<"payment", p>>} /\ <<"payment", p>> \notin less
        BY <1>2, <3>1
      <4>2. CreditOwed(payment, refund, less, owed, a, acct, amt)
        BY <1>3, <3>2, <4>1, OwePayment
      <4> HIDE DEF acct, amt
      <4> QED BY <1>1, <4>2, OwedColumns DEF CreditOwed
    <3> HIDE DEF p, amt, acct
    <3> QED BY <3>2, <3>3, <3>4, <3>5
  <2>2. CASE req.op = "settleRefund"
    <3> DEFINE r == req.refund
               amt == refund[r].amount
               acct == payment[refund[r].payment].account
    <3>1. debt = <<"refund", r>>
      BY <2>2 DEF Target
    <3>2. r \in RefundIds /\ amt \in Nat /\ acct \in Accounts
      BY <1>1, <3>1, TablesTyped DEF PaymentRows, RefundRows
    <3>3. Net(amt) \in Int /\ GripeFee(amt) \in Int
      BY <3>2, FeeType
    <3>4. balance' = [balance EXCEPT ![acct] = Moved(@, -Net(amt), -GripeFee(amt))]
      BY <2>2 DEF ApplyBalanceDelta, Debit
    <3>5. ASSUME NEW a
          PROVE  /\ OwedNet(a) = OwedNet(a)' + (IF acct = a THEN -Net(amt) ELSE 0)
                 /\ OwedFees(a) = OwedFees(a)' + (IF acct = a THEN -GripeFee(amt) ELSE 0)
      <4> HIDE DEF less, debt, r
      <4>1. owed = less \cup {<<"refund", r>>} /\ <<"refund", r>> \notin less
        BY <1>2, <3>1
      <4>2. DebitOwed(payment, refund, less, owed, a, acct, amt)
        BY <1>3, <3>2, <4>1, OweRefund
      <4> HIDE DEF acct, amt
      <4>3. /\ OwedNet(a) = OwedNet(a)' - (IF acct = a THEN Net(amt) ELSE 0)
            /\ OwedFees(a) = OwedFees(a)' - (IF acct = a THEN GripeFee(amt) ELSE 0)
        BY <1>1, <4>2, OwedColumns DEF DebitOwed
      <4>4. OwedNet(a)' \in Int /\ OwedFees(a)' \in Int
        BY <1>1, <1>3, OwedColumns, OwedType
      <4> QED BY <3>3, <4>3, <4>4
    <3>6. -Net(amt) \in Int /\ -GripeFee(amt) \in Int
      BY <3>3
    <3> HIDE DEF r, amt, acct
    <3> QED BY <3>2, <3>4, <3>5, <3>6
  <2> QED BY <1>1, <2>1, <2>2
<1>5. \A a : OwedNet(a)' \in Int /\ OwedFees(a)' \in Int
  BY <1>1, <1>3, OwedColumns, OwedType
<1> HIDE DEF less, debt, req
<1>6. balance' \in [Accounts -> BalanceRows]
  BY <1>4, MovedFacts DEF RecordsTyped
<1>7. ASSUME NEW a \in Accounts
      PROVE  Moved(balance[a], OwedNet(a), OwedFees(a)) =
                Moved(balance'[a], OwedNet(a)', OwedFees(a)')
  <2>1. /\ balance[a] \in BalanceRows
        /\ balance'[a] = IF a = acct THEN Moved(balance[a], b, f) ELSE balance[a]
    BY <1>4 DEF RecordsTyped
  <2>2. CASE a = acct
    <3>1. Moved(Moved(balance[a], b, f), OwedNet(a)', OwedFees(a)') =
             Moved(balance[a], b + OwedNet(a)', f + OwedFees(a)')
      BY <1>5, <2>1, MovedTwice
    <3>2. OwedNet(a) = b + OwedNet(a)' /\ OwedFees(a) = f + OwedFees(a)'
      BY <1>4, <1>5, <2>2
    <3> QED BY <2>1, <2>2, <3>1, <3>2
  <2>3. CASE a # acct
    <3>1. OwedNet(a) = OwedNet(a)' /\ OwedFees(a) = OwedFees(a)'
      BY <1>4, <1>5, <2>3
    <3> QED BY <2>1, <2>3, <3>1
  <2> QED BY <2>2, <2>3
<1> QED BY <1>6, <1>7 DEF BooksWithOwed

-----------------------------------------------------------------------------
(* Every write is a step of the ledger or leaves its tables alone: the     *)
(* refinement, step by step.                                               *)
RowsInv == L!TypeOK /\ SessionsTyped /\ OpsInPlace /\ OwedIsSettled /\ CreditedStays
           /\ CreditsPending /\ RecordsTyped

LEMMA StepImplements ==
    ASSUME RowsInv, [Next]_vars
    PROVE  [L!Next]_(L!vars)
<1> USE LedgerRowsAreOurs DEF RowsInv
<1> DEFINE Kept == UNCHANGED tables
<1>1. Kept => UNCHANGED L!vars
  <2> SUFFICES ASSUME Kept PROVE UNCHANGED L!vars
    OBVIOUS
  <2>1. AmountsKept /\ balance' = balance /\ owed' = owed
    BY DEF AmountsKept, tables
  <2>2. BooksWithOwed' = BooksWithOwed
    BY <2>1, BooksKept
  <2> QED BY <2>2 DEF tables, L!vars
<1>2. ASSUME NEW s \in Sessions, NEW req \in Requests, Begin(s, req) PROVE Kept
  BY <1>2 DEF Begin
<1>3. ASSUME NEW s \in Sessions,
             Onboard(s) \/ CreateSubscription(s) \/ UpdateMisses(s) \/ Probe(s) \/ Abort(s)
      PROVE  Kept
  BY <1>3 DEF Onboard, CreateSubscription, UpdateMisses, Probe, Abort
<1>4. ASSUME Restart PROVE Kept
  BY <1>4 DEF Restart
<1>5. ASSUME NEW s \in Sessions, CreatePayment(s) PROVE L!Next
  <2>1. tx[s].req \in Requests /\ tx[s].req.op = "create"
    BY <1>5, AtWork DEF CreatePayment, At
  <2>2. /\ tx[s].req.account \in Accounts /\ tx[s].req.amount \in Amounts
        /\ tx[s].req.method \in PaymentMethods
    BY <2>1, RequestFacts, MethodsAssumption
  <2>3. PICK p \in PaymentIds \ DOMAIN payment :
           payment' = Insert(payment, p, NewPayment(tx[s].req.account, tx[s].req.amount,
                                                    tx[s].req.method))
    BY <1>5 DEF CreatePayment
  <2>4. AmountsKept /\ balance' = balance /\ owed' = owed
    BY <1>5, <2>3 DEF CreatePayment, AmountsKept, Insert
  <2>5. BooksWithOwed' = BooksWithOwed
    BY <2>4, BooksKept
  <2>6. L!CreatePayment(p, tx[s].req.account, tx[s].req.amount, tx[s].req.method)
    BY <1>5, <2>3, <2>5 DEF CreatePayment, L!CreatePayment
  <2> QED BY <2>2, <2>6 DEF L!Next
<1>6. ASSUME NEW s \in Sessions, CapturePayment(s) PROVE L!Next
  <2> DEFINE p == tx[s].req.payment
  <2>1. p \in DOMAIN payment /\ payment[p].status = "authorized" /\ p \in PaymentIds
    BY <1>6, TablesTyped DEF CapturePayment, SingleUpdate, Matches
  <2>2. AmountsKept /\ balance' = balance /\ owed' = owed
    BY <1>6, <2>1, TablesTyped DEF CapturePayment, SingleUpdate, AmountsKept, PaymentRows
  <2>3. BooksWithOwed' = BooksWithOwed
    BY <2>2, BooksKept
  <2>4. L!CapturePayment(p)
    BY <1>6, <2>1, <2>3 DEF CapturePayment, SingleUpdate, L!CapturePayment
  <2> QED BY <2>1, <2>4 DEF L!Next
<1>7. ASSUME NEW s \in Sessions, SettleNetworkFee(s) PROVE L!Next
  <2> DEFINE p == tx[s].req.payment
  <2>1. p \in DOMAIN payment /\ payment[p].networkFee = 0 /\ p \in PaymentIds
    BY <1>7, TablesTyped DEF SettleNetworkFee, SingleUpdate, Matches
  <2>2. AmountsKept /\ balance' = balance /\ owed' = owed
    BY <1>7, <2>1, TablesTyped DEF SettleNetworkFee, SingleUpdate, AmountsKept, PaymentRows
  <2>3. BooksWithOwed' = BooksWithOwed
    BY <2>2, BooksKept
  <2>4. L!SettleNetworkFee(p)
    BY <1>7, <2>1, <2>3 DEF SettleNetworkFee, SingleUpdate, L!SettleNetworkFee
  <2> QED BY <2>1, <2>4 DEF L!Next
<1>8. ASSUME NEW s \in Sessions, RefundPayment(s) PROVE L!Next
  <2> DEFINE req == tx[s].req
             p == req.payment
  <2>1. /\ p \in DOMAIN payment /\ p \in PaymentIds
        /\ Refundable(payment[p], req.amount)
    BY <1>8, TablesTyped DEF RefundPayment, SingleUpdate, Matches
  <2>2. req.amount \in RefundAmounts
    BY <1>8, AtWork, RequestFacts DEF RefundPayment, SingleUpdate, At
  <2>3. PICK r \in RefundIds \ DOMAIN refund :
           refund' = Insert(refund, r, NewRefund(p, req.amount))
    BY <1>8 DEF RefundPayment
  <2>4. /\ payment' = [payment EXCEPT ![p] = Refunded(@, req.amount)]
        /\ balance' = balance /\ owed' = owed /\ credited' = credited
    BY <1>8 DEF RefundPayment, SingleUpdate
  <2>5. /\ Refunded(payment[p], req.amount).account = payment[p].account
        /\ Refunded(payment[p], req.amount).amount = payment[p].amount
    BY <2>1, TablesTyped DEF Refunded, PaymentRows
  <2> HIDE DEF req
  <2>6. AmountsKept
    BY <2>1, <2>3, <2>4, <2>5, TablesTyped DEF AmountsKept, Insert
  <2>7. BooksWithOwed' = BooksWithOwed
    BY <2>4, <2>6, BooksKept
  <2>8. L!RefundPayment(p, r, req.amount)
    BY <2>1, <2>3, <2>4, <2>7 DEF L!RefundPayment
  <2> QED BY <2>1, <2>2, <2>8 DEF L!Next
<1>9. ASSUME NEW s \in Sessions, SettlePayment(s) PROVE L!Next
  <2> DEFINE p == tx[s].req.payment
  <2>1. p \in DOMAIN payment /\ Settleable(payment[p]) /\ p \in PaymentIds
    BY <1>9, TablesTyped DEF SettlePayment, Flip, Matches
  <2>2. p \notin credited
    BY <2>1 DEF CreditedStays, Settleable
  <2>3. /\ owed' = owed \cup {<<"payment", p>>} /\ balance' = balance
        /\ payment' = [payment EXCEPT ![p].status = "settled"]
        /\ credited' = credited \cup {p} /\ refund' = refund
    BY <1>9 DEF SettlePayment, Flip, Target
  <2> HIDE DEF p
  <2>4. AmountsKept
    BY <2>1, <2>3, TablesTyped DEF AmountsKept, PaymentRows
  <2>5. BooksWithOwed' =
           [BooksWithOwed EXCEPT ![payment[p].account] = Credit(@, payment[p].amount)]
    BY <2>1, <2>2, <2>3, <2>4, PaymentFlips
  <2>6. L!SettlePayment(p)
    BY <2>1, <2>3, <2>5 DEF L!SettlePayment
  <2> QED BY <2>1, <2>6 DEF L!Next
<1>10. ASSUME NEW s \in Sessions, SettleRefund(s) PROVE L!Next
  <2> DEFINE r == tx[s].req.refund
  <2>1. r \in DOMAIN refund /\ refund[r].status = "created" /\ r \in RefundIds
    BY <1>10, TablesTyped DEF SettleRefund, Flip, Matches, Created
  <2>2. /\ owed' = owed \cup {<<"refund", r>>} /\ balance' = balance
        /\ refund' = [refund EXCEPT ![r].status = "settled"]
        /\ credited' = credited /\ payment' = payment
    BY <1>10 DEF SettleRefund, Flip, Target
  <2> HIDE DEF r
  <2>3. AmountsKept
    BY <2>1, <2>2, TablesTyped DEF AmountsKept, RefundRows
  <2>4. BooksWithOwed' =
           [BooksWithOwed EXCEPT ![payment[refund[r].payment].account] = Debit(@, refund[r].amount)]
    BY <2>1, <2>2, <2>3, RefundFlips
  <2>5. L!SettleRefund(r)
    BY <2>1, <2>2, <2>4 DEF L!SettleRefund
  <2> QED BY <2>1, <2>5 DEF L!Next
<1>11. ASSUME NEW s \in Sessions, ApplyBalanceDelta(s) PROVE UNCHANGED L!vars
  BY <1>11, DebtPaid DEF ApplyBalanceDelta, L!vars
<1>12. CASE UNCHANGED vars
  BY <1>1, <1>12 DEF vars
<1> HIDE DEF Kept
<1> QED BY <1>1, <1>2, <1>3, <1>4, <1>5, <1>6, <1>7, <1>8, <1>9, <1>10, <1>11, <1>12 DEF Next

(* What a step of the ledger keeps of the rows that exist.                 *)
RowsKept ==
    /\ \A p \in DOMAIN payment :
          /\ p \in DOMAIN payment'
          /\ payment[p].networkFee # 0 => payment'[p].networkFee # 0
          /\ payment[p].status \in {"settled", "refunded"} =>
                payment'[p].status \in {"settled", "refunded"}
    /\ \A r \in DOMAIN refund :
          /\ r \in DOMAIN refund'
          /\ refund[r].status = "settled" => refund'[r].status = "settled"
    /\ \A p \in credited' \ credited : payment'[p].status = "settled"

LEMMA LedgerKeepsRows == L!TypeOK /\ [L!Next]_(L!vars) => RowsKept
<1> USE LedgerRowsAreOurs
<1> SUFFICES ASSUME L!TypeOK, [L!Next]_(L!vars) PROVE RowsKept
  OBVIOUS
<1>1. ASSUME NEW p \in PaymentIds, NEW acct, NEW amt, NEW method,
             L!CreatePayment(p, acct, amt, method)
      PROVE  RowsKept
  BY <1>1 DEF L!CreatePayment, Insert, RowsKept
<1>2. ASSUME NEW p \in PaymentIds, L!CapturePayment(p) \/ L!SettleNetworkFee(p)
      PROVE  RowsKept
  BY <1>2 DEF L!TypeOK, PaymentRows, L!CapturePayment, L!SettleNetworkFee, RowsKept
<1>3. ASSUME NEW p \in PaymentIds, L!SettlePayment(p) PROVE RowsKept
  BY <1>3 DEF L!TypeOK, PaymentRows, L!SettlePayment, RowsKept
<1>4. ASSUME NEW p \in PaymentIds, NEW r \in RefundIds, NEW amt, L!RefundPayment(p, r, amt)
      PROVE  RowsKept
  <2>1. /\ Refunded(payment[p], amt).status \in {"refunded", payment[p].status}
        /\ Refunded(payment[p], amt).networkFee = payment[p].networkFee
    BY <1>4 DEF L!RefundPayment, L!TypeOK, PaymentRows, Refunded
  <2> QED BY <1>4, <2>1 DEF L!RefundPayment, Insert, RowsKept
<1>5. ASSUME NEW r \in RefundIds, L!SettleRefund(r) PROVE RowsKept
  BY <1>5 DEF L!SettleRefund, L!TypeOK, RefundRows, RowsKept
<1>6. CASE UNCHANGED L!vars
  BY <1>6 DEF L!vars, RowsKept
<1> QED BY <1>1, <1>2, <1>3, <1>4, <1>5, <1>6 DEF L!Next

(* What a step does to what is owed: nothing, a flip adds its row, or an   *)
(* $inc takes it away.                                                     *)
LEMMA OwedMoves ==
    ASSUME [Next]_vars
    PROVE  \/ owed' = owed
           \/ \E s \in Sessions : /\ SettlePayment(s) \/ SettleRefund(s)
                                  /\ owed' = owed \cup {Target(tx[s].req)}
           \/ \E s \in Sessions : ApplyBalanceDelta(s)
<1>1. ASSUME NEW s \in Sessions, SettlePayment(s) \/ SettleRefund(s)
      PROVE  owed' = owed \cup {Target(tx[s].req)}
  BY <1>1 DEF SettlePayment, SettleRefund, Flip
<1>2. ASSUME NEW s \in Sessions,
             \/ \E req \in Requests : Begin(s, req)
             \/ Onboard(s) \/ CreatePayment(s) \/ CreateSubscription(s) \/ CapturePayment(s)
             \/ SettleNetworkFee(s) \/ RefundPayment(s) \/ UpdateMisses(s) \/ Probe(s)
             \/ Abort(s)
      PROVE  owed' = owed
  BY <1>2 DEF Begin, Onboard, CreatePayment, CreateSubscription, CapturePayment,
              SettleNetworkFee, RefundPayment, SingleUpdate, UpdateMisses, Probe, Abort, tables
<1>3. CASE Restart \/ UNCHANGED vars
  BY <1>3 DEF Restart, vars, tables
<1> QED BY <1>1, <1>2, <1>3 DEF Next

LEMMA OwedStep ==
    ASSUME RowsInv, L!TypeOK', RowsKept, [Next]_vars
    PROVE  OwedIsSettled' /\ CreditedStays' /\ credited \subseteq credited'
<1> USE DEF RowsInv
<1>1. credited \subseteq credited'
  BY DEF Next, Begin, Onboard, CreatePayment, CreateSubscription, CapturePayment,
         SettleNetworkFee, RefundPayment, SingleUpdate, SettlePayment, SettleRefund, Flip,
         ApplyBalanceDelta, UpdateMisses, Probe, Abort, Restart, vars, tables
<1>2. CreditedStays'
  <2>1. \A p \in credited : p \in DOMAIN payment
    BY DEF L!TypeOK
  <2> QED BY <2>1 DEF CreditedStays, RowsKept
<1>3. SettledRefunds \subseteq SettledRefunds'
  BY DEF RowsKept, SettledRefunds
<1>4. owed \subseteq ({"payment"} \X credited') \cup ({"refund"} \X SettledRefunds')
  BY <1>1, <1>3 DEF OwedIsSettled
<1>5. ASSUME NEW s \in Sessions, SettlePayment(s)
      PROVE  Target(tx[s].req) \in {"payment"} \X credited'
  BY <1>5 DEF SettlePayment, Target
<1>6. ASSUME NEW s \in Sessions, SettleRefund(s)
      PROVE  Target(tx[s].req) \in {"refund"} \X SettledRefunds'
  <2> DEFINE r == tx[s].req.refund
  <2>1. r \in DOMAIN refund /\ refund' = [refund EXCEPT ![r].status = "settled"]
    BY <1>6 DEF SettleRefund, Flip, Matches, Created
  <2>2. r \in SettledRefunds'
    BY <2>1, TablesTyped DEF SettledRefunds, RefundRows
  <2> QED BY <1>6, <2>2 DEF SettleRefund, Target
<1>7. \A s \in Sessions : ApplyBalanceDelta(s) => owed' \subseteq owed
  BY DEF ApplyBalanceDelta
<1>8. OwedIsSettled'
  BY <1>4, <1>5, <1>6, <1>7, OwedMoves DEF OwedIsSettled
<1> QED BY <1>1, <1>2, <1>8

-----------------------------------------------------------------------------
(* What a step may do to session t: leave it, end it, begin a request, or  *)
(* take it one write or read further.                                      *)
GoesTo(t, pc) == tx'[t].pc = pc /\ tx'[t].req = tx[t].req

SessionMove(t) ==
    \/ tx'[t] = tx[t]
    \/ tx'[t] = Idle
    \/ \E req \in Requests : Begin(t, req)
    \/ Onboard(t) /\ GoesTo(t, AfterOnboard(t))
    \/ (SettlePayment(t) \/ SettleRefund(t)) /\ GoesTo(t, "credit")
    \/ UpdateMisses(t) /\ GoesTo(t, "probe")

LEMMA SessionMoves ==
    ASSUME SessionsTyped, [Next]_vars
    PROVE  SessionsTyped' /\ \A t \in Sessions : SessionMove(t)
<1> DEFINE Stepped(s) == /\ SessionsTyped' /\ SessionMove(s)
                         /\ \A t \in Sessions \ {s} : tx'[t] = tx[t]
<1>1. ASSUME NEW s \in Sessions, NEW is, Ends(s, is) PROVE Stepped(s)
  BY <1>1, EndsFacts DEF SessionMove
<1>2. ASSUME NEW s \in Sessions, NEW req \in Requests, Begin(s, req) PROVE Stepped(s)
  BY <1>2, BeginFacts DEF SessionMove
<1>3. ASSUME NEW s \in Sessions, Onboard(s) PROVE Stepped(s)
  <2>1. AfterOnboard(s) \in Steps
    BY DEF AfterOnboard, Steps
  <2>2. Ends(s, "error") \/ GoesOn(s, AfterOnboard(s))
    BY <1>3 DEF Onboard
  <2>3. CASE GoesOn(s, AfterOnboard(s))
    BY <1>3, <2>1, <2>3, GoesOnFacts DEF SessionMove, GoesTo
  <2> QED BY <1>1, <2>2, <2>3
<1>4. ASSUME NEW s \in Sessions, SettlePayment(s) \/ SettleRefund(s) PROVE Stepped(s)
  <2>1. GoesOn(s, "credit") /\ "credit" \in Steps
    BY <1>4 DEF SettlePayment, SettleRefund, Flip, Steps
  <2> QED BY <1>4, <2>1, GoesOnFacts DEF SessionMove, GoesTo
<1>5. ASSUME NEW s \in Sessions, UpdateMisses(s) PROVE Stepped(s)
  <2>1. GoesOn(s, "probe") /\ "probe" \in Steps
    BY <1>5 DEF UpdateMisses, Steps
  <2> QED BY <1>5, <2>1, GoesOnFacts DEF SessionMove, GoesTo
<1>6. ASSUME NEW s \in Sessions,
             \/ CreatePayment(s) \/ CreateSubscription(s) \/ CapturePayment(s)
             \/ SettleNetworkFee(s) \/ RefundPayment(s) \/ ApplyBalanceDelta(s)
             \/ Probe(s) \/ Abort(s)
      PROVE  Stepped(s)
  BY <1>1, <1>6 DEF CreatePayment, CreateSubscription, CapturePayment, SettleNetworkFee,
                    RefundPayment, SingleUpdate, ApplyBalanceDelta, Probe, Abort
<1>7. ASSUME NEW s \in Sessions, Stepped(s)
      PROVE  SessionsTyped' /\ \A t \in Sessions : SessionMove(t)
  BY <1>7 DEF SessionMove
<1>8. CASE Restart
  BY <1>8, RestartFacts DEF SessionMove
<1>9. CASE UNCHANGED vars
  BY <1>9 DEF vars, SessionsTyped, SessionMove
<1> HIDE DEF Stepped
<1> QED BY <1>2, <1>3, <1>4, <1>5, <1>6, <1>7, <1>8, <1>9 DEF Next

LEMMA OpsStep ==
    ASSUME SessionsTyped, OpsInPlace, [Next]_vars
    PROVE  OpsInPlace'
<1> SUFFICES ASSUME NEW t \in Sessions PROVE OpInPlace(t)'
  BY DEF OpsInPlace
<1>1. SessionMove(t) /\ OpInPlace(t)
  BY SessionMoves DEF OpsInPlace
<1>2. CASE tx'[t] = tx[t]
  BY <1>1, <1>2 DEF OpInPlace, At
<1>3. CASE tx'[t] = Idle
  BY <1>3 DEF OpInPlace, At, Idle, NoRequest
<1>4. ASSUME NEW req \in Requests, Begin(t, req) PROVE OpInPlace(t)'
  <2>1. /\ tx'[t].pc = IF req.op \in {"create", "subscribe"} THEN "merchant" ELSE "update"
        /\ tx'[t].req = req
    BY <1>4, BeginFacts
  <2>2. req.op \in RowOps \cup {"create", "subscribe", "settleRefund"}
    BY RequestFacts
  <2> QED BY <2>1, <2>2 DEF OpInPlace, At, RowOps
<1>5. CASE Onboard(t) /\ GoesTo(t, AfterOnboard(t))
  BY <1>1, <1>5 DEF OpInPlace, Onboard, GoesTo, AfterOnboard, At
<1>6. CASE (SettlePayment(t) \/ SettleRefund(t)) /\ GoesTo(t, "credit")
  BY <1>6 DEF OpInPlace, SettlePayment, SettleRefund, GoesTo, At
<1>7. CASE UpdateMisses(t) /\ GoesTo(t, "probe")
  BY <1>1, <1>7 DEF OpInPlace, UpdateMisses, GoesTo, At
<1> QED BY <1>1, <1>2, <1>3, <1>4, <1>5, <1>6, <1>7 DEF SessionMove

(* Names and fees: rows do not go away, and neither does a fee.            *)
LEMMA NamesStep ==
    ASSUME L!TypeOK, L!TypeOK', RowsKept, SessionsTyped, OpsInPlace, NamesKnown, FeesSeen,
           [Next]_vars
    PROVE  NamesKnown' /\ FeesSeen'
<1>1. ASSUME NEW t \in Sessions, tx'[t].req.op \in RowOps
      PROVE  tx'[t].req.payment \in DOMAIN payment' \cup {NoSuchId}
  <2>1. tx'[t].req = tx[t].req => tx'[t].req.payment \in DOMAIN payment' \cup {NoSuchId}
    BY <1>1 DEF NamesKnown, RowsKept
  <2>2. tx'[t] # Idle
    BY <1>1 DEF Idle, NoRequest, RowOps
  <2>3. ASSUME NEW req \in Requests, Begin(t, req)
        PROVE  tx'[t].req.payment \in DOMAIN payment' \cup {NoSuchId}
    BY <1>1, <2>3, BeginFacts DEF Begin, RowOps, tables
  <2> QED BY <2>1, <2>2, <2>3, SessionMoves DEF SessionMove, GoesTo
<1>2. ASSUME NEW t \in Sessions, tx'[t].pc = "probe" PROVE FeeSeen(t)'
  <2>1. SUFFICES ASSUME tx'[t].req.op = "networkFee", tx'[t].req.payment \in DOMAIN payment'
                 PROVE  payment'[tx'[t].req.payment].networkFee # 0
    BY DEF FeeSeen
  <2> DEFINE p == tx[t].req.payment
  <2>2. NoSuchId \notin DOMAIN payment'
    BY LedgerRowsAreOurs DEF L!TypeOK, PaymentIds, NoSuchId
  <2>3. CASE tx'[t] = tx[t]
    <3>1. p \in DOMAIN payment
      BY <2>1, <2>2, <2>3 DEF NamesKnown, RowOps
    <3>2. payment[p].networkFee # 0
      BY <1>2, <2>1, <2>3, <3>1 DEF FeesSeen, FeeSeen, At
    <3> QED BY <2>3, <3>1, <3>2 DEF RowsKept
  <2>4. tx'[t] # Idle /\ ~ \E req \in Requests : Begin(t, req)
    BY <1>2, BeginFacts DEF Idle
  <2>5. ~ (Onboard(t) /\ GoesTo(t, AfterOnboard(t))) /\ ~ GoesTo(t, "credit")
    BY <1>2 DEF GoesTo, AfterOnboard
  <2>6. CASE UpdateMisses(t) /\ GoesTo(t, "probe")
    <3>1. ~ Matches(tx[t].req) /\ payment' = payment
      BY <2>6 DEF UpdateMisses, tables
    <3> QED BY <2>1, <2>6, <3>1 DEF Matches, GoesTo
  <2> QED BY <2>3, <2>4, <2>5, <2>6, SessionMoves DEF SessionMove
<1> QED BY <1>1, <1>2 DEF NamesKnown, FeesSeen, At

(* Debts: a session about to $inc has one of its own.                      *)
LEMMA PendingStep ==
    ASSUME RowsInv, [Next]_vars
    PROVE  CreditsPending'
<1> USE DEF RowsInv
<1> DEFINE Mine(t) == Target(tx[t].req)
<1>1. ASSUME NEW s \in Sessions, SettlePayment(s) \/ SettleRefund(s)
      PROVE  /\ Mine(s) \notin owed /\ Mine(s) \in owed'
             /\ \A t \in Sessions \ {s} : tx'[t] = tx[t]
             /\ owed' = owed \cup {Mine(s)}
  <2>1. GoesOn(s, "credit") /\ "credit" \in Steps /\ owed' = owed \cup {Mine(s)}
    BY <1>1 DEF SettlePayment, SettleRefund, Flip, Steps
  <2>2. Mine(s) \notin owed
    <3>1. CASE SettlePayment(s)
      <4>1. /\ Mine(s) = <<"payment", tx[s].req.payment>>
            /\ tx[s].req.payment \in DOMAIN payment /\ Settleable(payment[tx[s].req.payment])
        BY <3>1 DEF SettlePayment, Flip, Matches, Target
      <4> QED BY <4>1, TablesTyped DEF CreditedStays, Settleable
    <3>2. CASE SettleRefund(s)
      <4>1. Mine(s) = <<"refund", tx[s].req.refund>> /\ Created(tx[s].req.refund)
        BY <3>2 DEF SettleRefund, Flip, Matches, Target
      <4> QED BY <4>1, TablesTyped DEF Created
    <3> QED BY <1>1, <3>1, <3>2
  <2> QED BY <2>1, <2>2, GoesOnFacts
<1>2. ASSUME NEW s \in Sessions, ApplyBalanceDelta(s)
      PROVE  /\ At(s, "credit") /\ owed' = owed \ {Mine(s)} /\ tx'[s] = Idle
             /\ \A t \in Sessions \ {s} : tx'[t] = tx[t]
  BY <1>2, EndsFacts DEF ApplyBalanceDelta
<1>3. ASSUME NEW t \in Sessions, tx'[t].pc = "credit"
      PROVE  /\ tx'[t].req = tx[t].req
             /\ tx'[t] = tx[t] \/ SettlePayment(t) \/ SettleRefund(t)
  <2>1. tx'[t] # Idle /\ ~ \E req \in Requests : Begin(t, req)
    BY <1>3, BeginFacts DEF Idle
  <2>2. ~ (Onboard(t) /\ GoesTo(t, AfterOnboard(t))) /\ ~ GoesTo(t, "probe")
    BY <1>3 DEF GoesTo, AfterOnboard
  <2> QED BY <2>1, <2>2, SessionMoves DEF SessionMove, GoesTo
<1>4. ASSUME NEW t \in Sessions, tx'[t].pc = "credit" PROVE Mine(t) \in owed'
  <2>1. CASE SettlePayment(t) \/ SettleRefund(t)
    BY <1>1, <2>1
  <2>2. CASE tx'[t] = tx[t]
    <3>1. Mine(t) \in owed /\ At(t, "credit")
      BY <1>4, <2>2 DEF CreditsPending, At
    <3>2. ASSUME NEW s \in Sessions, ApplyBalanceDelta(s) PROVE Mine(t) \in owed'
      <4>1. t # s
        BY <1>2, <1>4, <3>2 DEF Idle
      <4>2. Mine(t) # Mine(s)
        BY <1>2, <3>1, <3>2, <4>1 DEF CreditsPending
      <4> QED BY <1>2, <3>1, <3>2, <4>2
    <3> HIDE DEF Mine
    <3> QED BY <1>1, <3>1, <3>2, OwedMoves DEF Mine
  <2> QED BY <1>3, <1>4, <2>1, <2>2
<1>5. ASSUME NEW t \in Sessions, NEW u \in Sessions \ {t},
             tx'[t].pc = "credit", tx'[u].pc = "credit"
      PROVE  Mine(u) # Mine(t)
  <2>1. ASSUME NEW x \in Sessions, NEW y \in Sessions \ {x}, SettlePayment(x) \/ SettleRefund(x),
               tx'[y].pc = "credit"
        PROVE  Mine(x) # Mine(y)
    <3>1. tx'[y] = tx[y] /\ Mine(x) \notin owed
      BY <1>1, <2>1
    <3>2. Mine(y) \in owed
      BY <2>1, <3>1 DEF CreditsPending, At
    <3> HIDE DEF Mine
    <3> QED BY <3>1, <3>2
  <2>2. CASE tx'[t] = tx[t] /\ tx'[u] = tx[u]
    BY <1>5, <2>2 DEF CreditsPending, At
  <2> HIDE DEF Mine
  <2> QED BY <1>3, <1>5, <2>1, <2>2
<1>6. \A t \in Sessions : tx'[t].pc = "credit" => Target(tx[t].req)' = Mine(t)
  BY <1>3 DEF Target
<1> HIDE DEF Mine
<1> QED BY <1>4, <1>5, <1>6 DEF CreditsPending, At

-----------------------------------------------------------------------------
(* Parties: a mark in the cache follows the upsert it records.             *)
LEMMA PartiesStep ==
    ASSUME SessionsTyped, OpsInPlace, PartiesOnboarded, [Next]_vars
    PROVE  PartiesOnboarded'
<1>1. ASSUME NEW s \in Sessions, Onboard(s)
      PROVE  /\ party \subseteq party' /\ party' \subseteq Parties /\ seen' \subseteq party'
             /\ PartyOf(s) \in party'
  <2>1. tx[s].req \in Requests /\ tx[s].req.op \in {"create", "subscribe"}
    BY <1>1, AtWork DEF Onboard, OpsInPlace, OpInPlace, At
  <2>2. PartyOf(s) \in Parties
    BY <2>1, RequestFacts DEF PartyOf, Parties
  <2>3. \/ PartyOf(s) \in seen /\ party' = party /\ seen' = seen
        \/ /\ party' = party \cup {PartyOf(s)}
           /\ seen' = seen \cup {PartyOf(s)} \/ seen' = seen
    BY <1>1 DEF Onboard
  <2> QED BY <2>2, <2>3 DEF PartiesOnboarded
<1>2. party \subseteq party' /\ party' \subseteq Parties /\ seen' \subseteq party'
  <2>1. CASE party' = party /\ seen' \subseteq seen
    BY <2>1 DEF PartiesOnboarded
  <2> QED BY <1>1, <2>1
      DEF Next, Begin, CreatePayment, CreateSubscription, CapturePayment, SettleNetworkFee,
          RefundPayment, SingleUpdate, SettlePayment, SettleRefund, Flip, ApplyBalanceDelta,
          UpdateMisses, Probe, Abort, Restart, vars
<1>3. ASSUME NEW t \in Sessions PROVE OnboardedFor(t)'
  <2>1. OnboardedFor(t)
    BY DEF PartiesOnboarded
  <2>2. CASE tx'[t] = tx[t]
    BY <1>2, <2>1, <2>2 DEF OnboardedFor, At
  <2>3. CASE tx'[t] = Idle
    BY <2>3 DEF OnboardedFor, At, Idle
  <2>4. ASSUME NEW req \in Requests, Begin(t, req) PROVE OnboardedFor(t)'
    BY <2>4, BeginFacts DEF OnboardedFor, At
  <2>5. CASE Onboard(t) /\ GoesTo(t, AfterOnboard(t))
    <3>1. PartyOf(t) \in party' /\ (At(t, "merchant") \/ At(t, "customer"))
      BY <1>1, <2>5 DEF Onboard
    <3>2. tx'[t].req = tx[t].req /\ tx'[t].pc = AfterOnboard(t)
      BY <2>5 DEF GoesTo
    <3> QED BY <1>2, <2>1, <3>1, <3>2 DEF OnboardedFor, AfterOnboard, PartyOf, At
  <2>6. CASE GoesTo(t, "credit") \/ GoesTo(t, "probe")
    BY <2>6 DEF GoesTo, OnboardedFor, At
  <2> QED BY <2>2, <2>3, <2>4, <2>5, <2>6, SessionMoves DEF SessionMove
<1> QED BY <1>2, <1>3 DEF PartiesOnboarded

(* Balances, subscriptions and answers.                                    *)
LEMMA RecordsStep ==
    ASSUME RowsInv, [Next]_vars
    PROVE  RecordsTyped'
<1> USE DEF RowsInv
<1>1. balance' \in [Accounts -> BalanceRows]
  <2>1. CASE balance' = balance
    BY <2>1 DEF RecordsTyped
  <2> QED BY <2>1, DebtPaid
      DEF Next, Begin, Onboard, CreatePayment, CreateSubscription, CapturePayment,
          SettleNetworkFee, RefundPayment, SingleUpdate, SettlePayment, SettleRefund, Flip,
          UpdateMisses, Probe, Abort, Restart, vars, tables
<1>2. subscription' \subseteq Accounts \X Customers
  <2>1. ASSUME NEW s \in Sessions, CreateSubscription(s)
        PROVE  subscription' \subseteq Accounts \X Customers
    <3>1. tx[s].req \in Requests /\ tx[s].req.op = "subscribe"
      BY <2>1, AtWork DEF CreateSubscription, At
    <3>2. <<tx[s].req.account, tx[s].req.customer>> \in Accounts \X Customers
      BY <3>1, RequestFacts
    <3> QED BY <2>1, <3>2 DEF CreateSubscription, RecordsTyped
  <2>2. CASE subscription' = subscription
    BY <2>2 DEF RecordsTyped
  <2> QED BY <2>1, <2>2
      DEF Next, Begin, Onboard, CreatePayment, CapturePayment, SettleNetworkFee,
          RefundPayment, SingleUpdate, SettlePayment, SettleRefund, Flip, ApplyBalanceDelta,
          UpdateMisses, Probe, Abort, Restart, vars
<1>3. AnswerTyped'
  <2> USE DEF AnswerTyped
  <2>1. ASSUME NEW s \in Sessions, NEW is \in Answers, Ends(s, is) PROVE AnswerTyped'
    BY <2>1, EndsFacts
  <2>2. ASSUME NEW s, NEW pc, GoesOn(s, pc) PROVE AnswerTyped'
    BY <2>2 DEF GoesOn
  <2>3. CASE UNCHANGED vars
    BY <2>3 DEF vars, RecordsTyped
  <2>4. ASSUME NEW s \in Sessions, NEW req \in Requests, Begin(s, req) PROVE AnswerTyped'
    BY <2>4 DEF Begin
  <2>5. CASE Restart
    BY <2>5 DEF Restart
  <2>6. "ok" \in Answers /\ "error" \in Answers /\ \A req : Diagnosis(req) \in Answers
    BY DEF Answers, Diagnosis
  <2> HIDE DEF AnswerTyped
  <2>7. ASSUME NEW s \in Sessions,
               \/ Onboard(s) \/ CreatePayment(s) \/ CreateSubscription(s) \/ CapturePayment(s)
               \/ SettleNetworkFee(s) \/ RefundPayment(s) \/ SettlePayment(s) \/ SettleRefund(s)
               \/ ApplyBalanceDelta(s) \/ UpdateMisses(s) \/ Probe(s) \/ Abort(s)
        PROVE  AnswerTyped'
    BY <2>1, <2>2, <2>6, <2>7
       DEF Onboard, CreatePayment, CreateSubscription, CapturePayment, SettleNetworkFee,
           RefundPayment, SingleUpdate, SettlePayment, SettleRefund, Flip, ApplyBalanceDelta,
           UpdateMisses, Probe, Abort
  <2> QED BY <2>3, <2>4, <2>5, <2>7 DEF Next
<1> QED BY <1>1, <1>2, <1>3 DEF RecordsTyped

-----------------------------------------------------------------------------
LEMMA InitHolds == Init => IInv /\ L!Init
<1> SUFFICES ASSUME Init PROVE IInv /\ L!Init
  OBVIOUS
<1>1. BooksWithOwed = [a \in Accounts |-> [balance |-> 0, fees |-> 0]]
  <2>1. ASSUME NEW a PROVE OwedNet(a) = 0 /\ OwedFees(a) = 0
    <3>1. PaymentsOwed(payment, owed, a) = {} /\ RefundsOwed(payment, refund, owed, a) = {}
      BY DEF Init, PaymentsOwed, RefundsOwed
    <3> QED BY <3>1, OwedColumns, NoneChosen, BoundsAssumption DEF NetOwed, FeesOwed
  <2>2. \A a \in Accounts : balance[a] = [balance |-> 0, fees |-> 0]
    BY DEF Init
  <2>3. Moved([balance |-> 0, fees |-> 0], 0, 0) = [balance |-> 0, fees |-> 0]
    <3>1. [balance |-> 0, fees |-> 0] \in BalanceRows
      BY DEF BalanceRows
    <3> QED BY <3>1, MovedFacts, SameRow
  <2> QED BY <2>1, <2>2, <2>3 DEF BooksWithOwed
<1>2. L!Init
  BY <1>1, LedgerRowsAreOurs DEF Init, L!Init
<1>3. L!TypeOK
  BY <1>2, LedgerRowsAreOurs DEF L!Init, L!TypeOK, NoRows, BalanceRows
<1>4. \A s \in Sessions : tx[s] = Idle
  BY DEF Init
<1>5. SessionsTyped
  BY DEF Init, SessionsTyped, Idle, Steps
<1>6. OpsInPlace /\ NamesKnown /\ FeesSeen /\ CreditsPending
  BY <1>4 DEF OpsInPlace, OpInPlace, NamesKnown, FeesSeen, CreditsPending, RowOps, At, Idle,
              NoRequest
<1>7. OwedIsSettled /\ CreditedStays
  BY DEF Init, OwedIsSettled, CreditedStays
<1>8. PartiesOnboarded /\ RecordsTyped
  BY <1>4 DEF Init, PartiesOnboarded, OnboardedFor, RecordsTyped, AnswerTyped, BalanceRows,
              At, Idle
<1> QED BY <1>2, <1>3, <1>5, <1>6, <1>7, <1>8 DEF IInv

LEMMA IInvStep == IInv /\ [Next]_vars => IInv' /\ [L!Next]_(L!vars)
<1> SUFFICES ASSUME IInv, [Next]_vars PROVE IInv' /\ [L!Next]_(L!vars)
  OBVIOUS
<1> USE DEF IInv
<1>1. RowsInv
  BY DEF RowsInv
<1>2. [L!Next]_(L!vars)
  BY <1>1, StepImplements
<1>3. L!TypeOK' /\ RowsKept
  BY <1>2, LedgerTypeStep, LedgerKeepsRows
<1>4. SessionsTyped' /\ OpsInPlace'
  BY SessionMoves, OpsStep
<1>5. NamesKnown' /\ FeesSeen'
  BY <1>3, NamesStep
<1>6. OwedIsSettled' /\ CreditedStays'
  BY <1>1, <1>3, OwedStep
<1>7. CreditsPending' /\ RecordsTyped'
  BY <1>1, PendingStep, RecordsStep
<1>8. PartiesOnboarded'
  BY PartiesStep
<1> QED BY <1>2, <1>3, <1>4, <1>5, <1>6, <1>7, <1>8

(* The inductive invariant holds in every reachable state.                 *)
THEOREM InvariantHolds == Spec => []IInv
<1>1. Init => IInv
  BY InitHolds
<1>2. IInv /\ [Next]_vars => IInv'
  BY IInvStep
<1> QED BY <1>1, <1>2, PTL DEF Spec

(* Type correctness of the MongoDB backend: its documents and the books    *)
(* they add up to stay well formed, and only settled rows are owed.        *)
THEOREM TypeCorrect == Spec => []TypeOK
<1>1. IInv => TypeOK
  <2> SUFFICES ASSUME IInv PROVE TypeOK
    OBVIOUS
  <2>1. \A s \in Sessions : tx[s].pc \in Steps /\ tx[s].req \in Requests \cup {NoRequest}
    BY DEF IInv, SessionsTyped
  <2>2. SettledRefunds \subseteq DOMAIN refund
    BY DEF SettledRefunds
  <2> QED BY <2>1, <2>2
      DEF IInv, TypeOK, Steps, OwedIsSettled, PartiesOnboarded, RecordsTyped, AnswerTyped
<1> QED BY <1>1, InvariantHolds, PTL

(* "Never a payment pointing at nothing": when a payment or subscription   *)
(* is about to be inserted both parties are documents, whether this        *)
(* request upserted them or the cache said that another had.               *)
THEOREM NothingPointedAt == Spec => []NeverPointsAtNothing
<1>1. IInv => NeverPointsAtNothing
  BY DEF IInv, NeverPointsAtNothing, PartiesOnboarded, OnboardedFor, At
<1> QED BY <1>1, InvariantHolds, PTL

(* The refinement: with what is owed added to the books, every sequence of *)
(* single-document writes, aborts and restarts is one of the atomic Ledger.*)
THEOREM BackendImplementsLedger == Spec => ImplementsLedgerWithDebts
<1>1. Init => L!Init
  BY InitHolds
<1>2. IInv /\ [Next]_vars => [L!Next]_(L!vars)
  BY IInvStep
<1>3. (Spec => L!Spec) => (Spec => ImplementsLedgerWithDebts)
  BY DEF ImplementsLedgerWithDebts
<1>4. Spec => L!Init /\ [][L!Next]_(L!vars)
  BY <1>1, <1>2, InvariantHolds, PTL DEF Spec
<1>5. Spec => L!Spec
  BY <1>4 DEF L!Spec
<1> QED BY <1>3, <1>5

(* What a session is told is "ok" is done, both writes of a settlement     *)
(* included.                                                               *)
LEMMA OkStep ==
    ASSUME IInv, Next, NEW s \in Sessions, answer' = [to |-> s, is |-> "ok"]
    PROVE  \E req \in {tx[s].req} : Done(req)'
<1> DEFINE req == tx[s].req
<1>1. /\ L!TypeOK /\ SessionsTyped /\ OpInPlace(s) /\ OwedIsSettled /\ CreditsPending
      /\ \A p \in DOMAIN payment : payment[p] \in PaymentRows
  BY LedgerRowsAreOurs DEF IInv, OpsInPlace, L!TypeOK
<1>2. \/ CreatePayment(s) \/ CreateSubscription(s) \/ CapturePayment(s) \/ SettleNetworkFee(s)
      \/ RefundPayment(s) \/ ApplyBalanceDelta(s) \/ Probe(s)
  <2>1. ASSUME NEW u, NEW pc, GoesOn(u, pc) PROVE FALSE
    BY <2>1 DEF GoesOn, NoAnswer
  <2>2. ASSUME NEW u, NEW is, Ends(u, is) PROVE u = s /\ is = "ok"
    BY <2>2 DEF Ends
  <2>3. ASSUME NEW u \in Sessions, NEW r \in Requests, Begin(u, r) PROVE FALSE
    BY <2>3 DEF Begin, NoAnswer
  <2>4. ASSUME NEW u \in Sessions, Abort(u) \/ Onboard(u) PROVE FALSE
    BY <2>1, <2>2, <2>4 DEF Abort, Onboard
  <2>5. ASSUME Restart PROVE FALSE
    BY <2>5 DEF Restart, NoAnswer
  <2>6. ASSUME NEW u \in Sessions, SettlePayment(u) \/ SettleRefund(u) \/ UpdateMisses(u)
        PROVE  FALSE
    BY <2>1, <2>6 DEF SettlePayment, SettleRefund, Flip, UpdateMisses
  <2>7. ASSUME NEW u \in Sessions,
               \/ CreatePayment(u) \/ CreateSubscription(u) \/ CapturePayment(u)
               \/ SettleNetworkFee(u) \/ RefundPayment(u) \/ ApplyBalanceDelta(u) \/ Probe(u)
        PROVE  u = s
    BY <2>2, <2>7 DEF CreatePayment, CreateSubscription, CapturePayment, SettleNetworkFee,
                      RefundPayment, SingleUpdate, ApplyBalanceDelta, Probe
  <2> QED BY <2>3, <2>4, <2>5, <2>6, <2>7 DEF Next
<1>3. CASE CreatePayment(s)
  <2>1. PICK p \in PaymentIds :
           payment' = Insert(payment, p, NewPayment(req.account, req.amount, req.method))
    BY <1>3 DEF CreatePayment
  <2>2. /\ p \in DOMAIN payment' /\ payment'[p].account = req.account
        /\ payment'[p].amount = req.amount
    BY <2>1 DEF Insert, NewPayment
  <2>3. req.op = "create"
    BY <1>3 DEF CreatePayment
  <2> QED BY <2>2, <2>3 DEF Done
<1>4. CASE CreateSubscription(s)
  BY <1>4 DEF CreateSubscription, Done
<1>5. CASE CapturePayment(s)
  <2>1. /\ req.op = "capture" /\ req.payment \in DOMAIN payment
        /\ payment' = [payment EXCEPT ![req.payment].status = "captured"]
    BY <1>5 DEF CapturePayment, SingleUpdate, Matches
  <2>2. payment'[req.payment].status = "captured"
    BY <1>1, <2>1 DEF PaymentRows
  <2> QED BY <2>1, <2>2 DEF Done
<1>6. CASE SettleNetworkFee(s)
  <2> DEFINE fee == MockNetworkFee(payment[req.payment].amount)
  <2>1. /\ req.op = "networkFee" /\ req.payment \in DOMAIN payment
        /\ payment' = [payment EXCEPT ![req.payment].networkFee = fee]
    BY <1>6 DEF SettleNetworkFee, SingleUpdate, Matches
  <2>2. payment[req.payment] \in PaymentRows /\ payment[req.payment].amount \in Nat
    BY <1>1, <2>1 DEF PaymentRows
  <2>3. fee # 0
    BY <2>2 DEF MockNetworkFee
  <2> HIDE DEF fee
  <2>4. payment'[req.payment].networkFee = fee
    BY <2>1, <2>2 DEF PaymentRows
  <2> QED BY <2>1, <2>3, <2>4 DEF Done
<1>7. CASE RefundPayment(s)
  <2>1. req.op = "refund"
    BY <1>7 DEF RefundPayment
  <2>2. PICK r \in RefundIds : refund' = Insert(refund, r, NewRefund(req.payment, req.amount))
    BY <1>7 DEF RefundPayment
  <2>3. /\ r \in DOMAIN refund' /\ refund'[r].payment = req.payment
        /\ refund'[r].amount = req.amount
    BY <2>2 DEF Insert, NewRefund
  <2> QED BY <2>1, <2>3 DEF Done
<1>8. CASE ApplyBalanceDelta(s)
  <2>1. /\ Target(req) \in owed /\ owed' = owed \ {Target(req)} /\ req.op # "none"
        /\ refund' = refund /\ credited' = credited
        /\ req.op \in {"settlePayment", "settleRefund"}
    BY <1>1, <1>8 DEF ApplyBalanceDelta, CreditsPending, OpInPlace, At
  <2>2. CASE req.op = "settlePayment"
    <3>1. Target(req) = <<"payment", req.payment>>
      BY <2>2 DEF Target
    <3>2. req.payment \in credited
      BY <1>1, <2>1, <3>1, TablesTyped
    <3> QED BY <2>1, <2>2, <3>1, <3>2 DEF Done, Target
  <2>3. CASE req.op = "settleRefund"
    <3>1. Target(req) = <<"refund", req.refund>>
      BY <2>3 DEF Target
    <3>2. refund[req.refund].status = "settled"
      BY <1>1, <2>1, <3>1, TablesTyped
    <3> QED BY <2>1, <2>3, <3>1, <3>2 DEF Done, Target
  <2> QED BY <2>1, <2>2, <2>3
<1>9. CASE Probe(s)
  <2>1. Diagnosis(req) = "ok" /\ At(s, "probe") /\ payment' = payment
    BY <1>9 DEF Probe, Ends, tables
  <2>2. req.op = "networkFee" /\ req.payment \in DOMAIN payment
    BY <2>1 DEF Diagnosis
  <2>3. payment[req.payment].networkFee # 0
    BY <2>1, <2>2 DEF IInv, FeesSeen, FeeSeen
  <2> QED BY <2>1, <2>2, <2>3 DEF Done
<1> QED BY <1>2, <1>3, <1>4, <1>5, <1>6, <1>7, <1>8, <1>9

(* Nobody is told "ok" for a write that did not happen, for a settlement   *)
(* whose $inc is missing, or on the word of a stale probe.                 *)
THEOREM OkIsDone == Spec => OkMeansDone
<1> DEFINE Honest == \A s \in Sessions :
                        answer' = [to |-> s, is |-> "ok"] => \E req \in {tx[s].req} : Done(req)'
<1>1. IInv /\ [Next]_vars => [Honest]_vars
  BY OkStep
<1>2. (Spec => [][Honest]_vars) => (Spec => OkMeansDone)
  BY DEF OkMeansDone
<1> HIDE DEF Honest
<1>3. Spec => [][Honest]_vars
  BY <1>1, InvariantHolds, PTL DEF Spec
<1> QED BY <1>2, <1>3

-----------------------------------------------------------------------------
(* What the ledger keeps, the documents keep once their debts are counted. *)
LEMMA SameTotals ==
    /\ \A f, n : LP!Total(f, n) = L!Total(f, n)
    /\ \A x : LP!Net(x) = L!Net(x)
    /\ \A x : LP!GripeFee(x) = L!GripeFee(x)
BY DEF LP!Total, L!Total, LP!RunningTotal, L!RunningTotal, LP!Net, L!Net, LP!GripeFee,
       L!GripeFee, LP!DivHalfEven, L!DivHalfEven, LP!GripeFeeBasisPoints, L!GripeFeeBasisPoints

LEMMA SameColumns ==
    ASSUME NEW a
    PROVE  /\ LP!NetCredits(a) = L!NetCredits(a) /\ LP!FeeCredits(a) = L!FeeCredits(a)
           /\ LP!NetDebits(a) = L!NetDebits(a)   /\ LP!FeeDebits(a) = L!FeeDebits(a)
           /\ LP!RefundsOf(a) = L!RefundsOf(a)
<1>1. /\ \A x : LP!CreditedTo(a, x) <=> L!CreditedTo(a, x)
      /\ \A x : LP!DebitedFrom(a, x) <=> L!DebitedFrom(a, x)
      /\ LP!PaymentIds = L!PaymentIds /\ LP!RefundIds = L!RefundIds
  BY LedgerRowsAreOurs, ProofRowsAreOurs
     DEF LP!CreditedTo, L!CreditedTo, LP!DebitedFrom, L!DebitedFrom
<1> QED BY <1>1, SameTotals
    DEF LP!NetCredits, L!NetCredits, LP!FeeCredits, L!FeeCredits, LP!NetDebits, L!NetDebits,
        LP!FeeDebits, L!FeeDebits, LP!RefundsOf, L!RefundsOf

(* With nothing owed the books are the balances of the documents.          *)
LEMMA NothingOwed ==
    ASSUME IInv, owed = {}
    PROVE  BooksWithOwed = balance
<1>1. ASSUME NEW a PROVE OwedNet(a) = 0 /\ OwedFees(a) = 0
  <2>1. PaymentsOwed(payment, owed, a) = {} /\ RefundsOwed(payment, refund, owed, a) = {}
    BY DEF PaymentsOwed, RefundsOwed
  <2> QED BY <2>1, OwedColumns, NoneChosen, BoundsAssumption DEF NetOwed, FeesOwed
<1>2. balance \in [Accounts -> BalanceRows]
  BY DEF IInv, RecordsTyped
<1>3. ASSUME NEW a \in Accounts PROVE Moved(balance[a], 0, 0) = balance[a]
  <2>1. balance[a] \in BalanceRows
    BY <1>2
  <2>2. balance[a].balance + 0 = balance[a].balance /\ balance[a].fees + 0 = balance[a].fees
    BY <2>1 DEF BalanceRows
  <2> QED BY <2>1, <2>2, MovedFacts, SameRow
<1> QED BY <1>1, <1>2, <1>3 DEF BooksWithOwed

(* The MongoDB backend keeps the books: each balance plus what is owed to  *)
(* it is, to the minor unit, what was settled less what was refunded, and  *)
(* with nothing owed the balances say so themselves; refunds add up within *)
(* their payments, statuses agree with the credits, and the reports, over  *)
(* balances plus what is owed, make up what settled.                       *)
THEOREM BackendKeepsTheBooks ==
    Spec => [](/\ L!Reconciled /\ L!RefundsAddUp /\ L!CreditMatchesStatus /\ LP!BooksBalance
               /\ owed = {} => BooksWithOwed = balance)
<1>1. LP!LedgerInv => L!Reconciled /\ L!RefundsAddUp /\ L!CreditMatchesStatus
  BY SameTotals, SameColumns
     DEF LP!LedgerInv, LP!Reconciled, L!Reconciled, LP!RefundsAddUp, L!RefundsAddUp,
         LP!CreditMatchesStatus, L!CreditMatchesStatus
<1>2. LP!Init <=> L!Init
  BY SameLedger
<1>3. [LP!Next]_(LP!vars) <=> [L!Next]_(L!vars)
  BY SameLedger
<1>4. LP!Spec => []LP!LedgerInv
  BY AccountsFinite, BoundsAssumption, AmountsAssumption, LP!InvHolds
<1>5. IInv => (owed = {} => BooksWithOwed = balance)
  BY NothingOwed
<1>6. LP!Spec => []LP!BooksBalance
  BY AccountsFinite, BoundsAssumption, AmountsAssumption, LP!ReportsAddUp
<1> QED BY <1>1, <1>2, <1>3, <1>4, <1>5, <1>6, InvariantHolds, BackendImplementsLedger, PTL
    DEF ImplementsLedgerWithDebts, L!Spec, LP!Spec

=============================================================================
