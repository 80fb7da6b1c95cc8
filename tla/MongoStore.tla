----------------------------- MODULE MongoStore -----------------------------
(***************************************************************************)
(* store/mongo/store.go: every write of the MongoDB backend, run by        *)
(* concurrent sessions.  There are no transactions: one step is one write  *)
(* or read of one document, each visible at once, and an operation that    *)
(* needs two of them can stop between them.                                *)
(***************************************************************************)
EXTENDS LedgerRows, Sums

CONSTANTS
    Sessions,       \* requests the API serves at the same time
    Customers,
    MerchantOf,     \* the merchant of each account
    Methods         \* the payment methods requests use

ASSUME MethodsAssumption == Methods \subseteq PaymentMethods

VARIABLES
    payment,        \* the payments collection, without the embedded refunds
    refund,         \* the refunds embedded in the payments
    balance,        \* balances in the merchants collection
    party,          \* merchants and customers documents
    subscription,   \* subscriptions, as (account, customer)
    seen,           \* the process's cache of onboarded parties
    tx,             \* what each session is doing
    answer,         \* history: the answer this step gave, and to whom
    credited,       \* history: the payments that settled
    owed            \* history: the settled rows whose $inc has not happened

tables == <<payment, refund, balance, credited, owed>>
vars   == <<tables, party, subscription, seen, tx, answer>>

Parties == {MerchantOf[a] : a \in Accounts} \cup Customers

(* Ids are drawn at random, so a request names a row that exists or one    *)
(* that never will.                                                        *)
NoSuchId == 0

Requests ==
    [op : {"create"}, account : Accounts, customer : Customers, amount : Amounts, method : Methods]
    \cup [op : {"subscribe"}, account : Accounts, customer : Customers]
    \cup [op : {"capture", "settlePayment", "networkFee"}, payment : PaymentIds \cup {NoSuchId}]
    \cup [op : {"refund"}, payment : PaymentIds \cup {NoSuchId}, amount : RefundAmounts]
    \cup [op : {"settleRefund"}, refund : RefundIds \cup {NoSuchId}]

Answers == {"ok", "notFound", "invalidState", "overRefund", "error"}
NoAnswer == [to |-> "nobody", is |-> "none"]

NoRequest == [op |-> "none"]

Idle == [pc |-> "idle", req |-> NoRequest]

At(s, pc) == tx[s].pc = pc

GoesOn(s, pc) ==
    /\ tx' = [tx EXCEPT ![s].pc = pc]
    /\ answer' = NoAnswer

Ends(s, is) ==
    /\ tx' = [tx EXCEPT ![s] = Idle]
    /\ answer' = [to |-> s, is |-> is]

(* The row a settlement flips, by table and id.                            *)
Target(req) ==
    IF req.op = "settleRefund" THEN <<"refund", req.refund>> ELSE <<"payment", req.payment>>

Init ==
    /\ payment = NoRows /\ refund = NoRows
    /\ balance = [a \in Accounts |-> [balance |-> 0, fees |-> 0]]
    /\ party = {} /\ subscription = {} /\ seen = {}
    /\ tx = [s \in Sessions |-> Idle]
    /\ answer = NoAnswer
    /\ credited = {} /\ owed = {}

-----------------------------------------------------------------------------
(* Bound: a row id is left for every request in flight that inserts one.   *)
Room(op, ids, table) ==
    Cardinality(DOMAIN table) + Cardinality({s \in Sessions : tx[s].req.op = op}) < Cardinality(ids)

(* A request arrives; the inputs are those validation lets through.        *)
Begin(s, req) ==
    /\ At(s, "idle")
    /\ req.op \in {"capture", "settlePayment", "networkFee", "refund"} =>
          req.payment \in DOMAIN payment \cup {NoSuchId}
    /\ req.op = "settleRefund" => req.refund \in DOMAIN refund \cup {NoSuchId}
    /\ req.op = "create" => Room("create", PaymentIds, payment)
    /\ req.op = "refund" => Room("refund", RefundIds, refund)
    /\ tx' = [tx EXCEPT ![s] =
                [pc |-> IF req.op \in {"create", "subscribe"} THEN "merchant" ELSE "update",
                 req |-> req]]
    /\ answer' = NoAnswer
    /\ UNCHANGED <<tables, party, subscription, seen>>

PartyOf(s) ==
    IF At(s, "merchant") THEN MerchantOf[tx[s].req.account] ELSE tx[s].req.customer

AfterOnboard(s) == IF At(s, "merchant") THEN "customer" ELSE "insert"

\* Mutant: the cache is written before the upsert whose success it records.
OnboardMarkingFirst(s) ==
    /\ At(s, "merchant") \/ At(s, "customer")
    /\ \/ /\ party' = party \cup (IF PartyOf(s) \in seen THEN {} ELSE {PartyOf(s)})
          /\ GoesOn(s, AfterOnboard(s))
       \/ /\ Ends(s, "error")
          /\ UNCHANGED party
    /\ seen' = seen \cup {PartyOf(s)}
    /\ UNCHANGED <<tables, subscription>>

(* onboardActors, one party: skipped when cached, else the $setOnInsert    *)
(* upsert and then the mark, which a lost answer to the upsert prevents.   *)
Onboard(s) ==
    /\ At(s, "merchant") \/ At(s, "customer")
    /\ IF PartyOf(s) \in seen
       THEN /\ GoesOn(s, AfterOnboard(s))
            /\ UNCHANGED <<party, seen>>
       ELSE /\ party' = party \cup {PartyOf(s)}
            /\ \/ /\ seen' = seen \cup {PartyOf(s)}
                  /\ GoesOn(s, AfterOnboard(s))
               \/ /\ Ends(s, "error")
                  /\ UNCHANGED seen
    /\ UNCHANGED <<tables, subscription>>

(* InsertOne of the payment.  Here and below the answer to the last write  *)
(* may be lost: "error" although it happened.                              *)
CreatePayment(s) ==
    LET req == tx[s].req
    IN  /\ At(s, "insert") /\ req.op = "create"
        /\ \E p \in PaymentIds \ DOMAIN payment :
              payment' = Insert(payment, p, NewPayment(req.account, req.amount, req.method))
        /\ \E is \in {"ok", "error"} : Ends(s, is)
        /\ UNCHANGED <<refund, balance, credited, owed, party, subscription, seen>>

CreateSubscription(s) ==
    LET req == tx[s].req
    IN  /\ At(s, "insert") /\ req.op = "subscribe"
        /\ subscription' = subscription \cup {<<req.account, req.customer>>}
        /\ \E is \in {"ok", "error"} : Ends(s, is)
        /\ UNCHANGED <<tables, party, seen>>

\* Mutant: id and status of the refund filter match different elements.
CreatedSomewhere(r) ==
    /\ r \in DOMAIN refund
    /\ \E q \in DOMAIN refund : /\ refund[q].payment = refund[r].payment
                                /\ refund[q].status = "created"

(* $elemMatch: id and status of the same element.                          *)
Created(r) == r \in DOMAIN refund /\ refund[r].status = "created"

(* The filter of the conditional FindOneAndUpdate.                         *)
Matches(req) ==
    \/ req.op = "settleRefund" /\ Created(req.refund)
    \/ /\ req.op # "settleRefund"
       /\ req.payment \in DOMAIN payment
       /\ LET row == payment[req.payment]
          IN  \/ req.op = "capture" /\ row.status = "authorized"
              \/ req.op = "settlePayment" /\ Settleable(row)
              \/ req.op = "networkFee" /\ row.networkFee = 0
              \/ req.op = "refund" /\ Refundable(row, req.amount)

(* One FindOneAndUpdate is the whole of the next three operations.         *)
SingleUpdate(s) ==
    /\ At(s, "update") /\ Matches(tx[s].req)
    /\ \E is \in {"ok", "error"} : Ends(s, is)
    /\ UNCHANGED <<balance, credited, owed, party, subscription, seen>>

CapturePayment(s) ==
    LET p == tx[s].req.payment
    IN  /\ tx[s].req.op = "capture"
        /\ SingleUpdate(s)
        /\ payment' = [payment EXCEPT ![p].status = "captured"]
        /\ UNCHANGED refund

SettleNetworkFee(s) ==
    LET p == tx[s].req.payment
    IN  /\ tx[s].req.op = "networkFee"
        /\ SingleUpdate(s)
        /\ payment' = [payment EXCEPT ![p].networkFee = MockNetworkFee(payment[p].amount)]
        /\ UNCHANGED refund

RefundPayment(s) ==
    LET req == tx[s].req
    IN  /\ req.op = "refund"
        /\ SingleUpdate(s)
        /\ payment' = [payment EXCEPT ![req.payment] = Refunded(@, req.amount)]
        /\ \E r \in RefundIds \ DOMAIN refund :
              refund' = Insert(refund, r, NewRefund(req.payment, req.amount))

(* SettlePayment and SettleRefund: the conditional flip, the first of two  *)
(* writes.                                                                 *)
Flip(s) ==
    /\ At(s, "update") /\ Matches(tx[s].req)
    /\ owed' = owed \cup {Target(tx[s].req)}
    /\ GoesOn(s, "credit")
    /\ UNCHANGED <<balance, party, subscription, seen>>

SettlePayment(s) ==
    LET p == tx[s].req.payment
    IN  /\ tx[s].req.op = "settlePayment"
        /\ Flip(s)
        /\ payment' = [payment EXCEPT ![p].status = "settled"]
        /\ credited' = credited \cup {p}
        /\ UNCHANGED refund

SettleRefund(s) ==
    LET r == tx[s].req.refund
    IN  /\ tx[s].req.op = "settleRefund"
        /\ Flip(s)
        /\ refund' = [refund EXCEPT ![r].status = "settled"]
        /\ UNCHANGED <<payment, credited>>

(* applyBalanceDelta: the $inc on the merchant document, the second write. *)
ApplyBalanceDelta(s) ==
    LET req == tx[s].req
    IN  /\ At(s, "credit")
        /\ IF req.op = "settlePayment"
           THEN LET row == payment[req.payment]
                IN  balance' = [balance EXCEPT ![row.account] = Credit(@, row.amount)]
           ELSE LET row == refund[req.refund]
                IN  balance' = [balance EXCEPT ![payment[row.payment].account] = Debit(@, row.amount)]
        /\ owed' = owed \ {Target(req)}
        /\ \E is \in {"ok", "error"} : Ends(s, is)
        /\ UNCHANGED <<payment, refund, credited, party, subscription, seen>>

(* No document matched: a second read finds out why.                       *)
UpdateMisses(s) ==
    /\ At(s, "update") /\ ~ Matches(tx[s].req)
    /\ GoesOn(s, "probe")
    /\ UNCHANGED <<tables, party, subscription, seen>>

(* Why no document matched, judged by the document as it is now.           *)
\* Mutant: settling what is settled is answered like a redelivered fee.
DiagnosisIdempotent(req) ==
    IF req.op = "settleRefund"
    THEN IF req.refund \in DOMAIN refund THEN "ok" ELSE "notFound"
    ELSE IF req.payment \notin DOMAIN payment THEN "notFound"
    ELSE IF req.op = "networkFee" THEN "ok"
    ELSE IF req.op = "refund" /\ payment[req.payment].status \in {"captured", "settled"}
    THEN "overRefund" ELSE "invalidState"

Diagnosis(req) ==
    IF req.op = "settleRefund"
    THEN IF req.refund \in DOMAIN refund THEN "invalidState" ELSE "notFound"
    ELSE IF req.payment \notin DOMAIN payment THEN "notFound"
    ELSE IF req.op = "networkFee" THEN "ok"
    ELSE IF req.op = "refund" /\ payment[req.payment].status \in {"captured", "settled"}
    THEN "overRefund" ELSE "invalidState"

Probe(s) ==
    /\ At(s, "probe")
    /\ Ends(s, Diagnosis(tx[s].req))
    /\ UNCHANGED <<tables, party, subscription, seen>>

(* A failed command or a cancelled request context: what was written stays. *)
Abort(s) ==
    /\ ~ At(s, "idle")
    /\ Ends(s, "error")
    /\ UNCHANGED <<tables, party, subscription, seen>>

(* The API process dies and is started again: its cache is empty.          *)
Restart ==
    /\ tx' = [s \in Sessions |-> Idle]
    /\ answer' = NoAnswer
    /\ seen' = {}
    /\ UNCHANGED <<tables, party, subscription>>

Next ==
    \/ \E s \in Sessions :
          \/ \E req \in Requests : Begin(s, req)
          \/ Onboard(s) \/ CreatePayment(s) \/ CreateSubscription(s)
          \/ CapturePayment(s) \/ SettleNetworkFee(s) \/ RefundPayment(s)
          \/ SettlePayment(s) \/ SettleRefund(s) \/ ApplyBalanceDelta(s)
          \/ UpdateMisses(s) \/ Probe(s)
          \/ Abort(s)
    \/ Restart

Spec == Init /\ [][Next]_vars

-----------------------------------------------------------------------------
(* The postings owed to account a, as net and fee columns.                 *)
OwedPayment(a, p) == <<"payment", p>> \in owed /\ payment[p].account = a
OwedRefund(a, r)  == <<"refund", r>> \in owed /\ payment[refund[r].payment].account = a

OwedNet(a) ==
    Total([p \in PaymentIds |-> IF OwedPayment(a, p) THEN Net(payment[p].amount) ELSE 0], MaxPayments)
    - Total([r \in RefundIds |-> IF OwedRefund(a, r) THEN Net(refund[r].amount) ELSE 0], MaxRefunds)
OwedFees(a) ==
    Total([p \in PaymentIds |-> IF OwedPayment(a, p) THEN GripeFee(payment[p].amount) ELSE 0], MaxPayments)
    - Total([r \in RefundIds |-> IF OwedRefund(a, r) THEN GripeFee(refund[r].amount) ELSE 0], MaxRefunds)

(* The ledger's balances: what the documents say, and what is still owed.  *)
BooksWithOwed == [a \in Accounts |-> Moved(balance[a], OwedNet(a), OwedFees(a))]

L == INSTANCE Ledger WITH balance <- BooksWithOwed

(* Well-formed state.                                                      *)
TypeOK ==
    /\ L!TypeOK
    /\ balance \in [Accounts -> BalanceRows]
    /\ party \subseteq Parties
    /\ subscription \subseteq Accounts \X Customers
    /\ seen \subseteq Parties
    /\ answer \in [to : Sessions, is : Answers] \cup {NoAnswer}
    /\ \A s \in Sessions :
          /\ tx[s].pc \in {"idle", "merchant", "customer", "insert", "update", "credit", "probe"}
          /\ tx[s].req \in Requests \cup {NoRequest}
    /\ owed \subseteq ({"payment"} \X credited) \cup ({"refund"} \X DOMAIN refund)

(* Every write is one step of the ledger once each flip's missing $inc is  *)
(* added to the books: however the sessions interleave and wherever they   *)
(* stop, a balance is only ever off by whole postings, each owed to a      *)
(* settled row and each posted at most once.                               *)
ImplementsLedgerWithDebts == L!Spec

(* The parties of a payment or subscription about to be inserted exist     *)
(* although the cache lets most requests skip the upserts: a crash leaves  *)
(* "never a payment pointing at nothing".                                  *)
NeverPointsAtNothing ==
    \A s \in Sessions : At(s, "insert") =>
       {MerchantOf[tx[s].req.account], tx[s].req.customer} \subseteq party

(* What req asked for is in the documents.                                 *)
Done(req) ==
    CASE req.op = "create"        -> \E p \in DOMAIN payment : /\ payment[p].account = req.account
                                                              /\ payment[p].amount = req.amount
      [] req.op = "subscribe"     -> <<req.account, req.customer>> \in subscription
      [] req.op = "capture"       -> payment[req.payment].status # "authorized"
      [] req.op = "settlePayment" -> req.payment \in credited /\ Target(req) \notin owed
      [] req.op = "networkFee"    -> payment[req.payment].networkFee # 0
      [] req.op = "refund"        -> \E r \in DOMAIN refund : /\ refund[r].payment = req.payment
                                                             /\ refund[r].amount = req.amount
      [] req.op = "settleRefund"  -> refund[req.refund].status = "settled" /\ Target(req) \notin owed

(* A session is told "ok" only when what it asked for is done, both writes *)
(* of a settlement included, whatever the others did since it started.     *)
OkMeansDone ==
    [][\A s \in Sessions :
          answer' = [to |-> s, is |-> "ok"] => \E req \in {tx[s].req} : Done(req)']_vars

(* What internal/store/store.go promises of SettlePayment: the credit goes *)
(* to the merchant "atomically with the flip", so none is missing when no  *)
(* request is in flight.                                                   *)
NothingOwedAtRest ==
    (\A s \in Sessions : At(s, "idle")) => owed = {}

=============================================================================
