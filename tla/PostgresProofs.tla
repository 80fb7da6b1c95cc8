--------------------------- MODULE PostgresProofs ---------------------------
(***************************************************************************)
(* Proofs about PostgresStore, for any number of sessions, accounts,       *)
(* parties and rows: whatever the interleaving, the aborts, the restarts   *)
(* and the lost commit answers, the backend implements the atomic Ledger,  *)
(* never answers "ok" for what is not committed, never inserts a child row *)
(* without its parents, and gets stuck in no other way than by a pool full *)
(* of transactions that probe on a second connection.                      *)
(***************************************************************************)
EXTENDS PostgresStore, TLAPS, FiniteSetTheorems

CONSTANT CurrencyOf     \* the currency of each account, for the reports

LP == INSTANCE LedgerProofs

-----------------------------------------------------------------------------
(* The inductive invariant.  Everything rests on RowsStillMatch: a         *)
(* transaction that found its row still finds it when it commits, because  *)
(* whoever would change the row waits for the lock that LocksHeld says the *)
(* transaction has and LocksApart that nobody else has.                    *)
Steps == {"idle", "begin", "first", "second", "insert", "update", "credit",
          "commit", "readback", "probe"}

SessionsTyped ==
    tx \in [Sessions -> [pc : Steps, req : Requests \cup {NoRequest}, held : SUBSET Locks]]

RowOps == {"capture", "settlePayment", "networkFee", "refund"}

(* Which requests get to which step.                                       *)
OpInPlace(s) ==
    LET op == tx[s].req.op
    IN  /\ op = "none" <=> At(s, "idle")
        /\ tx[s].pc \in {"first", "second", "insert"} => op \in {"create", "subscribe"}
        /\ tx[s].pc \in {"update", "probe"} => op \in RowOps \cup {"settleRefund"}
        /\ At(s, "readback") => op \in {"capture", "networkFee"}
        /\ At(s, "credit")   => op \in {"settlePayment", "settleRefund"}
        /\ At(s, "commit")   => op \in {"settlePayment", "settleRefund", "refund"}

OpsInPlace == \A s \in Sessions : OpInPlace(s)

(* A session has at most the locks its step calls for, and from its UPDATE *)
(* to its commit it has the row's.                                         *)
MayHold(s) ==
    LET req == tx[s].req
    IN  CASE At(s, "second") -> {<<"party", PartyOrder(req)[1]>>}
          [] At(s, "insert") -> {<<"party", PartyOrder(req)[1]>>, <<"party", PartyOrder(req)[2]>>}
          [] At(s, "credit") -> {Target(req)}
          [] At(s, "commit") -> {Target(req)} \cup ({"balance"} \X Accounts)
          [] OTHER           -> {}

HoldsItsRow(s) ==
    /\ tx[s].held \subseteq MayHold(s)
    /\ tx[s].pc \in {"credit", "commit"} => Target(tx[s].req) \in tx[s].held

LocksHeld == \A s \in Sessions : HoldsItsRow(s)

LocksApart == \A s, t \in Sessions : s # t => tx[s].held \cap tx[t].held = {}

RowsStillMatch ==
    \A s \in Sessions : tx[s].pc \in {"credit", "commit"} => Matches(tx[s].req)

(* A request names a row that exists or one that never will.               *)
NamesKnown ==
    \A s \in Sessions : tx[s].req.op \in RowOps =>
       tx[s].req.payment \in DOMAIN payment \cup {NoSuchId}

(* An autocommitted UPDATE is behind the read that follows it.             *)
ReadsBackDone ==
    \A s \in Sessions : At(s, "readback") =>
       LET p == tx[s].req.payment
       IN  /\ tx[s].req.op = "capture" => p \in DOMAIN payment /\ payment[p].status # "authorized"
           /\ tx[s].req.op = "networkFee" /\ p \in DOMAIN payment => payment[p].networkFee # 0

(* The cache never runs ahead of the tables, and an upserted party is      *)
(* committed or about to be.                                               *)
Onboarded(s, x) == x \in party \/ <<"party", x>> \in tx[s].held

PartiesOnboarded ==
    /\ seen \subseteq party /\ party \subseteq Parties
    /\ \A s \in Sessions :
          /\ At(s, "second") => Onboarded(s, PartyOrder(tx[s].req)[1])
          /\ At(s, "insert") => /\ Onboarded(s, PartyOrder(tx[s].req)[1])
                                /\ Onboarded(s, PartyOrder(tx[s].req)[2])

RecordsTyped ==
    /\ subscription \subseteq Accounts \X Customers
    /\ answer \in [to : Sessions, is : Answers] \cup {NoAnswer}

PoolRespected == Cardinality({s \in Sessions : HasConnection(s)}) <= PoolSize

IInv ==
    /\ L!TypeOK
    /\ SessionsTyped /\ OpsInPlace /\ LocksHeld /\ LocksApart
    /\ RowsStillMatch /\ NamesKnown /\ ReadsBackDone
    /\ PartiesOnboarded /\ RecordsTyped /\ PoolRespected

-----------------------------------------------------------------------------
(* The instances of Ledger here and in LedgerProofs, and this module, name *)
(* the same rows and the same arithmetic.                                  *)
LEMMA LedgerRowsAreOurs ==
    /\ L!NoRows = NoRows
    /\ L!PaymentIds = PaymentIds
    /\ L!RefundIds = RefundIds
    /\ L!PaymentMethods = PaymentMethods
    /\ L!PaymentRows = PaymentRows
    /\ L!RefundRows = RefundRows
    /\ L!BalanceRows = BalanceRows
    /\ \A x, y, z : L!Insert(x, y, z) = Insert(x, y, z)
    /\ \A x, y, z : L!NewPayment(x, y, z) = NewPayment(x, y, z)
    /\ \A x, y : L!NewRefund(x, y) = NewRefund(x, y)
    /\ \A x, y : L!Refunded(x, y) = Refunded(x, y)
    /\ \A x, y : L!Refundable(x, y) = Refundable(x, y)
    /\ \A x : L!Settleable(x) = Settleable(x)
    /\ \A x, y : L!Credit(x, y) = Credit(x, y)
    /\ \A x, y : L!Debit(x, y) = Debit(x, y)
    /\ \A x : L!MockNetworkFee(x) = MockNetworkFee(x)
BY DEF NoRows, L!NoRows, Insert, L!Insert, Credit, L!Credit, Debit,
           L!Debit, Moved, L!Moved, Net, L!Net, GripeFee, L!GripeFee,
           DivHalfEven, L!DivHalfEven, GripeFeeBasisPoints,
           L!GripeFeeBasisPoints, Settleable, L!Settleable, Refundable,
           L!Refundable, Refunded, L!Refunded, NewPayment, L!NewPayment,
           NewRefund, L!NewRefund, MockNetworkFee, L!MockNetworkFee,
           InitialStatus, L!InitialStatus, CardMethods, L!CardMethods,
           DeclineTail, L!DeclineTail, PaymentIds, L!PaymentIds, RefundIds,
           L!RefundIds, PaymentMethods, L!PaymentMethods, PaymentRows,
           L!PaymentRows, RefundRows, L!RefundRows, BalanceRows,
           L!BalanceRows, PaymentStatuses, L!PaymentStatuses, RefundStatuses,
           L!RefundStatuses

LEMMA ProofRowsAreOurs ==
    /\ LP!NoRows = NoRows
    /\ LP!PaymentIds = PaymentIds
    /\ LP!RefundIds = RefundIds
    /\ LP!PaymentMethods = PaymentMethods
    /\ LP!PaymentRows = PaymentRows
    /\ LP!RefundRows = RefundRows
    /\ LP!BalanceRows = BalanceRows
    /\ \A x, y, z : LP!Insert(x, y, z) = Insert(x, y, z)
    /\ \A x, y, z : LP!NewPayment(x, y, z) = NewPayment(x, y, z)
    /\ \A x, y : LP!NewRefund(x, y) = NewRefund(x, y)
    /\ \A x, y : LP!Refunded(x, y) = Refunded(x, y)
    /\ \A x, y : LP!Refundable(x, y) = Refundable(x, y)
    /\ \A x : LP!Settleable(x) = Settleable(x)
    /\ \A x, y : LP!Credit(x, y) = Credit(x, y)
    /\ \A x, y : LP!Debit(x, y) = Debit(x, y)
    /\ \A x : LP!MockNetworkFee(x) = MockNetworkFee(x)
BY DEF NoRows, LP!NoRows, Insert, LP!Insert, Credit, LP!Credit, Debit,
           LP!Debit, Moved, LP!Moved, Net, LP!Net, GripeFee, LP!GripeFee,
           DivHalfEven, LP!DivHalfEven, GripeFeeBasisPoints,
           LP!GripeFeeBasisPoints, Settleable, LP!Settleable, Refundable,
           LP!Refundable, Refunded, LP!Refunded, NewPayment, LP!NewPayment,
           NewRefund, LP!NewRefund, MockNetworkFee, LP!MockNetworkFee,
           InitialStatus, LP!InitialStatus, CardMethods, LP!CardMethods,
           DeclineTail, LP!DeclineTail, PaymentIds, LP!PaymentIds, RefundIds,
           LP!RefundIds, PaymentMethods, LP!PaymentMethods, PaymentRows,
           LP!PaymentRows, RefundRows, LP!RefundRows, BalanceRows,
           LP!BalanceRows, PaymentStatuses, LP!PaymentStatuses,
           RefundStatuses, LP!RefundStatuses

LEMMA SameLedger ==
    /\ LP!TypeOK <=> L!TypeOK
    /\ LP!Init <=> L!Init
    /\ [LP!Next]_(LP!vars) <=> [L!Next]_(L!vars)
<1> USE LedgerRowsAreOurs, ProofRowsAreOurs
<1>1. LP!TypeOK <=> L!TypeOK
  BY DEF L!TypeOK, LP!TypeOK
<1>2. LP!Init <=> L!Init
  BY DEF L!Init, LP!Init
<1>3. LP!Next <=> L!Next
  BY DEF L!Next, LP!Next, L!CreatePayment, LP!CreatePayment, L!CapturePayment,
         LP!CapturePayment, L!SettlePayment, LP!SettlePayment, L!RefundPayment,
         LP!RefundPayment, L!SettleRefund, LP!SettleRefund, L!SettleNetworkFee,
         LP!SettleNetworkFee
<1>4. LP!vars = L!vars
  BY DEF L!vars, LP!vars
<1>5. LP!vars' = L!vars'
  BY DEF L!vars, LP!vars
<1> QED BY <1>1, <1>2, <1>3, <1>4, <1>5

LEMMA AccountsFinite == LP!IsFiniteSet(Accounts)
BY AccountsAssumption DEF IsFiniteSet, LP!IsFiniteSet

(* A step of the ledger keeps its tables well formed (LedgerProofs).       *)
LEMMA LedgerTypeStep == L!TypeOK /\ [L!Next]_(L!vars) => L!TypeOK'
<1>1. LP!TypeOK /\ [LP!Next]_(LP!vars) => LP!TypeOK'
  BY AccountsFinite, BoundsAssumption, AmountsAssumption, LP!TypeStep
<1>2. LP!TypeOK' <=> L!TypeOK'
  BY LedgerRowsAreOurs, ProofRowsAreOurs DEF L!TypeOK, LP!TypeOK
<1> QED BY <1>1, <1>2, SameLedger

-----------------------------------------------------------------------------
(* Requests by operation.                                                  *)
LEMMA RequestFacts ==
    ASSUME NEW req \in Requests
    PROVE  /\ req.op \in RowOps \cup {"create", "subscribe", "settleRefund"}
           /\ req.op = "create" => /\ req.account \in Accounts /\ req.customer \in Customers
                                   /\ req.amount \in Amounts /\ req.method \in Methods
           /\ req.op = "subscribe" => req.account \in Accounts /\ req.customer \in Customers
           /\ req.op \in RowOps => req.payment \in PaymentIds \cup {NoSuchId}
           /\ req.op = "refund" => req.amount \in RefundAmounts
           /\ req.op = "settleRefund" => req.refund \in RefundIds \cup {NoSuchId}
BY DEF Requests, RowOps

(* What a session does to the session states.                              *)
LEMMA GoesOnFacts ==
    ASSUME SessionsTyped, NEW s \in Sessions, NEW pc \in Steps, NEW locks \in SUBSET Locks,
           GoesOn(s, pc, locks)
    PROVE  /\ SessionsTyped'
           /\ tx'[s].pc = pc /\ tx'[s].req = tx[s].req /\ tx'[s].held = tx[s].held \cup locks
           /\ \A t \in Sessions \ {s} : tx'[t] = tx[t]
           /\ answer' = NoAnswer
BY DEF SessionsTyped, GoesOn

LEMMA EndsFacts ==
    ASSUME SessionsTyped, NEW s \in Sessions, NEW is, Ends(s, is)
    PROVE  /\ SessionsTyped'
           /\ tx'[s] = Idle
           /\ \A t \in Sessions \ {s} : tx'[t] = tx[t]
           /\ answer' = [to |-> s, is |-> is]
BY DEF SessionsTyped, Ends, Idle, Steps

LEMMA BeginFacts ==
    ASSUME SessionsTyped, NEW s \in Sessions, NEW req \in Requests, Begin(s, req)
    PROVE  /\ SessionsTyped'
           /\ tx'[s].pc = "begin" /\ tx'[s].req = req /\ tx'[s].held = {}
           /\ \A t \in Sessions \ {s} : tx'[t] = tx[t]
           /\ answer' = NoAnswer
BY DEF SessionsTyped, Begin, Steps

LEMMA RestartFacts ==
    ASSUME Restart
    PROVE  /\ SessionsTyped'
           /\ \A t \in Sessions : tx'[t] = Idle
BY DEF SessionsTyped, Restart, Idle, Steps

(* A session that waits for nobody takes locks nobody has.                 *)
LEMMA FreeFacts ==
    ASSUME NEW s \in Sessions, NEW t \in Sessions, s # t, Free(s)
    PROVE  Wants(s) \cap tx[t].held = {}
BY DEF Free, WaitsFor

(* The locks a statement may want are row locks of the four tables.        *)
LEMMA WantsFacts ==
    ASSUME L!TypeOK, SessionsTyped, OpsInPlace, RowsStillMatch, NEW s \in Sessions
    PROVE  /\ Wants(s) \in SUBSET Locks
           /\ At(s, "first")  => Wants(s) \subseteq {<<"party", PartyOrder(tx[s].req)[1]>>}
           /\ At(s, "second") => Wants(s) \subseteq {<<"party", PartyOrder(tx[s].req)[2]>>}
           /\ At(s, "update") => Wants(s) = IF Matches(tx[s].req) THEN {Target(tx[s].req)} ELSE {}
           /\ At(s, "credit") => /\ Wants(s) = {<<"balance", AccountOf(tx[s].req)>>}
                                 /\ AccountOf(tx[s].req) \in Accounts
           /\ tx[s].pc \notin {"first", "second", "update", "credit"} => Wants(s) = {}
<1> DEFINE req == tx[s].req
<1>1. req \in Requests \cup {NoRequest} /\ (req \in Requests <=> req.op # "none")
  BY RequestFacts DEF SessionsTyped, NoRequest, RowOps
<1>2. CASE At(s, "first") \/ At(s, "second")
  <2>1. req \in Requests /\ req.op \in {"create", "subscribe"}
    BY <1>1, <1>2 DEF OpsInPlace, OpInPlace, At
  <2>2. /\ PartyOrder(req)[1] = MerchantOf[req.account]
        /\ PartyOrder(req)[2] = req.customer
    BY DEF PartyOrder
  <2>3. PartyOrder(req)[1] \in Parties /\ PartyOrder(req)[2] \in Parties
    BY <2>1, <2>2, RequestFacts DEF Parties
  <2> HIDE DEF req
  <2> QED BY <1>2, <2>3 DEF Wants, At, Locks, req
<1>3. CASE At(s, "update")
  <2>1. Matches(req) => Target(req) \in Locks
    BY DEF Matches, Target, Locks, L!TypeOK, L!PaymentIds, PaymentIds, L!RefundIds, RefundIds
  <2> QED BY <1>3, <2>1 DEF Wants, At
<1>4. CASE At(s, "credit")
  <2>1. Matches(req) /\ req.op \in {"settlePayment", "settleRefund"}
    BY <1>4 DEF RowsStillMatch, OpsInPlace, OpInPlace, At
  <2>2. AccountOf(req) \in Accounts
    BY <2>1, LedgerRowsAreOurs DEF Matches, AccountOf, L!TypeOK, PaymentRows, RefundRows
  <2> QED BY <1>4, <2>2 DEF Wants, At, Locks
<1>5. CASE tx[s].pc \notin {"first", "second", "update", "credit"}
  BY <1>5 DEF Wants, At
<1> QED BY <1>2, <1>3, <1>4, <1>5 DEF At

-----------------------------------------------------------------------------
(* Every step of the backend is a step of the ledger or leaves its tables  *)
(* alone: the refinement, step by step.                                    *)
LEMMA StepImplements ==
    ASSUME L!TypeOK, SessionsTyped, OpsInPlace, RowsStillMatch, [Next]_vars
    PROVE  [L!Next]_(L!vars)
<1> USE LedgerRowsAreOurs
<1> DEFINE Kept == UNCHANGED tables
<1>1. Kept => UNCHANGED L!vars
  BY DEF tables, L!vars
<1>2. DOMAIN payment \subseteq PaymentIds /\ DOMAIN refund \subseteq RefundIds
  BY DEF L!TypeOK
<1>3. ASSUME NEW s \in Sessions, NEW req \in Requests, Begin(s, req) PROVE Kept
  BY <1>3 DEF Begin
<1>4. ASSUME NEW s \in Sessions, Abort(s) PROVE Kept
  BY <1>4 DEF Abort
<1>5. ASSUME Restart PROVE Kept
  BY <1>5 DEF Restart
<1>6. ASSUME NEW s \in Sessions, InsertPayment(s) PROVE L!Next
  <2>1. /\ tx[s].req \in Requests /\ tx[s].req.op = "create"
    BY <1>6 DEF InsertPayment, SessionsTyped, NoRequest
  <2>2. /\ tx[s].req.account \in Accounts /\ tx[s].req.amount \in Amounts
        /\ tx[s].req.method \in PaymentMethods
    BY <2>1, RequestFacts, MethodsAssumption
  <2>3. PICK p \in PaymentIds \ DOMAIN payment :
           payment' = Insert(payment, p, NewPayment(tx[s].req.account, tx[s].req.amount,
                                                    tx[s].req.method))
    BY <1>6 DEF InsertPayment
  <2>4. L!CreatePayment(p, tx[s].req.account, tx[s].req.amount, tx[s].req.method)
    BY <1>6, <2>3 DEF InsertPayment, L!CreatePayment
  <2> QED BY <2>2, <2>4 DEF L!Next
<1>7. ASSUME NEW s \in Sessions, CapturePayment(s) PROVE L!Next
  <2> DEFINE p == tx[s].req.payment
  <2>1. p \in DOMAIN payment /\ payment[p].status = "authorized"
    BY <1>7 DEF CapturePayment, AutocommitUpdate, Matches
  <2>2. L!CapturePayment(p)
    BY <1>7, <2>1 DEF CapturePayment, AutocommitUpdate, L!CapturePayment
  <2> QED BY <1>2, <2>1, <2>2 DEF L!Next
<1>8. ASSUME NEW s \in Sessions, SettleNetworkFee(s) PROVE L!Next
  <2> DEFINE p == tx[s].req.payment
  <2>1. p \in DOMAIN payment /\ payment[p].networkFee = 0
    BY <1>8 DEF SettleNetworkFee, AutocommitUpdate, Matches
  <2>2. L!SettleNetworkFee(p)
    BY <1>8, <2>1 DEF SettleNetworkFee, AutocommitUpdate, L!SettleNetworkFee
  <2> QED BY <1>2, <2>1, <2>2 DEF L!Next
<1>9. ASSUME NEW s \in Sessions, Commit(s) PROVE L!Next
  <2> DEFINE req == tx[s].req
  <2>1. Matches(req) /\ req \in Requests
    BY <1>9 DEF Commit, At, RowsStillMatch, OpsInPlace, OpInPlace, SessionsTyped, NoRequest
  <2>2. CASE req.op = "settlePayment" /\ WritesSettlement(req.payment)
    <3>1. req.payment \in DOMAIN payment /\ Settleable(payment[req.payment])
      BY <2>1, <2>2 DEF Matches
    <3>2. L!SettlePayment(req.payment)
      BY <2>2, <3>1 DEF WritesSettlement, L!SettlePayment
    <3> QED BY <1>2, <3>1, <3>2 DEF L!Next
  <2>3. CASE req.op = "refund" /\ WritesRefund(req.payment, req.amount)
    <3>1. /\ req.payment \in DOMAIN payment /\ Refundable(payment[req.payment], req.amount)
          /\ req.amount \in RefundAmounts
      BY <2>1, <2>3, RequestFacts DEF Matches
    <3>2. PICK r \in RefundIds \ DOMAIN refund :
             refund' = Insert(refund, r, NewRefund(req.payment, req.amount))
      BY <2>3 DEF WritesRefund
    <3>3. L!RefundPayment(req.payment, r, req.amount)
      BY <2>3, <3>1, <3>2 DEF WritesRefund, L!RefundPayment
    <3> QED BY <1>2, <3>1, <3>3 DEF L!Next
  <2>4. CASE req.op = "settleRefund" /\ WritesRefundSettlement(req.refund)
    <3>1. req.refund \in DOMAIN refund /\ refund[req.refund].status = "created"
      BY <2>1, <2>4 DEF Matches
    <3>2. L!SettleRefund(req.refund)
      BY <2>4, <3>1 DEF WritesRefundSettlement, L!SettleRefund
    <3> QED BY <1>2, <3>1, <3>2 DEF L!Next
  <2> QED BY <1>9, <2>2, <2>3, <2>4 DEF Commit
<1>10. ASSUME NEW s \in Sessions,
              \/ Acquire(s) \/ UpsertFirst(s) \/ UpsertSecond(s) \/ InsertSubscription(s)
              \/ TxUpdate(s) \/ UpdateMisses(s) \/ CreditBalance(s) \/ ReadBack(s) \/ Probe(s)
       PROVE  Kept
  BY <1>10 DEF Acquire, UpsertFirst, UpsertSecond, InsertSubscription, TxUpdate, UpdateMisses,
               CreditBalance, ReadBack, Probe
<1>11. CASE UNCHANGED vars
  BY <1>11, <1>1 DEF vars
<1> HIDE DEF Kept
<1> QED BY <1>1, <1>3, <1>4, <1>5, <1>6, <1>7, <1>8, <1>9, <1>10, <1>11 DEF Next, Step

(* What a step of the ledger keeps of the rows that exist.                 *)
RowsKept ==
    /\ \A p \in DOMAIN payment :
          /\ p \in DOMAIN payment'
          /\ payment[p].status # "authorized" => payment'[p].status # "authorized"
          /\ payment[p].networkFee # 0 => payment'[p].networkFee # 0
    /\ \A r \in DOMAIN refund : r \in DOMAIN refund'

LEMMA LedgerKeepsRows == L!TypeOK /\ [L!Next]_(L!vars) => RowsKept
<1> USE LedgerRowsAreOurs
<1> SUFFICES ASSUME L!TypeOK, [L!Next]_(L!vars) PROVE RowsKept
  OBVIOUS
<1>1. ASSUME NEW p \in PaymentIds, NEW acct, NEW amt, NEW method,
             L!CreatePayment(p, acct, amt, method)
      PROVE  RowsKept
  BY <1>1 DEF L!CreatePayment, Insert, RowsKept
<1>2. ASSUME NEW p \in PaymentIds,
             L!CapturePayment(p) \/ L!SettlePayment(p) \/ L!SettleNetworkFee(p)
      PROVE  RowsKept
  BY <1>2 DEF L!TypeOK, PaymentRows, L!CapturePayment, L!SettlePayment, L!SettleNetworkFee, RowsKept
<1>3. ASSUME NEW p \in PaymentIds, NEW r \in RefundIds, NEW amt, L!RefundPayment(p, r, amt)
      PROVE  RowsKept
  <2>1. /\ Refunded(payment[p], amt).status \in {"refunded", payment[p].status}
        /\ Refunded(payment[p], amt).networkFee = payment[p].networkFee
    BY <1>3 DEF L!RefundPayment, L!TypeOK, PaymentRows, Refunded
  <2> QED BY <1>3, <2>1 DEF L!RefundPayment, Insert, RowsKept
<1>4. ASSUME NEW r \in RefundIds, L!SettleRefund(r) PROVE RowsKept
  BY <1>4 DEF L!SettleRefund, RowsKept
<1>5. CASE UNCHANGED L!vars
  BY <1>5 DEF L!vars, RowsKept
<1> QED BY <1>1, <1>2, <1>3, <1>4, <1>5 DEF L!Next

-----------------------------------------------------------------------------
(* A transaction's row is nobody else's to write: what a request matched   *)
(* it still matches, if the step leaves the row as it is.                  *)
RowKept(req) ==
    IF req.op = "settleRefund"
    THEN req.refund \in DOMAIN refund' /\ refund'[req.refund] = refund[req.refund]
    ELSE req.payment \in DOMAIN payment' /\ payment'[req.payment] = payment[req.payment]

LEMMA KeptRowMatches ==
    ASSUME NEW req, Matches(req), RowKept(req)
    PROVE  Matches(req)'
BY DEF Matches, RowKept

LEMMA OthersRowsKept ==
    ASSUME SessionsTyped, OpsInPlace, LocksHeld, LocksApart, RowsStillMatch,
           NEW s \in Sessions, NEW t \in Sessions, s # t,
           Step(s), tx[t].pc \in {"credit", "commit"}
    PROVE  RowKept(tx[t].req)
<1> DEFINE mine   == tx[s].req
           theirs == tx[t].req
<1>1. Matches(theirs) /\ Target(theirs) \in tx[t].held
  BY DEF RowsStillMatch, LocksHeld, HoldsItsRow
<1>2. CASE UNCHANGED <<payment, refund>>
  BY <1>1, <1>2 DEF RowKept, Matches
<1>3. CASE InsertPayment(s)
  <2>1. \A p \in DOMAIN payment : p \in DOMAIN payment' /\ payment'[p] = payment[p]
    BY <1>3 DEF InsertPayment, Insert
  <2>2. refund' = refund
    BY <1>3 DEF InsertPayment
  <2> QED BY <1>1, <2>1, <2>2 DEF RowKept, Matches
<1>4. CASE CapturePayment(s) \/ SettleNetworkFee(s)
  <2>1. Free(s) /\ Matches(mine) /\ At(s, "update") /\ mine.op \in {"capture", "networkFee"}
    BY <1>4 DEF CapturePayment, SettleNetworkFee, AutocommitUpdate
  <2>2. Target(mine) \notin tx[t].held
    BY <2>1, FreeFacts DEF Wants, At
  <2>3. Target(mine) # Target(theirs)
    BY <1>1, <2>2
  <2>4. theirs.op # "settleRefund" => theirs.payment # mine.payment
    BY <2>1, <2>3 DEF Target
  <2>5. /\ refund' = refund
        /\ DOMAIN payment' = DOMAIN payment
        /\ \A p \in DOMAIN payment : p # mine.payment => payment'[p] = payment[p]
    BY <1>4 DEF CapturePayment, SettleNetworkFee, AutocommitUpdate
  <2> HIDE DEF mine, theirs
  <2> QED BY <1>1, <2>4, <2>5 DEF RowKept, Matches, theirs
<1>5. CASE Commit(s)
  <2>1. At(s, "commit") /\ Matches(mine) /\ Target(mine) \in tx[s].held
    BY <1>5 DEF Commit, At, RowsStillMatch, LocksHeld, HoldsItsRow
  <2>2. Target(mine) # Target(theirs)
    BY <1>1, <2>1 DEF LocksApart
  <2>3. CASE mine.op = "settlePayment" /\ WritesSettlement(mine.payment)
    <3>1. theirs.op # "settleRefund" => theirs.payment # mine.payment
      BY <2>2, <2>3 DEF Target
    <3>2. /\ refund' = refund /\ DOMAIN payment' = DOMAIN payment
          /\ \A p \in DOMAIN payment : p # mine.payment => payment'[p] = payment[p]
      BY <2>3 DEF WritesSettlement
    <3> HIDE DEF mine, theirs
    <3> QED BY <1>1, <3>1, <3>2 DEF RowKept, Matches, theirs
  <2>4. CASE mine.op = "refund" /\ WritesRefund(mine.payment, mine.amount)
    <3>1. theirs.op # "settleRefund" => theirs.payment # mine.payment
      BY <2>2, <2>4 DEF Target
    <3>2. /\ \A r \in DOMAIN refund : r \in DOMAIN refund' /\ refund'[r] = refund[r]
          /\ DOMAIN payment' = DOMAIN payment
          /\ \A p \in DOMAIN payment : p # mine.payment => payment'[p] = payment[p]
      BY <2>4 DEF WritesRefund, Insert
    <3> HIDE DEF mine, theirs
    <3> QED BY <1>1, <3>1, <3>2 DEF RowKept, Matches, theirs
  <2>5. CASE mine.op = "settleRefund" /\ WritesRefundSettlement(mine.refund)
    <3>1. theirs.op = "settleRefund" => theirs.refund # mine.refund
      BY <2>2, <2>5 DEF Target
    <3>2. /\ payment' = payment /\ DOMAIN refund' = DOMAIN refund
          /\ \A r \in DOMAIN refund : r # mine.refund => refund'[r] = refund[r]
      BY <2>5 DEF WritesRefundSettlement
    <3> HIDE DEF mine, theirs
    <3> QED BY <1>1, <3>1, <3>2 DEF RowKept, Matches, theirs
  <2> QED BY <1>5, <2>3, <2>4, <2>5 DEF Commit
<1> HIDE DEF mine, theirs
<1> QED BY <1>2, <1>3, <1>4, <1>5
    DEF Step, Acquire, UpsertFirst, UpsertSecond, InsertSubscription, TxUpdate, UpdateMisses,
        CreditBalance, ReadBack, Probe, tables

-----------------------------------------------------------------------------
(* Steps and locks: each action moves one session along and takes locks    *)
(* that are free, or ends it and lets go of them.                          *)
LocksInv == SessionsTyped /\ OpsInPlace /\ LocksHeld /\ LocksApart

(* One session moved on, the others where they were.                       *)
LEMMA LocksKept ==
    ASSUME LocksInv, SessionsTyped', NEW s \in Sessions,
           \A t \in Sessions \ {s} : tx'[t] = tx[t],
           \A t \in Sessions \ {s} : tx'[s].held \cap tx[t].held = {},
           OpInPlace(s)', HoldsItsRow(s)'
    PROVE  LocksInv'
<1>1. ASSUME NEW t \in Sessions \ {s} PROVE OpInPlace(t)' /\ HoldsItsRow(t)'
  <2>1. tx'[t] = tx[t] /\ OpInPlace(t) /\ HoldsItsRow(t)
    BY DEF LocksInv, OpsInPlace, LocksHeld
  <2>2. OpInPlace(t)'
    BY <2>1 DEF OpInPlace, At
  <2>3. HoldsItsRow(t)'
    BY <2>1 DEF HoldsItsRow, MayHold, At, PartyOrder, Target
  <2> QED BY <2>2, <2>3
<1>2. OpsInPlace' /\ LocksHeld'
  BY <1>1 DEF OpsInPlace, LocksHeld
<1>3. LocksApart'
  BY DEF LocksInv, LocksApart
<1> QED BY <1>2, <1>3 DEF LocksInv

LEMMA LocksStep ==
    ASSUME L!TypeOK, RowsStillMatch, LocksInv, [Next]_vars
    PROVE  LocksInv'
<1> USE DEF LocksInv
<1> DEFINE Advanced(s, pc, locks) ==
              /\ SessionsTyped'
              /\ tx'[s].pc = pc /\ tx'[s].req = tx[s].req
              /\ tx'[s].held = tx[s].held \cup locks
              /\ \A t \in Sessions \ {s} : tx'[t] = tx[t]
              /\ \A t \in Sessions \ {s} : locks \cap tx[t].held = {}
<1>1. ASSUME NEW s \in Sessions, NEW is, Ends(s, is) PROVE LocksInv'
  <2>1. OpInPlace(s)' /\ HoldsItsRow(s)'
    BY <1>1, EndsFacts DEF OpInPlace, HoldsItsRow, MayHold, At, Idle, NoRequest
  <2> QED BY <1>1, <2>1, EndsFacts, LocksKept DEF Idle
<1>2. ASSUME NEW s \in Sessions, NEW req \in Requests, Begin(s, req) PROVE LocksInv'
  <2>1. /\ SessionsTyped' /\ \A t \in Sessions \ {s} : tx'[t] = tx[t]
        /\ tx'[s].pc = "begin" /\ tx'[s].req = req /\ tx'[s].held = {}
    BY <1>2, BeginFacts
  <2>2. req.op # "none"
    BY RequestFacts DEF RowOps
  <2>3. OpInPlace(s)' /\ HoldsItsRow(s)'
    BY <2>1, <2>2 DEF OpInPlace, HoldsItsRow, MayHold, At
  <2> QED BY <2>1, <2>3, LocksKept
<1>3. ASSUME Restart PROVE LocksInv'
  <2>1. \A s \in Sessions : OpInPlace(s)' /\ HoldsItsRow(s)'
    BY <1>3, RestartFacts DEF OpInPlace, HoldsItsRow, MayHold, At, Idle, NoRequest
  <2> QED BY <1>3, <2>1, RestartFacts DEF OpsInPlace, LocksHeld, LocksApart, Idle
<1>4. ASSUME NEW s \in Sessions, NEW pc \in Steps, NEW locks \in SUBSET Locks,
             Advanced(s, pc, locks), OpInPlace(s)', HoldsItsRow(s)'
      PROVE  LocksInv'
  BY <1>4, LocksKept DEF LocksApart
<1>5. ASSUME NEW s \in Sessions, NEW pc \in Steps, NEW locks \in SUBSET Locks,
             GoesOn(s, pc, locks), \A t \in Sessions \ {s} : locks \cap tx[t].held = {}
      PROVE  Advanced(s, pc, locks)
  BY <1>5, GoesOnFacts
<1> HIDE DEF Advanced
<1>6. ASSUME NEW s \in Sessions, Step(s) PROVE LocksInv'
  <2> DEFINE req == tx[s].req
  <2>1. OpInPlace(s) /\ HoldsItsRow(s)
    BY DEF OpsInPlace, LocksHeld
  <2>2. req \in Requests <=> ~ At(s, "idle")
    BY <2>1, RequestFacts DEF OpInPlace, SessionsTyped, NoRequest, RowOps
  <2>3. Free(s) => \A t \in Sessions \ {s} : Wants(s) \cap tx[t].held = {}
    BY FreeFacts
  <2> HIDE DEF req
  <2>4. CASE Acquire(s)
    <3> DEFINE pc == IF req.op \in {"create", "subscribe"} THEN "first" ELSE "update"
    <3>1. Advanced(s, pc, {})
      BY <2>4, <1>5 DEF Acquire, Steps, req
    <3>2. req.op \in RowOps \cup {"create", "subscribe", "settleRefund"}
      BY <2>4, <2>2, RequestFacts DEF Acquire, At
    <3>3. OpInPlace(s)' /\ HoldsItsRow(s)'
      BY <2>1, <2>4, <3>1, <3>2
         DEF Acquire, Advanced, OpInPlace, HoldsItsRow, MayHold, At, req, RowOps
    <3> QED BY <3>1, <3>3, <1>4 DEF Steps
  <2>5. CASE UpsertFirst(s)
    <3>1. Advanced(s, "second", Wants(s)) /\ Wants(s) \in SUBSET Locks
      BY <2>3, <2>5, <1>5, WantsFacts DEF UpsertFirst, Steps
    <3>2. OpInPlace(s)' /\ HoldsItsRow(s)'
      BY <2>1, <2>5, <3>1, WantsFacts
         DEF UpsertFirst, Advanced, OpInPlace, HoldsItsRow, MayHold, At, PartyOrder
    <3> QED BY <3>1, <3>2, <1>4 DEF Steps
  <2>6. CASE UpsertSecond(s)
    <3>1. Advanced(s, "insert", Wants(s)) /\ Wants(s) \in SUBSET Locks
      BY <2>3, <2>6, <1>5, WantsFacts DEF UpsertSecond, Steps
    <3>2. OpInPlace(s)' /\ HoldsItsRow(s)'
      BY <2>1, <2>6, <3>1, WantsFacts
         DEF UpsertSecond, Advanced, OpInPlace, HoldsItsRow, MayHold, At, PartyOrder
    <3> QED BY <3>1, <3>2, <1>4 DEF Steps
  <2>7. CASE InsertPayment(s) \/ InsertSubscription(s)
    BY <2>7, <1>1 DEF InsertPayment, InsertSubscription, CommitParties
  <2>8. CASE CapturePayment(s) \/ SettleNetworkFee(s)
    <3>1. Advanced(s, "readback", {})
      BY <2>8, <1>5 DEF CapturePayment, SettleNetworkFee, AutocommitUpdate, Steps
    <3>2. OpInPlace(s)' /\ HoldsItsRow(s)'
      BY <2>1, <2>8, <3>1 DEF CapturePayment, SettleNetworkFee, AutocommitUpdate,
                              Advanced, OpInPlace, HoldsItsRow, MayHold, At
    <3> QED BY <3>1, <3>2, <1>4 DEF Steps
  <2>9. CASE TxUpdate(s)
    <3> DEFINE pc == IF req.op = "refund" THEN "commit" ELSE "credit"
    <3>1. Wants(s) = {Target(req)} /\ Wants(s) \in SUBSET Locks
      BY <2>9, WantsFacts DEF TxUpdate, req
    <3>2. Advanced(s, pc, {Target(req)})
      BY <2>3, <2>9, <3>1, <1>5 DEF TxUpdate, Steps, req
    <3>3. OpInPlace(s)' /\ HoldsItsRow(s)'
      BY <2>1, <2>9, <3>2
         DEF TxUpdate, Advanced, OpInPlace, HoldsItsRow, MayHold, At, Target, req
    <3> QED BY <3>1, <3>2, <3>3, <1>4 DEF Steps
  <2>10. CASE UpdateMisses(s)
    <3> DEFINE pc == IF req.op = "networkFee" THEN "readback" ELSE "probe"
    <3>1. Advanced(s, pc, {})
      BY <2>10, <1>5 DEF UpdateMisses, Steps, req
    <3>2. OpInPlace(s)' /\ HoldsItsRow(s)'
      BY <2>1, <2>10, <3>1 DEF UpdateMisses, Advanced, OpInPlace, HoldsItsRow, MayHold, At, req
    <3> QED BY <3>1, <3>2, <1>4 DEF Steps
  <2>11. CASE CreditBalance(s)
    <3>1. Advanced(s, "commit", Wants(s)) /\ Wants(s) \in SUBSET Locks
      BY <2>3, <2>11, <1>5, WantsFacts DEF CreditBalance, Steps
    <3>2. Wants(s) \subseteq {"balance"} \X Accounts
      BY <2>11, WantsFacts DEF CreditBalance
    <3>3. OpInPlace(s)' /\ HoldsItsRow(s)'
      BY <2>1, <2>11, <3>1, <3>2
         DEF CreditBalance, Advanced, OpInPlace, HoldsItsRow, MayHold, At, Target
    <3> QED BY <3>1, <3>3, <1>4 DEF Steps
  <2>12. CASE Commit(s) \/ ReadBack(s) \/ Probe(s)
    BY <2>12, <1>1 DEF Commit, ReadBack, Probe
  <2> QED BY <1>6, <2>4, <2>5, <2>6, <2>7, <2>8, <2>9, <2>10, <2>11, <2>12 DEF Step
<1>7. ASSUME NEW s \in Sessions, Abort(s) PROVE LocksInv'
  BY <1>7, <1>1 DEF Abort
<1>8. CASE UNCHANGED vars
  BY <1>8 DEF vars, SessionsTyped, OpsInPlace, OpInPlace, LocksHeld, HoldsItsRow, MayHold,
              LocksApart, At, PartyOrder, Target
<1> QED BY <1>2, <1>3, <1>6, <1>7, <1>8 DEF Next

-----------------------------------------------------------------------------
(* What a step may do to session t: nothing, with the tables as they were  *)
(* or written by another; end it; begin a request; or carry its own on.    *)
LEMMA SessionMoves ==
    ASSUME SessionsTyped, [Next]_vars, NEW t \in Sessions
    PROVE  \/ tx'[t] = tx[t] /\ UNCHANGED tables
           \/ tx'[t] = tx[t] /\ \E s \in Sessions \ {t} : Step(s)
           \/ tx'[t] = Idle
           \/ \E req \in Requests : Begin(t, req)
           \/ Step(t) /\ tx'[t].req = tx[t].req
<1>1. ASSUME NEW s \in Sessions, NEW req \in Requests, Begin(s, req)
      PROVE  UNCHANGED tables /\ \A u \in Sessions \ {s} : tx'[u] = tx[u]
  BY <1>1 DEF Begin, SessionsTyped
<1>2. ASSUME NEW s \in Sessions, Abort(s)
      PROVE  UNCHANGED tables /\ tx'[s] = Idle /\ \A u \in Sessions \ {s} : tx'[u] = tx[u]
  BY <1>2, EndsFacts DEF Abort
<1>3. ASSUME Restart PROVE tx'[t] = Idle
  BY <1>3, RestartFacts
<1>4. ASSUME NEW s \in Sessions, Step(s)
      PROVE  /\ tx'[s] = Idle \/ tx'[s].req = tx[s].req
             /\ \A u \in Sessions \ {s} : tx'[u] = tx[u]
  <2>1. ASSUME NEW is, Ends(s, is)
        PROVE  tx'[s] = Idle /\ \A u \in Sessions \ {s} : tx'[u] = tx[u]
    BY <2>1, EndsFacts
  <2>2. ASSUME NEW pc, NEW locks, GoesOn(s, pc, locks)
        PROVE  tx'[s].req = tx[s].req /\ \A u \in Sessions \ {s} : tx'[u] = tx[u]
    BY <2>2 DEF GoesOn, SessionsTyped
  <2>3. CASE InsertPayment(s) \/ InsertSubscription(s) \/ Commit(s) \/ ReadBack(s) \/ Probe(s)
    BY <2>1, <2>3 DEF InsertPayment, InsertSubscription, CommitParties, Commit, ReadBack, Probe
  <2>4. CASE \/ Acquire(s) \/ UpsertFirst(s) \/ UpsertSecond(s) \/ CapturePayment(s)
             \/ SettleNetworkFee(s) \/ TxUpdate(s) \/ UpdateMisses(s) \/ CreditBalance(s)
    BY <2>2, <2>4 DEF Acquire, UpsertFirst, UpsertSecond, CapturePayment, SettleNetworkFee,
                      AutocommitUpdate, TxUpdate, UpdateMisses, CreditBalance
  <2> QED BY <1>4, <2>3, <2>4 DEF Step
<1>5. CASE UNCHANGED vars
  BY <1>5 DEF vars
<1> QED BY <1>1, <1>2, <1>3, <1>4, <1>5 DEF Next

(* Rows: what a transaction matched it still matches, and what an          *)
(* autocommitted UPDATE left behind stays behind.                          *)
LEMMA RowsStep ==
    ASSUME L!TypeOK, L!TypeOK', RowsKept, LocksInv, RowsStillMatch, NamesKnown, ReadsBackDone,
           [Next]_vars
    PROVE  RowsStillMatch' /\ NamesKnown' /\ ReadsBackDone'
<1> USE DEF LocksInv
<1>1. ASSUME NEW t \in Sessions, tx'[t].pc \in {"credit", "commit"}
      PROVE  Matches(tx[t].req)'
  <2>1. CASE tx'[t] = tx[t] /\ UNCHANGED tables
    BY <1>1, <2>1 DEF RowsStillMatch, Matches, tables
  <2>2. CASE tx'[t] = tx[t] /\ \E s \in Sessions \ {t} : Step(s)
    <3>1. PICK s \in Sessions : s # t /\ Step(s)
      BY <2>2
    <3>2. Matches(tx[t].req) /\ RowKept(tx[t].req)
      BY <1>1, <2>2, <3>1, OthersRowsKept DEF RowsStillMatch
    <3>3. tx'[t].req = tx[t].req
      BY <2>2
    <3> QED BY <3>2, <3>3 DEF Matches, RowKept
  <2>3. CASE tx'[t] = Idle \/ \E req \in Requests : Begin(t, req)
    BY <1>1, <2>3, BeginFacts DEF Idle
  <2>4. CASE Step(t) /\ tx'[t].req = tx[t].req
    <3>1. \/ TxUpdate(t) /\ UNCHANGED tables
          \/ CreditBalance(t) /\ UNCHANGED tables
      <4>1. ASSUME NEW is, Ends(t, is) PROVE FALSE
        BY <1>1, <4>1, EndsFacts DEF Idle
      <4>2. ASSUME NEW pc \in Steps \ {"credit", "commit"}, NEW locks, GoesOn(t, pc, locks)
            PROVE  FALSE
        BY <1>1, <4>2 DEF GoesOn, SessionsTyped
      <4> QED BY <2>4, <4>1, <4>2
          DEF Step, Acquire, UpsertFirst, UpsertSecond, InsertPayment, InsertSubscription,
              CommitParties, CapturePayment, SettleNetworkFee, AutocommitUpdate, TxUpdate,
              UpdateMisses, CreditBalance, Commit, ReadBack, Probe, Steps
    <3>2. Matches(tx[t].req)
      BY <3>1 DEF TxUpdate, CreditBalance, At, RowsStillMatch
    <3> QED BY <2>4, <3>1, <3>2 DEF Matches, tables
  <2> QED BY <2>1, <2>2, <2>3, <2>4, SessionMoves
<1>2. RowsStillMatch'
  BY <1>1 DEF RowsStillMatch
<1>3. NamesKnown'
  <2> SUFFICES ASSUME NEW t \in Sessions, tx'[t].req.op \in RowOps
               PROVE  tx'[t].req.payment \in DOMAIN payment' \cup {NoSuchId}
    BY DEF NamesKnown
  <2>1. tx'[t].req = tx[t].req => tx'[t].req.payment \in DOMAIN payment' \cup {NoSuchId}
    BY DEF NamesKnown, RowsKept
  <2>2. tx'[t] # Idle
    BY DEF Idle, NoRequest, RowOps
  <2>3. ASSUME NEW req \in Requests, Begin(t, req)
        PROVE  tx'[t].req.payment \in DOMAIN payment' \cup {NoSuchId}
    BY <2>3, BeginFacts DEF Begin, RowOps, tables
  <2> QED BY <2>1, <2>2, <2>3, SessionMoves
<1>4. ReadsBackDone'
  <2> SUFFICES ASSUME NEW t \in Sessions, tx'[t].pc = "readback"
               PROVE  LET p == tx'[t].req.payment
                      IN  /\ tx'[t].req.op = "capture" =>
                               p \in DOMAIN payment' /\ payment'[p].status # "authorized"
                          /\ tx'[t].req.op = "networkFee" /\ p \in DOMAIN payment' =>
                               payment'[p].networkFee # 0
    BY DEF ReadsBackDone, At
  <2> DEFINE p == tx[t].req.payment
  <2>1. tx[t].req.op \in RowOps => p \in DOMAIN payment \cup {NoSuchId}
    BY DEF NamesKnown
  <2>2. NoSuchId \notin DOMAIN payment'
    BY LedgerRowsAreOurs DEF L!TypeOK, PaymentIds, NoSuchId
  <2>3. CASE tx'[t] = tx[t]
    BY <2>1, <2>2, <2>3 DEF ReadsBackDone, RowsKept, At, RowOps
  <2>4. tx'[t] # Idle /\ ~ \E req \in Requests : Begin(t, req)
    BY BeginFacts DEF Idle
  <2>5. CASE Step(t) /\ tx'[t].req = tx[t].req
    <3>1. CapturePayment(t) \/ SettleNetworkFee(t) \/ UpdateMisses(t)
      <4>1. ASSUME NEW is, Ends(t, is) PROVE FALSE
        BY <4>1, EndsFacts DEF Idle
      <4>2. ASSUME NEW pc \in Steps \ {"readback"}, NEW locks, GoesOn(t, pc, locks)
            PROVE  FALSE
        BY <4>2 DEF GoesOn, SessionsTyped
      <4> QED BY <2>5, <4>1, <4>2
          DEF Step, Acquire, UpsertFirst, UpsertSecond, InsertPayment, InsertSubscription,
              CommitParties, TxUpdate, CreditBalance, Commit, ReadBack, Probe, Steps
    <3>2. CASE CapturePayment(t)
      <4>1. p \in DOMAIN payment /\ tx[t].req.op = "capture"
        BY <3>2 DEF CapturePayment, AutocommitUpdate, Matches
      <4>2. payment' = [payment EXCEPT ![p].status = "captured"]
        BY <3>2 DEF CapturePayment
      <4>3. payment'[p].status = "captured"
        BY <4>1, <4>2, LedgerRowsAreOurs DEF L!TypeOK, PaymentRows
      <4> QED BY <2>5, <4>1, <4>2, <4>3
    <3>3. CASE SettleNetworkFee(t)
      <4>1. p \in DOMAIN payment /\ tx[t].req.op = "networkFee"
        BY <3>3 DEF SettleNetworkFee, AutocommitUpdate, Matches
      <4>2. payment' = [payment EXCEPT ![p].networkFee = MockNetworkFee(payment[p].amount)]
        BY <3>3 DEF SettleNetworkFee
      <4>3. payment[p].amount \in Nat /\ payment[p] \in PaymentRows
        BY <4>1, LedgerRowsAreOurs DEF L!TypeOK, PaymentRows
      <4>4. MockNetworkFee(payment[p].amount) # 0
        BY <4>3 DEF MockNetworkFee
      <4>5. payment'[p].networkFee # 0
        BY <4>1, <4>2, <4>3, <4>4 DEF PaymentRows
      <4> QED BY <2>5, <4>1, <4>5
    <3>4. CASE UpdateMisses(t)
      <4>1. ~ Matches(tx[t].req) /\ payment' = payment
        BY <3>4 DEF UpdateMisses, tables
      <4>2. tx[t].req.op = "networkFee"
        <5>1. tx[t].req.op # "networkFee" => GoesOn(t, "probe", {})
          BY <3>4 DEF UpdateMisses
        <5> QED BY <5>1 DEF GoesOn, SessionsTyped
      <4>3. p \in DOMAIN payment => payment[p].networkFee # 0
        BY <4>1, <4>2 DEF Matches
      <4> QED BY <2>5, <4>1, <4>2, <4>3
    <3> QED BY <3>1, <3>2, <3>3, <3>4
  <2> QED BY <2>3, <2>4, <2>5, SessionMoves
<1> QED BY <1>2, <1>3, <1>4

-----------------------------------------------------------------------------
(* Parties: a row the cache vouches for is committed, and an upserted one  *)
(* is committed or held until the commit that brings it in.                *)
LEMMA CommitPartiesFacts ==
    ASSUME PartiesOnboarded, OpsInPlace, SessionsTyped, NEW s \in Sessions, CommitParties(s)
    PROVE  /\ party \subseteq party' /\ party' \subseteq Parties /\ seen' \subseteq party'
           /\ \E is \in {"ok", "error"} : Ends(s, is)
<1> DEFINE req == tx[s].req
           both == {PartyOrder(req)[i] : i \in 1..2}
           inserted == {x \in both : <<"party", x>> \in tx[s].held}
<1>1. /\ both \subseteq party \cup inserted /\ party' = party \cup inserted
      /\ \/ Ends(s, "ok")    /\ seen' = seen \cup both
         \/ Ends(s, "error") /\ seen' = seen
  BY DEF CommitParties
<1>2. req \in Requests /\ req.op \in {"create", "subscribe"}
  BY DEF CommitParties, OpsInPlace, OpInPlace, SessionsTyped, NoRequest, At
<1>3. both \subseteq Parties
  <2>1. req.account \in Accounts /\ req.customer \in Customers
    BY <1>2, RequestFacts
  <2>2. PartyOrder(req)[1] = MerchantOf[req.account] /\ PartyOrder(req)[2] = req.customer
    BY DEF PartyOrder
  <2>3. \A i \in 1..2 : i = 1 \/ i = 2
    OBVIOUS
  <2> QED BY <2>1, <2>2, <2>3 DEF Parties
<1>4. inserted \subseteq both
  OBVIOUS
<1> HIDE DEF both, inserted
<1> QED BY <1>1, <1>3, <1>4 DEF PartiesOnboarded

LEMMA PartiesStep ==
    ASSUME L!TypeOK, LocksInv, RowsStillMatch, PartiesOnboarded, [Next]_vars
    PROVE  PartiesOnboarded'
<1> USE DEF LocksInv
<1>1. party \subseteq party' /\ party' \subseteq Parties /\ seen' \subseteq party'
  <2>1. ASSUME NEW s \in Sessions, Step(s)
        PROVE  party \subseteq party' /\ party' \subseteq Parties /\ seen' \subseteq party'
    <3>1. CASE InsertPayment(s) \/ InsertSubscription(s)
      BY <3>1, CommitPartiesFacts DEF InsertPayment, InsertSubscription
    <3>2. CASE party' = party /\ seen' = seen
      BY <3>2 DEF PartiesOnboarded
    <3> QED BY <2>1, <3>1, <3>2
        DEF Step, Acquire, UpsertFirst, UpsertSecond, CapturePayment, SettleNetworkFee,
            AutocommitUpdate, TxUpdate, UpdateMisses, CreditBalance, Commit, ReadBack, Probe
  <2>2. CASE party' = party /\ seen' \subseteq seen
    BY <2>2 DEF PartiesOnboarded
  <2> QED BY <2>1, <2>2 DEF Next, Begin, Abort, Restart, vars
<1>2. ASSUME NEW t \in Sessions, At(t, "second")' \/ At(t, "insert")'
      PROVE  /\ Onboarded(t, PartyOrder(tx[t].req)[1])'
             /\ At(t, "insert")' => Onboarded(t, PartyOrder(tx[t].req)[2])'
  <2> DEFINE x1 == PartyOrder(tx[t].req)[1]
             x2 == PartyOrder(tx[t].req)[2]
  <2>1. CASE tx'[t] = tx[t]
    <3>1. Onboarded(t, x1) /\ (At(t, "insert")' => Onboarded(t, x2))
      BY <1>2, <2>1 DEF PartiesOnboarded, At
    <3>2. tx'[t].held = tx[t].held /\ PartyOrder(tx[t].req)' = PartyOrder(tx[t].req)
      BY <2>1 DEF PartyOrder
    <3> HIDE DEF x1, x2
    <3> QED BY <1>1, <3>1, <3>2 DEF Onboarded, x1, x2
  <2>2. tx'[t] # Idle /\ ~ \E req \in Requests : Begin(t, req)
    BY <1>2, BeginFacts DEF Idle, At
  <2>3. CASE Step(t) /\ tx'[t].req = tx[t].req
    <3>1. UpsertFirst(t) \/ UpsertSecond(t)
      <4>1. ASSUME NEW is, Ends(t, is) PROVE FALSE
        BY <2>2, <4>1, EndsFacts
      <4>2. ASSUME NEW pc \in Steps \ {"second", "insert"}, NEW locks, GoesOn(t, pc, locks)
            PROVE  FALSE
        BY <1>2, <4>2 DEF GoesOn, SessionsTyped, At
      <4> QED BY <2>3, <4>1, <4>2
          DEF Step, Acquire, InsertPayment, InsertSubscription, CommitParties, CapturePayment,
              SettleNetworkFee, AutocommitUpdate, TxUpdate, UpdateMisses, CreditBalance, Commit,
              ReadBack, Probe, Steps
    <3>2. PartyOrder(tx[t].req)' = PartyOrder(tx[t].req)
      BY <2>3 DEF PartyOrder
    <3>3. CASE UpsertFirst(t)
      <4>1. /\ tx'[t].pc = "second" /\ tx'[t].held = tx[t].held \cup Wants(t)
        BY <3>3, WantsFacts, GoesOnFacts DEF UpsertFirst, Steps
      <4>2. x1 \in party \/ <<"party", x1>> \in Wants(t)
        BY <3>3 DEF UpsertFirst, Wants, At, PartiesOnboarded
      <4> HIDE DEF x1, x2
      <4> QED BY <1>1, <3>2, <4>1, <4>2 DEF Onboarded, At, x1
    <3>4. CASE UpsertSecond(t)
      <4>1. /\ tx'[t].pc = "insert" /\ tx'[t].held = tx[t].held \cup Wants(t)
        BY <3>4, WantsFacts, GoesOnFacts DEF UpsertSecond, Steps
      <4>2. x2 \in party \/ <<"party", x2>> \in Wants(t)
        BY <3>4 DEF UpsertSecond, Wants, At, PartiesOnboarded
      <4>3. Onboarded(t, x1)
        BY <3>4 DEF UpsertSecond, PartiesOnboarded
      <4> HIDE DEF x1, x2
      <4> QED BY <1>1, <3>2, <4>1, <4>2, <4>3 DEF Onboarded, At, x1, x2
    <3> QED BY <3>1, <3>3, <3>4
  <2> HIDE DEF x1, x2
  <2> QED BY <2>1, <2>2, <2>3, SessionMoves
<1> QED BY <1>1, <1>2 DEF PartiesOnboarded

-----------------------------------------------------------------------------
(* Subscriptions and answers.                                              *)
LEMMA RecordsStep ==
    ASSUME LocksInv, RecordsTyped, [Next]_vars
    PROVE  RecordsTyped'
<1> USE DEF LocksInv
<1>1. ASSUME NEW s \in Sessions, NEW is \in Answers, Ends(s, is)
      PROVE  answer' \in [to : Sessions, is : Answers] \cup {NoAnswer}
  BY <1>1, EndsFacts
<1>2. ASSUME NEW s, NEW pc, NEW locks, GoesOn(s, pc, locks)
      PROVE  answer' \in [to : Sessions, is : Answers] \cup {NoAnswer}
  BY <1>2 DEF GoesOn
<1>3. ASSUME NEW s \in Sessions, Step(s)
      PROVE  answer' \in [to : Sessions, is : Answers] \cup {NoAnswer}
  <2>1. CASE InsertPayment(s) \/ InsertSubscription(s) \/ Commit(s) \/ ReadBack(s) \/ Probe(s)
    BY <1>1, <2>1 DEF InsertPayment, InsertSubscription, CommitParties, Commit, ReadBack, Probe,
                      Diagnosis, Answers
  <2>2. CASE \/ Acquire(s) \/ UpsertFirst(s) \/ UpsertSecond(s) \/ CapturePayment(s)
             \/ SettleNetworkFee(s) \/ TxUpdate(s) \/ UpdateMisses(s) \/ CreditBalance(s)
    BY <1>2, <2>2 DEF Acquire, UpsertFirst, UpsertSecond, CapturePayment, SettleNetworkFee,
                      AutocommitUpdate, TxUpdate, UpdateMisses, CreditBalance
  <2> QED BY <1>3, <2>1, <2>2 DEF Step
<1>4. answer' \in [to : Sessions, is : Answers] \cup {NoAnswer}
  <2>1. ASSUME NEW s \in Sessions, Abort(s)
        PROVE  answer' \in [to : Sessions, is : Answers] \cup {NoAnswer}
    BY <1>1, <2>1 DEF Abort, Answers
  <2>2. ASSUME NEW s \in Sessions, NEW req \in Requests, Begin(s, req)
        PROVE  answer' \in [to : Sessions, is : Answers] \cup {NoAnswer}
    BY <2>2 DEF Begin
  <2>3. CASE Restart
    BY <2>3 DEF Restart
  <2>4. CASE UNCHANGED vars
    BY <2>4 DEF vars, RecordsTyped
  <2> QED BY <1>3, <2>1, <2>2, <2>3, <2>4 DEF Next
<1>5. subscription' \subseteq Accounts \X Customers
  <2>1. ASSUME NEW s \in Sessions, InsertSubscription(s)
        PROVE  subscription' \subseteq Accounts \X Customers
    <3>1. tx[s].req \in Requests /\ tx[s].req.op = "subscribe"
      BY <2>1 DEF InsertSubscription, SessionsTyped, NoRequest
    <3>2. <<tx[s].req.account, tx[s].req.customer>> \in Accounts \X Customers
      BY <3>1, RequestFacts
    <3> QED BY <2>1, <3>2 DEF InsertSubscription, RecordsTyped
  <2>2. CASE subscription' = subscription
    BY <2>2 DEF RecordsTyped
  <2> QED BY <2>1, <2>2
      DEF Next, Begin, Abort, Restart, Step, Acquire, UpsertFirst, UpsertSecond, InsertPayment,
          CapturePayment, SettleNetworkFee, AutocommitUpdate, TxUpdate, UpdateMisses,
          CreditBalance, Commit, ReadBack, Probe, vars
<1> QED BY <1>4, <1>5 DEF RecordsTyped

-----------------------------------------------------------------------------
(* Connections: only Acquire takes one, and only when one is free.         *)
Connected == {s \in Sessions : HasConnection(s)}

LEMMA ConnectedFinite ==
    /\ IsFiniteSet(Connected) /\ Cardinality(Connected) \in Nat
    /\ IsFiniteSet(Connected') /\ Cardinality(Connected') \in Nat
<1>1. Connected \subseteq Sessions /\ Connected' \subseteq Sessions
  BY DEF Connected
<1> HIDE DEF Connected
<1> QED BY <1>1, SessionsAssumption, FS_Subset, FS_CardinalityType

LEMMA OnlyAcquireConnects ==
    ASSUME LocksInv, [Next]_vars, NEW t \in Sessions, HasConnection(t)'
    PROVE  HasConnection(t) \/ Acquire(t)
<1> USE DEF LocksInv
<1>1. CASE tx'[t] = tx[t]
  BY <1>1 DEF HasConnection, At
<1>2. tx'[t] # Idle /\ ~ \E req \in Requests : Begin(t, req)
  BY BeginFacts DEF Idle, HasConnection, At
<1>3. CASE Step(t) /\ ~ Acquire(t)
  <2>1. ASSUME NEW is, Ends(t, is) PROVE FALSE
    BY <1>2, <2>1, EndsFacts
  <2>2. ASSUME NEW locks, GoesOn(t, "readback", locks) PROVE FALSE
    BY <2>2 DEF GoesOn, SessionsTyped, HasConnection, At
  <2>3. tx[t].pc \in {"first", "second", "insert", "update", "credit"}
    BY <1>3, <2>1, <2>2
       DEF Step, UpsertFirst, UpsertSecond, InsertPayment, InsertSubscription, CommitParties,
           CapturePayment, SettleNetworkFee, AutocommitUpdate, TxUpdate, UpdateMisses,
           CreditBalance, Commit, ReadBack, Probe, At
  <2> QED BY <2>3 DEF HasConnection
<1> QED BY <1>1, <1>2, <1>3, SessionMoves

LEMMA PoolStep ==
    ASSUME LocksInv, PoolRespected, [Next]_vars
    PROVE  PoolRespected'
<1>1. CASE \E s \in Sessions : Acquire(s)
  <2>1. PICK s \in Sessions : Acquire(s)
    BY <1>1
  <2>2. Connected' \subseteq Connected \cup {s}
    <3>1. \A t \in Sessions \ {s} : tx'[t] = tx[t]
      BY <2>1 DEF Acquire, GoesOn, LocksInv, SessionsTyped
    <3> QED BY <3>1 DEF Connected, HasConnection, At
  <2>3. Cardinality(Connected) < PoolSize
    BY <2>1 DEF Acquire, ConnectionFree, Connected
  <2> HIDE DEF Connected
  <2>4. /\ IsFiniteSet(Connected \cup {s})
        /\ Cardinality(Connected \cup {s}) <= Cardinality(Connected) + 1
    <3>1. IsFiniteSet(Connected) /\ Cardinality(Connected) \in Nat
      BY ConnectedFinite, FS_CardinalityType
    <3>2. /\ IsFiniteSet(Connected \cup {s})
          /\ Cardinality(Connected \cup {s})
               = IF s \in Connected THEN Cardinality(Connected) ELSE Cardinality(Connected) + 1
      BY <3>1, FS_AddElement
    <3> QED BY <3>1, <3>2
  <2>5. Cardinality(Connected') <= Cardinality(Connected \cup {s})
    BY <2>2, <2>4, FS_Subset
  <2>6. Cardinality(Connected \cup {s}) \in Nat
    BY <2>4, FS_CardinalityType
  <2>7. Cardinality(Connected') <= PoolSize
    BY <2>3, <2>4, <2>5, <2>6, ConnectedFinite, PoolAssumption
  <2> QED BY <2>7 DEF PoolRespected, Connected
<1>2. CASE ~ \E s \in Sessions : Acquire(s)
  <2>1. Connected' \subseteq Connected
    BY <1>2, OnlyAcquireConnects DEF Connected
  <2>2. Cardinality(Connected) <= PoolSize
    BY DEF PoolRespected, Connected
  <2> HIDE DEF Connected
  <2>3. Cardinality(Connected') <= Cardinality(Connected)
    BY <2>1, ConnectedFinite, FS_Subset
  <2>4. Cardinality(Connected') <= PoolSize
    BY <2>2, <2>3, ConnectedFinite, PoolAssumption
  <2> QED BY <2>4 DEF PoolRespected, Connected
<1> QED BY <1>1, <1>2

-----------------------------------------------------------------------------
LEMMA InitHolds == Init => IInv
<1> SUFFICES ASSUME Init PROVE IInv
  OBVIOUS
<1>1. L!TypeOK
  BY LedgerRowsAreOurs DEF Init, L!Init, L!TypeOK, NoRows, BalanceRows
<1>2. \A s \in Sessions : tx[s] = Idle
  BY DEF Init
<1>3. SessionsTyped
  BY DEF Init, SessionsTyped, Idle, Steps
<1>4. OpsInPlace /\ LocksHeld /\ LocksApart
  BY <1>2 DEF OpsInPlace, OpInPlace, LocksHeld, HoldsItsRow, MayHold, LocksApart, At, Idle,
              NoRequest
<1>5. RowsStillMatch /\ NamesKnown /\ ReadsBackDone
  BY <1>2 DEF RowsStillMatch, NamesKnown, ReadsBackDone, RowOps, At, Idle, NoRequest
<1>6. PartiesOnboarded /\ RecordsTyped
  BY <1>2 DEF Init, PartiesOnboarded, RecordsTyped, At, Idle
<1>7. PoolRespected
  <2>1. {s \in Sessions : HasConnection(s)} = {}
    BY <1>2 DEF HasConnection, At, Idle
  <2> QED BY <2>1, FS_EmptySet, PoolAssumption DEF PoolRespected
<1> QED BY <1>1, <1>3, <1>4, <1>5, <1>6, <1>7 DEF IInv

LEMMA IInvStep == IInv /\ [Next]_vars => IInv'
<1> SUFFICES ASSUME IInv, [Next]_vars PROVE IInv'
  OBVIOUS
<1>1. LocksInv
  BY DEF IInv, LocksInv
<1>2. [L!Next]_(L!vars)
  BY StepImplements DEF IInv
<1>3. L!TypeOK' /\ RowsKept
  BY <1>2, LedgerTypeStep, LedgerKeepsRows DEF IInv
<1>4. LocksInv'
  BY <1>1, LocksStep DEF IInv
<1>5. RowsStillMatch' /\ NamesKnown' /\ ReadsBackDone'
  BY <1>1, <1>3, RowsStep DEF IInv
<1>6. PartiesOnboarded'
  BY <1>1, PartiesStep DEF IInv
<1>7. RecordsTyped'
  BY <1>1, RecordsStep DEF IInv
<1>8. PoolRespected'
  BY <1>1, PoolStep DEF IInv
<1> QED BY <1>3, <1>4, <1>5, <1>6, <1>7, <1>8 DEF IInv, LocksInv

THEOREM InvariantHolds == Spec => []IInv
<1>1. Init => IInv
  BY InitHolds
<1>2. IInv /\ [Next]_vars => IInv'
  BY IInvStep
<1> QED BY <1>1, <1>2, PTL DEF Spec

-----------------------------------------------------------------------------
(* Rows, requests and locks are well formed, no row is locked twice or     *)
(* between requests, and no more connections are out than the pool has.    *)
THEOREM TypeCorrect == Spec => []TypeOK
<1>1. ASSUME IInv, NEW s \in Sessions, At(s, "idle") PROVE tx[s] = Idle
  <2>1. tx[s] \in [pc : Steps, req : Requests \cup {NoRequest}, held : SUBSET Locks]
    BY <1>1 DEF IInv, SessionsTyped
  <2>2. tx[s].req = NoRequest
    BY <1>1, <2>1, RequestFacts DEF IInv, OpsInPlace, OpInPlace, RowOps
  <2>3. tx[s].held = {}
    BY <1>1 DEF IInv, LocksHeld, HoldsItsRow, MayHold, At
  <2> QED BY <1>1, <2>1, <2>2, <2>3 DEF Idle, At
<1>2. IInv => TypeOK
  BY <1>1 DEF IInv, TypeOK, SessionsTyped, Steps, LocksApart, PartiesOnboarded, RecordsTyped,
              PoolRespected
<1> QED BY <1>2, InvariantHolds, PTL

(* upsertParties: the child row's INSERT finds both parents, committed or  *)
(* inserted by its own transaction.                                        *)
THEOREM ParentsPresent == Spec => []ForeignKeysHold
<1>1. IInv => ForeignKeysHold
  <2>1. \A i \in 1..2 : i = 1 \/ i = 2
    OBVIOUS
  <2> QED BY <2>1 DEF IInv, PartiesOnboarded, Onboarded, ForeignKeysHold
<1> QED BY <1>1, InvariantHolds, PTL

(* store.go's atomic operations: every transaction, with all its           *)
(* interleavings, is one step of the ledger at its commit or none at all.  *)
THEOREM BackendImplementsLedger == Spec => ImplementsLedger
<1>1. Init => L!Init
  BY DEF Init
<1>2. IInv /\ [Next]_vars => [L!Next]_(L!vars)
  BY StepImplements DEF IInv
<1> QED BY <1>1, <1>2, InvariantHolds, PTL DEF Spec, ImplementsLedger, L!Spec

(* What a session is told is "ok" is in the tables.                        *)
LEMMA OkStep ==
    ASSUME IInv, Next, NEW s \in Sessions, answer' = [to |-> s, is |-> "ok"]
    PROVE  \E req \in {tx[s].req} : Done(req)'
<1> DEFINE req == tx[s].req
<1> USE LedgerRowsAreOurs
<1>1. SessionsTyped /\ OpInPlace(s) /\ RowsStillMatch /\ ReadsBackDone /\ NamesKnown /\ L!TypeOK
  BY DEF IInv, OpsInPlace
<1>2. InsertPayment(s) \/ InsertSubscription(s) \/ Commit(s) \/ ReadBack(s)
  <2>1. ASSUME NEW u, NEW pc, NEW locks, GoesOn(u, pc, locks) PROVE FALSE
    BY <2>1 DEF GoesOn, NoAnswer
  <2>2. ASSUME NEW u, NEW is, Ends(u, is) PROVE u = s /\ is = "ok"
    BY <2>2 DEF Ends
  <2>3. ASSUME NEW u \in Sessions, NEW r \in Requests, Begin(u, r) PROVE FALSE
    BY <2>3 DEF Begin, NoAnswer
  <2>4. ASSUME NEW u \in Sessions, Abort(u) PROVE FALSE
    BY <2>2, <2>4 DEF Abort
  <2>5. ASSUME Restart PROVE FALSE
    BY <2>5 DEF Restart, NoAnswer
  <2>6. ASSUME NEW u \in Sessions, Probe(u) PROVE FALSE
    BY <2>2, <2>6 DEF Probe, Diagnosis
  <2>7. ASSUME NEW u \in Sessions,
               \/ Acquire(u) \/ UpsertFirst(u) \/ UpsertSecond(u) \/ CapturePayment(u)
               \/ SettleNetworkFee(u) \/ TxUpdate(u) \/ UpdateMisses(u) \/ CreditBalance(u)
        PROVE  FALSE
    BY <2>1, <2>7 DEF Acquire, UpsertFirst, UpsertSecond, CapturePayment, SettleNetworkFee,
                      AutocommitUpdate, TxUpdate, UpdateMisses, CreditBalance
  <2>8. ASSUME NEW u \in Sessions,
               InsertPayment(u) \/ InsertSubscription(u) \/ Commit(u) \/ ReadBack(u)
        PROVE  u = s
    BY <2>2, <2>8 DEF InsertPayment, InsertSubscription, CommitParties, Commit, ReadBack
  <2> QED BY <2>3, <2>4, <2>5, <2>6, <2>7, <2>8 DEF Next, Step
<1>3. CASE InsertPayment(s)
  <2>1. PICK p \in PaymentIds :
           payment' = Insert(payment, p, NewPayment(req.account, req.amount, req.method))
    BY <1>3 DEF InsertPayment
  <2>2. /\ p \in DOMAIN payment' /\ payment'[p].account = req.account
        /\ payment'[p].amount = req.amount
    BY <2>1 DEF Insert, NewPayment
  <2>3. req.op = "create"
    BY <1>3 DEF InsertPayment
  <2> QED BY <2>2, <2>3 DEF Done
<1>4. CASE InsertSubscription(s)
  BY <1>4 DEF InsertSubscription, Done
<1>5. CASE Commit(s)
  <2>1. Matches(req)
    BY <1>1, <1>5 DEF Commit, At, RowsStillMatch
  <2>2. CASE req.op = "settlePayment" /\ WritesSettlement(req.payment)
    BY <2>2 DEF WritesSettlement, Done
  <2>3. CASE req.op = "refund" /\ WritesRefund(req.payment, req.amount)
    <3>1. PICK r \in RefundIds : refund' = Insert(refund, r, NewRefund(req.payment, req.amount))
      BY <2>3 DEF WritesRefund
    <3>2. /\ r \in DOMAIN refund' /\ refund'[r].payment = req.payment
          /\ refund'[r].amount = req.amount
      BY <3>1 DEF Insert, NewRefund
    <3> QED BY <2>3, <3>2 DEF Done
  <2>4. CASE req.op = "settleRefund" /\ WritesRefundSettlement(req.refund)
    <3>1. req.refund \in DOMAIN refund /\ refund[req.refund] \in RefundRows
      BY <1>1, <2>1, <2>4 DEF Matches, L!TypeOK
    <3>2. refund'[req.refund].status = "settled"
      BY <2>4, <3>1 DEF WritesRefundSettlement, RefundRows
    <3> QED BY <2>4, <3>2 DEF Done
  <2> QED BY <1>5, <2>2, <2>3, <2>4 DEF Commit
<1>6. CASE ReadBack(s)
  <2>1. /\ req.payment \in DOMAIN payment /\ payment' = payment /\ At(s, "readback")
        /\ req.op \in {"capture", "networkFee"}
    BY <1>1, <1>6 DEF ReadBack, Ends, OpInPlace, tables
  <2>2. /\ req.op = "capture" => payment'[req.payment].status # "authorized"
        /\ req.op = "networkFee" => payment'[req.payment].networkFee # 0
    BY <1>1, <2>1 DEF ReadsBackDone
  <2> QED BY <2>1, <2>2 DEF Done
<1> QED BY <1>2, <1>3, <1>4, <1>5, <1>6

(* Nobody is told "ok" for what another request undid or never happened.   *)
THEOREM OkIsCommitted == Spec => OkMeansCommitted
<1> DEFINE Honest == \A s \in Sessions :
                        answer' = [to |-> s, is |-> "ok"] => \E req \in {tx[s].req} : Done(req)'
<1>1. IInv /\ [Next]_vars => [Honest]_vars
  BY OkStep
<1>2. (Spec => [][Honest]_vars) => (Spec => OkMeansCommitted)
  BY DEF OkMeansCommitted
<1> HIDE DEF Honest
<1> QED BY <1>1, <1>2, InvariantHolds, PTL DEF Spec

(* A waiting session's own locks are all of a lower kind than the one it   *)
(* waits for: merchant before customer, payment or refund before balance.  *)
LEMMA WaitersHold ==
    ASSUME IInv, NEW s \in Sessions, Wants(s) # {}
    PROVE  \/ tx[s].held = {}
           \/ /\ Wants(s) \subseteq {<<"party", c>> : c \in Customers}
              /\ tx[s].held \subseteq {<<"party", MerchantOf[a]>> : a \in Accounts}
           \/ /\ Wants(s) \subseteq {"balance"} \X Accounts
              /\ tx[s].held \subseteq {"payment", "refund"} \X (PaymentIds \cup RefundIds)
<1> DEFINE req == tx[s].req
<1>1. /\ SessionsTyped /\ OpsInPlace /\ OpInPlace(s) /\ HoldsItsRow(s) /\ L!TypeOK /\ RowsStillMatch
  BY DEF IInv, OpsInPlace, LocksHeld
<1>2. At(s, "first") \/ At(s, "second") \/ At(s, "update") \/ At(s, "credit")
  BY <1>1, WantsFacts DEF At
<1>3. CASE At(s, "first") \/ At(s, "update")
  BY <1>1, <1>3 DEF HoldsItsRow, MayHold, At
<1>4. CASE At(s, "second")
  <2>1. req \in Requests /\ req.op \in {"create", "subscribe"}
    BY <1>1, <1>4 DEF OpInPlace, SessionsTyped, NoRequest, At
  <2>2. req.account \in Accounts /\ req.customer \in Customers
    BY <2>1, RequestFacts
  <2>3. Wants(s) \subseteq {<<"party", req.customer>>}
    BY <1>1, <1>4, WantsFacts DEF PartyOrder
  <2>4. tx[s].held \subseteq {<<"party", MerchantOf[req.account]>>}
    BY <1>1, <1>4 DEF HoldsItsRow, MayHold, PartyOrder, At
  <2> QED BY <2>2, <2>3, <2>4
<1>5. CASE At(s, "credit")
  <2>1. Wants(s) \subseteq {"balance"} \X Accounts
    BY <1>1, <1>5, WantsFacts
  <2>2. Matches(req) /\ tx[s].held \subseteq {Target(req)}
    BY <1>1, <1>5 DEF RowsStillMatch, HoldsItsRow, MayHold, At
  <2>3. Target(req) \in {"payment", "refund"} \X (PaymentIds \cup RefundIds)
    BY <1>1, <2>2, LedgerRowsAreOurs DEF Matches, Target, L!TypeOK
  <2> QED BY <2>1, <2>2, <2>3
<1> QED BY <1>2, <1>3, <1>4, <1>5

(* So a session that holds a lock and waits for one never waits for one    *)
(* that waits itself.                                                      *)
LEMMA ChainsAreShort ==
    ASSUME IInv, NEW s \in Sessions, NEW t \in Sessions,
           tx[s].held # {}, WaitsFor(s, t), Wants(t) # {}
    PROVE  FALSE
<1>1. PICK lock : lock \in Wants(s) /\ lock \in tx[t].held
  BY DEF WaitsFor
<1>2. \/ /\ Wants(s) \subseteq {<<"party", c>> : c \in Customers}
         /\ tx[s].held \subseteq {<<"party", MerchantOf[a]>> : a \in Accounts}
      \/ /\ Wants(s) \subseteq {"balance"} \X Accounts
         /\ tx[s].held \subseteq {"payment", "refund"} \X (PaymentIds \cup RefundIds)
  BY <1>1, WaitersHold
<1>3. \/ tx[t].held \subseteq {<<"party", MerchantOf[a]>> : a \in Accounts}
      \/ tx[t].held \subseteq {"payment", "refund"} \X (PaymentIds \cup RefundIds)
  BY <1>1, WaitersHold
<1>4. \/ \E c \in Customers : lock = <<"party", c>>
      \/ \E a \in Accounts : lock = <<"balance", a>>
  BY <1>1, <1>2
<1>5. \/ \E a \in Accounts : lock = <<"party", MerchantOf[a]>>
      \/ lock[1] \in {"payment", "refund"}
  BY <1>1, <1>3
<1>6. lock[1] \in {"party", "balance"}
  BY <1>4
<1>7. (\E c \in Customers : lock = <<"party", c>>) => lock[1] = "party" /\ lock[2] \in Customers
  OBVIOUS
<1>8. PICK a \in Accounts : lock = <<"party", MerchantOf[a]>>
  BY <1>5, <1>6
<1>9. lock[1] = "party" /\ lock[2] = MerchantOf[a]
  BY <1>8
<1>10. lock[2] \in Customers
  BY <1>4, <1>7, <1>9
<1> QED BY <1>9, <1>10, PartiesAssumption

(* Sessions that wait only for each other hold no lock: a holder among     *)
(* them would wait for a holder that waits itself.  So all of them want a  *)
(* connection, and the pool's are with those of them that probe.           *)
THEOREM CirclesAreProbes == Spec => []OnlyProbesWaitInACircle
<1>1. ASSUME IInv PROVE OnlyProbesWaitInACircle
  <2> SUFFICES ASSUME NEW S \in SUBSET Sessions, S # {}, WaitingTogether(S)
               PROVE  /\ ~ ConnectionFree
                      /\ \A s \in Sessions : HasConnection(s) => At(s, "probe")
    BY DEF OnlyProbesWaitInACircle
  <2>1. ASSUME NEW s \in S, tx[s].held # {} PROVE \E t \in S : WaitsFor(s, t)
    <3>1. HoldsItsRow(s)
      BY <1>1 DEF IInv, LocksHeld
    <3>2. ~ NeedsConnection(s)
      BY <2>1, <3>1 DEF HoldsItsRow, MayHold, NeedsConnection, At
    <3> QED BY <3>2 DEF WaitingTogether
  <2>2. ASSUME NEW s \in S, NEW t \in S, WaitsFor(s, t) PROVE Wants(s) # {} /\ tx[t].held # {}
    BY <2>2 DEF WaitsFor
  <2>3. ASSUME NEW s \in S, tx[s].held # {} PROVE FALSE
    <3>1. PICK t \in S : WaitsFor(s, t)
      BY <2>1, <2>3
    <3>2. PICK u \in S : WaitsFor(t, u)
      BY <2>1, <2>2, <3>1
    <3> QED BY <1>1, <2>2, <2>3, <3>1, <3>2, ChainsAreShort
  <2>4. \A s \in S : /\ NeedsConnection(s) /\ ~ ConnectionFree
                     /\ {t \in Sessions : HasConnection(t)} \subseteq S
    BY <2>2, <2>3 DEF WaitingTogether
  <2>5. \A s \in Sessions : HasConnection(s) => NeedsConnection(s)
    BY <2>4
  <2>6. \A s \in Sessions : HasConnection(s) /\ NeedsConnection(s) => At(s, "probe")
    BY DEF HasConnection, NeedsConnection, At
  <2> QED BY <2>4, <2>5, <2>6
<1> QED BY <1>1, InvariantHolds, PTL

-----------------------------------------------------------------------------
(* The ledger of the refinement and that of LedgerProofs are one.          *)
LEMMA SameTotals == \A f, n : LP!Total(f, n) = L!Total(f, n)
BY DEF LP!Total, L!Total, LP!RunningTotal, L!RunningTotal

LEMMA SameFees ==
    /\ \A x : LP!Net(x) = L!Net(x)
    /\ \A x : LP!GripeFee(x) = L!GripeFee(x)
BY DEF LP!Net, L!Net, LP!GripeFee, L!GripeFee, LP!DivHalfEven, L!DivHalfEven,
       LP!GripeFeeBasisPoints, L!GripeFeeBasisPoints

LEMMA SameColumns ==
    ASSUME NEW a
    PROVE  /\ LP!NetCredits(a) = L!NetCredits(a) /\ LP!FeeCredits(a) = L!FeeCredits(a)
           /\ LP!NetDebits(a) = L!NetDebits(a)   /\ LP!FeeDebits(a) = L!FeeDebits(a)
           /\ LP!CreditCount(a) = L!CreditCount(a) /\ LP!DebitCount(a) = L!DebitCount(a)
           /\ LP!RefundsOf(a) = L!RefundsOf(a)
<1>1. /\ \A x : LP!CreditedTo(a, x) <=> L!CreditedTo(a, x)
      /\ \A x : LP!DebitedFrom(a, x) <=> L!DebitedFrom(a, x)
      /\ LP!PaymentIds = L!PaymentIds /\ LP!RefundIds = L!RefundIds
  BY LedgerRowsAreOurs, ProofRowsAreOurs
     DEF LP!CreditedTo, L!CreditedTo, LP!DebitedFrom, L!DebitedFrom
<1> QED BY <1>1, SameFees
    DEF LP!NetCredits, L!NetCredits, LP!FeeCredits, L!FeeCredits, LP!NetDebits, L!NetDebits,
        LP!FeeDebits, L!FeeDebits, LP!CreditCount, L!CreditCount, LP!DebitCount, L!DebitCount,
        LP!RefundsOf, L!RefundsOf

(* What the ledger keeps, the backend keeps: balances that reconcile with  *)
(* the settlements to the minor unit, refunds within their payments,       *)
(* statuses that agree with the credits, fees that do not drift, and       *)
(* reports that make up what settled.                                      *)
THEOREM BackendKeepsTheBooks ==
    Spec => [](/\ L!Reconciled /\ L!FeeDriftBounded /\ L!RefundsAddUp /\ L!CreditMatchesStatus
               /\ LP!BooksBalance)
<1>1. LP!LedgerInv => L!Reconciled /\ L!FeeDriftBounded /\ L!RefundsAddUp /\ L!CreditMatchesStatus
  BY SameTotals, SameColumns
     DEF LP!LedgerInv, LP!Reconciled, L!Reconciled, LP!FeeDriftBounded, L!FeeDriftBounded,
         LP!RefundsAddUp, L!RefundsAddUp, LP!CreditMatchesStatus, L!CreditMatchesStatus,
         LP!GripeFeeBasisPoints, L!GripeFeeBasisPoints
<1>2. LP!Init <=> L!Init
  BY SameLedger
<1>3. [LP!Next]_(LP!vars) <=> [L!Next]_(L!vars)
  BY SameLedger
<1>4. LP!Spec => []LP!LedgerInv
  BY AccountsFinite, BoundsAssumption, AmountsAssumption, LP!InvHolds
<1>5. LP!Spec => []LP!BooksBalance
  BY AccountsFinite, BoundsAssumption, AmountsAssumption, LP!ReportsAddUp
<1> QED BY <1>1, <1>2, <1>3, <1>4, <1>5, BackendImplementsLedger, PTL
    DEF ImplementsLedger, L!Spec, LP!Spec

=============================================================================
