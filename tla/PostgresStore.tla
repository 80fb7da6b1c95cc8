--------------------------- MODULE PostgresStore ----------------------------
(***************************************************************************)
(* store/postgres/store.go: every write of the Postgres backend, statement *)
(* by statement, run by concurrent sessions against READ COMMITTED tables  *)
(* with row locks.  A statement waits while another transaction holds the  *)
(* row it needs and then sees the latest committed row, so a transaction   *)
(* keeps no row image: what it locked cannot change until it ends, and its *)
(* writes appear at COMMIT or never.                                       *)
(***************************************************************************)
EXTENDS LedgerRows

CONSTANTS
    Sessions,       \* requests the API serves at the same time
    Customers,
    MerchantOf,     \* the merchant of each account
    Methods,        \* the payment methods requests use
    PoolSize        \* connections of the pool (pgxpool's default: about 4)

ASSUME MethodsAssumption == Methods \subseteq PaymentMethods
ASSUME PoolAssumption    == PoolSize \in Nat \ {0}
ASSUME SessionsAssumption == IsFiniteSet(Sessions)
(* Merchants and customers are two tables ("m:" and "c:" in the cache).    *)
ASSUME PartiesAssumption ==
    \A a \in Accounts, c \in Customers : MerchantOf[a] # c

VARIABLES
    payment, refund, balance, credited,     \* committed; see Ledger
    party,          \* committed merchants and customers rows
    subscription,   \* committed subscriptions rows, as (account, customer)
    seen,           \* the process's cache of onboarded parties
    tx,             \* what each session is doing
    answer          \* history: the answer this step gave, and to whom

tables == <<payment, refund, balance, credited>>
vars   == <<tables, party, subscription, seen, tx, answer>>

Parties == {MerchantOf[a] : a \in Accounts} \cup Customers

(* Ids are drawn at random, so a request names a row that exists or one    *)
(* that never will.                                                        *)
NoSuchId == 0

Requests ==
    [op : {"create"}, account : Accounts, customer : Customers, amount : Amounts, method : Methods]
    \cup [op : {"subscribe"}, account : Accounts, customer : Customers]
    \cup [op : {"capture", "settlePayment", "networkFee"}, payment : PaymentIds \cup {NoSuchId}]
    \cup [op : {"refund"}, payment : PaymentIds \cup {NoSuchId}, amount : RefundAmounts]
    \cup [op : {"settleRefund"}, refund : RefundIds \cup {NoSuchId}]

Answers == {"ok", "notFound", "invalidState", "overRefund", "error"}
NoAnswer == [to |-> "nobody", is |-> "none"]

(* Row locks, by table and key.                                            *)
Locks == ({"party"} \X Parties) \cup ({"payment"} \X PaymentIds)
         \cup ({"refund"} \X RefundIds) \cup ({"balance"} \X Accounts)

NoRequest == [op |-> "none"]

Idle == [pc |-> "idle", req |-> NoRequest, held |-> {}]

At(s, pc) == tx[s].pc = pc

-----------------------------------------------------------------------------
(* The WHERE clause of the conditional UPDATE a request starts with.       *)
Matches(req) ==
    \/ /\ req.op \in {"capture", "settlePayment", "networkFee", "refund"}
       /\ req.payment \in DOMAIN payment
       /\ LET row == payment[req.payment]
          IN  \/ req.op = "capture" /\ row.status = "authorized"
              \/ req.op = "settlePayment" /\ Settleable(row)
              \/ req.op = "networkFee" /\ row.networkFee = 0
              \/ req.op = "refund" /\ Refundable(row, req.amount)
    \/ /\ req.op = "settleRefund"
       /\ req.refund \in DOMAIN refund
       /\ refund[req.refund].status = "created"

(* The row that UPDATE locks.                                              *)
Target(req) ==
    IF req.op = "settleRefund" THEN <<"refund", req.refund>> ELSE <<"payment", req.payment>>

(* The account a settlement posts to.                                      *)
AccountOf(req) ==
    IF req.op = "settleRefund" THEN payment[refund[req.refund].payment].account
                               ELSE payment[req.payment].account

(* The parties in the order upsertParties inserts them.                    *)
\* Mutant: CreateSubscription passes its two ids the other way round.
PartyOrderByOp(req) ==
    IF req.op = "subscribe" THEN <<req.customer, MerchantOf[req.account]>>
                            ELSE <<MerchantOf[req.account], req.customer>>

PartyOrder(req) == <<MerchantOf[req.account], req.customer>>

(* The lock the session's next statement needs: an upsert of a party that  *)
(* is cached or committed, and an UPDATE that matches no row, need none.   *)
Wants(s) ==
    LET req == tx[s].req
        upsert(x) == IF x \in seen \cup party THEN {} ELSE {<<"party", x>>}
    IN  CASE At(s, "first")  -> upsert(PartyOrder(req)[1])
          [] At(s, "second") -> upsert(PartyOrder(req)[2])
          [] At(s, "update") -> IF Matches(req) THEN {Target(req)} ELSE {}
          [] At(s, "credit") -> {<<"balance", AccountOf(req)>>}
          [] OTHER           -> {}

WaitsFor(s, t) == s # t /\ Wants(s) \cap tx[t].held # {}

Free(s) == \A t \in Sessions : ~ WaitsFor(s, t)

(* The session goes on at pc, holding locks as well.                       *)
GoesOn(s, pc, locks) ==
    /\ tx' = [tx EXCEPT ![s].pc = pc, ![s].held = @ \cup locks]
    /\ answer' = NoAnswer

(* COMMIT, or the deferred Rollback: either way the locks are released.    *)
Ends(s, is) ==
    /\ tx' = [tx EXCEPT ![s] = Idle]
    /\ answer' = [to |-> s, is |-> is]

-----------------------------------------------------------------------------
(* A transaction keeps its connection until it ends; an autocommitted      *)
(* UPDATE keeps one while it waits for its row.                            *)
Transactional(req) == req.op \notin {"capture", "networkFee"}

HasConnection(s) ==
    \/ tx[s].pc \in {"first", "second", "insert", "update", "credit", "commit"}
    \/ At(s, "probe") /\ Transactional(tx[s].req)

NeedsConnection(s) == tx[s].pc \in {"begin", "probe", "readback"}

ConnectionFree == Cardinality({s \in Sessions : HasConnection(s)}) < PoolSize

L == INSTANCE Ledger

Init ==
    /\ L!Init
    /\ party = {} /\ subscription = {} /\ seen = {}
    /\ tx = [s \in Sessions |-> Idle]
    /\ answer = NoAnswer

(* Bound: a row id is left for every request in flight that inserts one.   *)
Room(op, ids, table) ==
    Cardinality(DOMAIN table) + Cardinality({s \in Sessions : tx[s].req.op = op /\ ~ At(s, "idle")})
        < Cardinality(ids)

(* A request arrives; the inputs are those validation lets through.        *)
Begin(s, req) ==
    /\ At(s, "idle")
    /\ req.op \in {"capture", "settlePayment", "networkFee", "refund"} =>
          req.payment \in DOMAIN payment \cup {NoSuchId}
    /\ req.op = "settleRefund" => req.refund \in DOMAIN refund \cup {NoSuchId}
    /\ req.op = "create" => Room("create", PaymentIds, payment)
    /\ req.op = "refund" => Room("refund", RefundIds, refund)
    /\ tx' = [tx EXCEPT ![s] = [pc |-> "begin", req |-> req, held |-> {}]]
    /\ answer' = NoAnswer
    /\ UNCHANGED <<tables, party, subscription, seen>>

(* pool.Begin, or the pool's Acquire behind an autocommitted UPDATE.       *)
Acquire(s) ==
    /\ At(s, "begin") /\ ConnectionFree
    /\ GoesOn(s, IF tx[s].req.op \in {"create", "subscribe"} THEN "first" ELSE "update", {})
    /\ UNCHANGED <<tables, party, subscription, seen>>

(* upsertParties: INSERT ... ON CONFLICT DO NOTHING, skipped when cached.  *)
UpsertFirst(s) ==
    /\ At(s, "first") /\ Free(s)
    /\ GoesOn(s, "second", Wants(s))
    /\ UNCHANGED <<tables, party, subscription, seen>>

\* Mutant: markSeen as soon as the rows are inserted, before the commit.
UpsertSecondMarking(s) ==
    /\ At(s, "second") /\ Free(s)
    /\ GoesOn(s, "insert", Wants(s))
    /\ seen' = seen \cup {PartyOrder(tx[s].req)[i] : i \in 1..2}
    /\ UNCHANGED <<tables, party, subscription>>

UpsertSecond(s) ==
    /\ At(s, "second") /\ Free(s)
    /\ GoesOn(s, "insert", Wants(s))
    /\ UNCHANGED <<tables, party, subscription, seen>>

(* The child row's INSERT needs both parents, and the COMMIT shows the     *)
(* parents it inserted with it.  The commit's answer may be lost on the    *)
(* way back, and then the parties are not marked as seen.                  *)
CommitParties(s) ==
    LET both     == {PartyOrder(tx[s].req)[i] : i \in 1..2}
        inserted == {x \in both : <<"party", x>> \in tx[s].held}
    IN  /\ At(s, "insert")
        /\ both \subseteq party \cup inserted       \* the foreign keys
        /\ party' = party \cup inserted
        /\ \/ Ends(s, "ok")    /\ seen' = seen \cup both
           \/ Ends(s, "error") /\ UNCHANGED seen

InsertPayment(s) ==
    LET req == tx[s].req
    IN  /\ req.op = "create"
        /\ CommitParties(s)
        /\ \E p \in PaymentIds \ DOMAIN payment :
              payment' = Insert(payment, p, NewPayment(req.account, req.amount, req.method))
        /\ UNCHANGED <<refund, balance, credited, subscription>>

InsertSubscription(s) ==
    LET req == tx[s].req
    IN  /\ req.op = "subscribe"
        /\ CommitParties(s)
        /\ subscription' = subscription \cup {<<req.account, req.customer>>}
        /\ UNCHANGED tables

(* CapturePayment and SettleNetworkFee: one UPDATE, committed on its own.  *)
AutocommitUpdate(s) ==
    /\ At(s, "update") /\ Matches(tx[s].req) /\ Free(s)
    /\ GoesOn(s, "readback", {})
    /\ UNCHANGED <<refund, balance, credited, party, subscription, seen>>

CapturePayment(s) ==
    LET p == tx[s].req.payment
    IN  /\ tx[s].req.op = "capture"
        /\ AutocommitUpdate(s)
        /\ payment' = [payment EXCEPT ![p].status = "captured"]

SettleNetworkFee(s) ==
    LET p == tx[s].req.payment
    IN  /\ tx[s].req.op = "networkFee"
        /\ AutocommitUpdate(s)
        /\ payment' = [payment EXCEPT ![p].networkFee = MockNetworkFee(payment[p].amount)]

\* Mutant: SettlePayment's flip runs on the pool, outside the transaction.
TxUpdateOnPool(s) ==
    LET req == tx[s].req
    IN  /\ At(s, "update") /\ Matches(req) /\ Free(s)
        /\ req.op \in {"settlePayment", "refund", "settleRefund"}
        /\ GoesOn(s, IF req.op = "refund" THEN "commit" ELSE "credit", {Target(req)})
        /\ IF req.op = "settlePayment"
           THEN payment' = [payment EXCEPT ![req.payment].status = "settled"]
           ELSE UNCHANGED payment
        /\ UNCHANGED <<refund, balance, credited, party, subscription, seen>>

(* SettlePayment, RefundPayment, SettleRefund: the conditional UPDATE that *)
(* opens the transaction, when it finds its row.                           *)
TxUpdate(s) ==
    LET req == tx[s].req
    IN  /\ At(s, "update") /\ Matches(req) /\ Free(s)
        /\ req.op \in {"settlePayment", "refund", "settleRefund"}
        /\ GoesOn(s, IF req.op = "refund" THEN "commit" ELSE "credit", {Target(req)})
        /\ UNCHANGED <<tables, party, subscription, seen>>

(* Zero rows: a second read finds out why.  It runs on the pool, on a      *)
(* second connection where a transaction is still open on the first.       *)
UpdateMisses(s) ==
    /\ At(s, "update") /\ ~ Matches(tx[s].req)
    /\ GoesOn(s, IF tx[s].req.op = "networkFee" THEN "readback" ELSE "probe", {})
    /\ UNCHANGED <<tables, party, subscription, seen>>

(* creditBalance: the upsert of the balance row, inside the transaction.   *)
CreditBalance(s) ==
    /\ At(s, "credit") /\ Free(s)
    /\ GoesOn(s, "commit", Wants(s))
    /\ UNCHANGED <<tables, party, subscription, seen>>

\* Mutant: the function returns without calling Commit.
CommitForgotten(s) ==
    /\ At(s, "commit")
    /\ Ends(s, "ok")
    /\ UNCHANGED <<tables, party, subscription, seen>>

(* What the three transactions have written when they commit.              *)
WritesSettlement(p) ==
    /\ payment' = [payment EXCEPT ![p].status = "settled"]
    /\ balance' = [balance EXCEPT ![payment[p].account] = Credit(@, payment[p].amount)]
    /\ credited' = credited \cup {p}
    /\ UNCHANGED refund

WritesRefund(p, amt) ==
    /\ payment' = [payment EXCEPT ![p] = Refunded(@, amt)]
    /\ \E r \in RefundIds \ DOMAIN refund : refund' = Insert(refund, r, NewRefund(p, amt))
    /\ UNCHANGED <<balance, credited>>

WritesRefundSettlement(r) ==
    /\ refund' = [refund EXCEPT ![r].status = "settled"]
    /\ balance' = [balance EXCEPT ![payment[refund[r].payment].account] =
                     Debit(@, refund[r].amount)]
    /\ UNCHANGED <<payment, credited>>

(* The COMMIT: all those writes appear at once.  Its answer may be lost.   *)
Commit(s) ==
    LET req == tx[s].req
    IN  /\ At(s, "commit")
        /\ \/ req.op = "settlePayment" /\ WritesSettlement(req.payment)
           \/ req.op = "refund"        /\ WritesRefund(req.payment, req.amount)
           \/ req.op = "settleRefund"  /\ WritesRefundSettlement(req.refund)
        /\ \E is \in {"ok", "error"} : Ends(s, is)
        /\ UNCHANGED <<party, subscription, seen>>

(* The read after an autocommitted UPDATE: missing, or the row as it now is. *)
ReadBack(s) ==
    /\ At(s, "readback") /\ ConnectionFree
    /\ Ends(s, IF tx[s].req.payment \in DOMAIN payment THEN "ok" ELSE "notFound")
    /\ UNCHANGED <<tables, party, subscription, seen>>

(* Why zero rows matched, judged by the row as it is now.                  *)
Diagnosis(req) ==
    IF req.op = "settleRefund"
    THEN IF req.refund \in DOMAIN refund THEN "invalidState" ELSE "notFound"
    ELSE IF req.payment \notin DOMAIN payment THEN "notFound"
    ELSE IF req.op = "refund" /\ payment[req.payment].status \in {"captured", "settled"}
    THEN "overRefund" ELSE "invalidState"

Probe(s) ==
    /\ At(s, "probe") /\ ConnectionFree
    /\ Ends(s, Diagnosis(tx[s].req))
    /\ UNCHANGED <<tables, party, subscription, seen>>

Step(s) ==
    \/ Acquire(s)
    \/ UpsertFirst(s) \/ UpsertSecond(s) \/ InsertPayment(s) \/ InsertSubscription(s)
    \/ CapturePayment(s) \/ SettleNetworkFee(s) \/ TxUpdate(s) \/ UpdateMisses(s)
    \/ CreditBalance(s) \/ Commit(s) \/ ReadBack(s) \/ Probe(s)

\* Mutant: an error returns without the deferred Rollback.
AbortWithoutRollback(s) ==
    /\ ~ At(s, "idle")
    /\ tx' = [tx EXCEPT ![s].pc = "idle", ![s].req = NoRequest]
    /\ answer' = [to |-> s, is |-> "error"]
    /\ UNCHANGED <<tables, party, subscription, seen>>

(* A failed statement, a lost connection or a cancelled request context:   *)
(* the transaction is rolled back, by the server or the deferred Rollback. *)
Abort(s) ==
    /\ ~ At(s, "idle")
    /\ Ends(s, "error")
    /\ UNCHANGED <<tables, party, subscription, seen>>

(* The API process dies and is started again: its cache is empty.          *)
Restart ==
    /\ tx' = [s \in Sessions |-> Idle]
    /\ answer' = NoAnswer
    /\ seen' = {}
    /\ UNCHANGED <<tables, party, subscription>>

Next ==
    \/ \E s \in Sessions :
          \/ \E req \in Requests : Begin(s, req)
          \/ Step(s)
          \/ Abort(s)
    \/ Restart

(* A lock's waiters queue in Postgres and a connection's in pgxpool, so a  *)
(* session whose lock or connection keeps becoming free gets it: strong    *)
(* fairness of each session's next step.                                   *)
Spec == Init /\ [][Next]_vars /\ \A s \in Sessions : SF_vars(Step(s))

-----------------------------------------------------------------------------
(* Well-formed state; no row is locked by two sessions or between two      *)
(* requests, and no more connections are out than the pool has.            *)
TypeOK ==
    /\ L!TypeOK
    /\ party \subseteq Parties
    /\ subscription \subseteq Accounts \X Customers
    /\ seen \subseteq Parties
    /\ answer \in [to : Sessions, is : Answers] \cup {NoAnswer}
    /\ \A s \in Sessions :
          /\ tx[s].pc \in {"idle", "begin", "first", "second", "insert", "update", "credit",
                           "commit", "readback", "probe"}
          /\ tx[s].req \in Requests \cup {NoRequest}
          /\ tx[s].held \subseteq Locks
          /\ At(s, "idle") => tx[s] = Idle
    /\ \A s, t \in Sessions : s # t => tx[s].held \cap tx[t].held = {}
    /\ Cardinality({s \in Sessions : HasConnection(s)}) <= PoolSize

(* Those in S wait only for each other: for a row one of them locked, or   *)
(* for a connection when all of the pool is in their hands.                *)
WaitingTogether(S) ==
    \A s \in S :
       \/ \E t \in S : WaitsFor(s, t)
       \/ /\ NeedsConnection(s) /\ ~ ConnectionFree
          /\ {t \in Sessions : HasConnection(t)} \subseteq S

(* Row locks are always taken in one order (merchant, customer; payment or *)
(* refund, then balance) and whoever waits for a connection holds none, so *)
(* a set of sessions waits for itself only when the whole pool is in the   *)
(* hands of transactions that missed their row and probe on a second       *)
(* connection: no other mix of requests gets stuck, whatever the pool.     *)
OnlyProbesWaitInACircle ==
    \A S \in SUBSET Sessions : S # {} /\ WaitingTogether(S) =>
       /\ ~ ConnectionFree
       /\ \A s \in Sessions : HasConnection(s) => At(s, "probe")

(* The seen cache only ever skips the upsert of a party whose row is       *)
(* committed, through rollbacks, lost commits and restarts: no insert of a *)
(* payment or subscription runs into a missing parent row.                 *)
ForeignKeysHold ==
    \A s \in Sessions : At(s, "insert") =>
       \A i \in 1..2 : LET x == PartyOrder(tx[s].req)[i]
                       IN  x \in party \/ <<"party", x>> \in tx[s].held

(* What req asked for is in the tables.                                    *)
Done(req) ==
    CASE req.op = "create"        -> \E p \in DOMAIN payment : /\ payment[p].account = req.account
                                                              /\ payment[p].amount = req.amount
      [] req.op = "subscribe"     -> <<req.account, req.customer>> \in subscription
      [] req.op = "capture"       -> payment[req.payment].status # "authorized"
      [] req.op = "settlePayment" -> req.payment \in credited
      [] req.op = "networkFee"    -> payment[req.payment].networkFee # 0
      [] req.op = "refund"        -> \E r \in DOMAIN refund : /\ refund[r].payment = req.payment
                                                             /\ refund[r].amount = req.amount
      [] req.op = "settleRefund"  -> refund[req.refund].status = "settled"

(* A session is told "ok" only when what it asked for is committed: a      *)
(* settlement with its credit, a refund with a row of its own amount, a    *)
(* capture with a status past authorized, whatever the others did since    *)
(* its first statement.                                                    *)
OkMeansCommitted ==
    [][\A s \in Sessions :
          answer' = [to |-> s, is |-> "ok"] => \E req \in {tx[s].req} : Done(req)']_vars

(* Every write is one atomic step of the ledger or none, aborts, restarts  *)
(* and lost commit answers included (store.go: "atomically with the flip").*)
ImplementsLedger == L!Spec

(* internal/store/store.go: a settlement from any other state "is          *)
(* ErrInvalidState" (and a refund that does not fit is ErrOverRefund), so  *)
(* an UPDATE that finds no row is followed by an answer.                   *)
MissesAnswered == \A s \in Sessions : At(s, "probe") ~> At(s, "idle")

=============================================================================
