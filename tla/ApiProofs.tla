----------------------------- MODULE ApiProofs ------------------------------
(***************************************************************************)
(* Proofs about Api, for any number of calls, keys, actors and rows: the   *)
(* middleware around the real handlers is the middleware of Idempotency,   *)
(* and who may write, and what a client told of success has been given,    *)
(* hold for every request the routes can be sent.                          *)
(***************************************************************************)
EXTENDS Api, SumLemmas

CONSTANTS
    MerchantOf,     \* the merchant and
    CurrencyOf      \* the currency of each account, for the reports

IP == INSTANCE IdempotencyProofs WITH Bodies <- {BodyOf(req) : req \in Requests}
SP == INSTANCE LedgerProofs

-----------------------------------------------------------------------------
(* The inductive invariant.  That what a handler checked in one step still *)
(* holds when it writes in another rests on CheckedOwn: rows never go away *)
(* and never change hands.  That every committed call has a row of its own *)
(* rests on EffectsDone: the row it wrote is still there, in a status from *)
(* which no other call could have written it again.                        *)
SubscriptionRows ==
    [merchant : Accounts, customer : Customers, status : {"active", "cancelled"}]

SubscriptionsTyped ==
    /\ DOMAIN subscription \subseteq SubscriptionIds
    /\ subscription \in [DOMAIN subscription -> SubscriptionRows]

RequestsTyped ==
    /\ asked \in [Calls -> Requests \cup {NoRequest}]
    /\ \A c \in Calls : ~ Idem!At(c, "unsent") => asked[c] \in Requests

TablesTyped == Store!TypeOK /\ SubscriptionsTyped /\ made \in [Calls -> Nat]

CheckedOwn ==
    \A c \in checked :
       /\ c \in Calls /\ ~ Idem!At(c, "unsent")
       /\ Scoped(asked[c]) /\ Owns(asked[c])

(* Got, with the row there: what a committed call wrote stays to be seen.  *)
RowThere(req, i) ==
    /\ req.op \in {"create", "capture"} => i \in DOMAIN payment
    /\ req.op \in {"subscribe", "cancel"} => i \in DOMAIN subscription

Done(c) == RowThere(asked[c], made[c]) /\ Got(asked[c], made[c])

EffectsDone == \A c \in effects : Done(c)

SameWrite(c, e) == asked[c].op = asked[e].op /\ asked[c].op # "cancel" /\ made[c] = made[e]

RowsOfTheirOwn == \A c, e \in effects : SameWrite(c, e) => c = e

SuccessesCommitted ==
    \A c \in Calls : call[c].answer = "success" => c \in effects /\ call[c].of = c

ApiInv ==
    /\ IP!IdempotencyInv
    /\ RequestsTyped
    /\ TablesTyped
    /\ CheckedOwn
    /\ EffectsDone
    /\ RowsOfTheirOwn
    /\ SuccessesCommitted
    /\ EffectsAreEntitled

-----------------------------------------------------------------------------
(* What a request that can be sent looks like.                             *)
RequestShape(req) ==
    /\ req.op \in {"create", "subscribe", "capture", "refund", "cancel"}
    /\ req.actor.role \in {"admin", "merchant", "customer"}
    /\ req.op = "create" => req.merchant \in Accounts /\ req.amount \in Amounts
    /\ req.op = "subscribe" => req.merchant \in Accounts /\ req.customer \in Customers
    /\ req.op \in {"capture", "refund"} => req.id \in PaymentIds
    /\ req.op = "refund" => req.amount \in RefundAmounts
    /\ req.op = "cancel" => req.id \in SubscriptionIds

LEMMA ActorRoles == \A a \in Actors : a.role \in {"admin", "merchant", "customer"}
BY DEF Actors

LEMMA RequestsHaveShape == \A req \in Requests : RequestShape(req)
<1> SUFFICES ASSUME NEW req \in Requests PROVE RequestShape(req)
  OBVIOUS
<1>1. req \in AllRequests
  BY RequestsAssumption
<1>2. CASE req \in [op : {"create"}, actor : Actors, merchant : Accounts, amount : Amounts]
  BY <1>2, ActorRoles DEF RequestShape
<1>3. CASE req \in [op : {"subscribe"}, actor : Actors, merchant : Accounts, customer : Customers]
  BY <1>3, ActorRoles DEF RequestShape
<1>4. CASE req \in [op : {"capture"}, actor : Actors, id : PaymentIds]
  BY <1>4, ActorRoles DEF RequestShape
<1>5. CASE req \in [op : {"refund"}, actor : Actors, id : PaymentIds, amount : RefundAmounts]
  BY <1>5, ActorRoles DEF RequestShape
<1>6. CASE req \in [op : {"cancel"}, actor : Actors, id : SubscriptionIds]
  BY <1>6, ActorRoles DEF RequestShape
<1> QED BY <1>1, <1>2, <1>3, <1>4, <1>5, <1>6 DEF AllRequests

(* A fresh id is an unused one.                                            *)
LEMMA FreshIsUnused ==
    ASSUME NEW n \in Nat, NEW table, HasRoom(1..n, table)
    PROVE  Fresh(1..n, table) \in 1..n /\ Fresh(1..n, table) \notin DOMAIN table
<1> DEFINE T == (1..n) \ DOMAIN table
<1>1. T \in SUBSET Nat /\ T # {}
  BY DEF HasRoom
<1> HIDE DEF T
<1>2. \E m \in T : \A k \in T : m <= k
  BY <1>1, LeastElement
<1>3. Fresh(1..n, table) \in T
  BY <1>2 DEF Fresh, T
<1> QED BY <1>3 DEF T

-----------------------------------------------------------------------------
(* The middleware composed with the real handlers.                         *)
LEMMA SendIsSend ==
    ASSUME NEW c \in Calls, NEW k \in Keys \cup {NoKey}, NEW req \in Requests, Send(c, k, req)
    PROVE  Idem!Next
<1>1. Idem!Send(c, k, BodyOf(req)) /\ BodyOf(req) \in {BodyOf(q) : q \in Requests}
  BY DEF Send
<1> HIDE DEF BodyOf
<1> QED BY <1>1 DEF Idem!Next

LEMMA WriteIsHandle ==
    ASSUME NEW c \in Calls, Write(c)
    PROVE  Idem!Handle(c)
<1>1. /\ Idem!At(c, "handle") /\ effects' = effects \cup {c} /\ record' = record
      /\ \/ Succeeded(c)
         \/ Idem!Answered(c, "refused", NoRecord)
         \/ Idem!Answered(c, "error", NoRecord)
  BY DEF Write, Ready
<1>2. CASE Succeeded(c)
  BY <1>1, <1>2 DEF Succeeded, Idem!Handle
<1>3. CASE Idem!Answered(c, "refused", NoRecord) \/ Idem!Answered(c, "error", NoRecord)
  BY <1>1, <1>3 DEF Idem!Handle
<1> QED BY <1>1, <1>2, <1>3

LEMMA RefusalIsHandle ==
    ASSUME NEW c \in Calls, Refuse(c) \/ Fail(c)
    PROVE  Idem!Handle(c)
<1>1. /\ Idem!At(c, "handle") /\ effects' = effects /\ record' = record
      /\ Idem!Answered(c, "refused", NoRecord) \/ Idem!Answered(c, "error", NoRecord)
  BY DEF Refuse, Fail
<1> QED BY <1>1 DEF Idem!Handle

LEMMA StepOfMiddleware == [Next]_vars => [Idem!Next]_(Idem!vars)
<1> SUFFICES ASSUME [Next]_vars PROVE Idem!Next \/ UNCHANGED Idem!vars
  OBVIOUS
<1>1. ASSUME NEW c \in Calls, NEW k \in Keys \cup {NoKey}, NEW req \in Requests, Send(c, k, req)
      PROVE  Idem!Next
  BY <1>1, SendIsSend
<1>2. ASSUME NEW c \in Calls, Write(c) \/ Refuse(c) \/ Fail(c) PROVE Idem!Next
  BY <1>2, WriteIsHandle, RefusalIsHandle DEF Idem!Next
<1>3. ASSUME NEW c \in Calls, Cut(c) PROVE Idem!Next
  BY <1>3 DEF Cut, Idem!Next
<1>4. ASSUME NEW c \in Calls, CheckPayment(c) PROVE UNCHANGED Idem!vars
  BY <1>4 DEF CheckPayment, idemVars, Idem!vars
<1>5. CASE Middleware
  BY <1>5 DEF Middleware, Idem!Next
<1>6. CASE Settle \/ UNCHANGED vars
  BY <1>6 DEF Settle, vars, idemVars, Idem!vars
<1> QED BY <1>1, <1>2, <1>3, <1>4, <1>5, <1>6 DEF Next

(* The routes never leave the middleware: whatever the handlers check, in  *)
(* one step or in two, write, refuse or lose, is a step of Idempotency.    *)
THEOREM HandlersFitTheMiddleware == Spec => ImplementsIdempotency
<1>1. Init => Idem!Init
  BY DEF Init
<1> QED BY <1>1, StepOfMiddleware, PTL DEF Spec, ImplementsIdempotency, Idem!Spec

-----------------------------------------------------------------------------
(* The instance of Idempotency here and the one its proofs are about are   *)
(* the same.                                                               *)
LEMMA SameIdempotency ==
    /\ IP!Init <=> Idem!Init
    /\ [IP!Next]_(IP!vars) <=> [Idem!Next]_(Idem!vars)
<1>1. /\ IP!Unsent = Idem!Unsent /\ IP!Running = Idem!Running
      /\ \A c, pc : IP!At(c, pc) <=> Idem!At(c, pc)
      /\ \A k : IP!Live(k) <=> Idem!Live(k)
      /\ \A c : IP!NewRecord(c) = Idem!NewRecord(c)
      /\ \A c, answer, of : IP!Answered(c, answer, of) <=> Idem!Answered(c, answer, of)
  BY DEF IP!Unsent, Idem!Unsent, IP!Running, Idem!Running, IP!At, Idem!At, IP!Live, Idem!Live,
         IP!NewRecord, Idem!NewRecord, IP!Answered, Idem!Answered
<1>2. IP!Init <=> Idem!Init
  BY <1>1 DEF IP!Init, Idem!Init
<1>3. IP!Next <=> Idem!Next
  <2>1. \A c, k, b : IP!Send(c, k, b) <=> Idem!Send(c, k, b)
    BY <1>1 DEF IP!Send, Idem!Send
  <2>2. \A c : IP!MissingKey(c) <=> Idem!MissingKey(c)
    BY <1>1 DEF IP!MissingKey, Idem!MissingKey
  <2>3. \A c : IP!Lookup(c) <=> Idem!Lookup(c)
    BY <1>1 DEF IP!Lookup, Idem!Lookup
  <2>4. \A c : IP!Handle(c) <=> Idem!Handle(c)
    BY <1>1 DEF IP!Handle, Idem!Handle
  <2>5. \A c : IP!Put(c) <=> Idem!Put(c)
    BY <1>1 DEF IP!Put, Idem!Put
  <2>6. \A c : IP!Cut(c) <=> Idem!Cut(c)
    BY <1>1 DEF IP!Cut, Idem!Cut
  <2>7. \A k : (IP!Expire(k) <=> Idem!Expire(k)) /\ (IP!Purge(k) <=> Idem!Purge(k))
    BY <1>1 DEF IP!Expire, Idem!Expire, IP!Purge, Idem!Purge
  <2> QED BY <2>1, <2>2, <2>3, <2>4, <2>5, <2>6, <2>7 DEF IP!Next, Idem!Next
<1>4. IP!vars = Idem!vars /\ IP!vars' = Idem!vars'
  BY DEF IP!vars, Idem!vars
<1> QED BY <1>2, <1>3, <1>4

LEMMA IdempotencyStep == IP!IdempotencyInv /\ [Next]_vars => IP!IdempotencyInv'
<1>1. IP!IdempotencyInv /\ [IP!Next]_(IP!vars) => IP!IdempotencyInv'
  BY IdempotencyAssumption, IP!NextKeeps DEF Idem!Records, IP!Records
<1> QED BY <1>1, SameIdempotency, StepOfMiddleware

-----------------------------------------------------------------------------
(* The instances of Ledger here and in LedgerProofs, and this module, name *)
(* the same rows and the same arithmetic.                                  *)
LEMMA LedgerRowsAreOurs ==
    /\ Store!NoRows = NoRows
    /\ Store!PaymentIds = PaymentIds
    /\ Store!RefundIds = RefundIds
    /\ Store!PaymentMethods = PaymentMethods
    /\ Store!PaymentRows = PaymentRows
    /\ Store!RefundRows = RefundRows
    /\ Store!BalanceRows = BalanceRows
    /\ \A x, y, z : Store!Insert(x, y, z) = Insert(x, y, z)
    /\ \A x, y, z : Store!NewPayment(x, y, z) = NewPayment(x, y, z)
    /\ \A x, y : Store!NewRefund(x, y) = NewRefund(x, y)
    /\ \A x, y : Store!Refunded(x, y) = Refunded(x, y)
    /\ \A x, y : Store!Refundable(x, y) = Refundable(x, y)
    /\ \A x : Store!Settleable(x) = Settleable(x)
    /\ \A x, y : Store!Credit(x, y) = Credit(x, y)
    /\ \A x, y : Store!Debit(x, y) = Debit(x, y)
    /\ \A x : Store!MockNetworkFee(x) = MockNetworkFee(x)
BY DEF NoRows, Store!NoRows, Insert, Store!Insert, Credit, Store!Credit, Debit, Store!Debit,
       Moved, Store!Moved, Net, Store!Net, GripeFee, Store!GripeFee, DivHalfEven,
       Store!DivHalfEven, GripeFeeBasisPoints, Store!GripeFeeBasisPoints, Settleable,
       Store!Settleable, Refundable, Store!Refundable, Refunded, Store!Refunded, NewPayment,
       Store!NewPayment, NewRefund, Store!NewRefund, MockNetworkFee, Store!MockNetworkFee,
       InitialStatus, Store!InitialStatus, CardMethods, Store!CardMethods, DeclineTail,
       Store!DeclineTail, PaymentIds, Store!PaymentIds, RefundIds, Store!RefundIds,
       PaymentMethods, Store!PaymentMethods, PaymentRows, Store!PaymentRows, RefundRows,
       Store!RefundRows, BalanceRows, Store!BalanceRows, PaymentStatuses,
       Store!PaymentStatuses, RefundStatuses, Store!RefundStatuses

LEMMA ProofRowsAreOurs ==
    /\ SP!NoRows = NoRows
    /\ SP!PaymentIds = PaymentIds
    /\ SP!RefundIds = RefundIds
    /\ SP!PaymentMethods = PaymentMethods
    /\ SP!PaymentRows = PaymentRows
    /\ SP!RefundRows = RefundRows
    /\ SP!BalanceRows = BalanceRows
    /\ \A x, y, z : SP!Insert(x, y, z) = Insert(x, y, z)
    /\ \A x, y, z : SP!NewPayment(x, y, z) = NewPayment(x, y, z)
    /\ \A x, y : SP!NewRefund(x, y) = NewRefund(x, y)
    /\ \A x, y : SP!Refunded(x, y) = Refunded(x, y)
    /\ \A x, y : SP!Refundable(x, y) = Refundable(x, y)
    /\ \A x : SP!Settleable(x) = Settleable(x)
    /\ \A x, y : SP!Credit(x, y) = Credit(x, y)
    /\ \A x, y : SP!Debit(x, y) = Debit(x, y)
    /\ \A x : SP!MockNetworkFee(x) = MockNetworkFee(x)
BY DEF NoRows, SP!NoRows, Insert, SP!Insert, Credit, SP!Credit, Debit, SP!Debit, Moved,
       SP!Moved, Net, SP!Net, GripeFee, SP!GripeFee, DivHalfEven, SP!DivHalfEven,
       GripeFeeBasisPoints, SP!GripeFeeBasisPoints, Settleable, SP!Settleable, Refundable,
       SP!Refundable, Refunded, SP!Refunded, NewPayment, SP!NewPayment, NewRefund,
       SP!NewRefund, MockNetworkFee, SP!MockNetworkFee, InitialStatus, SP!InitialStatus,
       CardMethods, SP!CardMethods, DeclineTail, SP!DeclineTail, PaymentIds, SP!PaymentIds,
       RefundIds, SP!RefundIds, PaymentMethods, SP!PaymentMethods, PaymentRows, SP!PaymentRows,
       RefundRows, SP!RefundRows, BalanceRows, SP!BalanceRows, PaymentStatuses,
       SP!PaymentStatuses, RefundStatuses, SP!RefundStatuses

LEMMA SameLedger ==
    /\ SP!TypeOK <=> Store!TypeOK
    /\ [SP!Next]_(SP!vars) <=> [Store!Next]_(Store!vars)
<1> USE LedgerRowsAreOurs, ProofRowsAreOurs
<1>1. SP!TypeOK <=> Store!TypeOK
  BY DEF Store!TypeOK, SP!TypeOK
<1>2. SP!Next <=> Store!Next
  BY DEF Store!Next, SP!Next, Store!CreatePayment, SP!CreatePayment, Store!CapturePayment,
         SP!CapturePayment, Store!SettlePayment, SP!SettlePayment, Store!RefundPayment,
         SP!RefundPayment, Store!SettleRefund, SP!SettleRefund, Store!SettleNetworkFee,
         SP!SettleNetworkFee
<1>3. SP!vars = Store!vars
  BY DEF Store!vars, SP!vars
<1>4. SP!vars' = Store!vars'
  BY DEF Store!vars, SP!vars
<1> QED BY <1>1, <1>2, <1>3, <1>4

LEMMA StoreTypeStep == Store!TypeOK /\ [Store!Next]_(Store!vars) => Store!TypeOK'
<1>1. SP!TypeOK /\ [SP!Next]_(SP!vars) => SP!TypeOK'
  <2>1. SP!IsFiniteSet(Accounts)
    BY AccountsAssumption DEF IsFiniteSet, SP!IsFiniteSet
  <2> QED BY <2>1, BoundsAssumption, AmountsAssumption, SP!TypeStep
<1>2. SP!TypeOK' <=> Store!TypeOK'
  BY LedgerRowsAreOurs, ProofRowsAreOurs DEF Store!TypeOK, SP!TypeOK
<1> QED BY <1>1, <1>2, SameLedger

-----------------------------------------------------------------------------
(* What no step does to a row that is there: remove it, give it to another *)
(* party, change its amount, or take back what was captured or cancelled.  *)
Past == {"captured", "settled", "refunded"}

KeepsPayments ==
    \A p \in DOMAIN payment :
       /\ p \in DOMAIN payment'
       /\ payment'[p].account = payment[p].account
       /\ payment'[p].amount = payment[p].amount
       /\ payment[p].status \in Past => payment'[p].status \in Past

KeepsRefunds ==
    \A r \in DOMAIN refund :
       /\ r \in DOMAIN refund'
       /\ refund'[r].payment = refund[r].payment
       /\ refund'[r].amount = refund[r].amount

KeepsSubscriptions ==
    \A s \in DOMAIN subscription :
       /\ s \in DOMAIN subscription'
       /\ subscription'[s].merchant = subscription[s].merchant
       /\ subscription'[s].customer = subscription[s].customer
       /\ subscription[s].status = "cancelled" => subscription'[s].status = "cancelled"

KeepsRows == KeepsPayments /\ KeepsRefunds /\ KeepsSubscriptions

(* c's row is not the row of any request of its kind that is done.         *)
NewRow(c) ==
    \A e \in Calls : asked[e].op = asked[c].op /\ Done(e) => made[e] # made'[c]

(* What a store's write for c's request does.                              *)
WriteFacts(c) ==
    /\ [Store!Next]_(Store!vars)
    /\ KeepsRows
    /\ SubscriptionsTyped'
    /\ made' \in [Calls -> Nat]
    /\ \A d \in Calls \ {c} : made'[d] = made[d]
    /\ Done(c)'
    /\ asked[c].op # "cancel" => NewRow(c)

LEMMA CreatedFacts ==
    ASSUME TablesTyped, NEW c \in Calls, RequestShape(asked[c]), asked' = asked, Created(c)
    PROVE  WriteFacts(c)
<1> DEFINE req == asked[c]
           p   == Fresh(PaymentIds, payment)
           row == NewPayment(req.merchant, req.amount, "direct_debit")
<1>1. /\ req.op = "create" /\ HasRoom(PaymentIds, payment)
      /\ Store!CreatePayment(p, req.merchant, req.amount, "direct_debit")
      /\ made' = [made EXCEPT ![c] = p] /\ subscription' = subscription
  BY DEF Created
<1>2. p \in PaymentIds /\ p \notin DOMAIN payment
  BY <1>1, FreshIsUnused, BoundsAssumption DEF PaymentIds
<1> HIDE DEF p
<1>3. req.merchant \in Accounts /\ req.amount \in Amounts
  BY <1>1 DEF RequestShape
<1>4. /\ payment' = Insert(payment, p, row) /\ refund' = refund
      /\ row.account = req.merchant /\ row.amount = req.amount
  BY <1>1, LedgerRowsAreOurs DEF Store!CreatePayment, NewPayment
<1> HIDE DEF row
<1>5. [Store!Next]_(Store!vars)
  <2>1. "direct_debit" \in PaymentMethods
    BY DEF PaymentMethods
  <2> QED BY <1>1, <1>2, <1>3, <2>1, LedgerRowsAreOurs DEF Store!Next
<1>6. /\ DOMAIN payment' = DOMAIN payment \cup {p} /\ payment'[p] = row
      /\ \A q \in DOMAIN payment : payment'[q] = payment[q]
  BY <1>2, <1>4 DEF Insert
<1>7. KeepsRows /\ SubscriptionsTyped'
  BY <1>1, <1>4, <1>6
     DEF KeepsRows, KeepsPayments, KeepsRefunds, KeepsSubscriptions, TablesTyped, SubscriptionsTyped
<1>8. /\ made' \in [Calls -> Nat] /\ made'[c] = p
      /\ \A d \in Calls \ {c} : made'[d] = made[d]
  BY <1>1, <1>2, BoundsAssumption DEF TablesTyped, PaymentIds
<1>9. Done(c)'
  BY <1>1, <1>4, <1>6, <1>8 DEF Done, RowThere, Got
<1>10. NewRow(c)
  BY <1>1, <1>2, <1>8 DEF NewRow, Done, RowThere
<1> QED BY <1>5, <1>7, <1>8, <1>9, <1>10 DEF WriteFacts

LEMMA SubscribedFacts ==
    ASSUME TablesTyped, NEW c \in Calls, RequestShape(asked[c]), asked' = asked, Subscribed(c)
    PROVE  WriteFacts(c)
<1> DEFINE req == asked[c]
           s   == Fresh(SubscriptionIds, subscription)
           row == [merchant |-> req.merchant, customer |-> req.customer, status |-> "active"]
<1>1. /\ req.op = "subscribe" /\ HasRoom(SubscriptionIds, subscription)
      /\ subscription' = Insert(subscription, s, row)
      /\ made' = [made EXCEPT ![c] = s]
      /\ UNCHANGED storeVars
  BY DEF Subscribed
<1>2. s \in SubscriptionIds /\ s \notin DOMAIN subscription
  BY <1>1, FreshIsUnused, RoomAssumption DEF SubscriptionIds
<1> HIDE DEF s
<1>3. req.merchant \in Accounts /\ req.customer \in Customers
  BY <1>1 DEF RequestShape
<1>4. row \in SubscriptionRows /\ row.merchant = req.merchant
  BY <1>3 DEF SubscriptionRows
<1> HIDE DEF row
<1>5. [Store!Next]_(Store!vars)
  BY <1>1 DEF storeVars, Store!vars
<1>6. /\ DOMAIN subscription' = DOMAIN subscription \cup {s} /\ subscription'[s] = row
      /\ \A t \in DOMAIN subscription : subscription'[t] = subscription[t]
      /\ subscription' = [i \in DOMAIN subscription' |-> subscription'[i]]
  BY <1>1, <1>2 DEF Insert
<1>7. KeepsRows
  BY <1>1, <1>6 DEF storeVars, KeepsRows, KeepsPayments, KeepsRefunds, KeepsSubscriptions
<1>8. SubscriptionsTyped'
  BY <1>2, <1>4, <1>6 DEF TablesTyped, SubscriptionsTyped
<1>9. /\ made' \in [Calls -> Nat] /\ made'[c] = s
      /\ \A d \in Calls \ {c} : made'[d] = made[d]
  BY <1>1, <1>2, RoomAssumption DEF TablesTyped, SubscriptionIds
<1>10. Done(c)'
  BY <1>1, <1>4, <1>6, <1>9 DEF Done, RowThere, Got
<1>11. NewRow(c)
  BY <1>1, <1>2, <1>9 DEF NewRow, Done, RowThere
<1> QED BY <1>5, <1>7, <1>8, <1>9, <1>10, <1>11 DEF WriteFacts

LEMMA CancelledFacts ==
    ASSUME TablesTyped, NEW c \in Calls, RequestShape(asked[c]), asked' = asked, Cancelled(c)
    PROVE  WriteFacts(c)
<1> DEFINE req == asked[c]
           s   == asked[c].id
<1>1. /\ req.op = "cancel" /\ s \in DOMAIN subscription
      /\ subscription' = [subscription EXCEPT ![s].status = "cancelled"]
      /\ made' = [made EXCEPT ![c] = s]
      /\ UNCHANGED storeVars
  BY DEF Cancelled
<1>2. PICK row : row = [subscription[s] EXCEPT !.status = "cancelled"]
                 /\ subscription' = [subscription EXCEPT ![s] = row]
  BY <1>1, Zenon
<1>3. subscription[s] \in SubscriptionRows /\ s \in SubscriptionIds
  BY <1>1 DEF TablesTyped, SubscriptionsTyped
<1>4. /\ row \in SubscriptionRows /\ row.status = "cancelled"
      /\ row.merchant = subscription[s].merchant /\ row.customer = subscription[s].customer
  BY <1>2, <1>3 DEF SubscriptionRows
<1>5. /\ DOMAIN subscription' = DOMAIN subscription /\ subscription'[s] = row
      /\ \A t \in DOMAIN subscription : t # s => subscription'[t] = subscription[t]
  BY <1>1, <1>2
<1>6. KeepsRows
  BY <1>1, <1>4, <1>5 DEF storeVars, KeepsRows, KeepsPayments, KeepsRefunds, KeepsSubscriptions
<1>7. SubscriptionsTyped'
  BY <1>1, <1>2, <1>4 DEF TablesTyped, SubscriptionsTyped
<1>8. [Store!Next]_(Store!vars)
  BY <1>1 DEF storeVars, Store!vars
<1>9. /\ made' \in [Calls -> Nat] /\ made'[c] = s
      /\ \A d \in Calls \ {c} : made'[d] = made[d]
  BY <1>1, <1>3, RoomAssumption DEF TablesTyped, SubscriptionIds
<1>10. Done(c)'
  BY <1>1, <1>4, <1>5, <1>9 DEF Done, RowThere, Got
<1> QED BY <1>1, <1>6, <1>7, <1>8, <1>9, <1>10 DEF WriteFacts

(* A payment's status changes, and nothing else.                           *)
LEMMA StatusChange ==
    ASSUME Store!TypeOK, NEW p \in DOMAIN payment, NEW st, st \in Past,
           payment' = [payment EXCEPT ![p].status = st]
    PROVE  KeepsPayments /\ p \in DOMAIN payment' /\ payment'[p].status = st
<1>1. PICK row : row = [payment[p] EXCEPT !.status = st]
                 /\ payment' = [payment EXCEPT ![p] = row]
  BY Zenon
<1>2. payment[p] \in PaymentRows
  BY LedgerRowsAreOurs DEF Store!TypeOK
<1>3. row.status = st /\ row.account = payment[p].account /\ row.amount = payment[p].amount
  BY <1>1, <1>2 DEF PaymentRows
<1> QED BY <1>1, <1>3 DEF KeepsPayments

LEMMA CapturedFacts ==
    ASSUME TablesTyped, NEW c \in Calls, RequestShape(asked[c]), asked' = asked, Captured(c)
    PROVE  WriteFacts(c)
<1> DEFINE req == asked[c]
           p   == asked[c].id
<1>1. /\ req.op = "capture" /\ Store!CapturePayment(p)
      /\ made' = [made EXCEPT ![c] = p] /\ subscription' = subscription
  BY DEF Captured
<1>2. /\ p \in DOMAIN payment /\ payment[p].status = "authorized"
      /\ payment' = [payment EXCEPT ![p].status = "captured"] /\ refund' = refund
  BY <1>1 DEF Store!CapturePayment
<1>3. p \in PaymentIds
  BY <1>1 DEF RequestShape
<1>4. [Store!Next]_(Store!vars)
  BY <1>1, <1>3, LedgerRowsAreOurs DEF Store!Next
<1>5. KeepsPayments /\ p \in DOMAIN payment' /\ payment'[p].status = "captured"
  BY <1>2, StatusChange DEF Past, TablesTyped
<1>6. KeepsRows /\ SubscriptionsTyped'
  BY <1>1, <1>2, <1>5
     DEF KeepsRows, KeepsRefunds, KeepsSubscriptions, TablesTyped, SubscriptionsTyped
<1>7. /\ made' \in [Calls -> Nat] /\ made'[c] = p
      /\ \A d \in Calls \ {c} : made'[d] = made[d]
  BY <1>1, <1>3, BoundsAssumption DEF TablesTyped, PaymentIds
<1>8. Done(c)'
  BY <1>1, <1>5, <1>7 DEF Done, RowThere, Got
<1>9. NewRow(c)
  BY <1>1, <1>2, <1>7 DEF NewRow, Done, Got
<1> QED BY <1>4, <1>6, <1>7, <1>8, <1>9 DEF WriteFacts

LEMMA RefundCreatedFacts ==
    ASSUME TablesTyped, NEW c \in Calls, RequestShape(asked[c]), asked' = asked, RefundCreated(c)
    PROVE  WriteFacts(c)
<1> DEFINE req == asked[c]
           p   == asked[c].id
           amt == asked[c].amount
           r   == Fresh(RefundIds, refund)
<1>1. /\ req.op = "refund" /\ HasRoom(RefundIds, refund)
      /\ Store!RefundPayment(p, r, amt)
      /\ made' = [made EXCEPT ![c] = r] /\ subscription' = subscription
  BY DEF RefundCreated
<1>2. r \in RefundIds /\ r \notin DOMAIN refund
  BY <1>1, FreshIsUnused, BoundsAssumption DEF RefundIds
<1> HIDE DEF r
<1>3. p \in PaymentIds /\ amt \in RefundAmounts /\ amt \in Nat
  BY <1>1, AmountsAssumption DEF RequestShape
<1>4. [Store!Next]_(Store!vars)
  BY <1>1, <1>2, <1>3, LedgerRowsAreOurs DEF Store!Next
<1>5. /\ p \in DOMAIN payment /\ payment[p].status \in {"captured", "settled"}
      /\ payment' = [payment EXCEPT ![p] = Refunded(payment[p], amt)]
      /\ refund' = Insert(refund, r, NewRefund(p, amt))
  BY <1>1, LedgerRowsAreOurs DEF Store!RefundPayment, Refundable
<1>6. payment[p] \in PaymentRows
  BY <1>5, LedgerRowsAreOurs DEF TablesTyped, Store!TypeOK
<1>7. PICK row : row = Refunded(payment[p], amt)
  OBVIOUS
<1>8. /\ row.account = payment[p].account /\ row.amount = payment[p].amount
      /\ row.status \in {"refunded", payment[p].status}
  BY <1>6, <1>7 DEF Refunded, PaymentRows
<1>9. KeepsPayments
  BY <1>5, <1>7, <1>8 DEF KeepsPayments, Past
<1>10. /\ DOMAIN refund' = DOMAIN refund \cup {r} /\ refund'[r] = NewRefund(p, amt)
       /\ \A q \in DOMAIN refund : refund'[q] = refund[q]
  BY <1>2, <1>5 DEF Insert
<1>11. KeepsRows /\ SubscriptionsTyped'
  BY <1>1, <1>9, <1>10
     DEF KeepsRows, KeepsRefunds, KeepsSubscriptions, TablesTyped, SubscriptionsTyped
<1>12. /\ made' \in [Calls -> Nat] /\ made'[c] = r
       /\ \A d \in Calls \ {c} : made'[d] = made[d]
  BY <1>1, <1>2, BoundsAssumption DEF TablesTyped, RefundIds
<1>13. Done(c)'
  BY <1>1, <1>10, <1>12 DEF Done, RowThere, Got, NewRefund
<1>14. NewRow(c)
  BY <1>1, <1>2, <1>12 DEF NewRow, Done, Got
<1> QED BY <1>4, <1>11, <1>12, <1>13, <1>14 DEF WriteFacts

LEMMA WritesDo ==
    ASSUME TablesTyped, NEW c \in Calls, RequestShape(asked[c]), asked' = asked, StoreWrites(c)
    PROVE  WriteFacts(c)
BY CreatedFacts, SubscribedFacts, CapturedFacts, RefundCreatedFacts, CancelledFacts DEF StoreWrites

(* The settlement routes.                                                  *)
LEMMA SettleKeeps ==
    ASSUME TablesTyped, Settle
    PROVE  [Store!Next]_(Store!vars) /\ KeepsRows /\ SubscriptionsTyped'
<1>1. subscription' = subscription
  BY DEF Settle
<1>2. KeepsSubscriptions /\ SubscriptionsTyped'
  BY <1>1 DEF KeepsSubscriptions, TablesTyped, SubscriptionsTyped
<1>3. ASSUME NEW p \in PaymentIds, Store!SettlePayment(p)
      PROVE  [Store!Next]_(Store!vars) /\ KeepsPayments /\ KeepsRefunds
  <2>1. Store!Next
    BY <1>3, LedgerRowsAreOurs DEF Store!Next
  <2>2. /\ p \in DOMAIN payment /\ refund' = refund
        /\ payment' = [payment EXCEPT ![p].status = "settled"]
    BY <1>3 DEF Store!SettlePayment
  <2>3. KeepsPayments
    BY <2>2, StatusChange DEF Past, TablesTyped
  <2> QED BY <2>1, <2>2, <2>3 DEF KeepsRefunds
<1>4. ASSUME NEW r \in RefundIds, Store!SettleRefund(r)
      PROVE  [Store!Next]_(Store!vars) /\ KeepsPayments /\ KeepsRefunds
  <2>1. Store!Next
    BY <1>4, LedgerRowsAreOurs DEF Store!Next
  <2>2. /\ r \in DOMAIN refund /\ payment' = payment
        /\ refund' = [refund EXCEPT ![r].status = "settled"]
    BY <1>4 DEF Store!SettleRefund
  <2>3. refund[r] \in RefundRows
    BY <2>2, LedgerRowsAreOurs DEF TablesTyped, Store!TypeOK
  <2>4. PICK row : /\ row = [refund[r] EXCEPT !.status = "settled"]
                   /\ refund' = [refund EXCEPT ![r] = row]
    BY <2>2, Zenon
  <2>5. row.payment = refund[r].payment /\ row.amount = refund[r].amount
    BY <2>3, <2>4 DEF RefundRows
  <2> QED BY <2>1, <2>2, <2>4, <2>5 DEF KeepsPayments, KeepsRefunds
<1> QED BY <1>2, <1>3, <1>4 DEF Settle, KeepsRows

-----------------------------------------------------------------------------
(* Because rows stay and never change hands, what was true of a request's  *)
(* row stays true: who owns it, who may act on it, and that it was done.   *)
LEMMA RequestStays ==
    ASSUME KeepsRows, NEW req
    PROVE  /\ Owns(req) => Owns(req)'
           /\ RequestShape(req) /\ req.op # "cancel" /\ MayAct(req) => MayAct(req)'
           /\ req.op = "cancel" /\ req.id \in DOMAIN subscription => (MayAct(req) <=> MayAct(req)')
           /\ \A i : RequestShape(req) /\ RowThere(req, i) /\ Got(req, i)
                        => RowThere(req, i)' /\ Got(req, i)'
<1>1. KeepsPayments /\ KeepsRefunds /\ KeepsSubscriptions
  BY DEF KeepsRows
<1>2. Owns(req) => Owns(req)'
  BY <1>1 DEF KeepsPayments, Owns
<1>3. RequestShape(req) /\ req.op # "cancel" /\ MayAct(req) => MayAct(req)'
  BY <1>2 DEF RequestShape, MayAct
<1>4. req.op = "cancel" /\ req.id \in DOMAIN subscription => (MayAct(req) <=> MayAct(req)')
  BY <1>1 DEF KeepsSubscriptions, MayAct, Stranger
<1>5. ASSUME NEW i, RequestShape(req), RowThere(req, i), Got(req, i)
      PROVE  RowThere(req, i)' /\ Got(req, i)'
  <2>1. CASE req.op \in {"create", "capture"}
    BY <1>1, <1>5, <2>1 DEF KeepsPayments, RowThere, Got, Past
  <2>2. CASE req.op \in {"subscribe", "cancel"}
    BY <1>1, <1>5, <2>2 DEF KeepsSubscriptions, RowThere, Got
  <2>3. CASE req.op = "refund"
    BY <1>1, <1>5, <2>3 DEF KeepsRefunds, RowThere, Got
  <2> QED BY <1>5, <2>1, <2>2, <2>3 DEF RequestShape
<1> QED BY <1>2, <1>3, <1>4, <1>5

(* What the invariant says of a call, by where it is.                      *)
LEMMA CallFacts ==
    ASSUME ApiInv, NEW c \in Calls
    PROVE  /\ call \in [Calls -> IP!CallRows]
           /\ effects \subseteq Calls
           /\ ~ Idem!At(c, "unsent") => asked[c] \in Requests /\ RequestShape(asked[c])
           /\ c \in effects => ~ Idem!At(c, "unsent") /\ ~ Idem!At(c, "handle")
           /\ c \in checked => ~ Idem!At(c, "unsent")
           /\ Idem!At(c, "unsent") \/ Idem!At(c, "handle") => call[c].answer = "none"
<1>1. IP!TypeOK /\ IP!FreshCalls
  BY DEF ApiInv, IP!IdempotencyInv
<1>2. ~ Idem!At(c, "unsent") => asked[c] \in Requests /\ RequestShape(asked[c])
  BY RequestsHaveShape DEF ApiInv, RequestsTyped
<1>3. c \in checked => ~ Idem!At(c, "unsent")
  BY DEF ApiInv, CheckedOwn
<1> QED BY <1>1, <1>2, <1>3 DEF IP!TypeOK, IP!FreshCalls, Idem!At

(* A call that has committed its write asks for something.                 *)
LEMMA CommittedAsk ==
    ASSUME ApiInv, NEW c \in effects
    PROVE  c \in Calls /\ ~ Idem!At(c, "unsent") /\ RequestShape(asked[c])
<1>1. c \in Calls
  BY DEF ApiInv, IP!IdempotencyInv, IP!TypeOK
<1> QED BY <1>1, CallFacts

(* What a call may be answered: success after a write of its own that its  *)
(* actor may make; a refusal after none, or after a stranger's cancelling.  *)
GoodAnswer(c) ==
    \/ call'[c].answer = call[c].answer /\ call'[c].of = call[c].of
    \/ call'[c].answer \notin {"success", "refused"}
    \/ /\ call'[c].answer = "refused"
       /\ c \in effects' => asked[c].op = "cancel" /\ ~ MayAct(asked[c])'
    \/ /\ call'[c].answer = "success" /\ call'[c].of = c
       /\ c \in effects' /\ MayAct(asked[c])'

(* A step that sends nothing, at most one call of which moves.             *)
QuietStep(c) ==
    /\ asked' = asked
    /\ IP!IdempotencyInv' /\ TablesTyped' /\ KeepsRows
    /\ \A d \in Calls : Idem!At(d, "unsent")' <=> Idem!At(d, "unsent")
    /\ \A d \in Calls : d # c => call'[d].answer = call[d].answer /\ call'[d].of = call[d].of
    /\ c \in Calls => GoodAnswer(c)
    /\ \A d \in effects : made'[d] = made[d]
    /\ \A d \in checked' :
          \/ d \in checked
          \/ /\ d \in Calls /\ ~ Idem!At(d, "unsent")
             /\ Scoped(asked[d]) /\ Owns(asked[d])
    /\ \/ effects' = effects
       \/ /\ effects' = effects \cup {c} /\ c \in Calls /\ Idem!At(c, "handle")
          /\ Done(c)'
          /\ asked[c].op # "cancel" => NewRow(c) /\ MayAct(asked[c])

LEMMA QuietKeepsDone ==
    ASSUME ApiInv, NEW c, QuietStep(c)
    PROVE  EffectsDone' /\ RowsOfTheirOwn'
<1>1. \A d \in effects : d \in Calls /\ made'[d] = made[d] /\ asked'[d] = asked[d] /\ Done(d)
  BY CommittedAsk DEF QuietStep, ApiInv, EffectsDone
<1>2. ASSUME NEW d \in effects PROVE Done(d)'
  <2>1. PICK req, i : req = asked[d] /\ i = made[d]
    OBVIOUS
  <2>2. RequestShape(req) /\ RowThere(req, i) /\ Got(req, i)
    BY <1>1, <2>1, CommittedAsk DEF Done
  <2>3. RowThere(req, i)' /\ Got(req, i)'
    BY <2>2, RequestStays DEF QuietStep
  <2>4. req = asked'[d] /\ i = made'[d]
    BY <1>1, <2>1
  <2> QED BY <2>3, <2>4 DEF Done
<1>3. EffectsDone'
  BY <1>2 DEF EffectsDone, QuietStep
<1>4. RowsOfTheirOwn'
  <2> SUFFICES ASSUME NEW d \in effects', NEW e \in effects', SameWrite(d, e)'
               PROVE  d = e
    BY DEF RowsOfTheirOwn
  <2>1. /\ asked'[d].op = asked'[e].op /\ asked'[d].op # "cancel" /\ made'[d] = made'[e]
        /\ asked' = asked
    BY DEF SameWrite, QuietStep
  <2>2. CASE d \in effects /\ e \in effects
    BY <1>1, <2>1, <2>2 DEF ApiInv, RowsOfTheirOwn, SameWrite
  <2>3. CASE d \notin effects /\ e \in effects
    BY <1>1, <2>1, <2>3 DEF QuietStep, NewRow
  <2>4. CASE d \in effects /\ e \notin effects
    BY <1>1, <2>1, <2>4 DEF QuietStep, NewRow
  <2>5. CASE d \notin effects /\ e \notin effects
    BY <2>5 DEF QuietStep
  <2> QED BY <2>2, <2>3, <2>4, <2>5
<1> QED BY <1>3, <1>4

LEMMA QuietKeepsEntitled ==
    ASSUME ApiInv, NEW c, QuietStep(c), EffectsDone'
    PROVE  SuccessesCommitted' /\ EffectsAreEntitled'
<1>1. effects \subseteq effects' /\ asked' = asked /\ KeepsRows
  BY DEF QuietStep
<1>2. ASSUME NEW d \in effects', asked[d].op # "cancel" PROVE MayAct(asked[d])'
  <2>1. d \in Calls /\ MayAct(asked[d])
    BY <1>2, CommittedAsk DEF QuietStep, ApiInv, EffectsAreEntitled
  <2>2. RequestShape(asked[d])
    BY CommittedAsk, CallFacts, <2>1 DEF QuietStep, Idem!At
  <2>3. PICK req : req = asked[d]
    OBVIOUS
  <2>4. MayAct(req)'
    BY <1>1, <1>2, <2>1, <2>2, <2>3, RequestStays
  <2>5. req = asked'[d]
    BY <1>1, <2>3
  <2> QED BY <2>4, <2>5
<1>3. ASSUME NEW d \in Calls, call'[d].answer = call[d].answer, call'[d].of = call[d].of
      PROVE  /\ call[d].answer = "success" => /\ d \in effects' /\ call'[d].of = d
                                              /\ MayAct(asked[d])'
             /\ call[d].answer = "refused" /\ d \in effects' =>
                   asked[d].op = "cancel" /\ ~ MayAct(asked[d])'
  <2>1. PICK req : req = asked[d]
    OBVIOUS
  <2>2. req = asked'[d]
    BY <1>1, <2>1
  <2>3. ASSUME d \in effects, req.op = "cancel" PROVE MayAct(req) <=> MayAct(req)'
    <3>1. made[d] = req.id /\ made[d] \in DOMAIN subscription
      BY <2>1, <2>3 DEF ApiInv, EffectsDone, Done, RowThere, Got
    <3> QED BY <1>1, <2>3, <3>1, RequestStays
  <2>4. CASE call[d].answer = "success"
    <3>1. d \in effects /\ call[d].of = d /\ MayAct(req)
      BY <2>1, <2>4 DEF ApiInv, SuccessesCommitted, EffectsAreEntitled
    <3>2. CASE req.op = "cancel"
      <4>1. MayAct(req)'
        BY <2>3, <3>1, <3>2
      <4> QED BY <1>1, <1>3, <2>2, <2>4, <3>1, <4>1
    <3>3. CASE req.op # "cancel"
      BY <1>1, <1>2, <1>3, <2>1, <2>4, <3>1, <3>3
    <3> QED BY <3>2, <3>3
  <2>5. CASE call[d].answer = "refused" /\ d \in effects'
    <3>1. d \in effects
      <4>1. CASE d # c
        BY <2>5, <4>1 DEF QuietStep
      <4>2. CASE d = c
        BY <1>3, <2>5, <4>2, CallFacts DEF QuietStep
      <4> QED BY <4>1, <4>2
    <3>2. req.op = "cancel" /\ ~ MayAct(req)
      BY <2>1, <2>5, <3>1 DEF ApiInv, EffectsAreEntitled
    <3>3. ~ MayAct(req)'
      BY <2>3, <3>1, <3>2
    <3> QED BY <2>1, <2>2, <2>5, <3>2, <3>3
  <2> QED BY <2>4, <2>5
<1>4. ASSUME NEW d \in Calls
      PROVE  /\ call'[d].answer = "success" => /\ d \in effects' /\ call'[d].of = d
                                               /\ MayAct(asked[d])'
             /\ call'[d].answer = "refused" /\ d \in effects' =>
                   asked[d].op = "cancel" /\ ~ MayAct(asked[d])'
  <2>1. CASE call'[d].answer = call[d].answer /\ call'[d].of = call[d].of
    BY <1>3, <2>1
  <2>2. CASE d = c /\ ~ (call'[d].answer = call[d].answer /\ call'[d].of = call[d].of)
    BY <2>2 DEF QuietStep, GoodAnswer
  <2> QED BY <2>1, <2>2 DEF QuietStep
<1>5. effects' \subseteq Calls
  BY CommittedAsk DEF QuietStep
<1> QED BY <1>1, <1>2, <1>4, <1>5 DEF SuccessesCommitted, EffectsAreEntitled

LEMMA QuietKeeps ==
    ASSUME ApiInv, NEW c, QuietStep(c)
    PROVE  ApiInv'
<1>1. EffectsDone' /\ RowsOfTheirOwn'
  BY QuietKeepsDone
<1>2. SuccessesCommitted' /\ EffectsAreEntitled'
  BY <1>1, QuietKeepsEntitled
<1>3. RequestsTyped'
  BY DEF ApiInv, RequestsTyped, QuietStep
<1>4. CheckedOwn'
  <2> SUFFICES ASSUME NEW d \in checked'
               PROVE  /\ d \in Calls /\ ~ Idem!At(d, "unsent")'
                      /\ Scoped(asked[d])' /\ Owns(asked[d])'
    BY DEF CheckedOwn
  <2>1. d \in Calls /\ ~ Idem!At(d, "unsent") /\ Scoped(asked[d]) /\ Owns(asked[d])
    BY DEF ApiInv, CheckedOwn, QuietStep
  <2>2. PICK req : req = asked[d]
    OBVIOUS
  <2>3. req = asked'[d] /\ Owns(req)'
    BY <2>1, <2>2, RequestStays DEF QuietStep
  <2>4. Scoped(asked[d])'
    BY <2>1, <2>2, <2>3 DEF Scoped
  <2> QED BY <2>1, <2>3, <2>4 DEF QuietStep
<1> QED BY <1>1, <1>2, <1>3, <1>4 DEF ApiInv, QuietStep

-----------------------------------------------------------------------------
(* The steps, one by one.  Most leave the tables alone.                    *)
SameTables == UNCHANGED <<storeVars, subscription, made>>

LEMMA TablesStay ==
    ASSUME TablesTyped, SameTables
    PROVE  TablesTyped' /\ KeepsRows
<1>1. UNCHANGED Store!vars /\ subscription' = subscription /\ made' = made
      /\ payment' = payment /\ refund' = refund
  BY DEF SameTables, storeVars, Store!vars
<1>2. TablesTyped'
  BY <1>1, StoreTypeStep DEF TablesTyped, SubscriptionsTyped
<1> QED BY <1>1, <1>2 DEF KeepsRows, KeepsPayments, KeepsRefunds, KeepsSubscriptions

(* A call's row after an assignment to some of its fields.                 *)
LEMMA CallMoves ==
    ASSUME call \in [Calls -> IP!CallRows], NEW c \in Calls, NEW pc,
           call' = [call EXCEPT ![c].pc = pc]
    PROVE  /\ call'[c].pc = pc /\ call'[c].answer = call[c].answer
           /\ call'[c].of = call[c].of
           /\ \A d \in Calls : d # c => call'[d] = call[d]
<1>1. PICK row : row = [call[c] EXCEPT !.pc = pc] /\ call' = [call EXCEPT ![c] = row]
  BY Zenon
<1>2. row.pc = pc /\ row.answer = call[c].answer /\ row.of = call[c].of
  BY <1>1 DEF IP!CallRows
<1> QED BY <1>1, <1>2

LEMMA CallAnswers ==
    ASSUME call \in [Calls -> IP!CallRows], NEW c \in Calls, NEW pc, NEW answer, NEW of,
           call' = [call EXCEPT ![c].pc = pc, ![c].answer = answer, ![c].of = of]
    PROVE  /\ call'[c].pc = pc /\ call'[c].answer = answer /\ call'[c].of = of
           /\ \A d \in Calls : d # c => call'[d] = call[d]
<1>1. PICK row : /\ row = [call[c] EXCEPT !.pc = pc, !.answer = answer, !.of = of]
                 /\ call' = [call EXCEPT ![c] = row]
  BY Zenon
<1>2. row.pc = pc /\ row.answer = answer /\ row.of = of
  BY <1>1 DEF IP!CallRows
<1> QED BY <1>1, <1>2

(* The frame of a step of call c that sends nothing.                       *)
Frame(c) ==
    /\ ApiInv /\ IP!IdempotencyInv' /\ c \in Calls /\ ~ Idem!At(c, "unsent")
    /\ asked' = asked

(* A call ends without a success.                                          *)
LEMMA AnswerIsQuiet ==
    ASSUME NEW c, Frame(c), NEW answer, NEW of, answer # "success", Idem!Answered(c, answer, of),
           answer = "refused" => (c \in effects' => asked[c].op = "cancel" /\ ~ MayAct(asked[c])'),
           TablesTyped', KeepsRows, checked' = checked,
           \A d \in effects : made'[d] = made[d],
           \/ effects' = effects
           \/ /\ effects' = effects \cup {c} /\ Idem!At(c, "handle") /\ Done(c)'
              /\ asked[c].op # "cancel" => NewRow(c) /\ MayAct(asked[c])
    PROVE  ApiInv'
<1>1. /\ call \in [Calls -> IP!CallRows] /\ c \in Calls
      /\ call' = [call EXCEPT ![c].pc = "done", ![c].answer = answer, ![c].of = of]
  BY CallFacts DEF Frame, Idem!Answered
<1>2. /\ call'[c].pc = "done" /\ call'[c].answer = answer /\ call'[c].of = of
      /\ \A d \in Calls : d # c => call'[d] = call[d]
  BY <1>1, CallAnswers, Zenon
<1>3. \A d \in Calls : Idem!At(d, "unsent")' <=> Idem!At(d, "unsent")
  BY <1>2 DEF Frame, Idem!At
<1>4. GoodAnswer(c)
  BY <1>2 DEF GoodAnswer
<1>5. QuietStep(c)
  BY <1>2, <1>3, <1>4 DEF QuietStep, Frame
<1> QED BY <1>5, QuietKeeps DEF Frame

(* The same for a step that writes nothing.                                *)
LEMMA AnswerAlone ==
    ASSUME NEW c, Frame(c), NEW answer, NEW of, answer # "success", Idem!Answered(c, answer, of),
           answer = "refused" => c \notin effects,
           effects' = effects, SameTables, checked' = checked
    PROVE  ApiInv'
<1>1. TablesTyped' /\ KeepsRows
  BY TablesStay DEF Frame, ApiInv
<1>2. made' = made
  BY DEF SameTables
<1> QED BY <1>1, <1>2, AnswerIsQuiet

(* A step that gives no answer and writes nothing.                         *)
LEMMA SilentKeeps ==
    ASSUME ApiInv, IP!IdempotencyInv', asked' = asked, effects' = effects, SameTables,
           checked' = checked,
           \A d \in Calls : /\ Idem!At(d, "unsent")' <=> Idem!At(d, "unsent")
                            /\ call'[d].answer = call[d].answer /\ call'[d].of = call[d].of
    PROVE  ApiInv'
<1>1. TablesTyped' /\ KeepsRows
  BY TablesStay DEF ApiInv
<1>2. made' = made
  BY DEF SameTables
<1>3. PICK c : c = 0
  OBVIOUS
<1>4. GoodAnswer(c) \/ c \notin Calls
  BY DEF GoodAnswer
<1>5. \A d \in checked : d \in checked
  OBVIOUS
<1>6. QuietStep(c)
  BY <1>1, <1>2, <1>4, <1>5 DEF QuietStep
<1> QED BY <1>6, QuietKeeps

LEMMA MiddlewareKeeps ==
    ASSUME ApiInv, IP!IdempotencyInv', Middleware
    PROVE  ApiInv'
<1>1. asked' = asked /\ checked' = checked /\ SameTables
  BY DEF Middleware, SameTables
<1>2. ASSUME NEW c \in Calls, Idem!MissingKey(c) PROVE ApiInv'
  <2>1. Frame(c) /\ Idem!Answered(c, "badRequest", NoRecord) /\ effects' = effects
    BY <1>1, <1>2 DEF Frame, Idem!MissingKey, Idem!At
  <2> QED BY <1>1, <2>1, AnswerAlone
<1>3. ASSUME NEW c \in Calls, Idem!Lookup(c) PROVE ApiInv'
  <2>1. Frame(c) /\ Idem!At(c, "lookup") /\ effects' = effects
    BY <1>1, <1>3 DEF Frame, Idem!Lookup, Idem!At
  <2>2. CASE call' = [call EXCEPT ![c].pc = "handle"]
    <3>1. /\ call'[c].pc = "handle" /\ call'[c].answer = call[c].answer
          /\ call'[c].of = call[c].of
          /\ \A d \in Calls : d # c => call'[d] = call[d]
      BY <2>2, CallFacts, CallMoves
    <3>2. \A d \in Calls : /\ Idem!At(d, "unsent")' <=> Idem!At(d, "unsent")
                           /\ call'[d].answer = call[d].answer /\ call'[d].of = call[d].of
      BY <2>1, <3>1 DEF Idem!At
    <3> QED BY <1>1, <2>1, <3>2, SilentKeeps
  <2>3. ASSUME NEW answer \in {"conflict", "replayed", "error"}, NEW of,
               Idem!Answered(c, answer, of)
        PROVE  ApiInv'
    BY <1>1, <2>1, <2>3, AnswerAlone
  <2>4. PICK response : response = record[call[c].key].response
    OBVIOUS
  <2>5. \/ call' = [call EXCEPT ![c].pc = "handle"]
        \/ Idem!Answered(c, "conflict", NoRecord)
        \/ Idem!Answered(c, "replayed", response)
        \/ Idem!Answered(c, "error", NoRecord)
    BY <1>3, <2>4 DEF Idem!Lookup
  <2> QED BY <2>2, <2>3, <2>5
<1>4. ASSUME NEW c \in Calls, Idem!Put(c) PROVE ApiInv'
  <2>1. Idem!At(c, "put") /\ effects' = effects /\ call' = [call EXCEPT ![c].pc = "done"]
    BY <1>4 DEF Idem!Put
  <2>2. /\ call'[c].pc = "done" /\ call'[c].answer = call[c].answer
        /\ call'[c].of = call[c].of
        /\ \A d \in Calls : d # c => call'[d] = call[d]
    BY <2>1, CallFacts, CallMoves
  <2>3. \A d \in Calls : /\ Idem!At(d, "unsent")' <=> Idem!At(d, "unsent")
                         /\ call'[d].answer = call[d].answer /\ call'[d].of = call[d].of
    BY <2>1, <2>2 DEF Idem!At
  <2> QED BY <1>1, <2>1, <2>3, SilentKeeps
<1>5. ASSUME NEW k \in Keys, Idem!Expire(k) PROVE ApiInv'
  <2>1. /\ effects' = effects
        /\ call' = [c \in Calls |-> IF Idem!At(c, "lookup") /\ call[c].key = k
                                      THEN [call[c] EXCEPT !.known = FALSE] ELSE call[c]]
    BY <1>5 DEF Idem!Expire
  <2>2. ASSUME NEW d \in Calls
        PROVE  /\ Idem!At(d, "unsent")' <=> Idem!At(d, "unsent")
               /\ call'[d].answer = call[d].answer /\ call'[d].of = call[d].of
    <3>1. call[d] \in IP!CallRows
      BY DEF ApiInv, IP!IdempotencyInv, IP!TypeOK
    <3>2. call'[d] = call[d] \/ call'[d] = [call[d] EXCEPT !.known = FALSE]
      BY <2>1
    <3>3. /\ call'[d].pc = call[d].pc /\ call'[d].answer = call[d].answer
          /\ call'[d].of = call[d].of
      BY <3>1, <3>2 DEF IP!CallRows
    <3> QED BY <3>3 DEF Idem!At
  <2> QED BY <1>1, <2>1, <2>2, SilentKeeps
<1>6. ASSUME NEW k \in Keys, Idem!Purge(k) PROVE ApiInv'
  <2>1. call' = call /\ effects' = effects
    BY <1>6 DEF Idem!Purge
  <2> QED BY <1>1, <2>1, SilentKeeps DEF Idem!At
<1> QED BY <1>2, <1>3, <1>4, <1>5, <1>6 DEF Middleware

(* A handler about to write acts for an actor who may act.                 *)
LEMMA ReadyMayAct ==
    ASSUME ApiInv, NEW c \in Calls, Ready(c)
    PROVE  /\ c \notin effects /\ RequestShape(asked[c])
           /\ asked[c].op # "cancel" => MayAct(asked[c])
<1>1. Idem!At(c, "handle") /\ ~ RoleRefused(asked[c]) /\ (Scoped(asked[c]) => c \in checked)
  BY DEF Ready
<1>2. c \notin effects /\ RequestShape(asked[c])
  BY <1>1, CallFacts DEF Idem!At
<1>3. Scoped(asked[c]) => Owns(asked[c])
  BY <1>1 DEF ApiInv, CheckedOwn
<1> HIDE DEF Owns
<1>4. asked[c].op # "cancel" => MayAct(asked[c])
  BY <1>1, <1>2, <1>3 DEF RequestShape, RoleRefused, Scoped, MayAct
<1> QED BY <1>2, <1>4

(* A write that commits, whatever is answered.                             *)
LEMMA CommitFacts ==
    ASSUME NEW c, Frame(c), Ready(c), StoreWrites(c)
    PROVE  /\ TablesTyped' /\ KeepsRows /\ Done(c)'
           /\ \A d \in effects : made'[d] = made[d]
           /\ asked[c].op # "cancel" => NewRow(c) /\ MayAct(asked[c])
           /\ MayAct(asked[c])' <=> ~ Stranger(asked[c])
           /\ Stranger(asked[c]) => asked[c].op = "cancel"
<1>1. c \notin effects /\ RequestShape(asked[c]) /\ TablesTyped /\ effects \subseteq Calls
  BY ReadyMayAct, CallFacts DEF Frame, ApiInv
<1>2. asked[c].op # "cancel" => MayAct(asked[c])
  BY ReadyMayAct DEF Frame
<1>3. WriteFacts(c)
  BY <1>1, WritesDo DEF Frame
<1>4. TablesTyped'
  BY <1>1, <1>3, StoreTypeStep DEF WriteFacts, TablesTyped
<1>5. PICK req : req = asked[c]
  OBVIOUS
<1>6. req = asked'[c]
  BY <1>5 DEF Frame
<1>7. MayAct(req)' <=> ~ Stranger(req)
  <2>1. CASE req.op = "cancel"
    <3>1. req.id \in DOMAIN subscription
      BY <1>5, <2>1 DEF StoreWrites, Created, Subscribed, Captured, RefundCreated, Cancelled
    <3>2. MayAct(req) <=> MayAct(req)'
      BY <1>3, <2>1, <3>1, RequestStays DEF WriteFacts
    <3> QED BY <2>1, <3>2 DEF MayAct
  <2>2. CASE req.op # "cancel"
    <3>1. MayAct(req)'
      BY <1>1, <1>2, <1>3, <1>5, <2>2, RequestStays DEF WriteFacts
    <3> QED BY <2>2, <3>1 DEF Stranger
  <2> QED BY <2>1, <2>2
<1>8. MayAct(asked[c])' <=> ~ Stranger(asked[c])
  BY <1>5, <1>6, <1>7
<1> QED BY <1>1, <1>2, <1>3, <1>4, <1>8 DEF WriteFacts, Stranger

LEMMA WriteKeeps ==
    ASSUME ApiInv, IP!IdempotencyInv', NEW c \in Calls, Write(c)
    PROVE  ApiInv'
<1>1. /\ Ready(c) /\ StoreWrites(c) /\ effects' = effects \cup {c} /\ asked' = asked
      /\ checked' = checked
      /\ \/ ~ Stranger(asked[c]) /\ Succeeded(c)
         \/ Stranger(asked[c]) /\ Idem!Answered(c, "refused", NoRecord)
         \/ Idem!Answered(c, "error", NoRecord)
  BY DEF Write
<1>2. Idem!At(c, "handle") /\ Frame(c)
  BY <1>1 DEF Ready, Frame, Idem!At
<1>3. /\ TablesTyped' /\ KeepsRows /\ Done(c)'
      /\ \A d \in effects : made'[d] = made[d]
      /\ asked[c].op # "cancel" => NewRow(c) /\ MayAct(asked[c])
      /\ MayAct(asked[c])' <=> ~ Stranger(asked[c])
      /\ Stranger(asked[c]) => asked[c].op = "cancel"
  BY <1>1, <1>2, CommitFacts
<1>4. CASE ~ Stranger(asked[c]) /\ Succeeded(c)
  <2>1. /\ call'[c].pc = "put" /\ call'[c].answer = "success" /\ call'[c].of = c
        /\ \A d \in Calls : d # c => call'[d] = call[d]
    BY <1>4, CallFacts, CallAnswers DEF Succeeded
  <2>2. \A d \in Calls : Idem!At(d, "unsent")' <=> Idem!At(d, "unsent")
    BY <1>2, <2>1 DEF Idem!At
  <2>3. GoodAnswer(c)
    BY <1>1, <1>3, <1>4, <2>1 DEF GoodAnswer
  <2>4. QuietStep(c)
    BY <1>1, <1>2, <1>3, <2>1, <2>2, <2>3 DEF QuietStep
  <2> QED BY <2>4, QuietKeeps
<1>5. CASE Stranger(asked[c]) /\ Idem!Answered(c, "refused", NoRecord)
  BY <1>1, <1>2, <1>3, <1>5, AnswerIsQuiet
<1>6. CASE Idem!Answered(c, "error", NoRecord)
  BY <1>1, <1>2, <1>3, <1>6, AnswerIsQuiet
<1> QED BY <1>1, <1>4, <1>5, <1>6

LEMMA RefusalKeeps ==
    ASSUME ApiInv, IP!IdempotencyInv', NEW c \in Calls, Refuse(c) \/ Fail(c)
    PROVE  ApiInv'
<1>1. /\ Idem!At(c, "handle") /\ effects' = effects /\ asked' = asked /\ checked' = checked
      /\ SameTables
      /\ Idem!Answered(c, "refused", NoRecord) \/ Idem!Answered(c, "error", NoRecord)
  BY DEF Refuse, Fail, SameTables
<1>2. Frame(c) /\ c \notin effects
  BY <1>1, CallFacts DEF Frame, Idem!At
<1> QED BY <1>1, <1>2, AnswerAlone

LEMMA CutKeeps ==
    ASSUME ApiInv, IP!IdempotencyInv', NEW c \in Calls, Cut(c)
    PROVE  ApiInv'
<1>1. /\ c \in Idem!Running /\ Idem!Answered(c, "cut", NoRecord)
      /\ \/ effects' = effects
         \/ Idem!At(c, "handle") /\ effects' = effects \cup {c}
      /\ asked' = asked /\ checked' = checked
  BY DEF Cut, Idem!Cut
<1>2. Frame(c)
  BY <1>1 DEF Frame, Idem!Running, Idem!At
<1>3. CASE c \notin effects' \ effects
  <2>1. effects' = effects /\ SameTables
    BY <1>1, <1>3 DEF Cut, SameTables
  <2> QED BY <1>1, <1>2, <2>1, AnswerAlone
<1>4. CASE c \in effects' \ effects
  <2>1. effects' = effects \cup {c} /\ Idem!At(c, "handle") /\ Ready(c) /\ StoreWrites(c)
    BY <1>1, <1>4 DEF Cut
  <2> QED BY <1>1, <1>2, <2>1, CommitFacts, AnswerIsQuiet
<1> QED BY <1>3, <1>4

(* A payment is found to be the merchant's own.                            *)
LEMMA CheckPaymentKeeps ==
    ASSUME ApiInv, IP!IdempotencyInv', NEW c \in Calls, CheckPayment(c)
    PROVE  ApiInv'
<1>1. /\ Idem!At(c, "handle") /\ Scoped(asked[c]) /\ Owns(asked[c])
      /\ checked' = checked \cup {c} /\ asked' = asked /\ call' = call /\ effects' = effects
      /\ SameTables
  BY DEF CheckPayment, idemVars, SameTables
<1>2. TablesTyped' /\ KeepsRows /\ made' = made
  BY <1>1, TablesStay DEF ApiInv, SameTables
<1>3. GoodAnswer(c)
  BY <1>1 DEF GoodAnswer
<1>4. \A d \in checked' : /\ d \in checked \/ d = c
                          /\ c \in Calls /\ ~ Idem!At(c, "unsent")
  BY <1>1 DEF Idem!At
<1>5. QuietStep(c)
  BY <1>1, <1>2, <1>3, <1>4 DEF QuietStep, Idem!At
<1> QED BY <1>5, QuietKeeps

LEMMA SettlementKeeps ==
    ASSUME ApiInv, IP!IdempotencyInv', Settle
    PROVE  ApiInv'
<1>1. UNCHANGED <<record, call, effects, subscription, asked, checked, made>>
  BY DEF Settle, idemVars
<1>2. TablesTyped' /\ KeepsRows
  BY <1>1, SettleKeeps, StoreTypeStep DEF ApiInv, TablesTyped
<1>3. PICK c : c = 0
  OBVIOUS
<1>4. GoodAnswer(c)
  BY <1>1 DEF GoodAnswer
<1>5. QuietStep(c)
  BY <1>1, <1>2, <1>4 DEF QuietStep, Idem!At
<1> QED BY <1>5, QuietKeeps

(* A new request asks for something, and changes nothing else.             *)
LEMMA SendKeeps ==
    ASSUME ApiInv, IP!IdempotencyInv', NEW c \in Calls, NEW k \in Keys \cup {NoKey},
           NEW req \in Requests, Send(c, k, req)
    PROVE  ApiInv'
<1>1. /\ Idem!At(c, "unsent") /\ asked' = [asked EXCEPT ![c] = req]
      /\ effects' = effects /\ checked' = checked /\ SameTables
  BY DEF Send, Idem!Send, SameTables
<1>2. /\ call'[c].pc = "lookup" /\ call'[c].answer = "none"
      /\ \A d \in Calls : d # c => call'[d] = call[d]
  <2>1. call \in [Calls -> IP!CallRows] /\ call[c].answer = "none"
    BY <1>1, CallFacts
  <2>2. PICK b, known : /\ b = BodyOf(req) /\ known = (k # NoKey /\ Idem!Live(k))
                        /\ call' = [call EXCEPT ![c].pc = "lookup", ![c].key = k, ![c].body = b,
                                                ![c].known = known]
    BY Zenon DEF Send, Idem!Send
  <2>3. PICK row : /\ row = [call[c] EXCEPT !.pc = "lookup", !.key = k, !.body = b, !.known = known]
                   /\ call' = [call EXCEPT ![c] = row]
    BY <2>2, Zenon
  <2>4. row.pc = "lookup" /\ row.answer = "none"
    BY <2>1, <2>3 DEF IP!CallRows
  <2> QED BY <2>1, <2>3, <2>4
<1>3. TablesTyped' /\ KeepsRows
  BY <1>1, TablesStay DEF ApiInv
<1>4. /\ payment' = payment /\ refund' = refund /\ subscription' = subscription /\ made' = made
  BY <1>1 DEF SameTables, storeVars
<1>5. RequestsTyped'
  BY <1>1, <1>2 DEF ApiInv, RequestsTyped, Idem!At
<1>6. \A d \in Calls : d # c => asked'[d] = asked[d]
  BY <1>1 DEF ApiInv, RequestsTyped
<1>7. \A d \in effects : d \in Calls /\ d # c
  BY <1>1, CommittedAsk
<1>8. \A d \in Calls : d # c => (MayAct(asked[d])' <=> MayAct(asked[d]))
  BY <1>4, <1>6 DEF MayAct, Owns, Stranger
<1>9. ASSUME NEW d \in effects PROVE Done(d)'
  <2>1. PICK q, i : q = asked[d] /\ i = made[d]
    OBVIOUS
  <2>2. RequestShape(q) /\ RowThere(q, i) /\ Got(q, i)
    BY <2>1, CommittedAsk DEF ApiInv, EffectsDone, Done
  <2>3. RowThere(q, i)' /\ Got(q, i)'
    BY <1>3, <2>2, RequestStays
  <2>4. q = asked'[d] /\ i = made'[d]
    BY <1>4, <1>6, <1>7, <2>1
  <2> QED BY <2>3, <2>4 DEF Done
<1>10. CheckedOwn'
  <2>1. \A d \in checked : d \in Calls /\ d # c
    BY <1>1 DEF ApiInv, CheckedOwn
  <2> QED BY <1>1, <1>2, <1>4, <1>6, <2>1 DEF ApiInv, CheckedOwn, Scoped, Owns, Idem!At
<1>11. EffectsDone' /\ RowsOfTheirOwn'
  BY <1>1, <1>4, <1>6, <1>7, <1>9 DEF ApiInv, EffectsDone, RowsOfTheirOwn, SameWrite
<1>12. SuccessesCommitted'
  BY <1>1, <1>2 DEF ApiInv, SuccessesCommitted
<1>13. EffectsAreEntitled'
  BY <1>1, <1>2, <1>6, <1>7, <1>8 DEF ApiInv, EffectsAreEntitled
<1> QED BY <1>3, <1>5, <1>10, <1>11, <1>12, <1>13 DEF ApiInv

LEMMA NewPaymentType ==
    ASSUME NEW acct \in Accounts, NEW amt \in Amounts
    PROVE  NewPayment(acct, amt, "direct_debit") \in PaymentRows
<1>1. amt \in Nat \ {0}
  BY AmountsAssumption
<1>2. InitialStatus("direct_debit", amt) \in PaymentStatuses
  BY DEF InitialStatus, CardMethods, PaymentStatuses
<1> QED BY <1>1, <1>2 DEF NewPayment, PaymentRows

LEMMA InitKeeps == Init => ApiInv
<1> SUFFICES ASSUME Init PROVE ApiInv
  OBVIOUS
<1>1. IP!IdempotencyInv
  <2>1. IP!Init
    BY SameIdempotency DEF Init
  <2> QED BY <2>1, IdempotencyAssumption, IP!InitHolds DEF Idem!Records, IP!Records
<1>2. /\ effects = {} /\ checked = {} /\ refund = NoRows /\ credited = {}
      /\ \A c \in Calls : Idem!At(c, "unsent") /\ call[c].answer = "none" /\ asked[c] = NoRequest
      /\ asked = [c \in Calls |-> NoRequest] /\ made = [c \in Calls |-> 0]
      /\ balance = [a \in Accounts |-> [balance |-> 0, fees |-> 0]]
  BY DEF Init, Idem!Init, Idem!Unsent, Idem!At
<1>3. PICK mine \in Accounts, other \in Accounts, amt \in Amounts, cust \in Customers :
         /\ payment = [p \in {1, 2} |->
                         NewPayment(IF p = 1 THEN mine ELSE other, amt, "direct_debit")]
         /\ subscription = [s \in {1} |->
                              [merchant |-> mine, customer |-> cust, status |-> "active"]]
  BY DEF Init
<1>4. /\ NewPayment(mine, amt, "direct_debit") \in PaymentRows
      /\ NewPayment(other, amt, "direct_debit") \in PaymentRows
  BY NewPaymentType
<1>5. Store!TypeOK
  <2>1. DOMAIN payment \subseteq PaymentIds /\ payment \in [DOMAIN payment -> PaymentRows]
    BY <1>3, <1>4, RoomAssumption, BoundsAssumption DEF PaymentIds
  <2>2. balance \in [Accounts -> BalanceRows]
    BY <1>2 DEF BalanceRows
  <2>3. /\ DOMAIN refund \subseteq RefundIds /\ refund \in [DOMAIN refund -> RefundRows]
        /\ \A r \in DOMAIN refund : refund[r].payment \in DOMAIN payment
    BY <1>2 DEF NoRows
  <2> QED BY <1>2, <2>1, <2>2, <2>3, LedgerRowsAreOurs DEF Store!TypeOK
<1>6. SubscriptionsTyped
  BY <1>3, RoomAssumption DEF SubscriptionsTyped, SubscriptionRows, SubscriptionIds
<1>7. RequestsTyped /\ TablesTyped
  BY <1>2, <1>5, <1>6 DEF RequestsTyped, TablesTyped
<1> QED BY <1>1, <1>2, <1>7 DEF ApiInv, CheckedOwn, EffectsDone, RowsOfTheirOwn,
           SuccessesCommitted, EffectsAreEntitled

LEMMA NextKeeps == ApiInv /\ [Next]_vars => ApiInv'
<1> SUFFICES ASSUME ApiInv, [Next]_vars PROVE ApiInv'
  OBVIOUS
<1>1. IP!IdempotencyInv'
  BY IdempotencyStep DEF ApiInv
<1>2. ASSUME NEW c \in Calls, NEW k \in Keys \cup {NoKey}, NEW req \in Requests, Send(c, k, req)
      PROVE  ApiInv'
  BY <1>1, <1>2, SendKeeps
<1>3. ASSUME NEW c \in Calls, CheckPayment(c) PROVE ApiInv'
  BY <1>1, <1>3, CheckPaymentKeeps
<1>4. ASSUME NEW c \in Calls, Write(c) PROVE ApiInv'
  BY <1>1, <1>4, WriteKeeps
<1>5. ASSUME NEW c \in Calls, Refuse(c) \/ Fail(c) PROVE ApiInv'
  BY <1>1, <1>5, RefusalKeeps
<1>6. ASSUME NEW c \in Calls, Cut(c) PROVE ApiInv'
  BY <1>1, <1>6, CutKeeps
<1>7. CASE Middleware
  BY <1>1, <1>7, MiddlewareKeeps
<1>8. CASE Settle
  BY <1>1, <1>8, SettlementKeeps
<1>9. CASE UNCHANGED vars
  <2>1. /\ asked' = asked /\ effects' = effects /\ checked' = checked /\ call' = call
        /\ SameTables
    BY <1>9 DEF vars, idemVars, SameTables
  <2> QED BY <1>1, <2>1, SilentKeeps DEF Idem!At
<1> QED BY <1>2, <1>3, <1>4, <1>5, <1>6, <1>7, <1>8, <1>9 DEF Next

(* The invariant is inductive.                                             *)
THEOREM InvariantHolds == Spec => []ApiInv
BY InitKeeps, NextKeeps, PTL DEF Spec

-----------------------------------------------------------------------------
(* Nobody's write lands on a row of another merchant, although the row is  *)
(* read in one step and written in another, and a request that was refused *)
(* has written nothing, except the cancellation that compares afterwards.  *)
THEOREM WritesAreEntitled == Spec => []EffectsAreEntitled
<1>1. ApiInv => EffectsAreEntitled
  BY DEF ApiInv
<1> QED BY <1>1, InvariantHolds, PTL

(* Success, told first-hand or by a replay, means that the row asked for   *)
(* is there and that no other request wrote it, whatever was retried, cut  *)
(* off, or raced for the same key.                                         *)
THEOREM SuccessIsKept == Spec => []SuccessMeansDone
<1>1. ASSUME ApiInv PROVE SuccessMeansDone
  <2> SUFFICES ASSUME NEW c \in Calls, NEW d, d = call[c].of,
                      \/ call[c].answer = "success"
                      \/ call[c].answer = "replayed" /\ KeyOfOneRequest(c)
               PROVE  /\ d \in effects /\ Got(asked[c], made[d])
                      /\ asked[c].op # "cancel" =>
                            \A e \in effects :
                               asked[e].op = asked[c].op /\ made[e] = made[d] => e = d
    BY DEF SuccessMeansDone
  <2>1. d \in effects /\ asked[d] = asked[c]
    <3>1. CASE call[c].answer = "success"
      BY <1>1, <3>1 DEF ApiInv, SuccessesCommitted
    <3>2. CASE call[c].answer = "replayed" /\ KeyOfOneRequest(c)
      <4>1. d \in effects /\ call[d].key = call[c].key
        BY <1>1, <3>2 DEF ApiInv, IP!IdempotencyInv, IP!ReplaysAreGenuine
      <4>2. d \in Calls
        BY <1>1, <4>1, CommittedAsk
      <4> QED BY <3>2, <4>1, <4>2 DEF KeyOfOneRequest
    <3> QED BY <3>1, <3>2
  <2>2. Got(asked[c], made[d])
    BY <1>1, <2>1 DEF ApiInv, EffectsDone, Done
  <2>3. asked[c].op # "cancel" =>
           \A e \in effects : asked[e].op = asked[c].op /\ made[e] = made[d] => e = d
    BY <1>1, <2>1 DEF ApiInv, RowsOfTheirOwn, SameWrite
  <2> QED BY <2>1, <2>2, <2>3
<1> QED BY <1>1, InvariantHolds, PTL

-----------------------------------------------------------------------------
(* The routes move money only by the atomic operations of Ledger.          *)
LEMMA StepOfStore == ApiInv /\ [Next]_vars => [Store!Next]_(Store!vars)
<1> SUFFICES ASSUME ApiInv, [Next]_vars PROVE [Store!Next]_(Store!vars)
  OBVIOUS
<1>1. ASSUME UNCHANGED storeVars PROVE [Store!Next]_(Store!vars)
  BY <1>1 DEF storeVars, Store!vars
<1>2. ASSUME NEW c \in Calls, Ready(c), StoreWrites(c), asked' = asked
      PROVE  [Store!Next]_(Store!vars)
  <2>1. RequestShape(asked[c]) /\ TablesTyped
    BY <1>2, ReadyMayAct DEF ApiInv
  <2> QED BY <1>2, <2>1, WritesDo DEF WriteFacts
<1>3. ASSUME NEW c \in Calls, Write(c) \/ Cut(c) PROVE [Store!Next]_(Store!vars)
  <2>1. \/ UNCHANGED storeVars
        \/ Ready(c) /\ StoreWrites(c) /\ asked' = asked
    BY <1>3 DEF Write, Cut
  <2> QED BY <1>1, <1>2, <2>1
<1>4. ASSUME NEW c \in Calls, NEW k \in Keys \cup {NoKey}, NEW req \in Requests, Send(c, k, req)
      PROVE  [Store!Next]_(Store!vars)
  BY <1>1, <1>4 DEF Send
<1>5. ASSUME NEW c \in Calls, CheckPayment(c) \/ Refuse(c) \/ Fail(c)
      PROVE  [Store!Next]_(Store!vars)
  BY <1>1, <1>5 DEF CheckPayment, Refuse, Fail
<1>6. CASE Settle
  BY <1>6, SettleKeeps DEF ApiInv
<1>7. CASE Middleware \/ UNCHANGED vars
  BY <1>1, <1>7 DEF Middleware, vars
<1> QED BY <1>3, <1>4, <1>5, <1>6, <1>7 DEF Next

(* The two instances of Ledger total the same columns.                     *)
LEMMA SameTotals ==
    /\ \A f, n : SP!Total(f, n) = Store!Total(f, n) /\ SP!Total(f, n) = Total(f, n)
    /\ \A x : SP!Net(x) = Store!Net(x) /\ SP!GripeFee(x) = Store!GripeFee(x)
BY DEF SP!Total, Store!Total, Total, SP!RunningTotal, Store!RunningTotal, RunningTotal,
       SP!Net, Store!Net, SP!GripeFee, Store!GripeFee, SP!DivHalfEven, Store!DivHalfEven,
       SP!GripeFeeBasisPoints, Store!GripeFeeBasisPoints

LEMMA SameColumns ==
    ASSUME NEW a
    PROVE  /\ SP!NetCredits(a) = Store!NetCredits(a) /\ SP!FeeCredits(a) = Store!FeeCredits(a)
           /\ SP!NetDebits(a) = Store!NetDebits(a)   /\ SP!FeeDebits(a) = Store!FeeDebits(a)
           /\ SP!RefundsOf(a) = Store!RefundsOf(a)
<1>1. /\ \A x : SP!CreditedTo(a, x) <=> Store!CreditedTo(a, x)
      /\ \A x : SP!DebitedFrom(a, x) <=> Store!DebitedFrom(a, x)
      /\ SP!PaymentIds = Store!PaymentIds /\ SP!RefundIds = Store!RefundIds
  BY LedgerRowsAreOurs, ProofRowsAreOurs
     DEF SP!CreditedTo, Store!CreditedTo, SP!DebitedFrom, Store!DebitedFrom
<1> QED BY <1>1, SameTotals
    DEF SP!NetCredits, Store!NetCredits, SP!FeeCredits, Store!FeeCredits, SP!NetDebits,
        Store!NetDebits, SP!FeeDebits, Store!FeeDebits, SP!RefundsOf, Store!RefundsOf

(* Two authorized payments, nothing credited: the books begin balanced.    *)
LEMMA BooksBegin == Init => SP!LedgerInv
<1> SUFFICES ASSUME Init PROVE SP!LedgerInv
  OBVIOUS
<1>1. SP!TypeOK
  BY InitKeeps, SameLedger DEF ApiInv, TablesTyped
<1>2. /\ refund = NoRows /\ credited = {}
      /\ \A a \in Accounts : balance[a].balance = 0 /\ balance[a].fees = 0
  BY DEF Init
<1>3. \A p \in DOMAIN payment :
         /\ payment[p].amount \in Nat \ {0} /\ payment[p].refunded = 0
         /\ payment[p].status = "authorized"
  BY AmountsAssumption DEF Init, NewPayment, InitialStatus, CardMethods
<1>4. SP!CreditMatchesStatus
  BY <1>2, <1>3 DEF SP!CreditMatchesStatus
<1>5. ASSUME NEW p PROVE SP!Total(SP!RefundsOf(p), MaxRefunds) = 0
  <2>1. \A r \in 1..MaxRefunds : SP!RefundsOf(p)[r] = 0
    BY <1>2, ProofRowsAreOurs DEF NoRows, SP!RefundsOf, RefundIds
  <2> QED BY <2>1, SameTotals, TotalZero, BoundsAssumption
<1>6. SP!RefundsAddUp
  BY <1>3, <1>5 DEF SP!RefundsAddUp
<1>7. ASSUME NEW a \in Accounts
      PROVE  /\ SP!Total(SP!NetCredits(a), MaxPayments) = 0
             /\ SP!Total(SP!FeeCredits(a), MaxPayments) = 0
             /\ SP!Total(SP!CreditCount(a), MaxPayments) = 0
             /\ SP!Total(SP!NetDebits(a), MaxRefunds) = 0
             /\ SP!Total(SP!FeeDebits(a), MaxRefunds) = 0
             /\ SP!Total(SP!DebitCount(a), MaxRefunds) = 0
  <2>1. \A i \in 1..MaxPayments : /\ SP!NetCredits(a)[i] = 0 /\ SP!FeeCredits(a)[i] = 0
                                  /\ SP!CreditCount(a)[i] = 0
    BY <1>2, ProofRowsAreOurs
       DEF SP!NetCredits, SP!FeeCredits, SP!CreditCount, SP!CreditedTo, PaymentIds
  <2>2. \A i \in 1..MaxRefunds : /\ SP!NetDebits(a)[i] = 0 /\ SP!FeeDebits(a)[i] = 0
                                 /\ SP!DebitCount(a)[i] = 0
    BY <1>2, ProofRowsAreOurs
       DEF NoRows, SP!NetDebits, SP!FeeDebits, SP!DebitCount, SP!DebitedFrom, RefundIds
  <2> QED BY <2>1, <2>2, SameTotals, TotalZero, BoundsAssumption
<1>8. SP!Reconciled /\ SP!FeeDriftBounded
  BY <1>2, <1>7 DEF SP!Reconciled, SP!FeeDriftBounded, SP!GripeFeeBasisPoints
<1> QED BY <1>1, <1>4, <1>6, <1>8 DEF SP!LedgerInv

(* Through the routes too the books are kept: each balance is, to the      *)
(* minor unit, what settled less what was refunded, refunds add up within  *)
(* their payments, statuses agree with the credits, and the reports make   *)
(* up what settled.                                                        *)
THEOREM RoutesKeepTheBooks ==
    Spec => [](/\ Store!Reconciled /\ Store!RefundsAddUp /\ Store!CreditMatchesStatus
               /\ SP!BooksBalance)
<1>1. SP!LedgerInv => Store!Reconciled /\ Store!RefundsAddUp /\ Store!CreditMatchesStatus
  BY SameTotals, SameColumns
     DEF SP!LedgerInv, SP!Reconciled, Store!Reconciled, SP!RefundsAddUp, Store!RefundsAddUp,
         SP!CreditMatchesStatus, Store!CreditMatchesStatus
<1>2. ApiInv /\ SP!LedgerInv /\ [Next]_vars => SP!LedgerInv'
  <2> SUFFICES ASSUME ApiInv, SP!LedgerInv, [Next]_vars PROVE SP!LedgerInv'
    OBVIOUS
  <2>1. SP!IsFiniteSet(Accounts)
    BY AccountsAssumption DEF IsFiniteSet, SP!IsFiniteSet
  <2>2. [SP!Next]_(SP!vars)
    BY StepOfStore, SameLedger
  <2>3. SP!TypeOK /\ [SP!Next]_(SP!vars) => SP!TypeOK'
    BY <2>1, BoundsAssumption, AmountsAssumption, SP!TypeStep
  <2>4. SP!LedgerInv /\ SP!TypeOK' /\ [SP!Next]_(SP!vars) => SP!LedgerInv'
    BY <2>1, BoundsAssumption, AmountsAssumption, SP!StepKeepsInv
  <2> QED BY <2>2, <2>3, <2>4 DEF SP!LedgerInv
<1>3. SP!LedgerInv => SP!BooksBalance
  <2>1. SP!IsFiniteSet(Accounts)
    BY AccountsAssumption DEF IsFiniteSet, SP!IsFiniteSet
  <2> QED BY <2>1, BoundsAssumption, AmountsAssumption, SP!BooksOfCurrency DEF SP!LedgerInv
<1> QED BY <1>1, <1>2, <1>3, BooksBegin, InvariantHolds, PTL DEF Spec

=============================================================================
