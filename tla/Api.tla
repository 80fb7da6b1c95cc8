--------------------------------- MODULE Api --------------------------------
(***************************************************************************)
(* The POST routes of internal/api: the idempotency middleware (module     *)
(* Idempotency) around handlers that check the actor and call the store    *)
(* (module Ledger, whose operations are atomic), and the settlement        *)
(* routes, which have no middleware.                                       *)
(*                                                                         *)
(* An account stands for its merchant.  The statuses that matter here are  *)
(* those of a direct debit, which has to be captured.                      *)
(***************************************************************************)
EXTENDS LedgerRows

CONSTANTS
    Calls, Keys, NoKey, NoRecord, Purges,   \* those of Idempotency
    Customers,
    MaxSubscriptions,   \* bound: subscription rows
    Requests,           \* bound: the requests clients send
    Admin               \* the id admins come with

VARIABLES
    record, call, effects,                  \* those of Idempotency
    payment, refund, balance, credited,     \* those of Ledger
    subscription,   \* the subscriptions table
    asked,          \* what each call asks for
    checked,        \* calls whose handler has found the payment to be its merchant's
    made            \* history: the row each committed call wrote

Store == INSTANCE Ledger

SubscriptionIds == 1..MaxSubscriptions

Actors == [role : {"admin"}, id : {Admin}] \cup [role : {"merchant"}, id : Accounts]
             \cup [role : {"customer"}, id : Customers]

(* A request names the merchant it creates for, or the row it acts on.     *)
AllRequests ==
    [op : {"create"}, actor : Actors, merchant : Accounts, amount : Amounts]
    \cup [op : {"subscribe"}, actor : Actors, merchant : Accounts, customer : Customers]
    \cup [op : {"capture"}, actor : Actors, id : PaymentIds]
    \cup [op : {"refund"}, actor : Actors, id : PaymentIds, amount : RefundAmounts]
    \cup [op : {"cancel"}, actor : Actors, id : SubscriptionIds]

ASSUME RequestsAssumption == Requests \subseteq AllRequests
(* The bounds leave room for the rows that are there from the start.       *)
ASSUME RoomAssumption == MaxPayments >= 2 /\ MaxSubscriptions \in Nat \ {0}

(* What the middleware hashes.  The path is not in it: captures and        *)
(* cancellations all have the empty body, refunds only their amount.       *)
BodyOf(req) ==
    CASE req.op = "create"    -> <<"create", req.merchant, req.amount>>
      [] req.op = "subscribe" -> <<"subscribe", req.merchant, req.customer>>
      [] req.op = "refund"    -> <<"refund", req.amount>>
      [] OTHER                -> <<"empty">>

Idem == INSTANCE Idempotency WITH Bodies <- {BodyOf(req) : req \in Requests}

(* What Idempotency assumes of its constants.                              *)
ASSUME IdempotencyAssumption ==
    NoKey \notin Keys /\ Purges \in BOOLEAN /\ NoRecord \notin Idem!Records

NoRequest == [op |-> "none"]

idemVars  == <<record, call, effects>>
storeVars == <<payment, refund, balance, credited>>
vars      == <<idemVars, storeVars, subscription, asked, checked, made>>

-----------------------------------------------------------------------------
(* Two payments by direct debit and a subscription were made before.       *)
Init ==
    /\ Idem!Init
    /\ \E mine \in Accounts, other \in Accounts, amt \in Amounts, cust \in Customers :
          /\ mine # other
          /\ payment = [p \in {1, 2} |-> NewPayment(IF p = 1 THEN mine ELSE other, amt, "direct_debit")]
          /\ subscription = [s \in {1} |-> [merchant |-> mine, customer |-> cust, status |-> "active"]]
    /\ refund = NoRows
    /\ balance = [a \in Accounts |-> [balance |-> 0, fees |-> 0]]
    /\ credited = {}
    /\ asked = [c \in Calls |-> NoRequest]
    /\ checked = {}
    /\ made = [c \in Calls |-> 0]

Send(c, k, req) ==
    /\ Idem!Send(c, k, BodyOf(req))
    /\ asked' = [asked EXCEPT ![c] = req]
    /\ UNCHANGED <<storeVars, subscription, checked, made>>

(* What the middleware does around the handler.                            *)
Middleware ==
    /\ \/ \E c \in Calls : Idem!MissingKey(c) \/ Idem!Lookup(c) \/ Idem!Put(c)
       \/ \E k \in Keys : Idem!Expire(k) \/ Idem!Purge(k)
    /\ UNCHANGED <<storeVars, subscription, asked, checked, made>>

-----------------------------------------------------------------------------
(* The checks that look at the request alone.  A merchant's request for    *)
(* another merchant is refused; one that names none is scoped to itself.   *)
RoleRefused(req) ==
    \/ req.op = "create" /\ req.actor.role = "admin"
    \/ req.op \in {"subscribe", "capture", "refund"} /\ req.actor.role = "customer"
    \/ req.op \in {"create", "subscribe"} /\ req.actor.role = "merchant" /\ req.merchant # req.actor.id

\* Mutant: captures are not scoped to the merchant.
ScopedRefundsOnly(req) == req.op = "refund" /\ req.actor.role = "merchant"

(* A merchant's captures and refunds call GetPayment first.                *)
Scoped(req) == req.op \in {"capture", "refund"} /\ req.actor.role = "merchant"

Owns(req) == req.id \in DOMAIN payment /\ payment[req.id].account = req.actor.id

(* The handler is past its checks and about to call the store.             *)
Ready(c) ==
    /\ Idem!At(c, "handle")
    /\ ~ RoleRefused(asked[c])
    /\ Scoped(asked[c]) => c \in checked

CheckPayment(c) ==
    /\ Idem!At(c, "handle") /\ Scoped(asked[c]) /\ c \notin checked
    /\ Owns(asked[c])
    /\ checked' = checked \cup {c}
    /\ UNCHANGED <<idemVars, storeVars, subscription, asked, made>>

(* Ids are drawn at random; any unused one will do.                        *)
Fresh(ids, table) == CHOOSE i \in ids \ DOMAIN table : \A j \in ids \ DOMAIN table : i <= j

HasRoom(ids, table) == ids \ DOMAIN table # {}

(* The store's write for c's request, and the row it wrote.                *)
Created(c) ==
    LET p == Fresh(PaymentIds, payment)
    IN  /\ asked[c].op = "create" /\ HasRoom(PaymentIds, payment)
        /\ Store!CreatePayment(p, asked[c].merchant, asked[c].amount, "direct_debit")
        /\ made' = [made EXCEPT ![c] = p]
        /\ UNCHANGED subscription

Subscribed(c) ==
    LET s == Fresh(SubscriptionIds, subscription)
    IN  /\ asked[c].op = "subscribe" /\ HasRoom(SubscriptionIds, subscription)
        /\ subscription' = Insert(subscription, s, [merchant |-> asked[c].merchant,
                                    customer |-> asked[c].customer, status |-> "active"])
        /\ made' = [made EXCEPT ![c] = s]
        /\ UNCHANGED storeVars

\* Mutant: a capture of what is past capturing is taken for a repeated one.
CapturedTolerantly(c) ==
    /\ asked[c].op = "capture" /\ asked[c].id \in DOMAIN payment
    /\ \/ Store!CapturePayment(asked[c].id)
       \/ payment[asked[c].id].status # "authorized" /\ UNCHANGED storeVars
    /\ made' = [made EXCEPT ![c] = asked[c].id]
    /\ UNCHANGED subscription

Captured(c) ==
    /\ asked[c].op = "capture"
    /\ Store!CapturePayment(asked[c].id)
    /\ made' = [made EXCEPT ![c] = asked[c].id]
    /\ UNCHANGED subscription

RefundCreated(c) ==
    LET r == Fresh(RefundIds, refund)
    IN  /\ asked[c].op = "refund" /\ HasRoom(RefundIds, refund)
        /\ Store!RefundPayment(asked[c].id, r, asked[c].amount)
        /\ made' = [made EXCEPT ![c] = r]
        /\ UNCHANGED subscription

(* No status guard: cancelling what is cancelled succeeds again.           *)
Cancelled(c) ==
    /\ asked[c].op = "cancel" /\ asked[c].id \in DOMAIN subscription
    /\ subscription' = [subscription EXCEPT ![asked[c].id].status = "cancelled"]
    /\ made' = [made EXCEPT ![c] = asked[c].id]
    /\ UNCHANGED storeVars

StoreWrites(c) == Created(c) \/ Subscribed(c) \/ Captured(c) \/ RefundCreated(c) \/ Cancelled(c)

(* cancelSubscription compares the actor with the row it has cancelled.    *)
Stranger(req) ==
    /\ req.op = "cancel" /\ req.id \in DOMAIN subscription
    /\ \/ req.actor.role = "merchant" /\ subscription[req.id].merchant # req.actor.id
       \/ req.actor.role = "customer" /\ subscription[req.id].customer # req.actor.id

Succeeded(c) == call' = [call EXCEPT ![c].pc = "put", ![c].answer = "success", ![c].of = c]

\* Mutant: a stranger is refused, and the refusal is kept for replay.
WriteKeepingRefusals(c) ==
    /\ Ready(c) /\ StoreWrites(c)
    /\ effects' = effects \cup {c}
    /\ \/ ~ Stranger(asked[c]) /\ Succeeded(c)
       \/ Stranger(asked[c]) /\ call' = [call EXCEPT ![c].pc = "put", ![c].answer = "refused"]
    /\ UNCHANGED <<record, asked, checked>>

(* The store commits, and the handler answers: with the row, or with an    *)
(* error when the answer to the commit was lost.                           *)
Write(c) ==
    /\ Ready(c) /\ StoreWrites(c)
    /\ effects' = effects \cup {c}
    /\ \/ ~ Stranger(asked[c]) /\ Succeeded(c)
       \/ Stranger(asked[c]) /\ Idem!Answered(c, "refused", NoRecord)
       \/ Idem!Answered(c, "error", NoRecord)
    /\ UNCHANGED <<record, asked, checked>>

(* The store has no such row, or not in the state the operation asks for.  *)
StoreRefuses(req) ==
    \/ req.op = "capture" /\ ~ (req.id \in DOMAIN payment /\ payment[req.id].status = "authorized")
    \/ req.op = "refund" /\ ~ (req.id \in DOMAIN payment /\ Refundable(payment[req.id], req.amount))
    \/ req.op = "cancel" /\ req.id \notin DOMAIN subscription

(* A refusal: of the role, of the payment's owner, or of the store.        *)
Refuse(c) ==
    /\ Idem!At(c, "handle")
    /\ \/ RoleRefused(asked[c])
       \/ Scoped(asked[c]) /\ c \notin checked /\ ~ Owns(asked[c])
       \/ Ready(c) /\ StoreRefuses(asked[c])
    /\ Idem!Answered(c, "refused", NoRecord)
    /\ UNCHANGED <<record, effects, storeVars, subscription, asked, checked, made>>

(* A statement failed: 500, nothing written.                               *)
Fail(c) ==
    /\ Idem!At(c, "handle")
    /\ Idem!Answered(c, "error", NoRecord)
    /\ UNCHANGED <<record, effects, storeVars, subscription, asked, checked, made>>

(* The client gives up or the process dies: before the commit or after it. *)
Cut(c) ==
    /\ Idem!Cut(c)
    /\ \/ c \notin effects' \ effects /\ UNCHANGED <<storeVars, subscription, made>>
       \/ c \in effects' \ effects /\ Ready(c) /\ StoreWrites(c)
    /\ UNCHANGED <<asked, checked>>

(* requireAdmin, then the store: nothing is read before the write.         *)
Settle ==
    /\ \/ \E p \in PaymentIds : Store!SettlePayment(p)
       \/ \E r \in RefundIds : Store!SettleRefund(r)
    /\ UNCHANGED <<idemVars, subscription, asked, checked, made>>

Next ==
    \/ \E c \in Calls :
          \/ \E k \in Keys \cup {NoKey}, req \in Requests : Send(c, k, req)
          \/ CheckPayment(c) \/ Write(c) \/ Refuse(c) \/ Fail(c) \/ Cut(c)
    \/ Middleware
    \/ Settle

Spec == Init /\ [][Next]_vars

-----------------------------------------------------------------------------
(* The middleware composed with the real handlers is the middleware that   *)
(* Idempotency checks around any handler: two-step handlers, refusals      *)
(* after a commit and lost answers are all steps that module allows.       *)
ImplementsIdempotency == Idem!Spec

MayAct(req) ==
    CASE req.op = "create"    -> \/ req.actor.role = "customer"
                                 \/ req.actor.role = "merchant" /\ req.merchant = req.actor.id
      [] req.op = "subscribe" -> \/ req.actor.role = "admin"
                                 \/ req.actor.role = "merchant" /\ req.merchant = req.actor.id
      [] req.op = "cancel"    -> ~ Stranger(req)
      [] OTHER                -> \/ req.actor.role = "admin"
                                 \/ req.actor.role = "merchant" /\ Owns(req)

(* No write by an actor who may not act on the row, although owner and row *)
(* are read in one step and the row is written in another, and no refused  *)
(* request has written: except that anybody can cancel any subscription,   *)
(* and is then refused.                                                    *)
EffectsAreEntitled ==
    /\ \A c \in effects : asked[c].op # "cancel" => MayAct(asked[c])
    /\ \A c \in effects : call[c].answer = "refused" => asked[c].op = "cancel" /\ ~ MayAct(asked[c])
    /\ \A c \in Calls : call[c].answer = "success" => MayAct(asked[c])

(* Row i is what req asked for, and got by a write of its own.             *)
Got(req, i) ==
    CASE req.op = "create"    -> i \in DOMAIN payment /\ payment[i].account = req.merchant
                                                      /\ payment[i].amount = req.amount
      [] req.op = "subscribe" -> i \in DOMAIN subscription /\ subscription[i].merchant = req.merchant
      [] req.op = "capture"   -> i = req.id /\ payment[i].status \in {"captured", "settled", "refunded"}
      [] req.op = "refund"    -> i \in DOMAIN refund /\ refund[i].payment = req.id
                                                     /\ refund[i].amount = req.amount
      [] req.op = "cancel"    -> i = req.id /\ subscription[i].status = "cancelled"

(* No other request was ever sent under c's key.                           *)
KeyOfOneRequest(c) ==
    \A d \in Calls : call[d].key = call[c].key => asked[d] = asked[c]

(* A client told of success, first-hand or by a replay, has what it asked  *)
(* for in the tables, and no other committed call made that row: captured  *)
(* at most once, a refund or payment of its own.  For replays the client   *)
(* must not reuse a key on another path: the middleware compares bodies.   *)
SuccessMeansDone ==
    \A c \in Calls :
       LET d == call[c].of
       IN  \/ call[c].answer = "success"
           \/ call[c].answer = "replayed" /\ KeyOfOneRequest(c)
           => /\ d \in effects /\ Got(asked[c], made[d])
              /\ asked[c].op # "cancel" =>
                    \A e \in effects : asked[e].op = asked[c].op /\ made[e] = made[d] => e = d

=============================================================================
