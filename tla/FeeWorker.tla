----------------------------- MODULE FeeWorker ------------------------------
(***************************************************************************)
(* payment.created from the API to the network fee: createPayment's        *)
(* publish (internal/api/payments.go, internal/events), the SQS queue, and *)
(* the receive loop of cmd/fee-worker, which records the fee set-once.     *)
(*                                                                         *)
(* The queue is external: at-least-once, unordered, with a visibility      *)
(* timeout.  Its retention (4 days) is taken to be longer than any outage. *)
(***************************************************************************)
EXTENDS GripeDomain, FiniteSets, Sequences

CONSTANTS
    Payments,       \* bound: the payments ever created
    AmountOf,       \* the amount of each
    Junk,           \* messages that do not decode
    Strays,         \* messages that decode but name no payment
    FeeWorkers,     \* the fee-worker processes
    FeeBatch,       \* messages per receive (10)
    Surcharges,     \* what releases of the worker add to mockNetworkFee
    MaxFeeFaults    \* bound: failed calls, crashes and early timeouts

ASSUME FeeWorkerBounds ==
    /\ IsFiniteSet(Payments) /\ AmountOf \in [Payments -> Nat \ {0}]
    /\ Payments \cap (Junk \cup Strays) = {} /\ Junk \cap Strays = {}
    /\ FeeBatch \in Nat \ {0} /\ MaxFeeFaults \in Nat /\ Surcharges \subseteq Nat

VARIABLES
    payment,        \* each payment, from its creation to its event
    fee,            \* network_fee_minor, 0 while unset
    queue,          \* each message: absent, visible or hidden (in flight)
    feeWorker,      \* each worker's release, the messages it took, its step
    feeFaults       \* history: what went wrong so far

feeVars == <<payment, fee, queue, feeWorker, feeFaults>>

Messages == Payments \cup Junk \cup Strays

FeeFault == feeFaults < MaxFeeFaults /\ feeFaults' = feeFaults + 1

FeeItem(w) == Head(feeWorker[w].batch)

FeeBusy(w, step) == feeWorker[w].batch # <<>> /\ feeWorker[w].step = step

NextMessage(w) ==
    feeWorker' = [feeWorker EXCEPT ![w].batch = Tail(@), ![w].step = "settle"]

FeeInit ==
    /\ payment = [p \in Payments |-> "not created"]
    /\ fee = [p \in Payments |-> 0]
    /\ queue = [m \in Messages |-> "absent"]
    /\ feeWorker \in [FeeWorkers -> [release : Surcharges, batch : {<<>>}, step : {"settle"}]]
    /\ feeFaults = 0

-----------------------------------------------------------------------------
(* The payment row is committed: by createPayment, which publishes unless  *)
(* it was declined, or by the cycler, which never does.                    *)
CommitPayment(p) ==
    /\ payment[p] = "not created"
    /\ \E next \in {IF InitialStatus("card", AmountOf[p]) = "declined" THEN "declined"
                                                                      ELSE "unpublished",
                    "by cycler"} :
          payment' = [payment EXCEPT ![p] = next]
    /\ UNCHANGED <<fee, queue, feeWorker, feeFaults>>

\* Mutant: declined payments are published too.
PublishDeclined(p) ==
    /\ payment[p] \in {"unpublished", "declined"}
    /\ payment' = [payment EXCEPT ![p] = "published"]
    /\ queue' = [queue EXCEPT ![p] = "visible"]
    /\ UNCHANGED <<fee, feeWorker, feeFaults>>

(* The handler's SendMessage after the commit: it is sent, or it fails or  *)
(* the process dies first and nobody tries again (the error is logged); a  *)
(* send that is reported as failed may still have been accepted.           *)
Publish(p) ==
    /\ payment[p] = "unpublished"
    /\ \/ /\ payment' = [payment EXCEPT ![p] = "published"]
          /\ queue' = [queue EXCEPT ![p] = "visible"]
          /\ UNCHANGED feeFaults
       \/ /\ FeeFault
          /\ payment' = [payment EXCEPT ![p] = "send failed"]
          /\ queue' \in {queue, [queue EXCEPT ![p] = "visible"]}
    /\ UNCHANGED <<fee, feeWorker>>

(* Something else puts a message on the queue.                             *)
Intrude(m) ==
    /\ m \in Junk \cup Strays /\ queue[m] = "absent"
    /\ FeeFault
    /\ queue' = [queue EXCEPT ![m] = "visible"]
    /\ UNCHANGED <<payment, fee, feeWorker>>

(* ReceiveMessage: some visible messages, in any order; they are hidden.   *)
Receive(w) ==
    /\ feeWorker[w].batch = <<>>
    /\ \E n \in 1..FeeBatch : \E taken \in [1..n -> {m \in Messages : queue[m] = "visible"}] :
          /\ \A i, j \in 1..n : i # j => taken[i] # taken[j]
          /\ feeWorker' = [feeWorker EXCEPT ![w].batch = taken]
          /\ queue' = [m \in Messages |-> IF \E i \in 1..n : taken[i] = m THEN "hidden" ELSE queue[m]]
    /\ UNCHANGED <<payment, fee, feeFaults>>

(* The visibility timeout of a message no worker holds any more; or, early, *)
(* of one that is still being worked on.                                    *)
Held(m) == \E w \in FeeWorkers : \E i \in DOMAIN feeWorker[w].batch : feeWorker[w].batch[i] = m

Timeout(m) ==
    /\ queue[m] = "hidden"
    /\ IF Held(m) THEN FeeFault ELSE UNCHANGED feeFaults
    /\ queue' = [queue EXCEPT ![m] = "visible"]
    /\ UNCHANGED <<payment, fee, feeWorker>>

\* Mutant: every delivery adds its fee.
SetFeeAdding(w, p) == fee' = [fee EXCEPT ![p] = @ + MockNetworkFee(AmountOf[p]) + feeWorker[w].release]

(* SettleNetworkFee: the first fee sticks.                                 *)
SetFee(w, p) ==
    fee' = IF fee[p] = 0
             THEN [fee EXCEPT ![p] = MockNetworkFee(AmountOf[p]) + feeWorker[w].release] ELSE fee

\* Mutant: a failed SettleNetworkFee is logged and the message deleted.
SettleIgnoringErrors(w) ==
    LET m == FeeItem(w)
    IN  /\ FeeBusy(w, "settle")
        /\ \/ m \in Junk \cup Strays /\ UNCHANGED <<fee, feeFaults>>
           \/ m \in Payments /\ SetFee(w, m) /\ UNCHANGED feeFaults
           \/ m \in Payments /\ FeeFault /\ UNCHANGED fee
        /\ feeWorker' = [feeWorker EXCEPT ![w].step = "delete"]
        /\ UNCHANGED <<payment, queue>>

\* Mutant: what does not decode is skipped like a failed call.
SettleSkippingJunk(w) ==
    LET m == FeeItem(w)
    IN  /\ FeeBusy(w, "settle")
        /\ \/ m \in Junk \cup Strays /\ NextMessage(w) /\ UNCHANGED <<fee, feeFaults>>
           \/ /\ m \in Payments /\ SetFee(w, m)
              /\ feeWorker' = [feeWorker EXCEPT ![w].step = "delete"]
              /\ UNCHANGED feeFaults
        /\ UNCHANGED <<payment, queue>>

(* One message.  One that does not decode goes on to be deleted.  An event *)
(* records its fee, or the call fails, though perhaps done, and the        *)
(* message is left alone; and so it is, every time, when SettleNetworkFee  *)
(* finds no payment of its name.                                           *)
Settle(w) ==
    LET m == FeeItem(w)
    IN  /\ FeeBusy(w, "settle")
        /\ \/ /\ m \in Junk
              /\ feeWorker' = [feeWorker EXCEPT ![w].step = "delete"]
              /\ UNCHANGED <<fee, feeFaults>>
           \/ /\ m \in Payments /\ SetFee(w, m)
              /\ feeWorker' = [feeWorker EXCEPT ![w].step = "delete"]
              /\ UNCHANGED feeFaults
           \/ /\ m \in Payments /\ FeeFault /\ NextMessage(w)
              /\ UNCHANGED fee \/ SetFee(w, m)
           \/ m \in Strays /\ NextMessage(w) /\ UNCHANGED <<fee, feeFaults>>
        /\ UNCHANGED <<payment, queue>>

(* DeleteMessage, its error ignored: by then the message may be visible    *)
(* again or with another worker, and a stale receipt need not delete it.   *)
Delete(w) ==
    LET m     == FeeItem(w)
        stale == \/ queue[m] # "hidden"
                 \/ \E v \in FeeWorkers \ {w} :
                       \E i \in DOMAIN feeWorker[v].batch : feeWorker[v].batch[i] = m
    IN  /\ FeeBusy(w, "delete")
        /\ NextMessage(w)
        /\ \/ queue' = [queue EXCEPT ![m] = "absent"] /\ UNCHANGED feeFaults
           \/ stale /\ UNCHANGED <<queue, feeFaults>>
           \/ FeeFault /\ UNCHANGED queue
        /\ UNCHANGED <<payment, fee>>

(* A worker stops, its batch undone, and is started again, perhaps as      *)
(* another release.                                                        *)
Restart(w) ==
    /\ FeeFault
    /\ \E r \in Surcharges :
          feeWorker' = [feeWorker EXCEPT ![w] = [release |-> r, batch |-> <<>>, step |-> "settle"]]
    /\ UNCHANGED <<payment, fee, queue>>

FeeWork(w) == Receive(w) \/ Settle(w) \/ Delete(w)

FeeNext ==
    \/ \E p \in Payments : CommitPayment(p) \/ Publish(p)
    \/ \E m \in Messages : Intrude(m) \/ Timeout(m)
    \/ \E w \in FeeWorkers : FeeWork(w) \/ Restart(w)

(* Some worker receives m, perhaps with others.                            *)
Delivered(m) ==
    /\ queue[m] = "visible"
    /\ \E w \in FeeWorkers : Receive(w)
    /\ queue'[m] = "hidden"

(* The worker loops and is restarted when it dies; SQS returns what is in  *)
(* flight once its timeout is over, and passes no message over for ever,   *)
(* however often others are received instead.                              *)
FeeSpec ==
    /\ FeeInit /\ [][FeeNext]_feeVars
    /\ \A w \in FeeWorkers : WF_feeVars(FeeWork(w))
    /\ \A m \in Messages : WF_feeVars(~ Held(m) /\ Timeout(m)) /\ SF_feeVars(Delivered(m))

-----------------------------------------------------------------------------
(* Well-formed state; a fee is that of some release.                       *)
FeeTypeOK ==
    /\ payment \in [Payments -> {"not created", "declined", "unpublished", "by cycler",
                                 "published", "send failed"}]
    /\ \A p \in Payments : fee[p] \in {0} \cup {MockNetworkFee(AmountOf[p]) + x : x \in Surcharges}
    /\ queue \in [Messages -> {"absent", "visible", "hidden"}]
    /\ \A w \in FeeWorkers :
          /\ feeWorker[w].release \in Surcharges
          /\ feeWorker[w].batch \in Seq(Messages) /\ Len(feeWorker[w].batch) <= FeeBatch
          /\ feeWorker[w].step \in {"settle", "delete"}
    /\ feeFaults \in 0..MaxFeeFaults

(* A published payment without a fee still has its message: crashes,       *)
(* failures, early timeouts and stale deletes lose no work.                *)
NoEventLost ==
    \A p \in Payments : payment[p] = "published" /\ fee[p] = 0 => queue[p] # "absent"

(* Only payments whose event was sent pay a network fee; a declined one is *)
(* never charged one.                                                      *)
OnlyPublishedPay ==
    \A p \in Payments : fee[p] # 0 =>
       /\ payment[p] \in {"published", "send failed"}
       /\ InitialStatus("card", AmountOf[p]) # "declined"

(* The first fee stays, whatever later deliveries and releases compute.    *)
FirstFeeStays ==
    [][\A p \in Payments : fee[p] # 0 => fee'[p] = fee[p]]_feeVars

(* Every published payment gets its fee.                                   *)
PublishedGetsFee ==
    \A p \in Payments : payment[p] = "published" ~> fee[p] # 0

(* A payment's event and a message that does not decode are deleted in the *)
(* end, through failed deletes and late ones, with messages that name no   *)
(* payment going round among them for ever.                                *)
QueueDrains ==
    \A m \in Payments \cup Junk : queue[m] # "absent" ~> queue[m] = "absent"

=============================================================================
