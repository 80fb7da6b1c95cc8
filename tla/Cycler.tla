------------------------------- MODULE Cycler -------------------------------
(***************************************************************************)
(* internal/cycler/cycler.go with the store operations it drives: workers  *)
(* poll the due subscriptions, create each cycle's payment and move the    *)
(* subscription on, while subscriptions come and are cancelled, calls fail *)
(* and workers die and are started again.                                  *)
(*                                                                         *)
(* CreatePayment is one step here: PostgresStore and MongoStore refine it. *)
(* Neither backend uses its idempotency key argument.                      *)
(***************************************************************************)
EXTENDS Calendar, FiniteSets

CONSTANTS
    Subs,           \* bound: the subscriptions ever created
    Workers,        \* the cycler processes
    Offered,        \* the cadences requests use
    Batch,          \* how many due subscriptions one tick pulls
    Days,           \* bound: the days at which the clock is looked at
    StartDays,      \* the days subscriptions may start
    MaxCycles,      \* bound: cycles followed of one subscription
    MaxFaults       \* bound: failed calls and crashes

ASSUME WorkersAssumption == IsFiniteSet(Workers) /\ IsFiniteSet(Subs)
ASSUME CyclerBounds ==
    /\ Offered \subseteq Cadences
    /\ Batch \in Nat \ {0} /\ MaxCycles \in Nat \ {0} /\ MaxFaults \in Nat
    /\ Days \subseteq Nat \ {0} /\ StartDays \subseteq Nat \ {0}
    /\ \A d \in Days : d < MonthStart[Len(MonthLengths) + 1]

VARIABLES
    sub,            \* the subscriptions table, a function on the ids in use
    now,            \* the clock
    worker,         \* each worker's batch, as read, and its next step
    charges,        \* history: the payments created per subscription and cycle
    late,           \* history: those created after the cancellation
    faults          \* history: what went wrong so far

vars == <<sub, now, worker, charges, late, faults>>

Cycles == 0..MaxCycles - 1

Resting == [due |-> <<>>, step |-> "create"]

Item(w) == Head(worker[w].due)

Busy(w, step) == worker[w].due # <<>> /\ worker[w].step = step

(* The loop goes on with the next item of the batch, whatever this one did. *)
NextItem(w) ==
    worker' = [worker EXCEPT ![w] = [due |-> Tail(@.due), step |-> "create"]]

Init ==
    /\ sub = [s \in {} |-> {}]
    /\ now \in Days /\ \A d \in Days : now <= d
    /\ worker = [w \in Workers |-> Resting]
    /\ charges = [s \in Subs |-> [c \in Cycles |-> 0]]
    /\ late = [s \in Subs |-> 0]
    /\ faults = 0

-----------------------------------------------------------------------------
CreateSubscription(s, cadence, start) ==
    /\ s \notin DOMAIN sub
    /\ sub' = [x \in DOMAIN sub \cup {s} |->
                 IF x = s THEN [status |-> "active", cadence |-> cadence, start |-> start,
                                next |-> start, cycle |-> 0]
                          ELSE sub[x]]
    /\ UNCHANGED <<now, worker, charges, late, faults>>

(* Unconditional: cancelling twice is fine.                                *)
CancelSubscription(s) ==
    /\ s \in DOMAIN sub
    /\ sub' = [sub EXCEPT ![s].status = "cancelled"]
    /\ UNCHANGED <<now, worker, charges, late, faults>>

\* Mutant: the query forgets the status.
DueAnyStatus(s) ==
    /\ s \in DOMAIN sub
    /\ sub[s].next <= now
    /\ sub[s].cycle < MaxCycles

\* Mutant: a subscription is due only after its day.
DueAfterwards(s) ==
    /\ s \in DOMAIN sub
    /\ sub[s].status = "active" /\ sub[s].next < now
    /\ sub[s].cycle < MaxCycles

(* The rows of DueSubscriptions, up to the bound on cycles.                *)
Due(s) ==
    /\ s \in DOMAIN sub
    /\ sub[s].status = "active" /\ sub[s].next <= now
    /\ sub[s].cycle < MaxCycles

\* Mutant: no LIMIT.
BatchesUnlimited ==
    LET due == {s \in Subs : Due(s)}
    IN  {q \in [1..Cardinality(due) -> due] :
           \A i, j \in DOMAIN q : i < j => q[i] # q[j] /\ sub[q[i]].next <= sub[q[j]].next}

(* ORDER BY next_charge_at LIMIT batch: the earliest, ties in any order.   *)
Batches ==
    LET due  == {s \in Subs : Due(s)}
        size == IF Cardinality(due) < Batch THEN Cardinality(due) ELSE Batch
    IN  {q \in [1..size -> due] :
           /\ \A i, j \in 1..size : i < j => q[i] # q[j] /\ sub[q[i]].next <= sub[q[j]].next
           /\ \A s \in due, i \in 1..size :
                 (\A j \in 1..size : q[j] # s) => sub[q[i]].next <= sub[s].next}

(* A tick begins: the rows are copied, and nothing keeps them from         *)
(* changing (FOR UPDATE SKIP LOCKED outside a transaction locks them for   *)
(* that one statement).                                                    *)
Tick(w) ==
    /\ worker[w].due = <<>>
    /\ \E q \in Batches :
          /\ q # <<>>
          /\ worker' = [worker EXCEPT ![w].due =
                [i \in DOMAIN q |-> [id |-> q[i], cycle |-> sub[q[i]].cycle, next |-> sub[q[i]].next]]]
    /\ UNCHANGED <<sub, now, charges, late, faults>>

Charged(item) ==
    /\ charges' = [charges EXCEPT ![item.id][item.cycle] = @ + 1]
    /\ late' = IF sub[item.id].status = "cancelled" THEN [late EXCEPT ![item.id] = @ + 1] ELSE late

Fault == faults < MaxFaults /\ faults' = faults + 1

\* Mutant: the subscription is moved on although CreatePayment failed.
CreatePaymentIgnoringErrors(w) ==
    /\ Busy(w, "create")
    /\ \/ Charged(Item(w)) /\ UNCHANGED faults
       \/ Fault /\ UNCHANGED <<charges, late>>
    /\ worker' = [worker EXCEPT ![w].step = "advance"]
    /\ UNCHANGED <<sub, now>>

(* chargeOne, its first call: done, failed, or failed although it was done. *)
CreatePayment(w) ==
    /\ Busy(w, "create")
    /\ \/ /\ Charged(Item(w))
          /\ worker' = [worker EXCEPT ![w].step = "advance"]
          /\ UNCHANGED faults
       \/ Fault /\ NextItem(w) /\ UNCHANGED <<charges, late>>
       \/ Fault /\ NextItem(w) /\ Charged(Item(w))
    /\ UNCHANGED <<sub, now>>

\* Mutant: the subscription is moved on from today.
MovedOnFromToday(row, item) ==
    [row EXCEPT !.next = Advance(row.cadence, now), !.cycle = item.cycle + 1]

(* The cycle after item, by the cadence and the day the worker read.       *)
MovedOn(row, item) ==
    [row EXCEPT !.next = Advance(row.cadence, item.next), !.cycle = item.cycle + 1]

\* Mutant: the UPDATE is not conditional on the cycle.
AdvanceAnyCycle(w) ==
    /\ Busy(w, "advance")
    /\ NextItem(w)
    /\ \/ /\ sub' = [sub EXCEPT ![Item(w).id] = MovedOn(@, Item(w))]
          /\ UNCHANGED faults
       \/ Fault /\ UNCHANGED sub
    /\ UNCHANGED <<now, charges, late>>

(* chargeOne, its second call: conditional on the cycle still being the    *)
(* one charged, and blind to whether a row matched; or it fails.           *)
AdvanceSubscription(w) ==
    LET item == Item(w)
    IN  /\ Busy(w, "advance")
        /\ NextItem(w)
        /\ \/ /\ sub' = IF sub[item.id].cycle = item.cycle
                          THEN [sub EXCEPT ![item.id] = MovedOn(@, item)] ELSE sub
              /\ UNCHANGED faults
           \/ Fault /\ UNCHANGED sub
        /\ UNCHANGED <<now, charges, late>>

(* A worker dies and is started again with nothing in hand.                *)
Crash(w) ==
    /\ worker[w].due # <<>>
    /\ Fault
    /\ worker' = [worker EXCEPT ![w] = Resting]
    /\ UNCHANGED <<sub, now, charges, late>>

Pass == \E d \in Days :
    /\ d > now /\ now' = d
    /\ UNCHANGED <<sub, worker, charges, late, faults>>

Work(w) == Tick(w) \/ CreatePayment(w) \/ AdvanceSubscription(w)

Next ==
    \/ \E s \in Subs :
          \/ \E cadence \in Offered, start \in StartDays : CreateSubscription(s, cadence, start)
          \/ CancelSubscription(s)
    \/ \E w \in Workers : Work(w) \/ Crash(w)
    \/ Pass

(* Run loops for ever and the process is restarted when it ends.           *)
Spec == Init /\ [][Next]_vars /\ \A w \in Workers : WF_vars(Work(w))

-----------------------------------------------------------------------------
Snapshots == [id : Subs, cycle : Cycles, next : Nat]

(* Well-formed state; a batch holds a subscription once, never of a cycle  *)
(* the table has not reached.                                              *)
TypeOK ==
    /\ DOMAIN sub \subseteq Subs
    /\ sub \in [DOMAIN sub -> [status : {"active", "cancelled"}, cadence : Cadences,
                               start : StartDays, next : Nat, cycle : 0..MaxCycles]]
    /\ now \in Days
    /\ \A w \in Workers :
          LET due == worker[w].due
          IN  /\ due \in Seq(Snapshots) /\ Len(due) <= Batch
              /\ worker[w].step \in {"create", "advance"}
              /\ \A i, j \in DOMAIN due : i # j => due[i].id # due[j].id
              /\ \A i \in DOMAIN due : due[i].id \in DOMAIN sub /\ due[i].cycle <= sub[due[i].id].cycle
    /\ charges \in [Subs -> [Cycles -> Nat]]
    /\ late \in [Subs -> Nat]
    /\ faults \in 0..MaxFaults

(* The day cycle n of a subscription falls on, counted from its start.     *)
Scheduled(row) ==
    LET day[n \in 0..MaxCycles] == IF n = 0 THEN row.start ELSE Advance(row.cadence, day[n - 1])
    IN  day

(* No cycle is passed over unpaid, whatever failed, died or raced.         *)
NeverSkipsACycle ==
    \A s \in DOMAIN sub, c \in Cycles : c < sub[s].cycle => charges[s][c] >= 1

(* Lateness never shifts the schedule: next_charge_at is the start moved   *)
(* on by the cadence once per cycle, and no cycle is charged before its    *)
(* day.                                                                    *)
OnSchedule ==
    \A s \in DOMAIN sub :
       /\ sub[s].next = Scheduled(sub[s])[sub[s].cycle]
       /\ \A c \in Cycles : charges[s][c] > 0 => Scheduled(sub[s])[c] <= now

(* Without faults a worker charges a cycle at most once, and each fault    *)
(* costs at most one charge more.  For one worker and no fault this is     *)
(* UC-8's "exactly one payment per due subscription per cycle".            *)
ChargesBounded ==
    \A s \in Subs, c \in Cycles : charges[s][c] <= Cardinality(Workers) + faults

(* UC-9: a cancelled subscription is skipped from the next tick on; only a *)
(* batch read before may still charge it, once per worker.                 *)
CancelledSkipped == \A s \in Subs : late[s] <= Cardinality(Workers)

(* A late worker never takes a subscription back to a cycle it has left,   *)
(* and a cancelled one stays cancelled.                                    *)
CyclesOnlyGoForward ==
    [][\A s \in DOMAIN sub :
          /\ sub'[s].cycle >= sub[s].cycle
          /\ sub[s].status = "cancelled" => sub'[s].status = "cancelled"]_vars

(* A due subscription is charged and moved on, unless it is cancelled,     *)
(* however many others are due and whatever the batch size.                *)
DueGetsCharged ==
    \A s \in Subs, c \in Cycles :
       s \in DOMAIN sub /\ sub[s].cycle = c /\ sub[s].status = "active" /\ sub[s].next <= now
          ~> s \in DOMAIN sub /\ (sub[s].cycle > c \/ sub[s].status = "cancelled")

(* UC-8, usecases.md: "cycler crashes must not double-charge".             *)
ChargedOncePerCycle == \A s \in Subs, c \in Cycles : charges[s][c] <= 1

=============================================================================
