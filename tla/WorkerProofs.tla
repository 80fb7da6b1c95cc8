---------------------------- MODULE WorkerProofs ----------------------------
(***************************************************************************)
(* Proofs about the two background workers.  Cycler, for any number of     *)
(* subscriptions, workers, days, cycles and faults and any calendar: no    *)
(* cycle is skipped, none is charged before its day, a cycle is charged at *)
(* most once per worker and fault, and a cancelled subscription at most    *)
(* once per worker.  FeeWorker, for any number of payments, other          *)
(* messages, workers, releases, batch sizes and faults: no event is lost   *)
(* before its fee is recorded, only payments whose event was sent pay a    *)
(* fee, and the first fee stays.                                           *)
(***************************************************************************)
EXTENDS Cycler, FeeWorker, SumLemmas

-----------------------------------------------------------------------------
(* The calendar: a month starts where the one before it ends.              *)
LEMMA MonthStartFacts ==
    /\ MonthStart[1] = 1
    /\ \A m \in 1..Len(MonthLengths) :
          /\ MonthLengths[m] \in 28..31
          /\ MonthStart[m + 1] = MonthStart[m] + MonthLengths[m]
<1> DEFINE n == Len(MonthLengths)
           Fix(g) == g = [m \in 1..n + 1 |->
                            IF m = 1 THEN 1 ELSE g[m - 1] + MonthLengths[m - 1]]
           start == CHOOSE g : Fix(g)
           t == RunningTotal(MonthLengths, n)
           column == [m \in 1..n + 1 |-> 1 + t[m - 1]]
<1>1. n \in Nat /\ MonthLengths \in [1..n -> 28..31] /\ MonthLengths \in [1..n -> Int]
  BY CalendarAssumption
<1> HIDE DEF n
<1>2. Explains(t, MonthLengths, n)
  BY <1>1, RunningTotalExplains
<1> HIDE DEF t
<1>3. Fix(column)
  <2>1. \A m \in 1..n + 1 : column[m] = IF m = 1 THEN 1 ELSE column[m - 1] + MonthLengths[m - 1]
    <3> SUFFICES ASSUME NEW m \in 1..n + 1
                 PROVE  column[m] = IF m = 1 THEN 1 ELSE column[m - 1] + MonthLengths[m - 1]
      OBVIOUS
    <3>1. CASE m = 1
      BY <1>2, <3>1 DEF Explains
    <3>2. CASE m # 1
      <4>1. m - 1 \in 1..n /\ m - 1 \in 1..n + 1 /\ (m - 1) - 1 \in 0..n
        BY <1>1, <3>2
      <4>2. t[m - 1] = t[(m - 1) - 1] + MonthLengths[m - 1] /\ t[(m - 1) - 1] \in Int
        BY <1>2, <4>1 DEF Explains
      <4>3. MonthLengths[m - 1] \in Int
        BY <1>1, <4>1
      <4> QED BY <3>2, <4>1, <4>2, <4>3
    <3> QED BY <3>1, <3>2
  <2> QED BY <2>1
<1>4. Fix(start)
  <2> HIDE DEF Fix
  <2> QED BY <1>3
<1>5. MonthStart = start
  BY DEF MonthStart, n
<1> HIDE DEF start
<1>6. \A m \in 1..n : MonthStart[m + 1] = MonthStart[m] + MonthLengths[m]
  BY <1>1, <1>4, <1>5
<1>7. MonthStart[1] = 1
  BY <1>1, <1>4, <1>5
<1> QED BY <1>1, <1>6, <1>7 DEF n

LEMMA MonthStartType == \A m \in 1..Len(MonthLengths) + 1 : MonthStart[m] \in Nat
<1> DEFINE n == Len(MonthLengths)
           Bad == {m \in 1..n + 1 : MonthStart[m] \notin Nat}
<1>1. n \in Nat
  BY CalendarAssumption
<1> HIDE DEF n
<1>2. SUFFICES ASSUME Bad # {} PROVE FALSE
  BY DEF n
<1>3. PICK m \in Bad : \A k \in Bad : m <= k
  <2>1. Bad \in SUBSET Nat
    BY <1>1
  <2> HIDE DEF Bad
  <2> QED BY <1>2, <2>1, LeastElement
<1>4. m # 1
  BY <1>3, MonthStartFacts
<1>5. m - 1 \in 1..n /\ MonthStart[m - 1] \in Nat
  BY <1>1, <1>3, <1>4
<1>6. /\ MonthStart[(m - 1) + 1] = MonthStart[m - 1] + MonthLengths[m - 1]
      /\ MonthLengths[m - 1] \in 28..31
  BY <1>5, MonthStartFacts DEF n
<1>7. (m - 1) + 1 = m
  BY <1>1, <1>3
<1> QED BY <1>3, <1>5, <1>6, <1>7

(* Every day of the calendar is in a month of it.                          *)
InCalendar(t) == t \in Nat \ {0} /\ t < MonthStart[Len(MonthLengths) + 1]

LEMMA MonthOfFacts ==
    ASSUME NEW t, InCalendar(t)
    PROVE  /\ MonthOf(t) \in 1..Len(MonthLengths)
           /\ MonthStart[MonthOf(t)] <= t /\ t < MonthStart[MonthOf(t) + 1]
<1> DEFINE n == Len(MonthLengths)
           Later == {m \in 1..n + 1 : t < MonthStart[m]}
<1>1. n \in Nat
  BY CalendarAssumption
<1> HIDE DEF n
<1>2. PICK m \in Later : \A k \in Later : m <= k
  <2>1. Later \in SUBSET Nat /\ n + 1 \in Later
    BY <1>1 DEF InCalendar, n
  <2> HIDE DEF Later
  <2> QED BY <2>1, LeastElement
<1>3. m # 1
  BY <1>2, MonthStartFacts DEF InCalendar
<1>4. m - 1 \in 1..n /\ (m - 1) + 1 = m /\ m - 1 \notin Later
  BY <1>1, <1>2, <1>3
<1>5. MonthStart[m - 1] <= t /\ t < MonthStart[(m - 1) + 1]
  <2>1. MonthStart[m - 1] \in Nat /\ m - 1 \in 1..n + 1
    BY <1>1, <1>4, MonthStartType DEF n
  <2> QED BY <1>2, <1>4, <2>1 DEF InCalendar
<1>6. \E k \in 1..n : MonthStart[k] <= t /\ t < MonthStart[k + 1]
  BY <1>4, <1>5
<1> QED BY <1>6 DEF MonthOf, n

(* Cadence.Advance yields a later day.                                     *)
LEMMA AdvanceFacts ==
    ASSUME NEW cadence \in Cadences, NEW t, InCalendar(t)
    PROVE  Advance(cadence, t) \in Nat \ {0} /\ Advance(cadence, t) > t
<1>1. t \in Nat \ {0}
  BY DEF InCalendar
<1>2. CASE cadence = "daily"
  BY <1>1, <1>2 DEF Advance
<1>3. CASE cadence = "weekly"
  BY <1>1, <1>3 DEF Advance
<1>4. CASE cadence = "monthly"
  <2> DEFINE m == MonthOf(t)
  <2>1. m \in 1..Len(MonthLengths) /\ MonthStart[m] <= t
    BY MonthOfFacts
  <2>2. Len(MonthLengths) \in Nat
    BY CalendarAssumption
  <2> HIDE DEF m
  <2>3. MonthStart[m] \in Nat /\ MonthStart[m + 1] = MonthStart[m] + MonthLengths[m]
        /\ MonthLengths[m] \in 28..31
    BY <2>1, <2>2, MonthStartFacts, MonthStartType
  <2>4. Advance(cadence, t) = MonthStart[m + 1] + (t - MonthStart[m])
    BY <1>4, Zenon DEF Advance, m
  <2>5. Advance(cadence, t) = t + MonthLengths[m]
    BY <1>1, <2>1, <2>3, <2>4
  <2> QED BY <1>1, <2>3, <2>5
<1> QED BY <1>2, <1>3, <1>4 DEF Cadences

-----------------------------------------------------------------------------
(* The schedule: what Scheduled computes, and that it depends on nothing   *)
(* but the start and the cadence.                                          *)
Schedule(start, cadence) ==
    LET day[n \in 0..MaxCycles] == IF n = 0 THEN start ELSE Advance(cadence, day[n - 1])
    IN  day

LEMMA ScheduledIsSchedule == \A row : Scheduled(row) = Schedule(row.start, row.cadence)
BY DEF Scheduled, Schedule

LEMMA ScheduleFacts ==
    ASSUME NEW start, NEW cadence
    PROVE  /\ Schedule(start, cadence)[0] = start
           /\ \A n \in 0..MaxCycles - 1 :
                 Schedule(start, cadence)[n + 1] = Advance(cadence, Schedule(start, cadence)[n])
<1> DEFINE Fix(g, k) == g = [n \in 0..k |-> IF n = 0 THEN start ELSE Advance(cadence, g[n - 1])]
           day == CHOOSE g : Fix(g, MaxCycles)
           Bad == {k \in Nat : ~ \E g : Fix(g, k)}
<1>1. Bad = {}
  <2>1. SUFFICES ASSUME Bad # {} PROVE FALSE
    OBVIOUS
  <2>2. PICK m \in Bad : \A k \in Bad : m <= k
    <3>1. Bad \in SUBSET Nat
      OBVIOUS
    <3> HIDE DEF Bad
    <3> QED BY <2>1, <3>1, LeastElement
  <2>3. m # 0
    <3> DEFINE one == [n \in 0..0 |-> start]
    <3>1. Fix(one, 0)
      <4>1. one = [n \in 0..0 |-> IF n = 0 THEN start ELSE Advance(cadence, one[n - 1])]
        <5>1. \A n \in 0..0 : n = 0
          OBVIOUS
        <5> QED BY <5>1
      <4> QED BY <4>1
    <3> HIDE DEF Fix, one
    <3> QED BY <2>2, <3>1
  <2>4. m - 1 \in Nat /\ m - 1 \notin Bad
    <3> HIDE DEF Fix
    <3>1. m \in Nat /\ m - 1 \in Nat /\ ~ (m <= m - 1)
      BY <2>2, <2>3
    <3> QED BY <2>2, <3>1
  <2>5. PICK g : Fix(g, m - 1)
    <3> HIDE DEF Fix
    <3> QED BY <2>4
  <2> DEFINE h == [n \in 0..m |-> IF n = m THEN Advance(cadence, g[m - 1]) ELSE g[n]]
  <2>6. ASSUME NEW n \in 0..m
        PROVE  h[n] = IF n = 0 THEN start ELSE Advance(cadence, h[n - 1])
    <3>1. CASE n = m
      BY <2>3, <2>4, <3>1
    <3>2. CASE n # m
      <4>1. n \in 0..(m - 1) /\ (n # 0 => n - 1 \in 0..m /\ n - 1 # m)
        BY <2>2, <3>2
      <4>2. g[n] = IF n = 0 THEN start ELSE Advance(cadence, g[n - 1])
        BY <2>5, <4>1
      <4> QED BY <3>2, <4>1, <4>2
    <3> QED BY <3>1, <3>2
  <2>7. Fix(h, m)
    BY <2>6
  <2> HIDE DEF Fix, h
  <2> QED BY <2>2, <2>7
<1>2. Fix(day, MaxCycles)
  <2>1. MaxCycles \in Nat
    BY CyclerBounds
  <2> HIDE DEF Fix
  <2>2. \E g : Fix(g, MaxCycles)
    BY <1>1, <2>1
  <2> QED BY <2>2
<1>3. Schedule(start, cadence) = day
  BY DEF Schedule
<1> HIDE DEF day
<1>4. MaxCycles \in Nat
  BY CyclerBounds
<1> QED BY <1>2, <1>3, <1>4

-----------------------------------------------------------------------------
(* The inductive invariant.                                                *)
Rows == [status : {"active", "cancelled"}, cadence : Cadences, start : StartDays,
         next : Nat \ {0}, cycle : 0..MaxCycles]

Items == [id : Subs, cycle : Cycles, next : Nat \ {0}]

WorkerStates == [due : Seq(Items), step : {"create", "advance"}]

Typed ==
    /\ DOMAIN sub \subseteq Subs /\ sub \in [DOMAIN sub -> Rows]
    /\ now \in Days
    /\ worker \in [Workers -> WorkerStates]
    /\ \A w \in Workers : Len(worker[w].due) <= Batch
    /\ charges \in [Subs -> [Cycles -> Nat]]
    /\ late \in [Subs -> Nat]
    /\ faults \in 0..MaxFaults

(* A batch holds a subscription once, at a cycle it has reached, with the  *)
(* day that cycle falls on, which has come.                                *)
Read(w, i) == worker[w].due[i]

Holds(item) ==
    /\ item.id \in DOMAIN sub
    /\ item.cycle <= sub[item.id].cycle
    /\ item.next = Scheduled(sub[item.id])[item.cycle]
    /\ item.next <= now

BatchesHold ==
    \A w \in Workers :
       /\ \A i, j \in DOMAIN worker[w].due : i # j => Read(w, i).id # Read(w, j).id
       /\ \A i \in DOMAIN worker[w].due : Holds(Read(w, i))

(* A worker moves on only a cycle that has been charged.                   *)
PaidFirst ==
    \A w \in Workers :
       /\ worker[w].due = <<>> => worker[w].step = "create"
       /\ Busy(w, "advance") => charges[Item(w).id][Item(w).cycle] >= 1

(* w is about to move cycle c of s on; w will charge cycle c of s.         *)
Advances(w, s, c) == Busy(w, "advance") /\ Item(w).id = s /\ Item(w).cycle = c

Will(w, s, c) ==
    \E i \in DOMAIN worker[w].due :
       /\ Read(w, i).id = s /\ Read(w, i).cycle = c
       /\ i = 1 => worker[w].step = "create"

(* The workers that may still charge cycle c of s without a fault: while   *)
(* the cycle is not over, all but those that have just done so.            *)
MayCharge(s, c) ==
    {w \in Workers : /\ ~ Advances(w, s, c)
                     /\ (s \in DOMAIN sub => sub[s].cycle <= c) \/ Will(w, s, c)}

ChargesCounted ==
    \A s \in Subs, c \in Cycles :
       charges[s][c] + Cardinality(MayCharge(s, c)) <= Cardinality(Workers) + faults

(* Late charges come from batches read before the cancellation.            *)
Holders(s) == {w \in Workers : \E c \in Cycles : Will(w, s, c)}

LateCounted ==
    \A s \in Subs :
       /\ late[s] > 0 => s \in DOMAIN sub /\ sub[s].status = "cancelled"
       /\ late[s] + Cardinality(Holders(s)) <= Cardinality(Workers)

(* Only a subscription's days of the calendar are charged.                 *)
ChargesDated ==
    \A s \in Subs, c \in Cycles :
       charges[s][c] > 0 => s \in DOMAIN sub /\ Scheduled(sub[s])[c] \in Nat

IInv == /\ Typed /\ BatchesHold /\ PaidFirst /\ NeverSkipsACycle /\ OnSchedule
        /\ ChargesDated /\ ChargesCounted /\ LateCounted

-----------------------------------------------------------------------------
(* Counting workers.                                                       *)
LEMMA CountFacts ==
    ASSUME NEW S \in SUBSET Workers, NEW T \in SUBSET Workers
    PROVE  /\ Cardinality(S) \in Nat /\ Cardinality(Workers) \in Nat
           /\ Cardinality(S) <= Cardinality(Workers)
           /\ T \subseteq S => Cardinality(T) <= Cardinality(S)
           /\ \A w \in S : T \subseteq S \ {w} => Cardinality(T) + 1 <= Cardinality(S)
           /\ \A w \in Workers : T \subseteq S \cup {w} => Cardinality(T) <= Cardinality(S) + 1
<1>1. IsFiniteSet(Workers)
  BY WorkersAssumption
<1>2. IsFiniteSet(S) /\ Cardinality(S) \in Nat /\ Cardinality(S) <= Cardinality(Workers)
  BY <1>1, FS_Subset, FS_CardinalityType
<1>3. Cardinality(Workers) \in Nat
  BY <1>1, FS_CardinalityType
<1>4. T \subseteq S => Cardinality(T) <= Cardinality(S)
  BY <1>2, FS_Subset
<1>5. ASSUME NEW w \in S, T \subseteq S \ {w}
      PROVE  Cardinality(T) + 1 <= Cardinality(S)
  <2>1. IsFiniteSet(S \ {w}) /\ Cardinality(S \ {w}) = Cardinality(S) - 1
    BY <1>2, FS_RemoveElement
  <2>2. Cardinality(T) \in Nat /\ Cardinality(T) <= Cardinality(S \ {w})
    BY <1>1, <1>5, <2>1, FS_Subset, FS_CardinalityType
  <2> QED BY <1>2, <2>1, <2>2
<1>6. ASSUME NEW w \in Workers, T \subseteq S \cup {w}
      PROVE  Cardinality(T) <= Cardinality(S) + 1
  <2>1. /\ IsFiniteSet(S \cup {w})
        /\ Cardinality(S \cup {w}) = IF w \in S THEN Cardinality(S) ELSE Cardinality(S) + 1
    BY <1>2, FS_AddElement
  <2>2. Cardinality(T) \in Nat /\ Cardinality(T) <= Cardinality(S \cup {w})
    BY <1>1, <1>6, <2>1, FS_Subset, FS_CardinalityType
  <2> QED BY <1>2, <2>1, <2>2
<1> QED BY <1>2, <1>3, <1>4, <1>5, <1>6

-----------------------------------------------------------------------------
(* What a step does to the workers' batches.                               *)
WorkersTyped ==
    /\ worker \in [Workers -> WorkerStates]
    /\ \A w \in Workers : Len(worker[w].due) <= Batch

(* Nobody but w gets anything new to do.                                   *)
OthersKept(w) == \A v \in Workers \ {w} : worker'[v] = worker[v]

LEMMA KeptFacts ==
    ASSUME NEW v \in Workers, worker'[v] = worker[v]
    PROVE  /\ worker'[v].due = worker[v].due /\ worker'[v].step = worker[v].step
           /\ \A i : Read(v, i)' = Read(v, i)
           /\ \A s, c : Will(v, s, c)' <=> Will(v, s, c)
           /\ \A s, c : Advances(v, s, c)' <=> Advances(v, s, c)
           /\ \A step : Busy(v, step)' <=> Busy(v, step)
           /\ Item(v)' = Item(v)
BY DEF Read, Will, Advances, Busy, Item

(* The head of a batch.                                                    *)
LEMMA ItemFacts ==
    ASSUME WorkersTyped, NEW w \in Workers, worker[w].due # <<>>
    PROVE  /\ 1 \in DOMAIN worker[w].due /\ Item(w) = Read(w, 1) /\ Item(w) \in Items
           /\ worker[w].step = "create" => Will(w, Item(w).id, Item(w).cycle)
<1>1. worker[w].due \in Seq(Items)
  BY DEF WorkersTyped, WorkerStates
<1>2. 1 \in DOMAIN worker[w].due /\ Head(worker[w].due) = worker[w].due[1]
  BY <1>1
<1> QED BY <1>1, <1>2 DEF Item, Read, Will

LEMMA NextItemFacts ==
    ASSUME WorkersTyped, BatchesHold, NEW w \in Workers, worker[w].due # <<>>, NextItem(w)
    PROVE  /\ WorkersTyped' /\ OthersKept(w) /\ worker'[w].step = "create"
           /\ \A i \in DOMAIN worker'[w].due :
                 i + 1 \in DOMAIN worker[w].due /\ Read(w, i)' = Read(w, i + 1)
           /\ \A s, c : ~ Advances(w, s, c)'
           /\ \A s, c : Will(w, s, c)' => Will(w, s, c) /\ s # Item(w).id
<1> DEFINE due == worker[w].due
<1>1. worker[w] \in WorkerStates /\ due \in Seq(Items) /\ due # <<>> /\ Len(due) <= Batch
  BY DEF WorkersTyped, WorkerStates
<1>2. /\ Tail(due) \in Seq(Items) /\ Len(Tail(due)) <= Batch
      /\ \A i \in DOMAIN Tail(due) :
            i \in Nat \ {0} /\ i + 1 \in DOMAIN due /\ Tail(due)[i] = due[i + 1]
  BY <1>1, CyclerBounds
<1>3. /\ worker'[w] = [due |-> Tail(due), step |-> "create"]
      /\ OthersKept(w)
      /\ worker' = [v \in Workers |-> worker'[v]]
  BY DEF NextItem, WorkersTyped, OthersKept
<1> HIDE DEF due
<1>4. worker'[w].due = Tail(due) /\ worker'[w].step = "create" /\ worker'[w] \in WorkerStates
  BY <1>2, <1>3 DEF WorkerStates
<1>5. WorkersTyped'
  BY <1>2, <1>3, <1>4 DEF WorkersTyped, OthersKept
<1>6. \A i \in DOMAIN worker'[w].due :
         i \in Nat \ {0} /\ i + 1 \in DOMAIN worker[w].due /\ Read(w, i)' = Read(w, i + 1)
  BY <1>2, <1>4 DEF Read, due
<1>7. \A s, c : ~ Advances(w, s, c)'
  BY <1>4 DEF Advances, Busy
<1>8. ASSUME NEW s, NEW c, Will(w, s, c)' PROVE Will(w, s, c) /\ s # Item(w).id
  <2>1. PICK i \in DOMAIN worker'[w].due : Read(w, i)'.id = s /\ Read(w, i)'.cycle = c
    BY <1>8 DEF Will
  <2>2. /\ i + 1 \in DOMAIN worker[w].due /\ i + 1 # 1
        /\ Read(w, i + 1).id = s /\ Read(w, i + 1).cycle = c
    BY <1>6, <2>1
  <2>3. Will(w, s, c)
    BY <2>2 DEF Will
  <2>4. Read(w, i + 1).id # Read(w, 1).id
    BY <2>2, ItemFacts DEF BatchesHold
  <2> QED BY <2>2, <2>3, <2>4, ItemFacts
<1> QED BY <1>3, <1>4, <1>5, <1>6, <1>7, <1>8

LEMMA ToAdvanceFacts ==
    ASSUME WorkersTyped, BatchesHold, NEW w \in Workers, worker[w].due # <<>>,
           worker' = [worker EXCEPT ![w].step = "advance"]
    PROVE  /\ WorkersTyped' /\ OthersKept(w) /\ worker'[w].step = "advance"
           /\ worker'[w].due = worker[w].due
           /\ \A i : Read(w, i)' = Read(w, i)
           /\ \A s, c : Will(w, s, c)' => Will(w, s, c) /\ s # Item(w).id
           /\ \A s, c : Advances(w, s, c)' <=> Item(w).id = s /\ Item(w).cycle = c
<1>1. /\ WorkersTyped' /\ OthersKept(w)
      /\ worker'[w].due = worker[w].due /\ worker'[w].step = "advance"
  BY DEF WorkersTyped, WorkerStates, OthersKept
<1>2. \A i : Read(w, i)' = Read(w, i)
  BY <1>1 DEF Read
<1>3. ASSUME NEW s, NEW c, Will(w, s, c)' PROVE Will(w, s, c) /\ s # Item(w).id
  <2>1. PICK i \in DOMAIN worker[w].due : Read(w, i).id = s /\ Read(w, i).cycle = c /\ i # 1
    BY <1>1, <1>2, <1>3 DEF Will
  <2>2. Read(w, i).id # Read(w, 1).id
    BY <2>1, ItemFacts DEF BatchesHold
  <2> QED BY <2>1, <2>2, ItemFacts DEF Will
<1>4. \A s, c : Advances(w, s, c)' <=> Item(w).id = s /\ Item(w).cycle = c
  BY <1>1 DEF Advances, Busy, Item
<1> QED BY <1>1, <1>2, <1>3, <1>4

LEMMA CrashFacts ==
    ASSUME WorkersTyped, NEW w \in Workers, Crash(w)
    PROVE  /\ WorkersTyped' /\ OthersKept(w) /\ worker'[w].step = "create"
           /\ worker'[w].due = <<>> /\ DOMAIN worker'[w].due = {}
           /\ \A s, c : ~ Will(w, s, c)' /\ ~ Advances(w, s, c)'
<1>1. worker'[w] = Resting /\ OthersKept(w) /\ worker' = [v \in Workers |-> worker'[v]]
  BY DEF Crash, WorkersTyped, OthersKept
<1>2. /\ worker'[w].due = <<>> /\ worker'[w].step = "create" /\ worker'[w] \in WorkerStates
      /\ Len(worker'[w].due) = 0 /\ DOMAIN worker'[w].due = {}
  <2>1. <<>> \in Seq(Items) /\ Len(<<>>) = 0
    OBVIOUS
  <2> QED BY <1>1, <2>1 DEF Resting, WorkerStates
<1>3. WorkersTyped'
  BY <1>1, <1>2, CyclerBounds DEF WorkersTyped, OthersKept
<1> QED BY <1>1, <1>2, <1>3 DEF Will, Advances, Busy

LEMMA TickFacts ==
    ASSUME Typed, BatchesHold, NEW w \in Workers, Tick(w)
    PROVE  /\ WorkersTyped' /\ OthersKept(w) /\ worker'[w].step = worker[w].step
           /\ worker[w].due = <<>> /\ worker'[w].due # <<>>
           /\ \A i, j \in DOMAIN worker'[w].due : i # j => Read(w, i)'.id # Read(w, j)'.id
           /\ \A i \in DOMAIN worker'[w].due :
                 LET item == Read(w, i)'
                 IN  /\ item \in Items /\ Due(item.id)
                     /\ item.cycle = sub[item.id].cycle /\ item.next = sub[item.id].next
           /\ \A s, c : Will(w, s, c)' => Due(s) /\ sub[s].cycle = c
<1> DEFINE due == {s \in Subs : Due(s)}
           ItemOf(s) == [id |-> s, cycle |-> sub[s].cycle, next |-> sub[s].next]
           size == IF Cardinality(due) < Batch THEN Cardinality(due) ELSE Batch
<1>1. PICK q \in Batches :
         /\ q # <<>>
         /\ worker' = [worker EXCEPT ![w].due = [i \in DOMAIN q |-> ItemOf(q[i])]]
  BY DEF Tick
<1>2. size \in Nat /\ size <= Batch
  <2>1. Cardinality(due) \in Nat
    BY WorkersAssumption, FS_Subset, FS_CardinalityType
  <2> QED BY <2>1, CyclerBounds
<1>3. /\ q \in [1..size -> due]
      /\ \A i, j \in 1..size : i < j => q[i] # q[j]
  BY DEF Batches
<1> HIDE DEF size
<1>4. \A i, j \in DOMAIN q : i # j => q[i] # q[j]
  BY <1>2, <1>3
<1>5. \A i \in DOMAIN q :
         /\ q[i] \in Subs /\ Due(q[i])
         /\ ItemOf(q[i]) \in Items
  <2>1. \A s \in due : s \in DOMAIN sub /\ sub[s].cycle < MaxCycles /\ sub[s] \in Rows
    BY DEF Due, Typed
  <2>2. \A s \in due : ItemOf(s) \in Items
    BY <2>1, CyclerBounds DEF Rows, Items, Cycles
  <2> QED BY <1>3, <2>2
<1> DEFINE new == [i \in DOMAIN q |-> ItemOf(q[i])]
<1>6. new \in Seq(Items) /\ Len(new) = size /\ DOMAIN new = 1..size /\ new # <<>>
  <2>1. DOMAIN q = 1..size /\ size # 0
    <3>1. DOMAIN q = 1..size /\ q = [i \in 1..size |-> q[i]]
      BY <1>3
    <3>2. CASE size = 0
      BY <1>1, <1>2, <3>1, <3>2
    <3> QED BY <3>1, <3>2
  <2>2. new \in [1..size -> Items]
    BY <1>5, <2>1
  <2> HIDE DEF new
  <2> QED BY <1>2, <2>1, <2>2
<1>7. \A i \in DOMAIN new : /\ i \in DOMAIN q /\ new[i].id = q[i]
                            /\ new[i].cycle = sub[q[i]].cycle /\ new[i].next = sub[q[i]].next
                            /\ new[i] \in Items
  BY <1>5
<1>8. worker' = [worker EXCEPT ![w].due = new]
  BY <1>1
<1> HIDE DEF new, due, ItemOf
<1>9. /\ worker'[w].due = new /\ worker'[w].step = worker[w].step /\ worker'[w] \in WorkerStates
      /\ OthersKept(w) /\ worker' = [v \in Workers |-> worker'[v]]
  BY <1>6, <1>8 DEF Typed, WorkerStates, OthersKept
<1>10. WorkersTyped'
  BY <1>2, <1>6, <1>9 DEF WorkersTyped, OthersKept, Typed
<1>11. \A i \in DOMAIN worker'[w].due :
          LET item == Read(w, i)'
          IN  /\ item \in Items /\ Due(item.id)
              /\ item.cycle = sub[item.id].cycle /\ item.next = sub[item.id].next
  BY <1>5, <1>7, <1>9 DEF Read
<1>12. \A i, j \in DOMAIN worker'[w].due : i # j => Read(w, i)'.id # Read(w, j)'.id
  BY <1>4, <1>7, <1>9 DEF Read
<1>13. \A s, c : Will(w, s, c)' => Due(s) /\ sub[s].cycle = c
  BY <1>11 DEF Will
<1>14. worker[w].due = <<>>
  BY DEF Tick
<1> QED BY <1>6, <1>9, <1>10, <1>11, <1>12, <1>13, <1>14

-----------------------------------------------------------------------------
(* What every step keeps: rows stay, with their start and cadence, and     *)
(* neither cycles nor the clock go back.                                   *)
Forward ==
    /\ DOMAIN sub \subseteq DOMAIN sub' /\ now <= now'
    /\ \A s \in DOMAIN sub : /\ sub'[s].start = sub[s].start
                             /\ sub'[s].cadence = sub[s].cadence
                             /\ sub[s].cycle <= sub'[s].cycle

LEMMA StaysForward == Typed /\ sub' = sub /\ now' = now => Forward
<1> SUFFICES ASSUME Typed, sub' = sub, now' = now PROVE Forward
  OBVIOUS
<1>1. now \in Nat
  BY CyclerBounds DEF Typed
<1>2. \A s \in DOMAIN sub : sub[s].cycle \in Nat
  BY CyclerBounds DEF Typed, Rows
<1> QED BY <1>1, <1>2 DEF Forward

LEMMA HoldsKept ==
    ASSUME Typed, Typed', Forward, NEW item \in Items, Holds(item)
    PROVE  Holds(item)'
<1> DEFINE s == item.id
<1>1. s \in DOMAIN sub /\ s \in DOMAIN sub' /\ now \in Nat /\ now' \in Nat
  BY CyclerBounds DEF Holds, Forward, Typed
<1>2. sub[s] \in Rows /\ sub'[s] \in Rows
  BY <1>1 DEF Typed
<1>3. sub[s].cycle \in Nat /\ sub'[s].cycle \in Nat /\ item.cycle \in Nat /\ item.next \in Nat
  BY <1>2, CyclerBounds DEF Rows, Items, Cycles
<1>4. item.cycle <= sub'[s].cycle /\ item.next <= now'
  BY <1>1, <1>3 DEF Holds, Forward
<1>5. Scheduled(sub'[s]) = Scheduled(sub[s])
  BY <1>1, ScheduledIsSchedule DEF Forward
<1> QED BY <1>1, <1>4, <1>5 DEF Holds

LEMMA KeptMayCharge ==
    ASSUME Typed, Typed', Forward, NEW v \in Workers, worker'[v] = worker[v],
           NEW s \in Subs, NEW c \in Cycles, v \in MayCharge(s, c)'
    PROVE  v \in MayCharge(s, c)
<1>1. ~ Advances(v, s, c) /\ (Will(v, s, c) \/ (s \in DOMAIN sub' => sub'[s].cycle <= c))
  BY KeptFacts DEF MayCharge
<1>2. ASSUME s \in DOMAIN sub, sub'[s].cycle <= c PROVE sub[s].cycle <= c
  <2>1. s \in DOMAIN sub' /\ sub[s].cycle <= sub'[s].cycle
    BY <1>2 DEF Forward
  <2>2. sub[s] \in Rows /\ sub'[s] \in Rows
    BY <1>2, <2>1 DEF Typed
  <2>3. sub[s].cycle \in Nat /\ sub'[s].cycle \in Nat /\ c \in Nat
    BY <2>2, CyclerBounds DEF Rows, Cycles
  <2> QED BY <1>2, <2>1, <2>3
<1> QED BY <1>1, <1>2 DEF MayCharge, Forward

LEMMA KeptHolders ==
    ASSUME NEW v \in Workers, worker'[v] = worker[v], NEW s, v \in Holders(s)'
    PROVE  v \in Holders(s)
BY KeptFacts DEF Holders

(* How the counts of charges may move.                                     *)
LEMMA CountStep ==
    ASSUME Typed, Typed', ChargesCounted,
           \A s \in Subs, c \in Cycles :
              \/ /\ charges'[s][c] = charges[s][c] /\ faults' >= faults
                 /\ MayCharge(s, c)' \subseteq MayCharge(s, c)
              \/ /\ charges'[s][c] = charges[s][c] + 1 /\ faults' >= faults
                 /\ \E w \in MayCharge(s, c) : MayCharge(s, c)' \subseteq MayCharge(s, c) \ {w}
              \/ /\ charges'[s][c] <= charges[s][c] + 1 /\ faults' = faults + 1
                 /\ MayCharge(s, c)' \subseteq MayCharge(s, c)
              \/ /\ charges'[s][c] = charges[s][c] /\ faults' = faults + 1
                 /\ \E w \in Workers : MayCharge(s, c)' \subseteq MayCharge(s, c) \cup {w}
    PROVE  ChargesCounted'
<1> SUFFICES ASSUME NEW s \in Subs, NEW c \in Cycles
             PROVE  charges'[s][c] + Cardinality(MayCharge(s, c)') <= Cardinality(Workers) + faults'
  BY DEF ChargesCounted
<1> DEFINE S == MayCharge(s, c)
           T == MayCharge(s, c)'
<1>1. charges[s][c] + Cardinality(S) <= Cardinality(Workers) + faults
  BY DEF ChargesCounted
<1>2. charges[s][c] \in Nat /\ charges'[s][c] \in Nat /\ faults \in Nat /\ faults' \in Nat
  BY CyclerBounds DEF Typed
<1>3. S \in SUBSET Workers /\ T \in SUBSET Workers
  BY DEF MayCharge
<1>4. \/ charges'[s][c] = charges[s][c] /\ faults' >= faults /\ T \subseteq S
      \/ charges'[s][c] = charges[s][c] + 1 /\ faults' >= faults /\ \E w \in S : T \subseteq S \ {w}
      \/ charges'[s][c] <= charges[s][c] + 1 /\ faults' = faults + 1 /\ T \subseteq S
      \/ /\ charges'[s][c] = charges[s][c] /\ faults' = faults + 1
         /\ \E w \in Workers : T \subseteq S \cup {w}
  OBVIOUS
<1> HIDE DEF S, T
<1>5. Cardinality(S) \in Nat /\ Cardinality(T) \in Nat /\ Cardinality(Workers) \in Nat
  BY <1>3, CountFacts
<1>6. /\ T \subseteq S => Cardinality(T) <= Cardinality(S)
      /\ \A w \in S : T \subseteq S \ {w} => Cardinality(T) + 1 <= Cardinality(S)
      /\ \A w \in Workers : T \subseteq S \cup {w} => Cardinality(T) <= Cardinality(S) + 1
  BY <1>3, CountFacts
<1>7. \/ /\ charges'[s][c] = charges[s][c] /\ faults' >= faults
         /\ Cardinality(T) <= Cardinality(S)
      \/ /\ charges'[s][c] = charges[s][c] + 1 /\ faults' >= faults
         /\ Cardinality(T) + 1 <= Cardinality(S)
      \/ /\ charges'[s][c] <= charges[s][c] + 1 /\ faults' = faults + 1
         /\ Cardinality(T) <= Cardinality(S)
      \/ /\ charges'[s][c] = charges[s][c] /\ faults' = faults + 1
         /\ Cardinality(T) <= Cardinality(S) + 1
  BY <1>4, <1>6
<1>8. charges'[s][c] + Cardinality(T) <= Cardinality(Workers) + faults'
  BY <1>1, <1>2, <1>5, <1>7
<1> QED BY <1>8 DEF T

LEMMA LateStep ==
    ASSUME Typed, Typed', LateCounted,
           \A s \in Subs :
              \/ late'[s] = late[s] /\ Holders(s)' \subseteq Holders(s)
              \/ /\ late'[s] = late[s] + 1
                 /\ \E w \in Holders(s) : Holders(s)' \subseteq Holders(s) \ {w}
              \/ late'[s] = 0
    PROVE  \A s \in Subs : late'[s] + Cardinality(Holders(s)') <= Cardinality(Workers)
<1> SUFFICES ASSUME NEW s \in Subs
             PROVE  late'[s] + Cardinality(Holders(s)') <= Cardinality(Workers)
  OBVIOUS
<1> DEFINE S == Holders(s)
           T == Holders(s)'
<1>1. late[s] + Cardinality(S) <= Cardinality(Workers)
  BY DEF LateCounted
<1>2. late[s] \in Nat /\ late'[s] \in Nat
  BY DEF Typed
<1>3. S \in SUBSET Workers /\ T \in SUBSET Workers
  BY DEF Holders
<1>4. \/ late'[s] = late[s] /\ T \subseteq S
      \/ late'[s] = late[s] + 1 /\ \E w \in S : T \subseteq S \ {w}
      \/ late'[s] = 0
  OBVIOUS
<1> HIDE DEF S, T
<1>5. /\ Cardinality(S) \in Nat /\ Cardinality(T) \in Nat /\ Cardinality(Workers) \in Nat
      /\ Cardinality(T) <= Cardinality(Workers)
  BY <1>3, CountFacts
<1>6. /\ T \subseteq S => Cardinality(T) <= Cardinality(S)
      /\ \A w \in S : T \subseteq S \ {w} => Cardinality(T) + 1 <= Cardinality(S)
  BY <1>3, CountFacts
<1>7. \/ late'[s] = late[s] /\ Cardinality(T) <= Cardinality(S)
      \/ late'[s] = late[s] + 1 /\ Cardinality(T) + 1 <= Cardinality(S)
      \/ late'[s] = 0
  BY <1>4, <1>6
<1>8. late'[s] + Cardinality(T) <= Cardinality(Workers)
  BY <1>1, <1>2, <1>5, <1>7
<1> QED BY <1>8 DEF T

-----------------------------------------------------------------------------
(* One lemma per kind of step.  First the steps that touch no batch and no *)
(* charge: the API's and the clock's.                                      *)
LEMMA CalmStep ==
    ASSUME IInv, Typed', Forward,
           worker' = worker, charges' = charges, late' = late, faults' = faults,
           \A s \in DOMAIN sub : sub[s].status = "cancelled" => sub'[s].status = "cancelled"
    PROVE  BatchesHold' /\ PaidFirst' /\ ChargesDated' /\ ChargesCounted' /\ LateCounted'
<1> USE DEF IInv
<1>1. ASSUME NEW v \in Workers, NEW i \in DOMAIN worker[v].due
      PROVE  Holds(Read(v, i))'
  <2>1. Read(v, i) \in Items
    BY DEF Typed, WorkerStates, Read
  <2>2. Read(v, i)' = Read(v, i) /\ Holds(Read(v, i))
    BY DEF BatchesHold, Read
  <2> QED BY <2>1, <2>2, HoldsKept
<1>2. BatchesHold'
  BY <1>1 DEF BatchesHold, Read
<1>3. PaidFirst'
  BY DEF PaidFirst, Busy, Item
<1>4. ChargesDated'
  <2>1. \A s \in DOMAIN sub : s \in DOMAIN sub' /\ Scheduled(sub'[s]) = Scheduled(sub[s])
    BY ScheduledIsSchedule DEF Forward
  <2> QED BY <2>1 DEF ChargesDated
<1>5. \A s \in Subs, c \in Cycles : MayCharge(s, c)' \subseteq MayCharge(s, c)
  BY KeptMayCharge DEF MayCharge
<1>6. faults' >= faults
  BY CyclerBounds DEF Typed
<1>7. ChargesCounted'
  BY <1>5, <1>6, CountStep
<1>8. \A s : Holders(s)' \subseteq Holders(s)
  BY KeptHolders DEF Holders
<1>9. LateCounted'
  <2>1. \A s \in Subs : late'[s] + Cardinality(Holders(s)') <= Cardinality(Workers)
    BY <1>8, LateStep
  <2> QED BY <2>1 DEF LateCounted, Forward
<1> QED BY <1>2, <1>3, <1>4, <1>7, <1>9

LEMMA CreateSubscriptionStep ==
    ASSUME IInv, NEW s \in Subs, NEW cadence \in Offered, NEW start \in StartDays,
           CreateSubscription(s, cadence, start)
    PROVE  IInv'
<1> DEFINE row == [status |-> "active", cadence |-> cadence, start |-> start,
                   next |-> start, cycle |-> 0]
<1>1. /\ s \notin DOMAIN sub /\ DOMAIN sub' = DOMAIN sub \cup {s}
      /\ sub' = [x \in DOMAIN sub' |-> sub'[x]]
      /\ sub'[s] = row /\ \A x \in DOMAIN sub : sub'[x] = sub[x]
      /\ now' = now /\ worker' = worker /\ charges' = charges /\ late' = late /\ faults' = faults
  BY DEF CreateSubscription
<1>2. row \in Rows
  BY CyclerBounds DEF Rows
<1>3. Typed'
  BY <1>1, <1>2 DEF IInv, Typed
<1>4. Forward
  <2>1. now \in Nat /\ \A x \in DOMAIN sub : sub[x].cycle \in Nat
    BY CyclerBounds DEF IInv, Typed, Rows
  <2> QED BY <1>1, <2>1 DEF Forward
<1>5. BatchesHold' /\ PaidFirst' /\ ChargesDated' /\ ChargesCounted' /\ LateCounted'
  BY <1>1, <1>3, <1>4, CalmStep
<1>6. NeverSkipsACycle'
  <2>1. \A c \in Cycles : ~ (c < row.cycle)
    BY DEF Cycles
  <2> QED BY <1>1, <2>1 DEF IInv, NeverSkipsACycle
<1>7. OnSchedule'
  <2>1. Scheduled(row)[0] = row.next
    BY ScheduledIsSchedule, ScheduleFacts
  <2>2. \A c \in Cycles : ~ (charges[s][c] > 0)
    BY <1>1 DEF IInv, ChargesDated
  <2>3. row.cycle = 0
    OBVIOUS
  <2> HIDE DEF row
  <2> QED BY <1>1, <2>1, <2>2, <2>3 DEF IInv, OnSchedule
<1> QED BY <1>3, <1>5, <1>6, <1>7 DEF IInv

LEMMA CancelStep ==
    ASSUME IInv, NEW s \in Subs, CancelSubscription(s)
    PROVE  IInv'
<1>1. /\ s \in DOMAIN sub /\ sub' = [sub EXCEPT ![s].status = "cancelled"]
      /\ now' = now /\ worker' = worker /\ charges' = charges /\ late' = late /\ faults' = faults
  BY DEF CancelSubscription
<1>2. sub[s] \in Rows
  BY <1>1 DEF IInv, Typed
<1>3. /\ DOMAIN sub' = DOMAIN sub /\ sub' \in [DOMAIN sub -> Rows]
      /\ \A x \in DOMAIN sub : /\ sub'[x].start = sub[x].start /\ sub'[x].cadence = sub[x].cadence
                               /\ sub'[x].cycle = sub[x].cycle /\ sub'[x].next = sub[x].next
                               /\ sub'[x].status \in {sub[x].status, "cancelled"}
  BY <1>1, <1>2 DEF IInv, Typed, Rows
<1>4. Typed'
  BY <1>1, <1>3 DEF IInv, Typed
<1>5. Forward
  <2>1. now \in Nat /\ \A x \in DOMAIN sub : sub[x].cycle \in Nat
    BY CyclerBounds DEF IInv, Typed, Rows
  <2> QED BY <1>1, <1>3, <2>1 DEF Forward
<1>6. BatchesHold' /\ PaidFirst' /\ ChargesDated' /\ ChargesCounted' /\ LateCounted'
  BY <1>1, <1>3, <1>4, <1>5, CalmStep
<1>7. NeverSkipsACycle'
  BY <1>1, <1>3 DEF IInv, NeverSkipsACycle
<1>8. OnSchedule'
  <2>1. \A x \in DOMAIN sub : Scheduled(sub'[x]) = Scheduled(sub[x])
    BY <1>3, ScheduledIsSchedule
  <2> QED BY <1>1, <1>3, <2>1 DEF IInv, OnSchedule
<1> QED BY <1>4, <1>6, <1>7, <1>8 DEF IInv

LEMMA PassStep ==
    ASSUME IInv, Pass
    PROVE  IInv'
<1>1. /\ now' \in Days /\ now' > now
      /\ sub' = sub /\ worker' = worker /\ charges' = charges /\ late' = late /\ faults' = faults
  BY DEF Pass
<1>2. now \in Nat /\ now' \in Nat
  BY <1>1, CyclerBounds DEF IInv, Typed
<1>3. Typed'
  BY <1>1 DEF IInv, Typed
<1>4. Forward
  <2>1. \A x \in DOMAIN sub : sub[x].cycle \in Nat
    BY CyclerBounds DEF IInv, Typed, Rows
  <2> QED BY <1>1, <1>2, <2>1 DEF Forward
<1>5. BatchesHold' /\ PaidFirst' /\ ChargesDated' /\ ChargesCounted' /\ LateCounted'
  BY <1>1, <1>3, <1>4, CalmStep
<1>6. NeverSkipsACycle'
  BY <1>1 DEF IInv, NeverSkipsACycle
<1>7. OnSchedule'
  <2>1. ASSUME NEW s \in DOMAIN sub, NEW c \in Cycles, charges[s][c] > 0
        PROVE  Scheduled(sub[s])[c] <= now'
    <3>1. Scheduled(sub[s])[c] <= now /\ Scheduled(sub[s])[c] \in Nat
      BY <2>1 DEF IInv, Typed, OnSchedule, ChargesDated
    <3> QED BY <1>1, <1>2, <3>1
  <2> QED BY <1>1, <2>1 DEF IInv, OnSchedule
<1> QED BY <1>3, <1>5, <1>6, <1>7 DEF IInv

-----------------------------------------------------------------------------
(* The workers' steps.  A step of w's that only takes things off its batch *)
(* keeps what is said of the batches.                                      *)
LEMMA BatchesKept ==
    ASSUME Typed, Typed', Forward, BatchesHold, NEW w \in Workers, OthersKept(w),
           \A i \in DOMAIN worker'[w].due :
              \E k \in DOMAIN worker[w].due : Read(w, i)' = Read(w, k),
           \A i, j \in DOMAIN worker'[w].due : i # j => Read(w, i)'.id # Read(w, j)'.id
    PROVE  BatchesHold'
<1>1. ASSUME NEW v \in Workers, NEW i \in DOMAIN worker'[v].due
      PROVE  \E k \in DOMAIN worker[v].due : Read(v, i)' = Read(v, k)
  BY <1>1, KeptFacts DEF OthersKept
<1>2. ASSUME NEW v \in Workers, NEW i \in DOMAIN worker'[v].due
      PROVE  Holds(Read(v, i))'
  <2>1. PICK k \in DOMAIN worker[v].due : Read(v, i)' = Read(v, k)
    BY <1>1, <1>2
  <2>2. Read(v, k) \in Items /\ Holds(Read(v, k))
    BY DEF Typed, WorkerStates, Read, BatchesHold
  <2>3. ASSUME NEW item, item = Read(v, k) PROVE Holds(item)'
    BY <2>2, <2>3, HoldsKept
  <2> QED BY <2>1, <2>3 DEF Holds
<1>3. ASSUME NEW v \in Workers, NEW i \in DOMAIN worker'[v].due, NEW j \in DOMAIN worker'[v].due,
             i # j
      PROVE  Read(v, i)'.id # Read(v, j)'.id
  BY <1>3, KeptFacts DEF OthersKept, BatchesHold
<1> QED BY <1>2, <1>3 DEF BatchesHold

(* A charge is one more of the item's cycle, late if it is cancelled.      *)
LEMMA ChargedFacts ==
    ASSUME Typed, NEW item \in Items, item.id \in DOMAIN sub, Charged(item)
    PROVE  /\ charges' \in [Subs -> [Cycles -> Nat]] /\ late' \in [Subs -> Nat]
           /\ charges'[item.id][item.cycle] = charges[item.id][item.cycle] + 1
           /\ \A s \in Subs, c \in Cycles :
                 s # item.id \/ c # item.cycle => charges'[s][c] = charges[s][c]
           /\ \A s \in Subs : s # item.id => late'[s] = late[s]
           /\ \/ late'[item.id] = late[item.id]
              \/ late'[item.id] = late[item.id] + 1 /\ sub[item.id].status = "cancelled"
<1>1. item.id \in Subs /\ item.cycle \in Cycles
  BY DEF Items
<1>2. charges' = [charges EXCEPT ![item.id][item.cycle] = charges[item.id][item.cycle] + 1]
  BY DEF Charged
<1>3. charges[item.id] \in [Cycles -> Nat] /\ charges[item.id][item.cycle] \in Nat
  BY <1>1 DEF Typed
<1>4. /\ charges' \in [Subs -> [Cycles -> Nat]]
      /\ charges'[item.id][item.cycle] = charges[item.id][item.cycle] + 1
      /\ \A s \in Subs, c \in Cycles :
            s # item.id \/ c # item.cycle => charges'[s][c] = charges[s][c]
  BY <1>1, <1>2, <1>3 DEF Typed
<1>5. late' = IF sub[item.id].status = "cancelled"
                THEN [late EXCEPT ![item.id] = late[item.id] + 1] ELSE late
  BY DEF Charged
<1>6. /\ late' \in [Subs -> Nat]
      /\ \A s \in Subs : s # item.id => late'[s] = late[s]
      /\ \/ late'[item.id] = late[item.id]
         \/ late'[item.id] = late[item.id] + 1 /\ sub[item.id].status = "cancelled"
  BY <1>1, <1>5 DEF Typed
<1> QED BY <1>4, <1>6

LEMMA TickStep ==
    ASSUME IInv, NEW w \in Workers, Tick(w)
    PROVE  IInv'
<1> USE DEF IInv
<1>1. sub' = sub /\ now' = now /\ charges' = charges /\ late' = late /\ faults' = faults
  BY DEF Tick
<1>2. Typed'
  BY <1>1, TickFacts DEF Typed, WorkersTyped
<1>3. Forward
  BY <1>1, StaysForward
<1>4. BatchesHold'
  <2>1. ASSUME NEW i \in DOMAIN worker'[w].due PROVE Holds(Read(w, i))'
    <3>1. PICK item \in Items : /\ item = Read(w, i)' /\ Due(item.id)
                                /\ item.cycle = sub[item.id].cycle /\ item.next = sub[item.id].next
      BY TickFacts
    <3>2. sub[item.id].cycle \in 0..MaxCycles /\ item.id \in DOMAIN sub
      BY <3>1 DEF Due, Typed, Rows
    <3>3. Holds(item)
      <4>1. item.cycle <= sub[item.id].cycle
        BY <3>1, <3>2, CyclerBounds
      <4> QED BY <3>1, <3>2, <4>1 DEF Holds, Due, OnSchedule
    <3>4. Holds(item)'
      BY <1>2, <1>3, <3>3, HoldsKept
    <3> QED BY <3>1, <3>4 DEF Holds
  <2>2. ASSUME NEW v \in Workers \ {w}, NEW i \in DOMAIN worker'[v].due PROVE Holds(Read(v, i))'
    <3>1. worker'[v] = worker[v] /\ Read(v, i)' = Read(v, i) /\ i \in DOMAIN worker[v].due
      BY <2>2, TickFacts, KeptFacts DEF OthersKept
    <3>2. Read(v, i) \in Items /\ Holds(Read(v, i))
      BY <3>1 DEF Typed, WorkerStates, Read, BatchesHold
    <3>3. ASSUME NEW item, item = Read(v, i) PROVE Holds(item)'
      BY <1>2, <1>3, <3>2, <3>3, HoldsKept
    <3> QED BY <3>1, <3>3 DEF Holds
  <2>3. ASSUME NEW v \in Workers, NEW i \in DOMAIN worker'[v].due,
               NEW j \in DOMAIN worker'[v].due, i # j
        PROVE  Read(v, i)'.id # Read(v, j)'.id
    BY <2>3, TickFacts, KeptFacts DEF OthersKept, BatchesHold
  <2> QED BY <2>1, <2>2, <2>3 DEF BatchesHold
<1>5. PaidFirst'
  <2>1. worker'[w].step = "create"
    BY TickFacts DEF PaidFirst
  <2>2. ASSUME NEW v \in Workers \ {w}
        PROVE  /\ worker'[v].due = <<>> => worker'[v].step = "create"
               /\ Busy(v, "advance")' => charges'[Item(v)'.id][Item(v)'.cycle] >= 1
    BY <1>1, TickFacts, KeptFacts DEF OthersKept, PaidFirst
  <2> QED BY <2>1, <2>2, TickFacts DEF PaidFirst, Busy
<1>6. NeverSkipsACycle' /\ OnSchedule' /\ ChargesDated'
  BY <1>1 DEF NeverSkipsACycle, OnSchedule, ChargesDated
<1>7. ChargesCounted'
  <2>1. ASSUME NEW s \in Subs, NEW c \in Cycles, NEW v \in MayCharge(s, c)'
        PROVE  v \in MayCharge(s, c)
    <3>1. CASE v = w
      <4>1. ~ Advances(w, s, c)
        BY TickFacts DEF Advances, Busy
      <4>2. s \in DOMAIN sub => sub[s].cycle <= c
        <5>1. Will(w, s, c)' => s \in DOMAIN sub /\ sub[s].cycle = c
          BY TickFacts DEF Due
        <5>2. c <= c
          BY CyclerBounds DEF Cycles
        <5> QED BY <1>1, <2>1, <3>1, <5>1, <5>2 DEF MayCharge
      <4> QED BY <2>1, <3>1, <4>1, <4>2 DEF MayCharge
    <3>2. CASE v # w
      <4>1. v \in Workers /\ worker'[v] = worker[v]
        BY <2>1, <3>2, TickFacts DEF OthersKept, MayCharge
      <4> QED BY <1>2, <1>3, <2>1, <4>1, KeptMayCharge
    <3> QED BY <3>1, <3>2
  <2>2. faults' >= faults
    BY <1>1, CyclerBounds DEF Typed
  <2>3. \A s \in Subs, c \in Cycles : MayCharge(s, c)' \subseteq MayCharge(s, c)
    BY <2>1
  <2> QED BY <1>1, <1>2, <2>2, <2>3, CountStep
<1>8. LateCounted'
  <2>1. ASSUME NEW s \in Subs PROVE late'[s] = 0 \/ Holders(s)' \subseteq Holders(s)
    <3>1. ASSUME NEW c, Will(w, s, c)' PROVE late'[s] = 0
      <4>1. ~ (late[s] > 0)
        BY <3>1, TickFacts DEF Due, LateCounted
      <4> QED BY <1>1, <4>1 DEF Typed
    <3>2. ASSUME NEW v \in Holders(s)', v # w PROVE v \in Holders(s)
      <4>1. v \in Workers /\ worker'[v] = worker[v]
        BY <3>2, TickFacts DEF OthersKept, Holders
      <4> QED BY <3>2, <4>1, KeptHolders
    <3> QED BY <3>1, <3>2 DEF Holders
  <2>2. \A s \in Subs : late'[s] + Cardinality(Holders(s)') <= Cardinality(Workers)
    BY <1>1, <1>2, <2>1, LateStep
  <2> QED BY <1>1, <2>2 DEF LateCounted
<1> QED BY <1>2, <1>4, <1>5, <1>6, <1>7, <1>8

LEMMA CrashStep ==
    ASSUME IInv, NEW w \in Workers, Crash(w)
    PROVE  IInv'
<1> USE DEF IInv
<1>1. /\ sub' = sub /\ now' = now /\ charges' = charges /\ late' = late /\ faults' = faults + 1
      /\ faults' \in 0..MaxFaults /\ WorkersTyped
  BY CyclerBounds DEF Crash, Fault, Typed, WorkersTyped
<1>2. Typed'
  BY <1>1, CrashFacts DEF Typed, WorkersTyped
<1>3. Forward
  BY <1>1, StaysForward
<1>4. BatchesHold'
  BY <1>1, <1>2, <1>3, CrashFacts, BatchesKept
<1>5. PaidFirst'
  <2>1. worker'[w].step = "create" /\ OthersKept(w)
    BY <1>1, CrashFacts
  <2>2. ASSUME NEW v \in Workers \ {w}
        PROVE  /\ worker'[v].due = <<>> => worker'[v].step = "create"
               /\ Busy(v, "advance")' => charges'[Item(v)'.id][Item(v)'.cycle] >= 1
    BY <1>1, <2>1, KeptFacts DEF OthersKept, PaidFirst
  <2> QED BY <2>1, <2>2 DEF PaidFirst, Busy
<1>6. NeverSkipsACycle' /\ OnSchedule' /\ ChargesDated'
  BY <1>1 DEF NeverSkipsACycle, OnSchedule, ChargesDated
<1>7. ChargesCounted'
  <2>1. ASSUME NEW s \in Subs, NEW c \in Cycles, NEW v \in MayCharge(s, c)', v # w
        PROVE  v \in MayCharge(s, c)
    <3>1. v \in Workers /\ worker'[v] = worker[v]
      BY <1>1, <2>1, CrashFacts DEF OthersKept, MayCharge
    <3> QED BY <1>2, <1>3, <2>1, <3>1, KeptMayCharge
  <2>2. \A s \in Subs, c \in Cycles : MayCharge(s, c)' \subseteq MayCharge(s, c) \cup {w}
    BY <2>1
  <2> QED BY <1>1, <1>2, <2>2, CountStep
<1>8. LateCounted'
  <2>1. \A s \in Subs : Holders(s)' \subseteq Holders(s)
    <3> SUFFICES ASSUME NEW s \in Subs, NEW v \in Holders(s)' PROVE v \in Holders(s)
      OBVIOUS
    <3>1. v \in Workers /\ v # w
      BY <1>1, CrashFacts DEF Holders
    <3>2. worker'[v] = worker[v]
      BY <1>1, <3>1, CrashFacts DEF OthersKept
    <3> QED BY <3>1, <3>2, KeptHolders
  <2>2. \A s \in Subs : late'[s] + Cardinality(Holders(s)') <= Cardinality(Workers)
    BY <1>1, <1>2, <2>1, LateStep
  <2> QED BY <1>1, <2>2 DEF LateCounted
<1> QED BY <1>2, <1>4, <1>5, <1>6, <1>7, <1>8

LEMMA CreatePaymentStep ==
    ASSUME IInv, NEW w \in Workers, CreatePayment(w)
    PROVE  IInv'
<1> USE DEF IInv
<1>1. /\ worker[w].due # <<>> /\ worker[w].step = "create" /\ sub' = sub /\ now' = now /\ WorkersTyped
  BY DEF CreatePayment, Busy, Typed, WorkersTyped
<1>2. PICK item \in Items :
         /\ item = Item(w) /\ 1 \in DOMAIN worker[w].due /\ item = Read(w, 1)
         /\ Will(w, item.id, item.cycle)
  BY <1>1, ItemFacts
<1>3. item.id \in Subs /\ item.cycle \in Cycles /\ item.next \in Nat
  BY <1>2 DEF Items
<1>4. Holds(item)
  BY <1>2 DEF BatchesHold
<1>5. item.id \in DOMAIN sub
  BY <1>4 DEF Holds
<1>6. \/ /\ Charged(item) /\ faults' = faults
         /\ worker' = [worker EXCEPT ![w].step = "advance"]
      \/ /\ (charges' = charges /\ late' = late) \/ Charged(item)
         /\ NextItem(w) /\ faults' = faults + 1 /\ faults' \in 0..MaxFaults
  BY <1>2, CyclerBounds DEF CreatePayment, Fault, Typed
<1>7. /\ WorkersTyped' /\ OthersKept(w)
      /\ \A s, c : Will(w, s, c)' => Will(w, s, c) /\ s # item.id
  <2>1. CASE NextItem(w)
    BY <1>1, <1>2, <2>1, NextItemFacts
  <2>2. CASE worker' = [worker EXCEPT ![w].step = "advance"]
    <3>1. /\ WorkersTyped' /\ OthersKept(w)
          /\ \A s, c : Will(w, s, c)' => Will(w, s, c) /\ s # Item(w).id
      BY <1>1, <2>2, ToAdvanceFacts
    <3> QED BY <1>2, <3>1
  <2> QED BY <1>6, <2>1, <2>2
<1>8. /\ charges' \in [Subs -> [Cycles -> Nat]] /\ late' \in [Subs -> Nat]
      /\ \A s \in Subs, c \in Cycles :
            /\ charges'[s][c] >= charges[s][c]
            /\ \/ charges'[s][c] = charges[s][c]
               \/ s = item.id /\ c = item.cycle /\ charges'[s][c] = charges[s][c] + 1
      /\ \A s \in Subs :
            \/ late'[s] = late[s]
            \/ s = item.id /\ late'[s] = late[s] + 1 /\ sub[s].status = "cancelled"
  <2>1. CASE charges' = charges /\ late' = late
    <3>1. \A s \in Subs, c \in Cycles : charges[s][c] \in Nat
      BY DEF Typed
    <3> QED BY <2>1, <3>1 DEF Typed
  <2>2. CASE Charged(item)
    <3>1. \A s \in Subs, c \in Cycles : charges[s][c] \in Nat
      BY DEF Typed
    <3> QED BY <1>2, <1>3, <1>5, <2>2, <3>1, ChargedFacts
  <2> QED BY <1>6, <2>1, <2>2
<1>9. Typed'
  <2>1. faults' \in 0..MaxFaults
    BY <1>6 DEF Typed
  <2> QED BY <1>1, <1>7, <1>8, <2>1 DEF Typed, WorkersTyped
<1>10. Forward
  BY <1>1, StaysForward
<1>11. BatchesHold'
  <2>1. CASE NextItem(w)
    <3>1. /\ WorkersTyped' /\ worker'[w].due \in Seq(Items)
          /\ \A i \in DOMAIN worker'[w].due :
                 i + 1 \in DOMAIN worker[w].due /\ Read(w, i)' = Read(w, i + 1)
      BY <1>1, <2>1, NextItemFacts DEF WorkersTyped, WorkerStates
    <3>2. \A i, j \in DOMAIN worker'[w].due : i # j => Read(w, i)'.id # Read(w, j)'.id
      <4>1. \A i, j \in DOMAIN worker'[w].due : i # j => i + 1 # j + 1
        BY <3>1
      <4> QED BY <3>1, <4>1 DEF BatchesHold
    <3> QED BY <1>7, <1>9, <1>10, <3>1, <3>2, BatchesKept
  <2>2. CASE worker' = [worker EXCEPT ![w].step = "advance"]
    <3>1. worker'[w].due = worker[w].due /\ \A i : Read(w, i)' = Read(w, i)
      BY <1>1, <2>2, ToAdvanceFacts
    <3>2. \A i, j \in DOMAIN worker'[w].due : i # j => Read(w, i)'.id # Read(w, j)'.id
      BY <3>1 DEF BatchesHold
    <3> QED BY <1>7, <1>9, <1>10, <3>1, <3>2, BatchesKept
  <2> QED BY <1>6, <2>1, <2>2
<1>12. PaidFirst'
  <2>1. worker'[w].due = <<>> => worker'[w].step = "create"
    <3>1. CASE NextItem(w)
      BY <1>1, <3>1, NextItemFacts
    <3>2. CASE worker' = [worker EXCEPT ![w].step = "advance"]
      BY <1>1, <3>2, ToAdvanceFacts
    <3> QED BY <1>6, <3>1, <3>2
  <2>2. Busy(w, "advance")' => charges'[Item(w)'.id][Item(w)'.cycle] >= 1
    <3>1. CASE NextItem(w)
      BY <1>1, <3>1, NextItemFacts DEF Busy
    <3>2. CASE Charged(item) /\ worker' = [worker EXCEPT ![w].step = "advance"]
      <4>1. Item(w)' = item
        BY <1>1, <1>2, <3>2, ToAdvanceFacts DEF Item
      <4>2. charges[item.id][item.cycle] \in Nat
        BY <1>3 DEF Typed
      <4>3. charges'[item.id][item.cycle] = charges[item.id][item.cycle] + 1
        BY <1>2, <1>5, <3>2, ChargedFacts
      <4>4. charges'[item.id][item.cycle] >= 1
        BY <4>2, <4>3
      <4> QED BY <4>1, <4>4
    <3> QED BY <1>6, <3>1, <3>2
  <2>3. ASSUME NEW v \in Workers \ {w}
        PROVE  /\ worker'[v].due = <<>> => worker'[v].step = "create"
               /\ Busy(v, "advance")' => charges'[Item(v)'.id][Item(v)'.cycle] >= 1
    <3>1. /\ worker'[v].due = worker[v].due /\ worker'[v].step = worker[v].step
          /\ Busy(v, "advance")' <=> Busy(v, "advance") /\ Item(v)' = Item(v)
      BY <1>7, KeptFacts DEF OthersKept
    <3>2. ASSUME Busy(v, "advance")
          PROVE  charges'[Item(v).id][Item(v).cycle] >= 1
      <4>1. Item(v) \in Items
        BY <1>1, <3>2, ItemFacts DEF Busy
      <4>2. Item(v).id \in Subs /\ Item(v).cycle \in Cycles
        BY <4>1 DEF Items
      <4>3. /\ charges[Item(v).id][Item(v).cycle] >= 1
            /\ charges'[Item(v).id][Item(v).cycle] >= charges[Item(v).id][Item(v).cycle]
            /\ charges[Item(v).id][Item(v).cycle] \in Nat
            /\ charges'[Item(v).id][Item(v).cycle] \in Nat
        BY <1>8, <3>2, <4>2 DEF PaidFirst, Typed
      <4> QED BY <4>3
    <3> QED BY <3>1, <3>2 DEF PaidFirst
  <2> QED BY <2>1, <2>2, <2>3 DEF PaidFirst
<1>13. NeverSkipsACycle'
  <2>1. \A s \in Subs, c \in Cycles :
           charges[s][c] >= 1 => charges'[s][c] >= 1
    BY <1>8 DEF Typed
  <2> QED BY <1>1, <2>1 DEF NeverSkipsACycle, Typed
<1>14. OnSchedule' /\ ChargesDated'
  <2>1. /\ Scheduled(sub[item.id])[item.cycle] = item.next /\ item.next <= now
    BY <1>4 DEF Holds
  <2>2. \A s \in Subs, c \in Cycles :
           charges'[s][c] > 0 => charges[s][c] > 0 \/ (s = item.id /\ c = item.cycle)
    BY <1>8
  <2>3. OnSchedule'
    BY <1>1, <2>1, <2>2 DEF OnSchedule, Typed
  <2>4. ChargesDated'
    BY <1>1, <1>3, <1>5, <2>1, <2>2 DEF ChargesDated
  <2> QED BY <2>3, <2>4
<1>15. ASSUME NEW s \in Subs, NEW c \in Cycles
       PROVE  /\ MayCharge(s, c)' \subseteq MayCharge(s, c)
              /\ w \in MayCharge(item.id, item.cycle)
  <2>1. ~ Advances(w, s, c) /\ ~ Advances(w, item.id, item.cycle)
    BY <1>1 DEF Advances, Busy
  <2>2. w \in MayCharge(s, c)' => w \in MayCharge(s, c)
    BY <1>1, <1>7, <2>1 DEF MayCharge
  <2>3. ASSUME NEW v \in MayCharge(s, c)', v # w PROVE v \in MayCharge(s, c)
    <3>1. v \in Workers /\ worker'[v] = worker[v]
      BY <1>7, <2>3 DEF OthersKept, MayCharge
    <3> QED BY <1>9, <1>10, <2>3, <3>1, KeptMayCharge
  <2>4. w \in MayCharge(item.id, item.cycle)
    BY <1>2, <2>1 DEF MayCharge
  <2> QED BY <2>2, <2>3, <2>4
<1>16. ChargesCounted'
  <2>1. CASE faults' = faults + 1
    <3>1. \A s \in Subs, c \in Cycles : charges[s][c] \in Nat
      BY DEF Typed
    <3>2. \A s \in Subs, c \in Cycles : charges'[s][c] <= charges[s][c] + 1
      BY <1>8, <3>1
    <3> QED BY <1>9, <1>15, <2>1, <3>2, CountStep
  <2>2. CASE faults' = faults /\ worker' = [worker EXCEPT ![w].step = "advance"] /\ Charged(item)
    <3>1. w \notin MayCharge(item.id, item.cycle)'
      <4>1. Advances(w, item.id, item.cycle)'
        BY <1>1, <1>2, <2>2, ToAdvanceFacts
      <4> QED BY <4>1 DEF MayCharge
    <3>2. charges'[item.id][item.cycle] = charges[item.id][item.cycle] + 1
      BY <1>2, <1>5, <2>2, ChargedFacts
    <3>3. faults' >= faults
      BY <2>2, CyclerBounds DEF Typed
    <3>4. ASSUME NEW s \in Subs, NEW c \in Cycles
          PROVE  \/ /\ charges'[s][c] = charges[s][c] /\ faults' >= faults
                    /\ MayCharge(s, c)' \subseteq MayCharge(s, c)
                 \/ /\ charges'[s][c] = charges[s][c] + 1 /\ faults' >= faults
                    /\ \E x \in MayCharge(s, c) :
                          MayCharge(s, c)' \subseteq MayCharge(s, c) \ {x}
      <4>1. CASE s = item.id /\ c = item.cycle
        <5>1. MayCharge(s, c)' \subseteq MayCharge(s, c) \ {w} /\ w \in MayCharge(s, c)
          BY <1>15, <3>1, <4>1
        <5> QED BY <3>2, <3>3, <4>1, <5>1
      <4>2. CASE s # item.id \/ c # item.cycle
        BY <1>8, <1>15, <3>3, <4>2
      <4> QED BY <4>1, <4>2
    <3> QED BY <1>9, <3>4, CountStep
  <2> QED BY <1>6, <2>1, <2>2
<1>17. LateCounted'
  <2>1. /\ w \in Holders(item.id) /\ w \notin Holders(item.id)'
        /\ \A s : Holders(s)' \subseteq Holders(s)
    <3>1. w \in Holders(item.id) /\ w \notin Holders(item.id)'
      BY <1>2, <1>3, <1>7 DEF Holders
    <3>2. ASSUME NEW s, NEW v \in Holders(s)' PROVE v \in Holders(s)
      <4>1. CASE v = w
        BY <1>7, <3>2, <4>1 DEF Holders
      <4>2. CASE v # w
        <5>1. v \in Workers /\ worker'[v] = worker[v]
          BY <1>7, <3>2, <4>2 DEF OthersKept, Holders
        <5> QED BY <3>2, <5>1, KeptHolders
      <4> QED BY <4>1, <4>2
    <3> QED BY <3>1, <3>2
  <2>2. \A s \in Subs : late'[s] + Cardinality(Holders(s)') <= Cardinality(Workers)
    <3>1. ASSUME NEW s \in Subs
          PROVE  \/ late'[s] = late[s] /\ Holders(s)' \subseteq Holders(s)
                 \/ /\ late'[s] = late[s] + 1
                    /\ \E x \in Holders(s) : Holders(s)' \subseteq Holders(s) \ {x}
      <4>1. CASE late'[s] = late[s]
        BY <2>1, <4>1
      <4>2. CASE s = item.id /\ late'[s] = late[s] + 1
        <5>1. w \in Holders(s) /\ Holders(s)' \subseteq Holders(s) \ {w}
          BY <2>1, <4>2
        <5> QED BY <4>2, <5>1
      <4> QED BY <1>8, <4>1, <4>2
    <3> QED BY <1>9, <3>1, LateStep
  <2>3. \A s \in Subs : late'[s] > 0 => s \in DOMAIN sub' /\ sub'[s].status = "cancelled"
    BY <1>1, <1>5, <1>8 DEF LateCounted
  <2> QED BY <2>2, <2>3 DEF LateCounted
<1> QED BY <1>9, <1>11, <1>12, <1>13, <1>14, <1>16, <1>17

(* The conditional UPDATE: on its first arrival the next cycle, with its   *)
(* day; on a later one, nothing.                                           *)
LEMMA MovedFacts ==
    ASSUME Typed, OnSchedule, NEW item \in Items, Holds(item),
           sub' = IF sub[item.id].cycle = item.cycle
                    THEN [sub EXCEPT ![item.id] = MovedOn(sub[item.id], item)] ELSE sub
    PROVE  /\ DOMAIN sub' = DOMAIN sub /\ sub' \in [DOMAIN sub -> Rows]
           /\ \A x \in DOMAIN sub : /\ sub'[x].start = sub[x].start
                                    /\ sub'[x].cadence = sub[x].cadence
                                    /\ sub'[x].status = sub[x].status
                                    /\ sub[x].cycle <= sub'[x].cycle
                                    /\ sub'[x].next = Scheduled(sub'[x])[sub'[x].cycle]
                                    /\ \A c \in Cycles : c < sub'[x].cycle =>
                                          c < sub[x].cycle \/ (x = item.id /\ c = item.cycle)
           /\ item.cycle < sub'[item.id].cycle
<1> DEFINE row == sub[item.id]
           new == [row EXCEPT !.next = Advance(row.cadence, item.next), !.cycle = item.cycle + 1]
<1>1. item.id \in DOMAIN sub /\ row \in Rows /\ item.next <= now /\ now \in Days
  BY DEF Holds, Typed
<1>2. item.cycle \in Cycles /\ item.next \in Nat \ {0} /\ now \in Nat
  BY <1>1, CyclerBounds DEF Items
<1>3. InCalendar(item.next)
  <2>1. MonthStart[Len(MonthLengths) + 1] \in Nat
    <3>1. Len(MonthLengths) + 1 \in 1..Len(MonthLengths) + 1
      BY CalendarAssumption
    <3> QED BY <3>1, MonthStartType
  <2> QED BY <1>1, <1>2, <2>1, CyclerBounds DEF InCalendar
<1>4. Advance(row.cadence, item.next) \in Nat \ {0}
  BY <1>1, <1>3, AdvanceFacts DEF Rows
<1>5. item.cycle + 1 \in 0..MaxCycles /\ item.cycle \in 0..MaxCycles - 1 /\ item.cycle \in Nat
  BY <1>2, CyclerBounds DEF Cycles
<1>6. /\ new \in Rows /\ new.start = row.start /\ new.cadence = row.cadence
      /\ new.status = row.status /\ new.cycle = item.cycle + 1
      /\ new.next = Advance(row.cadence, item.next)
  BY <1>1, <1>4, <1>5 DEF Rows
<1>7. new.next = Scheduled(new)[new.cycle]
  <2>1. item.next = Schedule(row.start, row.cadence)[item.cycle]
    BY ScheduledIsSchedule DEF Holds
  <2>2. Advance(row.cadence, item.next) = Schedule(row.start, row.cadence)[item.cycle + 1]
    BY <1>5, <2>1, ScheduleFacts
  <2>3. Scheduled(new) = Schedule(row.start, row.cadence)
    BY <1>6, ScheduledIsSchedule
  <2> QED BY <1>6, <2>2, <2>3
<1>8. MovedOn(row, item) = new
  BY DEF MovedOn
<1>9. \A x \in DOMAIN sub : sub[x].cycle \in Nat
  BY CyclerBounds DEF Typed, Rows
<1> HIDE DEF new
<1>10. CASE row.cycle = item.cycle
  <2>1. sub' = [sub EXCEPT ![item.id] = new]
    BY <1>8, <1>10
  <2>2. /\ DOMAIN sub' = DOMAIN sub /\ sub' \in [DOMAIN sub -> Rows] /\ sub'[item.id] = new
        /\ \A x \in DOMAIN sub : x # item.id => sub'[x] = sub[x]
    BY <1>1, <1>6, <2>1 DEF Typed
  <2>3. ASSUME NEW x \in DOMAIN sub
        PROVE  /\ sub'[x].start = sub[x].start /\ sub'[x].cadence = sub[x].cadence
               /\ sub'[x].status = sub[x].status /\ sub[x].cycle <= sub'[x].cycle
               /\ sub'[x].next = Scheduled(sub'[x])[sub'[x].cycle]
               /\ \A c \in Cycles : c < sub'[x].cycle =>
                     c < sub[x].cycle \/ (x = item.id /\ c = item.cycle)
    <3>1. CASE x = item.id
      <4>1. \A c \in Cycles : c < item.cycle + 1 => c < item.cycle \/ c = item.cycle
        BY <1>5, CyclerBounds DEF Cycles
      <4> QED BY <1>5, <1>6, <1>7, <1>10, <2>2, <3>1, <4>1
    <3>2. CASE x # item.id
      BY <1>9, <2>2, <3>2 DEF OnSchedule
    <3> QED BY <3>1, <3>2
  <2>4. item.cycle < sub'[item.id].cycle
    BY <1>5, <1>6, <2>2
  <2> QED BY <2>2, <2>3, <2>4
<1>11. CASE row.cycle # item.cycle
  <2>1. sub' = sub
    BY <1>11
  <2>2. item.cycle < sub[item.id].cycle
    BY <1>1, <1>5, <1>9, <1>11 DEF Holds
  <2>3. \A x \in DOMAIN sub : /\ sub[x].cycle <= sub[x].cycle
                              /\ sub[x].next = Scheduled(sub[x])[sub[x].cycle]
    BY <1>9 DEF OnSchedule
  <2> QED BY <2>1, <2>2, <2>3 DEF Typed
<1> QED BY <1>10, <1>11

LEMMA AdvanceStep ==
    ASSUME IInv, NEW w \in Workers, AdvanceSubscription(w)
    PROVE  IInv'
<1> USE DEF IInv
<1>1. /\ worker[w].due # <<>> /\ worker[w].step = "advance" /\ NextItem(w) /\ WorkersTyped
      /\ now' = now /\ charges' = charges /\ late' = late
  BY DEF AdvanceSubscription, Busy, Typed, WorkersTyped
<1>2. PICK item \in Items :
         /\ item = Item(w) /\ 1 \in DOMAIN worker[w].due /\ item = Read(w, 1)
  BY <1>1, ItemFacts
<1>3. item.id \in Subs /\ item.cycle \in Cycles /\ Holds(item) /\ item.id \in DOMAIN sub
  BY <1>2 DEF Items, BatchesHold, Holds
<1>4. \/ /\ sub' = IF sub[item.id].cycle = item.cycle
                     THEN [sub EXCEPT ![item.id] = MovedOn(sub[item.id], item)] ELSE sub
         /\ faults' = faults
      \/ sub' = sub /\ faults' = faults + 1 /\ faults' \in 0..MaxFaults
  BY <1>2, CyclerBounds DEF AdvanceSubscription, Fault, Typed
<1>5. /\ WorkersTyped' /\ OthersKept(w) /\ worker'[w].step = "create"
      /\ \A i \in DOMAIN worker'[w].due :
            i + 1 \in DOMAIN worker[w].due /\ Read(w, i)' = Read(w, i + 1)
      /\ \A s, c : ~ Advances(w, s, c)'
      /\ \A s, c : Will(w, s, c)' => Will(w, s, c) /\ s # item.id
  BY <1>1, <1>2, NextItemFacts
<1>6. /\ DOMAIN sub' = DOMAIN sub /\ sub' \in [DOMAIN sub -> Rows]
      /\ \A x \in DOMAIN sub : /\ sub'[x].start = sub[x].start
                               /\ sub'[x].cadence = sub[x].cadence
                               /\ sub'[x].status = sub[x].status
                               /\ sub[x].cycle <= sub'[x].cycle
                               /\ sub'[x].next = Scheduled(sub'[x])[sub'[x].cycle]
                               /\ \A c \in Cycles : c < sub'[x].cycle =>
                                     c < sub[x].cycle \/ (x = item.id /\ c = item.cycle)
  <2>1. CASE sub' = sub
    <3>1. \A x \in DOMAIN sub : sub[x].cycle \in Nat
      BY CyclerBounds DEF Typed, Rows
    <3> QED BY <2>1, <3>1 DEF Typed, OnSchedule
  <2>2. CASE sub' = IF sub[item.id].cycle = item.cycle
                      THEN [sub EXCEPT ![item.id] = MovedOn(sub[item.id], item)] ELSE sub
    BY <1>3, <2>2, MovedFacts
  <2> QED BY <1>4, <2>1, <2>2
<1>7. Typed'
  <2>1. faults' \in 0..MaxFaults
    BY <1>4 DEF Typed
  <2> QED BY <1>1, <1>5, <1>6, <2>1 DEF Typed, WorkersTyped
<1>8. Forward
  <2>1. now \in Nat
    BY CyclerBounds DEF Typed
  <2> QED BY <1>1, <1>6, <2>1 DEF Forward
<1>9. BatchesHold'
  <2>1. worker'[w].due \in Seq(Items)
    BY <1>5 DEF WorkersTyped, WorkerStates
  <2>2. \A i, j \in DOMAIN worker'[w].due : i # j => i + 1 # j + 1
    BY <2>1
  <2>3. \A i, j \in DOMAIN worker'[w].due : i # j => Read(w, i)'.id # Read(w, j)'.id
    BY <1>5, <2>2 DEF BatchesHold
  <2> QED BY <1>5, <1>7, <1>8, <2>3, BatchesKept
<1>10. PaidFirst'
  <2>1. ASSUME NEW v \in Workers \ {w}
        PROVE  /\ worker'[v].due = <<>> => worker'[v].step = "create"
               /\ Busy(v, "advance")' => charges'[Item(v)'.id][Item(v)'.cycle] >= 1
    BY <1>1, <1>5, KeptFacts DEF OthersKept, PaidFirst
  <2> QED BY <1>5, <2>1 DEF PaidFirst, Busy
<1>11. NeverSkipsACycle'
  <2>1. charges[item.id][item.cycle] >= 1
    BY <1>1, <1>2 DEF PaidFirst, Busy
  <2> QED BY <1>1, <1>6, <2>1 DEF NeverSkipsACycle
<1>12. OnSchedule' /\ ChargesDated'
  <2>1. \A s \in DOMAIN sub : Scheduled(sub'[s]) = Scheduled(sub[s])
    BY <1>6, ScheduledIsSchedule
  <2>2. OnSchedule'
    BY <1>1, <1>6, <2>1 DEF OnSchedule
  <2>3. ChargesDated'
    BY <1>1, <1>6, <2>1 DEF ChargesDated
  <2> QED BY <2>2, <2>3
<1>13. ASSUME NEW s \in Subs, NEW c \in Cycles
       PROVE  /\ MayCharge(s, c)' \subseteq MayCharge(s, c) \cup {w}
              /\ faults' = faults => MayCharge(s, c)' \subseteq MayCharge(s, c)
  <2>1. ASSUME NEW v \in MayCharge(s, c)', v # w PROVE v \in MayCharge(s, c)
    <3>1. v \in Workers /\ worker'[v] = worker[v]
      BY <1>5, <2>1 DEF OthersKept, MayCharge
    <3> QED BY <1>7, <1>8, <2>1, <3>1, KeptMayCharge
  <2>2. ASSUME w \in MayCharge(s, c)', faults' = faults PROVE w \in MayCharge(s, c)
    <3>1. CASE s = item.id /\ c = item.cycle
      <4>1. faults # faults + 1
        BY CyclerBounds DEF Typed
      <4>2. s \in DOMAIN sub' /\ c < sub'[s].cycle
        BY <1>3, <1>4, <1>6, <2>2, <3>1, <4>1, MovedFacts
      <4>3. sub'[s] \in Rows
        BY <1>6, <4>2
      <4>4. ~ (sub'[s].cycle <= c)
        BY <4>2, <4>3, CyclerBounds DEF Rows, Cycles
      <4>5. ~ Will(w, s, c)'
        BY <1>5, <3>1
      <4> QED BY <2>2, <4>2, <4>4, <4>5 DEF MayCharge
    <3>2. CASE s # item.id \/ c # item.cycle
      <4>1. ~ Advances(w, s, c)
        BY <1>2, <3>2 DEF Advances
      <4>2. ASSUME s \in DOMAIN sub, sub'[s].cycle <= c PROVE sub[s].cycle <= c
        <5>1. sub[s].cycle <= sub'[s].cycle /\ sub[s] \in Rows /\ sub'[s] \in Rows
          BY <1>6, <4>2 DEF Typed
        <5>2. sub[s].cycle \in Nat /\ sub'[s].cycle \in Nat /\ c \in Nat
          BY <5>1, CyclerBounds DEF Rows, Cycles
        <5> QED BY <4>2, <5>1, <5>2
      <4> QED BY <1>5, <1>6, <2>2, <4>1, <4>2 DEF MayCharge
    <3> QED BY <3>1, <3>2
  <2> QED BY <2>1, <2>2
<1>14. ChargesCounted'
  <2>1. CASE faults' = faults
    <3>1. faults' >= faults
      BY <2>1, CyclerBounds DEF Typed
    <3> QED BY <1>1, <1>7, <1>13, <2>1, <3>1, CountStep
  <2>2. CASE faults' = faults + 1
    BY <1>1, <1>7, <1>13, <2>2, CountStep
  <2> QED BY <1>4, <2>1, <2>2
<1>15. LateCounted'
  <2>1. ASSUME NEW s \in Subs, NEW v \in Holders(s)' PROVE v \in Holders(s)
    <3>1. CASE v = w
      BY <1>5, <2>1, <3>1 DEF Holders
    <3>2. CASE v # w
      <4>1. v \in Workers /\ worker'[v] = worker[v]
        BY <1>5, <2>1, <3>2 DEF OthersKept, Holders
      <4> QED BY <2>1, <4>1, KeptHolders
    <3> QED BY <3>1, <3>2
  <2>2. \A s \in Subs : Holders(s)' \subseteq Holders(s)
    BY <2>1
  <2>3. \A s \in Subs : late'[s] + Cardinality(Holders(s)') <= Cardinality(Workers)
    BY <1>1, <1>7, <2>2, LateStep
  <2> QED BY <1>1, <1>6, <2>3 DEF LateCounted
<1> QED BY <1>7, <1>9, <1>10, <1>11, <1>12, <1>14, <1>15

LEMMA StepKeepsInv == IInv /\ [Next]_vars => IInv'
<1> SUFFICES ASSUME IInv, [Next]_vars PROVE IInv'
  OBVIOUS
<1>1. CASE UNCHANGED vars
  <2>1. /\ sub' = sub /\ now' = now /\ worker' = worker
        /\ charges' = charges /\ late' = late /\ faults' = faults
    BY <1>1 DEF vars
  <2>2. Typed' /\ Forward
    BY <2>1, StaysForward DEF IInv, Typed
  <2>3. BatchesHold' /\ PaidFirst' /\ ChargesDated' /\ ChargesCounted' /\ LateCounted'
    BY <2>1, <2>2, CalmStep
  <2> QED BY <2>1, <2>2, <2>3 DEF IInv, NeverSkipsACycle, OnSchedule
<1>2. CASE \E s \in Subs :
              \/ \E cadence \in Offered, start \in StartDays : CreateSubscription(s, cadence, start)
              \/ CancelSubscription(s)
  BY <1>2, CreateSubscriptionStep, CancelStep
<1>3. CASE \E w \in Workers : Work(w) \/ Crash(w)
  BY <1>3, TickStep, CreatePaymentStep, AdvanceStep, CrashStep DEF Work
<1>4. CASE Pass
  BY <1>4, PassStep
<1> QED BY <1>1, <1>2, <1>3, <1>4 DEF Next

-----------------------------------------------------------------------------
(* Every batch holds what was read, every charge is of a day that has come *)
(* and was counted against a worker or a fault.                            *)
THEOREM InvariantHolds == Spec => []IInv
<1>1. Init => IInv
  <2> SUFFICES ASSUME Init PROVE IInv
    OBVIOUS
  <2>1. /\ DOMAIN sub = {} /\ sub \in [DOMAIN sub -> Rows]
        /\ now \in Days /\ faults = 0
        /\ charges = [s \in Subs |-> [c \in Cycles |-> 0]]
        /\ late = [s \in Subs |-> 0]
    BY DEF Init
  <2>2. <<>> \in Seq(Items) /\ Len(<<>>) = 0
    OBVIOUS
  <2>3. ASSUME NEW w \in Workers
        PROVE  /\ worker[w] \in WorkerStates /\ worker[w].due = <<>> /\ worker[w].step = "create"
               /\ Len(worker[w].due) = 0 /\ DOMAIN worker[w].due = {}
    BY <2>2 DEF Init, Resting, WorkerStates
  <2>4. Typed
    <3>1. faults \in 0..MaxFaults
      <4>1. MaxFaults \in Nat
        BY CyclerBounds
      <4> QED BY <2>1, <4>1
    <3>2. worker \in [Workers -> WorkerStates] /\ \A w \in Workers : Len(worker[w].due) <= Batch
      <4>1. worker = [w \in Workers |-> worker[w]]
        BY DEF Init
      <4> QED BY <2>3, <4>1, CyclerBounds
    <3>3. charges \in [Subs -> [Cycles -> Nat]] /\ late \in [Subs -> Nat]
      BY <2>1
    <3> QED BY <2>1, <3>1, <3>2, <3>3 DEF Typed
  <2>5. BatchesHold /\ PaidFirst
    BY <2>3 DEF BatchesHold, PaidFirst, Busy
  <2>6. NeverSkipsACycle /\ OnSchedule /\ ChargesDated
    BY <2>1 DEF NeverSkipsACycle, OnSchedule, ChargesDated
  <2>7. ChargesCounted
    <3> SUFFICES ASSUME NEW s \in Subs, NEW c \in Cycles
                 PROVE  charges[s][c] + Cardinality(MayCharge(s, c)) <= Cardinality(Workers) + faults
      BY DEF ChargesCounted
    <3>1. MayCharge(s, c) \in SUBSET Workers
      BY DEF MayCharge
    <3> HIDE DEF MayCharge
    <3>2. /\ Cardinality(MayCharge(s, c)) \in Nat /\ Cardinality(Workers) \in Nat
          /\ Cardinality(MayCharge(s, c)) <= Cardinality(Workers)
      BY <3>1, CountFacts
    <3> QED BY <2>1, <3>2
  <2>8. LateCounted
    <3> SUFFICES ASSUME NEW s \in Subs
                 PROVE  late[s] + Cardinality(Holders(s)) <= Cardinality(Workers)
      BY <2>1 DEF LateCounted
    <3>1. Holders(s) \in SUBSET Workers
      BY DEF Holders
    <3>2. /\ Cardinality(Holders(s)) \in Nat /\ Cardinality(Workers) \in Nat
          /\ Cardinality(Holders(s)) <= Cardinality(Workers)
      BY <3>1, CountFacts
    <3> QED BY <2>1, <3>2
  <2> QED BY <2>4, <2>5, <2>6, <2>7, <2>8 DEF IInv
<1>2. IInv /\ [Next]_vars => IInv'
  BY StepKeepsInv
<1> QED BY <1>1, <1>2, PTL DEF Spec

(* Rows, batches and counts are in range; a batch holds a subscription     *)
(* once, never of a cycle the table has not reached.                       *)
THEOREM TypeCorrect == Spec => []TypeOK
<1>1. IInv => TypeOK
  <2> SUFFICES ASSUME IInv PROVE TypeOK
    OBVIOUS
  <2>1. Rows \subseteq [status : {"active", "cancelled"}, cadence : Cadences,
                        start : StartDays, next : Nat, cycle : 0..MaxCycles]
    BY DEF Rows
  <2>2. ASSUME NEW w \in Workers
        PROVE  /\ worker[w].due \in Seq(Snapshots) /\ Len(worker[w].due) <= Batch
               /\ worker[w].step \in {"create", "advance"}
    <3>1. worker[w].due \in Seq(Items) /\ worker[w].step \in {"create", "advance"}
      BY DEF IInv, Typed, WorkerStates
    <3>2. Items \subseteq Snapshots
      BY DEF Items, Snapshots
    <3> QED BY <3>1, <3>2 DEF IInv, Typed
  <2>3. ASSUME NEW w \in Workers
        PROVE  LET due == worker[w].due
               IN  /\ \A i, j \in DOMAIN due : i # j => due[i].id # due[j].id
                   /\ \A i \in DOMAIN due :
                         due[i].id \in DOMAIN sub /\ due[i].cycle <= sub[due[i].id].cycle
    BY DEF IInv, BatchesHold, Holds, Read
  <2> QED BY <2>1, <2>2, <2>3 DEF IInv, Typed, TypeOK
<1> QED BY <1>1, InvariantHolds, PTL

(* chargeOne moves a subscription on only after CreatePayment succeeded.   *)
THEOREM NoCycleSkipped == Spec => []NeverSkipsACycle
<1>1. IInv => NeverSkipsACycle
  BY DEF IInv
<1> QED BY <1>1, InvariantHolds, PTL

(* AdvanceSubscription steps from the day that was due, not from today,    *)
(* and DueSubscriptions offers no cycle before its day.                    *)
THEOREM ScheduleKept == Spec => []OnSchedule
<1>1. IInv => OnSchedule
  BY DEF IInv
<1> QED BY <1>1, InvariantHolds, PTL

(* A second charge of a cycle takes a second worker or a fault.            *)
THEOREM ChargesAccountedFor == Spec => []ChargesBounded
<1>1. IInv => ChargesBounded
  <2> SUFFICES ASSUME IInv, NEW s \in Subs, NEW c \in Cycles
               PROVE  charges[s][c] <= Cardinality(Workers) + faults
    BY DEF ChargesBounded
  <2>1. MayCharge(s, c) \in SUBSET Workers
    BY DEF MayCharge
  <2> HIDE DEF MayCharge
  <2>2. Cardinality(MayCharge(s, c)) \in Nat /\ Cardinality(Workers) \in Nat
    BY <2>1, CountFacts
  <2>3. /\ charges[s][c] + Cardinality(MayCharge(s, c)) <= Cardinality(Workers) + faults
        /\ charges[s][c] \in Nat /\ faults \in Nat
    BY CyclerBounds DEF IInv, Typed, ChargesCounted
  <2> QED BY <2>2, <2>3
<1> QED BY <1>1, InvariantHolds, PTL

(* Only a batch read before the cancellation charges after it.             *)
THEOREM CancelledIsSkipped == Spec => []CancelledSkipped
<1>1. IInv => CancelledSkipped
  <2> SUFFICES ASSUME IInv, NEW s \in Subs
               PROVE  late[s] <= Cardinality(Workers)
    BY DEF CancelledSkipped
  <2>1. Holders(s) \in SUBSET Workers
    BY DEF Holders
  <2>2. Cardinality(Holders(s)) \in Nat /\ Cardinality(Workers) \in Nat
    BY <2>1, CountFacts
  <2>3. late[s] + Cardinality(Holders(s)) <= Cardinality(Workers) /\ late[s] \in Nat
    BY DEF IInv, Typed, LateCounted
  <2> QED BY <2>2, <2>3
<1> QED BY <1>1, InvariantHolds, PTL

(* The UPDATE's condition on the cycle keeps a late worker from taking a   *)
(* subscription back; nothing but CancelSubscription sets a status.        *)
THEOREM CyclesForward == Spec => CyclesOnlyGoForward
<1> DEFINE Onward == \A s \in DOMAIN sub :
              /\ sub'[s].cycle >= sub[s].cycle
              /\ sub[s].status = "cancelled" => sub'[s].status = "cancelled"
<1>1. IInv /\ [Next]_vars => [Onward]_vars
  <2> SUFFICES ASSUME IInv, Next PROVE Onward
    OBVIOUS
  <2>1. \A s \in DOMAIN sub : sub[s].cycle \in Nat
    BY CyclerBounds DEF IInv, Typed, Rows
  <2>2. ASSUME sub' = sub PROVE Onward
    BY <2>1, <2>2
  <2>3. ASSUME NEW x \in Subs, NEW cadence \in Offered, NEW start \in StartDays,
               CreateSubscription(x, cadence, start)
        PROVE  Onward
    <3>1. \A s \in DOMAIN sub : sub'[s] = sub[s]
      BY <2>3 DEF CreateSubscription
    <3> QED BY <2>1, <3>1
  <2>4. ASSUME NEW x \in Subs, CancelSubscription(x) PROVE Onward
    <3>1. \A s \in DOMAIN sub : sub[s] \in Rows
      BY DEF IInv, Typed
    <3>2. \A s \in DOMAIN sub : /\ sub'[s].cycle = sub[s].cycle
                                /\ sub'[s].status \in {sub[s].status, "cancelled"}
      BY <2>4, <3>1 DEF CancelSubscription, Rows
    <3> QED BY <2>1, <3>2
  <2>5. ASSUME NEW w \in Workers, AdvanceSubscription(w), sub' # sub PROVE Onward
    <3>1. worker[w].due # <<>> /\ WorkersTyped
      BY <2>5 DEF AdvanceSubscription, Busy, IInv, Typed, WorkersTyped
    <3>2. PICK item \in Items : item = Item(w) /\ 1 \in DOMAIN worker[w].due /\ item = Read(w, 1)
      BY <3>1, ItemFacts
    <3>3. Holds(item)
      BY <3>2 DEF IInv, BatchesHold
    <3>4. sub' = IF sub[item.id].cycle = item.cycle
                   THEN [sub EXCEPT ![item.id] = MovedOn(sub[item.id], item)] ELSE sub
      BY <2>5, <3>2 DEF AdvanceSubscription
    <3>5. \A s \in DOMAIN sub : /\ sub'[s].status = sub[s].status
                                /\ sub[s].cycle <= sub'[s].cycle /\ sub'[s] \in Rows
      BY <3>3, <3>4, MovedFacts DEF IInv
    <3>6. \A s \in DOMAIN sub : sub'[s].cycle \in Nat
      BY <3>5, CyclerBounds DEF Rows
    <3> QED BY <2>1, <3>5, <3>6
  <2>6. ASSUME NEW w \in Workers, Tick(w) \/ CreatePayment(w) \/ Crash(w) PROVE sub' = sub
    BY <2>6 DEF Tick, CreatePayment, Crash
  <2>7. ASSUME Pass PROVE sub' = sub
    BY <2>7 DEF Pass
  <2> HIDE DEF Onward
  <2> QED BY <2>2, <2>3, <2>4, <2>5, <2>6, <2>7 DEF Next, Work
<1>2. (Spec => [][Onward]_vars) => (Spec => CyclesOnlyGoForward)
  BY DEF CyclesOnlyGoForward
<1> HIDE DEF Onward
<1> QED BY <1>1, <1>2, InvariantHolds, PTL DEF Spec

-----------------------------------------------------------------------------
(* The fee-worker's inductive invariant.  A worker deletes a message only  *)
(* after its fee is recorded (SettledFirst; an idle worker starts each     *)
(* batch at its settle step), which is what keeps NoEventLost; a message   *)
(* on the queue or in a batch is that of an event that was sent (Traced),  *)
(* which is what keeps OnlyPublishedPay.                                   *)
States == {"not created", "declined", "unpublished", "by cycler", "published", "send failed"}

FeeWorkerStates == [release : Surcharges, batch : Seq(Messages), step : {"settle", "delete"}]

FeeTyped ==
    /\ payment \in [Payments -> States]
    /\ fee \in [Payments -> Nat]
    /\ \A p \in Payments :
          fee[p] \in {0} \cup {MockNetworkFee(AmountOf[p]) + x : x \in Surcharges}
    /\ queue \in [Messages -> {"absent", "visible", "hidden"}]
    /\ feeWorker \in [FeeWorkers -> FeeWorkerStates]
    /\ \A w \in FeeWorkers : Len(feeWorker[w].batch) <= FeeBatch
    /\ feeFaults \in 0..MaxFeeFaults

SettledFirst ==
    \A w \in FeeWorkers :
       /\ feeWorker[w].batch = <<>> => feeWorker[w].step = "settle"
       /\ FeeBusy(w, "delete") /\ FeeItem(w) \in Payments => fee[FeeItem(w)] # 0

Traced ==
    \A p \in Payments :
       /\ queue[p] # "absent" \/ fee[p] # 0 \/ Held(p) => payment[p] \in {"published", "send failed"}
       /\ payment[p] \in {"unpublished", "published", "send failed"} =>
             InitialStatus("card", AmountOf[p]) # "declined"

FeeIInv == FeeTyped /\ SettledFirst /\ Traced /\ NoEventLost

-----------------------------------------------------------------------------
(* No release computes a fee of 0, the mark of "not set".                  *)
LEMMA FeePositive ==
    ASSUME NEW p \in Payments, NEW x \in Surcharges
    PROVE  MockNetworkFee(AmountOf[p]) + x \in Nat \ {0}
<1>1. AmountOf[p] \in Nat /\ x \in Nat
  BY FeeWorkerBounds
<1>2. (AmountOf[p] * 25) \div 10000 \in Nat
  BY <1>1
<1> QED BY <1>1, <1>2 DEF MockNetworkFee

(* SettleNetworkFee leaves a fee behind and no other fee touched.          *)
LEMMA SetFeeFacts ==
    ASSUME FeeTyped, NEW w \in FeeWorkers, NEW p \in Payments, SetFee(w, p)
    PROVE  /\ fee' \in [Payments -> Nat] /\ fee'[p] # 0
           /\ \A q \in Payments :
                 /\ fee'[q] \in {0} \cup {MockNetworkFee(AmountOf[q]) + x : x \in Surcharges}
                 /\ fee[q] # 0 => fee'[q] = fee[q]
                 /\ q # p => fee'[q] = fee[q]
<1> DEFINE new == MockNetworkFee(AmountOf[p]) + feeWorker[w].release
<1>1. feeWorker[w].release \in Surcharges
  BY DEF FeeTyped, FeeWorkerStates
<1>2. new \in Nat \ {0} /\ new \in {MockNetworkFee(AmountOf[p]) + x : x \in Surcharges}
  BY <1>1, FeePositive
<1>3. fee' = IF fee[p] = 0 THEN [fee EXCEPT ![p] = new] ELSE fee
  BY DEF SetFee
<1> HIDE DEF new
<1> QED BY <1>2, <1>3 DEF FeeTyped

(* The workers' states after each kind of step.                            *)
FeeWorkersTyped ==
    /\ feeWorker \in [FeeWorkers -> FeeWorkerStates]
    /\ \A w \in FeeWorkers : Len(feeWorker[w].batch) <= FeeBatch

LEMMA FeeNextItemFacts ==
    ASSUME FeeWorkersTyped, NEW w \in FeeWorkers, feeWorker[w].batch # <<>>, NextMessage(w)
    PROVE  /\ FeeWorkersTyped'
           /\ feeWorker'[w].step = "settle"
           /\ \A v \in FeeWorkers \ {w} : feeWorker'[v] = feeWorker[v]
           /\ \A m : Held(m)' => Held(m)
<1> DEFINE batch == feeWorker[w].batch
<1>1. feeWorker[w] \in FeeWorkerStates /\ batch \in Seq(Messages) /\ batch # <<>> /\ Len(batch) <= FeeBatch
  BY DEF FeeWorkersTyped, FeeWorkerStates
<1>2. /\ Tail(batch) \in Seq(Messages) /\ Len(Tail(batch)) <= FeeBatch
      /\ \A i \in DOMAIN Tail(batch) : i + 1 \in DOMAIN batch /\ Tail(batch)[i] = batch[i + 1]
  BY <1>1, FeeWorkerBounds
<1>3. /\ feeWorker'[w] = [feeWorker[w] EXCEPT !.batch = Tail(batch), !.step = "settle"]
      /\ \A v \in FeeWorkers \ {w} : feeWorker'[v] = feeWorker[v]
      /\ DOMAIN feeWorker' = FeeWorkers /\ feeWorker' = [v \in FeeWorkers |-> feeWorker'[v]]
  BY DEF NextMessage, FeeWorkersTyped
<1> HIDE DEF batch
<1>4. feeWorker'[w].batch = Tail(batch) /\ feeWorker'[w].step = "settle" /\ feeWorker'[w] \in FeeWorkerStates
  BY <1>1, <1>2, <1>3 DEF FeeWorkerStates
<1>5. FeeWorkersTyped'
  BY <1>2, <1>3, <1>4 DEF FeeWorkersTyped
<1>6. ASSUME NEW m, Held(m)' PROVE Held(m)
  <2>1. PICK v \in FeeWorkers : \E i \in DOMAIN feeWorker'[v].batch : feeWorker'[v].batch[i] = m
    BY <1>6 DEF Held
  <2>2. CASE v = w
    BY <1>2, <1>4, <2>1, <2>2 DEF Held, batch
  <2>3. CASE v # w
    BY <1>3, <2>1, <2>3 DEF Held
  <2> QED BY <2>2, <2>3
<1> QED BY <1>3, <1>4, <1>5, <1>6

LEMMA ToDeleteFacts ==
    ASSUME FeeWorkersTyped, NEW w \in FeeWorkers,
           feeWorker' = [feeWorker EXCEPT ![w].step = "delete"]
    PROVE  /\ FeeWorkersTyped'
           /\ \A v \in FeeWorkers : feeWorker'[v].batch = feeWorker[v].batch
           /\ \A v \in FeeWorkers \ {w} : feeWorker'[v] = feeWorker[v]
           /\ \A m : Held(m)' => Held(m)
<1>1. FeeWorkersTyped' /\ \A v \in FeeWorkers : feeWorker'[v].batch = feeWorker[v].batch
  BY DEF FeeWorkersTyped, FeeWorkerStates
<1>2. \A v \in FeeWorkers \ {w} : feeWorker'[v] = feeWorker[v]
  BY DEF FeeWorkersTyped
<1> QED BY <1>1, <1>2 DEF Held

LEMMA RestartFacts ==
    ASSUME FeeWorkersTyped, NEW w \in FeeWorkers, Restart(w)
    PROVE  /\ FeeWorkersTyped'
           /\ feeWorker'[w].batch = <<>> /\ feeWorker'[w].step = "settle"
           /\ \A v \in FeeWorkers \ {w} : feeWorker'[v] = feeWorker[v]
           /\ \A m : Held(m)' => Held(m)
<1>1. PICK r \in Surcharges :
         feeWorker' = [feeWorker EXCEPT ![w] = [release |-> r, batch |-> <<>>, step |-> "settle"]]
  BY DEF Restart
<1>2. /\ feeWorker'[w] = [release |-> r, batch |-> <<>>, step |-> "settle"]
      /\ \A v \in FeeWorkers \ {w} : feeWorker'[v] = feeWorker[v]
      /\ feeWorker' = [v \in FeeWorkers |-> feeWorker'[v]]
  BY <1>1 DEF FeeWorkersTyped
<1>3. feeWorker'[w] \in FeeWorkerStates /\ Len(feeWorker'[w].batch) = 0 /\ feeWorker'[w].batch = <<>>
  BY <1>2 DEF FeeWorkerStates
<1>4. FeeWorkersTyped'
  BY <1>2, <1>3, FeeWorkerBounds DEF FeeWorkersTyped
<1>5. DOMAIN feeWorker'[w].batch = {}
  BY <1>3
<1> QED BY <1>2, <1>3, <1>4, <1>5 DEF Held

LEMMA ReceiveFacts ==
    ASSUME FeeTyped, NEW w \in FeeWorkers, Receive(w)
    PROVE  /\ FeeWorkersTyped'
           /\ feeWorker'[w].step = feeWorker[w].step
           /\ \A v \in FeeWorkers \ {w} : feeWorker'[v] = feeWorker[v]
           /\ \A m : Held(m)' => Held(m) \/ (m \in Messages /\ queue[m] = "visible")
           /\ queue' \in [Messages -> {"absent", "visible", "hidden"}]
           /\ \A m \in Messages : queue[m] # "absent" <=> queue'[m] # "absent"
<1>1. PICK n \in 1..FeeBatch : \E taken \in [1..n -> {m \in Messages : queue[m] = "visible"}] :
         /\ \A i, j \in 1..n : i # j => taken[i] # taken[j]
         /\ feeWorker' = [feeWorker EXCEPT ![w].batch = taken]
         /\ queue' = [m \in Messages |-> IF \E i \in 1..n : taken[i] = m THEN "hidden" ELSE queue[m]]
  BY Zenon DEF Receive
<1>2. PICK taken \in [1..n -> {m \in Messages : queue[m] = "visible"}] :
         /\ feeWorker' = [feeWorker EXCEPT ![w].batch = taken]
         /\ queue' = [m \in Messages |-> IF \E i \in 1..n : taken[i] = m THEN "hidden" ELSE queue[m]]
  BY <1>1
<1>3. n \in Nat /\ n <= FeeBatch
  BY FeeWorkerBounds
<1>4. taken \in Seq(Messages) /\ Len(taken) = n /\ DOMAIN taken = 1..n
  BY <1>2, <1>3
<1>5. /\ feeWorker'[w] = [feeWorker[w] EXCEPT !.batch = taken]
      /\ \A v \in FeeWorkers \ {w} : feeWorker'[v] = feeWorker[v]
      /\ feeWorker' = [v \in FeeWorkers |-> feeWorker'[v]]
  <2>1. feeWorker \in [FeeWorkers -> FeeWorkerStates]
    BY DEF FeeTyped
  <2>2. feeWorker' = [feeWorker EXCEPT ![w].batch = taken]
    BY <1>2
  <2> QED BY <2>1, <2>2
<1>6. /\ feeWorker'[w].batch = taken /\ feeWorker'[w].step = feeWorker[w].step
      /\ feeWorker'[w] \in FeeWorkerStates
  <2>1. feeWorker[w] \in FeeWorkerStates
    BY DEF FeeTyped
  <2> QED BY <1>4, <1>5, <2>1 DEF FeeWorkerStates
<1>7. FeeWorkersTyped'
  BY <1>3, <1>4, <1>5, <1>6 DEF FeeTyped, FeeWorkersTyped
<1>8. ASSUME NEW m, Held(m)'
      PROVE  Held(m) \/ (m \in Messages /\ queue[m] = "visible")
  <2>1. PICK v \in FeeWorkers : \E i \in DOMAIN feeWorker'[v].batch : feeWorker'[v].batch[i] = m
    BY <1>8 DEF Held
  <2>2. CASE v = w
    BY <1>2, <1>4, <1>6, <2>1, <2>2
  <2>3. CASE v # w
    BY <1>5, <2>1, <2>3 DEF Held
  <2> QED BY <2>2, <2>3
<1>9. /\ queue' \in [Messages -> {"absent", "visible", "hidden"}]
      /\ \A m \in Messages : queue[m] # "absent" <=> queue'[m] # "absent"
  BY <1>2 DEF FeeTyped
<1> QED BY <1>5, <1>6, <1>7, <1>8, <1>9

-----------------------------------------------------------------------------
(* One step per action.                                                    *)
LEMMA MessageFacts ==
    /\ Payments \subseteq Messages /\ Payments \cap (Junk \cup Strays) = {}
    /\ \A m \in Messages : m \in Payments \/ m \in Junk \cup Strays
BY FeeWorkerBounds DEF Messages

LEMMA FaultsBounded ==
    ASSUME FeeTyped, FeeFault \/ UNCHANGED feeFaults
    PROVE  feeFaults' \in 0..MaxFeeFaults
BY FeeWorkerBounds DEF FeeTyped, FeeFault

(* Steps that touch no worker: the API's, the queue's, what intrudes.      *)
LEMMA QueueStep ==
    ASSUME FeeIInv,
           \/ \E p \in Payments : CommitPayment(p) \/ Publish(p)
           \/ \E m \in Messages : Intrude(m) \/ Timeout(m)
    PROVE  FeeIInv'
<1> USE DEF FeeIInv
<1>1. feeWorker' = feeWorker /\ fee' = fee /\ feeFaults' \in 0..MaxFeeFaults
  <2>1. feeWorker' = feeWorker /\ fee' = fee /\ (FeeFault \/ UNCHANGED feeFaults)
    BY DEF CommitPayment, Publish, Intrude, Timeout
  <2> QED BY <2>1, FaultsBounded
<1>2. SettledFirst' /\ \A m : Held(m)' <=> Held(m)
  BY <1>1 DEF SettledFirst, FeeBusy, FeeItem, Held
<1>3. ASSUME NEW p \in Payments, CommitPayment(p) PROVE FeeTyped' /\ Traced' /\ NoEventLost'
  <2>1. /\ queue' = queue /\ payment[p] = "not created"
        /\ payment' \in [Payments -> States]
        /\ payment'[p] \in {"declined", "unpublished", "by cycler"}
        /\ payment'[p] = "unpublished" => InitialStatus("card", AmountOf[p]) # "declined"
        /\ \A q \in Payments \ {p} : payment'[q] = payment[q]
    BY <1>3 DEF CommitPayment, FeeTyped, States
  <2>2. FeeTyped'
    BY <1>1, <2>1 DEF FeeTyped
  <2>3. Traced'
    BY <1>1, <1>2, <2>1 DEF Traced
  <2>4. NoEventLost'
    BY <1>1, <2>1 DEF NoEventLost
  <2> QED BY <2>2, <2>3, <2>4
<1>4. ASSUME NEW p \in Payments, Publish(p) PROVE FeeTyped' /\ Traced' /\ NoEventLost'
  <2>1. /\ payment[p] = "unpublished"
        /\ payment' \in [Payments -> States]
        /\ \/ payment'[p] = "published" /\ queue' = [queue EXCEPT ![p] = "visible"]
           \/ payment'[p] = "send failed" /\ queue' \in {queue, [queue EXCEPT ![p] = "visible"]}
        /\ \A q \in Payments \ {p} : payment'[q] = payment[q]
    BY <1>4 DEF Publish, FeeTyped, States
  <2>2. /\ queue' \in [Messages -> {"absent", "visible", "hidden"}]
        /\ \A m \in Messages : m # p => queue'[m] = queue[m]
        /\ payment'[p] = "published" => queue'[p] = "visible"
    BY <2>1, MessageFacts DEF FeeTyped
  <2>3. FeeTyped'
    BY <1>1, <2>1, <2>2 DEF FeeTyped
  <2>4. Traced'
    BY <1>1, <1>2, <2>1, <2>2, MessageFacts DEF Traced
  <2>5. NoEventLost'
    BY <1>1, <2>1, <2>2, MessageFacts DEF NoEventLost
  <2> QED BY <2>3, <2>4, <2>5
<1>5. ASSUME NEW m \in Messages, Intrude(m) \/ Timeout(m)
      PROVE  FeeTyped' /\ Traced' /\ NoEventLost'
  <2>1. /\ payment' = payment /\ queue' = [queue EXCEPT ![m] = "visible"]
        /\ m \in Payments => queue[m] = "hidden"
    BY <1>5, MessageFacts DEF Intrude, Timeout
  <2>2. /\ queue' \in [Messages -> {"absent", "visible", "hidden"}]
        /\ \A p \in Payments : queue'[p] # "absent" <=> queue[p] # "absent"
    BY <2>1, MessageFacts DEF FeeTyped
  <2>3. FeeTyped'
    BY <1>1, <2>1, <2>2 DEF FeeTyped
  <2>4. Traced'
    BY <1>1, <1>2, <2>1, <2>2 DEF Traced
  <2>5. NoEventLost'
    BY <1>1, <2>1, <2>2 DEF NoEventLost
  <2> QED BY <2>3, <2>4, <2>5
<1> QED BY <1>2, <1>3, <1>4, <1>5

LEMMA ReceiveStep ==
    ASSUME FeeIInv, NEW w \in FeeWorkers, Receive(w)
    PROVE  FeeIInv'
<1> USE DEF FeeIInv
<1>1. payment' = payment /\ fee' = fee /\ feeFaults' = feeFaults /\ feeWorker[w].batch = <<>>
  BY DEF Receive
<1>2. FeeTyped'
  BY <1>1, ReceiveFacts DEF FeeTyped, FeeWorkersTyped
<1>3. SettledFirst'
  <2>1. feeWorker'[w].step = "settle" /\ \A v \in FeeWorkers \ {w} : feeWorker'[v] = feeWorker[v]
    BY <1>1, ReceiveFacts DEF SettledFirst
  <2> QED BY <1>1, <2>1 DEF SettledFirst, FeeBusy, FeeItem
<1>4. Traced' /\ NoEventLost'
  BY <1>1, ReceiveFacts, MessageFacts DEF Traced, NoEventLost
<1> QED BY <1>2, <1>3, <1>4

LEMMA SettleStep ==
    ASSUME FeeIInv, NEW w \in FeeWorkers, Settle(w)
    PROVE  FeeIInv'
<1> DEFINE m == FeeItem(w)
<1> USE DEF FeeIInv
<1>1. /\ feeWorker[w].batch # <<>> /\ feeWorker[w].step = "settle" /\ payment' = payment /\ queue' = queue
      /\ feeWorker[w].batch \in Seq(Messages) /\ FeeWorkersTyped
  BY DEF Settle, FeeBusy, FeeTyped, FeeWorkersTyped, FeeWorkerStates
<1>2. m \in Messages /\ Held(m)
  <2>1. 1 \in DOMAIN feeWorker[w].batch /\ m = feeWorker[w].batch[1]
    BY <1>1 DEF FeeItem
  <2> QED BY <1>1, <2>1 DEF Held
<1>3. feeFaults' \in 0..MaxFeeFaults
  BY FeeWorkerBounds DEF Settle, FeeFault, FeeTyped
<1>4. \/ m \in Junk \cup Strays /\ fee' = fee
      \/ m \in Payments /\ fee' = fee /\ NextMessage(w)
      \/ m \in Payments /\ SetFee(w, m)
  BY DEF Settle
<1>5. NextMessage(w) \/ feeWorker' = [feeWorker EXCEPT ![w].step = "delete"]
  BY DEF Settle
<1>6. /\ fee' \in [Payments -> Nat]
      /\ \A q \in Payments :
            /\ fee'[q] \in {0} \cup {MockNetworkFee(AmountOf[q]) + x : x \in Surcharges}
            /\ fee[q] # 0 => fee'[q] = fee[q]
            /\ fee'[q] = fee[q] \/ q = m
      /\ m \in Payments /\ feeWorker' = [feeWorker EXCEPT ![w].step = "delete"] => fee'[m] # 0
  <2>1. CASE fee' = fee
    <3>1. m \in Payments /\ feeWorker' = [feeWorker EXCEPT ![w].step = "delete"] => fee'[m] # 0
      <4> SUFFICES ASSUME m \in Payments, feeWorker' = [feeWorker EXCEPT ![w].step = "delete"]
                   PROVE  fee'[m] # 0
        OBVIOUS
      <4>1. ~ NextMessage(w)
        BY <1>1, FeeNextItemFacts, ToDeleteFacts DEF FeeWorkersTyped, FeeWorkerStates
      <4>2. SetFee(w, m)
        BY <1>4, <4>1, MessageFacts
      <4> QED BY <4>2, SetFeeFacts
    <3> QED BY <2>1, <3>1 DEF FeeTyped
  <2>2. CASE m \in Payments /\ SetFee(w, m)
    BY <2>2, SetFeeFacts
  <2> QED BY <1>4, <2>1, <2>2
<1>7. /\ FeeWorkersTyped' /\ \A x : Held(x)' => Held(x)
      /\ \A v \in FeeWorkers \ {w} : feeWorker'[v] = feeWorker[v]
  BY <1>1, <1>5, FeeNextItemFacts, ToDeleteFacts
<1>8. FeeTyped'
  BY <1>1, <1>3, <1>6, <1>7 DEF FeeTyped, FeeWorkersTyped
<1>9. SettledFirst'
  <2>1. ASSUME NEW v \in FeeWorkers, FeeBusy(v, "delete")', FeeItem(v)' \in Payments
        PROVE  fee'[FeeItem(v)'] # 0
    <3>1. CASE v = w
      <4>1. ~ NextMessage(w)
        BY <1>1, <2>1, <3>1, FeeNextItemFacts DEF FeeBusy
      <4>2. feeWorker' = [feeWorker EXCEPT ![w].step = "delete"] /\ FeeItem(w)' = m
        BY <1>1, <1>5, <4>1, ToDeleteFacts DEF FeeItem
      <4> QED BY <1>6, <2>1, <3>1, <4>2
    <3>2. CASE v # w
      <4>1. FeeBusy(v, "delete") /\ FeeItem(v)' = FeeItem(v)
        BY <1>7, <2>1, <3>2 DEF FeeBusy, FeeItem
      <4> QED BY <1>6, <2>1, <3>2, <4>1 DEF SettledFirst
    <3> QED BY <3>1, <3>2
  <2>2. ASSUME NEW v \in FeeWorkers, feeWorker'[v].batch = <<>> PROVE feeWorker'[v].step = "settle"
    <3>1. CASE v = w
      BY <1>1, <1>5, <2>2, <3>1, FeeNextItemFacts, ToDeleteFacts
    <3>2. CASE v # w
      BY <1>7, <2>2, <3>2 DEF SettledFirst
    <3> QED BY <3>1, <3>2
  <2> QED BY <2>1, <2>2 DEF SettledFirst
<1>10. Traced'
  <2>1. \A q \in Payments : fee'[q] # 0 => fee[q] # 0 \/ Held(q)
    BY <1>2, <1>6
  <2> QED BY <1>1, <1>7, <2>1 DEF Traced
<1>11. NoEventLost'
  BY <1>1, <1>6 DEF NoEventLost, FeeTyped
<1> QED BY <1>8, <1>9, <1>10, <1>11

LEMMA DeleteStep ==
    ASSUME FeeIInv, NEW w \in FeeWorkers, Delete(w)
    PROVE  FeeIInv'
<1> DEFINE m == FeeItem(w)
<1> USE DEF FeeIInv
<1>1. /\ FeeBusy(w, "delete") /\ NextMessage(w) /\ payment' = payment /\ fee' = fee
      /\ queue' \in {queue, [queue EXCEPT ![m] = "absent"]}
      /\ FeeWorkersTyped
  BY DEF Delete, FeeTyped, FeeWorkersTyped
<1>2. feeFaults' \in 0..MaxFeeFaults
  BY FeeWorkerBounds DEF Delete, FeeFault, FeeTyped
<1>3. /\ FeeWorkersTyped' /\ feeWorker'[w].step = "settle" /\ \A x : Held(x)' => Held(x)
      /\ \A v \in FeeWorkers \ {w} : feeWorker'[v] = feeWorker[v]
  BY <1>1, FeeNextItemFacts DEF FeeBusy
<1>4. /\ queue' \in [Messages -> {"absent", "visible", "hidden"}]
      /\ \A p \in Payments : queue'[p] = queue[p] \/ p = m
      /\ \A p \in Payments : queue'[p] # "absent" => queue[p] # "absent"
  BY <1>1, MessageFacts DEF FeeTyped
<1>5. FeeTyped'
  BY <1>1, <1>2, <1>3, <1>4 DEF FeeTyped, FeeWorkersTyped
<1>6. SettledFirst'
  BY <1>1, <1>3 DEF SettledFirst, FeeBusy, FeeItem
<1>7. Traced'
  BY <1>1, <1>3, <1>4 DEF Traced
<1>8. NoEventLost'
  <2>1. m \in Payments => fee[m] # 0
    BY <1>1 DEF SettledFirst
  <2> QED BY <1>1, <1>4, <2>1 DEF NoEventLost
<1> QED BY <1>5, <1>6, <1>7, <1>8

LEMMA RestartStep ==
    ASSUME FeeIInv, NEW w \in FeeWorkers, Restart(w)
    PROVE  FeeIInv'
<1> USE DEF FeeIInv
<1>1. payment' = payment /\ fee' = fee /\ queue' = queue /\ FeeWorkersTyped
  BY DEF Restart, FeeTyped, FeeWorkersTyped
<1>2. feeFaults' \in 0..MaxFeeFaults
  BY FeeWorkerBounds DEF Restart, FeeFault, FeeTyped
<1>3. FeeTyped'
  BY <1>1, <1>2, RestartFacts DEF FeeTyped, FeeWorkersTyped
<1>4. SettledFirst'
  <2>1. \A v \in FeeWorkers :
           \/ feeWorker'[v].batch = <<>> /\ feeWorker'[v].step = "settle"
           \/ feeWorker'[v] = feeWorker[v]
    BY <1>1, RestartFacts
  <2> QED BY <1>1, <2>1 DEF SettledFirst, FeeBusy, FeeItem
<1>5. Traced'
  <2>1. \A m : Held(m)' => Held(m)
    BY <1>1, RestartFacts
  <2> QED BY <1>1, <2>1 DEF Traced
<1>6. NoEventLost'
  BY <1>1 DEF NoEventLost
<1> QED BY <1>3, <1>4, <1>5, <1>6

LEMMA FeeStepKeepsInv == FeeIInv /\ [FeeNext]_feeVars => FeeIInv'
<1> SUFFICES ASSUME FeeIInv, [FeeNext]_feeVars PROVE FeeIInv'
  OBVIOUS
<1>1. CASE UNCHANGED feeVars
  BY <1>1 DEF FeeIInv, FeeTyped, SettledFirst, Traced, feeVars, FeeBusy,
              FeeItem, Held, NoEventLost
<1>2. CASE \E w \in FeeWorkers : FeeWork(w) \/ Restart(w)
  BY <1>2, ReceiveStep, SettleStep, DeleteStep, RestartStep DEF FeeWork
<1>3. CASE \/ \E p \in Payments : CommitPayment(p) \/ Publish(p)
           \/ \E m \in Messages : Intrude(m) \/ Timeout(m)
  BY <1>3, QueueStep
<1> QED BY <1>1, <1>2, <1>3 DEF FeeNext

-----------------------------------------------------------------------------
THEOREM FeeInvariantHolds == FeeSpec => []FeeIInv
<1>1. FeeInit => FeeIInv
  <2> SUFFICES ASSUME FeeInit PROVE FeeIInv
    OBVIOUS
  <2> DEFINE Fresh == [release : Surcharges, batch : {<<>>}, step : {"settle"}]
  <2>1. feeWorker \in [FeeWorkers -> Fresh]
    BY DEF FeeInit
  <2>2. \A x \in Fresh : x \in FeeWorkerStates /\ x.batch = <<>> /\ x.step = "settle"
    <3>1. <<>> \in Seq(Messages)
      OBVIOUS
    <3> QED BY <3>1 DEF FeeWorkerStates
  <2> HIDE DEF Fresh
  <2>3. \A w \in FeeWorkers : /\ feeWorker[w] \in FeeWorkerStates /\ feeWorker[w].step = "settle"
                           /\ feeWorker[w].batch = <<>> /\ Len(feeWorker[w].batch) = 0
                           /\ DOMAIN feeWorker[w].batch = {}
    BY <2>1, <2>2
  <2>4. /\ feeWorker \in [FeeWorkers -> FeeWorkerStates]
        /\ \A w \in FeeWorkers : Len(feeWorker[w].batch) <= FeeBatch
    BY <2>1, <2>2, <2>3, FeeWorkerBounds
  <2>5. FeeTyped
    <3>1. payment \in [Payments -> States] /\ fee \in [Payments -> Nat]
      BY DEF FeeInit, States
    <3>2. \A p \in Payments :
             fee[p] \in {0} \cup {MockNetworkFee(AmountOf[p]) + x : x \in Surcharges}
      BY DEF FeeInit
    <3>3. queue \in [Messages -> {"absent", "visible", "hidden"}]
      BY DEF FeeInit
    <3>4. feeFaults \in 0..MaxFeeFaults
      <4>1. feeFaults = 0
        BY DEF FeeInit
      <4>2. MaxFeeFaults \in Nat
        BY FeeWorkerBounds
      <4> QED BY <4>1, <4>2
    <3> QED BY <2>4, <3>1, <3>2, <3>3, <3>4 DEF FeeTyped
  <2>6. SettledFirst /\ NoEventLost
    BY <2>3 DEF FeeInit, SettledFirst, FeeBusy, NoEventLost
  <2>7. Traced
    BY <2>3, MessageFacts DEF FeeInit, Traced, Held
  <2> QED BY <2>5, <2>6, <2>7 DEF FeeIInv
<1>2. FeeIInv /\ [FeeNext]_feeVars => FeeIInv'
  BY FeeStepKeepsInv
<1> QED BY <1>1, <1>2, PTL DEF FeeSpec

(* Every queue, batch, fee and fault count is in range.                    *)
THEOREM FeeTypeCorrect == FeeSpec => []FeeTypeOK
<1>1. FeeIInv => FeeTypeOK
  BY DEF FeeIInv, FeeTyped, FeeTypeOK, States, FeeWorkerStates
<1> QED BY <1>1, FeeInvariantHolds, PTL

(* The worker deletes a message only with its fee recorded: what was       *)
(* published is paid or still on the queue.                                *)
THEOREM EventsKept == FeeSpec => []NoEventLost
<1>1. FeeIInv => NoEventLost
  BY DEF FeeIInv
<1> QED BY <1>1, FeeInvariantHolds, PTL

(* A fee is only ever recorded for a payment whose event was sent, never   *)
(* for a declined one.                                                     *)
THEOREM OnlySentPay == FeeSpec => []OnlyPublishedPay
<1>1. FeeIInv => OnlyPublishedPay
  BY DEF FeeIInv, Traced, OnlyPublishedPay
<1> QED BY <1>1, FeeInvariantHolds, PTL

(* SettleNetworkFee is set-once, whatever is redelivered and whichever     *)
(* release of the worker computes it.                                      *)
THEOREM FeeSetOnce == FeeSpec => FirstFeeStays
<1> DEFINE Stays == \A p \in Payments : fee[p] # 0 => fee'[p] = fee[p]
<1>1. FeeIInv /\ [FeeNext]_feeVars => [Stays]_feeVars
  <2> SUFFICES ASSUME FeeIInv, FeeNext PROVE Stays
    OBVIOUS
  <2>1. ASSUME NEW w \in FeeWorkers, Settle(w) PROVE Stays
    <3>1. (FeeItem(w) \in Payments /\ SetFee(w, FeeItem(w))) \/ fee' = fee
      BY <2>1 DEF Settle
    <3> QED BY <3>1, SetFeeFacts DEF FeeIInv
  <2>2. ASSUME NEW w \in FeeWorkers, Receive(w) \/ Delete(w) \/ Restart(w) PROVE Stays
    BY <2>2 DEF Receive, Delete, Restart
  <2>3. ASSUME NEW p \in Payments, CommitPayment(p) \/ Publish(p) PROVE Stays
    BY <2>3 DEF CommitPayment, Publish
  <2>4. ASSUME NEW m \in Messages, Intrude(m) \/ Timeout(m) PROVE Stays
    BY <2>4 DEF Intrude, Timeout
  <2> QED BY <2>1, <2>2, <2>3, <2>4 DEF FeeNext, FeeWork
<1>2. (FeeSpec => [][Stays]_feeVars) => (FeeSpec => FirstFeeStays)
  BY DEF FirstFeeStays
<1> HIDE DEF Stays
<1> QED BY <1>1, <1>2, FeeInvariantHolds, PTL DEF FeeSpec

=============================================================================
