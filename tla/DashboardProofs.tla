--------------------------- MODULE DashboardProofs --------------------------
(***************************************************************************)
(* Proofs about Paging and Dashboard, for any number of payments,          *)
(* merchants, timestamps and loads in flight, any page size and any        *)
(* filters: a listing shows what stayed put exactly once, the reports of   *)
(* adjoining ranges add up, and a screen that was chosen in peace is one   *)
(* merchant's listing.                                                     *)
(***************************************************************************)
EXTENDS Dashboard, SumLemmas

-----------------------------------------------------------------------------
(* The order of a listing.                                                 *)
TableTyped ==
    /\ clock \in Times
    /\ DOMAIN payment \subseteq Ids /\ payment \in [DOMAIN payment -> Rows]
    /\ DOMAIN drawn \subseteq Ids \ DOMAIN payment /\ drawn \in [DOMAIN drawn -> Rows]

(* Keys are totally ordered.                                               *)
LEMMA OlderIsAnOrder ==
    /\ \A a \in Cursors : ~ Older(a, a)
    /\ \A a, b, c \in Cursors : Older(a, b) /\ Older(b, c) => Older(a, c)
    /\ \A a, b \in Cursors : a = b \/ Older(a, b) \/ Older(b, a)
BY TimesAssumption, BoundsAssumption DEF Cursors, Times, Ids, Older

(* A payment's key is a cursor, and its own.                               *)
LEMMA KeyFacts ==
    ASSUME TableTyped
    PROVE  /\ \A p \in DOMAIN payment :
                 /\ p \in Ids /\ p \in Nat /\ payment[p] \in Rows
                 /\ payment[p].created \in Times /\ Key(p) \in Cursors
           /\ \A p, q \in DOMAIN payment : Key(p) = Key(q) => p = q
BY BoundsAssumption DEF TableTyped, Key, Cursors, Ids, Rows

LEMMA PaymentsFinite ==
    ASSUME TableTyped, NEW S \in SUBSET DOMAIN payment
    PROVE  IsFiniteSet(S)
<1>1. IsFiniteSet(1..MaxPayments)
  BY BoundsAssumption, FS_Interval
<1> QED BY <1>1, FS_Subset DEF TableTyped, Ids

(* A set of payments that is not empty has an oldest one and a newest one. *)
LEMMA OldestExists ==
    ASSUME TableTyped, NEW S \in SUBSET DOMAIN payment, S # {}
    PROVE  \E p \in S : \A q \in S : ~ Older(Key(q), Key(p))
<1> DEFINE C == {payment[p].created : p \in S}
<1>1. C \in SUBSET Nat /\ C # {}
  BY KeyFacts, TimesAssumption DEF Times
<1>2. PICK c \in C : \A d \in C : c <= d
  <2> HIDE DEF C
  <2> QED BY <1>1, LeastElement
<1> DEFINE I == {p \in S : payment[p].created = c}
<1>3. I \in SUBSET Nat /\ I # {}
  BY KeyFacts
<1>4. PICK i \in I : \A j \in I : i <= j
  <2> HIDE DEF I
  <2> QED BY <1>3, LeastElement
<1>5. ASSUME NEW q \in S, Older(Key(q), Key(i)) PROVE FALSE
  <2>1. payment[q].created \in C /\ payment[q].created \in Nat /\ q \in Nat /\ c \in Nat /\ i \in Nat
    BY <1>1, <1>3, KeyFacts
  <2>2. c <= payment[q].created /\ payment[i].created = c
    BY <1>2, <2>1
  <2>3. payment[q].created = c /\ q < i
    BY <1>5, <2>1, <2>2 DEF Older, Key
  <2>4. q \in I
    BY <2>3
  <2> QED BY <1>4, <2>1, <2>3, <2>4
<1> QED BY <1>5

LEMMA NewestExists ==
    ASSUME TableTyped, NEW S \in SUBSET DOMAIN payment, S # {}
    PROVE  \E p \in S : \A q \in S : ~ Older(Key(p), Key(q))
<1> DEFINE C == {MaxTime - payment[p].created : p \in S}
<1>1. C \in SUBSET Nat /\ C # {}
  BY KeyFacts, TimesAssumption DEF Times
<1>2. PICK c \in C : \A d \in C : c <= d
  <2> HIDE DEF C
  <2> QED BY <1>1, LeastElement
<1> DEFINE I == {MaxPayments - p : p \in {q \in S : MaxTime - payment[q].created = c}}
<1>3. I \in SUBSET Nat /\ I # {}
  BY KeyFacts, BoundsAssumption DEF Ids
<1>4. PICK i \in I : \A j \in I : i <= j
  <2> HIDE DEF I
  <2> QED BY <1>3, LeastElement
<1>5. PICK p \in S : MaxTime - payment[p].created = c /\ i = MaxPayments - p
  BY <1>4
<1>6. ASSUME NEW q \in S, Older(Key(p), Key(q)) PROVE FALSE
  <2>1. /\ MaxTime - payment[q].created \in C
        /\ payment[q].created \in Int /\ payment[p].created \in Int /\ q \in Int /\ p \in Int
        /\ c \in Nat /\ MaxTime \in Int /\ MaxPayments \in Int
    BY <1>1, KeyFacts, TimesAssumption, BoundsAssumption DEF Times
  <2>2. c <= MaxTime - payment[q].created
    BY <1>2, <2>1
  <2>3. payment[q].created = payment[p].created /\ p < q
    BY <1>5, <1>6, <2>1, <2>2 DEF Older, Key
  <2>4. MaxPayments - q \in I
    BY <1>5, <2>3
  <2> QED BY <1>4, <1>5, <2>1, <2>3, <2>4
<1> QED BY <1>6

-----------------------------------------------------------------------------
(* A page is the top of what is left below the cursor.                     *)
LEMMA NewestFacts ==
    ASSUME TableTyped, NEW S \in SUBSET DOMAIN payment, NEW n \in Nat
    PROVE  /\ Newest(S, n) \subseteq S
           /\ \A p \in Newest(S, n), q \in S : Older(Key(p), Key(q)) => q \in Newest(S, n)
           /\ S # {} /\ n # 0 => Newest(S, n) # {}
<1> DEFINE Above(p) == {q \in S : Older(Key(p), Key(q))}
<1>1. \A p \in S : IsFiniteSet(Above(p)) /\ Cardinality(Above(p)) \in Nat
  <2>1. \A p \in S : IsFiniteSet(Above(p))
    BY PaymentsFinite
  <2> HIDE DEF Above
  <2> QED BY <2>1, FS_CardinalityType
<1>2. Newest(S, n) = {p \in S : Cardinality(Above(p)) < n}
  BY DEF Newest
<1>3. ASSUME NEW p \in Newest(S, n), NEW q \in S, Older(Key(p), Key(q)) PROVE q \in Newest(S, n)
  <2>1. p \in S
    BY <1>2
  <2>2. Above(q) \subseteq Above(p)
    BY <1>3, <2>1, KeyFacts, OlderIsAnOrder
  <2> HIDE DEF Above
  <2>3. Cardinality(Above(q)) <= Cardinality(Above(p))
    BY <1>1, <2>1, <2>2, FS_Subset
  <2> QED BY <1>1, <1>2, <2>1, <2>3
<1>4. ASSUME S # {}, n # 0 PROVE Newest(S, n) # {}
  <2>1. PICK p \in S : \A q \in S : ~ Older(Key(p), Key(q))
    BY <1>4, NewestExists
  <2>2. Above(p) = {}
    BY <2>1
  <2> HIDE DEF Above
  <2>3. Cardinality(Above(p)) = 0
    BY <2>2, FS_EmptySet
  <2> QED BY <1>2, <1>4, <2>3
<1> QED BY <1>2, <1>3, <1>4

(* What is closed towards the newer is the newest of its number.           *)
LEMMA TopIsNewest ==
    ASSUME TableTyped, NEW S \in SUBSET DOMAIN payment, NEW U \in SUBSET S,
           \A p \in U, q \in S : Older(Key(p), Key(q)) => q \in U
    PROVE  U = Newest(S, Cardinality(U))
<1> DEFINE Above(p) == {q \in S : Older(Key(p), Key(q))}
<1>1. IsFiniteSet(U) /\ \A p \in S : IsFiniteSet(Above(p))
  BY PaymentsFinite
<1>2. Newest(S, Cardinality(U)) = {p \in S : Cardinality(Above(p)) < Cardinality(U)}
  BY DEF Newest
<1>3. ASSUME NEW p \in U PROVE Cardinality(Above(p)) < Cardinality(U)
  <2>1. Above(p) \subseteq U \ {p}
    BY KeyFacts, OlderIsAnOrder
  <2> HIDE DEF Above
  <2>2. IsFiniteSet(U \ {p}) /\ Cardinality(U \ {p}) = Cardinality(U) - 1
    BY <1>1, FS_RemoveElement
  <2>3. Cardinality(Above(p)) <= Cardinality(U \ {p})
    BY <2>1, <2>2, FS_Subset
  <2>4. Cardinality(Above(p)) \in Nat /\ Cardinality(U) \in Nat
    BY <1>1, FS_CardinalityType
  <2> QED BY <2>2, <2>3, <2>4
<1>4. ASSUME NEW p \in S \ U PROVE ~ (Cardinality(Above(p)) < Cardinality(U))
  <2>1. U \subseteq Above(p)
    BY KeyFacts, OlderIsAnOrder
  <2> HIDE DEF Above
  <2>2. Cardinality(U) <= Cardinality(Above(p))
    BY <1>1, <2>1, FS_Subset
  <2>3. Cardinality(Above(p)) \in Nat /\ Cardinality(U) \in Nat
    BY <1>1, FS_CardinalityType
  <2> QED BY <2>2, <2>3
<1> HIDE DEF Above
<1> QED BY <1>2, <1>3, <1>4

(* A page ends the listing, or ends at the cursor it hands out, with more  *)
(* to come below it.                                                       *)
Left(actor, f, cursor) ==
    {p \in DOMAIN payment : Matches(payment[p], actor, f) /\ PastCursor(p, cursor)}

LEMMA PageFacts ==
    ASSUME TableTyped, NEW actor, NEW f, NEW cursor \in Cursors \cup {NoCursor},
           NEW page, page = ListPayments(actor, f, cursor),
           NEW left, left = Left(actor, f, cursor)
    PROVE  /\ page.next = NoCursor => page.items = left
           /\ page.next # NoCursor =>
                 /\ page.next \in Cursors
                 /\ cursor # NoCursor => Older(page.next, cursor)
                 /\ page.items = {p \in left : ~ Older(Key(p), page.next)}
                 /\ \E p \in left : Older(Key(p), page.next)
<1> DEFINE items == Newest(left, PageSize)
           last  == CHOOSE p \in items : \A q \in items : ~ Older(Key(q), Key(p))
<1>1. left \in SUBSET DOMAIN payment
  BY DEF Left
<1>2. /\ page.items = items
      /\ page.next = IF left = items THEN NoCursor ELSE Key(last)
  BY DEF ListPayments, Left
<1>3. /\ items \subseteq left
      /\ \A p \in items, q \in left : Older(Key(p), Key(q)) => q \in items
      /\ left # {} => items # {}
  BY <1>1, PageSizeAssumption, NewestFacts
<1> HIDE DEF items
<1>4. CASE left = items
  BY <1>2, <1>4, CursorAssumption
<1>5. CASE left # items
  <2>1. items # {} /\ items \in SUBSET DOMAIN payment
    BY <1>1, <1>3, <1>5
  <2>2. last \in items /\ \A q \in items : ~ Older(Key(q), Key(last))
    BY <2>1, OldestExists
  <2> HIDE DEF last
  <2>3. last \in DOMAIN payment /\ Key(last) \in Cursors /\ page.next = Key(last)
    BY <1>2, <1>5, <2>1, <2>2, KeyFacts
  <2>4. cursor # NoCursor => Older(Key(last), cursor)
    BY <1>3, <2>2 DEF Left, PastCursor
  <2>5. ASSUME NEW p \in left PROVE p \in items <=> ~ Older(Key(p), Key(last))
    <3>1. p \in DOMAIN payment /\ Key(p) \in Cursors
      BY <1>1, KeyFacts
    <3>2. p = last \/ Older(Key(p), Key(last)) \/ Older(Key(last), Key(p))
      BY <2>3, <3>1, KeyFacts, OlderIsAnOrder
    <3> QED BY <1>3, <2>2, <3>2
  <2>6. PICK p \in left : p \notin items
    BY <1>3, <1>5
  <2> QED BY <1>2, <1>3, <2>3, <2>4, <2>5, <2>6, CursorAssumption
<1> QED BY <1>4, <1>5

-----------------------------------------------------------------------------
(* The inductive invariant of a walk.  What has been shown lies at or above *)
(* the cursor (Reached), so that nothing is shown again, and a steady       *)
(* payment keeps its key, so that it stays on its side of the cursor.       *)
Walks == [pc : {"walking", "done"}, actor : Actors, filter : Filters,
          cursor : Cursors \cup {NoCursor}, shown : [Ids -> 0..2], steady : SUBSET Ids]

WalkTyped ==
    /\ walk \in Walks \cup {NoWalk}
    /\ walk # NoWalk => /\ walk.steady \subseteq DOMAIN payment
                        /\ walk.cursor = NoCursor <=> walk.pc = "done"

Reached(p, cursor) == cursor # NoCursor => ~ Older(Key(p), cursor)

InScope(p) == walk.actor.role = "merchant" => payment[p].merchant = walk.actor.id

ShownAbove ==
    walk # NoWalk => \A p \in Ids : walk.shown[p] > 0 =>
       /\ walk.shown[p] = 1 /\ p \in DOMAIN payment
       /\ Reached(p, walk.cursor) /\ InScope(p)

SteadyMatch ==
    walk.pc = "walking" =>
       \A p \in walk.steady : Matches(payment[p], walk.actor, walk.filter)

PagingInv == TableTyped /\ WalkTyped /\ ShownAbove /\ SteadyMatch /\ EachShownOnce

(* Later writes leave a payment its key and its merchant.                  *)
KeysKept ==
    /\ DOMAIN payment \subseteq DOMAIN payment'
    /\ \A p \in DOMAIN payment :
          Key(p)' = Key(p) /\ payment'[p].merchant = payment[p].merchant

LEMMA TableStep ==
    ASSUME TableTyped, TableNext
    PROVE  TableTyped' /\ KeysKept
<1>1. CASE Tick
  BY <1>1, TimesAssumption DEF Tick, TableTyped, KeysKept, Key, Times
<1>2. ASSUME NEW p \in Ids, NEW m \in Merchants, NEW k \in Kinds,
             NEW st \in {"authorized", "declined"}, Draw(p, m, k, st)
      PROVE  TableTyped' /\ KeysKept
  <2> DEFINE row == [merchant |-> m, kind |-> k, created |-> clock, status |-> st]
  <2>1. row \in Rows
    BY DEF TableTyped, Rows, Statuses
  <2>2. /\ p \notin DOMAIN payment \cup DOMAIN drawn
        /\ drawn' = [q \in DOMAIN drawn \cup {p} |-> IF q = p THEN row ELSE drawn[q]]
        /\ clock' = clock /\ payment' = payment
    BY <1>2 DEF Draw
  <2> HIDE DEF row
  <2>3. /\ DOMAIN drawn' = DOMAIN drawn \cup {p}
        /\ drawn' \in [DOMAIN drawn' -> Rows]
    BY <2>1, <2>2 DEF TableTyped
  <2> QED BY <2>2, <2>3 DEF TableTyped, KeysKept, Key
<1>3. ASSUME NEW p \in Ids, Commit(p) PROVE TableTyped' /\ KeysKept
  <2>1. /\ p \in DOMAIN drawn /\ p \notin DOMAIN payment /\ clock' = clock
        /\ payment' = [q \in DOMAIN payment \cup {p} |-> IF q = p THEN drawn[p] ELSE payment[q]]
        /\ drawn' = [q \in DOMAIN drawn \ {p} |-> drawn[q]]
    BY <1>3 DEF Commit, Without, TableTyped
  <2>2. /\ DOMAIN payment' = DOMAIN payment \cup {p} /\ payment' \in [DOMAIN payment' -> Rows]
        /\ DOMAIN drawn' = DOMAIN drawn \ {p} /\ drawn' \in [DOMAIN drawn' -> Rows]
        /\ \A q \in DOMAIN payment : payment'[q] = payment[q]
    BY <2>1 DEF TableTyped
  <2> QED BY <2>1, <2>2 DEF TableTyped, KeysKept, Key
<1>4. ASSUME NEW p \in Ids, Capture(p) PROVE TableTyped' /\ KeysKept
  <2>1. /\ p \in DOMAIN payment /\ clock' = clock /\ drawn' = drawn
        /\ payment' = [payment EXCEPT ![p].status = "captured"]
    BY <1>4 DEF Capture
  <2>2. payment[p] \in Rows
    BY <2>1, KeyFacts
  <2>3. /\ DOMAIN payment' = DOMAIN payment
        /\ payment'[p] = [payment[p] EXCEPT !.status = "captured"]
        /\ \A q \in DOMAIN payment \ {p} : payment'[q] = payment[q]
    BY <2>1
  <2>4. /\ payment'[p] \in Rows
        /\ payment'[p].created = payment[p].created /\ payment'[p].merchant = payment[p].merchant
    BY <2>2, <2>3 DEF Rows, Statuses
  <2>5. payment' \in [DOMAIN payment' -> Rows]
    BY <2>1, <2>3, <2>4 DEF TableTyped
  <2> QED BY <2>1, <2>3, <2>4, <2>5 DEF TableTyped, KeysKept, Key
<1> QED BY <1>1, <1>2, <1>3, <1>4 DEF TableNext

(* What a matched row says about its merchant.                             *)
LEMMA MatchesInScope ==
    ASSUME NEW row \in Rows, NEW actor \in Actors, NEW f, Matches(row, actor, f)
    PROVE  actor.role = "merchant" => row.merchant = actor.id
BY UnsetAssumption DEF Matches, ScopeOf, Actors, Rows

LEMMA NoWalkIsNone == /\ NoWalk.pc = "idle" /\ NoWalk \notin Walks
                      /\ \A w \in Walks : w.pc # "idle"
BY DEF NoWalk, Walks

LEMMA PagingInitHolds == Init => PagingInv
<1> SUFFICES ASSUME Init PROVE PagingInv
  OBVIOUS
<1>1. clock = 0 /\ payment = NoRows /\ drawn = NoRows /\ walk = NoWalk
  BY DEF Init, TableInit
<1>2. DOMAIN NoRows = {}
  BY DEF NoRows
<1>3. TableTyped
  BY <1>1, <1>2, TimesAssumption DEF TableTyped, Times
<1> QED BY <1>1, <1>3, NoWalkIsNone
        DEF PagingInv, WalkTyped, ShownAbove, SteadyMatch, EachShownOnce

(* A page taken: w is the walk before it, about to ask below its cursor.   *)
LEMMA TakeKeeps ==
    ASSUME TableTyped, NEW w, w \in Walks, w.steady \subseteq DOMAIN payment,
           \A p \in w.steady :
              /\ Matches(payment[p], w.actor, w.filter)
              /\ w.shown[p] = IF PastCursor(p, w.cursor) THEN 0 ELSE 1,
           \A p \in Ids : w.shown[p] > 0 =>
              /\ w.shown[p] = 1 /\ p \in DOMAIN payment /\ ~ PastCursor(p, w.cursor)
              /\ w.actor.role = "merchant" => payment[p].merchant = w.actor.id,
           walk' = Take(w, ListPayments(w.actor, w.filter, w.cursor)),
           UNCHANGED tableVars
    PROVE  PagingInv'
<1> DEFINE page == ListPayments(w.actor, w.filter, w.cursor)
           left == Left(w.actor, w.filter, w.cursor)
<1>1. /\ page.next = NoCursor => page.items = left
      /\ page.next # NoCursor =>
            /\ page.next \in Cursors
            /\ w.cursor # NoCursor => Older(page.next, w.cursor)
            /\ page.items = {p \in left : ~ Older(Key(p), page.next)}
            /\ \E p \in left : Older(Key(p), page.next)
  BY PageFacts DEF Walks
<1>2. left = {p \in DOMAIN payment :
                 Matches(payment[p], w.actor, w.filter) /\ PastCursor(p, w.cursor)}
  BY DEF Left
<1> DEFINE shown == [p \in Ids |-> IF p \in page.items /\ w.shown[p] < 2
                                   THEN w.shown[p] + 1 ELSE w.shown[p]]
<1>3. walk' = [w EXCEPT !.cursor = page.next,
                        !.pc     = IF page.next = NoCursor THEN "done" ELSE "walking",
                        !.shown  = shown]
  BY DEF Take, Walks
<1> HIDE DEF page, left
<1>4. page.items \subseteq left /\ left \subseteq DOMAIN payment /\ DOMAIN payment \subseteq Ids
  BY <1>1, <1>2 DEF TableTyped
<1>5. w.shown \in [Ids -> 0..2] /\ shown \in [Ids -> 0..2]
  BY DEF Walks
<1>6. /\ walk' \in Walks /\ walk'.cursor = page.next /\ walk'.shown = shown
      /\ walk'.steady = w.steady /\ walk'.actor = w.actor /\ walk'.filter = w.filter
      /\ walk'.pc = "done" <=> page.next = NoCursor
  <2> HIDE DEF shown
  <2> QED BY <1>1, <1>3, <1>5 DEF Walks
<1>7. \A p \in Ids : shown[p] = IF p \in page.items /\ w.shown[p] < 2
                                THEN w.shown[p] + 1 ELSE w.shown[p]
  OBVIOUS
<1> HIDE DEF shown
<1>8. payment' = payment /\ TableTyped' /\ \A p : Key(p)' = Key(p)
  BY DEF tableVars, TableTyped, Key
<1>9. ASSUME NEW p \in w.steady
      PROVE  shown[p] = IF page.next # NoCursor /\ Older(Key(p), page.next) THEN 0 ELSE 1
  <2>1. p \in DOMAIN payment /\ p \in Ids /\ Key(p) \in Cursors
    BY KeyFacts
  <2>2. p \in left <=> PastCursor(p, w.cursor)
    BY <1>2, <2>1
  <2>3. CASE p \in left
    BY <1>1, <1>7, <2>1, <2>2, <2>3
  <2>4. CASE p \notin left
    <3>1. w.shown[p] = 1 /\ p \notin page.items /\ shown[p] = 1
      BY <1>4, <1>7, <2>1, <2>2, <2>4
    <3>2. w.cursor # NoCursor /\ ~ Older(Key(p), w.cursor) /\ w.cursor \in Cursors
      BY <2>2, <2>4 DEF PastCursor, Walks
    <3>3. ~ (page.next # NoCursor /\ Older(Key(p), page.next))
      BY <1>1, <2>1, <3>2, OlderIsAnOrder
    <3> QED BY <3>1, <3>3
  <2> QED BY <2>3, <2>4
<1>10. ASSUME NEW p \in Ids, shown[p] > 0
       PROVE  /\ shown[p] = 1 /\ p \in DOMAIN payment
              /\ page.next # NoCursor => ~ Older(Key(p), page.next)
              /\ w.actor.role = "merchant" => payment[p].merchant = w.actor.id
  <2>1. CASE p \in page.items
    <3>1. p \in left /\ PastCursor(p, w.cursor) /\ payment[p] \in Rows /\ w.actor \in Actors
      BY <1>2, <1>4, <2>1, KeyFacts DEF Walks
    <3>2. w.shown[p] = 0
      BY <1>5, <3>1
    <3>3. shown[p] = 1
      BY <1>7, <2>1, <3>2
    <3>4. w.actor.role = "merchant" => payment[p].merchant = w.actor.id
      BY <1>2, <3>1, MatchesInScope
    <3> QED BY <1>1, <1>4, <2>1, <3>1, <3>3, <3>4
  <2>2. CASE p \notin page.items
    <3>1. shown[p] = w.shown[p]
      BY <1>7, <2>2
    <3>2. w.cursor # NoCursor /\ ~ Older(Key(p), w.cursor) /\ w.cursor \in Cursors /\ p \in DOMAIN payment
      BY <1>10, <3>1 DEF PastCursor, Walks
    <3>3. page.next # NoCursor => ~ Older(Key(p), page.next)
      BY <1>1, <3>2, KeyFacts, OlderIsAnOrder
    <3> QED BY <1>10, <3>1, <3>2, <3>3
  <2> QED BY <2>1, <2>2
<1>11. WalkTyped'
  BY <1>6, <1>8, NoWalkIsNone DEF WalkTyped, Walks
<1>12. ShownAbove'
  BY <1>6, <1>8, <1>10 DEF ShownAbove, Reached, InScope
<1>13. SteadyMatch'
  BY <1>6, <1>8 DEF SteadyMatch
<1>14. EachShownOnce'
  <2>1. \A p \in walk'.steady :
           walk'.shown[p] = IF walk'.cursor # NoCursor /\ Older(Key(p)', walk'.cursor) THEN 0 ELSE 1
    BY <1>6, <1>8, <1>9
  <2>2. \A p \in Ids : walk'.shown[p] > 0 =>
           /\ walk'.shown[p] = 1
           /\ walk'.actor.role = "merchant" => payment'[p].merchant = walk'.actor.id
    BY <1>6, <1>8, <1>10
  <2> QED BY <2>1, <2>2 DEF EachShownOnce
<1> QED BY <1>8, <1>11, <1>12, <1>13, <1>14 DEF PagingInv

LEMMA StartWalkKeeps ==
    ASSUME PagingInv, NEW actor \in Actors, NEW f \in AskedFilters, StartWalk(actor, f)
    PROVE  PagingInv'
<1> DEFINE w == [pc |-> "walking", actor |-> actor, filter |-> f, cursor |-> NoCursor,
                 shown |-> [p \in Ids |-> 0],
                 steady |-> {p \in DOMAIN payment : Matches(payment[p], actor, f)}]
<1>1. TableTyped /\ UNCHANGED tableVars
  BY DEF PagingInv, StartWalk
<1>2. w \in Walks
  BY <1>1, FiltersAssumption DEF Walks, TableTyped
<1>3. walk' = Take(w, ListPayments(w.actor, w.filter, w.cursor))
  BY DEF StartWalk
<1>4. /\ w.steady \subseteq DOMAIN payment
      /\ \A p \in w.steady :
            /\ Matches(payment[p], w.actor, w.filter)
            /\ w.shown[p] = IF PastCursor(p, w.cursor) THEN 0 ELSE 1
      /\ \A p \in Ids : w.shown[p] = 0
  BY <1>1 DEF TableTyped, PastCursor
<1> HIDE DEF w
<1> QED BY <1>1, <1>2, <1>3, <1>4, TakeKeeps

LEMMA NextPageKeeps ==
    ASSUME PagingInv, NextPage
    PROVE  PagingInv'
<1>1. /\ TableTyped /\ WalkTyped /\ ShownAbove /\ SteadyMatch /\ EachShownOnce
      /\ walk.pc = "walking" /\ UNCHANGED tableVars
      /\ walk' = Take(walk, ListPayments(walk.actor, walk.filter, walk.cursor))
  BY DEF PagingInv, NextPage
<1>2. /\ walk # NoWalk /\ walk \in Walks /\ walk.cursor # NoCursor
      /\ walk.steady \subseteq DOMAIN payment
  BY <1>1, NoWalkIsNone DEF WalkTyped
<1>3. \A p \in walk.steady :
         /\ Matches(payment[p], walk.actor, walk.filter)
         /\ walk.shown[p] = IF PastCursor(p, walk.cursor) THEN 0 ELSE 1
  BY <1>1, <1>2 DEF SteadyMatch, EachShownOnce, PastCursor
<1>4. \A p \in Ids : walk.shown[p] > 0 =>
         /\ walk.shown[p] = 1 /\ p \in DOMAIN payment /\ ~ PastCursor(p, walk.cursor)
         /\ walk.actor.role = "merchant" => payment[p].merchant = walk.actor.id
  BY <1>1, <1>2 DEF ShownAbove, Reached, InScope, PastCursor
<1> QED BY <1>1, <1>2, <1>3, <1>4, TakeKeeps

(* A moving table takes nothing from what a walk has shown.                *)
LEMMA TableMovesKeeps ==
    ASSUME PagingInv, TableMoves
    PROVE  PagingInv'
<1>1. TableTyped /\ WalkTyped /\ ShownAbove /\ SteadyMatch /\ EachShownOnce
  BY DEF PagingInv
<1>2. TableTyped' /\ KeysKept
  BY <1>1, TableStep DEF TableMoves
<1>3. CASE walk = NoWalk
  <2>1. walk' = NoWalk
    BY <1>3, NoWalkIsNone DEF TableMoves
  <2> QED BY <1>2, <2>1, NoWalkIsNone
          DEF PagingInv, WalkTyped, ShownAbove, SteadyMatch, EachShownOnce
<1>4. CASE walk # NoWalk
  <2> DEFINE steady == IF walk.pc = "walking"
                         THEN {p \in walk.steady : Matches(payment'[p], walk.actor, walk.filter)}
                         ELSE walk.steady
  <2>1. walk \in Walks /\ walk.steady \subseteq DOMAIN payment /\ steady \subseteq walk.steady
    BY <1>1, <1>4 DEF WalkTyped
  <2>2. walk' = IF walk.pc = "walking" THEN [walk EXCEPT !.steady = steady] ELSE walk
    BY DEF TableMoves
  <2>3. walk.pc = "walking" =>
           \A p \in steady : Matches(payment'[p], walk.actor, walk.filter)
    OBVIOUS
  <2> HIDE DEF steady
  <2>4. /\ walk' \in Walks /\ walk'.pc = walk.pc /\ walk'.actor = walk.actor
        /\ walk'.filter = walk.filter /\ walk'.cursor = walk.cursor /\ walk'.shown = walk.shown
        /\ walk'.steady \subseteq walk.steady
        /\ walk.pc = "walking" => walk'.steady = steady
    BY <2>1, <2>2 DEF Walks
  <2>5. WalkTyped'
    BY <1>1, <1>2, <1>4, <2>1, <2>4, NoWalkIsNone DEF WalkTyped, KeysKept
  <2>6. ShownAbove'
    <3> SUFFICES ASSUME NEW p \in Ids, walk'.shown[p] > 0
                 PROVE  /\ walk'.shown[p] = 1 /\ p \in DOMAIN payment'
                        /\ Reached(p, walk.cursor)' /\ InScope(p)'
      BY <2>4 DEF ShownAbove, Reached
    <3>1. /\ walk.shown[p] = 1 /\ p \in DOMAIN payment
          /\ Reached(p, walk.cursor) /\ InScope(p)
      BY <1>1, <1>4, <2>4 DEF ShownAbove
    <3>2. Key(p)' = Key(p) /\ payment'[p].merchant = payment[p].merchant /\ p \in DOMAIN payment'
      BY <1>2, <3>1 DEF KeysKept
    <3> QED BY <2>4, <3>1, <3>2 DEF Reached, InScope
  <2>7. SteadyMatch'
    BY <2>3, <2>4 DEF SteadyMatch
  <2>8. EachShownOnce'
    <3>1. walk.pc # "idle"
      BY <2>1, NoWalkIsNone
    <3>2. ASSUME NEW p \in walk'.steady
          PROVE  walk'.shown[p] = IF walk'.cursor # NoCursor /\ Older(Key(p)', walk'.cursor) THEN 0 ELSE 1
      <4>1. p \in walk.steady /\ p \in DOMAIN payment
        BY <2>1, <2>4
      <4>2. Key(p)' = Key(p)
        BY <1>2, <4>1 DEF KeysKept
      <4> QED BY <1>1, <2>4, <3>1, <4>1, <4>2 DEF EachShownOnce
    <3>3. ASSUME NEW p \in Ids, walk'.shown[p] > 0
          PROVE  /\ walk'.shown[p] = 1
                 /\ walk'.actor.role = "merchant" => payment'[p].merchant = walk'.actor.id
      BY <2>6, <2>5, <2>4, <3>3, NoWalkIsNone DEF ShownAbove, InScope
    <3> QED BY <3>2, <3>3 DEF EachShownOnce
  <2> QED BY <1>2, <2>5, <2>6, <2>7, <2>8 DEF PagingInv
<1> QED BY <1>3, <1>4

LEMMA PagingStep == PagingInv /\ [Next]_vars => PagingInv'
<1> SUFFICES ASSUME PagingInv, [Next]_vars PROVE PagingInv'
  OBVIOUS
<1>1. CASE UNCHANGED vars
  BY <1>1 DEF vars, tableVars, PagingInv, TableTyped, WalkTyped, ShownAbove, SteadyMatch,
              EachShownOnce, Reached, InScope, Key
<1>2. CASE Next
  BY <1>2, TableMovesKeeps, NextPageKeeps, StartWalkKeeps DEF Next
<1> QED BY <1>1, <1>2

THEOREM PagingInvariantHolds == Spec => []PagingInv
<1>1. Init => PagingInv
  BY PagingInitHolds
<1> QED BY <1>1, PagingStep, PTL DEF Spec

(* Paging's own tables and walks keep their shapes.                        *)
LEMMA PagingTyped == PagingInv => TypeOK
<1> SUFFICES ASSUME PagingInv PROVE TypeOK
  OBVIOUS
<1>1. TableTyped /\ WalkTyped
  BY DEF PagingInv
<1>2. CASE walk = NoWalk
  BY <1>1, <1>2 DEF TypeOK, TableTyped
<1>3. CASE walk # NoWalk
  BY <1>1, <1>3 DEF TypeOK, TableTyped, WalkTyped, Walks
<1> QED BY <1>2, <1>3

(* listPayments and its keyset cursor: whatever is inserted, late or on    *)
(* equal timestamps, or updated between two pages, what stayed put is      *)
(* shown once.                                                             *)
THEOREM StayersShownOnce == Spec => []EachShownOnce
<1>1. PagingInv => EachShownOnce
  BY DEF PagingInv
<1> QED BY <1>1, PagingInvariantHolds, PTL

-----------------------------------------------------------------------------
(* The volume report: what a range has of a merchant, day and currency.    *)
Group(p) == <<payment[p].merchant, payment[p].created \div DayLength, payment[p].kind.currency>>

Hits(from, to) == {p \in DOMAIN payment : InVolume(payment[p], from, to)}

Amounts(H, g) == [p \in Ids |-> IF p \in H /\ Group(p) = g THEN payment[p].kind.amount ELSE 0]

OfGroup(H, g) == {p \in H : Group(p) = g}

LEMMA VolumeReportFacts ==
    ASSUME NEW from, NEW to
    PROVE  /\ DOMAIN AdminVolumeReport(from, to) = {Group(p) : p \in Hits(from, to)}
           /\ \A g \in DOMAIN AdminVolumeReport(from, to) :
                 /\ AdminVolumeReport(from, to)[g].total = Total(Amounts(Hits(from, to), g), MaxPayments)
                 /\ AdminVolumeReport(from, to)[g].count = Cardinality(OfGroup(Hits(from, to), g))
BY DEF AdminVolumeReport, Group, Hits, Amounts, OfGroup

(* A group that is not in the report has nothing.                          *)
LEMMA VolumeOfFacts ==
    ASSUME TableTyped, NEW from, NEW to, NEW g
    PROVE  /\ VolumeOf(AdminVolumeReport(from, to), g).total = Total(Amounts(Hits(from, to), g), MaxPayments)
           /\ VolumeOf(AdminVolumeReport(from, to), g).count = Cardinality(OfGroup(Hits(from, to), g))
<1> DEFINE report == AdminVolumeReport(from, to)
           H == Hits(from, to)
<1>1. /\ DOMAIN report = {Group(p) : p \in H}
      /\ \A x \in DOMAIN report : /\ report[x].total = Total(Amounts(H, x), MaxPayments)
                                  /\ report[x].count = Cardinality(OfGroup(H, x))
  BY VolumeReportFacts
<1> HIDE DEF report, H
<1>2. CASE g \in DOMAIN report
  BY <1>1, <1>2 DEF VolumeOf, report, H
<1>3. CASE g \notin DOMAIN report
  <2>1. OfGroup(H, g) = {} /\ \A p \in 1..MaxPayments : Amounts(H, g)[p] = 0
    BY <1>1, <1>3 DEF OfGroup, Amounts, Ids
  <2>2. Total(Amounts(H, g), MaxPayments) = 0
    BY <2>1, BoundsAssumption, TotalZero
  <2>3. Cardinality(OfGroup(H, g)) = 0
    BY <2>1, FS_EmptySet
  <2> QED BY <1>3, <2>2, <2>3 DEF VolumeOf, report, H
<1> QED BY <1>2, <1>3

(* AdminVolumeReport's range is half open: no payment of two adjoining     *)
(* ranges is counted in both reports or in neither.                        *)
THEOREM AdjoiningVolumesAddUp == Spec => []VolumesAddUp
<1>1. ASSUME TableTyped PROVE VolumesAddUp
  <2> SUFFICES ASSUME NEW from \in Times, NEW mid \in Times, NEW to \in 0..MaxTime + 1,
                      from <= mid, mid <= to
               PROVE  LET whole == AdminVolumeReport(from, to)
                          early == AdminVolumeReport(from, mid)
                          late  == AdminVolumeReport(mid, to)
                      IN  /\ DOMAIN whole = DOMAIN early \cup DOMAIN late
                          /\ \A g \in DOMAIN whole :
                                /\ whole[g].total = VolumeOf(early, g).total + VolumeOf(late, g).total
                                /\ whole[g].count = VolumeOf(early, g).count + VolumeOf(late, g).count
    BY DEF VolumesAddUp
  <2> DEFINE W == Hits(from, to)
             E == Hits(from, mid)
             L == Hits(mid, to)
  <2>1. W = E \cup L /\ E \cap L = {} /\ W \in SUBSET DOMAIN payment
    <3>1. from \in Int /\ mid \in Int /\ to \in Int
      BY TimesAssumption DEF Times
    <3>2. \A p \in DOMAIN payment : payment[p].created \in Int
      BY <1>1, KeyFacts, TimesAssumption DEF Times
    <3> QED BY <3>1, <3>2 DEF Hits, InVolume
  <2>2. \A g : /\ Amounts(E, g) \in [1..MaxPayments -> Int]
               /\ Amounts(L, g) \in [1..MaxPayments -> Int]
    <3>1. \A p \in DOMAIN payment : payment[p].kind.amount \in Int
      BY <1>1, KeyFacts, KindsAssumption DEF Rows
    <3>2. E \subseteq DOMAIN payment /\ L \subseteq DOMAIN payment
      BY <2>1
    <3> HIDE DEF E, L
    <3> QED BY <3>1, <3>2 DEF Amounts, Ids
  <2> HIDE DEF W, E, L
  <2>3. ASSUME NEW g
        PROVE  Total(Amounts(W, g), MaxPayments)
                  = Total(Amounts(E, g), MaxPayments) + Total(Amounts(L, g), MaxPayments)
    <3>1. \A p \in 1..MaxPayments : Amounts(W, g)[p] = Amounts(E, g)[p] + Amounts(L, g)[p]
      <4> SUFFICES ASSUME NEW p \in 1..MaxPayments
                   PROVE  Amounts(W, g)[p] = Amounts(E, g)[p] + Amounts(L, g)[p]
        OBVIOUS
      <4>1. Amounts(E, g)[p] \in Int /\ Amounts(L, g)[p] \in Int
        BY <2>2
      <4> QED BY <2>1, <4>1 DEF Amounts, Ids
    <3> QED BY <2>2, <3>1, BoundsAssumption, TotalPlus
  <2>4. ASSUME NEW g
        PROVE  Cardinality(OfGroup(W, g)) = Cardinality(OfGroup(E, g)) + Cardinality(OfGroup(L, g))
    <3>1. /\ OfGroup(W, g) = OfGroup(E, g) \cup OfGroup(L, g)
          /\ OfGroup(E, g) \cap OfGroup(L, g) = {}
          /\ OfGroup(E, g) \in SUBSET DOMAIN payment /\ OfGroup(L, g) \in SUBSET DOMAIN payment
      BY <2>1 DEF OfGroup
    <3>2. IsFiniteSet(OfGroup(E, g)) /\ IsFiniteSet(OfGroup(L, g))
      BY <1>1, <3>1, PaymentsFinite
    <3>3. Cardinality(OfGroup(W, g)) = Cardinality(OfGroup(E, g)) + Cardinality(OfGroup(L, g))
                                          - Cardinality(OfGroup(E, g) \cap OfGroup(L, g))
      BY <3>1, <3>2, FS_Union
    <3>4. Cardinality(OfGroup(E, g) \cap OfGroup(L, g)) = 0
      BY <3>1, FS_EmptySet
    <3>5. Cardinality(OfGroup(E, g)) \in Nat /\ Cardinality(OfGroup(L, g)) \in Nat
      BY <3>2, FS_CardinalityType
    <3> QED BY <3>3, <3>4, <3>5
  <2>5. /\ DOMAIN AdminVolumeReport(from, to) = {Group(p) : p \in W}
        /\ DOMAIN AdminVolumeReport(from, mid) = {Group(p) : p \in E}
        /\ DOMAIN AdminVolumeReport(mid, to) = {Group(p) : p \in L}
    BY VolumeReportFacts DEF W, E, L
  <2>6. \A g \in DOMAIN AdminVolumeReport(from, to) :
           /\ AdminVolumeReport(from, to)[g].total = Total(Amounts(W, g), MaxPayments)
           /\ AdminVolumeReport(from, to)[g].count = Cardinality(OfGroup(W, g))
    BY VolumeReportFacts DEF W
  <2>7. \A g :
           /\ VolumeOf(AdminVolumeReport(from, mid), g).total = Total(Amounts(E, g), MaxPayments)
           /\ VolumeOf(AdminVolumeReport(from, mid), g).count = Cardinality(OfGroup(E, g))
           /\ VolumeOf(AdminVolumeReport(mid, to), g).total = Total(Amounts(L, g), MaxPayments)
           /\ VolumeOf(AdminVolumeReport(mid, to), g).count = Cardinality(OfGroup(L, g))
    BY <1>1, VolumeOfFacts DEF E, L
  <2>8. DOMAIN AdminVolumeReport(from, to)
           = DOMAIN AdminVolumeReport(from, mid) \cup DOMAIN AdminVolumeReport(mid, to)
    BY <2>1, <2>5
  <2>9. ASSUME NEW g \in DOMAIN AdminVolumeReport(from, to)
        PROVE  /\ AdminVolumeReport(from, to)[g].total
                    = VolumeOf(AdminVolumeReport(from, mid), g).total
                        + VolumeOf(AdminVolumeReport(mid, to), g).total
               /\ AdminVolumeReport(from, to)[g].count
                    = VolumeOf(AdminVolumeReport(from, mid), g).count
                        + VolumeOf(AdminVolumeReport(mid, to), g).count
    BY <2>3, <2>4, <2>6, <2>7
  <2> QED BY <2>8, <2>9
<1>2. PagingInv => TableTyped
  BY DEF PagingInv
<1> QED BY <1>1, <1>2, PagingInvariantHolds, PTL

-----------------------------------------------------------------------------
(* The inductive invariant of a screen chosen in peace: at most one load is *)
(* in flight, it is the chosen merchant's, the screen says so, and it asks  *)
(* for what comes below the rows; these are the listing down to the cursor. *)
Screens == [open : {TRUE}, acting : Merchants, loading : BOOLEAN, clean : BOOLEAN,
            rows : [Ids -> 0..2], next : Cursors \cup {NoCursor}, of : Merchants \cup {Unset}]

ScreenTyped ==
    /\ load \in [Slots -> Loads \cup {NoLoad}]
    /\ \A s \in InFlight : load[s].cursor # NoCursor => load[s].stage = "payments"
    /\ screen \in Screens \cup {Closed}
    /\ screen = Closed => InFlight = {}

(* A merchant's payments down to a cursor, those on the screen with it.    *)
DownTo(m, cursor) == {p \in PaymentsOf(m) : Reached(p, cursor)}

Listing(m) ==
    /\ Shown = DownTo(m, screen.next)
    /\ \A p \in Shown : screen.rows[p] = 1
    /\ screen.next # NoCursor => \E p \in PaymentsOf(m) : Older(Key(p), screen.next)

Current(s) ==
    /\ load[s].merchant = screen.acting /\ screen.loading
    /\ load[s].cursor \in {NoCursor, screen.next}

Fetching == {s \in FirstLoads : load[s].stage = "payments"}

CleanScreen ==
    screen.open /\ screen.clean =>
       /\ \A s, t \in InFlight : s = t
       /\ \A s \in InFlight : Current(s)
       /\ Fetching = {} => Listing(screen.acting)
       /\ FirstLoads = {} => screen.of = screen.acting

DashboardInv == PagingInv /\ ScreenTyped /\ CleanScreen

(* A page of a merchant's dashboard, and the listing it continues.         *)
LEMMA DashboardMatches ==
    ASSUME TableTyped, NEW m \in Merchants, NEW cursor
    PROVE  Left([role |-> "merchant", id |-> m], NoFilters, cursor) =
              {p \in PaymentsOf(m) : PastCursor(p, cursor)}
<1>1. ASSUME NEW p \in DOMAIN payment
      PROVE  Matches(payment[p], [role |-> "merchant", id |-> m], NoFilters)
                <=> payment[p].merchant = m
  <2>1. /\ payment[p].kind \in Kinds /\ payment[p].created \in Times
        /\ payment[p].status \in Statuses
    BY KeyFacts DEF Rows
  <2> QED BY <2>1, UnsetAssumption, TimesAssumption DEF Matches, ScopeOf, NoFilters, Times
<1> QED BY <1>1 DEF Left, PaymentsOf

LEMMA DownToFacts ==
    ASSUME TableTyped, NEW m \in Merchants, NEW cursor \in Cursors \cup {NoCursor},
           NEW page, page = ListPayments([role |-> "merchant", id |-> m], NoFilters, cursor)
    PROVE  /\ page.next \in Cursors \cup {NoCursor}
           /\ page.items \subseteq PaymentsOf(m)
           /\ \A p \in PaymentsOf(m) : p \in page.items <=>
                 PastCursor(p, cursor) /\ Reached(p, page.next)
           /\ \A p \in PaymentsOf(m) : ~ PastCursor(p, cursor) => Reached(p, page.next)
           /\ page.next # NoCursor => \E p \in PaymentsOf(m) : Older(Key(p), page.next)
<1> DEFINE left == {p \in PaymentsOf(m) : PastCursor(p, cursor)}
<1>1. left = Left([role |-> "merchant", id |-> m], NoFilters, cursor)
  BY DashboardMatches
<1>2. /\ page.next = NoCursor => page.items = left
      /\ page.next # NoCursor =>
            /\ page.next \in Cursors
            /\ cursor # NoCursor => Older(page.next, cursor)
            /\ page.items = {p \in left : ~ Older(Key(p), page.next)}
            /\ \E p \in left : Older(Key(p), page.next)
  <2> HIDE DEF left
  <2> QED BY <1>1, PageFacts
<1>3. \A p \in PaymentsOf(m) : p \in DOMAIN payment /\ Key(p) \in Cursors
  BY KeyFacts DEF PaymentsOf
<1>4. ASSUME NEW p \in PaymentsOf(m), ~ PastCursor(p, cursor) PROVE Reached(p, page.next)
  BY <1>2, <1>3, <1>4, OlderIsAnOrder DEF PastCursor, Reached
<1> QED BY <1>2, <1>4 DEF Reached

(* Slots and what is in them.                                              *)
LEMMA LoadFacts ==
    ASSUME ScreenTyped
    PROVE  /\ NoLoad \notin Loads
           /\ \A s \in Slots : s \in InFlight <=> load[s] \in Loads
           /\ \A s \in Slots : s \notin InFlight <=> load[s] = NoLoad
           /\ \A s \in Slots : load[s].stage \in {"payments", "balances"} => s \in InFlight
           /\ InFlight \subseteq Slots
           /\ FirstLoads \subseteq InFlight /\ Fetching \subseteq FirstLoads
<1>1. NoLoad \notin Loads /\ NoLoad.stage = "none"
  BY DEF NoLoad, Loads
<1> QED BY <1>1 DEF ScreenTyped, InFlight, FirstLoads, Fetching

LEMMA ScreenFacts ==
    /\ Closed \notin Screens /\ ~ Closed.open
    /\ \A x \in Screens : x.open
BY DEF Closed, Screens

(* What each call that starts or ends does to the loads in flight.         *)
LEMMA StartedFacts ==
    ASSUME ScreenTyped, NEW s \in Slots, NEW m \in Merchants, NEW cursor \in Cursors \cup {NoCursor},
           Started(s, m, cursor)
    PROVE  /\ load' \in [Slots -> Loads \cup {NoLoad}]
           /\ load'[s] = [stage |-> "payments", merchant |-> m, cursor |-> cursor]
           /\ \A t \in Slots \ {s} : load'[t] = load[t]
           /\ s \notin InFlight /\ InFlight' = InFlight \cup {s}
           /\ FirstLoads' = FirstLoads \cup (IF cursor = NoCursor THEN {s} ELSE {})
           /\ Fetching' = Fetching \cup (IF cursor = NoCursor THEN {s} ELSE {})
<1> DEFINE l == [stage |-> "payments", merchant |-> m, cursor |-> cursor]
<1>1. l \in Loads /\ l.stage = "payments" /\ l.cursor = cursor
  BY DEF Loads
<1>2. load' = [load EXCEPT ![s] = l] /\ s \notin InFlight /\ load \in [Slots -> Loads \cup {NoLoad}]
  BY DEF Started, ScreenTyped
<1> HIDE DEF l
<1>3. /\ load' \in [Slots -> Loads \cup {NoLoad}] /\ load'[s] = l
      /\ \A t \in Slots \ {s} : load'[t] = load[t]
  BY <1>1, <1>2
<1>4. l # NoLoad
  BY <1>1, LoadFacts
<1> QED BY <1>1, <1>2, <1>3, <1>4 DEF InFlight, FirstLoads, Fetching, l

LEMMA EndedFacts ==
    ASSUME ScreenTyped, NEW s \in Slots, load' = [load EXCEPT ![s] = NoLoad]
    PROVE  /\ load' \in [Slots -> Loads \cup {NoLoad}]
           /\ \A t \in Slots \ {s} : load'[t] = load[t]
           /\ InFlight' = InFlight \ {s}
           /\ FirstLoads' = FirstLoads \ {s} /\ Fetching' = Fetching \ {s}
<1>1. load'[s] = NoLoad /\ \A t \in Slots \ {s} : load'[t] = load[t]
  BY DEF ScreenTyped
<1> QED BY <1>1 DEF ScreenTyped, InFlight, FirstLoads, Fetching

(* Under a browser the table stands still.                                 *)
LEMMA TableStands ==
    ASSUME UNCHANGED vars
    PROVE  /\ \A p : Key(p)' = Key(p)
           /\ \A p, c : Reached(p, c)' = Reached(p, c)
           /\ \A m : PaymentsOf(m)' = PaymentsOf(m)
BY DEF vars, tableVars, Key, Reached, PaymentsOf

LEMMA ListingKept ==
    ASSUME UNCHANGED vars, NEW m, Listing(m),
           screen'.rows = screen.rows, screen'.next = screen.next
    PROVE  Listing(m)'
BY TableStands DEF Listing, Shown, DownTo

LEMMA ActingListing ==
    ASSUME NEW m, screen'.acting = m, Listing(m)'
    PROVE  Listing(screen.acting)'
BY DEF Listing, DownTo, PaymentsOf

(* The chosen merchant's rows after an answer of its own: `kept` are those *)
(* that stay.                                                              *)
LEMMA ListingGrows ==
    ASSUME TableTyped, UNCHANGED vars, NEW m \in Merchants, NEW kept \in [Ids -> 0..2],
           NEW cursor \in Cursors \cup {NoCursor},
           NEW page, page = ListPayments([role |-> "merchant", id |-> m], NoFilters, cursor),
           \A p \in Ids : kept[p] = IF p \in PaymentsOf(m) /\ ~ PastCursor(p, cursor) THEN 1 ELSE 0,
           screen'.next = page.next,
           screen'.rows = [p \in Ids |-> IF p \in page.items /\ kept[p] < 2 THEN kept[p] + 1 ELSE kept[p]]
    PROVE  Listing(m)'
<1>1. /\ page.items \subseteq PaymentsOf(m)
      /\ \A p \in PaymentsOf(m) : p \in page.items <=>
            PastCursor(p, cursor) /\ Reached(p, page.next)
      /\ \A p \in PaymentsOf(m) : ~ PastCursor(p, cursor) => Reached(p, page.next)
      /\ page.next # NoCursor => \E p \in PaymentsOf(m) : Older(Key(p), page.next)
  BY DownToFacts
<1>2. PaymentsOf(m) \subseteq Ids
  BY DEF PaymentsOf, TableTyped
<1>3. \A p \in Ids : screen'.rows[p] = IF p \in DownTo(m, page.next) THEN 1 ELSE 0
  BY <1>1, <1>2 DEF DownTo
<1>4. Shown' = DownTo(m, page.next)
  BY <1>2, <1>3 DEF Shown, DownTo
<1> QED BY <1>1, <1>3, <1>4, TableStands DEF Listing, DownTo, Shown

-----------------------------------------------------------------------------
(* The steps of the browser.                                               *)
LEMMA OpenKeeps ==
    ASSUME DashboardInv, NEW s \in Slots, NEW m \in Merchants, Open(s, m)
    PROVE  ScreenTyped' /\ CleanScreen'
<1> DEFINE new == [open |-> TRUE, acting |-> m, loading |-> TRUE, clean |-> TRUE,
                   rows |-> [p \in Ids |-> 0], next |-> NoCursor, of |-> Unset]
<1>1. ScreenTyped /\ screen = Closed /\ screen' = new /\ Started(s, m, NoCursor) /\ InFlight = {}
  BY DEF DashboardInv, Open, ScreenTyped
<1>2. new \in Screens /\ new.acting = m /\ new.loading
  BY DEF Screens
<1> HIDE DEF new
<1>3. /\ load' \in [Slots -> Loads \cup {NoLoad}]
      /\ load'[s] = [stage |-> "payments", merchant |-> m, cursor |-> NoCursor]
      /\ InFlight' = {s} /\ FirstLoads' # {} /\ Fetching' # {}
  BY <1>1, StartedFacts
<1>4. ScreenTyped'
  BY <1>1, <1>2, <1>3, ScreenFacts DEF ScreenTyped
<1>5. Current(s)'
  BY <1>1, <1>2, <1>3 DEF Current
<1> QED BY <1>3, <1>4, <1>5 DEF CleanScreen

LEMMA ChooseMerchantKeeps ==
    ASSUME DashboardInv, NEW s \in Slots, NEW m \in Merchants, ChooseMerchant(s, m)
    PROVE  ScreenTyped' /\ CleanScreen'
<1>1. /\ ScreenTyped /\ screen \in Screens /\ Started(s, m, NoCursor)
      /\ screen' = [screen EXCEPT !.acting = m, !.loading = TRUE, !.clean = InFlight = {}]
  BY ScreenFacts DEF DashboardInv, ChooseMerchant, ScreenTyped
<1>2. /\ screen' \in Screens /\ screen'.acting = m /\ screen'.loading
      /\ screen'.clean => InFlight = {}
  BY <1>1 DEF Screens
<1>3. /\ load' \in [Slots -> Loads \cup {NoLoad}]
      /\ load'[s] = [stage |-> "payments", merchant |-> m, cursor |-> NoCursor]
      /\ \A t \in Slots \ {s} : load'[t] = load[t]
      /\ InFlight' = InFlight \cup {s} /\ FirstLoads' # {} /\ Fetching' # {}
  BY <1>1, StartedFacts
<1>4. ScreenTyped'
  BY <1>1, <1>2, <1>3, LoadFacts, ScreenFacts DEF ScreenTyped
<1>5. Current(s)'
  BY <1>2, <1>3 DEF Current
<1> QED BY <1>2, <1>3, <1>4, <1>5 DEF CleanScreen

LEMMA LoadMoreKeeps ==
    ASSUME DashboardInv, NEW s \in Slots, LoadMore(s), UNCHANGED vars
    PROVE  ScreenTyped' /\ CleanScreen'
<1>1. /\ ScreenTyped /\ CleanScreen /\ screen \in Screens /\ ~ screen.loading /\ screen.open
      /\ screen.next # NoCursor /\ Started(s, screen.acting, screen.next)
      /\ screen' = [screen EXCEPT !.loading = TRUE]
  BY ScreenFacts DEF DashboardInv, LoadMore, ScreenTyped
<1>2. /\ screen' \in Screens /\ screen'.loading
      /\ screen'.acting = screen.acting /\ screen'.next = screen.next /\ screen'.rows = screen.rows
      /\ screen'.of = screen.of /\ screen'.clean = screen.clean
      /\ screen.acting \in Merchants /\ screen.next \in Cursors
  BY <1>1 DEF Screens
<1>3. /\ load' \in [Slots -> Loads \cup {NoLoad}]
      /\ load'[s] = [stage |-> "payments", merchant |-> screen.acting, cursor |-> screen.next]
      /\ \A t \in Slots \ {s} : load'[t] = load[t]
      /\ InFlight' = InFlight \cup {s} /\ FirstLoads' = FirstLoads /\ Fetching' = Fetching
  <2> DEFINE m == screen.acting
             cursor == screen.next
  <2>1. /\ m \in Merchants /\ cursor \in Cursors \cup {NoCursor} /\ cursor # NoCursor
        /\ ScreenTyped /\ Started(s, m, cursor)
    BY <1>1, <1>2
  <2> HIDE DEF m, cursor
  <2>2. /\ load' \in [Slots -> Loads \cup {NoLoad}]
        /\ load'[s] = [stage |-> "payments", merchant |-> m, cursor |-> cursor]
        /\ \A t \in Slots \ {s} : load'[t] = load[t]
        /\ InFlight' = InFlight \cup {s}
        /\ FirstLoads' = FirstLoads \cup (IF cursor = NoCursor THEN {s} ELSE {})
        /\ Fetching' = Fetching \cup (IF cursor = NoCursor THEN {s} ELSE {})
    BY <2>1, StartedFacts
  <2>3. FirstLoads' = FirstLoads /\ Fetching' = Fetching
    BY <2>1, <2>2
  <2> QED BY <2>2, <2>3 DEF m, cursor
<1>4. ScreenTyped'
  <2>1. \A t \in InFlight' : load'[t].cursor # NoCursor => load'[t].stage = "payments"
    BY <1>1, <1>3, LoadFacts DEF ScreenTyped
  <2> QED BY <1>2, <1>3, <2>1, ScreenFacts DEF ScreenTyped
<1>5. ASSUME screen.clean
      PROVE  InFlight = {} /\ FirstLoads = {} /\ Listing(screen.acting) /\ screen.of = screen.acting
  <2>1. InFlight = {}
    BY <1>1, <1>5 DEF CleanScreen, Current
  <2>2. FirstLoads = {} /\ Fetching = {}
    BY <1>1, <2>1, LoadFacts
  <2> QED BY <1>1, <1>5, <2>1, <2>2 DEF CleanScreen
<1>6. Current(s)'
  BY <1>2, <1>3 DEF Current
<1>7. ASSUME screen.clean PROVE Listing(screen.acting)'
  <2>1. PICK m : m = screen.acting
    OBVIOUS
  <2>2. Listing(m)'
    BY <1>2, <1>5, <1>7, <2>1, ListingKept
  <2> QED BY <1>2, <2>1, <2>2, ActingListing
<1> QED BY <1>2, <1>3, <1>4, <1>5, <1>6, <1>7 DEF CleanScreen

LEMMA PaymentsArriveKeeps ==
    ASSUME DashboardInv, NEW s \in Slots, PaymentsArrive(s), UNCHANGED vars
    PROVE  ScreenTyped' /\ CleanScreen'
<1> DEFINE l     == load[s]
           first == l.cursor = NoCursor
           page  == ListPayments([role |-> "merchant", id |-> l.merchant], NoFilters, l.cursor)
           kept  == [p \in Ids |-> IF first THEN 0 ELSE screen.rows[p]]
           rows  == [p \in Ids |-> IF p \in page.items /\ kept[p] < 2 THEN kept[p] + 1 ELSE kept[p]]
<1>1. /\ TableTyped /\ ScreenTyped /\ CleanScreen /\ l.stage = "payments"
      /\ s \in InFlight /\ l \in Loads
  BY LoadFacts DEF DashboardInv, PagingInv, PaymentsArrive
<1>2. screen \in Screens
  BY <1>1 DEF ScreenTyped
<1>3. /\ screen' = [screen EXCEPT !.rows = rows, !.next = page.next,
                                  !.loading = IF first THEN @ ELSE FALSE]
      /\ load' = [load EXCEPT ![s] = IF first THEN [l EXCEPT !.stage = "balances"] ELSE NoLoad]
  BY DEF PaymentsArrive
<1>4. l.merchant \in Merchants /\ l.cursor \in Cursors \cup {NoCursor}
  BY <1>1 DEF Loads
<1>5. page.next \in Cursors \cup {NoCursor}
  BY <1>1, <1>4, DownToFacts
<1>6. kept \in [Ids -> 0..2] /\ rows \in [Ids -> 0..2]
  BY <1>2 DEF Screens
<1> HIDE DEF page, rows
<1>7. /\ screen' \in Screens /\ screen'.rows = rows /\ screen'.next = page.next
      /\ screen'.acting = screen.acting /\ screen'.clean = screen.clean /\ screen'.of = screen.of
      /\ screen'.loading = IF first THEN screen.loading ELSE FALSE
      /\ screen.open
  BY <1>2, <1>3, <1>5, <1>6, ScreenFacts DEF Screens
<1>8. ASSUME screen.clean
      PROVE  InFlight = {s} /\ Current(s)
  BY <1>1, <1>7, <1>8 DEF CleanScreen
<1>9. ASSUME screen.clean, \A p \in Ids :
                kept[p] = IF p \in PaymentsOf(screen.acting) /\ ~ PastCursor(p, l.cursor) THEN 1 ELSE 0
      PROVE  Listing(screen.acting)'
  <2>1. l.merchant = screen.acting
    BY <1>8, <1>9 DEF Current
  <2> HIDE DEF kept
  <2>2. PICK m \in Merchants, cursor \in Cursors \cup {NoCursor}, before \in [Ids -> 0..2] :
           m = screen.acting /\ cursor = l.cursor /\ before = kept
    BY <1>4, <1>6, <2>1
  <2> PICK answer : answer = page
    OBVIOUS
  <2>3. answer = ListPayments([role |-> "merchant", id |-> m], NoFilters, cursor)
    BY <2>1, <2>2 DEF page
  <2>4. /\ screen'.next = answer.next
        /\ screen'.rows = [p \in Ids |-> IF p \in answer.items /\ before[p] < 2
                                         THEN before[p] + 1 ELSE before[p]]
    BY <1>7, <2>2 DEF rows
  <2>5. \A p \in Ids : before[p] = IF p \in PaymentsOf(m) /\ ~ PastCursor(p, cursor) THEN 1 ELSE 0
    BY <1>9, <2>2
  <2>6. Listing(m)'
    BY <1>1, <2>3, <2>4, <2>5, ListingGrows
  <2> QED BY <1>7, <2>2, <2>6, ActingListing
<1>10. CASE first
  <2> DEFINE k == [l EXCEPT !.stage = "balances"]
  <2>1. k \in Loads /\ k.stage = "balances" /\ k.cursor = NoCursor /\ k.merchant = l.merchant
    BY <1>1, <1>10 DEF Loads
  <2>2. load' = [load EXCEPT ![s] = k]
    BY <1>3, <1>10
  <2> HIDE DEF k
  <2>3. /\ load' \in [Slots -> Loads \cup {NoLoad}] /\ load'[s] = k
        /\ \A t \in Slots \ {s} : load'[t] = load[t]
    BY <1>1, <2>1, <2>2 DEF ScreenTyped
  <2>4. /\ k # NoLoad /\ load[s] # NoLoad
    BY <1>1, <2>1, LoadFacts
  <2>5. InFlight' = InFlight /\ s \in FirstLoads'
    BY <1>1, <2>1, <2>3, <2>4 DEF InFlight, FirstLoads
  <2>6. ScreenTyped'
    BY <1>1, <1>7, <2>1, <2>3, <2>5, LoadFacts, ScreenFacts DEF ScreenTyped
  <2>7. ASSUME screen.clean PROVE Current(s)'
    BY <1>7, <1>8, <1>10, <2>1, <2>3, <2>7 DEF Current
  <2>8. ASSUME screen.clean PROVE Listing(screen.acting)'
    BY <1>9, <1>10, <2>8 DEF PastCursor
  <2> QED BY <1>7, <1>8, <2>5, <2>6, <2>7, <2>8 DEF CleanScreen
<1>11. CASE ~ first
  <2>1. load' = [load EXCEPT ![s] = NoLoad]
    BY <1>3, <1>11
  <2>2. /\ load' \in [Slots -> Loads \cup {NoLoad}]
        /\ \A t \in Slots \ {s} : load'[t] = load[t]
        /\ InFlight' = InFlight \ {s} /\ FirstLoads' = FirstLoads \ {s}
    BY <1>1, <2>1, EndedFacts
  <2>3. ScreenTyped'
    BY <1>1, <1>7, <2>2, LoadFacts, ScreenFacts DEF ScreenTyped
  <2>4. ASSUME screen.clean
        PROVE  /\ FirstLoads = {} /\ screen.of = screen.acting
               /\ l.cursor = screen.next /\ Listing(screen.acting)
    <3>1. FirstLoads = {} /\ Fetching = {}
      BY <1>8, <1>11, <2>4 DEF FirstLoads, Fetching
    <3> QED BY <1>1, <1>7, <1>8, <1>11, <2>4, <3>1 DEF CleanScreen, Current
  <2>5. ASSUME screen.clean PROVE Listing(screen.acting)'
    <3>1. \A p \in Ids : kept[p] = screen.rows[p] /\ screen.rows[p] \in 0..2
      BY <1>2, <1>11 DEF Screens
    <3>2. \A p \in Ids : screen.rows[p] = IF p \in DownTo(screen.acting, l.cursor) THEN 1 ELSE 0
      BY <2>4, <2>5, <3>1 DEF Listing, Shown
    <3> QED BY <1>9, <1>11, <2>5, <3>1, <3>2 DEF DownTo, Reached, PastCursor
  <2> QED BY <1>7, <1>8, <2>2, <2>3, <2>4, <2>5 DEF CleanScreen
<1> QED BY <1>10, <1>11

LEMMA BalancesArriveKeeps ==
    ASSUME DashboardInv, NEW s \in Slots, BalancesArrive(s), UNCHANGED vars
    PROVE  ScreenTyped' /\ CleanScreen'
<1>1. /\ ScreenTyped /\ CleanScreen /\ load[s].stage = "balances" /\ s \in InFlight /\ load[s] \in Loads
      /\ screen' = [screen EXCEPT !.of = load[s].merchant, !.loading = FALSE]
      /\ load' = [load EXCEPT ![s] = NoLoad]
  BY LoadFacts DEF DashboardInv, BalancesArrive
<1>2. screen \in Screens /\ load[s].merchant \in Merchants
  BY <1>1 DEF ScreenTyped, Loads
<1>3. /\ screen' \in Screens /\ screen'.of = load[s].merchant /\ screen'.acting = screen.acting
      /\ screen'.rows = screen.rows /\ screen'.next = screen.next /\ screen'.clean = screen.clean
      /\ screen.open
  BY <1>1, <1>2 DEF Screens
<1>4. /\ load' \in [Slots -> Loads \cup {NoLoad}]
      /\ \A t \in Slots \ {s} : load'[t] = load[t]
      /\ InFlight' = InFlight \ {s} /\ FirstLoads' = FirstLoads \ {s}
  BY <1>1, EndedFacts
<1>5. ScreenTyped'
  BY <1>1, <1>3, <1>4, ScreenFacts DEF ScreenTyped
<1>6. ASSUME screen.clean
      PROVE  InFlight = {s} /\ load[s].merchant = screen.acting /\ Listing(screen.acting)
  <2>1. InFlight = {s} /\ Current(s)
    BY <1>1, <1>3, <1>6 DEF CleanScreen
  <2>2. Fetching = {}
    BY <1>1, <2>1 DEF Fetching, FirstLoads
  <2> QED BY <1>1, <1>3, <1>6, <2>1, <2>2 DEF CleanScreen, Current
<1>7. ASSUME screen.clean PROVE Listing(screen.acting)'
  <2>1. PICK m : m = screen.acting
    OBVIOUS
  <2>2. Listing(m)'
    BY <1>3, <1>6, <1>7, <2>1, ListingKept
  <2> QED BY <1>3, <2>1, <2>2, ActingListing
<1> QED BY <1>3, <1>4, <1>5, <1>6, <1>7 DEF CleanScreen

LEMMA LoadFailsKeeps ==
    ASSUME DashboardInv, NEW s \in Slots, LoadFails(s), UNCHANGED vars
    PROVE  ScreenTyped' /\ CleanScreen'
<1>1. /\ ScreenTyped /\ CleanScreen /\ s \in InFlight
      /\ screen' = [screen EXCEPT !.loading = FALSE, !.clean = @ /\ s \notin FirstLoads]
      /\ load' = [load EXCEPT ![s] = NoLoad]
  BY DEF DashboardInv, LoadFails
<1>2. screen \in Screens
  BY <1>1 DEF ScreenTyped
<1>3. /\ screen' \in Screens /\ screen'.of = screen.of /\ screen'.acting = screen.acting
      /\ screen'.rows = screen.rows /\ screen'.next = screen.next
      /\ screen'.clean => screen.clean /\ s \notin FirstLoads
      /\ screen.open
  BY <1>1, <1>2 DEF Screens
<1>4. /\ load' \in [Slots -> Loads \cup {NoLoad}]
      /\ \A t \in Slots \ {s} : load'[t] = load[t]
      /\ InFlight' = InFlight \ {s} /\ FirstLoads' = FirstLoads \ {s}
  BY <1>1, EndedFacts
<1>5. ScreenTyped'
  BY <1>1, <1>3, <1>4, ScreenFacts DEF ScreenTyped
<1>6. ASSUME screen'.clean
      PROVE  InFlight = {s} /\ screen.of = screen.acting /\ Listing(screen.acting)
  <2>1. InFlight = {s}
    BY <1>1, <1>3, <1>6 DEF CleanScreen
  <2>2. FirstLoads = {} /\ Fetching = {}
    BY <1>3, <1>6, <2>1 DEF Fetching, FirstLoads
  <2> QED BY <1>1, <1>3, <1>6, <2>1, <2>2 DEF CleanScreen
<1>7. ASSUME screen'.clean PROVE Listing(screen.acting)'
  <2>1. PICK m : m = screen.acting
    OBVIOUS
  <2>2. Listing(m)'
    BY <1>3, <1>6, <1>7, <2>1, ListingKept
  <2> QED BY <1>3, <2>1, <2>2, ActingListing
<1> QED BY <1>3, <1>4, <1>5, <1>6, <1>7 DEF CleanScreen

LEMMA DashboardInitHolds == DashboardInit => DashboardInv
<1> SUFFICES ASSUME DashboardInit PROVE DashboardInv
  OBVIOUS
<1>1. PagingInv /\ screen = Closed /\ load = [s \in Slots |-> NoLoad]
  BY PagingInitHolds DEF DashboardInit
<1> QED BY <1>1, ScreenFacts DEF DashboardInv, ScreenTyped, CleanScreen, InFlight

LEMMA DashboardStep == DashboardInv /\ [DashboardNext]_<<vars, screen, load>> => DashboardInv'
<1> SUFFICES ASSUME DashboardInv, [DashboardNext]_<<vars, screen, load>> PROVE DashboardInv'
  OBVIOUS
<1>1. PagingInv'
  BY PagingStep DEF DashboardInv, DashboardNext
<1>2. CASE screen' = screen /\ load' = load /\ UNCHANGED vars
  BY <1>1, <1>2, TableStands
     DEF DashboardInv, ScreenTyped, CleanScreen, InFlight, FirstLoads, Fetching, Current,
         Listing, Shown, DownTo
<1>3. CASE screen = Closed /\ UNCHANGED <<screen, load>>
  BY <1>1, <1>3, ScreenFacts
     DEF DashboardInv, ScreenTyped, CleanScreen, InFlight
<1>4. ASSUME UNCHANGED vars, NEW s \in Slots,
             \/ \E m \in Merchants : Open(s, m) \/ ChooseMerchant(s, m)
             \/ LoadMore(s) \/ PaymentsArrive(s) \/ BalancesArrive(s) \/ LoadFails(s)
      PROVE  DashboardInv'
  BY <1>1, <1>4, OpenKeeps, ChooseMerchantKeeps, LoadMoreKeeps, PaymentsArriveKeeps,
     BalancesArriveKeeps, LoadFailsKeeps DEF DashboardInv
<1> QED BY <1>2, <1>3, <1>4 DEF DashboardNext

THEOREM InvariantHolds == DashboardSpec => []DashboardInv
BY DashboardInitHolds, DashboardStep, PTL DEF DashboardSpec

-----------------------------------------------------------------------------
(* A dashboard only reads: behind it the listing is that of Paging, so     *)
(* that what Paging promises holds here as well.                           *)
LEMMA DashboardOnlyReads == DashboardSpec => Spec
<1>1. DashboardInit => Init
  BY DEF DashboardInit
<1>2. [DashboardNext]_<<vars, screen, load>> => [Next]_vars
  BY DEF DashboardNext
<1> QED BY <1>1, <1>2, PTL DEF DashboardSpec, Spec

(* The table, the walk, the component's state and the loads in flight are  *)
(* well-formed, through every order of clicks, answers and failures.       *)
THEOREM TypeCorrect == DashboardSpec => []DashboardTypeOK
<1>1. ASSUME DashboardInv PROVE DashboardTypeOK
  <2>1. TypeOK /\ ScreenTyped
    BY <1>1, PagingTyped DEF DashboardInv
  <2> QED BY <2>1 DEF DashboardTypeOK, ScreenTyped, Screens
<1> QED BY <1>1, InvariantHolds, PTL

(* page.tsx: a merchant chosen while nothing is in flight, whose first     *)
(* load succeeds, sees its own listing from the top, each payment once,    *)
(* whatever becomes of "Load more".                                        *)
THEOREM ScreenListsOneMerchant == DashboardSpec => []ScreenIsOneListing
<1>1. ASSUME DashboardInv PROVE ScreenIsOneListing
  <2> SUFFICES ASSUME screen.open, screen.clean, FirstLoads = {}
               PROVE  /\ Shown = Newest(PaymentsOf(screen.acting), Cardinality(Shown))
                      /\ \A p \in Shown : screen.rows[p] = 1
                      /\ screen.next = NoCursor <=> Shown = PaymentsOf(screen.acting)
                      /\ screen.of = screen.acting
    BY DEF ScreenIsOneListing
  <2> DEFINE S == PaymentsOf(screen.acting)
  <2>1. TableTyped /\ ScreenTyped /\ CleanScreen
    BY <1>1 DEF DashboardInv, PagingInv
  <2>2. Listing(screen.acting) /\ screen.of = screen.acting
    BY <2>1, LoadFacts DEF CleanScreen
  <2>3. screen.next \in Cursors \cup {NoCursor}
    BY <2>1, ScreenFacts DEF ScreenTyped, Screens
  <2>4. /\ Shown = {p \in S : Reached(p, screen.next)} /\ \A p \in Shown : screen.rows[p] = 1
        /\ screen.next # NoCursor => \E p \in S : ~ Reached(p, screen.next)
    BY <2>2 DEF Listing, DownTo, Reached
  <2>5. S \in SUBSET DOMAIN payment
    BY DEF PaymentsOf
  <2> HIDE DEF S
  <2>6. \A p \in Shown, q \in S : Older(Key(p), Key(q)) => q \in Shown
    <3> SUFFICES ASSUME NEW p \in Shown, NEW q \in S, Older(Key(p), Key(q)), ~ Reached(q, screen.next)
                 PROVE  FALSE
      BY <2>4
    <3>1. Key(p) \in Cursors /\ Key(q) \in Cursors /\ Reached(p, screen.next)
      BY <2>1, <2>4, <2>5, KeyFacts
    <3> QED BY <2>3, <3>1, OlderIsAnOrder DEF Reached
  <2>7. Shown \in SUBSET S
    BY <2>4
  <2>8. Shown = Newest(S, Cardinality(Shown))
    <3> HIDE DEF Shown
    <3> QED BY <2>1, <2>5, <2>6, <2>7, TopIsNewest
  <2>9. screen.next = NoCursor => Shown = S
    BY <2>4 DEF Reached
  <2> QED BY <2>2, <2>4, <2>8, <2>9 DEF S
<1> QED BY <1>1, InvariantHolds, PTL

=============================================================================
