------------------------------- MODULE Paging -------------------------------
(***************************************************************************)
(* listPayments and AdminVolumeReport of both stores, over a payments      *)
(* table that other requests keep inserting into and updating, and a       *)
(* client that asks for page after page.                                   *)
(*                                                                         *)
(* A payment's created_at is drawn before its insert commits, so rows do   *)
(* not become visible in the order of their timestamps.  Ids are random:   *)
(* their order says nothing about time.                                    *)
(***************************************************************************)
EXTENDS Integers, FiniteSets, Sums

CONSTANTS
    Merchants,
    MaxPayments,    \* bound: payments ever begun
    MaxTime,        \* bound: distinct timestamps
    DayLength,      \* timestamps per UTC day
    Kinds,          \* what else filters and reports look at: currency and amount
    PageSize,       \* listPageMax
    AskedFilters,   \* bound: the filters clients ask with
    Unset,          \* a filter left empty
    NoCursor        \* the empty cursor

ASSUME PageSizeAssumption == PageSize \in Nat \ {0}
ASSUME BoundsAssumption   == MaxPayments \in Nat
ASSUME TimesAssumption    == MaxTime \in Nat /\ DayLength \in Nat \ {0}
ASSUME KindsAssumption    == \A k \in Kinds : k.amount \in Nat
ASSUME UnsetAssumption    == Unset \notin Merchants

VARIABLES
    clock,          \* time.Now() of the API process
    payment,        \* the committed payments
    drawn,          \* payments whose created_at is drawn and insert not committed
    walk            \* the client that lists payments

Ids   == 1..MaxPayments
Times == 0..MaxTime
NoRows == [i \in {} |-> {}]

Statuses == {"authorized", "captured", "declined"}
Rows     == [merchant : Merchants, kind : Kinds, created : Times, status : Statuses]

(* Admins may narrow a listing to one merchant; a merchant's own id always *)
(* wins over what it asks for.                                             *)
Actors  == [role : {"merchant"}, id : Merchants] \cup [role : {"admin"}, id : {Unset}]
Filters == [merchant : Merchants \cup {Unset}, status : Statuses \cup {Unset},
            kinds : SUBSET Kinds, from : Times, to : Times]

ASSUME FiltersAssumption == AskedFilters \subseteq Filters

(* The key of a row; a listing resumes below one.  No row has the empty    *)
(* cursor's.                                                               *)
Cursors == [created : Times, id : Ids]

ASSUME CursorAssumption == NoCursor \notin Cursors

(* Every listing without query parameters.                                 *)
NoFilters == [merchant |-> Unset, status |-> Unset, kinds |-> Kinds, from |-> 0, to |-> MaxTime]

ScopeOf(actor, f) == IF actor.role = "merchant" THEN actor.id ELSE f.merchant

-----------------------------------------------------------------------------
(* The WHERE clause, cursor apart: from and to are both inclusive; the     *)
(* filters on method, currency and amount let a set of kinds through.      *)
Matches(row, actor, f) ==
    /\ ScopeOf(actor, f) \in {Unset, row.merchant}
    /\ f.status \in {Unset, row.status}
    /\ row.kind \in f.kinds
    /\ f.from <= row.created /\ row.created <= f.to

Key(p) == [created |-> payment[p].created, id |-> p]

(* The order of the listing, newest first; the id breaks ties.             *)
Older(k, than) ==
    \/ k.created < than.created
    \/ k.created = than.created /\ k.id < than.id

\* Mutant: the tie-break on the id is forgotten.
PastCursorByTime(p, cursor) == cursor # NoCursor => payment[p].created < cursor.created

(* The keyset predicate: what is left of the listing below the cursor.     *)
PastCursor(p, cursor) == cursor # NoCursor => Older(Key(p), cursor)

(* The n newest of the payments in S: ORDER BY ... DESC LIMIT n.           *)
Newest(S, n) == {p \in S : Cardinality({q \in S : Older(Key(p), Key(q))}) < n}

(* One query, one page: PageSize + 1 rows are fetched, and a surplus row   *)
(* means there is more.                                                    *)
ListPayments(actor, f, cursor) ==
    LET hits  == {p \in DOMAIN payment : Matches(payment[p], actor, f) /\ PastCursor(p, cursor)}
        items == Newest(hits, PageSize)
        last  == CHOOSE p \in items : \A q \in items : ~ Older(Key(q), Key(p))
    IN  [items |-> items, next |-> IF hits = items THEN NoCursor ELSE Key(last)]

\* Mutant: the end of the range is inclusive.
InVolumeClosed(row, from, to) ==
    /\ row.status # "declined"
    /\ from <= row.created /\ row.created <= to

InVolume(row, from, to) ==
    /\ row.status # "declined"
    /\ from <= row.created /\ row.created < to

(* AdminVolumeReport: total and count by merchant, UTC day and currency.   *)
AdminVolumeReport(from, to) ==
    LET group(p) == <<payment[p].merchant, payment[p].created \div DayLength, payment[p].kind.currency>>
        hits     == {p \in DOMAIN payment : InVolume(payment[p], from, to)}
        amounts(g) == [p \in Ids |-> IF p \in hits /\ group(p) = g THEN payment[p].kind.amount ELSE 0]
    IN  [g \in {group(p) : p \in hits} |->
           [total |-> Total(amounts(g), MaxPayments), count |-> Cardinality({p \in hits : group(p) = g})]]

-----------------------------------------------------------------------------
tableVars == <<clock, payment, drawn>>
vars      == <<tableVars, walk>>

NoWalk == [pc |-> "idle"]

TableInit == clock = 0 /\ payment = NoRows /\ drawn = NoRows

Init == TableInit /\ walk = NoWalk

Tick ==
    /\ clock < MaxTime
    /\ clock' = clock + 1
    /\ UNCHANGED <<payment, drawn>>

(* CreatePayment takes the time, then inserts; the insert may never come.  *)
Draw(p, merchant, kind, status) ==
    /\ p \notin DOMAIN payment \cup DOMAIN drawn
    /\ drawn' = [q \in DOMAIN drawn \cup {p} |->
                   IF q = p THEN [merchant |-> merchant, kind |-> kind, created |-> clock, status |-> status]
                   ELSE drawn[q]]
    /\ UNCHANGED <<clock, payment>>

Without(table, p) == [q \in DOMAIN table \ {p} |-> table[q]]

\* Mutant: a committed insert is sent again.
CommitRetrying(p) ==
    /\ p \in DOMAIN drawn
    /\ payment' = [q \in DOMAIN payment \cup {p} |-> IF q = p THEN drawn[p] ELSE payment[q]]
    /\ UNCHANGED <<clock, drawn>>

Commit(p) ==
    /\ p \in DOMAIN drawn
    /\ payment' = [q \in DOMAIN payment \cup {p} |-> IF q = p THEN drawn[p] ELSE payment[q]]
    /\ drawn' = Without(drawn, p)
    /\ UNCHANGED clock

(* CapturePayment stands for every later write: key, merchant and kind of  *)
(* a payment never change, its status does.                                *)
Capture(p) ==
    /\ p \in DOMAIN payment
    /\ payment[p].status = "authorized"
    /\ payment' = [payment EXCEPT ![p].status = "captured"]
    /\ UNCHANGED <<clock, drawn>>

TableNext ==
    \/ Tick
    \/ \E p \in Ids :
          \/ \E m \in Merchants, k \in Kinds, st \in {"authorized", "declined"} : Draw(p, m, k, st)
          \/ Commit(p) \/ Capture(p)

(* A page arrives.  History: `steady` are the payments that were there     *)
(* when the walk began and matched ever since; `shown` counts how often    *)
(* each was shown, up to twice.                                            *)
Take(w, page) ==
    [w EXCEPT !.cursor = page.next,
              !.pc     = IF page.next = NoCursor THEN "done" ELSE "walking",
              !.shown  = [p \in Ids |-> IF p \in page.items /\ @[p] < 2 THEN @[p] + 1 ELSE @[p]]]

StartWalk(actor, f) ==
    LET w == [pc |-> "walking", actor |-> actor, filter |-> f, cursor |-> NoCursor,
              shown |-> [p \in Ids |-> 0],
              steady |-> {p \in DOMAIN payment : Matches(payment[p], actor, f)}]
    IN  /\ walk.pc = "idle"
        /\ walk' = Take(w, ListPayments(actor, f, NoCursor))
        /\ UNCHANGED tableVars

(* The client sends the cursor back with the same filters.                 *)
NextPage ==
    /\ walk.pc = "walking"
    /\ walk' = Take(walk, ListPayments(walk.actor, walk.filter, walk.cursor))
    /\ UNCHANGED tableVars

(* The table moves under the walk.                                         *)
TableMoves ==
    /\ TableNext
    /\ walk' = IF walk.pc = "walking"
                 THEN [walk EXCEPT !.steady = {p \in @ : Matches(payment'[p], walk.actor, walk.filter)}]
                 ELSE walk

(* A cursor that does not decode and a failed query show nothing and leave *)
(* the walk where it is.                                                   *)
Next ==
    \/ TableMoves
    \/ NextPage
    \/ \E actor \in Actors, f \in AskedFilters : StartWalk(actor, f)

Spec == Init /\ [][Next]_vars

-----------------------------------------------------------------------------
(* Well-formed state.                                                      *)
TypeOK ==
    /\ clock \in Times
    /\ DOMAIN payment \subseteq Ids /\ payment \in [DOMAIN payment -> Rows]
    /\ DOMAIN drawn \subseteq Ids \ DOMAIN payment /\ drawn \in [DOMAIN drawn -> Rows]
    /\ \/ walk = NoWalk
       \/ /\ walk.pc \in {"walking", "done"} /\ walk.actor \in Actors /\ walk.filter \in Filters
          /\ walk.cursor \in Cursors \cup {NoCursor}
          /\ walk.cursor = NoCursor <=> walk.pc = "done"
          /\ walk.shown \in [Ids -> 0..2] /\ walk.steady \subseteq DOMAIN payment

(* A listing is exact for what stayed put: a payment that was there at the *)
(* first page and matched the filters ever since is shown exactly once     *)
(* when the walk has passed its place, and not before, whatever was        *)
(* inserted, late or on equal timestamps, or updated meanwhile.  No        *)
(* payment is shown twice, and none outside the caller's scope.            *)
EachShownOnce ==
    walk.pc # "idle" =>
       /\ \A p \in walk.steady :
             walk.shown[p] = IF walk.cursor # NoCursor /\ Older(Key(p), walk.cursor) THEN 0 ELSE 1
       /\ \A p \in Ids : walk.shown[p] > 0 =>
             /\ walk.shown[p] = 1
             /\ walk.actor.role = "merchant" => payment[p].merchant = walk.actor.id

VolumeOf(report, g) ==
    IF g \in DOMAIN report THEN report[g] ELSE [total |-> 0, count |-> 0]

(* The reports of adjoining ranges add up to the report of the whole, row  *)
(* by row, and the rows of the whole are the rows of the two: a payment on *)
(* the boundary is counted once, under its merchant, day and currency.     *)
VolumesAddUp ==
    \A from \in Times, mid \in Times, to \in 0..MaxTime + 1 : from <= mid /\ mid <= to =>
       LET whole == AdminVolumeReport(from, to)
           early == AdminVolumeReport(from, mid)
           late  == AdminVolumeReport(mid, to)
       IN  /\ DOMAIN whole = DOMAIN early \cup DOMAIN late
           /\ \A g \in DOMAIN whole :
                 /\ whole[g].total = VolumeOf(early, g).total + VolumeOf(late, g).total
                 /\ whole[g].count = VolumeOf(early, g).count + VolumeOf(late, g).count

=============================================================================
