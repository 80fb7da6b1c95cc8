----------------------------- MODULE Dashboard ------------------------------
(***************************************************************************)
(* web/app/merchant/page.tsx: the merchant's dashboard over the listing of *)
(* Paging.  Every load is an asynchronous function of its own; nothing     *)
(* orders the answers, and an answer is applied whoever is chosen by then. *)
(*                                                                         *)
(* Two bounds: a browser is explored only where nobody walks the listing,  *)
(* readers being invisible to one another, and on a table that is done     *)
(* moving (a moving one is the business of EachShownOnce) and holds one    *)
(* status, the dashboard's listing asking for none.                        *)
(***************************************************************************)
EXTENDS Paging

CONSTANT MaxLoads       \* bound: loads in flight at once

VARIABLES
    screen,         \* what the component's state holds
    load            \* the calls of load() in flight, by slot

Slots == 1..MaxLoads

NoLoad == [stage |-> "none"]
Loads  == [stage : {"payments", "balances"}, merchant : Merchants,
           cursor : Cursors \cup {NoCursor}]

Closed == [open |-> FALSE]

InFlight == {s \in Slots : load[s] # NoLoad}
FirstLoads == {s \in InFlight : load[s].cursor = NoCursor}

(* load() as called in a render whose merchantId is merchant; slots are    *)
(* taken in order.                                                         *)
Started(s, merchant, cursor) ==
    /\ s \notin InFlight /\ 1..(s - 1) \subseteq InFlight
    /\ load' = [load EXCEPT ![s] = [stage |-> "payments", merchant |-> merchant, cursor |-> cursor]]

(* The page loads: the first effect.  `of` is whose balances are shown;    *)
(* history `clean`: since the merchant was chosen, no older load has been  *)
(* in flight and the first load has not failed.                            *)
Open(s, m) ==
    /\ screen = Closed /\ walk = NoWalk
    /\ drawn = NoRows /\ clock = MaxTime /\ \A p \in DOMAIN payment : payment[p].status = "authorized"
    /\ screen' = [open |-> TRUE, acting |-> m, loading |-> TRUE, clean |-> TRUE,
                  rows |-> [p \in Ids |-> 0], next |-> NoCursor, of |-> Unset]
    /\ Started(s, m, NoCursor)

(* Every keystroke in "Acting as" is a merchant of its own: the effect     *)
(* loads again, whatever is in flight.                                     *)
ChooseMerchant(s, m) ==
    /\ screen.open /\ m # screen.acting
    /\ screen' = [screen EXCEPT !.acting = m, !.loading = TRUE, !.clean = InFlight = {}]
    /\ Started(s, m, NoCursor)

\* Mutant: the button is not disabled while loading.
LoadMoreAnytime(s) ==
    /\ screen.open /\ screen.next # NoCursor
    /\ screen' = [screen EXCEPT !.loading = TRUE]
    /\ Started(s, screen.acting, screen.next)

LoadMore(s) ==
    /\ screen.open /\ screen.next # NoCursor /\ ~ screen.loading
    /\ screen' = [screen EXCEPT !.loading = TRUE]
    /\ Started(s, screen.acting, screen.next)

(* The payments arrive: appended to what is there, or instead of it.       *)
PaymentsArrive(s) ==
    LET l     == load[s]
        first == l.cursor = NoCursor
        page  == ListPayments([role |-> "merchant", id |-> l.merchant], NoFilters, l.cursor)
        kept  == [p \in Ids |-> IF first THEN 0 ELSE screen.rows[p]]
    IN  /\ l.stage = "payments"
        /\ screen' = [screen EXCEPT
              !.rows    = [p \in Ids |-> IF p \in page.items /\ kept[p] < 2 THEN kept[p] + 1 ELSE kept[p]],
              !.next    = page.next,
              !.loading = IF first THEN @ ELSE FALSE]
        /\ load' = [load EXCEPT ![s] = IF first THEN [l EXCEPT !.stage = "balances"] ELSE NoLoad]

BalancesArrive(s) ==
    /\ load[s].stage = "balances"
    /\ screen' = [screen EXCEPT !.of = load[s].merchant, !.loading = FALSE]
    /\ load' = [load EXCEPT ![s] = NoLoad]

(* Either call fails: an error is shown above what the screen has.         *)
LoadFails(s) ==
    /\ s \in InFlight
    /\ screen' = [screen EXCEPT !.loading = FALSE, !.clean = @ /\ s \notin FirstLoads]
    /\ load' = [load EXCEPT ![s] = NoLoad]

DashboardInit == Init /\ screen = Closed /\ load = [s \in Slots |-> NoLoad]

DashboardNext ==
    \/ screen = Closed /\ Next /\ UNCHANGED <<screen, load>>
    \/ /\ \E s \in Slots :
             \/ \E m \in Merchants : Open(s, m) \/ ChooseMerchant(s, m)
             \/ LoadMore(s) \/ PaymentsArrive(s) \/ BalancesArrive(s) \/ LoadFails(s)
       /\ UNCHANGED vars

DashboardSpec == DashboardInit /\ [][DashboardNext]_<<vars, screen, load>>

-----------------------------------------------------------------------------
(* Well-formed state: Paging's, the screen's and the loads'.               *)
DashboardTypeOK ==
    /\ TypeOK
    /\ load \in [Slots -> Loads \cup {NoLoad}]
    /\ \/ screen = Closed
       \/ /\ screen.acting \in Merchants /\ screen.of \in Merchants \cup {Unset}
          /\ screen.rows \in [Ids -> 0..2]
          /\ screen.next \in Cursors \cup {NoCursor}

Shown == {p \in Ids : screen.rows[p] > 0}

PaymentsOf(m) == {p \in DOMAIN payment : payment[p].merchant = m}

(* Once the chosen merchant's first load is through, the screen is that    *)
(* merchant's listing from the top down, each payment once and nothing     *)
(* left out above the "Load more" button, with its balances, through any   *)
(* clicks and failures of "Load more", as long as no older load was in     *)
(* flight when the merchant was chosen and the first load did not fail.    *)
(* The code guards against neither of these two: the README tells what the *)
(* screen shows then.                                                      *)
ScreenIsOneListing ==
    screen.open /\ screen.clean /\ FirstLoads = {} =>
       /\ Shown = Newest(PaymentsOf(screen.acting), Cardinality(Shown))
       /\ \A p \in Shown : screen.rows[p] = 1
       /\ screen.next = NoCursor <=> Shown = PaymentsOf(screen.acting)
       /\ screen.of = screen.acting

=============================================================================
