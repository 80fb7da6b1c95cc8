----------------------------- MODULE GripeDomain ----------------------------
(***************************************************************************)
(* The vocabulary and the arithmetic of internal/domain: currencies,       *)
(* methods, statuses, the status a new payment starts in, and the two fee  *)
(* formulas.  Amounts are minor units and mathematical integers;           *)
(* FixedWidthFee is the fee in the machine's, which LedgerProofs shows to  *)
(* be the same as long as 300 times the amount does not overflow.          *)
(***************************************************************************)
EXTENDS Integers

Currencies == {"USD", "GBP", "EUR"}

CardMethods    == {"card", "apple_pay", "google_pay"}
PaymentMethods == CardMethods \cup {"direct_debit", "bank_transfer"}

PaymentStatuses ==
    {"authorized", "captured", "settled", "pending", "declined", "refunded"}
RefundStatuses  == {"created", "settled"}

(* Card-like payments whose amount ends in 13 are declined.                *)
DeclineTail == 13

(* The status a payment is created in: the mock acquirer of both backends. *)
InitialStatus(method, amount) ==
    CASE method \in CardMethods /\ amount % 100 = DeclineTail -> "declined"
      [] method = "direct_debit"                              -> "authorized"
      [] method = "bank_transfer"                             -> "pending"
      [] OTHER                                                -> "captured"

\* Mutant: rounds every fraction up.
DivUp(n, d) == IF n % d = 0 THEN n \div d ELSE n \div d + 1

(* n / d for n >= 0, d > 0, rounded to the nearest; a half goes to even.   *)
DivHalfEven(n, d) ==
    LET q == n \div d
        r == n % d
    IN  IF 2 * r < d \/ (2 * r = d /\ q % 2 = 0) THEN q ELSE q + 1

GripeFeeBasisPoints == 300

GripeFee(amount) == DivHalfEven(amount * GripeFeeBasisPoints, 10000)

(* Two's complement with maxInt the largest integer (2^63 - 1 for int64).  *)
Wrapped(n, maxInt) == ((n + maxInt + 1) % (2 * maxInt + 2)) - (maxInt + 1)

(* GripeFee as it is computed: the product wraps, and of a negative one    *)
(* the division truncates toward zero and the remainder never rounds up.   *)
FixedWidthFee(amount, maxInt) ==
    LET n == Wrapped(amount * GripeFeeBasisPoints, maxInt)
    IN  IF n >= 0 THEN DivHalfEven(n, 10000) ELSE - ((- n) \div 10000)

(* What a merchant keeps of a settled amount, or gives back on a refund.   *)
Net(amount) == amount - GripeFee(amount)

(* The card network's cut as the fee-worker mocks it: 20 flat plus 25bp,   *)
(* the division truncated.                                                 *)
MockNetworkFee(amount) == 20 + (amount * 25) \div 10000

=============================================================================
