--------------------------- MODULE MCIdempotency ----------------------------
(***************************************************************************)
(* Idempotency with four calls over two keys and two bodies: enough for a  *)
(* race for a key, a retry after each way to fail and a call after expiry. *)
(***************************************************************************)
EXTENDS Idempotency, TLC

CONSTANTS c1, c2, c3, c4, k1, k2, b1, b2

MCCalls  == {c1, c2, c3, c4}
MCKeys   == {k1, k2}
MCBodies == {b1, b2}
(* Calls, keys and bodies are interchangeable.                             *)
MCSymmetry == Permutations(MCCalls) \cup Permutations(MCKeys) \cup Permutations(MCBodies)

=============================================================================
