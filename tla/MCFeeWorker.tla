---------------------------- MODULE MCFeeWorker -----------------------------
(***************************************************************************)
(* FeeWorker with two workers over an accepted and a declined payment, a   *)
(* message that does not decode and one that names no payment, received in *)
(* batches of up to two.                                                   *)
(***************************************************************************)
EXTENDS FeeWorker

CONSTANTS paid, declined, junk, stray, w1, w2

MCPayments   == {paid, declined}
MCAmountOf   == [p \in MCPayments |-> IF p = paid THEN 400 ELSE 113]
MCJunk       == {junk}
MCStrays     == {stray}
MCWorkers    == {w1, w2}
MCSurcharges == {0, 5}

=============================================================================
