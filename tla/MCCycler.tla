------------------------------ MODULE MCCycler ------------------------------
(***************************************************************************)
(* Cycler with two subscriptions and a batch of one, so that they compete, *)
(* over a January and February whose last days and lengths differ.         *)
(***************************************************************************)
EXTENDS Cycler

CONSTANTS sub1, sub2, w1, w2

MCSubs       == {sub1, sub2}
MCWorkers    == {w1, w2}
MCOneWorker  == {w1}
MCOffered    == {"daily", "monthly"}
MCMonths     == <<31, 28, 31>>
MCDays       == {31, 62}
MCStartDays  == {31}

=============================================================================
