-------------------------------- MODULE Sums --------------------------------
(***************************************************************************)
(* Totals over numbered entries, as a running total: the sum of an entry   *)
(* function f over 1..n.  The totals are recursive functions, not          *)
(* RECURSIVE operators, so that the lemmas of SumLemmas can be proved.     *)
(***************************************************************************)
EXTENDS Integers

(* The running totals of f: the i-th is f[1] + ... + f[i].                 *)
RunningTotal(f, n) ==
    LET total[i \in 0..n] == IF i = 0 THEN 0 ELSE total[i - 1] + f[i]
    IN  total

Total(f, n) == RunningTotal(f, n)[n]

=============================================================================
