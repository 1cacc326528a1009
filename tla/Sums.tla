-------------------------------- MODULE Sums --------------------------------
(***************************************************************************)
(* Sums over sequences of numbers, added up from the front as a loop does.  *)
(***************************************************************************)
EXTENDS Integers, Sequences

\* The sums of the first elements of t, from none of them to all.
Partial(t) ==
    LET sum[k \in 0..Len(t)] == IF k = 0 THEN 0 ELSE sum[k - 1] + t[k]
    IN  sum

Total(t) == Partial(t)[Len(t)]
=============================================================================
