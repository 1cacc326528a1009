----------------------------- MODULE MCEvStorage -----------------------------
(* EvStorage for TLC: three names, one of them unacceptable; three values,  *)
(* the largest of them too large, and a file limit that lets two entries    *)
(* fit unless both are of the second size.                                  *)
EXTENDS EvStorage, TLC

CONSTANTS n1, n2, bad, small, large, huge

MCNames == {n1, n2, bad}
MCBadNames == {bad}
MCValues == {small, large, huge}
MCSize == (small :> 1) @@ (large :> 2) @@ (huge :> 3)
=============================================================================
