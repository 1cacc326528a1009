------------------------------ MODULE MCSmifEv ------------------------------
(* SmifEv for TLC: two names, two values of which the second does not fit   *)
(* beside another entry of its size.                                        *)
EXTENDS SmifEv, FiniteSets, TLC

CONSTANTS n1, n2, small, large

MCNames == {n1, n2}
MCValues == {small, large}
\* Every well-formed request, and those with one thing wrong with them.  A
\* malformed request is refused whatever its name is, or does what a well-formed
\* one does, so that the names are interchangeable.
MCRequests ==
    {r \in SetDeleteRequest :
        /\ r.flags # {"set"} => r.data = small
        /\ \/ r.payload = "whole" /\ r.terminated /\ Cardinality(r.flags) = 1
           \/ /\ r.name = n1 /\ r.data = small
              /\ \/ r.flags \in {{"set"}, {"delete"}}
                    /\ (r.payload = "whole") # r.terminated
                 \/ r.flags \in {{}, Flags} /\ r.payload = "whole"}

MCSymmetry == Permutations(MCNames)

MCSize == (small :> 1) @@ (large :> 2)
=============================================================================
