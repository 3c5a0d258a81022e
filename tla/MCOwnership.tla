---------------------------- MODULE MCOwnership ----------------------------
(* Values for checking OwnershipTransfer on small instances. *)
EXTENDS OwnershipTransfer, TLC

CONSTANTS c1, c2, p1, p2, p3, t1, t2, r1, r2, n1, n2

\* All contracts start with the same owner.
MCFirstOwner == [c \in Contracts |-> p1]

Symmetry == Permutations(Requests) \cup Permutations(Transfers)
            \cup Permutations(Nonces)
=============================================================================
