----------------------------- MODULE MCPublish -----------------------------
(* Values for checking Publish on small instances. *)
EXTENDS Publish

CONSTANTS k1, r1, r2, r3, a1, a2, h1, h2, p1, p2

MCBodyOf == [k \in Keys |-> [address |-> a1, hash |-> h1, owner |-> p1]]
=============================================================================
