------------------------------- MODULE MCUsdc -------------------------------
(* Values for checking UsdcPayments on small instances. *)
EXTENDS UsdcPayments, TLC

CONSTANTS i1, i2, r1, r2

\* An operator reports the first payment, for its intent or for another one.
FirstTaken == [memo : Intents, tx : {1}, enough : {TRUE}]

\* The first intent is paid, perhaps twice, and an operator takes its first payment
\* for the second intent's.
Mistaken  == {[memo |-> i2, tx |-> 1, enough |-> TRUE]}
RightOnes == {[memo |-> i1, enough |-> TRUE]}

\* Payments of an intent in full or in part, with an unknown memo, and of another
\* asset.
AllKinds == [memo : Intents, enough : BOOLEAN]
            \cup [memo : {Unknown, Foreign}, enough : {TRUE}]

Symmetry == Permutations(Intents)
=============================================================================
