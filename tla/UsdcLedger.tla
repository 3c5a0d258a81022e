----------------------------- MODULE UsdcLedger -----------------------------
(***************************************************************************)
(* What a USDC purchase promises: an open intent is claimed at most once,  *)
(* by a transaction that claims nothing else; only a claimed intent is     *)
(* licensed; and an intent that was closed as expired stays unpaid.        *)
(***************************************************************************)
CONSTANTS Intents, Txs, NoTx

VARIABLES state, tx

vars == <<state, tx>>

Init ==
    /\ state = [i \in Intents |-> "none"]
    /\ tx = [i \in Intents |-> NoTx]

Open(i) ==
    /\ state[i] = "none"
    /\ state' = [state EXCEPT ![i] = "open"]
    /\ UNCHANGED tx

Close(i) ==
    /\ state[i] = "open"
    /\ state' = [state EXCEPT ![i] = "closed"]
    /\ UNCHANGED tx

Claim(i, k) ==
    /\ state[i] = "open"
    /\ \A j \in Intents : tx[j] # k
    /\ state' = [state EXCEPT ![i] = "claimed"]
    /\ tx' = [tx EXCEPT ![i] = k]

License(i) ==
    /\ state[i] = "claimed"
    /\ state' = [state EXCEPT ![i] = "licensed"]
    /\ UNCHANGED tx

Next == \E i \in Intents : \/ Open(i) \/ Close(i) \/ License(i)
                           \/ \E k \in Txs : Claim(i, k)

Spec == Init /\ [][Next]_vars
=============================================================================
