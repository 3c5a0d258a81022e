-------------------------- MODULE ApprovalPromise --------------------------
(***************************************************************************)
(* What a multi-signature deployment promises (database/migrations/        *)
(* 011_multisig_deployment.sql): a proposal is granted by the step that    *)
(* brings it the required number of different members, never with a        *)
(* rejection, and is used at most once.                                    *)
(***************************************************************************)
CONSTANTS
    Cases, Members,
    Enough     \* the sets of members who may grant

VARIABLES
    phase,   \* phase[c]: where case c stands
    yes      \* yes[c]: the members who have approved it

promiseVars == <<phase, yes>>

PromiseInit ==
    /\ phase = [c \in Cases |-> "absent"]
    /\ yes = [c \in Cases |-> {}]

Move(c, from, to) == phase[c] = from /\ phase' = [phase EXCEPT ![c] = to]

Propose(c) == Move(c, "absent", "open") /\ UNCHANGED yes

Approve(c, m) ==
    /\ Move(c, "open", IF yes[c] \cup {m} \in Enough
                       THEN "granted" ELSE "open")
    /\ m \notin yes[c]
    /\ yes' = [yes EXCEPT ![c] = @ \cup {m}]

Deny(c)  == Move(c, "open", "denied") /\ UNCHANGED yes
Lapse(c) == Move(c, "open", "lapsed") /\ UNCHANGED yes
Use(c)   == Move(c, "granted", "used") /\ UNCHANGED yes

PromiseNext ==
    \E c \in Cases : \/ Propose(c) \/ Deny(c) \/ Lapse(c) \/ Use(c)
                     \/ \E m \in Members : Approve(c, m)

PromiseSpec == PromiseInit /\ [][PromiseNext]_promiseVars
=============================================================================
