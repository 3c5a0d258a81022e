------------------------------ MODULE Multisig ------------------------------
(***************************************************************************)
(* Deployment proposals under a multi-signature policy                     *)
(* (api/src/multisig_handlers.rs), and the updates of a contract that need *)
(* an approved one (require_multisig_approval_for_sensitive_update in      *)
(* api/src/handlers.rs).  Creating, signing and executing are transactions *)
(* that hold the proposal's row, so each is one step.  An update reads the *)
(* proposal without a lock and is written later.                           *)
(*                                                                         *)
(* A policy never changes, so its parts are constants; a proposal copies   *)
(* the threshold.  Notifications, which nothing reads, are left out.       *)
(***************************************************************************)
EXTENDS WallClock, FiniteSets, Sequences, SequencesExt

CONSTANTS
    Proposals,     \* ids of deploy_proposals rows
    Contracts,     \* the contracts rows, each a contract id on a network
    ContractId,    \* ContractId[c]: the contract id of row c
    SignerList,    \* the signer_addresses of their policies
    Outsider,      \* an address they do not list
    Threshold,     \* their threshold
    Ordered,       \* Ordered[p]: ordered_approvals of p's policy
    Lifetime,      \* their expiry_seconds
    Target,        \* Target[p]: the contract id and network that proposal p names
    Updates,       \* requests for a sensitive update
    Absent         \* no row, no request

Signers == Range(SignerList)

DeployStatuses == {"pending", "approved", "executed", "expired", "rejected"}
Deploys == [status : DeployStatuses, expires : 0..(MaxTime + Lifetime)]
Written == [proposal : Proposals, contract : Contracts]

ASSUME MultisigAssumption ==
    /\ SignerList \in Seq(Signers) /\ IsInjective(SignerList)
    /\ Outsider \notin Signers
    /\ Threshold \in 1..Len(SignerList)
    /\ Ordered \in [Proposals -> BOOLEAN] /\ Lifetime \in Nat \ {0}
    /\ Target \in [Proposals -> Contracts]
    /\ DOMAIN ContractId = Contracts
    /\ Absent \notin Deploys \cup Written

VARIABLES
    deploy,     \* deploy[p]: the deploy_proposals row, or Absent
    decision,   \* decision[p][s]: the proposal_signatures row of s
    trail,      \* trail[p]: its multisig_approval_audit_events
    update,     \* update[u]: a sensitive update that passed the gate, or Absent
    updated     \* the updates that were written: proposal and contract

msVars == <<deploy, decision, trail, update, updated>>

Verdicts == {"approved", "rejected"}
AuditActions == {"proposal_created", "signature_approved", "signature_rejected",
                 "proposal_approved", "proposal_executed"}

MsTypeOK ==
    /\ clock \in Times
    /\ deploy \in [Proposals -> Deploys \cup {Absent}]
    /\ decision \in [Proposals -> [Signers -> Verdicts \cup {"none"}]]
    /\ trail \in [Proposals -> Seq(AuditActions)]
    /\ update \in [Updates -> Written \cup {Absent}]
    /\ updated \subseteq Written

MsInit ==
    /\ clock = 0
    /\ deploy = [p \in Proposals |-> Absent]
    /\ decision = [p \in Proposals |-> [s \in Signers |-> "none"]]
    /\ trail = [p \in Proposals |-> <<>>]
    /\ update = [u \in Updates |-> Absent]
    /\ updated = {}

StatusOf(p)  == IF deploy[p] = Absent THEN "absent" ELSE deploy[p].status
Deciders(p, v) == {s \in Signers : decision[p][s] = v}
Approvals(p) == Deciders(p, "approved")

SetDeploy(p, status) == deploy' = [deploy EXCEPT ![p].status = status]
Logs(p, events) == trail' = [trail EXCEPT ![p] = @ \o events]

----------------------------------------------------------------------------
(* Proposals. *)

\* create_deploy_proposal
CreateDeploy(p) ==
    /\ deploy[p] = Absent
    /\ deploy' = [deploy EXCEPT ![p] =
                     [status |-> "pending", expires |-> clock + Lifetime]]
    /\ Logs(p, <<"proposal_created">>)
    /\ UNCHANGED <<clock, decision, update, updated>>

Expired(p) == deploy[p].expires <= clock

\* sign_proposal finds a proposal past its expiry: the status is committed,
\* whoever asks, and the answer is a 409.
SignExpired(p) ==
    /\ StatusOf(p) = "pending" /\ Expired(p)
    /\ SetDeploy(p, "expired")
    /\ UNCHANGED <<clock, decision, trail, update, updated>>

\* The signer's position in the policy is the number of approvals so far.
IsNext(p, s) ==
    \E i \in 1..Len(SignerList) :
        SignerList[i] = s /\ i = Cardinality(Approvals(p)) + 1

\* Mutant: ordered_approvals is not looked at.
MaySignAnyOrder(p, s) ==
    /\ StatusOf(p) = "pending" /\ ~Expired(p)
    /\ s \in Signers
    /\ decision[p][s] = "none"

\* Otherwise 403 or 409, and nothing is written.
MaySign(p, s) ==
    /\ StatusOf(p) = "pending" /\ ~Expired(p)
    /\ s \in Signers
    /\ Ordered[p] => IsNext(p, s)
    /\ decision[p][s] = "none"

\* Mutant: the approvals are counted before the new one is written.
EnoughBefore(p, s) == Cardinality(Approvals(p)) >= Threshold

\* One more approval reaches required_approvals.
EnoughWith(p, s) == Cardinality(Approvals(p) \cup {s}) >= Threshold

\* Mutant: the approval that reaches the threshold is not audited as such.
SignApproveSilently(p, s) ==
    /\ MaySign(p, s)
    /\ decision' = [decision EXCEPT ![p][s] = "approved"]
    /\ Logs(p, <<"signature_approved">>)
    /\ SetDeploy(p, IF EnoughWith(p, s) THEN "approved" ELSE "pending")
    /\ UNCHANGED <<clock, update, updated>>

\* sign_proposal with an approval
SignApprove(p, s) ==
    /\ MaySign(p, s)
    /\ decision' = [decision EXCEPT ![p][s] = "approved"]
    /\ IF EnoughWith(p, s)
       THEN /\ SetDeploy(p, "approved")
            /\ Logs(p, <<"signature_approved", "proposal_approved">>)
       ELSE /\ Logs(p, <<"signature_approved">>)
            /\ UNCHANGED deploy
    /\ UNCHANGED <<clock, update, updated>>

\* sign_proposal with a rejection: one is enough.
SignReject(p, s) ==
    /\ MaySign(p, s)
    /\ decision' = [decision EXCEPT ![p][s] = "rejected"]
    /\ Logs(p, <<"signature_rejected">>)
    /\ SetDeploy(p, "rejected")
    /\ UNCHANGED <<clock, update, updated>>

\* execute_proposal, which does not look at the expiry.
ExecuteDeploy(p) ==
    /\ StatusOf(p) = "approved"
    /\ SetDeploy(p, "executed")
    /\ Logs(p, <<"proposal_executed">>)
    /\ UNCHANGED <<clock, decision, update, updated>>

----------------------------------------------------------------------------
(* Sensitive updates: PATCH metadata, publisher and status. *)

SameId(c, d) == ContractId[c] = ContractId[d]

\* Mutant: the gate takes a pending proposal with enough signatures of any kind.
MayUpdatePending(p, c) ==
    /\ deploy[p] # Absent /\ SameId(Target[p], c)
    /\ ~Expired(p)
    /\ StatusOf(p) \in {"pending", "approved", "executed"}

\* require_multisig_approval_for_sensitive_update, which does not compare networks.
MayUpdate(p, c) ==
    /\ deploy[p] # Absent /\ SameId(Target[p], c)
    /\ ~Expired(p)
    /\ StatusOf(p) \in {"approved", "executed"}
    /\ Cardinality(Approvals(p)) >= Threshold

PassGate(u, p, c) ==
    /\ update[u] = Absent
    /\ MayUpdate(p, c)
    /\ update' = [update EXCEPT ![u] = [proposal |-> p, contract |-> c]]
    /\ UNCHANGED <<clock, deploy, decision, trail, updated>>

\* The UPDATE of the contract; the proposal is neither read again nor used up.
WriteUpdate(u) ==
    /\ update[u] # Absent
    /\ updated' = updated \cup {update[u]}
    /\ update' = [update EXCEPT ![u] = Absent]
    /\ UNCHANGED <<clock, deploy, decision, trail>>

\* An error or a client that has gone.
DropUpdate(u) ==
    /\ update[u] # Absent
    /\ update' = [update EXCEPT ![u] = Absent]
    /\ UNCHANGED <<clock, deploy, decision, trail, updated>>

MsTick == Tick /\ UNCHANGED msVars

MsNext ==
    \/ \E p \in Proposals :
          \/ CreateDeploy(p) \/ SignExpired(p) \/ ExecuteDeploy(p)
          \/ \E s \in Signers \cup {Outsider} : SignApprove(p, s) \/ SignReject(p, s)
          \/ \E u \in Updates, c \in Contracts : PassGate(u, p, c)
    \/ \E u \in Updates : WriteUpdate(u) \/ DropUpdate(u)
    \/ MsTick

MsSpec == MsInit /\ [][MsNext]_<<clock, msVars>>

----------------------------------------------------------------------------
(* Properties. *)

\* An update of a contract was written under a proposal that the required number
\* of different signers approved and none rejected, although the proposal was read
\* without a lock before.  The proposal names the contract's id, but perhaps on
\* another network (handlers.rs:344-396).
UpdateIsBacked ==
    \A w \in updated :
        /\ SameId(Target[w.proposal], w.contract)
        /\ Cardinality(Approvals(w.proposal)) >= Threshold
        /\ Deciders(w.proposal, "rejected") = {}

\* Under an ordered policy the approvals are always those of the first signers
\* of the list (multisig_handlers.rs:466-497).
OrderedFromTheFirst ==
    \A p \in Proposals : Ordered[p] =>
        Approvals(p) = {SignerList[i] : i \in 1..Cardinality(Approvals(p))}

Entries(p, action) == Cardinality({i \in 1..Len(trail[p]) : trail[p][i] = action})

\* The audit trail, which is only appended to, tells what the tables hold: one
\* entry for every signature, one for an approval that still stands and one for
\* an execution (multisig_handlers.rs:533-552, 606-622, 692-708).
TrailTellsState ==
    \A p \in Proposals :
        /\ Entries(p, "proposal_created") = IF deploy[p] = Absent THEN 0 ELSE 1
        /\ Entries(p, "signature_approved") = Cardinality(Approvals(p))
        /\ Entries(p, "signature_rejected") = Cardinality(Deciders(p, "rejected"))
        /\ Entries(p, "proposal_approved") =
              IF StatusOf(p) \in {"approved", "executed"} THEN 1 ELSE 0
        /\ Entries(p, "proposal_executed") =
              IF StatusOf(p) = "executed" THEN 1 ELSE 0

Phases == [absent |-> "absent", pending |-> "open", approved |-> "granted",
           executed |-> "used", expired |-> "lapsed", rejected |-> "denied"]

PhaseOf(p) == Phases[StatusOf(p)]

EnoughSigners == {S \in SUBSET Signers : Cardinality(S) >= Threshold}

Promise == INSTANCE ApprovalPromise
    WITH Cases <- Proposals, Members <- Signers,
         Enough <- EnoughSigners,
         phase <- [p \in Proposals |-> PhaseOf(p)],
         yes   <- [p \in Proposals |-> Approvals(p)]

\* Whatever is signed, rejected, late or executed again, every commit is a step
\* of the promised M-of-N approval (011_multisig_deployment.sql:4-7).
KeepsPromise == Promise!PromiseSpec
=============================================================================
