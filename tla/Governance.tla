----------------------------- MODULE Governance -----------------------------
(***************************************************************************)
(* A governance proposal (api/src/governance_handlers.rs).  Publishers     *)
(* vote while it is open, with the power of their voting rights and of     *)
(* those who delegate to them, and may vote again.  Nothing runs in the    *)
(* background: every read, vote and execution evaluates the status from    *)
(* the clock and the votes, in a transaction that holds the proposal's     *)
(* row.  The voting rights are not locked, and the clock runs on between   *)
(* the two moments at which a vote or an execution reads it.               *)
(***************************************************************************)
EXTENDS WallClock, FiniteSets, FiniteSetsExt

CONSTANTS
    Voters,
    Delegate,      \* Delegate[v]: whom v delegates to, or Nobody
    Nobody,
    NoRight,       \* no governance_voting_rights row
    MaxPower,      \* bound of the voting power a row gives
    StartsAt, EndsAt,
    Delays,        \* values of execution_delay_hours; 0 by default
    Quorum,        \* quorum_required
    Approval       \* approval_threshold, in per cent

ASSUME GovernanceAssumption ==
    /\ StartsAt \in Nat /\ EndsAt \in Nat /\ StartsAt < EndsAt
    /\ Delays \subseteq Nat /\ Quorum \in Nat /\ Approval \in Nat
    /\ MaxPower \in Nat /\ NoRight \notin Nat
    /\ IsFiniteSet(Voters)
    /\ Nobody \notin Voters /\ Delegate \in [Voters -> Voters \cup {Nobody}]

VARIABLES
    proposal,  \* governance_proposals.status
    delay,     \* its execution_delay_hours
    votes,     \* votes[v]: the governance_votes row of v, or NoVote; at is the
               \* time at which its transaction looked at the window
    rights,    \* rights[v]: its governance_voting_rights row's power, or NoRight
    ballot     \* the transaction that holds the proposal's row, or NoTx

govVars == <<proposal, delay, votes, rights, ballot>>

VoteChoices == {"for", "against", "abstain"}
ProposalStatuses == {"pending", "active", "passed", "rejected", "executed"}
NoVote   == [choice |-> "none", power |-> 0, at |-> 0]
NoTx     == [kind |-> "none"]

GovTypeOK ==
    /\ clock \in Times
    /\ proposal \in ProposalStatuses          \* nothing writes "cancelled"
    /\ delay \in Delays
    /\ votes \in [Voters -> [choice : VoteChoices, power : Nat, at : Times] \cup {NoVote}]
    /\ rights \in [Voters -> 0..MaxPower \cup {NoRight}]
    /\ ballot \in {NoTx, [kind |-> "execute"]} \cup
          [kind : {"vote"}, voter : Voters, choice : VoteChoices, power : Nat, at : Times]

\* create_proposal, whose window may begin in the past or in the future.
GovInit ==
    /\ clock = 0
    /\ proposal = "pending" /\ delay \in Delays
    /\ votes = [v \in Voters |-> NoVote]
    /\ rights = [v \in Voters |-> NoRight]
    /\ ballot = NoTx

----------------------------------------------------------------------------
(* Power and tally. *)

\* A voter without a row weighs 1.
BasePower(v) == IF rights[v] = NoRight THEN 1 ELSE rights[v]

\* A delegator without a row adds nothing; one that votes itself still adds.
DelegatedPower(v) ==
    MapThenSumSet(LAMBDA d : rights[d],
                  {d \in Voters : Delegate[d] = v /\ rights[d] # NoRight})

Tally(vs, c) == MapThenSumSet(LAMBDA v : vs[v].power,
                              {v \in Voters : vs[v].choice = c})

\* Quorum and approval of a set of votes.
Carried(vs) ==
    LET inFavour == Tally(vs, "for")
        decisive == inFavour + Tally(vs, "against")
    IN  /\ decisive + Tally(vs, "abstain") >= Quorum
        /\ decisive # 0
        /\ inFavour * 100 >= decisive * Approval

\* Mutant: the delay runs from the beginning of the vote.
EvaluateEarly(status, vs, now) ==
    IF status = "executed" THEN status
    ELSE IF now < StartsAt THEN "pending"
    ELSE IF ~Carried(vs) THEN IF now < EndsAt THEN "active" ELSE "rejected"
    ELSE IF now >= StartsAt + delay THEN "executed"
    ELSE IF now < EndsAt THEN "active" ELSE "passed"

\* evaluate_proposal_status
Evaluate(status, vs, now) ==
    IF status = "executed" THEN status
    ELSE IF now < StartsAt THEN "pending"
    ELSE IF now < EndsAt THEN "active"
    ELSE IF ~Carried(vs) THEN "rejected"
    ELSE IF now >= EndsAt + delay THEN "executed" ELSE "passed"

----------------------------------------------------------------------------
(* Handlers. *)

\* get_proposal and get_vote_tally: reading writes the status.
ReadProposal ==
    /\ ballot = NoTx
    /\ proposal' = Evaluate(proposal, votes, clock)
    /\ UNCHANGED <<clock, delay, votes, rights, ballot>>

\* Mutant: the transaction forgets the voter's own power.
CastVoteUnweighed(v, c) ==
    /\ ballot = NoTx
    /\ StartsAt <= clock /\ clock <= EndsAt
    /\ ballot' = [kind |-> "vote", voter |-> v, choice |-> c, power |-> rights[v],
                  at |-> clock]
    /\ UNCHANGED <<clock, delay, proposal, votes, rights>>

\* cast_vote up to the voter's own power; the window includes its last moment.
CastVote(v, c) ==
    /\ ballot = NoTx
    /\ StartsAt <= clock /\ clock <= EndsAt
    /\ ballot' = [kind |-> "vote", voter |-> v, choice |-> c,
                  power |-> BasePower(v), at |-> clock]
    /\ UNCHANGED <<clock, delay, proposal, votes, rights>>

\* Mutant: the vote is recorded without an evaluation.
RecordVoteOnly ==
    /\ ballot.kind = "vote"
    /\ votes' = [votes EXCEPT ![ballot.voter] =
                    [choice |-> ballot.choice,
                     power |-> ballot.power + DelegatedPower(ballot.voter), at |-> ballot.at]]
    /\ ballot' = NoTx
    /\ UNCHANGED <<clock, delay, proposal, rights>>

\* The rest of cast_vote: delegated power, upsert, evaluation, commit.
RecordVote ==
    /\ ballot.kind = "vote"
    /\ votes' = [votes EXCEPT ![ballot.voter] =
                    [choice |-> ballot.choice,
                     power |-> ballot.power + DelegatedPower(ballot.voter), at |-> ballot.at]]
    /\ proposal' = Evaluate(proposal, votes', clock)
    /\ ballot' = NoTx
    /\ UNCHANGED <<clock, delay, rights>>

\* execute_proposal up to its second look at the clock.  Any other evaluation
\* is a 409, which rolls back what the evaluation wrote.
StartExecute ==
    /\ ballot = NoTx
    /\ Evaluate(proposal, votes, clock) = "passed"
    /\ ballot' = [kind |-> "execute"]
    /\ UNCHANGED <<clock, delay, proposal, votes, rights>>

\* The rest of execute_proposal: a delay that has passed in the meantime, or
\* a 409 and a rollback.
FinishExecute ==
    /\ ballot.kind = "execute"
    /\ proposal' = IF clock >= EndsAt + delay THEN "executed" ELSE proposal
    /\ ballot' = NoTx
    /\ UNCHANGED <<clock, delay, votes, rights>>

\* A transaction that fails or whose client disconnects rolls back.
AbortBallot ==
    /\ ballot # NoTx
    /\ ballot' = NoTx
    /\ UNCHANGED <<clock, delay, proposal, votes, rights>>

\* upsert_voting_rights
SetRight(v, p) ==
    /\ rights' = [rights EXCEPT ![v] = p]
    /\ UNCHANGED <<clock, delay, proposal, votes, ballot>>

GovTick == Tick /\ UNCHANGED govVars

GovNext ==
    \/ ReadProposal \/ RecordVote \/ StartExecute \/ FinishExecute \/ AbortBallot
    \/ \E v \in Voters : \/ \E c \in VoteChoices : CastVote(v, c)
                         \/ \E p \in 0..MaxPower : SetRight(v, p)
    \/ GovTick

GovSpec == GovInit /\ [][GovNext]_<<clock, govVars>>

----------------------------------------------------------------------------
(* Properties. *)

LastMoment(vs) == \E v \in Voters : vs[v].choice # "none" /\ vs[v].at = EndsAt

\* Whenever a decided status is stored, the votes that are stored with it lead
\* to it, also when a vote arrives in the last moment of the window, which the
\* evaluation already counts as closed (governance_handlers.rs:263-279, 489).
\* The exception is the default delay of 0: that moment also executes, and a vote
\* cast in it may turn the votes that an execution stands on.
StatusTellsTally ==
    /\ proposal = "passed" => Carried(votes)
    /\ proposal = "rejected" => ~Carried(votes)
    /\ proposal = "executed" => Carried(votes) \/ (delay = 0 /\ LastMoment(votes))

\* An execution is final.  So are the votes it rests on, whatever was admitted
\* before the end, but for a vote cast in the very last moment on a proposal
\* without a delay (governance_handlers.rs:489, 494, 552).
ExecutedIsFinal ==
    [][proposal = "executed" =>
          /\ proposal' = "executed"
          /\ votes' # votes => delay = 0 /\ ballot.at = EndsAt]_<<clock, govVars>>
=============================================================================
