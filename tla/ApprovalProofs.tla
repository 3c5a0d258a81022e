--------------------------- MODULE ApprovalProofs ---------------------------
(***************************************************************************)
(* Collective decisions.  Governance, for any voters, delegations, window, *)
(* delay, quorum and threshold: the stored status agrees with the stored   *)
(* votes, and an execution is final; what a set of votes amounts to        *)
(* (Carried) is never looked into.  Multisig, for any policy and any       *)
(* number of proposals and updates: an approved proposal has its           *)
(* signatures and keeps them, an ordered one has them in order, its audit  *)
(* trail tells its tables, an update is backed by it, and every commit is  *)
(* a step of the promised approval.                                        *)
(***************************************************************************)
EXTENDS Governance, Multisig, SequenceTheorems, FiniteSetTheorems,
        WellFoundedInduction, TLAPS

----------------------------------------------------------------------------
(* Sums. *)

\* The sum of a function over a set, as MapThenSumSet computes it.
Total(f, S) ==
    LET iter[s \in SUBSET S] ==
          IF s = {} THEN 0
          ELSE LET x == CHOOSE x \in s : TRUE IN f[x] + iter[s \ {x}]
    IN  iter[S]

\* As many pairs for each element as the function says.
Cells(f, S) == UNION {{<<x, i>> : i \in 1..f[x]} : x \in S}

LEMMA CellsOfOne ==
    ASSUME NEW x, NEW f, f[x] \in Nat
    PROVE  /\ IsFiniteSet({<<x, i>> : i \in 1..f[x]})
           /\ Cardinality({<<x, i>> : i \in 1..f[x]}) = f[x]
  <1> DEFINE n == f[x]
             B == {<<x, i>> : i \in 1..n}
             b == [i \in 1..n |-> <<x, i>>]
  <1>1. b \in Bijection(1..n, B)
    <2>1. b \in [1..n -> B] /\ \A i, j \in 1..n : b[i] = b[j] => i = j
      OBVIOUS
    <2>2. \A y \in B : \E i \in 1..n : b[i] = y
      OBVIOUS
    <2> HIDE DEF b, B, n
    <2> QED
      BY <2>1, <2>2 DEF Bijection, Injection, Surjection, IsInjective
  <1>2. ExistsBijection(1..n, B)
    BY <1>1 DEF ExistsBijection
  <1>3. n \in Nat /\ IsFiniteSet(1..n) /\ Cardinality(1..n) = n
    <2>1. n \in Nat /\ n \in Int /\ 1 \in Int
      OBVIOUS
    <2>2. IsFiniteSet(1..n) /\ Cardinality(1..n) = IF 1 > n THEN 0 ELSE n - 1 + 1
      <3> HIDE DEF n
      <3> QED
        BY <2>1, FS_Interval
    <2> HIDE DEF n
    <2> QED
      BY <2>1, <2>2
  <1> HIDE DEF n, b, B
  <1>4. IsFiniteSet(B) /\ Cardinality(B) = n
    BY <1>2, <1>3, FS_Bijection
  <1> QED
    BY <1>4 DEF n, B

LEMMA CellsGrow ==
    ASSUME NEW S, IsFiniteSet(S), NEW f, \A x \in S : f[x] \in Nat
    PROVE  /\ IsFiniteSet(Cells(f, S)) /\ Cardinality(Cells(f, S)) \in Nat
           /\ \A x \in S : Cardinality(Cells(f, S)) = f[x] + Cardinality(Cells(f, S \ {x}))
  <1>1. ASSUME NEW R \in SUBSET S PROVE IsFiniteSet(Cells(f, R))
    <2> DEFINE Parts == {{<<x, i>> : i \in 1..f[x]} : x \in R}
    <2>1. IsFiniteSet(R)
      BY FS_Subset
    <2>2. IsFiniteSet(Parts)
      <3> DEFINE part == [x \in R |-> {<<x, i>> : i \in 1..f[x]}]
      <3>1. part \in Surjection(R, Parts)
        BY DEF Surjection
      <3> HIDE DEF part, Parts
      <3> QED
        BY <2>1, <3>1, FS_Surjection
    <2>3. \A P \in Parts : IsFiniteSet(P)
      BY CellsOfOne
    <2> HIDE DEF Parts
    <2>4. IsFiniteSet(UNION Parts)
      BY <2>2, <2>3, FS_UNION
    <2> QED
      BY <2>4 DEF Parts, Cells
  <1>2. ASSUME NEW x \in S
        PROVE  Cardinality(Cells(f, S)) = f[x] + Cardinality(Cells(f, S \ {x}))
    <2> DEFINE X == {<<x, i>> : i \in 1..f[x]}
               R == Cells(f, S \ {x})
    <2>1. Cells(f, S) = X \cup R
      BY DEF Cells
    <2>2. X \cap R = {}
      BY DEF Cells
    <2>3. IsFiniteSet(X) /\ Cardinality(X) = f[x]
      BY CellsOfOne
    <2>4. IsFiniteSet(R)
      BY <1>1
    <2>5. f[x] \in Nat /\ Cardinality(R) \in Nat
      BY <2>4, FS_CardinalityType
    <2> HIDE DEF X, R
    <2>6. Cardinality(X \cup R) = Cardinality(X) + Cardinality(R) - Cardinality(X \cap R)
      BY <2>3, <2>4, FS_Union
    <2>7. Cardinality(X \cap R) = 0
      BY <2>2, FS_EmptySet
    <2>8. Cardinality(Cells(f, S)) = f[x] + Cardinality(R)
      BY <2>1, <2>3, <2>5, <2>6, <2>7
    <2> QED
      BY <2>8 DEF R
  <1>3. IsFiniteSet(Cells(f, S))
    BY <1>1
  <1> QED
    BY <1>2, <1>3, FS_CardinalityType

\* The recursion has one solution, the number of those pairs: a smallest set on
\* which another differed would differ on a smaller one.
LEMMA TotalCounts ==
    ASSUME NEW S, IsFiniteSet(S), NEW f, \A x \in S : f[x] \in Nat
    PROVE  Total(f, S) = Cardinality(Cells(f, S)) /\ Total(f, S) \in Nat
  <1> DEFINE pick(s) == CHOOSE x \in s : TRUE
             step(g) == [s \in SUBSET S |-> IF s = {} THEN 0 ELSE f[pick(s)] + g[s \ {pick(s)}]]
             size(s) == Cardinality(Cells(f, s))
             count == [s \in SUBSET S |-> size(s)]
             sum == CHOOSE g : g = step(g)
  <1>1. Total(f, S) = sum[S]
    BY DEF Total
  <1>2. \A s \in SUBSET S : s # {} => pick(s) \in s
    OBVIOUS
  <1>3. \A s \in SUBSET S : /\ size(s) \in Nat
                            /\ s = {} => size(s) = 0
                            /\ \A x \in s : size(s) = f[x] + size(s \ {x})
    <2> TAKE s \in SUBSET S
    <2>1. IsFiniteSet(s) /\ \A x \in s : f[x] \in Nat
      BY FS_Subset
    <2>2. size(s) \in Nat /\ \A x \in s : size(s) = f[x] + size(s \ {x})
      BY <2>1, CellsGrow
    <2>3. s = {} => Cells(f, s) = {}
      BY DEF Cells
    <2>4. s = {} => size(s) = 0
      BY <2>3, FS_EmptySet
    <2> QED
      BY <2>2, <2>4
  <1> HIDE DEF pick, size
  <1>4. count = step(count)
    <2>1. \A s \in SUBSET S : count[s] = step(count)[s]
      <3> TAKE s \in SUBSET S
      <3>1. CASE s = {}
        BY <1>3, <3>1
      <3>2. CASE s # {}
        <4>1. pick(s) \in s /\ s \ {pick(s)} \in SUBSET S
          BY <1>2, <3>2
        <4>2. size(s) = f[pick(s)] + size(s \ {pick(s)})
          BY <1>3, <4>1
        <4> QED
          BY <3>2, <4>1, <4>2
      <3> QED
        BY <3>1, <3>2
    <2> QED
      BY <2>1
  <1>5. sum = step(sum)
    BY <1>4
  <1>6. \A s \in SUBSET S : sum[s] = IF s = {} THEN 0 ELSE f[pick(s)] + sum[s \ {pick(s)}]
    <2> HIDE DEF sum
    <2> QED
      BY <1>5
  <1> HIDE DEF sum
  <1>7. \A s \in SUBSET S : sum[s] = size(s)
    <2> DEFINE Bad == {s \in SUBSET S : sum[s] # size(s)}
    <2> SUFFICES ASSUME Bad # {} PROVE FALSE
      OBVIOUS
    <2>1. IsWellFoundedOn(StrictSubsetOrdering(S), SUBSET S)
      BY FS_StrictSubsetOrderingWellFounded, FS_FiniteSubsetsOfFinite
    <2>2. Bad \subseteq SUBSET S
      OBVIOUS
    <2>3. PICK s \in Bad : \A t \in Bad : <<t, s>> \notin StrictSubsetOrdering(S)
      <3> HIDE DEF Bad
      <3> QED
        BY <2>1, <2>2, WFMin
    <2>4. s \in SUBSET S /\ sum[s] # size(s)
      BY <2>3
    <2>5. s # {}
      BY <1>3, <1>6, <2>4
    <2>6. PICK t : t = s \ {pick(s)}
      OBVIOUS
    <2>7. pick(s) \in s /\ t \in SUBSET S /\ t \subseteq s /\ t # s
      BY <1>2, <2>4, <2>5, <2>6
    <2>8. <<t, s>> \in StrictSubsetOrdering(S)
      BY <2>4, <2>7 DEF StrictSubsetOrdering
    <2>9. sum[t] = size(t)
      BY <2>3, <2>7, <2>8
    <2>10. sum[s] = f[pick(s)] + sum[t] /\ size(s) = f[pick(s)] + size(t)
      BY <1>3, <1>6, <2>4, <2>5, <2>6, <2>7
    <2> QED
      BY <2>4, <2>9, <2>10
  <1>8. S \in SUBSET S
    OBVIOUS
  <1> QED
    BY <1>1, <1>3, <1>7, <1>8 DEF size

----------------------------------------------------------------------------
(* Governance. *)

LEMMA DelegatedIsNat == ASSUME GovTypeOK, NEW v PROVE DelegatedPower(v) \in Nat
  <1> DEFINE S == {d \in Voters : Delegate[d] = v /\ rights[d] # NoRight}
  <1>1. IsFiniteSet(S)
    <2>1. S \in SUBSET Voters
      OBVIOUS
    <2> QED
      BY <2>1, GovernanceAssumption, FS_Subset
  <1>2. \A d \in S : rights[d] \in Nat
    <2> TAKE d \in S
    <2>1. rights[d] \in 0..MaxPower /\ MaxPower \in Nat
      BY GovernanceAssumption DEF GovTypeOK
    <2> QED
      BY <2>1
  <1>3. DelegatedPower(v) = Total(rights, S)
    BY DEF DelegatedPower, MapThenSumSet, MapThenFoldSet, Total
  <1> HIDE DEF S
  <1> QED
    BY <1>1, <1>2, <1>3, TotalCounts

LEMMA EvaluateType ==
    ASSUME NEW status \in ProposalStatuses, NEW vs, NEW now
    PROVE  Evaluate(status, vs, now) \in ProposalStatuses
  BY DEF Evaluate, ProposalStatuses

LEMMA GovInitType == GovInit => GovTypeOK
  BY GovernanceAssumption, WallClockAssumption DEF GovInit, GovTypeOK, Times, ProposalStatuses

LEMMA GovNextType == ASSUME GovTypeOK, [GovNext]_<<clock, govVars>> PROVE GovTypeOK'
  <1> USE DEF GovTypeOK
  <1>1. CASE ReadProposal
    BY <1>1, EvaluateType DEF ReadProposal
  <1>2. ASSUME NEW v \in Voters, NEW c \in VoteChoices, CastVote(v, c) PROVE GovTypeOK'
    <2>1. BasePower(v) \in Nat
      <3>1. rights[v] \in 0..MaxPower \cup {NoRight} /\ MaxPower \in Nat
        BY GovernanceAssumption
      <3> QED
        BY <3>1 DEF BasePower
    <2> QED
      BY <1>2, <2>1 DEF CastVote
  <1>3. CASE RecordVote
    <2>1. /\ ballot.voter \in Voters /\ ballot.choice \in VoteChoices /\ ballot.power \in Nat
          /\ ballot.at \in Times
      BY <1>3 DEF RecordVote, NoTx
    <2>2. PICK power \in Nat : power = ballot.power + DelegatedPower(ballot.voter)
      BY <2>1, DelegatedIsNat
    <2>3. votes' = [votes EXCEPT ![ballot.voter] =
                     [choice |-> ballot.choice, power |-> power, at |-> ballot.at]]
      BY <1>3, <2>2 DEF RecordVote
    <2>4. proposal' \in ProposalStatuses
      BY <1>3, EvaluateType DEF RecordVote
    <2> QED
      BY <1>3, <2>1, <2>3, <2>4 DEF RecordVote
  <1>4. CASE StartExecute
    BY <1>4 DEF StartExecute
  <1>5. CASE FinishExecute
    BY <1>5 DEF FinishExecute, ProposalStatuses
  <1>6. CASE AbortBallot
    BY <1>6 DEF AbortBallot
  <1>7. ASSUME NEW v \in Voters, NEW p \in 0..MaxPower, SetRight(v, p) PROVE GovTypeOK'
    BY <1>7 DEF SetRight
  <1>8. CASE GovTick
    BY <1>8, WallClockAssumption DEF GovTick, Tick, Times, govVars
  <1>9. CASE UNCHANGED <<clock, govVars>>
    BY <1>9 DEF govVars
  <1> QED
    BY <1>1, <1>2, <1>3, <1>4, <1>5, <1>6, <1>7, <1>8, <1>9 DEF GovNext

\* What is stored is always well formed; in particular every vote weighs a
\* natural number, however the delegated powers are added up
\* (governance_handlers.rs:501-523).
THEOREM GovernanceType == GovSpec => []GovTypeOK
  BY GovInitType, GovNextType, PTL DEF GovSpec


\* What the clock still allows.  A vote that was admitted holds the row, so no
\* one can execute the proposal meanwhile, however long the vote takes.  Only
\* without a delay can it have been executed before, in the window's last moment.
GovIInv ==
    /\ delay \in Nat /\ clock \in Nat
    /\ proposal = "passed" => Carried(votes) /\ clock >= EndsAt
    /\ proposal = "rejected" => ~Carried(votes) /\ clock >= EndsAt
    /\ proposal = "executed" =>
          /\ clock >= EndsAt + delay
          /\ Carried(votes) \/ (delay = 0 /\ LastMoment(votes))
    /\ ballot.kind = "vote" /\ proposal = "executed" => delay = 0 /\ ballot.at = EndsAt
    /\ ballot.kind = "execute" => Carried(votes) /\ clock >= EndsAt

\* An evaluation of a proposal that is not executed is right about the votes it
\* was given.
LEMMA EvaluateTells ==
    ASSUME NEW status, NEW vs, NEW now \in Nat, status # "executed", delay \in Nat
    PROVE  /\ Evaluate(status, vs, now) = "passed" => Carried(vs) /\ now >= EndsAt
           /\ Evaluate(status, vs, now) = "rejected" => ~Carried(vs) /\ now >= EndsAt
           /\ Evaluate(status, vs, now) = "executed" => Carried(vs) /\ now >= EndsAt + delay
  BY GovernanceAssumption DEF Evaluate

LEMMA GovInitIInv == GovInit => GovIInv
  <1> SUFFICES ASSUME GovInit PROVE GovIInv
    OBVIOUS
  <1>1. delay \in Nat /\ clock \in Nat /\ proposal = "pending" /\ ballot.kind = "none"
    BY GovernanceAssumption DEF GovInit, NoTx
  <1>2. QED
    BY <1>1 DEF GovIInv

\* Each transaction keeps the invariant.
LEMMA GovNextIInv ==
    ASSUME GovTypeOK, GovIInv, [GovNext]_<<clock, govVars>>
    PROVE  GovIInv'
  <1> USE GovernanceAssumption
  <1>1. CASE ReadProposal
    <2>1. /\ proposal' = Evaluate(proposal, votes, clock)
          /\ UNCHANGED <<votes, delay, clock, ballot>> /\ ballot.kind = "none"
      BY <1>1 DEF ReadProposal, NoTx
    <2>2. CASE proposal = "executed"
      BY <2>1, <2>2 DEF GovIInv, Evaluate
    <2>3. CASE proposal # "executed"
      BY <2>1, <2>3, EvaluateTells DEF GovIInv
    <2>4. QED
      BY <2>2, <2>3
  <1>2. ASSUME NEW v \in Voters, NEW c \in VoteChoices, CastVote(v, c)
        PROVE  GovIInv'
    <2>1. ballot'.kind = "vote" /\ ballot'.at = clock /\ clock <= EndsAt
          /\ UNCHANGED <<clock, delay, proposal, votes>>
      BY <1>2 DEF CastVote
    <2>2. QED
      BY <2>1 DEF GovIInv
  <1>3. CASE RecordVote
    <2>1. /\ proposal' = Evaluate(proposal, votes', clock)
          /\ UNCHANGED <<clock, delay>> /\ ballot' = NoTx /\ ballot.kind = "vote"
      BY <1>3 DEF RecordVote
    <2>2. CASE proposal = "executed"
      <3>1. proposal' = "executed" /\ delay = 0 /\ ballot.at = EndsAt
        BY <2>1, <2>2 DEF GovIInv, Evaluate
      <3>2. ballot.voter \in Voters /\ ballot.choice \in VoteChoices
        BY <2>1 DEF GovTypeOK, NoTx
      <3>3. votes'[ballot.voter].choice = ballot.choice /\ votes'[ballot.voter].at = EndsAt
        BY <1>3, <3>1, <3>2 DEF RecordVote, GovTypeOK
      <3>4. LastMoment(votes)'
        BY <3>2, <3>3 DEF LastMoment, VoteChoices
      <3>5. QED
        BY <2>1, <2>2, <3>1, <3>4 DEF GovIInv, NoTx
    <2>3. CASE proposal # "executed"
      BY <2>1, <2>3, EvaluateTells DEF GovIInv, NoTx
    <2>4. QED
      BY <2>2, <2>3
  <1>4. CASE StartExecute
    <2>1. Carried(votes) /\ clock >= EndsAt
      BY <1>4, EvaluateTells DEF StartExecute, Evaluate, GovIInv
    <2>2. QED
      BY <1>4, <2>1 DEF StartExecute, GovIInv
  <1>5. CASE FinishExecute
    BY <1>5 DEF FinishExecute, GovIInv, NoTx
  <1>6. CASE AbortBallot
    BY <1>6 DEF AbortBallot, GovIInv, NoTx
  <1>7. ASSUME NEW v \in Voters, NEW p \in 0..MaxPower, SetRight(v, p)
        PROVE  GovIInv'
    BY <1>7 DEF SetRight, GovIInv
  <1>8. CASE GovTick
    BY <1>8 DEF GovTick, Tick, govVars, GovIInv
  <1>9. CASE UNCHANGED <<clock, govVars>>
    BY <1>9 DEF govVars, GovIInv
  <1>10. QED
    BY <1>1, <1>2, <1>3, <1>4, <1>5, <1>6, <1>7, <1>8, <1>9 DEF GovNext

\* Whatever the delay, the stored status is the outcome of the stored votes, but
\* for an execution without a delay that a vote of the last moment came after
\* (evaluate_proposal_status, cast_vote).
THEOREM GovernanceTally == GovSpec => []StatusTellsTally
  <1>1. GovIInv => StatusTellsTally
    BY DEF GovIInv, StatusTellsTally
  <1>2. QED
    BY <1>1, GovInitType, GovNextType, GovInitIInv, GovNextIInv, PTL DEF GovSpec

\* Whatever the delay, no transaction changes an executed proposal, nor its votes,
\* but for a vote of the window's last moment when there is no delay (cast_vote,
\* execute_proposal).
THEOREM GovernanceFinal == GovSpec => ExecutedIsFinal
  <1> DEFINE Final == proposal = "executed" =>
                         /\ proposal' = "executed"
                         /\ votes' # votes => delay = 0 /\ ballot.at = EndsAt
  <1>1. ASSUME GovIInv, [GovNext]_<<clock, govVars>>
        PROVE  [Final]_<<clock, govVars>>
    <2>1. SUFFICES ASSUME proposal = "executed"
                   PROVE  /\ proposal' = "executed"
                          /\ votes' # votes => delay = 0 /\ ballot.at = EndsAt
      OBVIOUS
    <2>2. ballot.kind = "vote" => delay = 0 /\ ballot.at = EndsAt
      BY <1>1, <2>1 DEF GovIInv
    <2>3. QED
      BY <1>1, <2>1, <2>2
      DEF GovNext, ReadProposal, RecordVote, StartExecute, FinishExecute,
          AbortBallot, CastVote, SetRight, GovTick, govVars, Evaluate
  <1>2. QED
    BY <1>1, GovInitType, GovNextType, GovInitIInv, GovNextIInv, PTL
    DEF GovSpec, ExecutedIsFinal

----------------------------------------------------------------------------
(* Multi-signature proposals. *)


Backed(p) ==
    Cardinality(Approvals(p)) >= Threshold /\ Deciders(p, "rejected") = {}

\* An approval is never taken back, so what the gate has read stays true.
Granted(p) == StatusOf(p) \in {"approved", "executed"}

GrantedIsBacked == \A p \in Proposals : Granted(p) => Backed(p)
OpenIsClean     == \A p \in Proposals : StatusOf(p) \in {"absent", "pending"}
                                           => Deciders(p, "rejected") = {}
UpdatesGranted  == \A u \in Updates : update[u] # Absent =>
                      Granted(update[u].proposal)
                      /\ SameId(Target[update[u].proposal], update[u].contract)
WrittenGranted  == \A w \in updated :
                      Granted(w.proposal) /\ SameId(Target[w.proposal], w.contract)

MsIInv == MsTypeOK /\ GrantedIsBacked /\ OpenIsClean
          /\ UpdatesGranted /\ WrittenGranted

LEMMA MsInitIInv == MsInit => MsIInv
  <1> SUFFICES ASSUME MsInit PROVE MsIInv
    OBVIOUS
  <1>1. MsTypeOK
    BY WallClockAssumption, MultisigAssumption
    DEF MsInit, MsTypeOK, Times, Verdicts, AuditActions
  <1>2. \A p \in Proposals : StatusOf(p) = "absent" /\ Deciders(p, "rejected") = {}
    BY DEF MsInit, StatusOf, Deciders
  <1>3. GrantedIsBacked /\ OpenIsClean
    BY <1>2 DEF GrantedIsBacked, OpenIsClean, Granted
  <1>4. UpdatesGranted /\ WrittenGranted
    BY DEF MsInit, UpdatesGranted, WrittenGranted
  <1>5. QED
    BY <1>1, <1>3, <1>4 DEF MsIInv

LEMMA MsNextType == ASSUME MsTypeOK, [MsNext]_<<clock, msVars>> PROVE MsTypeOK'
  <1> USE WallClockAssumption, MultisigAssumption
  <1>1. ASSUME NEW p \in Proposals, CreateDeploy(p) PROVE MsTypeOK'
    <2>1. [status |-> "pending", expires |-> clock + Lifetime] \in Deploys
      BY DEF MsTypeOK, Times, Deploys, DeployStatuses
    <2>2. deploy' \in [Proposals -> Deploys \cup {Absent}]
      BY <1>1, <2>1 DEF CreateDeploy, MsTypeOK
    <2>3. <<"proposal_created">> \in Seq(AuditActions)
      BY DEF AuditActions
    <2>4. trail' \in [Proposals -> Seq(AuditActions)]
      BY <1>1, <2>3 DEF CreateDeploy, Logs, MsTypeOK
    <2>5. QED
      BY <1>1, <2>2, <2>4 DEF CreateDeploy, MsTypeOK
  <1>2. ASSUME NEW p \in Proposals, NEW st \in DeployStatuses, deploy[p] # Absent,
               SetDeploy(p, st), MsTypeOK
        PROVE  deploy' \in [Proposals -> Deploys \cup {Absent}]
    <2>1. deploy[p] \in Deploys
      BY <1>2 DEF MsTypeOK
    <2>2. [deploy[p] EXCEPT !.status = st] \in Deploys
      BY <2>1 DEF Deploys
    <2>3. QED
      BY <1>2, <2>2 DEF SetDeploy, MsTypeOK
  <1>3. ASSUME NEW p \in Proposals, SignExpired(p) PROVE MsTypeOK'
    <2>1. deploy' \in [Proposals -> Deploys \cup {Absent}]
      BY <1>2, <1>3 DEF SignExpired, StatusOf, DeployStatuses
    <2>2. QED
      BY <1>3, <2>1 DEF SignExpired, MsTypeOK
  <1>4. ASSUME NEW p \in Proposals, ExecuteDeploy(p) PROVE MsTypeOK'
    <2>1. deploy' \in [Proposals -> Deploys \cup {Absent}]
      BY <1>2, <1>4 DEF ExecuteDeploy, StatusOf, DeployStatuses
    <2>2. trail' \in [Proposals -> Seq(AuditActions)]
      BY <1>4 DEF ExecuteDeploy, Logs, MsTypeOK, AuditActions
    <2>3. QED
      BY <1>4, <2>1, <2>2 DEF ExecuteDeploy, MsTypeOK
  <1>5. ASSUME NEW p \in Proposals, NEW s \in Signers \cup {Outsider},
               SignApprove(p, s) \/ SignReject(p, s)
        PROVE  MsTypeOK'
    <2>1. deploy[p] # Absent
      BY <1>5 DEF SignApprove, SignReject, MaySign, StatusOf
    <2>2. deploy' \in [Proposals -> Deploys \cup {Absent}]
      BY <1>2, <1>5, <2>1 DEF SignApprove, SignReject, DeployStatuses, MsTypeOK
    <2>3. trail' \in [Proposals -> Seq(AuditActions)]
      <3>1. ASSUME NEW e \in Seq(AuditActions), Logs(p, e)
            PROVE  trail' \in [Proposals -> Seq(AuditActions)]
        BY <3>1 DEF Logs, MsTypeOK
      <3>2. /\ <<"signature_approved">> \in Seq(AuditActions)
            /\ <<"signature_rejected">> \in Seq(AuditActions)
            /\ <<"signature_approved", "proposal_approved">> \in Seq(AuditActions)
        BY DEF AuditActions
      <3>3. QED
        BY <1>5, <3>1, <3>2 DEF SignApprove, SignReject
    <2>4. decision' \in [Proposals -> [Signers -> Verdicts \cup {"none"}]]
      <3>1. s \in Signers
        BY <1>5 DEF SignApprove, SignReject, MaySign
      <3>2. \A v \in Verdicts : [decision[p] EXCEPT ![s] = v]
                                  \in [Signers -> Verdicts \cup {"none"}]
        BY <3>1 DEF MsTypeOK
      <3>3. QED
        BY <1>5, <3>1, <3>2 DEF SignApprove, SignReject, MsTypeOK, Verdicts
    <2>5. QED
      BY <1>5, <2>2, <2>3, <2>4 DEF SignApprove, SignReject, MsTypeOK
  <1>6. ASSUME NEW u \in Updates, NEW p \in Proposals, NEW c \in Contracts,
               PassGate(u, p, c)
        PROVE  MsTypeOK'
    BY <1>6 DEF PassGate, MsTypeOK, Written
  <1>7. ASSUME NEW u \in Updates, WriteUpdate(u) \/ DropUpdate(u) PROVE MsTypeOK'
    BY <1>7 DEF WriteUpdate, DropUpdate, MsTypeOK
  <1>8. CASE MsTick
    BY <1>8 DEF MsTick, Tick, msVars, MsTypeOK, Times
  <1>9. CASE UNCHANGED <<clock, msVars>>
    BY <1>9 DEF msVars, MsTypeOK
  <1>10. QED
    BY <1>1, <1>3, <1>4, <1>5, <1>6, <1>7, <1>8, <1>9 DEF MsNext

LEMMA SetDeployFacts ==
    ASSUME MsTypeOK, NEW p \in Proposals, NEW st \in DeployStatuses,
           deploy[p] # Absent, SetDeploy(p, st), NEW q \in Proposals
    PROVE  StatusOf(q)' = IF q = p THEN st ELSE StatusOf(q)
  <1>1. deploy'[p] = [deploy[p] EXCEPT !.status = st] /\ deploy[p] \in Deploys
    BY DEF SetDeploy, MsTypeOK
  <1>2. deploy'[p] \in Deploys /\ deploy'[p].status = st
    BY <1>1 DEF Deploys
  <1>3. q # p => deploy'[q] = deploy[q]
    BY DEF SetDeploy, MsTypeOK
  <1>4. QED
    BY <1>2, <1>3, MultisigAssumption DEF StatusOf

Decides(p, s, v) == decision' = [decision EXCEPT ![p][s] = v]

\* Whom a signature makes a decider, and of what.
LEMMA DecisionFacts ==
    ASSUME MsTypeOK, NEW p \in Proposals, NEW s \in Signers, NEW v \in Verdicts,
           decision[p][s] = "none", Decides(p, s, v)
    PROVE  \A q \in Proposals, w \in Verdicts :
              Deciders(q, w)' = IF q = p /\ w = v THEN Deciders(q, w) \cup {s}
                                ELSE Deciders(q, w)
  BY DEF Decides, MsTypeOK, Deciders, Verdicts

\* What a step does to the proposals: a grant stays with its signatures, a new
\* one has them, and an open proposal has no rejection.
LEMMA MsNextProposals ==
    ASSUME MsIInv, [MsNext]_<<clock, msVars>>, NEW q \in Proposals
    PROVE  /\ Granted(q) => Granted(q)' /\ \A v \in Verdicts : Deciders(q, v)' = Deciders(q, v)
           /\ Granted(q)' => Granted(q) \/ Backed(q)'
           /\ StatusOf(q)' \in {"absent", "pending"} => Deciders(q, "rejected")' = {}
  <1> DEFINE Goal == /\ Granted(q) => Granted(q)' /\ \A v \in Verdicts : Deciders(q, v)' = Deciders(q, v)
                     /\ Granted(q)' => Granted(q) \/ Backed(q)'
                     /\ StatusOf(q)' \in {"absent", "pending"}
                           => Deciders(q, "rejected")' = {}
  <1> USE DEF MsIInv
  <1>1. ASSUME UNCHANGED decision,
               \/ StatusOf(q)' = StatusOf(q)
               \/ StatusOf(q) = "absent" /\ StatusOf(q)' = "pending"
               \/ StatusOf(q) = "pending" /\ StatusOf(q)' = "expired"
               \/ StatusOf(q) = "approved" /\ StatusOf(q)' = "executed"
        PROVE  Goal
    BY <1>1 DEF OpenIsClean, Granted, Deciders
  <1>2. ASSUME NEW p \in Proposals, CreateDeploy(p) PROVE Goal
    <2>1. q # p => deploy'[q] = deploy[q]
      BY <1>2 DEF CreateDeploy, MsTypeOK
    <2>2. q = p => deploy'[q] \in Deploys /\ deploy'[q].status = "pending"
      BY <1>2, WallClockAssumption, MultisigAssumption
      DEF CreateDeploy, MsTypeOK, Deploys, DeployStatuses, Times
    <2>3. QED
      BY <1>1, <1>2, <2>1, <2>2, MultisigAssumption DEF CreateDeploy, StatusOf
  <1>3. ASSUME NEW p \in Proposals, SignExpired(p) \/ ExecuteDeploy(p) PROVE Goal
    <2>1. deploy[p] # Absent
      BY <1>3 DEF SignExpired, ExecuteDeploy, StatusOf
    <2>2. QED
      BY <1>1, <1>3, <2>1, SetDeployFacts DEF SignExpired, ExecuteDeploy, DeployStatuses
  <1>4. ASSUME NEW p \in Proposals, NEW s \in Signers \cup {Outsider}, SignApprove(p, s)
        PROVE  Goal
    <2>1. /\ StatusOf(p) = "pending" /\ deploy[p] # Absent
          /\ s \in Signers /\ decision[p][s] = "none"
          /\ Decides(p, s, "approved")
      BY <1>4 DEF SignApprove, MaySign, StatusOf, Decides
    <2>2. /\ q # p => \A w \in Verdicts : Deciders(q, w)' = Deciders(q, w)
          /\ Approvals(p)' = Approvals(p) \cup {s}
          /\ Deciders(p, "rejected")' = Deciders(p, "rejected")
      <3>1. "approved" \in Verdicts /\ "rejected" \in Verdicts \ {"approved"}
        BY DEF Verdicts
      <3>2. \A r \in Proposals, w \in Verdicts : Deciders(r, w)' =
               IF r = p /\ w = "approved" THEN Deciders(r, w) \cup {s}
               ELSE Deciders(r, w)
        BY <2>1, <3>1, DecisionFacts
      <3>3. QED
        BY <3>1, <3>2 DEF Approvals
    <2>3. StatusOf(q)' = IF q = p /\ EnoughWith(p, s) THEN "approved" ELSE StatusOf(q)
      <3>1. CASE EnoughWith(p, s)
        BY <1>4, <2>1, <3>1, SetDeployFacts DEF SignApprove, DeployStatuses
      <3>2. CASE ~EnoughWith(p, s)
        BY <1>4, <3>2 DEF SignApprove, StatusOf
      <3>3. QED
        BY <3>1, <3>2
    <2>4. Deciders(p, "rejected") = {}
      BY <2>1 DEF OpenIsClean
    <2>5. CASE q = p
      <3>1. ~Granted(q) /\ Deciders(q, "rejected")' = {}
        BY <2>1, <2>2, <2>4, <2>5 DEF Granted
      <3>2. EnoughWith(p, s) => Backed(q)'
        BY <2>2, <2>5, <3>1 DEF Backed, EnoughWith
      <3>3. Granted(q)' => EnoughWith(p, s)
        BY <2>1, <2>3, <2>5 DEF Granted
      <3>4. QED
        BY <3>1, <3>2, <3>3
    <2>6. CASE q # p
      BY <2>2, <2>3, <2>6 DEF Granted, OpenIsClean, Verdicts
    <2>7. QED
      BY <2>5, <2>6
  <1>5. ASSUME NEW p \in Proposals, NEW s \in Signers \cup {Outsider}, SignReject(p, s)
        PROVE  Goal
    <2>1. /\ StatusOf(p) = "pending" /\ deploy[p] # Absent
          /\ s \in Signers /\ decision[p][s] = "none"
          /\ Decides(p, s, "rejected")
      BY <1>5 DEF SignReject, MaySign, StatusOf, Decides
    <2>2. q # p => \A w \in Verdicts : Deciders(q, w)' = Deciders(q, w)
      <3>1. "rejected" \in Verdicts
        BY DEF Verdicts
      <3>2. QED
        BY <2>1, <3>1, DecisionFacts
    <2>3. StatusOf(q)' = IF q = p THEN "rejected" ELSE StatusOf(q)
      BY <1>5, <2>1, SetDeployFacts DEF SignReject, DeployStatuses
    <2>4. CASE q = p
      BY <2>1, <2>3, <2>4 DEF Granted
    <2>5. CASE q # p
      <3>1. "rejected" \in Verdicts
        BY DEF Verdicts
      <3>2. QED
        BY <2>2, <2>3, <2>5, <3>1 DEF Granted, OpenIsClean
    <2>6. QED
      BY <2>4, <2>5
  <1>6. ASSUME UNCHANGED <<deploy, decision>> PROVE Goal
    BY <1>1, <1>6 DEF StatusOf
  <1>7. QED
    BY <1>2, <1>3, <1>4, <1>5, <1>6
    DEF MsNext, PassGate, WriteUpdate, DropUpdate, MsTick, msVars

LEMMA MsNextIInv == ASSUME MsIInv, [MsNext]_<<clock, msVars>> PROVE MsIInv'
  <1> USE DEF MsIInv
  <1>1. MsTypeOK'
    BY MsNextType
  <1>2. GrantedIsBacked'
    <2>1. ASSUME NEW q \in Proposals, Granted(q)' PROVE Backed(q)'
      <3>1. CASE Granted(q)
        BY <3>1, MsNextProposals DEF GrantedIsBacked, Backed, Approvals, Verdicts
      <3>2. CASE ~Granted(q)
        BY <2>1, <3>2, MsNextProposals
      <3>3. QED
        BY <3>1, <3>2
    <2>2. QED
      BY <2>1 DEF GrantedIsBacked
  <1>3. OpenIsClean'
    BY MsNextProposals DEF OpenIsClean
  <1>4. UpdatesGranted'
    <2>1. ASSUME NEW u \in Updates, NEW w \in Written, update'[u] = w
          PROVE  Granted(w.proposal)' /\ SameId(Target[w.proposal], w.contract)
      <3>1. Granted(w.proposal) /\ SameId(Target[w.proposal], w.contract)
        <4>1. CASE w = update[u]
          BY <4>1, MultisigAssumption DEF UpdatesGranted
        <4>2. ASSUME NEW t \in Updates, NEW p \in Proposals, NEW c \in Contracts,
                     PassGate(t, p, c), w # update[u]
              PROVE  w.proposal = p /\ w.contract = c /\ Granted(p) /\ SameId(Target[p], c)
          BY <2>1, <4>2 DEF PassGate, MayUpdate, Granted, MsTypeOK
        <4>3. ASSUME NEW t \in Updates, WriteUpdate(t) \/ DropUpdate(t)
              PROVE  w = update[u]
          BY <2>1, <4>3, MultisigAssumption DEF WriteUpdate, DropUpdate, MsTypeOK
        <4>4. QED
          BY <2>1, <4>1, <4>2, <4>3
          DEF MsNext, CreateDeploy, SignExpired, ExecuteDeploy, SignApprove,
              SignReject, MsTick, msVars
      <3>2. QED
        BY <3>1, MsNextProposals DEF Written
    <2>2. QED
      BY <1>1, <2>1 DEF UpdatesGranted, MsTypeOK
  <1>5. WrittenGranted'
    <2>1. ASSUME NEW w \in updated'
          PROVE  Granted(w.proposal)' /\ SameId(Target[w.proposal], w.contract)
      <3>1. w \in Written
        BY <1>1, <2>1 DEF MsTypeOK
      <3>2. Granted(w.proposal) /\ SameId(Target[w.proposal], w.contract)
        <4>1. CASE w \in updated
          BY <4>1 DEF WrittenGranted
        <4>2. ASSUME NEW u \in Updates, WriteUpdate(u), w \notin updated
              PROVE  update[u] # Absent /\ w = update[u]
          BY <2>1, <4>2 DEF WriteUpdate
        <4>3. QED
          BY <2>1, <4>1, <4>2
          DEF MsNext, CreateDeploy, SignExpired, ExecuteDeploy, SignApprove, SignReject,
              PassGate, DropUpdate, MsTick, msVars, UpdatesGranted
      <3>3. QED
        BY <3>1, <3>2, MsNextProposals DEF Written
    <2>2. QED
      BY <2>1 DEF WrittenGranted
  <1>6. QED
    BY <1>1, <1>2, <1>3, <1>4, <1>5

\* The type invariant, for any number of proposals, signers and updates.
THEOREM MultisigType == MsSpec => []MsTypeOK
  BY MsInitIInv, MsNextIInv, PTL DEF MsSpec, MsIInv

\* Every sensitive update rests on a proposal for its contract that the required
\* number of different signers approved (require_multisig_approval_...).
THEOREM MultisigUpdates == MsSpec => []UpdateIsBacked
  <1>1. MsIInv => UpdateIsBacked
    <2>1. ASSUME MsIInv, NEW w \in updated PROVE Backed(w.proposal)
      BY <2>1 DEF MsIInv, MsTypeOK, Written, WrittenGranted, GrantedIsBacked
    <2>2. QED
      BY <2>1 DEF MsIInv, WrittenGranted, UpdateIsBacked, Backed
  <1>2. QED
    BY <1>1, MsInitIInv, MsNextIInv, PTL DEF MsSpec

----------------------------------------------------------------------------
(* The order of the signatures and the audit trail. *)

\* The signers of a policy are finitely many, hence every set of deciders is.
LEMMA DecidersFinite ==
    ASSUME NEW p, NEW v
    PROVE  IsFiniteSet(Deciders(p, v)) /\ Cardinality(Deciders(p, v)) \in Nat
  <1> DEFINE n == Len(SignerList)
  <1>1. n \in Nat /\ IsFiniteSet(1..n)
    BY MultisigAssumption, FS_Interval
  <1>2. DOMAIN SignerList = 1..n /\ SignerList \in [1..n -> Signers]
    BY MultisigAssumption
  <1>3. SignerList \in Surjection(1..n, Signers)
    BY <1>2 DEF Surjection, Signers, Range
  <1>4. IsFiniteSet(Signers)
    BY <1>1, <1>3, FS_Surjection
  <1>5. Deciders(p, v) \in SUBSET Signers
    BY DEF Deciders
  <1> QED
    BY <1>4, <1>5, FS_Subset, FS_CardinalityType

\* What a signature does to both sets of deciders of every proposal.
LEMMA SignFacts ==
    ASSUME MsTypeOK, NEW p \in Proposals, NEW s \in Signers \cup {Outsider},
           NEW v \in Verdicts,
           \/ v = "approved" /\ SignApprove(p, s)
           \/ v = "rejected" /\ SignReject(p, s),
           NEW q \in Proposals
    PROVE  /\ s \notin Deciders(p, v)
           /\ \A w \in Verdicts : Deciders(q, w)' =
                 IF q = p /\ w = v THEN Deciders(q, w) \cup {s} ELSE Deciders(q, w)
  <1>1. /\ s \in Signers /\ decision[p][s] = "none" /\ Decides(p, s, v)
    BY DEF SignApprove, SignReject, MaySign, Decides
  <1>2. s \notin Deciders(p, v)
    BY <1>1 DEF Deciders, Verdicts
  <1> QED
    BY <1>1, <1>2, DecisionFacts

\* The signer that comes next makes the approvals one signer longer.
LEMMA OrderedNext ==
    ASSUME MsTypeOK, OrderedFromTheFirst, [MsNext]_<<clock, msVars>>
    PROVE  OrderedFromTheFirst'
  <1> SUFFICES ASSUME NEW q \in Proposals, Ordered[q]
               PROVE  Approvals(q)' = {SignerList[i] : i \in 1..Cardinality(Approvals(q)')}
    BY DEF OrderedFromTheFirst
  <1>1. Approvals(q) = {SignerList[i] : i \in 1..Cardinality(Approvals(q))}
    BY DEF OrderedFromTheFirst
  <1>2. CASE Approvals(q)' = Approvals(q)
    BY <1>1, <1>2
  <1>3. ASSUME NEW p \in Proposals, NEW s \in Signers \cup {Outsider},
               SignApprove(p, s), Approvals(q)' # Approvals(q)
        PROVE  Approvals(q)' = {SignerList[i] : i \in 1..Cardinality(Approvals(q)')}
    <2>1. PICK A : A = Approvals(q)
      OBVIOUS
    <2>2. "approved" \in Verdicts
      BY DEF Verdicts
    <2>3. q = p /\ Approvals(q)' = A \cup {s} /\ s \notin A
      BY <1>3, <2>1, <2>2, SignFacts DEF Approvals
    <2>4. IsFiniteSet(A) /\ Cardinality(A) \in Nat
      BY <2>1, DecidersFinite DEF Approvals
    <2>5. Cardinality(A \cup {s}) = Cardinality(A) + 1
      BY <2>3, <2>4, FS_AddElement
    <2>6. s = SignerList[Cardinality(A) + 1]
      BY <1>3, <2>1, <2>3 DEF SignApprove, MaySign, IsNext
    <2>7. A \cup {s} = {SignerList[i] : i \in 1..(Cardinality(A) + 1)}
      <3>1. 1..(Cardinality(A) + 1) = 1..Cardinality(A) \cup {Cardinality(A) + 1}
        BY <2>4
      <3> QED
        BY <1>1, <2>1, <2>6, <3>1
    <2> QED
      BY <2>3, <2>5, <2>7
  <1>4. ASSUME NEW p \in Proposals, NEW s \in Signers \cup {Outsider}, SignReject(p, s)
        PROVE  Approvals(q)' = Approvals(q)
    <2>1. "approved" \in Verdicts /\ "rejected" \in Verdicts
      BY DEF Verdicts
    <2> QED
      BY <1>4, <2>1, SignFacts DEF Approvals
  <1>5. ASSUME UNCHANGED decision PROVE Approvals(q)' = Approvals(q)
    BY <1>5 DEF Approvals, Deciders
  <1> QED
    BY <1>2, <1>3, <1>4, <1>5
    DEF MsNext, CreateDeploy, SignExpired, ExecuteDeploy, PassGate, WriteUpdate,
        DropUpdate, MsTick, msVars

\* Under an ordered policy the approvals are those of the first signers, for any
\* list of signers and whatever else is signed or rejected meanwhile
\* (multisig_handlers.rs:466-497).
THEOREM MultisigOrder == MsSpec => []OrderedFromTheFirst
  <1>1. MsInit => OrderedFromTheFirst
    <2> SUFFICES ASSUME MsInit, NEW p \in Proposals PROVE Approvals(p) = {}
      BY FS_EmptySet DEF OrderedFromTheFirst
    <2> QED
      BY DEF MsInit, Approvals, Deciders
  <1> QED
    BY <1>1, MultisigType, OrderedNext, PTL DEF MsSpec

\* The number of entries of a trail t for an action a.
Count(t, a) == Cardinality({i \in 1..Len(t) : t[i] = a})

OneIf(b) == IF b THEN 1 ELSE 0

\* Appending one entry counts it.
LEMMA CountOne ==
    ASSUME NEW S, NEW t \in Seq(S), NEW e \in S, NEW a
    PROVE  /\ Count(t, a) \in Nat
           /\ Count(t \o <<e>>, a) = Count(t, a) + OneIf(e = a)
  <1> DEFINE n == Len(t)
             T == {i \in 1..n : t[i] = a}
             u == t \o <<e>>
             U == {i \in 1..Len(u) : u[i] = a}
  <1>1. n \in Nat /\ IsFiniteSet(1..n) /\ T \in SUBSET (1..n)
    BY FS_Interval
  <1>2. IsFiniteSet(T) /\ Cardinality(T) \in Nat
    BY <1>1, FS_Subset, FS_CardinalityType
  <1>3. Len(u) = n + 1 /\ u[n + 1] = e /\ \A i \in 1..n : u[i] = t[i]
    BY <1>1
  <1>4. U = IF e = a THEN T \cup {n + 1} ELSE T
    BY <1>1, <1>3
  <1>5. n + 1 \notin T
    BY <1>1
  <1>6. Cardinality(T \cup {n + 1}) = Cardinality(T) + 1
    <2> HIDE DEF T, n
    <2> QED
      BY <1>2, <1>5, FS_AddElement
  <1>7. Cardinality(U) = Cardinality(T) + OneIf(e = a)
    <2>1. CASE e = a
      BY <1>4, <1>6, <2>1 DEF OneIf
    <2>2. CASE e # a
      <3>1. U = T
        BY <1>4, <2>2
      <3>2. OneIf(e = a) = 0
        BY <2>2 DEF OneIf
      <3> HIDE DEF T, U
      <3> QED
        BY <1>2, <3>1, <3>2
    <2> QED
      BY <2>1, <2>2
  <1> QED
    BY <1>2, <1>7 DEF Count

\* So does appending two.
LEMMA CountTwo ==
    ASSUME NEW S, NEW t \in Seq(S), NEW e \in S, NEW f \in S, NEW a
    PROVE  Count(t \o <<e, f>>, a) = Count(t, a) + OneIf(e = a) + OneIf(f = a)
  <1> DEFINE u == t \o <<e>>
             l == t \o <<e, f>>
             r == u \o <<f>>
  <1>1. u \in Seq(S) /\ Len(u) = Len(t) + 1 /\ Len(t) \in Nat
    OBVIOUS
  <1>2. l = r
    <2>1. l \in Seq(S) /\ r \in Seq(S)
      BY <1>1
    <2>2. Len(l) = Len(t) + 2 /\ Len(r) = Len(t) + 2
      BY <1>1
    <2>3. ASSUME NEW i \in 1..Len(l) PROVE l[i] = r[i]
      <3>1. CASE i <= Len(t)
        BY <1>1, <2>2, <3>1
      <3>2. CASE i = Len(t) + 1
        BY <1>1, <2>2, <3>2
      <3>3. CASE i = Len(t) + 2
        BY <1>1, <2>2, <3>3
      <3> QED
        BY <1>1, <2>2, <3>1, <3>2, <3>3
    <2> QED
      BY <2>1, <2>2, <2>3, SeqEqual
  <1>3. Count(r, a) = Count(u, a) + OneIf(f = a)
    <2> HIDE DEF u
    <2> QED
      BY <1>1, CountOne
  <1>4. Count(u, a) = Count(t, a) + OneIf(e = a)
    BY CountOne
  <1> QED
    BY <1>2, <1>3, <1>4

\* The claim of TrailTellsState for a trail t, a status and two numbers of
\* signatures.
Tells(t, status, yes, no) ==
    /\ Count(t, "proposal_created") = OneIf(status # "absent")
    /\ Count(t, "signature_approved") = yes
    /\ Count(t, "signature_rejected") = no
    /\ Count(t, "proposal_approved") = OneIf(status \in {"approved", "executed"})
    /\ Count(t, "proposal_executed") = OneIf(status = "executed")

TellsOf(p) == Tells(trail[p], StatusOf(p), Cardinality(Approvals(p)),
                    Cardinality(Deciders(p, "rejected")))

\* A step appends to the trail of a proposal exactly what it does to the row and
\* to the signatures.
LEMMA TrailNext ==
    ASSUME MsTypeOK, [MsNext]_<<clock, msVars>>, NEW q \in Proposals, TellsOf(q)
    PROVE  TellsOf(q)'
  <1> DEFINE Yes == Cardinality(Approvals(q))
             No  == Cardinality(Deciders(q, "rejected"))
  <1>1. trail[q] \in Seq(AuditActions) /\ trail \in [Proposals -> Seq(AuditActions)]
    BY DEF MsTypeOK
  <1>2. Yes \in Nat /\ No \in Nat
    BY DecidersFinite DEF Approvals
  <1>3. Tells(trail[q], StatusOf(q), Yes, No)
    BY DEF TellsOf
  <1>4. ASSUME UNCHANGED decision PROVE Yes' = Yes /\ No' = No
    BY <1>4 DEF Approvals, Deciders
  <1>5. ASSUME trail'[q] = trail[q], UNCHANGED decision,
               \/ StatusOf(q)' = StatusOf(q)
               \/ StatusOf(q) = "pending" /\ StatusOf(q)' = "expired"
        PROVE  TellsOf(q)'
    <2>1. Yes' = Yes /\ No' = No
      BY <1>4, <1>5
    <2>2. Tells(trail[q], StatusOf(q)', Yes, No)
      BY <1>3, <1>5 DEF Tells, OneIf
    <2> QED
      BY <1>5, <2>1, <2>2 DEF TellsOf, Tells
  <1>6. ASSUME NEW p \in Proposals, NEW e, Logs(p, e), p # q
        PROVE  trail'[q] = trail[q]
    BY <1>1, <1>6 DEF Logs
  <1>7. ASSUME NEW e, Logs(q, e) PROVE trail'[q] = trail[q] \o e
    BY <1>1, <1>7 DEF Logs
  <1>8. /\ "proposal_created" \in AuditActions /\ "signature_approved" \in AuditActions
        /\ "signature_rejected" \in AuditActions /\ "proposal_approved" \in AuditActions
        /\ "proposal_executed" \in AuditActions
    BY DEF AuditActions
  <1>9. ASSUME NEW p \in Proposals, CreateDeploy(p) PROVE TellsOf(q)'
    <2>1. UNCHANGED decision
      BY <1>9 DEF CreateDeploy
    <2>2. CASE p # q
      <3>1. deploy'[q] = deploy[q]
        BY <1>9, <2>2 DEF CreateDeploy, MsTypeOK
      <3> QED
        BY <1>5, <1>6, <1>9, <2>1, <2>2, <3>1 DEF CreateDeploy, StatusOf
    <2>3. CASE p = q
      <3>1. trail'[q] = trail[q] \o <<"proposal_created">>
        BY <1>7, <1>9, <2>3 DEF CreateDeploy
      <3>2. StatusOf(q) = "absent"
        BY <1>9, <2>3 DEF CreateDeploy, StatusOf
      <3>3. StatusOf(q)' = "pending"
        <4>1. deploy'[q] \in Deploys /\ deploy'[q].status = "pending"
          BY <1>9, <2>3, WallClockAssumption, MultisigAssumption
          DEF CreateDeploy, MsTypeOK, Deploys, DeployStatuses, Times
        <4> QED
          BY <4>1, MultisigAssumption DEF StatusOf
      <3>4. \A a : Count(trail'[q], a) = Count(trail[q], a) + OneIf("proposal_created" = a)
        BY <1>1, <1>8, <3>1, CountOne
      <3>5. Tells(trail'[q], "pending", Yes, No)
        BY <1>2, <1>3, <3>2, <3>4 DEF Tells, OneIf
      <3> QED
        BY <1>4, <2>1, <3>3, <3>5 DEF TellsOf, Tells
    <2> QED
      BY <2>2, <2>3
  <1>10. ASSUME NEW p \in Proposals, SignExpired(p) PROVE TellsOf(q)'
    <2>1. StatusOf(p) = "pending" /\ deploy[p] # Absent /\ UNCHANGED <<decision, trail>>
      BY <1>10 DEF SignExpired, StatusOf
    <2>2. StatusOf(q)' = IF q = p THEN "expired" ELSE StatusOf(q)
      BY <1>10, <2>1, SetDeployFacts DEF SignExpired, DeployStatuses
    <2> QED
      BY <1>5, <2>1, <2>2
  <1>11. ASSUME NEW p \in Proposals, ExecuteDeploy(p) PROVE TellsOf(q)'
    <2>1. StatusOf(p) = "approved" /\ deploy[p] # Absent /\ UNCHANGED decision
      BY <1>11 DEF ExecuteDeploy, StatusOf
    <2>2. StatusOf(q)' = IF q = p THEN "executed" ELSE StatusOf(q)
      BY <1>11, <2>1, SetDeployFacts DEF ExecuteDeploy, DeployStatuses
    <2>3. CASE p # q
      BY <1>5, <1>6, <1>11, <2>1, <2>2, <2>3 DEF ExecuteDeploy
    <2>4. CASE p = q
      <3>1. trail'[q] = trail[q] \o <<"proposal_executed">>
        BY <1>7, <1>11, <2>4 DEF ExecuteDeploy
      <3>2. \A a : Count(trail'[q], a) = Count(trail[q], a) + OneIf("proposal_executed" = a)
        BY <1>1, <1>8, <3>1, CountOne
      <3>3. Tells(trail'[q], "executed", Yes, No)
        BY <1>2, <1>3, <2>1, <2>4, <3>2 DEF Tells, OneIf
      <3> QED
        BY <1>4, <2>1, <2>2, <2>4, <3>3 DEF TellsOf, Tells
    <2> QED
      BY <2>3, <2>4
  <1>12. ASSUME NEW p \in Proposals, NEW s \in Signers \cup {Outsider}, SignApprove(p, s)
         PROVE  TellsOf(q)'
    <2>1. /\ StatusOf(p) = "pending" /\ deploy[p] # Absent
      BY <1>12 DEF SignApprove, MaySign, StatusOf
    <2>2. StatusOf(q)' = IF q = p /\ EnoughWith(p, s) THEN "approved" ELSE StatusOf(q)
      <3>1. CASE EnoughWith(p, s)
        BY <1>12, <2>1, <3>1, SetDeployFacts DEF SignApprove, DeployStatuses
      <3>2. CASE ~EnoughWith(p, s)
        BY <1>12, <3>2 DEF SignApprove, StatusOf
      <3> QED
        BY <3>1, <3>2
    <2>3. /\ s \notin Deciders(p, "approved")
          /\ Deciders(q, "approved")' = IF q = p THEN Deciders(q, "approved") \cup {s}
                                        ELSE Deciders(q, "approved")
          /\ Deciders(q, "rejected")' = Deciders(q, "rejected")
      <3>1. "approved" \in Verdicts /\ "rejected" \in Verdicts
        BY DEF Verdicts
      <3> QED
        BY <1>12, <3>1, SignFacts
    <2>4. No' = No /\ Yes' = IF q = p THEN Yes + 1 ELSE Yes
      BY <2>3, DecidersFinite, FS_AddElement DEF Approvals
    <2>5. CASE p # q
      <3>1. trail'[q] = trail[q]
        BY <1>6, <1>12, <2>5 DEF SignApprove
      <3> QED
        BY <1>3, <2>2, <2>4, <2>5, <3>1 DEF TellsOf, Tells
    <2>6. CASE p = q /\ EnoughWith(p, s)
      <3>1. trail'[q] = trail[q] \o <<"signature_approved", "proposal_approved">>
        BY <1>7, <1>12, <2>6 DEF SignApprove
      <3>2. \A a : Count(trail'[q], a) = Count(trail[q], a)
                      + OneIf("signature_approved" = a) + OneIf("proposal_approved" = a)
        BY <1>1, <1>8, <3>1, CountTwo
      <3>3. Tells(trail'[q], "approved", Yes + 1, No)
        BY <1>2, <1>3, <2>1, <2>6, <3>2 DEF Tells, OneIf
      <3> QED
        BY <2>2, <2>4, <2>6, <3>3 DEF TellsOf, Tells
    <2>7. CASE p = q /\ ~EnoughWith(p, s)
      <3>1. trail'[q] = trail[q] \o <<"signature_approved">>
        BY <1>7, <1>12, <2>7 DEF SignApprove
      <3>2. \A a : Count(trail'[q], a) = Count(trail[q], a) + OneIf("signature_approved" = a)
        BY <1>1, <1>8, <3>1, CountOne
      <3>3. Tells(trail'[q], "pending", Yes + 1, No)
        BY <1>2, <1>3, <2>1, <2>7, <3>2 DEF Tells, OneIf
      <3> QED
        BY <2>1, <2>2, <2>4, <2>7, <3>3 DEF TellsOf, Tells
    <2> QED
      BY <2>5, <2>6, <2>7
  <1>13. ASSUME NEW p \in Proposals, NEW s \in Signers \cup {Outsider}, SignReject(p, s)
         PROVE  TellsOf(q)'
    <2>1. /\ StatusOf(p) = "pending" /\ deploy[p] # Absent
      BY <1>13 DEF SignReject, MaySign, StatusOf
    <2>2. StatusOf(q)' = IF q = p THEN "rejected" ELSE StatusOf(q)
      BY <1>13, <2>1, SetDeployFacts DEF SignReject, DeployStatuses
    <2>3. /\ s \notin Deciders(p, "rejected")
          /\ Deciders(q, "rejected")' = IF q = p THEN Deciders(q, "rejected") \cup {s}
                                        ELSE Deciders(q, "rejected")
          /\ Deciders(q, "approved")' = Deciders(q, "approved")
      <3>1. "approved" \in Verdicts /\ "rejected" \in Verdicts
        BY DEF Verdicts
      <3> QED
        BY <1>13, <3>1, SignFacts
    <2>4. Yes' = Yes /\ No' = IF q = p THEN No + 1 ELSE No
      BY <2>3, DecidersFinite, FS_AddElement DEF Approvals
    <2>5. CASE p # q
      <3>1. trail'[q] = trail[q]
        BY <1>6, <1>13, <2>5 DEF SignReject
      <3> QED
        BY <1>3, <2>2, <2>4, <2>5, <3>1 DEF TellsOf, Tells
    <2>6. CASE p = q
      <3>1. trail'[q] = trail[q] \o <<"signature_rejected">>
        BY <1>7, <1>13, <2>6 DEF SignReject
      <3>2. \A a : Count(trail'[q], a) = Count(trail[q], a) + OneIf("signature_rejected" = a)
        BY <1>1, <1>8, <3>1, CountOne
      <3>3. Tells(trail'[q], "rejected", Yes, No + 1)
        BY <1>2, <1>3, <2>1, <2>6, <3>2 DEF Tells, OneIf
      <3> QED
        BY <2>2, <2>4, <2>6, <3>3 DEF TellsOf, Tells
    <2> QED
      BY <2>5, <2>6
  <1>14. ASSUME UNCHANGED <<deploy, decision, trail>> PROVE TellsOf(q)'
    BY <1>5, <1>14 DEF StatusOf
  <1> QED
    BY <1>9, <1>10, <1>11, <1>12, <1>13, <1>14
    DEF MsNext, PassGate, WriteUpdate, DropUpdate, MsTick, msVars

\* Every entry of the audit trail stands for a signature, a status or a creation
\* that the tables still show, and none is missing or repeated, for any number
\* of signers (multisig_handlers.rs:533-552, 606-622, 692-708).
THEOREM MultisigTrail == MsSpec => []TrailTellsState
  <1> DEFINE AllTell == \A p \in Proposals : TellsOf(p)
  <1>1. MsInit => AllTell
    <2> SUFFICES ASSUME MsInit, NEW p \in Proposals PROVE TellsOf(p)
      OBVIOUS
    <2>1. /\ trail[p] = <<>> /\ StatusOf(p) = "absent"
          /\ Approvals(p) = {} /\ Deciders(p, "rejected") = {}
      BY DEF MsInit, StatusOf, Approvals, Deciders
    <2>2. \A a : {i \in 1..Len(<<>>) : <<>>[i] = a} = {}
      OBVIOUS
    <2>3. \A a : Count(<<>>, a) = 0
      BY <2>2, FS_EmptySet DEF Count
    <2> QED
      BY <2>1, <2>3, FS_EmptySet DEF TellsOf, Tells, OneIf
  <1>2. MsTypeOK /\ AllTell /\ [MsNext]_<<clock, msVars>> => AllTell'
    BY TrailNext
  <1>3. MsTypeOK /\ AllTell => TrailTellsState
    <2> SUFFICES ASSUME MsTypeOK, NEW p \in Proposals, TellsOf(p)
                 PROVE  /\ Entries(p, "proposal_created") = IF deploy[p] = Absent THEN 0 ELSE 1
                        /\ Entries(p, "signature_approved") = Cardinality(Approvals(p))
                        /\ Entries(p, "signature_rejected") = Cardinality(Deciders(p, "rejected"))
                        /\ Entries(p, "proposal_approved") =
                              IF StatusOf(p) \in {"approved", "executed"} THEN 1 ELSE 0
                        /\ Entries(p, "proposal_executed") =
                              IF StatusOf(p) = "executed" THEN 1 ELSE 0
      BY DEF TrailTellsState
    <2>1. StatusOf(p) = "absent" <=> deploy[p] = Absent
      BY DEF MsTypeOK, Deploys, DeployStatuses, StatusOf
    <2>2. \A a : Entries(p, a) = Count(trail[p], a)
      BY DEF Entries, Count
    <2> QED
      BY <2>1, <2>2 DEF TellsOf, Tells, OneIf
  <1> HIDE DEF AllTell
  <1> QED
    BY <1>1, <1>2, <1>3, MultisigType, PTL DEF MsSpec

----------------------------------------------------------------------------
(* The promise. *)

PhaseFunction == [p \in Proposals |-> PhaseOf(p)]
YesFunction   == [p \in Proposals |-> Approvals(p)]

LEMMA PromiseInitMap == MsInit => Promise!PromiseInit
  BY DEF MsInit, Promise!PromiseInit, PhaseOf, Phases, StatusOf, Approvals, Deciders

\* The phase of a case whose proposal has changed.
LEMMA PhaseMove ==
    ASSUME NEW p \in Proposals, NEW n,
           \A q \in Proposals : StatusOf(q)' = IF q = p THEN n ELSE StatusOf(q)
    PROVE  /\ PhaseFunction[p] = PhaseOf(p)
           /\ PhaseFunction' = [PhaseFunction EXCEPT ![p] = PhaseOf(p)']
  <1>1. \A q \in Proposals \ {p} : PhaseOf(q)' = PhaseOf(q)
    BY DEF PhaseOf, Phases
  <1>2. QED
    BY <1>1 DEF PhaseFunction

LEMMA PromiseStep ==
    ASSUME MsIInv, [MsNext]_<<clock, msVars>>
    PROVE  [Promise!PromiseNext]_<<PhaseFunction, YesFunction>>
  <1> DEFINE Goal == [Promise!PromiseNext]_<<PhaseFunction, YesFunction>>
  <1> USE DEF MsIInv
  <1>1. ASSUME UNCHANGED decision PROVE UNCHANGED YesFunction
    BY <1>1 DEF YesFunction, Approvals, Deciders
  <1>2. ASSUME NEW p \in Proposals, CreateDeploy(p) PROVE Goal
    <2>1. \A q \in Proposals \ {p} : deploy'[q] = deploy[q]
      BY <1>2 DEF CreateDeploy, MsTypeOK
    <2>2. deploy'[p] \in Deploys /\ deploy'[p].status = "pending"
      BY <1>2, WallClockAssumption, MultisigAssumption
      DEF CreateDeploy, MsTypeOK, Deploys, DeployStatuses, Times
    <2>3. StatusOf(p) = "absent" /\ StatusOf(p)' = "pending"
          /\ \A q \in Proposals :
                StatusOf(q)' = IF q = p THEN "pending" ELSE StatusOf(q)
      BY <1>2, <2>1, <2>2, MultisigAssumption DEF CreateDeploy, StatusOf
    <2>4. PhaseFunction[p] = "absent"
          /\ PhaseFunction' = [PhaseFunction EXCEPT ![p] = "open"]
      <3>1. PhaseOf(p) = "absent" /\ PhaseOf(p)' = "open"
        BY <2>3 DEF PhaseOf, Phases
      <3>2. QED
        BY <2>3, <3>1, PhaseMove
    <2>5. Promise!Propose(p)
      BY <1>1, <1>2, <2>4
      DEF CreateDeploy, Promise!Propose, Promise!Move, PhaseFunction, YesFunction
    <2>6. QED
      BY <2>5 DEF Promise!PromiseNext
  <1>3. ASSUME NEW p \in Proposals, SignExpired(p) PROVE Goal
    <2>1. deploy[p] # Absent
      BY <1>3 DEF SignExpired, StatusOf
    <2>2. \A q \in Proposals :
             StatusOf(q)' = IF q = p THEN "expired" ELSE StatusOf(q)
      BY <1>3, <2>1, SetDeployFacts DEF SignExpired, DeployStatuses
    <2>3. PhaseFunction[p] = "open"
          /\ PhaseFunction' = [PhaseFunction EXCEPT ![p] = "lapsed"]
      <3>1. PhaseOf(p) = "open" /\ PhaseOf(p)' = "lapsed"
        BY <1>3, <2>2 DEF SignExpired, PhaseOf, Phases
      <3>2. QED
        BY <2>2, <3>1, PhaseMove
    <2>4. Promise!Lapse(p)
      BY <1>1, <1>3, <2>3
      DEF SignExpired, Promise!Lapse, Promise!Move, PhaseFunction, YesFunction
    <2>5. QED
      BY <2>4 DEF Promise!PromiseNext
  <1>4. ASSUME NEW p \in Proposals, ExecuteDeploy(p) PROVE Goal
    <2>1. deploy[p] # Absent
      BY <1>4 DEF ExecuteDeploy, StatusOf
    <2>2. \A q \in Proposals :
             StatusOf(q)' = IF q = p THEN "executed" ELSE StatusOf(q)
      BY <1>4, <2>1, SetDeployFacts DEF ExecuteDeploy, DeployStatuses
    <2>3. PhaseFunction[p] = "granted"
          /\ PhaseFunction' = [PhaseFunction EXCEPT ![p] = "used"]
      <3>1. PhaseOf(p) = "granted" /\ PhaseOf(p)' = "used"
        BY <1>4, <2>2 DEF ExecuteDeploy, PhaseOf, Phases
      <3>2. QED
        BY <2>2, <3>1, PhaseMove
    <2>4. Promise!Use(p)
      BY <1>1, <1>4, <2>3
      DEF ExecuteDeploy, Promise!Use, Promise!Move, PhaseFunction, YesFunction
    <2>5. QED
      BY <2>4 DEF Promise!PromiseNext
  <1>5. ASSUME NEW p \in Proposals, NEW s \in Signers \cup {Outsider}, SignApprove(p, s)
        PROVE  Goal
    <2>1. /\ StatusOf(p) = "pending" /\ deploy[p] # Absent
          /\ s \in Signers /\ decision[p][s] = "none"
          /\ Decides(p, s, "approved")
      BY <1>5 DEF SignApprove, MaySign, StatusOf, Decides
    <2>2. \A q \in Proposals : Approvals(q)' =
             IF q = p THEN Approvals(q) \cup {s} ELSE Approvals(q)
      BY <2>1, DecisionFacts DEF Approvals, Verdicts
    <2>3. \A q \in Proposals : StatusOf(q)' =
             IF q = p /\ EnoughWith(p, s) THEN "approved" ELSE StatusOf(q)
      <3>1. CASE EnoughWith(p, s)
        BY <1>5, <2>1, <3>1, SetDeployFacts DEF SignApprove, DeployStatuses
      <3>2. CASE ~EnoughWith(p, s)
        BY <1>5, <3>2 DEF SignApprove, StatusOf
      <3>3. QED
        BY <3>1, <3>2
    <2>4. /\ PhaseFunction[p] = "open"
          /\ PhaseFunction' = [PhaseFunction EXCEPT ![p] =
                                  IF EnoughWith(p, s) THEN "granted" ELSE "open"]
      <3>1. /\ PhaseOf(p) = "open"
            /\ PhaseOf(p)' = IF EnoughWith(p, s) THEN "granted" ELSE "open"
        BY <2>1, <2>3 DEF PhaseOf, Phases
      <3>2. \A q \in Proposals : StatusOf(q)' =
               IF q = p THEN IF EnoughWith(p, s) THEN "approved" ELSE "pending"
               ELSE StatusOf(q)
        BY <2>1, <2>3
      <3>3. QED
        BY <3>1, <3>2, PhaseMove
    <2>5. /\ YesFunction[p] = Approvals(p)
          /\ YesFunction' = [YesFunction EXCEPT ![p] = @ \cup {s}]
      BY <2>2 DEF YesFunction
    <2>6. s \notin Approvals(p)
      BY <2>1 DEF Approvals, Deciders
    <2>7. Promise!Approve(p, s)
      <3>1. EnoughWith(p, s) <=> YesFunction[p] \cup {s} \in
                EnoughSigners
        BY <2>1, <2>5 DEF EnoughSigners, EnoughWith, Approvals, Deciders
      <3>2. s \notin YesFunction[p]
        BY <2>5, <2>6
      <3>3. QED
        BY <2>4, <2>5, <3>1, <3>2
        DEF Promise!Approve, Promise!Move, PhaseFunction, YesFunction
    <2>8. QED
      BY <2>1, <2>7 DEF Promise!PromiseNext
  <1>6. ASSUME NEW p \in Proposals, NEW s \in Signers \cup {Outsider}, SignReject(p, s)
        PROVE  Goal
    <2>1. /\ StatusOf(p) = "pending" /\ deploy[p] # Absent
          /\ s \in Signers /\ decision[p][s] = "none"
          /\ Decides(p, s, "rejected")
      BY <1>6 DEF SignReject, MaySign, StatusOf, Decides
    <2>2. \A q \in Proposals : Approvals(q)' = Approvals(q)
      BY <2>1, DecisionFacts DEF Approvals, Verdicts
    <2>3. \A q \in Proposals :
             StatusOf(q)' = IF q = p THEN "rejected" ELSE StatusOf(q)
      BY <1>6, <2>1, SetDeployFacts DEF SignReject, DeployStatuses
    <2>4. PhaseFunction[p] = "open"
          /\ PhaseFunction' = [PhaseFunction EXCEPT ![p] = "denied"]
      <3>1. PhaseOf(p) = "open" /\ PhaseOf(p)' = "denied"
        BY <2>1, <2>3 DEF PhaseOf, Phases
      <3>2. QED
        BY <2>3, <3>1, PhaseMove
    <2>5. UNCHANGED YesFunction
      BY <2>2 DEF YesFunction
    <2>6. Promise!Deny(p)
      BY <2>4, <2>5 DEF Promise!Deny, Promise!Move, PhaseFunction, YesFunction
    <2>7. QED
      BY <2>6 DEF Promise!PromiseNext
  <1>7. ASSUME UNCHANGED <<deploy, decision>> PROVE Goal
    BY <1>1, <1>7 DEF PhaseFunction, PhaseOf, Phases, StatusOf
  <1>8. QED
    BY <1>2, <1>3, <1>4, <1>5, <1>6, <1>7
    DEF MsNext, PassGate, WriteUpdate, DropUpdate, MsTick, msVars

\* Every commit on a proposal is a step of the promised M-of-N approval.
THEOREM MultisigPromise == MsSpec => KeepsPromise
  <1>1. MsIInv /\ [MsNext]_<<clock, msVars>>
          => [Promise!PromiseNext]_(Promise!promiseVars)
    BY PromiseStep DEF Promise!promiseVars, PhaseFunction, YesFunction
  <1>2. QED
    BY <1>1, PromiseInitMap, MsInitIInv, MsNextIInv, PTL
    DEF MsSpec, KeepsPromise, Promise!PromiseSpec
=============================================================================
