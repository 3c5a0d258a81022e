-------------------------- MODULE OwnershipProofs --------------------------
(***************************************************************************)
(* Ownership transfers, for any contracts, publishers, transfers, requests *)
(* and nonces, any expiry window and any batch of the sweeper: the tables  *)
(* keep their types, and what the transactions commit is the promised      *)
(* history (OwnershipHistory).                                             *)
(***************************************************************************)
EXTENDS OwnershipTransfer, SequenceTheorems, TLAPS

\* A request holds the transfer it decides, and knows what it was asked for.
CallsFit ==
    \A r \in Requests :
        /\ step[r] = "patch" => call[r].kind = "patch"
        /\ step[r] \in {"begin", "lock", "contract"} =>
              call[r].kind \in {"create", "accept", "reject"}
        /\ step[r] = "both" =>
              call[r].kind \in {"accept", "reject"} /\ lockT[call[r].id] = r

\* The sweeper holds what it has claimed, so that nobody decides it meanwhile.
SweptHeld == \A t \in swept : lockT[t] = Sweeper /\ Live(t)

OwnInv == TypeOK /\ CallsFit /\ SweptHeld

----------------------------------------------------------------------------
(* The parts of a step. *)

\* A row that is not NoRow is a row of the table.
LEMMA LiveRow ==
    ASSUME TypeOK, NEW t \in Transfers, Exists(t)
    PROVE  row[t] \in Rows /\ row[t].status \in Statuses
  BY DEF TypeOK, Exists, Rows

LEMMA LiveHasRow ==
    ASSUME NEW t \in Transfers, Live(t)
    PROVE  Exists(t)
  BY DEF Live, Exists, NoRow

\* What is asked for has the types of its kind.
LEMMA CallTypes ==
    ASSUME TypeOK, NEW r \in Requests
    PROVE  /\ call[r].kind = "create" => call[r] \in CreateCalls
           /\ call[r].kind \in {"accept", "reject"} => call[r] \in ConfirmCalls
           /\ call[r].kind = "patch" => call[r] \in PatchCalls
  BY DEF TypeOK, Calls, CreateCalls, ConfirmCalls, PatchCalls, NoCall

\* The end of a request touches its own entries and its own locks.
LEMMA EndTypes ==
    ASSUME TypeOK, NEW r \in Requests, End(r)
    PROVE  /\ step' \in [Requests -> Steps] /\ call' \in [Requests -> Calls]
           /\ now' \in [Requests -> Times] /\ txNow' \in [Requests -> Times]
           /\ lockC' \in [Contracts -> Requests \cup {None}]
           /\ lockT' \in [Transfers -> Requests \cup {None, Sweeper}]
  BY OwnershipAssumption DEF TypeOK, End, Steps, Calls, Times

\* Rows that change their status stay rows, and get a history row each.
LEMMA SetStatusTypes ==
    ASSUME TypeOK, NEW T, NEW s \in Statuses, SetStatus(T, s),
           \A t \in T \cap Transfers : Exists(t)
    PROVE  /\ row' \in [Transfers -> Rows \cup {NoRow}]
           /\ log' \in [Transfers -> Seq(Statuses)]
  <1>1. ASSUME NEW t \in Transfers, t \in T
        PROVE  [row[t] EXCEPT !.status = s] \in Rows
    BY <1>1, LiveRow DEF Rows
  <1>2. row' \in [Transfers -> Rows \cup {NoRow}]
    BY <1>1 DEF SetStatus, TypeOK
  <1>3. log' \in [Transfers -> Seq(Statuses)]
    BY DEF SetStatus, WriteLog, TypeOK
  <1>4. QED
    BY <1>2, <1>3

\* Only the status of those rows changes.
LEMMA SetStatusRows ==
    ASSUME TypeOK, NEW T, NEW s, SetStatus(T, s), NEW t \in Transfers
    PROVE  /\ t \notin T => row'[t] = row[t]
           /\ t \in T /\ Exists(t) =>
                 /\ row'[t].status = s /\ row'[t].nonce = row[t].nonce
                 /\ row'[t].contract = row[t].contract
                 /\ row'[t].from = row[t].from /\ row'[t].to = row[t].to
                 /\ row'[t].expires = row[t].expires
  <1>1. CASE t \in T /\ Exists(t)
    BY <1>1, LiveRow DEF SetStatus, Rows
  <1>2. CASE t \notin T
    BY <1>2 DEF SetStatus
  <1>3. QED
    BY <1>1, <1>2

LEMMA OwnInitInv == Init => OwnInv
  <1> SUFFICES ASSUME Init PROVE OwnInv
    OBVIOUS
  <1>1. TypeOK
    BY OwnershipAssumption DEF Init, TypeOK, Times, Steps, Calls
  <1>2. CallsFit /\ SweptHeld
    BY DEF Init, CallsFit, SweptHeld
  <1>3. QED
    BY <1>1, <1>2 DEF OwnInv

----------------------------------------------------------------------------
(* Requests on their way to a decision. *)

\* The arrival of a call of the right kind.
LEMMA ArriveInv ==
    ASSUME OwnInv, NEW r \in Requests, NEW c \in Calls,
           NEW s \in {"begin", "patch"}, Arrive(r, c, s),
           s = "patch" => c.kind = "patch",
           s = "begin" => c.kind \in {"create", "accept", "reject"}
    PROVE  OwnInv'
  <1>1. TypeOK'
    BY DEF OwnInv, Arrive, TypeOK, Steps
  <1>2. CallsFit'
    BY DEF OwnInv, Arrive, TypeOK, CallsFit
  <1>3. SweptHeld'
    BY DEF OwnInv, Arrive, SweptHeld, Live
  <1>4. QED
    BY <1>1, <1>2, <1>3 DEF OwnInv

LEMMA StartInv == ASSUME OwnInv, NEW r \in Requests, Start(r) PROVE OwnInv'
  <1>1. ASSUME NEW a \in Publishers, NEW to \in Publishers, NEW c \in Contracts,
               NEW n \in Nonces, NEW e \in (clock + MinTtl)..(clock + MaxTtl),
               Arrive(r, [kind |-> "create", actor |-> a, contract |-> c, to |-> to,
                          expires |-> e, nonce |-> n], "begin")
        PROVE  OwnInv'
    <2>1. e \in 0..(MaxTime + MaxTtl)
      BY OwnershipAssumption DEF OwnInv, TypeOK, Times
    <2>2. [kind |-> "create", actor |-> a, contract |-> c, to |-> to,
           expires |-> e, nonce |-> n] \in Calls
      BY <2>1 DEF Calls, CreateCalls
    <2>3. QED
      BY <1>1, <2>2, ArriveInv
  <1>2. ASSUME NEW a \in Publishers, NEW t \in Transfers, NEW k \in {"accept", "reject"},
               Arrive(r, [kind |-> k, actor |-> a, id |-> t], "begin")
        PROVE  OwnInv'
    <2>1. [kind |-> k, actor |-> a, id |-> t] \in Calls
      BY DEF Calls, ConfirmCalls
    <2>2. QED
      BY <1>2, <2>1, ArriveInv
  <1>3. ASSUME NEW a \in Publishers, NEW to \in Publishers, NEW c \in Contracts,
               Arrive(r, [kind |-> "patch", actor |-> a, contract |-> c, to |-> to],
                      "patch")
        PROVE  OwnInv'
    <2>1. [kind |-> "patch", actor |-> a, contract |-> c, to |-> to] \in Calls
      BY DEF Calls, PatchCalls
    <2>2. QED
      BY <1>3, <2>1, ArriveInv
  <1>4. QED
    BY <1>1, <1>2, <1>3 DEF Start, StartCreate, StartConfirm, StartPatch

LEMMA BeginInv == ASSUME OwnInv, NEW r \in Requests, BeginTx(r) PROVE OwnInv'
  <1>1. TypeOK'
    BY DEF OwnInv, BeginTx, TypeOK, Steps
  <1>2. CallsFit'
    BY DEF OwnInv, BeginTx, TypeOK, CallsFit
  <1>3. SweptHeld'
    BY DEF OwnInv, BeginTx, SweptHeld, Live
  <1>4. QED
    BY <1>1, <1>2, <1>3 DEF OwnInv

LEMMA LockInv == ASSUME OwnInv, NEW r \in Requests, Lock(r) PROVE OwnInv'
  <1>1. CASE LockContract(r)
    <2>1. TypeOK'
      BY <1>1 DEF OwnInv, LockContract, TypeOK, Steps
    <2>2. CallsFit'
      BY <1>1 DEF OwnInv, LockContract, TypeOK, CallsFit
    <2>3. SweptHeld'
      BY <1>1 DEF OwnInv, LockContract, SweptHeld, Live
    <2>4. QED
      BY <2>1, <2>2, <2>3 DEF OwnInv
  <1>2. CASE LockTransfer(r)
    <2>1. call[r].id \in Transfers
      BY <1>2, CallTypes DEF OwnInv, LockTransfer, ConfirmCalls
    <2>2. TypeOK'
      BY <1>2, <2>1 DEF OwnInv, LockTransfer, TypeOK, Steps
    <2>3. CallsFit'
      BY <1>2, <2>1, OwnershipAssumption DEF OwnInv, LockTransfer, TypeOK, CallsFit
    <2>4. SweptHeld'
      BY <1>2, <2>1, OwnershipAssumption DEF OwnInv, LockTransfer, TypeOK, SweptHeld, Live
    <2>5. QED
      BY <2>2, <2>3, <2>4 DEF OwnInv
  <1>3. QED
    BY <1>1, <1>2 DEF Lock

----------------------------------------------------------------------------
(* Requests that end. *)

\* A request that decides a transfer holds it, so the sweeper has not claimed it.
LEMMA DecidedNotSwept ==
    ASSUME OwnInv, NEW r \in Requests, step[r] = "both"
    PROVE  call[r].id \in Transfers /\ call[r].id \notin swept
  <1>1. call[r].id \in Transfers
    BY CallTypes DEF OwnInv, CallsFit, ConfirmCalls
  <1>2. lockT[call[r].id] # Sweeper
    BY OwnershipAssumption DEF OwnInv, CallsFit
  <1>3. QED
    BY <1>1, <1>2 DEF OwnInv, SweptHeld

\* Whatever a transaction has written, a request that ends leaves the other
\* requests and the sweeper as they were.
LEMMA EndInv ==
    ASSUME OwnInv, NEW r \in Requests, End(r), UNCHANGED <<clock, swept>>,
           owner' \in [Contracts -> Publishers],
           row' \in [Transfers -> Rows \cup {NoRow}],
           log' \in [Transfers -> Seq(Statuses)],
           \A t \in swept : row'[t] = row[t]
    PROVE  OwnInv'
  <1>1. TypeOK'
    BY EndTypes DEF OwnInv, TypeOK, Times
  <1>2. CallsFit'
    <2>1. \A q \in Requests : step[q] = "both" => call[q].id \in Transfers
      BY DecidedNotSwept
    <2>2. QED
      BY <2>1 DEF OwnInv, End, TypeOK, CallsFit
  <1>3. SweptHeld'
    BY OwnershipAssumption DEF OwnInv, End, TypeOK, SweptHeld, Live
  <1>4. QED
    BY <1>1, <1>2, <1>3 DEF OwnInv

\* One transfer is decided.
LEMMA DecisionInv ==
    ASSUME OwnInv, NEW r \in Requests, step[r] = "both", Live(call[r].id),
           NEW s \in Statuses, SetStatus({call[r].id}, s), End(r),
           UNCHANGED <<clock, swept>>, owner' \in [Contracts -> Publishers]
    PROVE  OwnInv'
  <1>1. call[r].id \in Transfers /\ call[r].id \notin swept
    BY DecidedNotSwept
  <1>2. /\ row' \in [Transfers -> Rows \cup {NoRow}]
        /\ log' \in [Transfers -> Seq(Statuses)]
    BY <1>1, SetStatusTypes, LiveHasRow DEF OwnInv
  <1>3. \A t \in swept : row'[t] = row[t]
    BY <1>1 DEF SetStatus, OwnInv, TypeOK
  <1>4. QED
    BY <1>2, <1>3, EndInv

LEMMA CreateInv == ASSUME OwnInv, NEW r \in Requests, CreateTransfer(r) PROVE OwnInv'
  <1>1. PICK t \in Transfers :
          /\ ~Exists(t)
          /\ row' = [row EXCEPT ![t] =
                        [status |-> "pending", contract |-> call[r].contract,
                         from |-> call[r].actor, to |-> call[r].to,
                         expires |-> call[r].expires, nonce |-> call[r].nonce]]
          /\ WriteLog({t}, "pending")
    BY DEF CreateTransfer
  <1>2. call[r] \in CreateCalls
    BY CallTypes DEF OwnInv, CreateTransfer
  <1>3. row' \in [Transfers -> Rows \cup {NoRow}]
    BY <1>1, <1>2 DEF OwnInv, TypeOK, Rows, CreateCalls, Statuses
  <1>4. log' \in [Transfers -> Seq(Statuses)]
    BY <1>1 DEF OwnInv, TypeOK, WriteLog, Statuses
  <1>5. \A u \in swept : row'[u] = row[u]
    <2>1. t \notin swept
      BY <1>1, LiveHasRow DEF OwnInv, SweptHeld
    <2>2. QED
      BY <1>1, <2>1 DEF OwnInv, TypeOK
  <1>6. QED
    BY <1>3, <1>4, <1>5, EndInv DEF CreateTransfer, OwnInv, TypeOK

\* The contract that passes to the recipient.
LEMMA AcceptOwner ==
    ASSUME OwnInv, NEW r \in Requests, Accept(r)
    PROVE  /\ call[r].id \in Transfers /\ Live(call[r].id)
           /\ row[call[r].id] \in Rows
           /\ owner' \in [Contracts -> Publishers]
  <1>1. call[r].id \in Transfers
    BY DecidedNotSwept DEF Accept, Deciding
  <1>2. Live(call[r].id) /\ row[call[r].id] \in Rows
    BY <1>1, LiveHasRow, LiveRow DEF Accept, MayAccept, OwnInv
  <1>3. QED
    BY <1>1, <1>2 DEF Accept, OwnInv, TypeOK, Rows

LEMMA DecideInv == ASSUME OwnInv, NEW r \in Requests, Decide(r) PROVE OwnInv'
  <1>1. CASE CreateTransfer(r)
    BY <1>1, CreateInv
  <1>2. CASE RefuseCreate(r) \/ RefuseConfirm(r)
    BY <1>2, EndInv DEF RefuseCreate, RefuseConfirm, OwnInv, TypeOK
  <1>3. CASE ExpireOnAccess(r)
    BY <1>3, DecisionInv DEF ExpireOnAccess, Deciding, PastDue, Statuses, OwnInv, TypeOK
  <1>4. CASE Accept(r)
    BY <1>4, DecisionInv, AcceptOwner DEF Accept, Deciding, Statuses
  <1>5. CASE Reject(r)
    BY <1>5, DecisionInv DEF Reject, Deciding, Statuses, OwnInv, TypeOK
  <1>6. QED
    BY <1>1, <1>2, <1>3, <1>4, <1>5 DEF Decide

LEMMA LeaveInv ==
    ASSUME OwnInv, NEW r \in Requests, Patch(r) \/ Abort(r)
    PROVE  OwnInv'
  <1>1. CASE Patch(r)
    <2>1. call[r] \in PatchCalls
      BY <1>1, CallTypes DEF OwnInv, CallsFit, Patch
    <2>2. owner' \in [Contracts -> Publishers]
      BY <1>1, <2>1 DEF Patch, OwnInv, TypeOK, PatchCalls
    <2>3. QED
      BY <1>1, <2>2, EndInv DEF Patch, OwnInv, TypeOK
  <1>2. CASE Abort(r)
    BY <1>2, EndInv DEF Abort, OwnInv, TypeOK
  <1>3. QED
    BY <1>1, <1>2

----------------------------------------------------------------------------
(* Expiry outside a request. *)

LEMMA ExpireOnReadInv ==
    ASSUME OwnInv, NEW t \in Transfers, ExpireOnRead(t)
    PROVE  OwnInv'
  <1>1. Exists(t) /\ t \notin swept
    BY LiveHasRow, OwnershipAssumption DEF ExpireOnRead, PastDue, OwnInv, SweptHeld
  <1>2. /\ row' \in [Transfers -> Rows \cup {NoRow}]
        /\ log' \in [Transfers -> Seq(Statuses)]
    BY <1>1, SetStatusTypes DEF ExpireOnRead, OwnInv, Statuses
  <1>3. TypeOK'
    BY <1>2 DEF ExpireOnRead, OwnInv, TypeOK, Times
  <1>4. CallsFit'
    BY DEF ExpireOnRead, OwnInv, CallsFit
  <1>5. SweptHeld'
    BY <1>1 DEF ExpireOnRead, OwnInv, TypeOK, SweptHeld, SetStatus, Live
  <1>6. QED
    BY <1>3, <1>4, <1>5 DEF OwnInv

LEMMA SweepClaimInv == ASSUME OwnInv, SweepClaim PROVE OwnInv'
  <1>1. PICK S \in SUBSET {t \in Transfers : PastDue(t, clock) /\ lockT[t] = None} :
          /\ swept' = S
          /\ lockT' = [t \in Transfers |-> IF t \in S THEN Sweeper ELSE lockT[t]]
    BY DEF SweepClaim
  <1>2. TypeOK'
    BY <1>1 DEF SweepClaim, OwnInv, TypeOK
  <1>3. CallsFit'
    <2>1. \A r \in Requests : step[r] = "both" => call[r].id \in Transfers
      BY DecidedNotSwept
    <2>2. QED
      BY <1>1, <2>1, OwnershipAssumption DEF SweepClaim, OwnInv, CallsFit
  <1>4. SweptHeld'
    BY <1>1 DEF SweepClaim, SweptHeld, PastDue, Live
  <1>5. QED
    BY <1>2, <1>3, <1>4 DEF OwnInv

LEMMA UnclaimInv ==
    ASSUME OwnInv, Unclaim,
           row' \in [Transfers -> Rows \cup {NoRow}],
           log' \in [Transfers -> Seq(Statuses)]
    PROVE  OwnInv'
  <1>1. TypeOK'
    BY DEF Unclaim, OwnInv, TypeOK, Times
  <1>2. CallsFit'
    <2>1. \A r \in Requests : step[r] = "both" =>
             call[r].id \in Transfers /\ call[r].id \notin swept
      BY DecidedNotSwept
    <2>2. QED
      BY <2>1 DEF Unclaim, OwnInv, CallsFit
  <1>3. SweptHeld'
    BY DEF Unclaim, SweptHeld
  <1>4. QED
    BY <1>1, <1>2, <1>3 DEF OwnInv

LEMMA OwnNextInv == OwnInv /\ [Next]_vars => OwnInv'
  <1> SUFFICES ASSUME OwnInv, [Next]_vars PROVE OwnInv'
    OBVIOUS
  <1>1. ASSUME NEW r \in Requests, Start(r) \/ BeginTx(r) \/ Lock(r) PROVE OwnInv'
    BY <1>1, StartInv, BeginInv, LockInv
  <1>2. ASSUME NEW r \in Requests, Decide(r) \/ Patch(r) \/ Abort(r) PROVE OwnInv'
    BY <1>2, DecideInv, LeaveInv
  <1>3. ASSUME NEW t \in Transfers, ExpireOnRead(t) PROVE OwnInv'
    BY <1>3, ExpireOnReadInv
  <1>4. CASE SweepClaim
    BY <1>4, SweepClaimInv
  <1>5. CASE SweepCommit
    <2>1. \A t \in swept : Exists(t)
      BY LiveHasRow DEF OwnInv, SweptHeld, TypeOK
    <2>2. QED
      BY <1>5, <2>1, SetStatusTypes, UnclaimInv DEF SweepCommit, OwnInv, Statuses
  <1>6. CASE SweepAbort
    BY <1>6, UnclaimInv DEF SweepAbort, OwnInv, TypeOK
  <1>7. CASE Tick
    <2>1. TypeOK'
      BY <1>7, OwnershipAssumption DEF Tick, OwnInv, TypeOK, Times
    <2>2. QED
      BY <1>7, <2>1 DEF Tick, OwnInv, CallsFit, SweptHeld, Live
  <1>8. CASE UNCHANGED vars
    BY <1>8 DEF vars, OwnInv, TypeOK, CallsFit, SweptHeld, Live, Times
  <1>9. QED
    BY <1>1, <1>2, <1>3, <1>4, <1>5, <1>6, <1>7, <1>8 DEF Next

LEMMA OwnInvHolds == Spec => []OwnInv
  BY OwnInitInv, OwnNextInv, PTL DEF Spec

\* The tables, the locks and the requests keep their types: no transaction
\* commits a status on a row that is not there (handlers.rs, ownership_transfer.rs).
THEOREM TypeCorrect == Spec => []TypeOK
  <1>1. OwnInv => TypeOK
    BY DEF OwnInv
  <1>2. QED
    BY <1>1, OwnInvHolds, PTL

----------------------------------------------------------------------------
(* What a step does to the tables. *)

\* The rows a step can change, whoever takes it.
Creates(t, c) ==
    /\ ~Exists(t) /\ c \in CreateCalls
    /\ owner[c.contract] = c.actor /\ c.to # c.actor
    /\ ~LiveExists(c.contract) /\ ~NonceUsed(c.nonce)
    /\ row' = [row EXCEPT ![t] =
                  [status |-> "pending", contract |-> c.contract, from |-> c.actor,
                   to |-> c.to, expires |-> c.expires, nonce |-> c.nonce]]
    /\ WriteLog({t}, "pending")
    /\ UNCHANGED owner

Closes(T, s) == (\A t \in T : Live(t)) /\ SetStatus(T, s)

Completes(t) ==
    /\ Closes({t}, "completed")
    /\ owner[row[t].contract] = row[t].from
    /\ owner' = [owner EXCEPT ![row[t].contract] = row[t].to]

HandsOver(c, to) == owner' = [owner EXCEPT ![c] = to] /\ UNCHANGED <<row, log>>

\* Every step of the transactions is one of four, or leaves the tables alone.
LEMMA StepsOnTables ==
    ASSUME OwnInv, [Next]_vars
    PROVE  \/ \E t \in Transfers, c \in CreateCalls : Creates(t, c)
           \/ \E t \in Transfers : Completes(t)
           \/ \E t \in Transfers : Closes({t}, "rejected") /\ UNCHANGED owner
           \/ \E T \in SUBSET Transfers : Closes(T, "expired") /\ UNCHANGED owner
           \/ \E c \in Contracts, to \in Publishers : HandsOver(c, to)
           \/ UNCHANGED <<owner, row, log>>
  <1> DEFINE Goal ==
        \/ \E t \in Transfers, c \in CreateCalls : Creates(t, c)
        \/ \E t \in Transfers : Completes(t)
        \/ \E t \in Transfers : Closes({t}, "rejected") /\ UNCHANGED owner
        \/ \E T \in SUBSET Transfers : Closes(T, "expired") /\ UNCHANGED owner
        \/ \E c \in Contracts, to \in Publishers : HandsOver(c, to)
        \/ UNCHANGED <<owner, row, log>>
  <1> SUFFICES Goal
    OBVIOUS
  <1>1. ASSUME NEW r \in Requests, CreateTransfer(r) PROVE Goal
    <2>1. call[r] \in CreateCalls
      BY <1>1, CallTypes DEF OwnInv, CreateTransfer
    <2>2. \E t \in Transfers : Creates(t, call[r])
      BY <1>1, <2>1 DEF CreateTransfer, MayCreate, Creates
    <2>3. QED
      BY <2>1, <2>2
  <1>2. ASSUME NEW r \in Requests, Accept(r) PROVE Goal
    <2>1. Completes(call[r].id)
      BY <1>2, AcceptOwner DEF Accept, MayAccept, Completes, Closes
    <2>2. QED
      BY <1>2, <2>1, AcceptOwner
  <1>3. ASSUME NEW r \in Requests, Reject(r) \/ ExpireOnAccess(r) PROVE Goal
    <2>1. call[r].id \in Transfers /\ Live(call[r].id)
      BY <1>3, DecidedNotSwept DEF Reject, ExpireOnAccess, Deciding, PastDue
    <2>2. CASE Reject(r)
      BY <2>1, <2>2 DEF Reject, Closes
    <2>3. CASE ExpireOnAccess(r)
      <3>1. Closes({call[r].id}, "expired") /\ UNCHANGED owner
        BY <2>1, <2>3 DEF ExpireOnAccess, Closes
      <3>2. QED
        BY <2>1, <3>1
    <2>4. QED
      BY <1>3, <2>2, <2>3
  <1>4. ASSUME NEW r \in Requests, Patch(r) PROVE Goal
    <2>1. call[r] \in PatchCalls
      BY <1>4, CallTypes DEF OwnInv, CallsFit, Patch
    <2>2. QED
      BY <1>4, <2>1 DEF Patch, HandsOver, PatchCalls
  <1>5. ASSUME NEW t \in Transfers, ExpireOnRead(t) PROVE Goal
    <2>1. Closes({t}, "expired") /\ UNCHANGED owner
      BY <1>5 DEF ExpireOnRead, PastDue, Closes
    <2>2. QED
      BY <2>1
  <1>6. CASE SweepCommit
    <2>1. Closes(swept, "expired") /\ UNCHANGED owner /\ swept \in SUBSET Transfers
      BY <1>6 DEF SweepCommit, Unclaim, Closes, OwnInv, SweptHeld, TypeOK
    <2>2. QED
      BY <2>1
  <1>7. ASSUME UNCHANGED <<owner, row, log>> PROVE Goal
    BY <1>7
  <1>8. QED
    BY <1>1, <1>2, <1>3, <1>4, <1>5, <1>6, <1>7
    DEF Next, Start, StartCreate, StartConfirm, StartPatch, Arrive, BeginTx, Lock,
        LockContract, LockTransfer, Decide, RefuseCreate, RefuseConfirm, Abort,
        SweepClaim, SweepAbort, Unclaim, Tick, vars

----------------------------------------------------------------------------
(* The promised history. *)

ShownRows == [t \in Transfers |-> Shown(row[t])]

LEMMA HistoryInitMap == Init => History!Init
  BY DEF Init, History!Init, Shown, NoRow, History!NoRow

\* What is shown of a row tells whether it is there and whether it is live.
LEMMA ShownFacts ==
    ASSUME TypeOK, NEW t \in Transfers
    PROVE  /\ ShownRows[t] = Shown(row[t])
           /\ (ShownRows[t] = History!NoRow) <=> ~Exists(t)
           /\ History!Live(t) <=> Live(t)
           /\ Exists(t) => /\ ShownRows[t].contract = row[t].contract
                           /\ ShownRows[t].from = row[t].from
                           /\ ShownRows[t].to = row[t].to
  <1>1. CASE ~Exists(t)
    BY <1>1 DEF Exists, Live, NoRow, Shown, ShownRows, History!NoRow, History!Live
  <1>2. CASE Exists(t)
    <2>1. row[t] # NoRow /\ row[t].status # "none"
      BY <1>2, LiveRow DEF Exists, Statuses
    <2>2. Shown(row[t]) = [status |-> row[t].status, contract |-> row[t].contract,
                           from |-> row[t].from, to |-> row[t].to]
      BY <2>1 DEF Shown
    <2>3. Shown(row[t]) # History!NoRow
      BY <2>1, <2>2 DEF History!NoRow
    <2>4. QED
      BY <1>2, <2>2, <2>3 DEF ShownRows, History!Live, Live
  <1>3. QED
    BY <1>1, <1>2

\* Closing transfers closes what is shown of them.
LEMMA ClosesShown ==
    ASSUME OwnInv, NEW T \in SUBSET Transfers, NEW s \in Statuses, Closes(T, s)
    PROVE  History!Close(T, s)
  <1>1. \A t \in T : History!Live(t) /\ Exists(t)
    BY ShownFacts, LiveHasRow DEF Closes, OwnInv
  <1>2. ASSUME NEW t \in Transfers
        PROVE  Shown(row'[t]) = IF t \in T THEN [ShownRows[t] EXCEPT !.status = s]
                                ELSE ShownRows[t]
    <2>1. CASE t \in T
      <3>1. Exists(t) /\ Shown(row[t]) = [status |-> row[t].status,
              contract |-> row[t].contract, from |-> row[t].from, to |-> row[t].to]
        BY <1>1, <2>1 DEF Shown, Exists
      <3>2. /\ row'[t].status = s /\ row'[t].contract = row[t].contract
            /\ row'[t].from = row[t].from /\ row'[t].to = row[t].to
        BY <2>1, <3>1, SetStatusRows DEF Closes, OwnInv
      <3>3. row'[t] # NoRow
        BY <3>2 DEF NoRow, Statuses
      <3>4. Shown(row'[t]) = [status |-> s, contract |-> row[t].contract,
                              from |-> row[t].from, to |-> row[t].to]
        BY <3>2, <3>3 DEF Shown
      <3>5. ShownRows[t] = Shown(row[t])
        BY DEF ShownRows
      <3>6. QED
        BY <2>1, <3>1, <3>4, <3>5
    <2>2. CASE t \notin T
      BY <2>2, SetStatusRows DEF Closes, OwnInv, ShownRows
    <2>3. QED
      BY <2>1, <2>2
  <1>3. ShownRows' = [t \in Transfers |->
                        IF t \in T THEN [ShownRows[t] EXCEPT !.status = s]
                        ELSE ShownRows[t]]
    BY <1>2 DEF ShownRows
  <1>4. log' = [t \in Transfers |-> IF t \in T THEN Append(log[t], s) ELSE log[t]]
    BY DEF Closes, SetStatus, WriteLog
  <1>5. QED
    BY <1>1, <1>3, <1>4 DEF History!Close, ShownRows

LEMMA HistoryStep ==
    ASSUME OwnInv, OwnInv', [Next]_vars
    PROVE  [History!Next]_(History!vars)
  <1>1. ASSUME NEW t \in Transfers, NEW c \in CreateCalls, Creates(t, c)
        PROVE  History!Next
    <2>1. /\ c.contract \in Contracts /\ c.to \in Publishers
          /\ c.to # owner[c.contract]
      BY <1>1 DEF Creates, CreateCalls
    <2>2. ShownRows[t] = History!NoRow
      BY <1>1, ShownFacts DEF Creates, OwnInv
    <2>3. \A u \in Transfers : History!Live(u) => ShownRows[u].contract # c.contract
      BY <1>1, ShownFacts, LiveHasRow DEF Creates, LiveExists, OwnInv
    <2>4. ShownRows' = [ShownRows EXCEPT ![t] =
             [status |-> "pending", contract |-> c.contract,
              from |-> owner[c.contract], to |-> c.to]]
      <3>1. row'[t] = [status |-> "pending", contract |-> c.contract,
                       from |-> owner[c.contract], to |-> c.to,
                       expires |-> c.expires, nonce |-> c.nonce]
        BY <1>1 DEF Creates, OwnInv, TypeOK
      <3>2. row'[t] # NoRow
        BY <3>1 DEF NoRow
      <3>3. Shown(row'[t]) = [status |-> "pending", contract |-> c.contract,
                              from |-> owner[c.contract], to |-> c.to]
        BY <3>1, <3>2 DEF Shown
      <3>4. \A u \in Transfers \ {t} : row'[u] = row[u]
        BY <1>1 DEF Creates, OwnInv, TypeOK
      <3>5. QED
        BY <3>3, <3>4 DEF ShownRows
    <2>5. log' = [log EXCEPT ![t] = Append(@, "pending")]
      BY <1>1 DEF Creates, WriteLog, OwnInv, TypeOK
    <2>6. History!Open(t, c.contract, c.to)
      BY <1>1, <2>1, <2>2, <2>3, <2>4, <2>5 DEF History!Open, Creates, ShownRows
    <2>7. QED
      BY <2>1, <2>6 DEF History!Next
  <1>2. ASSUME NEW t \in Transfers, Completes(t) PROVE History!Next
    <2>1. History!Close({t}, "completed")
      BY <1>2, ClosesShown DEF Completes, Statuses
    <2>2. /\ ShownRows[t].contract = row[t].contract /\ ShownRows[t].to = row[t].to
          /\ ShownRows[t].from = row[t].from
      BY <1>2, ShownFacts, LiveHasRow DEF Completes, Closes, OwnInv
    <2>3. History!Complete(t)
      BY <1>2, <2>1, <2>2 DEF History!Complete, Completes, ShownRows
    <2>4. QED
      BY <2>3 DEF History!Next
  <1>3. ASSUME NEW t \in Transfers, Closes({t}, "rejected"), UNCHANGED owner
        PROVE  History!Next
    BY <1>3, ClosesShown DEF History!Reject, History!Next, Statuses
  <1>4. ASSUME NEW T \in SUBSET Transfers, Closes(T, "expired"), UNCHANGED owner
        PROVE  History!Next
    BY <1>4, ClosesShown DEF History!Expire, History!Next, Statuses
  <1>5. ASSUME NEW c \in Contracts, NEW to \in Publishers, HandsOver(c, to)
        PROVE  History!Next
    BY <1>5 DEF HandsOver, History!HandOver, History!Next
  <1>6. ASSUME UNCHANGED <<owner, row, log>> PROVE UNCHANGED History!vars
    BY <1>6 DEF History!vars
  <1>7. QED
    BY <1>1, <1>2, <1>3, <1>4, <1>5, <1>6, StepsOnTables

\* Whatever is interleaved, rolled back, swept or expired on access, the commits
\* are the promised history: one live transfer a contract, an acceptance that
\* moves the contract in the same step, no change after a decision.
THEOREM TransfersImplementHistory == Spec => Implements
  <1>1. OwnInv /\ OwnInv' /\ [Next]_vars => [History!Next]_(History!vars)
    BY HistoryStep
  <1>2. QED
    BY <1>1, HistoryInitMap, OwnInvHolds, PTL DEF Spec, Implements, History!Spec

----------------------------------------------------------------------------
(* What the promised history amounts to (I1, I2 and I4 of handlers.rs). *)

\* A contract has one live transfer at most.
OneLive ==
    \A t, u \in Transfers :
        Live(t) /\ Live(u) /\ row[t].contract = row[u].contract => t = u

\* The history of a transfer: opened, then decided once, as its row tells.
LogTellsRow ==
    \A t \in Transfers :
        log[t] = IF ~Exists(t) THEN <<>>
                 ELSE IF Live(t) THEN <<"pending">> ELSE <<"pending", row[t].status>>

LEMMA AppendFacts ==
    ASSUME NEW x, NEW y
    PROVE  Append(<<>>, y) = <<y>> /\ Append(<<x>>, y) = <<x, y>>
  <1> DEFINE S == {x, y}
  <1>1. <<x>> \in Seq(S) /\ <<x, y>> \in Seq(S) /\ Len(<<x>>) = 1 /\ Len(<<x, y>>) = 2
    OBVIOUS
  <1>2. Append(<<x>>, y) \in Seq(S) /\ Len(Append(<<x>>, y)) = 2
    BY <1>1, AppendProperties
  <1>3. Append(<<x>>, y)[1] = x /\ Append(<<x>>, y)[2] = y
    BY <1>1, AppendProperties
  <1>4. \A i \in 1..2 : Append(<<x>>, y)[i] = <<x, y>>[i]
    BY <1>3
  <1>5. Append(<<x>>, y) = <<x, y>>
    BY <1>1, <1>2, <1>4, SeqEqual
  <1>6. QED
    BY <1>5

\* A transfer is decided once: a transaction that finds it live while another
\* decides it has lost it by the time it writes.
LEMMA DecidedOnceStep ==
    ASSUME OwnInv, OneLive, LogTellsRow, [Next]_vars
    PROVE  OneLive' /\ LogTellsRow'
  <1>1. ASSUME NEW t \in Transfers, NEW c \in CreateCalls, Creates(t, c)
        PROVE  OneLive' /\ LogTellsRow'
    <2>1. /\ row'[t].status = "pending" /\ row'[t].contract = c.contract
          /\ \A u \in Transfers \ {t} : row'[u] = row[u]
      BY <1>1 DEF Creates, OwnInv, TypeOK
    <2>2. OneLive'
      BY <1>1, <2>1 DEF OneLive, Creates, LiveExists, Live
    <2>3. log'[t] = <<"pending">> /\ \A u \in Transfers \ {t} : log'[u] = log[u]
      <3>1. log[t] = <<>> /\ t \in {t}
        BY <1>1 DEF Creates, LogTellsRow
      <3>2. log' = [u \in Transfers |-> IF u \in {t} THEN Append(log[u], "pending") ELSE log[u]]
        BY <1>1 DEF Creates, WriteLog
      <3>3. QED
        BY <3>1, <3>2, AppendFacts
    <2>4. LogTellsRow'
      BY <2>1, <2>3 DEF LogTellsRow, Exists, Live, NoRow
    <2>5. QED
      BY <2>2, <2>4
  <1>2. ASSUME NEW T \in SUBSET Transfers, NEW s \in Statuses \ {"pending"}, Closes(T, s)
        PROVE  OneLive' /\ LogTellsRow'
    <2>1. ASSUME NEW t \in T
          PROVE  /\ Live(t) /\ Exists(t) /\ row'[t].status = s
                 /\ log'[t] = <<"pending", s>>
      <3>1. Live(t) /\ Exists(t)
        BY <1>2, LiveHasRow DEF Closes
      <3>2. log[t] = <<"pending">> /\ log'[t] = Append(log[t], s)
        BY <1>2, <3>1 DEF LogTellsRow, Closes, SetStatus, WriteLog
      <3>3. row'[t].status = s
        BY <1>2, <3>1, SetStatusRows DEF Closes, OwnInv
      <3>4. QED
        BY <3>1, <3>2, <3>3, AppendFacts
    <2>2. \A t \in Transfers \ T : row'[t] = row[t] /\ log'[t] = log[t]
      BY <1>2 DEF Closes, SetStatus, WriteLog
    <2>3. \A t \in T : ~Live(t)' /\ Exists(t)'
      BY <2>1 DEF Live, Exists, NoRow, Statuses
    <2>4. OneLive'
      BY <2>2, <2>3 DEF OneLive, Live
    <2>5. LogTellsRow'
      BY <2>1, <2>2, <2>3 DEF LogTellsRow, Exists, Live
    <2>6. QED
      BY <2>4, <2>5
  <1>3. ASSUME UNCHANGED <<row, log>> PROVE OneLive' /\ LogTellsRow'
    BY <1>3 DEF OneLive, LogTellsRow, Live, Exists
  <1>4. QED
    BY <1>1, <1>2, <1>3, StepsOnTables DEF Completes, HandsOver, Statuses

\* Concurrent requests, expiry on access and the sweeper together decide a
\* transfer once, and a contract has one live transfer at most.
THEOREM DecidedOnce == Spec => [](OneLive /\ LogTellsRow)
  <1>1. Init => OneLive /\ LogTellsRow
    BY DEF Init, OneLive, LogTellsRow, Live, Exists, NoRow
  <1>2. QED
    BY <1>1, DecidedOnceStep, OwnInvHolds, PTL DEF Spec
=============================================================================
