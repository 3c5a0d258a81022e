------------------------- MODULE OwnershipTransfer -------------------------
(***************************************************************************)
(* Two-phase transfer of a contract's ownership (api/src/handlers.rs and   *)
(* ownership_transfer.rs): the owner signs a request, the recipient signs  *)
(* its acceptance, either party may reject it, and a request that is not   *)
(* decided expires.  Requests run concurrently; each is a transaction that *)
(* locks the contract's row and then the transfer's row, and everything a  *)
(* transaction writes after its last lock becomes visible when it commits. *)
(* A background sweeper and the read endpoints expire past-due transfers,  *)
(* and PATCH /publisher moves ownership without any transfer.              *)
(*                                                                         *)
(* Signatures are not modelled as data: a request that reaches a decision  *)
(* carries a valid one for its actor, and any other request ends in Abort, *)
(* like every other error that leaves the database alone.                  *)
(***************************************************************************)
EXTENDS Naturals, FiniteSets, Sequences

CONSTANTS
    Contracts, Publishers,
    Transfers,     \* ids of rows that may be inserted
    Requests,      \* API requests that may run at the same time
    Nonces,        \* request nonces
    MinTtl,        \* min_expiry_window_secs
    MaxTtl,        \* MAX_EXPIRY_WINDOW_SECS
    BatchSize,     \* EXPIRY_BATCH_SIZE
    FirstOwner,    \* the owner of each contract at the start
    None,          \* no lock holder
    MaxTime        \* bound of the clock

Sweeper == "sweeper"

ASSUME OwnershipAssumption ==
    /\ MinTtl \in Nat /\ MaxTtl \in Nat /\ MaxTime \in Nat
    /\ BatchSize \in Nat \ {0}
    /\ FirstOwner \in [Contracts -> Publishers]
    /\ None \notin Requests /\ Sweeper \notin Requests /\ None # Sweeper

VARIABLES
    clock,
    owner,   \* contracts.publisher_id
    row,     \* row[t]: the ownership_transfers row, or NoRow
    log,     \* log[t]: the actions of its ownership_transfer_logs rows
    lockC,   \* holder of the lock on a contract's row
    lockT,   \* holder of the lock on a transfer's row
    step,    \* where a request stands
    call,    \* what it asks for
    now,     \* Utc::now() when its handler started
    txNow,   \* NOW() in its transaction, the time the transaction began
    swept    \* rows the sweeper has claimed

dbVars   == <<owner, row, log>>
lockVars == <<lockC, lockT>>
reqVars  == <<step, call, now, txNow>>
vars == <<clock, owner, row, log, lockC, lockT, step, call, now, txNow, swept>>

Times == 0..MaxTime

NoRow == [status |-> "none"]
Statuses == {"pending", "completed", "rejected", "expired"}
Rows == [status : Statuses, contract : Contracts, from : Publishers,
         to : Publishers, expires : 0..(MaxTime + MaxTtl), nonce : Nonces]

CreateCalls  == [kind : {"create"}, actor : Publishers, contract : Contracts,
                 to : Publishers, expires : 0..(MaxTime + MaxTtl), nonce : Nonces]
ConfirmCalls == [kind : {"accept", "reject"}, actor : Publishers, id : Transfers]
PatchCalls   == [kind : {"patch"}, actor : Publishers, contract : Contracts,
                 to : Publishers]
NoCall == [kind |-> "none"]
Calls  == CreateCalls \cup ConfirmCalls \cup PatchCalls \cup {NoCall}

Steps == {"idle", "begin", "lock", "contract", "both", "patch"}

TypeOK ==
    /\ clock \in Times
    /\ owner \in [Contracts -> Publishers]
    /\ row \in [Transfers -> Rows \cup {NoRow}]
    /\ log \in [Transfers -> Seq(Statuses)]
    /\ lockC \in [Contracts -> Requests \cup {None}]
    /\ lockT \in [Transfers -> Requests \cup {None, Sweeper}]
    /\ step \in [Requests -> Steps]
    /\ call \in [Requests -> Calls]
    /\ now \in [Requests -> Times] /\ txNow \in [Requests -> Times]
    /\ swept \subseteq Transfers

Init ==
    /\ clock = 0
    /\ owner = FirstOwner
    /\ row = [t \in Transfers |-> NoRow]
    /\ log = [t \in Transfers |-> <<>>]
    /\ lockC = [c \in Contracts |-> None]
    /\ lockT = [t \in Transfers |-> None]
    /\ step = [r \in Requests |-> "idle"]
    /\ call = [r \in Requests |-> NoCall]
    /\ now = [r \in Requests |-> 0] /\ txNow = [r \in Requests |-> 0]
    /\ swept = {}

Exists(t)     == row[t] # NoRow
Live(t)       == row[t].status = "pending"     \* "confirmed" is never written
PastDue(t, m) == Live(t) /\ row[t].expires <= m

----------------------------------------------------------------------------
(* Writing rows. *)

\* write_ownership_transfer_log, one history row per transfer of T, in the
\* transaction that changes the rows themselves.
WriteLog(T, status) ==
    log' = [t \in Transfers |-> IF t \in T THEN Append(log[t], status) ELSE log[t]]

SetStatus(T, status) ==
    /\ row' = [t \in Transfers |->
                  IF t \in T THEN [row[t] EXCEPT !.status = status] ELSE row[t]]
    /\ WriteLog(T, status)

\* Mutant: the contract's lock outlives the request.
EndLeaking(r) ==
    /\ step' = [step EXCEPT ![r] = "idle"]
    /\ call' = [call EXCEPT ![r] = NoCall]
    /\ now' = [now EXCEPT ![r] = 0] /\ txNow' = [txNow EXCEPT ![r] = 0]
    /\ lockC' = lockC
    /\ lockT' = [t \in Transfers |-> IF lockT[t] = r THEN None ELSE lockT[t]]

\* The request returns; its transaction, if any, is over and its locks go.
End(r) ==
    /\ step' = [step EXCEPT ![r] = "idle"]
    /\ call' = [call EXCEPT ![r] = NoCall]
    /\ now' = [now EXCEPT ![r] = 0] /\ txNow' = [txNow EXCEPT ![r] = 0]
    /\ lockC' = [c \in Contracts |-> IF lockC[c] = r THEN None ELSE lockC[c]]
    /\ lockT' = [t \in Transfers |-> IF lockT[t] = r THEN None ELSE lockT[t]]

----------------------------------------------------------------------------
(* Requests: arrival, transaction, locks. *)

Arrive(r, c, s) ==
    /\ step[r] = "idle"
    /\ step' = [step EXCEPT ![r] = s]
    /\ call' = [call EXCEPT ![r] = c]
    /\ now' = [now EXCEPT ![r] = clock]
    /\ UNCHANGED <<clock, owner, row, log, lockC, lockT, txNow, swept>>

\* create_ownership_transfer up to its transaction: the expiry window is
\* checked against the clock.
StartCreate(r) ==
    \E a, to \in Publishers, c \in Contracts, n \in Nonces,
       e \in (clock + MinTtl)..(clock + MaxTtl) :
        Arrive(r, [kind |-> "create", actor |-> a, contract |-> c, to |-> to,
                   expires |-> e, nonce |-> n], "begin")

\* confirm_ownership_transfer up to its transaction: the contract to lock is
\* read from the transfer's row, which never changes it.
StartConfirm(r) ==
    \E a \in Publishers, t \in Transfers, k \in {"accept", "reject"} :
        Exists(t) /\ Arrive(r, [kind |-> k, actor |-> a, id |-> t], "begin")

\* change_contract_publisher up to its UPDATE: the caller owns the contract
\* when the row is read, without a lock.
StartPatch(r) ==
    \E a, to \in Publishers, c \in Contracts :
        /\ owner[c] = a
        /\ Arrive(r, [kind |-> "patch", actor |-> a, contract |-> c, to |-> to],
                  "patch")

BeginTx(r) ==
    /\ step[r] = "begin"
    /\ step' = [step EXCEPT ![r] = "lock"]
    /\ txNow' = [txNow EXCEPT ![r] = clock]
    /\ UNCHANGED <<clock, owner, row, log, lockC, lockT, call, now, swept>>

ContractOf(r) ==
    IF call[r].kind = "create" THEN call[r].contract ELSE row[call[r].id].contract

LockContract(r) ==
    /\ step[r] = "lock" /\ lockC[ContractOf(r)] = None
    /\ lockC' = [lockC EXCEPT ![ContractOf(r)] = r]
    /\ step' = [step EXCEPT ![r] = "contract"]
    /\ UNCHANGED <<clock, owner, row, log, lockT, call, now, txNow, swept>>

LockTransfer(r) ==
    /\ step[r] = "contract" /\ call[r].kind \in {"accept", "reject"}
    /\ lockT[call[r].id] = None
    /\ lockT' = [lockT EXCEPT ![call[r].id] = r]
    /\ step' = [step EXCEPT ![r] = "both"]
    /\ UNCHANGED <<clock, owner, row, log, lockC, call, now, txNow, swept>>

----------------------------------------------------------------------------
(* create_ownership_transfer under the contract's lock. *)

LiveExists(c) == \E t \in Transfers : Live(t) /\ row[t].contract = c

\* uq_ownership_transfers_request_nonce
NonceUsed(n) == \E t \in Transfers : Exists(t) /\ row[t].nonce = n

\* The expiry must also be later than created_at, which is NOW().
MayCreate(r) ==
    /\ owner[call[r].contract] = call[r].actor
    /\ call[r].to # call[r].actor
    /\ ~LiveExists(call[r].contract)
    /\ ~NonceUsed(call[r].nonce)
    /\ call[r].expires > txNow[r]

CreateTransfer(r) ==
    /\ step[r] = "contract" /\ call[r].kind = "create" /\ MayCreate(r)
    /\ \E t \in Transfers :
        /\ ~Exists(t)
        /\ row' = [row EXCEPT ![t] =
                      [status |-> "pending", contract |-> call[r].contract,
                       from |-> call[r].actor, to |-> call[r].to,
                       expires |-> call[r].expires, nonce |-> call[r].nonce]]
        /\ WriteLog({t}, "pending")
    /\ End(r)
    /\ UNCHANGED <<clock, owner, swept>>

\* 403, 400 or 409: the transaction rolls back.
RefuseCreate(r) ==
    /\ step[r] = "contract" /\ call[r].kind = "create" /\ ~MayCreate(r)
    /\ End(r)
    /\ UNCHANGED <<clock, owner, row, log, swept>>

----------------------------------------------------------------------------
(* confirm_ownership_transfer under both locks. *)

\* require_transfer_action: the recipient may accept or reject, the sender
\* may reject.
Authorized(r) ==
    LET t == call[r].id
    IN  \/ call[r].actor = row[t].to
        \/ call[r].actor = row[t].from /\ call[r].kind = "reject"

Deciding(r) == step[r] = "both" /\ Authorized(r)

\* The expiry seen by the handler is committed although the answer is a 409.
ExpireOnAccess(r) ==
    /\ Deciding(r) /\ PastDue(call[r].id, now[r])
    /\ SetStatus({call[r].id}, "expired")
    /\ End(r)
    /\ UNCHANGED <<clock, owner, swept>>

\* Mutant: the owner is overwritten without the compare-and-swap.
MayAcceptAnyOwner(r) ==
    LET t == call[r].id
    IN  Live(t) /\ ~PastDue(t, now[r]) /\ row[t].expires > txNow[r]

\* The guarded UPDATE of the transfer, then the compare-and-swap of the owner.
MayAccept(r) ==
    LET t == call[r].id
    IN  /\ Live(t) /\ ~PastDue(t, now[r])
        /\ row[t].expires > txNow[r]
        /\ owner[row[t].contract] = row[t].from

\* Mutant: acceptance first reaches the 'confirmed' state of issue #1058.
AcceptPartly(r) ==
    /\ Deciding(r) /\ call[r].kind = "accept" /\ MayAccept(r)
    /\ SetStatus({call[r].id}, "confirmed")
    /\ End(r)
    /\ UNCHANGED <<clock, owner, swept>>

Accept(r) ==
    LET t == call[r].id
    IN  /\ Deciding(r) /\ call[r].kind = "accept" /\ MayAccept(r)
        /\ SetStatus({t}, "completed")
        /\ owner' = [owner EXCEPT ![row[t].contract] = row[t].to]
        /\ End(r)
        /\ UNCHANGED <<clock, swept>>

Reject(r) ==
    LET t == call[r].id
    IN  /\ Deciding(r) /\ call[r].kind = "reject"
        /\ Live(t) /\ ~PastDue(t, now[r])
        /\ SetStatus({t}, "rejected")
        /\ End(r)
        /\ UNCHANGED <<clock, owner, swept>>

\* 403 or 409: not authorized, decided already, or the owner has changed.
RefuseConfirm(r) ==
    LET t == call[r].id
    IN  /\ step[r] = "both"
        /\ \/ ~Authorized(r)
           \/ ~Live(t)
           \/ call[r].kind = "accept" /\ ~PastDue(t, now[r]) /\ ~MayAccept(r)
        /\ End(r)
        /\ UNCHANGED <<clock, owner, row, log, swept>>

----------------------------------------------------------------------------
(* change_contract_publisher: one UPDATE, which waits for the row's lock. *)

Patch(r) ==
    /\ step[r] = "patch" /\ lockC[call[r].contract] = None
    /\ owner' = [owner EXCEPT ![call[r].contract] = call[r].to]
    /\ End(r)
    /\ UNCHANGED <<clock, row, log, swept>>

\* Any other error, a lost connection or the end of the API process.
Abort(r) ==
    /\ step[r] # "idle"
    /\ End(r)
    /\ UNCHANGED <<clock, owner, row, log, swept>>

----------------------------------------------------------------------------
(* Expiry outside a request. *)

\* expire_transfer_if_due and expire_due_transfers_for_contract, before the
\* read endpoints answer: the UPDATE waits for the row's lock.
ExpireOnRead(t) ==
    /\ lockT[t] = None /\ PastDue(t, clock)
    /\ SetStatus({t}, "expired")
    /\ UNCHANGED <<clock, owner, lockC, lockT, step, call, now, txNow, swept>>

\* expire_due_transfers: a transaction claims the past-due rows that nobody has
\* locked, the earliest first, at most a batch of them.
SweepClaim ==
    LET free == {t \in Transfers : PastDue(t, clock) /\ lockT[t] = None}
    IN  /\ swept = {}
        /\ \E S \in SUBSET free :
            /\ S # {} /\ Cardinality(S) <= BatchSize
            /\ S = free \/ Cardinality(S) = BatchSize
            /\ \A s \in S, t \in free \ S : row[s].expires <= row[t].expires
            /\ swept' = S
            /\ lockT' = [t \in Transfers |-> IF t \in S THEN Sweeper ELSE lockT[t]]
        /\ UNCHANGED <<clock, owner, row, log, lockC, step, call, now, txNow>>

\* The end of the sweep's transaction.
Unclaim ==
    /\ swept' = {}
    /\ lockT' = [t \in Transfers |-> IF t \in swept THEN None ELSE lockT[t]]
    /\ UNCHANGED <<clock, owner, lockC, step, call, now, txNow>>

\* Mutant: the transaction is dropped without a commit.
SweepCommitMissing == swept # {} /\ Unclaim /\ UNCHANGED <<row, log>>

SweepCommit == swept # {} /\ SetStatus(swept, "expired") /\ Unclaim

\* The sweep fails and rolls back; the next tick of the interval tries again.
SweepAbort == swept # {} /\ Unclaim /\ UNCHANGED <<row, log>>

Tick ==
    /\ clock < MaxTime
    /\ clock' = clock + 1
    /\ UNCHANGED <<owner, row, log, lockC, lockT, step, call, now, txNow, swept>>

----------------------------------------------------------------------------
Start(r)  == StartCreate(r) \/ StartConfirm(r) \/ StartPatch(r)
Lock(r)   == LockContract(r) \/ LockTransfer(r)
Decide(r) ==
    \/ CreateTransfer(r) \/ RefuseCreate(r)
    \/ ExpireOnAccess(r) \/ Accept(r) \/ Reject(r) \/ RefuseConfirm(r)

Next ==
    \/ \E r \in Requests : Start(r) \/ BeginTx(r) \/ Lock(r) \/ Decide(r)
                           \/ Patch(r) \/ Abort(r)
    \/ \E t \in Transfers : ExpireOnRead(t)
    \/ SweepClaim \/ SweepCommit \/ SweepAbort
    \/ Tick

Spec == Init /\ [][Next]_vars

\* A request that has arrived is run; a waiter for a row lock gets it in its
\* turn (PostgreSQL queues them); the sweeper's interval keeps firing, so that it
\* meets a row unlocked some time (SKIP LOCKED passes over it otherwise), and a
\* sweep does not fail for ever.  Nobody has to send a request.
Fairness ==
    /\ SF_vars(SweepClaim) /\ SF_vars(SweepCommit)
    /\ \A r \in Requests :
        /\ WF_vars(BeginTx(r) \/ Decide(r))
        /\ SF_vars(Lock(r) \/ Patch(r))

FairSpec == Spec /\ Fairness
----------------------------------------------------------------------------
(* Properties. *)

\* Every transaction that commits is one atomic step of the promised history:
\* a transfer completes in the step in which its sender's contract passes to
\* its recipient, at most once, no closed transfer changes again, a contract
\* has at most one live transfer, and the log of each tells its state (I1, I2, I4,
\* I5 of handlers.rs).
Shown(x) == IF x = NoRow THEN x
            ELSE [status |-> x.status, contract |-> x.contract,
                  from |-> x.from, to |-> x.to]
History == INSTANCE OwnershipHistory WITH row <- [t \in Transfers |-> Shown(row[t])]
Implements == History!Spec

\* Two requests never wait for each other's locks for ever (lock order contracts,
\* ownership_transfers), and no request waits for the sweeper for ever.
EveryRequestEnds == \A r \in Requests : step[r] # "idle" ~> step[r] = "idle"

\* A transfer nobody looks at again still leaves the live states once it is past
\* due (the sweeper is the backstop), which frees its contract for a new one.
PastDueCloses == \A t \in Transfers : PastDue(t, clock) ~> ~Live(t)

\* I3: "A transfer whose `expires_at` has passed never reaches `completed`".
NeverCompletedPastDue ==
    [][\A t \in Transfers :
          Live(t) /\ row'[t].status = "completed" => clock < row[t].expires]_vars
=============================================================================
