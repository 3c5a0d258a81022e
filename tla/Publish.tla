------------------------------ MODULE Publish ------------------------------
(***************************************************************************)
(* POST /api/contracts (api/src/handlers.rs, cache.rs): publishing under   *)
(* an Idempotency-Key.  A request claims its key with SET NX EX, or reads  *)
(* what the key holds; a fresh one looks the contract up, inserts it,      *)
(* writes its audit entry and announces it, each in a statement of its     *)
(* own; and then the key takes the response, or is released.               *)
(*                                                                         *)
(* A key stands for one operation of one publisher: whoever retries it     *)
(* sends the same body.  An address is a contract id on a network.         *)
(***************************************************************************)
EXTENDS Naturals, FiniteSets

CONSTANTS
    Keys, Requests, Addresses, Hashes, Publishers,
    BodyOf,      \* BodyOf[k]: what the client of key k publishes
    Expiring,    \* whether locks and responses outlive their TTL
    None,        \* no key, no row, no value
    Locked,      \* IDEMPOTENCY_IN_PROGRESS
    MaxFaults    \* bound of the number of faults

Rows == [address : Addresses, hash : Hashes, owner : Publishers]

ASSUME PublishAssumption ==
    /\ BodyOf \in [Keys -> Rows]
    /\ Expiring \in BOOLEAN /\ MaxFaults \in Nat
    /\ None \notin Keys \cup Rows /\ Locked \notin Rows /\ None # Locked

VARIABLES
    store,      \* the idempotency entries in Redis
    contract,   \* contract[a]: the contracts row with that address, or None
    audits,     \* its ContractPublished audit entries
    deployed,   \* its ContractDeployed events
    step,       \* where a request's handler stands
    key, body,  \* its Idempotency-Key, if any, and what it publishes
    result,     \* what publish_contract_inner returned
    told,       \* told[k]: the rows its client was answered with
    client,     \* client[k]: "open" while the client has no final answer
    faults

vars == <<store, contract, audits, deployed, step, key, body, result, told,
          client, faults>>
dbVars  == <<contract, audits, deployed>>
reqVars == <<key, body, result>>

\* What a handler answers; the status code of an error, or "ok".
Answers == {"ok", "conflict", "forbidden", "inProgress", "error"}
Final   == {"ok", "conflict", "forbidden"}

Steps == {"idle", "claim", "get", "check", "insert", "audit", "announce",
          "complete", "release"}

TypeOK ==
    /\ store \in [Keys -> Rows \cup {None, Locked}]
    /\ contract \in [Addresses -> Rows \cup {None}]
    /\ audits \in [Addresses -> Nat] /\ deployed \in [Addresses -> Nat]
    /\ step \in [Requests -> Steps]
    /\ key \in [Requests -> Keys \cup {None}]
    /\ body \in [Requests -> Rows \cup {None}]
    /\ result \in [Requests -> Answers \cup {None}]
    /\ told \in [Keys -> SUBSET Rows]
    /\ client \in [Keys -> {"open", "ok", "refused"}]
    /\ faults \in 0..MaxFaults

Init ==
    /\ store = [k \in Keys |-> None]
    /\ contract = [a \in Addresses |-> None]
    /\ audits = [a \in Addresses |-> 0] /\ deployed = [a \in Addresses |-> 0]
    /\ step = [r \in Requests |-> "idle"]
    /\ key = [r \in Requests |-> None] /\ body = [r \in Requests |-> None]
    /\ result = [r \in Requests |-> None]
    /\ told = [k \in Keys |-> {}]
    /\ client = [k \in Keys |-> "open"]
    /\ faults = 0

Fault == faults < MaxFaults /\ faults' = faults + 1

Goto(r, s) == step' = [step EXCEPT ![r] = s]

\* The handler is over.
Leave(r) ==
    /\ Goto(r, "idle")
    /\ key' = [key EXCEPT ![r] = None] /\ body' = [body EXCEPT ![r] = None]
    /\ result' = [result EXCEPT ![r] = None]

\* The handler answers, with the row if the answer is "ok".
Answer(r, a, row) ==
    /\ Leave(r)
    /\ told' = IF key[r] # None /\ a = "ok"
               THEN [told EXCEPT ![key[r]] = @ \cup {row}] ELSE told
    /\ client' = IF key[r] = None \/ a \notin Final \/ client[key[r]] # "open"
                 THEN client
                 ELSE [client EXCEPT ![key[r]] = IF a = "ok" THEN "ok" ELSE "refused"]

----------------------------------------------------------------------------
(* The key. *)

\* A client sends its request, again if it has no final answer.
Send(r, k) ==
    /\ step[r] = "idle" /\ client[k] = "open"
    /\ Goto(r, "claim")
    /\ key' = [key EXCEPT ![r] = k] /\ body' = [body EXCEPT ![r] = BodyOf[k]]
    /\ UNCHANGED <<store, dbVars, result, told, client, faults>>

\* A request without an Idempotency-Key.
SendPlain(r) ==
    /\ step[r] = "idle"
    /\ Goto(r, "check")
    /\ \E b \in Rows : body' = [body EXCEPT ![r] = b]
    /\ UNCHANGED <<store, dbVars, key, result, told, client, faults>>

\* claim_idempotency_key: SET NX.
ClaimKey(r) ==
    /\ step[r] = "claim"
    /\ IF store[key[r]] = None
       THEN /\ store' = [store EXCEPT ![key[r]] = Locked]
            /\ Goto(r, "check")
       ELSE Goto(r, "get") /\ UNCHANGED store
    /\ UNCHANGED <<dbVars, reqVars, told, client, faults>>

\* SET NX fails, or its reply is lost: that counts as a key that is taken.
ClaimError(r) ==
    /\ step[r] = "claim" /\ Fault
    /\ \/ UNCHANGED store
       \/ store[key[r]] = None /\ store' = [store EXCEPT ![key[r]] = Locked]
    /\ Goto(r, "get")
    /\ UNCHANGED <<dbVars, reqVars, told, client>>

\* Mutant: the lock is replayed like a response.
GetAnything(r) ==
    /\ step[r] = "get" /\ store[key[r]] # None
    /\ Answer(r, "ok", store[key[r]])
    /\ UNCHANGED <<store, dbVars, faults>>

\* Mutant: a request in progress is reported as a contract that is registered.
GetConflict(r) ==
    /\ step[r] = "get" /\ store[key[r]] # None
    /\ IF store[key[r]] = Locked THEN Answer(r, "conflict", None)
       ELSE Answer(r, "ok", store[key[r]])
    /\ UNCHANGED <<store, dbVars, faults>>

\* claim_idempotency_key: GET, after SET NX failed.
GetTaken(r) ==
    /\ step[r] = "get" /\ store[key[r]] # None
    /\ IF store[key[r]] = Locked THEN Answer(r, "inProgress", None)
       ELSE Answer(r, "ok", store[key[r]])
    /\ UNCHANGED <<store, dbVars, faults>>

\* The entry has gone by the time of the GET: the request goes on, without it.
GetNothing(r) ==
    /\ step[r] = "get" /\ store[key[r]] = None
    /\ Goto(r, "check")
    /\ UNCHANGED <<store, dbVars, reqVars, told, client, faults>>

\* So does a request whose GET fails.
GetError(r) ==
    /\ step[r] = "get" /\ Fault
    /\ Goto(r, "check")
    /\ UNCHANGED <<store, dbVars, reqVars, told, client>>

----------------------------------------------------------------------------
(* publish_contract_inner *)

RowOf(r) == contract[body[r].address]

\* publish_contract_inner returns; only a request with a key has more to do.
Return(r, a) ==
    IF key[r] # None
    THEN /\ Goto(r, IF a = "ok" THEN "complete" ELSE "release")
         /\ result' = [result EXCEPT ![r] = a]
         /\ UNCHANGED <<key, body, told, client>>
    ELSE Answer(r, a, RowOf(r))

\* Mutant: a registered contract with another hash is handed out as well.
CheckAnyHash(r) ==
    /\ step[r] = "check"
    /\ IF RowOf(r) = None
       THEN Goto(r, "insert") /\ UNCHANGED <<reqVars, told, client>>
       ELSE Return(r, IF RowOf(r).owner # body[r].owner THEN "forbidden" ELSE "ok")
    /\ UNCHANGED <<store, dbVars, faults>>

\* The lookup by address.
Check(r) ==
    /\ step[r] = "check"
    /\ IF RowOf(r) = None
       THEN Goto(r, "insert") /\ UNCHANGED <<reqVars, told, client>>
       ELSE Return(r, IF RowOf(r).owner # body[r].owner THEN "forbidden"
                      ELSE IF RowOf(r).hash = body[r].hash THEN "ok"
                      ELSE "conflict")
    /\ UNCHANGED <<store, dbVars, faults>>

HashTaken(h) == \E a \in Addresses : contract[a] # None /\ contract[a].hash = h

\* Mutant: an INSERT on a registered address goes through.
InsertOver(r) ==
    /\ step[r] = "insert"
    /\ contract' = [contract EXCEPT ![body[r].address] = body[r]]
    /\ Goto(r, "audit")
    /\ UNCHANGED <<store, audits, deployed, reqVars, told, client, faults>>

\* The INSERT, which the address and the hash must be free for.
Insert(r) ==
    /\ step[r] = "insert"
    /\ IF RowOf(r) # None \/ HashTaken(body[r].hash)
       THEN Return(r, "conflict") /\ UNCHANGED contract
       ELSE /\ contract' = [contract EXCEPT ![body[r].address] = body[r]]
            /\ Goto(r, "audit")
            /\ UNCHANGED <<reqVars, told, client>>
    /\ UNCHANGED <<store, audits, deployed, faults>>

\* write_contract_audit_log
Audit(r) ==
    /\ step[r] = "audit"
    /\ audits' = [audits EXCEPT ![body[r].address] = @ + 1]
    /\ Goto(r, "announce")
    /\ UNCHANGED <<store, contract, deployed, reqVars, told, client, faults>>

\* The interaction record and the event, and the contract is returned.
Announce(r) ==
    /\ step[r] = "announce"
    /\ deployed' = [deployed EXCEPT ![body[r].address] = @ + 1]
    /\ Return(r, "ok")
    /\ UNCHANGED <<store, contract, audits, faults>>

\* A statement fails; what those before it did stays.
DbError(r) ==
    /\ step[r] \in {"check", "insert", "audit", "announce"} /\ Fault
    /\ Return(r, "error")
    /\ UNCHANGED <<store, dbVars>>

----------------------------------------------------------------------------
(* The outcome. *)

\* complete_idempotency_key
Complete(r) ==
    /\ step[r] = "complete"
    /\ store' = [store EXCEPT ![key[r]] = RowOf(r)]
    /\ Answer(r, "ok", RowOf(r))
    /\ UNCHANGED <<dbVars, faults>>

\* release_idempotency_key: the entry is deleted, whoever wrote it.
Release(r) ==
    /\ step[r] = "release"
    /\ store' = [store EXCEPT ![key[r]] = None]
    /\ Answer(r, result[r], None)
    /\ UNCHANGED <<dbVars, faults>>

\* Redis fails; the answer goes out all the same.
StoreError(r) ==
    /\ step[r] \in {"complete", "release"} /\ Fault
    /\ Answer(r, result[r], IF result[r] = "ok" THEN RowOf(r) ELSE None)
    /\ UNCHANGED <<store, dbVars>>

\* The client disconnects or the process ends: the handler stops where it is.
Drop(r) ==
    /\ step[r] # "idle" /\ Fault
    /\ Leave(r)
    /\ UNCHANGED <<store, dbVars, told, client>>

\* Mutant: the lock has no TTL.
EvictResponse(k) ==
    /\ Expiring /\ store[k] \notin {None, Locked}
    /\ store' = [store EXCEPT ![k] = None]
    /\ UNCHANGED <<dbVars, step, reqVars, told, client, faults>>

\* The TTL of an entry is over.
Evict(k) ==
    /\ Expiring /\ store[k] # None
    /\ store' = [store EXCEPT ![k] = None]
    /\ UNCHANGED <<dbVars, step, reqVars, told, client, faults>>

Serve(r) ==
    \/ ClaimKey(r) \/ GetTaken(r) \/ GetNothing(r) \/ Check(r) \/ Insert(r)
    \/ Audit(r) \/ Announce(r) \/ Complete(r) \/ Release(r)

Next ==
    \/ \E r \in Requests :
          \/ Serve(r) \/ SendPlain(r) \/ \E k \in Keys : Send(r, k)
          \/ ClaimError(r) \/ GetError(r) \/ DbError(r) \/ StoreError(r) \/ Drop(r)
    \/ \E k \in Keys : Evict(k)

Spec == Init /\ [][Next]_vars

\* Handlers run, entries expire, and a client without a final answer goes on
\* sending its request.
Fairness ==
    /\ \A r \in Requests : WF_vars(Serve(r))
    /\ \A k \in Keys : WF_vars(Evict(k))
    /\ \A k \in Keys : SF_vars(\E r \in Requests : Send(r, k))

FairSpec == Spec /\ Fairness

----------------------------------------------------------------------------
(* Properties. *)

\* Whatever is replayed from Redis, found or inserted, and whichever requests
\* overlap, an "ok" under a key hands out the row of the key's own operation,
\* and the database holds that row (idempotency_publish_tests.rs:138-151).
OkIsMine ==
    \A k \in Keys : told[k] # {} =>
        told[k] = {BodyOf[k]} /\ contract[BodyOf[k].address] = BodyOf[k]

\* Retries and overlapping requests audit and announce a contract at most once,
\* an announced contract is audited, and nothing is said of one that does not
\* exist (handlers.rs:4854-4940).
OnceEach ==
    \A a \in Addresses :
        /\ deployed[a] <= audits[a] /\ audits[a] <= 1
        /\ contract[a] = None => audits[a] = 0

\* A client that is refused for good finds its address or its hash registered:
\* "in progress" and errors leave the operation open (handlers.rs:4603-4608).
RefusedIsTaken ==
    \A k \in Keys : client[k] = "refused" =>
        \/ contract[BodyOf[k].address] # None
        \/ HashTaken(BodyOf[k].hash)

\* A client that goes on retrying gets a final answer, also when a handler was
\* dropped and left its lock behind (cache.rs:13-15).
EveryKeySettles == \A k \in Keys : client[k] = "open" ~> client[k] # "open"
=============================================================================
