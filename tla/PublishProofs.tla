---------------------------- MODULE PublishProofs ----------------------------
(***************************************************************************)
(* Proofs about publishing under an Idempotency-Key, for every set of      *)
(* keys, requests, addresses, hashes and publishers and every number of    *)
(* faults, whether entries expire or not: an "ok" hands out the row of its *)
(* own operation, which is audited and announced at most once, and a final *)
(* refusal has a reason.                                                   *)
(***************************************************************************)
EXTENDS Publish, TLAPS

Taken(b) == contract[b.address] # None \/ HashTaken(b.hash)

\* An idle handler has no key, one that runs has a body (its key's, with a key);
\* from the insertion on its contract is registered; and its outcome fits what it
\* still has to do.
RequestsFit ==
    \A r \in Requests :
        /\ step[r] = "idle" => key[r] = None
        /\ step[r] # "idle" =>
              body[r] \in Rows /\ (key[r] # None => body[r] = BodyOf[key[r]])
        /\ step[r] \in {"claim", "get", "complete", "release"} => key[r] # None
        /\ step[r] \in {"audit", "announce", "complete"} => RowOf(r) = body[r]
        /\ step[r] = "complete" => result[r] = "ok"
        /\ step[r] = "release" =>
              /\ result[r] # "ok"
              /\ result[r] \in {"conflict", "forbidden"} => Taken(body[r])

\* A row stands at its own address.
ContractsFit == \A a \in Addresses : contract[a] # None => contract[a].address = a

\* A stored response is the row of the key's operation.
StoreFits ==
    \A k \in Keys : store[k] \in Rows =>
        store[k] = BodyOf[k] /\ contract[BodyOf[k].address] = BodyOf[k]

\* Between the insertion and the announcement a contract has one handler, and
\* its counters are where that handler has brought them.
Counted ==
    \A r \in Requests :
        /\ step[r] = "audit" => audits[body[r].address] = 0
        /\ step[r] = "announce" =>
              audits[body[r].address] = 1 /\ deployed[body[r].address] = 0

Alone ==
    \A q, r \in Requests :
        /\ step[q] \in {"audit", "announce"} /\ step[r] \in {"audit", "announce"}
        /\ body[q].address = body[r].address
        => q = r

Inv ==
    /\ TypeOK /\ RequestsFit /\ ContractsFit /\ StoreFits
    /\ OkIsMine /\ Counted /\ Alone /\ OnceEach /\ RefusedIsTaken

-----------------------------------------------------------------------------
\* At first there is nothing.
LEMMA InvInit == Init => Inv
  BY PublishAssumption
     DEF Init, Inv, TypeOK, Rows, Steps, RequestsFit, ContractsFit, StoreFits, OkIsMine,
         Counted, Alone, OnceEach, RefusedIsTaken

\* The parts of Inv that only the database and the handlers' steps concern.
DbInv == ContractsFit /\ OnceEach

\* The contracts stay, and so do the counters the other handlers rely on.
DbStays(r) ==
    /\ UNCHANGED <<contract, audits>> /\ deployed' \in [Addresses -> Nat] /\ OnceEach'
    /\ \A q \in Requests \ {r} :
          step[q] = "announce" =>
              deployed'[body[q].address] = deployed[body[q].address]

\* An action that leaves the database alone.
LEMMA SameDb == ASSUME Inv, NEW r \in Requests, UNCHANGED dbVars PROVE DbStays(r)
  BY DEF Inv, TypeOK, OnceEach, DbStays, dbVars

\* A handler that leaves, and the others where they were.
LEMMA LeaveMoves ==
    ASSUME Inv, NEW r \in Requests, Leave(r)
    PROVE  /\ step' \in [Requests -> Steps] /\ key' \in [Requests -> Keys \cup {None}]
           /\ body' \in [Requests -> Rows \cup {None}]
           /\ result' \in [Requests -> Answers \cup {None}]
           /\ step'[r] = "idle" /\ key'[r] = None
           /\ \A q \in Requests \ {r} :
                 /\ step'[q] = step[q] /\ key'[q] = key[q]
                 /\ body'[q] = body[q] /\ result'[q] = result[q]
  BY DEF Inv, TypeOK, Leave, Goto, Steps

\* The database is the same and no handler moves on: the invariants of the
\* handlers stay.
LEMMA LeaveFits ==
    ASSUME Inv, NEW r \in Requests, Leave(r), DbStays(r)
    PROVE  RequestsFit' /\ Counted' /\ Alone' /\ DbInv'
  <1>1. /\ step'[r] = "idle" /\ key'[r] = None
        /\ \A q \in Requests \ {r} :
              /\ step'[q] = step[q] /\ key'[q] = key[q]
              /\ body'[q] = body[q] /\ result'[q] = result[q]
    BY LeaveMoves
  <1>2. RequestsFit'
    BY <1>1 DEF Inv, RequestsFit, RowOf, Taken, HashTaken, DbStays
  <1>3. Counted'
    BY <1>1 DEF Inv, Counted, DbStays
  <1>4. Alone'
    BY <1>1 DEF Inv, Alone
  <1>5. DbInv'
    BY DEF Inv, DbInv, ContractsFit, DbStays
  <1> QED
    BY <1>2, <1>3, <1>4, <1>5

\* An answer that fits the operation.
LEMMA AnswerFits ==
    ASSUME Inv, NEW r \in Requests, NEW a, NEW row, Answer(r, a, row), DbStays(r),
           store' \in [Keys -> Rows \cup {None, Locked}], StoreFits',
           faults' \in 0..MaxFaults, body[r] \in Rows,
           key[r] # None => body[r] = BodyOf[key[r]],
           key[r] # None /\ a = "ok" => row = body[r] /\ RowOf(r) = body[r],
           key[r] # None /\ a \in {"conflict", "forbidden"} => Taken(body[r])
    PROVE  Inv'
  <1>1. Leave(r)
    BY DEF Answer
  <1>2. key[r] \in Keys \cup {None}
    BY DEF Inv, TypeOK
  <1>3. told' \in [Keys -> SUBSET Rows]
    BY <1>2 DEF Answer, Inv, TypeOK
  <1>4. client' \in [Keys -> {"open", "ok", "refused"}]
    BY <1>2 DEF Answer, Inv, TypeOK
  <1>5. TypeOK'
    BY <1>1, <1>3, <1>4, LeaveMoves DEF Inv, TypeOK, DbStays
  <1>6. OkIsMine'
    <2>1. ASSUME NEW k \in Keys, told'[k] # {}
          PROVE  told'[k] = {BodyOf[k]} /\ contract[BodyOf[k].address] = BodyOf[k]
      <3>1. CASE told'[k] = told[k]
        BY <2>1, <3>1 DEF Inv, OkIsMine
      <3>2. CASE k = key[r] /\ a = "ok" /\ told'[k] = told[k] \cup {row}
        <4>1. row = BodyOf[k] /\ contract[BodyOf[k].address] = BodyOf[k]
          BY <3>2, PublishAssumption DEF RowOf
        <4>2. told[k] \subseteq {BodyOf[k]}
          BY DEF Inv, OkIsMine
        <4> QED
          BY <3>2, <4>1, <4>2
      <3> QED
        BY <1>2, <3>1, <3>2 DEF Answer, Inv, TypeOK
    <2> QED
      BY <2>1 DEF OkIsMine, DbStays
  <1>7. RefusedIsTaken'
    <2>1. ASSUME NEW k \in Keys, client'[k] = "refused"
          PROVE  Taken(BodyOf[k])
      <3>1. CASE client'[k] = client[k]
        BY <2>1, <3>1 DEF Inv, RefusedIsTaken, Taken
      <3>2. CASE k = key[r] /\ a \in Final /\ a # "ok"
        BY <3>2, PublishAssumption DEF Final
      <3> QED
        BY <1>2, <2>1, <3>1, <3>2 DEF Answer, Inv, TypeOK
    <2> QED
      BY <2>1 DEF RefusedIsTaken, Taken, HashTaken, DbStays
  <1> QED
    BY <1>1, <1>5, <1>6, <1>7, LeaveFits DEF Inv, DbInv

\* A handler that moves on in the same request, the database as it was.
LEMMA GotoFits ==
    ASSUME Inv, NEW r \in Requests, NEW s \in Steps, Goto(r, s),
           DbStays(r), UNCHANGED <<key, body, told, client>>,
           result' \in [Requests -> Answers \cup {None}],
           \A q \in Requests \ {r} : result'[q] = result[q],
           store' \in [Keys -> Rows \cup {None, Locked}], StoreFits',
           faults' \in 0..MaxFaults, step[r] # "idle",
           s \in {"check", "get", "insert", "complete", "release"},
           s \in {"get", "complete", "release"} => key[r] # None,
           s = "complete" => result'[r] = "ok" /\ RowOf(r) = body[r],
           s = "release" =>
              /\ result'[r] # "ok"
              /\ result'[r] \in {"conflict", "forbidden"} => Taken(body[r])
    PROVE  Inv'
  <1>1. /\ step' \in [Requests -> Steps] /\ step'[r] = s
        /\ \A q \in Requests \ {r} : step'[q] = step[q]
    BY DEF Goto, Inv, TypeOK
  <1>2. TypeOK'
    BY <1>1 DEF Inv, TypeOK, DbStays
  <1>3. RequestsFit'
    BY <1>1 DEF Inv, RequestsFit, RowOf, Taken, HashTaken, DbStays
  <1>4. Counted' /\ Alone'
    BY <1>1 DEF Inv, Counted, Alone, DbStays
  <1>5. ContractsFit' /\ OnceEach' /\ OkIsMine' /\ RefusedIsTaken'
    BY DEF Inv, ContractsFit, OnceEach, OkIsMine, RefusedIsTaken, HashTaken, DbStays
  <1> QED
    BY <1>2, <1>3, <1>4, <1>5 DEF Inv

\* publish_contract_inner returns, with a key or without.
LEMMA ReturnFits ==
    ASSUME Inv, NEW r \in Requests, NEW a \in Answers, Return(r, a), DbStays(r),
           UNCHANGED store, faults' \in 0..MaxFaults,
           step[r] \in {"check", "insert", "audit", "announce"},
           a = "ok" => RowOf(r) = body[r],
           a \in {"conflict", "forbidden"} => Taken(body[r])
    PROVE  Inv'
  <1>1. body[r] \in Rows /\ (key[r] # None => body[r] = BodyOf[key[r]])
    BY DEF Inv, RequestsFit
  <1>2. store' \in [Keys -> Rows \cup {None, Locked}] /\ StoreFits'
    BY DEF Inv, TypeOK, StoreFits, DbStays
  <1>3. CASE key[r] = None
    BY <1>1, <1>2, <1>3, AnswerFits DEF Return
  <1>4. CASE key[r] # None
    <2> DEFINE s == IF a = "ok" THEN "complete" ELSE "release"
    <2>1. s \in Steps /\ s \in {"complete", "release"} /\ (s = "complete" <=> a = "ok")
      BY DEF Steps
    <2>2. /\ Goto(r, s) /\ result' = [result EXCEPT ![r] = a]
          /\ UNCHANGED <<key, body, told, client>>
      BY <1>4 DEF Return
    <2>3. /\ result' \in [Requests -> Answers \cup {None}] /\ result'[r] = a
          /\ \A q \in Requests \ {r} : result'[q] = result[q]
      BY <2>2 DEF Inv, TypeOK
    <2>4. step[r] # "idle" OBVIOUS
    <2> HIDE DEF s
    <2> QED
      BY <1>2, <1>4, <2>1, <2>2, <2>3, <2>4, GotoFits
  <1> QED
    BY <1>3, <1>4

-----------------------------------------------------------------------------
(* The key. *)

\* The key and the body that a request without one comes with.
LEMMA SendFits ==
    ASSUME Inv, NEW r \in Requests, step[r] = "idle",
           NEW s \in {"claim", "check"}, Goto(r, s),
           NEW k \in Keys \cup {None}, key' = [key EXCEPT ![r] = k],
           NEW b \in Rows, body' = [body EXCEPT ![r] = b],
           k # None => b = BodyOf[k], s = "claim" => k # None,
           UNCHANGED <<store, dbVars, result, told, client, faults>>
    PROVE  Inv'
  <1>1. /\ step' \in [Requests -> Steps] /\ step'[r] = s
        /\ key' \in [Requests -> Keys \cup {None}] /\ key'[r] = k
        /\ body' \in [Requests -> Rows \cup {None}] /\ body'[r] = b
        /\ \A q \in Requests \ {r} :
              step'[q] = step[q] /\ key'[q] = key[q] /\ body'[q] = body[q]
    BY DEF Goto, Inv, TypeOK, Steps
  <1>2. TypeOK'
    BY <1>1 DEF Inv, TypeOK, dbVars
  <1>3. RequestsFit'
    BY <1>1 DEF Inv, RequestsFit, RowOf, Taken, HashTaken, dbVars
  <1>4. Counted' /\ Alone'
    BY <1>1 DEF Inv, Counted, Alone, dbVars
  <1>5. ContractsFit' /\ OnceEach' /\ OkIsMine' /\ RefusedIsTaken' /\ StoreFits'
    BY DEF Inv, ContractsFit, OnceEach, OkIsMine, RefusedIsTaken, StoreFits, HashTaken,
           dbVars
  <1> QED
    BY <1>2, <1>3, <1>4, <1>5 DEF Inv

\* No action puts anything but a lock or nothing into Redis, except Complete.
LEMMA StoreMoves ==
    ASSUME Inv, UNCHANGED contract, NEW k \in Keys, NEW v \in {None, Locked},
           store' = [store EXCEPT ![k] = v] \/ UNCHANGED store
    PROVE  store' \in [Keys -> Rows \cup {None, Locked}] /\ StoreFits'
  BY PublishAssumption DEF Inv, TypeOK, StoreFits

\* The faults stay within their bound.
LEMMA FaultFits == ASSUME Inv, Fault \/ UNCHANGED faults PROVE faults' \in 0..MaxFaults
  BY PublishAssumption DEF Inv, TypeOK, Fault

\* A handler that stays in its request and only claims, reads or passes its key.
LEMMA KeyFits ==
    ASSUME Inv, NEW r \in Requests, NEW s \in {"check", "get"}, Goto(r, s),
           step[r] \in {"claim", "get"},
           UNCHANGED <<dbVars, reqVars, told, client>>,
           store' = [store EXCEPT ![key[r]] = Locked] \/ UNCHANGED store,
           Fault \/ UNCHANGED faults
    PROVE  Inv'
  <1>1. key[r] \in Keys /\ key[r] # None /\ step[r] # "idle"
    BY DEF Inv, TypeOK, RequestsFit
  <1>2. store' \in [Keys -> Rows \cup {None, Locked}] /\ StoreFits'
    BY <1>1, StoreMoves DEF dbVars
  <1>3. DbStays(r) /\ faults' \in 0..MaxFaults
    BY SameDb, FaultFits
  <1>4. /\ s \in Steps /\ result' \in [Requests -> Answers \cup {None}]
        /\ UNCHANGED <<key, body, told, client, result>>
    BY DEF Steps, reqVars, Inv, TypeOK
  <1> QED
    BY <1>1, <1>2, <1>3, <1>4, GotoFits

\* The GET finds a lock, or the stored response.
LEMMA GetTakenFits == ASSUME Inv, NEW r \in Requests, GetTaken(r) PROVE Inv'
  <1>1. /\ key[r] \in Keys /\ body[r] \in Rows /\ body[r] = BodyOf[key[r]]
    BY DEF GetTaken, Inv, TypeOK, RequestsFit
  <1>2. store' \in [Keys -> Rows \cup {None, Locked}] /\ StoreFits'
    BY DEF GetTaken, Inv, TypeOK, StoreFits, dbVars
  <1>3. DbStays(r) /\ faults' \in 0..MaxFaults
    BY SameDb, FaultFits DEF GetTaken
  <1>4. CASE store[key[r]] = Locked
    BY <1>1, <1>2, <1>3, <1>4, AnswerFits DEF GetTaken
  <1>5. CASE store[key[r]] # Locked
    <2>1. store[key[r]] = body[r] /\ RowOf(r) = body[r]
      BY <1>1, <1>5 DEF GetTaken, Inv, TypeOK, StoreFits, RowOf
    <2> QED
      BY <1>1, <1>2, <1>3, <1>5, <2>1, AnswerFits DEF GetTaken
  <1> QED
    BY <1>4, <1>5

-----------------------------------------------------------------------------
(* publish_contract_inner *)

\* The lookup finds nothing, the same contract, or another one.
LEMMA CheckFits == ASSUME Inv, NEW r \in Requests, Check(r) PROVE Inv'
  <1>1. body[r] \in Rows /\ step[r] = "check"
    BY DEF Check, Inv, RequestsFit
  <1>2. DbStays(r) /\ UNCHANGED store /\ faults' \in 0..MaxFaults
    BY SameDb, FaultFits DEF Check
  <1>3. CASE RowOf(r) = None
    <2>1. /\ Goto(r, "insert") /\ "insert" \in Steps
          /\ UNCHANGED <<key, body, told, client, result>>
      BY <1>3 DEF Check, reqVars, Steps
    <2>2. /\ result' \in [Requests -> Answers \cup {None}]
          /\ store' \in [Keys -> Rows \cup {None, Locked}] /\ StoreFits'
      BY <1>2, <2>1 DEF Inv, TypeOK, StoreFits, DbStays
    <2> QED
      BY <1>1, <1>2, <2>1, <2>2, GotoFits
  <1>4. CASE RowOf(r) # None
    <2> DEFINE a == IF RowOf(r).owner # body[r].owner THEN "forbidden"
                    ELSE IF RowOf(r).hash = body[r].hash THEN "ok" ELSE "conflict"
    <2>1. Return(r, a)
      BY <1>4 DEF Check
    <2>2. a \in Answers
      BY DEF Answers
    <2>3. ASSUME a = "ok" PROVE RowOf(r) = body[r]
      <3>1. RowOf(r) \in Rows /\ RowOf(r).address = body[r].address
        BY <1>1, <1>4 DEF Inv, TypeOK, ContractsFit, RowOf, Rows
      <3>2. RowOf(r).owner = body[r].owner /\ RowOf(r).hash = body[r].hash
        BY <2>3
      <3> QED
        BY <1>1, <3>1, <3>2 DEF Rows
    <2>4. Taken(body[r])
      BY <1>4 DEF Taken, RowOf
    <2> HIDE DEF a
    <2> QED
      BY <1>1, <1>2, <2>1, <2>2, <2>3, <2>4, ReturnFits
  <1> QED
    BY <1>3, <1>4

\* The row goes in: everything that a contract's row holds up stays, for a row
\* that is there is never touched.
LEMMA InsertRow ==
    ASSUME Inv, NEW r \in Requests, step[r] = "insert", RowOf(r) = None,
           contract' = [contract EXCEPT ![body[r].address] = body[r]], Goto(r, "audit"),
           UNCHANGED <<store, audits, deployed, reqVars, told, client, faults>>
    PROVE  Inv'
  <1> PICK b \in Rows : b = body[r]
    BY DEF Inv, RequestsFit
  <1>1. /\ step' \in [Requests -> Steps] /\ step'[r] = "audit"
        /\ \A q \in Requests \ {r} : step'[q] = step[q]
        /\ UNCHANGED <<key, body, result>>
    BY DEF Goto, Inv, TypeOK, Steps, reqVars
  <1>2. b.address \in Addresses /\ b # None /\ contract[b.address] = None
    BY PublishAssumption DEF Rows, RowOf
  <1>3. /\ contract' \in [Addresses -> Rows \cup {None}] /\ contract'[b.address] = b
        /\ \A a \in Addresses : a # b.address => contract'[a] = contract[a]
    BY <1>2 DEF Inv, TypeOK
  <1>4. \A a \in Addresses : contract[a] # None => contract'[a] = contract[a]
    BY <1>2, <1>3
  <1>5. \A c \in Rows : Taken(c) => Taken(c)'
    BY <1>4 DEF Taken, HashTaken, Rows
  <1>6. TypeOK'
    BY <1>1, <1>3 DEF Inv, TypeOK
  <1>7. RequestsFit'
    <2>1. ASSUME NEW q \in Requests, step[q] \in {"audit", "announce", "complete"}
          PROVE  contract'[body[q].address] = body[q]
      <3>1. body[q] \in Rows /\ body[q] # None /\ contract[body[q].address] = body[q]
        BY <2>1, PublishAssumption DEF Inv, RequestsFit, RowOf
      <3> QED
        BY <1>4, <3>1 DEF Rows
    <2>2. ASSUME NEW q \in Requests, step[q] # "idle" PROVE body[q] \in Rows
      BY <2>2 DEF Inv, RequestsFit
    <2> QED
      BY <1>1, <1>3, <1>5, <2>1, <2>2 DEF Inv, RequestsFit, RowOf
  <1>8. ContractsFit' /\ OnceEach'
    BY <1>2, <1>3 DEF Inv, ContractsFit, OnceEach
  <1>9. StoreFits' /\ OkIsMine'
    <2>1. \A k \in Keys : BodyOf[k] \in Rows /\ BodyOf[k] # None
      BY PublishAssumption
    <2> QED
      BY <1>4, <2>1 DEF Inv, StoreFits, OkIsMine, Rows
  <1>10. Counted'
    BY <1>1, <1>2 DEF Inv, Counted, OnceEach
  <1>11. Alone'
    <2>1. ASSUME NEW q \in Requests, step[q] \in {"audit", "announce"}
          PROVE  body[q].address # b.address
      <3>1. body[q] \in Rows /\ contract[body[q].address] = body[q] /\ None \notin Rows
        BY <2>1, PublishAssumption DEF Inv, RequestsFit, RowOf
      <3> QED
        BY <1>2, <3>1
    <2> QED
      BY <1>1, <2>1 DEF Inv, Alone
  <1>12. RefusedIsTaken'
    <2>1. \A k \in Keys : BodyOf[k] \in Rows
      BY PublishAssumption
    <2> QED
      BY <1>5, <2>1 DEF Inv, RefusedIsTaken, Taken
  <1> QED
    BY <1>6, <1>7, <1>8, <1>9, <1>10, <1>11, <1>12 DEF Inv

\* The INSERT, or its conflict.
LEMMA InsertFits == ASSUME Inv, NEW r \in Requests, Insert(r) PROVE Inv'
  <1>1. CASE RowOf(r) # None \/ HashTaken(body[r].hash)
    <2>1. Return(r, "conflict") /\ "conflict" \in Answers /\ step[r] = "insert"
      BY <1>1 DEF Insert, Answers
    <2>2. DbStays(r) /\ UNCHANGED store /\ faults' \in 0..MaxFaults
      BY <1>1, SameDb, FaultFits DEF Insert, dbVars
    <2>3. Taken(body[r])
      BY <1>1 DEF Taken, RowOf
    <2> QED
      BY <2>1, <2>2, <2>3, ReturnFits
  <1>2. CASE ~(RowOf(r) # None \/ HashTaken(body[r].hash))
    BY <1>2, InsertRow DEF Insert
  <1> QED
    BY <1>1, <1>2

\* The audit entry: nobody else is at work on this contract.
LEMMA AuditFits == ASSUME Inv, NEW r \in Requests, Audit(r) PROVE Inv'
  <1> PICK b \in Rows : b = body[r]
    BY DEF Audit, Inv, RequestsFit
  <1>1. /\ step' \in [Requests -> Steps] /\ step'[r] = "announce"
        /\ \A q \in Requests \ {r} : step'[q] = step[q]
        /\ UNCHANGED <<store, contract, deployed, key, body, result, told, client, faults>>
    BY DEF Audit, Goto, Inv, TypeOK, Steps, reqVars
  <1>2. b.address \in Addresses /\ contract[b.address] # None
    BY PublishAssumption DEF Audit, Inv, RequestsFit, RowOf, Rows
  <1>3. audits[b.address] = 0 /\ deployed[b.address] = 0
    BY <1>2 DEF Audit, Inv, Counted, OnceEach, TypeOK
  <1>4. /\ audits' \in [Addresses -> Nat] /\ audits'[b.address] = 1
        /\ \A a \in Addresses : a # b.address => audits'[a] = audits[a]
    BY <1>2, <1>3 DEF Audit, Inv, TypeOK
  <1>5. TypeOK'
    BY <1>1, <1>4 DEF Inv, TypeOK
  <1>6. RequestsFit'
    BY <1>1 DEF Audit, Inv, RequestsFit, RowOf, Taken, HashTaken
  <1>7. OnceEach'
    BY <1>1, <1>2, <1>3, <1>4 DEF Inv, OnceEach
  <1>8. ASSUME NEW q \in Requests, q # r, step[q] \in {"audit", "announce"}
        PROVE  body[q].address # b.address /\ body[q].address \in Addresses
    BY <1>8 DEF Audit, Inv, Alone, RequestsFit, Rows
  <1>9. Counted'
    BY <1>1, <1>3, <1>4, <1>8 DEF Inv, Counted
  <1>10. Alone'
    BY <1>1, <1>8 DEF Inv, Alone
  <1>11. ContractsFit' /\ StoreFits' /\ OkIsMine' /\ RefusedIsTaken'
    BY <1>1 DEF Inv, ContractsFit, StoreFits, OkIsMine, RefusedIsTaken, HashTaken
  <1> QED
    BY <1>5, <1>6, <1>7, <1>9, <1>10, <1>11 DEF Inv

\* The event, and the return.
LEMMA AnnounceFits == ASSUME Inv, NEW r \in Requests, Announce(r) PROVE Inv'
  <1> PICK b \in Rows : b = body[r]
    BY DEF Announce, Inv, RequestsFit
  <1>1. b.address \in Addresses /\ RowOf(r) = body[r] /\ contract[b.address] # None
    BY PublishAssumption DEF Announce, Inv, RequestsFit, RowOf, Rows
  <1>2. audits[b.address] = 1 /\ deployed[b.address] = 0
    BY DEF Announce, Inv, Counted
  <1>3. /\ deployed' \in [Addresses -> Nat] /\ deployed'[b.address] = 1
        /\ \A a \in Addresses : a # b.address => deployed'[a] = deployed[a]
    BY <1>1, <1>2 DEF Announce, Inv, TypeOK
  <1>4. OnceEach'
    BY <1>1, <1>2, <1>3 DEF Announce, Inv, OnceEach
  <1>5. ASSUME NEW q \in Requests \ {r}, step[q] = "announce"
        PROVE  body[q].address # b.address /\ body[q].address \in Addresses
    BY <1>5 DEF Announce, Inv, Alone, RequestsFit, Rows
  <1>6. DbStays(r)
    BY <1>3, <1>4, <1>5 DEF Announce, DbStays
  <1> QED
    BY <1>1, <1>6, ReturnFits, FaultFits DEF Announce, Answers

\* A failed statement.
LEMMA DbErrorFits == ASSUME Inv, NEW r \in Requests, DbError(r) PROVE Inv'
  BY ReturnFits, SameDb, FaultFits DEF DbError, Answers

-----------------------------------------------------------------------------
(* The outcome. *)

\* The response is stored.
LEMMA CompleteFits == ASSUME Inv, NEW r \in Requests, Complete(r) PROVE Inv'
  <1>1. /\ key[r] \in Keys /\ body[r] \in Rows /\ body[r] = BodyOf[key[r]]
        /\ RowOf(r) = body[r]
    BY DEF Complete, Inv, TypeOK, RequestsFit
  <1>2. DbStays(r) /\ faults' \in 0..MaxFaults
    BY SameDb, FaultFits DEF Complete
  <1>3. /\ store' \in [Keys -> Rows \cup {None, Locked}] /\ StoreFits'
    BY <1>1 DEF Complete, Inv, TypeOK, StoreFits, RowOf, dbVars
  <1> QED
    BY <1>1, <1>2, <1>3, AnswerFits DEF Complete

\* The key is released.
LEMMA ReleaseFits == ASSUME Inv, NEW r \in Requests, Release(r) PROVE Inv'
  <1>1. /\ key[r] \in Keys /\ body[r] \in Rows /\ body[r] = BodyOf[key[r]]
        /\ result[r] # "ok"
        /\ result[r] \in {"conflict", "forbidden"} => Taken(body[r])
    BY DEF Release, Inv, TypeOK, RequestsFit
  <1>2. DbStays(r) /\ faults' \in 0..MaxFaults
    BY SameDb, FaultFits DEF Release
  <1>3. /\ store' \in [Keys -> Rows \cup {None, Locked}] /\ StoreFits'
    BY <1>1, StoreMoves DEF Release, dbVars
  <1> QED
    BY <1>1, <1>2, <1>3, AnswerFits DEF Release

\* The answer goes out without Redis.
LEMMA StoreErrorFits == ASSUME Inv, NEW r \in Requests, StoreError(r) PROVE Inv'
  <1>1. /\ key[r] \in Keys /\ body[r] \in Rows /\ body[r] = BodyOf[key[r]]
        /\ result[r] = "ok" => RowOf(r) = body[r]
        /\ result[r] \in {"conflict", "forbidden"} => Taken(body[r])
    BY DEF StoreError, Inv, TypeOK, RequestsFit
  <1>2. DbStays(r) /\ faults' \in 0..MaxFaults
    BY SameDb, FaultFits DEF StoreError
  <1>3. /\ store' \in [Keys -> Rows \cup {None, Locked}] /\ StoreFits'
    BY DEF StoreError, Inv, TypeOK, StoreFits, dbVars
  <1> PICK row : row = IF result[r] = "ok" THEN RowOf(r) ELSE None
    OBVIOUS
  <1> QED
    BY <1>1, <1>2, <1>3, AnswerFits DEF StoreError

\* The handler stops.
LEMMA DropFits == ASSUME Inv, NEW r \in Requests, Drop(r) PROVE Inv'
  <1>1. Leave(r) /\ DbStays(r) /\ faults' \in 0..MaxFaults
    BY SameDb, FaultFits DEF Drop
  <1>2. TypeOK'
    BY <1>1, LeaveMoves DEF Drop, Inv, TypeOK, dbVars
  <1>3. RequestsFit' /\ Counted' /\ Alone' /\ DbInv'
    BY <1>1, LeaveFits
  <1>4. StoreFits' /\ OkIsMine' /\ RefusedIsTaken'
    BY DEF Drop, Inv, StoreFits, OkIsMine, RefusedIsTaken, HashTaken, dbVars
  <1> QED
    BY <1>2, <1>3, <1>4 DEF Inv, DbInv

\* An entry expires.
LEMMA EvictFits == ASSUME Inv, NEW k \in Keys, Evict(k) PROVE Inv'
  <1>1. store' \in [Keys -> Rows \cup {None, Locked}] /\ StoreFits'
    BY StoreMoves DEF Evict, dbVars
  <1>2. TypeOK'
    BY <1>1 DEF Evict, Inv, TypeOK, dbVars, reqVars
  <1> QED
    BY <1>1, <1>2
       DEF Evict, Inv, RequestsFit, ContractsFit, OkIsMine, Counted, Alone, OnceEach,
           RefusedIsTaken, RowOf, Taken, HashTaken, dbVars, reqVars

-----------------------------------------------------------------------------
\* Every step keeps Inv.
LEMMA InvNext == Inv /\ [Next]_vars => Inv'
  <1> SUFFICES ASSUME Inv, [Next]_vars PROVE Inv'
    OBVIOUS
  <1>1. ASSUME NEW r \in Requests, NEW k \in Keys, Send(r, k) PROVE Inv'
    BY <1>1, PublishAssumption, SendFits DEF Send
  <1>2. ASSUME NEW r \in Requests, SendPlain(r) PROVE Inv'
    <2> PICK b \in Rows : body' = [body EXCEPT ![r] = b]
      BY <1>2 DEF SendPlain
    <2>1. key' = [key EXCEPT ![r] = None]
      <3>1. key[r] = None
        BY <1>2 DEF SendPlain, Inv, RequestsFit
      <3> QED
        BY <1>2, <3>1 DEF SendPlain, Inv, TypeOK
    <2> QED
      BY <1>2, <2>1, SendFits DEF SendPlain
  <1>3. ASSUME NEW r \in Requests, ClaimKey(r) PROVE Inv'
    BY <1>3, KeyFits DEF ClaimKey
  <1>4. ASSUME NEW r \in Requests, ClaimError(r) PROVE Inv'
    BY <1>4, KeyFits DEF ClaimError
  <1>5. ASSUME NEW r \in Requests, GetNothing(r) PROVE Inv'
    BY <1>5, KeyFits DEF GetNothing
  <1>6. ASSUME NEW r \in Requests, GetError(r) PROVE Inv'
    BY <1>6, KeyFits DEF GetError
  <1>7. CASE UNCHANGED vars
    BY <1>7
       DEF vars, dbVars, reqVars, Inv, TypeOK, RequestsFit, ContractsFit, StoreFits,
           OkIsMine, Counted, Alone, OnceEach, RefusedIsTaken, RowOf, Taken, HashTaken
  <1> QED
    BY <1>1, <1>2, <1>3, <1>4, <1>5, <1>6, <1>7, GetTakenFits, CheckFits, InsertFits,
       AuditFits, AnnounceFits, DbErrorFits, CompleteFits, ReleaseFits, StoreErrorFits,
       DropFits, EvictFits DEF Next, Serve

\* Inv holds in every reachable state.
LEMMA Invariant == Spec => []Inv
  BY InvInit, InvNext, PTL DEF Spec

\* Every variable stays in its type.
THEOREM TypeCorrect == Spec => []TypeOK
  BY Invariant, PTL DEF Inv

\* publish_contract and claim_idempotency_key: whatever overlaps, expires or is
\* lost, an "ok" under a key hands out the registered row of the key's operation.
THEOREM AnswersAreMine == Spec => []OkIsMine
  BY Invariant, PTL DEF Inv

\* publish_contract_inner: a contract is audited at most once, and announced at
\* most once after that, however many requests publish it.
THEOREM AnnouncedOnce == Spec => []OnceEach
  BY Invariant, PTL DEF Inv

\* A 409 or a 403 that ends a keyed operation has a registered contract to its
\* reason: a key in progress and an error are never reported as one.
THEOREM RefusalsHaveReasons == Spec => []RefusedIsTaken
  BY Invariant, PTL DEF Inv

=============================================================================
