----------------------------- MODULE RecordProofs -----------------------------
(***************************************************************************)
(* What the server keeps.  ReadCache, for any servers, requests, times to  *)
(* live and number of writes: a copy is old only as long as two copies and *)
(* two requests can make it, and a write that had the caches to itself is  *)
(* not undone.  StripeCheckout, for any payments, events and deliveries    *)
(* and any number of faults: an event has one handler at most, and so      *)
(* brings one license at most.  Archival, for any signatures, handlers and *)
(* jobs, and any retentions: it deletes only what it has kept a copy of,   *)
(* and, unless some retention was too short, a signature whose row it      *)
(* deleted is too old to be used again.                                    *)
(***************************************************************************)
EXTENDS ReadCache, StripeCheckout, Archival, TLAPS

-----------------------------------------------------------------------------
(* The caches. *)

Holding == {"backfill", "putL1", "putL2"}

\* A request is young, and so was what it holds when it was picked up.
GoodRequest(r) == r.at # "out" =>
    /\ r.since <= clock /\ clock <= r.since + MaxStay
    /\ r.at \in Holding => r.of <= version /\ settled <= r.of
    /\ r.at \in {"putL1", "putL2"} => r.of = version \/ r.since <= replaced[r.of]
    /\ r.at = "backfill" =>
        r.of = version \/ r.since <= replaced[r.of] + MaxStay + L2Ttl

GoodL2(c) ==
    /\ c.until <= clock + L2Ttl /\ c.of <= version
    /\ c.of = version \/ c.until <= replaced[c.of] + MaxStay + L2Ttl
    /\ Alive(c) => settled <= c.of

GoodL1(s, c) ==
    /\ c.until <= clock + L1Ttl /\ c.of <= version
    /\ c.of = version \/ c.until <= replaced[c.of] + L1Ttl + L2Ttl + 2 * MaxStay
    /\ s = home /\ Alive(c) => settled <= c.of

\* A write that nobody has met is the only request, and nobody can have put
\* anything since it cleared its server's copy.
AloneMeans == alone =>
    \A q \in Requests : ~At(q, "out") =>
        /\ request[q].at \in WriteStages
        /\ \A o \in Requests : ~At(o, "out") => o = q
        /\ At(q, "dropL2") => ~Alive(l1[request[q].on])

CacheInv ==
    /\ clock \in Times /\ CacheTypeOK
    /\ settled <= version
    /\ \A q \in Requests : GoodRequest(request[q])
    /\ GoodL2(l2)
    /\ \A s \in Servers : GoodL1(s, l1[s])
    /\ AloneMeans

RequestStages == ReadStages \cup WriteStages
Active == [at : RequestStages, on : Servers, of : Versions, since : Times]
AllRequests == [Requests -> Active \cup {Idle}]

LEMMA ActiveRequest ==
    ASSUME CacheTypeOK, NEW q \in Requests, ~At(q, "out")
    PROVE  request[q] \in Active
  <1>1. request[q] \in Active \cup {Idle}
    BY DEF CacheTypeOK, Active, RequestStages
  <1>2. Idle.at = "out"
    BY DEF Idle
  <1>3. QED
    BY <1>1, <1>2 DEF At

LEMMA GoesOnOnly ==
    ASSUME CacheTypeOK, NEW q \in Requests, ~At(q, "out"),
           NEW st \in RequestStages, NEW v \in Versions, GoesOn(q, st, v)
    PROVE  /\ request' \in AllRequests
           /\ request'[q].at = st /\ request'[q].of = v
           /\ request'[q].on = request[q].on /\ request'[q].since = request[q].since
           /\ \A o \in Requests : o # q => request'[o] = request[o]
  <1>1. request[q] \in Active
    BY ActiveRequest
  <1>2. request \in AllRequests
    BY DEF CacheTypeOK, AllRequests, Active, RequestStages
  <1>3. request'[q] = [[request[q] EXCEPT !.at = st] EXCEPT !.of = v]
    BY <1>2 DEF GoesOn, AllRequests
  <1>4. request'[q] \in Active
    BY <1>1, <1>3 DEF Active
  <1>5. \A o \in Requests : o # q => request'[o] = request[o]
    BY <1>2 DEF GoesOn, AllRequests
  <1>6. request' \in AllRequests
    BY <1>2, <1>4 DEF GoesOn, AllRequests
  <1>7. QED
    BY <1>1, <1>3, <1>5, <1>6 DEF Active

LEMMA BeginsOnly ==
    ASSUME CacheTypeOK, clock \in Times, NEW q \in Requests, NEW s \in Servers,
           NEW st \in {"askL2", "dropL1"},
           request' = [request EXCEPT ![q] = [at |-> st, on |-> s, of |-> 0, since |-> clock]]
    PROVE  /\ request' \in AllRequests
           /\ request'[q].at = st /\ request'[q].on = s /\ request'[q].since = clock
           /\ \A o \in Requests : o # q => request'[o] = request[o]
  <1>1. [at |-> st, on |-> s, of |-> 0, since |-> clock] \in Active
    BY ReadCacheAssumption DEF Active, Versions, RequestStages, ReadStages, WriteStages
  <1>2. QED
    BY <1>1 DEF CacheTypeOK, AllRequests, Active, RequestStages

LEMMA EndsRequest ==
    ASSUME CacheTypeOK, NEW q \in Requests, Ends(q)
    PROVE  /\ request' \in AllRequests
           /\ request'[q].at = "out"
           /\ \A o \in Requests : o # q => request'[o] = request[o]
  BY DEF CacheTypeOK, AllRequests, Active, RequestStages, Ends, Idle

\* A copy that is put holds what a request holds, and starts its time to live.
LEMMA PutInL1 ==
    ASSUME CacheTypeOK, clock \in Times, NEW s \in Servers, NEW v \in Versions, InL1(s, v)
    PROVE  /\ l1' \in [Servers -> Copies]
           /\ l1'[s].of = v /\ l1'[s].until = clock + L1Ttl
           /\ \A t \in Servers : t # s => l1'[t] = l1[t]
  <1>1. [of |-> v, until |-> clock + L1Ttl] \in Copies
    BY WallClockAssumption, ReadCacheAssumption DEF Copies, Times
  <1>2. QED
    BY <1>1 DEF CacheTypeOK, InL1

LEMMA PutInL2 ==
    ASSUME clock \in Times, NEW v \in Versions, InL2(v)
    PROVE  l2' \in Copies /\ l2'.of = v /\ l2'.until = clock + L2Ttl
  <1>1. [of |-> v, until |-> clock + L2Ttl] \in Copies
    BY WallClockAssumption, ReadCacheAssumption DEF Copies, Times
  <1>2. QED
    BY <1>1 DEF InL2

LEMMA NothingIsGood ==
    ASSUME CacheInv
    PROVE  /\ Nothing \in Copies /\ GoodL2(Nothing) /\ ~Alive(Nothing)
           /\ \A s \in Servers : GoodL1(s, Nothing)
  <1>1. Nothing \in Copies
    BY WallClockAssumption, ReadCacheAssumption DEF Nothing, Copies, Versions
  <1>2. clock \in Nat /\ version \in Nat /\ replaced[0] \in Nat
    BY WallClockAssumption, ReadCacheAssumption DEF CacheInv, CacheTypeOK, Times, Versions
  <1>3. QED
    BY <1>1, <1>2, ReadCacheAssumption DEF Nothing, GoodL1, GoodL2, Alive

LEMMA CacheInitInv == clock = 0 /\ CacheInit => CacheInv
  <1> SUFFICES ASSUME clock = 0, CacheInit PROVE CacheInv
    OBVIOUS
  <1>1. clock \in Times
    BY WallClockAssumption DEF Times
  <1>2. Nothing \in Copies
    BY WallClockAssumption, ReadCacheAssumption DEF Nothing, Copies, Versions
  <1>3. CacheTypeOK
    <2>1. 0 \in Versions /\ 0 \in Times
      BY ReadCacheAssumption, WallClockAssumption DEF Versions, Times
    <2>2. /\ version \in Versions /\ replaced \in [Versions -> Times]
          /\ settled \in Versions /\ home \in Servers \cup {Nowhere} /\ alone \in BOOLEAN
      BY <2>1 DEF CacheInit
    <2>3. l1 \in [Servers -> Copies] /\ l2 \in Copies
      BY <1>2 DEF CacheInit
    <2>4. request \in AllRequests
      BY DEF CacheInit, AllRequests
    <2>5. QED
      BY <2>2, <2>3, <2>4 DEF CacheTypeOK, AllRequests, Active, RequestStages
  <1>4. \A q \in Requests : request[q].at = "out"
    BY DEF CacheInit, Idle
  <1>5. \A q \in Requests : GoodRequest(request[q])
    BY <1>4 DEF GoodRequest
  <1>6. GoodL2(l2) /\ \A s \in Servers : GoodL1(s, l1[s])
    BY ReadCacheAssumption DEF CacheInit, GoodL1, GoodL2, Nothing, Alive
  <1>7. AloneMeans
    BY DEF CacheInit, AloneMeans
  <1>8. QED
    BY <1>1, <1>3, <1>5, <1>6, <1>7 DEF CacheInv, CacheInit

\* Steps of requests that leave clock, versions and copies alone.
LEMMA LookingInv ==
    ASSUME CacheInv, NEW q \in Requests,
           (\E s \in Servers : MissL1(q, s)) \/ AskL2(q) \/ ReadDb(q) \/ Abandon(q)
    PROVE  CacheInv'
  <1> USE DEF CacheInv
  <1>1. /\ clock' = clock /\ version' = version /\ replaced' = replaced
        /\ l1' = l1 /\ l2' = l2 /\ settled' = settled /\ home' = home
    BY DEF MissL1, AskL2, ReadDb, Abandon
  <1>2. /\ clock \in Nat /\ version \in Versions /\ version \in Nat /\ settled \in Nat
        /\ replaced \in [Versions -> Times] /\ 0 \in Versions /\ Times \subseteq Nat
    BY WallClockAssumption, ReadCacheAssumption DEF CacheTypeOK, Times, Versions
  <1>3. GoodL2(l2)' /\ \A s \in Servers : GoodL1(s, l1[s])'
    BY <1>1 DEF GoodL2, GoodL1, Alive
  <1>4. /\ request' \in AllRequests /\ GoodRequest(request'[q])
        /\ \A o \in Requests : o # q => request'[o] = request[o]
        /\ alone' \in BOOLEAN /\ AloneMeans'
    <2>1. CASE \E s \in Servers : MissL1(q, s)
      <3>1. PICK s \in Servers : MissL1(q, s)
        BY <2>1
      <3>2. /\ request' \in AllRequests
            /\ request'[q].at = "askL2" /\ request'[q].since = clock
            /\ \A o \in Requests : o # q => request'[o] = request[o]
        <4>2. request' = [request EXCEPT ![q] =
                            [at |-> "askL2", on |-> s, of |-> 0, since |-> clock]]
          BY <3>1 DEF MissL1
        <4>3. CacheTypeOK /\ clock \in Times
          OBVIOUS
        <4>4. QED
          BY <4>2, <4>3, BeginsOnly
      <3>3. alone' = FALSE
        BY <3>1 DEF MissL1
      <3>4. GoodRequest(request'[q])
        BY <1>2, <3>2, ReadCacheAssumption DEF GoodRequest, Holding
      <3>5. alone' \in BOOLEAN /\ AloneMeans'
        BY <3>3 DEF AloneMeans
      <3>6. QED
        BY <3>2, <3>4, <3>5
    <2>2. CASE Abandon(q)
      <3>1. /\ request' \in AllRequests /\ request'[q].at = "out"
            /\ \A o \in Requests : o # q => request'[o] = request[o]
        BY <2>2, EndsRequest DEF Abandon
      <3>2. alone' = alone /\ alone' \in BOOLEAN
        BY <2>2 DEF Abandon, CacheTypeOK
      <3>3. AloneMeans'
        BY <1>1, <3>1, <3>2 DEF AloneMeans, At, Alive
      <3>4. QED
        BY <3>1, <3>2, <3>3 DEF GoodRequest
    <2>3. CASE AskL2(q) \/ ReadDb(q)
      <3>1. /\ request[q].at \in {"askL2", "askDb"} /\ ~At(q, "out")
            /\ alone' = alone /\ alone' \in BOOLEAN
        BY <2>3 DEF AskL2, ReadDb, At, CacheTypeOK
      <3>2. request[q].since <= clock /\ clock <= request[q].since + MaxStay
            /\ request[q].since \in Nat
        BY <1>2, <3>1, ActiveRequest DEF GoodRequest, At, Active
      <3>3. ~alone
        BY <3>1 DEF AloneMeans, At, WriteStages
      <3>4. AloneMeans'
        BY <3>1, <3>3 DEF AloneMeans
      <3>5. ASSUME NEW st \in RequestStages, NEW v \in Versions, GoesOn(q, st, v)
            PROVE  /\ request' \in AllRequests
                   /\ request'[q].at = st /\ request'[q].of = v
                   /\ request'[q].since = request[q].since
                   /\ \A o \in Requests : o # q => request'[o] = request[o]
        BY <3>1, <3>5, GoesOnOnly
      <3>6. CASE ReadDb(q)
        <4>1. /\ request' \in AllRequests
              /\ request'[q].at = "putL1" /\ request'[q].of = version
              /\ request'[q].since = request[q].since
              /\ \A o \in Requests : o # q => request'[o] = request[o]
          BY <1>2, <3>5, <3>6 DEF ReadDb, RequestStages, ReadStages
        <4>2. GoodRequest(request'[q])
          BY <1>2, <3>2, <4>1 DEF GoodRequest, Holding
        <4>3. QED
          BY <3>1, <3>4, <4>1, <4>2
      <3>7. CASE AskL2(q) /\ GoesOn(q, "askDb", 0)
        <4>1. /\ request' \in AllRequests
              /\ request'[q].at = "askDb"
              /\ request'[q].since = request[q].since
              /\ \A o \in Requests : o # q => request'[o] = request[o]
          BY <1>2, <3>5, <3>7 DEF RequestStages, ReadStages
        <4>2. GoodRequest(request'[q])
          BY <1>2, <3>2, <4>1 DEF GoodRequest, Holding
        <4>3. QED
          BY <3>1, <3>4, <4>1, <4>2
      <3>8. CASE AskL2(q) /\ Alive(l2) /\ GoesOn(q, "backfill", l2.of)
        <4>1. l2.of \in Versions /\ l2.of \in Nat /\ l2.until \in Nat
          BY WallClockAssumption, ReadCacheAssumption DEF CacheTypeOK, Copies, Versions, Times
        <4>2. /\ request' \in AllRequests
              /\ request'[q].at = "backfill" /\ request'[q].of = l2.of
              /\ request'[q].since = request[q].since
              /\ \A o \in Requests : o # q => request'[o] = request[o]
          BY <3>5, <3>8, <4>1 DEF RequestStages, ReadStages
        <4>3. /\ settled <= l2.of /\ l2.of <= version
              /\ l2.of = version \/ l2.until <= replaced[l2.of] + MaxStay + L2Ttl
              /\ clock < l2.until
          BY <3>8 DEF GoodL2, Alive
        <4>4. l2.of = version \/ request[q].since <= replaced[l2.of] + MaxStay + L2Ttl
          <5>1. replaced[l2.of] \in Nat
            BY <1>2, <4>1
          <5>2. QED
            BY <1>2, <3>2, <4>1, <4>3, <5>1, ReadCacheAssumption
        <4>5. GoodRequest(request'[q])
          BY <3>2, <4>2, <4>3, <4>4 DEF GoodRequest, Holding
        <4>6. QED
          BY <3>1, <3>4, <4>2, <4>5
      <3>9. QED
        BY <2>3, <3>6, <3>7, <3>8 DEF AskL2
    <2>4. QED
      BY <2>1, <2>2, <2>3
  <1>5. \A o \in Requests : GoodRequest(request[o])'
    BY <1>1, <1>4 DEF GoodRequest
  <1>6. CacheTypeOK'
    BY <1>1, <1>4 DEF CacheTypeOK, AllRequests, Active, RequestStages
  <1>7. QED
    BY <1>1, <1>3, <1>4, <1>5, <1>6

\* What a request holds: nobody is alone, and the caches may take it.
LEMMA HeldIsGood ==
    ASSUME CacheInv, NEW q \in Requests, request[q].at \in Holding
    PROVE  /\ ~At(q, "out") /\ ~alone
           /\ request[q].on \in Servers /\ request[q].of \in Versions
           /\ request[q].of <= version /\ settled <= request[q].of
           /\ request[q].of = version \/ clock <= replaced[request[q].of] + L2Ttl + 2 * MaxStay
           /\ request[q].at # "backfill" =>
                request[q].of = version \/ clock <= replaced[request[q].of] + MaxStay
  <1>1. ~At(q, "out")
    BY DEF At, Holding
  <1>2. request[q] \in Active /\ GoodRequest(request[q])
    BY <1>1, ActiveRequest DEF CacheInv
  <1>3. /\ request[q].on \in Servers /\ request[q].of \in Versions
        /\ request[q].since \in Nat /\ clock \in Nat
    BY <1>2, WallClockAssumption DEF Active, Times, CacheInv
  <1>4. /\ request[q].since <= clock /\ clock <= request[q].since + MaxStay
        /\ request[q].of <= version /\ settled <= request[q].of
        /\ request[q].at # "backfill" =>
             request[q].of = version \/ request[q].since <= replaced[request[q].of]
        /\ request[q].at = "backfill" =>
             \/ request[q].of = version
             \/ request[q].since <= replaced[request[q].of] + MaxStay + L2Ttl
    BY <1>1, <1>2 DEF GoodRequest, At, Holding
  <1>5. replaced[request[q].of] \in Nat
    BY <1>3, WallClockAssumption DEF CacheInv, CacheTypeOK, Times
  <1>6. ~alone
    BY <1>1 DEF CacheInv, AloneMeans, Holding, WriteStages
  <1>7. QED
    BY <1>1, <1>3, <1>4, <1>5, <1>6, ReadCacheAssumption

LEMMA PutL1Inv ==
    ASSUME CacheInv, NEW q \in Requests, Backfill(q) \/ PutL1(q)
    PROVE  CacheInv'
  <1>1. request[q].at \in Holding
    BY DEF Backfill, PutL1, At, Holding
  <1>0. PICK s \in Servers, v \in Versions : s = request[q].on /\ v = request[q].of
    BY <1>1, HeldIsGood
  <1>2. /\ ~At(q, "out") /\ ~alone
        /\ v <= version /\ settled <= v
        /\ v = version \/ clock <= replaced[v] + L2Ttl + 2 * MaxStay
    BY <1>0, <1>1, HeldIsGood
  <1>3. /\ CacheTypeOK /\ clock \in Times /\ clock \in Nat /\ settled <= version
        /\ GoodL2(l2) /\ (\A t \in Servers : GoodL1(t, l1[t]))
        /\ (\A o \in Requests : GoodRequest(request[o])) /\ replaced[v] \in Nat
    BY WallClockAssumption DEF CacheInv, CacheTypeOK, Times
  <1>4. /\ clock' = clock /\ version' = version /\ replaced' = replaced /\ l2' = l2
        /\ settled' = settled /\ home' = home /\ alone' = alone /\ InL1(s, v)
    BY <1>0 DEF Backfill, PutL1
  <1>5. /\ l1' \in [Servers -> Copies]
        /\ l1'[s].of = v /\ l1'[s].until = clock + L1Ttl
        /\ \A t \in Servers : t # s => l1'[t] = l1[t]
    BY <1>3, <1>4, PutInL1
  <1>6. GoodL2(l2)' /\ \A t \in Servers : GoodL1(t, l1[t])'
    <2>1. GoodL2(l2)'
      BY <1>3, <1>4 DEF GoodL2, Alive
    <2>2. ASSUME NEW t \in Servers, t # s PROVE GoodL1(t, l1[t])'
      BY <1>3, <1>4, <1>5, <2>2 DEF GoodL1, Alive
    <2>3. /\ clock + L1Ttl <= clock + L1Ttl
          /\ v = version \/ clock + L1Ttl <= replaced[v] + L1Ttl + L2Ttl + 2 * MaxStay
      <3>1. L1Ttl \in Nat /\ L2Ttl \in Nat /\ MaxStay \in Nat
        BY ReadCacheAssumption
      <3>2. QED
        BY <1>2, <1>3, <3>1
    <2>4. GoodL1(s, l1[s])'
      BY <1>2, <1>4, <1>5, <2>3 DEF GoodL1
    <2>5. QED
      BY <2>1, <2>2, <2>4
  <1>7. /\ request' \in AllRequests /\ GoodRequest(request'[q])
        /\ \A o \in Requests : o # q => request'[o] = request[o]
    <2>1. CASE Backfill(q)
      <3>1. /\ request' \in AllRequests /\ request'[q].at = "out"
            /\ \A o \in Requests : o # q => request'[o] = request[o]
        BY <1>3, <2>1, EndsRequest DEF Backfill
      <3>2. QED
        BY <3>1 DEF GoodRequest
    <2>2. CASE PutL1(q)
      <3>1. "putL2" \in RequestStages /\ GoesOn(q, "putL2", v)
        BY <1>0, <2>2 DEF PutL1, RequestStages, ReadStages
      <3>2. /\ request' \in AllRequests
            /\ request'[q].at = "putL2" /\ request'[q].of = v
            /\ request'[q].since = request[q].since
            /\ \A o \in Requests : o # q => request'[o] = request[o]
        BY <1>2, <1>3, <3>1, GoesOnOnly
      <3>3. request[q].at = "putL1" /\ GoodRequest(request[q])
        BY <1>3, <2>2 DEF PutL1, At
      <3>4. GoodRequest(request'[q])
        BY <1>0, <3>2, <3>3 DEF GoodRequest, Holding
      <3>5. QED
        BY <3>2, <3>4
    <2>3. QED
      BY <2>1, <2>2
  <1>8. \A o \in Requests : GoodRequest(request[o])'
    BY <1>3, <1>4, <1>7 DEF GoodRequest
  <1>9. CacheTypeOK'
    BY <1>3, <1>4, <1>5, <1>7 DEF CacheTypeOK, AllRequests, Active, RequestStages
  <1>10. AloneMeans'
    BY <1>2, <1>4 DEF AloneMeans
  <1>11. QED
    BY <1>3, <1>4, <1>6, <1>8, <1>9, <1>10 DEF CacheInv

LEMMA PutL2Inv ==
    ASSUME CacheInv, NEW q \in Requests, PutL2(q)
    PROVE  CacheInv'
  <1>1. request[q].at = "putL2"
    BY DEF PutL2, At
  <1>0. PICK v \in Versions : v = request[q].of
    BY <1>1, HeldIsGood DEF Holding
  <1>2. /\ ~At(q, "out") /\ ~alone /\ v <= version /\ settled <= v
        /\ v = version \/ clock <= replaced[v] + MaxStay
    BY <1>0, <1>1, HeldIsGood DEF Holding
  <1>3. /\ CacheTypeOK /\ clock \in Times /\ clock \in Nat /\ settled <= version
        /\ GoodL2(l2) /\ (\A t \in Servers : GoodL1(t, l1[t]))
        /\ (\A o \in Requests : GoodRequest(request[o])) /\ replaced[v] \in Nat
    BY WallClockAssumption DEF CacheInv, CacheTypeOK, Times
  <1>4. /\ clock' = clock /\ version' = version /\ replaced' = replaced /\ l1' = l1
        /\ settled' = settled /\ home' = home /\ alone' = alone
    BY DEF PutL2
  <1>5. GoodL2(l2)' /\ l2' \in Copies
    <2>1. CASE l2' = l2
      BY <1>3, <1>4, <2>1 DEF GoodL2, Alive, CacheTypeOK
    <2>2. CASE InL2(v)
      <3>1. l2' \in Copies /\ l2'.of = v /\ l2'.until = clock + L2Ttl
        BY <1>3, <2>2, PutInL2
      <3>2. /\ l2'.until <= clock + L2Ttl
            /\ v = version \/ l2'.until <= replaced[v] + MaxStay + L2Ttl
        BY <1>2, <1>3, <3>1, ReadCacheAssumption
      <3>3. QED
        BY <1>2, <1>4, <3>1, <3>2 DEF GoodL2
    <2>3. QED
      BY <1>0, <2>1, <2>2 DEF PutL2
  <1>6. \A t \in Servers : GoodL1(t, l1[t])'
    BY <1>3, <1>4 DEF GoodL1, Alive
  <1>7. /\ request' \in AllRequests /\ request'[q].at = "out"
        /\ \A o \in Requests : o # q => request'[o] = request[o]
    BY <1>3, EndsRequest DEF PutL2
  <1>8. \A o \in Requests : GoodRequest(request[o])'
    BY <1>3, <1>4, <1>7 DEF GoodRequest
  <1>9. CacheTypeOK'
    BY <1>3, <1>4, <1>5, <1>7 DEF CacheTypeOK, AllRequests, Active, RequestStages
  <1>10. AloneMeans'
    BY <1>2, <1>4 DEF AloneMeans
  <1>11. QED
    BY <1>3, <1>4, <1>5, <1>6, <1>8, <1>9, <1>10 DEF CacheInv

LEMMA CommitInv ==
    ASSUME CacheInv, NEW q \in Requests, NEW s \in Servers, Commit(q, s)
    PROVE  CacheInv'
  <1>1. /\ CacheTypeOK /\ clock \in Times /\ clock \in Nat /\ settled <= version
        /\ GoodL2(l2) /\ (\A t \in Servers : GoodL1(t, l1[t]))
        /\ (\A o \in Requests : GoodRequest(request[o]))
        /\ L1Ttl \in Nat /\ L2Ttl \in Nat /\ MaxStay \in Nat /\ MaxWrites \in Nat
    BY WallClockAssumption, ReadCacheAssumption DEF CacheInv, Times
  <1>2. /\ version \in Versions /\ version \in Nat /\ settled \in Nat
        /\ version < MaxWrites /\ replaced \in [Versions -> Times]
    BY <1>1 DEF CacheTypeOK, Versions, Commit
  <1>3. /\ clock' = clock /\ l1' = l1 /\ l2' = l2 /\ settled' = settled /\ home' = home
        /\ version' = version + 1 /\ replaced' = [replaced EXCEPT ![version] = clock]
        /\ alone' = (\A o \in Requests \ {q} : At(o, "out"))
    BY DEF Commit
  <1>4. /\ version' \in Versions /\ replaced' \in [Versions -> Times]
        /\ replaced'[version] = clock
        /\ \A v \in Versions : v # version => replaced'[v] = replaced[v]
    BY <1>1, <1>2, <1>3 DEF Versions
  <1>5. /\ request' \in AllRequests
        /\ request'[q].at = "dropL1" /\ request'[q].since = clock
        /\ \A o \in Requests : o # q => request'[o] = request[o]
    <2>1. request' = [request EXCEPT ![q] =
                        [at |-> "dropL1", on |-> s, of |-> 0, since |-> clock]]
      BY DEF Commit
    <2>2. QED
      BY <1>1, <2>1, BeginsOnly
  <1>6. GoodL2(l2)'
    <2>1. l2.of \in Versions /\ l2.of \in Nat /\ l2.until \in Nat
      BY <1>1, WallClockAssumption DEF CacheTypeOK, Copies, Versions, Times
    <2>2. replaced'[l2.of] = clock \/ (l2.of # version /\ replaced'[l2.of] = replaced[l2.of])
      BY <1>4, <2>1
    <2>3. QED
      BY <1>1, <1>2, <1>3, <2>1, <2>2 DEF GoodL2, Alive
  <1>7. ASSUME NEW t \in Servers PROVE GoodL1(t, l1[t])'
    <2>1. l1[t].of \in Versions /\ l1[t].of \in Nat /\ l1[t].until \in Nat
      BY <1>1, WallClockAssumption DEF CacheTypeOK, Copies, Versions, Times
    <2>2. \/ replaced'[l1[t].of] = clock
          \/ l1[t].of # version /\ replaced'[l1[t].of] = replaced[l1[t].of]
      BY <1>4, <2>1
    <2>3. GoodL1(t, l1[t])
      BY <1>1
    <2>4. QED
      BY <1>1, <1>2, <1>3, <2>1, <2>2, <2>3 DEF GoodL1, Alive
  <1>8. ASSUME NEW o \in Requests PROVE GoodRequest(request[o])'
    <2>1. CASE o = q
      BY <1>1, <1>3, <1>5, <2>1 DEF GoodRequest, Holding
    <2>2. CASE o # q /\ request[o].at = "out"
      BY <1>5, <2>2 DEF GoodRequest
    <2>3. CASE o # q /\ request[o].at # "out"
      <3>1. request'[o] = request[o] /\ GoodRequest(request[o])
        BY <1>1, <1>5, <2>3
      <3>2. /\ request[o].of \in Versions /\ request[o].of \in Nat
            /\ request[o].since \in Nat
        BY <1>1, <2>3, ActiveRequest, WallClockAssumption DEF At, Active, Versions, Times
      <3>3. \/ replaced'[request[o].of] = clock
            \/ request[o].of # version /\ replaced'[request[o].of] = replaced[request[o].of]
        BY <1>4, <3>2
      <3>4. QED
        BY <1>1, <1>2, <1>3, <2>3, <3>1, <3>2, <3>3 DEF GoodRequest, Holding
    <2>4. QED
      BY <2>1, <2>2, <2>3
  <1>9. alone' \in BOOLEAN /\ AloneMeans'
    <2>1. alone' \in BOOLEAN
      BY <1>3
    <2>2. ASSUME alone', NEW o \in Requests, request'[o].at # "out" PROVE o = q
      BY <1>3, <1>5, <2>2 DEF At
    <2>3. AloneMeans'
      BY <1>5, <2>2 DEF AloneMeans, At, WriteStages
    <2>4. QED
      BY <2>1, <2>3
  <1>10. CacheTypeOK'
    BY <1>1, <1>3, <1>4, <1>5, <1>9 DEF CacheTypeOK, AllRequests, Active, RequestStages
  <1>11. QED
    BY <1>1, <1>2, <1>3, <1>6, <1>7, <1>8, <1>9, <1>10 DEF CacheInv

LEMMA DropL1Inv ==
    ASSUME CacheInv, NEW q \in Requests, DropL1(q)
    PROVE  CacheInv'
  <1>1. /\ CacheTypeOK /\ clock \in Times /\ settled <= version
        /\ GoodL2(l2) /\ (\A t \in Servers : GoodL1(t, l1[t]))
        /\ (\A o \in Requests : GoodRequest(request[o])) /\ AloneMeans
    BY DEF CacheInv
  <1>2. /\ clock' = clock /\ version' = version /\ replaced' = replaced /\ l2' = l2
        /\ settled' = settled /\ home' = home /\ alone' = alone
        /\ request[q].at = "dropL1" /\ ~At(q, "out")
    BY DEF DropL1, At
  <1>3. PICK s \in Servers : s = request[q].on
    BY <1>1, <1>2, ActiveRequest DEF Active
  <1>4. /\ l1' \in [Servers -> Copies] /\ l1'[s] = Nothing
        /\ \A t \in Servers : t # s => l1'[t] = l1[t]
    BY <1>1, <1>3, NothingIsGood DEF DropL1, CacheTypeOK
  <1>5. \A t \in Servers : GoodL1(t, l1[t])'
    <2>1. \A t \in Servers : GoodL1(t, l1'[t])
      BY <1>1, <1>4, NothingIsGood
    <2>2. QED
      BY <1>2, <2>1 DEF GoodL1, Alive
  <1>6. GoodL2(l2)'
    BY <1>1, <1>2 DEF GoodL2, Alive
  <1>7. /\ request' \in AllRequests
        /\ request'[q].at = "dropL2" /\ request'[q].since = request[q].since
        /\ request'[q].on = s
        /\ \A o \in Requests : o # q => request'[o] = request[o]
    <2>1. "dropL2" \in RequestStages /\ 0 \in Versions /\ GoesOn(q, "dropL2", 0)
      BY ReadCacheAssumption DEF DropL1, RequestStages, WriteStages, Versions
    <2>2. QED
      BY <1>1, <1>2, <1>3, <2>1, GoesOnOnly
  <1>8. \A o \in Requests : GoodRequest(request[o])'
    <2>1. GoodRequest(request[q])'
      BY <1>1, <1>2, <1>7 DEF GoodRequest, Holding
    <2>2. QED
      BY <1>1, <1>2, <1>7, <2>1 DEF GoodRequest
  <1>9. AloneMeans'
    <2>1. ~Alive(l1'[s])
      BY <1>4, NothingIsGood
    <2>2. CASE ~alone
      BY <1>2, <2>2 DEF AloneMeans
    <2>3. CASE alone
      <3>1. \A o \in Requests : ~At(o, "out") => o = q
        BY <1>1, <1>2, <2>3 DEF AloneMeans
      <3>2. \A o \in Requests : request'[o].at # "out" => o = q
        BY <1>7, <3>1 DEF At
      <3>3. \A o \in Requests : request'[o].at # "out" =>
              /\ request'[o].at \in WriteStages
              /\ \A p \in Requests : request'[p].at # "out" => p = o
              /\ clock' = clock /\ ~Alive(l1'[request'[o].on])
        BY <1>2, <1>7, <2>1, <3>2 DEF WriteStages
      <3>4. QED
        BY <3>3 DEF AloneMeans, At, Alive
    <2>4. QED
      BY <2>2, <2>3
  <1>10. CacheTypeOK'
    BY <1>1, <1>2, <1>4, <1>7 DEF CacheTypeOK, AllRequests, Active, RequestStages
  <1>11. QED
    BY <1>1, <1>2, <1>5, <1>6, <1>8, <1>9, <1>10 DEF CacheInv

LEMMA DropL2Inv ==
    ASSUME CacheInv, NEW q \in Requests, DropL2(q)
    PROVE  CacheInv'
  <1>1. /\ CacheTypeOK /\ clock \in Times /\ settled <= version
        /\ GoodL2(l2) /\ (\A t \in Servers : GoodL1(t, l1[t]))
        /\ (\A o \in Requests : GoodRequest(request[o])) /\ AloneMeans
    BY DEF CacheInv
  <1>2. /\ clock' = clock /\ version' = version /\ replaced' = replaced /\ l1' = l1
        /\ alone' = alone /\ alone' \in BOOLEAN
        /\ request[q].at = "dropL2" /\ ~At(q, "out")
        /\ version \in Versions /\ version \in Nat
    BY <1>1 DEF DropL2, At, CacheTypeOK, Versions
  <1>3. PICK s \in Servers : s = request[q].on
    BY <1>1, <1>2, ActiveRequest DEF Active
  <1>4. /\ request' \in AllRequests /\ request'[q].at = "out"
        /\ \A o \in Requests : o # q => request'[o] = request[o]
    BY <1>1, EndsRequest DEF DropL2
  <1>5. l2' \in Copies /\ (l2' = Nothing \/ l2' = l2)
    BY <1>1, NothingIsGood DEF DropL2, CacheTypeOK
  <1>6. /\ settled' \in Versions /\ settled' <= version
        /\ home' \in Servers \cup {Nowhere}
        /\ \A o \in Requests : GoodRequest(request[o])'
        /\ GoodL2(l2)' /\ (\A t \in Servers : GoodL1(t, l1[t])')
    <2>1. CASE settled' = settled /\ home' = home
      <3>1. \A o \in Requests : GoodRequest(request[o])'
        BY <1>1, <1>2, <1>4, <2>1 DEF GoodRequest
      <3>2. \A t \in Servers : GoodL1(t, l1[t])'
        BY <1>1, <1>2, <2>1 DEF GoodL1, Alive
      <3>3. GoodL2(l2')
        BY <1>1, <1>5, NothingIsGood
      <3>4. GoodL2(l2)'
        BY <1>2, <2>1, <3>3 DEF GoodL2, Alive
      <3>5. QED
        BY <1>1, <2>1, <3>1, <3>2, <3>4 DEF CacheTypeOK
    <2>2. CASE alone /\ settled' = version /\ home' = s /\ l2' = Nothing
      <3>1. ~Alive(l1[s]) /\ \A o \in Requests : ~At(o, "out") => o = q
        BY <1>1, <1>2, <1>3, <2>2 DEF AloneMeans, At
      <3>2. \A o \in Requests : request'[o].at = "out"
        BY <1>4, <3>1 DEF At
      <3>3. \A o \in Requests : GoodRequest(request[o])'
        BY <3>2 DEF GoodRequest
      <3>4. GoodL2(Nothing) /\ ~Alive(Nothing)
        BY NothingIsGood
      <3>5. GoodL2(l2)'
        BY <1>2, <2>2, <3>4 DEF GoodL2, Alive
      <3>6. ASSUME NEW t \in Servers PROVE GoodL1(t, l1[t])'
        <4>1. GoodL1(t, l1[t])
          BY <1>1
        <4>2. t = s => ~(clock < l1[t].until)
          BY <3>1 DEF Alive
        <4>3. QED
          BY <1>2, <2>2, <4>1, <4>2 DEF GoodL1, Alive
      <3>7. QED
        BY <1>2, <2>2, <3>3, <3>5, <3>6
    <2>3. \/ settled' = settled /\ home' = home
          \/ alone /\ settled' = version /\ home' = s /\ l2' = Nothing
      <3>1. CASE alone
        BY <1>3, <3>1 DEF DropL2
      <3>2. CASE ~alone
        BY <3>2 DEF DropL2
      <3>3. QED
        BY <3>1, <3>2
    <2>4. QED
      BY <2>1, <2>2, <2>3
  <1>7. AloneMeans'
    <2>1. CASE ~alone
      BY <1>2, <2>1 DEF AloneMeans
    <2>2. CASE alone
      <3>1. \A o \in Requests : request'[o].at = "out"
        BY <1>1, <1>2, <1>4, <2>2 DEF AloneMeans, At
      <3>2. QED
        BY <3>1 DEF AloneMeans, At
    <2>3. QED
      BY <2>1, <2>2
  <1>8. CacheTypeOK'
    BY <1>1, <1>2, <1>4, <1>5, <1>6 DEF CacheTypeOK, AllRequests, Active, RequestStages
  <1>9. QED
    BY <1>1, <1>2, <1>6, <1>7, <1>8 DEF CacheInv

LEMMA CacheTickInv ==
    ASSUME CacheInv, CacheTick
    PROVE  CacheInv'
  <1>1. /\ CacheTypeOK /\ clock \in Nat /\ settled <= version
        /\ GoodL2(l2) /\ (\A t \in Servers : GoodL1(t, l1[t]))
        /\ (\A o \in Requests : GoodRequest(request[o])) /\ AloneMeans
        /\ L1Ttl \in Nat /\ L2Ttl \in Nat /\ MaxStay \in Nat
    BY WallClockAssumption, ReadCacheAssumption DEF CacheInv, Times
  <1>2. /\ clock' = clock + 1 /\ clock' \in Times
        /\ version' = version /\ replaced' = replaced
        /\ request' = request /\ settled' = settled /\ home' = home /\ alone' = alone
    BY <1>1, WallClockAssumption DEF CacheTick, Tick, Times
  <1>3. Nothing \in Copies /\ GoodL2(Nothing) /\ \A t \in Servers : GoodL1(t, Nothing)
    BY NothingIsGood
  <1>4. /\ l2' \in Copies
        /\ l2' = Nothing \/ (l2' = l2 /\ clock' < l2.until)
        /\ l1' \in [Servers -> Copies]
        /\ \A t \in Servers : l1'[t] = Nothing \/ (l1'[t] = l1[t] /\ clock' < l1[t].until)
    BY <1>1, <1>3 DEF CacheTick, CacheTypeOK
  <1>5. GoodL2(l2)'
    <2>1. GoodL2(l2') /\ l2'.until \in Nat /\ (l2' # Nothing => clock < l2'.until)
      BY <1>1, <1>2, <1>3, <1>4, WallClockAssumption DEF Copies, Times
    <2>2. Nothing.until = 0
      BY DEF Nothing
    <2>3. l2'.until <= clock' + L2Ttl
      BY <1>1, <1>2, <2>1 DEF GoodL2
    <2>4. clock' < l2'.until => clock < l2'.until
      BY <1>1, <1>2, <2>1
    <2>5. QED
      BY <1>2, <2>1, <2>3, <2>4 DEF GoodL2, Alive
  <1>6. ASSUME NEW t \in Servers PROVE GoodL1(t, l1[t])'
    <2>1. GoodL1(t, l1'[t]) /\ l1'[t].until \in Nat
      BY <1>1, <1>3, <1>4, WallClockAssumption DEF Copies, Times
    <2>2. l1'[t].until <= clock' + L1Ttl
      BY <1>1, <1>2, <2>1 DEF GoodL1
    <2>3. clock' < l1'[t].until => clock < l1'[t].until
      BY <1>1, <1>2, <2>1
    <2>4. QED
      BY <1>2, <2>1, <2>2, <2>3 DEF GoodL1, Alive
  <1>7. ASSUME NEW o \in Requests PROVE GoodRequest(request[o])'
    <2>1. CASE request[o].at = "out"
      BY <1>2, <2>1 DEF GoodRequest
    <2>2. CASE request[o].at # "out"
      <3>1. request[o].since \in Nat /\ clock < request[o].since + MaxStay
        BY <1>1, <2>2, ActiveRequest, WallClockAssumption DEF CacheTick, At, Active, Times
      <3>2. GoodRequest(request[o])
        BY <1>1
      <3>3. request[o].since <= clock' /\ clock' <= request[o].since + MaxStay
        BY <1>1, <1>2, <2>2, <3>1, <3>2 DEF GoodRequest
      <3>4. QED
        BY <1>2, <2>2, <3>2, <3>3 DEF GoodRequest
    <2>3. QED
      BY <2>1, <2>2
  <1>8. AloneMeans'
    <2>1. ASSUME NEW t \in Servers, ~Alive(l1[t]) PROVE ~Alive(l1[t])'
      <3>1. l1[t].until \in Nat /\ Nothing.until = 0 /\ l1[t].until <= clock
        BY <1>1, <2>1, WallClockAssumption DEF CacheTypeOK, Copies, Times, Alive, Nothing
      <3>2. QED
        BY <1>1, <1>2, <1>4, <3>1 DEF Alive
    <2>2. \A o \in Requests : ~At(o, "out") => request[o].on \in Servers
      BY <1>1, ActiveRequest DEF Active
    <2>3. CASE ~alone
      BY <1>2, <2>3 DEF AloneMeans
    <2>4. CASE alone
      <3>1. \A o \in Requests : ~At(o, "out") =>
              /\ request[o].at \in WriteStages
              /\ \A p \in Requests : ~At(p, "out") => p = o
              /\ At(o, "dropL2") => ~Alive(l1[request[o].on])'
        BY <1>1, <1>2, <2>1, <2>2, <2>4 DEF AloneMeans
      <3>2. QED
        BY <1>2, <3>1 DEF AloneMeans, At
    <2>5. QED
      BY <2>3, <2>4
  <1>9. CacheTypeOK'
    BY <1>1, <1>2, <1>4 DEF CacheTypeOK
  <1>10. QED
    BY <1>1, <1>2, <1>5, <1>6, <1>7, <1>8, <1>9 DEF CacheInv

LEMMA CacheNextInv == CacheInv /\ [CacheNext]_<<clock, cacheVars>> => CacheInv'
  <1> SUFFICES ASSUME CacheInv, [CacheNext]_<<clock, cacheVars>> PROVE CacheInv'
    OBVIOUS
  <1>1. ASSUME NEW q \in Requests, NEW s \in Servers, MissL1(q, s) PROVE CacheInv'
    BY <1>1, LookingInv
  <1>2. ASSUME NEW q \in Requests, NEW s \in Servers, Commit(q, s) PROVE CacheInv'
    BY <1>2, CommitInv
  <1>3. ASSUME NEW q \in Requests, AskL2(q) \/ ReadDb(q) \/ Abandon(q) PROVE CacheInv'
    BY <1>3, LookingInv
  <1>4. ASSUME NEW q \in Requests, Backfill(q) \/ PutL1(q) PROVE CacheInv'
    BY <1>4, PutL1Inv
  <1>5. ASSUME NEW q \in Requests, PutL2(q) PROVE CacheInv'
    BY <1>5, PutL2Inv
  <1>6. ASSUME NEW q \in Requests, DropL1(q) PROVE CacheInv'
    BY <1>6, DropL1Inv
  <1>7. ASSUME NEW q \in Requests, DropL2(q) PROVE CacheInv'
    BY <1>7, DropL2Inv
  <1>8. CASE CacheTick
    BY <1>8, CacheTickInv
  <1>9. CASE UNCHANGED <<clock, cacheVars>>
    BY <1>9 DEF cacheVars, CacheInv, CacheTypeOK, GoodRequest, GoodL2, GoodL1, AloneMeans,
                Alive, At
  <1>10. QED
    BY <1>1, <1>2, <1>3, <1>4, <1>5, <1>6, <1>7, <1>8, <1>9 DEF CacheNext

LEMMA CacheInvHolds == CacheSpec => []CacheInv
  BY CacheInitInv, CacheNextInv, PTL DEF CacheSpec

\* Every state of the caching layer has its type.
THEOREM CacheType == CacheSpec => []CacheTypeOK
  <1>1. CacheInv => CacheTypeOK
    BY DEF CacheInv
  <1>2. QED
    BY <1>1, CacheInvHolds, PTL

\* No cache answers with a version that was replaced longer ago than two copies
\* and two requests can last, whatever Redis does (cache.rs:258, :278).
THEOREM CopiesAreYoung == CacheSpec => []AgeBounded
  <1>1. CacheInv => AgeBounded
    <2> SUFFICES ASSUME CacheInv PROVE AgeBounded
      OBVIOUS
    <2>1. ASSUME NEW c \in Copies, Alive(c), c.of < version,
                 c.until <= replaced[c.of] + L1Ttl + L2Ttl + 2 * MaxStay
          PROVE  clock < replaced[c.of] + L1Ttl + L2Ttl + 2 * MaxStay
      <3>1. /\ clock \in Nat /\ c.until \in Nat /\ replaced[c.of] \in Nat
            /\ L1Ttl \in Nat /\ L2Ttl \in Nat /\ MaxStay \in Nat
        BY WallClockAssumption, ReadCacheAssumption
           DEF CacheInv, CacheTypeOK, Copies, Times, Versions
      <3>2. QED
        BY <2>1, <3>1 DEF Alive
    <2>2. ASSUME NEW c \in Copies, c.of < version
          PROVE  c.of # version /\ c.until \in Nat /\ replaced[c.of] \in Nat
      BY <2>2, WallClockAssumption, ReadCacheAssumption
         DEF CacheInv, CacheTypeOK, Copies, Times, Versions
    <2>3. l2 \in Copies /\ \A s \in Servers : l1[s] \in Copies
      BY DEF CacheInv, CacheTypeOK
    <2>4. ASSUME l2.of < version
          PROVE  l2.until <= replaced[l2.of] + L1Ttl + L2Ttl + 2 * MaxStay
      BY <2>2, <2>3, <2>4, ReadCacheAssumption DEF CacheInv, GoodL2
    <2>5. ASSUME NEW s \in Servers, l1[s].of < version
          PROVE  l1[s].until <= replaced[l1[s].of] + L1Ttl + L2Ttl + 2 * MaxStay
      BY <2>2, <2>3, <2>5 DEF CacheInv, GoodL1
    <2>6. QED
      BY <2>1, <2>3, <2>4, <2>5 DEF AgeBounded
  <1>2. QED
    BY <1>1, CacheInvHolds, PTL

\* A write that met nobody and cleared the caches is not undone in Redis or in
\* the memory of its own server (cache.rs:301).
THEOREM ClearedStaysCleared == CacheSpec => []InvalidationSticks
  <1>1. CacheInv => InvalidationSticks
    BY ReadCacheAssumption DEF CacheInv, CacheTypeOK, GoodL1, GoodL2, InvalidationSticks
  <1>2. QED
    BY <1>1, CacheInvHolds, PTL

-----------------------------------------------------------------------------
(* Stripe. *)

\* Delivery g has recorded event e and is handling it.
Handles(g, e) ==
    /\ delivery[g] # NoDelivery
    /\ delivery[g].of = e
    /\ delivery[g].at # "record"

\* What a delivery that handles an event knows of it.
HandlerKnows ==
    \A g \in Deliveries, e \in Events : Handles(g, e) =>
        /\ e \in recorded
        /\ delivery[g].at \in {"look", "issue"} => issued[e] = 0
        /\ delivery[g].at \in {"complete", "answer"} => issued[e] = 1
        /\ delivery[g].at = "answer" => licenseOf[PaymentOf[e]] # NoLicense

OneHandler ==
    \A g, h \in Deliveries, e \in Events : Handles(g, e) /\ Handles(h, e) => g = h

OneLicenseEach == \A e \in Events : issued[e] <= 1 /\ (issued[e] = 1 => e \in recorded)

OwnLicense ==
    \A e \in Events, p \in Payments : licenseOf[p] = e => issued[e] = 1 /\ PaymentOf[e] = p

FaultlessIsLicensed ==
    faults = 0 =>
        /\ offered
        /\ \A e \in recorded : licenseOf[PaymentOf[e]] # NoLicense
                               \/ \E g \in Deliveries : Handles(g, e)

StripeInv ==
    /\ StripeTypeOK /\ HandlerKnows /\ OneHandler
    /\ OneLicenseEach /\ OwnLicense /\ FaultlessIsLicensed

AllDeliveries == [Deliveries -> [at : DeliveryStages, of : Events] \cup {NoDelivery}]

\* What one delivery's progress does to all of them.
LEMMA ProceedsOnly ==
    ASSUME delivery \in AllDeliveries, NEW g \in Deliveries, NEW st \in DeliveryStages,
           delivery[g] # NoDelivery, Proceeds(g, st)
    PROVE  /\ delivery' \in AllDeliveries
           /\ delivery[g].of \in Events
           /\ delivery'[g] # NoDelivery
           /\ delivery'[g].of = delivery[g].of /\ delivery'[g].at = st
           /\ \A h \in Deliveries : h # g => delivery'[h] = delivery[h]
  <1>1. delivery[g] \in [at : DeliveryStages, of : Events]
    BY DEF AllDeliveries
  <1>2. delivery'[g] = [delivery[g] EXCEPT !.at = st]
    BY DEF Proceeds, AllDeliveries
  <1>3. delivery'[g] \in [at : DeliveryStages, of : Events]
    BY <1>1, <1>2
  <1>4. delivery'[g].of = delivery[g].of /\ delivery'[g].at = st /\ delivery[g].of \in Events
    BY <1>1, <1>2
  <1>5. st # "none"
    BY DEF DeliveryStages
  <1>6. delivery'[g] # NoDelivery
    BY <1>4, <1>5 DEF NoDelivery
  <1>7. \A h \in Deliveries : h # g => delivery'[h] = delivery[h]
    BY DEF Proceeds, AllDeliveries
  <1>8. delivery' \in AllDeliveries
    BY <1>3 DEF Proceeds, AllDeliveries
  <1>9. QED
    BY <1>4, <1>6, <1>7, <1>8

\* What the end of one delivery does to all of them.
LEMMA EndsOnly ==
    ASSUME delivery \in AllDeliveries, NEW g \in Deliveries,
           AnswersOk(g) \/ AnswersError(g)
    PROVE  /\ delivery' \in AllDeliveries
           /\ delivery'[g] = NoDelivery
           /\ \A h \in Deliveries : h # g => delivery'[h] = delivery[h]
  BY DEF AnswersOk, AnswersError, AllDeliveries

LEMMA StripeInitInv == StripeInit => StripeInv
  <1> SUFFICES ASSUME StripeInit PROVE StripeInv
    OBVIOUS
  <1>1. StripeTypeOK
    BY StripeAssumption DEF StripeInit, StripeTypeOK
  <1>2. HandlerKnows /\ OneHandler
    BY DEF StripeInit, HandlerKnows, OneHandler, Handles
  <1>3. OneLicenseEach /\ OwnLicense /\ FaultlessIsLicensed
    BY StripeAssumption DEF StripeInit, OneLicenseEach, OwnLicense, FaultlessIsLicensed
  <1>4. QED
    BY <1>1, <1>2, <1>3 DEF StripeInv

\* Steps that leave every delivery alone.
LEMMA OutsideInv ==
    ASSUME StripeInv,
           \/ \E p \in Payments : Checkout(p)
           \/ \E e \in Events : Completes(e)
           \/ UpdatePlan
           \/ UNCHANGED stripeVars
    PROVE  StripeInv'
  <1>1. StripeTypeOK'
    <2>1. CASE UpdatePlan
      <3>1. offered' \in BOOLEAN
        BY <2>1 DEF UpdatePlan
      <3>2. faults' \in 0..MaxFaults
        BY <2>1, StripeAssumption DEF StripeInv, StripeTypeOK, UpdatePlan
      <3>3. QED
        BY <2>1, <3>1, <3>2 DEF StripeInv, StripeTypeOK, UpdatePlan
    <2>2. CASE \E p \in Payments : Checkout(p)
      BY <2>2 DEF StripeInv, StripeTypeOK, Checkout
    <2>3. CASE \E e \in Events : Completes(e)
      BY <2>3 DEF StripeInv, StripeTypeOK, Completes
    <2>4. CASE UNCHANGED stripeVars
      BY <2>4 DEF StripeInv, StripeTypeOK, stripeVars
    <2>5. QED
      BY <2>1, <2>2, <2>3, <2>4
  <1>2. /\ delivery' = delivery /\ issued' = issued /\ licenseOf' = licenseOf
        /\ recorded' = recorded
        /\ faults' = 0 => faults = 0 /\ offered' = offered
    BY StripeAssumption
    DEF StripeInv, StripeTypeOK, Checkout, Completes, UpdatePlan, stripeVars
  <1>3. HandlerKnows' /\ OneHandler'
    BY <1>2 DEF StripeInv, HandlerKnows, OneHandler, Handles
  <1>4. OneLicenseEach' /\ OwnLicense' /\ FaultlessIsLicensed'
    BY <1>2 DEF StripeInv, OneLicenseEach, OwnLicense, FaultlessIsLicensed, Handles
  <1>5. QED
    BY <1>1, <1>3, <1>4 DEF StripeInv

\* A delivery that starts, or ends early, handles nothing that others do not.
LEMMA StartInv ==
    ASSUME StripeInv, NEW g \in Deliveries, NEW e \in Events, Deliver(g, e)
    PROVE  StripeInv'
  <1>1. delivery' \in AllDeliveries /\ StripeTypeOK'
    BY DEF StripeInv, StripeTypeOK, Deliver, DeliveryStages, AllDeliveries
  <1>2. \A h \in Deliveries, x \in Events :
           Handles(h, x)' <=> Handles(h, x)
    BY DEF StripeInv, StripeTypeOK, Deliver, Handles
  <1>3. \A h \in Deliveries, x \in Events : Handles(h, x) => delivery'[h] = delivery[h]
    BY DEF StripeInv, StripeTypeOK, Deliver, Handles
  <1>4. HandlerKnows'
    BY <1>2, <1>3 DEF StripeInv, HandlerKnows, Deliver
  <1>5. OneHandler'
    BY <1>2 DEF StripeInv, OneHandler
  <1>6. OneLicenseEach' /\ OwnLicense'
    BY DEF StripeInv, OneLicenseEach, OwnLicense, Deliver
  <1>7. FaultlessIsLicensed'
    BY <1>2 DEF StripeInv, StripeTypeOK, FaultlessIsLicensed, Deliver
  <1>8. QED
    BY <1>1, <1>4, <1>5, <1>6, <1>7 DEF StripeInv

\* A delivery that ends without a change to recorded events, licenses or
\* payments: every event that depended on it has its license, or a fault.
LEMMA DropInv ==
    ASSUME StripeInv, NEW g \in Deliveries,
           AnswersOk(g) \/ AnswersError(g),
           due' \subseteq Events, faults' \in 0..MaxFaults,
           recorded' = recorded, issued' = issued, licenseOf' = licenseOf,
           offered' = offered, opened' = opened,
           \/ faults' # 0
           \/ /\ faults' = faults
              /\ \A e \in Events : Handles(g, e) => licenseOf[PaymentOf[e]] # NoLicense
    PROVE  StripeInv'
  <1> USE DEF StripeInv
  <1>1. /\ delivery' \in AllDeliveries
        /\ delivery'[g] = NoDelivery
        /\ \A h \in Deliveries : h # g => delivery'[h] = delivery[h]
    <2>1. delivery \in AllDeliveries
      BY DEF StripeTypeOK, AllDeliveries
    <2>2. QED
      BY <2>1, EndsOnly
  <1>2. StripeTypeOK'
    BY <1>1 DEF StripeTypeOK, AllDeliveries
  <1>3. \A h \in Deliveries, e \in Events :
           Handles(h, e)' <=> (Handles(h, e) /\ h # g)
    BY <1>1 DEF Handles
  <1>4. HandlerKnows'
    BY <1>1, <1>3 DEF HandlerKnows
  <1>5. OneHandler'
    BY <1>3 DEF OneHandler
  <1>6. OneLicenseEach' /\ OwnLicense'
    BY DEF OneLicenseEach, OwnLicense
  <1>7. FaultlessIsLicensed'
    <2>1. SUFFICES ASSUME faults' = 0, NEW e \in recorded,
                          licenseOf[PaymentOf[e]] = NoLicense
                   PROVE  offered /\ \E h \in Deliveries : Handles(h, e)'
      BY DEF FaultlessIsLicensed
    <2>2. e \in Events /\ faults = 0
      BY <2>1 DEF StripeTypeOK
    <2>3. offered /\ \E h \in Deliveries : Handles(h, e)
      BY <2>1, <2>2 DEF FaultlessIsLicensed
    <2>4. ~Handles(g, e)
      BY <2>1, <2>2
    <2>5. QED
      BY <1>3, <2>2, <2>3, <2>4
  <1>8. QED
    BY <1>2, <1>4, <1>5, <1>6, <1>7

\* Recording: the event had no handler, for a handler's event is recorded.
LEMMA RecordInv ==
    ASSUME StripeInv, NEW g \in Deliveries, RecordEvent(g)
    PROVE  StripeInv'
  <1> USE DEF StripeInv
  <1>1. delivery \in AllDeliveries /\ delivery[g] # NoDelivery /\ delivery[g].at = "record"
    BY DEF StripeTypeOK, AllDeliveries, RecordEvent, Works
  <1>2. PICK e \in Events : delivery[g].of = e
    BY <1>1 DEF AllDeliveries
  <1>3. CASE e \in recorded
    <2>1. AnswersOk(g) /\ recorded' = recorded
      BY <1>2, <1>3 DEF RecordEvent
    <2>2. due' \subseteq Events
      BY <2>1 DEF AnswersOk, StripeTypeOK
    <2>3. \A x \in Events : ~Handles(g, x)
      BY <1>1 DEF Handles
    <2>4. faults' = faults /\ faults' \in 0..MaxFaults
      BY DEF RecordEvent, StripeTypeOK
    <2>5. issued' = issued /\ licenseOf' = licenseOf /\ offered' = offered /\ opened' = opened
      BY DEF RecordEvent
    <2>6. QED
      BY <2>1, <2>2, <2>3, <2>4, <2>5, DropInv
  <1>4. CASE e \notin recorded
    <2>1. /\ Proceeds(g, "look") /\ due' = due /\ recorded' = recorded \cup {e}
          /\ issued' = issued /\ licenseOf' = licenseOf /\ offered' = offered
          /\ opened' = opened /\ faults' = faults
      BY <1>2, <1>4 DEF RecordEvent
    <2>2. /\ delivery' \in AllDeliveries
          /\ delivery'[g] # NoDelivery
          /\ delivery'[g].of = e /\ delivery'[g].at = "look"
          /\ \A h \in Deliveries : h # g => delivery'[h] = delivery[h]
      BY <1>1, <1>2, <2>1, ProceedsOnly DEF DeliveryStages
    <2>3. StripeTypeOK'
      BY <1>2, <2>1, <2>2 DEF StripeTypeOK, AllDeliveries
    <2>4. \A h \in Deliveries, x \in Events :
             Handles(h, x)' <=> IF h = g THEN x = e ELSE Handles(h, x)
      BY <2>2 DEF Handles
    <2>5. \A h \in Deliveries : ~Handles(h, e)
      BY <1>2, <1>4 DEF HandlerKnows
    <2>6. issued[e] = 0
      BY <1>2, <1>4 DEF OneLicenseEach, StripeTypeOK
    <2>7. HandlerKnows'
      BY <2>1, <2>2, <2>4, <2>6 DEF HandlerKnows
    <2>8. OneHandler'
      BY <2>4, <2>5 DEF OneHandler
    <2>9. OneLicenseEach' /\ OwnLicense'
      BY <2>1 DEF OneLicenseEach, OwnLicense
    <2>10. FaultlessIsLicensed'
      <3>1. Handles(g, e)'
        BY <1>2, <2>4
      <3>2. \A x \in recorded : \A h \in Deliveries : Handles(h, x) => Handles(h, x)'
        <4>1. \A x : ~Handles(g, x)
          BY <1>1 DEF Handles
        <4>2. QED
          BY <2>4, <4>1 DEF StripeTypeOK
      <3>3. QED
        BY <2>1, <3>1, <3>2 DEF FaultlessIsLicensed
    <2>11. QED
      BY <2>3, <2>7, <2>8, <2>9, <2>10
  <1>5. QED
    BY <1>3, <1>4

\* A handler that goes on to a later stage keeps its event.
LEMMA HandlerStays ==
    ASSUME StripeInv, NEW g \in Deliveries, NEW st \in DeliveryStages \ {"record"},
           delivery[g] # NoDelivery, delivery[g].at # "record", Proceeds(g, st)
    PROVE  /\ delivery' \in AllDeliveries
           /\ delivery[g].of \in Events
           /\ Handles(g, delivery[g].of)
           /\ delivery'[g].at = st
           /\ \A h \in Deliveries, x \in Events : Handles(h, x)' <=> Handles(h, x)
           /\ \A h \in Deliveries : h # g => delivery'[h] = delivery[h]
  <1>1. delivery \in AllDeliveries
    BY DEF StripeInv, StripeTypeOK, AllDeliveries
  <1>2. /\ delivery' \in AllDeliveries
        /\ delivery[g].of \in Events
        /\ delivery'[g] # NoDelivery
        /\ delivery'[g].of = delivery[g].of /\ delivery'[g].at = st
        /\ \A h \in Deliveries : h # g => delivery'[h] = delivery[h]
    BY <1>1, ProceedsOnly
  <1>3. QED
    BY <1>2 DEF Handles

\* Looking up: a payment with a license leaves nothing to do.
LEMMA LookUpInv ==
    ASSUME StripeInv, NEW g \in Deliveries, LookUpPayment(g)
    PROVE  StripeInv'
  <1>1. delivery \in AllDeliveries /\ delivery[g] # NoDelivery /\ delivery[g].at = "look"
    BY DEF StripeInv, StripeTypeOK, AllDeliveries, LookUpPayment, Works
  <1>2. PICK e \in Events : delivery[g].of = e
    BY <1>1 DEF AllDeliveries
  <1>3. /\ recorded' = recorded /\ issued' = issued /\ licenseOf' = licenseOf
        /\ offered' = offered /\ opened' = opened /\ faults' = faults
    BY DEF LookUpPayment
  <1>4. CASE licenseOf[PaymentOf[e]] # NoLicense
    <2>1. AnswersOk(g)
      BY <1>2, <1>4 DEF LookUpPayment
    <2>2. due' \subseteq Events /\ faults' \in 0..MaxFaults
      BY <1>3, <2>1 DEF AnswersOk, StripeInv, StripeTypeOK
    <2>3. \A x \in Events : Handles(g, x) => licenseOf[PaymentOf[x]] # NoLicense
      BY <1>2, <1>4 DEF Handles
    <2>4. QED
      BY <1>3, <2>1, <2>2, <2>3, DropInv
  <1>5. CASE licenseOf[PaymentOf[e]] = NoLicense
    <2>1. Proceeds(g, "issue") /\ due' = due
      BY <1>2, <1>5 DEF LookUpPayment
    <2>2. /\ delivery' \in AllDeliveries
          /\ Handles(g, e)
          /\ delivery'[g].at = "issue"
          /\ \A h \in Deliveries, x \in Events : Handles(h, x)' <=> Handles(h, x)
          /\ \A h \in Deliveries : h # g => delivery'[h] = delivery[h]
      BY <1>1, <1>2, <2>1, HandlerStays DEF DeliveryStages
    <2>3. StripeTypeOK'
      BY <1>3, <2>1, <2>2 DEF StripeInv, StripeTypeOK, AllDeliveries
    <2>4. \A x \in Events : Handles(g, x) => x = e
      BY <1>2 DEF Handles
    <2>5. HandlerKnows'
      BY <1>1, <1>3, <2>2, <2>4 DEF StripeInv, HandlerKnows
    <2>6. OneHandler'
      BY <2>2 DEF StripeInv, OneHandler
    <2>7. OneLicenseEach' /\ OwnLicense'
      BY <1>3 DEF StripeInv, OneLicenseEach, OwnLicense
    <2>8. FaultlessIsLicensed'
      BY <1>3, <2>2 DEF StripeInv, StripeTypeOK, FaultlessIsLicensed
    <2>9. QED
      BY <2>3, <2>5, <2>6, <2>7, <2>8 DEF StripeInv
  <1>6. QED
    BY <1>4, <1>5

\* Issuing: the only handler of an event without a license gives it one.
LEMMA IssueInv ==
    ASSUME StripeInv, NEW g \in Deliveries, IssueLicense(g)
    PROVE  StripeInv'
  <1>1. delivery \in AllDeliveries /\ delivery[g] # NoDelivery /\ delivery[g].at = "issue"
    BY DEF StripeInv, StripeTypeOK, AllDeliveries, IssueLicense, Works
  <1>2. PICK e \in Events : delivery[g].of = e
    BY <1>1 DEF AllDeliveries
  <1>3. /\ recorded' = recorded /\ licenseOf' = licenseOf /\ due' = due
        /\ offered' = offered /\ opened' = opened /\ faults' = faults
    BY DEF IssueLicense, AnswersError
  <1>4. CASE ~offered
    <2>1. AnswersError(g) /\ issued' = issued
      BY <1>4 DEF IssueLicense
    <2>2. due' \subseteq Events /\ faults' \in 0..MaxFaults
      BY <1>3 DEF StripeInv, StripeTypeOK
    <2>3. faults # 0
      BY <1>4 DEF StripeInv, FaultlessIsLicensed
    <2>4. QED
      BY <1>3, <2>1, <2>2, <2>3, DropInv
  <1>5. CASE offered
    <2>1. Proceeds(g, "complete") /\ issued' = [issued EXCEPT ![e] = @ + 1]
      BY <1>2, <1>5 DEF IssueLicense
    <2>2. /\ delivery' \in AllDeliveries
          /\ Handles(g, e)
          /\ delivery'[g].at = "complete"
          /\ \A h \in Deliveries, x \in Events : Handles(h, x)' <=> Handles(h, x)
          /\ \A h \in Deliveries : h # g => delivery'[h] = delivery[h]
      BY <1>1, <1>2, <2>1, HandlerStays DEF DeliveryStages
    <2>3. issued[e] = 0 /\ e \in recorded
      BY <1>1, <2>2 DEF StripeInv, HandlerKnows
    <2>4. /\ issued' \in [Events -> Nat] /\ issued'[e] = 1
          /\ \A x \in Events : x # e => issued'[x] = issued[x]
      BY <2>1, <2>3 DEF StripeInv, StripeTypeOK
    <2>5. StripeTypeOK'
      BY <1>3, <2>2, <2>4 DEF StripeInv, StripeTypeOK, AllDeliveries
    <2>6. \A h \in Deliveries, x \in Events : Handles(h, x) => (h = g <=> x = e)
      BY <1>2, <2>2 DEF StripeInv, OneHandler, Handles
    <2>7. HandlerKnows'
      BY <1>3, <2>2, <2>3, <2>4, <2>6 DEF StripeInv, HandlerKnows
    <2>8. OneHandler'
      BY <2>2 DEF StripeInv, OneHandler
    <2>9. OneLicenseEach' /\ OwnLicense'
      BY <1>3, <2>3, <2>4 DEF StripeInv, OneLicenseEach, OwnLicense
    <2>10. FaultlessIsLicensed'
      BY <1>3, <2>2 DEF StripeInv, StripeTypeOK, FaultlessIsLicensed
    <2>11. QED
      BY <2>5, <2>7, <2>8, <2>9, <2>10 DEF StripeInv
  <1>6. QED
    BY <1>4, <1>5

LEMMA CompleteInv ==
    ASSUME StripeInv, NEW g \in Deliveries, CompletePayment(g)
    PROVE  StripeInv'
  <1>1. delivery \in AllDeliveries /\ delivery[g] # NoDelivery /\ delivery[g].at = "complete"
    BY DEF StripeInv, StripeTypeOK, AllDeliveries, CompletePayment, Works
  <1>2. PICK e \in Events : delivery[g].of = e
    BY <1>1 DEF AllDeliveries
  <1>3. /\ recorded' = recorded /\ issued' = issued /\ due' = due
        /\ offered' = offered /\ opened' = opened /\ faults' = faults
        /\ licenseOf' = [licenseOf EXCEPT ![PaymentOf[e]] = e]
        /\ Proceeds(g, "answer")
    BY <1>2 DEF CompletePayment
  <1>4. /\ delivery' \in AllDeliveries
        /\ Handles(g, e)
        /\ delivery'[g].at = "answer"
        /\ \A h \in Deliveries, x \in Events : Handles(h, x)' <=> Handles(h, x)
        /\ \A h \in Deliveries : h # g => delivery'[h] = delivery[h]
    BY <1>1, <1>2, <1>3, HandlerStays DEF DeliveryStages
  <1>5. issued[e] = 1
    BY <1>1, <1>4 DEF StripeInv, HandlerKnows
  <1>6. /\ licenseOf' \in [Payments -> Events \cup {NoLicense}]
        /\ licenseOf'[PaymentOf[e]] = e /\ e # NoLicense
        /\ \A p \in Payments : p # PaymentOf[e] => licenseOf'[p] = licenseOf[p]
    BY <1>3, StripeAssumption DEF StripeInv, StripeTypeOK
  <1>7. \A x \in Events : licenseOf[PaymentOf[x]] # NoLicense
                           => licenseOf'[PaymentOf[x]] # NoLicense
    BY <1>6, StripeAssumption
  <1>8. StripeTypeOK'
    BY <1>3, <1>4, <1>6 DEF StripeInv, StripeTypeOK, AllDeliveries
  <1>9. \A x \in Events : Handles(g, x) => x = e
    BY <1>2 DEF Handles
  <1>10. HandlerKnows'
    BY <1>1, <1>3, <1>4, <1>5, <1>6, <1>7, <1>9 DEF StripeInv, HandlerKnows
  <1>11. OneHandler'
    BY <1>4 DEF StripeInv, OneHandler
  <1>12. OneLicenseEach' /\ OwnLicense'
    BY <1>3, <1>5, <1>6 DEF StripeInv, OneLicenseEach, OwnLicense
  <1>13. FaultlessIsLicensed'
    BY <1>3, <1>4, <1>7 DEF StripeInv, StripeTypeOK, FaultlessIsLicensed
  <1>14. QED
    BY <1>8, <1>10, <1>11, <1>12, <1>13 DEF StripeInv

\* Answering after the payment has its license, and failing at any stage.
LEMMA EndInv ==
    ASSUME StripeInv, NEW g \in Deliveries, LinkAndAnswer(g) \/ DeliveryFails(g)
    PROVE  StripeInv'
  <1>1. /\ recorded' = recorded /\ issued' = issued /\ licenseOf' = licenseOf
        /\ offered' = offered /\ opened' = opened
        /\ AnswersOk(g) \/ AnswersError(g)
    BY DEF LinkAndAnswer, DeliveryFails
  <1>2. due' \subseteq Events
    BY <1>1 DEF AnswersOk, AnswersError, StripeInv, StripeTypeOK
  <1>3. CASE LinkAndAnswer(g)
    <2>1. faults' = faults /\ faults' \in 0..MaxFaults
      BY <1>3 DEF LinkAndAnswer, StripeInv, StripeTypeOK
    <2>2. \A x \in Events : Handles(g, x) => licenseOf[PaymentOf[x]] # NoLicense
      BY <1>3 DEF LinkAndAnswer, Works, StripeInv, HandlerKnows
    <2>3. QED
      BY <1>1, <1>2, <2>1, <2>2, DropInv
  <1>4. CASE DeliveryFails(g)
    <2>1. faults' # 0 /\ faults' \in 0..MaxFaults
      BY <1>4, StripeAssumption DEF DeliveryFails, StripeInv, StripeTypeOK
    <2>2. QED
      BY <1>1, <1>2, <2>1, DropInv
  <1>5. QED
    BY <1>3, <1>4

LEMMA StripeNextInv == ASSUME StripeInv, [StripeNext]_stripeVars PROVE StripeInv'
  BY OutsideInv, StartInv, RecordInv, LookUpInv, IssueInv, CompleteInv, EndInv DEF StripeNext

\* The type invariant of the checkout, for every value of its constants
\* (stripe_handlers.rs:178-329).
THEOREM StripeType == StripeSpec => []StripeTypeOK
  BY StripeInitInv, StripeNextInv, PTL DEF StripeSpec, StripeInv

\* No event ever brings a second license, whatever the deliveries, and none is
\* passed over without a fault (stripe_handlers.rs:206, :274).
THEOREM LicensedOnce == StripeSpec => []LicensedByItsEvent
  <1>1. StripeInv => LicensedByItsEvent
    <2> SUFFICES ASSUME StripeInv PROVE LicensedByItsEvent
      OBVIOUS
    <2>1. recorded \subseteq Events
      BY DEF StripeInv, StripeTypeOK
    <2>2. faults = 0 => \A e \in recorded : licenseOf[PaymentOf[e]] # NoLicense
                     \/ \E g \in Deliveries : delivery[g] # NoDelivery /\ delivery[g].of = e
      BY DEF StripeInv, FaultlessIsLicensed, Handles
    <2>3. QED
      BY <2>2 DEF StripeInv, OneLicenseEach, OwnLicense, LicensedByItsEvent
  <1>2. QED
    BY <1>1, StripeInitInv, StripeNextInv, PTL DEF StripeSpec

-----------------------------------------------------------------------------
(* Archival. *)

\* A handler began while its signature was fresh, and not long ago.
InitiationsFit ==
    \A i \in Initiations : initiation[i] # NoInitiation =>
        /\ clock <= initiation[i].since + MaxDelay
        /\ initiation[i].since <= SignedAt[initiation[i].nonce] + Freshness
        /\ SignedAt[initiation[i].nonce] <= initiation[i].since + Freshness

\* No row is much older than its signature.
CreatedAfterSigning ==
    \A t \in Opened : SignedAt[transfers[t].nonce] <= transfers[t].created + Freshness

LongAgo(time) == time + LeastAge <= clock

\* No retention has been too short.
LongKept == shortest >= LeastAge

\* Every retention there was is at least the shortest.
KeepsFit ==
    /\ retention >= shortest
    /\ \A j \in Jobs : job[j].at = "policy" => job[j].keep >= shortest

CutoffsFit ==
    \A j \in Jobs : job[j].at \in {"running", "copied"} /\ LongKept =>
        job[j].cutoff = 0 \/ LongAgo(job[j].cutoff)

\* What a job has copied cannot change any more.
CopiesFit ==
    \A j \in Jobs : job[j].at = "copied" =>
        \A t \in job[j].copied :
            /\ t \in Opened
            /\ transfers[t].state = "finished"
            /\ transfers[t].created < job[j].cutoff

RemovedIsOld ==
    LongKept => \A t \in Opened \ present : transfers[t].created + LeastAge < clock

ArchiveInv ==
    /\ clock \in Times /\ ArchiveTypeOK
    /\ present \subseteq Opened
    /\ InitiationsFit /\ CreatedAfterSigning
    /\ KeepsFit /\ CutoffsFit /\ CopiesFit /\ RemovedIsOld
    /\ RemovedIsKept /\ NonceOpensOnce

LEMMA ConstantsAreNumbers ==
    /\ Freshness \in Nat /\ MaxDelay \in Nat /\ LeastAge \in Nat
    /\ MaxTime \in Nat /\ Times \subseteq Nat
    /\ \A n \in Signatures : SignedAt[n] \in Nat
    /\ \A d \in Retentions : d \in Int
  BY ArchivalAssumption, WallClockAssumption DEF LeastAge, Times

\* Kinds of record are told apart by their first field.
LEMMA KindsDiffer ==
    /\ \A s \in TransferRows : s # Unopened
    /\ \A j \in JobRecords : j.at # "idle" /\ j # Resting
    /\ Resting.at = "idle" /\ NoInitiation.at = "idle" /\ Unopened.state = "none"
  BY DEF TransferRows, Unopened, JobRecords, Resting, NoInitiation

LEMMA OpenedRows ==
    ASSUME ArchiveTypeOK, NEW t \in Opened
    PROVE  /\ t \in TransferIds
           /\ transfers[t] \in TransferRows
           /\ transfers[t].nonce \in Signatures /\ transfers[t].created \in Nat
           /\ transfers[t].created \in Times
  BY ConstantsAreNumbers DEF ArchiveTypeOK, Opened, TransferRows

LEMMA ArchiveInitInv == ArchiveInit /\ clock = 0 => ArchiveInv
  <1> SUFFICES ASSUME ArchiveInit, clock = 0 PROVE ArchiveInv
    OBVIOUS
  <1>1. Opened = {}
    BY DEF ArchiveInit, Opened
  <1>2. clock \in Times /\ ArchiveTypeOK
    BY ArchivalAssumption, ConstantsAreNumbers DEF ArchiveInit, ArchiveTypeOK, Times
  <1>3. InitiationsFit
    BY DEF ArchiveInit, InitiationsFit
  <1>4. CutoffsFit /\ CopiesFit
    BY DEF ArchiveInit, CutoffsFit, CopiesFit, Resting
  <1>5. KeepsFit
    BY ArchivalAssumption, ConstantsAreNumbers DEF ArchiveInit, KeepsFit, Resting
  <1>6. QED
    BY <1>1, <1>2, <1>3, <1>4, <1>5
    DEF ArchiveInit, ArchiveInv, CreatedAfterSigning, RemovedIsOld, RemovedIsKept,
        NonceOpensOnce, SignaturesAreSingleUse

----------------------------------------------------------------------------
(* What a step leaves alone. *)

\* A step of a handler alone.
LEMMA HandlerInv ==
    ASSUME ArchiveInv,
           UNCHANGED <<clock, transfers, present, auditTrail, job, retention, shortest>>,
           InitiationsFit',
           initiation' \in [Initiations -> [at : {"begun"}, nonce : Signatures, since : Times]
                                           \cup {NoInitiation}]
    PROVE  ArchiveInv'
  <1>1. Opened' = Opened
    BY DEF Opened
  <1>2. QED
    BY <1>1 DEF ArchiveInv, ArchiveTypeOK, CreatedAfterSigning, KeepsFit, CutoffsFit, CopiesFit,
                LongAgo, LongKept, RemovedIsOld, RemovedIsKept, NonceOpensOnce,
                SignaturesAreSingleUse

LEMMA BeginInv ==
    ASSUME ArchiveInv, NEW i \in Initiations, NEW n \in Signatures, BeginInitiation(i, n)
    PROVE  ArchiveInv'
  <1>1. clock \in Times /\ clock \in Nat /\ SignedAt[n] \in Nat
    BY ConstantsAreNumbers DEF ArchiveInv
  <1> DEFINE begun == [at |-> "begun", nonce |-> n, since |-> clock]
  <1>2. initiation' = [initiation EXCEPT ![i] = begun]
    BY DEF BeginInitiation
  <1>3. initiation \in [Initiations -> [at : {"begun"}, nonce : Signatures, since : Times]
                                       \cup {NoInitiation}]
    BY DEF ArchiveInv, ArchiveTypeOK
  <1>4. initiation' \in [Initiations -> [at : {"begun"}, nonce : Signatures, since : Times]
                                        \cup {NoInitiation}]
    BY <1>1, <1>2, <1>3
  <1>5. InitiationsFit'
    BY <1>1, <1>2, <1>3, ConstantsAreNumbers
    DEF BeginInitiation, FreshSignature, InitiationsFit, ArchiveInv
  <1>6. QED
    BY <1>4, <1>5, HandlerInv DEF BeginInitiation

LEMMA FinishKeeps ==
    ASSUME ArchiveInv, NEW i \in Initiations, FinishInitiation(i), clock' = clock
    PROVE  /\ InitiationsFit'
           /\ initiation' \in [Initiations -> [at : {"begun"}, nonce : Signatures, since : Times]
                                              \cup {NoInitiation}]
  <1>1. initiation \in [Initiations -> [at : {"begun"}, nonce : Signatures, since : Times]
                                       \cup {NoInitiation}]
    BY DEF ArchiveInv, ArchiveTypeOK
  <1>2. QED
    BY <1>1 DEF FinishInitiation, InitiationsFit, ArchiveInv

LEMMA LeaveInv ==
    ASSUME ArchiveInv, NEW i \in Initiations, LeaveInitiation(i)
    PROVE  ArchiveInv'
  BY FinishKeeps, HandlerInv DEF LeaveInitiation

----------------------------------------------------------------------------
(* A transfer is opened. *)

\* Whatever row once held the nonce of a handler that may insert is gone, and
\* nothing goes before the signature is too old for that handler.
LEMMA NonceIsNew ==
    ASSUME ArchiveInv, LongKept, NEW i \in Initiations, initiation[i] # NoInitiation,
           ~NonceTaken(initiation[i].nonce),
           NEW t \in Opened
    PROVE  transfers[t].nonce # initiation[i].nonce
  <1> DEFINE n == initiation[i].nonce
  <1>1. initiation[i] \in [at : {"begun"}, nonce : Signatures, since : Times]
    BY DEF ArchiveInv, ArchiveTypeOK
  <1>2. n \in Signatures /\ initiation[i].since \in Nat /\ SignedAt[n] \in Nat /\ clock \in Nat
    BY <1>1, ConstantsAreNumbers DEF ArchiveInv
  <1>3. SUFFICES ASSUME transfers[t].nonce = n PROVE FALSE
    OBVIOUS
  <1>4. t \notin present
    BY <1>3 DEF NonceTaken
  <1>5. transfers[t].created + LeastAge < clock /\ transfers[t].created \in Nat
    BY <1>4, OpenedRows DEF ArchiveInv, RemovedIsOld
  <1>6. SignedAt[n] <= transfers[t].created + Freshness
    BY <1>3 DEF ArchiveInv, CreatedAfterSigning
  <1>7. clock <= initiation[i].since + MaxDelay /\ initiation[i].since <= SignedAt[n] + Freshness
    BY DEF ArchiveInv, InitiationsFit
  <1>8. QED
    BY <1>2, <1>5, <1>6, <1>7, ConstantsAreNumbers DEF LeastAge

LEMMA OpenInv ==
    ASSUME ArchiveInv, NEW i \in Initiations, OpenTransfer(i)
    PROVE  ArchiveInv'
  <1> DEFINE n == initiation[i].nonce
  <1>1. initiation[i] \in [at : {"begun"}, nonce : Signatures, since : Times]
    BY DEF OpenTransfer, ArchiveInv, ArchiveTypeOK
  <1>2. PICK t \in TransferIds \ Opened, c \in initiation[i].since..clock :
            /\ transfers' = [transfers EXCEPT ![t] =
                                [state |-> "pending", nonce |-> n, created |-> c]]
            /\ present' = present \cup {t}
    BY DEF OpenTransfer
  <1>3. /\ n \in Signatures /\ initiation[i].since \in Nat /\ clock \in Nat
        /\ clock <= MaxTime /\ SignedAt[n] \in Nat
    BY <1>1, ConstantsAreNumbers DEF ArchiveInv, Times
  <1>4. c \in Times /\ c \in Nat /\ initiation[i].since <= c
    BY <1>2, <1>3, ConstantsAreNumbers DEF Times
  <1>5. /\ UNCHANGED <<clock, auditTrail, job, retention, shortest>>
        /\ FinishInitiation(i)
    BY DEF OpenTransfer
  <1>6. transfers \in [TransferIds -> TransferRows \cup {Unopened}]
    BY DEF ArchiveInv, ArchiveTypeOK
  <1>7. [state |-> "pending", nonce |-> n, created |-> c] \in TransferRows
    BY <1>3, <1>4 DEF TransferRows
  <1>8. /\ transfers'[t] = [state |-> "pending", nonce |-> n, created |-> c]
        /\ \A u \in TransferIds : u # t => transfers'[u] = transfers[u]
        /\ transfers' \in [TransferIds -> TransferRows \cup {Unopened}]
    BY <1>2, <1>6, <1>7
  <1>9. Opened' = Opened \cup {t}
    BY <1>2, <1>7, <1>8, KindsDiffer DEF Opened
  <1>10. clock' \in Times /\ ArchiveTypeOK' /\ InitiationsFit'
    BY <1>2, <1>5, <1>8, FinishKeeps DEF ArchiveInv, ArchiveTypeOK
  <1>11. present' \subseteq Opened'
    BY <1>2, <1>9 DEF ArchiveInv
  <1>12. CreatedAfterSigning'
    <2>1. SignedAt[n] <= initiation[i].since + Freshness
      BY DEF OpenTransfer, ArchiveInv, InitiationsFit
    <2>2. SignedAt[n] <= c + Freshness
      BY <2>1, <1>3, <1>4, ConstantsAreNumbers
    <2>3. QED
      BY <2>2, <1>8, <1>9 DEF ArchiveInv, CreatedAfterSigning, Opened
  <1>13. CutoffsFit'
    BY <1>5 DEF ArchiveInv, CutoffsFit, LongAgo, LongKept
  <1>14. CopiesFit'
    BY <1>2, <1>5, <1>8, <1>9 DEF ArchiveInv, CopiesFit, Opened
  <1>15. RemovedIsOld' /\ RemovedIsKept'
    BY <1>2, <1>5, <1>8, <1>9 DEF ArchiveInv, RemovedIsOld, LongKept, RemovedIsKept, Opened
  <1>16. NonceOpensOnce'
    <2>1. LongKept => \A u \in Opened : transfers[u].nonce # n
      BY NonceIsNew DEF OpenTransfer
    <2>2. \A u \in Opened : u # t /\ transfers'[u] = transfers[u]
      BY <1>2, <1>8 DEF Opened
    <2>3. transfers'[t].nonce = n
      BY <1>8
    <2>4. QED
      BY <2>1, <2>2, <2>3, <1>5, <1>9
      DEF ArchiveInv, NonceOpensOnce, SignaturesAreSingleUse, LongKept
  <1>17. KeepsFit'
    BY <1>5 DEF ArchiveInv, KeepsFit
  <1>18. QED
    BY <1>10, <1>11, <1>12, <1>13, <1>14, <1>15, <1>16, <1>17 DEF ArchiveInv

----------------------------------------------------------------------------
(* A transfer is decided: it was pending, so that no job has copied it. *)

LEMMA DecideInv ==
    ASSUME ArchiveInv, NEW t \in TransferIds, NEW state \in {"completed", "finished"},
           DecideTransfer(t, state)
    PROVE  ArchiveInv'
  <1>1. /\ t \in Opened /\ transfers[t] \in TransferRows
        /\ transfers \in [TransferIds -> TransferRows \cup {Unopened}]
        /\ transfers[t].state = "pending" /\ t \in present
    BY OpenedRows DEF DecideTransfer, ArchiveInv, ArchiveTypeOK
  <1>2. transfers' = [transfers EXCEPT ![t].state = state]
    BY DEF DecideTransfer
  <1>3. [transfers[t] EXCEPT !.state = state] \in TransferRows
    BY <1>1 DEF TransferRows
  <1>4. /\ transfers' \in [TransferIds -> TransferRows \cup {Unopened}]
        /\ transfers'[t] = [transfers[t] EXCEPT !.state = state]
        /\ \A u \in TransferIds : u # t => transfers'[u] = transfers[u]
    BY <1>1, <1>2, <1>3
  <1>5. Opened' = Opened
    BY <1>1, <1>3, <1>4, KindsDiffer DEF Opened
  <1>6. \A u \in Opened : /\ transfers'[u].nonce = transfers[u].nonce
                          /\ transfers'[u].created = transfers[u].created
    BY <1>1, <1>4 DEF Opened, TransferRows
  <1>7. UNCHANGED <<clock, present, auditTrail, initiation, job, retention, shortest>>
    BY DEF DecideTransfer
  <1>8. clock' \in Times /\ ArchiveTypeOK' /\ present' \subseteq Opened'
    BY <1>4, <1>5, <1>7 DEF ArchiveInv, ArchiveTypeOK
  <1>9. InitiationsFit' /\ KeepsFit' /\ CutoffsFit'
    BY <1>7 DEF ArchiveInv, InitiationsFit, KeepsFit, CutoffsFit, LongAgo, LongKept
  <1>10. CreatedAfterSigning' /\ NonceOpensOnce'
    BY <1>5, <1>6, <1>7
    DEF ArchiveInv, CreatedAfterSigning, NonceOpensOnce, SignaturesAreSingleUse
  <1>11. CopiesFit'
    BY <1>1, <1>4, <1>5, <1>6, <1>7 DEF ArchiveInv, CopiesFit, Opened
  <1>12. RemovedIsOld' /\ RemovedIsKept'
    BY <1>1, <1>4, <1>5, <1>6, <1>7
    DEF ArchiveInv, RemovedIsOld, LongKept, RemovedIsKept, Opened
  <1>13. QED
    BY <1>8, <1>9, <1>10, <1>11, <1>12 DEF ArchiveInv

----------------------------------------------------------------------------
(* Archival. *)

\* A step of a job that does not touch the tables.
LEMMA JobInv ==
    ASSUME ArchiveInv,
           UNCHANGED <<clock, transfers, present, auditTrail, initiation, retention, shortest>>,
           KeepsFit', CutoffsFit', CopiesFit',
           job' \in [Jobs -> JobRecords \cup {Resting}]
    PROVE  ArchiveInv'
  <1>1. Opened' = Opened
    BY DEF Opened
  <1>2. QED
    BY <1>1 DEF ArchiveInv, ArchiveTypeOK, CreatedAfterSigning, InitiationsFit, LongKept,
                RemovedIsOld, RemovedIsKept, NonceOpensOnce, SignaturesAreSingleUse

\* A job whose record changes to one that fits.
LEMMA OneJobInv ==
    ASSUME ArchiveInv,
           UNCHANGED <<clock, transfers, present, auditTrail, initiation, retention, shortest>>,
           NEW j \in Jobs, NEW record \in JobRecords \cup {Resting},
           job' = [job EXCEPT ![j] = record],
           record.at = "policy" => record.keep >= shortest,
           record.at \in {"running", "copied"} /\ LongKept => record.cutoff = 0 \/ LongAgo(record.cutoff),
           record.at = "copied" =>
              \A t \in record.copied : /\ t \in Opened /\ transfers[t].state = "finished"
                                      /\ transfers[t].created < record.cutoff
    PROVE  ArchiveInv'
  <1>1. job \in [Jobs -> JobRecords \cup {Resting}]
    BY DEF ArchiveInv, ArchiveTypeOK
  <1>2. /\ job' \in [Jobs -> JobRecords \cup {Resting}]
        /\ job'[j] = record /\ \A k \in Jobs : k # j => job'[k] = job[k]
    BY <1>1
  <1>3. Opened' = Opened
    BY DEF Opened
  <1>4. KeepsFit' /\ CutoffsFit'
    BY <1>2 DEF ArchiveInv, KeepsFit, CutoffsFit, LongAgo, LongKept
  <1>5. CopiesFit'
    BY <1>2, <1>3 DEF ArchiveInv, CopiesFit
  <1>6. QED
    BY <1>1, <1>2, <1>4, <1>5, JobInv

LEMMA RestingFits == Resting.at \notin {"policy", "running", "copied"}
  BY DEF Resting

\* A retention that is shorter than the others becomes the shortest: if it is long
\* enough, the shortest so far was.
LEMMA RetentionInv ==
    ASSUME ArchiveInv, NEW days \in Retentions, SetRetention(days)
    PROVE  ArchiveInv'
  <1>1. Opened' = Opened
    BY DEF SetRetention, Opened
  <1>2. days \in Int /\ shortest \in Int /\ retention \in Int /\ LeastAge \in Int
    BY ConstantsAreNumbers DEF ArchiveInv, ArchiveTypeOK
  <1>3. /\ retention' = days /\ shortest' \in {days, shortest}
        /\ shortest' <= days /\ shortest' <= shortest
        /\ UNCHANGED <<clock, transfers, present, auditTrail, initiation, job>>
    BY <1>2 DEF SetRetention
  <1>4. LongKept' => LongKept
    BY <1>2, <1>3 DEF LongKept
  <1>5. clock' \in Times /\ ArchiveTypeOK' /\ present' \subseteq Opened'
    BY <1>1, <1>3 DEF ArchiveInv, ArchiveTypeOK
  <1>6. KeepsFit'
    <2>1. ASSUME NEW j \in Jobs, job[j].at = "policy" PROVE job[j].keep >= shortest'
      <3>1. job[j] \in [at : {"policy"}, keep : Retentions]
        BY <2>1 DEF ArchiveInv, ArchiveTypeOK, JobRecords, Resting
      <3>2. job[j].keep \in Int /\ job[j].keep >= shortest
        BY <2>1, <3>1, ConstantsAreNumbers DEF ArchiveInv, KeepsFit
      <3>3. QED
        BY <3>2, <1>2, <1>3
    <2>2. QED
      BY <2>1, <1>2, <1>3 DEF KeepsFit
  <1>7. CutoffsFit' /\ CopiesFit'
    BY <1>1, <1>3, <1>4 DEF ArchiveInv, CutoffsFit, LongAgo, CopiesFit
  <1>8. InitiationsFit' /\ CreatedAfterSigning' /\ RemovedIsOld' /\ RemovedIsKept'
    BY <1>1, <1>3, <1>4
    DEF ArchiveInv, InitiationsFit, CreatedAfterSigning, RemovedIsOld, RemovedIsKept
  <1>9. NonceOpensOnce'
    BY <1>1, <1>3, <1>4
    DEF ArchiveInv, LongKept, NonceOpensOnce, SignaturesAreSingleUse
  <1>10. QED
    BY <1>5, <1>6, <1>7, <1>8, <1>9 DEF ArchiveInv

LEMMA ReadInv ==
    ASSUME ArchiveInv, NEW j \in Jobs, ReadPolicies(j)
    PROVE  ArchiveInv'
  <1> DEFINE record == [at |-> "policy", keep |-> retention]
  <1>1. /\ record \in JobRecords /\ record.at \notin {"running", "copied"}
        /\ record.keep >= shortest
    BY DEF JobRecords, ArchiveInv, ArchiveTypeOK, KeepsFit
  <1>2. job' = [job EXCEPT ![j] = record]
    BY DEF ReadPolicies
  <1> HIDE DEF record
  <1>3. QED
    BY <1>1, <1>2, OneJobInv DEF ReadPolicies

LEMMA BeginRunInv ==
    ASSUME ArchiveInv, NEW j \in Jobs, BeginRun(j)
    PROVE  ArchiveInv'
  <1> DEFINE cut == IF clock > job[j].keep THEN clock - job[j].keep ELSE 0
             record == [at |-> "running", cutoff |-> cut]
  <1>1. job[j].keep \in Retentions
    <2>1. job[j] \in JobRecords \cup {Resting} /\ job[j].at = "policy"
      BY DEF BeginRun, ArchiveInv, ArchiveTypeOK
    <2>2. job[j] \in [at : {"policy"}, keep : Retentions]
      BY <2>1 DEF JobRecords, Resting
    <2>3. QED
      BY <2>2
  <1>2. clock \in Nat /\ clock <= MaxTime
    BY ConstantsAreNumbers DEF ArchiveInv, Times
  <1>3. job[j].keep \in Int /\ shortest \in Int /\ job[j].keep >= shortest
    BY <1>1, ConstantsAreNumbers DEF BeginRun, ArchiveInv, ArchiveTypeOK, KeepsFit
  <1>4. cut \in Nat /\ (LongKept => cut = 0 \/ LongAgo(cut))
    BY <1>2, <1>3, ConstantsAreNumbers DEF LongAgo, LongKept
  <1>5. record \in JobRecords /\ record.at \notin {"policy", "copied"} /\ record.cutoff = cut
    BY <1>4 DEF JobRecords
  <1>6. job' = [job EXCEPT ![j] = record]
    BY DEF BeginRun
  <1> HIDE DEF record, cut
  <1>7. QED
    BY <1>4, <1>5, <1>6, OneJobInv DEF BeginRun

LEMMA CopyInv ==
    ASSUME ArchiveInv, NEW j \in Jobs, CopyBatch(j)
    PROVE  ArchiveInv'
  <1>1. PICK S \in Batch(Archivable(j)) :
            job' = [job EXCEPT ![j] = [at |-> "copied", cutoff |-> job[j].cutoff, copied |-> S]]
    BY DEF CopyBatch
  <1> DEFINE record == [at |-> "copied", cutoff |-> job[j].cutoff, copied |-> S]
  <1>2. S \subseteq Archivable(j)
    BY DEF Batch
  <1>3. job[j].cutoff \in Nat
    <2>1. job[j] \in JobRecords \cup {Resting} /\ job[j].at = "running"
      BY DEF CopyBatch, ArchiveInv, ArchiveTypeOK
    <2>2. job[j] \in [at : {"running"}, cutoff : Nat]
      BY <2>1 DEF JobRecords, Resting
    <2>3. QED
      BY <2>2
  <1>4. S \subseteq TransferIds
    BY <1>2 DEF Archivable, ArchiveInv, ArchiveTypeOK
  <1>5. /\ record \in JobRecords /\ record.at = "copied"
        /\ record.cutoff = job[j].cutoff /\ record.copied = S
    BY <1>3, <1>4 DEF JobRecords
  <1>6. LongKept => record.cutoff = 0 \/ LongAgo(record.cutoff)
    BY <1>5 DEF CopyBatch, ArchiveInv, CutoffsFit
  <1>7. \A t \in record.copied : /\ t \in Opened /\ transfers[t].state = "finished"
                                /\ transfers[t].created < record.cutoff
    BY <1>2, <1>5 DEF Archivable, ArchiveInv
  <1> HIDE DEF record
  <1>8. job' = [job EXCEPT ![j] = record]
    BY <1>1 DEF record
  <1>9. QED
    BY <1>5, <1>6, <1>7, <1>8, OneJobInv DEF CopyBatch

LEMMA DeleteInv ==
    ASSUME ArchiveInv, NEW j \in Jobs, DeleteCopied(j)
    PROVE  ArchiveInv'
  <1> DEFINE S == job[j].copied
  <1>1. S \subseteq TransferIds /\ job[j].cutoff \in Nat
    <2>1. job[j] \in JobRecords \cup {Resting} /\ job[j].at = "copied"
      BY DEF DeleteCopied, ArchiveInv, ArchiveTypeOK
    <2>2. job[j] \in [at : {"copied"}, cutoff : Nat, copied : SUBSET TransferIds]
      BY <2>1 DEF JobRecords, Resting
    <2>3. QED
      BY <2>2
  <1>2. /\ present' = present \ S /\ auditTrail' = auditTrail \cup S
        /\ job' = [job EXCEPT ![j] = Resting]
        /\ UNCHANGED <<clock, transfers, initiation, retention, shortest>>
    BY DEF DeleteCopied
  <1>3. Opened' = Opened
    BY <1>2 DEF Opened
  <1>4. \A t \in S : /\ t \in Opened /\ transfers[t].state = "finished"
                    /\ transfers[t].created < job[j].cutoff
    BY DEF DeleteCopied, ArchiveInv, CopiesFit
  <1>5. /\ job' \in [Jobs -> JobRecords \cup {Resting}]
        /\ job'[j] = Resting /\ \A k \in Jobs : k # j => job'[k] = job[k]
    BY <1>2 DEF ArchiveInv, ArchiveTypeOK
  <1>6. clock' \in Times /\ ArchiveTypeOK' /\ present' \subseteq Opened'
    BY <1>1, <1>2, <1>3, <1>5 DEF ArchiveInv, ArchiveTypeOK
  <1>7. InitiationsFit' /\ CreatedAfterSigning' /\ NonceOpensOnce'
    BY <1>2, <1>3
    DEF ArchiveInv, InitiationsFit, CreatedAfterSigning, NonceOpensOnce, SignaturesAreSingleUse
  <1>8. KeepsFit' /\ CutoffsFit' /\ CopiesFit'
    BY <1>2, <1>3, <1>5, RestingFits
    DEF ArchiveInv, KeepsFit, CutoffsFit, CopiesFit, LongAgo, LongKept
  <1>9. RemovedIsOld'
    <2>1. LongKept => job[j].cutoff = 0 \/ LongAgo(job[j].cutoff)
      BY DEF DeleteCopied, ArchiveInv, CutoffsFit
    <2>2. ASSUME LongKept, NEW t \in S PROVE transfers[t].created + LeastAge < clock
      <3>1. t \in Opened /\ transfers[t].created < job[j].cutoff
        BY <1>4
      <3>2. transfers[t].created \in Nat /\ job[j].cutoff \in Nat /\ clock \in Nat
        BY <3>1, <1>1, OpenedRows, ConstantsAreNumbers DEF ArchiveInv
      <3>3. QED
        BY <2>1, <2>2, <3>1, <3>2, ConstantsAreNumbers DEF LongAgo
    <2>3. QED
      BY <2>2, <1>2, <1>3 DEF ArchiveInv, RemovedIsOld, LongKept
  <1>10. RemovedIsKept'
    BY <1>2, <1>3, <1>4 DEF ArchiveInv, RemovedIsKept
  <1>11. QED
    BY <1>6, <1>7, <1>8, <1>9, <1>10 DEF ArchiveInv

LEMMA FailInv ==
    ASSUME ArchiveInv, NEW j \in Jobs, RunFails(j)
    PROVE  ArchiveInv'
  BY OneJobInv, RestingFits DEF RunFails

\* Time passes: what was long ago stays so, and no handler outstays its bound.
LEMMA TickInv == ASSUME ArchiveInv, ArchiveTick PROVE ArchiveInv'
  <1>1. clock \in Nat /\ clock' = clock + 1 /\ clock' \in Times /\ UNCHANGED archiveVars
    BY ConstantsAreNumbers DEF ArchiveTick, Tick, ArchiveInv, Times
  <1>2. Opened' = Opened
    BY <1>1 DEF Opened, archiveVars
  <1>3. InitiationsFit'
    <2>1. \A i \in Initiations : initiation[i] # NoInitiation =>
              initiation[i].since \in Nat /\ clock < initiation[i].since + MaxDelay
      BY ConstantsAreNumbers DEF ArchiveTick, ArchiveInv, ArchiveTypeOK
    <2>2. QED
      BY <1>1, <2>1, ConstantsAreNumbers DEF ArchiveInv, InitiationsFit, archiveVars
  <1>4. CutoffsFit'
    <2>1. ASSUME NEW j \in Jobs, job[j].at \in {"running", "copied"}
          PROVE  job[j].cutoff \in Nat
      <3>1. job[j] \in JobRecords \cup {Resting}
        BY DEF ArchiveInv, ArchiveTypeOK
      <3>2. job[j] \in [at : {"running"}, cutoff : Nat]
                    \cup [at : {"copied"}, cutoff : Nat, copied : SUBSET TransferIds]
        BY <2>1, <3>1 DEF JobRecords, Resting
      <3>3. QED
        BY <3>2
    <2>2. QED
      BY <1>1, <2>1, ConstantsAreNumbers
      DEF ArchiveInv, CutoffsFit, LongAgo, LongKept, archiveVars
  <1>5. RemovedIsOld'
    BY <1>1, <1>2, OpenedRows, ConstantsAreNumbers
    DEF ArchiveInv, RemovedIsOld, LongKept, archiveVars
  <1>6. QED
    BY <1>1, <1>2, <1>3, <1>4, <1>5
    DEF ArchiveInv, ArchiveTypeOK, archiveVars, CreatedAfterSigning, KeepsFit, CopiesFit,
        RemovedIsKept, NonceOpensOnce, SignaturesAreSingleUse

LEMMA ArchiveNextInv ==
    ASSUME ArchiveInv, [ArchiveNext]_<<clock, archiveVars>>
    PROVE  ArchiveInv'
  <1>1. CASE UNCHANGED <<clock, archiveVars>>
    <2>1. job' \in [Jobs -> JobRecords \cup {Resting}]
      BY <1>1 DEF ArchiveInv, ArchiveTypeOK, archiveVars
    <2>2. KeepsFit' /\ CutoffsFit' /\ CopiesFit'
      BY <1>1
      DEF ArchiveInv, KeepsFit, CutoffsFit, LongAgo, LongKept, CopiesFit, Opened, archiveVars
    <2>3. QED
      BY <1>1, <2>1, <2>2, JobInv DEF archiveVars
  <1>2. CASE ArchiveNext
    BY <1>2, BeginInv, OpenInv, LeaveInv, DecideInv, RetentionInv, ReadInv, BeginRunInv,
       CopyInv, DeleteInv, FailInv, TickInv DEF ArchiveNext
  <1>3. QED
    BY <1>1, <1>2

\* The type invariant of archival, for every value of its constants
\* (archival.rs:475-565).
THEOREM ArchiveType == ArchiveSpec => []ArchiveTypeOK
  BY ArchiveInitInv, ArchiveNextInv, PTL DEF ArchiveSpec, ArchiveInv

\* Whatever jobs overlap and fail, what they delete has a committed copy and was
\* neither live nor completed (archival.rs:508).
THEOREM DeletedIsCopied == ArchiveSpec => []RemovedIsKept
  BY ArchiveInitInv, ArchiveNextInv, PTL DEF ArchiveSpec, ArchiveInv

\* I6 (handlers.rs:6601) survives archival as long as no retention was ever set
\* below two freshness windows and a handler's time, for any other retentions and
\* whoever sets them when; a shorter one is not refused (archival.rs:228-255).
THEOREM SingleUseUnlessShortRetention == ArchiveSpec => []NonceOpensOnce
  BY ArchiveInitInv, ArchiveNextInv, PTL DEF ArchiveSpec, ArchiveInv
=============================================================================
