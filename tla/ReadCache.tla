----------------------------- MODULE ReadCache -----------------------------
(***************************************************************************)
(* One cached answer (api/src/cache.rs): a copy in the memory of every     *)
(* server, L1, and one in Redis, L2, that they share.  A read looks in L1, *)
(* in L2 and in the database, and leaves what it found behind; a write     *)
(* commits and then clears the L1 of its own server and L2.  Redis may     *)
(* fail at any call, and a client that goes away ends its request.         *)
(***************************************************************************)
EXTENDS WallClock

CONSTANTS
    Servers,
    Requests,
    L1Ttl, L2Ttl,   \* times to live
    MaxStay,        \* bound of the time a request takes
    MaxWrites,      \* bound of the writes
    Nowhere

ASSUME ReadCacheAssumption ==
    /\ {L1Ttl, L2Ttl} \subseteq Nat \ {0} /\ {MaxStay, MaxWrites} \subseteq Nat
    /\ Nowhere \notin Servers

VARIABLES
    version,    \* of the answer in the database
    replaced,   \* replaced[v]: when version v was replaced
    l1, l2,     \* the copies: a version, and when it expires
    request,    \* what every request is at
    settled,    \* the newest version written with nobody else about
    home,       \* the server that wrote it
    alone       \* nobody has been about, and nothing failed, since the last commit

cacheVars == <<version, replaced, l1, l2, request, settled, home, alone>>

Versions == 0..MaxWrites
Nothing == [of |-> 0, until |-> 0]
Copies == [of : Versions, until : 0..(MaxTime + L1Ttl + L2Ttl)]

ReadStages == {"askL2", "backfill", "askDb", "putL1", "putL2"}
WriteStages == {"dropL1", "dropL2"}
Idle == [at |-> "out", on |-> Nowhere, of |-> 0, since |-> 0]

CacheTypeOK ==
    /\ version \in Versions
    /\ replaced \in [Versions -> Times]
    /\ l1 \in [Servers -> Copies] /\ l2 \in Copies
    /\ request \in [Requests -> [at : ReadStages \cup WriteStages, on : Servers,
                                 of : Versions, since : Times] \cup {Idle}]
    /\ settled \in Versions /\ home \in Servers \cup {Nowhere} /\ alone \in BOOLEAN

CacheInit ==
    /\ version = 0 /\ replaced = [v \in Versions |-> 0]
    /\ l1 = [s \in Servers |-> Nothing] /\ l2 = Nothing
    /\ request = [q \in Requests |-> Idle]
    /\ settled = 0 /\ home = Nowhere /\ alone = FALSE

Alive(copy) == clock < copy.until

\* insert and set_ex: a copy starts its time to live when it is put.
InL1(s, v) == l1' = [l1 EXCEPT ![s] = [of |-> v, until |-> clock + L1Ttl]]
InL2(v) == l2' = [of |-> v, until |-> clock + L2Ttl]

\* Request q is at a stage; it goes on to another, or comes to its end.
At(q, stage) == request[q].at = stage
GoesOn(q, stage, v) == request' = [request EXCEPT ![q].at = stage, ![q].of = v]
Ends(q) == request' = [request EXCEPT ![q] = Idle]

----------------------------------------------------------------------------
(* Reads.  A hit in L1 changes nothing. *)

\* get: L1 has no live copy.
MissL1(q, s) ==
    /\ At(q, "out") /\ ~Alive(l1[s])
    /\ request' = [request EXCEPT ![q] = [at |-> "askL2", on |-> s, of |-> 0, since |-> clock]]
    /\ alone' = FALSE
    /\ UNCHANGED <<clock, version, replaced, l1, l2, settled, home>>

\* get: L2 has a live copy, or has none, or Redis fails.
AskL2(q) ==
    /\ At(q, "askL2")
    /\ \/ Alive(l2) /\ GoesOn(q, "backfill", l2.of)
       \/ GoesOn(q, "askDb", 0)
    /\ UNCHANGED <<clock, version, replaced, l1, l2, settled, home, alone>>

\* Mutant: a hit in L2 starts its time to live anew.
BackfillBoth(q) ==
    /\ At(q, "backfill")
    /\ InL1(request[q].on, request[q].of) /\ InL2(request[q].of)
    /\ Ends(q)
    /\ UNCHANGED <<clock, version, replaced, settled, home, alone>>

\* get: what L2 had goes into L1, for the whole of L1's time to live.
Backfill(q) ==
    /\ At(q, "backfill")
    /\ InL1(request[q].on, request[q].of)
    /\ Ends(q)
    /\ UNCHANGED <<clock, version, replaced, l2, settled, home, alone>>

\* The handler reads the database ...
ReadDb(q) ==
    /\ At(q, "askDb")
    /\ GoesOn(q, "putL1", version)
    /\ UNCHANGED <<clock, version, replaced, l1, l2, settled, home, alone>>

\* ... and puts what it read.
PutL1(q) ==
    /\ At(q, "putL1")
    /\ InL1(request[q].on, request[q].of)
    /\ GoesOn(q, "putL2", request[q].of)
    /\ UNCHANGED <<clock, version, replaced, l2, settled, home, alone>>

PutL2(q) ==
    /\ At(q, "putL2")
    /\ InL2(request[q].of) \/ UNCHANGED l2
    /\ Ends(q)
    /\ UNCHANGED <<clock, version, replaced, l1, settled, home, alone>>

----------------------------------------------------------------------------
(* Writes. *)

Commit(q, s) ==
    /\ At(q, "out") /\ version < MaxWrites
    /\ version' = version + 1
    /\ replaced' = [replaced EXCEPT ![version] = clock]
    /\ request' = [request EXCEPT ![q] = [at |-> "dropL1", on |-> s, of |-> 0, since |-> clock]]
    /\ alone' = (\A o \in Requests \ {q} : At(o, "out"))
    /\ UNCHANGED <<clock, l1, l2, settled, home>>

\* invalidate
DropL1(q) ==
    /\ At(q, "dropL1")
    /\ l1' = [l1 EXCEPT ![request[q].on] = Nothing]
    /\ GoesOn(q, "dropL2", 0)
    /\ UNCHANGED <<clock, version, replaced, l2, settled, home, alone>>

\* Mutant: the key of another namespace is deleted.
DropL2Elsewhere(q) ==
    /\ At(q, "dropL2")
    /\ \/ /\ settled' = IF alone THEN version ELSE settled
          /\ home' = IF alone THEN request[q].on ELSE home
       \/ UNCHANGED <<settled, home>>
    /\ Ends(q)
    /\ UNCHANGED <<clock, version, replaced, l1, l2, alone>>

DropL2(q) ==
    /\ At(q, "dropL2")
    /\ \/ /\ l2' = Nothing
          /\ settled' = IF alone THEN version ELSE settled
          /\ home' = IF alone THEN request[q].on ELSE home
       \/ UNCHANGED <<l2, settled, home>>
    /\ Ends(q)
    /\ UNCHANGED <<clock, version, replaced, l1, alone>>

----------------------------------------------------------------------------
\* The client goes away, and the future of its request is dropped.
Abandon(q) ==
    /\ ~At(q, "out")
    /\ Ends(q)
    /\ UNCHANGED <<clock, version, replaced, l1, l2, settled, home, alone>>

\* An expired copy is as good as none: it is forgotten.
CacheTick ==
    /\ Tick
    /\ \A q \in Requests : At(q, "out") \/ clock < request[q].since + MaxStay
    /\ l1' = [s \in Servers |-> IF clock' < l1[s].until THEN l1[s] ELSE Nothing]
    /\ l2' = IF clock' < l2.until THEN l2 ELSE Nothing
    /\ UNCHANGED <<version, replaced, request, settled, home, alone>>

CacheNext ==
    \/ \E q \in Requests :
        \/ \E s \in Servers : MissL1(q, s) \/ Commit(q, s)
        \/ AskL2(q) \/ Backfill(q) \/ ReadDb(q) \/ PutL1(q) \/ PutL2(q)
        \/ DropL1(q) \/ DropL2(q) \/ Abandon(q)
    \/ CacheTick

CacheSpec == clock = 0 /\ CacheInit /\ [][CacheNext]_<<clock, cacheVars>>

----------------------------------------------------------------------------
\* Whatever fails, and whoever reads while a write clears the caches, no cache
\* answers with a version that was replaced longer ago than both times to live
\* and the time of the two requests that brought it there: no copy is renewed
\* from a copy for ever (cache.rs:258, :278).
AgeBounded ==
    \A copy \in {l2} \cup {l1[s] : s \in Servers} :
        Alive(copy) /\ copy.of < version =>
            clock < replaced[copy.of] + L1Ttl + L2Ttl + 2 * MaxStay

\* Once a write has cleared the caches with no other request about, what it
\* replaced does not come back to Redis or to its own server, though other
\* servers go on answering with it from their memory (cache.rs:301).
InvalidationSticks ==
    /\ Alive(l2) => l2.of >= settled
    /\ home # Nowhere /\ Alive(l1[home]) => l1[home].of >= settled
=============================================================================
