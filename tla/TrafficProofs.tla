---------------------------- MODULE TrafficProofs ----------------------------
(***************************************************************************)
(* What lies between a client and the rows it asks for.  Resilience, for   *)
(* any number of requests, permits and places in the queue: the semaphore  *)
(* and the counters tell where every request is.  RateLimit, for any       *)
(* limits, windows and requests: no window lets through more than a limit, *)
(* no request is refused without cause or told to come back too early.     *)
(* SearchWalk, for any page size, bounds and cache: a walk over the pages  *)
(* is faithful to what matched throughout it.                              *)
(***************************************************************************)
EXTENDS Resilience, RateLimit, SearchWalk, SequenceTheorems, FiniteSetTheorems,
        WellFoundedInduction, TLAPS

-----------------------------------------------------------------------------
(* The queue for the database. *)

One(b) == IF b THEN 1 ELSE 0

\* A request that moves on leaves one stage and enters another.
LEMMA MoveCounts ==
    ASSUME stage \in [Calls -> Stages], NEW c \in Calls, NEW from, NEW to \in Stages,
           Moves(c, from, to), NEW S
    PROVE  /\ InStage(S) \in Nat /\ InStage(S)' \in Nat
           /\ InStage(S)' = InStage(S) - One(from \in S) + One(to \in S)
           /\ from \in S => InStage(S) > 0
           /\ stage' \in [Calls -> Stages]
  <1> DEFINE A == {d \in Calls : stage[d] \in S}
             B == {d \in Calls : stage'[d] \in S}
             C == {d \in Calls \ {c} : stage[d] \in S}
  <1>1. /\ stage[c] = from /\ stage' \in [Calls -> Stages] /\ stage'[c] = to
        /\ \A d \in Calls \ {c} : stage'[d] = stage[d]
    BY DEF Moves
  <1>2. IsFiniteSet(C) /\ Cardinality(C) \in Nat /\ c \notin C
    <2>1. C \in SUBSET Calls
      OBVIOUS
    <2> QED
      BY <2>1, ResilienceAssumption, FS_Subset, FS_CardinalityType
  <1>3. A = IF from \in S THEN C \cup {c} ELSE C
    BY <1>1
  <1>4. B = IF to \in S THEN C \cup {c} ELSE C
    BY <1>1
  <1>5. Cardinality(C \cup {c}) = Cardinality(C) + 1
    <2> HIDE DEF C
    <2> QED
      BY <1>2, FS_AddElement
  <1>6. Cardinality(A) = Cardinality(C) + One(from \in S)
    <2> HIDE DEF C, A
    <2>1. CASE from \in S
      BY <1>3, <1>5, <2>1 DEF One
    <2>2. CASE from \notin S
      <3>1. A = C /\ One(from \in S) = 0
        BY <1>3, <2>2 DEF One
      <3> QED
        BY <1>2, <3>1
    <2> QED
      BY <2>1, <2>2
  <1>7. Cardinality(B) = Cardinality(C) + One(to \in S)
    <2> HIDE DEF C, B
    <2>1. CASE to \in S
      BY <1>4, <1>5, <2>1 DEF One
    <2>2. CASE to \notin S
      <3>1. B = C /\ One(to \in S) = 0
        BY <1>4, <2>2 DEF One
      <3> QED
        BY <1>2, <3>1
    <2> QED
      BY <2>1, <2>2
  <1>8. InStage(S) = Cardinality(A) /\ InStage(S)' = Cardinality(B)
    BY DEF InStage
  <1>9. /\ One(from \in S) \in {0, 1} /\ One(to \in S) \in {0, 1}
        /\ from \in S => One(from \in S) = 1
    BY DEF One
  <1> HIDE DEF A, B, C
  <1> QED
    BY <1>1, <1>2, <1>6, <1>7, <1>8, <1>9

\* Every sequence that has lost one element is a sequence of the same things.
LEMMA RemoveAtType ==
    ASSUME NEW T, NEW s \in Seq(T), NEW i \in 1..Len(s)
    PROVE  RemoveAt(s, i) \in Seq(T)
  BY DEF RemoveAt

\* The breaker pings only while it is not open, and then its failures are below
\* the threshold, so a further one keeps within it.
BreakerInv ==
    /\ pinging => breaker # "open"
    /\ breaker # "open" => failures < FailureThreshold

ResInv == ResTypeOK /\ BreakerInv /\ CountersTellStages

Held    == {"granted", "admitted", "running", "leaving"}
Running == {"running"}
Waiting == {"waiting", "granted", "late"}

\* Initially every request is out.
LEMMA ResInitInv == ResInit => ResInv
  <1> SUFFICES ASSUME ResInit PROVE ResInv
    OBVIOUS
  <1>1. \A S : "out" \notin S => InStage(S) = 0
    <2>1. \A S : "out" \notin S => {c \in Calls : stage[c] \in S} = {}
      BY DEF ResInit
    <2> QED
      BY <2>1, FS_EmptySet DEF InStage
  <1>2. CountersTellStages
    BY <1>1, ResilienceAssumption
       DEF ResInit, CountersTellStages, PermitsAccounted, ActiveWithinLimit, QueuedCoversWaiters
  <1>3. stage \in [Calls -> Stages] /\ line \in Seq(Calls)
    BY DEF ResInit, Stages
  <1>4. BreakerInv
    BY ResilienceAssumption DEF ResInit, BreakerInv
  <1>5. ResTypeOK
    <2>1. up \in BOOLEAN /\ pinging \in BOOLEAN /\ breaker \in {"closed", "open", "halfopen"}
      BY DEF ResInit
    <2>2. /\ failures \in 0..FailureThreshold /\ age \in 0..RecoveryPings
          /\ permits \in 0..Concurrency /\ active \in 0..Concurrency
          /\ queued \in Nat /\ hangups \in 0..MaxHangups
      BY ResilienceAssumption DEF ResInit
    <2> QED
      BY <1>3, <2>1, <2>2 DEF ResTypeOK
  <1> QED
    BY <1>2, <1>4, <1>5 DEF ResInv

\* A step of the ping task or of the database leaves the queue alone.
LEMMA BreakerStep ==
    ResInv /\ (Outage \/ PingTick \/ PingOk \/ PingFails) => ResInv'
  <1> SUFFICES ASSUME ResInv, Outage \/ PingTick \/ PingOk \/ PingFails PROVE ResInv'
    OBVIOUS
  <1>1. UNCHANGED queueVars
    BY DEF Outage, PingTick, PingOk, PingFails
  <1>2. CountersTellStages'
    BY <1>1 DEF queueVars, ResInv, CountersTellStages, PermitsAccounted, ActiveWithinLimit,
                QueuedCoversWaiters, InStage
  <1>3. /\ breaker' \in {"closed", "open", "halfopen"}
        /\ failures' \in 0..FailureThreshold /\ age' \in 0..RecoveryPings
        /\ breaker' # "open" => failures' < FailureThreshold
    <2> USE ResilienceAssumption DEF ResInv, ResTypeOK, BreakerInv
    <2>1. CASE Outage
      BY <2>1 DEF Outage
    <2>2. CASE PingTick
      BY <2>2 DEF PingTick
    <2>3. CASE PingOk
      BY <2>3 DEF PingOk
    <2>4. CASE PingFails
      BY <2>4 DEF PingFails
    <2> QED
      BY <2>1, <2>2, <2>3, <2>4
  <1>4. up' \in BOOLEAN /\ pinging' \in BOOLEAN
    BY DEF ResInv, ResTypeOK, Outage, PingTick, PingOk, PingFails
  <1>5. pinging' => breaker' # "open"
    BY DEF ResInv, BreakerInv, Outage, PingTick, PingOk, PingFails
  <1> QED
    BY <1>1, <1>2, <1>3, <1>4, <1>5 DEF ResInv, ResTypeOK, BreakerInv, queueVars

\* A step of a request changes each counter as it changes the number of requests
\* that the counter stands for.
LEMMA QueueStep ==
    ASSUME ResInv, NEW c \in Calls, Arrives(c) \/ Proceed(c) \/ HangUp(c)
    PROVE  ResInv'
  <1>1. stage \in [Calls -> Stages] /\ line \in Seq(Calls)
    BY DEF ResInv, ResTypeOK
  <1>2. /\ permits \in Nat /\ queued \in Nat /\ active \in Nat /\ hangups \in Nat
        /\ Concurrency \in Nat /\ MaxHangups \in Nat
    BY ResilienceAssumption DEF ResInv, ResTypeOK
  <1>3. UNCHANGED breakerVars
    BY DEF Arrives, Proceed, Enqueue, Grant, WaitTimesOut, Uncount, Activate, Respond,
           ReturnPermit, HangUp
  <1>4. line' \in Seq(Calls)
    <2>1. LeavesLine(c) => line' \in Seq(Calls)
      BY <1>1, RemoveAtType DEF LeavesLine
    <2>2. line # <<>> => Tail(line) \in Seq(Calls)
      BY <1>1
    <2>3. Append(line, c) \in Seq(Calls)
      BY <1>1
    <2>4. /\ Enqueue(c) => line' \in {line, Append(line, c)}
          /\ Grant(c) => line # <<>> /\ line' = Tail(line)
      BY DEF Enqueue, Grant
    <2>5. WaitTimesOut(c) \/ HangUp(c) => line' = line \/ LeavesLine(c)
      BY DEF WaitTimesOut, HangUp
    <2>6. Arrives(c) \/ Uncount(c) \/ Activate(c) \/ Respond(c) \/ ReturnPermit(c)
            => line' = line
      BY DEF Arrives, Uncount, Activate, Respond, ReturnPermit
    <2> QED
      BY <1>1, <2>1, <2>2, <2>3, <2>4, <2>5, <2>6 DEF Proceed
  <1>5. hangups' \in 0..MaxHangups
    BY <1>2 DEF ResInv, ResTypeOK, Arrives, Proceed, Enqueue, Grant, WaitTimesOut, Uncount, Activate,
           Respond, ReturnPermit, HangUp
  <1>6. ASSUME NEW from \in Stages, NEW to \in Stages, Moves(c, from, to),
               permits' = permits + One(from \in Held) - One(to \in Held),
               active' = active - One(from \in Running) + One(to \in Running),
               queued' + hangups = queued + hangups' - One(from \in Waiting) + One(to \in Waiting),
               permits' \in Nat, queued' \in Int
        PROVE  ResInv'
    <2>1. /\ InStage(Held) \in Nat /\ InStage(Held)' \in Nat
          /\ InStage(Held)' = InStage(Held) - One(from \in Held) + One(to \in Held)
          /\ InStage(Running) \in Nat /\ InStage(Running)' \in Nat
          /\ InStage(Running)' = InStage(Running) - One(from \in Running) + One(to \in Running)
          /\ InStage(Waiting) \in Nat /\ InStage(Waiting)' \in Nat
          /\ InStage(Waiting)' = InStage(Waiting) - One(from \in Waiting) + One(to \in Waiting)
          /\ stage' \in [Calls -> Stages]
      BY <1>1, <1>6, MoveCounts
    <2>2. \A S : One(from \in S) \in {0, 1} /\ One(to \in S) \in {0, 1}
      BY DEF One
    <2>3. /\ permits + InStage(Held) = Concurrency
          /\ active = InStage(Running)
          /\ queued = InStage(Waiting) + hangups
      BY DEF ResInv, CountersTellStages, PermitsAccounted, ActiveWithinLimit,
             QueuedCoversWaiters, Held, Running, Waiting
    <2>4. /\ permits' + InStage(Held)' = Concurrency
          /\ active' = InStage(Running)'
          /\ queued' = InStage(Waiting)' + hangups'
      <3>2. hangups' \in Nat
        BY <1>2, <1>5
      <3>3. permits' + InStage(Held)' = Concurrency
        BY <1>2, <1>6, <2>1, <2>2, <2>3
      <3>4. active' = InStage(Running)'
        BY <1>6, <2>1, <2>3
      <3>5. queued' = InStage(Waiting)' + hangups'
        BY <1>2, <1>6, <2>1, <2>2, <2>3, <3>2
      <3> QED
        BY <3>3, <3>4, <3>5
    <2>5. InStage(Running)' <= InStage(Held)'
      <3>1. {d \in Calls : stage'[d] \in Running} \in SUBSET {d \in Calls : stage'[d] \in Held}
        BY DEF Running, Held
      <3>2. {d \in Calls : stage'[d] \in Held} \in SUBSET Calls
        OBVIOUS
      <3>3. IsFiniteSet({d \in Calls : stage'[d] \in Held})
        BY <3>2, ResilienceAssumption, FS_Subset
      <3>4. Cardinality({d \in Calls : stage'[d] \in Running})
              <= Cardinality({d \in Calls : stage'[d] \in Held})
        BY <3>1, <3>3, FS_Subset
      <3> QED
        BY <3>4 DEF InStage
    <2>6. CountersTellStages'
      BY <1>2, <1>6, <2>1, <2>4, <2>5
         DEF CountersTellStages, PermitsAccounted, ActiveWithinLimit, QueuedCoversWaiters,
             Held, Running, Waiting
    <2>7. permits' \in 0..Concurrency /\ active' \in 0..Concurrency /\ queued' \in Nat
      BY <1>2, <1>5, <1>6, <2>1, <2>4, <2>5
    <2> QED
      BY <1>3, <1>4, <1>5, <2>1, <2>6, <2>7
         DEF ResInv, ResTypeOK, BreakerInv, breakerVars
  <1> USE DEF One, Held, Running, Waiting, Stages
  <1>7. CASE Arrives(c)
    BY <1>2, <1>6, <1>7 DEF Arrives
  <1>8. CASE Enqueue(c)
    BY <1>2, <1>6, <1>8 DEF Enqueue
  <1>9. CASE Grant(c)
    BY <1>2, <1>6, <1>9 DEF Grant
  <1>10. CASE WaitTimesOut(c)
    BY <1>2, <1>6, <1>10 DEF WaitTimesOut
  <1>11. CASE Uncount(c)
    BY <1>2, <1>6, <1>11 DEF Uncount
  <1>12. CASE Activate(c)
    BY <1>2, <1>6, <1>12 DEF Activate
  <1>13. CASE Respond(c)
    BY <1>2, <1>6, <1>13 DEF Respond
  <1>14. CASE ReturnPermit(c)
    BY <1>2, <1>6, <1>14 DEF ReturnPermit
  <1>15. CASE HangUp(c)
    BY <1>2, <1>6, <1>15 DEF HangUp
  <1> QED
    BY <1>7, <1>8, <1>9, <1>10, <1>11, <1>12, <1>13, <1>14, <1>15 DEF Proceed

LEMMA ResNextInv == ResInv /\ [ResNext]_resVars => ResInv'
  <1> SUFFICES ASSUME ResInv, [ResNext]_resVars PROVE ResInv'
    OBVIOUS
  <1>1. CASE UNCHANGED resVars
    BY <1>1 DEF resVars, breakerVars, queueVars, ResInv, ResTypeOK, BreakerInv, CountersTellStages,
                PermitsAccounted, ActiveWithinLimit, QueuedCoversWaiters, InStage
  <1> QED
    BY <1>1, BreakerStep, QueueStep DEF ResNext

\* The types of the breaker and of the queue: among what that excludes are a
\* failure count beyond the threshold, more free permits than there are and a
\* queue length below zero, which the code's unsigned counter would wrap.
THEOREM QueueType == ResSpec => []ResTypeOK
  BY ResInitInv, ResNextInv, PTL DEF ResSpec, ResInv

\* For any number of requests, whatever wait is cut off where: no permit is
\* lost, no more requests run than there are permits, and no waiter goes
\* uncounted (db_resilience.rs:237-253, 284-288).
THEOREM QueueCounters == ResSpec => []CountersTellStages
  BY ResInitInv, ResNextInv, PTL DEF ResSpec, ResInv
-----------------------------------------------------------------------------
(* The rate limiter. *)

\* Every non-empty set of numbers has a least element.
LEMMA MinFacts ==
    ASSUME NEW S \in SUBSET Nat, S # {}
    PROVE  Min(S) \in S /\ \A y \in S : Min(S) <= y
  <1> DEFINE R == {p \in Nat \X Nat : p[1] < p[2]}
  <1>1. IsWellFoundedOn(R, Nat)
    BY NatLessThanWellFounded DEF OpToRel
  <1>2. PICK x \in S : \A y \in S : <<y, x>> \notin R
    <2> HIDE DEF R
    <2> QED
      BY <1>1, WFMin
  <1>3. \A y \in S : x <= y
    <2>1. SUFFICES ASSUME NEW y \in S, y < x PROVE FALSE
      OBVIOUS
    <2>2. <<y, x>> \in Nat \X Nat /\ <<y, x>>[1] < <<y, x>>[2]
      BY <2>1
    <2>3. <<y, x>> \in R
      BY <2>2
    <2> QED
      BY <1>2, <2>3
  <1> QED
    BY <1>3 DEF Min

LEMMA MaxOfTwo ==
    ASSUME NEW a \in Int, NEW b \in Int
    PROVE  Max({a, b}) \in {a, b} /\ Max({a, b}) >= a /\ Max({a, b}) >= b
  <1>1. \E x \in {a, b} : \A y \in {a, b} : x >= y
    BY SMT
  <1> QED
    BY <1>1 DEF Max

\* Trimming drops the first k stamps, all of which have left the window; the
\* first that is kept has not.
LEMMA TrimmedFacts ==
    ASSUME NEW T \in SUBSET Nat, NEW s \in Seq(T), NEW now \in Nat, NEW w \in Nat
    PROVE  /\ Trimmed(s, now, w) \in Seq(T)
           /\ \E k \in 0..Len(s) :
                 /\ Len(Trimmed(s, now, w)) = Len(s) - k
                 /\ \A i \in 1..(Len(s) - k) : Trimmed(s, now, w)[i] = s[i + k]
                 /\ \A i \in 1..k : s[i] + w <= now
                 /\ k < Len(s) => s[k + 1] + w > now
  <1> DEFINE n == Len(s)
             fresh == {i \in 1..n : s[i] + w > now}
  <1>1. n \in Nat /\ \A i \in 1..n : s[i] \in Nat
    <2>1. n \in Nat
      OBVIOUS
    <2>2. ASSUME NEW i \in 1..n PROVE s[i] \in Nat
      <3>1. s[i] \in T
        OBVIOUS
      <3> QED
        BY <3>1
    <2> QED
      BY <2>1, <2>2
  <1>2. CASE fresh = {}
    <2>1. Trimmed(s, now, w) = <<>>
      BY <1>2 DEF Trimmed
    <2>2. \A i \in 1..n : s[i] + w <= now
      BY <1>1, <1>2
    <2>3. /\ n \in 0..n /\ Len(<<>>) = n - n /\ 1..(n - n) = {}
      BY <1>1
    <2> QED
      BY <2>1, <2>2, <2>3
  <1>3. CASE fresh # {}
    <2> DEFINE m == Min(fresh)
    <2>1. m \in fresh /\ \A i \in fresh : m <= i
      <3>1. fresh \in SUBSET Nat
        OBVIOUS
      <3> HIDE DEF fresh
      <3> QED
        BY <1>3, <3>1, MinFacts
    <2> HIDE DEF m
    <2>2. Trimmed(s, now, w) = SubSeq(s, m, n)
      BY <1>3 DEF Trimmed, m
    <2>3. m \in 1..n /\ s[m] + w > now
      BY <2>1
    <2>4. /\ SubSeq(s, m, n) \in Seq(T)
          /\ Len(SubSeq(s, m, n)) = n - (m - 1)
          /\ \A i \in 1..(n - (m - 1)) : SubSeq(s, m, n)[i] = s[i + (m - 1)]
      BY <1>1, <2>3
    <2>5. \A i \in 1..(m - 1) : s[i] + w <= now
      BY <1>1, <2>1, <2>3
    <2>6. m - 1 \in 0..n /\ s[(m - 1) + 1] + w > now
      BY <1>1, <2>3
    <2> QED
      BY <2>2, <2>4, <2>5, <2>6
  <1> QED
    BY <1>2, <1>3

\* As many stamps as different requests.
LEMMA InjectionBound ==
    ASSUME NEW T, IsFiniteSet(T), NEW n \in Nat, NEW f \in [1..n -> T],
           \A i, j \in 1..n : f[i] = f[j] => i = j
    PROVE  n <= Cardinality(T)
  <1>1. f \in Injection(1..n, T)
    BY DEF Injection, IsInjective
  <1>2. Cardinality(1..n) = n
    BY FS_Interval
  <1> QED
    BY <1>1, <1>2, FS_Injection

\* No more requests than stamps.
LEMMA CoverBound ==
    ASSUME NEW T, NEW n \in Nat, NEW f, \A g \in T : \E i \in 1..n : f[i] = g
    PROVE  IsFiniteSet(T) /\ Cardinality(T) <= n
  <1> DEFINE R == {f[i] : i \in 1..n}
             e == [i \in 1..n |-> f[i]]
  <1>1. IsFiniteSet(1..n) /\ Cardinality(1..n) = n
    BY FS_Interval
  <1>2. e \in Surjection(1..n, R)
    BY DEF Surjection
  <1>3. IsFiniteSet(R) /\ Cardinality(R) <= n
    BY <1>1, <1>2, FS_Surjection
  <1>4. T \in SUBSET R
    OBVIOUS
  <1>5. Cardinality(T) \in Nat /\ Cardinality(R) \in Nat /\ IsFiniteSet(T)
    BY <1>3, <1>4, FS_Subset, FS_CardinalityType
  <1>6. Cardinality(T) <= Cardinality(R)
    BY <1>3, <1>4, FS_Subset
  <1> QED
    BY <1>3, <1>5, <1>6

Admitted(g) == hit[g].state = "admitted"

\* The stamps are those of different requests that were admitted, and of all
\* that are still within the window.
Tracks(s, w) ==
    \E f \in [1..Len(s) -> Hits] :
        /\ \A i, j \in 1..Len(s) : f[i] = f[j] => i = j
        /\ \A i \in 1..Len(s) : Admitted(f[i]) /\ hit[f[i]].stamp = s[i]
        /\ \A g \in Hits : Admitted(g) /\ hit[g].stamp + w > clock
                             => \E i \in 1..Len(s) : f[i] = g

\* A stamp is overtaken by no more than the wait for the mutex.
Lagged(s) == \A i, j \in 1..Len(s) : i < j => s[i] <= s[j] + MaxLag

\* The stamp of a request lies in the past, and not far while it waits.
HitsInv ==
    \A h \in Hits :
        /\ hit[h].stamp <= clock
        /\ hit[h].state = "stamped" => clock <= hit[h].stamp + MaxLag

LimitInv ==
    /\ LimitTypeOK /\ HitsInv
    /\ Tracks(stamps, Window) /\ Tracks(bursts, BurstWindow)
    /\ Lagged(stamps) /\ Lagged(bursts)

LEMMA LimitConstants ==
    /\ MaxTime \in Nat /\ Window \in Nat /\ BurstWindow \in Nat /\ MaxLag \in Nat
    /\ Window > 0 /\ BurstWindow > 0
    /\ MaxLag < Window /\ MaxLag + Window <= 2 * Window
    /\ MaxLag + BurstWindow <= 2 * Window
    /\ Times \in SUBSET Nat /\ 0 \in Times
    /\ IsFiniteSet(Hits) /\ Hits # {}
    /\ \A h \in Hits : LimitOf[h] \in Nat /\ BurstLimitOf[h] \in Nat /\ BurstLimitOf[h] > 0
  BY RateLimitAssumption, WallClockAssumption DEF Times

\* Trimming at a time that is not ahead of the clock loses no request that is
\* still within the window.
LEMMA TrimTracks ==
    ASSUME NEW s \in Seq(Times), NEW w \in Nat, NEW now \in Nat,
           clock \in Times, now <= clock,
           hit \in [Hits -> [state : HitStates, stamp : Times, decided : Times]],
           Tracks(s, w), Lagged(s)
    PROVE  Tracks(Trimmed(s, now, w), w) /\ Lagged(Trimmed(s, now, w))
  <1>1. Times \in SUBSET Nat /\ MaxLag \in Nat
    BY LimitConstants
  <1>2. PICK u : u = Trimmed(s, now, w)
    OBVIOUS
  <1>3. PICK k \in 0..Len(s) :
           /\ Len(u) = Len(s) - k
           /\ \A i \in 1..(Len(s) - k) : u[i] = s[i + k]
           /\ \A i \in 1..k : s[i] + w <= now
    BY <1>1, <1>2, TrimmedFacts
  <1>4. PICK f \in [1..Len(s) -> Hits] :
           /\ \A i, j \in 1..Len(s) : f[i] = f[j] => i = j
           /\ \A i \in 1..Len(s) : Admitted(f[i]) /\ hit[f[i]].stamp = s[i]
           /\ \A g \in Hits : Admitted(g) /\ hit[g].stamp + w > clock
                                => \E i \in 1..Len(s) : f[i] = g
    BY DEF Tracks
  <1> DEFINE n == Len(s) - k
             e == [i \in 1..n |-> f[i + k]]
  <1>5. n \in Nat /\ \A i \in 1..n : i + k \in 1..Len(s)
    OBVIOUS
  <1>6. e \in [1..n -> Hits]
    BY <1>5
  <1>7. \A i, j \in 1..n : e[i] = e[j] => i = j
    <2>1. SUFFICES ASSUME NEW i \in 1..n, NEW j \in 1..n, f[i + k] = f[j + k] PROVE i = j
      OBVIOUS
    <2>2. i + k = j + k
      BY <1>4, <1>5, <2>1
    <2> QED
      BY <2>2
  <1>8. \A i \in 1..n : Admitted(e[i]) /\ hit[e[i]].stamp = u[i]
    BY <1>3, <1>4, <1>5
  <1>9. ASSUME NEW g \in Hits, Admitted(g), hit[g].stamp + w > clock
        PROVE  \E i \in 1..n : e[i] = g
    <2>1. PICK i \in 1..Len(s) : f[i] = g
      BY <1>4, <1>9
    <2>2. s[i] + w > now
      <3>1. s[i] = hit[g].stamp /\ s[i] \in Nat
        BY <1>1, <1>4, <2>1
      <3> QED
        BY <1>1, <1>9, <3>1
    <2>3. i > k
      <3>1. s[i] \in Times
        OBVIOUS
      <3>2. s[i] \in Nat
        BY <1>1, <3>1
      <3> QED
        BY <1>3, <2>2, <3>2
    <2>4. i - k \in 1..n /\ (i - k) + k = i
      BY <2>3
    <2> QED
      BY <2>1, <2>4
  <1>10. Tracks(u, w)
    <2>1. Len(u) = n
      BY <1>3
    <2> HIDE DEF e, n
    <2>2. SUFFICES
            \E x \in [1..n -> Hits] :
               /\ \A i, j \in 1..n : x[i] = x[j] => i = j
               /\ \A i \in 1..n : Admitted(x[i]) /\ hit[x[i]].stamp = u[i]
               /\ \A g \in Hits : Admitted(g) /\ hit[g].stamp + w > clock
                                    => \E i \in 1..n : x[i] = g
      BY <2>1 DEF Tracks
    <2> QED
      BY <1>6, <1>7, <1>8, <1>9
  <1>11. Lagged(u)
    <2>1. SUFFICES ASSUME NEW i \in 1..n, NEW j \in 1..n, i < j PROVE u[i] <= u[j] + MaxLag
      BY <1>3 DEF Lagged
    <2>2. s[i + k] <= s[j + k] + MaxLag
      BY <1>5, <2>1 DEF Lagged
    <2> QED
      BY <1>3, <2>2
  <1> QED
    BY <1>2, <1>10, <1>11

\* Tracks and Lagged of a fixed sequence after a step that admits no request.
LEMMA TracksKept ==
    ASSUME NEW s \in Seq(Times), NEW w \in Nat, Tracks(s, w),
           hit \in [Hits -> [state : HitStates, stamp : Times, decided : Times]],
           clock \in Nat, clock' \in Nat, clock <= clock',
           \A g \in Hits : /\ Admitted(g)' <=> Admitted(g)
                           /\ Admitted(g) => hit'[g].stamp = hit[g].stamp
    PROVE  Tracks(s, w)'
  <1>1. PICK f \in [1..Len(s) -> Hits] :
           /\ \A i, j \in 1..Len(s) : f[i] = f[j] => i = j
           /\ \A i \in 1..Len(s) : Admitted(f[i]) /\ hit[f[i]].stamp = s[i]
           /\ \A g \in Hits : Admitted(g) /\ hit[g].stamp + w > clock
                                => \E i \in 1..Len(s) : f[i] = g
    BY DEF Tracks
  <1>2. \A i \in 1..Len(s) : Admitted(f[i])' /\ hit'[f[i]].stamp = s[i]
    BY <1>1
  <1>3. ASSUME NEW g \in Hits, Admitted(g)', hit'[g].stamp + w > clock'
        PROVE  \E i \in 1..Len(s) : f[i] = g
    <2>1. Admitted(g) /\ hit'[g].stamp = hit[g].stamp /\ hit[g].stamp \in Nat
      BY <1>3, LimitConstants
    <2>2. hit[g].stamp + w > clock
      BY <1>3, <2>1
    <2> QED
      BY <1>1, <2>1, <2>2
  <1> QED
    BY <1>1, <1>2, <1>3 DEF Tracks

\* Admitting a request adds it to the stamps.
LEMMA TracksAdmitted ==
    ASSUME NEW s \in Seq(Times), NEW w \in Nat, Tracks(s, w),
           hit \in [Hits -> [state : HitStates, stamp : Times, decided : Times]],
           clock \in Nat, clock' = clock,
           NEW h \in Hits, ~Admitted(h), Admitted(h)', hit'[h].stamp = hit[h].stamp,
           \A g \in Hits \ {h} : hit'[g] = hit[g]
    PROVE  Tracks(Append(s, hit[h].stamp), w)'
  <1>1. PICK f \in [1..Len(s) -> Hits] :
           /\ \A i, j \in 1..Len(s) : f[i] = f[j] => i = j
           /\ \A i \in 1..Len(s) : Admitted(f[i]) /\ hit[f[i]].stamp = s[i]
           /\ \A g \in Hits : Admitted(g) /\ hit[g].stamp + w > clock
                                => \E i \in 1..Len(s) : f[i] = g
    BY DEF Tracks
  <1>2. PICK x : x = hit[h].stamp
    OBVIOUS
  <1>3. x \in Times
    BY <1>2
  <1> DEFINE n == Len(s)
             u == Append(s, x)
             e == [i \in 1..(n + 1) |-> IF i = n + 1 THEN h ELSE f[i]]
  <1>4. n \in Nat /\ Len(u) = n + 1 /\ u[n + 1] = x /\ \A i \in 1..n : u[i] = s[i]
    BY <1>3
  <1> HIDE DEF n, u
  <1>5. e \in [1..(n + 1) -> Hits] /\ e[n + 1] = h /\ \A i \in 1..n : e[i] = f[i]
    BY <1>1, <1>4 DEF n
  <1>6. \A i \in 1..n : f[i] # h /\ f[i] \in Hits /\ hit'[f[i]] = hit[f[i]]
    BY <1>1 DEF n
  <1> HIDE DEF e
  <1>7. \A i, j \in 1..(n + 1) : e[i] = e[j] => i = j
    <2>1. \A i \in 1..(n + 1) : i = n + 1 \/ i \in 1..n
      BY <1>4
    <2> QED
      BY <1>1, <1>5, <1>6, <2>1 DEF n
  <1>8. \A i \in 1..(n + 1) : Admitted(e[i])' /\ hit'[e[i]].stamp = u[i]
    <2>1. SUFFICES ASSUME NEW i \in 1..(n + 1)
                   PROVE  Admitted(e[i])' /\ hit'[e[i]].stamp = u[i]
      OBVIOUS
    <2>2. CASE i = n + 1
      BY <1>2, <1>4, <1>5, <2>2
    <2>3. CASE i # n + 1
      <3>1. i \in 1..n
        BY <1>4, <2>3
      <3> QED
        BY <1>1, <1>4, <1>5, <1>6, <3>1 DEF n, Admitted
    <2> QED
      BY <2>2, <2>3
  <1>9. ASSUME NEW g \in Hits, Admitted(g)', hit'[g].stamp + w > clock'
        PROVE  \E i \in 1..(n + 1) : e[i] = g
    <2>1. CASE g = h
      BY <1>4, <1>5, <2>1
    <2>2. CASE g # h
      <3>1. PICK i \in 1..n : f[i] = g
        BY <1>1, <1>9, <2>2 DEF n, Admitted
      <3> QED
        BY <1>4, <1>5, <3>1
    <2> QED
      BY <2>1, <2>2
  <1>10. Tracks(u, w)'
    BY <1>4, <1>5, <1>7, <1>8, <1>9 DEF Tracks
  <1> QED
    BY <1>2, <1>10 DEF u
\* The requests admitted within a window that has not ended are among those
\* that the stamps stand for.
LEMMA WindowBound ==
    ASSUME NEW s \in Seq(Times), NEW w \in Nat, Tracks(s, w),
           hit \in [Hits -> [state : HitStates, stamp : Times, decided : Times]],
           clock \in Times, NEW t \in Times, clock <= t
    PROVE  /\ IsFiniteSet(AdmittedWithin(t - w, t))
           /\ Cardinality(AdmittedWithin(t - w, t)) <= Len(s)
  <1>1. PICK f \in [1..Len(s) -> Hits] :
           \A g \in Hits : Admitted(g) /\ hit[g].stamp + w > clock
                                => \E i \in 1..Len(s) : f[i] = g
    BY DEF Tracks
  <1>2. \A g \in AdmittedWithin(t - w, t) : \E i \in 1..Len(s) : f[i] = g
    <2> SUFFICES ASSUME NEW g \in AdmittedWithin(t - w, t)
                 PROVE  Admitted(g) /\ hit[g].stamp + w > clock /\ g \in Hits
      BY <1>1
    <2>1. g \in Hits /\ Admitted(g) /\ hit[g].stamp > t - w
      BY DEF AdmittedWithin, Admitted
    <2>2. hit[g].stamp \in Nat /\ t \in Nat /\ clock \in Nat
      BY <2>1, LimitConstants
    <2> QED
      BY <2>1, <2>2
  <1> QED
    BY <1>2, CoverBound

\* WindowsRespected for one window w and one kind of limit L.
Respects(w, L) ==
    \A t \in Times : AdmittedWithin(t - w, t) # {} =>
        \E h \in AdmittedWithin(t - w, t) : Cardinality(AdmittedWithin(t - w, t)) <= L[h]

\* A step that admits no request.
LEMMA RespectsKept ==
    ASSUME NEW w \in Nat, NEW L, Respects(w, L),
           \A g \in Hits : /\ Admitted(g)' <=> Admitted(g)
                           /\ Admitted(g) => hit'[g] = hit[g]
    PROVE  Respects(w, L)'
  <1>1. \A t \in Times : AdmittedWithin(t - w, t)' = AdmittedWithin(t - w, t)
    BY DEF AdmittedWithin, Admitted
  <1> QED
    BY <1>1 DEF Respects

\* A step that admits request h, for which there was room among the stamps.
LEMMA RespectsAdmitted ==
    ASSUME NEW s \in Seq(Times), NEW w \in Nat, NEW L, Tracks(s, w), Respects(w, L),
           hit \in [Hits -> [state : HitStates, stamp : Times, decided : Times]],
           clock \in Times, NEW h \in Hits, ~Admitted(h), Admitted(h)',
           hit'[h].decided = clock, L[h] \in Nat, Len(s) < L[h],
           \A g \in Hits \ {h} : hit'[g] = hit[g]
    PROVE  Respects(w, L)'
  <1> SUFFICES ASSUME NEW t \in Times, AdmittedWithin(t - w, t)' # {}
               PROVE  \E g \in AdmittedWithin(t - w, t)' :
                          Cardinality(AdmittedWithin(t - w, t)') <= L[g]
    BY DEF Respects
  <1>1. t \in Nat /\ clock \in Nat
    BY LimitConstants
  <1>2. PICK A : A = AdmittedWithin(t - w, t)
    OBVIOUS
  <1>3. h \notin A
    BY <1>2 DEF AdmittedWithin, Admitted
  <1>4. \/ AdmittedWithin(t - w, t)' = A
        \/ AdmittedWithin(t - w, t)' = A \cup {h} /\ clock <= t
    BY <1>2, <1>3 DEF AdmittedWithin, Admitted
  <1>5. CASE AdmittedWithin(t - w, t)' = A
    BY <1>2, <1>5 DEF Respects
  <1>6. CASE AdmittedWithin(t - w, t)' = A \cup {h} /\ clock <= t
    <2>1. IsFiniteSet(A) /\ Cardinality(A) <= Len(s) /\ Cardinality(A) \in Nat
      BY <1>2, <1>6, WindowBound, FS_CardinalityType
    <2>2. Cardinality(A \cup {h}) = Cardinality(A) + 1
      BY <1>3, <2>1, FS_AddElement
    <2>3. Cardinality(A \cup {h}) <= L[h]
      BY <2>1, <2>2
    <2> QED
      BY <1>6, <2>3
  <1> QED
    BY <1>4, <1>5, <1>6

\* What was admitted recently, seen from a request, only becomes more.
LEMMA RecentGrows ==
    ASSUME NEW h \in Hits, NEW w, hit'[h].stamp = hit[h].stamp,
           \A g \in Hits : Admitted(g) => Admitted(g)' /\ hit'[g].stamp = hit[g].stamp
    PROVE  /\ Cardinality(Recent(h, w)) \in Nat /\ Cardinality(Recent(h, w)') \in Nat
           /\ Cardinality(Recent(h, w)) <= Cardinality(Recent(h, w)')
  <1>1. Recent(h, w) \in SUBSET (Recent(h, w)')
    BY DEF Recent, Admitted
  <1>2. Recent(h, w)' \in SUBSET Hits
    BY DEF Recent
  <1>3. IsFiniteSet(Recent(h, w)')
    BY <1>2, LimitConstants, FS_Subset
  <1> QED
    BY <1>1, <1>3, FS_Subset, FS_CardinalityType

\* The stamps that are left after trimming are those of recent requests.
LEMMA KeptAreRecent ==
    ASSUME NEW h \in Hits, NEW s \in Seq(Times), NEW w \in Nat, Tracks(s, w), Lagged(s),
           hit \in [Hits -> [state : HitStates, stamp : Times, decided : Times]],
           Len(s) > 0 => s[1] + w > hit[h].stamp
    PROVE  Len(s) <= Cardinality(Recent(h, w)) /\ Cardinality(Recent(h, w)) \in Nat
  <1>1. PICK f \in [1..Len(s) -> Hits] :
           /\ \A i, j \in 1..Len(s) : f[i] = f[j] => i = j
           /\ \A i \in 1..Len(s) : Admitted(f[i]) /\ hit[f[i]].stamp = s[i]
    BY DEF Tracks
  <1>2. Recent(h, w) \in SUBSET Hits
    BY DEF Recent
  <1>3. IsFiniteSet(Recent(h, w)) /\ Cardinality(Recent(h, w)) \in Nat
    BY <1>2, LimitConstants, FS_Subset, FS_CardinalityType
  <1>4. ASSUME NEW i \in 1..Len(s) PROVE f[i] \in Recent(h, w)
    <2>1. s[1] \in Times /\ s[i] \in Times /\ hit[h].stamp \in Times /\ i \in Nat
      OBVIOUS
    <2>2. s[1] \in Nat /\ s[i] \in Nat /\ hit[h].stamp \in Nat /\ MaxLag \in Nat
      BY <2>1, LimitConstants
    <2>3. s[1] <= s[i] + MaxLag
      <3>1. CASE i = 1
        BY <2>2, <3>1
      <3>2. CASE i # 1
        BY <3>2 DEF Lagged
      <3> QED
        BY <3>1, <3>2
    <2>4. s[i] > hit[h].stamp - w - MaxLag
      BY <2>2, <2>3
    <2>5. f[i] \in Hits /\ hit[f[i]].state = "admitted" /\ hit[f[i]].stamp = s[i]
      BY <1>1 DEF Admitted
    <2> QED
      BY <2>4, <2>5 DEF Recent
  <1>5. f \in [1..Len(s) -> Recent(h, w)]
    BY <1>4
  <1> QED
    BY <1>1, <1>3, <1>5, InjectionBound

LimitAll == LimitInv /\ Respects(Window, LimitOf) /\ Respects(BurstWindow, BurstLimitOf)
            /\ RefusalsHaveCause

LEMMA LimitInitInv == LimitInit => LimitAll
  <1> SUFFICES ASSUME LimitInit PROVE LimitAll
    OBVIOUS
  <1>1. LimitTypeOK
    <2>1. hit \in [Hits -> [state : HitStates, stamp : Times, decided : Times]]
      BY LimitConstants DEF LimitInit, HitStates
    <2>2. PICK h \in Hits : TRUE
      BY LimitConstants
    <2>3. <<>> \in Seq(Times) /\ Len(<<>>) <= LimitOf[h] /\ Len(<<>>) <= BurstLimitOf[h]
      BY LimitConstants
    <2> QED
      BY <2>1, <2>3, LimitConstants DEF LimitInit, LimitTypeOK
  <1>2. \A h \in Hits : hit[h].state = "unsent" /\ hit[h].stamp = 0
    BY DEF LimitInit
  <1>3. HitsInv
    BY <1>2, LimitConstants DEF HitsInv, LimitInit
  <1>4. \A w : Tracks(<<>>, w)
    <2>1. 1..Len(<<>>) = {} /\ [i \in {} |-> 0] \in [{} -> Hits]
      OBVIOUS
    <2> QED
      BY <1>2, <2>1 DEF Tracks, Admitted
  <1>5. Lagged(<<>>)
    BY DEF Lagged
  <1>6. \A t, w : AdmittedWithin(t - w, t) = {}
    BY <1>2 DEF AdmittedWithin
  <1>7. RefusalsHaveCause
    BY <1>2 DEF RefusalsHaveCause
  <1> QED
    BY <1>1, <1>3, <1>4, <1>5, <1>6, <1>7 DEF LimitAll, LimitInv, LimitInit, Respects
\* What is known of a sequence is known of the variable that holds it next.
LEMMA TracksCopied ==
    ASSUME NEW s, NEW w
    PROVE  /\ Tracks(s, w)' /\ stamps' = s => Tracks(stamps, w)'
           /\ Tracks(s, w)' /\ bursts' = s => Tracks(bursts, w)'
           /\ Lagged(s) /\ stamps' = s => Lagged(stamps)'
           /\ Lagged(s) /\ bursts' = s => Lagged(bursts)'
  BY DEF Tracks, Lagged

\* A step that leaves the stamps and the admitted requests alone.
LEMMA LimitIdle ==
    ASSUME LimitAll, UNCHANGED <<stamps, bursts>>, clock' \in Times, clock <= clock', HitsInv',
           hit' \in [Hits -> [state : HitStates, stamp : Times, decided : Times]],
           \A g \in Hits : /\ Admitted(g)' <=> Admitted(g)
                           /\ Admitted(g) => hit'[g] = hit[g]
                           /\ hit'[g].state = "refused" =>
                                hit[g].state = "refused" /\ hit'[g].stamp = hit[g].stamp
    PROVE  LimitAll'
  <1> USE DEF LimitAll, LimitInv
  <1>1. LimitTypeOK'
    BY DEF LimitTypeOK
  <1>2. PICK s, b : s = stamps /\ b = bursts
    OBVIOUS
  <1>3. /\ s \in Seq(Times) /\ b \in Seq(Times) /\ clock \in Nat /\ clock' \in Nat
        /\ hit \in [Hits -> [state : HitStates, stamp : Times, decided : Times]]
        /\ Window \in Nat /\ BurstWindow \in Nat
    BY <1>2, LimitConstants DEF LimitTypeOK
  <1>4. Tracks(s, Window)' /\ Tracks(b, BurstWindow)'
    BY <1>2, <1>3, TracksKept
  <1>5. Tracks(stamps, Window)' /\ Tracks(bursts, BurstWindow)' /\ Lagged(stamps)' /\ Lagged(bursts)'
    BY <1>2, <1>4, TracksCopied
  <1>6. Respects(Window, LimitOf)' /\ Respects(BurstWindow, BurstLimitOf)'
    BY <1>3, RespectsKept
  <1>7. RefusalsHaveCause'
    <2> SUFFICES ASSUME NEW h \in Hits, hit'[h].state = "refused"
                 PROVE  \/ Cardinality(Recent(h, Window)') >= LimitOf[h]
                        \/ Cardinality(Recent(h, BurstWindow)') >= BurstLimitOf[h]
      BY DEF RefusalsHaveCause
    <2>1. hit[h].state = "refused" /\ hit'[h].stamp = hit[h].stamp
      OBVIOUS
    <2>2. \A w : /\ Cardinality(Recent(h, w)) \in Nat /\ Cardinality(Recent(h, w)') \in Nat
                 /\ Cardinality(Recent(h, w)) <= Cardinality(Recent(h, w)')
      BY <2>1, RecentGrows
    <2>3. LimitOf[h] \in Nat /\ BurstLimitOf[h] \in Nat
      BY LimitConstants
    <2> QED
      BY <2>1, <2>2, <2>3 DEF RefusalsHaveCause
  <1> QED
    BY <1>1, <1>5, <1>6, <1>7

LEMMA StampStep == ASSUME LimitAll, NEW h \in Hits, StampHit(h) PROVE LimitAll'
  <1>1. /\ clock \in Times /\ clock \in Nat /\ clock' = clock
        /\ hit \in [Hits -> [state : HitStates, stamp : Times, decided : Times]]
        /\ MaxLag \in Nat
    BY LimitConstants DEF LimitAll, LimitInv, LimitTypeOK, StampHit
  <1>2. /\ hit' \in [Hits -> [state : HitStates, stamp : Times, decided : Times]]
        /\ hit'[h].state = "stamped" /\ hit'[h].stamp = clock
        /\ \A g \in Hits \ {h} : hit'[g] = hit[g]
    BY <1>1 DEF StampHit, HitStates
  <1>3. HitsInv'
    BY <1>1, <1>2 DEF LimitAll, LimitInv, HitsInv
  <1>4. /\ ~Admitted(h) /\ ~Admitted(h)' /\ hit'[h].state # "refused"
        /\ \A g \in Hits \ {h} : Admitted(g)' <=> Admitted(g)
    BY <1>2 DEF StampHit, Admitted
  <1>5. UNCHANGED <<stamps, bursts>>
    BY DEF StampHit
  <1> QED
    BY <1>1, <1>2, <1>3, <1>4, <1>5, LimitIdle

LEMMA LimitTickStep == ASSUME LimitAll, LimitTick PROVE LimitAll'
  <1>1. /\ clock \in Nat /\ clock' = clock + 1 /\ clock' \in Times
        /\ hit' = hit /\ UNCHANGED <<stamps, bursts>>
        /\ hit \in [Hits -> [state : HitStates, stamp : Times, decided : Times]]
        /\ MaxLag \in Nat
    BY LimitConstants
       DEF LimitAll, LimitInv, LimitTypeOK, LimitTick, Tick, Times, limitVars
  <1>2. \A h \in Hits : hit[h].stamp \in Nat
    BY <1>1, LimitConstants
  <1>3. HitsInv'
    BY <1>1, <1>2 DEF LimitAll, LimitInv, HitsInv, LimitTick
  <1> QED
    BY <1>1, <1>3, LimitIdle DEF Admitted

LEMMA LimitStutter == ASSUME LimitAll, UNCHANGED <<clock, limitVars>> PROVE LimitAll'
  <1>1. clock' = clock /\ hit' = hit /\ UNCHANGED <<stamps, bursts>>
    BY DEF limitVars
  <1>2. /\ HitsInv' /\ clock' \in Times /\ clock <= clock'
        /\ hit' \in [Hits -> [state : HitStates, stamp : Times, decided : Times]]
    BY <1>1, LimitConstants DEF LimitAll, LimitInv, HitsInv, LimitTypeOK
  <1> QED
    BY <1>1, <1>2, LimitIdle DEF Admitted

\* When the last stamp is two windows old, all are one window old.
LEMMA StaleTracks ==
    ASSUME NEW s \in Seq(Times), NEW w \in Nat, w > 0, MaxLag + w <= 2 * Window,
           clock \in Nat, StaleStamps(s), Tracks(s, w), Lagged(s),
           hit \in [Hits -> [state : HitStates, stamp : Times, decided : Times]]
    PROVE  Tracks(<<>>, w)
  <1>1. PICK f \in [1..Len(s) -> Hits] :
           /\ \A i \in 1..Len(s) : Admitted(f[i]) /\ hit[f[i]].stamp = s[i]
           /\ \A g \in Hits : Admitted(g) /\ hit[g].stamp + w > clock
                                => \E i \in 1..Len(s) : f[i] = g
    BY DEF Tracks
  <1>2. ASSUME NEW g \in Hits, Admitted(g), hit[g].stamp + w > clock PROVE FALSE
    <2>1. PICK i \in 1..Len(s) : f[i] = g
      BY <1>1, <1>2
    <2> DEFINE n == Len(s)
    <2>2. n \in Nat \ {0} /\ n \in 1..n /\ s # <<>> /\ i \in Nat /\ i <= n
      OBVIOUS
    <2>3. s[i] \in Times /\ s[n] \in Times
      BY <2>2
    <2>4. s[i] \in Nat /\ s[n] \in Nat /\ MaxLag \in Nat /\ Window \in Nat
      BY <2>3, LimitConstants
    <2>5. clock >= s[n] + 2 * Window
      BY <2>2 DEF StaleStamps, Last
    <2>6. s[i] <= s[n] + MaxLag
      <3>1. CASE i = n
        BY <2>4, <3>1
      <3>2. CASE i # n
        <4>1. i < n
          BY <2>2, <3>2
        <4> QED
          BY <2>2, <4>1 DEF Lagged
      <3> QED
        BY <3>1, <3>2
    <2>7. s[i] + w > clock
      BY <1>1, <1>2, <2>1
    <2> HIDE DEF n
    <2> QED
      BY <2>4, <2>5, <2>6, <2>7
  <1>3. 1..Len(<<>>) = {} /\ [i \in {} |-> 0] \in [{} -> Hits]
    OBVIOUS
  <1> QED
    BY <1>2, <1>3 DEF Tracks

LEMMA EvictStep == ASSUME LimitAll, EvictBucket PROVE LimitAll'
  <1>1. /\ clock \in Times /\ clock \in Nat /\ clock' = clock /\ hit' = hit
        /\ hit \in [Hits -> [state : HitStates, stamp : Times, decided : Times]]
        /\ stamps' = <<>> /\ bursts' = <<>>
        /\ stamps \in Seq(Times) /\ bursts \in Seq(Times)
    BY LimitConstants DEF LimitAll, LimitInv, LimitTypeOK, EvictBucket
  <1>2. LimitTypeOK'
    <2>1. <<>> \in Seq(Times) /\ Len(<<>>) = 0
      OBVIOUS
    <2>2. PICK h \in Hits : TRUE
      BY LimitConstants
    <2>3. Len(<<>>) <= LimitOf[h] /\ Len(<<>>) <= BurstLimitOf[h]
      BY <2>1, LimitConstants
    <2> QED
      BY <1>1, <2>1, <2>3 DEF LimitTypeOK
  <1>3. HitsInv'
    BY <1>1 DEF LimitAll, LimitInv, HitsInv
  <1>4. PICK s, b : s = stamps /\ b = bursts
    OBVIOUS
  <1>5. Tracks(s, Window) /\ Tracks(b, BurstWindow) /\ Lagged(s) /\ Lagged(b)
    BY <1>4 DEF LimitAll, LimitInv
  <1>6. Tracks(<<>>, Window) /\ Tracks(<<>>, BurstWindow)
    BY <1>1, <1>4, <1>5, LimitConstants, StaleTracks DEF EvictBucket
  <1>7. PICK e \in Seq(Times) : e = <<>>
    <2>1. <<>> \in Seq(Times)
      OBVIOUS
    <2> QED
      BY <2>1
  <1>8. /\ Tracks(stamps, Window)' /\ Tracks(bursts, BurstWindow)'
        /\ Lagged(stamps)' /\ Lagged(bursts)'
    <2>1. Tracks(e, Window) /\ Tracks(e, BurstWindow) /\ Window \in Nat /\ BurstWindow \in Nat
      BY <1>6, <1>7, LimitConstants
    <2>2. \A g \in Hits : /\ Admitted(g)' <=> Admitted(g)
                          /\ Admitted(g) => hit'[g].stamp = hit[g].stamp
      BY <1>1 DEF Admitted
    <2>3. clock <= clock' /\ clock' \in Nat
      BY <1>1
    <2>4. Tracks(e, Window)' /\ Tracks(e, BurstWindow)'
      BY <1>1, <2>1, <2>2, <2>3, TracksKept
    <2>5. Lagged(e)
      BY <1>7 DEF Lagged
    <2>6. stamps' = e /\ bursts' = e
      BY <1>1, <1>7
    <2> QED
      BY <2>4, <2>5, <2>6, TracksCopied
  <1>9. Respects(Window, LimitOf)' /\ Respects(BurstWindow, BurstLimitOf)'
    BY <1>1, LimitConstants, RespectsKept DEF LimitAll, Admitted
  <1>10. RefusalsHaveCause'
    BY <1>1 DEF LimitAll, RefusalsHaveCause, Recent
  <1> QED
    BY <1>2, <1>3, <1>8, <1>9, <1>10 DEF LimitAll, LimitInv

\* What a decision finds: both lists trimmed, with nothing lost that counts.
Found(h, left, late) ==
    /\ left = Trimmed(stamps, hit[h].stamp, Window)
    /\ late = Trimmed(bursts, hit[h].stamp, BurstWindow)

LEMMA DecisionFinds ==
    ASSUME LimitAll, NEW h \in Hits, NEW left, NEW late, Found(h, left, late)
    PROVE  /\ left \in Seq(Times) /\ late \in Seq(Times)
           /\ Tracks(left, Window) /\ Tracks(late, BurstWindow)
           /\ Lagged(left) /\ Lagged(late)
           /\ Len(left) > 0 => left[1] + Window > hit[h].stamp
           /\ Len(late) > 0 => late[1] + BurstWindow > hit[h].stamp
           /\ \E g \in Hits : Len(left) <= LimitOf[g]
           /\ \E g \in Hits : Len(late) <= BurstLimitOf[g]
  <1>1. /\ clock \in Times /\ clock \in Nat
        /\ hit \in [Hits -> [state : HitStates, stamp : Times, decided : Times]]
        /\ hit[h].stamp \in Nat /\ hit[h].stamp <= clock
        /\ stamps \in Seq(Times) /\ bursts \in Seq(Times)
        /\ Window \in Nat /\ BurstWindow \in Nat /\ Times \in SUBSET Nat
    BY LimitConstants DEF LimitAll, LimitInv, LimitTypeOK, HitsInv
  <1>2. PICK s, b, now : s = stamps /\ b = bursts /\ now = hit[h].stamp
    OBVIOUS
  <1>3. left \in Seq(Times) /\ late \in Seq(Times)
    BY <1>1, TrimmedFacts DEF Found
  <1>4. Tracks(left, Window) /\ Tracks(late, BurstWindow) /\ Lagged(left) /\ Lagged(late)
    BY <1>1, TrimTracks DEF LimitAll, LimitInv, Found
  <1>5. PICK k \in 0..Len(s) :
           /\ Len(left) = Len(s) - k
           /\ \A i \in 1..(Len(s) - k) : left[i] = s[i + k]
           /\ k < Len(s) => s[k + 1] + Window > now
    BY <1>1, <1>2, TrimmedFacts DEF Found
  <1>6. PICK l \in 0..Len(b) :
           /\ Len(late) = Len(b) - l
           /\ \A i \in 1..(Len(b) - l) : late[i] = b[i + l]
           /\ l < Len(b) => b[l + 1] + BurstWindow > now
    BY <1>1, <1>2, TrimmedFacts DEF Found
  <1>7. Len(left) > 0 => left[1] + Window > hit[h].stamp
    <2>1. SUFFICES ASSUME Len(s) - k > 0 PROVE left[1] + Window > now
      BY <1>2, <1>5
    <2>2. k < Len(s) /\ 1 \in 1..(Len(s) - k) /\ 1 + k = k + 1
      BY <2>1
    <2> QED
      BY <1>5, <2>2
  <1>8. Len(late) > 0 => late[1] + BurstWindow > hit[h].stamp
    <2>1. SUFFICES ASSUME Len(b) - l > 0 PROVE late[1] + BurstWindow > now
      BY <1>2, <1>6
    <2>2. l < Len(b) /\ 1 \in 1..(Len(b) - l) /\ 1 + l = l + 1
      BY <2>1
    <2> QED
      BY <1>6, <2>2
  <1>9. Len(s) \in Nat /\ Len(b) \in Nat
    BY <1>1, <1>2
  <1>10. Len(left) <= Len(s) /\ Len(late) <= Len(b)
    BY <1>5, <1>6, <1>9
  <1>11. PICK g \in Hits, e \in Hits : Len(s) <= LimitOf[g] /\ Len(b) <= BurstLimitOf[e]
    BY <1>2 DEF LimitAll, LimitInv, LimitTypeOK
  <1>12. Len(left) <= LimitOf[g] /\ Len(late) <= BurstLimitOf[e]
    <2>1. /\ Len(left) \in Nat /\ Len(late) \in Nat
          /\ LimitOf[g] \in Nat /\ BurstLimitOf[e] \in Nat
      BY <1>3, LimitConstants
    <2> QED
      BY <1>9, <1>10, <1>11, <2>1
  <1> QED
    BY <1>3, <1>4, <1>7, <1>8, <1>12

LEMMA AdmitStep == ASSUME LimitAll, NEW h \in Hits, AdmitHit(h) PROVE LimitAll'
  <1>1. PICK left, late, now : Found(h, left, late) /\ now = hit[h].stamp
    BY DEF Found
  <1>2. /\ left \in Seq(Times) /\ late \in Seq(Times)
        /\ Tracks(left, Window) /\ Tracks(late, BurstWindow)
        /\ Lagged(left) /\ Lagged(late)
    BY <1>1, DecisionFinds
  <1>3. /\ hit[h].state = "stamped" /\ clock' = clock
        /\ Len(left) < LimitOf[h] /\ Len(late) < BurstLimitOf[h]
        /\ stamps' = Append(left, now) /\ bursts' = Append(late, now)
    BY <1>1 DEF AdmitHit, Found
  <1>4. /\ clock \in Times /\ clock \in Nat /\ now \in Times /\ now \in Nat /\ MaxLag \in Nat
        /\ hit \in [Hits -> [state : HitStates, stamp : Times, decided : Times]]
        /\ Window \in Nat /\ BurstWindow \in Nat
        /\ LimitOf[h] \in Nat /\ BurstLimitOf[h] \in Nat
    BY <1>1, LimitConstants DEF LimitAll, LimitInv, LimitTypeOK
  <1>5. /\ hit' \in [Hits -> [state : HitStates, stamp : Times, decided : Times]]
        /\ hit'[h].state = "admitted" /\ hit'[h].stamp = hit[h].stamp
        /\ hit'[h].decided = clock
        /\ \A g \in Hits \ {h} : hit'[g] = hit[g]
    BY <1>4 DEF AdmitHit, DecideHit, HitStates
  <1>6. ~Admitted(h) /\ Admitted(h)'
    BY <1>3, <1>5 DEF Admitted
  <1>7. LimitTypeOK'
    <2>1. /\ Append(left, now) \in Seq(Times) /\ Len(Append(left, now)) = Len(left) + 1
          /\ Append(late, now) \in Seq(Times) /\ Len(Append(late, now)) = Len(late) + 1
          /\ Len(left) \in Nat /\ Len(late) \in Nat
      BY <1>2, <1>4
    <2>2. Len(left) + 1 <= LimitOf[h] /\ Len(late) + 1 <= BurstLimitOf[h]
      BY <1>3, <1>4, <2>1
    <2> QED
      BY <1>3, <1>4, <1>5, <2>1, <2>2 DEF LimitTypeOK
  <1>8. HitsInv'
    BY <1>3, <1>5 DEF LimitAll, LimitInv, HitsInv
  <1>9. Tracks(Append(left, now), Window)' /\ Tracks(Append(late, now), BurstWindow)'
    BY <1>1, <1>2, <1>3, <1>4, <1>5, <1>6, TracksAdmitted
  <1>10. ASSUME NEW s \in Seq(Times), NEW w \in Nat, Tracks(s, w), Lagged(s)
         PROVE  Lagged(Append(s, now))
    <2>1. PICK f \in [1..Len(s) -> Hits] : \A i \in 1..Len(s) : hit[f[i]].stamp = s[i]
      BY <1>10 DEF Tracks
    <2>2. clock <= now + MaxLag
      BY <1>1, <1>3 DEF LimitAll, LimitInv, HitsInv
    <2>3. ASSUME NEW i \in 1..Len(s) PROVE s[i] <= now + MaxLag
      <3>1. s[i] <= clock
        BY <2>1 DEF LimitAll, LimitInv, HitsInv
      <3>2. s[i] \in Times
        OBVIOUS
      <3>3. s[i] \in Nat
        BY <3>2, LimitConstants
      <3> QED
        BY <1>4, <2>2, <3>1, <3>3
    <2> DEFINE n == Len(s)
               u == Append(s, now)
    <2>4. n \in Nat /\ Len(u) = n + 1 /\ u[n + 1] = now /\ \A i \in 1..n : u[i] = s[i]
      BY <1>4
    <2>5. SUFFICES ASSUME NEW i \in 1..(n + 1), NEW j \in 1..(n + 1), i < j
                   PROVE  u[i] <= u[j] + MaxLag
      BY <2>4 DEF Lagged
    <2>6. i \in 1..n
      BY <2>4, <2>5
    <2>7. CASE j = n + 1
      BY <2>3, <2>4, <2>6, <2>7
    <2>8. CASE j # n + 1
      <3>1. j \in 1..n
        BY <2>4, <2>8
      <3> QED
        BY <1>10, <2>4, <2>5, <2>6, <3>1 DEF Lagged
    <2> QED
      BY <2>7, <2>8
  <1>11. Lagged(Append(left, now)) /\ Lagged(Append(late, now))
    BY <1>2, <1>4, <1>10
  <1>12. /\ Tracks(stamps, Window)' /\ Tracks(bursts, BurstWindow)'
         /\ Lagged(stamps)' /\ Lagged(bursts)'
    <2>1. PICK s, b : s = Append(left, now) /\ b = Append(late, now)
      OBVIOUS
    <2> QED
      BY <1>3, <1>9, <1>11, <2>1, TracksCopied
  <1>13. Respects(Window, LimitOf)' /\ Respects(BurstWindow, BurstLimitOf)'
    BY <1>2, <1>3, <1>4, <1>5, <1>6, RespectsAdmitted DEF LimitAll
  <1>14. RefusalsHaveCause'
    <2> SUFFICES ASSUME NEW g \in Hits, hit'[g].state = "refused"
                 PROVE  \/ Cardinality(Recent(g, Window)') >= LimitOf[g]
                        \/ Cardinality(Recent(g, BurstWindow)') >= BurstLimitOf[g]
      BY DEF RefusalsHaveCause
    <2>1. hit[g].state = "refused" /\ hit'[g].stamp = hit[g].stamp
      BY <1>5
    <2>2. \A w : /\ Cardinality(Recent(g, w)) \in Nat /\ Cardinality(Recent(g, w)') \in Nat
                 /\ Cardinality(Recent(g, w)) <= Cardinality(Recent(g, w)')
      BY <1>5, <1>6, <2>1, RecentGrows DEF Admitted
    <2>3. LimitOf[g] \in Nat /\ BurstLimitOf[g] \in Nat
      BY LimitConstants
    <2> QED
      BY <2>1, <2>2, <2>3 DEF LimitAll, RefusalsHaveCause
  <1> QED
    BY <1>7, <1>8, <1>12, <1>13, <1>14 DEF LimitAll, LimitInv

LEMMA RefuseStep == ASSUME LimitAll, NEW h \in Hits, RefuseHit(h) PROVE LimitAll'
  <1>1. PICK left, late : Found(h, left, late)
    BY DEF Found
  <1>2. /\ left \in Seq(Times) /\ late \in Seq(Times)
        /\ Tracks(left, Window) /\ Tracks(late, BurstWindow)
        /\ Lagged(left) /\ Lagged(late)
        /\ Len(left) > 0 => left[1] + Window > hit[h].stamp
        /\ Len(late) > 0 => late[1] + BurstWindow > hit[h].stamp
        /\ \E g \in Hits : Len(left) <= LimitOf[g]
        /\ \E g \in Hits : Len(late) <= BurstLimitOf[g]
    BY <1>1, DecisionFinds
  <1>3. /\ hit[h].state = "stamped" /\ clock' = clock
        /\ Len(left) >= LimitOf[h] \/ Len(late) >= BurstLimitOf[h]
        /\ stamps' = left /\ bursts' = late
    BY <1>1 DEF RefuseHit, Found
  <1>4. /\ clock \in Times /\ clock \in Nat
        /\ hit \in [Hits -> [state : HitStates, stamp : Times, decided : Times]]
        /\ Window \in Nat /\ BurstWindow \in Nat
    BY LimitConstants DEF LimitAll, LimitInv, LimitTypeOK
  <1>5. /\ hit' \in [Hits -> [state : HitStates, stamp : Times, decided : Times]]
        /\ hit'[h].state = "refused" /\ hit'[h].stamp = hit[h].stamp
        /\ \A g \in Hits \ {h} : hit'[g] = hit[g]
    BY <1>4 DEF RefuseHit, DecideHit, HitStates
  <1>6. \A g \in Hits : /\ Admitted(g)' <=> Admitted(g)
                        /\ Admitted(g) => hit'[g] = hit[g]
    BY <1>3, <1>5 DEF Admitted
  <1>7. LimitTypeOK'
    BY <1>2, <1>3, <1>4, <1>5 DEF LimitTypeOK
  <1>8. HitsInv'
    BY <1>3, <1>5 DEF LimitAll, LimitInv, HitsInv
  <1>9. Tracks(left, Window)' /\ Tracks(late, BurstWindow)'
    BY <1>2, <1>3, <1>4, <1>6, TracksKept
  <1>10. /\ Tracks(stamps, Window)' /\ Tracks(bursts, BurstWindow)'
         /\ Lagged(stamps)' /\ Lagged(bursts)'
    BY <1>2, <1>3, <1>9, TracksCopied
  <1>11. Respects(Window, LimitOf)' /\ Respects(BurstWindow, BurstLimitOf)'
    BY <1>4, <1>6, RespectsKept DEF LimitAll
  <1>12. RefusalsHaveCause'
    <2> SUFFICES ASSUME NEW g \in Hits, hit'[g].state = "refused"
                 PROVE  \/ Cardinality(Recent(g, Window)') >= LimitOf[g]
                        \/ Cardinality(Recent(g, BurstWindow)') >= BurstLimitOf[g]
      BY DEF RefusalsHaveCause
    <2>1. \A w : /\ Cardinality(Recent(g, w)) \in Nat /\ Cardinality(Recent(g, w)') \in Nat
                 /\ Cardinality(Recent(g, w)) <= Cardinality(Recent(g, w)')
      BY <1>5, <1>6, RecentGrows
    <2>2. LimitOf[g] \in Nat /\ BurstLimitOf[g] \in Nat
      BY LimitConstants
    <2>3. CASE g = h
      <3>1. /\ Len(left) <= Cardinality(Recent(g, Window))
            /\ Len(late) <= Cardinality(Recent(g, BurstWindow))
            /\ Len(left) \in Nat /\ Len(late) \in Nat
        BY <1>2, <1>4, <2>3, KeptAreRecent
      <3> QED
        BY <1>3, <2>1, <2>2, <2>3, <3>1
    <2>4. CASE g # h
      BY <1>5, <2>1, <2>2, <2>4 DEF LimitAll, RefusalsHaveCause
    <2> QED
      BY <2>3, <2>4
  <1> QED
    BY <1>7, <1>8, <1>10, <1>11, <1>12 DEF LimitAll, LimitInv

LEMMA LimitNextInv == LimitAll /\ [LimitNext]_<<clock, limitVars>> => LimitAll'
  BY StampStep, AdmitStep, RefuseStep, EvictStep, LimitTickStep, LimitStutter DEF LimitNext

\* The types of the rate limiter: among what that excludes is a bucket that
\* grows beyond the largest limit.
THEOREM LimitType == LimitSpec => []LimitTypeOK
  BY LimitInitInv, LimitNextInv, PTL DEF LimitSpec, LimitAll, LimitInv

\* For any windows, limits and number of requests, and any order in which the
\* handlers get the mutex within MaxLag: no window admits more than a limit
\* (rate_limit.rs:226-248, 309-371).
THEOREM LimitWindows == LimitSpec => []WindowsRespected
  <1>1. LimitAll => WindowsRespected
    BY DEF LimitAll, Respects, WindowsRespected
  <1> QED
    BY <1>1, LimitInitInv, LimitNextInv, PTL DEF LimitSpec

\* No request is refused unless a limit's worth was admitted shortly before
\* (rate_limit.rs:321-341, 351-361).
THEOREM LimitCauses == LimitSpec => []RefusalsHaveCause
  BY LimitInitInv, LimitNextInv, PTL DEF LimitSpec, LimitAll

\* A request that is refused now and comes back after Retry-After finds the
\* first stamp it was counted against trimmed, or all of the burst.
LEMMA RetryEnough == ASSUME LimitAll PROVE RetryAfterSuffices
  <1> SUFFICES ASSUME NEW h \in Hits, hit[h].state = "stamped", LimitOf[h] > 0,
                      \A g \in Hits : /\ LimitOf[g] <= LimitOf[h]
                                      /\ BurstLimitOf[g] <= BurstLimitOf[h]
               PROVE  IF Len(Trimmed(stamps, hit[h].stamp, Window)) >= LimitOf[h]
                      THEN Len(Trimmed(stamps, clock + RetryAfter(h), Window)) < LimitOf[h]
                      ELSE Len(Trimmed(bursts, clock + RetryAfter(h), BurstWindow))
                             < BurstLimitOf[h]
    BY DEF RetryAfterSuffices
  <1>1. PICK left, late, s, b, now :
           /\ Found(h, left, late) /\ s = stamps /\ b = bursts /\ now = hit[h].stamp
    BY DEF Found
  <1>2. /\ clock \in Nat /\ now \in Nat /\ now <= clock
        /\ s \in Seq(Times) /\ b \in Seq(Times)
        /\ Window \in Nat /\ BurstWindow \in Nat /\ BurstWindow > 0
        /\ Times \in SUBSET Nat /\ LimitOf[h] \in Nat /\ BurstLimitOf[h] \in Nat
        /\ BurstLimitOf[h] > 0
        /\ hit \in [Hits -> [state : HitStates, stamp : Times, decided : Times]]
    BY <1>1, LimitConstants DEF LimitAll, LimitInv, LimitTypeOK, HitsInv
  <1>3. PICK k \in 0..Len(s) :
           /\ Len(left) = Len(s) - k
           /\ \A i \in 1..(Len(s) - k) : left[i] = s[i + k]
           /\ \A i \in 1..k : s[i] + Window <= now
    BY <1>1, <1>2, TrimmedFacts DEF Found
  <1>4. CASE Len(left) >= LimitOf[h]
    <2>1. Len(s) \in Nat /\ left \in Seq(Times) /\ Len(left) > 0
      BY <1>1, <1>2, <1>4, DecisionFinds
    <2>2. left # <<>> /\ Head(left) = left[1] /\ left[1] \in Times
      BY <2>1
    <2>3. left[1] = s[1 + k] /\ k + 1 \in 1..Len(s) /\ left[1] \in Nat
      <3>1. Len(s) - k > 0 /\ k \in Nat
        BY <1>3, <2>1
      <3>2. 1 \in 1..(Len(s) - k) /\ k + 1 \in 1..Len(s) /\ 1 + k = k + 1
        BY <2>1, <3>1
      <3>3. left[1] = s[1 + k]
        BY <1>3, <3>2
      <3>4. left[1] \in Nat
        BY <1>2, <2>2
      <3> QED
        BY <3>2, <3>3, <3>4
    <2>4. RetryAfter(h) = Max({1, left[1] + Window - now})
      BY <1>1, <1>2, <1>4, <2>1, <2>2 DEF RetryAfter, Found
    <2>5. /\ RetryAfter(h) \in Nat
          /\ RetryAfter(h) >= left[1] + Window - now
      <3>1. left[1] + Window - now \in Int /\ 1 \in Int
        BY <1>2, <2>3
      <3>2. PICK wait \in Int : wait = left[1] + Window - now
        BY <3>1
      <3>3. /\ Max({1, wait}) \in {1, wait} /\ Max({1, wait}) >= 1 /\ Max({1, wait}) >= wait
        BY <3>1, MaxOfTwo
      <3>4. RetryAfter(h) = Max({1, wait})
        BY <2>4, <3>2
      <3>5. RetryAfter(h) \in {1, wait} /\ RetryAfter(h) >= 1 /\ RetryAfter(h) >= wait
        BY <3>3, <3>4
      <3> QED
        BY <3>2, <3>5
    <2>6. PICK then \in Nat : then = clock + RetryAfter(h)
      BY <1>2, <2>5
    <2>7. then >= left[1] + Window /\ then >= now
      <3>1. PICK wait \in Nat : wait = RetryAfter(h)
        BY <2>5
      <3>2. PICK first \in Nat : first = left[1]
        BY <2>3
      <3>3. wait >= first + Window - now /\ then = clock + wait
        BY <2>5, <2>6, <3>1, <3>2
      <3>4. then >= first + Window /\ then >= now
        BY <1>2, <3>3
      <3> QED
        BY <3>2, <3>4
    <2>8. PICK l \in 0..Len(s) :
             /\ Len(Trimmed(s, then, Window)) = Len(s) - l
             /\ l < Len(s) => s[l + 1] + Window > then
      BY <1>2, TrimmedFacts
    <2>9. l > k
      <3> SUFFICES ASSUME l <= k PROVE FALSE
        OBVIOUS
      <3>1. l < Len(s) /\ s[l + 1] + Window > then
        BY <2>1, <2>3, <2>8
      <3>2. l + 1 \in 1..k \/ l = k
        OBVIOUS
      <3>3. CASE l = k
        BY <1>2, <2>3, <2>7, <3>1, <3>3
      <3>4. CASE l + 1 \in 1..k
        <4>1. s[l + 1] + Window <= now
          BY <1>3, <3>4
        <4>2. l + 1 \in 1..Len(s)
          BY <2>1, <3>1
        <4>3. s[l + 1] \in Times
          BY <1>2, <4>2
        <4>4. s[l + 1] \in Nat
          BY <1>2, <4>3
        <4> QED
          BY <1>2, <2>7, <3>1, <4>1, <4>4
      <3> QED
        BY <3>2, <3>3, <3>4
    <2>10. PICK g \in Hits : Len(s) <= LimitOf[g]
      BY <1>1 DEF LimitAll, LimitInv, LimitTypeOK
    <2>11. Len(s) <= LimitOf[h]
      <3>1. LimitOf[g] <= LimitOf[h] /\ LimitOf[g] \in Nat
        BY LimitConstants
      <3> QED
        BY <1>2, <2>1, <2>10, <3>1
    <2>12. Len(Trimmed(s, then, Window)) < LimitOf[h]
      BY <1>2, <2>1, <2>8, <2>9, <2>11
    <2> QED
      BY <1>1, <1>4, <2>6, <2>12 DEF Found
  <1>5. CASE ~(Len(left) >= LimitOf[h])
    <2>1. Len(left) < LimitOf[h]
      BY <1>2, <1>3, <1>5
    <2>2. RetryAfter(h) = BurstWindow
      BY <1>1, <2>1 DEF RetryAfter, Found
    <2>3. PICK then \in Nat : then = clock + BurstWindow
      BY <1>2
    <2>4. PICK l \in 0..Len(b) :
             /\ Len(Trimmed(b, then, BurstWindow)) = Len(b) - l
             /\ l < Len(b) => b[l + 1] + BurstWindow > then
      BY <1>2, TrimmedFacts
    <2>5. PICK f \in [1..Len(b) -> Hits] : \A i \in 1..Len(b) : hit[f[i]].stamp = b[i]
      BY <1>1 DEF LimitAll, LimitInv, Tracks
    <2>6. ~(l < Len(b))
      <3> SUFFICES ASSUME l < Len(b) PROVE FALSE
        OBVIOUS
      <3>1. l + 1 \in 1..Len(b)
        OBVIOUS
      <3>2. b[l + 1] <= clock
        BY <2>5, <3>1 DEF LimitAll, LimitInv, HitsInv
      <3>3. b[l + 1] \in Times
        BY <1>2, <3>1
      <3>4. b[l + 1] \in Nat
        BY <1>2, <3>3
      <3> QED
        BY <1>2, <2>3, <2>4, <3>2, <3>4
    <2>7. Len(Trimmed(b, then, BurstWindow)) < BurstLimitOf[h]
      BY <1>2, <2>4, <2>6
    <2> QED
      BY <1>1, <1>5, <2>2, <2>3, <2>7 DEF Found
  <1> QED
    BY <1>4, <1>5

\* Retry-After is long enough (rate_limit.rs:343-368).
THEOREM LimitRetry == LimitSpec => []RetryAfterSuffices
  BY RetryEnough, LimitInitInv, LimitNextInv, PTL DEF LimitSpec

-----------------------------------------------------------------------------
(* The walk over the pages of a search. *)

\* A page holds exactly the rows that matched when it was cut, from its cursor
\* down to where the next page starts; it is not longer than its limit.
IsCut(p) ==
    /\ p \in Pages
    /\ p.rows = {r \in p.of : p.next <= r /\ r < p.from}
    /\ p.next < p.from /\ p.next # 1
    /\ IsFiniteSet(p.rows) /\ Cardinality(p.rows) <= p.limit

LEMMA WalkConstants ==
    /\ Newest \in Nat /\ Newest > 0 /\ PageSize \in Nat /\ PageSize > 0
    /\ MaxPages \in Nat /\ MaxItems \in Nat /\ MaxItems > 0 /\ MaxAttempts \in Nat
    /\ MaxAttempts > 0 /\ MaxKept \in Nat /\ MaxChanges \in Nat
    /\ FirstPage \in Nat /\ FirstPage = Newest + 1
    /\ Rows \in SUBSET Nat /\ IsFiniteSet(Rows)
    /\ \A r : r \in Rows <=> r \in Nat /\ 1 <= r /\ r < FirstPage
  <1>1. /\ Newest \in Nat \ {0} /\ PageSize \in Nat \ {0} /\ MaxPages \in Nat \ {0}
        /\ MaxItems \in Nat \ {0} /\ MaxAttempts \in Nat \ {0}
        /\ MaxKept \in Nat /\ MaxChanges \in Nat
    BY SearchWalkAssumption
  <1>2. IsFiniteSet(Rows)
    BY <1>1, FS_Interval DEF Rows
  <1>3. Rows \in SUBSET Nat /\ FirstPage \in Nat /\ FirstPage = Newest + 1
    BY <1>1 DEF Rows, FirstPage
  <1>4. \A r : r \in Rows <=> r \in Nat /\ 1 <= r /\ r < FirstPage
    BY <1>1, <1>3 DEF Rows
  <1> QED
    BY <1>1, <1>2, <1>3, <1>4

\* The newest `limit` rows of a set: all of it when they are as many, and
\* otherwise all above the oldest of them, which is not the oldest of the set.
LEMMA CutFacts ==
    ASSUME NEW below \in SUBSET Rows, NEW limit \in Nat, limit > 0, NEW page,
           page = {r \in below : Cardinality({q \in below : q > r}) < limit}
    PROVE  /\ IsFiniteSet(below) /\ Cardinality(below) \in Nat
           /\ IsFiniteSet(page) /\ Cardinality(page) <= limit
           /\ Cardinality(below) <= limit => page = below
           /\ Cardinality(below) > limit =>
                /\ Min(page) \in page /\ Min(page) > 1
                /\ \A r \in below : r \in page <=> r >= Min(page)
  <1> DEFINE above(r) == {q \in below : q > r}
  <1>0. /\ page = {r \in below : Cardinality(above(r)) < limit}
        /\ \A r : /\ above(r) \in SUBSET below
                 /\ \A q \in below : q \in above(r) <=> q > r
    OBVIOUS
  <1> HIDE DEF above
  <1>1. IsFiniteSet(below) /\ Cardinality(below) \in Nat /\ below \in SUBSET Nat
    BY WalkConstants, FS_Subset, FS_CardinalityType
  <1>2. IsFiniteSet(page) /\ Cardinality(page) \in Nat /\ page \in SUBSET Nat
    <2>1. page \in SUBSET below
      BY <1>0
    <2> QED
      BY <1>1, <2>1, FS_Subset, FS_CardinalityType
  <1>3. \A r \in below : IsFiniteSet(above(r)) /\ Cardinality(above(r)) \in Nat
    <2> TAKE r \in below
    <2>1. above(r) \in SUBSET below
      BY <1>0
    <2> QED
      BY <1>1, <2>1, FS_Subset, FS_CardinalityType
  <1>4. ASSUME NEW r \in below, NEW m \in page, r >= m PROVE r \in page
    <2>1. m \in below /\ m \in Nat /\ r \in Nat /\ Cardinality(above(m)) < limit
      BY <1>0, <1>1
    <2>2. above(r) \in SUBSET above(m)
      <3> SUFFICES ASSUME NEW q \in above(r) PROVE q \in above(m)
        OBVIOUS
      <3>1. q \in below /\ q \in Nat /\ q > r
        BY <1>0, <1>1
      <3>2. q > m
        BY <1>4, <2>1, <3>1
      <3> QED
        BY <1>0, <3>1, <3>2
    <2>3. Cardinality(above(r)) <= Cardinality(above(m))
      BY <1>3, <2>1, <2>2, FS_Subset
    <2>4. Cardinality(above(r)) \in Nat /\ Cardinality(above(m)) \in Nat
      BY <1>3, <2>1
    <2>5. Cardinality(above(r)) < limit
      BY <2>1, <2>3, <2>4
    <2> QED
      BY <1>0, <2>5
  <1>5. ASSUME Cardinality(below) <= limit PROVE page = below
    <2> SUFFICES ASSUME NEW r \in below PROVE Cardinality(above(r)) < limit
      BY <1>0
    <2>1. above(r) \in SUBSET (below \ {r})
      <3>1. r \in Nat /\ ~(r > r)
        BY <1>1
      <3> QED
        BY <1>0, <3>1
    <2>2. IsFiniteSet(below \ {r}) /\ Cardinality(below \ {r}) = Cardinality(below) - 1
      BY <1>1, FS_RemoveElement
    <2>3. Cardinality(above(r)) <= Cardinality(below \ {r})
      BY <2>1, <2>2, FS_Subset
    <2> QED
      BY <1>1, <1>3, <1>5, <2>2, <2>3
  <1>6. Cardinality(page) <= limit
    <2>1. CASE page = {}
      <3>1. Cardinality(page) = 0
        BY <2>1, FS_EmptySet
      <3> QED
        BY <3>1
    <2>2. CASE page # {}
      <3>1. PICK m \in page : \A y \in page : m <= y
        BY <1>2, <2>2, MinFacts
      <3>2. page \ {m} \in SUBSET above(m)
        <4> SUFFICES ASSUME NEW y \in page, y # m PROVE y \in above(m)
          OBVIOUS
        <4>1. m \in Nat /\ y \in Nat /\ m <= y
          BY <1>2, <3>1
        <4>2. y > m
          BY <4>1
        <4> QED
          BY <1>0, <4>2
      <3>3. Cardinality(above(m)) < limit /\ m \in below
        BY <1>0
      <3>4. Cardinality(page \ {m}) <= Cardinality(above(m))
        BY <1>3, <3>2, <3>3, FS_Subset
      <3>5. Cardinality(page \ {m}) = Cardinality(page) - 1
        BY <1>2, FS_RemoveElement
      <3>6. Cardinality(above(m)) \in Nat
        BY <1>3, <3>3
      <3> HIDE <2>2
      <3> QED
        BY <1>2, <3>3, <3>4, <3>5, <3>6
    <2> QED
      BY <2>1, <2>2
  <1>7. ASSUME Cardinality(below) > limit
        PROVE  /\ Min(page) \in page /\ Min(page) > 1
               /\ \A r \in below : r \in page <=> r >= Min(page)
    <2>1. page # {}
      <3>1. below # {}
        BY <1>7, FS_EmptySet
      <3> DEFINE S == {n \in Nat : \E q \in below : n = Newest - q}
      <3>2. PICK x \in below : TRUE
        BY <3>1
      <3>3. \A q \in below : Newest - q \in S
        BY WalkConstants
      <3>4. Min(S) \in S /\ \A y \in S : Min(S) <= y
        <4>1. S \in SUBSET Nat /\ S # {}
          BY <3>2, <3>3
        <4> QED
          BY <4>1, MinFacts
      <3>5. PICK top \in below : Min(S) = Newest - top
        BY <3>4
      <3>6. above(top) = {}
        <4> SUFFICES ASSUME NEW q \in below, q > top PROVE FALSE
          BY <1>0
        <4>1. Newest - top <= Newest - q
          BY <1>0, <3>3, <3>4, <3>5
        <4> QED
          BY <1>1, <4>1, WalkConstants
      <3>7. Cardinality(above(top)) = 0
        BY <3>6, FS_EmptySet
      <3> QED
        BY <1>0, <3>7
    <2>2. Min(page) \in page /\ \A y \in page : Min(page) <= y
      BY <1>2, <2>1, MinFacts
    <2>3. \A r \in below : r \in page <=> r >= Min(page)
      BY <1>1, <1>2, <1>4, <2>2
    <2>4. PICK r \in below : r \notin page
      <3>1. Cardinality(page) # Cardinality(below)
        BY <1>1, <1>2, <1>6, <1>7
      <3> QED
        BY <1>0, <3>1
    <2>5. r \in Nat /\ r >= 1 /\ ~(r >= Min(page)) /\ Min(page) \in Nat
      BY <1>2, <2>2, <2>3, <2>4, WalkConstants
    <2>6. Min(page) > 1
      BY <2>5
    <2> QED
      BY <2>2, <2>3, <2>6
  <1> QED
    BY <1>1, <1>2, <1>5, <1>6, <1>7

LEMMA SearchPageIsCut ==
    ASSUME matching \subseteq Rows, NEW from \in 2..FirstPage, NEW limit \in Limits
    PROVE  /\ IsCut(SearchPage(from, limit))
           /\ SearchPage(from, limit).from = from /\ SearchPage(from, limit).limit = limit
  <1> DEFINE below == {r \in matching : r < from}
             page == {r \in below : Cardinality({q \in below : q > r}) < limit}
             n == IF Cardinality(below) > limit THEN Min(page) ELSE NoMore
  <1>1. /\ from \in Nat /\ from >= 2 /\ from <= FirstPage
        /\ limit \in Nat /\ limit > 0 /\ below \in SUBSET Rows
    <2>1. FirstPage \in Nat /\ PageSize \in Nat
      BY WalkConstants
    <2> QED
      BY <2>1 DEF Limits
  <1>2. PICK p : p = SearchPage(from, limit)
    OBVIOUS
  <1>3. p = [from |-> from, limit |-> limit, rows |-> page, of |-> matching, next |-> n]
    BY <1>2 DEF SearchPage, CutFrom
  <1>4. /\ IsFiniteSet(below) /\ Cardinality(below) \in Nat
        /\ IsFiniteSet(page) /\ Cardinality(page) <= limit
        /\ Cardinality(below) <= limit => page = below
        /\ Cardinality(below) > limit =>
              /\ Min(page) \in page /\ Min(page) > 1
              /\ \A r \in below : r \in page <=> r >= Min(page)
    <2> HIDE DEF below
    <2> QED
      BY <1>1, CutFacts
  <1>5. n \in 0..Newest /\ n < from /\ n # 1
    <2>1. CASE Cardinality(below) > limit
      <3>1. n \in page /\ n > 1
        BY <1>4, <2>1
      <3>2. n \in Rows /\ n < from
        BY <1>1, <3>1
      <3> QED
        BY <3>1, <3>2, WalkConstants DEF Rows
    <2>2. CASE ~(Cardinality(below) > limit)
      BY <1>1, <2>2, WalkConstants DEF NoMore
    <2> QED
      BY <2>1, <2>2
  <1>6. page = {r \in matching : n <= r /\ r < from}
    <2>1. CASE Cardinality(below) > limit
      <3>1. n = Min(page)
        BY <2>1
      <3>2. \A r \in below : r \in page <=> n <= r
        <4>1. \A r \in below : r \in page <=> r >= n
          BY <1>4, <2>1, <3>1
        <4> QED
          BY <4>1
      <3> QED
        BY <3>2
    <2>2. CASE ~(Cardinality(below) > limit)
      <3>1. n = 0 /\ page = below
        BY <1>1, <1>4, <2>2 DEF NoMore
      <3>2. \A r \in below : n <= r
        BY <1>1, <3>1, WalkConstants
      <3> QED
        BY <3>1, <3>2
    <2> QED
      BY <2>1, <2>2
  <1>7. page \in SUBSET Rows
    BY <1>1
  <1>8. IsCut(p)
    <2> HIDE DEF page, n
    <2>1. p \in Pages
      BY <1>3, <1>5, <1>7 DEF Pages
    <2>2. /\ p.rows = page /\ p.of = matching /\ p.from = from /\ p.limit = limit /\ p.next = n
      BY <1>3
    <2> QED
      BY <1>4, <1>5, <1>6, <2>1, <2>2 DEF IsCut
  <1> QED
    BY <1>2, <1>3, <1>8

\* Every answer, from the cache or not, is a page of the query that was asked.
LEMMA AnswersAreCut ==
    ASSUME matching \subseteq Rows, \A p \in kept : IsCut(p),
           NEW from \in 2..FirstPage, NEW limit \in Limits, NEW page \in Answers(from, limit)
    PROVE  IsCut(page) /\ page.from = from /\ page.limit = limit
  <1>1. CASE page \in kept /\ page.from = from /\ page.limit = limit
    BY <1>1
  <1>2. CASE page = SearchPage(from, limit)
    BY <1>2, SearchPageIsCut
  <1> QED
    BY <1>1, <1>2 DEF Answers

\* What has reached the caller.
Given(r) == \E i \in DOMAIN given : r \in given[i]

\* What a kept page may be, and how much there is of them.
PagesInv ==
    /\ matching \subseteq Rows
    /\ IsFiniteSet(kept) /\ Cardinality(kept) <= MaxKept
    /\ \A p \in kept : IsCut(p)

\* A request is out only while the walk goes on and below its bounds; its cursor
\* is at or below every cursor seen and every row given, and what matched in
\* every page so far has been given down to it.
WalkInv ==
    /\ SearchTypeOK
    /\ next # 1
    /\ next = NoMore <=> stop = "Exhausted"
    /\ attempt > 0 => stop = "none" /\ ~AtBound
    /\ \A c \in seen : c >= next
    /\ \A i \in DOMAIN given : \A r \in given[i] : r >= next
    /\ \A i, j \in DOMAIN given : i < j => \A r \in given[i], q \in given[j] : r > q
    /\ \A r \in lasting : r >= next => Given(r)

SearchInv == PagesInv /\ WalkInv

LEMMA SearchInitInv == SearchInit => SearchInv
  <1> SUFFICES ASSUME SearchInit PROVE SearchInv
    OBVIOUS
  <1> USE DEF SearchInit
  <1>1. kept = {} /\ IsFiniteSet(kept) /\ Cardinality(kept) = 0
    BY FS_EmptySet
  <1>2. PagesInv
    BY <1>1, WalkConstants DEF PagesInv
  <1>3. given = <<>> /\ given \in Seq(SUBSET Rows) /\ DOMAIN given = {}
    OBVIOUS
  <1>4. SearchTypeOK
    <2>1. next \in 0..FirstPage /\ pages \in 0..MaxPages /\ items \in 0..MaxItems
          /\ attempt \in 0..MaxAttempts /\ changes \in 0..MaxChanges
      BY WalkConstants
    <2> QED
      BY <1>1, <1>3, <2>1, WalkConstants DEF SearchTypeOK
  <1>5. next # 1 /\ next # NoMore
    BY WalkConstants DEF NoMore
  <1>6. \A r \in lasting : ~(r >= next)
    BY WalkConstants
  <1> QED
    BY <1>2, <1>3, <1>4, <1>5, <1>6 DEF SearchInv, WalkInv

\* The cache after an answer has been kept, or found no room.
LEMMA KeepsCache ==
    ASSUME PagesInv, NEW page, IsCut(page), Keeps(page), matching' = matching
    PROVE  PagesInv'
  <1>1. /\ IsFiniteSet(kept) /\ Cardinality(kept) \in Nat /\ Cardinality(kept) <= MaxKept
        /\ MaxKept \in Nat /\ \A p \in kept : IsCut(p)
    BY WalkConstants, FS_CardinalityType DEF PagesInv
  <1>2. \A p \in kept' : IsCut(p)
    BY <1>1 DEF Keeps
  <1>3. IsFiniteSet(kept') /\ Cardinality(kept') <= MaxKept
    <2>1. CASE Cardinality(kept) < MaxKept
      <3>1. kept' = kept \cup {page}
        BY <2>1 DEF Keeps
      <3>2. /\ IsFiniteSet(kept \cup {page})
            /\ \/ Cardinality(kept \cup {page}) = Cardinality(kept)
               \/ Cardinality(kept \cup {page}) = Cardinality(kept) + 1
        BY <1>1, FS_AddElement
      <3>3. PICK n \in Nat : n = Cardinality(kept)
        BY <1>1
      <3>4. Cardinality(kept \cup {page}) <= MaxKept
        BY <1>1, <2>1, <3>2, <3>3
      <3> QED
        BY <3>1, <3>2, <3>4
    <2>2. CASE ~(Cardinality(kept) < MaxKept)
      BY <1>1, <2>2 DEF Keeps
    <2> QED
      BY <2>1, <2>2
  <1>4. \A p \in kept' : IsCut(p)'
    BY <1>2 DEF IsCut
  <1> QED
    BY <1>3, <1>4 DEF PagesInv

LEMMA CacheTypes == PagesInv => kept \subseteq Pages
  BY DEF PagesInv, IsCut

\* A step of the server, or of another client.
LEMMA WalkIdle ==
    ASSUME SearchInv, UNCHANGED walkVars, changes' \in 0..MaxChanges, PagesInv',
           steady' \subseteq matching'
    PROVE  SearchInv'
  <1>1. /\ UNCHANGED <<next, seen, pages, items, attempt, stop, given, lasting>>
        /\ matching' \subseteq Rows /\ kept' \subseteq Pages /\ Cardinality(kept') <= MaxKept
    BY CacheTypes DEF walkVars, PagesInv, IsCut
  <1>2. SearchTypeOK'
    BY <1>1 DEF SearchInv, WalkInv, SearchTypeOK
  <1>3. (AtBound' <=> AtBound) /\ \A r : Given(r)' <=> Given(r)
    BY <1>1 DEF AtBound, Given
  <1> QED
    BY <1>1, <1>2, <1>3 DEF SearchInv, WalkInv

LEMMA BrowseStep ==
    ASSUME SearchInv, NEW from \in 2..FirstPage, NEW limit \in Limits, Browse(from, limit)
    PROVE  SearchInv'
  <1>1. PICK page \in Answers(from, limit) : Keeps(page)
    BY DEF Browse
  <1>2. IsCut(page)
    BY <1>1, AnswersAreCut DEF SearchInv, PagesInv
  <1>3. UNCHANGED <<matching, changes, steady, walkVars>>
    BY DEF Browse
  <1>4. PagesInv'
    BY <1>1, <1>2, <1>3, KeepsCache DEF SearchInv
  <1> QED
    BY <1>3, <1>4, WalkIdle DEF SearchInv, WalkInv, SearchTypeOK

LEMMA ExpireStep ==
    ASSUME SearchInv, NEW page \in kept, Expire(page)
    PROVE  SearchInv'
  <1>1. kept' = kept \ {page} /\ UNCHANGED <<matching, changes, steady, walkVars>>
    BY DEF Expire
  <1>2. /\ IsFiniteSet(kept) /\ Cardinality(kept) \in Nat /\ Cardinality(kept) <= MaxKept
        /\ MaxKept \in Nat /\ \A p \in kept : IsCut(p)
    BY WalkConstants, FS_CardinalityType DEF SearchInv, PagesInv
  <1>3. /\ IsFiniteSet(kept') /\ Cardinality(kept') = Cardinality(kept) - 1
    BY <1>1, <1>2, FS_RemoveElement
  <1>4. Cardinality(kept') <= MaxKept
    BY <1>2, <1>3
  <1>5. \A p \in kept' : IsCut(p)'
    BY <1>1, <1>2 DEF IsCut
  <1>6. PagesInv'
    BY <1>1, <1>3, <1>4, <1>5 DEF SearchInv, PagesInv
  <1> QED
    BY <1>1, <1>6, WalkIdle DEF SearchInv, WalkInv, SearchTypeOK

LEMMA EditStep ==
    ASSUME SearchInv, NEW r \in Rows, Edit(r)
    PROVE  SearchInv'
  <1>1. /\ kept' = kept /\ UNCHANGED walkVars /\ changes < MaxChanges
        /\ changes' = changes + 1
    BY DEF Edit
  <1>2. matching' \subseteq Rows
    BY DEF Edit, SearchInv, PagesInv
  <1>3. changes' \in 0..MaxChanges
    <2>1. changes \in 0..MaxChanges /\ MaxChanges \in Nat
      BY WalkConstants DEF SearchInv, WalkInv, SearchTypeOK
    <2> QED
      BY <1>1, <2>1
  <1>4. PagesInv'
    BY <1>1, <1>2 DEF SearchInv, PagesInv, IsCut
  <1>5. steady' \subseteq matching'
    BY DEF Edit, SearchInv, WalkInv, SearchTypeOK
  <1> QED
    BY <1>1, <1>3, <1>4, <1>5, WalkIdle

\* The page size that is asked for, below the bounds.
LEMMA LimitFits ==
    ASSUME items \in 0..MaxItems, items < MaxItems
    PROVE  Limit \in Limits /\ Limit + items <= MaxItems
  <1>1. /\ MaxItems - items \in Nat /\ MaxItems - items > 0
        /\ PageSize \in Nat /\ PageSize > 0 /\ MaxItems \in Nat /\ items \in Nat
    BY WalkConstants
  <1>2. {PageSize, MaxItems - items} \in SUBSET Nat /\ {PageSize, MaxItems - items} # {}
    BY <1>1
  <1>3. /\ Limit \in {PageSize, MaxItems - items}
        /\ Limit <= PageSize /\ Limit <= MaxItems - items
    BY <1>2, MinFacts DEF Limit
  <1>4. PICK n : n = Limit
    OBVIOUS
  <1>5. n \in Nat /\ n > 0 /\ n <= PageSize /\ n <= MaxItems - items
    BY <1>1, <1>3, <1>4
  <1> QED
    BY <1>1, <1>4, <1>5 DEF Limits

\* The cursor and limit of a request that is out.
LEMMA AskedFor ==
    ASSUME SearchInv, attempt > 0
    PROVE  /\ next \in 2..FirstPage /\ Limit \in Limits /\ Limit + items <= MaxItems
           /\ \A page \in Answers(next, Limit) :
                 IsCut(page) /\ page.from = next /\ page.limit = Limit
  <1>1. stop = "none" /\ pages < MaxPages /\ items < MaxItems
    <2>1. stop = "none" /\ ~AtBound /\ pages \in 0..MaxPages /\ items \in 0..MaxItems
      BY DEF SearchInv, WalkInv, SearchTypeOK
    <2> QED
      BY <2>1, WalkConstants DEF AtBound
  <1>2. next \in 2..FirstPage
    <2>1. next \in 0..FirstPage /\ next # 1 /\ next # 0 /\ FirstPage \in Nat
      BY <1>1, WalkConstants DEF SearchInv, WalkInv, SearchTypeOK, NoMore
    <2> QED
      BY <2>1
  <1>3. Limit \in Limits /\ Limit + items <= MaxItems
    BY <1>1, LimitFits DEF SearchInv, WalkInv, SearchTypeOK
  <1> QED
    BY <1>2, <1>3, AnswersAreCut DEF SearchInv, PagesInv

\* A step that gives nothing and leaves the cursor and the cache alone.
LEMMA CursorIdle ==
    ASSUME SearchInv, UNCHANGED <<serverVars, next, given, lasting>>,
           pages' \in 0..MaxPages, items' \in 0..MaxItems, attempt' \in 0..MaxAttempts,
           seen' \subseteq Rows, \A c \in seen' : c >= next,
           stop' \in Resumable \cup {"none", "Exhausted"},
           next = NoMore <=> stop' = "Exhausted",
           attempt' > 0 => stop' = "none" /\ ~AtBound'
    PROVE  SearchInv'
  <1>1. /\ UNCHANGED <<matching, kept, changes, steady>>
        /\ next' = next /\ given' = given /\ lasting' = lasting
    BY DEF serverVars
  <1>2. PagesInv'
    BY <1>1 DEF SearchInv, PagesInv, IsCut
  <1>3. SearchTypeOK'
    BY <1>1 DEF SearchInv, WalkInv, SearchTypeOK, Resumable
  <1>4. \A r : Given(r)' <=> Given(r)
    BY <1>1 DEF Given
  <1> QED
    BY <1>1, <1>2, <1>3, <1>4 DEF SearchInv, WalkInv

LEMMA StopStep == ASSUME SearchInv, StopAtBound PROVE SearchInv'
  <1>1. /\ stop = "none" /\ attempt = 0 /\ stop' \in {"MaxPages", "MaxItems"}
        /\ UNCHANGED <<serverVars, next, seen, pages, items, attempt, given, lasting>>
    BY DEF StopAtBound
  <1>2. next # NoMore /\ stop' # "Exhausted" /\ stop' \in Resumable \cup {"none", "Exhausted"}
    BY <1>1 DEF SearchInv, WalkInv, Resumable
  <1>3. ~(attempt' > 0)
    BY <1>1
  <1> QED
    BY <1>1, <1>2, <1>3, CursorIdle DEF SearchInv, WalkInv, SearchTypeOK

LEMMA AskStep == ASSUME SearchInv, AskPage PROVE SearchInv'
  <1>1. /\ stop = "none" /\ attempt' = 1 /\ ~AtBound
        /\ UNCHANGED <<serverVars, next, seen, pages, items, stop, given, lasting>>
    BY DEF AskPage
  <1>2. attempt' \in 0..MaxAttempts /\ ~AtBound' /\ stop' = "none"
    BY <1>1, WalkConstants DEF AtBound
  <1> QED
    BY <1>1, <1>2, CursorIdle DEF SearchInv, WalkInv, SearchTypeOK, Resumable

LEMMA CancelStep == ASSUME SearchInv, Cancel PROVE SearchInv'
  <1>1. /\ stop = "none" /\ stop' = "Cancelled" /\ attempt' = 0
        /\ UNCHANGED <<serverVars, next, seen, pages, items, given, lasting>>
    BY DEF Cancel
  <1>2. /\ attempt' \in 0..MaxAttempts /\ ~(attempt' > 0) /\ next # NoMore
        /\ stop' \in Resumable \cup {"none", "Exhausted"} /\ stop' # "Exhausted"
    BY <1>1, WalkConstants DEF Resumable, SearchInv, WalkInv
  <1> QED
    BY <1>1, <1>2, CursorIdle DEF SearchInv, WalkInv, SearchTypeOK

LEMMA ResumeStep == ASSUME SearchInv, Resume PROVE SearchInv'
  <1>1. /\ stop \in Resumable /\ seen' = {next} \ {FirstPage} /\ pages' = 0 /\ items' = 0
        /\ stop' = "none" /\ UNCHANGED <<serverVars, next, attempt, given, lasting>>
    BY DEF Resume
  <1>2. /\ next # NoMore /\ stop # "none" /\ next \in 0..FirstPage
        /\ attempt \in 0..MaxAttempts /\ ~(attempt > 0)
    BY <1>1 DEF SearchInv, WalkInv, Resumable, SearchTypeOK
  <1>3. next \in Nat /\ seen' \subseteq Rows /\ \A c \in seen' : c >= next
    BY <1>1, <1>2, WalkConstants DEF NoMore
  <1>4. pages' \in 0..MaxPages /\ items' \in 0..MaxItems
    BY <1>1, WalkConstants
  <1>5. attempt' \in 0..MaxAttempts /\ ~(attempt' > 0)
    BY <1>1, <1>2
  <1> QED
    BY <1>1, <1>2, <1>3, <1>4, <1>5, CursorIdle DEF Resumable

LEMMA FailStep == ASSUME SearchInv, AttemptFails PROVE SearchInv'
  <1>1. /\ attempt > 0 /\ UNCHANGED <<matching, changes, steady>>
        /\ UNCHANGED <<next, seen, pages, items, stop, given, lasting>>
        /\ attempt' = IF attempt < MaxAttempts THEN attempt + 1 ELSE 0
        /\ kept' = kept \/ \E page \in Answers(next, Limit) : Keeps(page)
    BY DEF AttemptFails
  <1>2. PagesInv'
    <2>1. CASE kept' = kept
      BY <1>1, <2>1 DEF SearchInv, PagesInv, IsCut
    <2>2. CASE \E page \in Answers(next, Limit) : Keeps(page)
      <3>1. PICK page \in Answers(next, Limit) : Keeps(page)
        BY <2>2
      <3>2. IsCut(page)
        BY <1>1, AskedFor
      <3> QED
        BY <1>1, <3>1, <3>2, KeepsCache DEF SearchInv
    <2> QED
      BY <1>1, <2>1, <2>2
  <1>3. attempt' \in 0..MaxAttempts
    <2>1. attempt \in 0..MaxAttempts /\ MaxAttempts \in Nat
      BY WalkConstants DEF SearchInv, WalkInv, SearchTypeOK
    <2> QED
      BY <1>1, <2>1
  <1>4. stop' = "none" /\ ~AtBound'
    BY <1>1 DEF SearchInv, WalkInv, AtBound
  <1>5. SearchTypeOK'
    <2>1. matching' \subseteq Rows /\ kept' \subseteq Pages /\ Cardinality(kept') <= MaxKept
      BY <1>2 DEF PagesInv, IsCut
    <2> QED
      BY <1>1, <1>3, <2>1 DEF SearchInv, WalkInv, SearchTypeOK
  <1>6. \A r : Given(r)' <=> Given(r)
    BY <1>1 DEF Given
  <1> QED
    BY <1>1, <1>2, <1>4, <1>5, <1>6 DEF SearchInv, WalkInv

\* The page that arrives lies below all that was given and seen, and the rows
\* between it and its continuation are those that matched when it was cut.
LEMMA ArriveStep == ASSUME SearchInv, PageArrives PROVE SearchInv'
  <1>1. PICK page \in Answers(next, Limit) :
          /\ attempt > 0 /\ Keeps(page)
          /\ next' = page.next
          /\ seen' = seen \cup ({page.next} \ {NoMore})
          /\ pages' = pages + 1
          /\ items' = items + Cardinality(page.rows)
          /\ stop' = IF page.next = NoMore THEN "Exhausted"
                     ELSE IF items' >= MaxItems THEN "MaxItems" ELSE "none"
          /\ given' = Append(given, page.rows)
          /\ lasting' = lasting \cap page.of
          /\ attempt' = 0 /\ UNCHANGED <<matching, changes, steady>>
    BY DEF PageArrives
  <1>2. /\ IsCut(page) /\ page.from = next /\ page.limit = Limit
        /\ next \in 2..FirstPage /\ Limit \in Limits /\ Limit + items <= MaxItems
    BY <1>1, AskedFor
  <1>3. PICK m, low, rows, of : /\ m = next /\ low = page.next /\ rows = page.rows /\ of = page.of
    OBVIOUS
  <1>4. /\ rows = {r \in of : low <= r /\ r < m} /\ low < m /\ low # 1 /\ low \in 0..Newest
        /\ rows \in SUBSET Rows /\ of \in SUBSET Rows /\ IsFiniteSet(rows)
        /\ Cardinality(rows) <= Limit /\ m \in Nat /\ m >= 2 /\ m <= FirstPage
        /\ low \in Nat
    <2>1. page \in Pages /\ Newest \in Nat /\ FirstPage \in Nat
      BY <1>2, WalkConstants DEF IsCut
    <2>2. low \in 0..Newest /\ rows \in SUBSET Rows /\ of \in SUBSET Rows
      BY <1>3, <2>1 DEF Pages
    <2> QED
      BY <1>2, <1>3, <2>1, <2>2 DEF IsCut
  <1>5. PagesInv'
    BY <1>1, <1>2, KeepsCache DEF SearchInv
  <1>6. pages' \in 0..MaxPages /\ items' \in 0..MaxItems
    <2>1. pages \in 0..MaxPages /\ items \in 0..MaxItems /\ pages < MaxPages
          /\ MaxPages \in Nat /\ MaxItems \in Nat
      <3>1. pages \in 0..MaxPages /\ items \in 0..MaxItems /\ ~AtBound
        BY <1>1 DEF SearchInv, WalkInv, SearchTypeOK
      <3> QED
        BY <3>1, WalkConstants DEF AtBound
    <2>2. Cardinality(rows) \in Nat /\ Limit \in Nat
      BY <1>2, <1>4, FS_CardinalityType DEF Limits
    <2>3. items' = items + Cardinality(rows)
      BY <1>1, <1>3
    <2>4. items' <= MaxItems /\ items' \in Nat
      BY <1>2, <1>4, <2>1, <2>2, <2>3
    <2> QED
      BY <1>1, <2>1, <2>4
  <1>7. /\ given \in Seq(SUBSET Rows) /\ given' \in Seq(SUBSET Rows)
        /\ Len(given) \in Nat /\ DOMAIN given = 1..Len(given)
        /\ DOMAIN given' = 1..(Len(given) + 1)
        /\ given'[Len(given) + 1] = rows
        /\ \A i \in DOMAIN given : given'[i] = given[i]
    BY <1>1, <1>3, <1>4 DEF SearchInv, WalkInv, SearchTypeOK
  <1>8. SearchTypeOK'
    <2>1. /\ matching' \subseteq Rows /\ kept' \subseteq Pages /\ Cardinality(kept') <= MaxKept
          /\ changes' \in 0..MaxChanges
      BY <1>1, <1>5 DEF PagesInv, IsCut, SearchInv, WalkInv, SearchTypeOK
    <2>2. next' \in 0..FirstPage
      BY <1>1, <1>3, <1>4, WalkConstants
    <2>3. seen' \subseteq Rows
      <3>1. seen \subseteq Rows /\ seen' = seen \cup ({low} \ {0})
        BY <1>1, <1>3 DEF SearchInv, WalkInv, SearchTypeOK, NoMore
      <3>2. low # 0 => low \in Rows
        BY <1>4, WalkConstants DEF Rows
      <3> QED
        BY <3>1, <3>2
    <2>4. attempt' \in 0..MaxAttempts
      BY <1>1, WalkConstants
    <2>5. stop' \in Resumable \cup {"none", "Exhausted"}
      BY <1>1 DEF Resumable
    <2>6. lasting' \subseteq Rows /\ steady' \subseteq matching'
      BY <1>1 DEF SearchInv, WalkInv, SearchTypeOK
    <2> QED
      BY <1>6, <1>7, <2>1, <2>2, <2>3, <2>4, <2>5, <2>6 DEF SearchTypeOK
  <1>9. next' = NoMore <=> stop' = "Exhausted"
    BY <1>1
  <1>10. \A c \in seen' : c >= next'
    <2> SUFFICES ASSUME NEW c \in seen' PROVE c >= low
      BY <1>1, <1>3
    <2>1. CASE c \in seen
      <3>1. c >= m /\ c \in Nat
        BY <1>3, <2>1, WalkConstants DEF SearchInv, WalkInv, SearchTypeOK
      <3> QED
        BY <1>4, <3>1
    <2>2. CASE c = low
      BY <1>4, <2>2
    <2> QED
      BY <1>1, <1>3, <2>1, <2>2
  <1>11. \A i \in DOMAIN given : \A r \in given[i] : r \in Nat /\ r >= m
    BY <1>3, <1>7, WalkConstants DEF SearchInv, WalkInv
  <1>12. \A r \in rows : r \in Nat /\ low <= r /\ r < m
    BY <1>4, WalkConstants
  <1>13. \A i \in DOMAIN given' : \A r \in given'[i] : r >= next'
    <2> SUFFICES ASSUME NEW i \in DOMAIN given', NEW r \in given'[i] PROVE r >= low
      BY <1>1, <1>3
    <2>1. CASE i \in DOMAIN given
      <3>1. r \in Nat /\ r >= m
        BY <1>7, <1>11, <2>1
      <3> QED
        BY <1>4, <3>1
    <2>2. CASE i = Len(given) + 1
      <3>1. r \in Nat /\ low <= r
        BY <1>7, <1>12, <2>2
      <3> QED
        BY <1>4, <3>1
    <2> QED
      BY <1>7, <2>1, <2>2
  <1>14. \A i, j \in DOMAIN given' : i < j => \A r \in given'[i], q \in given'[j] : r > q
    <2> SUFFICES ASSUME NEW i \in DOMAIN given', NEW j \in DOMAIN given', i < j,
                        NEW r \in given'[i], NEW q \in given'[j]
                 PROVE  r > q
      OBVIOUS
    <2>1. i \in DOMAIN given
      BY <1>7
    <2>2. r \in given[i] /\ r \in Nat /\ r >= m
      BY <1>7, <1>11, <2>1
    <2>3. CASE j \in DOMAIN given
      BY <1>7, <2>1, <2>2, <2>3 DEF SearchInv, WalkInv
    <2>4. CASE j = Len(given) + 1
      <3>1. q \in Nat /\ q < m
        BY <1>7, <1>12, <2>4
      <3> QED
        BY <1>4, <2>2, <3>1
    <2> QED
      BY <1>7, <2>3, <2>4
  <1>15. \A r \in lasting' : r >= next' => Given(r)'
    <2> SUFFICES ASSUME NEW r \in lasting', r >= low
                 PROVE  \E i \in DOMAIN given' : r \in given'[i]
      BY <1>1, <1>3 DEF Given
    <2>1. r \in lasting /\ r \in of /\ r \in Nat
      BY <1>1, <1>3, <1>4, WalkConstants
    <2>2. CASE r >= m
      <3>1. PICK i \in DOMAIN given : r \in given[i]
        BY <1>3, <2>1, <2>2 DEF SearchInv, WalkInv, Given
      <3>2. i \in DOMAIN given' /\ r \in given'[i]
        BY <1>7, <3>1
      <3> QED
        BY <3>2
    <2>3. CASE r < m
      <3>1. r \in rows
        BY <1>4, <2>1, <2>3
      <3>2. Len(given) + 1 \in DOMAIN given' /\ r \in given'[Len(given) + 1]
        BY <1>7, <3>1
      <3> QED
        BY <3>2
    <2> QED
      BY <1>4, <2>1, <2>2, <2>3
  <1>16. next' # 1 /\ ~(attempt' > 0)
    BY <1>1, <1>3, <1>4
  <1> QED
    BY <1>5, <1>8, <1>9, <1>10, <1>13, <1>14, <1>15, <1>16 DEF SearchInv, WalkInv

LEMMA SearchNextInv == SearchInv /\ [SearchNext]_searchVars => SearchInv'
  <1> SUFFICES ASSUME SearchInv, [SearchNext]_searchVars PROVE SearchInv'
    OBVIOUS
  <1>1. ASSUME NEW from \in 2..FirstPage, NEW limit \in Limits, Browse(from, limit)
        PROVE  SearchInv'
    BY <1>1, BrowseStep
  <1>2. ASSUME NEW page \in kept, Expire(page) PROVE SearchInv'
    BY <1>2, ExpireStep
  <1>3. ASSUME NEW r \in Rows, Edit(r) PROVE SearchInv'
    BY <1>3, EditStep
  <1>4. CASE StopAtBound
    BY <1>4, StopStep
  <1>5. CASE AskPage
    BY <1>5, AskStep
  <1>6. CASE AttemptFails
    BY <1>6, FailStep
  <1>7. CASE PageArrives
    BY <1>7, ArriveStep
  <1>8. CASE Cancel
    BY <1>8, CancelStep
  <1>9. CASE Resume
    BY <1>9, ResumeStep
  <1>10. CASE UNCHANGED searchVars
    <2>1. UNCHANGED walkVars /\ UNCHANGED <<matching, kept, changes, steady>>
      BY <1>10 DEF searchVars, serverVars
    <2>2. PagesInv' /\ changes' \in 0..MaxChanges /\ steady' \subseteq matching'
      BY <2>1 DEF SearchInv, PagesInv, WalkInv, SearchTypeOK, IsCut
    <2> QED
      BY <2>1, <2>2, WalkIdle
  <1> QED
    BY <1>1, <1>2, <1>3, <1>4, <1>5, <1>6, <1>7, <1>8, <1>9, <1>10 DEF SearchNext

LEMMA WalkInvSuffices == SearchInv => WalkIsFaithful
  <1> SUFFICES ASSUME SearchInv PROVE WalkIsFaithful
    OBVIOUS
  <1>1. ASSUME attempt > 0, NEW page \in Answers(next, Limit) PROVE page.next \notin seen
    <2>1. IsCut(page) /\ page.from = next /\ next \in 2..FirstPage
      BY <1>1, AskedFor
    <2>2. page.next < next /\ page.next \in 0..Newest
      BY <2>1 DEF IsCut, Pages
    <2>3. \A c \in seen : c >= next
      BY DEF SearchInv, WalkInv
    <2> QED
      BY <2>1, <2>2, <2>3, WalkConstants
  <1>2. ASSUME stop = "Exhausted", NEW r \in lasting PROVE r \in UNION Range(given)
    <2>1. next = 0 /\ r \in Nat /\ r >= next
      BY <1>2, WalkConstants DEF SearchInv, WalkInv, SearchTypeOK, NoMore
    <2>2. PICK i \in DOMAIN given : r \in given[i]
      BY <2>1 DEF SearchInv, WalkInv, Given
    <2> QED
      BY <2>2 DEF Range
  <1> QED
    BY <1>1, <1>2 DEF WalkIsFaithful, SearchInv, WalkInv

\* What the paginator and the server's cache hold is always well formed: the
\* cache within its size, the walk within its bounds of pages and items, the
\* cursor a place in the order (pagination.rs:446-580, search_postgres.rs).
THEOREM WalkType == SearchSpec => []SearchTypeOK
  <1>1. SearchInv => SearchTypeOK
    BY DEF SearchInv, WalkInv
  <1> QED
    BY <1>1, SearchInitInv, SearchNextInv, PTL DEF SearchSpec

\* For every number of rows, page size, bound and size of the cache: no row is
\* given twice or out of order, no continuation is taken for a loop, and a walk
\* that ends by itself has given the rows that matched whenever one of its pages
\* was cut, which for a page from the cache may be before the walk began
\* (pagination.rs:446-580).
THEOREM WalkFaithful == SearchSpec => []WalkIsFaithful
  BY SearchInitInv, SearchNextInv, WalkInvSuffices, PTL DEF SearchSpec

\* With nothing kept, every page is cut during the walk.
CutInWalk ==
    /\ kept = {}
    /\ next = FirstPage => lasting = Rows
    /\ steady \subseteq lasting

LEMMA CutInWalkNext ==
    ASSUME MaxKept = 0, SearchInv, CutInWalk, [SearchNext]_searchVars
    PROVE  CutInWalk'
  <1>1. kept' = {}
    <2>1. SearchInv'
      BY SearchNextInv
    <2>2. IsFiniteSet(kept') /\ Cardinality(kept') <= 0
      BY <2>1 DEF SearchInv, PagesInv
    <2>3. Cardinality(kept') \in Nat
      BY <2>2, FS_CardinalityType
    <2>4. Cardinality(kept') = 0
      BY <2>2, <2>3
    <2> QED
      BY <2>2, <2>4, FS_EmptySet
  <1>2. CASE PageArrives
    <2>1. PICK page \in Answers(next, Limit) :
            /\ next' = page.next /\ lasting' = lasting \cap page.of
            /\ UNCHANGED <<matching, steady>>
      BY <1>2 DEF PageArrives
    <2>2. page.of = matching
      BY <2>1 DEF CutInWalk, Answers, SearchPage, CutFrom
    <2>3. steady \subseteq matching
      BY DEF SearchInv, WalkInv, SearchTypeOK
    <2>4. next' # FirstPage
      <3>1. next \in 2..FirstPage /\ page.from = next /\ IsCut(page)
        BY <1>2, <2>1, AskedFor DEF PageArrives
      <3>2. page.next < next /\ page.next \in 0..Newest
        BY <3>1 DEF IsCut, Pages
      <3> QED
        BY <2>1, <3>1, <3>2, WalkConstants
    <2> QED
      BY <1>1, <2>1, <2>2, <2>3, <2>4 DEF CutInWalk
  <1>3. CASE \E r \in Rows : Edit(r)
    <2>1. PICK r \in Rows : Edit(r)
      BY <1>3
    <2>2. next' = next /\ lasting' = lasting
      BY <2>1 DEF Edit, walkVars
    <2>3. matching' \subseteq Rows
      BY <2>1 DEF Edit, SearchInv, PagesInv
    <2> QED
      BY <1>1, <2>1, <2>2, <2>3 DEF Edit, CutInWalk
  <1>4. ASSUME ~PageArrives, ~\E r \in Rows : Edit(r) PROVE UNCHANGED <<next, lasting, steady>>
    BY <1>4
    DEF SearchNext, Browse, Expire, StopAtBound, AskPage, AttemptFails, Cancel, Resume,
        searchVars, serverVars, walkVars
  <1> QED
    BY <1>1, <1>2, <1>3, <1>4 DEF CutInWalk

\* Where no page is taken from the cache the promise of docs/pagination.md:75
\* holds: for every number of rows, page size and bound, a walk that ends by
\* itself has given every row that matched all the time since it began.  The rows
\* of search_stale are lost to the cache alone (search_postgres.rs:389).
THEOREM WalkCompleteUncached == MaxKept = 0 /\ SearchSpec => []EveryRowReturned
  <1> SUFFICES ASSUME MaxKept = 0 PROVE SearchSpec => []EveryRowReturned
    OBVIOUS
  <1>1. SearchInit => SearchInv /\ CutInWalk
    BY SearchInitInv DEF SearchInit, CutInWalk
  <1>2. SearchInv /\ CutInWalk /\ [SearchNext]_searchVars => SearchInv' /\ CutInWalk'
    BY SearchNextInv, CutInWalkNext
  <1>3. SearchInv /\ CutInWalk => EveryRowReturned
    BY WalkInvSuffices DEF CutInWalk, EveryRowReturned, WalkIsFaithful
  <1> QED
    BY <1>1, <1>2, <1>3, PTL DEF SearchSpec
=============================================================================
