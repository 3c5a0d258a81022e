------------------------------ MODULE RateLimit ------------------------------
(***************************************************************************)
(* One bucket of the rate limiter (api/src/rate_limit.rs): a sliding       *)
(* window over the stamps of the requests it admitted, and a second one    *)
(* for bursts.  A request takes its stamp before it waits for the mutex of *)
(* the bucket map, so that requests may be decided out of the order of     *)
(* their stamps.  Buckets share nothing but that mutex.                    *)
(***************************************************************************)
EXTENDS WallClock, FiniteSets, Sequences, SequencesExt

CONSTANTS
    Hits,             \* requests of one client, each sent once
    LimitOf,          \* LimitOf[h]: its limit, which its page size scales down
    BurstLimitOf,     \* and its burst limit
    Window, BurstWindow,
    MaxLag            \* bound of the wait for the mutex

ASSUME RateLimitAssumption ==
    /\ Hits # {} /\ IsFiniteSet(Hits)
    /\ LimitOf \in [Hits -> Nat] /\ BurstLimitOf \in [Hits -> Nat \ {0}]
    /\ Window \in Nat \ {0} /\ BurstWindow \in Nat \ {0} /\ MaxLag \in Nat
    /\ MaxLag < Window /\ BurstWindow + MaxLag <= 2 * Window

VARIABLES
    hit,      \* hit[h]: its state, its stamp and the time of its decision
    stamps,   \* BucketState.timestamps
    bursts    \* BucketState.burst_timestamps

limitVars == <<hit, stamps, bursts>>

HitStates == {"unsent", "stamped", "admitted", "refused"}

LimitTypeOK ==
    /\ clock \in Times
    /\ hit \in [Hits -> [state : HitStates, stamp : Times, decided : Times]]
    /\ stamps \in Seq(Times) /\ \E h \in Hits : Len(stamps) <= LimitOf[h]
    /\ bursts \in Seq(Times) /\ \E h \in Hits : Len(bursts) <= BurstLimitOf[h]

LimitInit ==
    /\ clock = 0
    /\ hit = [h \in Hits |-> [state |-> "unsent", stamp |-> 0, decided |-> 0]]
    /\ stamps = <<>> /\ bursts = <<>>

\* Mutant: the trimming stops one stamp late.
TrimmedEarly(s, now, window) ==
    LET fresh == {i \in 1..Len(s) : s[i] + window > now + 1}
    IN  IF fresh = {} THEN <<>> ELSE SubSeq(s, Min(fresh), Len(s))

\* Mutant: the first stamp stays while the window it opened is twice over.
TrimmedLate(s, now, window) ==
    LET fresh == {i \in 1..Len(s) : s[i] + 2 * window > now}
    IN  IF fresh = {} THEN <<>> ELSE SubSeq(s, Min(fresh), Len(s))

\* Stamps are popped from the front as long as they have left the window.
Trimmed(s, now, window) ==
    LET fresh == {i \in 1..Len(s) : s[i] + window > now}
    IN  IF fresh = {} THEN <<>> ELSE SubSeq(s, Min(fresh), Len(s))

\* Mutant: the time that is left is rounded down.
RetryAfterFloor(h) ==
    LET now  == hit[h].stamp
        kept == Trimmed(stamps, now, Window)
    IN  IF Len(kept) < LimitOf[h] THEN BurstWindow
        ELSE IF kept = <<>> THEN Window
        ELSE Head(kept) + Window - now - 1

\* Retry-After of a request that is refused.
RetryAfter(h) ==
    LET now  == hit[h].stamp
        kept == Trimmed(stamps, now, Window)
    IN  IF Len(kept) < LimitOf[h] THEN BurstWindow
        ELSE IF kept = <<>> THEN Window
        ELSE Max({1, Head(kept) + Window - now})

----------------------------------------------------------------------------
StampHit(h) ==
    /\ hit[h].state = "unsent"
    /\ hit' = [hit EXCEPT ![h].state = "stamped", ![h].stamp = clock]
    /\ UNCHANGED <<clock, stamps, bursts>>

DecideHit(h, verdict) ==
    hit' = [hit EXCEPT ![h].state = verdict, ![h].decided = clock]

\* check_request, once it holds the mutex.
AdmitHit(h) ==
    LET now  == hit[h].stamp
        kept == Trimmed(stamps, now, Window)
        late == Trimmed(bursts, now, BurstWindow)
    IN  /\ hit[h].state = "stamped"
        /\ Len(kept) < LimitOf[h] /\ Len(late) < BurstLimitOf[h]
        /\ stamps' = Append(kept, now)
        /\ bursts' = Append(late, now)
        /\ DecideHit(h, "admitted")
        /\ UNCHANGED clock

RefuseHit(h) ==
    LET now  == hit[h].stamp
        kept == Trimmed(stamps, now, Window)
        late == Trimmed(bursts, now, BurstWindow)
    IN  /\ hit[h].state = "stamped"
        /\ Len(kept) >= LimitOf[h] \/ Len(late) >= BurstLimitOf[h]
        /\ stamps' = kept
        /\ bursts' = late
        /\ DecideHit(h, "refused")
        /\ UNCHANGED clock

\* spawn_eviction_task drops a bucket whose last stamps are two windows old.
StaleStamps(s) == IF s = <<>> THEN TRUE ELSE clock >= Last(s) + 2 * Window

EvictBucket ==
    /\ StaleStamps(stamps) /\ StaleStamps(bursts)
    /\ stamps' = <<>> /\ bursts' = <<>>
    /\ UNCHANGED <<clock, hit>>

\* No handler waits for the mutex longer than MaxLag.
LimitTick ==
    /\ \A h \in Hits : hit[h].state = "stamped" => clock < hit[h].stamp + MaxLag
    /\ Tick
    /\ UNCHANGED limitVars

LimitNext ==
    \/ \E h \in Hits : StampHit(h) \/ AdmitHit(h) \/ RefuseHit(h)
    \/ EvictBucket \/ LimitTick

LimitSpec == LimitInit /\ [][LimitNext]_<<clock, limitVars>>

----------------------------------------------------------------------------
(* Properties. *)

AdmittedWithin(from, to) ==
    {h \in Hits : hit[h].state = "admitted" /\ hit[h].stamp > from /\ hit[h].decided <= to}

\* In no interval of the length of a window are more requests sent and admitted
\* than the limit of one of them, in whatever order handlers get the mutex, trim
\* each other's stamps and lose the bucket to the eviction
\* (rate_limit.rs:226-248, 309-371).
WindowsRespected ==
    \A t \in Times :
        LET long  == AdmittedWithin(t - Window, t)
            short == AdmittedWithin(t - BurstWindow, t)
        IN  /\ long # {} => \E h \in long : Cardinality(long) <= LimitOf[h]
            /\ short # {} => \E h \in short : Cardinality(short) <= BurstLimitOf[h]

Recent(h, window) ==
    {g \in Hits : hit[g].state = "admitted" /\ hit[g].stamp > hit[h].stamp - window - MaxLag}

\* A refusal has its reason: a limit's worth of requests was admitted within the
\* window, give or take the wait for the mutex that may leave an old stamp
\* behind a newer one (rate_limit.rs:321-341, 351-361).
RefusalsHaveCause ==
    \A h \in Hits : hit[h].state = "refused" =>
        \/ Cardinality(Recent(h, Window)) >= LimitOf[h]
        \/ Cardinality(Recent(h, BurstWindow)) >= BurstLimitOf[h]

\* A request of the largest limits that is refused now and comes back after
\* Retry-After, with nobody admitted in between, finds room in the window that
\* refused it, however old its stamp is (rate_limit.rs:343-368).  One with a
\* smaller limit may find the bucket full of what others were granted.
RetryAfterSuffices ==
    \A h \in Hits :
        LET then == clock + RetryAfter(h)
        IN  /\ hit[h].state = "stamped" /\ LimitOf[h] > 0
            /\ \A g \in Hits : LimitOf[g] <= LimitOf[h] /\ BurstLimitOf[g] <= BurstLimitOf[h]
            => IF Len(Trimmed(stamps, hit[h].stamp, Window)) >= LimitOf[h]
               THEN Len(Trimmed(stamps, then, Window)) < LimitOf[h]
               ELSE Len(Trimmed(bursts, then, BurstWindow)) < BurstLimitOf[h]
=============================================================================
