----------------------------- MODULE Resilience -----------------------------
(***************************************************************************)
(* What stands between a request and the database                          *)
(* (api/src/db_resilience.rs): the circuit breaker, driven by a task that  *)
(* pings the database, and the queue of requests for one of a few permits. *)
(* Tokio's semaphore serves its waiters in order.  A client that goes away *)
(* drops the future of its request at the await it has reached.            *)
(***************************************************************************)
EXTENDS Naturals, FiniteSets, SequencesExt

CONSTANTS
    Calls,          \* requests that may be in the server at once
    Concurrency,    \* concurrency_limit
    QueueLimit,     \* queue_limit
    FailureThreshold,     \* failure_threshold
    RecoveryPings,  \* recovery_time, in ping intervals
    MaxHangups      \* bound of the clients that go away while they wait

ASSUME ResilienceAssumption ==
    /\ IsFiniteSet(Calls)
    /\ Concurrency \in Nat \ {0} /\ QueueLimit \in Nat \ {0}
    /\ FailureThreshold \in Nat \ {0} /\ RecoveryPings \in Nat /\ MaxHangups \in Nat

VARIABLES
    up,         \* whether the database answers
    breaker,    \* CircuitBreaker.state
    failures,   \* CircuitBreaker.consecutive_failures
    age,        \* ping intervals since last_state_change
    pinging,    \* a ping is under way
    stage,      \* stage[c]: how far request c has come
    line,       \* the waiters of the semaphore
    permits,    \* its free permits
    queued,     \* DbQueue.queued_requests
    active,     \* DbQueue.active_requests
    hangups

breakerVars == <<up, breaker, failures, age, pinging>>
queueVars   == <<stage, line, permits, queued, active, hangups>>
resVars     == <<breakerVars, queueVars>>

Stages == {"out", "checked", "waiting", "granted", "late", "admitted", "running", "leaving"}

ResTypeOK ==
    /\ up \in BOOLEAN /\ pinging \in BOOLEAN
    /\ breaker \in {"closed", "open", "halfopen"}
    /\ failures \in 0..FailureThreshold /\ age \in 0..RecoveryPings
    /\ stage \in [Calls -> Stages]
    /\ line \in Seq(Calls)
    /\ permits \in 0..Concurrency /\ active \in 0..Concurrency
    /\ queued \in Nat /\ hangups \in 0..MaxHangups

ResInit ==
    /\ up = TRUE /\ breaker = "closed" /\ failures = 0 /\ age = 0 /\ pinging = FALSE
    /\ stage = [c \in Calls |-> "out"] /\ line = <<>>
    /\ permits = Concurrency /\ queued = 0 /\ active = 0 /\ hangups = 0

----------------------------------------------------------------------------
(* The breaker: spawn_background_ping_task is the only one to change it. *)

Outage == up' = ~up /\ UNCHANGED <<breaker, failures, age, pinging, queueVars>>

\* Mutant: the time in the open state starts anew with every look at it.
PingTickRestarting ==
    LET recovers == breaker = "open" /\ age >= RecoveryPings
    IN  /\ ~pinging
        /\ breaker' = IF recovers THEN "halfopen" ELSE breaker
        /\ failures' = IF recovers THEN 0 ELSE failures
        /\ age' = 0
        /\ pinging' = (breaker' # "open")
        /\ UNCHANGED <<up, queueVars>>

\* One interval: check_recovery, then a ping unless the breaker is open.
PingTick ==
    LET recovers == breaker = "open" /\ age >= RecoveryPings
    IN  /\ ~pinging
        /\ breaker' = IF recovers THEN "halfopen" ELSE breaker
        /\ failures' = IF recovers THEN 0 ELSE failures
        /\ age' = IF recovers THEN 0 ELSE IF age < RecoveryPings THEN age + 1 ELSE age
        /\ pinging' = (breaker' # "open")
        /\ UNCHANGED <<up, queueVars>>

\* record_success
PingOk ==
    /\ pinging /\ up
    /\ breaker' = "closed" /\ failures' = 0
    /\ age' = IF breaker = "closed" THEN age ELSE 0
    /\ pinging' = FALSE
    /\ UNCHANGED <<up, queueVars>>

\* Mutant: a failed probe leaves the breaker half open.
PingFailsClosedOnly ==
    LET opens == breaker = "closed" /\ failures + 1 >= FailureThreshold
    IN  /\ pinging /\ ~up
        /\ failures' = IF failures < FailureThreshold THEN failures + 1 ELSE failures
        /\ breaker' = IF opens THEN "open" ELSE breaker
        /\ age' = IF opens THEN 0 ELSE age
        /\ pinging' = FALSE
        /\ UNCHANGED <<up, queueVars>>

\* record_failure
PingFails ==
    LET opens == breaker = "halfopen" \/ failures + 1 >= FailureThreshold
    IN  /\ pinging /\ ~up
        /\ failures' = failures + 1
        /\ breaker' = IF opens THEN "open" ELSE breaker
        /\ age' = IF opens THEN 0 ELSE age
        /\ pinging' = FALSE
        /\ UNCHANGED <<up, queueVars>>

----------------------------------------------------------------------------
(* The queue. *)

QueueFull == queued >= QueueLimit

Moves(c, from, to) == stage[c] = from /\ stage' = [stage EXCEPT ![c] = to]

\* db_resilience_middleware and the first check of acquire.  Both only read,
\* and what they read changes independently, so one step stands for them.
Arrives(c) ==
    /\ Moves(c, "out", "checked")
    /\ breaker # "open" /\ ~QueueFull
    /\ UNCHANGED <<breakerVars, line, permits, queued, active, hangups>>

\* acquire counts the request and asks the semaphore.
Enqueue(c) ==
    /\ queued' = queued + 1
    /\ \/ /\ permits > 0 /\ line = <<>>
          /\ Moves(c, "checked", "granted")
          /\ permits' = permits - 1
          /\ UNCHANGED line
       \/ /\ ~(permits > 0 /\ line = <<>>)
          /\ Moves(c, "checked", "waiting")
          /\ line' = Append(line, c)
          /\ UNCHANGED permits
    /\ UNCHANGED <<breakerVars, active, hangups>>

\* The semaphore hands a permit to its first waiter.
Grant(c) ==
    /\ permits > 0 /\ line # <<>> /\ c = Head(line)
    /\ Moves(c, "waiting", "granted")
    /\ line' = Tail(line)
    /\ permits' = permits - 1
    /\ UNCHANGED <<breakerVars, queued, active, hangups>>

\* A waiter drops out of the line, wherever in it it stands.
LeavesLine(c) ==
    \E i \in 1..Len(line) : line[i] = c /\ line' = RemoveAt(line, i)

\* queue_timeout; the wait looks for a permit before it looks at the time.
WaitTimesOut(c) ==
    /\ Moves(c, "waiting", "late")
    /\ LeavesLine(c)
    /\ UNCHANGED <<breakerVars, permits, queued, active, hangups>>

\* Mutant: a request that has timed out is not taken off the count.
UncountGrantedOnly(c) ==
    /\ Moves(c, "granted", "admitted") \/ Moves(c, "late", "out")
    /\ queued' = IF stage[c] = "granted" THEN queued - 1 ELSE queued
    /\ UNCHANGED <<breakerVars, line, permits, active, hangups>>

\* acquire goes on, with a permit or with an error.
Uncount(c) ==
    /\ Moves(c, "granted", "admitted") \/ Moves(c, "late", "out")
    /\ queued' = queued - 1
    /\ UNCHANGED <<breakerVars, line, permits, active, hangups>>

Activate(c) ==
    /\ Moves(c, "admitted", "running")
    /\ active' = active + 1
    /\ UNCHANGED <<breakerVars, line, permits, queued, hangups>>

\* DbQueuePermit::drop, after the response or because the client has gone.
Respond(c) ==
    /\ Moves(c, "running", "leaving")
    /\ active' = active - 1
    /\ UNCHANGED <<breakerVars, line, permits, queued, hangups>>

\* Then the semaphore's own permit is dropped.
ReturnPermit(c) ==
    /\ Moves(c, "leaving", "out")
    /\ permits' = permits + 1
    /\ UNCHANGED <<breakerVars, line, queued, active, hangups>>

\* A client goes away while acquire awaits: the semaphore takes the waiter, or
\* the permit it was granted, back.  Nothing takes it off queued_requests.
HangUp(c) ==
    /\ hangups < MaxHangups
    /\ \/ Moves(c, "waiting", "out") /\ LeavesLine(c) /\ permits' = permits
       \/ Moves(c, "granted", "out") /\ permits' = permits + 1 /\ line' = line
    /\ hangups' = hangups + 1
    /\ UNCHANGED <<breakerVars, queued, active>>

Proceed(c) ==
    Enqueue(c) \/ Grant(c) \/ WaitTimesOut(c) \/ Uncount(c) \/ Activate(c) \/ Respond(c) \/ ReturnPermit(c)

ResNext ==
    \/ Outage \/ PingTick \/ PingOk \/ PingFails
    \/ \E c \in Calls : Arrives(c) \/ Proceed(c) \/ HangUp(c)

ResSpec == ResInit /\ [][ResNext]_resVars

\* The ping task runs, and tokio polls every request that can go on: a wait
\* ends, a handler answers.  Clients need not send anything.
ResFairness ==
    /\ WF_resVars(PingTick) /\ WF_resVars(PingOk) /\ WF_resVars(PingFails)
    /\ \A c \in Calls : WF_resVars(Proceed(c))

ResFairSpec == ResSpec /\ ResFairness

----------------------------------------------------------------------------
(* Properties. *)

InStage(stages) == Cardinality({c \in Calls : stage[c] \in stages})

\* No permit is lost or made: what is not free is in the hands of a request.
PermitsAccounted ==
    permits + InStage({"granted", "admitted", "running", "leaving"}) = Concurrency

ActiveWithinLimit == active = InStage({"running"}) /\ active <= Concurrency

\* queued_requests is never short of a waiter, so that it cannot wrap below
\* zero, and is ahead of them by the clients that went away, no more.
QueuedCoversWaiters ==
    queued = InStage({"waiting", "granted", "late"}) + hangups

\* The semaphore and the two counters, which change one after the other, tell
\* where the requests are, wherever a wait is cut off: no permit is lost, no more
\* requests run than there are permits, and no waiter goes uncounted
\* (db_resilience.rs:237-253, 284-288).
CountersTellStages == PermitsAccounted /\ ActiveWithinLimit /\ QueuedCoversWaiters

\* "Number of requests currently waiting for a permit" (db_resilience.rs:190):
\* when no request is in the server, none is counted.
IdleQueueIsEmpty == (\A c \in Calls : stage[c] = "out") => queued = 0

\* When the database stays healthy, requests are let in again and again: no
\* outage leaves the breaker open, and nothing but clients that went away while
\* they waited, as many of them as the queue has places, leaves the queue full
\* (db_resilience.rs:229, 243, 380).
AdmitsAgain ==
    <>[]up => []<>(breaker # "open" /\ (~QueueFull \/ hangups >= QueueLimit))

\* An outage that lasts is noticed again and again, also by the probe that
\* follows a recovery time (db_resilience.rs:122-152).
OutageOpens == <>[]~up => []<>(breaker = "open")
=============================================================================
