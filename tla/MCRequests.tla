----------------------------- MODULE MCRequests -----------------------------
(***************************************************************************)
(* Requests to the API server on their way: through the database queue, or *)
(* publishing a contract.  A behaviour of one of the two, picked at the    *)
(* start, is all there is to check, and fairness is asked for only where   *)
(* that one runs.                                                          *)
(***************************************************************************)
EXTENDS MCPublish, Resilience

CONSTANTS q1, q2, q3

VARIABLE route   \* the one that runs

mcVars == <<route, vars, resVars>>

MCInit == route \in {"queue", "publishing"} /\ Init /\ ResInit

MCNext ==
    \/ route = "publishing" /\ Next /\ UNCHANGED <<route, resVars>>
    \/ route = "queue" /\ ResNext /\ UNCHANGED <<route, vars>>

\* Fairness and ResFairness, each of its route.
MCFairness ==
    /\ \A r \in Requests : WF_vars(route = "publishing" /\ Serve(r))
    /\ \A k \in Keys : WF_vars(route = "publishing" /\ Evict(k))
    /\ \A k \in Keys : SF_vars(route = "publishing" /\ \E r \in Requests : Send(r, k))
    /\ WF_resVars(route = "queue" /\ PingTick)
    /\ WF_resVars(route = "queue" /\ PingOk)
    /\ WF_resVars(route = "queue" /\ PingFails)
    /\ \A c \in Calls : WF_resVars(route = "queue" /\ Proceed(c))

MCSpec == MCInit /\ [][MCNext]_mcVars /\ MCFairness

\* EveryKeySettles, asked where requests publish: a publisher who goes on retrying
\* gets a final answer (cache.rs:13-15).
KeysSettle == route = "publishing" => EveryKeySettles
=============================================================================
