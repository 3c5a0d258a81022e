------------------------------ MODULE MCTasks ------------------------------
(***************************************************************************)
(* The two tasks of the indexer process, which share no row: the one that  *)
(* indexes ledgers, and the scanner of USDC payments with the endpoint it  *)
(* reports to.  A behaviour of one of them, picked at the start, is all    *)
(* there is to check, and fairness is asked for only where that one runs.  *)
(***************************************************************************)
EXTENDS MCIndexer, MCUsdc

VARIABLE task   \* the one that runs

mcVars == <<task, vars, usdcVars>>

MCInit == task \in {"ledgers", "payments"} /\ Init /\ UsdcInit

MCNext ==
    \/ task = "ledgers" /\ Next /\ UNCHANGED <<task, usdcVars>>
    \/ task = "payments" /\ UsdcNext /\ UNCHANGED <<task, vars>>

\* Fairness and UsdcFairness, each of its task.
MCFairness ==
    /\ WF_vars(task = "ledgers" /\ Start)
    /\ WF_vars(task = "ledgers" /\ CycleStep)
    /\ WF_vars(task = "ledgers" /\ CloseLedger)
    /\ WF_usdcVars(/\ task = "payments"
                   /\ ScanStep \/ \E r \in Requests : Report(r))
    /\ \A r \in Requests : WF_usdcVars(task = "payments" /\ Serve(r))
    /\ \A i \in Intents : WF_usdcVars(task = "payments" /\ Expire(i))

MCSpec == MCInit /\ [][MCNext]_mcVars /\ MCFairness

\* CatchesUp, asked of the task that indexes: the cursor of main.rs reaches the
\* head, or a ledger that the database refuses.
LedgersCatchUp == task = "ledgers" => CatchesUp

\* EventuallyCurrent, likewise: what stays on the chain is in the database up to
\* there, if every reorg was calm (reorg.rs, recover_from_reorg).
LedgersCurrent == task = "ledgers" => EventuallyCurrent
=============================================================================
