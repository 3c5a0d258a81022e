------------------------------ MODULE Indexer ------------------------------
(***************************************************************************)
(* The Stellar ledger indexer (backend/indexer): one polling task that     *)
(* copies the contract deployments of each closed ledger into the          *)
(* registry's database, remembers how far it got in the indexer_state row  *)
(* of its network, and falls back to a checkpoint when the hash of the     *)
(* last indexed ledger no longer matches the chain.                        *)
(*                                                                         *)
(* Every await of the polling cycle is a step of its own, so the chain may *)
(* change, a call may fail, and the process may be stopped between any two *)
(* of them.  A ledger is a pair <<height, fork>>: the fork number stands   *)
(* for its hash and for the deployments it holds.  Failure counters,       *)
(* timestamps and back-off lengths are left out: they only decide how long *)
(* a sleep lasts.                                                          *)
(***************************************************************************)
EXTENDS Naturals

CONSTANTS
    None,             \* "no stored ledger hash"
    MaxPerCycle,      \* max_ledgers_per_cycle, 10 in the code
    CheckpointDepth,  \* INDEXER_REORG_CHECKPOINT_DEPTH, 100 by default
    MaxHeight,        \* bound: the chain closes this many ledgers
    MaxReorgs,        \* bound: how often the chain replaces a suffix
    MaxErrors,        \* bound: failed or unanswered RPC and SQL calls
    MaxStops,         \* bound: crashes and shutdowns
    Refused           \* ledgers whose deployments the database refuses for good

Heights == 1..MaxHeight
Forks   == 0..MaxReorgs

ASSUME IndexerAssumption ==
    /\ None \notin Nat
    /\ MaxPerCycle \in Nat \ {0}
    /\ CheckpointDepth \in Nat
    /\ MaxHeight \in Nat /\ MaxReorgs \in Nat
    /\ MaxErrors \in Nat /\ MaxStops \in Nat
    /\ Refused \subseteq Heights \X Forks

VARIABLES
    \* the chain, as the RPC endpoint serves it
    head,       \* height of the latest ledger
    chain,      \* chain[h]: the fork of ledger h, for h <= head
    reorgs,     \* number of reorgs so far; also the youngest fork
    \* history, which no step of the program reads
    settled,    \* the highest ledger that was ever taken for a checkpoint
    calm,       \* no reorg yet replaced such a ledger, or hit a running cycle
    \* the database
    row,        \* the indexer_state row
    contracts,  \* ledgers whose deployments have been inserted
    \* the process
    pc,         \* the await the polling task stands at
    st,         \* the IndexerState the task works on
    snap,       \* current_state: what a graceful shutdown flushes
    upto,       \* last ledger of the cycle's batch
    hash,       \* hash returned by get_ledger
    ops,        \* fork whose operations get_ledger_operations returned
    \* environment budgets
    errors,
    stops

chainVars  == <<head, chain, reorgs, settled, calm>>
dbVars     == <<row, contracts>>
localVars  == <<upto, hash, ops>>
vars == <<head, chain, reorgs, settled, calm, row, contracts, pc, st, snap, upto, hash,
          ops, errors, stops>>

IndexerState ==
    [height : 0..MaxHeight, hash : Forks \cup {None}, ckpt : 0..MaxHeight]

\* The row the migration inserts and the default used when loading fails.
DefaultState == [height |-> 0, hash |-> None, ckpt |-> 0]

Calls == {"poll", "check", "recover", "ledger", "ops", "write", "ckpt", "persist"}
Idle  == {"down", "sleep", "poll"}
Pcs   == Calls \cup {"down", "sleep", "ok", "error"}

TypeOK ==
    /\ head \in 0..MaxHeight
    /\ chain \in [Heights -> Forks]
    /\ reorgs \in Forks /\ settled \in 0..MaxHeight /\ calm \in BOOLEAN
    /\ row \in IndexerState /\ st \in IndexerState /\ snap \in IndexerState
    /\ contracts \subseteq Heights \X Forks
    /\ pc \in Pcs
    /\ upto \in 0..MaxHeight
    /\ hash \in Forks /\ ops \in Forks
    /\ errors \in 0..MaxErrors /\ stops \in 0..MaxStops

Init ==
    /\ head = 0 /\ chain = [h \in Heights |-> 0] /\ reorgs = 0
    /\ settled = 0 /\ calm = TRUE
    /\ row = DefaultState /\ contracts = {}
    /\ pc = "down" /\ st = DefaultState /\ snap = DefaultState
    /\ upto = 0 /\ hash = 0 /\ ops = 0
    /\ errors = 0 /\ stops = 0

----------------------------------------------------------------------------
(* The chain. *)

CloseLedger ==
    /\ head < MaxHeight
    /\ head' = head + 1
    /\ chain' = [chain EXCEPT ![head + 1] = reorgs]
    /\ UNCHANGED <<settled, calm, reorgs, row, contracts, pc, st, snap, upto, hash, ops,
                   errors, stops>>

\* The ledgers from h on are replaced by those of a new fork, which may still
\* be shorter than the old one.  The chain always has a further ledger to
\* close (head < MaxHeight): an indexer compares hashes only when it sees one.
\* It is calm when it spares what was ever a checkpoint, also if the row's has
\* fallen since, as it does when a start cannot load the row (LoadFails), and
\* when no polling cycle is under way.
Reorg(h) ==
    /\ h <= head /\ head < MaxHeight /\ reorgs < MaxReorgs
    /\ calm' = (calm /\ h > settled /\ pc \in Idle)
    /\ reorgs' = reorgs + 1
    /\ \E newHead \in h..head : head' = newHead
    /\ chain' = [k \in Heights |->
                    IF k < h THEN chain[k] ELSE IF k <= head' THEN reorgs + 1 ELSE 0]
    /\ UNCHANGED <<settled, row, contracts, pc, st, snap, upto, hash, ops, errors, stops>>

----------------------------------------------------------------------------
(* The process: start, one polling cycle, stop. *)

\* StateManager::load_state succeeds.
LoadState == st' = row /\ errors' = errors

\* When the row cannot be read the service carries on from the default state.
LoadFails == errors < MaxErrors /\ st' = DefaultState /\ errors' = errors + 1

\* Mutant: load_state does not read last_indexed_ledger_hash.
StartWithoutHash ==
    /\ pc = "down"
    /\ st' = [row EXCEPT !.hash = None] /\ snap' = st' /\ pc' = "poll"
    /\ UNCHANGED <<chainVars, row, contracts, upto, hash, ops, errors, stops>>

\* IndexerService::run up to its loop.
Start ==
    /\ pc = "down"
    /\ LoadState \/ LoadFails
    /\ snap' = st'
    /\ pc' = "poll"
    /\ UNCHANGED <<chainVars, row, contracts, upto, hash, ops, stops>>

\* Mutant: the batch is not cut off at the latest ledger.
GetLatestUncapped ==
    /\ pc = "poll" /\ st.height < head
    /\ pc' = "check" /\ upto' = st.height + MaxPerCycle
    /\ UNCHANGED <<chainVars, row, contracts, st, snap, hash, ops,
                   errors, stops>>

\* Mutant: the early return compares with >= instead of >.
GetLatestLagging ==
    /\ pc = "poll"
    /\ IF st.height + 1 >= head THEN pc' = "ok" /\ upto' = upto
                                ELSE pc' = "check" /\ upto' = st.height + 1
    /\ UNCHANGED <<chainVars, row, contracts, st, snap, hash, ops,
                   errors, stops>>

\* get_latest_ledger, the early return of a caught-up indexer, and the size
\* of the batch.
GetLatest ==
    /\ pc = "poll"
    /\ IF st.height + 1 > head
         THEN pc' = "ok" /\ upto' = upto
         ELSE /\ pc' = "check"
              /\ upto' = IF head - st.height < MaxPerCycle
                           THEN head ELSE st.height + MaxPerCycle
    /\ UNCHANGED <<chainVars, row, contracts, st, snap, hash, ops,
                   errors, stops>>

\* check_for_reorg answers "no": nothing indexed, no stored hash, or the
\* ledger still has the stored hash.
NoReorgSeen ==
    /\ pc = "check"
    /\ \/ st.height = 0
       \/ st.hash = None
       \/ /\ st.height # 0 /\ st.hash # None
          /\ st.height <= head /\ chain[st.height] = st.hash
    /\ pc' = "ledger"
    /\ UNCHANGED <<chainVars, row, contracts, st, snap, upto, hash, ops,
                   errors, stops>>

\* Mutant: the recovery forgets the hash but does not move the cursor back.
ReorgSeenInPlace ==
    /\ pc = "check" /\ st.height \in 1..head /\ st.hash # None
    /\ chain[st.height] # st.hash
    /\ st' = [st EXCEPT !.hash = None] /\ pc' = "recover"
    /\ UNCHANGED <<chainVars, row, contracts, snap, upto, hash, ops,
                   errors, stops>>

\* check_for_reorg answers "yes" and recover_from_reorg rewrites the state in
\* memory, before it is saved.
ReorgSeen ==
    /\ pc = "check"
    /\ st.height # 0 /\ st.hash # None
    /\ st.height <= head /\ chain[st.height] # st.hash
    /\ st' = [st EXCEPT !.height = st.ckpt, !.hash = None]
    /\ pc' = "recover"
    /\ UNCHANGED <<chainVars, row, contracts, snap, upto, hash, ops,
                   errors, stops>>

\* get_ledger of the next ledger of the batch.
FetchLedger ==
    /\ pc = "ledger" /\ st.height < head
    /\ hash' = chain[st.height + 1]
    /\ pc' = "ops"
    /\ UNCHANGED <<chainVars, row, contracts, st, snap, upto, ops,
                   errors, stops>>

\* get_ledger_operations of the same height, by a second request.
FetchOps ==
    /\ pc = "ops" /\ st.height < head
    /\ ops' = chain[st.height + 1]
    /\ pc' = "write"
    /\ UNCHANGED <<chainVars, row, contracts, st, snap, upto, hash,
                   errors, stops>>

AfterLedger(h) == IF h < upto THEN "ledger" ELSE "persist"

\* should_update_checkpoint
Due(h) == h >= st.ckpt + CheckpointDepth

\* The schema refuses the batch, whenever it is tried.  Only a second row for the
\* same (contract_id, network) is forgiven by ON CONFLICT; a wasm_hash that is
\* not 64 hexadecimal digits (001_initial.sql:22, 20260601000000:46), a network
\* bound as text, and a slug or hash that another row has (20260329000000:19,
\* 20260727000000:2) are not.  As the migrations stand the wasm_hash alone,
\* "<contract_id>_<op_id>", puts every ledger with a deployment in this set.
Refuses == <<st.height + 1, ops>> \in Refused

\* write_contracts_batch commits: ON CONFLICT DO NOTHING makes it a union.
InsertContracts == contracts' = contracts \cup {<<st.height + 1, ops>>}

\* The batch is committed and the state in memory moves on to this ledger, and
\* to a new checkpoint when one is due.
WriteContracts ==
    LET h == st.height + 1
    IN  /\ pc = "write" /\ ~Refuses
        /\ InsertContracts
        /\ st' = [height |-> h, hash |-> hash, ckpt |-> IF Due(h) THEN h ELSE st.ckpt]
        /\ settled' = IF Due(h) /\ h > settled THEN h ELSE settled
        /\ pc' = IF Due(h) THEN "ckpt" ELSE AfterLedger(h)
        /\ UNCHANGED <<head, chain, reorgs, calm, row, snap, upto, hash, ops, errors, stops>>

\* The batch is committed but the reply is lost: the cycle fails and the state
\* in memory stays on the ledger before.
WriteUnanswered ==
    /\ pc = "write" /\ ~Refuses /\ errors < MaxErrors
    /\ InsertContracts
    /\ pc' = "error" /\ errors' = errors + 1
    /\ UNCHANGED <<chainVars, row, st, snap, upto, hash, ops, stops>>

\* The INSERT violates a constraint: the transaction is rolled back and the cycle
\* fails, as it will the next time (main.rs, "Failed to write contracts").
WriteRefused ==
    /\ pc = "write" /\ Refuses
    /\ pc' = "error"
    /\ UNCHANGED <<chainVars, row, contracts, st, snap, upto, hash, ops, errors, stops>>

\* An UPDATE of the indexer_state row took effect; its reply may be lost.
Saved(next) ==
    \/ pc' = next /\ errors' = errors
    \/ errors < MaxErrors /\ pc' = "error" /\ errors' = errors + 1

\* StateManager::update_checkpoint, in the middle of a batch: the checkpoint is
\* durable before the height that goes with it.
UpdateCheckpoint ==
    /\ pc = "ckpt"
    /\ row' = [row EXCEPT !.ckpt = st.ckpt]
    /\ Saved(AfterLedger(st.height))
    /\ UNCHANGED <<chainVars, contracts, st, snap, upto, hash, ops, stops>>

\* StateManager::update_state, at the end of a batch or of a recovery.
UpdateState ==
    /\ pc \in {"persist", "recover"}
    /\ row' = st
    /\ Saved("ok")
    /\ UNCHANGED <<chainVars, contracts, st, snap, upto, hash, ops, stops>>

\* Mutant: a failed insertion is logged but does not end the cycle.
CallFailsUnnoticed ==
    /\ pc = "write" /\ errors < MaxErrors
    /\ st' = [st EXCEPT !.height = @ + 1, !.hash = hash]
    /\ pc' = AfterLedger(st.height + 1) /\ errors' = errors + 1
    /\ UNCHANGED <<chainVars, row, contracts, snap, upto, hash, ops, stops>>

\* A call fails without effect.
CallFails ==
    /\ pc \in Calls /\ errors < MaxErrors
    /\ pc' = "error" /\ errors' = errors + 1
    /\ UNCHANGED <<chainVars, row, contracts, st, snap, upto, hash, ops,
                   stops>>

\* The endpoint has no such ledger (any more): the chain became shorter.
LedgerMissing ==
    /\ \/ pc = "check" /\ st.height # 0 /\ st.hash # None /\ st.height > head
       \/ pc \in {"ledger", "ops"} /\ st.height >= head
    /\ pc' = "error"
    /\ UNCHANGED <<chainVars, row, contracts, st, snap, upto, hash, ops,
                   errors, stops>>

\* The reply of the cycle's last call reaches the task: poll_and_index returns
\* Ok or Err, and the loop of IndexerService::run in either case publishes the
\* state for the shutdown handler and sleeps.
EndCycle ==
    /\ pc \in {"ok", "error"}
    /\ snap' = st
    /\ pc' = "sleep"
    /\ UNCHANGED <<chainVars, row, contracts, st, upto, hash, ops,
                   errors, stops>>

Wake ==
    /\ pc = "sleep"
    /\ pc' = "poll"
    /\ UNCHANGED <<chainVars, row, contracts, st, snap, upto, hash, ops,
                   errors, stops>>

\* What the process loses when it ends.
Exit ==
    /\ pc # "down" /\ stops < MaxStops
    /\ stops' = stops + 1
    /\ pc' = "down" /\ st' = DefaultState /\ snap' = DefaultState
    /\ upto' = 0 /\ hash' = 0 /\ ops' = 0
    /\ UNCHANGED <<chainVars, contracts, errors>>

\* SIGTERM or SIGINT: the select! drops the polling task wherever it stands and
\* flush_state writes the last published state.
Shutdown == Exit /\ row' = snap

\* The process dies, or the flush fails.
Crash == Exit /\ row' = row

CycleStep ==
    \/ GetLatest \/ NoReorgSeen \/ ReorgSeen \/ FetchLedger \/ FetchOps
    \/ WriteContracts \/ WriteUnanswered \/ WriteRefused \/ UpdateCheckpoint \/ UpdateState
    \/ CallFails \/ LedgerMissing \/ EndCycle \/ Wake

Next ==
    \/ CloseLedger
    \/ \E h \in Heights : Reorg(h)
    \/ Start
    \/ CycleStep
    \/ Shutdown
    \/ Crash

\* The supervisor restarts the service, the task keeps running, the chain keeps
\* growing; errors, stops and reorgs may happen or not.
Fairness == WF_vars(Start) /\ WF_vars(CycleStep) /\ WF_vars(CloseLedger)

Spec     == Init /\ [][Next]_vars
FairSpec == Spec /\ Fairness
----------------------------------------------------------------------------
(* Properties. *)

Indexed(h)    == \E f \in Forks : <<h, f>> \in contracts
AllIndexed(n) == \A h \in 1..n : Indexed(h)

\* Current(n): the deployments of ledgers 1..n, as they are on the chain now,
\* are in the database.
Current(n) == \A h \in 1..n : <<h, chain[h]>> \in contracts

\* Whatever fails, stops or is reorganised, the durable cursor and the durable
\* checkpoint (from which state.rs resumes and reorg.rs recovers) never stand
\* beyond a ledger that was never indexed.
NoLedgerSkipped == AllIndexed(row.height) /\ AllIndexed(row.ckpt)

\* The ledger after the cursor is one that the database will never take.
AtRefused == st.height < head /\ <<st.height + 1, chain[st.height + 1]>> \in Refused

\* The hash comparison of reorg.rs (check_for_reorg) misses nothing while every
\* reorg was calm: when the stored hash still matches the chain, every ledger up
\* to it is indexed as the chain has it.
HashMatchImpliesCurrent ==
    (/\ calm /\ pc \in {"sleep", "poll", "check"}
     /\ st.height \in 1..head /\ chain[st.height] = st.hash)
    => Current(st.height)

\* While every reorg was calm, every ledger that stays on the chain is indexed in
\* the end, up to the first one that the database refuses (main.rs,
\* poll_and_index; reorg.rs, recover_from_reorg).  A reorg that reaches below a
\* checkpoint, or a fork in the middle of a cycle, may lose deployments for good.
EventuallyCurrent ==
    <>[](calm => /\ head = MaxHeight /\ Current(st.height)
                 /\ st.height = MaxHeight \/ AtRefused)

\* No reorg, failure, crash or shutdown stops the service short of the head: once
\* the chain has closed its last ledger, the task reaches it, or the first ledger
\* that the database refuses, with every height before it indexed.  A cursor
\* beyond a shortened chain, a failing hash comparison or a checkpoint ahead of
\* the cursor may only delay it (main.rs, poll_and_index).  The cursor in memory
\* is meant: a failed UPDATE is made good only by the next cycle that has a
\* ledger to process, or by the flush of a shutdown.
CatchesUp ==
    <>[](/\ head = MaxHeight /\ AllIndexed(st.height)
         /\ st.height = MaxHeight \/ AtRefused)

\* Every deployment on the chain comes to the database (README.md of the indexer,
\* line 26: "New contracts appear in database within 2 minutes under normal
\* conditions").  One ledger that db.rs:228-246 cannot insert is enough to
\* break it, for this ledger and for every later one.
ContractsAppear == <>[](head = MaxHeight /\ Current(MaxHeight))

\* Falling back to the checkpoint never moves the cursor forward (reorg.rs:
\* "falling back from {} to checkpoint {}").
RecoveryFallsBack ==
    [][pc = "check" /\ pc' = "recover" => st'.height <= st.height]_vars
=============================================================================
