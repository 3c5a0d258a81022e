--------------------------- MODULE IndexerProofs ---------------------------
(***************************************************************************)
(* Proofs about the ledger indexer for every batch size, checkpoint depth, *)
(* chain length and number of reorgs, failures and stops: its variables    *)
(* keep their types, and no cursor or checkpoint, in memory, published for *)
(* the shutdown flush or in the database, stands beyond a ledger that was  *)
(* never indexed.  While the chain has only replaced ledgers above every   *)
(* checkpoint and between two polling cycles, the hash comparison of       *)
(* reorg.rs moreover misses nothing.                                       *)
(***************************************************************************)
EXTENDS Indexer, TLAPS

\* From the size of the batch to the insertion of its last ledger, the cursor
\* stands below the end of the batch, which lies within the chain's bound.
InBatch == pc \in {"check", "ledger", "ops", "write"} => st.height < upto

\* Every ledger up to the cursor and up to the checkpoint of s was indexed.
Covered(s) == AllIndexed(s.height) /\ AllIndexed(s.ckpt)

\* All three copies of the state are covered: the row is loaded by a start,
\* published by EndCycle and written back by a shutdown, so NoLedgerSkipped of
\* the row alone is not inductive.
IInv == TypeOK /\ InBatch /\ Covered(row) /\ Covered(st) /\ Covered(snap)

-----------------------------------------------------------------------------
(* Type correctness. *)

TypeInv == TypeOK /\ InBatch

\* The initial state has the declared types.
LEMMA TypeInit == Init => TypeInv
  BY IndexerAssumption
     DEF Init, TypeInv, TypeOK, InBatch, IndexerState, DefaultState, Pcs, Calls,
         Heights, Forks

\* The default state is a state of the indexer.
LEMMA DefaultType == DefaultState \in IndexerState
  BY IndexerAssumption DEF DefaultState, IndexerState

\* The fields of an indexer state are within the bounds of the chain.
LEMMA StateFields ==
    ASSUME NEW s \in IndexerState
    PROVE  s.height \in 0..MaxHeight /\ s.ckpt \in 0..MaxHeight
  BY DEF IndexerState

\* Every step of the chain, the task and its environment keeps the types, and
\* the cursor of a batch in progress below the batch's end.
LEMMA TypeNext == TypeInv /\ [Next]_vars => TypeInv'
  <1> SUFFICES ASSUME TypeInv, [Next]_vars PROVE TypeInv'
    OBVIOUS
  <1> USE DEF TypeInv, TypeOK, InBatch, Pcs, Calls, chainVars
  <1>a. MaxHeight \in Nat /\ MaxReorgs \in Nat /\ CheckpointDepth \in Nat
    BY IndexerAssumption
  <1>b. st.height \in 0..MaxHeight /\ head \in 0..MaxHeight
    BY StateFields
  <1>1. CASE CloseLedger
    BY <1>1, <1>a DEF CloseLedger, Heights, Forks
  <1>2. ASSUME NEW h \in Heights, Reorg(h) PROVE TypeInv'
    BY <1>2, <1>a DEF Reorg, Heights, Forks
  <1>3. CASE Start
    BY <1>3, DefaultType, IndexerAssumption DEF Start, LoadState, LoadFails
  <1>4. CASE GetLatest
    <2>1. upto' \in 0..MaxHeight /\ (pc' = "check" => st.height < upto')
      BY <1>4, <1>a, <1>b, IndexerAssumption DEF GetLatest
    <2>2. pc' \in {"ok", "check"}
      BY <1>4 DEF GetLatest
    <2> QED
      BY <1>4, <2>1, <2>2 DEF GetLatest
  <1>5. CASE NoReorgSeen
    BY <1>5 DEF NoReorgSeen
  <1>6. CASE ReorgSeen
    BY <1>6 DEF ReorgSeen, IndexerState
  <1>7. CASE FetchLedger
    <2>1. st.height + 1 \in Heights
      BY <1>7, <1>a, <1>b DEF FetchLedger, Heights
    <2> QED
      BY <1>7, <2>1 DEF FetchLedger
  <1>8. CASE FetchOps
    <2>1. st.height + 1 \in Heights
      BY <1>8, <1>a, <1>b DEF FetchOps, Heights
    <2> QED
      BY <1>8, <2>1 DEF FetchOps
  <1>9. CASE WriteContracts
    <2>1. st.height + 1 \in Heights /\ st.height + 1 \in 0..MaxHeight
      BY <1>9, <1>a, <1>b DEF WriteContracts, Heights
    <2>2. st' \in IndexerState /\ st'.height = st.height + 1
      BY <1>9, <2>1 DEF WriteContracts, IndexerState, Due
    <2>3. contracts' \subseteq Heights \X Forks
      BY <1>9, <2>1 DEF WriteContracts, InsertContracts
    <2>4. /\ pc' \in {"ckpt", "ledger", "persist"}
          /\ pc' = "ledger" => st'.height < upto
      BY <1>9, <2>2 DEF WriteContracts, AfterLedger, Due
    <2>5. settled' \in 0..MaxHeight
      BY <1>9, <2>1 DEF WriteContracts
    <2> QED
      BY <1>9, <2>2, <2>3, <2>4, <2>5 DEF WriteContracts
  <1>10. CASE WriteUnanswered
    <2>1. st.height + 1 \in Heights
      BY <1>10, <1>a, <1>b DEF WriteUnanswered, Heights
    <2>2. contracts' \subseteq Heights \X Forks
      BY <1>10, <2>1 DEF WriteUnanswered, InsertContracts
    <2> QED
      BY <1>10, <2>2, IndexerAssumption DEF WriteUnanswered
  <1>20. CASE WriteRefused
    BY <1>20 DEF WriteRefused
  <1>11. CASE UpdateCheckpoint
    <2>1. row' \in IndexerState
      BY <1>11 DEF UpdateCheckpoint, IndexerState
    <2>2. /\ pc' \in {"ledger", "persist", "error"}
          /\ pc' = "ledger" => st.height < upto
      BY <1>11 DEF UpdateCheckpoint, Saved, AfterLedger
    <2>3. errors' \in 0..MaxErrors
      BY <1>11, IndexerAssumption DEF UpdateCheckpoint, Saved
    <2> QED
      BY <1>11, <2>1, <2>2, <2>3 DEF UpdateCheckpoint
  <1>12. CASE UpdateState
    BY <1>12, IndexerAssumption DEF UpdateState, Saved
  <1>13. CASE CallFails
    BY <1>13, IndexerAssumption DEF CallFails
  <1>14. CASE LedgerMissing
    BY <1>14 DEF LedgerMissing
  <1>15. CASE EndCycle
    BY <1>15 DEF EndCycle
  <1>16. CASE Wake
    BY <1>16 DEF Wake
  <1>17. CASE Shutdown
    BY <1>17, <1>a, DefaultType, IndexerAssumption DEF Shutdown, Exit, Forks
  <1>18. CASE Crash
    BY <1>18, <1>a, DefaultType, IndexerAssumption DEF Crash, Exit, Forks
  <1>19. CASE UNCHANGED vars
    BY <1>19 DEF vars
  <1> QED
    BY <1>1, <1>2, <1>3, <1>4, <1>5, <1>6, <1>7, <1>8, <1>9, <1>10, <1>11, <1>12,
       <1>13, <1>14, <1>15, <1>16, <1>17, <1>18, <1>19, <1>20 DEF Next, CycleStep

\* The variables of the indexer keep their types, for every value of the
\* bounds: in particular a batch never runs past the chain (poll_and_index).
THEOREM TypeCorrect == Spec => []TypeOK
  <1>1. TypeInv => TypeOK
    BY DEF TypeInv
  <1> QED
    BY <1>1, TypeInit, TypeNext, PTL DEF Spec
-----------------------------------------------------------------------------
(* No ledger is skipped. *)

\* No step removes an indexed ledger from the database.
LEMMA ContractsGrow == TypeInv /\ [Next]_vars => contracts \subseteq contracts'
  BY DEF Next, CloseLedger, Reorg, Start, CycleStep, GetLatest, NoReorgSeen, ReorgSeen,
         FetchLedger, FetchOps, InsertContracts, WriteContracts, WriteUnanswered,
         WriteRefused, UpdateCheckpoint, UpdateState, CallFails, LedgerMissing, EndCycle, Wake, Shutdown, Crash, Exit,
         vars

\* So a height that all ledgers are indexed up to keeps that property.
LEMMA IndexedGrows ==
    ASSUME contracts \subseteq contracts', NEW n, AllIndexed(n)
    PROVE  AllIndexed(n)'
  BY DEF AllIndexed, Indexed

\* Indexing the ledger after height n extends the indexed prefix to it.
LEMMA NextIndexed ==
    ASSUME contracts \subseteq contracts', NEW n \in Nat, AllIndexed(n),
           NEW f \in Forks, <<n + 1, f>> \in contracts'
    PROVE  AllIndexed(n + 1)'
  <1>1. SUFFICES ASSUME NEW h \in 1..(n + 1)
                 PROVE  \E g \in Forks : <<h, g>> \in contracts'
    BY DEF AllIndexed, Indexed
  <1>2. CASE h = n + 1
    BY <1>2
  <1>3. CASE h # n + 1
    <2>1. h \in 1..n
      BY <1>3
    <2> QED
      BY <2>1 DEF AllIndexed, Indexed
  <1> QED
    BY <1>2, <1>3

\* Initially nothing is indexed and every cursor stands at zero.
LEMMA IndInit == Init => IInv
  <1> SUFFICES ASSUME Init PROVE IInv
    OBVIOUS
  <1>1. Covered(DefaultState)
    BY DEF Covered, AllIndexed, DefaultState
  <1> QED
    BY <1>1, TypeInit DEF Init, IInv, TypeInv

\* The strengthened invariant is inductive.
LEMMA IndNext == IInv /\ [Next]_vars => IInv'
  <1> SUFFICES ASSUME IInv, [Next]_vars PROVE IInv'
    OBVIOUS
  <1>1. TypeInv /\ TypeInv'
    BY TypeNext DEF IInv, TypeInv
  <1>2. contracts \subseteq contracts'
    BY <1>1, ContractsGrow
  <1>3. ASSUME NEW s, Covered(s) PROVE AllIndexed(s.height)' /\ AllIndexed(s.ckpt)'
    BY <1>2, <1>3, IndexedGrows DEF Covered
  <1>4. AllIndexed(0)'
    BY DEF AllIndexed
  <1>5. CASE UNCHANGED <<row, st, snap>>
    BY <1>1, <1>3, <1>5 DEF IInv, TypeInv, Covered
  <1>6. CASE Start
    <2>1. st' \in {row, DefaultState} /\ snap' = st' /\ row' = row
      BY <1>6 DEF Start, LoadState, LoadFails
    <2> QED
      BY <1>1, <1>3, <1>4, <2>1 DEF IInv, TypeInv, Covered, DefaultState
  <1>7. CASE ReorgSeen
    <2>1. st'.height = st.ckpt /\ st'.ckpt = st.ckpt /\ UNCHANGED <<row, snap>>
      BY <1>1, <1>7 DEF ReorgSeen, TypeInv, TypeOK, IndexerState
    <2> QED
      BY <1>1, <1>3, <2>1 DEF IInv, TypeInv, Covered
  <1>8. CASE WriteContracts
    <2>1. /\ st.height \in Nat /\ ops \in Forks
          /\ <<st.height + 1, ops>> \in contracts'
      BY <1>1, <1>8, StateFields DEF WriteContracts, InsertContracts, TypeInv, TypeOK
    <2>2. /\ st'.height = st.height + 1
          /\ st'.ckpt \in {st.ckpt, st'.height}
          /\ UNCHANGED <<row, snap>>
      BY <1>8 DEF WriteContracts, Due
    <2>3. AllIndexed(st.height)'
      BY <1>2, <2>1, <2>2, NextIndexed DEF IInv, Covered
    <2>4. AllIndexed(st.ckpt)'
      BY <1>3, <2>2, <2>3 DEF IInv
    <2> QED
      BY <1>1, <1>3, <2>2, <2>3, <2>4 DEF IInv, TypeInv, Covered
  <1>9. CASE UpdateCheckpoint
    <2>1. row'.height = row.height /\ row'.ckpt = st.ckpt /\ UNCHANGED <<st, snap>>
      BY <1>1, <1>9 DEF UpdateCheckpoint, TypeInv, TypeOK, IndexerState
    <2> QED
      BY <1>1, <1>3, <2>1 DEF IInv, TypeInv, Covered
  <1>10. CASE UpdateState
    <2>1. row' = st /\ UNCHANGED <<st, snap>>
      BY <1>10 DEF UpdateState
    <2> QED
      BY <1>1, <1>3, <2>1 DEF IInv, TypeInv, Covered
  <1>11. CASE EndCycle
    <2>1. snap' = st /\ UNCHANGED <<st, row>>
      BY <1>11 DEF EndCycle
    <2> QED
      BY <1>1, <1>3, <2>1 DEF IInv, TypeInv, Covered
  <1>12. CASE Shutdown \/ Crash
    <2>1. /\ row' \in {row, snap}
          /\ st' = DefaultState /\ snap' = DefaultState
      BY <1>12 DEF Shutdown, Crash, Exit
    <2> QED
      BY <1>1, <1>3, <1>4, <2>1 DEF IInv, TypeInv, Covered, DefaultState
  <1> QED
    BY <1>5, <1>6, <1>7, <1>8, <1>9, <1>10, <1>11, <1>12
       DEF Next, CloseLedger, Reorg, CycleStep, GetLatest, NoReorgSeen, FetchLedger,
           FetchOps, WriteUnanswered, WriteRefused, CallFails, LedgerMissing, Wake, vars

\* The durable cursor and checkpoint never stand beyond a ledger that was never
\* indexed, whatever fails, stops or is reorganised (state.rs, reorg.rs).
THEOREM NothingSkipped == Spec => []NoLedgerSkipped
  <1>1. IInv => NoLedgerSkipped
    BY DEF IInv, Covered, NoLedgerSkipped
  <1> QED
    BY <1>1, IndInit, IndNext, PTL DEF Spec
-----------------------------------------------------------------------------
(* The hash comparison. *)

\* A stored hash is that of a fork the chain has had, and of an earlier one when
\* the chain has become too short for it: no ledger closed later can have it.
HashKnown(s) ==
    s.hash # None => s.hash <= reorgs /\ (s.height > head => s.hash < reorgs)

\* HashMatchImpliesCurrent of a copy s of the state, in every control state.
HashTells(s) ==
    s.height \in 1..head /\ chain[s.height] = s.hash => Current(s.height)

\* What lets the indexer go on without a comparison: a state without a hash
\* stands on a ledger that was a checkpoint, or below one.
Anchored(s) == s.ckpt <= settled /\ (s.hash = None => s.height <= settled)

Sound(s) == HashKnown(s) /\ HashTells(s) /\ Anchored(s)

\* The ledgers up to the highest checkpoint ever taken are there to stay.
ChainInv == (\A k \in Heights : chain[k] <= reorgs) /\ settled <= head /\ Current(settled)

\* From the comparison to the end of its batch, the task extends a prefix that
\* is indexed as the chain has it, by the ledger the chain has next.
BatchInv ==
    /\ pc \in {"ledger", "ops", "write", "ckpt"} => st.height <= head /\ Current(st.height)
    /\ pc \in {"ops", "write"} => st.height < head /\ hash = chain[st.height + 1]
    /\ pc = "write" => ops = chain[st.height + 1]

\* As with Covered: what is claimed of the state in memory is claimed of every
\* copy it can be restored from.
HashInv == TypeInv /\ ChainInv /\ Sound(row) /\ Sound(st) /\ Sound(snap) /\ BatchInv

\* No ledger up to n is replaced by a step that leaves these ledgers alone.
LEMMA CurrentKept ==
    ASSUME contracts \subseteq contracts', NEW n, Current(n),
           \A k \in 1..n : chain'[k] = chain[k]
    PROVE  Current(n)'
  BY DEF Current

\* Inserting what the chain has after a current prefix extends the prefix.
LEMMA CurrentExtended ==
    ASSUME contracts \subseteq contracts', chain' = chain, NEW n \in Nat, Current(n),
           <<n + 1, chain[n + 1]>> \in contracts'
    PROVE  Current(n + 1)'
  <1>1. SUFFICES ASSUME NEW h \in 1..(n + 1) PROVE <<h, chain[h]>> \in contracts'
    BY DEF Current
  <1>2. h = n + 1 \/ h \in 1..n
    OBVIOUS
  <1> QED
    BY <1>2 DEF Current

\* A prefix of a current prefix is current.
LEMMA CurrentBelow ==
    ASSUME NEW n \in Nat, NEW m \in Nat, m <= n, Current(n)
    PROVE  Current(m)
  BY DEF Current

\* A step of the task leaves the chain alone, so what is claimed of a copy that
\* it does not touch stays true: settled only grows.
LEMMA SoundKept ==
    ASSUME contracts \subseteq contracts', UNCHANGED <<head, chain, reorgs>>,
           settled \in Nat, settled' \in Nat, settled <= settled',
           NEW s \in IndexerState, Sound(s)
    PROVE  Sound(s)'
  <1>1. HashKnown(s)'
    BY DEF Sound, HashKnown
  <1>2. HashTells(s)'
    BY CurrentKept DEF Sound, HashTells
  <1>3. Anchored(s)'
    BY StateFields DEF Sound, Anchored
  <1> QED
    BY <1>1, <1>2, <1>3 DEF Sound

\* A state that is claimed sound where it was is sound where it is copied to.
LEMMA SoundCopied ==
    ASSUME NEW s, Sound(s)'
    PROVE  /\ row' = s => Sound(row)'
           /\ st' = s => Sound(st)'
           /\ snap' = s => Sound(snap)'
  BY DEF Sound, HashKnown, HashTells, Anchored, Current

\* The default state claims nothing.
LEMMA DefaultSound ==
    ASSUME settled' \in Nat
    PROVE  Sound(DefaultState)'
  BY IndexerAssumption
     DEF Sound, HashKnown, HashTells, Anchored, DefaultState, IndexerAssumption

\* Initially there is no ledger, hence no claim about one.
LEMMA HashInit == Init => HashInv
  <1> SUFFICES ASSUME Init PROVE HashInv
    OBVIOUS
  <1>1. ChainInv /\ BatchInv
    BY DEF Init, ChainInv, BatchInv, Current
  <1>2. Sound(DefaultState)
    BY IndexerAssumption DEF Init, Sound, HashKnown, HashTells, Anchored, DefaultState
  <1> QED
    BY <1>1, <1>2, TypeInit DEF Init, HashInv

\* A new ledger belongs to the youngest fork, which no stored hash beyond the
\* old head belongs to.
LEMMA HashClose == HashInv /\ CloseLedger => HashInv'
  <1> SUFFICES ASSUME HashInv, CloseLedger PROVE HashInv'
    OBVIOUS
  <1>1. TypeInv /\ TypeInv'
    BY TypeNext DEF HashInv, Next
  <1>2. /\ MaxHeight \in Nat /\ head \in Nat /\ reorgs \in Nat /\ settled \in Nat
        /\ head + 1 \in Heights /\ MaxReorgs \in Nat
        /\ chain \in [Heights -> Forks]
    BY <1>1, IndexerAssumption DEF CloseLedger, Heights, Forks, TypeInv, TypeOK
  <1>3. /\ head' = head + 1 /\ reorgs' = reorgs /\ settled' = settled
        /\ chain' = [chain EXCEPT ![head + 1] = reorgs]
        /\ contracts' = contracts
        /\ UNCHANGED <<row, pc, st, snap, upto, hash, ops>>
    BY DEF CloseLedger
  <1>4. /\ chain'[head + 1] = reorgs
        /\ \A k \in 1..head : chain'[k] = chain[k]
        /\ \A k \in Heights : chain'[k] <= reorgs
    BY <1>2, <1>3 DEF HashInv, ChainInv, Heights, Forks
  <1>5. ASSUME NEW n \in Nat, n <= head, Current(n) PROVE Current(n)'
    <2>1. \A k \in 1..n : chain'[k] = chain[k]
      BY <1>2, <1>4, <1>5
    <2> QED
      BY <2>1, <1>3, <1>5, CurrentKept
  <1>6. ChainInv'
    BY <1>2, <1>3, <1>4, <1>5 DEF HashInv, ChainInv
  <1>7. ASSUME NEW s \in IndexerState, Sound(s) PROVE Sound(s)'
    <2>1. s.height \in Nat /\ s.hash \in Nat \cup {None}
      BY <1>2 DEF IndexerState, Forks
    <2>2. HashKnown(s)'
      BY <1>2, <1>3, <1>7, <2>1 DEF Sound, HashKnown
    <2>3. ASSUME s.height \in 1..head', chain'[s.height] = s.hash PROVE Current(s.height)'
      <3>1. s.hash # None
        BY <2>3, <1>2, <1>3, <1>4, IndexerAssumption DEF Heights, Forks
      <3>2. s.height # head + 1
        BY <1>2, <1>3, <1>4, <1>7, <2>1, <2>3, <3>1 DEF Sound, HashKnown
      <3>3. s.height \in 1..head /\ chain[s.height] = s.hash
        BY <1>2, <1>3, <1>4, <2>1, <2>3, <3>2
      <3> QED
        BY <3>3, <2>1, <1>2, <1>5, <1>7 DEF Sound, HashTells
    <2>4. Anchored(s)'
      BY <1>3, <1>7 DEF Sound, Anchored
    <2> QED
      BY <2>2, <2>3, <2>4 DEF Sound, HashTells
  <1>8. row \in IndexerState /\ st \in IndexerState /\ snap \in IndexerState
    BY <1>1 DEF TypeInv, TypeOK
  <1>9. Sound(row)' /\ Sound(st)' /\ Sound(snap)'
    BY <1>3, <1>7, <1>8, SoundCopied DEF HashInv
  <1>10. BatchInv'
    <2>1. st.height \in Nat /\ st.height + 1 \in Nat
      BY <1>8, <1>2, StateFields
    <2>2. st.height < head => chain'[st.height + 1] = chain[st.height + 1]
      BY <1>2, <1>4, <2>1
    <2> QED
      BY <1>2, <1>3, <1>5, <2>1, <2>2 DEF HashInv, BatchInv
  <1> QED
    BY <1>1, <1>6, <1>9, <1>10 DEF HashInv

\* A calm reorg, above every checkpoint and while no cycle runs, gives each
\* replaced ledger a hash that no copy of the state holds.
LEMMA HashReorg ==
    ASSUME HashInv, NEW h \in Heights, Reorg(h), calm'
    PROVE  HashInv'
  <1>1. TypeInv /\ TypeInv'
    BY TypeNext DEF HashInv, Next
  <1>2. /\ MaxHeight \in Nat /\ MaxReorgs \in Nat /\ h \in Nat /\ h > 0
        /\ head \in Nat /\ reorgs \in Nat /\ settled \in Nat
        /\ head \in 0..MaxHeight /\ head' \in 0..MaxHeight
    BY <1>1, IndexerAssumption DEF Heights, Forks, TypeInv, TypeOK
  <1>3. /\ h <= head /\ h > settled /\ pc \in Idle
        /\ reorgs' = reorgs + 1 /\ head' \in h..head
        /\ settled' = settled /\ contracts' = contracts
        /\ chain' = [k \in Heights |->
              IF k < h THEN chain[k] ELSE IF k <= head' THEN reorgs + 1 ELSE 0]
        /\ UNCHANGED <<row, pc, st, snap, upto, hash, ops>>
    BY DEF Reorg
  <1>4. ASSUME NEW k \in 1..head
        PROVE  /\ k < h => chain'[k] = chain[k]
               /\ k >= h /\ k <= head' => chain'[k] = reorgs + 1
    BY <1>2, <1>3 DEF Heights
  <1>5. ASSUME NEW n \in Nat, n < h, Current(n) PROVE Current(n)'
    <2>1. \A k \in 1..n : chain'[k] = chain[k]
      BY <1>2, <1>3, <1>4, <1>5
    <2> QED
      BY <2>1, <1>3, <1>5, CurrentKept
  <1>6. ChainInv'
    <2>1. ASSUME NEW k \in Heights PROVE chain'[k] <= reorgs'
      <3>1. chain[k] \in Nat /\ chain[k] <= reorgs
        BY <1>1, <1>2 DEF HashInv, ChainInv, TypeInv, TypeOK, Forks
      <3> QED
        BY <3>1, <1>2, <1>3
    <2>2. settled' <= head'
      BY <1>2, <1>3
    <2> QED
      BY <1>2, <1>3, <1>5, <2>1, <2>2 DEF HashInv, ChainInv
  <1>7. ASSUME NEW s \in IndexerState, Sound(s) PROVE Sound(s)'
    <2>1. s.height \in Nat /\ s.hash \in Nat \cup {None}
      BY <1>2 DEF IndexerState, Forks
    <2>2. HashKnown(s)'
      BY <1>2, <1>3, <1>7, <2>1 DEF Sound, HashKnown
    <2>3. ASSUME s.height \in 1..head', chain'[s.height] = s.hash PROVE Current(s.height)'
      <3>1. s.height \in 1..head
        BY <1>2, <1>3, <2>1, <2>3
      <3>2. s.height < h
        <4> SUFFICES ASSUME s.height >= h PROVE FALSE
          BY <1>2, <2>1
        <4>1. s.hash = reorgs + 1
          BY <1>2, <1>3, <1>4, <2>1, <2>3, <3>1
        <4>2. s.hash # None
          BY <4>1, <1>2, IndexerAssumption
        <4> QED
          BY <4>1, <4>2, <1>2, <1>7 DEF Sound, HashKnown
      <3>3. chain[s.height] = s.hash
        BY <1>4, <2>3, <3>1, <3>2
      <3> QED
        BY <3>1, <3>2, <3>3, <2>1, <1>5, <1>7 DEF Sound, HashTells
    <2>4. Anchored(s)'
      BY <1>3, <1>7 DEF Sound, Anchored
    <2> QED
      BY <2>2, <2>3, <2>4 DEF Sound, HashTells
  <1>8. row \in IndexerState /\ st \in IndexerState /\ snap \in IndexerState
    BY <1>1 DEF TypeInv, TypeOK
  <1>9. Sound(row)' /\ Sound(st)' /\ Sound(snap)'
    BY <1>3, <1>7, <1>8, SoundCopied DEF HashInv
  <1>10. BatchInv'
    BY <1>3 DEF BatchInv, Idle
  <1> QED
    BY <1>1, <1>6, <1>9, <1>10 DEF HashInv

\* The steps that leave the chain and its checkpoints alone.
TaskStep ==
    \/ Start \/ GetLatest \/ NoReorgSeen \/ ReorgSeen \/ FetchLedger \/ FetchOps
    \/ WriteUnanswered \/ WriteRefused \/ UpdateCheckpoint \/ UpdateState \/ CallFails
    \/ LedgerMissing \/ EndCycle \/ Wake \/ Shutdown \/ Crash

LEMMA TaskStepAlone == TaskStep => UNCHANGED chainVars
  BY DEF TaskStep, Start, GetLatest, NoReorgSeen, ReorgSeen, FetchLedger, FetchOps,
         WriteUnanswered, WriteRefused, UpdateCheckpoint, UpdateState, CallFails,
         LedgerMissing, EndCycle, Wake, Shutdown, Crash, Exit

\* A step of the task that is not an insertion moves sound copies around, takes
\* what the chain has next, or falls back to a checkpoint.
LEMMA HashTask == HashInv /\ TaskStep => HashInv'
  <1> SUFFICES ASSUME HashInv, TaskStep PROVE HashInv'
    OBVIOUS
  <1>1. TypeInv /\ TypeInv' /\ contracts \subseteq contracts'
    BY TypeNext, ContractsGrow DEF HashInv, Next, CycleStep, TaskStep
  <1>2. UNCHANGED chainVars
    BY TaskStepAlone
  <1>3. /\ row \in IndexerState /\ st \in IndexerState /\ snap \in IndexerState
        /\ settled \in Nat /\ head \in Nat /\ MaxHeight \in Nat
        /\ chain \in [Heights -> Forks]
    BY <1>1, IndexerAssumption DEF TypeInv, TypeOK
  <1>4. st.height \in Nat /\ st.ckpt \in Nat
    BY <1>3, StateFields
  <1>5. ASSUME NEW n, Current(n) PROVE Current(n)'
    BY <1>1, <1>2, <1>5, CurrentKept DEF chainVars
  <1>6. ChainInv'
    BY <1>2, <1>5 DEF HashInv, ChainInv, chainVars
  <1>7. ASSUME NEW s \in IndexerState, Sound(s) PROVE Sound(s)'
    BY <1>1, <1>2, <1>3, <1>7, SoundKept DEF chainVars
  <1>8. Sound(DefaultState)'
    BY <1>1, DefaultSound DEF TypeInv, TypeOK
  <1>9. Sound(row)' /\ Sound(st)' /\ Sound(snap)'
    <2>1. PICK r, t, p : r = row /\ t = st /\ p = snap
      OBVIOUS
    <2>2. Sound(r)' /\ Sound(t)' /\ Sound(p)'
      BY <1>3, <1>7, <2>1 DEF HashInv
    <2>3. CASE UNCHANGED <<row, st, snap>>
      BY <2>1, <2>2, <2>3, SoundCopied
    <2>4. CASE Start
      <3>1. st' \in {row, DefaultState} /\ snap' = st' /\ row' = row
        BY <2>4 DEF Start, LoadState, LoadFails
      <3> QED
        BY <1>8, <2>1, <2>2, <3>1, SoundCopied
    <2>5. CASE ReorgSeen
      <3>1. PICK q : q = [t EXCEPT !.height = t.ckpt, !.hash = None]
        OBVIOUS
      <3>2. q.height = t.ckpt /\ q.hash = None /\ q.ckpt = t.ckpt
        BY <1>3, <2>1, <3>1 DEF IndexerState
      <3>3. \A k \in Heights : chain'[k] # None
        BY <1>1, IndexerAssumption DEF TypeInv, TypeOK, Forks
      <3>4. Sound(q)'
        <4>1. HashTells(q)'
          BY <1>1, <3>2, <3>3, <1>3 DEF HashTells, TypeInv, TypeOK, Heights
        <4> QED
          BY <2>2, <3>2, <4>1 DEF Sound, HashKnown, Anchored
      <3>5. st' = q /\ row' = row /\ snap' = snap
        BY <2>1, <2>5, <3>1 DEF ReorgSeen
      <3> QED
        BY <2>1, <2>2, <3>4, <3>5, SoundCopied
    <2>6. CASE UpdateCheckpoint
      <3>1. PICK q : q = [r EXCEPT !.ckpt = t.ckpt]
        OBVIOUS
      <3>2. q.height = r.height /\ q.hash = r.hash /\ q.ckpt = t.ckpt
        BY <1>3, <2>1, <3>1 DEF IndexerState
      <3>3. Sound(q)'
        BY <2>2, <3>2 DEF Sound, HashKnown, HashTells, Anchored, Current
      <3>4. row' = q /\ st' = st /\ snap' = snap
        BY <2>1, <2>6, <3>1 DEF UpdateCheckpoint
      <3> QED
        BY <2>1, <2>2, <3>3, <3>4, SoundCopied
    <2>7. CASE UpdateState \/ EndCycle
      <3>1. row' \in {row, st} /\ snap' \in {snap, st} /\ st' = st
        BY <2>7 DEF UpdateState, EndCycle
      <3> QED
        BY <2>1, <2>2, <3>1, SoundCopied
    <2>8. CASE Shutdown \/ Crash
      <3>1. row' \in {row, snap} /\ st' = DefaultState /\ snap' = DefaultState
        BY <2>8 DEF Shutdown, Crash, Exit
      <3> QED
        BY <1>8, <2>1, <2>2, <3>1, SoundCopied
    <2> QED
      BY <2>3, <2>4, <2>5, <2>6, <2>7, <2>8
         DEF TaskStep, GetLatest, NoReorgSeen, FetchLedger, FetchOps, WriteUnanswered,
             WriteRefused, CallFails, LedgerMissing, Wake
  <1>10. BatchInv'
    <2>1. CASE NoReorgSeen
      <3>1. st.height <= head /\ Current(st.height)
        <4>1. CASE st.height = 0
          BY <4>1, <1>3 DEF Current
        <4>2. CASE st.height # 0 /\ st.hash = None
          BY <4>2, <1>3, <1>4, CurrentBelow DEF HashInv, ChainInv, Sound, Anchored
        <4>3. CASE st.height # 0 /\ st.hash # None
          BY <4>3, <2>1, <1>3, <1>4 DEF NoReorgSeen, HashInv, Sound, HashTells
        <4> QED
          BY <4>1, <4>2, <4>3
      <3>2. pc' = "ledger" /\ st' = st /\ head' = head
        BY <2>1 DEF NoReorgSeen, chainVars
      <3> QED
        BY <1>5, <3>1, <3>2 DEF BatchInv
    <2>2. CASE FetchLedger
      BY <1>2, <1>5, <2>2 DEF FetchLedger, HashInv, BatchInv, chainVars
    <2>3. CASE FetchOps
      BY <1>2, <1>5, <2>3 DEF FetchOps, HashInv, BatchInv, chainVars
    <2>4. CASE UpdateCheckpoint
      <3>1. /\ pc = "ckpt" /\ pc' \in {"ledger", "persist", "error"}
            /\ st' = st /\ head' = head
        BY <2>4 DEF UpdateCheckpoint, Saved, AfterLedger, chainVars
      <3> QED
        BY <1>5, <3>1 DEF HashInv, BatchInv
    <2>5. CASE pc' \notin {"ledger", "ops", "write", "ckpt"}
      BY <2>5 DEF BatchInv
    <2> QED
      BY <2>1, <2>2, <2>3, <2>4, <2>5
         DEF TaskStep, Start, GetLatest, ReorgSeen, WriteUnanswered, WriteRefused,
             UpdateState, Saved, CallFails, LedgerMissing, EndCycle, Wake, Shutdown, Crash,
             Exit
  <1> QED
    BY <1>1, <1>6, <1>9, <1>10 DEF HashInv

\* The insertion of the ledger that the chain has next moves the cursor onto it,
\* and perhaps the checkpoint.
LEMMA HashWrite == HashInv /\ WriteContracts => HashInv'
  <1> SUFFICES ASSUME HashInv, WriteContracts PROVE HashInv'
    OBVIOUS
  <1>0. PICK n, h : n = st.height /\ h = st.height + 1
    OBVIOUS
  <1>1. TypeInv /\ TypeInv' /\ contracts \subseteq contracts'
    BY TypeNext, ContractsGrow DEF HashInv, Next, CycleStep
  <1>2. /\ row \in IndexerState /\ st \in IndexerState /\ snap \in IndexerState
        /\ settled \in Nat /\ settled' \in Nat /\ head \in Nat /\ MaxHeight \in Nat
        /\ reorgs \in Nat /\ chain \in [Heights -> Forks] /\ st.height \in Nat
        /\ head <= MaxHeight /\ CheckpointDepth \in Nat /\ MaxReorgs \in Nat
        /\ st.ckpt \in Nat
    BY <1>1, StateFields, IndexerAssumption DEF TypeInv, TypeOK, Forks
  <1>3. /\ UNCHANGED <<head, chain, reorgs>>
        /\ settled' = IF Due(h) /\ h > settled THEN h ELSE settled
        /\ st' = [height |-> h, hash |-> hash, ckpt |-> IF Due(h) THEN h ELSE st.ckpt]
        /\ <<h, ops>> \in contracts'
        /\ row' = row /\ snap' = snap
        /\ pc' \in {"ckpt", "ledger", "persist"}
    BY <1>0 DEF WriteContracts, InsertContracts, AfterLedger
  <1>4. /\ h \in Nat /\ h <= head /\ h \in Heights
        /\ hash = chain[h] /\ ops = chain[h] /\ Current(st.height)
    BY <1>0, <1>2 DEF HashInv, BatchInv, WriteContracts, Heights
  <1>5. Current(h)'
    BY <1>0, <1>1, <1>2, <1>3, <1>4, CurrentExtended
  <1>6. Current(settled)'
    <2>1. Due(h) /\ h > settled => settled' = h
      BY <1>3
    <2>2. ~(Due(h) /\ h > settled) => settled' = settled
      BY <1>3
    <2>3. ASSUME settled' = settled PROVE Current(settled)'
      BY <1>1, <1>3, <2>3 DEF HashInv, ChainInv, Current
    <2>4. ASSUME settled' = h PROVE Current(settled)'
      BY <1>5, <1>3, <2>4 DEF Current
    <2> QED
      BY <2>1, <2>2, <2>3, <2>4
  <1>7. ChainInv'
    BY <1>2, <1>3, <1>4, <1>6 DEF HashInv, ChainInv
  <1>8. settled <= settled'
    BY <1>2, <1>3, <1>4
  <1>9. ASSUME NEW s \in IndexerState, Sound(s) PROVE Sound(s)'
    BY <1>1, <1>2, <1>3, <1>8, <1>9, SoundKept
  <1>10. Sound(row)' /\ Sound(snap)'
    <2>1. PICK r, p : r = row /\ p = snap
      OBVIOUS
    <2> QED
      BY <1>2, <1>3, <1>9, <2>1, SoundCopied DEF HashInv
  <1>11. Sound(st)'
    <2>1. st'.height = h /\ st'.hash = hash
      BY <1>3
    <2>2. HashKnown(st)'
      BY <1>2, <1>3, <1>4, <2>1 DEF HashKnown, HashInv, ChainInv, Forks
    <2>3. HashTells(st)'
      BY <1>5, <1>3, <2>1 DEF HashTells, Current
    <2>4. st'.ckpt <= settled'
      <3>1. st.ckpt <= settled
        BY DEF HashInv, Sound, Anchored
      <3>2. st'.ckpt = IF Due(h) THEN h ELSE st.ckpt
        BY <1>3
      <3> QED
        BY <1>2, <1>3, <1>4, <3>1, <3>2
    <2>5. hash # None
      BY <1>2, <1>4, IndexerAssumption DEF Forks
    <2> QED
      BY <2>1, <2>2, <2>3, <2>4, <2>5 DEF Sound, Anchored
  <1>12. BatchInv'
    BY <1>3, <1>4, <1>5 DEF BatchInv, Current
  <1> QED
    BY <1>1, <1>7, <1>10, <1>11, <1>12 DEF HashInv

\* A reorg that is not calm ends what can be claimed, and nothing restores it.
CalmInv == TypeInv /\ (calm => HashInv)

LEMMA CalmKept == TypeInv /\ [Next]_vars /\ calm' => calm
  BY TaskStepAlone
     DEF Next, CycleStep, TaskStep, CloseLedger, Reorg, WriteContracts, vars, chainVars,
         TypeInv, TypeOK

LEMMA CalmInit == Init => CalmInv
  BY TypeInit, HashInit DEF CalmInv

LEMMA CalmNext == CalmInv /\ [Next]_vars => CalmInv'
  <1> SUFFICES ASSUME CalmInv, [Next]_vars PROVE CalmInv'
    OBVIOUS
  <1>1. TypeInv'
    BY TypeNext DEF CalmInv
  <1>2. ASSUME calm' PROVE HashInv'
    <2>1. HashInv
      BY <1>2, CalmKept DEF CalmInv
    <2>2. CASE UNCHANGED vars
      BY <2>1, <2>2, TypeNext
         DEF vars, HashInv, ChainInv, BatchInv, Sound, HashKnown, HashTells, Anchored,
             Current, chainVars
    <2> QED
      BY <1>2, <2>1, <2>2, HashClose, HashReorg, HashTask, HashWrite
         DEF Next, CycleStep, TaskStep
  <1> QED
    BY <1>1, <1>2 DEF CalmInv

\* While every reorg was calm, a matching hash proves that every ledger up to the
\* cursor is indexed as the chain has it (reorg.rs, check_for_reorg), whatever
\* fails or stops and whatever the database refuses.
THEOREM HashComparisonSuffices == Spec => []HashMatchImpliesCurrent
  <1>1. CalmInv => HashMatchImpliesCurrent
    BY DEF CalmInv, HashInv, Sound, HashTells, HashMatchImpliesCurrent
  <1> QED
    BY <1>1, CalmInit, CalmNext, PTL DEF Spec
=============================================================================
