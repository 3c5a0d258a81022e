----------------------------- MODULE MCIndexer -----------------------------
(* Values for checking Indexer on small instances. *)
EXTENDS Indexer

\* A ledger that one reorg brings onto the chain and another may take off it.
OnAFork == {<<3, 1>>}

\* A ledger of the chain's first fork, which stays.
OnTheChain == {<<3, 0>>}
=============================================================================
