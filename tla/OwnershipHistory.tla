-------------------------- MODULE OwnershipHistory --------------------------
(***************************************************************************)
(* What the ownership-transfer endpoints promise, as if each of them were  *)
(* one atomic step: the transfer rows and their append-only history, and   *)
(* the owner of each contract.  It restates invariants I1, I2, I4 and I5   *)
(* of api/src/handlers.rs; OwnershipTransfer implements it with row locks. *)
(* What archival does to rows much older than this is in Archival.         *)
(***************************************************************************)
EXTENDS Sequences

CONSTANTS
    Contracts, Publishers, Transfers,
    FirstOwner   \* the owner of each contract at the start

VARIABLES
    owner,   \* contracts.publisher_id
    row,     \* row[t]: the ownership_transfers row, or NoRow
    log      \* log[t]: the actions of its ownership_transfer_logs rows

vars == <<owner, row, log>>

NoRow == [status |-> "none"]

Live(t) == row[t].status = "pending"

Init ==
    /\ owner = FirstOwner
    /\ row = [t \in Transfers |-> NoRow]
    /\ log = [t \in Transfers |-> <<>>]

\* The owner opens the only live transfer of the contract.
Open(t, c, to) ==
    /\ row[t] = NoRow /\ to # owner[c]
    /\ \A u \in Transfers : Live(u) => row[u].contract # c
    /\ row' = [row EXCEPT ![t] = [status |-> "pending", contract |-> c,
                                 from |-> owner[c], to |-> to]]
    /\ log' = [log EXCEPT ![t] = Append(@, "pending")]
    /\ UNCHANGED owner

\* Live transfers are closed, and each gets its history row.
Close(T, status) ==
    /\ \A t \in T : Live(t)
    /\ row' = [t \in Transfers |->
                  IF t \in T THEN [row[t] EXCEPT !.status = status] ELSE row[t]]
    /\ log' = [t \in Transfers |->
                  IF t \in T THEN Append(log[t], status) ELSE log[t]]

\* Acceptance: the contract passes from the sender, who still owns it, to the
\* recipient in the step that completes the transfer.
Complete(t) ==
    /\ Close({t}, "completed")
    /\ owner[row[t].contract] = row[t].from
    /\ owner' = [owner EXCEPT ![row[t].contract] = row[t].to]

Reject(t) == Close({t}, "rejected") /\ UNCHANGED owner

\* One sweep may expire several.
Expire(T) == Close(T, "expired") /\ UNCHANGED owner

\* The contract changes hands by the other endpoint.
HandOver(c, to) ==
    /\ owner' = [owner EXCEPT ![c] = to]
    /\ UNCHANGED <<row, log>>

Next ==
    \/ \E t \in Transfers : Complete(t) \/ Reject(t)
    \/ \E T \in SUBSET Transfers : Expire(T)
    \/ \E t \in Transfers, c \in Contracts, to \in Publishers : Open(t, c, to)
    \/ \E c \in Contracts, to \in Publishers : HandOver(c, to)

Spec == Init /\ [][Next]_vars
=============================================================================
