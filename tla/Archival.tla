------------------------------ MODULE Archival ------------------------------
(***************************************************************************)
(* The archival job (api/src/archival.rs) at work on ownership_transfers   *)
(* (handlers.rs, create_ownership_transfer): transfers that came to        *)
(* nothing are copied to archival_audit_trail and deleted once they are    *)
(* older than the policy's retention, which an operator may change at any  *)
(* time.  The scheduled sweep and POST /run may overlap.  A deleted row    *)
(* takes its ownership_transfer_logs rows with it (ON DELETE CASCADE) and  *)
(* frees its request nonce, so that only the age of a signature keeps it   *)
(* from opening a second transfer.                                         *)
(***************************************************************************)
EXTENDS WallClock, Integers, FiniteSets

CONSTANTS
    Signatures,     \* initiations that were signed, one nonce each
    SignedAt,       \* signed_at_unix
    Freshness,      \* freshness_window_secs
    Initiations,    \* handlers of create_ownership_transfer
    MaxDelay,       \* bound of the time such a handler takes
    MaxTransfers,   \* bound of the transfers ever opened
    Jobs,           \* the sweep and requests to run one
    Retentions,     \* values retention_days may be given
    SeededDays,     \* its value in the migration
    BatchRows       \* ARCHIVAL_BATCH_SIZE

ASSUME ArchivalAssumption ==
    /\ {Freshness, MaxDelay, MaxTransfers} \subseteq Nat /\ BatchRows \in Nat \ {0}
    /\ SignedAt \in [Signatures -> Nat]
    /\ Retentions \subseteq Int   \* an INT without a CHECK
    /\ SeededDays \in Retentions

VARIABLES
    transfers,    \* transfers[t]: transfer t as it is, or was when it was deleted;
                  \* one that is "finished" was rejected or has expired
    present,      \* those whose rows, and history, are in the database
    auditTrail,   \* those with a committed copy in archival_audit_trail
    initiation,   \* what every handler is at
    job,          \* what every archival job is at
    retention,    \* archival_policies.retention_days
    shortest      \* history: the least value it has had

archiveVars == <<transfers, present, auditTrail, initiation, job, retention, shortest>>

TransferIds == 1..MaxTransfers
Unopened == [state |-> "none"]
TransferRows == [state : {"pending", "completed", "finished"},
                 nonce : Signatures, created : Times]

Resting == [at |-> "idle"]
JobRecords == [at : {"policy"}, keep : Retentions] \cup [at : {"running"}, cutoff : Nat]
              \cup [at : {"copied"}, cutoff : Nat, copied : SUBSET TransferIds]

NoInitiation == [at |-> "idle"]

ArchiveTypeOK ==
    /\ transfers \in [TransferIds -> TransferRows \cup {Unopened}]
    /\ present \subseteq TransferIds
    /\ auditTrail \subseteq TransferIds
    /\ initiation \in [Initiations -> [at : {"begun"}, nonce : Signatures, since : Times]
                                      \cup {NoInitiation}]
    /\ job \in [Jobs -> JobRecords \cup {Resting}]
    /\ retention \in Retentions /\ shortest \in Retentions

ArchiveInit ==
    /\ transfers = [t \in TransferIds |-> Unopened]
    /\ present = {} /\ auditTrail = {}
    /\ initiation = [i \in Initiations |-> NoInitiation]
    /\ job = [j \in Jobs |-> Resting]
    /\ retention = SeededDays /\ shortest = SeededDays

----------------------------------------------------------------------------
(* Transfers. *)

\* Mutant: a signature may be dated into the future.
NotStale(n) == clock <= SignedAt[n] + Freshness

\* check_signature_freshness, on both sides of the server's clock.
FreshSignature(n) ==
    /\ clock <= SignedAt[n] + Freshness
    /\ SignedAt[n] <= clock + Freshness

\* The handler takes the time, checks the signature's age and begins.
BeginInitiation(i, n) ==
    /\ initiation[i] = NoInitiation /\ FreshSignature(n)
    /\ initiation' = [initiation EXCEPT
                        ![i] = [at |-> "begun", nonce |-> n, since |-> clock]]
    /\ UNCHANGED <<clock, transfers, present, auditTrail, job, retention, shortest>>

FinishInitiation(i) == initiation' = [initiation EXCEPT ![i] = NoInitiation]

Opened == {t \in TransferIds : transfers[t] # Unopened}

\* uq_ownership_transfers_request_nonce knows the rows that are still there.
NonceTaken(n) == \E t \in present : transfers[t].nonce = n

\* The INSERT; created_at is the start of the transaction.
OpenTransfer(i) ==
    /\ initiation[i] # NoInitiation /\ ~NonceTaken(initiation[i].nonce)
    /\ \E t \in TransferIds \ Opened, c \in initiation[i].since..clock :
        /\ \A u \in TransferIds \ Opened : t <= u
        /\ transfers' = [transfers EXCEPT ![t] =
                [state |-> "pending", nonce |-> initiation[i].nonce, created |-> c]]
        /\ present' = present \cup {t}
    /\ FinishInitiation(i)
    /\ UNCHANGED <<clock, auditTrail, job, retention, shortest>>

\* Refused, for the nonce or anything else, or dropped.
LeaveInitiation(i) ==
    /\ initiation[i] # NoInitiation
    /\ FinishInitiation(i)
    /\ UNCHANGED <<clock, transfers, present, auditTrail, job, retention, shortest>>

\* A decision or the expiry, one guarded UPDATE of a row that is pending.
DecideTransfer(t, state) ==
    /\ t \in present /\ transfers[t].state = "pending"
    /\ transfers' = [transfers EXCEPT ![t].state = state]
    /\ UNCHANGED <<clock, present, auditTrail, initiation, job, retention, shortest>>

----------------------------------------------------------------------------
(* Archival. *)

\* update_archival_policy takes any number.
SetRetention(days) ==
    /\ retention' = days
    /\ shortest' = IF days < shortest THEN days ELSE shortest
    /\ UNCHANGED <<clock, transfers, present, auditTrail, initiation, job>>

\* The policies are read, once for all that the job is to apply ...
ReadPolicies(j) ==
    /\ job[j] = Resting
    /\ job' = [job EXCEPT ![j] = [at |-> "policy", keep |-> retention]]
    /\ UNCHANGED <<clock, transfers, present, auditTrail, initiation, retention, shortest>>

\* ... and this one, when its turn comes, is measured from the time it is then.
BeginRun(j) ==
    /\ job[j].at = "policy"
    /\ job' = [job EXCEPT ![j] = [at |-> "running",
            cutoff |-> IF clock > job[j].keep THEN clock - job[j].keep ELSE 0]]
    /\ UNCHANGED <<clock, transfers, present, auditTrail, initiation, retention, shortest>>

\* In one of the policy's terminal states ('duplicate' is never written) and
\* strictly older than the cutoff.
Archivable(j) ==
    {t \in present : transfers[t].state = "finished" /\ transfers[t].created < job[j].cutoff}

\* A batch of the oldest.
Batch(E) ==
    {S \in SUBSET E :
        /\ Cardinality(S) <= BatchRows
        /\ S = E \/ Cardinality(S) = BatchRows
        /\ \A s \in S, t \in E \ S : transfers[s].created <= transfers[t].created}

\* The first statement of archive_rows' transaction; nobody sees its copies yet.
CopyBatch(j) ==
    /\ job[j].at = "running"
    /\ \E S \in Batch(Archivable(j)) :
        job' = [job EXCEPT ![j] = [at |-> "copied", cutoff |-> job[j].cutoff, copied |-> S]]
    /\ UNCHANGED <<clock, transfers, present, auditTrail, initiation, retention, shortest>>

\* Mutant: the DELETE repeats the condition instead of naming what was copied.
DeleteArchivable(j) ==
    /\ job[j].at = "copied"
    /\ present' = present \ Archivable(j)
    /\ auditTrail' = auditTrail \cup job[j].copied
    /\ job' = [job EXCEPT ![j] = Resting]
    /\ UNCHANGED <<clock, transfers, initiation, retention, shortest>>

\* The second statement, of those copies that another job has not deleted, and
\* the commit of both.
DeleteCopied(j) ==
    /\ job[j].at = "copied"
    /\ present' = present \ job[j].copied
    /\ auditTrail' = auditTrail \cup job[j].copied
    /\ job' = [job EXCEPT ![j] = Resting]
    /\ UNCHANGED <<clock, transfers, initiation, retention, shortest>>

\* An error or a stop: the transaction is rolled back, the run counts as failed.
RunFails(j) ==
    /\ job[j] # Resting
    /\ job' = [job EXCEPT ![j] = Resting]
    /\ UNCHANGED <<clock, transfers, present, auditTrail, initiation, retention, shortest>>

ArchiveTick ==
    /\ \A i \in Initiations :
        initiation[i] # NoInitiation => clock < initiation[i].since + MaxDelay
    /\ Tick
    /\ UNCHANGED archiveVars

ArchiveNext ==
    \/ \E i \in Initiations : \/ \E n \in Signatures : BeginInitiation(i, n)
                              \/ OpenTransfer(i) \/ LeaveInitiation(i)
    \/ \E t \in TransferIds, s \in {"completed", "finished"} : DecideTransfer(t, s)
    \/ \E days \in Retentions : SetRetention(days)
    \/ \E j \in Jobs : ReadPolicies(j) \/ BeginRun(j) \/ CopyBatch(j)
                       \/ DeleteCopied(j) \/ RunFails(j)
    \/ ArchiveTick

ArchiveSpec == ArchiveInit /\ clock = 0 /\ [][ArchiveNext]_<<clock, archiveVars>>

----------------------------------------------------------------------------
(* Properties. *)

\* "a row can never be removed from the source table without its audit-trail
\* copy being committed" (archival.rs:508): whichever jobs overlap, what has left
\* the table came to nothing and is in the trail.
RemovedIsKept ==
    \A t \in Opened \ present :
        transfers[t].state = "finished" /\ t \in auditTrail

\* I6, "Signatures are single-use" (handlers.rs:6601): no signature ever opens
\* two transfers.
SignaturesAreSingleUse ==
    \A t, u \in Opened : transfers[t].nonce = transfers[u].nonce => t = u

\* How long a row must be kept: a signature is fresh on both sides of the time it
\* was made at, and a handler that took it may be late.
LeastAge == 2 * Freshness + MaxDelay

\* Archival, which deletes the row that holds the nonce, leaves I6 alone as long
\* as no operator, at any time, set a retention below that age: by then the
\* signature is too old, for whoever began before as well.  Nothing in
\* archival.rs:228-255 or the schema refuses a shorter one.
NonceOpensOnce == shortest >= LeastAge => SignaturesAreSingleUse
=============================================================================
