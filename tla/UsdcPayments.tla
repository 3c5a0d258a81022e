---------------------------- MODULE UsdcPayments ----------------------------
(***************************************************************************)
(* USDC purchases (indexer/src/usdc_scanner.rs, api/src/marketplace/usdc_  *)
(* handlers.rs and issuance.rs).  A buyer opens an intent and pays on the  *)
(* chain with its memo; the scanner reads the account's payments in pages, *)
(* reports each to the confirm endpoint and saves how far it got; the      *)
(* endpoint claims the intent for the transaction, issues the license and  *)
(* then confirms the intent.  The endpoint's statements are not one        *)
(* transaction: each takes effect on its own, and requests interleave.     *)
(*                                                                         *)
(* A payment is known by its place in the chain, which is also its         *)
(* transaction hash and its paging token.  All intents are for one plan,   *)
(* so an amount is enough for all of them or for none.                     *)
(***************************************************************************)
EXTENDS Naturals, FiniteSets, Sequences

CONSTANTS
    Intents,       \* memos of the intents that may be created
    Requests,      \* confirm requests that may be in progress at a time
    PageLimit,     \* HORIZON_PAGE_LIMIT
    Operators,     \* those of them that an operator may make
    HandReports,   \* what an operator may report: memo, transaction, whether enough
    Incoming,      \* the kinds of payment that occur: memo, whether enough
    Refusing,      \* whether the endpoint may refuse the scanner (401, 429)
    MaxPayments,   \* bound of the chain
    MaxFaults      \* bound of the number of faults

Foreign == "foreign"   \* another asset, no memo, or one that is not "mp-"
Unknown == "unknown"   \* an "mp-" memo of no intent
NoOne   == "none"

ASSUME UsdcAssumption ==
    /\ PageLimit \in Nat \ {0} /\ MaxPayments \in Nat /\ MaxFaults \in Nat
    /\ Operators \subseteq Requests /\ Refusing \in BOOLEAN
    /\ HandReports \subseteq [memo : Intents, tx : 1..(MaxPayments + 1), enough : BOOLEAN]
    /\ Incoming \subseteq [memo : Intents \cup {Foreign, Unknown}, enough : BOOLEAN]
    /\ NoOne \notin Requests
    /\ Intents \cap {Foreign, Unknown, NoOne} = {}

VARIABLES
    account,     \* the payments to the receiving address, oldest first
    active,      \* contract_pricing_plans.is_active
    due,         \* the intents whose expires_at has passed
    intent,      \* intent[i]: the marketplace_usdc_payments row, or NoRow
    licenses,    \* the contract_licenses rows, in order of insertion
    stateRow,    \* whether marketplace_usdc_scanner_state has the scanner's row
    cursor,      \* its cursor, or 0
    scan,        \* the scanner's cycle
    req,         \* req[r]: the handler of a confirm request
    turnedAway,  \* the payments reported to an endpoint that refused
    faults

usdcVars == <<account, active, due, intent, licenses, stateRow, cursor, scan, req,
              turnedAway, faults>>

Payments == [memo : Intents \cup {Foreign, Unknown}, enough : BOOLEAN]
Tokens   == 0..MaxPayments      \* 0: no token, no transaction
MadeUp   == MaxPayments + 1     \* a transaction hash of no payment
Hashes   == 0..MadeUp

NoRow == [status |-> "none"]
Rows  == [status : {"pending", "confirmed", "expired"}, tx : Hashes, license : Nat]

\* byHand: confirmed_by is an operator, not the scanner's account.
Licenses == [intent : Intents, tx : Hashes, byHand : BOOLEAN]

Asleep   == [step |-> "sleep", end |-> 0, pos |-> 0, reach |-> 0, req |-> NoOne]
Starting == [Asleep EXCEPT !.step = "start"]
Scans  == [step : {"start", "sleep", "page", "wait", "save"}, end : Tokens, pos : Tokens,
           reach : Tokens, req : Requests \cup {NoOne}]

NoCall == [step |-> "idle", memo |-> NoOne, tx |-> 0, enough |-> FALSE,
           byHand |-> FALSE, license |-> 0]
ConfirmCalls == [step : {"idle", "read", "mark", "claim", "issue", "finish"},
                 memo : Intents \cup {Unknown, NoOne}, tx : Hashes, enough : BOOLEAN,
                 byHand : BOOLEAN, license : Nat]

UsdcTypeOK ==
    /\ account \in Seq(Payments) /\ Len(account) <= MaxPayments
    /\ active \in BOOLEAN
    /\ due \subseteq Intents
    /\ intent \in [Intents -> Rows \cup {NoRow}]
    /\ licenses \in Seq(Licenses)
    /\ stateRow \in BOOLEAN /\ cursor \in 0..Len(account)
    /\ scan \in Scans /\ scan.pos <= scan.end /\ scan.end <= Len(account)
    /\ scan.reach <= scan.pos
    /\ req \in [Requests -> ConfirmCalls]
    /\ turnedAway \subseteq 1..Len(account)
    /\ faults \in 0..MaxFaults

UsdcInit ==
    /\ account = <<>> /\ active = TRUE /\ due = {}
    /\ intent = [i \in Intents |-> NoRow] /\ licenses = <<>>
    /\ stateRow = FALSE /\ cursor = 0 /\ scan = Starting
    /\ req = [r \in Requests |-> NoCall]
    /\ turnedAway = {} /\ faults = 0

Fault == faults < MaxFaults /\ faults' = faults + 1

Exists(i)   == intent[i] # NoRow
Past(i)     == i \in due
Licensed(i) == \E n \in DOMAIN licenses : licenses[n].intent = i

saleVars   == <<intent, licenses, active>>
envVars    == <<account, due, turnedAway, stateRow>>

----------------------------------------------------------------------------
(* Buyers, the owner of the plan and the clock. *)

\* create_intent
CreateIntent(i) ==
    /\ ~Exists(i) /\ active
    /\ intent' = [intent EXCEPT ![i] =
                     [status |-> "pending", tx |-> 0, license |-> 0]]
    /\ UNCHANGED <<account, active, due, licenses, stateRow, cursor, scan, req,
                   turnedAway, faults>>

\* A payment reaches the receiving address.  Buyers pay late, too little,
\* twice, or with a memo of their own.
Pay ==
    /\ Len(account) < MaxPayments
    /\ \E p \in Incoming :
        /\ p.memo \in Intents => Exists(p.memo)
        /\ account' = Append(account, p)
    /\ UNCHANGED <<active, due, stateRow, cursor, scan, req, turnedAway, faults,
                   intent, licenses>>

\* update_plan
SetActive ==
    /\ active' = ~active
    /\ UNCHANGED <<account, due, intent, licenses, stateRow, cursor, scan, req,
                   turnedAway, faults>>

\* The intent's hour is over.
Expire(i) ==
    /\ Exists(i) /\ ~Past(i)
    /\ due' = due \cup {i}
    /\ UNCHANGED <<account, active, intent, licenses, stateRow, cursor, scan, req,
                   turnedAway, faults>>

----------------------------------------------------------------------------
(* The scanner. *)

\* Mutant: an answer of the 5xx class counts as handled too.
HandledAll(code) == TRUE

\* ConfirmOutcome::Handled: every answer but 5xx; no answer is Transient too.
Handled(code) == code # "5xx"

\* Mutant: a payment the registry has no part in leaves the reach alone.
AdvanceUnsaved == [scan EXCEPT !.step = "page", !.pos = @ + 1, !.req = NoOne]

\* The payment at hand is done with, and the cursor may pass it.
Advance == [scan EXCEPT !.step = "page", !.pos = @ + 1, !.reach = scan.pos + 1,
                        !.req = NoOne]

\* The scan of the page stops before the payment at hand.
Halt == [scan EXCEPT !.step = "save", !.req = NoOne]

\* ensure_state_row, once, before the loop.
EnsureRow ==
    /\ scan.step = "start"
    /\ stateRow' = TRUE /\ scan' = Asleep
    /\ UNCHANGED <<saleVars, account, due, turnedAway, cursor, req, faults>>

\* It fails, which is logged ("will retry"); nothing tries again before the next
\* start of the process.
EnsureFails ==
    /\ scan.step = "start" /\ Fault
    /\ scan' = Asleep
    /\ UNCHANGED <<saleVars, envVars, cursor, req>>

\* Mutant: the last page is taken to be as long as the others.
PollUncapped ==
    /\ scan.step = "sleep" /\ cursor < Len(account)
    /\ scan' = [step |-> "page", pos |-> cursor, reach |-> 0, req |-> NoOne,
                end |-> cursor + PageLimit]
    /\ UNCHANGED <<saleVars, envVars, cursor, req, faults>>

\* load_cursor and fetch_payments: a page of at most PageLimit payments, from the
\* first one if there is no row.
Poll ==
    /\ scan.step = "sleep" /\ cursor < Len(account)
    /\ LET room == cursor + PageLimit
       IN  scan' = [step |-> "page", pos |-> cursor, reach |-> 0, req |-> NoOne,
                    end |-> IF room < Len(account) THEN room ELSE Len(account)]
    /\ UNCHANGED <<saleVars, envVars, cursor, req, faults>>

AtHand    == account[scan.pos + 1]
Examining == scan.step = "page" /\ scan.pos < scan.end

\* A payment that is not for the marketplace, now and at every retry.
SkipForeign ==
    /\ Examining /\ AtHand.memo = Foreign
    /\ scan' = Advance
    /\ UNCHANGED <<saleVars, envVars, cursor, req, faults>>

\* fetch_memo fails.
MemoError ==
    /\ Examining /\ Fault
    /\ scan' = Halt
    /\ UNCHANGED <<saleVars, envVars, cursor, req>>

\* confirm_payment posts the payment to the registry.
Report(r) ==
    /\ Examining /\ AtHand.memo # Foreign /\ req[r] = NoCall
    /\ req' = [req EXCEPT ![r] = [step |-> "read", memo |-> AtHand.memo,
                                  tx |-> scan.pos + 1, enough |-> AtHand.enough,
                                  byHand |-> FALSE, license |-> 0]]
    /\ scan' = [scan EXCEPT !.step = "wait", !.req = r]
    /\ UNCHANGED <<saleVars, envVars, cursor, faults>>

\* The answer does not come within the client's 30 seconds, or is lost; the
\* handler may still run.
GiveUp ==
    /\ scan.step = "wait" /\ Fault
    /\ scan' = Halt
    /\ UNCHANGED <<saleVars, envVars, cursor, req>>

EndPage ==
    /\ scan.step = "page" /\ scan.pos = scan.end
    /\ scan' = Halt
    /\ UNCHANGED <<saleVars, envVars, cursor, req, faults>>

\* Mutant: the cursor is saved by an INSERT that a missing row does not stop.
SaveUpserts ==
    /\ scan.step = "save"
    /\ cursor' = IF scan.reach = 0 THEN cursor ELSE scan.reach
    /\ scan' = Asleep
    /\ UNCHANGED <<saleVars, envVars, req, faults>>

\* save_cursor, if any payment was passed: an UPDATE, which without the row finds
\* nothing to update and reports success.  Then the scanner sleeps.
Save ==
    /\ scan.step = "save"
    /\ cursor' = IF scan.reach = 0 \/ ~stateRow THEN cursor ELSE scan.reach
    /\ scan' = Asleep
    /\ UNCHANGED <<saleVars, envVars, req, faults>>

\* save_cursor fails: what the cycle did is forgotten.
SaveFails ==
    /\ scan.step = "save" /\ Fault
    /\ scan' = Asleep
    /\ UNCHANGED <<saleVars, envVars, cursor, req>>

\* The indexer stops anywhere in the cycle, and starts again.
Restart ==
    /\ scan.step # "start" /\ Fault
    /\ scan' = Starting
    /\ UNCHANGED <<saleVars, envVars, cursor, req>>

ScanStep == EnsureRow \/ Poll \/ SkipForeign \/ EndPage \/ Save

----------------------------------------------------------------------------
(* The confirm endpoint. *)

\* What the scanner makes of the answer code, if it waits for r.
Hear(r, code) ==
    IF scan.step = "wait" /\ scan.req = r
    THEN IF Handled(code) THEN Advance ELSE Halt
    ELSE scan

\* The handler of r answers.
Answer(r, code) ==
    /\ req' = [req EXCEPT ![r] = NoCall]
    /\ scan' = Hear(r, code)

Goto(r, s) ==
    /\ req' = [req EXCEPT ![r].step = s]
    /\ UNCHANGED scan

\* An operator, or any publisher who is logged in, reports a payment: whatever
\* memo, transaction and amount it states is believed.
Operate(r) ==
    /\ r \in Operators /\ req[r] = NoCall
    /\ \E c \in HandReports :
          /\ c.tx \in 1..Len(account) \cup {MadeUp}
          /\ req' = [req EXCEPT ![r] = [step |-> "read", memo |-> c.memo, tx |-> c.tx,
                                        enough |-> c.enough, byHand |-> TRUE, license |-> 0]]
    /\ UNCHANGED <<saleVars, envVars, cursor, scan, faults>>

\* The scanner's token is no longer valid, or it is over its rate limit.
Refuse(r) ==
    /\ Refusing /\ req[r].step = "read" /\ scan.step = "wait" /\ scan.req = r
    /\ Fault
    /\ turnedAway' = turnedAway \cup {scan.pos + 1}
    /\ Answer(r, "4xx")
    /\ UNCHANGED <<saleVars, account, due, stateRow, cursor>>

Settled(row) == row.status = "confirmed" \/ row.license # 0

\* The snapshot of the intent and the checks made on it.
ReadIntent(r) ==
    LET i == req[r].memo
    IN  /\ req[r].step = "read"
        /\ IF i = Unknown \/ ~Exists(i) THEN Answer(r, "404")
           ELSE IF Settled(intent[i])   THEN Answer(r, "409")
           ELSE IF intent[i].status = "expired" \/ Past(i) THEN Goto(r, "mark")
           ELSE IF ~req[r].enough THEN Answer(r, "4xx")
           ELSE Goto(r, "claim")
        /\ UNCHANGED <<saleVars, envVars, cursor, faults>>

\* A past-due intent that is still pending is marked.
MarkExpired(r) ==
    LET i == req[r].memo
    IN  /\ req[r].step = "mark"
        /\ intent' = IF intent[i].status = "pending"
                     THEN [intent EXCEPT ![i].status = "expired"] ELSE intent
        /\ Answer(r, "409")
        /\ UNCHANGED <<envVars, active, licenses, cursor, faults>>

\* That UPDATE fails, and the handler ignores it.
MarkFails(r) ==
    /\ req[r].step = "mark" /\ Fault
    /\ Answer(r, "409")
    /\ UNCHANGED <<saleVars, envVars, cursor>>

TxUsed(k) == \E i \in Intents : Exists(i) /\ intent[i].tx = k

\* Mutant: the claim does not look at the status and the hour again.
MayClaimLate(i) == intent[i].tx = 0

\* The WHERE of the claim.
MayClaim(i) == intent[i].tx = 0 /\ intent[i].status = "pending" /\ ~Past(i)

\* The UPDATE that claims the intent for the transaction; no two intents can
\* hold one (tx_hash is UNIQUE).
Claim(r) ==
    LET i == req[r].memo
        k == req[r].tx
    IN  /\ req[r].step = "claim" /\ MayClaim(i)
        /\ IF TxUsed(k)
           THEN Answer(r, "5xx") /\ UNCHANGED intent
           ELSE Goto(r, "issue") /\ intent' = [intent EXCEPT ![i].tx = k]
        /\ UNCHANGED <<envVars, active, licenses, cursor, faults>>

\* No row to claim: another request has it, or the hour is over.
LoseClaim(r) ==
    /\ req[r].step = "claim" /\ ~MayClaim(req[r].memo)
    /\ Answer(r, "409")
    /\ UNCHANGED <<saleVars, envVars, cursor, faults>>

Bought(r) == [intent |-> req[r].memo, tx |-> req[r].tx, byHand |-> req[r].byHand]

\* Mutant: an INSERT whose reply is late is sent again.
IssueRetried(r) ==
    /\ req[r].step = "issue" /\ active
    /\ licenses' = Append(licenses, Bought(r))
    /\ \/ req' = req
       \/ req' = [req EXCEPT ![r].step = "finish", ![r].license = Len(licenses')]
    /\ UNCHANGED <<envVars, active, intent, cursor, scan, faults>>

\* issue_for_owner inserts the license, if the plan is active.
Issue(r) ==
    /\ req[r].step = "issue" /\ active
    /\ licenses' = Append(licenses, Bought(r))
    /\ req' = [req EXCEPT ![r].step = "finish", ![r].license = Len(licenses')]
    /\ UNCHANGED <<envVars, active, intent, cursor, scan, faults>>

\* The plan was deactivated since the intent was opened.
IssueNotFound(r) ==
    /\ req[r].step = "issue" /\ ~active
    /\ Answer(r, "404")
    /\ UNCHANGED <<saleVars, envVars, cursor, faults>>

\* Mutant: the intent is confirmed without its license.
FinishUnlinked(r) ==
    /\ req[r].step = "finish"
    /\ intent' = [intent EXCEPT ![req[r].memo].status = "confirmed"]
    /\ Answer(r, "2xx")
    /\ UNCHANGED <<envVars, active, licenses, cursor, faults>>

\* The intent is confirmed, whatever its status is by now.
Finish(r) ==
    /\ req[r].step = "finish"
    /\ intent' = [intent EXCEPT ![req[r].memo].status = "confirmed",
                                ![req[r].memo].license = req[r].license]
    /\ Answer(r, "2xx")
    /\ UNCHANGED <<envVars, active, licenses, cursor, faults>>

\* A database error, a missing signing key or the end of the API process stops
\* the handler; what its statements did stays.
Fail(r) ==
    /\ req[r] # NoCall /\ Fault
    /\ Answer(r, "5xx")
    /\ UNCHANGED <<saleVars, envVars, cursor>>

Serve(r) == \/ ReadIntent(r) \/ MarkExpired(r) \/ Claim(r) \/ LoseClaim(r)
            \/ Issue(r) \/ IssueNotFound(r) \/ Finish(r)

----------------------------------------------------------------------------
UsdcNext ==
    \/ \E i \in Intents : CreateIntent(i) \/ Expire(i)
    \/ Pay \/ SetActive
    \/ ScanStep \/ EnsureFails \/ MemoError \/ GiveUp \/ SaveFails \/ Restart
    \/ \E r \in Requests :
          Report(r) \/ Operate(r) \/ Refuse(r) \/ Serve(r) \/ MarkFails(r) \/ Fail(r)

UsdcSpec == UsdcInit /\ [][UsdcNext]_usdcVars

\* The scanner's task and the handlers run, and an hour ends.
UsdcFairness ==
    /\ WF_usdcVars(ScanStep \/ \E r \in Requests : Report(r))
    /\ \A r \in Requests : WF_usdcVars(Serve(r))
    /\ \A i \in Intents : WF_usdcVars(Expire(i))

UsdcFairSpec == UsdcSpec /\ UsdcFairness

----------------------------------------------------------------------------
(* Properties. *)

\* Two confirms, a retry or a scan that starts again never issue two licenses
\* for one intent, nor two for one transaction (usdc_scanner.rs:24-28).
OneLicense ==
    \A m, n \in DOMAIN licenses :
        m # n => /\ licenses[m].intent # licenses[n].intent
                 /\ licenses[m].tx # licenses[n].tx

\* However the handlers interleave and stop, every license is of an intent that
\* its transaction holds; one that the scanner reported was paid in full with the
\* intent's own memo, whatever operators report besides; and an intent that is
\* confirmed shows the license that was issued for it (usdc_handlers.rs:213-228
\* believes its caller).
LicenseOfClaim ==
    /\ \A n \in DOMAIN licenses :
          /\ intent[licenses[n].intent].tx = licenses[n].tx
          /\ ~licenses[n].byHand =>
                /\ account[licenses[n].tx].memo = licenses[n].intent
                /\ account[licenses[n].tx].enough
    /\ \A i \in Intents : Exists(i) /\ intent[i].status = "confirmed" =>
          /\ intent[i].license \in DOMAIN licenses
          /\ licenses[intent[i].license].intent = i
          /\ licenses[intent[i].license].tx = intent[i].tx

Sufficient(k) == account[k].memo \in Intents /\ account[k].enough

\* The saved cursor passes a sufficient payment only when its intent is claimed
\* or past due, or the endpoint refused the scanner; faults anywhere in the
\* cycle and scans that start again skip nothing (usdc_scanner.rs:150-160).
NothingSkipped ==
    \A k \in 1..cursor : Sufficient(k) =>
        \/ intent[account[k].memo].tx # 0 \/ Past(account[k].memo)
        \/ k \in turnedAway

\* ConfirmOutcome::Handled says of a sufficient payment that a license was
\* issued, or that the intent was already confirmed (usdc_scanner.rs:348-351):
\* when the cursor has passed the payment, its intent has a license or its
\* hour is over.
HandledMeansLicensed ==
    \A k \in 1..cursor : Sufficient(k) =>
        Licensed(account[k].memo) \/ Past(account[k].memo)

\* Statement by statement, with requests interleaved, an intent goes through
\* the states a purchase promises.
Ledger == INSTANCE UsdcLedger WITH
    Txs   <- 1..MadeUp,
    NoTx  <- 0,
    tx    <- [i \in Intents |-> IF Exists(i) THEN intent[i].tx ELSE 0],
    state <- [i \in Intents |->
                 IF ~Exists(i) THEN "none"
                 ELSE IF Licensed(i) THEN "licensed"
                 ELSE IF intent[i].tx # 0 THEN "claimed"
                 ELSE IF intent[i].status = "expired" THEN "closed" ELSE "open"]
Implements == Ledger!Spec

\* Once the scanner's row exists it gets past every payment, though not before
\* faults are over.  A payment whose transaction an operator has used for another
\* intent is answered 5xx, and keeps the scanner, and every payment behind it,
\* until its own intent is past due, but no longer (usdc_handlers.rs:301,
\* usdc_scanner.rs:409-420).  Without the row no cursor is ever saved
\* (usdc_scanner.rs:276-291).
ScannerCatchesUp ==
    \A k \in 1..MaxPayments : stateRow /\ Len(account) >= k ~> cursor >= k
=============================================================================
