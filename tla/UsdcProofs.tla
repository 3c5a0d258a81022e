----------------------------- MODULE UsdcProofs -----------------------------
(***************************************************************************)
(* Proofs about USDC purchases, for every set of intents and requests and  *)
(* every page size and number of payments and faults: the variables keep   *)
(* their types, an intent gets at most one license, which matches its      *)
(* claim, the statements of the endpoint implement UsdcLedger, and what    *)
(* the scanner's cursor passes is accounted for, and stays so.             *)
(***************************************************************************)
EXTENDS UsdcPayments, TLAPS

\* A handler that runs serves some transaction, and past its first SELECT an
\* intent that exists.
CallsFit ==
    \A r \in Requests :
        /\ req[r].step # "idle" => /\ req[r].tx \in 1..MadeUp
                                   /\ req[r].memo \in Intents \cup {Unknown}
        /\ req[r].step \in {"mark", "claim", "issue", "finish"} =>
              req[r].memo \in Intents /\ Exists(req[r].memo)

\* What the scanner reported is a payment of the account.
ScannersCalls ==
    \A r \in Requests : req[r].step # "idle" /\ ~req[r].byHand =>
        /\ req[r].tx \in 1..Len(account)
        /\ account[req[r].tx].memo = req[r].memo
        /\ account[req[r].tx].enough = req[r].enough

\* A scanner that waits for an answer has a payment of its page at hand.
ScanFits == scan.step = "wait" => scan.pos < scan.end

TypeInv == UsdcTypeOK /\ CallsFit /\ ScannersCalls /\ ScanFits

\* The parts of TypeInv that an action changes together.
ScanTyped ==
    /\ scan \in Scans /\ scan.pos <= scan.end /\ scan.end <= Len(account)
    /\ scan.reach <= scan.pos
    /\ ScanFits

ReqTyped == req \in [Requests -> ConfirmCalls] /\ CallsFit /\ ScannersCalls

DbTyped ==
    /\ active \in BOOLEAN /\ due \subseteq Intents
    /\ intent \in [Intents -> Rows \cup {NoRow}]
    /\ licenses \in Seq(Licenses)

ChainTyped ==
    /\ account \in Seq(Payments) /\ Len(account) <= MaxPayments
    /\ stateRow \in BOOLEAN /\ cursor \in 0..Len(account)
    /\ turnedAway \subseteq 1..Len(account)
    /\ faults \in 0..MaxFaults

\* The initial state has the declared types.
LEMMA TypeInit == UsdcInit => TypeInv
  <1>1. Starting \in Scans /\ Starting.step = "start" /\ Starting.pos = 0
        /\ Starting.end = 0 /\ Starting.reach = 0
    BY UsdcAssumption DEF Starting, Asleep, Scans, Tokens
  <1>2. NoCall \in ConfirmCalls /\ NoCall.step = "idle"
    BY UsdcAssumption DEF NoCall, ConfirmCalls, Hashes, MadeUp
  <1>3. UsdcInit => CallsFit /\ ScannersCalls /\ ScanFits
    BY <1>1, <1>2 DEF UsdcInit, CallsFit, ScannersCalls, ScanFits
  <1>4. ASSUME UsdcInit PROVE UsdcTypeOK
    <2>1. account \in Seq(Payments) /\ Len(account) = 0 /\ licenses \in Seq(Licenses)
      BY <1>4 DEF UsdcInit
    <2>2. scan \in Scans /\ scan.pos = 0 /\ scan.end = 0 /\ scan.reach = 0
      BY <1>1, <1>4 DEF UsdcInit
    <2>3. intent \in [Intents -> Rows \cup {NoRow}] /\ req \in [Requests -> ConfirmCalls]
      BY <1>2, <1>4 DEF UsdcInit
    <2>4. active \in BOOLEAN /\ stateRow \in BOOLEAN /\ due \subseteq Intents
      BY <1>4 DEF UsdcInit
    <2>5. cursor \in 0..Len(account) /\ turnedAway \subseteq 1..Len(account)
          /\ faults \in 0..MaxFaults /\ Len(account) <= MaxPayments
      BY <1>4, <2>1, UsdcAssumption DEF UsdcInit
    <2> QED
      BY <2>1, <2>2, <2>3, <2>4, <2>5 DEF UsdcTypeOK
  <1> QED
    BY <1>3, <1>4 DEF TypeInv

\* The scanner that passes the payment at hand stays on its page.
LEMMA AdvanceTyped ==
    ASSUME ScanTyped, scan.pos < scan.end, ChainTyped
    PROVE  /\ Advance \in Scans /\ Advance.step = "page"
           /\ Advance.pos = scan.pos + 1 /\ Advance.end = scan.end
           /\ Advance.reach = scan.pos + 1
  <1>1. /\ scan \in Scans /\ scan.pos \in Nat /\ scan.end \in 0..MaxPayments
        /\ MaxPayments \in Nat
    BY UsdcAssumption DEF ScanTyped, Scans, Tokens
  <1>2. scan.pos + 1 \in Tokens
    BY <1>1 DEF Tokens
  <1> QED
    BY <1>1, <1>2 DEF Advance, Scans

\* The scanner that stops keeps its place and what it has passed.
LEMMA HaltTyped ==
    ASSUME ScanTyped
    PROVE  /\ Halt \in Scans /\ Halt.step = "save"
           /\ Halt.pos = scan.pos /\ Halt.end = scan.end /\ Halt.reach = scan.reach
  BY DEF ScanTyped, Halt, Scans

\* Whatever the scanner makes of an answer, it stays on its page.
LEMMA HearTyped ==
    ASSUME ScanTyped, ChainTyped, NEW r, NEW code, scan' = Hear(r, code), account' = account
    PROVE  ScanTyped'
  <1>1. CASE scan' = scan
    BY <1>1 DEF ScanTyped, ScanFits
  <1>2. CASE scan' = Advance /\ scan.step = "wait"
    <2>1. scan.pos \in Nat /\ scan.end \in Nat /\ scan.pos < scan.end
      BY <1>2, UsdcAssumption DEF ScanTyped, ScanFits, Scans, Tokens
    <2> QED
      BY <1>2, <2>1, AdvanceTyped DEF ScanTyped, ScanFits
  <1>3. CASE scan' = Halt
    BY <1>3, HaltTyped DEF ScanTyped, ScanFits
  <1> QED
    BY <1>1, <1>2, <1>3 DEF Hear

\* An answered handler is idle, and the others serve what they served.
LEMMA AnswerTyped ==
    ASSUME ScanTyped, ReqTyped, ChainTyped, NEW r \in Requests, NEW code,
           Answer(r, code), account' = account,
           \A i \in Intents : Exists(i) => Exists(i)'
    PROVE  ScanTyped' /\ ReqTyped'
  <1>1. ScanTyped'
    BY HearTyped DEF Answer
  <1>2. req' \in [Requests -> ConfirmCalls]
    BY UsdcAssumption DEF ReqTyped, Answer, NoCall, ConfirmCalls, Hashes, MadeUp
  <1>3. CallsFit' /\ ScannersCalls'
    BY DEF ReqTyped, CallsFit, ScannersCalls, Answer, NoCall
  <1> QED
    BY <1>1, <1>2, <1>3 DEF ReqTyped

\* A handler that goes on to a later step serves the same intent.
LEMMA GotoTyped ==
    ASSUME ReqTyped, NEW r \in Requests, NEW s \in {"mark", "claim", "issue"},
           Goto(r, s), account' = account, req[r].step # "idle",
           \A i \in Intents : Exists(i) => Exists(i)',
           req[r].memo \in Intents, Exists(req[r].memo)
    PROVE  ReqTyped'
  <1>1. req' \in [Requests -> ConfirmCalls]
    BY DEF ReqTyped, Goto, ConfirmCalls
  <1>2. CallsFit'
    BY DEF ReqTyped, CallsFit, Goto, ConfirmCalls
  <1>3. ScannersCalls'
    BY DEF ReqTyped, ScannersCalls, Goto, ConfirmCalls
  <1> QED
    BY <1>1, <1>2, <1>3 DEF ReqTyped

\* Every step keeps the types.
LEMMA TypeNext == TypeInv /\ [UsdcNext]_usdcVars => TypeInv'
  <1> SUFFICES ASSUME ScanTyped, ReqTyped, DbTyped, ChainTyped, [UsdcNext]_usdcVars
               PROVE  ScanTyped' /\ ReqTyped' /\ DbTyped' /\ ChainTyped'
    BY DEF TypeInv, UsdcTypeOK, ScanTyped, ReqTyped, DbTyped, ChainTyped
  <1> DEFINE Typed == ScanTyped /\ ReqTyped /\ DbTyped /\ ChainTyped
  <1>1. ASSUME NEW i \in Intents, CreateIntent(i) PROVE Typed'
    <2>1. DbTyped'
      BY <1>1, UsdcAssumption DEF DbTyped, CreateIntent, Rows, Hashes, MadeUp
    <2>2. \A j \in Intents : Exists(j) => Exists(j)'
      BY <1>1 DEF CreateIntent, Exists, DbTyped, NoRow
    <2>3. ReqTyped'
      BY <1>1, <2>2 DEF ReqTyped, CallsFit, ScannersCalls, CreateIntent
    <2> QED
      BY <1>1, <2>1, <2>3 DEF CreateIntent, ScanTyped, ScanFits, ChainTyped
  <1>2. ASSUME NEW i \in Intents, Expire(i) PROVE Typed'
    BY <1>2 DEF Expire, ScanTyped, ScanFits, ReqTyped, CallsFit, ScannersCalls, Exists,
       DbTyped, ChainTyped
  <1>3. CASE Pay
    <2>1. PICK p \in Payments : account' = Append(account, p)
      BY <1>3, UsdcAssumption DEF Pay, Payments
    <2>2. account' \in Seq(Payments) /\ Len(account') = Len(account) + 1 /\ Len(account) \in Nat
      BY <2>1 DEF ChainTyped
    <2>3. ChainTyped'
      BY <1>3, <2>2, UsdcAssumption DEF Pay, ChainTyped
    <2>4. ScanTyped'
      BY <1>3, <2>2, UsdcAssumption DEF Pay, ScanTyped, ScanFits, Scans, Tokens
    <2>5. ReqTyped'
      <3>1. \A k \in 1..Len(account) : k \in 1..Len(account') /\ account'[k] = account[k]
        BY <2>1 DEF ChainTyped
      <3> QED
        BY <1>3, <3>1 DEF Pay, ReqTyped, CallsFit, ScannersCalls, Exists
    <2> QED
      BY <1>3, <2>3, <2>4, <2>5 DEF Pay, DbTyped
  <1>4. CASE SetActive
    BY <1>4 DEF SetActive, ScanTyped, ScanFits, ReqTyped, CallsFit, ScannersCalls, Exists,
       DbTyped, ChainTyped
  <1>5. ASSUME UNCHANGED <<saleVars, account, due, req, turnedAway>>, faults' \in 0..MaxFaults,
               stateRow' \in BOOLEAN, cursor' \in 0..Len(account), ScanTyped'
        PROVE  Typed'
    BY <1>5 DEF saleVars, ReqTyped, CallsFit, ScannersCalls, Exists, DbTyped, ChainTyped
  <1>6. ScanTyped /\ scan' = Halt /\ account' = account => ScanTyped'
    BY HaltTyped DEF ScanTyped, ScanFits
  <1>7. scan' = Asleep /\ account' = account => ScanTyped'
    BY UsdcAssumption DEF ScanTyped, ScanFits, Asleep, Scans, Tokens, ChainTyped
  <1>8. Fault => faults' \in 0..MaxFaults
    BY UsdcAssumption DEF Fault, ChainTyped
  <1>9. CASE Poll
    <2> DEFINE e == IF cursor + PageLimit < Len(account) THEN cursor + PageLimit ELSE Len(account)
    <2>1. /\ Len(account) \in Nat /\ cursor \in Nat /\ PageLimit \in Nat
          /\ cursor < Len(account) /\ Len(account) <= MaxPayments /\ MaxPayments \in Nat
      BY <1>9, UsdcAssumption DEF Poll, ChainTyped
    <2>2. e \in Tokens /\ cursor \in Tokens /\ 0 \in Tokens /\ cursor <= e /\ e <= Len(account)
      BY <2>1 DEF Tokens
    <2>3. scan' = [step |-> "page", pos |-> cursor, reach |-> 0, req |-> NoOne, end |-> e]
      BY <1>9 DEF Poll
    <2>4. scan' \in Scans
      BY <2>2, <2>3 DEF Scans
    <2>5. ScanTyped'
      BY <1>9, <2>1, <2>2, <2>3, <2>4 DEF Poll, envVars, ScanTyped, ScanFits
    <2> QED
      BY <1>5, <1>9, <2>5 DEF Poll, envVars, ChainTyped
  <1>10. CASE SkipForeign
    <2>1. scan.pos < scan.end
      BY <1>10 DEF SkipForeign, Examining
    <2>2. scan.pos \in Nat /\ scan.end \in Nat
      BY UsdcAssumption DEF ScanTyped, Scans, Tokens
    <2>3. ScanTyped'
      BY <1>10, <2>1, <2>2, AdvanceTyped DEF SkipForeign, envVars, ScanTyped, ScanFits
    <2> QED
      BY <1>5, <1>10, <2>3 DEF SkipForeign, envVars, ChainTyped
  <1>11. CASE EndPage
    BY <1>5, <1>6, <1>11 DEF EndPage, envVars, ChainTyped
  <1>12. CASE Save
    <2>1. cursor' \in 0..Len(account)
      BY <1>12, UsdcAssumption DEF Save, ScanTyped, Scans, Tokens, ChainTyped
    <2> QED
      BY <1>5, <1>7, <1>12, <2>1 DEF Save, envVars, ChainTyped
  <1>13. CASE MemoError \/ GiveUp
    BY <1>5, <1>6, <1>8, <1>13 DEF MemoError, GiveUp, envVars, ChainTyped
  <1>14. CASE EnsureFails \/ SaveFails
    BY <1>5, <1>7, <1>8, <1>14 DEF EnsureFails, SaveFails, envVars, ChainTyped
  <1>29. CASE EnsureRow
    BY <1>5, <1>7, <1>29 DEF EnsureRow, ChainTyped
  <1>30. CASE Restart
    <2>1. scan' = Starting /\ account' = account
      BY <1>30 DEF Restart, envVars
    <2>2. ScanTyped'
      BY <2>1, UsdcAssumption
         DEF Starting, ScanTyped, ScanFits, Asleep, Scans, Tokens, ChainTyped
    <2> QED
      BY <1>5, <1>8, <1>30, <2>2 DEF Restart, envVars, ChainTyped
  <1>15. ASSUME NEW r \in Requests, Report(r) PROVE Typed'
    <2>1. /\ scan.pos \in Nat /\ scan.end \in Nat /\ scan.pos < scan.end
          /\ scan.pos + 1 \in 1..Len(account) /\ scan.pos + 1 \in Tokens
      BY <1>15, UsdcAssumption
         DEF Report, Examining, ScanTyped, Scans, Tokens, ChainTyped
    <2>2. /\ AtHand.memo \in Intents \cup {Unknown} /\ AtHand.enough \in BOOLEAN
      <3>1. account[scan.pos + 1] \in Payments
        BY <2>1 DEF ChainTyped
      <3> QED
        BY <1>15, <3>1 DEF Report, AtHand, Payments
    <2>6. scan.pos + 1 \in 1..MadeUp /\ scan.pos + 1 \in Hashes
      BY <2>1, UsdcAssumption DEF Tokens, MadeUp, Hashes
    <2>7. /\ req' = [req EXCEPT ![r] = [step |-> "read", memo |-> AtHand.memo,
                                        tx |-> scan.pos + 1, enough |-> AtHand.enough,
                                        byHand |-> FALSE, license |-> 0]]
          /\ account' = account /\ intent' = intent
      BY <1>15 DEF Report, saleVars, envVars
    <2>3. ScanTyped'
      BY <1>15, <2>1 DEF Report, envVars, ScanTyped, ScanFits, Scans
    <2>4. req' \in [Requests -> ConfirmCalls]
      BY <2>2, <2>6, <2>7 DEF ReqTyped, ConfirmCalls
    <2>5. CallsFit'
      BY <2>2, <2>6, <2>7 DEF ReqTyped, CallsFit, Exists
    <2>8. ScannersCalls'
      BY <2>1, <2>7 DEF ReqTyped, ScannersCalls, AtHand
    <2> QED
      BY <1>15, <2>3, <2>4, <2>5, <2>8
         DEF Report, saleVars, envVars, ReqTyped, DbTyped, ChainTyped
  <1>16. ASSUME NEW r \in Requests, Operate(r) PROVE Typed'
    <2>1. PICK c \in HandReports :
             req' = [req EXCEPT ![r] = [step |-> "read", memo |-> c.memo, tx |-> c.tx,
                                        enough |-> c.enough, byHand |-> TRUE, license |-> 0]]
      BY <1>16 DEF Operate
    <2>2. /\ c.memo \in Intents /\ c.tx \in Hashes /\ c.tx \in 1..MadeUp
          /\ c.enough \in BOOLEAN
      BY UsdcAssumption DEF Hashes, MadeUp
    <2>3. req' \in [Requests -> ConfirmCalls]
      BY <2>1, <2>2 DEF ReqTyped, ConfirmCalls
    <2>4. CallsFit'
      BY <1>16, <2>1, <2>2 DEF Operate, saleVars, envVars, ReqTyped, CallsFit, Exists
    <2>5. ScannersCalls'
      BY <1>16, <2>1 DEF Operate, envVars, ReqTyped, ScannersCalls
    <2> QED
      BY <1>16, <2>3, <2>4, <2>5
         DEF Operate, saleVars, envVars, ScanTyped, ScanFits, ReqTyped, DbTyped,
             ChainTyped
  <1>17. ASSUME NEW r \in Requests, NEW code, Answer(r, code), UNCHANGED <<account, cursor>>,
                DbTyped', stateRow' \in BOOLEAN, faults' \in 0..MaxFaults,
                turnedAway' \subseteq 1..Len(account),
                \A i \in Intents : Exists(i) => Exists(i)'
         PROVE  Typed'
    BY <1>17, AnswerTyped DEF ChainTyped
  <1>18. UNCHANGED intent => \A i \in Intents : Exists(i) => Exists(i)'
    BY DEF Exists
  <1>19. ASSUME UNCHANGED <<saleVars, due>> PROVE DbTyped'
    BY <1>19 DEF saleVars, DbTyped
  <1>20. ASSUME NEW r \in Requests, Refuse(r) PROVE Typed'
    <2>1. turnedAway' \subseteq 1..Len(account)
      <3>1. scan.pos + 1 \in 1..Len(account)
        BY <1>20, UsdcAssumption
           DEF Refuse, ChainTyped, ScanTyped, ScanFits, Scans, Tokens
      <3> QED
        BY <1>20, <3>1 DEF Refuse, ChainTyped
    <2> QED
      BY <1>8, <1>17, <1>18, <1>19, <1>20, <2>1 DEF Refuse, saleVars, ChainTyped
  <1>21. ASSUME NEW r \in Requests, ReadIntent(r) PROVE Typed'
    <2>1. ASSUME NEW code, Answer(r, code) PROVE Typed'
      BY <1>17, <1>18, <1>19, <1>21, <2>1 DEF ReadIntent, saleVars, envVars, ChainTyped
    <2>2. ASSUME NEW s \in {"mark", "claim"}, Goto(r, s),
                 Exists(req[r].memo), req[r].memo # Unknown
          PROVE  Typed'
      <3>1. ReqTyped'
        BY <1>18, <1>21, <2>2, GotoTyped
           DEF ReadIntent, saleVars, envVars, ReqTyped, CallsFit
      <3> QED
        BY <1>19, <1>21, <2>2, <3>1
           DEF ReadIntent, Goto, saleVars, envVars, ScanTyped, ScanFits, ChainTyped
    <2> QED
      BY <1>21, <2>1, <2>2 DEF ReadIntent
  <1>22. ASSUME NEW r \in Requests, MarkExpired(r) PROVE Typed'
    <2>1. req[r].memo \in Intents
      BY <1>22 DEF MarkExpired, ReqTyped, CallsFit
    <2>2. /\ intent' \in [Intents -> Rows \cup {NoRow}]
          /\ \A i \in Intents : Exists(i) => Exists(i)'
      BY <1>22, <2>1 DEF MarkExpired, DbTyped, Rows, NoRow, Exists
    <2> QED
      BY <1>17, <1>22, <2>2 DEF MarkExpired, envVars, DbTyped, ChainTyped
  <1>23. ASSUME NEW r \in Requests, Claim(r) PROVE Typed'
    <2>1. req[r].memo \in Intents /\ req[r].tx \in Hashes /\ req[r].step # "idle"
      BY <1>23 DEF Claim, ReqTyped, CallsFit, ConfirmCalls
    <2>2. /\ intent' \in [Intents -> Rows \cup {NoRow}]
          /\ \A i \in Intents : Exists(i) => Exists(i)'
      BY <1>23, <2>1 DEF Claim, MayClaim, DbTyped, Rows, NoRow, Exists
    <2>3. CASE Answer(r, "5xx")
      BY <1>17, <1>23, <2>2, <2>3 DEF Claim, envVars, DbTyped, ChainTyped
    <2>4. CASE Goto(r, "issue")
      <3>1. ReqTyped'
        BY <1>23, <2>1, <2>2, <2>4, GotoTyped DEF Claim, envVars, ReqTyped, CallsFit
      <3> QED
        BY <1>23, <2>2, <2>4, <3>1
           DEF Claim, Goto, envVars, DbTyped, ScanTyped, ScanFits, ChainTyped
    <2> QED
      BY <1>23, <2>3, <2>4 DEF Claim
  <1>24. ASSUME NEW r \in Requests, LoseClaim(r) \/ IssueNotFound(r) PROVE Typed'
    BY <1>17, <1>18, <1>19, <1>24
       DEF LoseClaim, IssueNotFound, saleVars, envVars, ChainTyped
  <1>25. ASSUME NEW r \in Requests, Issue(r) PROVE Typed'
    <2>1. Bought(r) \in Licenses
      BY <1>25 DEF Issue, Bought, ReqTyped, CallsFit, ConfirmCalls, Licenses
    <2>2. licenses' \in Seq(Licenses) /\ Len(licenses') \in Nat
      BY <1>25, <2>1 DEF Issue, DbTyped
    <2>3. req' \in [Requests -> ConfirmCalls]
      BY <1>25, <2>2 DEF Issue, ReqTyped, ConfirmCalls
    <2>4. CallsFit'
      BY <1>25 DEF Issue, envVars, ReqTyped, CallsFit, ConfirmCalls, Exists
    <2>5. ScannersCalls'
      BY <1>25 DEF Issue, envVars, ReqTyped, ScannersCalls, ConfirmCalls
    <2> QED
      BY <1>25, <2>2, <2>3, <2>4, <2>5
         DEF Issue, envVars, DbTyped, ReqTyped, ScanTyped, ScanFits, ChainTyped
  <1>26. ASSUME NEW r \in Requests, Finish(r) PROVE Typed'
    <2>1. req[r].memo \in Intents /\ Exists(req[r].memo) /\ req[r].license \in Nat
      BY <1>26 DEF Finish, ReqTyped, CallsFit, ConfirmCalls
    <2>2. /\ intent' \in [Intents -> Rows \cup {NoRow}]
          /\ \A i \in Intents : Exists(i) => Exists(i)'
      BY <1>26, <2>1 DEF Finish, DbTyped, Rows, NoRow, Exists
    <2> QED
      BY <1>17, <1>26, <2>2 DEF Finish, envVars, DbTyped, ChainTyped
  <1>27. ASSUME NEW r \in Requests, MarkFails(r) \/ Fail(r) PROVE Typed'
    BY <1>8, <1>17, <1>18, <1>19, <1>27 DEF MarkFails, Fail, saleVars, envVars, ChainTyped
  <1>28. CASE UNCHANGED usdcVars
    BY <1>28 DEF usdcVars, ScanTyped, ScanFits, ReqTyped, CallsFit, ScannersCalls, Exists,
       DbTyped, ChainTyped
  <1> QED
    BY <1>1, <1>2, <1>3, <1>4, <1>9, <1>10, <1>11, <1>12, <1>13, <1>14, <1>15, <1>16,
       <1>20,
       <1>21, <1>22, <1>23, <1>24, <1>25, <1>26, <1>27, <1>28, <1>29, <1>30 DEF UsdcNext, ScanStep, Serve

\* The variables keep their types: in particular no page reaches beyond the
\* chain, and the saved cursor stays on it (usdc_scanner.rs).
THEOREM TypeCorrect == UsdcSpec => []UsdcTypeOK
  <1>1. TypeInv => UsdcTypeOK
    BY DEF TypeInv
  <1> QED
    BY <1>1, TypeInit, TypeNext, PTL DEF UsdcSpec
-----------------------------------------------------------------------------
(* One license for each claim. *)

\* A handler holds its intent from its claim until it answers.
Holds(r) == req[r].step \in {"issue", "finish"}

\* A handler past the checks was told enough, and the intent of one past the
\* claim is claimed by it.
Held ==
    \A r \in Requests :
        /\ req[r].step \in {"claim", "issue", "finish"} => req[r].enough
        /\ Holds(r) => intent[req[r].memo].tx = req[r].tx

\* No two handlers hold an intent.
HeldOnce ==
    \A q, r \in Requests :
        Holds(q) /\ Holds(r) /\ req[q].memo = req[r].memo => q = r

\* A handler about to issue is the first to do so for its intent.
Unissued == \A r \in Requests : req[r].step = "issue" => ~Licensed(req[r].memo)

\* A handler about to confirm has its license.
Issued ==
    \A r \in Requests : req[r].step = "finish" =>
        /\ req[r].license \in DOMAIN licenses
        /\ licenses[req[r].license].intent = req[r].memo
        /\ licenses[req[r].license].tx = req[r].tx

\* Licenses are of intents that exist and, unless an operator said otherwise, of
\* payments that were made.
LicensesFit ==
    \A n \in DOMAIN licenses :
        /\ Exists(licenses[n].intent) /\ licenses[n].tx # 0
        /\ ~licenses[n].byHand => licenses[n].tx \in 1..Len(account)

\* A transaction claims one intent (tx_hash UNIQUE).
TxOnce ==
    \A i, j \in Intents :
        Exists(i) /\ Exists(j) /\ intent[i].tx = intent[j].tx /\ intent[i].tx # 0 => i = j

ClaimInv ==
    /\ Held /\ HeldOnce /\ Unissued /\ Issued
    /\ LicensesFit /\ TxOnce /\ OneLicense /\ LicenseOfClaim

\* The steps that neither claim an intent nor issue nor confirm.
Keeps ==
    /\ licenses' = licenses
    /\ \A k \in 1..Len(account) : k \in 1..Len(account') /\ account'[k] = account[k]
    /\ \A i \in Intents :
          /\ Exists(i) =>
                /\ Exists(i)' /\ intent'[i].tx = intent[i].tx
                /\ intent'[i].license = intent[i].license
                /\ intent'[i].status = "confirmed" => intent[i].status = "confirmed"
          /\ Exists(i)' /\ ~Exists(i) => intent'[i].tx = 0 /\ intent'[i].status = "pending"
    /\ \A r \in Requests : req'[r].step \in {"claim", "issue", "finish"} =>
          \/ req'[r] = req[r]
          \/ req'[r].step = "claim" /\ req'[r].enough

\* A license row has an intent and a transaction.
LEMMA LicenseFields ==
    TypeInv => \A n \in DOMAIN licenses :
                  licenses[n].intent \in Intents /\ licenses[n].tx \in Hashes
  <1> SUFFICES ASSUME TypeInv, NEW n \in DOMAIN licenses
               PROVE  licenses[n].intent \in Intents /\ licenses[n].tx \in Hashes
    OBVIOUS
  <1>1. licenses \in Seq(Licenses)
    BY DEF TypeInv, UsdcTypeOK
  <1>2. licenses[n] \in Licenses
    BY <1>1
  <1> QED
    BY <1>2 DEF Licenses

\* They keep the claims and the licenses.
LEMMA KeepsClaims == TypeInv /\ ClaimInv /\ Keeps => ClaimInv'
  <1> SUFFICES ASSUME TypeInv, ClaimInv, Keeps PROVE ClaimInv'
    OBVIOUS
  <1>1. Held' /\ HeldOnce'
    <2>1. ASSUME NEW r \in Requests, req'[r].step \in {"issue", "finish"}
          PROVE  req'[r] = req[r]
      BY <2>1 DEF Keeps
    <2>2. ASSUME NEW r \in Requests, req'[r].step \in {"claim", "issue", "finish"}
          PROVE  req'[r].enough
      BY <2>2 DEF Keeps, ClaimInv, Held
    <2>3. ASSUME NEW r \in Requests, req'[r].step \in {"issue", "finish"}
          PROVE  intent'[req'[r].memo].tx = req'[r].tx
      <3>1. /\ req[r].memo \in Intents /\ Exists(req[r].memo)
            /\ intent[req[r].memo].tx = req[r].tx
        BY <2>1, <2>3 DEF TypeInv, CallsFit, ClaimInv, Held, Holds
      <3>2. QED
        BY <2>1, <2>3, <3>1 DEF Keeps
    <2>4. Held'
      BY <2>2, <2>3 DEF Held, Holds
    <2>5. HeldOnce'
      BY <2>1 DEF ClaimInv, HeldOnce, Holds
    <2>6. QED
      BY <2>4, <2>5
  <1>2. Unissued' /\ Issued'
    BY DEF ClaimInv, Unissued, Issued, Licensed, Keeps
  <1>3. LicensesFit'
    BY LicenseFields DEF ClaimInv, LicensesFit, Keeps
  <1>4. TxOnce'
    BY DEF ClaimInv, TxOnce, Keeps
  <1>5. OneLicense'
    BY DEF ClaimInv, OneLicense, Keeps
  <1>6. LicenseOfClaim'
    BY LicenseFields DEF ClaimInv, LicensesFit, LicenseOfClaim, Keeps
  <1> QED
    BY <1>1, <1>2, <1>3, <1>4, <1>5, <1>6 DEF ClaimInv

\* At first nothing is claimed and no license is issued.
LEMMA ClaimInit == UsdcInit => ClaimInv
  BY DEF UsdcInit, ClaimInv, Held, HeldOnce, Holds, Unissued, Issued, LicensesFit, TxOnce,
         OneLicense, LicenseOfClaim, Licensed, Exists, NoCall, NoRow

\* The claim of an intent that nobody holds, for an unused transaction.
LEMMA ClaimKeeps ==
    ASSUME TypeInv, ClaimInv, NEW r \in Requests, Claim(r), ~TxUsed(req[r].tx)
    PROVE  ClaimInv'
  <1> DEFINE i == req[r].memo
             k == req[r].tx
  <1>1. /\ i \in Intents /\ Exists(i) /\ k # 0 /\ req[r].enough
        /\ req[r].step = "claim" /\ intent[i].tx = 0 /\ intent[i].status = "pending"
    BY DEF Claim, MayClaim, TypeInv, CallsFit, ClaimInv, Held
  <1>2. /\ intent' = [intent EXCEPT ![i].tx = k]
        /\ req' = [req EXCEPT ![r].step = "issue"]
        /\ licenses' = licenses /\ account' = account
    BY DEF Claim, Goto, envVars
  <1>3. \A q \in Requests : Holds(q) => req[q].memo # i
    BY <1>1 DEF Holds, ClaimInv, Held, TypeInv, CallsFit
  <1>4. \A n \in DOMAIN licenses : licenses[n].intent # i
    BY <1>1, LicenseFields DEF ClaimInv, LicenseOfClaim, LicensesFit
  <1>5. /\ \A j \in Intents : Exists(j) <=> Exists(j)'
        /\ \A j \in Intents \ {i} : intent'[j] = intent[j]
        /\ intent'[i].tx = k /\ intent'[i].status = "pending"
    BY <1>1, <1>2 DEF Exists, TypeInv, UsdcTypeOK, Rows, NoRow
  <1>6. /\ \A q \in Requests \ {r} : req'[q] = req[q]
        /\ req'[r].step = "issue" /\ req'[r].memo = i /\ req'[r].tx = k
        /\ req'[r].enough = req[r].enough
    BY <1>2 DEF TypeInv, UsdcTypeOK, ConfirmCalls
  <1>7. Held'
    BY <1>1, <1>2, <1>3, <1>5, <1>6 DEF ClaimInv, Held, Holds, TypeInv, CallsFit
  <1>8. HeldOnce'
    BY <1>3, <1>6 DEF ClaimInv, HeldOnce, Holds
  <1>9. Unissued' /\ Issued'
    BY <1>2, <1>4, <1>6 DEF ClaimInv, Unissued, Issued, Licensed
  <1>10. LicensesFit'
    BY <1>2, <1>5, LicenseFields DEF ClaimInv, LicensesFit
  <1>11. TxOnce'
    BY <1>1, <1>5 DEF ClaimInv, TxOnce, TxUsed
  <1>12. OneLicense'
    BY <1>2 DEF ClaimInv, OneLicense
  <1>13. LicenseOfClaim'
    BY <1>2, <1>4, <1>5, LicenseFields DEF ClaimInv, LicenseOfClaim, LicensesFit
  <1> QED
    BY <1>7, <1>8, <1>9, <1>10, <1>11, <1>12, <1>13 DEF ClaimInv

\* The license of a claimed intent that has none.
LEMMA IssueKeeps ==
    ASSUME TypeInv, ClaimInv, NEW r \in Requests, Issue(r)
    PROVE  ClaimInv'
  <1> DEFINE i == req[r].memo
             k == req[r].tx
             N == Len(licenses) + 1
  <1>1. /\ i \in Intents /\ Exists(i) /\ k # 0
        /\ req[r].step = "issue" /\ intent[i].tx = k
        /\ ~req[r].byHand =>
              k \in 1..Len(account) /\ account[k].memo = i /\ account[k].enough
    <2>1. /\ i \in Intents /\ Exists(i) /\ k # 0 /\ req[r].step = "issue"
          /\ intent[i].tx = k /\ req[r].enough
      BY DEF Issue, TypeInv, CallsFit, ClaimInv, Held, Holds
    <2>2. ASSUME ~req[r].byHand
          PROVE  k \in 1..Len(account) /\ account[k].memo = i /\ account[k].enough
      BY <2>1, <2>2 DEF TypeInv, ScannersCalls
    <2> QED
      BY <2>1, <2>2
  <1>2. /\ DOMAIN licenses' = 1..N /\ DOMAIN licenses = 1..Len(licenses)
        /\ Len(licenses) \in Nat /\ Len(licenses') = N
        /\ \A n \in 1..Len(licenses) : licenses'[n] = licenses[n]
        /\ licenses'[N] = Bought(r)
        /\ Bought(r) = [intent |-> i, tx |-> k, byHand |-> req[r].byHand]
    BY DEF Issue, Bought, TypeInv, UsdcTypeOK
  <1>3. intent' = intent /\ account' = account
    BY DEF Issue, envVars
  <1>4. /\ \A q \in Requests \ {r} : req'[q] = req[q]
        /\ req'[r].step = "finish" /\ req'[r].memo = i /\ req'[r].tx = k
        /\ req'[r].enough = req[r].enough /\ req'[r].byHand = req[r].byHand
        /\ req'[r].license = N
    BY <1>2 DEF Issue, TypeInv, UsdcTypeOK, ConfirmCalls
  <1>5. \A n \in DOMAIN licenses : licenses[n].intent # i /\ licenses[n].tx # k
    <2>1. SUFFICES ASSUME NEW n \in DOMAIN licenses
                   PROVE  licenses[n].intent # i /\ licenses[n].tx # k
      OBVIOUS
    <2>2. licenses[n].intent # i
      BY <1>1 DEF ClaimInv, Unissued, Licensed
    <2>3. licenses[n].intent \in Intents /\ licenses[n].tx # 0
      BY LicenseFields DEF ClaimInv, LicensesFit
    <2>4. licenses[n].tx # k
      BY <1>1, <2>2, <2>3 DEF ClaimInv, TxOnce, LicenseOfClaim, LicensesFit
    <2> QED
      BY <2>2, <2>4
  <1>6. Held' /\ HeldOnce'
    BY <1>1, <1>3, <1>4 DEF ClaimInv, Held, HeldOnce, Holds
  <1>7. Unissued'
    <2>1. \A q \in Requests \ {r} : req[q].step = "issue" => req[q].memo # i
      BY <1>1 DEF ClaimInv, HeldOnce, Holds
    <2> QED
      BY <1>2, <1>4, <2>1 DEF ClaimInv, Unissued, Licensed
  <1>8. Issued'
    BY <1>2, <1>4 DEF ClaimInv, Issued
  <1>9. LicensesFit'
    BY <1>1, <1>2, <1>3, LicenseFields DEF ClaimInv, LicensesFit, Exists
  <1>10. TxOnce'
    BY <1>3 DEF ClaimInv, TxOnce, Exists
  <1>11. OneLicense'
    BY <1>2, <1>5 DEF ClaimInv, OneLicense
  <1>12. LicenseOfClaim'
    BY <1>1, <1>2, <1>3, LicenseFields DEF ClaimInv, LicenseOfClaim, Exists
  <1> QED
    BY <1>6, <1>7, <1>8, <1>9, <1>10, <1>11, <1>12 DEF ClaimInv

\* The confirmation of an intent with the license issued for it.
LEMMA FinishKeeps ==
    ASSUME TypeInv, ClaimInv, NEW r \in Requests, Finish(r)
    PROVE  ClaimInv'
  <1> DEFINE i == req[r].memo
  <1>1. /\ i \in Intents /\ Exists(i) /\ req[r].step = "finish"
        /\ intent[i].tx = req[r].tx /\ req[r].license \in DOMAIN licenses
        /\ licenses[req[r].license].intent = i
        /\ licenses[req[r].license].tx = req[r].tx
    BY DEF Finish, TypeInv, CallsFit, ClaimInv, Held, Issued, Holds
  <1>2. licenses' = licenses /\ account' = account
    BY DEF Finish, envVars
  <1>3. /\ \A j \in Intents : (Exists(j) <=> Exists(j)') /\ intent'[j].tx = intent[j].tx
        /\ \A j \in Intents \ {i} : intent'[j] = intent[j]
        /\ intent'[i].license = req[r].license
    BY <1>1 DEF Finish, Exists, TypeInv, UsdcTypeOK, Rows, NoRow
  <1>4. \A q \in Requests : req'[q] = req[q] \/ req'[q].step = "idle"
    BY DEF Finish, Answer, NoCall, TypeInv, UsdcTypeOK
  <1>5. Held' /\ HeldOnce'
    BY <1>2, <1>3, <1>4 DEF ClaimInv, Held, HeldOnce, Holds, TypeInv, CallsFit
  <1>6. Unissued' /\ Issued'
    BY <1>2, <1>4 DEF ClaimInv, Unissued, Issued, Licensed
  <1>7. LicensesFit'
    BY <1>2, <1>3, LicenseFields DEF ClaimInv, LicensesFit
  <1>8. TxOnce'
    BY <1>3 DEF ClaimInv, TxOnce
  <1>9. OneLicense'
    BY <1>2 DEF ClaimInv, OneLicense
  <1>10. LicenseOfClaim'
    BY <1>1, <1>2, <1>3, LicenseFields DEF ClaimInv, LicenseOfClaim
  <1> QED
    BY <1>5, <1>6, <1>7, <1>8, <1>9, <1>10 DEF ClaimInv

\* Every other step keeps what the claims and licenses are.
LEMMA OthersKeep ==
    ASSUME TypeInv, [UsdcNext]_usdcVars,
           \A r \in Requests : ~Issue(r) /\ ~Finish(r) /\ (Claim(r) => TxUsed(req[r].tx))
    PROVE  Keeps
  <1> DEFINE SameRows  == UNCHANGED intent
             SameChain ==
                \A k \in 1..Len(account) : k \in 1..Len(account') /\ account'[k] = account[k]
             Unmoved   ==
                \A r \in Requests :
                    req'[r] = req[r] \/ req'[r].step \in {"idle", "read", "mark"}
  <1>1. SameRows =>
          \A i \in Intents : Exists(i) =>
                /\ Exists(i)' /\ intent'[i].tx = intent[i].tx
                /\ intent'[i].license = intent[i].license
                /\ intent'[i].status = "confirmed" => intent[i].status = "confirmed"
    BY DEF Exists
  <1>2. SameRows => \A i \in Intents : Exists(i)' => Exists(i)
    BY DEF Exists
  <1>3. UNCHANGED account => SameChain
    BY DEF TypeInv, UsdcTypeOK
  <1>4. UNCHANGED req => Unmoved
    OBVIOUS
  <1>5. ASSUME NEW r \in Requests, NEW code, Answer(r, code) PROVE Unmoved
    BY <1>5 DEF Answer, NoCall, TypeInv, UsdcTypeOK
  <1>6. SameRows /\ SameChain /\ Unmoved /\ licenses' = licenses => Keeps
    BY <1>1, <1>2 DEF Keeps
  <1>7. ASSUME NEW i \in Intents, CreateIntent(i) PROVE Keeps
    <2>1. /\ \A j \in Intents : Exists(j) => intent'[j] = intent[j]
          /\ \A j \in Intents : Exists(j)' /\ ~Exists(j) =>
                intent'[j].tx = 0 /\ intent'[j].status = "pending"
      BY <1>7 DEF CreateIntent, Exists, TypeInv, UsdcTypeOK
    <2> QED
      BY <1>3, <1>7, <2>1 DEF CreateIntent, Keeps, Exists
  <1>8. ASSUME NEW i \in Intents, Expire(i) PROVE Keeps
    BY <1>3, <1>4, <1>6, <1>8 DEF Expire
  <1>9. CASE Pay
    <2>1. PICK p \in Payments : account' = Append(account, p)
      BY <1>9, UsdcAssumption DEF Pay, Payments
    <2>2. SameChain
      BY <2>1 DEF TypeInv, UsdcTypeOK
    <2> QED
      BY <1>4, <1>6, <1>9, <2>2 DEF Pay
  <1>10. CASE SetActive
    BY <1>3, <1>4, <1>6, <1>10 DEF SetActive
  <1>11. CASE ScanStep \/ EnsureFails \/ MemoError \/ GiveUp \/ SaveFails \/ Restart
    BY <1>3, <1>4, <1>6, <1>11
       DEF ScanStep, EnsureRow, Poll, SkipForeign, EndPage, Save, EnsureFails, MemoError,
           GiveUp, SaveFails, Restart, saleVars, envVars
  <1>12. ASSUME NEW r \in Requests, Report(r) \/ Operate(r) PROVE Keeps
    <2>1. Unmoved
      BY <1>12 DEF Report, Operate, TypeInv, UsdcTypeOK
    <2> QED
      BY <1>3, <1>6, <1>12, <2>1 DEF Report, Operate, saleVars, envVars
  <1>13. ASSUME NEW r \in Requests,
                Refuse(r) \/ LoseClaim(r) \/ IssueNotFound(r) \/ MarkFails(r) \/ Fail(r)
         PROVE  Keeps
    BY <1>3, <1>5, <1>6, <1>13
       DEF Refuse, LoseClaim, IssueNotFound, MarkFails, Fail, saleVars, envVars
  <1>14. ASSUME NEW r \in Requests, ReadIntent(r) PROVE Keeps
    <2>1. UNCHANGED <<intent, licenses, account>>
      BY <1>14 DEF ReadIntent, saleVars, envVars
    <2>2. CASE \E code : Answer(r, code)
      BY <1>3, <1>5, <1>6, <2>1, <2>2
    <2>3. CASE Goto(r, "mark")
      <3>1. Unmoved
        BY <2>3 DEF Goto, TypeInv, UsdcTypeOK, ConfirmCalls
      <3> QED
        BY <1>3, <1>6, <2>1, <3>1
    <2>4. CASE req[r].enough /\ Goto(r, "claim")
      <3>1. \A q \in Requests \ {r} : req'[q] = req[q]
        BY <2>4 DEF Goto, TypeInv, UsdcTypeOK
      <3>2. req'[r].step = "claim" /\ req'[r].enough = req[r].enough
        BY <2>4 DEF Goto, TypeInv, UsdcTypeOK, ConfirmCalls
      <3> QED
        BY <1>1, <1>2, <1>3, <2>1, <2>4, <3>1, <3>2 DEF Keeps
    <2> QED
      BY <1>14, <2>2, <2>3, <2>4 DEF ReadIntent
  <1>15. ASSUME NEW r \in Requests, MarkExpired(r) PROVE Keeps
    <2>1. req[r].memo \in Intents
      BY <1>15 DEF MarkExpired, TypeInv, CallsFit
    <2>2. \A i \in Intents :
             /\ Exists(i) =>
                   /\ Exists(i)' /\ intent'[i].tx = intent[i].tx
                   /\ intent'[i].license = intent[i].license
                   /\ intent'[i].status = "confirmed" => intent[i].status = "confirmed"
             /\ Exists(i)' => Exists(i)
      BY <1>15, <2>1 DEF MarkExpired, TypeInv, UsdcTypeOK, Rows, NoRow, Exists
    <2>3. Unmoved /\ SameChain /\ licenses' = licenses
      BY <1>3, <1>5, <1>15 DEF MarkExpired, envVars
    <2> QED
      BY <2>2, <2>3 DEF Keeps
  <1>16. ASSUME NEW r \in Requests, Claim(r) PROVE Keeps
    <2>1. TxUsed(req[r].tx)
      BY <1>16
    <2> QED
      BY <1>3, <1>5, <1>6, <1>16, <2>1 DEF Claim, envVars
  <1>17. CASE UNCHANGED usdcVars
    BY <1>3, <1>4, <1>6, <1>17 DEF usdcVars
  <1> QED
    BY <1>7, <1>8, <1>9, <1>10, <1>11, <1>12, <1>13, <1>14, <1>15, <1>16, <1>17
       DEF UsdcNext, Serve

\* The claims and licenses are consistent after every step.
LEMMA ClaimNext == TypeInv /\ ClaimInv /\ [UsdcNext]_usdcVars => ClaimInv'
  <1> SUFFICES ASSUME TypeInv, ClaimInv, [UsdcNext]_usdcVars PROVE ClaimInv'
    OBVIOUS
  <1>1. CASE \E r \in Requests : Claim(r) /\ ~TxUsed(req[r].tx)
    BY <1>1, ClaimKeeps
  <1>2. CASE \E r \in Requests : Issue(r)
    BY <1>2, IssueKeeps
  <1>3. CASE \E r \in Requests : Finish(r)
    BY <1>3, FinishKeeps
  <1>4. CASE \A r \in Requests : ~Issue(r) /\ ~Finish(r) /\ (Claim(r) => TxUsed(req[r].tx))
    BY <1>4, OthersKeep, KeepsClaims
  <1> QED
    BY <1>1, <1>2, <1>3, <1>4

\* Two confirms, a retry or a scan that starts again never issue two licenses
\* for one intent, nor two for one transaction (usdc_scanner.rs:24-28).
THEOREM AtMostOneLicense == UsdcSpec => []OneLicense
  <1>1. ClaimInv => OneLicense
    BY DEF ClaimInv
  <1> QED
    BY <1>1, TypeInit, TypeNext, ClaimInit, ClaimNext, PTL DEF UsdcSpec

\* Every license is of an intent that its transaction holds, one that the scanner
\* reported is of a payment of its memo in full, and a confirmed intent shows its
\* license (usdc_handlers.rs, confirm_intent).
THEOREM LicensesMatchClaims == UsdcSpec => []LicenseOfClaim
  <1>1. ClaimInv => LicenseOfClaim
    BY DEF ClaimInv
  <1> QED
    BY <1>1, TypeInit, TypeNext, ClaimInit, ClaimNext, PTL DEF UsdcSpec
-----------------------------------------------------------------------------
(* The purchases implement the ledger. *)

\* The refinement mapping, intent by intent.
TxOf(i) == IF Exists(i) THEN intent[i].tx ELSE 0

StateOf(i) ==
    IF ~Exists(i) THEN "none"
    ELSE IF Licensed(i) THEN "licensed"
    ELSE IF intent[i].tx # 0 THEN "claimed"
    ELSE IF intent[i].status = "expired" THEN "closed" ELSE "open"

\* A step that leaves every intent where it is.
LEMMA Stutters ==
    ASSUME \A j \in Intents : StateOf(j)' = StateOf(j) /\ TxOf(j)' = TxOf(j)
    PROVE  UNCHANGED Ledger!vars
  BY DEF Ledger!vars, StateOf, TxOf

\* At first no intent exists.
LEMMA InitImplements == UsdcInit => Ledger!Init
  BY DEF UsdcInit, Ledger!Init, Exists, NoRow

\* A new intent is open.
LEMMA OpenStep ==
    ASSUME TypeInv, ClaimInv, NEW i \in Intents, CreateIntent(i)
    PROVE  Ledger!Open(i)
  <1>1. ~Exists(i) /\ licenses' = licenses
    BY DEF CreateIntent
  <1>2. /\ Exists(i)' /\ intent'[i].tx = 0 /\ intent'[i].status = "pending"
        /\ \A j \in Intents \ {i} : intent'[j] = intent[j]
    BY DEF CreateIntent, Exists, NoRow, TypeInv, UsdcTypeOK
  <1>3. ~Licensed(i) /\ \A j \in Intents : Licensed(j)' <=> Licensed(j)
    BY <1>1 DEF Licensed, ClaimInv, LicensesFit
  <1>4. /\ StateOf(i) = "none" /\ TxOf(i) = 0
        /\ StateOf(i)' = "open" /\ TxOf(i)' = 0
        /\ \A j \in Intents \ {i} : StateOf(j)' = StateOf(j) /\ TxOf(j)' = TxOf(j)
    BY <1>1, <1>2, <1>3 DEF StateOf, TxOf, Exists
  <1> QED
    BY <1>4 DEF Ledger!Open, StateOf, TxOf

\* A past-due intent that is marked before anybody claimed it is closed.
LEMMA CloseStep ==
    ASSUME TypeInv, ClaimInv, NEW r \in Requests, MarkExpired(r)
    PROVE  (\E i \in Intents : Ledger!Close(i)) \/ UNCHANGED Ledger!vars
  <1>0. PICK i \in Intents : i = req[r].memo
    BY DEF MarkExpired, TypeInv, CallsFit
  <1>1. i \in Intents /\ Exists(i) /\ intent[i] \in Rows /\ licenses' = licenses
    BY <1>0 DEF MarkExpired, TypeInv, UsdcTypeOK, CallsFit, Exists
  <1>2. \A j \in Intents : Licensed(j)' <=> Licensed(j)
    BY <1>1 DEF Licensed
  <1>3. CASE intent[i].status # "pending"
    <2>1. intent' = intent
      BY <1>0, <1>3 DEF MarkExpired
    <2> QED
      BY <1>2, <2>1, Stutters DEF StateOf, TxOf, Exists
  <1>4. CASE intent[i].status = "pending"
    <2>1. intent' = [intent EXCEPT ![i].status = "expired"]
      BY <1>0, <1>4 DEF MarkExpired
    <2>2. /\ Exists(i)' /\ intent'[i].tx = intent[i].tx /\ intent'[i].status = "expired"
          /\ \A j \in Intents \ {i} : intent'[j] = intent[j]
      BY <1>1, <2>1 DEF Exists, NoRow, TypeInv, UsdcTypeOK, Rows
    <2>3. \A j \in Intents \ {i} : StateOf(j)' = StateOf(j) /\ TxOf(j)' = TxOf(j)
      BY <1>2, <2>2 DEF StateOf, TxOf, Exists
    <2>4. TxOf(i)' = TxOf(i)
      BY <1>1, <2>2 DEF TxOf
    <2>5. CASE Licensed(i) \/ intent[i].tx # 0
      <3>1. StateOf(i)' = StateOf(i)
        BY <1>1, <1>2, <2>2, <2>5 DEF StateOf
      <3> QED
        BY <2>3, <2>4, <3>1, Stutters
    <2>6. CASE ~Licensed(i) /\ intent[i].tx = 0
      <3>1. StateOf(i) = "open" /\ StateOf(i)' = "closed"
        BY <1>1, <1>2, <1>4, <2>2, <2>6 DEF StateOf
      <3>2. Ledger!Close(i)
        BY <1>1, <2>3, <2>4, <3>1 DEF Ledger!Close, StateOf, TxOf
      <3> QED
        BY <1>1, <3>2
    <2> QED
      BY <2>5, <2>6
  <1> QED
    BY <1>3, <1>4

\* The claim takes an open intent, for a transaction that claims no other.
LEMMA ClaimStep ==
    ASSUME TypeInv, ClaimInv, NEW r \in Requests, Claim(r), ~TxUsed(req[r].tx)
    PROVE  \E i \in Intents, k \in 1..MadeUp : Ledger!Claim(i, k)
  <1>0. PICK i \in Intents, k \in 1..MadeUp : i = req[r].memo /\ k = req[r].tx
    BY UsdcAssumption DEF Claim, TypeInv, UsdcTypeOK, CallsFit
  <1>1. /\ i \in Intents /\ Exists(i) /\ intent[i] \in Rows
        /\ intent[i].tx = 0 /\ intent[i].status = "pending"
        /\ k \in 1..MadeUp /\ k # 0
    BY <1>0, UsdcAssumption DEF Claim, MayClaim, TypeInv, UsdcTypeOK, CallsFit, Exists
  <1>2. intent' = [intent EXCEPT ![i].tx = k] /\ licenses' = licenses
    BY <1>0 DEF Claim
  <1>3. /\ Exists(i)' /\ intent'[i].tx = k
        /\ \A j \in Intents \ {i} : intent'[j] = intent[j]
    BY <1>1, <1>2 DEF Exists, NoRow, TypeInv, UsdcTypeOK, Rows
  <1>4. ~Licensed(i) /\ \A j \in Intents : Licensed(j)' <=> Licensed(j)
    BY <1>1, <1>2 DEF Licensed, ClaimInv, LicenseOfClaim, LicensesFit
  <1>5. /\ StateOf(i) = "open" /\ StateOf(i)' = "claimed" /\ TxOf(i)' = k
        /\ \A j \in Intents \ {i} : StateOf(j)' = StateOf(j) /\ TxOf(j)' = TxOf(j)
    BY <1>1, <1>3, <1>4 DEF StateOf, TxOf, Exists
  <1>6. \A j \in Intents : TxOf(j) # k
    BY <1>0, <1>1 DEF TxOf, TxUsed
  <1>7. Ledger!Claim(i, k)
    BY <1>1, <1>5, <1>6 DEF Ledger!Claim, StateOf, TxOf
  <1> QED
    BY <1>1, <1>7

\* The license goes to a claimed intent that has none.
LEMMA LicenseStep ==
    ASSUME TypeInv, ClaimInv, NEW r \in Requests, Issue(r)
    PROVE  \E i \in Intents : Ledger!License(i)
  <1> DEFINE N == Len(licenses) + 1
  <1>0. PICK i \in Intents : i = req[r].memo
    BY DEF Issue, TypeInv, CallsFit
  <1>1. /\ i \in Intents /\ Exists(i) /\ intent[i].tx # 0 /\ ~Licensed(i)
        /\ intent' = intent
    BY <1>0 DEF Issue, TypeInv, CallsFit, ClaimInv, Held, Holds, Unissued
  <1>2. /\ DOMAIN licenses' = 1..N /\ DOMAIN licenses = 1..Len(licenses)
        /\ Len(licenses) \in Nat
        /\ \A n \in 1..Len(licenses) : licenses'[n] = licenses[n]
        /\ licenses'[N].intent = i
    BY <1>0 DEF Issue, Bought, TypeInv, UsdcTypeOK
  <1>3. Licensed(i)' /\ \A j \in Intents \ {i} : Licensed(j)' <=> Licensed(j)
    BY <1>2 DEF Licensed
  <1>4. /\ StateOf(i) = "claimed" /\ StateOf(i)' = "licensed" /\ TxOf(i)' = TxOf(i)
        /\ \A j \in Intents \ {i} : StateOf(j)' = StateOf(j) /\ TxOf(j)' = TxOf(j)
    BY <1>1, <1>3 DEF StateOf, TxOf, Exists
  <1>5. Ledger!License(i)
    BY <1>1, <1>4 DEF Ledger!License, StateOf, TxOf
  <1> QED
    BY <1>1, <1>5

\* The confirmation changes nothing the ledger promises: the license is there.
LEMMA FinishStep ==
    ASSUME TypeInv, ClaimInv, NEW r \in Requests, Finish(r)
    PROVE  UNCHANGED Ledger!vars
  <1>0. PICK i \in Intents : i = req[r].memo
    BY DEF Finish, TypeInv, CallsFit
  <1>a. /\ req[r].license \in DOMAIN licenses
        /\ licenses[req[r].license].intent = i
    BY <1>0 DEF Finish, ClaimInv, Issued
  <1>b. Licensed(i)
    BY <1>a DEF Licensed
  <1>1. /\ i \in Intents /\ Exists(i) /\ intent[i] \in Rows /\ licenses' = licenses
        /\ Licensed(i)
    BY <1>0, <1>b DEF Finish, TypeInv, UsdcTypeOK, CallsFit, Exists
  <1>2. /\ Exists(i)' /\ intent'[i].tx = intent[i].tx
        /\ \A j \in Intents \ {i} : intent'[j] = intent[j]
    BY <1>0, <1>1 DEF Finish, Exists, NoRow, TypeInv, UsdcTypeOK, Rows
  <1>3. \A j \in Intents : Licensed(j)' <=> Licensed(j)
    BY <1>1 DEF Licensed
  <1>4. \A j \in Intents : StateOf(j)' = StateOf(j) /\ TxOf(j)' = TxOf(j)
    BY <1>1, <1>2, <1>3 DEF StateOf, TxOf, Exists
  <1> QED
    BY <1>4, Stutters

\* Every step of the purchases is a step of the ledger, or none.
LEMMA StepImplements ==
    TypeInv /\ ClaimInv /\ [UsdcNext]_usdcVars => [Ledger!Next]_(Ledger!vars)
  <1> SUFFICES ASSUME TypeInv, ClaimInv, [UsdcNext]_usdcVars
               PROVE  Ledger!Next \/ UNCHANGED Ledger!vars
    OBVIOUS
  <1>1. UNCHANGED <<intent, licenses>> => UNCHANGED Ledger!vars
    BY Stutters DEF StateOf, TxOf, Exists, Licensed
  <1>2. ASSUME NEW i \in Intents, CreateIntent(i) PROVE Ledger!Next
    BY <1>2, OpenStep DEF Ledger!Next
  <1>3. ASSUME NEW r \in Requests, MarkExpired(r) PROVE Ledger!Next \/ UNCHANGED Ledger!vars
    BY <1>3, CloseStep DEF Ledger!Next
  <1>4. ASSUME NEW r \in Requests, Claim(r) PROVE Ledger!Next \/ UNCHANGED Ledger!vars
    <2>1. CASE TxUsed(req[r].tx)
      BY <1>1, <1>4, <2>1 DEF Claim
    <2>2. CASE ~TxUsed(req[r].tx)
      BY <1>4, <2>2, ClaimStep DEF Ledger!Next
    <2> QED
      BY <2>1, <2>2
  <1>5. ASSUME NEW r \in Requests, Issue(r) PROVE Ledger!Next
    BY <1>5, LicenseStep DEF Ledger!Next
  <1>6. ASSUME NEW r \in Requests, Finish(r) PROVE UNCHANGED Ledger!vars
    BY <1>6, FinishStep
  <1>7. CASE UNCHANGED <<intent, licenses>>
    BY <1>1, <1>7
  <1> QED
    BY <1>2, <1>3, <1>4, <1>5, <1>6, <1>7
       DEF UsdcNext, usdcVars, Expire, Pay, SetActive, ScanStep, Poll, SkipForeign, EndPage,
           Save,
           EnsureRow, EnsureFails, MemoError, GiveUp, SaveFails, Restart, Report, Operate, Refuse, Serve, ReadIntent,
           LoseClaim,
           IssueNotFound, MarkFails, Fail, saleVars

\* Statement by statement, with requests interleaved and stopped anywhere, an
\* intent goes through the states a purchase promises (confirm_intent).
THEOREM PurchasesImplementLedger == UsdcSpec => Implements
  <1>1. UsdcSpec => []TypeInv
    BY TypeInit, TypeNext, PTL DEF UsdcSpec
  <1>2. UsdcSpec => []ClaimInv
    BY <1>1, ClaimInit, ClaimNext, PTL DEF UsdcSpec
  <1> QED
    BY <1>1, <1>2, InitImplements, StepImplements, PTL DEF UsdcSpec, Implements, Ledger!Spec

-----------------------------------------------------------------------------
(* The payment scanner's cursor. *)

\* What the property says of the payments up to the nth.
AccountedFor(k) ==
    \/ intent[account[k].memo].tx # 0 \/ Past(account[k].memo)
    \/ k \in turnedAway

Passed(n) == \A k \in 1..n : Sufficient(k) => AccountedFor(k)

\* Buyers pay for intents that exist.
PaidExist == \A k \in 1..Len(account) : account[k].memo \in Intents => Exists(account[k].memo)

\* An intent is closed as expired when it is past due, and has a license, or is
\* confirmed, when it was claimed.
RowsFit ==
    \A i \in Intents : Exists(i) =>
        /\ intent[i].status = "expired" => Past(i)
        /\ Settled(intent[i]) => intent[i].tx # 0

MarksFit == \A r \in Requests : req[r].step = "mark" => Past(req[r].memo)

\* The handler whose answer the scanner waits for serves the payment at hand.
WaitFits ==
    scan.step = "wait" =>
        /\ scan.req \in Requests /\ req[scan.req].step # "idle"
        /\ req[scan.req].tx = scan.pos + 1
        /\ req[scan.req].memo = account[scan.pos + 1].memo
        /\ req[scan.req].enough = account[scan.pos + 1].enough

SmallInv == PaidExist /\ RowsFit /\ MarksFit /\ WaitFits

CursorInv == SmallInv /\ Passed(cursor) /\ Passed(scan.pos)

\* At first there is no payment to account for.
LEMMA CursorInit == UsdcInit => CursorInv
  BY DEF UsdcInit, CursorInv, SmallInv, PaidExist, RowsFit, MarksFit, WaitFits, Passed,
         Exists,
         NoRow, NoCall, Asleep, Starting

\* What is accounted for stays so: rows, hours and refusals are not undone.
Grows ==
    /\ \A k \in 1..Len(account) : k \in 1..Len(account') /\ account'[k] = account[k]
    /\ \A i \in Intents : Exists(i) => Exists(i)' /\ (intent[i].tx # 0 => intent'[i].tx # 0)
    /\ due \subseteq due' /\ turnedAway \subseteq turnedAway'

\* No step undoes the end of an hour or a refusal.
LEMMA DueGrows == [UsdcNext]_usdcVars => due \subseteq due' /\ turnedAway \subseteq turnedAway'
  BY DEF UsdcNext, usdcVars, CreateIntent, Expire, Pay, SetActive, ScanStep, Poll,
         SkipForeign, EndPage,
         Save, EnsureRow, EnsureFails, MemoError, GiveUp, SaveFails, Restart, Report, Operate, Refuse, Serve, ReadIntent,
         MarkExpired, Claim, LoseClaim, Issue, IssueNotFound, Finish, MarkFails,
         Fail, envVars

\* No step undoes a claim or a payment.
LEMMA EveryStepGrows == TypeInv /\ ClaimInv /\ [UsdcNext]_usdcVars => Grows
  <1> SUFFICES ASSUME TypeInv, ClaimInv, [UsdcNext]_usdcVars PROVE Grows
    OBVIOUS
  <1>1. ASSUME NEW r \in Requests, Claim(r) \/ Issue(r) \/ Finish(r)
        PROVE  /\ account' = account
               /\ \A i \in Intents : Exists(i) =>
                     Exists(i)' /\ (intent[i].tx # 0 => intent'[i].tx # 0)
    <2>1. req[r].memo \in Intents /\ Exists(req[r].memo) /\ req[r].tx # 0
      BY <1>1 DEF Claim, Issue, Finish, TypeInv, CallsFit
    <2>2. intent[req[r].memo] \in Rows
      BY <2>1 DEF Exists, TypeInv, UsdcTypeOK
    <2>3. CASE Claim(r)
      BY <2>1, <2>2, <2>3 DEF Claim, envVars, Exists, TypeInv, UsdcTypeOK, Rows, NoRow
    <2>4. CASE Issue(r)
      BY <2>4 DEF Issue, envVars, Exists
    <2>5. CASE Finish(r)
      BY <2>1, <2>2, <2>5 DEF Finish, envVars, Exists, TypeInv, UsdcTypeOK, Rows, NoRow
    <2> QED
      BY <1>1, <2>3, <2>4, <2>5
  <1>2. CASE \E r \in Requests : Claim(r) \/ Issue(r) \/ Finish(r)
    BY <1>1, <1>2, DueGrows DEF Grows, TypeInv, UsdcTypeOK
  <1>3. CASE \A r \in Requests : ~Claim(r) /\ ~Issue(r) /\ ~Finish(r)
    BY <1>3, OthersKeep, DueGrows DEF Keeps, Grows
  <1> QED
    BY <1>2, <1>3

\* So what was accounted for stays accounted for.
LEMMA PassedStays ==
    ASSUME TypeInv, PaidExist, Grows, NEW n \in 0..Len(account), Passed(n)
    PROVE  Passed(n)'
  <1> SUFFICES ASSUME NEW k \in 1..n, Sufficient(k)' PROVE AccountedFor(k)'
    BY DEF Passed
  <1>1. k \in 1..Len(account) /\ account'[k] = account[k]
    BY DEF Grows, TypeInv, UsdcTypeOK
  <1>2. Sufficient(k) /\ account[k].memo \in Intents /\ Exists(account[k].memo)
    BY <1>1 DEF Sufficient, PaidExist
  <1>3. AccountedFor(k)
    BY <1>2 DEF Passed
  <1> QED
    BY <1>1, <1>2, <1>3 DEF AccountedFor, Past, Grows

\* An answer that lets the scanner pass the payment at hand.
Passes(r) ==
    /\ scan.step = "wait" /\ scan.req = r /\ scan' = Advance

\* Only a handled answer does.
LEMMA OnlyHandled ==
    ASSUME NEW r, NEW code, Answer(r, code)
    PROVE  scan' = scan \/ scan' = Halt \/ (Passes(r) /\ Handled(code))
  BY DEF Answer, Hear, Passes

\* The steps that may answer so.
Telling(r) ==
    \/ Refuse(r) \/ ReadIntent(r) \/ MarkExpired(r) \/ MarkFails(r)
    \/ LoseClaim(r) \/ IssueNotFound(r) \/ Finish(r)

\* The scanner moves on only past a payment that is not for the marketplace, or
\* at a handled answer.
LEMMA PosMoves ==
    ASSUME TypeInv, [UsdcNext]_usdcVars
    PROVE  \/ scan'.pos \in {scan.pos, cursor, 0}
           \/ SkipForeign
           \/ \E r \in Requests : Telling(r) /\ Passes(r)
  <1>1. Halt.pos = scan.pos
    BY HaltTyped DEF TypeInv, UsdcTypeOK, ScanTyped
  <1>2. ASSUME NEW r \in Requests, NEW code, Answer(r, code), ~Handled(code) \/ Telling(r)
        PROVE  scan'.pos = scan.pos \/ (Telling(r) /\ Passes(r))
    BY <1>1, <1>2, OnlyHandled
  <1>3. ASSUME NEW r \in Requests, Telling(r)
        PROVE  scan'.pos = scan.pos \/ Passes(r)
    BY <1>2, <1>3 DEF Telling, Refuse, ReadIntent, MarkExpired, MarkFails, LoseClaim,
                      IssueNotFound, Finish, Goto
  <1>4. ASSUME NEW r \in Requests, Claim(r) \/ Fail(r) PROVE scan'.pos = scan.pos
    <2>1. CASE Answer(r, "5xx")
      BY <1>1, <2>1, OnlyHandled DEF Handled
    <2>2. CASE Goto(r, "issue")
      BY <2>2 DEF Goto
    <2> QED
      BY <1>4, <2>1, <2>2 DEF Claim, Fail
  <1>5. ASSUME NEW r \in Requests, Report(r) PROVE scan'.pos = scan.pos
    BY <1>5 DEF Report, TypeInv, UsdcTypeOK, Scans
  <1>6. CASE ScanStep \/ EnsureFails \/ MemoError \/ GiveUp \/ SaveFails \/ Restart
    BY <1>1, <1>6 DEF ScanStep, Poll, EndPage, Save, EnsureRow, EnsureFails, MemoError, GiveUp, SaveFails, Restart,
       Asleep, Starting
  <1>7. CASE UNCHANGED scan
    BY <1>7
  <1> QED
    BY <1>3, <1>4, <1>5, <1>6, <1>7
       DEF UsdcNext, Serve, usdcVars, Telling, CreateIntent, Expire, Pay, SetActive, Operate,
           Issue

\* What a handled answer says of a sufficient payment.
LEMMA PassedAccounted ==
    ASSUME TypeInv, ClaimInv, CursorInv, Grows, NEW k, k = scan.pos + 1, Sufficient(k),
           NEW r \in Requests, Telling(r), Passes(r)
    PROVE  AccountedFor(k)'
  <1> DEFINE i == req[r].memo
  <1>1. /\ req[r].step # "idle" /\ req[r].tx = k /\ i = account[k].memo
        /\ i \in Intents /\ req[r].enough
        /\ k \in 1..Len(account)
    <2>1. req[r].step # "idle" /\ req[r].tx = k /\ i = account[k].memo /\ req[r].enough
          /\ i \in Intents
      BY DEF Passes, CursorInv, SmallInv, WaitFits, Sufficient
    <2>2. k \in 1..Len(account)
      BY UsdcAssumption DEF Passes, TypeInv, UsdcTypeOK, ScanFits, Scans, Tokens
    <2> QED
      BY <2>1, <2>2
  <1>2. account'[k] = account[k] /\ Exists(i) /\ k # 0
    BY <1>1 DEF Grows, CursorInv, SmallInv, PaidExist
  <1>3. intent[i] \in Rows
    BY <1>1, <1>2 DEF Exists, TypeInv, UsdcTypeOK
  <1>4. intent[i].tx # 0 \/ Past(i) => AccountedFor(k)'
    <2>1. intent[i].tx # 0 => intent'[i].tx # 0
      BY <1>1, <1>2 DEF Grows
    <2>2. Past(i) => i \in due'
      BY DEF Grows, Past
    <2> QED
      BY <1>1, <1>2, <2>1, <2>2 DEF AccountedFor, Past
  <1>5. i # Unknown
    BY <1>1, UsdcAssumption
  <1>6. CASE Refuse(r)
    BY <1>1, <1>6 DEF Refuse, AccountedFor
  <1>7. CASE ReadIntent(r)
    <2>1. Settled(intent[i]) => intent[i].tx # 0
      BY <1>1, <1>2 DEF CursorInv, SmallInv, RowsFit
    <2>2. ASSUME NEW s, Goto(r, s) PROVE FALSE
      BY <2>2 DEF Goto, Passes, Advance, TypeInv, UsdcTypeOK, Scans
    <2> QED
      BY <1>1, <1>2, <1>4, <1>5, <1>7, <2>1, <2>2 DEF ReadIntent
  <1>8. CASE MarkExpired(r) \/ MarkFails(r)
    BY <1>1, <1>4, <1>8 DEF MarkExpired, MarkFails, CursorInv, SmallInv, MarksFit
  <1>9. CASE LoseClaim(r)
    BY <1>1, <1>2, <1>3, <1>4, <1>9
       DEF LoseClaim, MayClaim, CursorInv, SmallInv, RowsFit, Settled, Rows
  <1>10. CASE IssueNotFound(r) \/ Finish(r)
    BY <1>1, <1>2, <1>4, <1>10 DEF IssueNotFound, Finish, ClaimInv, Held, Holds
  <1> QED
    BY <1>6, <1>7, <1>8, <1>9, <1>10 DEF Telling

\* The scanner's place is accounted for, and so is the saved cursor.
LEMMA PassedNext ==
    ASSUME TypeInv, TypeInv', ClaimInv, CursorInv, Grows, [UsdcNext]_usdcVars
    PROVE  Passed(cursor)' /\ Passed(scan.pos)'
  <1>1. /\ cursor \in 0..Len(account) /\ scan.pos \in 0..Len(account)
        /\ scan.reach \in Nat /\ scan.reach <= scan.pos
    BY UsdcAssumption DEF TypeInv, UsdcTypeOK, Scans, Tokens
  <1>2. ASSUME NEW n \in 0..Len(account), Passed(n)
        PROVE  \A k \in 1..n : (Sufficient(k) => AccountedFor(k))'
    BY <1>2, PassedStays DEF CursorInv, SmallInv, Passed
  <1>3. \A k \in 1..scan.pos : (Sufficient(k) => AccountedFor(k))'
    BY <1>1, <1>2 DEF CursorInv
  <1>4. \A k \in 1..cursor : (Sufficient(k) => AccountedFor(k))'
    BY <1>1, <1>2 DEF CursorInv
  <1>5. cursor' \in {cursor, scan.reach}
    BY DEF UsdcNext, usdcVars, CreateIntent, Expire, Pay, SetActive, ScanStep, Poll,
           SkipForeign, EndPage,
           Save, EnsureRow, EnsureFails, MemoError, GiveUp, SaveFails, Restart, Report, Operate, Refuse, Serve,
           ReadIntent,
           MarkExpired, Claim, LoseClaim, Issue, IssueNotFound, Finish, MarkFails, Fail
  <1>6. Passed(cursor)'
    BY <1>1, <1>3, <1>4, <1>5 DEF Passed
  <1>7. CASE scan'.pos \in {scan.pos, cursor, 0}
    BY <1>1, <1>3, <1>4, <1>6, <1>7 DEF Passed
  <1>8. ASSUME scan' = Advance, scan.pos < scan.end,
               \A k : k = scan.pos + 1 /\ Sufficient(k) => AccountedFor(k)'
        PROVE  Passed(scan.pos)'
    <2>1. scan'.pos = scan.pos + 1
      BY <1>1, <1>8 DEF Advance, TypeInv, UsdcTypeOK, Scans
    <2>2. scan.pos + 1 \in 1..Len(account)
      BY <1>1, <1>8, UsdcAssumption DEF TypeInv, UsdcTypeOK, Scans, Tokens
    <2>3. \A k \in {scan.pos + 1} : Sufficient(k)' => Sufficient(k)
      BY <2>2 DEF Sufficient, Grows
    <2>4. \A k \in {scan.pos + 1} : (Sufficient(k) => AccountedFor(k))'
      BY <1>8, <2>3
    <2> QED
      BY <1>1, <1>3, <2>1, <2>4 DEF Passed
  <1>9. CASE SkipForeign
    <2>1. scan.pos < scan.end /\ scan' = Advance
      BY <1>9 DEF SkipForeign, Examining
    <2>2. \A k : k = scan.pos + 1 => ~Sufficient(k)
      BY <1>9, UsdcAssumption DEF SkipForeign, AtHand, Sufficient
    <2> QED
      BY <1>6, <1>8, <2>1, <2>2
  <1>10. ASSUME NEW r \in Requests, Telling(r), Passes(r) PROVE Passed(scan.pos)'
    <2>1. scan.pos < scan.end /\ scan' = Advance
      BY <1>10 DEF Passes, TypeInv, ScanFits
    <2> QED
      BY <1>8, <1>10, <2>1, PassedAccounted
  <1> QED
    BY <1>6, <1>7, <1>9, <1>10, PosMoves

\* The small parts of the invariant.
LEMMA SmallNext ==
    ASSUME TypeInv, TypeInv', ClaimInv, SmallInv, Grows, [UsdcNext]_usdcVars
    PROVE  SmallInv'
  <1>1. PaidExist'
    <2>1. CASE account' = account
      BY <2>1 DEF SmallInv, PaidExist, Grows
    <2>2. CASE Pay
      <3>1. PICK p \in Payments :
               account' = Append(account, p) /\ (p.memo \in Intents => Exists(p.memo))
        BY <2>2, UsdcAssumption DEF Pay, Payments
      <3>2. /\ Len(account') = Len(account) + 1 /\ account'[Len(account) + 1] = p
            /\ \A k \in 1..Len(account) : account'[k] = account[k]
        BY <3>1 DEF TypeInv, UsdcTypeOK
      <3>3. \A j : Exists(j) => Exists(j)'
        BY <2>2 DEF Pay, Exists
      <3> QED
        BY <3>1, <3>2, <3>3 DEF SmallInv, PaidExist, TypeInv, UsdcTypeOK
    <2>3. account' = account \/ Pay
      BY DEF UsdcNext, usdcVars, CreateIntent, Expire, SetActive, ScanStep, Poll,
             SkipForeign, EndPage,
             Save, EnsureRow, EnsureFails, MemoError, GiveUp, SaveFails, Restart, Report, Operate, Refuse, Serve,
             ReadIntent,
             MarkExpired, Claim, LoseClaim, Issue, IssueNotFound, Finish, MarkFails,
             Fail, envVars
    <2> QED
      BY <2>1, <2>2, <2>3
  <1>2. RowsFit'
    <2>1. \A i \in Intents : Past(i) => Past(i)'
      BY DEF Past, Grows
    <2>2. ASSUME UNCHANGED intent PROVE RowsFit'
      BY <2>1, <2>2 DEF SmallInv, RowsFit, Exists
    <2>3. ASSUME NEW i \in Intents, CreateIntent(i) PROVE RowsFit'
      BY <2>1, <2>3 DEF CreateIntent, SmallInv, RowsFit, Settled, Exists, TypeInv,
         UsdcTypeOK
    <2>4. ASSUME NEW r \in Requests, MarkExpired(r) PROVE RowsFit'
      <3>1. req[r].memo \in Intents /\ Past(req[r].memo) /\ intent[req[r].memo] \in Rows
        BY <2>4 DEF MarkExpired, TypeInv, UsdcTypeOK, CallsFit, SmallInv, MarksFit, Exists
      <3>2. CASE intent[req[r].memo].status # "pending"
        BY <2>2, <2>4, <3>2 DEF MarkExpired
      <3>3. CASE intent[req[r].memo].status = "pending"
        <4>1. /\ intent' = [intent EXCEPT ![req[r].memo].status = "expired"]
              /\ intent'[req[r].memo].status = "expired"
              /\ intent'[req[r].memo].tx = intent[req[r].memo].tx
              /\ intent'[req[r].memo].license = intent[req[r].memo].license
              /\ \A j \in Intents \ {req[r].memo} : intent'[j] = intent[j]
          BY <2>4, <3>1, <3>3 DEF MarkExpired, TypeInv, UsdcTypeOK, Rows
        <4>2. Exists(req[r].memo)
          BY <3>1 DEF Exists, Rows, NoRow
        <4> QED
          BY <2>1, <3>1, <3>3, <4>1, <4>2 DEF SmallInv, RowsFit, Settled, Exists
      <3> QED
        BY <3>2, <3>3
    <2>5. ASSUME NEW r \in Requests, Claim(r) PROVE RowsFit'
      <3>1. req[r].memo \in Intents /\ intent[req[r].memo] \in Rows /\ req[r].tx # 0
        BY <2>5 DEF Claim, TypeInv, UsdcTypeOK, CallsFit, Exists
      <3>2. CASE TxUsed(req[r].tx)
        BY <2>2, <2>5, <3>2 DEF Claim
      <3>3. CASE ~TxUsed(req[r].tx)
        <4>1. /\ intent'[req[r].memo].status = intent[req[r].memo].status
              /\ intent'[req[r].memo].tx # 0
              /\ \A j \in Intents \ {req[r].memo} : intent'[j] = intent[j]
          <5>1. intent' = [intent EXCEPT ![req[r].memo].tx = req[r].tx]
            BY <2>5, <3>3 DEF Claim
          <5> QED
            BY <3>1, <5>1 DEF TypeInv, UsdcTypeOK, Rows
        <4>2. Exists(req[r].memo)
          BY <3>1 DEF Exists, Rows, NoRow
        <4> QED
          BY <2>1, <3>1, <4>1, <4>2 DEF SmallInv, RowsFit, Exists
      <3> QED
        BY <3>2, <3>3
    <2>6. ASSUME NEW r \in Requests, Finish(r) PROVE RowsFit'
      <3>1. /\ req[r].memo \in Intents /\ intent[req[r].memo] \in Rows
            /\ intent[req[r].memo].tx # 0
        BY <2>6 DEF Finish, TypeInv, UsdcTypeOK, CallsFit, ClaimInv, Held, Holds, Exists
      <3> QED
        BY <2>1, <2>6, <3>1
           DEF Finish, SmallInv, RowsFit, Settled, Exists, TypeInv, UsdcTypeOK, Rows
    <2> QED
      BY <2>2, <2>3, <2>4, <2>5, <2>6
         DEF UsdcNext, usdcVars, Expire, Pay, SetActive, ScanStep, Poll, SkipForeign,
             EndPage, Save,
             EnsureRow, EnsureFails, MemoError, GiveUp, SaveFails, Restart, Report, Operate, Refuse, Serve,
             ReadIntent, LoseClaim,
             Issue, IssueNotFound, MarkFails, Fail, saleVars
  <1>3. MarksFit'
    <2>1. ASSUME NEW r \in Requests, req'[r].step = "mark"
          PROVE  Past(req[r].memo)'
      <3>1. CASE req'[r] = req[r]
        BY <2>1, <3>1 DEF SmallInv, MarksFit, Past, Grows
      <3>2. CASE ReadIntent(r)
        <4>1. ~Goto(r, "claim") /\ \A code : ~Answer(r, code)
          BY <2>1 DEF Goto, Answer, NoCall, TypeInv, UsdcTypeOK, ConfirmCalls
        <4>2. /\ Goto(r, "mark") /\ Exists(req[r].memo) /\ req[r].memo # Unknown
              /\ intent[req[r].memo].status = "expired" \/ Past(req[r].memo)
          BY <3>2, <4>1 DEF ReadIntent
        <4>3. req[r].memo \in Intents /\ req'[r].memo = req[r].memo
          BY <3>2, <4>2 DEF ReadIntent, Goto, TypeInv, UsdcTypeOK, CallsFit, ConfirmCalls
        <4>4. Past(req[r].memo)
          BY <4>2, <4>3 DEF SmallInv, RowsFit
        <4> QED
          BY <4>3, <4>4 DEF Past, Grows
      <3>3. req'[r] = req[r] \/ ReadIntent(r)
        <4>1. ASSUME NEW q \in Requests, NEW code, Answer(q, code) PROVE req'[r] = req[r]
          BY <2>1, <4>1 DEF Answer, NoCall, TypeInv, UsdcTypeOK
        <4>2. ASSUME NEW q \in Requests, NEW t, Goto(q, t), t # "mark" \/ q # r
              PROVE  req'[r] = req[r]
          BY <2>1, <4>2 DEF Goto, TypeInv, UsdcTypeOK, ConfirmCalls
        <4>3. ASSUME NEW q \in Requests, ReadIntent(q), q # r PROVE req'[r] = req[r]
          BY <4>1, <4>2, <4>3 DEF ReadIntent
        <4>4. ASSUME NEW q \in Requests, Report(q) \/ Operate(q) \/ Issue(q)
              PROVE  req'[r] = req[r]
          BY <2>1, <4>4 DEF Report, Operate, Issue, TypeInv, UsdcTypeOK, ConfirmCalls
        <4>5. ASSUME NEW q \in Requests, Claim(q) PROVE req'[r] = req[r]
          BY <4>1, <4>2, <4>5 DEF Claim
        <4>6. ASSUME NEW q \in Requests,
                     \/ Refuse(q) \/ MarkExpired(q) \/ LoseClaim(q) \/ IssueNotFound(q)
                     \/ Finish(q) \/ MarkFails(q) \/ Fail(q)
              PROVE  req'[r] = req[r]
          BY <4>1, <4>6
             DEF Refuse, MarkExpired, LoseClaim, IssueNotFound, Finish, MarkFails, Fail
        <4>7. CASE UNCHANGED req
          BY <4>7
        <4> QED
          BY <4>3, <4>4, <4>5, <4>6, <4>7
             DEF UsdcNext, usdcVars, CreateIntent, Expire, Pay, SetActive, ScanStep, Poll,
                 SkipForeign,
                 EndPage, Save, EnsureRow, EnsureFails, MemoError, GiveUp, SaveFails, Restart, Serve
      <3> QED
        BY <3>1, <3>2, <3>3
    <2> QED
      BY <2>1 DEF MarksFit
  <1>4. WaitFits'
    <2>1. ASSUME UNCHANGED scan, scan.step = "wait",
                 /\ req'[scan.req].step # "idle"
                 /\ req'[scan.req].tx = req[scan.req].tx
                 /\ req'[scan.req].memo = req[scan.req].memo
                 /\ req'[scan.req].enough = req[scan.req].enough
          PROVE  WaitFits'
      <3>1. scan.pos + 1 \in 1..Len(account)
        BY <2>1, UsdcAssumption DEF TypeInv, UsdcTypeOK, ScanFits, Scans, Tokens
      <3>2. account'[scan.pos + 1] = account[scan.pos + 1]
        BY <3>1 DEF Grows
      <3> QED
        BY <2>1, <3>2 DEF SmallInv, WaitFits
    <2>2. ASSUME scan'.step # "wait" PROVE WaitFits'
      BY <2>2 DEF WaitFits
    <2>3. ASSUME UNCHANGED <<scan, req>> PROVE WaitFits'
      BY <2>1, <2>2, <2>3 DEF SmallInv, WaitFits
    <2>4. ASSUME NEW r \in Requests, NEW code, Answer(r, code) PROVE WaitFits'
      <3>1. Halt.step = "save" /\ Advance.step = "page"
        BY DEF Halt, Advance, TypeInv, UsdcTypeOK, Scans
      <3>2. CASE scan.step = "wait" /\ scan.req = r
        BY <2>2, <2>4, <3>1, <3>2 DEF Answer, Hear
      <3>3. CASE scan.step # "wait"
        BY <2>2, <2>4, <3>3 DEF Answer, Hear
      <3>4. CASE scan.step = "wait" /\ scan.req # r
        BY <2>1, <2>4, <3>4 DEF Answer, Hear, SmallInv, WaitFits, TypeInv, UsdcTypeOK
      <3> QED
        BY <3>2, <3>3, <3>4
    <2>5. ASSUME NEW r \in Requests, NEW s \in {"mark", "claim", "issue"}, Goto(r, s)
          PROVE  WaitFits'
      BY <2>1, <2>2, <2>5 DEF Goto, SmallInv, WaitFits, TypeInv, UsdcTypeOK, ConfirmCalls
    <2>6. ASSUME NEW r \in Requests, Issue(r) PROVE WaitFits'
      BY <2>1, <2>2, <2>6 DEF Issue, SmallInv, WaitFits, TypeInv, UsdcTypeOK, ConfirmCalls
    <2>7. ASSUME NEW r \in Requests, Operate(r) PROVE WaitFits'
      BY <2>1, <2>2, <2>7 DEF Operate, SmallInv, WaitFits, TypeInv, UsdcTypeOK, NoCall
    <2>8. ASSUME NEW r \in Requests, Report(r) PROVE WaitFits'
      BY <2>8 DEF Report, AtHand, WaitFits, TypeInv, UsdcTypeOK, Scans, envVars
    <2>9. CASE ScanStep \/ EnsureFails \/ MemoError \/ GiveUp \/ SaveFails \/ Restart
      <3>1. Halt.step = "save" /\ Advance.step = "page" /\ Asleep.step = "sleep" /\ Starting.step = "start"
        BY DEF Halt, Advance, Asleep, Starting, TypeInv, UsdcTypeOK, Scans
      <3>2. Poll => scan'.step = "page"
        BY DEF Poll
      <3> QED
        BY <2>2, <2>9, <3>1, <3>2
           DEF ScanStep, SkipForeign, EndPage, Save, EnsureRow, EnsureFails, MemoError, GiveUp, SaveFails, Restart
    <2> QED
      BY <2>3, <2>4, <2>5, <2>6, <2>7, <2>8, <2>9
         DEF UsdcNext, usdcVars, CreateIntent, Expire, Pay, SetActive, Refuse, Serve,
             ReadIntent,
             MarkExpired, Claim, LoseClaim, IssueNotFound, Finish, MarkFails, Fail
  <1> QED
    BY <1>1, <1>2, <1>3, <1>4 DEF SmallInv

\* The saved cursor and the scanner skip nothing in any step.
LEMMA CursorNext == TypeInv /\ ClaimInv /\ CursorInv /\ [UsdcNext]_usdcVars => CursorInv'
  BY TypeNext, EveryStepGrows, SmallNext, PassedNext DEF CursorInv

\* Faults anywhere in the cycle and scans that start again skip no sufficient
\* payment: the saved cursor passes it only when its intent is claimed or past
\* due, or the endpoint refused the scanner (usdc_scanner.rs:150-160).
THEOREM CursorSkipsNothing == UsdcSpec => []NothingSkipped
  <1>1. CursorInv => NothingSkipped
    BY DEF CursorInv, Passed, AccountedFor, NothingSkipped
  <1> QED
    BY <1>1, TypeInit, TypeNext, ClaimInit, ClaimNext, CursorInit, CursorNext, PTL
       DEF UsdcSpec
=============================================================================
