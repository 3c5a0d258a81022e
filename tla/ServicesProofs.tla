--------------------------- MODULE ServicesProofs ---------------------------
(***************************************************************************)
(* The parts of the API server that share no row, taken together: whatever *)
(* part runs keeps its own invariant, and a part that does not run only    *)
(* sees the clock move.                                                    *)
(***************************************************************************)
EXTENDS MCServices, ApprovalProofs, TrafficProofs, RecordProofs

\* Parts whose invariant speaks of the clock keep it while they run; that of
\* the others cannot be disturbed.
PartsInv ==
    /\ GovTypeOK /\ MsTypeOK /\ ResInv /\ SearchInv /\ StripeInv
    /\ LimitTypeOK /\ CacheTypeOK /\ ArchiveTypeOK
    /\ part = "limiter" => LimitAll
    /\ part = "cache" => CacheInv
    /\ part = "archival" => ArchiveInv

LEMMA PartsInit == MCInit => PartsInv
  <1> SUFFICES ASSUME MCInit PROVE PartsInv
    OBVIOUS
  <1>1. clock = 0
    BY DEF MCInit, GovInit
  <1>2. GovTypeOK
    BY GovInitType DEF MCInit
  <1>3. MsTypeOK
    BY MsInitIInv DEF MCInit, MsIInv
  <1>4. ResInv
    BY ResInitInv DEF MCInit
  <1>5. SearchInv
    BY SearchInitInv DEF MCInit
  <1>6. StripeInv
    BY StripeInitInv DEF MCInit
  <1>7. LimitAll /\ LimitTypeOK
    BY LimitInitInv DEF MCInit, LimitAll, LimitInv
  <1>8. CacheInv /\ CacheTypeOK
    BY <1>1, CacheInitInv DEF MCInit, CacheInv
  <1>9. ArchiveInv /\ ArchiveTypeOK
    BY <1>1, ArchiveInitInv DEF MCInit, ArchiveInv
  <1> QED
    BY <1>2, <1>3, <1>4, <1>5, <1>6, <1>7, <1>8, <1>9 DEF PartsInv

\* A part that does not run keeps its type, whatever the clock does.
LEMMA IdleTypes ==
    ASSUME clock' \in Times
    PROVE  /\ GovTypeOK /\ UNCHANGED govVars => GovTypeOK'
           /\ MsTypeOK /\ UNCHANGED msVars => MsTypeOK'
           /\ LimitTypeOK /\ UNCHANGED limitVars => LimitTypeOK'
           /\ CacheTypeOK /\ UNCHANGED cacheVars => CacheTypeOK'
           /\ ArchiveTypeOK /\ UNCHANGED archiveVars => ArchiveTypeOK'
  <1>1. GovTypeOK /\ UNCHANGED govVars => GovTypeOK'
    BY DEF GovTypeOK, govVars
  <1>2. MsTypeOK /\ UNCHANGED msVars => MsTypeOK'
    BY DEF MsTypeOK, msVars
  <1>3. LimitTypeOK /\ UNCHANGED limitVars => LimitTypeOK'
    BY DEF LimitTypeOK, limitVars
  <1>4. CacheTypeOK /\ UNCHANGED cacheVars => CacheTypeOK'
    BY DEF CacheTypeOK, cacheVars
  <1>5. ArchiveTypeOK /\ UNCHANGED archiveVars => ArchiveTypeOK'
    BY DEF ArchiveTypeOK, archiveVars
  <1> QED
    BY <1>1, <1>2, <1>3, <1>4, <1>5

\* So does a part that no clock disturbs.
LEMMA IdleInvs ==
    /\ ResInv /\ UNCHANGED resVars => ResInv'
    /\ SearchInv /\ UNCHANGED searchVars => SearchInv'
    /\ StripeInv /\ UNCHANGED stripeVars => StripeInv'
  BY ResNextInv, SearchNextInv, StripeNextInv

\* One step: the part that runs keeps its invariant, the rest is idle.
LEMMA PartsNext == ASSUME PartsInv, [MCNext]_mcVars PROVE PartsInv'
  <1> USE DEF PartsInv
  <1>0. clock \in Times
    BY DEF GovTypeOK
  <1>1. CASE part = "governance" /\ GovNext /\ UNCHANGED <<part, msVars, resVars, limitVars, searchVars, cacheVars, stripeVars, archiveVars>>
    <2>1. GovTypeOK'
      BY <1>1, GovNextType
    <2>2. clock' \in Times
      BY <2>1 DEF GovTypeOK
    <2> QED
      BY <1>1, <2>1, <2>2, IdleTypes, IdleInvs
  <1>2. CASE part = "multisig" /\ MsNext /\ UNCHANGED <<part, govVars, resVars, limitVars, searchVars, cacheVars, stripeVars, archiveVars>>
    <2>1. MsTypeOK'
      BY <1>2, MsNextType
    <2>2. clock' \in Times
      BY <2>1 DEF MsTypeOK
    <2> QED
      BY <1>2, <2>1, <2>2, IdleTypes, IdleInvs
  <1>3. CASE part = "queue" /\ ResNext /\ UNCHANGED <<part, clock, govVars, msVars, limitVars, searchVars, cacheVars, stripeVars, archiveVars>>
    <2>1. ResInv'
      BY <1>3, ResNextInv
    <2>2. clock' \in Times
      BY <1>0, <1>3
    <2> QED
      BY <1>3, <2>1, <2>2, IdleTypes, IdleInvs
  <1>4. CASE part = "limiter" /\ LimitNext /\ UNCHANGED <<part, govVars, msVars, resVars, searchVars, cacheVars, stripeVars, archiveVars>>
    <2>1. LimitAll' /\ LimitTypeOK'
      BY <1>4, LimitNextInv DEF LimitAll, LimitInv
    <2>2. clock' \in Times
      BY <2>1 DEF LimitTypeOK
    <2> QED
      BY <1>4, <2>1, <2>2, IdleTypes, IdleInvs
  <1>5. CASE part = "search" /\ SearchNext /\ UNCHANGED <<part, clock, govVars, msVars, resVars, limitVars, cacheVars, stripeVars, archiveVars>>
    <2>1. SearchInv'
      BY <1>5, SearchNextInv
    <2>2. clock' \in Times
      BY <1>0, <1>5
    <2> QED
      BY <1>5, <2>1, <2>2, IdleTypes, IdleInvs
  <1>6. CASE part = "cache" /\ CacheNext /\ UNCHANGED <<part, govVars, msVars, resVars, limitVars, searchVars, stripeVars, archiveVars>>
    <2>1. CacheInv' /\ CacheTypeOK' /\ clock' \in Times
      BY <1>6, CacheNextInv DEF CacheInv
    <2> QED
      BY <1>6, <2>1, IdleTypes, IdleInvs
  <1>7. CASE part = "stripe" /\ StripeNext /\ UNCHANGED <<part, clock, govVars, msVars, resVars, limitVars, searchVars, cacheVars, archiveVars>>
    <2>1. StripeInv'
      BY <1>7, StripeNextInv
    <2>2. clock' \in Times
      BY <1>0, <1>7
    <2> QED
      BY <1>7, <2>1, <2>2, IdleTypes, IdleInvs
  <1>8. CASE part = "archival" /\ ArchiveNext /\ UNCHANGED <<part, govVars, msVars, resVars, limitVars, searchVars, cacheVars, stripeVars>>
    <2>1. ArchiveInv' /\ ArchiveTypeOK' /\ clock' \in Times
      BY <1>8, ArchiveNextInv DEF ArchiveInv
    <2> QED
      BY <1>8, <2>1, IdleTypes, IdleInvs
  <1>9. CASE UNCHANGED mcVars
    <2>1. UNCHANGED <<part, clock, govVars, msVars, resVars, limitVars, searchVars, cacheVars, stripeVars, archiveVars>>
      BY <1>9 DEF mcVars
    <2>2. LimitAll => LimitAll'
      BY <2>1, LimitNextInv
    <2>3. CacheInv => CacheInv'
      BY <2>1, CacheNextInv
    <2>4. ArchiveInv => ArchiveInv'
      BY <2>1, ArchiveNextInv
    <2>5. clock' \in Times
      BY <1>0, <2>1
    <2> QED
      BY <2>1, <2>2, <2>3, <2>4, <2>5, IdleTypes, IdleInvs
  <1> QED
    BY <1>1, <1>2, <1>3, <1>4, <1>5, <1>6, <1>7, <1>8, <1>9 DEF MCNext

\* Every variable of every part keeps its type for all values of the constants,
\* whichever part runs (governance_handlers.rs:501-523).
THEOREM ServicesType == MCSpec => []ServicesTypeOK
  <1>1. PartsInv => ServicesTypeOK
    BY DEF PartsInv, ServicesTypeOK, ResInv, SearchInv, WalkInv, StripeInv
  <1> QED
    BY <1>1, PartsInit, PartsNext, PTL DEF MCSpec
=============================================================================
