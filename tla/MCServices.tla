----------------------------- MODULE MCServices -----------------------------
(***************************************************************************)
(* Parts of the API server that share no row: a behaviour of one of them,  *)
(* picked at the start, is all there is to check.                          *)
(***************************************************************************)
EXTENDS Governance, Multisig, Resilience, RateLimit, SearchWalk, ReadCache, StripeCheckout, Archival, TLC

CONSTANTS
    v1, v2, d1, d2, c1, c2, c3, s1, s2, s3, u1, q1, q2, q3, x1, x2, x3, x4,
    a1, a2, r1, r2, y1, y2, e1, e2, e3, g1, g2,
    k1, k2, o1, w1, w2

VARIABLE part   \* the one that runs

MCDelegate == [v \in Voters |-> IF v = v2 THEN v1 ELSE Nobody]
MCSignerList == <<s1, s2, s3>>
MCOrdered == [p \in Proposals |-> p = d2]
MCContractId == [c \in Contracts |-> IF c = c3 THEN "another" ELSE "one"]
MCTarget == [p \in Proposals |-> IF p = d1 THEN c1 ELSE c3]
MCPaymentOf == [e \in Events |-> IF e = e3 THEN y2 ELSE y1]
MCLimitOf == [h \in Hits |-> IF h = x4 THEN 1 ELSE 2]
MCBurstLimitOf == [h \in Hits |-> 1]
MCSignedAt == [n \in Signatures |-> IF n = k1 THEN 2 ELSE 0]

Parts == {"governance", "multisig", "queue", "limiter", "search", "cache", "stripe",
          "archival"}

\* Archival jobs are alike.
Symmetry == Permutations(Jobs)

ArchivalTime == 4   \* bound of the clock for archival

mcVars == <<part, clock, govVars, msVars, resVars, limitVars,
           searchVars, cacheVars, stripeVars, archiveVars>>

MCInit ==
    /\ part \in Parts
    /\ GovInit /\ MsInit /\ ResInit /\ LimitInit /\ SearchInit /\ CacheInit /\ StripeInit
    /\ ArchiveInit
    /\ part # "governance" => delay = 0   \* the parts that do not read it need one value

MCNext ==
    \/ /\ part = "governance" /\ GovNext
       /\ UNCHANGED <<part, msVars, resVars, limitVars, searchVars, cacheVars, stripeVars, archiveVars>>
    \/ /\ part = "multisig" /\ MsNext
       /\ UNCHANGED <<part, govVars, resVars, limitVars, searchVars, cacheVars, stripeVars, archiveVars>>
    \/ /\ part = "queue" /\ ResNext
       /\ UNCHANGED <<part, clock, govVars, msVars, limitVars, searchVars, cacheVars, stripeVars, archiveVars>>
    \/ /\ part = "limiter" /\ LimitNext
       /\ UNCHANGED <<part, govVars, msVars, resVars, searchVars, cacheVars, stripeVars, archiveVars>>
    \/ /\ part = "search" /\ SearchNext
       /\ UNCHANGED <<part, clock, govVars, msVars, resVars, limitVars, cacheVars, stripeVars, archiveVars>>
    \/ /\ part = "cache" /\ CacheNext
       /\ UNCHANGED <<part, govVars, msVars, resVars, limitVars, searchVars, stripeVars, archiveVars>>
    \/ /\ part = "stripe" /\ StripeNext
       /\ UNCHANGED <<part, clock, govVars, msVars, resVars, limitVars, searchVars, cacheVars, archiveVars>>
    \/ /\ part = "archival" /\ ArchiveNext /\ clock' <= ArchivalTime
       /\ UNCHANGED <<part, govVars, msVars, resVars, limitVars, searchVars, cacheVars, stripeVars>>

MCSpec == MCInit /\ [][MCNext]_mcVars

\* Every variable of every part keeps its type; among what that excludes are a
\* vote without power, an unknown audit entry, a failure count beyond its
\* threshold and a bucket beyond its limit (governance_handlers.rs:501-511).
ServicesTypeOK ==
    /\ GovTypeOK /\ MsTypeOK /\ ResTypeOK /\ LimitTypeOK
    /\ SearchTypeOK /\ CacheTypeOK /\ StripeTypeOK /\ ArchiveTypeOK
=============================================================================
