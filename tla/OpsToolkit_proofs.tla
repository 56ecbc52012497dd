------------------------- MODULE OpsToolkit_proofs -------------------------
(***************************************************************************)
(* The ops toolkit.  The reports of a registry never contradict themselves *)
(* or each other: each is that of some context.  And they never look       *)
(* better while an incident builds up in sight: a step makes a context     *)
(* worse, and every check that keeps its fact keeps that order.  Both come *)
(* from what holds of every report and of the folds over it, for every     *)
(* context (HealthChecks), which is the first part.                        *)
(*                                                                         *)
(* The prober never publishes part of a registry, and what it publishes of *)
(* a market was true, or no rosier than what was true, for any number of   *)
(* markets, retries and cycles and whatever the world does.                *)
(***************************************************************************)
EXTENDS HealthDrift, Prober, SequenceTheorems, TLAPS

(* A grade of the battery; the one check of tier P3 is never Critical.     *)
Grades == {g \in [status: 0 .. 2, severity: 0 .. 3]: g.severity = 3 => g.status < 2}

GradedReports == [CheckNames -> Grades]

(* run_all_checks grades every check of CHECK_NAMES, whatever the facts.   *)
LEMMA ReportShape ==
  ASSUME NEW c
  PROVE  run_all_checks(c) \in GradedReports
<1> USE DEF Grades, Result, Pass, Warn, Critical
<1>1. global_paused(c) \in Grades
  BY DEF global_paused, Raised
<1>2. market_paused(c) \in Grades
  BY DEF market_paused, Raised
<1>3. frozen_new_position(c) \in Grades
  BY DEF frozen_new_position, Raised
<1>4. schema_version_match(c) \in Grades
  BY DEF schema_version_match, Raised
<1>5. trading_activity(c) \in Grades
  BY DEF trading_activity, Raised
<1>6. pending_init_hints(c) \in Grades
  BY DEF pending_init_hints, Raised
<1>7. keeper_alive(c) \in Grades
  BY DEF keeper_alive, Raised
<1>8. keeper_skipped_actions_rate(c) \in Grades
  BY DEF keeper_skipped_actions_rate, Raised
<1>9. keeper_vol_estimator(c) \in Grades
  BY DEF keeper_vol_estimator, Raised
<1>10. leader_lock_initialized(c) \in Grades
  BY DEF leader_lock_initialized, Raised
<1>11. dormant_inventory(c) \in Grades
  BY DEF dormant_inventory, Graded
<1>12. recovery_outstanding(c) \in Grades
  BY DEF recovery_outstanding, Graded
<1>13. keeper_failed_actions_rate(c) \in Grades
  BY DEF keeper_failed_actions_rate, Graded
<1>14. keeper_wallet_balance(c) \in Grades
  BY DEF keeper_wallet_balance, Graded
<1>15. rpc_primary_latency(c) \in Grades
  BY DEF rpc_primary_latency, Graded
<1>16. rpc_primary_backup_lag(c) \in Grades
  BY DEF rpc_primary_backup_lag, Graded
<1>17. rpc_get_program_accounts_latency(c) \in Grades
  BY DEF rpc_get_program_accounts_latency, Graded
<1>18. oracle_slot_age(c) \in Grades
  BY DEF oracle_slot_age, Graded
<1>19. oracle_confidence(c) \in Grades
  BY DEF oracle_confidence, Graded
<1>20. position_principal_drift(c) \in Grades
  BY DEF position_principal_drift, Graded
<1>21. leader_lock_freshness(c) \in Grades
  BY DEF leader_lock_freshness, Status
<1>22. holder_matches_expected(c) \in Grades
  BY DEF holder_matches_expected, Status
<1> QED
  BY <1>1, <1>2, <1>3, <1>4, <1>5, <1>6, <1>7, <1>8, <1>9, <1>10, <1>11, <1>12,
     <1>13, <1>14, <1>15, <1>16, <1>17, <1>18, <1>19, <1>20, <1>21, <1>22
  DEF GradedReports, run_all_checks, CheckNames

(* The three reductions of such a report agree.                            *)
LEMMA FoldsAgree ==
  ASSUME NEW r \in GradedReports
  PROVE  /\ (exit_code_for_status(r) = 0) <=> (overall_status(r) = Pass)
         /\ (exit_code_for_status(r) >= 2) <=> (overall_status(r) = Critical)
<1>1. \A n \in DOMAIN r:
        /\ r[n].status \in 0 .. 2 /\ r[n].severity \in 0 .. 3
        /\ r[n].severity = 3 => r[n].status < 2
  BY DEF GradedReports, Grades
<1>2. Has(r, Critical, 0 .. 3) <=>
        Has(r, Critical, {0}) \/ Has(r, Critical, {1}) \/ Has(r, Critical, {2})
  BY <1>1 DEF Has, Critical
<1>3. ~Has(r, Critical, {3})
  BY <1>1 DEF Has, Critical
<1> QED
  BY <1>2, <1>3 DEF exit_code_for_status, overall_status, Status, Pass, Warn, Critical

(* The most urgent firing tier exists exactly when something fires.        *)
LEMMA FirstFiringTier ==
  ASSUME NEW r \in GradedReports
  PROVE  /\ (highest_firing_severity(r) = NoTier) <=> (exit_code_for_status(r) = 0)
         /\ exit_code_for_status(r) = 4 => highest_firing_severity(r) = 0
<1> DEFINE firing == {n \in DOMAIN r: r[n].status # Pass}
           Least(p) == /\ \E n \in firing: r[n].severity = p
                       /\ \A n \in firing: p <= r[n].severity
<1>1. \A n \in DOMAIN r: r[n].status \in 0 .. 2 /\ r[n].severity \in 0 .. 3
  BY DEF GradedReports, Grades
<1>2. (firing = {}) <=> (exit_code_for_status(r) = 0)
  <2>1. (firing = {}) <=> ~Has(r, Critical, 0 .. 3) /\ ~Has(r, Warn, 0 .. 3)
    BY <1>1 DEF Has, Pass, Warn, Critical
  <2> QED
    BY <2>1, FoldsAgree DEF overall_status, Status, Pass, Warn, Critical
<1>3. CASE firing = {}
  <2>1. exit_code_for_status(r) # 4
    BY <1>2, <1>3
  <2> QED
    BY <1>2, <1>3, <2>1 DEF highest_firing_severity, NoTier
<1>4. CASE firing # {}
  <2>1. \E p \in 0 .. 3: Least(p)
    <3> DEFINE tiers == {r[n].severity: n \in firing}
    <3>1. tiers \subseteq 0 .. 3 /\ tiers # {}
      BY <1>1, <1>4
    <3>2. \E p \in tiers: \A q \in tiers: p <= q
      <4>1. CASE 0 \in tiers
        BY <3>1, <4>1
      <4>2. CASE 0 \notin tiers /\ 1 \in tiers
        BY <3>1, <4>2
      <4>3. CASE 0 \notin tiers /\ 1 \notin tiers /\ 2 \in tiers
        BY <3>1, <4>3
      <4>4. CASE 0 \notin tiers /\ 1 \notin tiers /\ 2 \notin tiers
        <5>1. tiers = {3}
          BY <3>1, <4>4
        <5> QED
          BY <5>1
      <4> QED
        BY <4>1, <4>2, <4>3, <4>4
    <3> QED
      BY <3>1, <3>2
  <2>2. highest_firing_severity(r) = CHOOSE p \in 0 .. 3: Least(p)
    BY <1>4 DEF highest_firing_severity
  <2>3. highest_firing_severity(r) \in 0 .. 3 /\ Least(highest_firing_severity(r))
    BY <2>1, <2>2
  <2>4. ASSUME exit_code_for_status(r) = 4 PROVE highest_firing_severity(r) = 0
    <3>1. PICK n \in DOMAIN r: r[n].status = Critical /\ r[n].severity \in {0}
      BY <2>4 DEF exit_code_for_status, Has
    <3>2. n \in firing /\ r[n].severity = 0
      BY <3>1 DEF Pass, Critical
    <3> QED
      BY <2>3, <3>2
  <2> QED
    BY <1>2, <1>4, <2>3, <2>4 DEF NoTier
<1> QED
  BY <1>3, <1>4

-----------------------------------------------------------------------------
(* Worse facts, worse grades.                                              *)

(* What one grade adds to the exit code.                                   *)
Page(g) == IF g.status = Critical THEN 4 - g.severity ELSE g.status

NoMilder(g, h) == h.status >= g.status /\ Page(h) >= Page(g)

(* A check with two bounds, both of which are kept once crossed, and whose *)
(* milder branch does not page.                                            *)
LEMMA GradedClimbs ==
  ASSUME NEW a \in BOOLEAN, NEW b \in BOOLEAN, NEW x \in BOOLEAN, NEW y \in BOOLEAN,
         a => x, b => x \/ y,
         NEW p \in 0 .. 2, NEW w \in 0 .. 3, NEW o \in 0 .. 3
  PROVE  NoMilder(Graded(a, b, p, w, o), Graded(x, y, p, w, o))
BY DEF Graded, NoMilder, Page, Result, Pass, Warn, Critical

LEMMA RaisedClimbs ==
  ASSUME NEW a \in BOOLEAN, NEW x \in BOOLEAN, a => x, NEW tier \in 0 .. 2
  PROVE  NoMilder(Raised(a, Critical, tier), Raised(x, Critical, tier))
BY DEF Raised, NoMilder, Page, Result, Pass, Critical

LEMMA StatusClimbs ==
  ASSUME NEW a \in BOOLEAN, NEW b \in BOOLEAN, NEW x \in BOOLEAN, NEW y \in BOOLEAN,
         a => x, b => x \/ y, NEW tier \in 0 .. 2
  PROVE  NoMilder(Result(Status(a, b), tier), Result(Status(x, y), tier))
BY DEF Status, NoMilder, Page, Result, Pass, Warn, Critical

(* A grade that passes is the mildest of all.                              *)
LEMMA PassIsMildest ==
  ASSUME NEW g, g.status = Pass, NEW h \in Grades
  PROVE  NoMilder(g, h)
BY DEF Grades, NoMilder, Page, Pass, Critical

(* What a context holds, field by field.                                   *)
Numbers(c) ==
  /\ c.failed \in Nat /\ c.skipped \in Nat /\ c.warming \in Nat /\ c.wallet \in Nat
  /\ c.latency \in Nat /\ c.slot_diff \in Nat /\ c.gpa \in Nat /\ c.slot_age \in Nat
  /\ c.confidence \in Nat /\ c.notional \in Nat /\ c.recovery \in Nat /\ c.onchain \in Nat

LEMMA ContextNumbers == ASSUME NEW c \in HealthContext PROVE Numbers(c)
BY DEF HealthContext, Numbers

LEMMA PoolNumbers ==
  ASSUME NEW c \in HealthContext, NEW i \in Pools(c)
  PROVE  c.sub_pools[i].dormant_ticks \in Nat /\ c.sub_pools[i].hints \in Nat
<1>1. c.sub_pools \in Seq(PoolFacts) /\ i \in DOMAIN c.sub_pools
  BY DEF HealthContext, Pools
<1>2. c.sub_pools[i] \in PoolFacts
  BY <1>1
<1> QED
  BY <1>2 DEF PoolFacts

LEMMA LockNumbers ==
  ASSUME NEW lock \in LockFactsSeen
  PROVE  lock.threshold \in Nat /\ Elapsed(lock) \in Nat
BY DEF LockFactsSeen, Elapsed

(* Two locks in sight.                                                     *)
LEMMA LockClimbs ==
  ASSUME NEW c \in HealthContext, NEW d \in HealthContext,
         c.leader_lock # NoFacts, d.leader_lock # NoFacts,
         LockWorse(c.leader_lock, d.leader_lock)
  PROVE  /\ NoMilder(leader_lock_initialized(c), leader_lock_initialized(d))
         /\ NoMilder(leader_lock_freshness(c), leader_lock_freshness(d))
         /\ d.leader_lock.expected = c.leader_lock.expected =>
              NoMilder(holder_matches_expected(c), holder_matches_expected(d))
<1> DEFINE k == c.leader_lock
           l == d.leader_lock
<1>0. k \in LockFactsSeen /\ l \in LockFactsSeen
  BY DEF HealthContext
<1>1. NoMilder(leader_lock_initialized(c), leader_lock_initialized(d))
  <2> DEFINE a == k # NoFacts /\ ~k.initialized
             x == l # NoFacts /\ ~l.initialized
  <2>1. a => x
    BY DEF LockWorse
  <2>2. /\ leader_lock_initialized(c) = Raised(a, Critical, 1)
        /\ leader_lock_initialized(d) = Raised(x, Critical, 1)
    BY DEF leader_lock_initialized
  <2>3. a \in BOOLEAN /\ x \in BOOLEAN
    OBVIOUS
  <2> HIDE DEF a, x
  <2> QED
    BY <2>1, <2>2, <2>3, RaisedClimbs
<1>2. NoMilder(leader_lock_freshness(c), leader_lock_freshness(d))
  <2> DEFINE bar == IF k.threshold > 1 THEN k.threshold ELSE 1
             a == ~Owned(k) \/ 10 * Elapsed(k) >= 9 * bar
             b == 10 * Elapsed(k) >= 6 * bar
             x == ~Owned(l) \/ 10 * Elapsed(l) >= 9 * bar
             y == 10 * Elapsed(l) >= 6 * bar
  <2>1. /\ leader_lock_freshness(c) = Result(Status(a, b), 1)
        /\ leader_lock_freshness(d) = Result(Status(x, y), 1)
    BY DEF leader_lock_freshness, LockWorse, Owned
  <2>2. bar \in Nat
    BY <1>0, LockNumbers
  <2>3. Elapsed(k) \in Nat /\ Elapsed(l) \in Nat
    BY <1>0, LockNumbers
  <2>4. Elapsed(k) <= Elapsed(l) /\ (Owned(l) => Owned(k))
    BY DEF LockWorse
  <2> HIDE DEF bar
  <2>5. (a => x) /\ (b => x \/ y)
    BY <2>2, <2>3, <2>4
  <2>6. a \in BOOLEAN /\ b \in BOOLEAN /\ x \in BOOLEAN /\ y \in BOOLEAN
    OBVIOUS
  <2> HIDE DEF a, b, x, y
  <2> QED
    BY <2>1, <2>5, <2>6, StatusClimbs
<1>3. ASSUME l.expected = k.expected
      PROVE  NoMilder(holder_matches_expected(c), holder_matches_expected(d))
  <2> DEFINE a == /\ k.expected # NoFacts
                  /\ ~k.initialized \/ ~k.has_leader \/ k.leader # k.expected
             b == k.expected = NoFacts
             x == /\ l.expected # NoFacts
                  /\ ~l.initialized \/ ~l.has_leader \/ l.leader # l.expected
             y == l.expected = NoFacts
  <2>1. /\ holder_matches_expected(c) = Result(Status(a, b), 2)
        /\ holder_matches_expected(d) = Result(Status(x, y), 2)
    BY DEF holder_matches_expected
  <2>2. (a => x) /\ (b => x \/ y)
    BY <1>3 DEF LockWorse, Owned
  <2>3. a \in BOOLEAN /\ b \in BOOLEAN /\ x \in BOOLEAN /\ y \in BOOLEAN
    OBVIOUS
  <2> HIDE DEF a, b, x, y
  <2> QED
    BY <2>1, <2>2, <2>3, StatusClimbs
<1> QED
  BY <1>1, <1>2, <1>3

(* A lock that was out of sight passed, one that is passes.                *)
LEMMA NoLockPasses ==
  ASSUME NEW c, c.leader_lock = NoFacts
  PROVE  /\ leader_lock_initialized(c).status = Pass
         /\ leader_lock_freshness(c).status = Pass
         /\ holder_matches_expected(c).status = Pass
BY DEF leader_lock_initialized, leader_lock_freshness, holder_matches_expected,
       Raised, Result

(* What a step makes of one check: no milder while its fact is in sight,   *)
(* and not a page once it is not.                                          *)
Climbs(c, d, n) ==
  IF n \in Blinded(c, d) THEN run_all_checks(d)[n].status # Critical
  ELSE NoMilder(run_all_checks(c)[n], run_all_checks(d)[n])

LEMMA LockChecksClimb ==
  ASSUME NEW c \in HealthContext, NEW d \in HealthContext, Worse(c, d)
  PROVE  \A n \in LockChecks: Climbs(c, d, n)
<1> DEFINE k == c.leader_lock
           l == d.leader_lock
<1>1. /\ \A n \in LockChecks: run_all_checks(c)[n] \in Grades /\ run_all_checks(d)[n] \in Grades
  <2>1. LockChecks \subseteq CheckNames
    BY DEF LockChecks, CheckNames
  <2> QED
    BY <2>1, ReportShape DEF GradedReports
<1>2. \A x \in {c, d}:
        /\ run_all_checks(x)["leader_lock_initialized"] = leader_lock_initialized(x)
        /\ run_all_checks(x)["leader_lock_freshness"] = leader_lock_freshness(x)
        /\ run_all_checks(x)["holder_matches_expected"] = holder_matches_expected(x)
  BY DEF run_all_checks
<1>3. CASE k = NoFacts
  <2>1. \A n \in LockChecks: run_all_checks(c)[n].status = Pass
    BY <1>2, <1>3, NoLockPasses DEF LockChecks
  <2>2. \A n \in LockChecks: n \notin Blinded(c, d)
    BY <1>3 DEF Blinded, LockChecks
  <2> QED
    BY <1>1, <2>1, <2>2, PassIsMildest DEF Climbs
<1>4. CASE k # NoFacts /\ l = NoFacts
  <2>1. \A n \in LockChecks: run_all_checks(d)[n].status = Pass
    BY <1>2, <1>4, NoLockPasses DEF LockChecks
  <2>2. \A n \in LockChecks: n \in Blinded(c, d)
    BY <1>4 DEF Blinded
  <2> QED
    BY <2>1, <2>2 DEF Climbs, Pass, Critical
<1>5. CASE k # NoFacts /\ l # NoFacts
  <2>1. LockWorse(k, l)
    BY <1>5 DEF Worse
  <2>2. /\ NoMilder(leader_lock_initialized(c), leader_lock_initialized(d))
        /\ NoMilder(leader_lock_freshness(c), leader_lock_freshness(d))
        /\ l.expected = k.expected =>
             NoMilder(holder_matches_expected(c), holder_matches_expected(d))
    BY <1>5, <2>1, LockClimbs
  <2>3. /\ "leader_lock_initialized" \notin Blinded(c, d)
        /\ "leader_lock_freshness" \notin Blinded(c, d)
    BY <1>5 DEF Blinded
  <2>4. Climbs(c, d, "leader_lock_initialized") /\ Climbs(c, d, "leader_lock_freshness")
    BY <1>2, <2>2, <2>3 DEF Climbs
  <2>5. Climbs(c, d, "holder_matches_expected")
    <3>1. CASE l.expected = k.expected
      <4>1. "holder_matches_expected" \notin Blinded(c, d)
        BY <1>5, <3>1 DEF Blinded
      <4> QED
        BY <1>2, <2>2, <3>1, <4>1 DEF Climbs
    <3>2. CASE l.expected # k.expected
      <4>1. l.expected = NoFacts /\ k.expected # NoFacts
        BY <2>1, <3>2 DEF LockWorse
      <4>2. "holder_matches_expected" \in Blinded(c, d)
        BY <1>5, <4>1 DEF Blinded
      <4>3. holder_matches_expected(d).status = Warn
        BY <1>5, <4>1 DEF holder_matches_expected, Result, Status
      <4> QED
        BY <1>2, <4>2, <4>3 DEF Climbs, Warn, Critical
    <3> QED
      BY <3>1, <3>2
  <2> QED
    BY <2>4, <2>5 DEF LockChecks
<1> QED
  BY <1>3, <1>4, <1>5

LEMMA DriftCheckClimbs ==
  ASSUME NEW c \in HealthContext, NEW d \in HealthContext, Worse(c, d)
  PROVE  Climbs(c, d, "position_principal_drift")
<1> DEFINE name == "position_principal_drift"
<1>0. /\ run_all_checks(c)[name] = position_principal_drift(c)
      /\ run_all_checks(d)[name] = position_principal_drift(d)
  BY DEF run_all_checks
<1>1. Numbers(c) /\ Numbers(d)
  BY ContextNumbers
<1>2. position_principal_drift(c) \in Grades /\ position_principal_drift(d) \in Grades
  <2>1. name \in CheckNames
    BY DEF CheckNames
  <2> QED
    BY <1>0, <2>1, ReportShape DEF GradedReports
<1>3. CASE d.onchain = 0 /\ c.onchain # 0
  <2>1. name \in Blinded(c, d)
    BY <1>3 DEF Blinded
  <2>2. position_principal_drift(d).status = Pass
    BY <1>3 DEF position_principal_drift, Result
  <2> QED
    BY <1>0, <2>1, <2>2 DEF Climbs, Pass, Critical
<1>4. CASE ~(d.onchain = 0 /\ c.onchain # 0)
  <2>1. name \notin Blinded(c, d)
    BY <1>4 DEF Blinded, LockChecks
  <2>2. NoMilder(position_principal_drift(c), position_principal_drift(d))
    <3>1. CASE c.onchain = 0
      <4>1. position_principal_drift(c).status = Pass
        BY <3>1 DEF position_principal_drift, Result
      <4> QED
        BY <1>2, <4>1, PassIsMildest
    <3>2. CASE c.onchain # 0
      <4> DEFINE base == IF c.notional > 1 THEN c.notional ELSE 1
                 a == 100 * Gap(c) >= 2 * base
                 b == 1000 * Gap(c) >= 5 * base
                 x == 100 * Gap(d) >= 2 * base
                 y == 1000 * Gap(d) >= 5 * base
      <4>1. d.onchain # 0 /\ d.notional = c.notional /\ Gap(c) <= Gap(d)
        BY <1>4, <3>2 DEF Worse
      <4>2. /\ position_principal_drift(c) = Graded(a, b, 1, 2, 1)
            /\ position_principal_drift(d) = Graded(x, y, 1, 2, 1)
        BY <3>2, <4>1 DEF position_principal_drift, Gap
      <4>3. base \in Nat /\ Gap(c) \in Nat /\ Gap(d) \in Nat
        BY <1>1 DEF Numbers, Gap
      <4>4. Gap(c) <= Gap(d)
        BY <4>1
      <4> HIDE DEF base
      <4>5. (a => x) /\ (b => x \/ y)
        BY <4>3, <4>4
      <4>6. a \in BOOLEAN /\ b \in BOOLEAN /\ x \in BOOLEAN /\ y \in BOOLEAN
        OBVIOUS
      <4> HIDE DEF a, b, x, y
      <4>7. 1 \in 0 .. 2 /\ 2 \in 0 .. 3 /\ 1 \in 0 .. 3
        OBVIOUS
      <4>8. NoMilder(Graded(a, b, 1, 2, 1), Graded(x, y, 1, 2, 1))
        BY ONLY <4>5, <4>6, <4>7, GradedClimbs
      <4> QED
        BY <4>2, <4>8
    <3> QED
      BY <3>1, <3>2
  <2> QED
    BY <1>0, <2>1, <2>2 DEF Climbs
<1> QED
  BY <1>3, <1>4

(* The checks whose facts the prober always has.                           *)
SightedChecks == CheckNames \ (LockChecks \cup {"position_principal_drift"})

LEMMA SightedChecksClimb ==
  ASSUME NEW c \in HealthContext, NEW d \in HealthContext, Worse(c, d)
  PROVE  \A n \in SightedChecks: Climbs(c, d, n)
<1>0. Numbers(c) /\ Numbers(d)
  BY ContextNumbers
<1> USE DEF NoMilder, Page, Result, Pass, Warn, Critical
<1>1. NoMilder(global_paused(c), global_paused(d))
  BY DEF Worse, global_paused, Raised
<1>2. NoMilder(market_paused(c), market_paused(d))
  BY DEF Worse, market_paused, Raised
<1>3. NoMilder(frozen_new_position(c), frozen_new_position(d))
  BY DEF Worse, frozen_new_position, Raised
<1>4. NoMilder(schema_version_match(c), schema_version_match(d))
  BY DEF Worse, schema_version_match, Raised
<1>5. NoMilder(keeper_alive(c), keeper_alive(d))
  BY DEF Worse, keeper_alive, Raised
<1>6. NoMilder(keeper_skipped_actions_rate(c), keeper_skipped_actions_rate(d))
  BY <1>0 DEF Worse, Numbers, keeper_skipped_actions_rate, Raised
<1>7. NoMilder(keeper_vol_estimator(c), keeper_vol_estimator(d))
  BY <1>0 DEF Worse, Numbers, keeper_vol_estimator, Raised
<1>8. NoMilder(keeper_failed_actions_rate(c), keeper_failed_actions_rate(d))
  BY <1>0 DEF Worse, Numbers, keeper_failed_actions_rate, Graded
<1>9. NoMilder(keeper_wallet_balance(c), keeper_wallet_balance(d))
  BY <1>0 DEF Worse, Numbers, keeper_wallet_balance, Graded
<1>10. NoMilder(rpc_primary_latency(c), rpc_primary_latency(d))
  BY <1>0 DEF Worse, Numbers, rpc_primary_latency, Graded
<1>11. NoMilder(rpc_primary_backup_lag(c), rpc_primary_backup_lag(d))
  BY <1>0 DEF Worse, Numbers, rpc_primary_backup_lag, Graded
<1>12. NoMilder(rpc_get_program_accounts_latency(c), rpc_get_program_accounts_latency(d))
  BY <1>0 DEF Worse, Numbers, rpc_get_program_accounts_latency, Graded
<1>13. NoMilder(oracle_slot_age(c), oracle_slot_age(d))
  BY <1>0 DEF Worse, Numbers, oracle_slot_age, Graded
<1>14. NoMilder(oracle_confidence(c), oracle_confidence(d))
  BY <1>0 DEF Worse, Numbers, oracle_confidence, Graded
<1>15. NoMilder(trading_activity(c), trading_activity(d))
  BY DEF Worse, PoolsWorse, trading_activity, Raised
<1>16. NoMilder(dormant_inventory(c), dormant_inventory(d))
  <2>1. \A i \in Pools(c):
          /\ i \in Pools(d)
          /\ c.sub_pools[i].dormant_ticks \in Nat /\ d.sub_pools[i].dormant_ticks \in Nat
          /\ c.sub_pools[i].dormant_ticks <= d.sub_pools[i].dormant_ticks
    BY PoolNumbers DEF Worse, PoolsWorse
  <2> QED
    BY <2>1 DEF dormant_inventory, Graded
<1>17. NoMilder(pending_init_hints(c), pending_init_hints(d))
  <2>1. \A i \in Pools(c):
          /\ i \in Pools(d)
          /\ c.sub_pools[i].hints \in Nat /\ d.sub_pools[i].hints \in Nat
          /\ c.sub_pools[i].hints <= d.sub_pools[i].hints
    BY PoolNumbers DEF Worse, PoolsWorse
  <2> QED
    BY <2>1 DEF pending_init_hints, Raised
<1>18. NoMilder(recovery_outstanding(c), recovery_outstanding(d))
  BY <1>0 DEF Worse, Numbers, recovery_outstanding, Graded
<1> HIDE DEF NoMilder
<1>19. \A n \in SightedChecks: n \notin Blinded(c, d)
  <2>1. Blinded(c, d) \subseteq LockChecks \cup {"position_principal_drift"}
    BY DEF Blinded, LockChecks
  <2> QED
    BY <2>1 DEF SightedChecks
<1>20. \A n \in SightedChecks: NoMilder(run_all_checks(c)[n], run_all_checks(d)[n])
  BY <1>1, <1>2, <1>3, <1>4, <1>5, <1>6, <1>7, <1>8, <1>9, <1>10, <1>11, <1>12, <1>13, <1>14, <1>15, <1>16, <1>17, <1>18
  DEF run_all_checks, CheckNames, SightedChecks, LockChecks
<1> QED
  BY <1>19, <1>20 DEF Climbs

(* Every check of the battery.                                             *)
LEMMA ChecksClimb ==
  ASSUME NEW c \in HealthContext, NEW d \in HealthContext, Worse(c, d)
  PROVE  \A n \in CheckNames: Climbs(c, d, n)
BY SightedChecksClimb, LockChecksClimb, DriftCheckClimbs DEF SightedChecks

(* The exit code is that of the check that pages loudest.                  *)
LEMMA CodeClimbs ==
  ASSUME NEW r \in GradedReports, NEW q \in GradedReports,
         \A n \in CheckNames: NoMilder(r[n], q[n])
  PROVE  exit_code_for_status(q) >= exit_code_for_status(r)
<1> DEFINE Loud(x, k) == \E n \in CheckNames: Page(x[n]) >= k
<1>1. ASSUME NEW x \in GradedReports, NEW k \in 1 .. 4
      PROVE  exit_code_for_status(x) >= k <=> Loud(x, k)
  <2>1. \A n \in CheckNames: x[n].status \in 0 .. 2 /\ x[n].severity \in 0 .. 3
    BY DEF GradedReports, Grades
  <2>2. DOMAIN x = CheckNames
    BY DEF GradedReports
  <2> QED
    BY <2>1, <2>2 DEF exit_code_for_status, Has, Page, Pass, Warn, Critical
<1>2. \A k \in 1 .. 4: Loud(r, k) => Loud(q, k)
  <2>1. \A n \in CheckNames: Page(r[n]) \in Int /\ Page(q[n]) \in Int
    BY DEF GradedReports, Grades, Page
  <2> QED
    BY <2>1 DEF NoMilder
<1>3. exit_code_for_status(r) \in 0 .. 4 /\ exit_code_for_status(q) \in 0 .. 4
  BY DEF exit_code_for_status
<1> HIDE DEF Loud
<1> QED
  BY <1>1, <1>2, <1>3

LEMMA StepClimbs ==
  ASSUME NEW c \in HealthContext, NEW d \in HealthContext, Worse(c, d)
  PROVE  NoBetter(run_all_checks(c), run_all_checks(d), Blinded(c, d))
<1> DEFINE old == run_all_checks(c)
           new == run_all_checks(d)
           blind == Blinded(c, d)
<1>1. old \in GradedReports /\ new \in GradedReports
  BY ReportShape
<1>2. \A n \in CheckNames: Climbs(c, d, n)
  BY ChecksClimb
<1>3. blind \subseteq CheckNames
  BY DEF Blinded, LockChecks, CheckNames
<1>4. Without(old, blind) \in GradedReports
  <2>1. Result(Pass, 0) \in Grades
    BY DEF Grades, Result, Pass
  <2> HIDE DEF old, blind
  <2> QED
    BY <1>1, <2>1 DEF Without, GradedReports
<1>5. \A n \in CheckNames: NoMilder(Without(old, blind)[n], new[n])
  <2> SUFFICES ASSUME NEW n \in CheckNames PROVE NoMilder(Without(old, blind)[n], new[n])
    OBVIOUS
  <2>1. CASE n \in blind
    <3>1. Without(old, blind)[n].status = Pass
      BY <2>1 DEF Without, Result
    <3>2. new[n] \in Grades
      BY <1>1 DEF GradedReports
    <3> QED
      BY <3>1, <3>2, PassIsMildest
  <2>2. CASE n \notin blind
    <3>1. Without(old, blind)[n] = old[n]
      BY <2>2 DEF Without
    <3>2. NoMilder(old[n], new[n])
      BY <1>2, <2>2 DEF Climbs
    <3> QED
      BY <3>1, <3>2
  <2> QED
    BY <2>1, <2>2
<1>6. exit_code_for_status(new) >= exit_code_for_status(Without(old, blind))
  <2> HIDE DEF old, new, blind
  <2> QED
    BY <1>1, <1>4, <1>5, CodeClimbs
<1>7. /\ \A n \in CheckNames \ blind: new[n].status >= old[n].status
      /\ \A n \in blind: new[n].status # Critical
  BY <1>2, <1>3 DEF Climbs, NoMilder
<1> QED
  BY <1>6, <1>7 DEF NoBetter

-----------------------------------------------------------------------------
(* The reports of the drifting markets.                                    *)

GradedAll == report \in [Watched -> GradedReports]

LEMMA GradedStart == DriftInit => GradedAll
BY ReportShape DEF DriftInit, GradedAll

LEMMA GradedStep == GradedAll /\ [DriftNext]_driftVars => GradedAll'
<1> SUFFICES ASSUME GradedAll, [DriftNext]_driftVars PROVE GradedAll'
  OBVIOUS
<1>1. ASSUME NEW w \in Watched, NEW d, Worsen(w, d) PROVE GradedAll'
  BY <1>1, ReportShape DEF Worsen, GradedAll
<1>2. CASE UNCHANGED driftVars
  BY <1>2 DEF driftVars, GradedAll
<1> QED
  BY <1>1, <1>2 DEF DriftNext

(* The worst code over any set of reports is one of theirs, or 0.          *)
LEMMA WorstIsAttained ==
  ASSUME NEW rs, \A i \in DOMAIN rs: rs[i] \in GradedReports
  PROVE  /\ worst_exit_code(rs) \in 0 .. 4
         /\ \/ worst_exit_code(rs) = 0
            \/ \E i \in DOMAIN rs:
                 worst_exit_code(rs) = exit_code_for_status(rs[i])
         /\ \A i \in DOMAIN rs:
              exit_code_for_status(rs[i]) <= worst_exit_code(rs)
<1> DEFINE codes == {exit_code_for_status(rs[i]): i \in DOMAIN rs} \cup {0}
<1>1. codes \subseteq 0 .. 4 /\ 0 \in codes
  BY DEF exit_code_for_status
<1>2. \E w \in codes: \A code \in codes: code <= w
  <2> HIDE DEF codes
  <2>1. CASE 4 \in codes
    BY <1>1, <2>1
  <2>2. CASE 4 \notin codes /\ 3 \in codes
    BY <1>1, <2>2
  <2>3. CASE 4 \notin codes /\ 3 \notin codes /\ 2 \in codes
    BY <1>1, <2>3
  <2>4. CASE 4 \notin codes /\ 3 \notin codes /\ 2 \notin codes /\ 1 \in codes
    BY <1>1, <2>4
  <2>5. CASE 4 \notin codes /\ 3 \notin codes /\ 2 \notin codes /\ 1 \notin codes
    <3>1. \A code \in codes: code = 0
      BY <1>1, <2>5
    <3> QED
      BY <1>1, <3>1
  <2> QED
    BY <2>1, <2>2, <2>3, <2>4, <2>5
<1>3. worst_exit_code(rs) = CHOOSE w \in codes: \A code \in codes: code <= w
  BY DEF worst_exit_code
<1>4. /\ worst_exit_code(rs) \in codes
      /\ \A code \in codes: code <= worst_exit_code(rs)
  BY <1>2, <1>3
<1> QED
  BY <1>1, <1>4

(* So it tells the same story as the protocol's line.                      *)
LEMMA ProtocolFoldsAgree ==
  ASSUME NEW rs, \A i \in DOMAIN rs: rs[i] \in GradedReports
  PROVE  ProtocolAgrees(rs)
<1> DEFINE worst == worst_exit_code(rs)
           code(i) == exit_code_for_status(rs[i])
<1>1. \A i \in DOMAIN rs:
        /\ (code(i) = 0) <=> (overall_status(rs[i]) = Pass)
        /\ (code(i) >= 2) <=> (overall_status(rs[i]) = Critical)
        /\ code(i) \in 0 .. 4
        /\ overall_status(rs[i]) \in {Pass, Warn, Critical}
  BY FoldsAgree DEF exit_code_for_status, overall_status, Status
<1>2. /\ worst \in 0 .. 4
      /\ worst = 0 \/ \E i \in DOMAIN rs: worst = code(i)
      /\ \A i \in DOMAIN rs: code(i) <= worst
  BY WorstIsAttained
<1> HIDE DEF worst, code
<1>3. (worst >= 2) <=> \E i \in DOMAIN rs: overall_status(rs[i]) = Critical
  BY <1>1, <1>2
<1>4. (worst = 0) <=> \A i \in DOMAIN rs: overall_status(rs[i]) = Pass
  BY <1>1, <1>2
<1>5. (protocol_severity(rs) = 1)
        <=> \E i \in DOMAIN rs: overall_status(rs[i]) = Critical
  BY DEF protocol_severity, WithStatus, NoTier
<1>6. (protocol_severity(rs) = NoTier)
        <=> \A i \in DOMAIN rs: overall_status(rs[i]) = Pass
  BY <1>1 DEF protocol_severity, WithStatus, NoTier, Pass, Warn, Critical
<1> QED
  BY <1>3, <1>4, <1>5, <1>6 DEF ProtocolAgrees, worst

(* For any number of markets and any values of their facts, the exit code, *)
(* the overall status and the most urgent firing tier of every report      *)
(* agree on whether something fires and on whether it pages, and so do the *)
(* protocol's line and the worst code over all of them.                    *)
THEOREM ReductionsAgree == DriftSpec => []ReportsAgree
<1>1. GradedAll => ReportsAgree
  <2> SUFFICES ASSUME GradedAll PROVE ReportsAgree
    OBVIOUS
  <2>1. \A w \in Watched: PagerAgrees(report[w])
    BY FoldsAgree, FirstFiringTier DEF GradedAll, PagerAgrees
  <2>2. ProtocolAgrees(report)
    BY ProtocolFoldsAgree DEF GradedAll
  <2> QED
    BY <2>1, <2>2 DEF ReportsAgree
<1> QED
  BY <1>1, GradedStart, GradedStep, PTL DEF DriftSpec

-----------------------------------------------------------------------------
(* An incident never looks better.                                         *)

(* What is reported of a market is what its facts say.                     *)
FactsReported ==
  /\ facts \in [Watched -> HealthContext]
  /\ report = [w \in Watched |-> run_all_checks(facts[w])]

(* A value one context may have of a fact, every other may have too.       *)
LEMMA OneFact ==
  ASSUME NEW c \in HealthContext, NEW fact, NEW v,
         [AtFirst EXCEPT ![fact] = v] \in HealthContext
  PROVE  [c EXCEPT ![fact] = v] \in HealthContext
<1> DEFINE s == [AtFirst EXCEPT ![fact] = v]
           d == [c EXCEPT ![fact] = v]
<1>0. DOMAIN AtFirst = DOMAIN c
  BY DriftParameters DEF DriftParameters, HealthContext
<1>1. CASE fact \in DOMAIN c
  <2>1. s[fact] = v
    BY <1>0, <1>1
  <2> QED
    BY <1>1, <2>1 DEF HealthContext
<1>2. CASE fact \notin DOMAIN c
  <2>1. d = c
    BY <1>2 DEF HealthContext
  <2> QED
    BY <2>1
<1> QED
  BY <1>1, <1>2

LEMMA WorseOfItself == ASSUME NEW c \in HealthContext PROVE Worse(c, c)
<1>1. Numbers(c)
  BY ContextNumbers
<1>2. PoolsWorse(c, c)
  BY PoolNumbers DEF PoolsWorse
<1>3. c.leader_lock # NoFacts => LockWorse(c.leader_lock, c.leader_lock)
  <2>1. c.leader_lock # NoFacts => Elapsed(c.leader_lock) \in Nat
    BY LockNumbers DEF HealthContext
  <2> QED
    BY <2>1 DEF LockWorse
<1>4. Gap(c) \in Nat
  BY <1>1 DEF Numbers, Gap
<1> QED
  BY <1>1, <1>2, <1>3, <1>4 DEF Worse, Numbers

LEMMA FactsStart == DriftInit => FactsReported
BY DriftParameters DEF DriftInit, DriftParameters, FactsReported

LEMMA FactsStep ==
  ASSUME FactsReported, NEW w \in Watched, NEW fact \in DOMAIN Values, NEW v \in Values[fact],
         Worsen(w, [facts[w] EXCEPT ![fact] = v])
  PROVE  FactsReported'
<1> DEFINE d == [facts[w] EXCEPT ![fact] = v]
<1>1. d \in HealthContext
  <2>1. [AtFirst EXCEPT ![fact] = v] \in HealthContext
    BY DriftParameters DEF DriftParameters
  <2> QED
    BY <2>1, OneFact DEF FactsReported
<1>2. facts' = [facts EXCEPT ![w] = d] /\ report' = [report EXCEPT ![w] = run_all_checks(d)]
  BY DEF Worsen
<1> HIDE DEF d
<1> QED
  BY <1>1, <1>2 DEF FactsReported

(* For any number of markets, from any facts and to any values of them:    *)
(* while a fact is in sight its checks do not step down, the exit code     *)
(* falls by no more than the checks that lost theirs, and those do not     *)
(* page.                                                                   *)
THEOREM IncidentsOnlyGetLouder == DriftSpec => NeverLooksBetter
<1> DEFINE Louder ==
      \A w \in Watched: NoBetter(report[w], report'[w], Blinded(facts[w], facts'[w]))
<1>1. FactsReported /\ [DriftNext]_driftVars => FactsReported'
  <2> SUFFICES ASSUME FactsReported, [DriftNext]_driftVars PROVE FactsReported'
    OBVIOUS
  <2>1. CASE DriftNext
    BY <2>1, FactsStep DEF DriftNext
  <2>2. CASE UNCHANGED driftVars
    BY <2>2 DEF driftVars, FactsReported
  <2> QED
    BY <2>1, <2>2
<1>2. FactsReported /\ [DriftNext]_driftVars => [Louder]_driftVars
  <2> SUFFICES ASSUME FactsReported,
                      NEW x \in Watched, NEW fact \in DOMAIN Values, NEW v \in Values[fact],
                      Worsen(x, [facts[x] EXCEPT ![fact] = v]),
                      NEW w \in Watched
               PROVE  NoBetter(report[w], report'[w], Blinded(facts[w], facts'[w]))
    BY DEF DriftNext
  <2>1. FactsReported'
    BY FactsStep
  <2>2. /\ facts[w] \in HealthContext /\ facts'[w] \in HealthContext
        /\ report[w] = run_all_checks(facts[w]) /\ report'[w] = run_all_checks(facts'[w])
    BY <2>1 DEF FactsReported
  <2>3. Worse(facts[w], facts'[w])
    <3>1. CASE w = x
      BY <3>1 DEF Worsen, FactsReported
    <3>2. CASE w # x
      <4>1. facts'[w] = facts[w]
        BY <3>2 DEF Worsen, FactsReported
      <4> QED
        BY <2>2, <4>1, WorseOfItself
    <3> QED
      BY <3>1, <3>2
  <2> QED
    BY <2>2, <2>3, StepClimbs
<1> QED
  BY <1>1, <1>2, FactsStart, PTL DEF DriftSpec, NeverLooksBetter

(***************************************************************************)
(* The prober.                                                             *)
(***************************************************************************)
(* Before the files are written the report has one entry per market read;  *)
(* from then on it is complete, and an aborted cycle has none.             *)
Progress ==
  /\ at \in Symbols
  /\ reports \in Seq(GradedReports)
  /\ pc \in {"accounts", "slot", "backup", "positions", "checks", "prom",
             "prom body", "json", "json body", "end", "asleep", "exited"}
  /\ pc \in {"accounts", "slot", "backup", "positions", "checks"} =>
       Len(reports) = at - 1
  /\ pc \in {"prom", "prom body", "json", "json body"} => Len(reports) = NMarkets

PublishInv == Progress /\ StrictPublish

LEMMA OrderFollows ==
  \A call \in {"accounts", "slot", "backup", "positions"}:
    After(call) \in {"accounts", "slot", "backup", "positions", "checks"}
<1>1. \A j \in 1 .. 4: Order[j] \in {"accounts", "slot", "backup", "positions"}
  BY DEF Order
<1>2. \A call \in {"accounts", "slot", "backup", "positions"}:
        \E j \in 1 .. 4: Order[j] = call
  BY DEF Order
<1> SUFFICES ASSUME NEW call \in {"accounts", "slot", "backup", "positions"}
             PROVE  After(call) \in {"accounts", "slot", "backup", "positions", "checks"}
  OBVIOUS
<1> DEFINE i == CHOOSE j \in 1 .. 4: Order[j] = call
<1>3. i \in 1 .. 4
  BY <1>2
<1> HIDE DEF i
<1>4. i < 4 => i + 1 \in 1 .. 4
  BY <1>3
<1> QED
  BY <1>1, <1>4 DEF After, i

LEMMA HasMarkets == NMarkets \in Nat /\ NMarkets > 0
BY ProberParameters DEF ProberParameters

LEMMA PublishStart == Init => PublishInv
<1> SUFFICES ASSUME Init PROVE PublishInv
  OBVIOUS
<1>1. at = 1 /\ pc = "accounts" /\ reports = <<>> /\ prom = NoFile /\ json = NoFile
  BY DEF Init
<1>2. at \in Symbols /\ Len(reports) = at - 1
  BY <1>1, HasMarkets DEF Symbols
<1> QED
  BY <1>1, <1>2 DEF PublishInv, Progress, StrictPublish, Whole

(* A call of a fetch leaves the report alone and stays inside the fetch.   *)
LEMMA PublishAnswer ==
  ASSUME PublishInv, NEW call \in {"accounts", "slot", "backup", "positions"},
         NEW ctx, NEW now, Answer(call, ctx, now)
  PROVE  PublishInv'
<1>1. pc = call /\ pc' = After(call) /\ UNCHANGED <<at, reports, prom, json>>
  BY DEF Answer
<1>2. pc' \in {"accounts", "slot", "backup", "positions", "checks"}
  BY <1>1, OrderFollows
<1>3. Len(reports) = at - 1
  BY <1>1 DEF PublishInv, Progress
<1> QED
  BY <1>1, <1>2, <1>3 DEF PublishInv, Progress, StrictPublish, Whole

LEMMA PublishChecks == ASSUME PublishInv, RunChecks PROVE PublishInv'
<1> DEFINE r == run_all_checks(WithExpected(WithSlot(got, clock)))
<1>1. r \in GradedReports
  BY ReportShape
<1> HIDE DEF r
<1>2. reports' = Append(reports, r) /\ UNCHANGED <<prom, json>> /\ pc = "checks"
  BY DEF RunChecks, r
<1>a. at \in Nat /\ 1 <= at /\ at <= NMarkets /\ NMarkets \in Nat
  <2>1. at \in 1 .. NMarkets
    BY DEF PublishInv, Progress, Symbols
  <2> QED
    BY <2>1, HasMarkets
<1>3. reports' \in Seq(GradedReports) /\ Len(reports') = at
  <2>1. Len(reports) = at - 1 /\ reports \in Seq(GradedReports) /\ at \in Nat
    BY <1>2 DEF PublishInv, Progress, Symbols
  <2>2. Len(Append(reports, r)) = Len(reports) + 1
    BY <1>1, <2>1
  <2> QED
    BY <1>1, <1>2, <2>1, <2>2
<1>4. CASE at < NMarkets
  <2>1. at' = at + 1 /\ pc' = "accounts"
    BY <1>4 DEF RunChecks, Order
  <2>2. at' \in Symbols /\ Len(reports') = at' - 1
    BY <1>a, <1>3, <1>4, <2>1 DEF Symbols
  <2> QED
    BY <1>2, <1>3, <2>1, <2>2 DEF PublishInv, Progress, StrictPublish, Whole
<1>5. CASE ~(at < NMarkets)
  <2>1. at' = at /\ pc' = "prom"
    BY <1>5 DEF RunChecks
  <2>2. at = NMarkets
    BY <1>a, <1>5
  <2> QED
    BY <1>2, <1>3, <2>1, <2>2 DEF PublishInv, Progress, StrictPublish, Whole
<1> QED
  BY <1>4, <1>5

LEMMA PublishWrites == ASSUME PublishInv, Publish PROVE PublishInv'
<1> USE DEF PublishInv, Progress, StrictPublish, Whole
<1>1. UNCHANGED <<at, reports>>
  BY DEF Publish
<1>2. CASE Truncate
  BY <1>1, <1>2 DEF Truncate
<1>3. CASE Body
  BY <1>1, <1>3 DEF Body
<1>4. CASE WriteFails /\ UNCHANGED <<prom, json>>
  BY <1>1, <1>4 DEF WriteFails
<1> QED
  BY <1>2, <1>3, <1>4 DEF Publish

LEMMA EmptyReport == <<>> \in Seq(GradedReports) /\ Len(<<>>) = 0
OBVIOUS

LEMMA PublishCycle ==
  ASSUME PublishInv, Retry \/ Abort \/ EndCycle \/ Wake
  PROVE  PublishInv'
<1>1. CASE Retry
  BY <1>1 DEF Retry, PublishInv, Progress, StrictPublish, Whole
<1>2. CASE Abort
  <2>1. pc' = "end" /\ reports' = <<>> /\ UNCHANGED <<at, prom, json>>
    BY <1>2 DEF Abort, Abandon
  <2> QED
    BY <2>1, EmptyReport DEF PublishInv, Progress, StrictPublish, Whole
<1>3. CASE EndCycle
  <2>1. pc' \in {"exited", "asleep"} /\ UNCHANGED <<at, reports, prom, json>>
    BY <1>3 DEF EndCycle
  <2> QED
    BY <2>1 DEF PublishInv, Progress, StrictPublish, Whole
<1>4. CASE Wake
  <2>1. at' = 1 /\ pc' = "accounts" /\ reports' = <<>> /\ UNCHANGED <<prom, json>>
    BY <1>4 DEF Wake, Order
  <2>2. at' \in Symbols
    BY <2>1, HasMarkets DEF Symbols
  <2>3. Len(reports') = at' - 1
    BY <2>1, EmptyReport
  <2> QED
    BY <2>1, <2>2, <2>3, EmptyReport DEF PublishInv, Progress, StrictPublish, Whole
<1> QED
  BY <1>1, <1>2, <1>3, <1>4

LEMMA WorldLeavesProber == World => UNCHANGED prober
<1> USE DEF Change
<1>1. ASSUME NEW s \in Symbols,
             \/ Pause(s) \/ Freeze(s) \/ Garble(s) \/ LoseLock(s) \/ Beat(s)
             \/ TakeOver(s) \/ Trade(s) \/ Drift(s) \/ Rot(s)
      PROVE  UNCHANGED prober
  BY <1>1 DEF Pause, Freeze, Garble, LoseLock, Beat, TakeOver, Trade, Drift, Rot
<1>2. Halt \/ Tick => UNCHANGED prober
  BY DEF Halt, Tick
<1>3. ASSUME NEW service \in Services, Break(service) PROVE UNCHANGED prober
  BY <1>3 DEF Break
<1> QED
  BY <1>1, <1>2, <1>3 DEF World

LEMMA PublishStep == ASSUME PublishInv, [Next]_vars PROVE PublishInv'
<1>1. CASE get_multiple_accounts \/ get_slot \/ backup_slot \/ fetch_open_interest
  BY <1>1, PublishAnswer
  DEF get_multiple_accounts, get_slot, backup_slot, fetch_open_interest
<1>2. CASE Retry \/ Abort \/ EndCycle \/ Wake
  BY <1>2, PublishCycle
<1>3. CASE RunChecks
  BY <1>3, PublishChecks
<1>4. CASE Publish
  BY <1>4, PublishWrites
<1>5. CASE World \/ UNCHANGED vars
  <2>1. UNCHANGED prober
    BY <1>5, WorldLeavesProber DEF vars
  <2> QED
    BY <2>1 DEF prober, PublishInv, Progress, StrictPublish, Whole
<1> QED
  BY <1>1, <1>2, <1>3, <1>4, <1>5 DEF Next, Probe

(* A whole file always reports the whole registry.                         *)
THEOREM NothingPartial == Spec => []StrictPublish
<1>1. PublishInv /\ [Next]_vars => PublishInv'
  BY PublishStep
<1>2. PublishInv => StrictPublish
  BY DEF PublishInv
<1> QED
  BY <1>1, <1>2, PublishStart, PTL DEF Spec

-----------------------------------------------------------------------------
(* What the world does between two calls.                                  *)

MarketStates ==
  [market: Accounts, paused: BOOLEAN, frozen: BOOLEAN, lock: Accounts,
   leader: Keys \cup {Nobody, Expected}, beat: Nat, total: Nat, open: Nat, bad: BOOLEAN]

(* No heartbeat is later than the clock, and the present is always seen.   *)
WorldSound ==
  /\ chain \in [Symbols -> MarketStates]
  /\ slot \in Nat
  /\ DOMAIN seen = Symbols
  /\ \A s \in Symbols: chain[s].beat <= slot /\ Truth(chain[s], slot) \in seen[s]

(* A step that keeps the above, forgets nothing and takes no beat back.    *)
Onward ==
  /\ WorldSound'
  /\ \A s \in Symbols: seen[s] \subseteq seen'[s] /\ chain[s].beat <= chain'[s].beat

LEMMA BecomesOnward ==
  ASSUME WorldSound, NEW s \in Symbols, NEW c \in MarketStates,
         chain[s].beat <= c.beat, c.beat <= slot, Becomes(s, c)
  PROVE  Onward
<1>1. chain' = [chain EXCEPT ![s] = c] /\ slot' = slot
  BY DEF Becomes
<1>2. seen' = [seen EXCEPT ![s] = @ \cup {Truth(c, slot)}]
  BY DEF Becomes, See
<1>3. \A x \in Symbols: chain[x] \in MarketStates /\ chain[x].beat \in Nat
  BY DEF WorldSound, MarketStates
<1>4. ASSUME NEW x \in Symbols
      PROVE  /\ chain'[x].beat <= slot /\ chain[x].beat <= chain'[x].beat
             /\ seen[x] \subseteq seen'[x]
             /\ Truth(chain'[x], slot) \in seen'[x]
  <2>1. CASE x = s
    <3>1. chain'[x] = c /\ seen'[x] = seen[s] \cup {Truth(c, slot)}
      BY <1>1, <1>2, <2>1 DEF WorldSound
    <3> QED
      BY <2>1, <3>1
  <2>2. CASE x # s
    <3>1. chain'[x] = chain[x] /\ seen'[x] = seen[x]
      BY <1>1, <1>2, <2>2 DEF WorldSound
    <3> QED
      BY <1>3, <3>1 DEF WorldSound
  <2> QED
    BY <2>1, <2>2
<1>5. chain' \in [Symbols -> MarketStates] /\ DOMAIN seen' = Symbols
  BY <1>1, <1>2 DEF WorldSound
<1> QED
  BY <1>1, <1>4, <1>5 DEF Onward, WorldSound

LEMMA MarketOnward ==
  ASSUME WorldSound, NEW s \in Symbols,
         \/ Pause(s) \/ Freeze(s) \/ Garble(s) \/ LoseLock(s) \/ Beat(s)
         \/ TakeOver(s) \/ Trade(s) \/ Drift(s) \/ Rot(s)
  PROVE  Onward
<1> DEFINE c == chain[s]
<1>0. c \in MarketStates /\ c.beat \in Nat /\ c.beat <= slot /\ slot \in Nat
  BY DEF WorldSound, MarketStates
<1>. HIDE DEF c
<1>1. CASE Pause(s)
  <2> DEFINE d == [c EXCEPT !.paused = ~@]
  <2>1. d \in MarketStates /\ d.beat = c.beat
    BY <1>0 DEF MarketStates
  <2>2. Becomes(s, d)
    BY <1>1 DEF Pause, c
  <2> HIDE DEF d
  <2> QED
    BY <1>0, <2>1, <2>2, BecomesOnward DEF c
<1>2. CASE Freeze(s)
  <2> DEFINE d == [c EXCEPT !.frozen = ~@]
  <2>1. d \in MarketStates /\ d.beat = c.beat
    BY <1>0 DEF MarketStates
  <2>2. Becomes(s, d)
    BY <1>2 DEF Freeze, c
  <2> HIDE DEF d
  <2> QED
    BY <1>0, <2>1, <2>2, BecomesOnward DEF c
<1>3. CASE Garble(s)
  <2>1. PICK kind \in Accounts: Becomes(s, [c EXCEPT !.market = kind])
    BY <1>3 DEF Garble, c
  <2> DEFINE d == [c EXCEPT !.market = kind]
  <2>2. d \in MarketStates /\ d.beat = c.beat
    BY <1>0 DEF MarketStates
  <2>3. Becomes(s, d)
    BY <2>1
  <2> HIDE DEF d
  <2> QED
    BY <1>0, <2>2, <2>3, BecomesOnward DEF c
<1>4. CASE LoseLock(s)
  <2>1. PICK kind \in Accounts: Becomes(s, [c EXCEPT !.lock = kind])
    BY <1>4 DEF LoseLock, c
  <2> DEFINE d == [c EXCEPT !.lock = kind]
  <2>2. d \in MarketStates /\ d.beat = c.beat
    BY <1>0 DEF MarketStates
  <2>3. Becomes(s, d)
    BY <2>1
  <2> HIDE DEF d
  <2> QED
    BY <1>0, <2>2, <2>3, BecomesOnward DEF c
<1>5. CASE Beat(s)
  <2> DEFINE d == [c EXCEPT !.beat = slot]
  <2>1. d \in MarketStates /\ d.beat = slot
    BY <1>0 DEF MarketStates
  <2>2. Becomes(s, d)
    BY <1>5 DEF Beat, c
  <2> HIDE DEF d
  <2> QED
    BY <1>0, <2>1, <2>2, BecomesOnward DEF c
<1>6. CASE TakeOver(s)
  <2>1. PICK k \in Keys \cup {Nobody}: Becomes(s, [c EXCEPT !.leader = k, !.beat = slot])
    BY <1>6 DEF TakeOver, c
  <2> DEFINE d == [c EXCEPT !.leader = k, !.beat = slot]
  <2>2. d \in MarketStates /\ d.beat = slot
    BY <1>0 DEF MarketStates
  <2>3. Becomes(s, d)
    BY <2>1
  <2> HIDE DEF d
  <2> QED
    BY <1>0, <2>2, <2>3, BecomesOnward DEF c
<1>7. CASE Trade(s)
  <2> DEFINE d == [c EXCEPT !.total = @ + 100, !.open = @ + 100]
  <2>1. d \in MarketStates /\ d.beat = c.beat
    <3>1. c.total + 100 \in Nat /\ c.open + 100 \in Nat
      BY <1>0 DEF MarketStates
    <3>2. d = [c EXCEPT !.total = c.total + 100, !.open = c.open + 100]
      BY <1>0 DEF MarketStates
    <3> QED
      BY <1>0, <3>1, <3>2 DEF MarketStates
  <2>2. Becomes(s, d)
    BY <1>7 DEF Trade, c
  <2> HIDE DEF d
  <2> QED
    BY <1>0, <2>1, <2>2, BecomesOnward DEF c
<1>8. CASE Drift(s)
  <2> DEFINE d == [c EXCEPT !.open = @ + 30]
  <2>1. d \in MarketStates /\ d.beat = c.beat
    BY <1>0 DEF MarketStates
  <2>2. Becomes(s, d)
    BY <1>8 DEF Drift, c
  <2> HIDE DEF d
  <2> QED
    BY <1>0, <2>1, <2>2, BecomesOnward DEF c
<1>9. CASE Rot(s)
  <2> DEFINE d == [c EXCEPT !.open = 0, !.bad = TRUE]
  <2>1. d \in MarketStates /\ d.beat = c.beat
    BY <1>0 DEF MarketStates
  <2>2. Becomes(s, d)
    BY <1>9 DEF Rot, c
  <2> HIDE DEF d
  <2> QED
    BY <1>0, <2>1, <2>2, BecomesOnward DEF c
<1> QED
  BY <1>1, <1>2, <1>3, <1>4, <1>5, <1>6, <1>7, <1>8, <1>9

LEMMA StillOnward ==
  ASSUME WorldSound, UNCHANGED <<chain, slot, seen>>
  PROVE  Onward
<1>1. \A s \in Symbols: chain[s].beat \in Nat
  BY DEF WorldSound, MarketStates
<1> QED
  BY <1>1 DEF Onward, WorldSound

LEMMA TickOnward == ASSUME WorldSound, Tick PROVE Onward
<1>1. /\ slot' = slot + 1 /\ chain' = chain
      /\ seen' = [s \in Symbols |-> seen[s] \cup {Truth(chain[s], slot')}]
  BY DEF Tick
<1>2. \A s \in Symbols: chain[s].beat \in Nat /\ chain[s].beat <= slot
  BY DEF WorldSound, MarketStates
<1>3. slot \in Nat /\ slot' \in Nat
  BY <1>1 DEF WorldSound
<1>4. ASSUME NEW s \in Symbols
      PROVE  /\ seen[s] \subseteq seen'[s] /\ Truth(chain'[s], slot') \in seen'[s]
             /\ chain'[s].beat <= slot'
  BY <1>1, <1>2, <1>3
<1> QED
  BY <1>1, <1>2, <1>3, <1>4 DEF Onward, WorldSound

LEMMA WorldOnward == ASSUME WorldSound, World PROVE Onward
<1>1. ASSUME NEW s \in Symbols,
             \/ Pause(s) \/ Freeze(s) \/ Garble(s) \/ LoseLock(s) \/ Beat(s)
             \/ TakeOver(s) \/ Trade(s) \/ Drift(s) \/ Rot(s)
      PROVE  Onward
  BY <1>1, MarketOnward
<1>2. CASE Halt
  BY <1>2, StillOnward DEF Halt
<1>3. ASSUME NEW service \in Services, Break(service) PROVE Onward
  BY <1>3, StillOnward DEF Break
<1> QED
  BY <1>1, <1>2, <1>3, TickOnward DEF World

-----------------------------------------------------------------------------
(* A report says what was true of its market.                              *)

Reading == {"slot", "backup", "positions", "checks"}

(* A context that can be graded, whatever could be read for it.            *)
Gradable(ctx) ==
  /\ {"paused", "leader_lock", "schema_onchain", "schema_compiled"} \subseteq DOMAIN ctx
  /\ ctx.paused \in BOOLEAN
  /\ ctx.leader_lock \in Locks \cup {NoFacts}

(* Its pause flag was true of s at some moment of this cycle, unless the   *)
(* market account could not be read.                                       *)
Witnessed(ctx, s) ==
  ctx.schema_onchain = ctx.schema_compiled => \E t \in seen[s]: t.paused <=> ctx.paused

MomentInv ==
  /\ WorldSound
  /\ clock \in Nat
  /\ Gradable(got)
  /\ DOMAIN reports \subseteq Symbols
  /\ pc \in Reading => Witnessed(got, at)
  /\ TrueOfSomeMoment

LEMMA NoLock == NoFacts \notin Locks /\ Threshold \in Nat
BY ProberParameters DEF ProberParameters

LEMMA DefaultsGradable == Gradable(Defaults)
BY DEF Gradable, Defaults

(* What the two accounts of the first call say.                            *)
LEMMA LockRead ==
  ASSUME NEW c \in MarketStates
  PROVE  /\ LockFacts(c) \in Locks \cup {NoFacts}
         /\ LockFacts(c) # NoFacts /\ LockFacts(c).has_leader =>
              LockFacts(c).beat = c.beat
<1>1. CASE c.lock = "garbled"
  BY <1>1 DEF LockFacts
<1>2. CASE c.lock = "missing"
  BY <1>2, NoLock DEF LockFacts, Locks
<1>3. CASE c.lock \notin {"garbled", "missing"}
  <2>1. c.leader \in Keys \cup {Nobody, Expected} /\ c.beat \in Nat
    BY DEF MarketStates
  <2>2. LockFacts(c) = [initialized |-> TRUE, has_leader |-> c.leader # Nobody,
                        leader |-> c.leader, beat |-> c.beat, slot |-> 0,
                        threshold |-> Threshold, expected |-> NoFacts]
    BY <1>3 DEF LockFacts
  <2>3. LockFacts(c) \in Locks
    BY <2>1, <2>2, NoLock DEF Locks
  <2> QED
    BY <2>2, <2>3
<1> QED
  BY <1>1, <1>2, <1>3

LEMMA AccountsRead ==
  ASSUME NEW c \in MarketStates
  PROVE  LET ctx == build_ctx_from_accounts(c)
         IN  /\ Gradable(ctx)
             /\ ctx.schema_onchain = ctx.schema_compiled => ctx.paused = c.paused
             /\ ctx.leader_lock = LockFacts(c)
<1> DEFINE f == MarketFacts(Defaults, c)
           l == LockFacts(c)
<1>1. /\ {"paused", "leader_lock", "schema_onchain", "schema_compiled"} \subseteq DOMAIN f
      /\ f.paused \in BOOLEAN
      /\ f.schema_onchain = f.schema_compiled => f.paused = c.paused
  <2>1. c.paused \in BOOLEAN
    BY DEF MarketStates
  <2>2. CASE Decoded(c.market)
    BY <2>1, <2>2 DEF MarketFacts, Defaults
  <2>3. CASE ~Decoded(c.market)
    BY <2>3 DEF MarketFacts, Defaults
  <2> QED
    BY <2>2, <2>3
<1>2. l \in Locks \cup {NoFacts}
  BY LockRead
<1>3. build_ctx_from_accounts(c) = [f EXCEPT !.leader_lock = l]
  BY DEF build_ctx_from_accounts
<1> HIDE DEF f, l
<1>4. build_ctx_from_accounts(c).leader_lock = l
  BY <1>1, <1>3
<1> QED
  BY <1>1, <1>2, <1>3, <1>4 DEF Gradable, l

(* The slot and the registry's expectation touch the lock's facts only.    *)
LEMMA Dressed ==
  ASSUME NEW ctx, Gradable(ctx), NEW now \in Nat
  PROVE  LET d == WithExpected(WithSlot(ctx, now))
         IN  /\ d.paused = ctx.paused
             /\ d.schema_onchain = ctx.schema_onchain
             /\ d.schema_compiled = ctx.schema_compiled
             /\ ctx.leader_lock = NoFacts => d.leader_lock = NoFacts
             /\ ctx.leader_lock # NoFacts =>
                  /\ d.leader_lock \in Locks
                  /\ d.leader_lock.initialized = ctx.leader_lock.initialized
                  /\ d.leader_lock.has_leader = ctx.leader_lock.has_leader
                  /\ d.leader_lock.beat = ctx.leader_lock.beat
                  /\ d.leader_lock.slot = now
<1> DEFINE e == WithSlot(ctx, now)
           d == WithExpected(e)
<1>1. CASE ctx.leader_lock = NoFacts
  BY <1>1 DEF WithSlot, WithExpected
<1>2. CASE ctx.leader_lock # NoFacts
  <2> DEFINE l == ctx.leader_lock
             k == [l EXCEPT !.slot = now]
  <2>1. l \in Locks
    BY <1>2 DEF Gradable
  <2>2. /\ k \in Locks /\ k.slot = now /\ k.beat = l.beat
        /\ k.initialized = l.initialized /\ k.has_leader = l.has_leader
    BY <2>1 DEF Locks
  <2>3. e = [ctx EXCEPT !.leader_lock = k]
    BY <1>2 DEF WithSlot
  <2> HIDE DEF e, k, l
  <2>4. /\ e.leader_lock = k /\ e.paused = ctx.paused
        /\ e.schema_onchain = ctx.schema_onchain
        /\ e.schema_compiled = ctx.schema_compiled
        /\ "leader_lock" \in DOMAIN e /\ "paused" \in DOMAIN e
        /\ "schema_onchain" \in DOMAIN e /\ "schema_compiled" \in DOMAIN e
    BY <2>3 DEF Gradable
  <2>5. CASE Expected = NoFacts
    <3>1. d = e
      BY <2>5 DEF WithExpected
    <3> QED
      BY <1>2, <2>2, <2>4, <3>1 DEF e, l
  <2>6. CASE Expected # NoFacts
    <3> DEFINE j == [k EXCEPT !.expected = Expected]
    <3>1. /\ j \in Locks /\ j.slot = now /\ j.beat = l.beat
          /\ j.initialized = l.initialized /\ j.has_leader = l.has_leader
      BY <2>2 DEF Locks
    <3>2. k # NoFacts
      BY <2>2, NoLock
    <3>3. d = [e EXCEPT !.leader_lock = j]
      BY <2>4, <2>6, <3>2 DEF WithExpected
    <3> HIDE DEF j, d
    <3>4. /\ d.leader_lock = j /\ d.paused = e.paused
          /\ d.schema_onchain = e.schema_onchain /\ d.schema_compiled = e.schema_compiled
      BY <2>4, <3>3
    <3> QED
      BY <1>2, <2>4, <3>1, <3>4 DEF e, d, l
  <2> QED
    BY <2>5, <2>6
<1> QED
  BY <1>1, <1>2

LEMMA OrderIs ==
  /\ After("accounts") = "slot" /\ After("slot") = "backup"
  /\ After("backup") = "positions" /\ After("positions") = "checks"
<1>1. /\ Order[1] = "accounts" /\ Order[2] = "slot"
      /\ Order[3] = "backup" /\ Order[4] = "positions"
  BY DEF Order
<1>2. ASSUME NEW call, NEW i \in 1 .. 4, Order[i] = call
      PROVE  (CHOOSE j \in 1 .. 4: Order[j] = call) = i
  <2>1. \A j \in 1 .. 4: Order[j] = call => j = i
    BY <1>1, <1>2
  <2> QED
    BY <1>2, <2>1
<1>3. ASSUME NEW i \in 1 .. 4
      PROVE  After(Order[i]) = IF i < 4 THEN Order[i + 1] ELSE "checks"
  <2>1. (CHOOSE j \in 1 .. 4: Order[j] = Order[i]) = i
    BY <1>2
  <2> QED
    BY <2>1 DEF After
<1> QED
  BY <1>1, <1>3

(* The calls of a fetch, without the history of a leader's freshness.      *)
LEMMA MomentAnswer ==
  ASSUME MomentInv, NEW call, NEW ctx, NEW now \in Nat, Answer(call, ctx, now),
         Gradable(ctx), Witnessed(ctx, at)
  PROVE  MomentInv'
<1>1. /\ got' = ctx /\ clock' = now
      /\ UNCHANGED <<at, reports, seen, chain, slot>>
  BY DEF Answer, world
<1>2. Onward
  BY <1>1, StillOnward DEF MomentInv
<1>3. Witnessed(got', at')
  BY <1>1 DEF Witnessed
<1>4. Witnessed(got, at)'
  BY <1>1, <1>3 DEF Witnessed
<1>5. TrueOfSomeMoment'
  BY <1>1 DEF MomentInv, TrueOfSomeMoment
<1>6. Gradable(got)'
  BY <1>1 DEF Gradable
<1> QED
  BY <1>1, <1>2, <1>4, <1>5, <1>6 DEF MomentInv, Onward

LEMMA ChangedField ==
  ASSUME NEW ctx, Gradable(ctx), NEW f \in {"slot_diff", "onchain"}, NEW v, NEW s
  PROVE  LET d == [ctx EXCEPT ![f] = v]
         IN  /\ Gradable(d)
             /\ d.leader_lock = ctx.leader_lock
             /\ Witnessed(ctx, s) => Witnessed(d, s)
<1> DEFINE d == [ctx EXCEPT ![f] = v]
<1>1. /\ DOMAIN d = DOMAIN ctx /\ d.paused = ctx.paused /\ d.leader_lock = ctx.leader_lock
      /\ d.schema_onchain = ctx.schema_onchain /\ d.schema_compiled = ctx.schema_compiled
  BY DEF Gradable
<1> HIDE DEF d
<1> QED
  BY <1>1 DEF Gradable, Witnessed, d

LEMMA MomentCalls ==
  ASSUME MomentInv, at \in Symbols,
         get_multiple_accounts \/ get_slot \/ backup_slot \/ fetch_open_interest
  PROVE  MomentInv'
<1>1. CASE get_multiple_accounts
  <2> DEFINE ctx == build_ctx_from_accounts(chain[at])
  <2>1. chain[at] \in MarketStates /\ Truth(chain[at], slot) \in seen[at]
    BY DEF MomentInv, WorldSound
  <2>2. Gradable(ctx) /\ (ctx.schema_onchain = ctx.schema_compiled =>
          ctx.paused = chain[at].paused)
    BY <2>1, AccountsRead
  <2>3. Answer("accounts", ctx, clock)
    BY <1>1 DEF get_multiple_accounts, m
  <2> HIDE DEF ctx
  <2>4. Truth(chain[at], slot).paused = chain[at].paused
    BY DEF Truth
  <2>5. Witnessed(ctx, at)
    BY <2>1, <2>2, <2>4 DEF Witnessed
  <2>6. clock \in Nat
    BY DEF MomentInv
  <2> QED
    BY <2>2, <2>3, <2>5, <2>6, MomentAnswer
<1>2. CASE get_slot
  <2>1. Answer("slot", got, slot) /\ slot \in Nat
    BY <1>2 DEF get_slot, MomentInv, WorldSound
  <2>2. Gradable(got) /\ Witnessed(got, at)
    BY <2>1 DEF MomentInv, Answer, Reading
  <2> QED
    BY <2>1, <2>2, MomentAnswer
<1>3. CASE backup_slot
  <2>1. PICK lag \in Lags: Answer("backup", [got EXCEPT !.slot_diff = lag], clock)
    BY <1>3 DEF backup_slot
  <2> DEFINE d == [got EXCEPT !.slot_diff = lag]
  <2>2. Gradable(got) /\ Witnessed(got, at) /\ clock \in Nat
    BY <2>1 DEF MomentInv, Answer, Reading
  <2>3. Gradable(d) /\ Witnessed(d, at)
    BY <2>2, ChangedField
  <2>4. Answer("backup", d, clock)
    BY <2>1
  <2> HIDE DEF d
  <2> QED
    BY <2>2, <2>3, <2>4, MomentAnswer
<1>4. CASE fetch_open_interest
  <2> DEFINE o == [got EXCEPT !.onchain = aggregate_open_interest_for_market(at)]
             d == IF Fails("positions", at) THEN got ELSE o
  <2>1. Answer("positions", d, clock)
    BY <1>4 DEF fetch_open_interest, m
  <2> HIDE DEF d
  <2>2. Gradable(got) /\ Witnessed(got, at) /\ clock \in Nat
    BY <2>1 DEF MomentInv, Answer, Reading
  <2>3. Gradable(o) /\ Witnessed(o, at)
    BY <2>2, ChangedField
  <2> HIDE DEF o
  <2>4. Gradable(d) /\ Witnessed(d, at)
    BY <2>2, <2>3 DEF d
  <2> QED
    BY <2>1, <2>2, <2>4, MomentAnswer
<1> QED
  BY <1>1, <1>2, <1>3, <1>4

(* The battery grades the flag as the context has it.                      *)
LEMMA FlagGraded ==
  ASSUME NEW ctx, ctx.paused \in BOOLEAN
  PROVE  LET r == run_all_checks(ctx)
         IN  /\ (r.market_paused.status = Critical) <=> ctx.paused
             /\ (r.schema_version_match.status = Pass) <=>
                  (ctx.schema_onchain = ctx.schema_compiled)
             /\ r.leader_lock_freshness = leader_lock_freshness(ctx)
<1>1. /\ run_all_checks(ctx).market_paused = market_paused(ctx)
      /\ run_all_checks(ctx).schema_version_match = schema_version_match(ctx)
      /\ run_all_checks(ctx).leader_lock_freshness = leader_lock_freshness(ctx)
  BY DEF run_all_checks
<1>2. (market_paused(ctx).status = Critical) <=> ctx.paused
  BY DEF market_paused, Raised, Result, Critical, Pass
<1>3. (schema_version_match(ctx).status = Pass) <=> (ctx.schema_onchain = ctx.schema_compiled)
  BY DEF schema_version_match, Raised, Result, Critical, Pass
<1> QED
  BY <1>1, <1>2, <1>3

LEMMA MomentChecks == ASSUME PublishInv, MomentInv, RunChecks PROVE MomentInv'
<1> DEFINE d == WithExpected(WithSlot(got, clock))
           r == run_all_checks(d)
<1>1. Gradable(got) /\ clock \in Nat
  BY DEF MomentInv
<1>2. /\ d.paused = got.paused /\ d.schema_onchain = got.schema_onchain
      /\ d.schema_compiled = got.schema_compiled
  BY <1>1, Dressed
<1> HIDE DEF d
<1>3. /\ (r.market_paused.status = Critical) <=> got.paused
      /\ (r.schema_version_match.status = Pass) <=> (got.schema_onchain = got.schema_compiled)
  <2>1. d.paused \in BOOLEAN
    BY <1>1, <1>2 DEF Gradable
  <2> QED
    BY <1>2, <2>1, FlagGraded
<1>4. r \in GradedReports
  BY ReportShape
<1> HIDE DEF r
<1>5. /\ reports' = Append(reports, r) /\ got' = Defaults /\ pc = "checks"
      /\ pc' \in {"accounts", "prom"} /\ UNCHANGED <<clock, seen, chain, slot>>
  BY DEF RunChecks, r, d, Order, history, world
<1>6. /\ reports \in Seq(GradedReports) /\ Len(reports) = at - 1 /\ at \in Symbols
      /\ at \in Nat
  BY <1>5 DEF PublishInv, Progress, Symbols
<1>7. /\ DOMAIN reports' = 1 .. at
      /\ \A i \in 1 .. at: reports'[i] = IF i = at THEN r ELSE reports[i]
      /\ DOMAIN reports = 1 .. (at - 1)
  <2>1. DOMAIN reports = 1 .. (at - 1)
    BY <1>6
  <2>2. Len(Append(reports, r)) = at
    BY <1>4, <1>6
  <2>3. DOMAIN Append(reports, r) = 1 .. at
    BY <1>4, <1>6
  <2>4. \A i \in 1 .. at: Append(reports, r)[i] = IF i = at THEN r ELSE reports[i]
    BY <1>4, <1>6
  <2> QED
    BY <1>5, <2>1, <2>3, <2>4
<1>8. Witnessed(got, at)
  BY <1>5 DEF MomentInv, Reading
<1>9. ASSUME NEW i \in DOMAIN reports', reports'[i].schema_version_match.status = Pass
      PROVE  \E t \in seen[i]: t.paused <=> (reports'[i].market_paused.status = Critical)
  <2>1. CASE i = at
    <3>1. reports'[i] = r
      BY <1>7, <2>1
    <3>2. \E t \in seen[i]: t.paused <=> got.paused
      BY <1>3, <1>8, <1>9, <2>1, <3>1 DEF Witnessed
    <3> QED
      BY <1>3, <3>1, <3>2
  <2>2. CASE i # at
    <3>1. i \in DOMAIN reports /\ reports'[i] = reports[i]
      BY <1>6, <1>7, <2>2
    <3> QED
      BY <1>9, <3>1 DEF MomentInv, TrueOfSomeMoment
  <2> QED
    BY <2>1, <2>2
<1>10. TrueOfSomeMoment'
  BY <1>5, <1>9 DEF TrueOfSomeMoment
<1>11. DOMAIN reports' \subseteq Symbols
  <2>1. at \in 1 .. NMarkets
    BY <1>6 DEF Symbols
  <2> QED
    BY <1>7, <2>1, HasMarkets DEF Symbols
<1>12. WorldSound'
  BY <1>5, StillOnward DEF MomentInv, Onward
<1>13. Gradable(got)'
  BY <1>5, DefaultsGradable DEF Gradable
<1>14. pc' \notin Reading
  BY <1>5 DEF Reading
<1> QED
  BY <1>1, <1>5, <1>10, <1>11, <1>12, <1>13, <1>14 DEF MomentInv, Reading

LEMMA MomentStart == Init => MomentInv
<1> SUFFICES ASSUME Init PROVE MomentInv
  OBVIOUS
<1>1. /\ chain = [s \in Symbols |-> Sound(s)] /\ slot = 0 /\ clock = 0
      /\ seen = [s \in Symbols |-> {Truth(Sound(s), 0)}]
      /\ got = Defaults /\ reports = <<>> /\ pc = "accounts"
  BY DEF Init
<1>2. \A s \in Symbols: Sound(s) \in MarketStates /\ Sound(s).beat = 0
  BY DEF Sound, MarketStates, Accounts
<1>3. WorldSound
  BY <1>1, <1>2 DEF WorldSound
<1> QED
  BY <1>1, <1>3, DefaultsGradable DEF MomentInv, TrueOfSomeMoment, Reading

(* Whatever leaves the reports and the context alone, or clears them.      *)
LEMMA MomentKept ==
  ASSUME MomentInv, Onward, at \in Symbols, UNCHANGED <<clock, got, at>>,
         reports' \in {reports, <<>>}, pc' = pc \/ pc' \notin Reading
  PROVE  MomentInv'
<1>1. ASSUME NEW i \in DOMAIN reports', reports'[i].schema_version_match.status = Pass
      PROVE  \E t \in seen'[i]: t.paused <=> (reports'[i].market_paused.status = Critical)
  <2>1. i \in DOMAIN reports /\ reports' = reports
    BY <1>1
  <2>2. PICK t \in seen[i]: t.paused <=> (reports[i].market_paused.status = Critical)
    BY <1>1, <2>1 DEF MomentInv, TrueOfSomeMoment
  <2>3. t \in seen'[i]
    BY <2>1, <2>2 DEF MomentInv, Onward
  <2> QED
    BY <2>1, <2>2, <2>3
<1>2. TrueOfSomeMoment'
  BY <1>1 DEF TrueOfSomeMoment
<1>3. pc' \in Reading => Witnessed(got, at)'
  <2> SUFFICES ASSUME pc' \in Reading, got.schema_onchain = got.schema_compiled
               PROVE  \E t \in seen'[at]: t.paused <=> got.paused
    BY DEF Witnessed
  <2>1. PICK t \in seen[at]: t.paused <=> got.paused
    BY DEF MomentInv, Witnessed
  <2>2. t \in seen'[at]
    BY <2>1 DEF Onward
  <2> QED
    BY <2>1, <2>2
<1>4. DOMAIN reports' \subseteq Symbols /\ Gradable(got)'
  BY DEF MomentInv, Gradable
<1> QED
  BY <1>2, <1>3, <1>4 DEF MomentInv, Onward

LEMMA MomentStep == ASSUME PublishInv, MomentInv, [Next]_vars PROVE MomentInv'
<1>0. at \in Symbols
  BY DEF PublishInv, Progress
<1>1. CASE get_multiple_accounts \/ get_slot \/ backup_slot \/ fetch_open_interest
  BY <1>0, <1>1, MomentCalls
<1>2. CASE RunChecks
  BY <1>2, MomentChecks
<1>3. CASE Wake
  <2>1. /\ got' = Defaults /\ reports' = <<>> /\ pc' = "accounts"
        /\ seen' = [s \in Symbols |-> {Truth(chain[s], slot)}]
        /\ UNCHANGED <<clock, chain, slot>>
    BY <1>3 DEF Wake, world, Order
  <2>2. WorldSound'
    BY <2>1 DEF MomentInv, WorldSound
  <2>3. Gradable(got)'
    BY <2>1, DefaultsGradable DEF Gradable
  <2> QED
    BY <2>1, <2>2, <2>3 DEF MomentInv, TrueOfSomeMoment, Reading
<1>4. CASE Retry \/ Abort \/ Publish \/ EndCycle
  <2>1. /\ UNCHANGED <<clock, got, at, chain, slot, seen>>
        /\ reports' \in {reports, <<>>} /\ (pc' = pc \/ pc' \notin Reading)
    <3>1. CASE Retry
      BY <3>1 DEF Retry, history, world
    <3>2. CASE Abort
      BY <3>2 DEF Abort, Abandon, history, world, Reading
    <3>3. CASE Publish
      BY <3>3 DEF Publish, Truncate, Body, WriteFails, history, world, Reading
    <3>4. CASE EndCycle
      BY <3>4 DEF EndCycle, history, world, Reading
    <3> QED
      BY <1>4, <3>1, <3>2, <3>3, <3>4
  <2> QED
    BY <1>0, <2>1, StillOnward, MomentKept DEF MomentInv
<1>5. CASE World
  <2>1. Onward /\ UNCHANGED prober
    BY <1>5, WorldOnward, WorldLeavesProber DEF MomentInv
  <2> QED
    BY <1>0, <2>1, MomentKept DEF prober
<1>6. CASE UNCHANGED vars
  <2>1. UNCHANGED <<clock, got, at, reports, pc, chain, slot, seen>>
    BY <1>6 DEF vars, prober, world, history
  <2> QED
    BY <1>0, <2>1, StillOnward, MomentKept DEF MomentInv
<1> QED
  BY <1>1, <1>2, <1>3, <1>4, <1>5, <1>6 DEF Next, Probe

(* A market is reported paused, or not, only if it was so at some moment   *)
(* of the cycle that read it: two markets read call by call while both     *)
(* change are never mixed up.                                              *)
THEOREM ReportsWhatWasTrue == Spec => []TrueOfSomeMoment
<1>1. Init => PublishInv /\ MomentInv
  BY PublishStart, MomentStart
<1>2. PublishInv /\ MomentInv /\ [Next]_vars => (PublishInv /\ MomentInv)'
  BY PublishStep, MomentStep
<1>3. MomentInv => TrueOfSomeMoment
  BY DEF MomentInv
<1> QED
  BY <1>1, <1>2, <1>3, PTL DEF Spec

-----------------------------------------------------------------------------
(* No leader looks fresher than it is.                                     *)

(* The grade of a leader who owns the lock or not and last beat at beat.   *)
Lateness(owned, beat, now) ==
  LET elapsed == IF now > beat THEN now - beat ELSE 0
      bar == IF Threshold > 1 THEN Threshold ELSE 1
  IN  Status(~owned \/ 10 * elapsed >= 9 * bar, 10 * elapsed >= 6 * bar)

(* ... and the one a context would be given with the slot at hand.         *)
Grade(ctx, now) == leader_lock_freshness(WithExpected(WithSlot(ctx, now))).status

(* What is known of a leader is not newer than the chain.                  *)
Behind(lock, c) ==
  lock # NoFacts /\ lock.initialized /\ lock.has_leader => lock.beat <= c.beat

RosyInv ==
  /\ pc = "slot" => Behind(got.leader_lock, chain[at])
  /\ pc \in {"backup", "positions", "checks"} => Grade(got, clock) >= owed

(* A later beat is never graded worse.                                     *)
LEMMA LaterIsNoWorse ==
  ASSUME NEW b \in Nat, NEW d \in Nat, NEW now \in Nat, NEW owned \in BOOLEAN, owned => b <= d
  PROVE  Lateness(owned, b, now) >= Lateness(TRUE, d, now)
<1> DEFINE bar == IF Threshold > 1 THEN Threshold ELSE 1
           e(x) == IF now > x THEN now - x ELSE 0
<1>1. bar \in Nat
  BY NoLock
<1>2. e(b) \in Nat /\ e(d) \in Nat /\ (owned => e(d) <= e(b))
  OBVIOUS
<1>3. /\ Lateness(owned, b, now) = Status(~owned \/ 10 * e(b) >= 9 * bar, 10 * e(b) >= 6 * bar)
      /\ Lateness(TRUE, d, now) = Status(~TRUE \/ 10 * e(d) >= 9 * bar, 10 * e(d) >= 6 * bar)
  BY DEF Lateness
<1> HIDE DEF bar, e
<1> DEFINE late(x) == 10 * e(x) >= 9 * bar
           slow(x) == 10 * e(x) >= 6 * bar
<1>4. (late(d) => ~owned \/ late(b)) /\ (slow(d) => ~owned \/ slow(b))
  BY <1>1, <1>2
<1>5. Status(~owned \/ late(b), slow(b)) >= Status(~TRUE \/ late(d), slow(d))
  <2> HIDE DEF late, slow
  <2> QED
    BY <1>4 DEF Status, Pass, Warn, Critical
<1> QED
  BY <1>3, <1>5

LEMMA GradeOfContext ==
  ASSUME NEW ctx, Gradable(ctx), NEW now \in Nat
  PROVE  LET l == ctx.leader_lock
         IN  /\ l = NoFacts => Grade(ctx, now) = Pass
             /\ l # NoFacts => Grade(ctx, now) = Lateness(l.initialized /\ l.has_leader, l.beat, now)
<1> DEFINE d == WithExpected(WithSlot(ctx, now))
           l == ctx.leader_lock
<1> HIDE DEF d
<1>1. CASE l = NoFacts
  <2>1. d.leader_lock = NoFacts
    BY <1>1, Dressed DEF d
  <2> QED
    BY <1>1, <2>1 DEF Grade, leader_lock_freshness, Result, d
<1>2. CASE l # NoFacts
  <2> DEFINE k == d.leader_lock
  <2>1. /\ k \in Locks /\ k.initialized = l.initialized /\ k.has_leader = l.has_leader
        /\ k.beat = l.beat /\ k.slot = now
    BY <1>2, Dressed DEF d
  <2>2. k # NoFacts /\ k.threshold = Threshold
    BY <2>1, NoLock DEF Locks
  <2>3. Grade(ctx, now) = leader_lock_freshness(d).status
    BY DEF Grade, d
  <2>4. leader_lock_freshness(d).status =
          Lateness(k.initialized /\ k.has_leader, k.beat, k.slot)
    BY <2>2 DEF leader_lock_freshness, Lateness, Elapsed, Result
  <2> QED
    BY <1>2, <2>1, <2>3, <2>4
<1> QED
  BY <1>1, <1>2

LEMMA GradeOfChain ==
  ASSUME NEW c \in MarketStates, NEW now \in Nat, c.leader # Nobody
  PROVE  Fresh(c, now) = Lateness(TRUE, c.beat, now)
<1> DEFINE k == [initialized |-> TRUE, has_leader |-> c.leader # Nobody, leader |-> c.leader,
                 beat |-> c.beat, slot |-> now, threshold |-> Threshold, expected |-> Expected]
           x == [leader_lock |-> k]
<1>1. k \in Locks
  BY NoLock DEF Locks, MarketStates
<1>2. x.leader_lock = k /\ k # NoFacts
  BY <1>1, NoLock
<1>3. Fresh(c, now) = leader_lock_freshness(x).status
  BY DEF Fresh
<1>4. k.initialized /\ k.has_leader /\ k.beat = c.beat /\ k.slot = now /\ k.threshold = Threshold
  OBVIOUS
<1> HIDE DEF k, x
<1> QED
  BY <1>2, <1>3, <1>4 DEF leader_lock_freshness, Lateness, Elapsed, Result

LEMMA GradesAreNumbers ==
  /\ \A owned, beat, now: Lateness(owned, beat, now) \in 0 .. 2
  /\ Pass = 0
BY DEF Lateness, Status, Pass, Warn, Critical

(* The slot is read: the lock is held against the chain as it is now.      *)
LEMMA RosySlot ==
  ASSUME MomentInv, RosyInv, at \in Symbols, Answer("slot", got, slot)
  PROVE  RosyInv'
<1> DEFINE l == got.leader_lock
           c == chain[at]
           o == IF l = NoFacts \/ c.leader = Nobody THEN Pass ELSE Fresh(c, slot)
<1>1. /\ pc = "slot" /\ pc' = "backup" /\ got' = got /\ clock' = slot
      /\ UNCHANGED <<at, chain>>
  BY OrderIs DEF Answer, world
<1>2. owed' = o
  BY OrderIs DEF Answer, m
<1>3. c \in MarketStates /\ c.beat \in Nat /\ slot \in Nat /\ Gradable(got)
  BY DEF MomentInv, WorldSound, MarketStates
<1>4. Behind(l, c)
  BY <1>1 DEF RosyInv
<1>5. Grade(got, slot) >= o
  <2>1. CASE l = NoFacts
    BY <1>3, <2>1, GradeOfContext, GradesAreNumbers
  <2>2. CASE l # NoFacts /\ c.leader = Nobody
    BY <1>3, <2>2, GradeOfContext, GradesAreNumbers
  <2>3. CASE l # NoFacts /\ c.leader # Nobody
    <3> DEFINE owned == l.initialized /\ l.has_leader
    <3>1. l.beat \in Nat /\ owned \in BOOLEAN
      BY <1>3, <2>3 DEF Gradable, Locks
    <3>2. owned => l.beat <= c.beat
      BY <1>4, <2>3 DEF Behind
    <3>3. Grade(got, slot) = Lateness(owned, l.beat, slot)
      BY <1>3, <2>3, GradeOfContext
    <3>4. o = Lateness(TRUE, c.beat, slot)
      BY <1>3, <2>3, GradeOfChain
    <3> HIDE DEF owned, o, c, l
    <3> QED
      BY <1>3, <3>1, <3>2, <3>3, <3>4, LaterIsNoWorse
  <2> QED
    BY <2>1, <2>2, <2>3
<1> QED
  BY <1>1, <1>2, <1>5 DEF RosyInv

LEMMA RosyField ==
  ASSUME MomentInv, RosyInv, NEW call \in {"backup", "positions"}, NEW ctx,
         Gradable(ctx), ctx.leader_lock = got.leader_lock, Answer(call, ctx, clock)
  PROVE  RosyInv'
<1>1. /\ pc = call /\ pc' \in {"positions", "checks"} /\ owed' = owed
      /\ got' = ctx /\ clock' = clock
  BY OrderIs DEF Answer
<1>2. Gradable(got) /\ clock \in Nat
  BY DEF MomentInv
<1>3. Grade(ctx, clock) = Grade(got, clock)
  BY <1>2, GradeOfContext
<1>4. Grade(got, clock) >= owed
  BY <1>1 DEF RosyInv
<1> QED
  BY <1>1, <1>3, <1>4 DEF RosyInv

LEMMA RosyCalls ==
  ASSUME MomentInv, RosyInv, at \in Symbols,
         get_multiple_accounts \/ get_slot \/ backup_slot \/ fetch_open_interest
  PROVE  RosyInv'
<1>0. Gradable(got)
  BY DEF MomentInv
<1>1. CASE get_multiple_accounts
  <2> DEFINE ctx == build_ctx_from_accounts(chain[at])
  <2>1. chain[at] \in MarketStates /\ chain[at].beat \in Nat
    BY DEF MomentInv, WorldSound, MarketStates
  <2>2. ctx.leader_lock = LockFacts(chain[at])
    BY <2>1, AccountsRead
  <2>3. Answer("accounts", ctx, clock)
    BY <1>1 DEF get_multiple_accounts, m
  <2> HIDE DEF ctx
  <2>4. Behind(ctx.leader_lock, chain[at])
    BY <2>1, <2>2, LockRead DEF Behind
  <2>5. pc' = "slot" /\ got' = ctx /\ UNCHANGED <<at, chain>>
    BY <2>3, OrderIs DEF Answer, world
  <2> QED
    BY <2>4, <2>5 DEF RosyInv
<1>2. CASE get_slot
  BY <1>2, RosySlot DEF get_slot
<1>3. CASE backup_slot
  <2>1. PICK lag \in Lags: Answer("backup", [got EXCEPT !.slot_diff = lag], clock)
    BY <1>3 DEF backup_slot
  <2> DEFINE d == [got EXCEPT !.slot_diff = lag]
  <2>2. Gradable(d) /\ d.leader_lock = got.leader_lock
    BY <1>0, ChangedField
  <2>3. Answer("backup", d, clock)
    BY <2>1
  <2> HIDE DEF d
  <2> QED
    BY <2>2, <2>3, RosyField
<1>4. CASE fetch_open_interest
  <2> DEFINE o == [got EXCEPT !.onchain = aggregate_open_interest_for_market(at)]
             d == IF Fails("positions", at) THEN got ELSE o
  <2>1. Answer("positions", d, clock)
    BY <1>4 DEF fetch_open_interest, m
  <2>2. Gradable(o) /\ o.leader_lock = got.leader_lock
    BY <1>0, ChangedField
  <2> HIDE DEF o
  <2>3. Gradable(d) /\ d.leader_lock = got.leader_lock
    BY <1>0, <2>2
  <2> HIDE DEF d
  <2> QED
    BY <2>1, <2>3, RosyField
<1> QED
  BY <1>1, <1>2, <1>3, <1>4

(* The chain moves under what has been read.                               *)
LEMMA RosyKept ==
  ASSUME MomentInv, RosyInv, Onward, at \in Symbols,
         UNCHANGED <<clock, got, at, owed>>, pc' = pc \/ pc' \notin Reading
  PROVE  RosyInv'
<1>1. CASE pc' \notin Reading
  BY <1>1 DEF RosyInv, Reading
<1>2. CASE pc' = pc
  <2>1. ASSUME Behind(got.leader_lock, chain[at]) PROVE Behind(got.leader_lock, chain'[at])
    <3>1. chain[at].beat <= chain'[at].beat /\ chain[at].beat \in Nat /\ chain'[at].beat \in Nat
      BY DEF Onward, MomentInv, WorldSound, MarketStates
    <3>2. got.leader_lock \in Locks \cup {NoFacts}
      BY DEF MomentInv, Gradable
    <3>3. got.leader_lock # NoFacts => got.leader_lock.beat \in Nat
      BY <3>2 DEF Locks
    <3> QED
      BY <2>1, <3>1, <3>3 DEF Behind
  <2> QED
    BY <1>2, <2>1 DEF RosyInv
<1> QED
  BY <1>1, <1>2

LEMMA RosyStep ==
  ASSUME PublishInv, MomentInv, RosyInv, [Next]_vars
  PROVE  RosyInv'
<1>0. at \in Symbols
  BY DEF PublishInv, Progress
<1>1. CASE get_multiple_accounts \/ get_slot \/ backup_slot \/ fetch_open_interest
  BY <1>0, <1>1, RosyCalls
<1>2. CASE RunChecks \/ Abort \/ Wake \/ Publish \/ EndCycle
  <2>1. pc' \notin Reading
    <3>1. CASE RunChecks
      BY <3>1 DEF RunChecks, Order, Reading
    <3>2. CASE Abort
      BY <3>2 DEF Abort, Abandon, Reading
    <3>3. CASE Wake
      BY <3>3 DEF Wake, Order, Reading
    <3>4. CASE Publish
      BY <3>4 DEF Publish, Truncate, Body, WriteFails, Reading
    <3>5. CASE EndCycle
      BY <3>5 DEF EndCycle, Reading
    <3> QED
      BY <1>2, <3>1, <3>2, <3>3, <3>4, <3>5
  <2> QED
    BY <2>1 DEF RosyInv, Reading
<1>3. CASE Retry
  <2>1. UNCHANGED <<clock, got, at, owed, pc, chain, slot, seen>>
    BY <1>3 DEF Retry, history, world
  <2> QED
    BY <1>0, <2>1, StillOnward, RosyKept DEF MomentInv
<1>4. CASE World
  <2>1. Onward /\ UNCHANGED prober
    BY <1>4, WorldOnward, WorldLeavesProber DEF MomentInv
  <2>2. owed' = owed
    BY <1>4 DEF World, Pause, Freeze, Garble, LoseLock, Beat, TakeOver, Trade, Drift, Rot,
                Halt, Tick, Break, Change
  <2> QED
    BY <1>0, <2>1, <2>2, RosyKept DEF prober
<1>5. CASE UNCHANGED vars
  <2>1. UNCHANGED <<clock, got, at, owed, pc, chain, slot, seen>>
    BY <1>5 DEF vars, prober, world, history
  <2> QED
    BY <1>0, <2>1, StillOnward, RosyKept DEF MomentInv
<1> QED
  BY <1>1, <1>2, <1>3, <1>4, <1>5 DEF Next, Probe

(* A report is only added by the battery.                                  *)
LEMMA ReportsGrow ==
  ASSUME PublishInv, [Next]_vars, Len(reports') > Len(reports)
  PROVE  RunChecks
<1>0. reports \in Seq(GradedReports)
  BY DEF PublishInv, Progress
<1> HIDE DEF GradedReports
<1>1. Len(reports) \in Nat
  BY <1>0
<1>2. reports' # reports /\ reports' # <<>>
  BY <1>1, EmptyReport
<1>3. ~World /\ ~UNCHANGED vars
  BY <1>2, WorldLeavesProber DEF vars, prober
<1>4. ~(get_multiple_accounts \/ get_slot \/ backup_slot \/ fetch_open_interest)
  BY <1>2 DEF get_multiple_accounts, get_slot, backup_slot, fetch_open_interest, Answer
<1>5. ~(Retry \/ Abort \/ Publish \/ EndCycle \/ Wake)
  BY <1>2 DEF Retry, Abort, Abandon, Publish, EndCycle, Wake
<1> QED
  BY <1>3, <1>4, <1>5 DEF Next, Probe

LEMMA GradedAsOwed ==
  ASSUME PublishInv, MomentInv, RosyInv, RunChecks
  PROVE  reports'[Len(reports')].leader_lock_freshness.status >= owed
<1> DEFINE d == WithExpected(WithSlot(got, clock))
           r == run_all_checks(d)
<1>1. reports' = Append(reports, r) /\ pc = "checks"
  BY DEF RunChecks
<1>2. reports \in Seq(GradedReports) /\ r \in GradedReports
  BY ReportShape DEF PublishInv, Progress
<1>3. Gradable(got) /\ clock \in Nat
  BY DEF MomentInv
<1>4. d.paused \in BOOLEAN
  BY <1>3, Dressed DEF Gradable
<1>5. r.leader_lock_freshness.status = Grade(got, clock)
  <2> HIDE DEF d
  <2>1. r.leader_lock_freshness = leader_lock_freshness(d)
    BY <1>4, FlagGraded
  <2> QED
    BY <2>1 DEF Grade, d
<1>6. Grade(got, clock) >= owed
  BY <1>1 DEF RosyInv
<1> HIDE DEF d, r
<1>7. reports'[Len(reports')] = r
  BY <1>1, <1>2
<1> QED
  BY <1>5, <1>6, <1>7

(* Heartbeats, hand-overs and slots that fall between the reading of the   *)
(* lock and that of the slot never make a leader look fresher than it was. *)
THEOREM LeadersAreNeverFlattered == Spec => NeverRosier
<1> DEFINE Inv == PublishInv /\ MomentInv /\ RosyInv
           Graded1 == Len(reports') > Len(reports) =>
                        reports'[Len(reports')].leader_lock_freshness.status >= owed
<1>1. Init => Inv
  <2>1. Init => RosyInv
    BY DEF Init, RosyInv
  <2> QED
    BY <2>1, PublishStart, MomentStart
<1>2. Inv /\ [Next]_vars => Inv'
  BY PublishStep, MomentStep, RosyStep
<1>3. Inv /\ [Next]_vars => [Graded1]_vars
  BY ReportsGrow, GradedAsOwed
<1> QED
  BY <1>1, <1>2, <1>3, PTL DEF Spec, NeverRosier
=============================================================================
