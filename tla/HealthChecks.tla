---------------------------- MODULE HealthChecks ----------------------------
(***************************************************************************)
(* The health prober's battery (crates/ops-toolkit: checks.rs, report.rs,  *)
(* protocol_summary.rs): pure functions from a HealthContext to a graded   *)
(* result per check, and the folds that turn a report into an exit code, a *)
(* severity and a line for the whole protocol.                             *)
(*                                                                         *)
(* Statuses and severities are their ranks: 0 Pass, 1 Warn, 2 Critical;    *)
(* P0 is 0, the most urgent.  Ratios the code computes in floating point   *)
(* are compared cross-multiplied.  The wallet is in millions of lamports,  *)
(* the confidence ratio in thousandths.                                    *)
(***************************************************************************)
EXTENDS Integers, Sequences

CONSTANT NoFacts  \* ctx.leader_lock or expected_leader is None

Pass == 0
Warn == 1
Critical == 2

Result(status, severity) == [status |-> status, severity |-> severity]
Status(critical, warn) == IF critical THEN Critical ELSE IF warn THEN Warn ELSE Pass

(* A check with two bounds: the tier goes with the branch.                 *)
Graded(critical, warn, ifCritical, ifWarn, ifPass) ==
  IF critical THEN Result(Critical, ifCritical)
  ELSE IF warn THEN Result(Warn, ifWarn)
  ELSE Result(Pass, ifPass)

Raised(flag, status, tier) == Result(IF flag THEN status ELSE Pass, tier)

global_paused(c) == Raised(c.paused_globally, Critical, 0)
market_paused(c) == Raised(c.paused, Critical, 0)
frozen_new_position(c) == Raised(c.frozen_new_position, Warn, 2)
schema_version_match(c) == Raised(c.schema_onchain # c.schema_compiled, Critical, 1)

Pools(c) == DOMAIN c.sub_pools

trading_activity(c) ==
  Raised(\A i \in Pools(c): c.sub_pools[i].open_qty = 0, Warn, 3)
dormant_inventory(c) ==
  Graded(\E i \in Pools(c): c.sub_pools[i].dormant_ticks > 5000,
         \E i \in Pools(c): c.sub_pools[i].dormant_ticks > 2000, 1, 2, 2)
recovery_outstanding(c) ==
  LET above(share) == c.notional > 0 /\ share * c.recovery > c.notional
  IN  Graded(above(100), above(1000), 0, 2, 2)
pending_init_hints(c) ==
  Raised(\E i \in Pools(c): c.sub_pools[i].hints >= 50, Warn, 2)

keeper_alive(c) == Raised(~c.heartbeat, Critical, 1)
keeper_failed_actions_rate(c) == Graded(c.failed >= 5, c.failed >= 2, 1, 2, 1)
keeper_skipped_actions_rate(c) == Raised(c.skipped >= 100, Warn, 2)
keeper_vol_estimator(c) == Raised(c.warming >= 3 /\ ~c.vol_known, Warn, 2)
keeper_wallet_balance(c) == Graded(c.wallet < 200, c.wallet < 500, 1, 2, 1)

rpc_primary_latency(c) == Graded(c.latency > 1000, c.latency > 200, 1, 2, 1)
rpc_primary_backup_lag(c) == Graded(c.slot_diff > 32, c.slot_diff > 5, 1, 2, 1)
rpc_get_program_accounts_latency(c) == Graded(c.gpa > 30000, c.gpa > 5000, 2, 2, 2)

oracle_slot_age(c) == Graded(c.slot_age > 64, c.slot_age > 30, 0, 1, 0)
oracle_confidence(c) == Graded(c.confidence > 20, c.confidence > 5, 1, 2, 1)

(* The three leader-lock checks pass when the prober has no lock facts.    *)
leader_lock_initialized(c) ==
  Raised(c.leader_lock # NoFacts /\ ~c.leader_lock.initialized, Critical, 1)

Elapsed(lock) == IF lock.slot > lock.beat THEN lock.slot - lock.beat ELSE 0

leader_lock_freshness(c) ==
  IF c.leader_lock = NoFacts THEN Result(Pass, 1)
  ELSE LET lock == c.leader_lock
           limit == IF lock.threshold > 1 THEN lock.threshold ELSE 1
           owned == lock.initialized /\ lock.has_leader
       IN  Result(Status(~owned \/ 10 * Elapsed(lock) >= 9 * limit,
                         10 * Elapsed(lock) >= 6 * limit), 1)

(* Mutant: a lock nobody holds is left to the freshness check.             *)
holder_matches_expected_IfHeld(c) ==
  IF c.leader_lock = NoFacts THEN Result(Pass, 2)
  ELSE LET lock == c.leader_lock
       IN  Result(Status(/\ lock.expected # NoFacts
                         /\ lock.initialized /\ lock.has_leader
                         /\ lock.leader # lock.expected,
                         lock.expected = NoFacts), 2)

holder_matches_expected(c) ==
  IF c.leader_lock = NoFacts THEN Result(Pass, 2)
  ELSE LET lock == c.leader_lock
       IN  Result(Status(/\ lock.expected # NoFacts
                         /\ \/ ~lock.initialized \/ ~lock.has_leader
                            \/ lock.leader # lock.expected,
                         lock.expected = NoFacts), 2)

(* No on-chain notional is read as "the scan did not run".                 *)
position_principal_drift(c) ==
  LET drift == IF c.onchain > c.notional THEN c.onchain - c.notional
               ELSE c.notional - c.onchain
      reported == IF c.notional > 1 THEN c.notional ELSE 1
  IN  IF c.onchain = 0 THEN Result(Pass, 1)
      ELSE Graded(100 * drift >= 2 * reported, 1000 * drift >= 5 * reported, 1, 2, 1)

CheckNames ==
  {"global_paused", "market_paused", "frozen_new_position", "schema_version_match",
   "trading_activity", "dormant_inventory", "recovery_outstanding",
   "pending_init_hints", "keeper_alive", "keeper_failed_actions_rate",
   "keeper_skipped_actions_rate", "keeper_vol_estimator", "keeper_wallet_balance",
   "rpc_primary_latency", "rpc_primary_backup_lag",
   "rpc_get_program_accounts_latency", "oracle_slot_age", "oracle_confidence",
   "leader_lock_initialized", "leader_lock_freshness",
   "holder_matches_expected", "position_principal_drift"}

run_all_checks(c) ==
  [global_paused |-> global_paused(c), market_paused |-> market_paused(c),
   frozen_new_position |-> frozen_new_position(c),
   schema_version_match |-> schema_version_match(c),
   trading_activity |-> trading_activity(c),
   dormant_inventory |-> dormant_inventory(c),
   recovery_outstanding |-> recovery_outstanding(c),
   pending_init_hints |-> pending_init_hints(c),
   keeper_alive |-> keeper_alive(c),
   keeper_failed_actions_rate |-> keeper_failed_actions_rate(c),
   keeper_skipped_actions_rate |-> keeper_skipped_actions_rate(c),
   keeper_vol_estimator |-> keeper_vol_estimator(c),
   keeper_wallet_balance |-> keeper_wallet_balance(c),
   rpc_primary_latency |-> rpc_primary_latency(c),
   rpc_primary_backup_lag |-> rpc_primary_backup_lag(c),
   rpc_get_program_accounts_latency |-> rpc_get_program_accounts_latency(c),
   oracle_slot_age |-> oracle_slot_age(c), oracle_confidence |-> oracle_confidence(c),
   leader_lock_initialized |-> leader_lock_initialized(c),
   leader_lock_freshness |-> leader_lock_freshness(c),
   holder_matches_expected |-> holder_matches_expected(c),
   position_principal_drift |-> position_principal_drift(c)]

-----------------------------------------------------------------------------
(* Folds over one report.                                                  *)

Has(report, status, tiers) ==
  \E n \in DOMAIN report: report[n].status = status /\ report[n].severity \in tiers

overall_status(report) ==
  Status(Has(report, Critical, 0 .. 3), Has(report, Warn, 0 .. 3))

NoTier == 4  \* nothing fires

highest_firing_severity(report) ==
  LET firing == {n \in DOMAIN report: report[n].status # Pass}
  IN  IF firing = {} THEN NoTier
      ELSE CHOOSE p \in 0 .. 3:
             /\ \E n \in firing: report[n].severity = p
             /\ \A n \in firing: p <= report[n].severity

(* Mutant: the arm of a critical P2 is left out.                           *)
exit_code_for_status_NoP2(report) ==
  IF Has(report, Critical, {0}) THEN 4
  ELSE IF Has(report, Critical, {1}) THEN 3
  ELSE IF Has(report, Critical, {3}) \/ Has(report, Warn, 0 .. 3) THEN 1
  ELSE 0

exit_code_for_status(report) ==
  IF Has(report, Critical, {0}) THEN 4
  ELSE IF Has(report, Critical, {1}) THEN 3
  ELSE IF Has(report, Critical, {2}) THEN 2
  ELSE IF Has(report, Critical, {3}) \/ Has(report, Warn, 0 .. 3) THEN 1
  ELSE 0

(* Folds over the reports of all markets.                                  *)

WithStatus(reports, status) ==
  {i \in DOMAIN reports: overall_status(reports[i]) = status}

worst_exit_code(reports) ==
  LET codes == {exit_code_for_status(reports[i]): i \in DOMAIN reports} \cup {0}
  IN  CHOOSE w \in codes: \A code \in codes: code <= w

protocol_severity(reports) ==
  IF WithStatus(reports, Critical) # {} THEN 1
  ELSE IF WithStatus(reports, Warn) # {} THEN 2
  ELSE NoTier
=============================================================================
