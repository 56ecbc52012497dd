----------------------------- MODULE HealthDrift ----------------------------
(***************************************************************************)
(* The health battery under facts that only get worse, or go dark.  Every  *)
(* market starts healthy; a step changes one fact of one market to a value *)
(* that is worse in that fact's own order, or takes it from the prober:    *)
(* the on-chain notional of a scan that found nothing, the facts of the    *)
(* leader lock, the leader the operator expects.  So a run of steps is an  *)
(* incident that builds up while the prober may also lose sight of it; the *)
(* report is the function of the facts HealthChecks gives.                 *)
(*                                                                         *)
(* The orders below are those of the facts themselves (a flag raised, a    *)
(* count grown, a balance fallen, a gap widened) and know no bound.        *)
(***************************************************************************)
EXTENDS HealthChecks, FiniteSets

CONSTANTS
  Watched,     \* the markets of the registry
  Wallets,     \* keepers that may hold or be expected to hold a lock
  AtFirst,     \* the facts every market starts with
  Values,      \* the values each fact may take
  MaxSpoilt    \* bound: facts, over all markets, that have changed

PoolFacts == [dormant_ticks: Nat, hints: Nat, open_qty: Nat]

LockFactsSeen ==
  [initialized: BOOLEAN, has_leader: BOOLEAN, leader: Wallets, beat: Nat,
   slot: Nat, threshold: Nat, expected: Wallets \cup {NoFacts}]

HealthContext ==
  [paused_globally: BOOLEAN, paused: BOOLEAN, frozen_new_position: BOOLEAN,
   schema_onchain: Nat, schema_compiled: Nat, sub_pools: Seq(PoolFacts),
   heartbeat: BOOLEAN, failed: Nat, skipped: Nat, warming: Nat,
   vol_known: BOOLEAN, wallet: Nat, latency: Nat, slot_diff: Nat, gpa: Nat,
   slot_age: Nat, confidence: Nat, notional: Nat, recovery: Nat, onchain: Nat,
   leader_lock: LockFactsSeen \cup {NoFacts}]

(* No facts are neither the facts of some lock nor some keeper.            *)
ASSUME DriftParameters ==
  /\ NoFacts \notin LockFactsSeen \cup Wallets
  /\ AtFirst \in HealthContext
  /\ \A fact \in DOMAIN Values: \A v \in Values[fact]:
       [AtFirst EXCEPT ![fact] = v] \in HealthContext

VARIABLES
  facts,  \* the context the prober is handed for each market
  report  \* of the cycle that saw them

driftVars == <<facts, report>>

-----------------------------------------------------------------------------
(* Worse facts: d against c.                                               *)

Gap(c) == IF c.onchain > c.notional THEN c.onchain - c.notional ELSE c.notional - c.onchain

PoolsWorse(c, d) ==
  /\ (\A i \in Pools(c): c.sub_pools[i].open_qty = 0) =>
       \A i \in Pools(d): d.sub_pools[i].open_qty = 0
  /\ \A i \in Pools(c):
       /\ i \in Pools(d)
       /\ c.sub_pools[i].dormant_ticks <= d.sub_pools[i].dormant_ticks
       /\ c.sub_pools[i].hints <= d.sub_pools[i].hints

Owned(lock) == lock.initialized /\ lock.has_leader

(* The lock l against the lock k, of the same threshold.                   *)
LockWorse(k, l) ==
  /\ l.initialized => k.initialized
  /\ Owned(l) => Owned(k)
  /\ l.threshold = k.threshold
  /\ Elapsed(k) <= Elapsed(l)
  /\ l.expected \in {k.expected, NoFacts}
  /\ k.leader # k.expected => l.leader # k.expected

(* A fact that is dark may come back at any value.                         *)
Worse(c, d) ==
  /\ c.paused_globally => d.paused_globally
  /\ c.paused => d.paused
  /\ c.frozen_new_position => d.frozen_new_position
  /\ c.schema_onchain # c.schema_compiled => d.schema_onchain # d.schema_compiled
  /\ PoolsWorse(c, d)
  /\ d.notional = c.notional /\ c.recovery <= d.recovery
  /\ c.onchain # 0 /\ d.onchain # 0 => Gap(c) <= Gap(d)
  /\ d.heartbeat => c.heartbeat
  /\ d.vol_known => c.vol_known
  /\ c.failed <= d.failed /\ c.skipped <= d.skipped /\ c.warming <= d.warming
  /\ d.wallet <= c.wallet
  /\ c.latency <= d.latency /\ c.slot_diff <= d.slot_diff /\ c.gpa <= d.gpa
  /\ c.slot_age <= d.slot_age /\ c.confidence <= d.confidence
  /\ c.leader_lock # NoFacts /\ d.leader_lock # NoFacts =>
       LockWorse(c.leader_lock, d.leader_lock)

LockChecks == {"leader_lock_initialized", "leader_lock_freshness", "holder_matches_expected"}

(* The checks whose fact went dark from c to d.                            *)
Blinded(c, d) ==
  LET dark(lock) == lock = NoFacts
      scan   == c.onchain # 0 /\ d.onchain = 0
      lost   == ~dark(c.leader_lock) /\ dark(d.leader_lock)
      vague  == /\ ~dark(c.leader_lock) /\ ~dark(d.leader_lock)
                /\ c.leader_lock.expected # NoFacts
                /\ d.leader_lock.expected = NoFacts
  IN  (IF scan THEN {"position_principal_drift"} ELSE {})
        \cup (IF lost THEN LockChecks ELSE {})
        \cup (IF vague THEN {"holder_matches_expected"} ELSE {})

-----------------------------------------------------------------------------

DriftInit ==
  /\ facts = [w \in Watched |-> AtFirst]
  /\ report = [w \in Watched |-> run_all_checks(AtFirst)]

Spoilt(w) == {fact \in DOMAIN AtFirst: facts[w][fact] # AtFirst[fact]}

Worsen(w, d) ==
  /\ Worse(facts[w], d)
  /\ facts' = [facts EXCEPT ![w] = d]
  /\ report' = [report EXCEPT ![w] = run_all_checks(d)]

DriftNext ==
  \E w \in Watched, fact \in DOMAIN Values:
    /\ Cardinality(UNION {{x} \X Spoilt(x): x \in Watched} \ {<<w, fact>>}) < MaxSpoilt
    /\ \E v \in Values[fact]: Worsen(w, [facts[w] EXCEPT ![fact] = v])

DriftSpec == DriftInit /\ [][DriftNext]_driftVars

-----------------------------------------------------------------------------

(* The three reductions of a report (the overall status, the exit code and *)
(* the most urgent firing tier) never contradict each other: the code is 0 *)
(* exactly when nothing fires, and 2 or more exactly when the status is    *)
(* CRITICAL, so that a pager keyed to one and a page keyed to another tell *)
(* the same story.                                                         *)
PagerAgrees(r) ==
  LET code == exit_code_for_status(r)
  IN  /\ (code = 0) <=> (overall_status(r) = Pass)
      /\ (code >= 2) <=> (overall_status(r) = Critical)
      /\ (highest_firing_severity(r) = NoTier) <=> (code = 0)
      /\ code = 4 => highest_firing_severity(r) = 0

(* ... and so do the protocol's line and the worst code over the reports   *)
(* of all markets: nothing in the one exactly when 0 in the other, P1      *)
(* exactly when some market's code says CRITICAL.                          *)
ProtocolAgrees(reports) ==
  /\ (protocol_severity(reports) = NoTier) <=> (worst_exit_code(reports) = 0)
  /\ (protocol_severity(reports) = 1) <=> (worst_exit_code(reports) >= 2)

ReportsAgree == (\A w \in Watched: PagerAgrees(report[w])) /\ ProtocolAgrees(report)

(* An incident never looks better while it is in sight: when a market's    *)
(* facts worsen, no check that still has its fact steps down, and the exit *)
(* code falls no further than the checks that lost theirs account for; a   *)
(* check that lost its fact does not page.                                 *)
Without(r, blind) == [n \in CheckNames |-> IF n \in blind THEN Result(Pass, 0) ELSE r[n]]

NoBetter(old, new, blind) ==
  /\ \A n \in CheckNames \ blind: new[n].status >= old[n].status
  /\ \A n \in blind: new[n].status # Critical
  /\ exit_code_for_status(new) >= exit_code_for_status(Without(old, blind))

NeverLooksBetter ==
  [][\A w \in Watched:
       NoBetter(report[w], report'[w], Blinded(facts[w], facts'[w]))]_driftVars
=============================================================================
