----------------------------- MODULE KeeperFleet -----------------------------
(***************************************************************************)
(* Replicas of crates/keeper-bot sharing one KeeperLeaderLock account.     *)
(* run_loop_with_leader_and_rpc_reconcile (run.rs) and tick_one_slot       *)
(* (multi.rs) are the same loop body: refresh a snapshot, reconcile the    *)
(* mirror of the lock when due, run try_heartbeat on the mirror, publish a *)
(* heartbeat when due, dispatch.  What a bot knows of the time is          *)
(* snapshot_best_slot: the last slot at which somebody synced a sub-pool.  *)
(* No keeper action syncs one; traders do, or nobody does.                 *)
(*                                                                         *)
(* A tick is three steps, one per round trip to the chain, so that the     *)
(* chain moves in between.  A transaction is confirmed before submit       *)
(* returns, or fails there and is lost, or fails there and lands later.    *)
(* The lock has been initialised; the market is not paused.                *)
(***************************************************************************)
EXTENDS LeaderLock, FiniteSets

CONSTANTS
  ReconcileEvery,  \* reconcile_every, in ticks
  HeartbeatEvery,  \* heartbeat_every, in ticks
  MaxFailures,     \* bound: failed RPC calls
  MaxStops         \* bound: times a bot stops

ASSUME FleetParameters ==
  {ReconcileEvery, HeartbeatEvery, MaxFailures, MaxStops} \subseteq Nat

VARIABLES
  syncSlot,  \* the newest last_sync_slot of the market's sub-pools
  bot,       \* the state of each replica's process
  late,      \* transactions that timed out and may still land
  failures, stops

fleetVars == <<lockVars, syncSlot, bot, late, failures, stops>>

(* A process that has just started: its mirror is KeeperLeaderLock::fresh, *)
(* both cadences are due.                                                  *)
Booted ==
  [up |-> TRUE, phase |-> "Idle", seen |-> 0, mirror |-> HeldBy(NoKeeper, 0),
   leads |-> FALSE, sinceReconcile |-> ReconcileEvery,
   sinceBeat |-> HeartbeatEvery]

FleetInit ==
  /\ Init
  /\ syncSlot \in 0 .. slot
  /\ bot = [k \in Keepers |-> Booted]
  /\ late = {}
  /\ failures = 0
  /\ stops = 0

-----------------------------------------------------------------------------
(* The chain and its other users.                                          *)

SlotPasses ==
  /\ Advance
  /\ UNCHANGED <<syncSlot, bot, late, failures, stops>>

(* A trader's transaction syncs a sub-pool.                                *)
TraderSyncs ==
  /\ syncSlot' = slot
  /\ UNCHANGED <<lock, slot, bot, late, failures, stops>>

(* The chain executes a transaction of keeper tx.from, or refuses it.      *)
Executes(tx) ==
  \/ tx.kind = "Heartbeat" /\ Heartbeat(tx.from, tx.seen)
  \/ tx.kind = "Release" /\ Release(tx.from)

Refused(tx) ==
  /\ \/ /\ tx.kind = "Heartbeat"
        /\ ~(ValidObserved(lock, tx.seen, slot) /\ MayLead(lock, tx.from, tx.seen))
     \/ tx.kind = "Release" /\ lock.leader # tx.from
  /\ UNCHANGED lockVars

(* A timed-out transaction lands, or its blockhash expires.                *)
LandsLate(tx) ==
  /\ late' = late \ {tx}
  /\ Executes(tx) \/ UNCHANGED lockVars
  /\ UNCHANGED <<syncSlot, bot, failures, stops>>

-----------------------------------------------------------------------------
(* submit_leader_ix: `ok` is what it returns.                              *)
Submit(tx, ok) ==
  \/ ok /\ Executes(tx) /\ UNCHANGED <<late, failures>>
  \/ ~ok /\ Refused(tx) /\ UNCHANGED <<late, failures>>
  \/ /\ ~ok /\ failures < MaxFailures
     /\ failures' = failures + 1
     /\ late' \in {late, late \cup {tx}}
     /\ UNCHANGED lockVars

Bump(n, every) == IF n < every THEN n + 1 ELSE every

(* The snapshot of a tick.                                                 *)
Refresh(k) ==
  /\ bot[k].up /\ bot[k].phase = "Idle"
  /\ bot' = [bot EXCEPT ![k].phase = "Snapshot", ![k].seen = syncSlot]
  /\ UNCHANGED <<lockVars, syncSlot, late, failures, stops>>

ReconcileDue(b) == b.sinceReconcile >= ReconcileEvery

(* Mutant: the fetched account is not stored in the mirror.                *)
Reconciled_Dropped(b) == [b EXCEPT !.sinceReconcile = 0]

Reconciled(b) == [b EXCEPT !.mirror = lock, !.sinceReconcile = 0]

(* The reconcile of a tick: not due, done, or failed and only logged.      *)
Reconcile(k) ==
  LET b == bot[k]
      go(c) == bot' = [bot EXCEPT ![k] = [c EXCEPT !.phase = "Reconciled"]]
  IN  /\ b.up /\ b.phase = "Snapshot"
      /\ \/ ~ReconcileDue(b) /\ go(b) /\ UNCHANGED failures
         \/ ReconcileDue(b) /\ go(Reconciled(b)) /\ UNCHANGED failures
         \/ /\ ReconcileDue(b) /\ failures < MaxFailures
            /\ go(b) /\ failures' = failures + 1
      /\ UNCHANGED <<lockVars, syncSlot, late, stops>>

(* The leader gate: try_heartbeat on the mirror.                           *)
Passes(b, k) == b.seen >= b.mirror.beat /\ MayLead(b.mirror, k, b.seen)

BeatDue(b) == ~b.leads \/ b.sinceBeat >= HeartbeatEvery

(* The end of a tick; `beat` says whether a heartbeat was confirmed.       *)
Ended(b, leads, mirror, beat) ==
  [b EXCEPT !.phase = "Idle", !.leads = leads, !.mirror = mirror,
            !.sinceReconcile = Bump(@, ReconcileEvery),
            !.sinceBeat = Bump(IF beat THEN 0 ELSE @, HeartbeatEvery)]

(* The gate refuses: nothing is dispatched this tick.                      *)
StandBy(k) ==
  /\ bot[k].up /\ bot[k].phase = "Reconciled"
  /\ ~Passes(bot[k], k)
  /\ bot' = [bot EXCEPT ![k] = Ended(@, FALSE, @.mirror, FALSE)]
  /\ UNCHANGED <<lockVars, syncSlot, late, failures, stops>>

(* The gate lets the bot dispatch, after a heartbeat when one is due; a    *)
(* heartbeat the chain refuses does not stop it.                           *)
Lead(k) ==
  LET b  == bot[k]
      tx == [kind |-> "Heartbeat", from |-> k, seen |-> b.seen]
      end(beat) == bot' = [bot EXCEPT ![k] = Ended(b, TRUE, HeldBy(k, b.seen), beat)]
  IN  /\ b.up /\ b.phase = "Reconciled"
      /\ Passes(b, k)
      /\ \/ BeatDue(b) /\ \E ok \in BOOLEAN : Submit(tx, ok) /\ end(ok)
         \/ ~BeatDue(b) /\ end(FALSE) /\ UNCHANGED <<lockVars, late, failures>>
      /\ UNCHANGED <<syncSlot, stops>>

-----------------------------------------------------------------------------
(* SIGTERM, seen at the top of the loop: a bot that led on its last tick   *)
(* submits a release (try_graceful_release) and exits either way.          *)
Shutdown(k) ==
  /\ bot[k].up /\ bot[k].phase = "Idle"
  /\ stops < MaxStops /\ stops' = stops + 1
  /\ \/ bot[k].leads /\ \E ok \in BOOLEAN :
                          Submit([kind |-> "Release", from |-> k], ok)
     \/ ~bot[k].leads /\ UNCHANGED <<lockVars, late, failures>>
  /\ bot' = [bot EXCEPT ![k] = [Booted EXCEPT !.up = FALSE]]
  /\ UNCHANGED syncSlot

(* The process dies, or leaves the loop on a permanent error, with no      *)
(* release.                                                                *)
Crash(k) ==
  /\ bot[k].up
  /\ stops < MaxStops /\ stops' = stops + 1
  /\ bot' = [bot EXCEPT ![k] = [Booted EXCEPT !.up = FALSE]]
  /\ UNCHANGED <<lockVars, syncSlot, late, failures>>

Restart(k) ==
  /\ ~bot[k].up
  /\ bot' = [bot EXCEPT ![k] = Booted]
  /\ UNCHANGED <<lockVars, syncSlot, late, failures, stops>>

FleetNext ==
  \/ SlotPasses \/ TraderSyncs
  \/ \E tx \in late : LandsLate(tx)
  \/ \E k \in Keepers : \/ Refresh(k) \/ Reconcile(k) \/ StandBy(k) \/ Lead(k)
                         \/ Shutdown(k) \/ Crash(k) \/ Restart(k)

FleetSpec == FleetInit /\ [][FleetNext]_fleetVars

(* A running replica keeps ticking (the loop sleeps 800 ms), and slots     *)
(* keep passing up to the bound.                                           *)
Ticking ==
  /\ \A k \in Keepers : WF_fleetVars(Refresh(k) \/ Reconcile(k) \/ StandBy(k) \/ Lead(k))
  /\ WF_fleetVars(SlotPasses)

(* Besides, somebody keeps trading.                                        *)
Traded == WF_fleetVars(TraderSyncs)

BusySpec == FleetSpec /\ Ticking /\ Traded

-----------------------------------------------------------------------------
(* Once the bots' clock stands still, two replicas that both dispatch do   *)
(* not go on so: the next reconcile of the one the chain did not recognise *)
(* sends it to stand by (run.rs:553-600, leader.rs:22-25), whichever       *)
(* heartbeats and fetches failed on the way.                               *)
SplitBrain == \E j, k \in Keepers : j # k /\ bot[j].leads /\ bot[k].leads

SplitBrainHeals ==
  <>[][UNCHANGED syncSlot]_fleetVars => (SplitBrain ~> ~SplitBrain)

SomeUp == \E k \in Keepers : bot[k].up

(* crates/keeper-bot/src/run.rs:604: when the leader is gone without a     *)
(* release, a standby that keeps running takes over once the threshold has *)
(* passed.                                                                 *)
SilentLeaderReplaced ==
  (lock.leader # NoKeeper /\ IsStale(lock, slot))
     ~> (~IsStale(lock, slot) \/ ~SomeUp)

(* run.rs:471: after a graceful release the next heartbeat of a standby    *)
(* acquires the lock.                                                      *)
ReleasedLockTaken == (lock.leader = NoKeeper) ~> (lock.leader # NoKeeper \/ ~SomeUp)
=============================================================================
