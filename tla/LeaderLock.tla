----------------------------- MODULE LeaderLock -----------------------------
(***************************************************************************)
(* The KeeperLeaderLock account of one market and its four instructions    *)
(* (programs/mole-option/src/instructions/keeper_leader.rs).  The lock     *)
(* predicates are those of crates/keeper-decoder/src/leader_lock.rs, which *)
(* the keeper bots also apply to their own mirror of the account.          *)
(*                                                                         *)
(* A keeper submits the slot it observed; the chain accepts it when it is  *)
(* neither older than the recorded heartbeat nor in the future.            *)
(***************************************************************************)
EXTENDS Integers

CONSTANTS
  Keepers,   \* the keeper keys
  NoKeeper,  \* stands for has_leader = false
  Takeover,  \* takeover_threshold_slots
  MaxSlot    \* bound: the last slot of the chain's clock

ASSUME LockParameters ==
  /\ NoKeeper \notin Keepers
  /\ Takeover \in Nat
  /\ MaxSlot \in Nat

VARIABLES
  lock,   \* the account: its leader and the slot of the last heartbeat
  slot    \* Clock::get().slot

lockVars == <<lock, slot>>

Lock == [leader : Keepers \cup {NoKeeper}, beat : Nat]

-----------------------------------------------------------------------------
(* Mutant: a heartbeat exactly at the threshold already counts as late.    *)
IsStale_AtThreshold(l, s) == l.leader = NoKeeper \/ s - l.beat >= Takeover

(* Nobody leads, or the leader has been silent for more than the threshold.*)
IsStale(l, s) == l.leader = NoKeeper \/ s - l.beat > Takeover

(* Mutant: only the future is refused.                                     *)
ValidObserved_NoSkewCheck(l, seen, now) == seen <= now

(* validate_observed_slot.                                                 *)
ValidObserved(l, seen, now) == l.beat <= seen /\ seen <= now

(* Mutant: nobody takes over from a silent leader.                         *)
MayLead_HolderOnly(l, k, s) == l.leader \in {k, NoKeeper}

(* Mutant: a lock nobody holds must age like any other.                    *)
MayLead_NotVacant(l, k, s) == l.leader = k \/ s - l.beat > Takeover

(* Who may write its name and slot into the lock: the leader itself, or    *)
(* anyone once it is stale.                                                *)
MayLead(l, k, s) == l.leader = k \/ IsStale(l, s)

HeldBy(k, s) == [leader |-> k, beat |-> s]

-----------------------------------------------------------------------------
(* initialize_keeper_leader_lock: no leader, stamped with the clock.       *)
Init ==
  /\ slot \in 0 .. MaxSlot
  /\ lock = HeldBy(NoKeeper, slot)

(* Slots pass.                                                             *)
Advance ==
  /\ slot < MaxSlot
  /\ slot' = slot + 1
  /\ UNCHANGED lock

(* keeper_leader_heartbeat: acquires, refreshes or takes over.             *)
Heartbeat(k, seen) ==
  /\ ValidObserved(lock, seen, slot)
  /\ MayLead(lock, k, seen)
  /\ lock' = HeldBy(k, seen)
  /\ UNCHANGED slot

(* keeper_leader_acquire: refused while the lock is fresh.                 *)
Acquire(k, seen) ==
  /\ ValidObserved(lock, seen, slot)
  /\ IsStale(lock, seen)
  /\ lock' = HeldBy(k, seen)
  /\ UNCHANGED slot

(* keeper_leader_release: by the holder only; stamped with the clock.      *)
Release(k) ==
  /\ lock.leader = k
  /\ lock' = HeldBy(NoKeeper, slot)
  /\ UNCHANGED slot

Next ==
  \/ Advance
  \/ \E k \in Keepers, seen \in 0 .. MaxSlot : Heartbeat(k, seen) \/ Acquire(k, seen)
  \/ \E k \in Keepers : Release(k)

Spec == Init /\ [][Next]_lockVars

-----------------------------------------------------------------------------
(* The recorded heartbeat is never ahead of the chain's clock, whatever    *)
(* slots keepers claim: a keeper cannot extend its lease into the future.  *)
LockTypeOK ==
  /\ lock \in Lock
  /\ slot \in Nat
  /\ lock.beat <= slot

(* Invariant 2 of leader_lock.rs: the heartbeat slot never goes back, not  *)
(* through a release, a takeover or a keeper with a late clock.            *)
BeatNeverRegresses == [][lock'.beat >= lock.beat]_lockVars

(* Invariant 3: leadership passes from one keeper to another only after    *)
(* the chain itself has counted more than Takeover slots since the last    *)
(* heartbeat, whatever slot the new leader claims to have observed.        *)
TakeoverOnlyWhenSilent ==
  [][lock.leader # NoKeeper /\ lock'.leader \notin {lock.leader, NoKeeper} =>
       slot - lock.beat > Takeover]_lockVars
=============================================================================
