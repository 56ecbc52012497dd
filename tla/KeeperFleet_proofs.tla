-------------------------- MODULE KeeperFleet_proofs --------------------------
(***************************************************************************)
(* First the KeeperLeaderLock account, for any set of keepers and any      *)
(* takeover threshold: LockTypeOK is inductive by itself, and the two      *)
(* action properties follow from it step by step.                          *)
(*                                                                         *)
(* Then a fleet of any size, with any cadences and any number of failures, *)
(* late transactions, crashes and restarts: it drives the lock only as     *)
(* LeaderLock allows, so what holds of the lock holds of the fleet.  The   *)
(* one thing to know of the bots is that the slots they and their          *)
(* transactions carry are slots.                                           *)
(***************************************************************************)
EXTENDS KeeperFleet, TLAPS

LEMMA InitType == Init => LockTypeOK
  BY LockParameters DEF Init, LockTypeOK, Lock, HeldBy

(* A heartbeat or an acquisition records a slot between the last one and   *)
(* the clock.                                                              *)
LEMMA TakesLead ==
  ASSUME LockTypeOK, NEW k \in Keepers, NEW seen \in 0 .. MaxSlot,
         Heartbeat(k, seen) \/ Acquire(k, seen)
  PROVE  /\ LockTypeOK'
         /\ lock'.beat >= lock.beat
  <1>1. /\ lock' = [leader |-> k, beat |-> seen]
        /\ slot' = slot
        /\ lock.beat <= seen /\ seen <= slot
    BY DEF Heartbeat, Acquire, ValidObserved, HeldBy
  <1>2. seen \in Nat
    BY LockParameters
  <1> QED
    BY <1>1, <1>2 DEF LockTypeOK, Lock

LEMMA StepType == LockTypeOK /\ [Next]_lockVars => LockTypeOK'
  <1> SUFFICES ASSUME LockTypeOK, [Next]_lockVars PROVE LockTypeOK'
    OBVIOUS
  <1>1. CASE Advance
    BY <1>1 DEF Advance, LockTypeOK, Lock
  <1>2. CASE \E k \in Keepers, seen \in 0 .. MaxSlot :
               Heartbeat(k, seen) \/ Acquire(k, seen)
    BY <1>2, TakesLead
  <1>3. CASE \E k \in Keepers : Release(k)
    BY <1>3 DEF Release, LockTypeOK, Lock, HeldBy
  <1>4. CASE UNCHANGED lockVars
    BY <1>4 DEF lockVars, LockTypeOK
  <1> QED
    BY <1>1, <1>2, <1>3, <1>4 DEF Next

(* The account's heartbeat is never ahead of the chain's clock.            *)
THEOREM LockTypeCorrect == Spec => []LockTypeOK
  <1> QED
    BY InitType, StepType, PTL DEF Spec

(* The heartbeat slot never goes back.                                     *)
THEOREM BeatMonotone == Spec => BeatNeverRegresses
  <1>1. LockTypeOK /\ [Next]_lockVars => [lock'.beat >= lock.beat]_lockVars
    <2> SUFFICES ASSUME LockTypeOK, Next PROVE lock'.beat >= lock.beat
      OBVIOUS
    <2>1. CASE Advance
      BY <2>1 DEF Advance, LockTypeOK, Lock
    <2>2. CASE \E k \in Keepers, seen \in 0 .. MaxSlot :
                 Heartbeat(k, seen) \/ Acquire(k, seen)
      BY <2>2, TakesLead
    <2>3. CASE \E k \in Keepers : Release(k)
      BY <2>3 DEF Release, LockTypeOK, HeldBy
    <2> QED
      BY <2>1, <2>2, <2>3 DEF Next
  <1> QED
    BY <1>1, LockTypeCorrect, PTL DEF Spec, BeatNeverRegresses

(* A keeper displaces another one only when the chain has counted more     *)
(* than Takeover slots without a heartbeat.                                *)
THEOREM NoTakeoverOfFreshLock == Spec => TakeoverOnlyWhenSilent
  <1> DEFINE Displaced ==
        lock.leader # NoKeeper /\ lock'.leader \notin {lock.leader, NoKeeper}
  <1>1. LockTypeOK /\ [Next]_lockVars
          => [Displaced => slot - lock.beat > Takeover]_lockVars
    <2> SUFFICES ASSUME LockTypeOK, Next, Displaced
                 PROVE  slot - lock.beat > Takeover
      OBVIOUS
    <2>1. CASE Advance
      BY <2>1 DEF Advance
    <2>2. CASE \E k \in Keepers, seen \in 0 .. MaxSlot :
                 Heartbeat(k, seen) \/ Acquire(k, seen)
      <3>1. PICK k \in Keepers, seen \in 0 .. MaxSlot :
                 Heartbeat(k, seen) \/ Acquire(k, seen)
        BY <2>2
      <3>2. IsStale(lock, seen) /\ seen <= slot
        BY <3>1 DEF Heartbeat, Acquire, MayLead, HeldBy, ValidObserved
      <3>3. seen - lock.beat > Takeover
        BY <3>2 DEF IsStale
      <3> QED
        BY <3>2, <3>3, LockParameters DEF LockTypeOK, Lock
    <2>3. CASE \E k \in Keepers : Release(k)
      BY <2>3 DEF Release, HeldBy
    <2> QED
      BY <2>1, <2>2, <2>3 DEF Next
  <1> QED
    BY <1>1, LockTypeCorrect, PTL DEF Spec, TakeoverOnlyWhenSilent

-----------------------------------------------------------------------------

BotFields ==
  {"up", "phase", "seen", "mirror", "leads", "sinceReconcile", "sinceBeat"}

IsBot(b) == b = [f \in BotFields |-> b[f]] /\ b.seen \in Nat

IsTx(tx) == tx.from \in Keepers /\ (tx.kind = "Heartbeat" => tx.seen \in Nat)

FleetInv ==
  /\ LockTypeOK /\ slot <= MaxSlot
  /\ syncSlot \in Nat
  /\ bot = [k \in Keepers |-> bot[k]]
  /\ \A k \in Keepers : IsBot(bot[k])
  /\ \A tx \in late : IsTx(tx)

(* What a step leaves of the lock and of the bound on the clock.           *)
LockStep == [Next]_lockVars /\ LockTypeOK' /\ slot' <= MaxSlot

LEMMA FleetInitial == FleetInit => Init /\ FleetInv
  <1> SUFFICES ASSUME FleetInit PROVE Init /\ FleetInv
    OBVIOUS
  <1>1. Init /\ LockTypeOK /\ slot \in 0 .. MaxSlot
    BY InitType DEF FleetInit, Init
  <1>2. syncSlot \in Nat
    BY <1>1 DEF FleetInit
  <1>3. IsBot(Booted)
    BY DEF IsBot, BotFields, Booted
  <1>4. bot = [k \in Keepers |-> Booted] /\ late = {}
    BY DEF FleetInit
  <1> QED
    BY <1>1, <1>2, <1>3, <1>4 DEF FleetInv

(* A transaction, whoever sends it and whenever it lands, is an            *)
(* instruction of the lock.                                                *)
LEMMA ExecutesLock ==
  ASSUME FleetInv, NEW tx, IsTx(tx), Executes(tx)
  PROVE  LockStep
  <1>1. CASE tx.kind = "Heartbeat" /\ Heartbeat(tx.from, tx.seen)
    <2>1. tx.seen <= slot /\ slot' = slot
      BY <1>1 DEF Heartbeat, ValidObserved
    <2>2. tx.from \in Keepers /\ tx.seen \in 0 .. MaxSlot
      BY <1>1, <2>1, LockParameters DEF IsTx, FleetInv, LockTypeOK
    <2>3. Next
      BY <1>1, <2>2 DEF Next
    <2> QED
      BY <2>1, <2>3, StepType DEF LockStep, FleetInv
  <1>2. CASE tx.kind = "Release" /\ Release(tx.from)
    <2>1. Next
      BY <1>2 DEF Next, IsTx
    <2> QED
      BY <1>2, <2>1, StepType DEF LockStep, FleetInv, Release
  <1> QED
    BY <1>1, <1>2 DEF Executes

LEMMA IdleLock ==
  ASSUME FleetInv, UNCHANGED lockVars
  PROVE  LockStep
  BY StepType DEF LockStep, FleetInv, lockVars

LEMMA SubmitLock ==
  ASSUME FleetInv, NEW tx, IsTx(tx), NEW ok, Submit(tx, ok)
  PROVE  LockStep /\ \A t \in late' : IsTx(t)
  <1>1. CASE Executes(tx) /\ UNCHANGED <<late, failures>>
    BY <1>1, ExecutesLock DEF FleetInv
  <1>2. CASE Refused(tx) /\ UNCHANGED <<late, failures>>
    BY <1>2, IdleLock DEF Refused, FleetInv
  <1>3. CASE late' \in {late, late \cup {tx}} /\ UNCHANGED lockVars
    BY <1>3, IdleLock DEF FleetInv
  <1> QED
    BY <1>1, <1>2, <1>3 DEF Submit

(* One bot's own state.                                                    *)
LEMMA BotStep ==
  ASSUME FleetInv, NEW k \in Keepers, NEW b, IsBot(b),
         bot' = [bot EXCEPT ![k] = b], LockStep, syncSlot' = syncSlot,
         \A t \in late' : IsTx(t)
  PROVE  FleetInv'
  BY DEF FleetInv, LockStep

LEMMA FleetStep == FleetInv /\ [FleetNext]_fleetVars => LockStep /\ FleetInv'
  <1> SUFFICES ASSUME FleetInv, [FleetNext]_fleetVars PROVE LockStep /\ FleetInv'
    OBVIOUS
  <1>1. CASE SlotPasses
    <2>1. LockStep
      BY <1>1, StepType, LockParameters
      DEF SlotPasses, Advance, Next, LockStep, FleetInv, LockTypeOK
    <2> QED
      BY <1>1, <2>1 DEF SlotPasses, FleetInv, LockStep
  <1>2. CASE TraderSyncs
    <2>1. LockStep
      BY <1>2, IdleLock DEF TraderSyncs, lockVars
    <2> QED
      BY <1>2, <2>1 DEF TraderSyncs, FleetInv, LockStep, LockTypeOK
  <1>3. ASSUME NEW tx \in late, LandsLate(tx) PROVE LockStep /\ FleetInv'
    <2>1. LockStep
      BY <1>3, ExecutesLock, IdleLock DEF LandsLate, FleetInv
    <2> QED
      BY <1>3, <2>1 DEF LandsLate, FleetInv, LockStep
  <1>4. ASSUME NEW k \in Keepers,
               Refresh(k) \/ Reconcile(k) \/ StandBy(k) \/ Lead(k)
                 \/ Shutdown(k) \/ Crash(k) \/ Restart(k)
        PROVE  LockStep /\ FleetInv'
    <2>1. IsBot(bot[k])
      BY DEF FleetInv
    <2>2. IsBot(Booted) /\ IsBot([Booted EXCEPT !.up = FALSE])
      BY DEF IsBot, BotFields, Booted
    <2>3. CASE Refresh(k)
      <3> DEFINE b == [bot[k] EXCEPT !.phase = "Snapshot", !.seen = syncSlot]
      <3>1. IsBot(b)
        BY <2>1 DEF IsBot, BotFields, FleetInv
      <3>2. bot' = [bot EXCEPT ![k] = b]
        BY <2>3 DEF Refresh
      <3> HIDE DEF b
      <3> QED
        BY <2>3, <3>1, <3>2, IdleLock, BotStep DEF Refresh, FleetInv
    <2>4. CASE Reconcile(k)
      <3>1. PICK c \in {bot[k], Reconciled(bot[k])} :
              bot' = [bot EXCEPT ![k] = [c EXCEPT !.phase = "Reconciled"]]
        BY <2>4 DEF Reconcile
      <3> DEFINE b == [c EXCEPT !.phase = "Reconciled"]
      <3>2. IsBot(b)
        BY <2>1, <3>1 DEF IsBot, BotFields, Reconciled
      <3>3. bot' = [bot EXCEPT ![k] = b]
        BY <3>1
      <3> HIDE DEF b
      <3> QED
        BY <2>4, <3>2, <3>3, IdleLock, BotStep DEF Reconcile, FleetInv
    <2>5. ASSUME NEW leads, NEW mirror, NEW beat
          PROVE  IsBot(Ended(bot[k], leads, mirror, beat))
      BY <2>1 DEF IsBot, BotFields, Ended
    <2>6. CASE StandBy(k)
      <3> DEFINE b == Ended(bot[k], FALSE, bot[k].mirror, FALSE)
      <3>1. bot' = [bot EXCEPT ![k] = b]
        BY <2>1, <2>6 DEF StandBy, FleetInv
      <3> QED
        BY <2>5, <2>6, <3>1, IdleLock, BotStep DEF StandBy, FleetInv
    <2>7. CASE Lead(k)
      <3> DEFINE tx == [kind |-> "Heartbeat", from |-> k, seen |-> bot[k].seen]
      <3>1. IsTx(tx)
        BY <2>1 DEF IsTx, IsBot
      <3> HIDE DEF tx
      <3>2. PICK beat \in BOOLEAN :
              bot' = [bot EXCEPT ![k] = Ended(bot[k], TRUE, HeldBy(k, bot[k].seen), beat)]
        BY <2>7 DEF Lead
      <3>3. LockStep /\ \A t \in late' : IsTx(t)
        <4>1. CASE \E ok \in BOOLEAN : Submit(tx, ok)
          BY <3>1, <4>1, SubmitLock
        <4>2. CASE UNCHANGED <<lockVars, late, failures>>
          BY <4>2, IdleLock DEF FleetInv
        <4> QED
          BY <2>7, <4>1, <4>2 DEF Lead, tx
      <3> QED
        BY <2>5, <2>7, <3>2, <3>3, BotStep DEF Lead
    <2>8. CASE Shutdown(k)
      <3> DEFINE tx == [kind |-> "Release", from |-> k]
      <3>1. IsTx(tx)
        BY DEF IsTx
      <3> HIDE DEF tx
      <3>2. LockStep /\ \A t \in late' : IsTx(t)
        <4>1. CASE \E ok \in BOOLEAN : Submit(tx, ok)
          BY <3>1, <4>1, SubmitLock
        <4>2. CASE UNCHANGED <<lockVars, late, failures>>
          BY <4>2, IdleLock DEF FleetInv
        <4> QED
          BY <2>8, <4>1, <4>2 DEF Shutdown, tx
      <3> QED
        BY <2>2, <2>8, <3>2, BotStep DEF Shutdown
    <2>9. CASE Crash(k)
      BY <2>2, <2>9, IdleLock, BotStep DEF Crash, FleetInv
    <2>10. CASE Restart(k)
      BY <2>2, <2>10, IdleLock, BotStep DEF Restart, FleetInv
    <2> QED
      BY <1>4, <2>3, <2>4, <2>6, <2>7, <2>8, <2>9, <2>10
  <1>5. CASE UNCHANGED fleetVars
    <2>1. LockStep
      BY <1>5, IdleLock DEF fleetVars
    <2> QED
      BY <1>5, <2>1 DEF fleetVars, FleetInv, LockStep
  <1> QED
    BY <1>1, <1>2, <1>3, <1>4, <1>5 DEF FleetNext

(* Whatever the replicas do, and whichever of their transactions are lost  *)
(* or land late, the lock sees nothing but its own four instructions.      *)
THEOREM FleetImplementsLock == FleetSpec => Spec
  <1>1. FleetInv /\ [FleetNext]_fleetVars => [Next]_lockVars
    BY FleetStep DEF LockStep
  <1>2. FleetInv /\ [FleetNext]_fleetVars => FleetInv'
    BY FleetStep
  <1> QED
    BY <1>1, <1>2, FleetInitial, PTL DEF FleetSpec, Spec

(* No replica, however late its heartbeat lands, takes the lock from a     *)
(* leader that beat within the last Takeover slots.                        *)
THEOREM FleetTakeover == FleetSpec => TakeoverOnlyWhenSilent
  <1> QED
    BY FleetImplementsLock, NoTakeoverOfFreshLock, PTL

(* Nor does one that lands late move the recorded heartbeat back.          *)
THEOREM FleetBeatMonotone == FleetSpec => BeatNeverRegresses
  <1> QED
    BY FleetImplementsLock, BeatMonotone, PTL
=============================================================================
