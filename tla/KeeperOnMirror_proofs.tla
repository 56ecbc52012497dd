------------------------ MODULE KeeperOnMirror_proofs ------------------------
(***************************************************************************)
(* What holds of the host's mirror of the program (crates/chain-mirror),   *)
(* and of the keeper's loop on it (crates/keeper), for every value of the  *)
(* constants.                                                              *)
(*                                                                         *)
(* The invariant MirrorInv says that the accounts are tidy (each at the    *)
(* address of its own tick), that the sub-pool built from them is sound    *)
(* and backed by the positions, and that its stores are lean: no bucket    *)
(* without shares, and under eager crediting nothing in flight.  Lean is   *)
(* what makes writing a store into accounts and reading it back the        *)
(* identity (PackedReadsBack): a bucket without shares could be written as *)
(* a dead account and be lost.  With it, an entry point that commits makes *)
(* the sub-pool what the engine computed (CommitWrites), so that the       *)
(* engine's lemmas carry over to the accounts.                             *)
(***************************************************************************)
EXTENDS KeeperOnMirror, ClearingCore_proofs, TLAPS

(***************************************************************************)
(* No call of the engine leaves a bucket without shares or, when it credits *)
(* at once, anything in flight.                                            *)
(***************************************************************************)

(* A store as eager crediting leaves it: no bucket is without shares, and  *)
(* what was distributed was credited, so nothing is in flight.             *)
Lean(st) == AllHeld(st) /\ (Mode = "Eager" => st.pending = 0)

LeanPool(s) == \A d \in Direction : Lean(s.dormant[d])

(* Nothing is ever subtracted from nothing (Monus saturates).              *)
LEMMA NothingToCredit ==
  ASSUME NEW c \in Nat PROVE Monus(0, c) = 0
  BY DEF Monus

(* Catching buckets up (ApplyPending) moves value from in flight to        *)
(* credited: where none is in flight, none is afterwards.                  *)
LEMMA ApplyLean ==
  ASSUME NEW st, StoreSound(st), Lean(st), NEW T \in SUBSET Ticks(st)
  PROVE  Lean(ApplyPending(st, T))
<1> DEFINE f == [t \in T |-> PendingForBucket(st, t)]
           u == ApplyPending(st, T)
<1>1. StoreTyped(st) /\ Within(st)
  BY DEF StoreSound
<1>2. IsFiniteSet(T)
  BY <1>1, FS_Subset DEF StoreTyped
<1>3. Amounts(f, T)
  <2>1. \A t \in T : f[t] = Due(st)[t] /\ Due(st)[t] \in Nat
    BY <1>1, DueType DEF Due, Amounts
  <2> QED
    BY <2>1 DEF Amounts
<1>4. SumOver(f, T) \in Nat
  <2> HIDE DEF f
  <2> QED
    BY <1>2, <1>3, SumNat
<1>5. u.pending = Monus(st.pending, SumOver(f, T))
  <2> DEFINE B == [t \in Ticks(st) |->
                     IF t \in T THEN [st.bucket[t] EXCEPT !.accrued = Replayed(st, st.bucket[t]),
                                                          !.lastApplied = NextEventIndex(st)]
                     ELSE st.bucket[t]]
             c == SumOver(f, T)
  <2>1. u = [st EXCEPT !.bucket = B, !.accruedTotal = @ + c, !.pending = Monus(@, c)]
    BY DEF ApplyPending
  <2> HIDE DEF u, B, c
  <2>2. u.pending = Monus(st.pending, c)
    BY <1>1, <2>1 DEF StoreTyped, StoreFields
  <2> QED
    BY <2>2 DEF c
<1> HIDE DEF f
<1>6. Mode = "Eager" => u.pending = 0
  BY <1>4, <1>5, NothingToCredit DEF Lean
<1>7. SameShares(st, u)
  BY ApplyPendingShares
<1> HIDE DEF u
<1>8. AllHeld(u)
  BY <1>7 DEF Lean, AllHeld, SameShares
<1> QED
  BY <1>6, <1>8 DEF Lean, u

(* A distribution credits at once (DistributeEager) or leaves its shares   *)
(* in flight (DistributeLazy), as the mode says.                           *)
LEMMA DistributeLean ==
  ASSUME NEW st, StoreSound(st), Lean(st), NEW p \in Nat, NEW alloc \in Nat
  PROVE  Lean(Distribute(st, p, alloc))
<1> DEFINE s == Split(st, p, alloc)
           room == WithRoom(st)
           u == Distribute(st, p, alloc)
<1>1. StoreTyped(st)
  BY DEF StoreSound
<1>2. Compacted(st, room) /\ StoreSound(room)
  BY WithRoomSound DEF Compacted
<1>3. room.bucket = st.bucket /\ room.pending = st.pending
  <2>1. room = st \/ room = CompactLedger(st)
    BY DEF WithRoom
  <2>2. CompactLedger(st).pending = st.pending
    <3> DEFINE drop == Monus(Watermark(st), st.gcOffset)
    <3>1. CompactLedger(st) = [st EXCEPT !.ledger = SubSeq(@, drop + 1, Len(@)), !.gcOffset = @ + drop]
      BY DEF CompactLedger
    <3> HIDE DEF drop
    <3> QED
      BY <1>1, <3>1 DEF StoreTyped, StoreFields
  <2> QED
    BY <1>2, <2>1, <2>2 DEF Compacted
<1>4. Lean(room)
  BY <1>3 DEF Lean, AllHeld, Ticks
<1>5. ActivatedTicks(st, p) \in SUBSET Ticks(room)
  BY <1>3 DEF ActivatedTicks, Ticks
<1>6. s.ready = ApplyPending(room, ActivatedTicks(st, p))
  BY DEF Split, CaughtUp
<1>7. Lean(s.ready)
  <2> HIDE DEF room, s
  <2> QED
    BY <1>2, <1>4, <1>5, <1>6, ApplyLean
<1>8. SameShares(st, u)
  BY DistributeShares DEF Distribute
<1>9. Mode = "Eager" => u.pending = 0
  <2> SUFFICES ASSUME Mode = "Eager" PROVE u.pending = 0
    OBVIOUS
  <2> DEFINE B == [t \in Ticks(st) |->
                     IF t \in s.active
                     THEN Credited(s.ready.bucket[t], s.share[t], NextEventIndex(s.ready) + 1)
                     ELSE s.ready.bucket[t]]
             e == NewEntry(p, alloc, s)
  <2>1. u = IF s.total = 0 THEN s.ready
            ELSE [s.ready EXCEPT !.bucket = B, !.accruedTotal = @ + s.allocated,
                                 !.ledger = Append(@, e)]
    BY DEF Distribute, DistributeEager
  <2>2. StoreTyped(s.ready)
    BY SplitSound DEF SplitFacts, StoreSound
  <2> HIDE DEF s, B, e, u
  <2>3. u.pending = s.ready.pending
    BY <2>1, <2>2 DEF StoreTyped, StoreFields
  <2> QED
    BY <1>7, <2>3 DEF Lean
<1> HIDE DEF u
<1>10. AllHeld(u)
  BY <1>8 DEF Lean, AllHeld, SameShares
<1> QED
  BY <1>9, <1>10 DEF Lean, u

(* A wiped-out series joins its bucket with the shares it had              *)
(* (InsertOrMerge).                                                        *)
LEMMA InsertLean ==
  ASSUME NEW st, StoreSound(st), Lean(st), NEW t, NEW anchor,
         NEW shares \in Nat, shares > 0, NEW notional
  PROVE  Lean(InsertOrMerge(st, t, anchor, shares, notional))
<1> DEFINE u == InsertOrMerge(st, t, anchor, shares, notional)
<1>1. StoreTyped(st)
  BY DEF StoreSound
<1>2. Ticks(u) = Ticks(st) \cup {t} /\ (Mode = "Eager" => u.pending = 0)
  <2>1. CASE t \in Ticks(st)
    <3> DEFINE v == ApplyPending(st, {t})
               b == [v.bucket[t] EXCEPT !.shares = @ + shares, !.notional = @ + notional]
    <3>1. u = [v EXCEPT !.bucket[t].shares = @ + shares, !.bucket[t].notional = @ + notional]
      BY <2>1 DEF InsertOrMerge
    <3>2. {t} \in SUBSET Ticks(st)
      BY <2>1
    <3>3. CaughtUpBy(st, {t}, v) /\ Lean(v)
      BY <3>2, ApplyPendingSound, ApplyLean
    <3>4. StoreTyped(v) /\ Ticks(v) = Ticks(st)
      BY <3>3 DEF CaughtUpBy, StoreSound
    <3> HIDE DEF u, v
    <3>5. u.bucket = [v.bucket EXCEPT ![t] = b] /\ u.pending = v.pending
      BY <3>1, <3>4 DEF StoreTyped, StoreFields
    <3> HIDE DEF b
    <3>6. Ticks(u) = Ticks(v)
      BY <3>5 DEF Ticks
    <3> QED
      BY <2>1, <3>3, <3>4, <3>5, <3>6 DEF Lean
  <2>2. CASE t \notin Ticks(st)
    <3> DEFINE fresh == [anchor |-> anchor, shares |-> shares, notional |-> notional,
                         accrued |-> 0, lastApplied |-> NextEventIndex(st)]
               B == [x \in Ticks(st) \cup {t} |-> IF x = t THEN fresh ELSE st.bucket[x]]
    <3>1. u = [st EXCEPT !.bucket = B]
      BY <2>2 DEF InsertOrMerge
    <3> HIDE DEF u, fresh
    <3>2. u.bucket = B /\ u.pending = st.pending
      <4> HIDE DEF B
      <4> QED
        BY <1>1, <3>1 DEF StoreTyped, StoreFields
    <3>3. Ticks(u) = Ticks(st) \cup {t}
      BY <3>2 DEF Ticks
    <3> QED
      BY <3>2, <3>3 DEF Lean
  <2> QED
    BY <2>1, <2>2
<1>3. \A k : HeldIn(u, k) = HeldIn(st, k) + (IF k = t THEN shares ELSE 0)
  BY InsertShares
<1>4. \A k : HeldIn(st, k) \in Nat
  BY <1>1 DEF HeldIn, StoreTyped, Bucket
<1> HIDE DEF u
<1>5. ASSUME NEW k \in Ticks(u) PROVE u.bucket[k].shares > 0
  <2>1. HeldIn(u, k) = u.bucket[k].shares
    BY <1>5 DEF HeldIn
  <2>2. CASE k = t
    BY <1>3, <1>4, <2>1, <2>2
  <2>3. CASE k # t
    <3>1. k \in Ticks(st) /\ HeldIn(st, k) > 0
      BY <1>2, <1>5, <2>3 DEF HeldIn, Lean, AllHeld
    <3> QED
      BY <1>3, <1>4, <2>1, <2>3, <3>1
  <2> QED
    BY <2>2, <2>3
<1> QED
  BY <1>2, <1>5 DEF Lean, AllHeld, u

(* Burning shares (Redeem) takes only credited value, and removes a        *)
(* bucket whose last shares go.                                            *)
LEMMA RedeemLean ==
  ASSUME NEW st, StoreSound(st), Lean(st), NEW t, NEW n \in Nat, n > 0, CanRedeem(st, t, n)
  PROVE  Lean(Redeem(st, t, n))
<1> DEFINE u == Redeem(st, t, n)
           v == ApplyPending(st, {t})
           out == Redeemable(st, t, n)
           left == [v.bucket[t] EXCEPT !.accrued = @ - out, !.shares = @ - n,
                                       !.notional = @ - MulDivFloor(@, n, v.bucket[t].shares)]
           B == [x \in TicksKept(v, t, left) |-> IF x = t THEN left ELSE v.bucket[x]]
<1>1. AllHeld(u)
  BY RedeemKeepsHeld DEF Lean
<1>2. {t} \in SUBSET Ticks(st)
  BY DEF CanRedeem
<1>3. Lean(v) /\ StoreTyped(v)
  BY <1>2, ApplyLean, ApplyPendingSound DEF CaughtUpBy, StoreSound
<1>4. u = [v EXCEPT !.bucket = B, !.accruedTotal = @ - out]
  BY DEF Redeem
<1> HIDE DEF u, v, B, out
<1>5. u.pending = v.pending
  BY <1>3, <1>4 DEF StoreTyped, StoreFields
<1> QED
  BY <1>1, <1>3, <1>5 DEF Lean, u

(* What replaces one side's store by a lean one leaves the sub-pool lean.  *)
LEMMA OneSideLean ==
  ASSUME NEW s, PoolSound(s), LeanPool(s), NEW d \in Direction, NEW st, Lean(st),
         NEW t, t.dormant = [s.dormant EXCEPT ![d] = st]
  PROVE  LeanPool(t)
<1>1. s.dormant = [e \in Direction |-> s.dormant[e]]
  BY DEF PoolSound
<1>2. t.dormant[d] = st /\ \A e \in Direction \ {d} : t.dormant[e] = s.dormant[e]
  BY <1>1
<1> QED
  BY <1>2 DEF LeanPool

(* Settle pays the winner's dormant side by one distribution.              *)
LEMMA SettleLean ==
  ASSUME NEW s, PoolSound(s), LeanPool(s), NEW w \in Direction, NEW p \in Nat, s.lastPrice # 0,
         Settle(s, w, p).err = "Ok"
  PROVE  LeanPool(Settle(s, w, p).sp)
<1> DEFINE o == Opposite(w)
           transfer == Transfer(s, w, p)
           toActive == MulDivFloor(transfer, ActiveDemand(s, w, p), Demand(s, w, p))
           toRecovery == transfer - toActive
           st == s.dormant[w]
           paid == [s EXCEPT !.pool[w] = @ + toActive, !.pool[o] = @ - transfer]
           placed == [paid EXCEPT !.dormant[w] = Distribute(@, p, toRecovery),
                                  !.dust[w] = @ + Residual(st, p, toRecovery)]
           t == Settle(s, w, p).sp
<1>1. /\ transfer = 0 => t = s
      /\ transfer # 0 /\ toRecovery = 0 => t = paid
      /\ transfer # 0 /\ toRecovery # 0 => t = placed
  <2>1. transfer = 0 => t = s
    BY DEF Settle, Ok
  <2>2. transfer # 0 /\ toRecovery = 0 => t = paid
    BY DEF Settle, Ok
  <2>3. transfer # 0 /\ toRecovery # 0 => t = placed
    BY DEF Settle, Ok, Fail
  <2> QED
    BY <2>1, <2>2, <2>3
<1>2. CASE transfer = 0
  BY <1>1, <1>2
<1>3. CASE transfer # 0
  <2>1. /\ transfer \in Nat
        /\ ActiveDemand(s, w, p) \in Nat /\ Demand(s, w, p) \in Nat \ {0}
        /\ ActiveDemand(s, w, p) <= Demand(s, w, p)
    BY <1>3, DemandNat
  <2>2. toActive \in Nat /\ toActive <= transfer
    BY <2>1, FloorPart
  <2>3. toRecovery \in Nat
    BY <2>1, <2>2
  <2>4. StoreSound(st) /\ Lean(st)
    BY DEF PoolSound, LeanPool
  <2> DEFINE x == Distribute(st, p, toRecovery)
             y == Residual(st, p, toRecovery)
  <2> HIDE DEF transfer, toActive, toRecovery, o, t
  <2>5. Lean(x)
    BY <2>3, <2>4, DistributeLean
  <2>6. paid.dormant = s.dormant /\ IsSubPool(paid)
    BY DEF PoolSound, IsSubPool, SubPoolFields
  <2>7. placed.dormant = [s.dormant EXCEPT ![w] = x]
    <3>1. paid.dormant[w] = st
      BY <2>6
    <3>2. placed = [paid EXCEPT !.dormant[w] = x, !.dust[w] = @ + y]
      BY <3>1
    <3> HIDE DEF paid, x, y, placed
    <3> QED
      BY <2>6, <3>2 DEF IsSubPool, SubPoolFields
  <2> HIDE DEF paid, placed, x
  <2>8. LeanPool(placed) /\ LeanPool(paid)
    BY <2>5, <2>6, <2>7, OneSideLean DEF LeanPool
  <2> QED
    BY <1>1, <1>3, <2>8 DEF t
<1> QED
  BY <1>2, <1>3

(* Rotate moves shares that are there into the dormant side.               *)
LEMMA RotateLean ==
  ASSUME NEW s, PoolSound(s), LeanPool(s), NEW d \in Direction, NEW p \in Nat,
         Rotate(s, d, p).err = "Ok"
  PROVE  LeanPool(Rotate(s, d, p).sp)
<1> DEFINE t == Rotate(s, d, p).sp
           st == InsertOrMerge(s.dormant[d], BucketTickOf(p), p, s.shares[d], s.notional[d])
<1>1. t = s \/ RotatesTo(s, d, p, t)
  BY RotateForm DEF PoolSound
<1>2. CASE t = s
  BY <1>2
<1>3. CASE RotatesTo(s, d, p, t)
  <2>1. s.shares[d] \in Nat /\ s.shares[d] # 0 /\ StoreSound(s.dormant[d]) /\ Lean(s.dormant[d])
    BY <1>3 DEF RotatesTo, PoolSound, LeanPool
  <2>2. s.shares[d] > 0
    BY <2>1
  <2>3. Lean(st)
    BY <2>1, <2>2, InsertLean
  <2>4. t.dormant = [s.dormant EXCEPT ![d] = st]
    BY <1>3 DEF RotatesTo
  <2> HIDE DEF t, st
  <2> QED
    BY <2>3, <2>4, OneSideLean DEF t
<1> QED
  BY <1>1, <1>2, <1>3

LEMMA RepricedLean ==
  ASSUME NEW s, PoolSound(s), LeanPool(s), NEW p
  PROVE  LeanPool([s EXCEPT !.lastPrice = p])
<1> DEFINE t == [s EXCEPT !.lastPrice = p]
<1>1. t.dormant = s.dormant
  BY DEF PoolSound, IsSubPool, SubPoolFields
<1> HIDE DEF t
<1>2. LeanPool(t)
  BY <1>1 DEF LeanPool
<1> QED
  BY <1>2 DEF t

(* A whole sync.                                                           *)
LEMMA SyncLean ==
  ASSUME NEW s, PoolSound(s), LeanPool(s), NEW p \in Nat, SyncPool(s, p).err = "Ok"
  PROVE  LeanPool(SyncPool(s, p).sp)
<1>1. CASE s.lastPrice \in {0, p}
  <2>1. SyncPool(s, p) = Checked([s EXCEPT !.lastPrice = p])
    BY <1>1 DEF SyncPool
  <2>2. SyncPool(s, p).sp = [s EXCEPT !.lastPrice = p]
    BY <2>1, CheckedSame
  <2> QED
    BY <2>2, RepricedLean
<1>2. CASE s.lastPrice \notin {0, p}
  <2> DEFINE settled == Settle(s, Winner(s, p), p)
             priced == [settled.sp EXCEPT !.lastPrice = p]
             long == Rotate(priced, "Long", p)
             both == Rotate(long.sp, "Short", p)
  <2>1. /\ Winner(s, p) \in Direction /\ "Long" \in Direction /\ "Short" \in Direction
        /\ settled.err = "Ok" /\ long.err = "Ok" /\ both.err = "Ok"
        /\ SyncPool(s, p).sp = both.sp
    BY <1>2, SyncForm
  <2>2. PoolSound(settled.sp) /\ LeanPool(settled.sp)
    BY <1>2, <2>1, SettleClears, SettleLean DEF Clears
  <2> HIDE DEF settled
  <2>3. PoolSound(priced) /\ LeanPool(priced)
    BY <2>2, Repriced, RepricedLean DEF Clears
  <2> HIDE DEF priced
  <2>4. PoolSound(long.sp) /\ LeanPool(long.sp)
    BY <2>1, <2>3, RotateClears, RotateLean DEF Clears
  <2> HIDE DEF long
  <2>5. LeanPool(both.sp)
    BY <2>1, <2>4, RotateLean
  <2> QED
    BY <2>1, <2>5
<1> QED
  BY <1>1, <1>2

(* Taking a position's recovery shares out.                                *)
LEMMA LeaveRecoveryLean ==
  ASSUME NEW s, PoolSound(s), LeanPool(s), NEW q, q.dir \in Direction, q.recovery \in Nat,
         CanLeaveRecovery(s, q), NEW b, IsSubPool(b), b.dormant = s.dormant
  PROVE  LeanPool(LeaveRecovery(b, q)) /\ IsSubPool(LeaveRecovery(b, q))
<1> DEFINE u == LeaveRecovery(b, q)
           st == Redeem(s.dormant[q.dir], q.tick, q.recovery)
<1>1. CASE q.recovery = 0
  BY <1>1 DEF LeaveRecovery, LeanPool
<1>2. CASE q.recovery # 0
  <2>1. IsSubPool(u) /\ u.dormant = [s.dormant EXCEPT ![q.dir] = st]
    <3>1. u = [b EXCEPT !.dormant[q.dir] = Redeem(@, q.tick, q.recovery),
                        !.recovery[q.dir] = @ - q.recovery]
      BY <1>2 DEF LeaveRecovery
    <3>2. u = [b EXCEPT !.dormant = [b.dormant EXCEPT ![q.dir] = st],
                        !.recovery[q.dir] = @ - q.recovery]
      BY <3>1
    <3> HIDE DEF u, st
    <3> QED
      BY <3>2 DEF IsSubPool, SubPoolFields
  <2>2. q.recovery > 0
    BY <1>2
  <2>3. CanRedeem(s.dormant[q.dir], q.tick, q.recovery)
    BY <2>2 DEF CanLeaveRecovery
  <2>4. Lean(st)
    BY <2>2, <2>3, RedeemLean DEF PoolSound, LeanPool
  <2> HIDE DEF u, st
  <2>5. LeanPool(u)
    BY <2>1, <2>4, OneSideLean
  <2> QED
    BY <2>1, <2>5 DEF u
<1> QED
  BY <1>1, <1>2

(* What a leaving position finds after the sync.                           *)
LEMMA TouchLean ==
  ASSUME NEW s, PoolSound(s), LeanPool(s), Numbered(s), NEW p \in Nat, NEW q, Holding(q),
         NEW t, t = Touch(s, p, q), t.err = "Ok"
  PROVE  /\ PoolSound(t.sp) /\ LeanPool(t.sp) /\ IsSubPool(t.sp)
         /\ t.pos.dir \in Direction /\ t.pos.recovery \in Nat /\ CanLeaveRecovery(t.sp, t.pos)
<1>1. Touched(s, p, q, t)
  BY TouchSound
<1>2. SyncPool(s, p).err = "Ok" /\ t.sp = SyncPool(s, p).sp
  BY TouchForm
<1>3. LeanPool(t.sp)
  BY <1>2, SyncLean
<1> QED
  BY <1>1, <1>3 DEF Touched, Holding, PoolSound

LEMMA CloseLean ==
  ASSUME NEW s, PoolSound(s), LeanPool(s), Numbered(s), NEW p \in Nat, NEW q, Holding(q),
         ClosePosition(s, p, q).err = "Ok"
  PROVE  LeanPool(ClosePosition(s, p, q).sp)
<1> DEFINE t == Touch(s, p, q)
           b == IF HasPool(t.sp, t.pos) THEN LeaveActive(t.sp, t.pos, ActiveValue(t.sp, t.pos))
                ELSE t.sp
<1>1. t.err = "Ok" /\ ClosePosition(s, p, q).sp = LeaveRecovery(b, t.pos)
  BY CloseForm
<1>2. /\ PoolSound(t.sp) /\ LeanPool(t.sp) /\ IsSubPool(t.sp)
      /\ t.pos.dir \in Direction /\ t.pos.recovery \in Nat /\ CanLeaveRecovery(t.sp, t.pos)
  BY <1>1, TouchLean
<1> HIDE DEF t
<1>3. IsSubPool(b) /\ b.dormant = t.sp.dormant
  BY <1>2, LeaveActiveKeeps
<1> HIDE DEF b
<1>4. LeanPool(LeaveRecovery(b, t.pos))
  BY <1>2, <1>3, LeaveRecoveryLean
<1> QED
  BY <1>1, <1>4

LEMMA ForceCloseLean ==
  ASSUME NEW s, PoolSound(s), LeanPool(s), Numbered(s), NEW p \in Nat, NEW q, Holding(q),
         ForceClosePosition(s, p, q).err = "Ok"
  PROVE  LeanPool(ForceClosePosition(s, p, q).sp)
<1> DEFINE t == Touch(s, p, q)
           b == IF t.pos.shares > 0 THEN LeaveActive(t.sp, t.pos, 0) ELSE t.sp
           left == LeaveRecovery(b, t.pos)
           v == RecoveryValue(t.sp, t.pos)
           z == ForceClosePosition(s, p, q).sp
<1>1. t.err = "Ok" /\ z = [left EXCEPT !.dust[t.pos.dir] = @ + v]
  BY ForceCloseForm
<1>2. /\ PoolSound(t.sp) /\ LeanPool(t.sp) /\ IsSubPool(t.sp)
      /\ t.pos.dir \in Direction /\ t.pos.recovery \in Nat /\ CanLeaveRecovery(t.sp, t.pos)
  BY <1>1, TouchLean
<1> HIDE DEF t
<1>3. IsSubPool(b) /\ b.dormant = t.sp.dormant
  BY <1>2, LeaveActiveKeeps
<1> HIDE DEF b
<1>4. LeanPool(left) /\ IsSubPool(left)
  BY <1>2, <1>3, LeaveRecoveryLean
<1> HIDE DEF left, v, z
<1>5. z.dormant = left.dormant
  BY <1>1, <1>4 DEF IsSubPool, SubPoolFields
<1> QED
  BY <1>4, <1>5 DEF LeanPool, z

LEMMA ClaimLean ==
  ASSUME NEW s, PoolSound(s), LeanPool(s), Numbered(s), NEW p \in Nat, NEW q, Holding(q),
         ClaimRecovery(s, p, q).err = "Ok"
  PROVE  LeanPool(ClaimRecovery(s, p, q).sp)
<1> DEFINE t == Touch(s, p, q)
<1>1. t.err = "Ok" /\ ClaimRecovery(s, p, q).sp = LeaveRecovery(t.sp, t.pos)
  BY ClaimForm
<1>2. /\ PoolSound(t.sp) /\ LeanPool(t.sp) /\ IsSubPool(t.sp)
      /\ t.pos.dir \in Direction /\ t.pos.recovery \in Nat /\ CanLeaveRecovery(t.sp, t.pos)
  BY <1>1, TouchLean
<1> HIDE DEF t
<1> QED
  BY <1>1, <1>2, LeaveRecoveryLean

(* A deposit writes no store beyond the sync's.                            *)
LEMMA OpenLean ==
  ASSUME NEW s, PoolSound(s), LeanPool(s), NEW p \in Nat, NEW d, NEW g,
         OpenPosition(s, p, d, g).err = "Ok"
  PROVE  LeanPool(OpenPosition(s, p, d, g).sp)
<1> DEFINE r == SyncPool(s, p)
<1>1. r.err = "Ok" /\ OpenPosition(s, p, d, g) = OpenSynced(r.sp, d, g)
  BY DEF OpenPosition
<1>2. PoolSound(r.sp) /\ LeanPool(r.sp) /\ IsSubPool(r.sp)
  <2>1. PoolSound(r.sp)
    BY <1>1, SyncClears DEF Clears
  <2>2. LeanPool(r.sp)
    BY <1>1, SyncLean
  <2> HIDE DEF r
  <2> QED
    BY <2>1, <2>2 DEF PoolSound
<1> HIDE DEF r
<1>3. OpenSynced(r.sp, d, g).sp = OpenedSide(r.sp, d, g)
  BY <1>1, OpenSyncedIs
<1>4. OpenedSide(r.sp, d, g).dormant = r.sp.dormant
  BY <1>2, OpenedSideKeeps
<1> QED
  BY <1>1, <1>2, <1>3, <1>4 DEF LeanPool

LEMMA PreSyncLean ==
  ASSUME NEW s, PoolSound(s), LeanPool(s), NEW d \in Direction, NEW t,
         PreSyncBucket(s, d, t).err = "Ok"
  PROVE  LeanPool(PreSyncBucket(s, d, t).sp) /\ t \in Ticks(s.dormant[d])
<1> DEFINE st == ApplyPending(s.dormant[d], {t})
           u == [s EXCEPT !.dormant[d] = st]
<1>1. t \in Ticks(s.dormant[d]) /\ PreSyncBucket(s, d, t) = Checked(u)
  BY DEF PreSyncBucket, Fail
<1>2. Lean(st)
  BY <1>1, ApplyLean DEF PoolSound, LeanPool
<1> HIDE DEF st
<1>3. u.dormant = [s.dormant EXCEPT ![d] = st]
  BY DEF PoolSound, IsSubPool, SubPoolFields
<1> HIDE DEF u
<1>4. LeanPool(u)
  BY <1>2, <1>3, OneSideLean
<1> QED
  BY <1>1, <1>4, CheckedSame

LEMMA HarvestLean ==
  ASSUME NEW s, PoolSound(s), LeanPool(s), NEW d \in Direction
  PROVE  LeanPool(HarvestDust(s, d).sp)
<1> DEFINE u == [s EXCEPT !.dust[d] = 0]
<1>1. u.dormant = s.dormant
  BY DEF PoolSound, IsSubPool, SubPoolFields
<1>2. HarvestDust(s, d).sp = u
  BY CheckedSame DEF HarvestDust
<1> HIDE DEF u
<1> QED
  BY <1>1, <1>2 DEF LeanPool

LEMMA NewPoolLean == LeanPool(NewSubPool)
  BY DEF LeanPool, NewSubPool, Lean, AllHeld, NewStore, Ticks

(***************************************************************************)
(* Writing a sub-pool to the accounts and reading it back.                 *)
(***************************************************************************)

Account ==
  [tick : Nat, anchor : Nat, shares : Nat, notional : Nat, accrued : Nat, lastApplied : Nat]

(* The accounts of one side: each at the address of its own tick.          *)
AtHome(A) ==
  /\ A = [k \in DOMAIN A |-> A[k]]
  /\ \A k \in DOMAIN A : A[k] \in Account /\ A[k].tick = k

OnSides(f) == f = [d \in Direction |-> f[d]]

(* What building a sub-pool from accounts (build_core_sub_pool) gives.     *)
Built(acc, log, L, B) ==
  [ClearingView(acc) EXCEPT
     !.rotateLog = log,
     !.dormant = [d \in Direction |-> Unpack(d, L[d], B[d])]]

(* The sub-pool built from the accounts, before and after a step.          *)
LEMMA CoreIs == Core = Built(subPool, rotateLog, ledger, buckets)
  BY DEF Core, Built

LEMMA CoreIsNext == Core' = Built(subPool', rotateLog', ledger', buckets')
  BY DEF Core, Built

(* Unpacking accounts that are at home takes the live ones, each at its    *)
(* tick.                                                                   *)
LEMMA UnpackAtHome ==
  ASSUME NEW A, AtHome(A), NEW d, NEW L
  PROVE  /\ {A[k].tick : k \in Live(A)} = Live(A)
         /\ \A t \in Live(A) : A[CHOOSE k \in Live(A) : A[k].tick = t] = A[t]
<1>1. \A k \in Live(A) : A[k].tick = k
  BY DEF AtHome, Live
<1>2. {A[k].tick : k \in Live(A)} = Live(A)
  BY <1>1
<1>3. \A t \in Live(A) : (CHOOSE k \in Live(A) : A[k].tick = t) = t
  BY <1>1
<1> QED
  BY <1>2, <1>3

LEMMA UnpackIs ==
  ASSUME NEW A, AtHome(A), NEW d, NEW L
  PROVE  Unpack(d, L, A)
           = [dir |-> d, bucket |-> [t \in Live(A) |-> BucketOf(A[t])],
              ledger |-> L.entries, gcOffset |-> L.gcOffset,
              accruedTotal |-> L.accruedTotal, pending |-> L.pending]
<1> DEFINE chosen == [t \in {A[k].tick : k \in Live(A)} |->
                        BucketOf(A[CHOOSE k \in Live(A) : A[k].tick = t])]
           own == [t \in Live(A) |-> BucketOf(A[t])]
<1>1. \A t \in Live(A) : BucketOf(A[CHOOSE k \in Live(A) : A[k].tick = t]) = BucketOf(A[t])
  BY UnpackAtHome
<1>2. \A t \in Live(A) : t \in {A[k].tick : k \in Live(A)}
  BY UnpackAtHome
<1>3. \A t \in {A[k].tick : k \in Live(A)} : t \in Live(A)
  BY UnpackAtHome
<1>4. DOMAIN chosen = Live(A) /\ DOMAIN own = Live(A)
  BY <1>2, <1>3
<1>5. \A t \in Live(A) : chosen[t] = own[t]
  BY <1>1, <1>2
<1>6. chosen = [t \in DOMAIN chosen |-> chosen[t]] /\ own = [t \in DOMAIN own |-> own[t]]
  OBVIOUS
<1>7. chosen = own
  <2> HIDE DEF chosen, own
  <2> QED
    BY <1>4, <1>5, <1>6
<1> QED
  BY <1>7 DEF Unpack

(* A bucket with shares is written as a live account that reads back as    *)
(* it was.                                                                 *)
LEMMA RecordReadsBack ==
  ASSUME NEW st, StoreTyped(st), NEW t \in Ticks(st), st.bucket[t].shares > 0
  PROVE  /\ RecordOf(st, t) \in Account /\ ~IsDead(RecordOf(st, t))
         /\ RecordOf(st, t).tick = t
         /\ BucketOf(RecordOf(st, t)) = st.bucket[t]
<1>1. t \in Nat /\ st.bucket[t] \in Bucket
  BY DEF StoreTyped
<1> QED
  BY <1>1 DEF RecordOf, Account, Bucket, IsDead, BucketOf

LEMMA ClearedDead ==
  ASSUME NEW a \in Account
  PROVE  /\ Cleared(a, a.lastApplied) \in Account /\ IsDead(Cleared(a, a.lastApplied))
         /\ Cleared(a, a.lastApplied).tick = a.tick
BY DEF Cleared, Account, IsDead

(* What the mirror writes: the buckets of the store, each at its own tick, *)
(* and nothing else that is alive.                                         *)
LEMMA PackedAtHome ==
  ASSUME NEW A, AtHome(A), NEW st, StoreTyped(st), AllHeld(st),
         NEW B, B = MirrorPack(Strict, A, st)
  PROVE  /\ AtHome(B) /\ Live(B) = Ticks(st)
         /\ \A t \in Ticks(st) : BucketOf(B[t]) = st.bucket[t]
<1> DEFINE written == [t \in Ticks(st) |-> RecordOf(st, t)]
           emptied == [t \in DOMAIN A |->
                         IF IsDead(A[t]) THEN A[t] ELSE Cleared(A[t], A[t].lastApplied)]
<1>1. B = IF Strict THEN Over(written, emptied) ELSE written
  BY DEF MirrorPack
<1>2. \A t \in Ticks(st) : /\ written[t] \in Account /\ ~IsDead(written[t])
                           /\ written[t].tick = t /\ BucketOf(written[t]) = st.bucket[t]
  BY RecordReadsBack DEF AllHeld
<1>3. \A t \in DOMAIN A : emptied[t] \in Account /\ IsDead(emptied[t]) /\ emptied[t].tick = t
  BY ClearedDead DEF AtHome
<1>4. DOMAIN written = Ticks(st) /\ DOMAIN emptied = DOMAIN A
  OBVIOUS
<1> HIDE DEF written, emptied
<1>5. /\ B = [k \in DOMAIN B |-> B[k]]
      /\ Ticks(st) \subseteq DOMAIN B
      /\ \A k \in Ticks(st) : B[k] = written[k]
      /\ \A k \in DOMAIN B \ Ticks(st) : k \in DOMAIN A /\ B[k] = emptied[k]
  <2>1. CASE Strict
    <3>1. B = [k \in DOMAIN written \cup DOMAIN emptied |->
                 IF k \in DOMAIN written THEN written[k] ELSE emptied[k]]
      BY <1>1, <2>1 DEF Over
    <3> QED
      BY <1>4, <3>1
  <2>2. CASE ~Strict
    <3>1. B = written
      BY <1>1, <2>2
    <3>2. written = [k \in DOMAIN written |-> written[k]]
      BY DEF written
    <3> QED
      BY <1>4, <3>1, <3>2
  <2> QED
    BY <2>1, <2>2
<1>6. AtHome(B)
  BY <1>2, <1>3, <1>5 DEF AtHome
<1>7. Live(B) = Ticks(st)
  BY <1>2, <1>3, <1>5 DEF Live
<1> QED
  BY <1>2, <1>5, <1>6, <1>7

(* Unpacking what was packed gives the store back.                         *)
LEMMA PackedReadsBack ==
  ASSUME NEW A, AtHome(A), NEW st, StoreTyped(st), AllHeld(st),
         NEW B, B = MirrorPack(Strict, A, st)
  PROVE  AtHome(B) /\ Unpack(st.dir, LedgerOf(st), B) = st
<1>1. /\ AtHome(B) /\ Live(B) = Ticks(st)
      /\ \A t \in Ticks(st) : BucketOf(B[t]) = st.bucket[t]
  BY PackedAtHome
<1>2. [t \in Live(B) |-> BucketOf(B[t])] = st.bucket
  <2>1. st.bucket = [t \in Ticks(st) |-> st.bucket[t]]
    BY DEF StoreTyped
  <2> QED
    BY <1>1, <2>1
<1>3. Unpack(st.dir, LedgerOf(st), B)
        = [dir |-> st.dir, bucket |-> st.bucket, ledger |-> st.ledger, gcOffset |-> st.gcOffset,
           accruedTotal |-> st.accruedTotal, pending |-> st.pending]
  BY <1>1, <1>2, UnpackIs DEF LedgerOf
<1>4. st = [f \in StoreFields |-> st[f]]
  BY DEF StoreTyped
<1> QED
  BY <1>1, <1>3, <1>4 DEF StoreFields

(* Accounts that are alive are all that is read.                           *)
LEMMA SameLive ==
  ASSUME NEW A, AtHome(A), NEW B, AtHome(B), Live(B) = Live(A),
         \A k \in Live(A) : B[k] = A[k], NEW d, NEW L
  PROVE  Unpack(d, L, B) = Unpack(d, L, A)
<1>1. [t \in Live(B) |-> BucketOf(B[t])] = [t \in Live(A) |-> BucketOf(A[t])]
  OBVIOUS
<1> QED
  BY <1>1, UnpackIs

(* pre_init_dormant_bucket and close_dormant_bucket touch dead accounts.   *)
LEMMA DeadJoins ==
  ASSUME NEW A, AtHome(A), NEW t \in Nat, t \notin DOMAIN A,
         NEW B, B = Over([k \in {t} |-> DeadRecord(k)], A)
  PROVE  AtHome(B) /\ Live(B) = Live(A) /\ \A k \in Live(A) : B[k] = A[k]
<1>1. DeadRecord(t) \in Account /\ IsDead(DeadRecord(t)) /\ DeadRecord(t).tick = t
  BY DEF DeadRecord, Account, IsDead
<1>2. /\ B = [k \in DOMAIN B |-> B[k]] /\ DOMAIN B = {t} \cup DOMAIN A
      /\ B[t] = DeadRecord(t) /\ \A k \in DOMAIN A : B[k] = A[k]
  BY DEF Over
<1>3. AtHome(B)
  BY <1>1, <1>2 DEF AtHome
<1>4. t \notin Live(B) /\ t \notin Live(A)
  BY <1>1, <1>2 DEF Live
<1>5. \A k \in DOMAIN A : k \in DOMAIN B /\ B[k] = A[k]
  BY <1>2
<1>6. \A k \in Live(B) : k \in DOMAIN A
  BY <1>2, <1>4 DEF Live
<1>7. Live(B) = Live(A)
  BY <1>5, <1>6 DEF Live
<1>8. \A k \in Live(A) : B[k] = A[k]
  BY <1>5 DEF Live
<1> QED
  BY <1>3, <1>7, <1>8

LEMMA DeadLeaves ==
  ASSUME NEW A, AtHome(A), NEW x \in DOMAIN A, IsDead(A[x]),
         NEW B, B = [k \in DOMAIN A \ {x} |-> A[k]]
  PROVE  AtHome(B) /\ Live(B) = Live(A) /\ \A k \in Live(A) : B[k] = A[k]
<1>1. /\ B = [k \in DOMAIN B |-> B[k]] /\ DOMAIN B = DOMAIN A \ {x}
      /\ \A k \in DOMAIN B : B[k] = A[k]
  OBVIOUS
<1>2. AtHome(B)
  BY <1>1 DEF AtHome
<1>3. x \notin Live(A)
  BY DEF Live
<1>4. Live(B) = Live(A)
  BY <1>1, <1>3 DEF Live
<1>5. \A k \in Live(A) : k \in DOMAIN A /\ k # x
  BY <1>3 DEF Live
<1>6. \A k \in Live(A) : B[k] = A[k]
  BY <1>5
<1> QED
  BY <1>2, <1>4, <1>6

(* A sub-pool with its scalars, its log and its stores written comes back. *)
LEMMA Rebuilt ==
  ASSUME NEW s, PoolSound(s), LeanPool(s), NEW A, \A d \in Direction : AtHome(A[d]),
         NEW L, L = [d \in Direction |-> LedgerOf(s.dormant[d])],
         NEW B, B = [d \in Direction |-> MirrorPack(Strict, A[d], s.dormant[d])]
  PROVE  /\ Built(AccountOf(s), s.rotateLog, L, B) = s
         /\ \A d \in Direction : AtHome(B[d])
<1>1. ASSUME NEW d \in Direction
      PROVE  AtHome(B[d]) /\ Unpack(d, L[d], B[d]) = s.dormant[d]
  <2>1. PICK st : st = s.dormant[d]
    OBVIOUS
  <2>2. StoreTyped(st) /\ AllHeld(st) /\ st.dir = d
    BY <2>1 DEF PoolSound, StoreSound, LeanPool, Lean
  <2> QED
    BY <2>1, <2>2, PackedReadsBack
<1>2. [d \in Direction |-> Unpack(d, L[d], B[d])] = s.dormant
  <2>1. s.dormant = [d \in Direction |-> s.dormant[d]]
    BY DEF PoolSound
  <2> QED
    BY <1>1, <2>1
<1>3. Built(AccountOf(s), s.rotateLog, L, B)
        = [ClearingView(AccountOf(s)) EXCEPT !.rotateLog = s.rotateLog, !.dormant = s.dormant]
  BY <1>2 DEF Built
<1>4. IsSubPool(s)
  BY DEF PoolSound
<1>5. [ClearingView(AccountOf(s)) EXCEPT !.rotateLog = s.rotateLog, !.dormant = s.dormant] = s
  BY <1>4 DEF ClearingView, AccountOf, NewSubPool, IsSubPool, SubPoolFields
<1> QED
  BY <1>1, <1>3, <1>5

(* Everything the mirror keeps in order.                                   *)
Tidy == OnSides(buckets) /\ \A d \in Direction : AtHome(buckets[d])

(* A call that commits writes the engine's result, and writes it whole.    *)
LEMMA CommitWrites ==
  ASSUME Tidy, NEW r, Commit(r), PoolSound(r.sp), LeanPool(r.sp)
  PROVE  Tidy' /\ Core' = r.sp /\ r.err = "Ok" /\ WithinBounds(r.sp)
<1> DEFINE s == r.sp
<1>1. /\ ledger' = [d \in Direction |-> LedgerOf(s.dormant[d])]
      /\ buckets' = [d \in Direction |-> MirrorPack(Strict, buckets[d], s.dormant[d])]
      /\ subPool' = AccountOf(s) /\ rotateLog' = s.rotateLog
  BY DEF Commit, WriteCore
<1>2. \A d \in Direction : AtHome(buckets[d])
  BY DEF Tidy
<1>3. Built(subPool', rotateLog', ledger', buckets') = s /\ \A d \in Direction : AtHome(buckets'[d])
  <2> HIDE DEF s
  <2>1. PICK A, L, B : A = buckets /\ L = ledger' /\ B = buckets'
    OBVIOUS
  <2>2. /\ L = [d \in Direction |-> LedgerOf(s.dormant[d])]
        /\ B = [d \in Direction |-> MirrorPack(Strict, A[d], s.dormant[d])]
    BY <1>1, <2>1
  <2>3. PoolSound(s) /\ LeanPool(s)
    BY DEF s
  <2>4. Built(AccountOf(s), s.rotateLog, L, B) = s /\ \A d \in Direction : AtHome(B[d])
    BY <1>2, <2>1, <2>2, <2>3, Rebuilt
  <2> QED
    BY <1>1, <2>1, <2>4
<1>4. OnSides(buckets')
  BY <1>1 DEF OnSides
<1>5. Tidy'
  BY <1>3, <1>4 DEF Tidy
<1> QED
  BY <1>3, <1>5, CoreIsNext DEF Commit, Entered

(* Swapping dead accounts on one side is not seen.                         *)
LEMMA DeadSwapped ==
  ASSUME Tidy, NEW d \in Direction,
         NEW B, AtHome(B), Live(B) = Live(buckets[d]),
         \A k \in Live(buckets[d]) : B[k] = buckets[d][k],
         buckets' = [buckets EXCEPT ![d] = B],
         UNCHANGED <<subPool, rotateLog, ledger>>
  PROVE  Tidy' /\ Core' = Core
<1>1. /\ OnSides(buckets') /\ buckets'[d] = B
      /\ \A e \in Direction \ {d} : buckets'[e] = buckets[e]
  BY DEF Tidy, OnSides
<1>2. \A e \in Direction : AtHome(buckets'[e])
  BY <1>1 DEF Tidy
<1>3. \A e \in Direction : Unpack(e, ledger'[e], buckets'[e]) = Unpack(e, ledger[e], buckets[e])
  <2>1. PICK A, C, L : A = buckets /\ C = buckets' /\ L = ledger
    OBVIOUS
  <2>2. AtHome(A[d]) /\ Live(B) = Live(A[d]) /\ (\A k \in Live(A[d]) : B[k] = A[d][k])
    BY <2>1 DEF Tidy
  <2>3. Unpack(d, L[d], B) = Unpack(d, L[d], A[d])
    BY <2>2, SameLive
  <2> QED
    BY <1>1, <2>1, <2>3
<1>4. Core' = Core
  BY <1>3, CoreIs, CoreIsNext DEF Built
<1> QED
  BY <1>1, <1>2, <1>4 DEF Tidy

(***************************************************************************)
(* Every step of the mirror keeps the invariant.                           *)
(***************************************************************************)

(* What every step of the mirror keeps.                                    *)
MirrorInv == Tidy /\ Owned(Core, pos) /\ SubPoolSound(Core) /\ LeanPool(Core)

(* What the lemmas about the engine ask of the sub-pool and the positions. *)
LEMMA InvSound ==
  ASSUME MirrorInv
  PROVE  /\ Tidy /\ Owned(Core, pos) /\ PoolSound(Core) /\ Numbered(Core)
         /\ SubPoolSound(Core) /\ LeanPool(Core)
         /\ \A i \in PosIds : Holding(pos[i])
BY DEF MirrorInv, Owned, Listed, PosIds

(* A call that commits a good result.                                      *)
LEMMA CommitKeeps ==
  ASSUME Tidy, NEW r, Commit(r), Owned(r.sp, pos'), SubPoolSound(r.sp), LeanPool(r.sp)
  PROVE  MirrorInv' /\ Core' = r.sp
<1>1. PoolSound(r.sp)
  BY DEF Owned, Listed
<1>2. Tidy' /\ Core' = r.sp
  BY <1>1, CommitWrites
<1> QED
  BY <1>2 DEF MirrorInv

(* A call that commits succeeded, within the bounds of the model.          *)
LEMMA CommitOk == ASSUME NEW r, Commit(r) PROVE r.err = "Ok" /\ WithinBounds(r.sp)
BY DEF Commit, Entered

(* The prices of the oracle, and their ticks.                              *)
LEMMA PriceNat == ASSUME NEW p \in Prices PROVE p \in Nat /\ BucketTickOf(p) \in Nat
BY MirrorParameters, CoreParameters DEF BucketTickOf

(* One lemma for each entry point: it keeps the invariant, and the sub-pool *)
(* becomes what the engine returned.                                       *)
LEMMA SyncKeeps ==
  ASSUME MirrorInv, NEW p \in Prices, Sync(p)
  PROVE  MirrorInv' /\ Core' = SyncPool(Core, p).sp
<1>1. PICK s, r : s = Core /\ r = SyncPool(s, p)
  OBVIOUS
<1>2. Commit(r) /\ pos' = pos /\ p \in Nat
  BY <1>1, PriceNat DEF Sync
<1>3. r.err = "Ok"
  BY <1>2, CommitOk
<1>4. Owned(s, pos) /\ PoolSound(s) /\ LeanPool(s) /\ Tidy
  BY <1>1, InvSound
<1>5. Owned(r.sp, pos)
  BY <1>1, <1>2, <1>3, <1>4, SyncBacked
<1>6. SubPoolSound(r.sp)
  BY <1>1, <1>2, <1>3, <1>4, SyncClears
<1>7. LeanPool(r.sp)
  BY <1>1, <1>2, <1>3, <1>4, SyncLean
<1> QED
  BY <1>1, <1>2, <1>4, <1>5, <1>6, <1>7, CommitKeeps

LEMMA OpenKeeps ==
  ASSUME MirrorInv, NEW p \in Prices, NEW d \in Direction, NEW g \in Grosses, Open(p, d, g)
  PROVE  MirrorInv' /\ Core' = OpenPosition(Core, p, d, g).sp
<1>1. PICK s, r : s = Core /\ r = OpenPosition(s, p, d, g)
  OBVIOUS
<1>2. Commit(r) /\ pos' = Append(pos, r.pos) /\ p \in Nat /\ g \in Nat
  BY <1>1, PriceNat, MirrorParameters DEF Open, Opened
<1>3. r.err = "Ok"
  BY <1>2, CommitOk
<1>4. Owned(s, pos) /\ PoolSound(s) /\ Numbered(s) /\ LeanPool(s) /\ Tidy
  BY <1>1, InvSound
<1>5. Owned(r.sp, Append(pos, r.pos))
  BY <1>1, <1>2, <1>3, <1>4, OpenBacked
<1>6. SubPoolSound(r.sp)
  BY <1>1, <1>2, <1>3, <1>4, OpenSound DEF Deposited
<1>7. LeanPool(r.sp)
  BY <1>1, <1>2, <1>3, <1>4, OpenLean
<1> QED
  BY <1>1, <1>2, <1>4, <1>5, <1>6, <1>7, CommitKeeps

LEMMA CloseKeeps ==
  ASSUME MirrorInv, NEW i \in PosIds, NEW p \in Prices, Close(i, p)
  PROVE  MirrorInv' /\ Core' = ClosePosition(Core, p, pos[i]).sp
<1>1. PICK s, P, r : s = Core /\ P = pos /\ r = ClosePosition(s, p, P[i])
  OBVIOUS
<1>2. Commit(r) /\ pos' = [P EXCEPT ![i] = r.pos] /\ p \in Nat /\ i \in 1 .. Len(P)
  BY <1>1, PriceNat DEF Close, Settled, PosIds
<1>3. r.err = "Ok"
  BY <1>2, CommitOk
<1>4. Owned(s, P) /\ PoolSound(s) /\ Numbered(s) /\ LeanPool(s) /\ Tidy /\ Holding(P[i])
  BY <1>1, InvSound
<1>5. Owned(r.sp, [P EXCEPT ![i] = r.pos])
  BY <1>1, <1>2, <1>3, <1>4, CloseBacked
<1>6. SubPoolSound(r.sp)
  BY <1>1, <1>2, <1>3, <1>4, CloseSound DEF PaidOut
<1>7. LeanPool(r.sp)
  BY <1>1, <1>2, <1>3, <1>4, CloseLean
<1> QED
  BY <1>1, <1>2, <1>4, <1>5, <1>6, <1>7, CommitKeeps

LEMMA ForceCloseKeeps ==
  ASSUME MirrorInv, NEW i \in PosIds, NEW p \in Prices, ForceClose(i, p)
  PROVE  MirrorInv' /\ Core' = ForceClosePosition(Core, p, pos[i]).sp
<1>1. PICK s, P, r : s = Core /\ P = pos /\ r = ForceClosePosition(s, p, P[i])
  OBVIOUS
<1>2. Commit(r) /\ pos' = [P EXCEPT ![i] = r.pos] /\ p \in Nat /\ i \in 1 .. Len(P)
  BY <1>1, PriceNat DEF ForceClose, Settled, PosIds
<1>3. r.err = "Ok"
  BY <1>2, CommitOk
<1>4. Owned(s, P) /\ PoolSound(s) /\ Numbered(s) /\ LeanPool(s) /\ Tidy /\ Holding(P[i])
  BY <1>1, InvSound
<1>5. Owned(r.sp, [P EXCEPT ![i] = r.pos])
  BY <1>1, <1>2, <1>3, <1>4, ForceCloseBacked
<1>6. SubPoolSound(r.sp)
  BY <1>1, <1>2, <1>3, <1>4, ForceCloseSound DEF PaidOut
<1>7. LeanPool(r.sp)
  BY <1>1, <1>2, <1>3, <1>4, ForceCloseLean
<1> QED
  BY <1>1, <1>2, <1>4, <1>5, <1>6, <1>7, CommitKeeps

LEMMA ClaimKeeps ==
  ASSUME MirrorInv, NEW i \in PosIds, NEW p \in Prices, Claim(i, p)
  PROVE  MirrorInv' /\ Core' = ClaimRecovery(Core, p, pos[i]).sp
<1>1. PICK s, P, r : s = Core /\ P = pos /\ r = ClaimRecovery(s, p, P[i])
  OBVIOUS
<1>2. Commit(r) /\ pos' = [P EXCEPT ![i] = r.pos] /\ p \in Nat /\ i \in 1 .. Len(P)
  BY <1>1, PriceNat DEF Claim, Settled, PosIds
<1>3. r.err = "Ok"
  BY <1>2, CommitOk
<1>4. Owned(s, P) /\ PoolSound(s) /\ Numbered(s) /\ LeanPool(s) /\ Tidy /\ Holding(P[i])
  BY <1>1, InvSound
<1>5. Owned(r.sp, [P EXCEPT ![i] = r.pos])
  BY <1>1, <1>2, <1>3, <1>4, ClaimBacked
<1>6. SubPoolSound(r.sp)
  BY <1>1, <1>2, <1>3, <1>4, ClaimSound DEF PaidOut
<1>7. LeanPool(r.sp)
  BY <1>1, <1>2, <1>3, <1>4, ClaimLean
<1> QED
  BY <1>1, <1>2, <1>4, <1>5, <1>6, <1>7, CommitKeeps

LEMMA PreSyncKeeps ==
  ASSUME MirrorInv, NEW d \in Direction, NEW t, PreSync(d, t)
  PROVE  /\ MirrorInv' /\ Core' = PreSyncBucket(Core, d, t).sp
         /\ t \in Ticks(Core.dormant[d])
<1>1. PICK s, r : s = Core /\ r = PreSyncBucket(s, d, t)
  OBVIOUS
<1>2. Commit(r) /\ pos' = pos
  BY <1>1 DEF PreSync
<1>3. r.err = "Ok"
  BY <1>2, CommitOk
<1>4. Owned(s, pos) /\ PoolSound(s) /\ LeanPool(s) /\ Tidy
  BY <1>1, InvSound
<1>5. Owned(r.sp, pos)
  BY <1>1, <1>3, <1>4, PreSyncBacked
<1>6. SubPoolSound(r.sp)
  BY <1>1, <1>3, <1>4, PreSyncClears
<1>7. LeanPool(r.sp) /\ t \in Ticks(s.dormant[d])
  BY <1>1, <1>3, <1>4, PreSyncLean
<1> QED
  BY <1>1, <1>2, <1>4, <1>5, <1>6, <1>7, CommitKeeps

LEMMA HarvestKeeps ==
  ASSUME MirrorInv, NEW d \in Direction, Harvest(d)
  PROVE  MirrorInv' /\ Core' = HarvestDust(Core, d).sp
<1>1. PICK s, r : s = Core /\ r = HarvestDust(s, d)
  OBVIOUS
<1>2. Commit(r) /\ pos' = pos
  BY <1>1 DEF Harvest
<1>3. r.err = "Ok"
  BY <1>2, CommitOk
<1>4. Owned(s, pos) /\ PoolSound(s) /\ LeanPool(s) /\ Tidy
  BY <1>1, InvSound
<1>5. Owned(r.sp, pos)
  BY <1>1, <1>3, <1>4, HarvestBacked
<1>6. SubPoolSound(r.sp)
  BY <1>1, <1>3, <1>4, HarvestSound
<1>7. LeanPool(r.sp)
  BY <1>1, <1>4, HarvestLean
<1> QED
  BY <1>1, <1>2, <1>4, <1>5, <1>6, <1>7, CommitKeeps

(* Creating or closing a bucket account leaves the sub-pool as it was.     *)
LEMMA UnseenKeeps ==
  ASSUME MirrorInv, Tidy', Core' = Core, pos' = pos
  PROVE  MirrorInv'
BY DEF MirrorInv

LEMMA InitBucketKeeps ==
  ASSUME MirrorInv, NEW d \in Direction, NEW t \in Nat, InitBucket(d, t)
  PROVE  MirrorInv' /\ Core' = Core
<1>1. PICK A, B : A = buckets[d] /\ B = Over([k \in {t} |-> DeadRecord(k)], A)
  OBVIOUS
<1>2. t \notin DOMAIN A /\ AtHome(A) /\ Tidy
  BY <1>1, InvSound DEF InitBucket, Tidy
<1>3. AtHome(B) /\ Live(B) = Live(A) /\ \A k \in Live(A) : B[k] = A[k]
  BY <1>1, <1>2, DeadJoins
<1>4. /\ buckets' = [buckets EXCEPT ![d] = B]
      /\ UNCHANGED <<subPool, rotateLog, ledger>> /\ pos' = pos
  BY <1>1 DEF InitBucket, Tidy
<1>5. Tidy' /\ Core' = Core
  BY <1>1, <1>2, <1>3, <1>4, DeadSwapped
<1> QED
  BY <1>4, <1>5, UnseenKeeps

LEMMA CloseBucketKeeps ==
  ASSUME MirrorInv, NEW d \in Direction, NEW t \in DOMAIN buckets[d], CloseBucket(d, t)
  PROVE  MirrorInv' /\ Core' = Core
<1>1. PICK A, B : A = buckets[d] /\ B = [k \in DOMAIN A \ {t} |-> A[k]]
  OBVIOUS
<1>2. t \in DOMAIN A /\ IsDead(A[t]) /\ AtHome(A) /\ Tidy
  BY <1>1, InvSound DEF CloseBucket, Closable, Tidy
<1>3. AtHome(B) /\ Live(B) = Live(A) /\ \A k \in Live(A) : B[k] = A[k]
  BY <1>1, <1>2, DeadLeaves
<1>4. /\ buckets' = [buckets EXCEPT ![d] = B]
      /\ UNCHANGED <<subPool, rotateLog, ledger>> /\ pos' = pos
  BY <1>1 DEF CloseBucket
<1>5. Tidy' /\ Core' = Core
  BY <1>1, <1>2, <1>3, <1>4, DeadSwapped
<1> QED
  BY <1>4, <1>5, UnseenKeeps

(* Nothing changes when the accounts do not.                               *)
LEMMA StillKeeps ==
  ASSUME MirrorInv, UNCHANGED mirrorVars
  PROVE  MirrorInv' /\ Core' = Core
<1>1. UNCHANGED <<subPool, rotateLog, ledger, buckets, pos>>
  BY DEF mirrorVars
<1>2. Core' = Core
  BY <1>1 DEF Core
<1>3. Tidy'
  BY <1>1, InvSound DEF Tidy
<1> QED
  BY <1>1, <1>2, <1>3, UnseenKeeps

(* The traders' calls, whether the keeper is there or not.                 *)
LEMMA TradersKeep ==
  ASSUME MirrorInv, Traders
  PROVE  MirrorInv'
<1>1. CASE \E p \in Prices : Sync(p)
  BY <1>1, SyncKeeps
<1>2. CASE \E p \in Prices, d \in Direction, g \in Grosses : Open(p, d, g)
  BY <1>2, OpenKeeps
<1>3. CASE \E i \in PosIds, p \in Prices : Close(i, p) \/ ForceClose(i, p) \/ Claim(i, p)
  BY <1>3, CloseKeeps, ForceCloseKeeps, ClaimKeeps
<1>4. CASE \E d \in Direction : Harvest(d)
  BY <1>4, HarvestKeeps
<1> QED
  BY <1>1, <1>2, <1>3, <1>4 DEF Traders

(* The ticks for which accounts are prepared.                              *)
LEMMA BucketTicksNat == \A t \in BucketTicks : t \in Nat
BY PriceNat DEF BucketTicks

(* All steps of the mirror.                                                *)
LEMMA MirrorStep ==
  ASSUME MirrorInv, [Next]_mirrorVars
  PROVE  MirrorInv'
<1>1. CASE Traders
  BY <1>1, TradersKeep
<1>2. CASE \E d \in Direction :
             \/ \E t \in DOMAIN buckets[d] : PreSync(d, t) \/ CloseBucket(d, t)
             \/ \E t \in BucketTicks : InitBucket(d, t)
  BY <1>2, PreSyncKeeps, CloseBucketKeeps, InitBucketKeeps, BucketTicksNat
<1>3. CASE UNCHANGED mirrorVars
  BY <1>3, StillKeeps
<1> QED
  BY <1>1, <1>2, <1>3 DEF Next, Traders

(* A mirror without accounts is a new sub-pool.                            *)
LEMMA NoAccounts ==
  ASSUME NEW d, NEW A, A = [t \in {} |-> 0]
  PROVE  AtHome(A) /\ Unpack(d, LedgerOf(NewStore(d)), A) = NewStore(d)
<1>1. DOMAIN A = {} /\ A = [k \in DOMAIN A |-> A[k]]
  OBVIOUS
<1>2. AtHome(A) /\ Live(A) = {}
  BY <1>1 DEF AtHome, Live
<1>3. [t \in Live(A) |-> BucketOf(A[t])] = A
  BY <1>1, <1>2
<1>4. PICK st, L : st = NewStore(d) /\ L = LedgerOf(st)
  OBVIOUS
<1>5. st = [dir |-> d, bucket |-> A, ledger |-> st.ledger, gcOffset |-> st.gcOffset,
            accruedTotal |-> st.accruedTotal, pending |-> st.pending]
  BY <1>4 DEF NewStore
<1>6. Unpack(d, L, A)
        = [dir |-> d, bucket |-> A, ledger |-> L.entries, gcOffset |-> L.gcOffset,
           accruedTotal |-> L.accruedTotal, pending |-> L.pending]
  <2>1. PICK B : B = [t \in Live(A) |-> BucketOf(A[t])]
    OBVIOUS
  <2>2. Unpack(d, L, A)
          = [dir |-> d, bucket |-> B, ledger |-> L.entries, gcOffset |-> L.gcOffset,
             accruedTotal |-> L.accruedTotal, pending |-> L.pending]
    BY <1>2, <2>1, UnpackIs
  <2> QED
    BY <1>3, <2>1, <2>2
<1>7. /\ L.entries = st.ledger /\ L.gcOffset = st.gcOffset
      /\ L.accruedTotal = st.accruedTotal /\ L.pending = st.pending
  BY <1>4 DEF LedgerOf
<1>8. Unpack(d, L, A) = st
  BY <1>5, <1>6, <1>7
<1> QED
  BY <1>2, <1>4, <1>8

(* A mirror starts as a new sub-pool that nobody has a position in.        *)
LEMMA CoreInit == Init => Tidy /\ Core = NewSubPool
<1> SUFFICES ASSUME Init PROVE Tidy /\ Core = NewSubPool
  OBVIOUS
<1>1. PICK A : A = [t \in {} |-> 0]
  OBVIOUS
<1>2. buckets = [d \in Direction |-> A] /\ ledger = [d \in Direction |-> LedgerOf(NewStore(d))]
  BY <1>1 DEF Init, Both
<1>3. \A d \in Direction : AtHome(buckets[d])
                           /\ Unpack(d, ledger[d], buckets[d]) = NewStore(d)
  BY <1>1, <1>2, NoAccounts
<1>4. Tidy
  BY <1>2, <1>3 DEF Tidy, OnSides
<1>5. [d \in Direction |-> Unpack(d, ledger[d], buckets[d])] = [d \in Direction |-> NewStore(d)]
  BY <1>3
<1>6. PICK n : n = NewSubPool
  OBVIOUS
<1>7. IsSubPool(n) /\ n.dormant = [d \in Direction |-> NewStore(d)]
  BY <1>6, NewSubPoolSound DEF PoolSound, NewSubPool
<1>8. Core = [ClearingView(AccountOf(n)) EXCEPT !.rotateLog = n.rotateLog, !.dormant = n.dormant]
  BY <1>5, <1>6, <1>7 DEF Core, Init
<1>9. [ClearingView(AccountOf(n)) EXCEPT !.rotateLog = n.rotateLog, !.dormant = n.dormant] = n
  BY <1>7 DEF ClearingView, AccountOf, NewSubPool, IsSubPool, SubPoolFields
<1> QED
  BY <1>4, <1>6, <1>8, <1>9

LEMMA MirrorInit == Init => MirrorInv
<1> SUFFICES ASSUME Init PROVE MirrorInv
  OBVIOUS
<1>1. Tidy /\ Core = NewSubPool /\ pos = <<>>
  BY CoreInit DEF Init
<1> QED
  BY <1>1, NothingOwned, NewSubPoolSound, NewPoolLean DEF MirrorInv

LEMMA MirrorIsInvariant == PreparedSpec => []MirrorInv
BY MirrorInit, MirrorStep, PTL DEF PreparedSpec

(***************************************************************************)
(* Eager crediting.                                                        *)
(***************************************************************************)
(* Where nothing is in flight, no bucket has anything to replay.           *)
LEMMA NothingDue ==
  ASSUME NEW st, StoreSound(st), st.pending = 0, NEW t \in Ticks(st)
  PROVE  PendingForBucket(st, t) = 0
<1>1. /\ IsFiniteSet(Ticks(st)) /\ Amounts(Due(st), Ticks(st))
      /\ SumOver(Due(st), Ticks(st)) = 0
  BY DueType DEF StoreSound, StoreTyped
<1>2. Due(st)[t] <= SumOver(Due(st), Ticks(st)) /\ Due(st)[t] \in Nat
  <2>1. SumOver(Due(st), Ticks(st)) = Due(st)[t] + SumOver(Due(st), Ticks(st) \ {t})
    BY <1>1, SumRemove
  <2>2. PICK T : T = Ticks(st) \ {t}
    OBVIOUS
  <2>3. IsFiniteSet(T) /\ Amounts(Due(st), T)
    BY <1>1, <2>2, FS_Subset DEF Amounts
  <2>4. SumOver(Due(st), T) \in Nat
    BY <2>3, SumNat
  <2> QED
    BY <1>1, <2>1, <2>2, <2>4 DEF Amounts
<1>3. Due(st)[t] = 0
  BY <1>1, <1>2
<1> QED
  BY <1>3 DEF Due

LEMMA InvNeverLags ==
  ASSUME Mode = "Eager", MirrorInv
  PROVE  AccountsNeverLag
<1>1. ASSUME NEW d \in Direction
      PROVE  /\ ledger[d].pending = 0
             /\ \A t \in Ticks(Core.dormant[d]) : PendingForBucket(Core.dormant[d], t) = 0
  <2>1. PICK s, st : s = Core /\ st = s.dormant[d]
    OBVIOUS
  <2>2. StoreSound(st) /\ st.pending = 0
    BY <2>1, InvSound DEF PoolSound, LeanPool, Lean
  <2>3. s.dormant = [e \in Direction |-> Unpack(e, ledger[e], buckets[e])]
    BY <2>1 DEF Core, ClearingView, NewSubPool
  <2>4. st.pending = ledger[d].pending
    BY <2>1, <2>3 DEF Unpack
  <2> QED
    BY <2>1, <2>2, <2>4, NothingDue
<1> QED
  BY <1>1 DEF AccountsNeverLag

(* Eager crediting survives being stored and loaded: no account ever lags  *)
(* behind a distribution, so a replay of the ledger (redeem, merge and     *)
(* pre-sync still do one, dormant.rs) credits nothing twice.               *)
THEOREM AccountsNeverLagBehind ==
  ASSUME Mode = "Eager"
  PROVE  PreparedSpec => []AccountsNeverLag
BY MirrorIsInvariant, InvNeverLags, PTL

(***************************************************************************)
(* The market of the refinement has engine operators of its own, instances *)
(* of the ones above: the same functions of the same arguments.            *)
(***************************************************************************)

LEMMA SameReplayed == ASSUME NEW st, NEW b PROVE Market!Replayed(st, b) = Replayed(st, b)
BY Zenon DEF Market!Replayed, Replayed, Market!FoldLeft, FoldLeft, Market!MapThenFoldSet,
     MapThenFoldSet, Market!Max, Max, Market!Unapplied, Unapplied, Market!EntryShare, EntryShare,
     Market!ShareOf, ShareOf, Market!Smaller, Smaller, Market!MulDivFloor, MulDivFloor,
     Market!Monus, Monus, Market!IntrinsicClaim, IntrinsicClaim, Market!Activated, Activated,
     Market!Distance, Distance, Market!NextEventIndex, NextEventIndex

LEMMA SameArithmetic ==
  /\ Market!BpsScale = BpsScale
  /\ \A a, b : Market!Smaller(a, b) = Smaller(a, b)
  /\ \A a, b : Market!Larger(a, b) = Larger(a, b)
  /\ \A a, b : Market!Monus(a, b) = Monus(a, b)
  /\ \A a, b : Market!Distance(a, b) = Distance(a, b)
  /\ \A a, b, d : Market!MulDivFloor(a, b, d) = MulDivFloor(a, b, d)
  /\ \A a, b, d : Market!MulDivCeil(a, b, d) = MulDivCeil(a, b, d)
  /\ \A sign, notional, pLast, pNow :
        Market!SignedPnlIncrement(sign, notional, pLast, pNow)
          = SignedPnlIncrement(sign, notional, pLast, pNow)
  /\ \A pOld, pNew : Market!PriceMoveBps(pOld, pNew) = PriceMoveBps(pOld, pNew)
<1>1. Market!BpsScale = BpsScale
  BY DEF Market!BpsScale, BpsScale
<1>2. \A a, b : Market!Smaller(a, b) = Smaller(a, b)
  BY DEF Market!Smaller, Smaller
<1>3. \A a, b : Market!Larger(a, b) = Larger(a, b)
  BY DEF Market!Larger, Larger
<1>4. \A a, b : Market!Monus(a, b) = Monus(a, b)
  BY DEF Market!Monus, Monus
<1>5. \A a, b : Market!Distance(a, b) = Distance(a, b)
  BY DEF Market!Distance, Distance
<1>6. \A a, b, d : Market!MulDivFloor(a, b, d) = MulDivFloor(a, b, d)
  BY DEF Market!MulDivFloor, MulDivFloor
<1>7. \A a, b, d : Market!MulDivCeil(a, b, d) = MulDivCeil(a, b, d)
  BY DEF Market!MulDivCeil, MulDivCeil
<1>8. \A sign, notional, pLast, pNow :
      Market!SignedPnlIncrement(sign, notional, pLast, pNow)
        = SignedPnlIncrement(sign, notional, pLast, pNow)
  BY <1>5, <1>6 DEF Market!SignedPnlIncrement, SignedPnlIncrement
<1>9. \A pOld, pNew : Market!PriceMoveBps(pOld, pNew) = PriceMoveBps(pOld, pNew)
  BY <1>1, <1>5, <1>6 DEF Market!PriceMoveBps, PriceMoveBps
<1> QED
  BY <1>1, <1>2, <1>3, <1>4, <1>5, <1>6, <1>7, <1>8, <1>9

LEMMA SameReads ==
  /\ Market!Direction = Direction
  /\ \A d : Market!Sign(d) = Sign(d)
  /\ \A st : Market!Ticks(st) = Ticks(st)
  /\ \A d : Market!NewStore(d) = NewStore(d)
  /\ \A st : Market!NextEventIndex(st) = NextEventIndex(st)
  /\ \A f, S : Market!SumOver(f, S) = SumOver(f, S)
  /\ \A st, b : Market!Unapplied(st, b) = Unapplied(st, b)
  /\ \A st, t, shares : Market!CanRedeem(st, t, shares) = CanRedeem(st, t, shares)
  /\ \A b : Market!Spent(b) = Spent(b)
  /\ \A st, t, b : Market!TicksKept(st, t, b) = TicksKept(st, t, b)
  /\ \A st, t : Market!CanInsert(st, t) = CanInsert(st, t)
  /\ \A st : Market!TotalRecoveryShares(st) = TotalRecoveryShares(st)
  /\ \A st : Market!CheckStore(st) = CheckStore(st)
<1>1. Market!Direction = Direction
  BY DEF Market!Direction, Direction
<1>2. \A d : Market!Sign(d) = Sign(d)
  BY DEF Market!Sign, Sign
<1>3. \A st : Market!Ticks(st) = Ticks(st)
  BY DEF Market!Ticks, Ticks
<1>4. \A d : Market!NewStore(d) = NewStore(d)
  BY DEF Market!NewStore, NewStore
<1>5. \A st : Market!NextEventIndex(st) = NextEventIndex(st)
  BY DEF Market!NextEventIndex, NextEventIndex
<1>6. \A f, S : Market!SumOver(f, S) = SumOver(f, S)
  BY DEF Market!SumOver, SumOver, Market!SumFunctionOnSet, SumFunctionOnSet,
       Market!FoldFunctionOnSet, FoldFunctionOnSet, Market!MapThenFoldSet, MapThenFoldSet
<1>7. \A st, b : Market!Unapplied(st, b) = Unapplied(st, b)
  BY DEF Market!Unapplied, Unapplied
<1>8. \A st, t, shares : Market!CanRedeem(st, t, shares) = CanRedeem(st, t, shares)
  BY <1>3 DEF Market!CanRedeem, CanRedeem
<1>9. \A b : Market!Spent(b) = Spent(b)
  BY DEF Market!Spent, Spent
<1>10. \A st, t, b : Market!TicksKept(st, t, b) = TicksKept(st, t, b)
  BY <1>3, <1>9 DEF Market!TicksKept, TicksKept
<1>11. \A st, t : Market!CanInsert(st, t) = CanInsert(st, t)
  BY Zenon DEF Market!CanInsert, CanInsert, Market!Cardinality, Cardinality, Market!Ticks, Ticks
<1>12. \A st : Market!TotalRecoveryShares(st) = TotalRecoveryShares(st)
  BY <1>3, <1>6 DEF Market!TotalRecoveryShares, TotalRecoveryShares
<1>13. \A st : Market!CheckStore(st) = CheckStore(st)
  BY <1>3, <1>5, <1>6 DEF Market!CheckStore, CheckStore
<1> QED
  BY <1>1, <1>2, <1>3, <1>4, <1>5, <1>6, <1>7, <1>8, <1>9, <1>10, <1>11, <1>12, <1>13

LEMMA SameClaims ==
  /\ \A d, anchor, p : Market!Activated(d, anchor, p) = Activated(d, anchor, p)
  /\ \A st, p : Market!ActivatedTicks(st, p) = ActivatedTicks(st, p)
  /\ \A d, b, p : Market!IntrinsicClaim(d, b, p) = IntrinsicClaim(d, b, p)
  /\ \A d, b, p : Market!OutstandingClaim(d, b, p) = OutstandingClaim(d, b, p)
  /\ \A st, p : Market!TotalOutstanding(st, p) = TotalOutstanding(st, p)
  /\ \A alloc, owed, total : Market!ShareOf(alloc, owed, total) = ShareOf(alloc, owed, total)
  /\ \A d, b, accrued, e : Market!EntryShare(d, b, accrued, e) = EntryShare(d, b, accrued, e)
<1>1. \A d, anchor, p : Market!Activated(d, anchor, p) = Activated(d, anchor, p)
  BY DEF Market!Activated, Activated
<1>2. \A st, p : Market!ActivatedTicks(st, p) = ActivatedTicks(st, p)
  BY SameReads, <1>1 DEF Market!ActivatedTicks, ActivatedTicks
<1>3. \A d, b, p : Market!IntrinsicClaim(d, b, p) = IntrinsicClaim(d, b, p)
  BY SameArithmetic, <1>1 DEF Market!IntrinsicClaim, IntrinsicClaim
<1>4. \A d, b, p : Market!OutstandingClaim(d, b, p) = OutstandingClaim(d, b, p)
  BY SameArithmetic, <1>3 DEF Market!OutstandingClaim, OutstandingClaim
<1>5. \A st, p : Market!TotalOutstanding(st, p) = TotalOutstanding(st, p)
  BY SameReads, <1>2, <1>4 DEF Market!TotalOutstanding, TotalOutstanding
<1>6. \A alloc, owed, total : Market!ShareOf(alloc, owed, total) = ShareOf(alloc, owed, total)
  BY SameArithmetic DEF Market!ShareOf, ShareOf
<1>7. \A d, b, accrued, e : Market!EntryShare(d, b, accrued, e) = EntryShare(d, b, accrued, e)
  BY SameArithmetic, <1>3, <1>6 DEF Market!EntryShare, EntryShare
<1> QED
  BY <1>1, <1>2, <1>3, <1>4, <1>5, <1>6, <1>7

LEMMA SameReplay ==
  /\ \A st, b : Market!Replayed(st, b) = Replayed(st, b)
  /\ \A st, t : Market!PendingForBucket(st, t) = PendingForBucket(st, t)
  /\ \A st, T : Market!ApplyPending(st, T) = ApplyPending(st, T)
  /\ \A st : Market!Watermark(st) = Watermark(st)
  /\ \A st : Market!CompactLedger(st) = CompactLedger(st)
  /\ \A st : Market!WithRoom(st) = WithRoom(st)
  /\ \A st : Market!LedgerFull(st) = LedgerFull(st)
<1>1. \A st, b : Market!Replayed(st, b) = Replayed(st, b)
  BY SameReplayed
<1>2. \A st, t : Market!PendingForBucket(st, t) = PendingForBucket(st, t)
  BY <1>1 DEF Market!PendingForBucket, PendingForBucket
<1>3. \A st, T : Market!ApplyPending(st, T) = ApplyPending(st, T)
  BY SameArithmetic, SameReads, <1>1, <1>2 DEF Market!ApplyPending, ApplyPending
<1>4. \A st : Market!Watermark(st) = Watermark(st)
  BY SameReads DEF Market!Watermark, Watermark, Market!Min, Min
<1>5. \A st : Market!CompactLedger(st) = CompactLedger(st)
  BY SameArithmetic, <1>4 DEF Market!CompactLedger, CompactLedger
<1>6. \A st : Market!WithRoom(st) = WithRoom(st)
  BY <1>5 DEF Market!WithRoom, WithRoom
<1>7. \A st : Market!LedgerFull(st) = LedgerFull(st)
  BY <1>6 DEF Market!LedgerFull, LedgerFull
<1> QED
  BY <1>1, <1>2, <1>3, <1>4, <1>5, <1>6, <1>7

LEMMA SameInsert ==
  \A st, t, anchor, shares, notional :
        Market!InsertOrMerge(st, t, anchor, shares, notional)
          = InsertOrMerge(st, t, anchor, shares, notional)
<1>1. ASSUME NEW st, NEW t, NEW anchor, NEW shares, NEW notional
      PROVE Market!InsertOrMerge(st, t, anchor, shares, notional)
              = InsertOrMerge(st, t, anchor, shares, notional)
  <2>1. PICK a : a = ApplyPending(st, {t})
    OBVIOUS
  <2>2. /\ Market!ApplyPending(st, {t}) = a /\ Market!Ticks(st) = Ticks(st)
        /\ Market!NextEventIndex(st) = NextEventIndex(st)
    BY <2>1, SameReplay, SameReads
  <2>3. CASE t \in Ticks(st)
    BY <2>1, <2>2, <2>3 DEF Market!InsertOrMerge, InsertOrMerge
  <2>4. CASE t \notin Ticks(st)
    BY <2>1, <2>2, <2>4 DEF Market!InsertOrMerge, InsertOrMerge
  <2> QED
    BY <2>3, <2>4
<1> QED
  BY <1>1

LEMMA SameSplit ==
  /\ \A st, p : Market!CaughtUp(st, p) = CaughtUp(st, p)
  /\ \A ready, p : Market!OwedAt(ready, p) = OwedAt(ready, p)
  /\ \A st, p, alloc : Market!Split(st, p, alloc) = Split(st, p, alloc)
  /\ \A p, alloc, split : Market!NewEntry(p, alloc, split) = NewEntry(p, alloc, split)
  /\ \A st, p, alloc : Market!Residual(st, p, alloc) = Residual(st, p, alloc)
  /\ \A b, share, next : Market!Credited(b, share, next) = Credited(b, share, next)
<1>1. \A st, p : Market!CaughtUp(st, p) = CaughtUp(st, p)
  BY SameClaims, SameReplay DEF Market!CaughtUp, CaughtUp
<1>2. \A ready, p : Market!OwedAt(ready, p) = OwedAt(ready, p)
  BY SameClaims DEF Market!OwedAt, OwedAt
<1>3. \A st, p, alloc : Market!Split(st, p, alloc) = Split(st, p, alloc)
  BY SameReads, SameClaims, <1>1, <1>2 DEF Market!Split, Split
<1>4. \A p, alloc, split : Market!NewEntry(p, alloc, split) = NewEntry(p, alloc, split)
  BY DEF Market!NewEntry, NewEntry
<1>5. \A st, p, alloc : Market!Residual(st, p, alloc) = Residual(st, p, alloc)
  BY <1>3 DEF Market!Residual, Residual
<1>6. \A b, share, next : Market!Credited(b, share, next) = Credited(b, share, next)
  BY DEF Market!Credited, Credited
<1> QED
  BY <1>1, <1>2, <1>3, <1>4, <1>5, <1>6

LEMMA SameDistribute ==
  /\ \A st, p, alloc : Market!DistributeEager(st, p, alloc) = DistributeEager(st, p, alloc)
  /\ \A st, p, alloc : Market!DistributeLazy(st, p, alloc) = DistributeLazy(st, p, alloc)
  /\ \A st, p, alloc : Market!Distribute(st, p, alloc) = Distribute(st, p, alloc)
<1>1. ASSUME NEW st, NEW p, NEW alloc
      PROVE Market!DistributeEager(st, p, alloc)
              = DistributeEager(st, p, alloc)
  <2>1. PICK s : s = Split(st, p, alloc)
    OBVIOUS
  <2>2. PICK n, e : n = NextEventIndex(s.ready) /\ e = NewEntry(p, alloc, s)
    OBVIOUS
  <2>3. /\ Market!Split(st, p, alloc) = s
        /\ Market!NextEventIndex(s.ready) = n /\ Market!NewEntry(p, alloc, s) = e
    BY <2>1, <2>2, SameSplit, SameReads
  <2> QED
    BY <2>1, <2>2, <2>3
    DEF Market!DistributeEager, DistributeEager, Market!Credited, Credited, Market!Ticks, Ticks
<1>2. \A st, p, alloc : Market!DistributeLazy(st, p, alloc) = DistributeLazy(st, p, alloc)
  BY ZenonT(30), SameSplit DEF Market!DistributeLazy, DistributeLazy
<1>3. \A st, p, alloc : Market!Distribute(st, p, alloc) = Distribute(st, p, alloc)
  BY <1>1, <1>2 DEF Market!Distribute, Distribute
<1> QED
  BY <1>1, <1>2, <1>3

LEMMA SameRedeem ==
  /\ \A st, t, shares : Market!Redeemable(st, t, shares) = Redeemable(st, t, shares)
  /\ \A st, t, shares : Market!Redeem(st, t, shares) = Redeem(st, t, shares)
<1>1. \A st, t, shares : Market!Redeemable(st, t, shares) = Redeemable(st, t, shares)
  BY SameArithmetic, SameReplay DEF Market!Redeemable, Redeemable
<1>2. ASSUME NEW st, NEW t, NEW shares
      PROVE Market!Redeem(st, t, shares)
              = Redeem(st, t, shares)
  <2>1. PICK a, r : a = ApplyPending(st, {t}) /\ r = Redeemable(st, t, shares)
    OBVIOUS
  <2>2. Market!ApplyPending(st, {t}) = a /\ Market!Redeemable(st, t, shares) = r
    BY <1>1, <2>1, SameReplay
  <2> QED
    BY <2>1, <2>2 DEF Market!Redeem, Redeem, Market!TicksKept, TicksKept, Market!Ticks, Ticks,
                      Market!Spent, Spent, Market!MulDivFloor, MulDivFloor
<1> QED
  BY <1>1, <1>2

LEMMA SameChecks ==
  /\ \A x : Market!Both(x) = Both(x)
  /\ Market!NewSubPool = NewSubPool
  /\ \A d : Market!Opposite(d) = Opposite(d)
  /\ \A s : Market!SubPoolSound(s) = SubPoolSound(s)
  /\ \A s : Market!Checked(s) = Checked(s)
<1>1. \A x : Market!Both(x) = Both(x)
  BY SameReads DEF Market!Both, Both
<1>2. Market!NewSubPool = NewSubPool
  BY SameReads, <1>1 DEF Market!NewSubPool, NewSubPool
<1>3. \A d : Market!Opposite(d) = Opposite(d)
  BY DEF Market!Opposite, Opposite
<1>4. \A s : Market!SubPoolSound(s) = SubPoolSound(s)
  BY SameReads DEF Market!SubPoolSound, SubPoolSound
<1>5. \A s : Market!Checked(s) = Checked(s)
  BY <1>4 DEF Market!Checked, Checked, Market!Ok, Ok, Market!Fail, Fail
<1> QED
  BY <1>1, <1>2, <1>3, <1>4, <1>5

LEMMA SameDemand ==
  /\ \A s, d, p : Market!ActiveDemand(s, d, p) = ActiveDemand(s, d, p)
  /\ \A s, d, p : Market!DormantDemand(s, d, p) = DormantDemand(s, d, p)
  /\ \A s, d, p : Market!Demand(s, d, p) = Demand(s, d, p)
  /\ \A s, w, p : Market!Transfer(s, w, p) = Transfer(s, w, p)
  /\ \A s, p : Market!Winner(s, p) = Winner(s, p)
<1>1. \A s, d, p : Market!ActiveDemand(s, d, p) = ActiveDemand(s, d, p)
  BY SameArithmetic, SameReads DEF Market!ActiveDemand, ActiveDemand
<1>2. \A s, d, p : Market!DormantDemand(s, d, p) = DormantDemand(s, d, p)
  BY SameArithmetic, SameClaims DEF Market!DormantDemand, DormantDemand
<1>3. \A s, d, p : Market!Demand(s, d, p) = Demand(s, d, p)
  BY <1>1, <1>2 DEF Market!Demand, Demand
<1>4. \A s, w, p : Market!Transfer(s, w, p) = Transfer(s, w, p)
  BY SameArithmetic, SameChecks, <1>3 DEF Market!Transfer, Transfer
<1>5. \A s, p : Market!Winner(s, p) = Winner(s, p)
  BY <1>3 DEF Market!Winner, Winner
<1> QED
  BY <1>1, <1>2, <1>3, <1>4, <1>5

LEMMA SameSettle ==
  \A s, w, p : Market!Settle(s, w, p) = Settle(s, w, p)
<1>1. ASSUME NEW s, NEW w, NEW p PROVE Market!Settle(s, w, p) = Settle(s, w, p)
  <2>1. PICK o, x, y, a : /\ o = Opposite(w) /\ x = Transfer(s, w, p) /\ y = Demand(s, w, p)
                          /\ a = MulDivFloor(x, ActiveDemand(s, w, p), y)
    OBVIOUS
  <2>2. /\ Market!Opposite(w) = o /\ Market!Transfer(s, w, p) = x /\ Market!Demand(s, w, p) = y
        /\ Market!MulDivFloor(x, Market!ActiveDemand(s, w, p), y) = a
    BY <2>1, SameChecks, SameDemand, SameArithmetic
  <2>3. PICK n, r : n = x - a /\ r = Residual(s.dormant[w], p, n)
    OBVIOUS
  <2>4. Market!Residual(s.dormant[w], p, n) = r
    BY <2>3, SameSplit
  <2>5. PICK v : v = [s EXCEPT !.pool[w] = @ + a, !.pool[o] = @ - x]
    OBVIOUS
  <2>6. Market!Distribute(v.dormant[w], p, n) = Distribute(v.dormant[w], p, n)
    BY SameDistribute
  <2>7. Market!LedgerFull(s.dormant[w]) = LedgerFull(s.dormant[w])
    BY SameReplay
  <2>8. Settle(s, w, p) =
          IF x = 0 THEN [err |-> "Ok", sp |-> s]
          ELSE IF n = 0 THEN [err |-> "Ok", sp |-> v]
          ELSE IF LedgerFull(s.dormant[w]) THEN [err |-> "LedgerCapacityExceeded", sp |-> s]
          ELSE [err |-> "Ok",
                sp |-> [v EXCEPT !.dormant[w] = Distribute(@, p, n), !.dust[w] = @ + r]]
    BY <2>1, <2>3, <2>5 DEF Settle, Ok, Fail
  <2>9. Market!Settle(s, w, p) =
          IF x = 0 THEN [err |-> "Ok", sp |-> s]
          ELSE IF n = 0 THEN [err |-> "Ok", sp |-> v]
          ELSE IF Market!LedgerFull(s.dormant[w]) THEN [err |-> "LedgerCapacityExceeded", sp |-> s]
          ELSE [err |-> "Ok",
                sp |-> [v EXCEPT !.dormant[w] = Market!Distribute(@, p, n),
                                 !.dust[w] = @ + r]]
    BY <2>2, <2>3, <2>4, <2>5 DEF Market!Settle, Market!Ok, Market!Fail
  <2>11. PICK f : f = Distribute(v.dormant[w], p, n)
    OBVIOUS
  <2>12. [v EXCEPT !.dormant[w] = Market!Distribute(@, p, n), !.dust[w] = @ + r]
           = [v EXCEPT !.dormant[w] = f, !.dust[w] = @ + r]
    BY <2>6, <2>11
  <2>13. [v EXCEPT !.dormant[w] = Distribute(@, p, n), !.dust[w] = @ + r]
           = [v EXCEPT !.dormant[w] = f, !.dust[w] = @ + r]
    BY <2>11
  <2> QED
    BY <2>7, <2>8, <2>9, <2>12, <2>13
<1> QED
  BY <1>1

LEMMA SameRotate ==
  /\ \A p : Market!BucketTickOf(p) = BucketTickOf(p)
  /\ \A s, d, t : Market!RotateRecord(s, d, t) = RotateRecord(s, d, t)
  /\ \A s, d, p : Market!Rotate(s, d, p) = Rotate(s, d, p)
  /\ \A s, p : Market!RotateBoth(s, p) = RotateBoth(s, p)
<1>1. \A p : Market!BucketTickOf(p) = BucketTickOf(p)
  BY DEF Market!BucketTickOf, BucketTickOf
<1>2. \A s, d, t : Market!RotateRecord(s, d, t) = RotateRecord(s, d, t)
  BY DEF Market!RotateRecord, RotateRecord
<1>3. ASSUME NEW s, NEW d, NEW p PROVE Market!Rotate(s, d, p) = Rotate(s, d, p)
  <2>1. PICK t, r : t = BucketTickOf(p) /\ r = RotateRecord(s, d, t)
    OBVIOUS
  <2>2. Market!BucketTickOf(p) = t /\ Market!RotateRecord(s, d, t) = r
    BY <1>1, <1>2, <2>1
  <2>3. PICK u : u = InsertOrMerge(s.dormant[d], t, p, s.shares[d], s.notional[d])
    OBVIOUS
  <2>4. /\ Market!CanInsert(s.dormant[d], t) = CanInsert(s.dormant[d], t)
        /\ Market!InsertOrMerge(s.dormant[d], t, p, s.shares[d], s.notional[d]) = u
    BY <2>3, SameReads, SameInsert
  <2> QED
    BY <2>1, <2>2, <2>3, <2>4 DEF Market!Rotate, Rotate, Market!Ok, Ok, Market!Fail, Fail
<1>4. \A s, p : Market!RotateBoth(s, p) = RotateBoth(s, p)
  BY <1>3 DEF Market!RotateBoth, RotateBoth, Market!Ok, Ok
<1> QED
  BY <1>1, <1>2, <1>3, <1>4

LEMMA SameSync ==
  \A s, p : Market!SyncPool(s, p) = SyncPool(s, p)
<1>1. \A s, p : Market!SyncPool(s, p) = SyncPool(s, p)
  BY SameArithmetic, SameChecks, SameSettle, SameRotate, SameDemand
    DEF Market!SyncPool, SyncPool, Market!Ok, Ok, Market!Fail, Fail
<1> QED
  BY <1>1

LEMMA SamePosition ==
  /\ \A d, shares, notional, gen :
        Market!NewPosition(d, shares, notional, gen) = NewPosition(d, shares, notional, gen)
  /\ \A q : Market!Closed(q) = Closed(q)
  /\ \A q : Market!WithoutRecovery(q) = WithoutRecovery(q)
  /\ \A q : Market!WithoutShares(q) = WithoutShares(q)
  /\ \A s, q : Market!RotateRecords(s, q) = RotateRecords(s, q)
  /\ \A s, q : Market!NeedsMigration(s, q) = NeedsMigration(s, q)
  /\ \A s, q : Market!CanMigrate(s, q) = CanMigrate(s, q)
  /\ \A s, q : Market!Migrated(s, q) = Migrated(s, q)
<1>1. \A d, shares, notional, gen :
      Market!NewPosition(d, shares, notional, gen) = NewPosition(d, shares, notional, gen)
  BY DEF Market!NewPosition, NewPosition, Market!NoTick, NoTick
<1>2. \A q : Market!Closed(q) = Closed(q)
  BY DEF Market!Closed, Closed
<1>3. \A q : Market!WithoutRecovery(q) = WithoutRecovery(q)
  BY DEF Market!WithoutRecovery, WithoutRecovery, Market!NoTick, NoTick
<1>4. \A q : Market!WithoutShares(q) = WithoutShares(q)
  BY <1>3 DEF Market!WithoutShares, WithoutShares
<1>5. \A s, q : Market!RotateRecords(s, q) = RotateRecords(s, q)
  BY DEF Market!RotateRecords, RotateRecords
<1>6. \A s, q : Market!NeedsMigration(s, q) = NeedsMigration(s, q)
  BY DEF Market!NeedsMigration, NeedsMigration
<1>7. \A s, q : Market!CanMigrate(s, q) = CanMigrate(s, q)
  BY <1>5, <1>6 DEF Market!CanMigrate, CanMigrate
<1>8. \A s, q : Market!Migrated(s, q) = Migrated(s, q)
  BY Zenon DEF Market!Migrated, Migrated, Market!Min, Min, Market!RotateRecords, RotateRecords,
       Market!NeedsMigration, NeedsMigration
<1> QED
  BY <1>1, <1>2, <1>3, <1>4, <1>5, <1>6, <1>7, <1>8

LEMMA SameMinting ==
  /\ \A gross : Market!OpenFee(gross) = OpenFee(gross)
  /\ \A s, d : Market!Diluted(s, d) = Diluted(s, d)
  /\ \A s, d, principal : Market!SharesMinted(s, d, principal) = SharesMinted(s, d, principal)
  /\ \A s, d, principal :
        Market!PrincipalIntoPool(s, d, principal) = PrincipalIntoPool(s, d, principal)
<1>1. \A gross : Market!OpenFee(gross) = OpenFee(gross)
  BY SameArithmetic DEF Market!OpenFee, OpenFee
<1>2. \A s, d : Market!Diluted(s, d) = Diluted(s, d)
  BY SameArithmetic DEF Market!Diluted, Diluted
<1>3. \A s, d, principal : Market!SharesMinted(s, d, principal) = SharesMinted(s, d, principal)
  BY SameArithmetic DEF Market!SharesMinted, SharesMinted
<1>4. \A s, d, principal :
      Market!PrincipalIntoPool(s, d, principal) = PrincipalIntoPool(s, d, principal)
  BY SameArithmetic, <1>3 DEF Market!PrincipalIntoPool, PrincipalIntoPool
<1> QED
  BY <1>1, <1>2, <1>3, <1>4

LEMMA SameOpened ==
  /\ \A s, d, gross : Market!OpenSynced(s, d, gross) = OpenSynced(s, d, gross)
  /\ \A old, p, d, gross :
        Market!OpenPosition(old, p, d, gross) = OpenPosition(old, p, d, gross)
<1>1. ASSUME NEW s, NEW d, NEW gross
      PROVE Market!OpenSynced(s, d, gross)
              = OpenSynced(s, d, gross)
  <2>1. PICK fee, n, k : /\ fee = OpenFee(gross) /\ n = gross - fee /\ k = SharesMinted(s, d, n)
    OBVIOUS
  <2>2. PICK m, i : m = MulDivFloor(n, LeverageBps, BpsScale) /\ i = PrincipalIntoPool(s, d, n)
    OBVIOUS
  <2>3. /\ Market!OpenFee(gross) = fee /\ Market!SharesMinted(s, d, n) = k
        /\ Market!MulDivFloor(n, LeverageBps, Market!BpsScale) = m
        /\ Market!PrincipalIntoPool(s, d, n) = i
        /\ Market!Diluted(s, d) = Diluted(s, d)
    BY <2>1, <2>2, SameMinting, SameArithmetic
  <2>4. PICK v : v = [s EXCEPT !.pool[d] = @ + i, !.shares[d] = @ + k,
                     !.notional[d] = @ + m,
                     !.dust[d] = @ + (n - i)]
    OBVIOUS
  <2>5. /\ Market!Checked(v) = Checked(v)
        /\ Market!NewPosition(d, k, m, s.gen[d]) = NewPosition(d, k, m, s.gen[d])
    BY SameChecks, SamePosition
  <2> QED
    BY <2>1, <2>2, <2>3, <2>4, <2>5 DEF Market!OpenSynced, OpenSynced, Market!Fail, Fail
<1>2. \A old, p, d, gross :
      Market!OpenPosition(old, p, d, gross) = OpenPosition(old, p, d, gross)
  BY SameSync, <1>1 DEF Market!OpenPosition, OpenPosition, Market!Ok, Ok
<1> QED
  BY <1>1, <1>2

LEMMA SameLeaving ==
  /\ \A s, q : Market!ActiveValue(s, q) = ActiveValue(s, q)
  /\ \A s, q : Market!CanLeaveActive(s, q) = CanLeaveActive(s, q)
  /\ \A s, q, value : Market!LeaveActive(s, q, value) = LeaveActive(s, q, value)
  /\ \A s, q : Market!CanLeaveRecovery(s, q) = CanLeaveRecovery(s, q)
  /\ \A s, q : Market!RecoveryValue(s, q) = RecoveryValue(s, q)
  /\ \A s, q : Market!LeaveRecovery(s, q) = LeaveRecovery(s, q)
  /\ \A s, q : Market!HasPool(s, q) = HasPool(s, q)
  /\ \A s, paid, q : Market!Finished(s, paid, q) = Finished(s, paid, q)
<1>1. \A s, q : Market!ActiveValue(s, q) = ActiveValue(s, q)
  BY SameArithmetic DEF Market!ActiveValue, ActiveValue
<1>2. \A s, q : Market!CanLeaveActive(s, q) = CanLeaveActive(s, q)
  BY DEF Market!CanLeaveActive, CanLeaveActive
<1>3. \A s, q, value : Market!LeaveActive(s, q, value) = LeaveActive(s, q, value)
  BY DEF Market!LeaveActive, LeaveActive
<1>4. \A s, q : Market!CanLeaveRecovery(s, q) = CanLeaveRecovery(s, q)
  BY SameReads DEF Market!CanLeaveRecovery, CanLeaveRecovery
<1>5. \A s, q : Market!RecoveryValue(s, q) = RecoveryValue(s, q)
  BY SameRedeem DEF Market!RecoveryValue, RecoveryValue
<1>6. \A s, q : Market!LeaveRecovery(s, q) = LeaveRecovery(s, q)
  BY ZenonT(30), SameRedeem DEF Market!LeaveRecovery, LeaveRecovery
<1>7. \A s, q : Market!HasPool(s, q) = HasPool(s, q)
  BY DEF Market!HasPool, HasPool
<1>8. \A s, paid, q : Market!Finished(s, paid, q) = Finished(s, paid, q)
  BY SameChecks DEF Market!Finished, Finished
<1> QED
  BY <1>1, <1>2, <1>3, <1>4, <1>5, <1>6, <1>7, <1>8

LEMMA SameTouch ==
  \A old, p, old_pos : Market!Touch(old, p, old_pos) = Touch(old, p, old_pos)
<1>1. \A old, p, old_pos : Market!Touch(old, p, old_pos) = Touch(old, p, old_pos)
  BY SameSync, SamePosition, SameLeaving DEF Market!Touch, Touch, Market!Ok, Ok
<1> QED
  BY <1>1

LEMMA SameExits ==
  /\ \A t : Market!CloseTouched(t) = CloseTouched(t)
  /\ \A old, p, old_pos : Market!ClosePosition(old, p, old_pos) = ClosePosition(old, p, old_pos)
  /\ \A t : Market!ForceCloseTouched(t) = ForceCloseTouched(t)
  /\ \A old, p, old_pos :
        Market!ForceClosePosition(old, p, old_pos) = ForceClosePosition(old, p, old_pos)
  /\ \A t : Market!ClaimTouched(t) = ClaimTouched(t)
  /\ \A old, p, old_pos : Market!ClaimRecovery(old, p, old_pos) = ClaimRecovery(old, p, old_pos)
<1>1. \A t : Market!CloseTouched(t) = CloseTouched(t)
  BY SamePosition, SameLeaving
    DEF Market!CloseTouched, CloseTouched, Market!Ok, Ok, Market!Fail, Fail
<1>2. \A old, p, old_pos :
      Market!ClosePosition(old, p, old_pos) = ClosePosition(old, p, old_pos)
  BY SameTouch, <1>1 DEF Market!ClosePosition, ClosePosition, Market!Fail, Fail
<1>3. \A t : Market!ForceCloseTouched(t) = ForceCloseTouched(t)
  BY SamePosition, SameLeaving
    DEF Market!ForceCloseTouched, ForceCloseTouched, Market!Ok, Ok, Market!Fail, Fail
<1>4. \A old, p, old_pos :
      Market!ForceClosePosition(old, p, old_pos) = ForceClosePosition(old, p, old_pos)
  BY SamePosition, SameTouch, <1>3
    DEF Market!ForceClosePosition, ForceClosePosition, Market!Fail, Fail
<1>5. \A t : Market!ClaimTouched(t) = ClaimTouched(t)
  BY SameLeaving, SamePosition
    DEF Market!ClaimTouched, ClaimTouched, Market!Ok, Ok, Market!Fail, Fail
<1>6. \A old, p, old_pos :
      Market!ClaimRecovery(old, p, old_pos) = ClaimRecovery(old, p, old_pos)
  BY SameTouch, <1>5 DEF Market!ClaimRecovery, ClaimRecovery
<1> QED
  BY <1>1, <1>2, <1>3, <1>4, <1>5, <1>6

LEMMA SamePreSync ==
  /\ \A st, t : Market!Backlog(st, t) = Backlog(st, t)
  /\ \A s, d, t : Market!PreSyncBucket(s, d, t) = PreSyncBucket(s, d, t)
  /\ \A s, d : Market!HarvestDust(s, d) = HarvestDust(s, d)
<1>1. \A st, t : Market!Backlog(st, t) = Backlog(st, t)
  BY SameReads DEF Market!Backlog, Backlog
<1>2. \A s, d, t : Market!PreSyncBucket(s, d, t) = PreSyncBucket(s, d, t)
  BY SameReads, SameReplay, SameChecks, <1>1
    DEF Market!PreSyncBucket, PreSyncBucket, Market!Fail, Fail
<1>3. \A s, d : Market!HarvestDust(s, d) = HarvestDust(s, d)
  BY SameChecks DEF Market!HarvestDust, HarvestDust
<1> QED
  BY <1>1, <1>2, <1>3

(***************************************************************************)
(* The program's steps are the market's.                                   *)
(***************************************************************************)
LEMMA SameBounds == \A s : Market!WithinBounds(s) = WithinBounds(s)
BY SameReads DEF Market!WithinBounds, WithinBounds

(***************************************************************************)
(* The mirror's steps are the market's.                                    *)
(***************************************************************************)
(* A commit is what the market calls accepting a result.                   *)
LEMMA CommitAccepts ==
  ASSUME NEW r, Commit(r), Core' = r.sp
  PROVE  Market!Accept(r)
BY CommitOk, SameBounds DEF Market!Accept

(* One lemma for each entry point: it is the call of the market.           *)
LEMMA SyncFollowed ==
  ASSUME MirrorInv, NEW p \in Prices, Sync(p)
  PROVE  Market!Sync(p)
<1>1. PICK r : r = SyncPool(Core, p)
  OBVIOUS
<1>2. Core' = r.sp /\ Commit(r) /\ UNCHANGED <<pos, vault, feeVault, deposits, withdrawals>>
  BY <1>1, SyncKeeps DEF Sync, books
<1>3. Market!Accept(r) /\ Market!SyncPool(Core, p) = r
  BY <1>1, <1>2, CommitAccepts, SameSync
<1> QED
  BY <1>2, <1>3 DEF Market!Sync, Market!books

LEMMA OpenFollowed ==
  ASSUME MirrorInv, NEW p \in Prices, NEW d \in Direction, NEW g \in Grosses, Open(p, d, g)
  PROVE  Market!Open(p, d, g)
<1>1. PICK r : r = OpenPosition(Core, p, d, g)
  OBVIOUS
<1>2. Core' = r.sp /\ Opened(g, r)
  BY <1>1, OpenKeeps DEF Open
<1>3. Market!Accept(r)
  BY <1>2, CommitAccepts DEF Opened
<1>4. Market!Opened(g, r)
  BY <1>2, <1>3 DEF Opened, Market!Opened
<1>5. Market!OpenPosition(Core, p, d, g) = r
  BY <1>1, SameOpened
<1> QED
  BY <1>4, <1>5 DEF Market!Open

LEMMA SettledFollowed ==
  ASSUME NEW i, NEW r, Settled(i, r), Core' = r.sp
  PROVE  Market!Settled(i, r)
<1>1. Market!Accept(r)
  BY CommitAccepts DEF Settled
<1> QED
  BY <1>1 DEF Settled, Market!Settled

LEMMA LeavingFollowed ==
  ASSUME MirrorInv, NEW i \in PosIds, NEW p \in Prices,
         Close(i, p) \/ ForceClose(i, p) \/ Claim(i, p)
  PROVE  Market!Close(i, p) \/ Market!ForceClose(i, p) \/ Market!Claim(i, p)
<1>1. CASE Close(i, p)
  <2>1. PICK r : r = ClosePosition(Core, p, pos[i])
    OBVIOUS
  <2>2. Market!Settled(i, r)
    BY <1>1, <2>1, CloseKeeps, SettledFollowed DEF Close
  <2>3. Market!ClosePosition(Core, p, pos[i]) = r
    BY <2>1, SameExits
  <2> QED
    BY <2>2, <2>3 DEF Market!Close
<1>2. CASE ForceClose(i, p)
  <2>1. PICK r : r = ForceClosePosition(Core, p, pos[i])
    OBVIOUS
  <2>2. Market!Settled(i, r)
    BY <1>2, <2>1, ForceCloseKeeps, SettledFollowed DEF ForceClose
  <2>3. Market!ForceClosePosition(Core, p, pos[i]) = r
    BY <2>1, SameExits
  <2> QED
    BY <2>2, <2>3 DEF Market!ForceClose
<1>3. CASE Claim(i, p)
  <2>1. PICK r : r = ClaimRecovery(Core, p, pos[i])
    OBVIOUS
  <2>2. Market!Settled(i, r)
    BY <1>3, <2>1, ClaimKeeps, SettledFollowed DEF Claim
  <2>3. Market!ClaimRecovery(Core, p, pos[i]) = r
    BY <2>1, SameExits
  <2> QED
    BY <2>2, <2>3 DEF Market!Claim
<1> QED
  BY <1>1, <1>2, <1>3

LEMMA PreSyncFollowed ==
  ASSUME MirrorInv, NEW d \in Direction, NEW t, PreSync(d, t)
  PROVE  Market!PreSync(d, t) /\ t \in Ticks(Core.dormant[d])
<1>1. PICK r : r = PreSyncBucket(Core, d, t)
  OBVIOUS
<1>2. /\ Core' = r.sp /\ Commit(r) /\ t \in Ticks(Core.dormant[d])
      /\ UNCHANGED <<pos, vault, feeVault, deposits, withdrawals>>
  BY <1>1, PreSyncKeeps DEF PreSync, books
<1>3. Market!Accept(r) /\ Market!PreSyncBucket(Core, d, t) = r
  BY <1>1, <1>2, CommitAccepts, SamePreSync
<1> QED
  BY <1>2, <1>3 DEF Market!PreSync, Market!books

LEMMA HarvestFollowed ==
  ASSUME MirrorInv, NEW d \in Direction, Harvest(d)
  PROVE  Market!Harvest(d)
<1>1. PICK r, s, acc : r = HarvestDust(Core, d) /\ s = Core /\ acc = subPool
  OBVIOUS
<1>2. Core' = r.sp /\ Commit(r)
  BY <1>1, HarvestKeeps DEF Harvest
<1>3. Market!Accept(r) /\ Market!HarvestDust(Core, d) = r
  BY <1>1, <1>2, CommitAccepts, SamePreSync
<1>4. s.dust = acc.dust
  BY <1>1 DEF Core, ClearingView, NewSubPool
<1>5. /\ acc.dust[d] <= vault /\ vault' = vault - acc.dust[d]
      /\ feeVault' = feeVault + acc.dust[d]
      /\ UNCHANGED <<pos, deposits, withdrawals>>
  BY <1>1 DEF Harvest
<1> QED
  BY <1>1, <1>3, <1>4, <1>5 DEF Market!Harvest

LEMMA TradersFollowed ==
  ASSUME MirrorInv, Traders
  PROVE  Market!Next
<1>1. Market!PosIds = PosIds /\ Market!Direction = Direction
  BY SameReads DEF Market!PosIds, PosIds
<1>2. CASE \E p \in Prices : Sync(p)
  BY <1>2, SyncFollowed DEF Market!Next
<1>3. CASE \E p \in Prices, d \in Direction, g \in Grosses : Open(p, d, g)
  BY <1>1, <1>3, OpenFollowed DEF Market!Next
<1>4. CASE \E i \in PosIds, p \in Prices : Close(i, p) \/ ForceClose(i, p) \/ Claim(i, p)
  BY <1>1, <1>4, LeavingFollowed DEF Market!Next
<1>5. CASE \E d \in Direction : Harvest(d)
  BY <1>1, <1>5, HarvestFollowed DEF Market!Next
<1> QED
  BY <1>2, <1>3, <1>4, <1>5 DEF Traders

LEMMA AccountFollowed ==
  ASSUME MirrorInv, NEW d \in Direction,
         \/ \E t \in DOMAIN buckets[d] : PreSync(d, t) \/ CloseBucket(d, t)
         \/ \E t \in BucketTicks : InitBucket(d, t)
  PROVE  [Market!Next]_(Market!vars)
<1>1. CASE \E t \in DOMAIN buckets[d] : PreSync(d, t)
  <2>1. PICK t : PreSync(d, t)
    BY <1>1
  <2>2. Market!PreSync(d, t) /\ t \in Ticks(Core.dormant[d])
    BY <2>1, PreSyncFollowed
  <2>3. d \in Market!Direction /\ t \in Market!Ticks(Core.dormant[d])
    BY <2>2, SameReads
  <2> QED
    BY <2>2, <2>3 DEF Market!Next
<1>2. CASE \/ \E t \in DOMAIN buckets[d] : CloseBucket(d, t)
           \/ \E t \in BucketTicks : InitBucket(d, t)
  <2>1. Core' = Core
    BY <1>2, CloseBucketKeeps, InitBucketKeeps, BucketTicksNat
  <2>2. UNCHANGED <<pos, vault, feeVault, deposits, withdrawals>>
    BY <1>2 DEF CloseBucket, InitBucket, books
  <2> QED
    BY <2>1, <2>2 DEF Market!vars, Market!books
<1> QED
  BY <1>1, <1>2

(* All steps of the mirror are steps of the market, or stutter.            *)
LEMMA MirrorFollows ==
  ASSUME MirrorInv, [Next]_mirrorVars
  PROVE  [Market!Next]_(Market!vars)
<1>1. CASE Traders
  BY <1>1, TradersFollowed
<1>2. CASE \E d \in Direction :
             \/ \E t \in DOMAIN buckets[d] : PreSync(d, t) \/ CloseBucket(d, t)
             \/ \E t \in BucketTicks : InitBucket(d, t)
  BY <1>2, AccountFollowed
<1>3. CASE UNCHANGED mirrorVars
  <2>1. UNCHANGED <<pos, vault, feeVault, deposits, withdrawals>>
    BY <1>3 DEF mirrorVars, books
  <2>2. Core' = Core
    BY <1>3, StillKeeps
  <2> QED
    BY <2>1, <2>2 DEF Market!vars, Market!books
<1> QED
  BY <1>1, <1>2, <1>3 DEF Next, Traders

LEMMA MarketInitially == Init => Market!Init
<1> SUFFICES ASSUME Init PROVE Market!Init
  OBVIOUS
<1>1. Core = Market!NewSubPool
  BY CoreInit, SameChecks
<1> QED
  BY <1>1 DEF Init, Market!Init

(* The runtime on accounts (chain-mirror/src/lib.rs), strict or not, does  *)
(* what the in-memory harness does: every entry point that succeeds is a   *)
(* call of the market on the sub-pool built from the accounts, and making  *)
(* or closing a bucket account is none (tests/harness_parity.rs).          *)
THEOREM MirrorImplementsMarket == PreparedSpec => ImplementsMarket
BY MirrorIsInvariant, MarketInitially, MirrorFollows, PTL
   DEF PreparedSpec, ImplementsMarket, Market!Spec

(***************************************************************************)
(* The keeper's steps.                                                     *)
(***************************************************************************)
Doable(a) == a.dir \in Direction /\ a.tick \in Nat /\ a.kind \in {"Init", "PreSync", "Close"}

Placeable(h) == h.dir \in Direction /\ h.tick \in Nat

KeeperInv ==
  /\ MirrorInv
  /\ \A h \in hints : Placeable(h)
  /\ \A a \in queue : Doable(a)

(* Every task comes from a hint or from an account that was read.          *)
LEMMA AccountPlaceable ==
  ASSUME NEW s, \A d \in Direction : AtHome(s.buckets[d]), NEW a \in Accounts(s)
  PROVE  Placeable(HintOf(s, a))
<1>1. PICK d \in Direction : \E k \in DOMAIN s.buckets[d] : a = <<d, k>>
  BY DEF Accounts
<1>2. PICK k \in DOMAIN s.buckets[d] : a = <<d, k>>
  BY <1>1
<1>3. PICK A : A = s.buckets[d] /\ AtHome(A)
  OBVIOUS
<1>4. A[k].tick \in Nat
  BY <1>2, <1>3 DEF AtHome, Account
<1>5. HintOf(s, a) = Hint(d, A[k].tick)
  BY <1>2, <1>3 DEF HintOf, Content
<1> QED
  BY <1>4, <1>5 DEF Hint, Placeable

LEMMA TaskDoable ==
  ASSUME NEW h, Placeable(h), NEW k \in {"Init", "PreSync", "Close"}, NEW n
  PROVE  Doable(Task(k, h, n))
BY DEF Task, Doable, Placeable

LEMMA WantedDoable ==
  ASSUME NEW s, \A d \in Direction : AtHome(s.buckets[d]),
         NEW known, \A h \in known : Placeable(h), NEW a \in Wanted(s, known)
  PROVE  Doable(a)
<1>1. CASE a \in {Task("Init", h, 0) : h \in ToEmit(s, known)}
  <2>1. PICK h \in known : a = Task("Init", h, 0)
    BY <1>1 DEF ToEmit
  <2> QED
    BY <2>1, TaskDoable
<1>2. CASE a \in Upkeep(s)
  <2>1. PICK b \in Accounts(s) : \/ a = Task("PreSync", HintOf(s, b), PendingOf(s, b))
                                 \/ a = Task("Close", HintOf(s, b), 0)
    BY <1>2 DEF Upkeep
  <2>2. Placeable(HintOf(s, b))
    BY AccountPlaceable
  <2> QED
    BY <2>1, <2>2, TaskDoable
<1> QED
  BY <1>1, <1>2 DEF Wanted

LEMMA PlansWanted ==
  ASSUME NEW s, NEW known, NEW q \in Plans(s, known)
  PROVE  q \subseteq Wanted(s, known)
<1>1. PICK T : T = Wanted(s, known)
  OBVIOUS
<1>2. q \in Truncated(T)
  BY <1>1 DEF Plans
<1> QED
  BY <1>1, <1>2 DEF Truncated, kSubset

(* Planning changes no account.                                            *)
LEMMA TickKeeps ==
  ASSUME KeeperInv, Tick
  PROVE  KeeperInv' /\ Core' = Core
<1>1. PICK view : view = MirrorView
  OBVIOUS
<1>2. /\ queue' \in Plans(view, hints) /\ hints' = HintsLeft(view, hints)
      /\ UNCHANGED mirrorVars
  BY <1>1 DEF Tick
<1>3. \A d \in Direction : AtHome(view.buckets[d])
  BY <1>1, InvSound DEF MirrorView, KeeperInv, Tidy
<1>4. hints' \subseteq hints /\ queue' \subseteq Wanted(view, hints)
  BY <1>2, PlansWanted DEF HintsLeft
<1>5. (\A h \in hints' : Placeable(h)) /\ \A a \in queue' : Doable(a)
  BY <1>3, <1>4, WantedDoable DEF KeeperInv
<1>6. MirrorInv' /\ Core' = Core
  BY <1>2, StillKeeps DEF KeeperInv
<1> QED
  BY <1>5, <1>6 DEF KeeperInv

(* What carrying out a task does to the sub-pool.                          *)
Harmless(a) ==
  \/ Core' = Core
  \/ /\ a.kind = "PreSync" /\ PreSyncBucket(Core, a.dir, a.tick).err = "Ok"
     /\ Core' = PreSyncBucket(Core, a.dir, a.tick).sp

LEMMA CarriedKeeps ==
  ASSUME MirrorInv, NEW a, Doable(a), Carried(a)
  PROVE  MirrorInv' /\ Harmless(a)
<1>1. a.dir \in Direction /\ a.tick \in Nat
  BY DEF Doable
<1>2. CASE a.kind = "Init"
  BY <1>1, <1>2, InitBucketKeeps DEF Carried, Harmless
<1>3. CASE a.kind = "PreSync"
  <2>1. PreSync(a.dir, a.tick)
    BY <1>3 DEF Carried
  <2>2. PreSyncBucket(Core, a.dir, a.tick).err = "Ok"
    BY <2>1, CommitOk DEF PreSync
  <2> QED
    BY <1>1, <1>3, <2>1, <2>2, PreSyncKeeps DEF Harmless
<1>4. CASE a.kind = "Close"
  BY <1>1, <1>4, CloseBucketKeeps DEF Carried, Harmless
<1> QED
  BY <1>2, <1>3, <1>4 DEF Doable

(* A task that is dispatched, declined or lost.                            *)
LEMMA CarryKeeps ==
  ASSUME KeeperInv, NEW a \in queue, Carry(a)
  PROVE  KeeperInv' /\ Harmless(a)
<1>1. Doable(a) /\ MirrorInv
  BY DEF KeeperInv
<1>2. MirrorInv' /\ Harmless(a)
  <2>1. CASE Dispatch(a)
    BY <1>1, <2>1, CarriedKeeps DEF Dispatch
  <2>2. CASE Declined(a) \/ CallLost(a)
    BY <1>1, <2>2, StillKeeps DEF Declined, CallLost, Harmless
  <2> QED
    BY <2>1, <2>2 DEF Carry
<1>3. queue' \subseteq queue /\ hints' = hints
  BY DEF Carry, Dispatch, Declined, CallLost, Taken
<1> QED
  BY <1>2, <1>3 DEF KeeperInv

LEMMA HintKeeps ==
  ASSUME KeeperInv, NEW h \in Hints, RecordHint(h) \/ CancelHint(h)
  PROVE  KeeperInv'
<1>1. Placeable(h)
  BY BucketTicksNat DEF Hints, Hint, Placeable
<1>2. UNCHANGED mirrorVars /\ queue' = queue /\ hints' \subseteq hints \cup {h}
  BY DEF RecordHint, CancelHint
<1>3. MirrorInv'
  BY <1>2, StillKeeps DEF KeeperInv
<1> QED
  BY <1>1, <1>2, <1>3 DEF KeeperInv

(* All steps of the loop and of the traders.                               *)
LEMMA KeeperStep ==
  ASSUME KeeperInv, [KeeperNext]_vars
  PROVE  KeeperInv'
<1>1. CASE Traders /\ UNCHANGED keeper
  <2>1. MirrorInv'
    BY <1>1, TradersKeep DEF KeeperInv
  <2> QED
    BY <1>1, <2>1 DEF KeeperInv, keeper
<1>2. CASE \E h \in Hints : RecordHint(h) \/ CancelHint(h)
  BY <1>2, HintKeeps
<1>3. CASE Tick
  BY <1>3, TickKeeps
<1>4. CASE \E a \in queue : Carry(a)
  BY <1>4, CarryKeeps
<1>5. CASE UNCHANGED vars
  <2>1. MirrorInv'
    BY <1>5, StillKeeps DEF KeeperInv, vars
  <2> QED
    BY <1>5, <2>1 DEF KeeperInv, keeper, vars
<1> QED
  BY <1>1, <1>2, <1>3, <1>4, <1>5 DEF KeeperNext

LEMMA KeeperIsInvariant == KeeperSafe => []KeeperInv
<1>1. KeeperInit => KeeperInv
  BY MirrorInit DEF KeeperInit, KeeperInv
<1> QED
  BY <1>1, KeeperStep, PTL DEF KeeperSafe

(* What a bucket is entitled to is what its replay promises.               *)
LEMMA EntitledIs ==
  ASSUME NEW s, NEW d, NEW t
  PROVE  Market!Entitled(s, d, t)
           = s.dormant[d].bucket[t].accrued
               + (Promised(s.dormant[d], t) - s.dormant[d].bucket[t].accrued)
BY SameReplay DEF Market!Entitled, PendingForBucket, Promised

LEMMA EntitledPromised ==
  ASSUME NEW s, NEW d \in Direction, StoreSound(s.dormant[d]), NEW t \in Ticks(s.dormant[d])
  PROVE  Market!Entitled(s, d, t) = Promised(s.dormant[d], t)
<1>1. PICK st : st = s.dormant[d]
  OBVIOUS
<1>2. Promised(st, t) \in Nat /\ st.bucket[t].accrued \in Nat
  BY <1>1, PromisedNat DEF StoreSound, StoreTyped, Bucket
<1>3. PICK a, b : a = st.bucket[t].accrued /\ b = Promised(st, t)
  OBVIOUS
<1>4. a + (b - a) = b
  BY <1>2, <1>3
<1> QED
  BY <1>1, <1>3, <1>4, EntitledIs

(* V has every bucket of W with all that it is entitled to.                *)
Spared(W, V) ==
  \A d \in Direction : \A t \in Ticks(W.dormant[d]) :
    /\ t \in Ticks(V.dormant[d])
    /\ Market!Entitled(V, d, t) = Market!Entitled(W, d, t)

LEMMA PreSyncSpares ==
  ASSUME NEW W, PoolSound(W), NEW e \in Direction, NEW x, PreSyncBucket(W, e, x).err = "Ok",
         NEW V, V = PreSyncBucket(W, e, x).sp, PoolSound(V)
  PROVE  Spared(W, V)
<1>1. ASSUME NEW d \in Direction, NEW t \in Ticks(W.dormant[d])
      PROVE  t \in Ticks(V.dormant[d]) /\ Market!Entitled(V, d, t) = Market!Entitled(W, d, t)
  <2>1. t \in Ticks(V.dormant[d]) /\ Promised(V.dormant[d], t) = Promised(W.dormant[d], t)
    BY PreSyncPromises
  <2>2. StoreSound(W.dormant[d]) /\ StoreSound(V.dormant[d])
    BY DEF PoolSound
  <2> QED
    BY <2>1, <2>2, EntitledPromised
<1> QED
  BY <1>1 DEF Spared

(* The steps that take a task from the queue spare every bucket.           *)
LEMMA KeeperSpares ==
  ASSUME KeeperInv, [KeeperNext]_vars, queue' # queue
  PROVE  Spared(Core, Core')
<1>1. CASE Tick
  BY <1>1, TickKeeps DEF Spared
<1>2. CASE \E a \in queue : Carry(a)
  <2>1. PICK a \in queue : Carry(a)
    BY <1>2
  <2>2. Harmless(a) /\ KeeperInv' /\ a.dir \in Direction
    BY <2>1, CarryKeeps DEF KeeperInv, Doable
  <2>3. PICK W, V : W = Core /\ V = Core'
    OBVIOUS
  <2>4. PoolSound(W)
    BY <2>3, InvSound DEF KeeperInv
  <2>5. PoolSound(V)
    BY <2>2, <2>3 DEF KeeperInv, MirrorInv, Owned, Listed
  <2>6. CASE V = W
    BY <2>3, <2>6 DEF Spared
  <2>7. CASE V # W
    <3>1. PreSyncBucket(W, a.dir, a.tick).err = "Ok" /\ V = PreSyncBucket(W, a.dir, a.tick).sp
      BY <2>2, <2>3, <2>7 DEF Harmless
    <3> QED
      BY <2>2, <2>3, <2>4, <2>5, <3>1, PreSyncSpares
  <2> QED
    BY <2>6, <2>7
<1> QED
  BY <1>1, <1>2 DEF KeeperNext, RecordHint, CancelHint, vars, keeper

LEMMA KeeperHarmless ==
  ASSUME KeeperInv, [KeeperNext]_vars
  PROVE  [UNCHANGED pos /\ queue' # queue =>
            \A d \in Direction : \A t \in Ticks(Core.dormant[d]) :
              /\ t \in Ticks(Core'.dormant[d])
              /\ Market!Entitled(Core', d, t) = Market!Entitled(Core, d, t)]_vars
<1>1. queue' # queue => Spared(Core, Core')
  BY KeeperSpares
<1> QED
  BY <1>1 DEF Spared

(* Whatever traders did between the plan and the task, a step of the keeper *)
(* takes no bucket away and takes nothing from one that it holds or is owed: *)
(* close_dormant_bucket refuses an account in use, a new account is empty, *)
(* and a pre-sync credits exactly what was promised (keeper/src/lib.rs).   *)
THEOREM StalePlansAreHarmless == KeeperSafe => StalePlanHarmless
BY KeeperIsInvariant, KeeperHarmless, PTL DEF KeeperSafe, StalePlanHarmless
=============================================================================
