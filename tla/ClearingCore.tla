---------------------------- MODULE ClearingCore ----------------------------
(***************************************************************************)
(* crates/clearing-core/src/engine.rs: what each entry point of the engine *)
(* does to one sub-pool and one position.  An entry point is an operator   *)
(* that returns an outcome record: `err` is "Ok" or the error the code     *)
(* returns, the other fields are the state it leaves.  After an error the  *)
(* caller reverts, so only `err` means anything then.                      *)
(*                                                                         *)
(* A sub-pool is a record of functions of the direction.  Left out, since  *)
(* no operation branches on them: slots, principals, entry and zero        *)
(* prices, the events for the indexer.  Left to the caller: the paused and *)
(* frozen flags, the schema version and the caller's price band, each of   *)
(* which only turns a call into an error.                                  *)
(***************************************************************************)
EXTENDS DormantStore

CONSTANTS
  Mode,            \* dormant_distribute_mode: "Eager" or "Lazy"
  LeverageBps,     \* leverage_bps
  OpenFeeBps,      \* open_fee_bps
  MinMargin,       \* min_margin
  MaxMargin,       \* max_margin_per_position
  DilutionBps,     \* dilution_safety_bps
  MaxMoveBps,      \* max_price_move_bps_per_sync
  TickSize,        \* price_tick * tick_aggregation_factor
  MaxPendingApply  \* max_pending_apply_per_tx

ASSUME CoreParameters ==
  /\ Mode \in {"Eager", "Lazy"}
  /\ {LeverageBps, OpenFeeBps, MinMargin, MaxMargin, DilutionBps,
      MaxMoveBps, MaxPendingApply} \subseteq Nat
  /\ TickSize \in Nat \ {0}

Opposite(d) == IF d = "Long" THEN "Short" ELSE "Long"

NoTick == -1

Both(x) == [d \in Direction |-> x]

(* SubPool::new with no seeded price.                                      *)
NewSubPool ==
  [pool |-> Both(0), shares |-> Both(0), notional |-> Both(0),
   recovery |-> Both(0), dust |-> Both(0), gen |-> Both(0),
   rotateLog |-> Both(<<>>), dormant |-> [d \in Direction |-> NewStore(d)],
   lastPrice |-> 0]

Ok(sp) == [err |-> "Ok", sp |-> sp]

Fail(e, sp) == [err |-> e, sp |-> sp]

(* check_subpool_invariants: inv2, inv5 and inv6.                          *)
SubPoolSound(sp) ==
  \A d \in Direction :
    /\ (sp.pool[d] = 0) = (sp.shares[d] = 0)
    /\ TotalRecoveryShares(sp.dormant[d]) = sp.recovery[d]
    /\ CheckStore(sp.dormant[d])

Checked(sp) == IF SubPoolSound(sp) THEN Ok(sp) ELSE Fail("Invariant", sp)

-----------------------------------------------------------------------------
(* sync_pool.  The side the move favours is paid out of the other side's   *)
(* pool: what its active positions gained plus what its dormant buckets    *)
(* are owed on top of what they were owed before the move.                 *)
ActiveDemand(sp, d, p) ==
  Larger(0, SignedPnlIncrement(Sign(d), sp.notional[d], sp.lastPrice, p))

DormantDemand(sp, d, p) ==
  Monus(TotalOutstanding(sp.dormant[d], p),
        TotalOutstanding(sp.dormant[d], sp.lastPrice))

Demand(sp, d, p) == ActiveDemand(sp, d, p) + DormantDemand(sp, d, p)

Distribute(st, p, alloc) ==
  IF Mode = "Eager" THEN DistributeEager(st, p, alloc)
  ELSE DistributeLazy(st, p, alloc)

(* Mutant: the loser pays the whole demand.                                *)
Transfer_Uncapped(sp, w, p) == Demand(sp, w, p)

Transfer(sp, w, p) == Smaller(Demand(sp, w, p), sp.pool[Opposite(w)])

Settle(sp, w, p) ==
  LET recover(paid, toRecovery) ==
        IF toRecovery = 0 THEN Ok(paid)
        ELSE IF LedgerFull(sp.dormant[w]) THEN Fail("LedgerCapacityExceeded", sp)
        ELSE Ok([paid EXCEPT
                   !.dormant[w] = Distribute(@, p, toRecovery),
                   !.dust[w] = @ + Residual(sp.dormant[w], p, toRecovery)])
      pay(transfer, toActive) ==
        recover([sp EXCEPT !.pool[w] = @ + toActive,
                           !.pool[Opposite(w)] = @ - transfer],
                transfer - toActive)
      clear(transfer, demand) ==
        IF transfer = 0 THEN Ok(sp)
        ELSE pay(transfer, MulDivFloor(transfer, ActiveDemand(sp, w, p), demand))
  IN  clear(Transfer(sp, w, p), Demand(sp, w, p))

BucketTickOf(p) == p \div TickSize

(* What push_rotate_record remembers of the generation that ends.          *)
(* Mutant: recorded under the generation that begins.                      *)
RotateRecord_AfterBump(sp, d, t) == [gen |-> sp.gen[d] + 1, tick |-> t]

RotateRecord(sp, d, t) == [gen |-> sp.gen[d], tick |-> t]

(* rotate_active_to_recovery, with the condition sync_pool calls it under. *)
Rotate(sp, d, p) ==
  LET t == BucketTickOf(p)
  IN  IF sp.pool[d] # 0 \/ sp.shares[d] = 0 THEN Ok(sp)
      ELSE IF ~CanInsert(sp.dormant[d], t) THEN Fail("DormantBucketCapExceeded", sp)
      ELSE Ok([sp EXCEPT
                 !.dormant[d] = InsertOrMerge(@, t, p, sp.shares[d], sp.notional[d]),
                 !.recovery[d] = @ + sp.shares[d],
                 !.shares[d] = 0,
                 !.notional[d] = 0,
                 !.rotateLog[d] = Append(@, RotateRecord(sp, d, t)),
                 !.gen[d] = @ + 1])

(* Mutant: only the long side is ever rotated.                             *)
RotateBoth_LongOnly(sp, p) == Rotate(sp, "Long", p)

RotateBoth(sp, p) ==
  LET short(long) == IF long.err = "Ok" THEN Rotate(long.sp, "Short", p) ELSE long
  IN  short(Rotate(sp, "Long", p))

Winner(sp, p) == IF Demand(sp, "Long", p) > 0 THEN "Long" ELSE "Short"

SyncPool(sp, p) ==
  LET rotate(r) == IF r.err = "Ok" THEN RotateBoth([r.sp EXCEPT !.lastPrice = p], p)
                   ELSE r
      check(r)  == IF r.err = "Ok" THEN Checked(r.sp) ELSE r
  IN  IF sp.lastPrice \in {0, p} THEN Checked([sp EXCEPT !.lastPrice = p])
      ELSE IF PriceMoveBps(sp.lastPrice, p) > MaxMoveBps
           THEN Fail("PriceMoveTooLarge", sp)
      ELSE check(rotate(Settle(sp, Winner(sp, p), p)))

-----------------------------------------------------------------------------
(* A position: `shares` in the active pool of generation `gen`, or, once   *)
(* migrated, `recovery` shares in the bucket `tick`.                       *)
NewPosition(d, shares, notional, gen) ==
  [status |-> "Open", dir |-> d, shares |-> shares, notional |-> notional,
   recovery |-> 0, tick |-> NoTick, gen |-> gen]

Closed(pos) == [pos EXCEPT !.status = "Closed", !.notional = 0]

(* lazy_migrate_position: a position of a generation that was rotated out  *)
(* follows its series into the bucket recorded for that generation.        *)
RotateRecords(sp, pos) ==
  {i \in DOMAIN sp.rotateLog[pos.dir] : sp.rotateLog[pos.dir][i].gen = pos.gen}

NeedsMigration(sp, pos) == pos.shares > 0 /\ pos.gen # sp.gen[pos.dir]

CanMigrate(sp, pos) == NeedsMigration(sp, pos) => RotateRecords(sp, pos) # {}

(* Mutant: a stale position joins the bucket of the latest rotation.       *)
Migrated_Latest(sp, pos) ==
  LET record == Last(sp.rotateLog[pos.dir])
  IN  IF NeedsMigration(sp, pos)
      THEN [pos EXCEPT !.recovery = @ + pos.shares, !.tick = record.tick,
                       !.shares = 0, !.notional = 0, !.status = "Dormant",
                       !.gen = sp.gen[pos.dir]]
      ELSE [pos EXCEPT !.gen = sp.gen[pos.dir]]

Migrated(sp, pos) ==
  LET record == sp.rotateLog[pos.dir][Min(RotateRecords(sp, pos))]
  IN  IF NeedsMigration(sp, pos)
      THEN [pos EXCEPT !.recovery = @ + pos.shares, !.tick = record.tick,
                       !.shares = 0, !.notional = 0, !.status = "Dormant",
                       !.gen = sp.gen[pos.dir]]
      ELSE [pos EXCEPT !.gen = sp.gen[pos.dir]]

(* open_position, after the price checks: the fee is rounded up, a first   *)
(* depositor gets one share per unit, a later one the floored proportion,  *)
(* and the principal that the floors cannot place becomes dust.            *)
OpenFee(gross) == MulDivCeil(gross, OpenFeeBps, BpsScale)

Diluted(sp, d) == sp.pool[d] * BpsScale < sp.shares[d] * DilutionBps

SharesMinted(sp, d, principal) ==
  IF sp.pool[d] = 0 THEN principal
  ELSE MulDivFloor(principal, sp.shares[d], sp.pool[d])

PrincipalIntoPool(sp, d, principal) ==
  IF sp.pool[d] = 0 THEN principal
  ELSE MulDivFloor(SharesMinted(sp, d, principal), sp.pool[d], sp.shares[d])

OpenSynced(sp, d, gross) ==
  LET opened(principal, minted, intoPool, notional) ==
        [sp EXCEPT !.pool[d] = @ + intoPool, !.shares[d] = @ + minted,
                   !.notional[d] = @ + notional,
                   !.dust[d] = @ + (principal - intoPool)]
      result(final, principal, minted, notional) ==
        [err |-> Checked(final).err, sp |-> final, fee |-> OpenFee(gross),
         principal |-> principal,
         pos |-> NewPosition(d, minted, notional, sp.gen[d])]
      mint(principal, minted, notional) ==
        IF sp.pool[d] > 0 /\ minted = 0 THEN Fail("SharesMintedTooSmall", sp)
        ELSE result(opened(principal, minted, PrincipalIntoPool(sp, d, principal),
                           notional),
                    principal, minted, notional)
      open(principal) ==
        IF gross = 0 \/ principal < MinMargin THEN Fail("MarginBelowMinimum", sp)
        ELSE IF principal > MaxMargin THEN Fail("MarginAboveMaximum", sp)
        ELSE IF sp.pool[d] > 0 /\ Diluted(sp, d) THEN Fail("DilutionRiskTooHigh", sp)
        ELSE mint(principal, SharesMinted(sp, d, principal),
                  MulDivFloor(principal, LeverageBps, BpsScale))
  IN  open(gross - OpenFee(gross))

OpenPosition(old, p, d, gross) ==
  LET open(synced) == IF synced.err = "Ok" THEN OpenSynced(synced.sp, d, gross)
                      ELSE synced
  IN  open(SyncPool(old, p))

(* Mutant: the share is rounded up.                                        *)
ActiveValue_RoundedUp(sp, pos) ==
  IF pos.shares = 0 \/ sp.shares[pos.dir] = 0 THEN 0
  ELSE MulDivCeil(sp.pool[pos.dir], pos.shares, sp.shares[pos.dir])

(* The floored share of the active pool a position is entitled to.         *)
ActiveValue(sp, pos) ==
  IF pos.shares = 0 \/ sp.shares[pos.dir] = 0 THEN 0
  ELSE MulDivFloor(sp.pool[pos.dir], pos.shares, sp.shares[pos.dir])

(* Take a position's active shares out of the pool, with `value` of it.    *)
CanLeaveActive(sp, pos) ==
  /\ pos.shares <= sp.shares[pos.dir]
  /\ pos.notional <= sp.notional[pos.dir]

LeaveActive(sp, pos, value) ==
  [sp EXCEPT !.pool[pos.dir] = @ - value, !.shares[pos.dir] = @ - pos.shares,
             !.notional[pos.dir] = @ - pos.notional]

(* Burn a position's recovery shares.                                      *)
CanLeaveRecovery(sp, pos) ==
  pos.recovery > 0 => CanRedeem(sp.dormant[pos.dir], pos.tick, pos.recovery)

RecoveryValue(sp, pos) ==
  IF pos.recovery = 0 THEN 0
  ELSE Redeemable(sp.dormant[pos.dir], pos.tick, pos.recovery)

LeaveRecovery(sp, pos) ==
  IF pos.recovery = 0 THEN sp
  ELSE [sp EXCEPT !.dormant[pos.dir] = Redeem(@, pos.tick, pos.recovery),
                  !.recovery[pos.dir] = @ - pos.recovery]

WithoutRecovery(pos) == [pos EXCEPT !.recovery = 0, !.tick = NoTick]

WithoutShares(pos) == [WithoutRecovery(pos) EXCEPT !.shares = 0]

-----------------------------------------------------------------------------
(* What close, force-close and claim have in common: sync at the price,    *)
(* bring the position to its current series, and check that its recovery   *)
(* shares can be redeemed.                                                 *)
Touch(old, p, old_pos) ==
  LET outcome(err, sp, pos) == [err |-> err, sp |-> sp, pos |-> pos]
      redeem(sp, pos) ==
        outcome(IF CanLeaveRecovery(sp, pos) THEN "Ok" ELSE "RedeemInvariant", sp, pos)
      migrate(r) ==
        IF r.err # "Ok" THEN outcome(r.err, r.sp, old_pos)
        ELSE IF CanMigrate(r.sp, old_pos) THEN redeem(r.sp, Migrated(r.sp, old_pos))
        ELSE outcome("MissingRotateRecord", r.sp, old_pos)
  IN  migrate(SyncPool(old, p))

(* All three end with the sub-pool's own check.                            *)
Finished(sp, paid, pos) ==
  [err |-> Checked(sp).err, sp |-> sp, paid |-> paid, pos |-> pos]

(* close_position pays active value plus recovery; paying nothing is an    *)
(* error, so the position survives.  Shares of an empty pool are left      *)
(* where they are.                                                         *)
HasPool(sp, pos) == pos.shares > 0 /\ sp.shares[pos.dir] > 0 /\ sp.pool[pos.dir] > 0

CloseTouched(t) ==
  LET leaves == HasPool(t.sp, t.pos)
      leave(value) ==
        LeaveRecovery(IF leaves THEN LeaveActive(t.sp, t.pos, value) ELSE t.sp, t.pos)
      final  == Closed(IF leaves THEN WithoutShares(t.pos) ELSE WithoutRecovery(t.pos))
      pay(value, paid) ==
        IF paid = 0 THEN Fail("WithdrawableZero", t.sp)
        ELSE Finished(leave(value), paid, final)
      close(value) == pay(value, value + RecoveryValue(t.sp, t.pos))
  IN  IF t.err # "Ok" THEN t
      ELSE IF leaves /\ ~CanLeaveActive(t.sp, t.pos) THEN Fail("MathOverflow", t.sp)
      ELSE close(ActiveValue(t.sp, t.pos))

ClosePosition(old, p, old_pos) ==
  IF old_pos.status \notin {"Open", "Dormant"} THEN Fail("PositionNotOpen", old)
  ELSE CloseTouched(Touch(old, p, old_pos))

(* force_close_zero_value_position (the forfeit is acknowledged): only for *)
(* a position whose active value is zero; what its recovery shares had     *)
(* earned is given up to dust.                                             *)
ForceCloseTouched(t) ==
  LET leaves  == t.pos.shares > 0
      left    == LeaveRecovery(IF leaves THEN LeaveActive(t.sp, t.pos, 0) ELSE t.sp,
                               t.pos)
      forfeit == [left EXCEPT !.dust[t.pos.dir] = @ + RecoveryValue(t.sp, t.pos)]
  IN  IF t.err # "Ok" THEN t
      ELSE IF ActiveValue(t.sp, t.pos) > 0 THEN Fail("ActiveValuePositive", t.sp)
      ELSE IF leaves /\ ~CanLeaveActive(t.sp, t.pos) THEN Fail("MathOverflow", t.sp)
      ELSE Finished(forfeit, 0, Closed(WithoutShares(t.pos)))

ForceClosePosition(old, p, old_pos) ==
  IF old_pos.status = "Closed" THEN Fail("PositionNotOpen", old)
  ELSE ForceCloseTouched(Touch(old, p, old_pos))

(* claim_dormant_recovery: only the recovery shares; the position stays    *)
(* Dormant.                                                                *)
ClaimTouched(t) ==
  IF t.err # "Ok" THEN t
  ELSE IF t.pos.recovery = 0 THEN Fail("PositionNotOpen", t.sp)
  ELSE Finished(LeaveRecovery(t.sp, t.pos), RecoveryValue(t.sp, t.pos),
                WithoutRecovery(t.pos))

ClaimRecovery(old, p, old_pos) == ClaimTouched(Touch(old, p, old_pos))

(* pre_sync_dormant_bucket: a backlog above the per-transaction budget is  *)
(* refused whole.                                                          *)
Backlog(st, t) == NextEventIndex(st) - st.bucket[t].lastApplied

PreSyncBucket(sp, d, t) ==
  LET applied == [sp EXCEPT !.dormant[d] = ApplyPending(@, {t})]
  IN  IF t \notin Ticks(sp.dormant[d]) THEN Fail("DormantBucketMissing", sp)
      ELSE IF Backlog(sp.dormant[d], t) > MaxPendingApply
           THEN Fail("DormantPendingBudgetExceeded", sp)
      ELSE Checked(applied)

(* Mutant: the dust is paid out and stays on the books.                    *)
HarvestDust_Kept(sp, d) == Checked(sp)

(* harvest_dust.                                                           *)
HarvestDust(sp, d) == Checked([sp EXCEPT !.dust[d] = 0])

-----------------------------------------------------------------------------
(* Every unit the sub-pool still answers for: active equity, credited and  *)
(* in-flight recovery value, and dust.                                     *)
SideFunds(sp, d) ==
  sp.pool[d] + sp.dust[d] + sp.dormant[d].accruedTotal + sp.dormant[d].pending

Funds(sp) == SideFunds(sp, "Long") + SideFunds(sp, "Short")
=============================================================================
