------------------------------ MODULE Indexer ------------------------------
(***************************************************************************)
(* crates/indexer/src/lib.rs: the off-chain index, rebuilt from the events *)
(* the engine emits.  It keeps what the chain does not: of every position  *)
(* the loss it has locked in and the profit it has realised, hence its     *)
(* equity.  An index is a record; applying an event is an operator from    *)
(* indexes to indexes, and `err` remembers the first error, after which    *)
(* apply_all applies nothing more.                                         *)
(*                                                                         *)
(* Two things differ from the chain on purpose: a rotation migrates every  *)
(* position at once, and a recovery distribution credits at once, also in  *)
(* lazy mode.  Left out: the rotate logs, which the index writes and never *)
(* reads.                                                                  *)
(***************************************************************************)
EXTENDS ClearingCore

(* The events of event.rs, with the fields the index reads.                *)
PoolSynced(d, p, toPool, toRecovery, residual, shares) ==
  [kind |-> "PoolSync", dir |-> d, price |-> p, toPool |-> toPool,
   toRecovery |-> toRecovery, residual |-> residual, sharesBefore |-> shares]

Rotated(d, t, p, shares, notional, gen) ==
  [kind |-> "Rotated", dir |-> d, tick |-> t, anchor |-> p, shares |-> shares,
   notional |-> notional, gen |-> gen]

PositionOpened(d, principal, q) ==
  [kind |-> "Opened", dir |-> d, principal |-> principal,
   notional |-> q.notional, shares |-> q.shares, gen |-> q.gen]

(* What the three ways to leave report.                                    *)
PositionLeft(kind, id, q, activeBurned, notionalBurned, value) ==
  [kind |-> kind, id |-> id, dir |-> q.dir, tick |-> q.tick,
   activeBurned |-> activeBurned, recoveryBurned |-> q.recovery,
   notionalBurned |-> notionalBurned, value |-> value]

-----------------------------------------------------------------------------
(* The events a call emits, in order: the transfer of its sync, the        *)
(* rotations that follow from it, and its own.                             *)
TransferEvent(s, w, p) ==
  LET event(toPool, toRecovery, residual) ==
        PoolSynced(w, p, toPool, toRecovery - residual, residual, s.shares)
      split(transfer, toPool) ==
        event(toPool, transfer - toPool,
              IF transfer = toPool THEN 0
              ELSE Residual(s.dormant[w], p, transfer - toPool))
  IN  IF Transfer(s, w, p) = 0 THEN event(0, 0, 0)
      ELSE split(Transfer(s, w, p),
                 MulDivFloor(Transfer(s, w, p), ActiveDemand(s, w, p),
                             Demand(s, w, p)))

RotatedEvent(s, after, d, p) ==
  IF after.gen[d] = s.gen[d] THEN <<>>
  ELSE <<Rotated(d, BucketTickOf(p), p, s.shares[d], s.notional[d], s.gen[d])>>

(* Mutant: the rotations are reported before the transfer.                 *)
SyncEvents_RotateFirst(s, after, p) ==
  IF s.lastPrice \in {0, p} THEN <<>>
  ELSE RotatedEvent(s, after, "Long", p) \o RotatedEvent(s, after, "Short", p)
         \o <<TransferEvent(s, Winner(s, p), p)>>

SyncEvents(s, after, p) ==
  IF s.lastPrice \in {0, p} THEN <<>>
  ELSE <<TransferEvent(s, Winner(s, p), p)>>
         \o RotatedEvent(s, after, "Long", p) \o RotatedEvent(s, after, "Short", p)

LeaveEvent(kind, id, t) ==
  LET b == t.sp.dormant[t.pos.dir].bucket[t.pos.tick]
  IN  PositionLeft(kind, id, t.pos,
                   IF kind = "Claimed" \/ (kind = "Closed" /\ ~HasPool(t.sp, t.pos))
                   THEN 0 ELSE t.pos.shares,
                   IF t.pos.recovery = 0 THEN 0
                   ELSE MulDivFloor(b.notional, t.pos.recovery, b.shares),
                   RecoveryValue(t.sp, t.pos))

-----------------------------------------------------------------------------
NewIndex ==
  [view |-> <<>>, bucket |-> [d \in Direction |-> [t \in {} |-> 0]],
   gen |-> Both(0), err |-> "Ok"]

Wrong(x, e) == [x EXCEPT !.err = e]

Views(x) == DOMAIN x.view

RemainingMargin(v) == Monus(v.principal, v.locked)

Equity(v) == RemainingMargin(v) + v.profit

(* The positions a transfer of side d is attributed to.                    *)
Holders(x, d) ==
  {i \in Views(x) : LET v == x.view[i]
                    IN  ~v.closed /\ v.dir = d /\ v.shares > 0 /\ v.gen = x.gen[d]}

DormantIn(x, d, t) ==
  {i \in Views(x) : LET v == x.view[i]
                    IN  ~v.closed /\ v.dir = d /\ v.recovery > 0 /\ v.tick = t}

(* The loops over the positions: the views of those attributed to change.  *)
Attribute(x, attributed) ==
  [x EXCEPT !.view = [i \in Views(x) |-> IF i \in DOMAIN attributed THEN attributed[i]
                                         ELSE @[i]]]

(* apply_open.                                                             *)
ApplyOpen(x, e) ==
  [x EXCEPT !.view = Append(@, [dir |-> e.dir, principal |-> e.principal,
                                notional |-> e.notional, shares |-> e.shares,
                                recovery |-> 0, tick |-> NoTick, gen |-> e.gen,
                                locked |-> 0, profit |-> 0, closed |-> FALSE]),
            !.gen[e.dir] = Larger(@, e.gen)]

(* distribute_active_profit.                                               *)
ActiveProfit(x, d, inflow, total) ==
  IF inflow = 0 THEN x
  ELSE IF total = 0 THEN Wrong(x, "StateMismatch")
  ELSE Attribute(x, [i \in Holders(x, d) |->
         [x.view[i] EXCEPT !.profit = @ + MulDivFloor(inflow, x.view[i].shares, total)]])

(* distribute_active_loss: realised profit pays first, then the margin.    *)
Charged(v, loss) ==
  LET used == Smaller(v.profit, loss)
  IN  [v EXCEPT !.profit = @ - used,
                !.locked = @ + Smaller(loss - used, RemainingMargin(v))]

ActiveLoss(x, d, outflow, total) ==
  IF outflow = 0 THEN x
  ELSE IF total = 0 THEN Wrong(x, "StateMismatch")
  ELSE Attribute(x, [i \in Holders(x, d) |->
         Charged(x.view[i], MulDivFloor(outflow, x.view[i].shares, total))])

(* BucketView::outstanding_at: the formula of the chain on the index's own *)
(* bucket.                                                                 *)
BucketOutstanding(x, d, t, p) == OutstandingClaim(d, x.bucket[d][t], p)

(* projected_recovery_outstanding.                                         *)
ActivatedIn(x, d, p) ==
  {t \in DOMAIN x.bucket[d] : Activated(d, x.bucket[d][t].anchor, p)}

ProjectedOutstanding(x, d, p) ==
  SumOver([t \in ActivatedIn(x, d, p) |-> BucketOutstanding(x, d, t, p)],
          ActivatedIn(x, d, p))

(* distribute_recovery_profit: what the buckets get, and from each bucket  *)
(* its positions.                                                          *)
ToRecovery(e) == e.toRecovery + e.residual

RecoveryProfit(x, d, p, total) ==
  LET owed == ProjectedOutstanding(x, d, p)
      share(t) == IF t \in ActivatedIn(x, d, p)
                  THEN ShareOf(total, BucketOutstanding(x, d, t, p), owed)
                  ELSE 0
      part(v) == IF v.closed \/ v.dir # d \/ v.recovery = 0 THEN 0
                 ELSE MulDivFloor(share(v.tick), v.recovery,
                                  x.bucket[d][v.tick].shares)
      gained(v) == [v EXCEPT !.profit = @ + part(v)]
      credited(b, t) == [b EXCEPT !.accrued = @ + share(t)]
  IN  IF total = 0 \/ owed = 0 THEN x
      ELSE [x EXCEPT !.view = [i \in Views(x) |-> gained(@[i])],
                     !.bucket[d] = [t \in DOMAIN @ |-> credited(@[t], t)]]

(* apply_pool_sync: the winning side's pool and buckets, then what the     *)
(* losing side paid.                                                       *)
ApplyPoolSync(x, e) ==
  LET profit == ActiveProfit(x, e.dir, e.toPool, e.sharesBefore[e.dir])
      recover(y) == IF y.err # "Ok" THEN y
                    ELSE RecoveryProfit(y, e.dir, e.price, ToRecovery(e))
      lose(y) == IF y.err # "Ok" THEN y
                 ELSE ActiveLoss(y, Opposite(e.dir),
                                 e.toPool + e.toRecovery + e.residual,
                                 e.sharesBefore[Opposite(e.dir)])
  IN  lose(recover(profit))

(* apply_rotate.  A bucket already there keeps its anchor.                 *)
Joined(x, e) ==
  LET b == x.bucket[e.dir][e.tick]
  IN  IF e.tick \in DOMAIN x.bucket[e.dir]
      THEN [b EXCEPT !.shares = @ + e.shares, !.notional = @ + e.notional]
      ELSE [anchor |-> e.anchor, shares |-> e.shares, notional |-> e.notional,
            accrued |-> 0]

Follows(v, e, gen) ==
  [v EXCEPT !.recovery = @ + v.shares, !.tick = e.tick, !.shares = 0, !.gen = gen]

(* Mutant: the generation is compared with the one that begins.            *)
InEnded_AfterBump(x, e) ==
  {i \in Views(x) : LET v == x.view[i]
                    IN  ~v.closed /\ v.dir = e.dir /\ v.shares > 0
                                  /\ v.gen = e.gen + 1}

InEnded(x, e) ==
  {i \in Views(x) : LET v == x.view[i]
                    IN  ~v.closed /\ v.dir = e.dir /\ v.shares > 0 /\ v.gen = e.gen}

ApplyRotate(x, e) ==
  LET gen == x.gen[e.dir] + 1
  IN  [Attribute(x, [i \in InEnded(x, e) |-> Follows(x.view[i], e, gen)])
        EXCEPT !.gen[e.dir] = gen,
               !.bucket[e.dir] = [t \in DOMAIN @ \cup {e.tick} |->
                                    IF t = e.tick THEN Joined(x, e) ELSE @[t]]]

(* burn_from_bucket.  The amounts are those the chain reports.             *)
CanBurn(x, d, t, e) == t \in DOMAIN x.bucket[d] /\ e.recoveryBurned <= x.bucket[d][t].shares

(* Mutant: the notional of the burnt shares stays.                         *)
Burnt_KeepsNotional(b, e) ==
  [b EXCEPT !.shares = @ - e.recoveryBurned, !.accrued = Monus(@, e.value)]

Burnt(b, e) ==
  [b EXCEPT !.shares = @ - e.recoveryBurned,
            !.notional = Monus(@, e.notionalBurned),
            !.accrued = Monus(@, e.value)]

BurnFromBucket(x, d, t, e) ==
  LET b == Burnt(x.bucket[d][t], e)
      kept == IF Spent(b) THEN DOMAIN x.bucket[d] \ {t} ELSE DOMAIN x.bucket[d]
  IN  [x EXCEPT !.bucket[d] = [u \in kept |-> IF u = t THEN b ELSE @[u]]]

(* apply_close, apply_force_close and apply_claim_recovery.  The first two *)
(* take the bucket from the position, the last from the event; the last    *)
(* counts what was paid as profit taken out.                               *)
Flushed(v, e) ==
  LET left == v.recovery - e.recoveryBurned
      burnt == [v EXCEPT !.recovery = left, !.tick = IF left = 0 THEN NoTick ELSE @]
  IN  IF e.kind = "Claimed" THEN [burnt EXCEPT !.profit = Monus(@, e.value)]
      ELSE [burnt EXCEPT !.shares = @ - e.activeBurned, !.closed = TRUE]

ApplyLeave(x, e) ==
  LET v == x.view[e.id]
      t == IF e.kind = "Claimed" THEN e.tick ELSE v.tick
      burns == e.kind = "Claimed" \/ e.recoveryBurned > 0
      burnt == IF burns THEN BurnFromBucket(x, e.dir, t, e) ELSE x
  IN  IF e.id \notin Views(x) THEN Wrong(x, "UnknownPosition")
      ELSE IF v.closed THEN Wrong(x, "StateMismatch")
      ELSE IF burns /\ ~CanBurn(x, e.dir, t, e) THEN Wrong(x, "BucketMismatch")
      ELSE IF e.activeBurned > v.shares \/ e.recoveryBurned > v.recovery
           THEN Wrong(x, "MathOverflow")
      ELSE [burnt EXCEPT !.view[e.id] = Flushed(v, e)]

(* apply.  A harvest and a pre-sync change nothing here and are not sent.  *)
Apply(x, e) ==
  CASE x.err # "Ok" -> x
    [] x.err = "Ok" /\ e.kind = "PoolSync" -> ApplyPoolSync(x, e)
    [] x.err = "Ok" /\ e.kind = "Rotated" -> ApplyRotate(x, e)
    [] x.err = "Ok" /\ e.kind = "Opened" -> ApplyOpen(x, e)
    [] OTHER -> ApplyLeave(x, e)

ApplyAll(x, events) == FoldLeft(Apply, x, events)

-----------------------------------------------------------------------------
(* sub_pool_stats for one side.                                            *)
TotalOf(x, S, field) == SumOver([i \in S |-> x.view[i][field]], S)

SubPoolStats(x, d) ==
  LET dormant == {i \in Views(x) : ~x.view[i].closed /\ x.view[i].dir = d
                                                     /\ x.view[i].recovery > 0}
      buckets == DOMAIN x.bucket[d]
  IN  [activeNotional   |-> TotalOf(x, Holders(x, d), "notional"),
       dormantShares    |-> TotalOf(x, dormant, "recovery"),
       dormantNotional  |-> SumOver([t \in buckets |-> x.bucket[d][t].notional], buckets),
       dormantAccrued   |-> SumOver([t \in buckets |-> x.bucket[d][t].accrued], buckets),
       bucketCount      |-> Cardinality(buckets),
       gen              |-> x.gen[d]]
=============================================================================
