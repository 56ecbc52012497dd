--------------------------- MODULE ClearingMarket ---------------------------
(***************************************************************************)
(* One market with one sub-pool, as crates/protocol-harness runs it: the   *)
(* engine, the positions, the collateral vault and the fee vault.  Each     *)
(* action is one call; a call that fails leaves everything as it was (the  *)
(* harness restores its snapshot, the chain reverts the transaction), so   *)
(* only successful calls are steps.  The market is neither paused nor      *)
(* frozen: the harness never changes its parameters.                       *)
(***************************************************************************)
EXTENDS ClearingCore

CONSTANTS
  Prices,        \* the oracle prices the environment may report
  Grosses,       \* the amounts a trader may deposit
  MaxPositions,  \* bound: positions ever opened
  MaxEvents,     \* bound: distributions ever recorded on a side
  MaxRotations   \* bound: generations ever ended on a side

ASSUME MarketParameters ==
  /\ Prices \subseteq Nat \ {0}
  /\ Grosses \subseteq Nat
  /\ {MaxPositions, MaxEvents, MaxRotations} \subseteq Nat

VARIABLES
  sp,          \* the sub-pool
  pos,         \* the positions, in the order they were opened
  vault,       \* vault_balance
  feeVault,    \* fee_vault_balance
  deposits,    \* total_deposits
  withdrawals  \* total_withdrawals

books == <<vault, feeVault, deposits, withdrawals>>
vars == <<sp, pos, books>>

PosIds == 1 .. Len(pos)

Init ==
  /\ sp = NewSubPool
  /\ pos = <<>>
  /\ vault = 0 /\ feeVault = 0 /\ deposits = 0 /\ withdrawals = 0

(* The bounds of the model: a call whose result is beyond them is not made *)
WithinBounds(s) ==
  \A d \in Direction : /\ NextEventIndex(s.dormant[d]) <= MaxEvents
                       /\ s.gen[d] <= MaxRotations

Accept(r) ==
  /\ r.err = "Ok"
  /\ WithinBounds(r.sp)
  /\ sp' = r.sp

(* The oracle reports p and anyone calls sync_pool.                        *)
Sync(p) ==
  /\ Accept(SyncPool(sp, p))
  /\ UNCHANGED <<pos, books>>

(* A trader deposits g; the fee goes to the fee vault, the rest is backed  *)
(* by the vault.                                                           *)
Opened(g, r) ==
  /\ Len(pos) < MaxPositions
  /\ Accept(r)
  /\ pos' = Append(pos, r.pos)
  /\ vault' = vault + r.principal
  /\ feeVault' = feeVault + r.fee
  /\ deposits' = deposits + g
  /\ UNCHANGED withdrawals

Open(p, d, g) == Opened(g, OpenPosition(sp, p, d, g))

(* The three ways a position leaves: each pays r.paid out of the vault,    *)
(* which must hold it.                                                     *)
Settled(i, r) ==
  /\ Accept(r)
  /\ r.paid <= vault
  /\ pos' = [pos EXCEPT ![i] = r.pos]
  /\ vault' = vault - r.paid
  /\ withdrawals' = withdrawals + r.paid
  /\ UNCHANGED <<feeVault, deposits>>

Close(i, p) == Settled(i, ClosePosition(sp, p, pos[i]))

ForceClose(i, p) == Settled(i, ForceClosePosition(sp, p, pos[i]))

Claim(i, p) == Settled(i, ClaimRecovery(sp, p, pos[i]))

(* The keeper replays one bucket.                                          *)
PreSync(d, t) ==
  /\ Accept(PreSyncBucket(sp, d, t))
  /\ UNCHANGED <<pos, books>>

(* Dust moves from the vault to the fee vault.                             *)
Harvest(d) ==
  /\ sp.dust[d] <= vault
  /\ Accept(HarvestDust(sp, d))
  /\ vault' = vault - sp.dust[d]
  /\ feeVault' = feeVault + sp.dust[d]
  /\ UNCHANGED <<pos, deposits, withdrawals>>

Next ==
  \/ \E p \in Prices : Sync(p)
  \/ \E p \in Prices, d \in Direction, g \in Grosses : Open(p, d, g)
  \/ \E i \in PosIds, p \in Prices : Close(i, p) \/ ForceClose(i, p) \/ Claim(i, p)
  \/ \E d \in Direction : \E t \in Ticks(sp.dormant[d]) : PreSync(d, t)
  \/ \E d \in Direction : Harvest(d)

Spec == Init /\ [][Next]_vars
-----------------------------------------------------------------------------
StoreType(st) ==
  /\ DOMAIN st.bucket \subseteq Nat
  /\ \A t \in DOMAIN st.bucket :
       st.bucket[t] \in [anchor : Nat, shares : Nat, notional : Nat,
                         accrued : Nat, lastApplied : Nat]
  /\ st.ledger \in Seq([price : Nat, outstanding : Nat, alloc : Nat,
                        observed : Nat])
  /\ {st.gcOffset, st.accruedTotal, st.pending} \subseteq Nat

(* Every amount is a natural number (the u128 and u64 fields of the code:  *)
(* no subtraction ever underflows), and every record has its fields.       *)
TypeOK ==
  /\ \A d \in Direction :
       /\ {sp.pool[d], sp.shares[d], sp.notional[d], sp.recovery[d],
           sp.dust[d], sp.gen[d]} \subseteq Nat
       /\ sp.rotateLog[d] \in Seq([gen : Nat, tick : Nat])
       /\ StoreType(sp.dormant[d])
  /\ sp.lastPrice \in Prices \cup {0}
  /\ pos \in Seq([status : {"Open", "Dormant", "Closed"}, dir : Direction,
                  shares : Nat, notional : Nat, recovery : Nat,
                  tick : Nat \cup {NoTick}, gen : Nat])
  /\ {vault, feeVault, deposits, withdrawals} \subseteq Nat

-----------------------------------------------------------------------------
(* Money.                                                                  *)

(* What position q would be paid if it left now.                           *)
Payout(s, q) ==
  LET m == Migrated(s, q)
  IN  ActiveValue(s, m) + RecoveryValue(s, m)

(* If every position left now, the vault could pay them all and still hold *)
(* the dust: the floors of close and redeem never add up to more than the  *)
(* pools and the buckets hold.                                             *)
Solvent ==
  SumOver([i \in PosIds |-> Payout(sp, pos[i])], PosIds)
    + sp.dust["Long"] + sp.dust["Short"] <= vault

(* Each unit recorded as in flight is what some bucket will be credited    *)
(* with when it replays the ledger, and conversely: a replay done any      *)
(* number of distributions later finds the same shares.                    *)
PendingExact ==
  \A d \in Direction :
    LET st == sp.dormant[d]
    IN  st.pending = SumOver([t \in Ticks(st) |-> PendingForBucket(st, t)],
                             Ticks(st))

-----------------------------------------------------------------------------
(* Shares.                                                                 *)

(* Positions whose shares are in the running series of side d.             *)
InSeries(d) ==
  {i \in PosIds : pos[i].dir = d /\ pos[i].shares > 0 /\ ~NeedsMigration(sp, pos[i])}

(* Positions whose shares are, or will be once migrated, in bucket t.      *)
InBucket(d, t) ==
  {i \in PosIds : pos[i].dir = d /\ Migrated(sp, pos[i]).recovery > 0
                                 /\ Migrated(sp, pos[i]).tick = t}

(* A position of an ended generation finds one record, and one only, of    *)
(* the rotation that ended it, however many rotations came after: there is *)
(* never a doubt which bucket lazy migration takes it to.                  *)
RecordsKept ==
  \A i \in PosIds :
    NeedsMigration(sp, pos[i]) =>
      \E r \in DOMAIN sp.rotateLog[pos[i].dir] : RotateRecords(sp, pos[i]) = {r}

(* And that bucket is still there with its shares: the positions of side d *)
(* account for every active share, every unit of notional and every        *)
(* recovery share of every bucket, migrated or not.                        *)
SharesBacked ==
  \A d \in Direction :
    /\ sp.shares[d] = SumOver([i \in InSeries(d) |-> pos[i].shares], InSeries(d))
    /\ sp.notional[d] = SumOver([i \in InSeries(d) |-> pos[i].notional], InSeries(d))
    /\ \A t \in Ticks(sp.dormant[d]) :
         sp.dormant[d].bucket[t].shares =
           SumOver([i \in InBucket(d, t) |-> Migrated(sp, pos[i]).recovery],
                   InBucket(d, t))

(* No sequence of calls locks a position in: while it is not closed, at    *)
(* the price of the last sync either close pays it, or force-close, which  *)
(* is refused exactly when there is something to be paid, removes it.      *)
CanAlwaysLeave ==
  LET leaves(close, force) ==
        \/ close.err = "Ok" /\ close.paid > 0
        \/ close.err = "WithdrawableZero" /\ force.err = "Ok"
  IN  \A i \in PosIds :
        pos[i].status # "Closed" =>
          leaves(ClosePosition(sp, sp.lastPrice, pos[i]),
                 ForceClosePosition(sp, sp.lastPrice, pos[i]))

-----------------------------------------------------------------------------
(* Clearing.                                                               *)

(* At any price the oracle may report next, a sync is refused only for a   *)
(* reason the code documents: the price band, a full ledger or a full      *)
(* bucket table; its own invariant check never fails.  And a full ledger   *)
(* refuses it only while a bucket of the side to be paid has yet to replay *)
(* all of it (dormant.rs:498-503): once the keeper has pre-synced them,    *)
(* compaction makes room.                                                  *)
SyncOnlyDocumentedErrors ==
  \A p \in Prices :
    LET err == SyncPool(sp, p).err
    IN  /\ err \in {"Ok", "PriceMoveTooLarge", "LedgerCapacityExceeded",
                    "DormantBucketCapExceeded"}
        /\ err = "LedgerCapacityExceeded" =>
             \E t \in Ticks(sp.dormant[Winner(sp, p)]) :
               Backlog(sp.dormant[Winner(sp, p)], t) >= MaxLedger

-----------------------------------------------------------------------------
(* Steps.                                                                  *)

(* What a bucket is credited with plus what it will replay.                *)
Entitled(s, d, t) ==
  s.dormant[d].bucket[t].accrued + PendingForBucket(s.dormant[d], t)

(* Compaction, catching up, pre-sync, merging and a further distribution   *)
(* never take from a bucket what an earlier distribution gave it; only a   *)
(* position that leaves does.                                              *)
EntitlementKept ==
  [][(\A i \in PosIds : pos'[i] = pos[i]) =>
       \A d \in Direction : \A t \in Ticks(sp.dormant[d]) :
         /\ t \in Ticks(sp'.dormant[d])
         /\ Entitled(sp', d, t) >= Entitled(sp, d, t)]_vars

(* At an unchanged price, one position leaving (or a pre-sync, or a        *)
(* harvest) never lowers what another position would be paid.              *)
LeavingKeepsOthers ==
  [][sp'.lastPrice = sp.lastPrice /\ Len(pos') = Len(pos) =>
       \A i \in PosIds :
         pos'[i] = pos[i] => Payout(sp', pos'[i]) >= Payout(sp, pos[i])]_vars

-----------------------------------------------------------------------------
(* The market keeps the promise of Custody, with the sub-pool's funds as   *)
(* what is owed: a sync, a migration, a rotation or a pre-sync moves money *)
(* only among those it is owed to.                                         *)
Owed == INSTANCE Custody WITH owed <- Funds(sp)

KeepsCustody == Owed!Spec
=============================================================================
