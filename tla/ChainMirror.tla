----------------------------- MODULE ChainMirror -----------------------------
(***************************************************************************)
(* crates/chain-mirror: the host's stand-in for the program, one sub-pool. *)
(* Every entry point builds the engine's sub-pool from all the accounts of *)
(* the sub-pool (the rotate log among them, unlike the program), runs the  *)
(* engine and writes everything back.  An entry point that fails restores  *)
(* its snapshot, so it is not a step.  (A sync that fails for want of a    *)
(* bucket account does not restore it; here the accounts it needs are      *)
(* always there, which keepers are for.)                                   *)
(***************************************************************************)
EXTENDS BucketAccounts

CONSTANTS
  Strict,        \* strict_pda_lifecycle
  Prices,        \* the oracle prices the environment may report
  Grosses,       \* the amounts a trader may deposit
  MaxPositions,  \* bound: positions ever opened
  MaxEvents,     \* bound: distributions ever recorded on a side
  MaxRotations   \* bound: generations ever ended on a side

ASSUME MirrorParameters ==
  /\ Strict \in BOOLEAN
  /\ Prices \subseteq Nat \ {0}
  /\ Grosses \subseteq Nat
  /\ {MaxPositions, MaxEvents, MaxRotations} \subseteq Nat

VARIABLES
  subPool,    \* the scalars of the SubPoolAccount
  rotateLog,  \* its rotate logs
  ledger,     \* the DistributionLedgerAccounts
  buckets,    \* the DormantBucketAccounts of each side, by tick
  pos,        \* the PositionAccounts
  vault, feeVault, deposits, withdrawals   \* the runtime's balances

books == <<vault, feeVault, deposits, withdrawals>>
mirrorVars == <<subPool, rotateLog, ledger, buckets, pos, books>>

PosIds == 1 .. Len(pos)

BucketTicks == {BucketTickOf(p) : p \in Prices}

Init ==
  /\ subPool = AccountOf(NewSubPool)
  /\ rotateLog = NewSubPool.rotateLog
  /\ ledger = [d \in Direction |-> LedgerOf(NewStore(d))]
  /\ buckets = Both([t \in {} |-> 0])
  /\ pos = <<>>
  /\ vault = 0 /\ feeVault = 0 /\ deposits = 0 /\ withdrawals = 0

(* build_core_sub_pool.                                                    *)
Core ==
  [ClearingView(subPool) EXCEPT
     !.rotateLog = rotateLog,
     !.dormant = [d \in Direction |-> Unpack(d, ledger[d], buckets[d])]]

CanBuild == \A d \in Direction : CanUnpack(d, ledger[d], buckets[d])

WithinBounds(s) ==
  \A d \in Direction : /\ NextEventIndex(s.dormant[d]) <= MaxEvents
                       /\ s.gen[d] <= MaxRotations

Missing(s, d) == Strict /\ MissingPda(buckets[d], s.dormant[d])

(* write_core_sub_pool, when it succeeds.                                  *)
WriteCore(s) ==
  /\ \A d \in Direction : ~Missing(s, d)
  /\ ledger' = [d \in Direction |-> LedgerOf(s.dormant[d])]
  /\ buckets' = [d \in Direction |-> MirrorPack(Strict, buckets[d], s.dormant[d])]
  /\ subPool' = AccountOf(s)
  /\ rotateLog' = s.rotateLog

Entered(r) == CanBuild /\ r.err = "Ok" /\ WithinBounds(r.sp)

Commit(r) == Entered(r) /\ WriteCore(r.sp)

Sync(p) == Commit(SyncPool(Core, p)) /\ UNCHANGED <<pos, books>>

Opened(g, r) ==
  /\ Len(pos) < MaxPositions
  /\ Commit(r)
  /\ pos' = Append(pos, r.pos)
  /\ vault' = vault + r.principal
  /\ feeVault' = feeVault + r.fee
  /\ deposits' = deposits + g
  /\ UNCHANGED withdrawals

Open(p, d, g) == Opened(g, OpenPosition(Core, p, d, g))

(* close, force_close and claim_recovery.                                  *)
Settled(i, r) ==
  /\ Commit(r)
  /\ r.paid <= vault
  /\ pos' = [pos EXCEPT ![i] = r.pos]
  /\ vault' = vault - r.paid
  /\ withdrawals' = withdrawals + r.paid
  /\ UNCHANGED <<feeVault, deposits>>

Close(i, p) == Settled(i, ClosePosition(Core, p, pos[i]))

ForceClose(i, p) == Settled(i, ForceClosePosition(Core, p, pos[i]))

Claim(i, p) == Settled(i, ClaimRecovery(Core, p, pos[i]))

PreSync(d, t) == Commit(PreSyncBucket(Core, d, t)) /\ UNCHANGED <<pos, books>>

Harvest(d) ==
  /\ Commit(HarvestDust(Core, d))
  /\ subPool.dust[d] <= vault
  /\ vault' = vault - subPool.dust[d]
  /\ feeVault' = feeVault + subPool.dust[d]
  /\ UNCHANGED <<pos, deposits, withdrawals>>

(* pre_init_dormant_bucket.                                                *)
InitBucket(d, t) ==
  /\ t \notin DOMAIN buckets[d]
  /\ buckets' = [buckets EXCEPT ![d] = Over([k \in {t} |-> DeadRecord(k)], @)]
  /\ UNCHANGED <<subPool, rotateLog, ledger, pos, books>>

(* Mutant: an account that is up to date may be closed.                    *)
Closable_Holding(d, a) ==
  a.lastApplied >= ledger[d].gcOffset + Len(ledger[d].entries)

(* What close_dormant_bucket asks of an account.                           *)
Closable(d, a) ==
  /\ IsDead(a)
  /\ a.lastApplied >= ledger[d].gcOffset + Len(ledger[d].entries)

CloseBucket(d, t) ==
  /\ Closable(d, buckets[d][t])
  /\ buckets' = [buckets EXCEPT ![d] = [u \in DOMAIN @ \ {t} |-> @[u]]]
  /\ UNCHANGED <<subPool, rotateLog, ledger, pos, books>>

Next ==
  \/ \E p \in Prices : Sync(p)
  \/ \E p \in Prices, d \in Direction, g \in Grosses : Open(p, d, g)
  \/ \E i \in PosIds, p \in Prices : Close(i, p) \/ ForceClose(i, p) \/ Claim(i, p)
  \/ \E d \in Direction :
       \/ Harvest(d)
       \/ \E t \in DOMAIN buckets[d] : PreSync(d, t) \/ CloseBucket(d, t)
       \/ \E t \in BucketTicks : InitBucket(d, t)

(* Every sync that ends a generation finds the account for its bucket.     *)
PreparedSpec == Init /\ [][Next]_mirrorVars

-----------------------------------------------------------------------------
(* The runtime on accounts does what the in-memory harness does: whatever  *)
(* is unpacked from the accounts and packed into them again, every entry   *)
(* point that succeeds is a call on the market (tests/harness_parity.rs).  *)
Market == INSTANCE ClearingMarket WITH sp <- Core

ImplementsMarket == Market!Spec

(* Eager crediting survives being stored and loaded: an account never lags *)
(* behind a distribution that was already credited to it, and a replay of  *)
(* the ledger, which redeem, merge and pre-sync still do, credits nothing. *)
AccountsNeverLag ==
  \A d \in Direction :
    /\ ledger[d].pending = 0
    /\ \A t \in Ticks(Core.dormant[d]) : PendingForBucket(Core.dormant[d], t) = 0
=============================================================================
