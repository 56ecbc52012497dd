---------------------------- MODULE ChainProgram ----------------------------
(***************************************************************************)
(* programs/mole-option: one sub-pool as the program's accounts hold it.   *)
(* An instruction that may touch a bucket (sync, close, force-close,       *)
(* claim, pre-sync) is given bucket accounts by its caller, unpacks them   *)
(* into the engine's view, runs the engine and packs the view back         *)
(* (run_bridged); open and harvest run the engine on a view without any    *)
(* bucket.  The caller picks the accounts and their order, may name one    *)
(* twice, and only the program's own checks say which it may leave out.    *)
(* What the program works on is a copy per place in the list; the copies   *)
(* are written back in the list's order.  A failed instruction changes     *)
(* nothing.                                                                *)
(*                                                                         *)
(* A migrated position carries its bucket's tick, so the program never     *)
(* needs the log of rotations again; a stale one does, and no account      *)
(* keeps that log.  `forgotten` is that log, kept by the model alone.      *)
(***************************************************************************)
EXTENDS BucketAccounts

CONSTANTS
  Prices,        \* the oracle prices the environment may report
  Grosses,       \* the amounts a trader may deposit
  MaxPositions,  \* bound: positions ever opened
  MaxEvents,     \* bound: distributions ever recorded on a side
  MaxRotations,  \* bound: generations ever ended on a side
  MaxListed      \* bound: bucket accounts a caller lists for a side

ASSUME ProgramParameters ==
  /\ Prices \subseteq Nat \ {0}
  /\ Grosses \subseteq Nat
  /\ {MaxPositions, MaxEvents, MaxRotations, MaxListed} \subseteq Nat

VARIABLES
  subPool,    \* the SubPool account
  ledger,     \* the DistributionLedger accounts
  buckets,    \* the DormantBucket accounts of each side, by address
  pos,        \* the Position accounts
  vault, feeVault,   \* the market's token accounts
  paidIn, paidOut,   \* tokens taken from and given to traders so far
  forgotten   \* auxiliary: the rotations of each side

tokens == <<vault, feeVault, paidIn, paidOut>>
accounts == <<subPool, ledger, buckets>>
chainVars == <<accounts, pos, tokens, forgotten>>

PosIds == 1 .. Len(pos)

(* An address is named by the tick it was derived from.                    *)
Addresses == {BucketTickOf(p) : p \in Prices}

Init ==
  /\ subPool = AccountOf(NewSubPool)
  /\ ledger = [d \in Direction |-> LedgerOf(NewStore(d))]
  /\ buckets = Both([k \in {} |-> 0])
  /\ pos = <<>>
  /\ vault = 0 /\ feeVault = 0 /\ paidIn = 0 /\ paidOut = 0
  /\ forgotten = Both(<<>>)

-----------------------------------------------------------------------------
(* The lists of bucket accounts a caller may pass for the two sides.       *)
Lists ==
  {[d \in Direction |-> IF d = "Long" THEN l ELSE s] :
     l \in SeqOf(DOMAIN buckets["Long"], MaxListed),
     s \in SeqOf(DOMAIN buckets["Short"], MaxListed)}

(* The list of a caller that passes all of them, as the clients do.        *)
FullList == [d \in Direction |-> SetToSeq(DOMAIN buckets[d])]

(* split_remaining_buckets deserialises every place of the list on its own.*)
Copies(list) ==
  [d \in Direction |-> [i \in DOMAIN list[d] |-> buckets[d][list[d][i]]]]

ViewOn(A) ==
  [ClearingView(subPool) EXCEPT
     !.dormant = [d \in Direction |-> Unpack(d, ledger[d], A[d])]]

View(list) == ViewOn(Copies(list))

(* exit_all_buckets: of the copies of one account the last is what stays.  *)
Exited(list, d, copies) ==
  LET last(k) == Max({i \in DOMAIN list[d] : list[d][i] = k})
  IN  [k \in DOMAIN buckets[d] |->
         IF k \in ToSet(list[d]) THEN copies[last(k)] ELSE buckets[d][k]]

WithinBounds(s) ==
  \A d \in Direction : /\ NextEventIndex(s.dormant[d]) <= MaxEvents
                       /\ s.gen[d] <= MaxRotations

(* The engine's log of this call's rotations goes nowhere.                 *)
Stored(r) ==
  /\ subPool' = AccountOf(r.sp)
  /\ forgotten' = [d \in Direction |-> forgotten[d] \o r.sp.rotateLog[d]]

(* run_bridged, r being the engine's outcome on View(list).                *)
Bridged(list, r) ==
  /\ \A d \in Direction : CanUnpack(d, ledger[d], Copies(list)[d])
  /\ r.err = "Ok" /\ WithinBounds(r.sp)
  /\ \A d \in Direction : ~SlotExhausted(Copies(list)[d], r.sp.dormant[d])
  /\ ledger' = [d \in Direction |-> LedgerOf(r.sp.dormant[d])]
  /\ buckets' = [d \in Direction |->
                   Exited(list, d, ProgramPack(Copies(list)[d], r.sp.dormant[d]))]
  /\ Stored(r)

Sync(list, p) ==
  /\ Bridged(list, SyncPool(View(list), p))
  /\ UNCHANGED <<pos, tokens>>

(* close_position, force_close_zero_value_position, claim_dormant_recovery *)
Settled(list, i, r) ==
  /\ Bridged(list, r)
  /\ r.paid <= vault
  /\ pos' = [pos EXCEPT ![i] = r.pos]
  /\ vault' = vault - r.paid
  /\ paidOut' = paidOut + r.paid
  /\ UNCHANGED <<feeVault, paidIn>>

Close(list, i, p) == Settled(list, i, ClosePosition(View(list), p, pos[i]))

ForceClose(list, i, p) == Settled(list, i, ForceClosePosition(View(list), p, pos[i]))

Claim(list, i, p) == Settled(list, i, ClaimRecovery(View(list), p, pos[i]))

PreSync(list, d, t) ==
  /\ Bridged(list, PreSyncBucket(View(list), d, t))
  /\ UNCHANGED <<pos, tokens>>

(* What a deposit moves between the token accounts.                        *)
TransferIn(principal, fee) ==
  /\ vault' = vault + principal
  /\ feeVault' = feeVault + fee
  /\ paidIn' = paidIn + principal + fee
  /\ UNCHANGED paidOut

(* open_position: the engine's stores are dropped, the ledger and bucket   *)
(* accounts are not even passed.  The principal is transferred only if the *)
(* engine placed some of it in the pool.                                   *)
Opened(r, placed) ==
  /\ Len(pos) < MaxPositions
  /\ r.err = "Ok" /\ WithinBounds(r.sp)
  /\ TransferIn(IF placed > 0 THEN r.principal ELSE 0, r.fee)
  /\ pos' = Append(pos, r.pos)
  /\ Stored(r)
  /\ UNCHANGED <<ledger, buckets>>

Open(p, d, g) ==
  LET view      == ClearingView(subPool)
      placed(r) == PrincipalIntoPool(SyncPool(view, p).sp, d, r.principal)
      opened(r) == Opened(r, placed(r))
  IN  opened(OpenPosition(view, p, d, g))

(* harvest_dust, on a view without buckets as well.                        *)
Harvested(d, r) ==
  /\ subPool.dust[d] <= vault
  /\ r.err = "Ok"
  /\ vault' = vault - subPool.dust[d]
  /\ feeVault' = feeVault + subPool.dust[d]
  /\ Stored(r)
  /\ UNCHANGED <<ledger, buckets, pos, paidIn, paidOut>>

Harvest(d) == Harvested(d, HarvestDust(ClearingView(subPool), d))

(* initialize_dormant_bucket: anyone may create the account of a tick.     *)
InitBucket(d, t) ==
  /\ t \notin DOMAIN buckets[d]
  /\ buckets' = [buckets EXCEPT ![d] = Over([k \in {t} |-> DeadRecord(k)], @)]
  /\ UNCHANGED <<subPool, ledger, pos, tokens, forgotten>>

(* Mutant: an account that is up to date may be closed.                    *)
CloseBucket_Holding(d, k) ==
  LET a == buckets[d][k]
  IN  /\ a.lastApplied >= ledger[d].gcOffset + Len(ledger[d].entries)
      /\ buckets' = [buckets EXCEPT ![d] = [j \in DOMAIN @ \ {k} |-> @[j]]]
      /\ UNCHANGED <<subPool, ledger, pos, tokens, forgotten>>

(* close_dormant_bucket: a dead account no ledger entry is due to.         *)
CloseBucket(d, k) ==
  LET a == buckets[d][k]
  IN  /\ IsDead(a)
      /\ a.lastApplied >= ledger[d].gcOffset + Len(ledger[d].entries)
      /\ buckets' = [buckets EXCEPT ![d] = [j \in DOMAIN @ \ {k} |-> @[j]]]
      /\ UNCHANGED <<subPool, ledger, pos, tokens, forgotten>>

BucketCall(list) ==
  \/ \E p \in Prices : Sync(list, p)
  \/ \E i \in PosIds, p \in Prices :
       Close(list, i, p) \/ ForceClose(list, i, p) \/ Claim(list, i, p)
  \/ \E d \in Direction : \E t \in Ticks(View(list).dormant[d]) : PreSync(list, d, t)

BucketStep == \E list \in Lists : BucketCall(list)

OpenStep == \E p \in Prices, d \in Direction, g \in Grosses : Open(p, d, g)

AccountStep ==
  \E d \in Direction :
    \/ Harvest(d)
    \/ \E t \in Addresses : InitBucket(d, t)
    \/ \E k \in DOMAIN buckets[d] : CloseBucket(d, k)

Next == BucketStep \/ OpenStep \/ AccountStep

Spec == Init /\ [][Next]_chainVars

(* Two things the program does not ask of its callers, and the market      *)
(* does not survive without (README, Divergences).  No list names a dead   *)
(* account twice, or the bucket a rotation puts into the first copy goes   *)
(* with the second: the clients list what getProgramAccounts returned,     *)
(* each account once.  And positions are opened at the price of the last   *)
(* sync, so that the sync inside open_position ends no generation.         *)
NoDeadTwice(list) ==
  \A d \in Direction : \A i, j \in DOMAIN list[d] :
    list[d][i] = list[d][j] /\ IsDead(buckets[d][list[d][i]]) => i = j

TimelyBucketStep == \E list \in Lists : NoDeadTwice(list) /\ BucketCall(list)

TimelyOpenStep ==
  \E p \in Prices, d \in Direction, g \in Grosses :
    /\ subPool.lastPrice \in {0, p}
    /\ Open(p, d, g)

TimelySpec == Init /\ [][TimelyBucketStep \/ TimelyOpenStep \/ AccountStep]_chainVars
-----------------------------------------------------------------------------
(* The sub-pool the accounts stand for.                                    *)
Whole == [ViewOn(buckets) EXCEPT !.rotateLog = forgotten]

(* Under TimelySpec the accounts implement the market: whatever the callers*)
(* list, in whatever order (but no dead account twice), an instruction that*)
(* succeeds does what the engine does on the whole sub-pool (so no live    *)
(* bucket can be left out, sync.rs:36-41), and creating and closing        *)
(* accounts does nothing.                                                  *)
Market ==
  INSTANCE ClearingMarket WITH sp <- Whole, deposits <- paidIn,
                               withdrawals <- paidOut

ImplementsMarket == Market!Spec

(* Under TimelySpec, too, the accounts always decode to a sub-pool that    *)
(* passes the engine's own checks, without which every later instruction   *)
(* would fail.                                                             *)
AccountsSound ==
  /\ \A d \in Direction : CanUnpack(d, ledger[d], buckets[d])
  /\ SubPoolSound(Whole)

-----------------------------------------------------------------------------
(* state.rs:228-229: the rotate log is used for the lazy migration of      *)
(* stale positions, so an owner who passes every account at the last price *)
(* is paid or may force-close.                                             *)
NobodyStranded ==
  LET leaves(close, force) == close.err = "Ok" \/ force.err = "Ok"
  IN  \A i \in PosIds :
        pos[i].status # "Closed" =>
          leaves(ClosePosition(View(FullList), subPool.lastPrice, pos[i]),
                 ForceClosePosition(View(FullList), subPool.lastPrice, pos[i]))
=============================================================================
