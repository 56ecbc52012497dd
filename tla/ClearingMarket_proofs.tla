----------------------- MODULE ClearingMarket_proofs -----------------------
(***************************************************************************)
(* What holds of the market whatever the prices, the deposits, the engine's*)
(* parameters and the number of positions, buckets and rotations.          *)
(*                                                                         *)
(* Records.  A stale position always finds its own rotation.  RecordsKept  *)
(* is not inductive: a sync may end a generation a position still holds.   *)
(* What is: the log of each side numbers the ended generations 0, 1, 2,    *)
(* ... without a gap, the running one is next, and no position is ahead.   *)
(*                                                                         *)
(* Money.  The vault holds exactly what the sub-pool answers for, and no   *)
(* amount underflows.  The invariant adds to the records that the stores   *)
(* are sound (ClearingCore_proofs), that the engine's own check holds, and *)
(* that positions hold natural amounts.  Each entry point then either      *)
(* clears, brings money in, pays a position out, or moves dust.            *)
(*                                                                         *)
(* Shares.  Each running series and each bucket is an account; its balance *)
(* on the books is the sum of what the positions have in it, migrated or   *)
(* not (Owned).  SharesInv adds that to MoneyInv and is the invariant the  *)
(* rest follows from: that everybody can be paid at once, that nobody is   *)
(* locked in, that a leaver takes nothing from the others, and that a sync *)
(* passes the check it ends with.                                          *)
(*                                                                         *)
(* Index.  What the events of a call make of the index is what the call    *)
(* made of the market (Tracks): position by position what it holds once    *)
(* migrated, bucket by bucket what it holds once its backlog is replayed.  *)
(* With the books, that makes the index's own totals the sub-pool's.       *)
(***************************************************************************)
EXTENDS IndexedMarket, ClearingCore_proofs, SequenceTheorems, TLAPS

RecordsInv ==
  /\ Numbered(sp)
  /\ pos \in Seq({pos[i] : i \in PosIds})
  /\ \A i \in PosIds : Placed(sp, pos[i])

-----------------------------------------------------------------------------
(* The invariant.                                                          *)
LEMMA RecordsInit == Init => RecordsInv
  <1> SUFFICES ASSUME Init PROVE RecordsInv
    OBVIOUS
  <1>1. sp = NewSubPool /\ pos = <<>>
    BY DEF Init
  <1>2. Numbered(NewSubPool)
    BY DEF Numbered, NewSubPool, IsSubPool, SubPoolFields, IsLog, Both
  <1> QED
    BY <1>1, <1>2 DEF RecordsInv, PosIds

(* The calls that leave the positions alone.                               *)
LEMMA PoolStep ==
  ASSUME RecordsInv, ComesAfter(sp, sp'), pos' = pos
  PROVE  RecordsInv'
  <1>1. \A i \in PosIds : Placed(sp', pos[i])
    BY PlacedFollows DEF RecordsInv
  <1> QED
    BY <1>1 DEF RecordsInv, ComesAfter, PosIds

(* The calls that change one position.                                     *)
LEMMA OnePosition ==
  ASSUME RecordsInv, NEW i \in PosIds, NEW x, pos' = [pos EXCEPT ![i] = x],
         ComesAfter(sp, sp'), Placed(sp', x)
  PROVE  RecordsInv'
  <1>1. Len(pos) \in Nat /\ pos = [j \in 1 .. Len(pos) |-> pos[j]]
    BY LenProperties DEF RecordsInv
  <1>2. /\ pos' = [j \in 1 .. Len(pos) |-> pos'[j]]
        /\ \A j \in 1 .. Len(pos) : pos'[j] = IF j = i THEN x ELSE pos[j]
    BY <1>1 DEF PosIds
  <1>3. PICK f : f = pos'
    OBVIOUS
  <1>4. IsList(f) /\ Len(f) = Len(pos)
    BY <1>1, <1>2, <1>3, FunctionIsList
  <1>5. \A j \in PosIds : Placed(sp', pos'[j])
    BY <1>2, PlacedFollows DEF RecordsInv, PosIds
  <1> QED
    BY <1>3, <1>4, <1>5 DEF RecordsInv, ComesAfter, IsList, PosIds

LEMMA LeavingStep ==
  ASSUME RecordsInv, NEW i \in PosIds, NEW r, Good(sp, r), Settled(i, r)
  PROVE  RecordsInv'
  <1>1. /\ r.err = "Ok" /\ sp' = r.sp
        /\ pos' = [pos EXCEPT ![i] = r.pos]
    BY DEF Settled, Accept
  <1>2. ComesAfter(sp, sp') /\ Placed(sp', r.pos)
    BY <1>1 DEF Good
  <1> QED
    BY <1>1, <1>2, OnePosition

LEMMA OpeningStep ==
  ASSUME RecordsInv, NEW p \in Prices, NEW d \in Direction, NEW g, Open(p, d, g)
  PROVE  RecordsInv'
  <1> DEFINE r == OpenPosition(sp, p, d, g)
  <1>1. /\ r.err = "Ok" /\ sp' = r.sp
        /\ pos' = Append(pos, r.pos)
    BY DEF Open, Opened, Accept
  <1>2. ComesAfter(sp, sp') /\ Placed(sp', r.pos)
    BY <1>1, OpenGood, MarketParameters DEF Good, RecordsInv
  <1> HIDE DEF r
  <1>3. /\ IsList(pos')
        /\ Len(pos) \in Nat /\ Len(pos') = Len(pos) + 1
        /\ \A j \in PosIds : pos'[j] = pos[j]
        /\ pos'[Len(pos) + 1] = r.pos
    BY <1>1, ListGrows DEF RecordsInv, IsList, PosIds
  <1>4. \A j \in PosIds : Placed(sp', pos'[j])
    BY <1>2, <1>3, PlacedFollows DEF RecordsInv
  <1>5. \A j \in 1 .. Len(pos') : j \in PosIds \/ j = Len(pos) + 1
    BY <1>3 DEF PosIds
  <1> QED
    BY <1>2, <1>3, <1>4, <1>5 DEF RecordsInv, ComesAfter, IsList, PosIds

LEMMA RecordsStep == RecordsInv /\ [Next]_vars => RecordsInv'
  <1> SUFFICES ASSUME RecordsInv, [Next]_vars PROVE RecordsInv'
    OBVIOUS
  <1>1. Numbered(sp) /\ \A i \in PosIds : Placed(sp, pos[i])
    BY DEF RecordsInv
  <1>2. ASSUME NEW p \in Prices, Sync(p) PROVE RecordsInv'
    BY <1>1, <1>2, SyncFollows, PoolStep, MarketParameters DEF Sync, Accept
  <1>3. ASSUME NEW p \in Prices, NEW d \in Direction, NEW g \in Grosses, Open(p, d, g)
        PROVE  RecordsInv'
    BY <1>3, OpeningStep
  <1>4. ASSUME NEW i \in PosIds, NEW p \in Prices,
               Close(i, p) \/ ForceClose(i, p) \/ Claim(i, p)
        PROVE  RecordsInv'
    <2>1. p \in Nat /\ Placed(sp, pos[i])
      BY <1>1, MarketParameters
    <2>2. CASE Close(i, p)
      BY <1>1, <2>1, <2>2, CloseGood, LeavingStep DEF Close
    <2>3. CASE ForceClose(i, p)
      BY <1>1, <2>1, <2>3, ForceCloseGood, LeavingStep DEF ForceClose
    <2>4. CASE Claim(i, p)
      BY <1>1, <2>1, <2>4, ClaimGood, LeavingStep DEF Claim
    <2> QED
      BY <1>4, <2>2, <2>3, <2>4
  <1>5. ASSUME NEW d \in Direction, NEW t, PreSync(d, t) PROVE RecordsInv'
    <2> DEFINE applied == [sp EXCEPT !.dormant[d] = ApplyPending(@, {t})]
    <2>1. SameGens(sp, applied) /\ SameGens(sp, sp)
      BY <1>1 DEF SameGens, Numbered, IsSubPool, SubPoolFields
    <2>2. PreSyncBucket(sp, d, t).sp \in {applied, sp}
      BY CheckedSame DEF PreSyncBucket, Fail
    <2>3. SameGens(sp, PreSyncBucket(sp, d, t).sp)
      BY <2>1, <2>2
    <2>4. ComesAfter(sp, sp')
      BY <1>1, <1>5, <2>3, SameFollows DEF PreSync, Accept
    <2> QED
      BY <1>5, <2>4, PoolStep DEF PreSync
  <1>6. ASSUME NEW d \in Direction, Harvest(d) PROVE RecordsInv'
    <2>1. SameGens(sp, HarvestDust(sp, d).sp)
      BY <1>1, CheckedSame
      DEF HarvestDust, SameGens, Numbered, IsSubPool, SubPoolFields
    <2>2. ComesAfter(sp, sp')
      BY <1>1, <1>6, <2>1, SameFollows DEF Harvest, Accept
    <2> QED
      BY <1>6, <2>2, PoolStep DEF Harvest
  <1>7. CASE UNCHANGED vars
    BY <1>1, <1>7, FollowsSelf, PoolStep DEF vars
  <1> QED
    BY <1>2, <1>3, <1>4, <1>5, <1>6, <1>7 DEF Next

(* In a log without a gap the record of an ended generation is the one     *)
(* at its own place, and no other.                                         *)
LEMMA InvGivesRecords == RecordsInv => RecordsKept
  <1> SUFFICES ASSUME RecordsInv, NEW i \in PosIds, NeedsMigration(sp, pos[i])
               PROVE  \E r \in DOMAIN sp.rotateLog[pos[i].dir] :
                        RotateRecords(sp, pos[i]) = {r}
    BY DEF RecordsKept
  <1> DEFINE d == pos[i].dir
             g == pos[i].gen
             log == sp.rotateLog[d]
  <1>1. d \in Direction /\ sp.gen[d] \in Nat /\ g \in Nat /\ g < sp.gen[d]
    BY DEF RecordsInv, Placed, Numbered, NeedsMigration
  <1>2. IsLog(log, sp.gen[d])
    BY <1>1 DEF RecordsInv, Numbered
  <1>3. DOMAIN log = 1 .. sp.gen[d] /\ \A j \in 1 .. sp.gen[d] : log[j].gen = j - 1
    BY <1>2 DEF IsLog
  <1>4. g + 1 \in DOMAIN log
    BY <1>1, <1>3
  <1>5. RotateRecords(sp, pos[i]) = {g + 1}
    BY <1>1, <1>3, <1>4, OwnPlace DEF RotateRecords
  <1> QED
    BY <1>4, <1>5

(* Whatever the parameters and however long the history, lazy migration    *)
(* finds exactly one record for a position of an ended generation: it      *)
(* never fails and never has a choice of bucket.                           *)
THEOREM MigrationFindsItsRecord == Spec => []RecordsKept
  <1> QED
    BY RecordsInit, RecordsStep, InvGivesRecords, PTL DEF Spec

-----------------------------------------------------------------------------
(* The market: the vault holds exactly the funds of the sub-pool, and all  *)
(* that the sub-pool answers for is sound.                                 *)
MoneyInv ==
  /\ RecordsInv
  /\ PoolSound(sp) /\ SubPoolSound(sp)
  /\ sp.lastPrice \in Prices \cup {0}
  /\ \A i \in PosIds : Holding(pos[i])
  /\ vault = Funds(sp)
  /\ feeVault \in Nat /\ deposits \in Nat /\ withdrawals \in Nat

(* What a step leaves behind whatever it is.                               *)
SoundAfter ==
  /\ PoolSound(sp') /\ SubPoolSound(sp')
  /\ sp'.lastPrice \in Prices \cup {0}
  /\ \A i \in 1 .. Len(pos') : Holding(pos'[i])

(* The four kinds of step: sync and pre-sync clear, open brings money in,  *)
(* a position that leaves takes its part, harvest moves dust.              *)
ClearingKind ==
  /\ UNCHANGED <<pos, books>>
  /\ Funds(sp') = Funds(sp) /\ KeepsAll(sp, sp')

DepositKind(fee, principal) ==
  /\ feeVault' = feeVault + fee /\ vault' = vault + principal
  /\ deposits' = deposits + (fee + principal) /\ withdrawals' = withdrawals
  /\ Funds(sp') = Funds(sp) + principal /\ KeepsAll(sp, sp')

WithdrawKind(paid) ==
  /\ vault' = vault - paid /\ withdrawals' = withdrawals + paid
  /\ feeVault' = feeVault /\ deposits' = deposits
  /\ Funds(sp') + paid = Funds(sp)
  /\ \E i \in PosIds : pos'[i] # pos[i]

CollectKind(dust) ==
  /\ vault' = vault - dust /\ feeVault' = feeVault + dust
  /\ deposits' = deposits /\ withdrawals' = withdrawals
  /\ Funds(sp') + dust = Funds(sp) /\ KeepsAll(sp, sp')

SoundStep ==
  /\ SoundAfter
  /\ \/ ClearingKind
     \/ \E fee, principal \in Nat : DepositKind(fee, principal)
     \/ \E paid \in Nat : WithdrawKind(paid)
     \/ \E dust \in Nat : CollectKind(dust)

LEMMA SyncStep == ASSUME MoneyInv, NEW p \in Prices, Sync(p) PROVE SoundStep
<1> DEFINE r == SyncPool(sp, p)
<1>1. r.err = "Ok" /\ sp' = r.sp /\ UNCHANGED <<pos, books>>
  BY DEF Sync, Accept
<1>2. PoolSound(sp) /\ p \in Nat /\ \A i \in PosIds : Holding(pos[i])
  BY MarketParameters DEF MoneyInv
<1>3. Clears(sp, r.sp) /\ r.sp.lastPrice = p /\ SubPoolSound(r.sp)
  BY <1>1, <1>2, SyncClears
<1> HIDE DEF r
<1>4. SoundAfter
  BY <1>1, <1>2, <1>3 DEF SoundAfter, Clears, PosIds
<1>5. ClearingKind
  BY <1>1, <1>3 DEF ClearingKind, Clears
<1> QED
  BY <1>4, <1>5 DEF SoundStep

LEMMA PreSyncStep ==
  ASSUME MoneyInv, NEW d \in Direction, NEW t, PreSync(d, t) PROVE SoundStep
<1> DEFINE r == PreSyncBucket(sp, d, t)
<1>1. r.err = "Ok" /\ sp' = r.sp /\ UNCHANGED <<pos, books>>
  BY DEF PreSync, Accept
<1>2. /\ PoolSound(sp) /\ sp.lastPrice \in Prices \cup {0}
      /\ \A i \in PosIds : Holding(pos[i])
  BY DEF MoneyInv
<1>3. Clears(sp, r.sp) /\ SubPoolSound(r.sp) /\ r.sp.lastPrice = sp.lastPrice
  BY <1>1, <1>2, PreSyncClears
<1> HIDE DEF r
<1>4. SoundAfter
  BY <1>1, <1>2, <1>3 DEF SoundAfter, Clears, PosIds
<1>5. ClearingKind
  BY <1>1, <1>3 DEF ClearingKind, Clears
<1> QED
  BY <1>4, <1>5 DEF SoundStep

LEMMA HarvestStep == ASSUME MoneyInv, NEW d \in Direction, Harvest(d) PROVE SoundStep
<1> DEFINE r == HarvestDust(sp, d)
<1>1. /\ r.err = "Ok" /\ sp' = r.sp
      /\ vault' = vault - sp.dust[d] /\ feeVault' = feeVault + sp.dust[d]
      /\ UNCHANGED <<pos, deposits, withdrawals>>
  BY DEF Harvest, Accept
<1>2. /\ PoolSound(sp) /\ sp.lastPrice \in Prices \cup {0}
      /\ \A i \in PosIds : Holding(pos[i])
  BY DEF MoneyInv
<1>3. /\ PoolSound(r.sp) /\ SubPoolSound(r.sp) /\ sp.dust[d] \in Nat
      /\ Funds(r.sp) + sp.dust[d] = Funds(sp)
      /\ KeepsAll(sp, r.sp) /\ r.sp.lastPrice = sp.lastPrice
  BY <1>1, <1>2, HarvestSound
<1> HIDE DEF r
<1>4. SoundAfter
  BY <1>1, <1>2, <1>3 DEF SoundAfter, PosIds
<1>5. CollectKind(sp.dust[d])
  BY <1>1, <1>3 DEF CollectKind
<1> QED
  BY <1>3, <1>4, <1>5 DEF SoundStep

LEMMA OpenStep ==
  ASSUME MoneyInv, NEW p \in Prices, NEW d \in Direction, NEW g \in Grosses, Open(p, d, g)
  PROVE  SoundStep
<1> DEFINE r == OpenPosition(sp, p, d, g)
<1>1. /\ r.err = "Ok" /\ sp' = r.sp /\ pos' = Append(pos, r.pos)
      /\ vault' = vault + r.principal /\ feeVault' = feeVault + r.fee
      /\ deposits' = deposits + g /\ withdrawals' = withdrawals
  BY DEF Open, Opened, Accept
<1>2. /\ PoolSound(sp) /\ p \in Nat /\ g \in Nat /\ Numbered(sp)
      /\ \A i \in PosIds : Holding(pos[i])
  BY MarketParameters DEF MoneyInv, RecordsInv
<1>3. Deposited(sp, p, g, r)
  BY <1>1, <1>2, OpenSound
<1> HIDE DEF r
<1>4. /\ Len(pos) \in Nat /\ Len(pos') = Len(pos) + 1
      /\ \A j \in PosIds : pos'[j] = pos[j]
      /\ pos'[Len(pos) + 1] = r.pos
  BY <1>1, ListGrows DEF MoneyInv, RecordsInv, IsList, PosIds
<1>5. \A i \in 1 .. Len(pos') : Holding(pos'[i])
  <2>1. \A j \in 1 .. Len(pos') : j \in PosIds \/ j = Len(pos) + 1
    BY <1>4 DEF PosIds
  <2>2. Holding(r.pos)
    BY <1>3 DEF Deposited
  <2> QED
    BY <1>2, <1>4, <2>1, <2>2
<1>6. SoundAfter
  BY <1>1, <1>3, <1>5 DEF SoundAfter, Deposited
<1>7. r.fee \in Nat /\ r.principal \in Nat /\ DepositKind(r.fee, r.principal)
  BY <1>1, <1>3 DEF DepositKind, Deposited
<1> QED
  BY <1>6, <1>7 DEF SoundStep

LEMMA LeaveStep ==
  ASSUME MoneyInv, NEW i \in PosIds, NEW p \in Prices, NEW r, Settled(i, r),
         PaidOut(sp, p, r), r.pos # pos[i]
  PROVE  SoundStep
<1>1. /\ r.err = "Ok" /\ sp' = r.sp /\ pos' = [pos EXCEPT ![i] = r.pos]
      /\ vault' = vault - r.paid /\ withdrawals' = withdrawals + r.paid
      /\ UNCHANGED <<feeVault, deposits>>
  BY DEF Settled, Accept
<1>2. \A j \in PosIds : Holding(pos[j])
  BY DEF MoneyInv
<1>3. /\ pos'[i] = r.pos /\ 1 .. Len(pos') = PosIds
      /\ \A j \in PosIds : j = i \/ pos'[j] = pos[j]
  <2> DEFINE S == {pos[j] : j \in PosIds} \cup {r.pos}
  <2>1. pos \in Seq(S) /\ r.pos \in S
    <3>1. pos \in Seq({pos[j] : j \in PosIds})
      BY DEF MoneyInv, RecordsInv
    <3> QED
      BY <3>1, FunctionIsSeq DEF PosIds
  <2> HIDE DEF S
  <2> QED
    BY <1>1, <2>1 DEF PosIds
<1>4. \A j \in 1 .. Len(pos') : Holding(pos'[j])
  BY <1>2, <1>3 DEF PaidOut
<1>5. SoundAfter
  BY <1>1, <1>4 DEF SoundAfter, PaidOut
<1>6. r.paid \in Nat /\ WithdrawKind(r.paid)
  BY <1>1, <1>3 DEF WithdrawKind, PaidOut
<1> QED
  BY <1>5, <1>6 DEF SoundStep

LEMMA LeavingSound ==
  ASSUME MoneyInv, NEW i \in PosIds, NEW p \in Prices,
         Close(i, p) \/ ForceClose(i, p) \/ Claim(i, p)
  PROVE  SoundStep
<1>1. PoolSound(sp) /\ p \in Nat /\ Numbered(sp) /\ Holding(pos[i])
  BY MarketParameters DEF MoneyInv, RecordsInv
<1>2. CASE Close(i, p)
  <2> DEFINE r == ClosePosition(sp, p, pos[i])
  <2>1. Settled(i, r) /\ r.err = "Ok"
    BY <1>2 DEF Close, Settled, Accept
  <2>2. PaidOut(sp, p, r) /\ r.pos # pos[i]
    BY <1>1, <2>1, CloseSound
  <2> QED
    BY <2>1, <2>2, LeaveStep
<1>3. CASE ForceClose(i, p)
  <2> DEFINE r == ForceClosePosition(sp, p, pos[i])
  <2>1. Settled(i, r) /\ r.err = "Ok"
    BY <1>3 DEF ForceClose, Settled, Accept
  <2>2. PaidOut(sp, p, r) /\ r.pos # pos[i]
    BY <1>1, <2>1, ForceCloseSound
  <2> QED
    BY <2>1, <2>2, LeaveStep
<1>4. CASE Claim(i, p)
  <2> DEFINE r == ClaimRecovery(sp, p, pos[i])
  <2>1. Settled(i, r) /\ r.err = "Ok"
    BY <1>4 DEF Claim, Settled, Accept
  <2>2. PaidOut(sp, p, r) /\ r.pos # pos[i]
    BY <1>1, <2>1, ClaimSound
  <2> QED
    BY <2>1, <2>2, LeaveStep
<1> QED
  BY <1>2, <1>3, <1>4

LEMMA StepIsSound == ASSUME MoneyInv, Next PROVE SoundStep
BY SyncStep, OpenStep, LeavingSound, PreSyncStep, HarvestStep DEF Next

LEMMA MoneyStep == MoneyInv /\ [Next]_vars => MoneyInv'
<1> SUFFICES ASSUME MoneyInv, [Next]_vars PROVE MoneyInv'
  OBVIOUS
<1>1. RecordsInv'
  BY RecordsStep DEF MoneyInv
<1>2. CASE UNCHANGED vars
  BY <1>1, <1>2 DEF MoneyInv, vars, books, PosIds
<1>3. CASE Next
  <2>1. SoundStep
    BY <1>3, StepIsSound
  <2>2. /\ vault = Funds(sp) /\ vault \in Nat /\ feeVault \in Nat /\ deposits \in Nat
        /\ withdrawals \in Nat
    BY FundsBySide DEF MoneyInv, Direction
  <2>3. /\ PoolSound(sp') /\ SubPoolSound(sp')
        /\ sp'.lastPrice \in Prices \cup {0}
        /\ \A i \in 1 .. Len(pos') : Holding(pos'[i])
    BY <2>1 DEF SoundStep, SoundAfter
  <2>4. Funds(sp') \in Nat
    BY <2>3, FundsBySide DEF Direction
  <2>5. vault' = Funds(sp') /\ feeVault' \in Nat /\ deposits' \in Nat /\ withdrawals' \in Nat
    <3>1. CASE ClearingKind
      BY <2>2, <3>1 DEF ClearingKind, books
    <3>2. CASE \E fee, principal \in Nat : DepositKind(fee, principal)
      BY <2>2, <2>4, <3>2 DEF DepositKind
    <3>3. CASE \E paid \in Nat : WithdrawKind(paid)
      BY <2>2, <2>4, <3>3 DEF WithdrawKind
    <3>4. CASE \E dust \in Nat : CollectKind(dust)
      BY <2>2, <2>4, <3>4 DEF CollectKind
    <3> QED
      BY <2>1, <3>1, <3>2, <3>3, <3>4 DEF SoundStep
  <2> QED
    BY <1>1, <2>3, <2>5 DEF MoneyInv, PosIds
<1> QED
  BY <1>2, <1>3

LEMMA MoneyInit == Init => MoneyInv
<1> SUFFICES ASSUME Init PROVE MoneyInv
  OBVIOUS
<1>1. RecordsInv
  BY RecordsInit
<1>2. NewSubPool.lastPrice = 0
  BY DEF NewSubPool
<1> QED
  BY <1>1, <1>2, NewSubPoolSound DEF Init, MoneyInv, PosIds

LEMMA MoneyIsInvariant == Spec => []MoneyInv
<1> QED
  BY MoneyInit, MoneyStep, PTL DEF Spec

LEMMA InvGivesTypes == MoneyInv => TypeOK
<1> SUFFICES ASSUME MoneyInv PROVE TypeOK
  OBVIOUS
<1>1. ASSUME NEW d \in Direction
      PROVE  /\ {sp.pool[d], sp.shares[d], sp.notional[d], sp.recovery[d],
                 sp.dust[d], sp.gen[d]} \subseteq Nat
             /\ sp.rotateLog[d] \in Seq([gen : Nat, tick : Nat])
             /\ StoreType(sp.dormant[d])
  <2> DEFINE st == sp.dormant[d]
             held == [t \in Ticks(st) |-> st.bucket[t].shares]
  <2>1. /\ sp.pool[d] \in Nat /\ sp.shares[d] \in Nat /\ sp.notional[d] \in Nat
        /\ sp.dust[d] \in Nat /\ StoreTyped(st)
    BY DEF MoneyInv, PoolSound, StoreSound
  <2>2. sp.gen[d] \in Nat /\ sp.rotateLog[d] \in Seq([gen : Nat, tick : Nat])
    BY DEF MoneyInv, RecordsInv, Numbered, IsLog
  <2>3. sp.recovery[d] \in Nat
    <3>1. sp.recovery[d] = SumOver(held, Ticks(st))
      BY DEF MoneyInv, SubPoolSound, TotalRecoveryShares
    <3>2. IsFiniteSet(Ticks(st)) /\ \A t \in Ticks(st) : held[t] \in Nat
      BY <2>1 DEF StoreTyped, Bucket
    <3> HIDE DEF held, st
    <3> QED
      BY <3>1, <3>2, SumNat DEF Amounts
  <2>4. StoreType(st)
    BY <2>1 DEF StoreTyped, StoreType, Bucket, Entry, Ticks
  <2> QED
    BY <2>1, <2>2, <2>3, <2>4
<1>2. pos \in Seq([status : {"Open", "Dormant", "Closed"}, dir : Direction,
                   shares : Nat, notional : Nat, recovery : Nat,
                   tick : Nat \cup {NoTick}, gen : Nat])
  <2> DEFINE P == [status : {"Open", "Dormant", "Closed"}, dir : Direction,
                   shares : Nat, notional : Nat, recovery : Nat,
                   tick : Nat \cup {NoTick}, gen : Nat]
  <2>1. ASSUME NEW i \in PosIds PROVE pos[i] \in P
    <3>1. Holding(pos[i]) /\ Placed(sp, pos[i]) /\ sp.gen \in [Direction -> Nat]
      BY DEF MoneyInv, RecordsInv, Numbered
    <3>2. pos[i].gen \in Nat
      BY <3>1 DEF Placed
    <3> QED
      BY <3>1, <3>2 DEF Holding, IsPosition, PositionFields
  <2> HIDE DEF P
  <2>2. Len(pos) \in Nat /\ pos \in [1 .. Len(pos) -> P]
    <3> DEFINE S == {pos[i] : i \in PosIds}
    <3>1. pos \in Seq(S)
      BY DEF MoneyInv, RecordsInv
    <3> HIDE DEF S
    <3>2. Len(pos) \in Nat /\ pos \in [1 .. Len(pos) -> S]
      BY <3>1
    <3> QED
      BY <2>1, <3>2 DEF PosIds
  <2>3. pos \in Seq(P)
    BY <2>2, FunctionIsSeq
  <2> QED
    BY <2>3 DEF P
<1>3. {vault, feeVault, deposits, withdrawals} \subseteq Nat
  BY FundsBySide DEF MoneyInv, Direction
<1>4. sp.lastPrice \in Prices \cup {0}
  BY DEF MoneyInv
<1> QED
  BY <1>1, <1>2, <1>3, <1>4 DEF TypeOK

(* Whatever the prices, deposits and parameters, no amount of the engine,  *)
(* of a bucket or of a position is ever less than zero: none of the        *)
(* unsigned subtractions of engine.rs and dormant.rs underflows.           *)
THEOREM AmountsNeverUnderflow == Spec => []TypeOK
<1> QED
  BY MoneyIsInvariant, InvGivesTypes, PTL

(* The in-flight counter of a side is, after any calls, exactly what its   *)
(* buckets will be credited with when they replay the ledger: a lazy       *)
(* distribution is neither lost by compaction, pre-sync, merge or redeem   *)
(* nor replayed twice.                                                     *)
THEOREM InFlightIsDue == Spec => []PendingExact
<1>1. MoneyInv => PendingExact
  BY DEF MoneyInv, PoolSound, StoreSound, PendingExact, Due
<1> QED
  BY <1>1, MoneyIsInvariant, PTL

LEMMA CustodyStep == MoneyInv /\ [Next]_vars => [Owed!Next]_(Owed!vars)
<1> SUFFICES ASSUME MoneyInv, [Next]_vars PROVE [Owed!Next]_(Owed!vars)
  OBVIOUS
<1>1. /\ vault = Funds(sp) /\ vault \in Nat /\ feeVault \in Nat /\ deposits \in Nat
      /\ withdrawals \in Nat /\ Funds(sp) \in Nat
  BY FundsBySide DEF MoneyInv, Direction
<1>2. CASE UNCHANGED vars
  BY <1>2 DEF vars, books, Owed!vars
<1>3. CASE Next
  <2>1. SoundStep
    BY <1>3, StepIsSound
  <2>2. Funds(sp') \in Nat
    BY <2>1, FundsBySide DEF SoundStep, SoundAfter, Direction
  <2>3. CASE ClearingKind
    BY <2>3 DEF ClearingKind, books, Owed!vars
  <2>4. ASSUME NEW fee \in Nat, NEW principal \in Nat, DepositKind(fee, principal)
        PROVE  Owed!Next
    BY <1>1, <2>4 DEF DepositKind, Owed!Next, Owed!Deposit
  <2>5. ASSUME NEW paid \in Nat, WithdrawKind(paid) PROVE Owed!Next
    BY <1>1, <2>2, <2>5 DEF WithdrawKind, Owed!Next, Owed!Withdraw
  <2>6. ASSUME NEW dust \in Nat, CollectKind(dust) PROVE Owed!Next
    BY <1>1, <2>2, <2>6 DEF CollectKind, Owed!Next, Owed!Collect
  <2> QED
    BY <2>1, <2>3, <2>4, <2>5, <2>6 DEF SoundStep
<1> QED
  BY <1>2, <1>3

(* The market implements Custody for every price sequence and every engine *)
(* parameter: the vault holds exactly pools, dust, credits and in-flight   *)
(* amounts together, and syncs, migrations, rotations and pre-syncs are    *)
(* invisible to it.                                                        *)
THEOREM MarketKeepsCustody == Spec => KeepsCustody
<1>1. Init => Owed!Init
  BY NewSubPoolSound DEF Init, Owed!Init
<1> QED
  BY <1>1, CustodyStep, MoneyIsInvariant, PTL DEF Spec, KeepsCustody, Owed!Spec

(* And so, after any calls, the vault holds exactly what the sub-pool      *)
(* answers for, and every unit ever deposited is in one of the two vaults  *)
(* or was paid out (assert_funds_conserved).                               *)
THEOREM BooksBalance == Spec => []Owed!Backed
<1>1. Init => Owed!Backed
  BY NewSubPoolSound DEF Init, Owed!Backed
<1>2. MoneyInv /\ Owed!Backed /\ [Next]_vars => Owed!Backed'
  <2> SUFFICES ASSUME MoneyInv, Owed!Backed, [Next]_vars PROVE Owed!Backed'
    OBVIOUS
  <2>1. MoneyInv'
    BY MoneyStep
  <2>2. /\ vault' = Funds(sp)' /\ vault' \in Nat /\ feeVault' \in Nat /\ deposits' \in Nat
        /\ withdrawals' \in Nat
    <3>1. Funds(sp)' \in Nat
      BY <2>1, FundsBySide DEF MoneyInv, Direction
    <3> QED
      BY <2>1, <3>1 DEF MoneyInv
  <2>3. /\ vault \in Nat /\ feeVault \in Nat /\ deposits \in Nat /\ withdrawals \in Nat
        /\ deposits = withdrawals + vault + feeVault
    BY FundsBySide DEF MoneyInv, Direction, Owed!Backed
  <2>4. deposits' = withdrawals' + vault' + feeVault'
    <3>1. CASE UNCHANGED vars
      BY <2>3, <3>1 DEF vars, books
    <3>2. CASE Next
      <4>1. SoundStep
        BY <3>2, StepIsSound
      <4>2. CASE ClearingKind
        BY <2>3, <4>2 DEF ClearingKind, books
      <4>3. CASE \E fee, principal \in Nat : DepositKind(fee, principal)
        BY <2>3, <4>3 DEF DepositKind
      <4>4. CASE \E paid \in Nat : WithdrawKind(paid)
        BY <2>3, <4>4 DEF WithdrawKind
      <4>5. CASE \E dust \in Nat : CollectKind(dust)
        BY <2>3, <4>5 DEF CollectKind
      <4> QED
        BY <4>1, <4>2, <4>3, <4>4, <4>5 DEF SoundStep
    <3> QED
      BY <3>1, <3>2
  <2> QED
    BY <2>2, <2>4 DEF Owed!Backed
<1> QED
  BY <1>1, <1>2, MoneyIsInvariant, PTL DEF Spec

LEMMA EntitledIsPromised ==
  ASSUME NEW s, PoolSound(s), NEW d \in Direction, NEW t \in Ticks(s.dormant[d])
  PROVE  Entitled(s, d, t) = Promised(s.dormant[d], t)
<1>1. StoreTyped(s.dormant[d]) /\ Within(s.dormant[d])
  BY DEF PoolSound, StoreSound
<1> QED
  BY <1>1, PromisedNat DEF Entitled, Due

(* While no position changes, no call takes from a bucket what an earlier  *)
(* distribution gave it: neither compaction of the ledger, nor a merge of  *)
(* another series into the bucket, nor a later distribution.               *)
THEOREM EntitlementIsKept == Spec => EntitlementKept
<1> DEFINE Kept == \A d \in Direction : \A t \in Ticks(sp.dormant[d]) :
                     /\ t \in Ticks(sp'.dormant[d])
                     /\ Entitled(sp', d, t) >= Entitled(sp, d, t)
<1>1. ASSUME MoneyInv, Next, \A i \in PosIds : pos'[i] = pos[i] PROVE Kept
  <2>1. SoundStep
    BY <1>1, StepIsSound
  <2>2. PoolSound(sp) /\ PoolSound(sp')
    BY <1>1, <2>1 DEF MoneyInv, SoundStep, SoundAfter
  <2>3. KeepsAll(sp, sp')
    BY <1>1, <2>1 DEF SoundStep, ClearingKind, DepositKind, WithdrawKind, CollectKind
  <2> SUFFICES ASSUME NEW d \in Direction, NEW t \in Ticks(sp.dormant[d])
               PROVE  /\ t \in Ticks(sp'.dormant[d])
                      /\ Entitled(sp', d, t) >= Entitled(sp, d, t)
    OBVIOUS
  <2>4. /\ t \in Ticks(sp'.dormant[d])
        /\ Promised(sp.dormant[d], t) \in Nat /\ Promised(sp'.dormant[d], t) \in Nat
        /\ Promised(sp.dormant[d], t) <= Promised(sp'.dormant[d], t)
    BY <2>3 DEF KeepsAll, Keeps
  <2>5. /\ Entitled(sp, d, t) = Promised(sp.dormant[d], t)
        /\ Entitled(sp', d, t) = Promised(sp'.dormant[d], t)
    BY <2>2, <2>4, EntitledIsPromised
  <2> QED
    BY <2>4, <2>5
<1>2. MoneyInv /\ [Next]_vars => [(\A i \in PosIds : pos'[i] = pos[i]) => Kept]_vars
  BY <1>1
<1> QED
  BY <1>2, MoneyIsInvariant, PTL DEF Spec, EntitlementKept

-----------------------------------------------------------------------------
(* The invariant: the positions own what is on the books.                  *)
SharesInv == MoneyInv /\ Owned(sp, pos)

LEMMA SharesStep == SharesInv /\ [Next]_vars => SharesInv'
<1> SUFFICES ASSUME SharesInv, [Next]_vars PROVE SharesInv'
  OBVIOUS
<1>1. MoneyInv' /\ Owned(sp, pos)
  BY MoneyStep DEF SharesInv
<1>2. ASSUME NEW p \in Prices, Sync(p) PROVE Owned(sp', pos')
  BY <1>1, <1>2, SyncBacked, MarketParameters DEF Sync, Accept
<1>3. ASSUME NEW p \in Prices, NEW d \in Direction, NEW g \in Grosses, Open(p, d, g)
      PROVE  Owned(sp', pos')
  <2>1. p \in Nat /\ g \in Nat
    BY MarketParameters
  <2> QED
    BY <1>1, <1>3, <2>1, OpenBacked DEF Open, Opened, Accept
<1>4. ASSUME NEW i \in PosIds, NEW p \in Prices,
             Close(i, p) \/ ForceClose(i, p) \/ Claim(i, p)
      PROVE  Owned(sp', pos')
  <2>1. p \in Nat /\ i \in 1 .. Len(pos)
    BY MarketParameters DEF PosIds
  <2>2. CASE Close(i, p)
    BY <1>1, <2>1, <2>2, CloseBacked DEF Close, Settled, Accept
  <2>3. CASE ForceClose(i, p)
    BY <1>1, <2>1, <2>3, ForceCloseBacked DEF ForceClose, Settled, Accept
  <2>4. CASE Claim(i, p)
    BY <1>1, <2>1, <2>4, ClaimBacked DEF Claim, Settled, Accept
  <2> QED
    BY <1>4, <2>2, <2>3, <2>4
<1>5. ASSUME NEW d \in Direction, NEW t, PreSync(d, t) PROVE Owned(sp', pos')
  BY <1>1, <1>5, PreSyncBacked DEF PreSync, Accept
<1>6. ASSUME NEW d \in Direction, Harvest(d) PROVE Owned(sp', pos')
  BY <1>1, <1>6, HarvestBacked DEF Harvest, Accept
<1>7. ASSUME UNCHANGED vars PROVE Owned(sp', pos')
  BY <1>1, <1>7 DEF vars
<1>8. Owned(sp', pos')
  BY <1>2, <1>3, <1>4, <1>5, <1>6, <1>7 DEF Next
<1> QED
  BY <1>1, <1>8 DEF SharesInv

LEMMA SharesInit == Init => SharesInv
<1> SUFFICES ASSUME Init PROVE SharesInv
  OBVIOUS
<1>1. MoneyInv /\ sp = NewSubPool /\ pos = <<>>
  BY MoneyInit DEF Init
<1>2. Listed(sp, pos) /\ 1 .. Len(pos) = {}
  BY <1>1 DEF Listed, MoneyInv, RecordsInv, IsList
<1>3. ASSUME NEW a \in BookAccounts PROVE OnBooks(sp, a) = SumOver(Weights(sp, pos, a), 1 .. Len(pos))
  <2>1. a.dir \in Direction
    BY DEF BookAccounts
  <2>2. OnBooks(sp, a) = 0
    BY <1>1, <2>1 DEF NewSubPool, Both, NewStore, OnBooks, HeldIn, Ticks
  <2> QED
    BY <1>2, <2>2, SumEmpty
<1> QED
  BY <1>1, <1>2, <1>3 DEF SharesInv, Owned, Backed

LEMMA SharesAreInvariant == Spec => []SharesInv
<1> QED
  BY SharesInit, SharesStep, PTL DEF Spec

(* What the accounts say, on the sets of positions SharesBacked speaks of. *)
LEMMA InvGivesShares == SharesInv => SharesBacked
<1> SUFFICES ASSUME SharesInv, NEW d \in Direction
             PROVE  /\ sp.shares[d] = SumOver([i \in InSeries(d) |-> pos[i].shares], InSeries(d))
                    /\ sp.notional[d]
                         = SumOver([i \in InSeries(d) |-> pos[i].notional], InSeries(d))
                    /\ \A t \in Ticks(sp.dormant[d]) :
                         sp.dormant[d].bucket[t].shares =
                           SumOver([i \in InBucket(d, t) |-> Migrated(sp, pos[i]).recovery],
                                   InBucket(d, t))
  BY DEF SharesBacked
<1>1. /\ Listed(sp, pos) /\ Backed(sp, pos) /\ Numbered(sp)
      /\ \A i \in PosIds : Placed(sp, pos[i]) /\ Holding(pos[i])
  BY DEF SharesInv, Owned, Listed, PosIds
<1>2. ASSUME NEW a \in BookAccounts
      PROVE  /\ OnBooks(sp, a) = SumOver(Weights(sp, pos, a), PosIds)
             /\ IsFiniteSet(PosIds) /\ Amounts(Weights(sp, pos, a), PosIds)
             /\ \A i \in PosIds : Weights(sp, pos, a)[i] = Weight(sp, pos[i], a)
  BY <1>1, WeightsAmounts DEF Backed, PosIds
<1>3. \A i \in PosIds : pos[i].shares \in Nat /\ pos[i].notional \in Nat
  BY <1>1 DEF Holding
<1>4. sp.shares[d] = SumOver([i \in InSeries(d) |-> pos[i].shares], InSeries(d))
  <2> DEFINE a == [kind |-> "shares", dir |-> d, tick |-> NoTick]
             f == [i \in InSeries(d) |-> pos[i].shares]
             g == Weights(sp, pos, a)
             R == InSeries(d)
  <2>1. a \in BookAccounts /\ a.kind = "shares" /\ a.dir = d
    BY DEF BookAccounts
  <2> HIDE DEF a
  <2>2. R \in SUBSET PosIds
    BY DEF InSeries
  <2>3. Amounts(f, R)
    BY <1>3, <2>2 DEF Amounts
  <2>4. \A i \in PosIds : g[i] = IF i \in R THEN f[i] ELSE 0
    <3> TAKE i \in PosIds
    <3>1. g[i] = Weight(sp, pos[i], a)
      BY <1>2, <2>1
    <3>2. i \in R <=> pos[i].dir = d /\ pos[i].shares > 0 /\ ~NeedsMigration(sp, pos[i])
      BY DEF InSeries
    <3>3. pos[i].shares = 0 <=> ~(pos[i].shares > 0)
      BY <1>3
    <3> QED
      BY <2>1, <3>1, <3>2, <3>3 DEF Weight
  <2>5. sp.shares[d] = SumOver(g, PosIds) /\ IsFiniteSet(PosIds)
    BY <1>2, <2>1 DEF OnBooks
  <2> HIDE DEF f, g, R
  <2> QED
    BY <2>2, <2>3, <2>4, <2>5, SumOfPart DEF f, R
<1>5. sp.notional[d] = SumOver([i \in InSeries(d) |-> pos[i].notional], InSeries(d))
  <2> DEFINE a == [kind |-> "notional", dir |-> d, tick |-> NoTick]
             f == [i \in InSeries(d) |-> pos[i].notional]
             g == Weights(sp, pos, a)
             R == InSeries(d)
  <2>1. a \in BookAccounts /\ a.kind = "notional" /\ a.dir = d
    BY DEF BookAccounts
  <2> HIDE DEF a
  <2>2. R \in SUBSET PosIds
    BY DEF InSeries
  <2>3. Amounts(f, R)
    BY <1>3, <2>2 DEF Amounts
  <2>4. \A i \in PosIds : g[i] = IF i \in R THEN f[i] ELSE 0
    <3> TAKE i \in PosIds
    <3>1. g[i] = Weight(sp, pos[i], a)
      BY <1>2, <2>1
    <3>2. i \in R <=> pos[i].dir = d /\ pos[i].shares > 0 /\ ~NeedsMigration(sp, pos[i])
      BY DEF InSeries
    <3>3. pos[i].shares = 0 <=> ~(pos[i].shares > 0)
      BY <1>3
    <3> QED
      BY <2>1, <3>1, <3>2, <3>3 DEF Weight
  <2>5. sp.notional[d] = SumOver(g, PosIds) /\ IsFiniteSet(PosIds)
    BY <1>2, <2>1 DEF OnBooks
  <2> HIDE DEF f, g, R
  <2> QED
    BY <2>2, <2>3, <2>4, <2>5, SumOfPart DEF f, R
<1>6. ASSUME NEW t \in Ticks(sp.dormant[d])
      PROVE  sp.dormant[d].bucket[t].shares =
               SumOver([i \in InBucket(d, t) |-> Migrated(sp, pos[i]).recovery], InBucket(d, t))
  <2> DEFINE a == [kind |-> "bucket", dir |-> d, tick |-> t]
             R == InBucket(d, t)
             f == [i \in R |-> Migrated(sp, pos[i]).recovery]
             g == Weights(sp, pos, a)
  <2>1. a \in BookAccounts /\ a.kind = "bucket" /\ a.dir = d /\ a.tick = t
    <3>1. t \in Nat
      BY DEF SharesInv, MoneyInv, PoolSound, StoreSound, StoreTyped
    <3> QED
      BY <3>1 DEF BookAccounts
  <2> HIDE DEF a
  <2>2. R \in SUBSET PosIds
    BY DEF InBucket
  <2>3. ASSUME NEW i \in PosIds PROVE Migrated(sp, pos[i]).recovery \in Nat
    <3>1. pos[i].recovery \in Nat /\ pos[i].shares \in Nat
      BY <1>1 DEF Holding
    <3> QED
      BY <1>1, <3>1, MigratedFields
  <2>4. Amounts(f, R)
    BY <2>2, <2>3 DEF Amounts
  <2>5. \A i \in PosIds : g[i] = IF i \in R THEN f[i] ELSE 0
    <3> TAKE i \in PosIds
    <3>1. g[i] = Weight(sp, pos[i], a)
      BY <1>2, <2>1
    <3>2. i \in R <=> /\ pos[i].dir = d /\ Migrated(sp, pos[i]).recovery > 0
                      /\ Migrated(sp, pos[i]).tick = t
      BY DEF InBucket
    <3>3. Migrated(sp, pos[i]).recovery = 0 <=> ~(Migrated(sp, pos[i]).recovery > 0)
      BY <2>3
    <3> QED
      BY <2>1, <3>1, <3>2, <3>3 DEF Weight
  <2>6. sp.dormant[d].bucket[t].shares = SumOver(g, PosIds) /\ IsFiniteSet(PosIds)
    BY <1>2, <2>1 DEF OnBooks, HeldIn
  <2> HIDE DEF f, g, R
  <2> QED
    BY <2>2, <2>4, <2>5, <2>6, SumOfPart DEF f, R
<1> QED
  BY <1>4, <1>5, <1>6

(* For any prices, deposits and parameters, through every distribution,    *)
(* rotation, migration, compaction and way of leaving, the positions       *)
(* account for exactly the shares and the notional of each running series  *)
(* and the shares of each bucket: nobody's stake is lost or counted twice. *)
THEOREM StakesAddUp == Spec => []SharesBacked
<1> QED
  BY SharesAreInvariant, InvGivesShares, PTL

-----------------------------------------------------------------------------
(***************************************************************************)
(* Solvency.  A position is paid the floored parts of what is in the       *)
(* accounts it has shares in, in proportion to its weight there; the parts *)
(* of one account, over all positions, are within what is in it.           *)
(***************************************************************************)
(* Lazy migration always has a record to follow.                           *)
LEMMA MigrationHasRecord ==
  ASSUME NEW s, NEW q, Numbered(s), Placed(s, q), Holding(q)
  PROVE  CanMigrate(s, q)
<1> SUFFICES ASSUME NeedsMigration(s, q) PROVE RotateRecords(s, q) # {}
  BY DEF CanMigrate
<1>1. /\ q.gen + 1 \in DOMAIN s.rotateLog[q.dir] /\ q.dir \in Direction /\ q.gen \in Nat
      /\ s.gen[q.dir] \in Nat
  BY MigratedFields DEF Placed, Numbered
<1> DEFINE log == s.rotateLog[q.dir]
<1>2. IsLog(log, s.gen[q.dir])
  BY <1>1 DEF Numbered
<1>3. DOMAIN log = 1 .. s.gen[q.dir] /\ \A j \in 1 .. s.gen[q.dir] : log[j].gen = j - 1
  BY <1>2 DEF IsLog
<1>4. RotateRecords(s, q) = {i \in DOMAIN log : log[i].gen = q.gen}
  BY DEF RotateRecords
<1> HIDE DEF log
<1>5. {i \in DOMAIN log : log[i].gen = q.gen} = {q.gen + 1}
  BY <1>1, <1>3, OwnPlace DEF log
<1> QED
  BY <1>4, <1>5

(* The account of the shares of bucket t of side d.                        *)
InTick(d, t) == [kind |-> "bucket", dir |-> d, tick |-> t]

PartOf(s, q, a, amount) ==
  IF Weight(s, q, a) = 0 THEN 0 ELSE MulDivFloor(amount, Weight(s, q, a), OnBooks(s, a))

LEMMA PartsOfAccount ==
  ASSUME NEW s, NEW P, Owned(s, P), NEW a \in BookAccounts, NEW amount \in Nat,
         NEW part, \A i \in 1 .. Len(P) : part[i] = PartOf(s, P[i], a, amount)
  PROVE  Amounts(part, 1 .. Len(P)) /\ SumOver(part, 1 .. Len(P)) <= amount
<1> DEFINE S == 1 .. Len(P)
           w == Weights(s, P, a)
<1>1. /\ Amounts(w, S) /\ IsFiniteSet(S) /\ \A i \in S : w[i] = Weight(s, P[i], a)
      /\ OnBooks(s, a) = SumOver(w, S)
  BY WeightsAmounts DEF Owned, Backed
<1> HIDE DEF w
<1>2. \A i \in S : part[i] = IF w[i] = 0 THEN 0 ELSE MulDivFloor(amount, w[i], SumOver(w, S))
  BY <1>1 DEF PartOf
<1> HIDE DEF S
<1>3. Amounts(part, S) /\ SumOver(part, S) <= amount
  BY <1>1, <1>2, PartsWithin
<1> QED
  BY <1>3 DEF S

ActivePart(s, q, d) == PartOf(s, q, Running(d), s.pool[d])

BucketPart(s, q, d, t) == PartOf(s, q, InTick(d, t), Promised(s.dormant[d], t))

BucketParts(s, q, d) == [t \in Ticks(s.dormant[d]) |-> BucketPart(s, q, d, t)]

(* What position q is owed by side d.                                      *)
SidePart(s, q, d) ==
  ActivePart(s, q, d) + SumOver(BucketParts(s, q, d), Ticks(s.dormant[d]))

(* All the money of a store is promised to its buckets.                    *)
LEMMA PromisesAreMoney ==
  ASSUME NEW st, StoreSound(st), NEW f, \A t \in Ticks(st) : f[t] = Promised(st, t)
  PROVE  Amounts(f, Ticks(st)) /\ SumOver(f, Ticks(st)) = StoreMoney(st)
<1>1. StoreTyped(st) /\ Within(st) /\ IsFiniteSet(Ticks(st))
  BY DEF StoreSound, StoreTyped
<1>2. Amounts(Due(st), Ticks(st)) /\ Amounts(Credit(st), Ticks(st))
  BY <1>1, DueType
<1>3. \A t \in Ticks(st) : f[t] \in Nat /\ f[t] = Credit(st)[t] + Due(st)[t]
  BY <1>1, PromisedNat DEF Credit
<1>4. SumOver(f, Ticks(st)) = SumOver(Credit(st), Ticks(st)) + SumOver(Due(st), Ticks(st))
  BY <1>1, <1>2, <1>3, SumPlus
<1> QED
  BY <1>3, <1>4 DEF Amounts, StoreMoney, StoreSound

LEMMA SidePartsWithin ==
  ASSUME NEW s, NEW P, Owned(s, P), NEW d \in Direction,
         NEW side, \A i \in 1 .. Len(P) : side[i] = SidePart(s, P[i], d)
  PROVE  /\ Amounts(side, 1 .. Len(P))
         /\ SumOver(side, 1 .. Len(P)) <= s.pool[d] + StoreMoney(s.dormant[d])
         /\ SumOver(side, 1 .. Len(P)) \in Nat
         /\ \A i \in 1 .. Len(P) :
              /\ ActivePart(s, P[i], d) \in Nat
              /\ Amounts(BucketParts(s, P[i], d), Ticks(s.dormant[d]))
<1> DEFINE S == 1 .. Len(P)
           st == s.dormant[d]
           R == Ticks(st)
           active == [i \in S |-> ActivePart(s, P[i], d)]
           f == [x \in S \X R |-> BucketPart(s, P[x[1]], d, x[2])]
           row == [i \in S |-> SumOver([t \in R |-> f[<<i, t>>]], R)]
           bound == [t \in R |-> Promised(st, t)]
<1>1. PoolSound(s) /\ StoreSound(st) /\ IsFiniteSet(S) /\ IsFiniteSet(R) /\ R \subseteq Nat
  <2>1. PoolSound(s) /\ IsFiniteSet(S)
    BY WeightsAmounts DEF Owned, Listed
  <2>2. StoreSound(st)
    BY <2>1 DEF PoolSound
  <2> QED
    BY <2>1, <2>2 DEF StoreSound, StoreTyped
<1>2. s.pool[d] \in Nat /\ StoreMoney(st) \in Nat
  BY <1>1, FundsBySide
<1>3. Amounts(active, S) /\ SumOver(active, S) <= s.pool[d]
  <2>1. Running(d) \in BookAccounts
    BY DEF Running, BookAccounts
  <2>2. \A i \in S : active[i] = PartOf(s, P[i], Running(d), s.pool[d])
    BY DEF ActivePart
  <2> HIDE DEF active
  <2> QED
    BY <1>2, <2>1, <2>2, PartsOfAccount
<1>4. Amounts(bound, R) /\ SumOver(bound, R) = StoreMoney(st)
  <2>1. \A t \in R : bound[t] = Promised(st, t)
    OBVIOUS
  <2> HIDE DEF bound
  <2> QED
    BY <1>1, <2>1, PromisesAreMoney
<1>5. ASSUME NEW t \in R
      PROVE  /\ \A i \in S : f[<<i, t>>] \in Nat /\ f[<<i, t>>] = BucketPart(s, P[i], d, t)
             /\ SumOver([i \in S |-> f[<<i, t>>]], S) <= bound[t]
  <2> DEFINE col == [i \in S |-> f[<<i, t>>]]
  <2>1. InTick(d, t) \in BookAccounts
    BY <1>1 DEF InTick, BookAccounts
  <2>2. \A i \in S : f[<<i, t>>] = BucketPart(s, P[i], d, t) /\ col[i] = f[<<i, t>>]
    OBVIOUS
  <2>3. \A i \in S : col[i] = PartOf(s, P[i], InTick(d, t), Promised(st, t))
    BY <2>2 DEF BucketPart
  <2>4. Promised(st, t) \in Nat /\ bound[t] = Promised(st, t)
    BY <1>4 DEF Amounts
  <2> HIDE DEF col, f
  <2>5. Amounts(col, S) /\ SumOver(col, S) <= Promised(st, t)
    BY <2>1, <2>3, <2>4, PartsOfAccount
  <2> QED
    BY <2>2, <2>4, <2>5 DEF Amounts, col
<1>6. ASSUME NEW i \in S
      PROVE  /\ [t \in R |-> f[<<i, t>>]] = BucketParts(s, P[i], d)
             /\ Amounts(BucketParts(s, P[i], d), R)
  BY <1>5 DEF BucketParts, Amounts
<1> HIDE DEF f
<1>7. Amounts(row, S) /\ SumOver(row, S) <= SumOver(bound, R)
  <2>1. \A i \in S, t \in R : f[<<i, t>>] \in Nat
    BY <1>5
  <2>2. \A t \in R : SumOver([i \in S |-> f[<<i, t>>]], S) <= bound[t]
    BY <1>5
  <2>3. \A i \in S : row[i] = SumOver([t \in R |-> f[<<i, t>>]], R)
    OBVIOUS
  <2> HIDE DEF row, bound, S, R
  <2> QED
    BY ONLY <1>1, <1>4, <2>1, <2>2, <2>3, SumOfSumsWithin
<1>8. \A i \in S : side[i] = active[i] + row[i]
  BY <1>6 DEF SidePart
<1>9. \A i \in S : active[i] = ActivePart(s, P[i], d)
  OBVIOUS
<1> HIDE DEF active, row, bound
<1>10. SumOver(side, S) = SumOver(active, S) + SumOver(row, S)
  BY <1>1, <1>3, <1>7, <1>8, SumPlus
<1>11. SumOver(active, S) \in Nat /\ SumOver(row, S) \in Nat
  BY <1>1, <1>3, <1>7, SumNat
<1>12. SumOver(side, S) \in Nat /\ SumOver(side, S) <= s.pool[d] + StoreMoney(st)
  BY <1>2, <1>3, <1>4, <1>7, <1>10, <1>11
<1>13. Amounts(side, S) /\ \A i \in S : ActivePart(s, P[i], d) \in Nat
  <2> HIDE DEF S
  <2>1. \A i \in S : active[i] \in Nat /\ row[i] \in Nat
    BY <1>3, <1>7 DEF Amounts
  <2> QED
    BY <1>8, <1>9, <2>1 DEF Amounts
<1> QED
  BY <1>6, <1>12, <1>13

(* What remains of a position's claim once it is brought to its series.    *)
LEMMA ReadyPosition ==
  ASSUME NEW s, NEW P, Owned(s, P), NEW i \in 1 .. Len(P)
  PROVE  /\ Placed(s, P[i]) /\ Holding(P[i]) /\ CanMigrate(s, P[i])
         /\ Placed(s, Migrated(s, P[i])) /\ Holding(Migrated(s, P[i]))
         /\ OneSeries(Migrated(s, P[i])) /\ Migrated(s, P[i]).dir = P[i].dir
         /\ ~NeedsMigration(s, Migrated(s, P[i]))
         /\ \A a : Weight(s, Migrated(s, P[i]), a) = Weight(s, P[i], a)
<1>1. PICK q : q = P[i]
  OBVIOUS
<1>2. Numbered(s) /\ Placed(s, q) /\ Holding(q) /\ OneSeries(q)
  BY <1>1 DEF Owned, Listed
<1>3. CanMigrate(s, q)
  BY <1>2, MigrationHasRecord
<1>4. /\ Placed(s, Migrated(s, q)) /\ Holding(Migrated(s, q)) /\ OneSeries(Migrated(s, q))
      /\ ~NeedsMigration(s, Migrated(s, q))
      /\ \A a : Weight(s, Migrated(s, q), a) = Weight(s, q, a)
  BY <1>2, <1>3, MigratedWeight
<1>5. Migrated(s, q).dir = q.dir
  BY <1>2, <1>3, MigratedHolding
<1> QED
  BY <1>1, <1>2, <1>3, <1>4, <1>5

(* A position at rest weighs what it holds.                                *)
LEMMA RestingWeight ==
  ASSUME NEW s, NEW m, Numbered(s), Placed(s, m), Holding(m), ~NeedsMigration(s, m)
  PROVE  /\ Weight(s, m, Running(m.dir)) = m.shares
         /\ Weight(s, m, InTick(m.dir, m.tick)) = m.recovery
<1>1. Migrated(s, m).recovery = m.recovery /\ Migrated(s, m).tick = m.tick
  BY MigratedFields
<1> QED
  BY <1>1 DEF Weight, Running, InTick

(* What it holds is on the books, so it can be taken off them.             *)
LEMMA CanRedeemAll ==
  ASSUME NEW s, NEW P, Owned(s, P), NEW i \in 1 .. Len(P), NEW m, m = Migrated(s, P[i])
  PROVE  /\ CanLeaveRecovery(s, m)
         /\ m.shares <= s.shares[m.dir]
         /\ m.shares > 0 => m.notional <= s.notional[m.dir]
         /\ m.recovery > 0 => m.tick \in Ticks(s.dormant[m.dir])
<1>1. /\ Placed(s, m) /\ Holding(m) /\ ~NeedsMigration(s, m)
      /\ \A a : Weight(s, m, a) = Weight(s, P[i], a)
  BY ReadyPosition
<1>2. /\ Numbered(s) /\ m.dir \in Direction /\ m.tick \in Nat \cup {NoTick}
      /\ m.shares \in Nat /\ m.notional \in Nat /\ m.recovery \in Nat
  BY <1>1 DEF Owned, Listed, Holding
<1>3. ASSUME NEW a \in BookAccounts PROVE Weight(s, m, a) <= OnBooks(s, a)
  BY <1>1, WeightWithin
<1>4. m.shares <= s.shares[m.dir]
  <2>1. Running(m.dir) \in BookAccounts
    BY <1>2 DEF Running, BookAccounts
  <2>2. Weight(s, m, Running(m.dir)) = m.shares /\ OnBooks(s, Running(m.dir)) = s.shares[m.dir]
    BY <1>1, <1>2, RestingWeight DEF OnBooks, Running
  <2> QED
    BY <1>3, <2>1, <2>2
<1>5. m.shares > 0 => m.notional <= s.notional[m.dir]
  <2> SUFFICES ASSUME m.shares > 0 PROVE m.notional <= s.notional[m.dir]
    OBVIOUS
  <2> DEFINE a == [kind |-> "notional", dir |-> m.dir, tick |-> NoTick]
  <2>1. a \in BookAccounts
    BY <1>2 DEF BookAccounts
  <2>2. Weight(s, m, a) = m.notional /\ OnBooks(s, a) = s.notional[m.dir]
    BY <1>1, <1>2 DEF Weight, OnBooks
  <2> HIDE DEF a
  <2> QED
    BY <1>3, <2>1, <2>2
<1>6. m.recovery <= HeldIn(s.dormant[m.dir], m.tick)
  <2>1. InTick(m.dir, m.tick) \in BookAccounts
    BY <1>2 DEF InTick, BookAccounts
  <2>2. /\ Weight(s, m, InTick(m.dir, m.tick)) = m.recovery
        /\ OnBooks(s, InTick(m.dir, m.tick)) = HeldIn(s.dormant[m.dir], m.tick)
    BY <1>1, <1>2, RestingWeight DEF OnBooks, InTick
  <2> QED
    BY <1>3, <2>1, <2>2
<1>7. m.recovery > 0 => /\ m.tick \in Ticks(s.dormant[m.dir])
                        /\ CanRedeem(s.dormant[m.dir], m.tick, m.recovery)
  BY <1>2, <1>6 DEF HeldIn, CanRedeem
<1> QED
  BY <1>4, <1>5, <1>7 DEF CanLeaveRecovery

LEMMA PayoutWithin ==
  ASSUME NEW s, NEW P, Owned(s, P), SubPoolSound(s), NEW i \in 1 .. Len(P),
         NEW m, m = Migrated(s, P[i])
  PROVE  /\ m.dir \in Direction
         /\ ActiveValue(s, m) \in Nat /\ RecoveryValue(s, m) \in Nat
         /\ SidePart(s, P[i], m.dir) \in Nat
         /\ Payout(s, P[i]) = ActiveValue(s, m) + RecoveryValue(s, m)
         /\ Payout(s, P[i]) <= SidePart(s, P[i], m.dir)
<1> DEFINE d == m.dir
           st == s.dormant[d]
           S == 1 .. Len(P)
           side == [j \in S |-> SidePart(s, P[j], d)]
           parts == BucketParts(s, P[i], d)
<1>1. /\ Placed(s, m) /\ Holding(m) /\ ~NeedsMigration(s, m)
      /\ \A a : Weight(s, m, a) = Weight(s, P[i], a)
  BY ReadyPosition
<1>2. /\ Numbered(s) /\ PoolSound(s) /\ d \in Direction
      /\ m.shares \in Nat /\ m.recovery \in Nat
  BY <1>1 DEF Owned, Listed, Holding
<1>3. StoreSound(st) /\ IsFiniteSet(Ticks(st)) /\ s.pool[d] \in Nat /\ s.shares[d] \in Nat
  BY <1>2 DEF PoolSound, StoreSound, StoreTyped
<1>4. /\ ActivePart(s, P[i], d) \in Nat /\ Amounts(parts, Ticks(st))
      /\ SidePart(s, P[i], d) \in Nat
      /\ SidePart(s, P[i], d) = ActivePart(s, P[i], d) + SumOver(parts, Ticks(st))
  <2>1. \A j \in S : side[j] = SidePart(s, P[j], d)
    OBVIOUS
  <2> HIDE DEF side, d
  <2>2. ActivePart(s, P[i], d) \in Nat /\ Amounts(parts, Ticks(st))
    BY <1>2, <2>1, SidePartsWithin
  <2>3. SumOver(parts, Ticks(st)) \in Nat
    BY <1>3, <2>2, SumNat
  <2> QED
    BY <2>2, <2>3 DEF SidePart
<1>5. SumOver(parts, Ticks(st)) \in Nat
  BY <1>3, <1>4, SumNat
<1>6. /\ Weight(s, P[i], Running(d)) = m.shares
      /\ Weight(s, P[i], InTick(d, m.tick)) = m.recovery
  BY <1>1, <1>2, RestingWeight
<1>7. ActiveValue(s, m) \in Nat /\ ActiveValue(s, m) <= ActivePart(s, P[i], d)
  <2>1. ActiveValue(s, m) \in Nat
    BY <1>1, <1>2, ActiveValueNat
  <2>2. CASE m.shares = 0 \/ s.shares[d] = 0
    BY <1>4, <2>2 DEF ActiveValue
  <2>3. CASE m.shares # 0 /\ s.shares[d] # 0
    <3>1. ActiveValue(s, m) = MulDivFloor(s.pool[d], m.shares, s.shares[d])
      BY <2>3 DEF ActiveValue
    <3>2. ActivePart(s, P[i], d) = MulDivFloor(s.pool[d], m.shares, s.shares[d])
      <4>1. OnBooks(s, Running(d)) = s.shares[d]
        BY DEF OnBooks, Running
      <4> QED
        BY <1>6, <2>3, <4>1 DEF ActivePart, PartOf
    <3> QED
      BY <2>1, <3>1, <3>2
  <2> QED
    BY <2>1, <2>2, <2>3
<1>8. RecoveryValue(s, m) \in Nat /\ RecoveryValue(s, m) <= SumOver(parts, Ticks(st))
  <2>1. CASE m.recovery = 0
    BY <1>5, <2>1 DEF RecoveryValue
  <2>2. CASE m.recovery # 0
    <3> DEFINE k == m.tick
    <3>1. CanRedeem(st, k, m.recovery) /\ k \in Ticks(st)
      BY <1>2, <2>2, CanRedeemAll DEF CanLeaveRecovery
    <3>2. Redeemable(st, k, m.recovery)
            = MulDivFloor(Promised(st, k), m.recovery, st.bucket[k].shares)
      BY <1>2, <1>3, <3>1, RedeemShares
    <3>3. parts[k] = MulDivFloor(Promised(st, k), m.recovery, st.bucket[k].shares)
      <4>1. OnBooks(s, InTick(d, k)) = st.bucket[k].shares
        BY <3>1 DEF OnBooks, InTick, HeldIn
      <4>2. parts[k] = BucketPart(s, P[i], d, k)
        BY <3>1 DEF BucketParts
      <4> QED
        BY <1>6, <2>2, <4>1, <4>2 DEF BucketPart, PartOf
    <3>4. RecoveryValue(s, m) = parts[k]
      BY <2>2, <3>2, <3>3 DEF RecoveryValue
    <3>5. PICK R : R = Ticks(st) \ {k}
      OBVIOUS
    <3>6. IsFiniteSet(R) /\ Amounts(parts, R)
      <4>1. R \subseteq Ticks(st)
        BY <3>5
      <4> QED
        BY <1>3, <1>4, <4>1, FS_Subset DEF Amounts
    <3> HIDE DEF parts, k
    <3>7. SumOver(parts, Ticks(st)) = parts[k] + SumOver(parts, R)
      BY <1>3, <1>4, <3>1, <3>5, SumRemove
    <3>8. parts[k] \in Nat /\ SumOver(parts, R) \in Nat
      BY <1>4, <3>1, <3>6, SumNat DEF Amounts
    <3> QED
      BY <3>4, <3>7, <3>8
  <2> QED
    BY <2>1, <2>2
<1>9. Payout(s, P[i]) = ActiveValue(s, m) + RecoveryValue(s, m)
  BY DEF Payout
<1> HIDE DEF parts, d
<1>10. Payout(s, P[i]) <= SidePart(s, P[i], d)
  BY <1>4, <1>5, <1>7, <1>8, <1>9
<1> QED
  BY <1>2, <1>4, <1>7, <1>8, <1>9, <1>10 DEF d

LEMMA InvGivesSolvent == SharesInv => Solvent
<1> SUFFICES ASSUME SharesInv PROVE Solvent
  OBVIOUS
<1> DEFINE S == PosIds
           pay == [i \in S |-> Payout(sp, pos[i])]
           long == [i \in S |-> SidePart(sp, pos[i], "Long")]
           short == [i \in S |-> SidePart(sp, pos[i], "Short")]
           both == [i \in S |-> SidePart(sp, pos[i], "Long") + SidePart(sp, pos[i], "Short")]
<1>1. /\ Owned(sp, pos) /\ SubPoolSound(sp) /\ PoolSound(sp) /\ vault = Funds(sp)
      /\ S = 1 .. Len(pos)
  BY DEF SharesInv, MoneyInv, PosIds
<1>2. IsFiniteSet(S)
  BY <1>1, WeightsAmounts DEF Owned
<1>3. "Long" \in Direction /\ "Short" \in Direction
  BY DEF Direction
<1>4. /\ \A i \in S : long[i] = SidePart(sp, pos[i], "Long")
      /\ \A i \in S : short[i] = SidePart(sp, pos[i], "Short")
      /\ \A i \in S : both[i] = long[i] + short[i] /\ pay[i] = Payout(sp, pos[i])
  OBVIOUS
<1> HIDE DEF long, short, both, S
<1>5. /\ Amounts(long, S) /\ SumOver(long, S) \in Nat
      /\ SumOver(long, S) <= sp.pool["Long"] + StoreMoney(sp.dormant["Long"])
  BY <1>1, <1>3, <1>4, SidePartsWithin
<1>6. /\ Amounts(short, S) /\ SumOver(short, S) \in Nat
      /\ SumOver(short, S) <= sp.pool["Short"] + StoreMoney(sp.dormant["Short"])
  BY <1>1, <1>3, <1>4, SidePartsWithin
<1>7. SumOver(both, S) = SumOver(long, S) + SumOver(short, S)
  BY <1>2, <1>4, <1>5, <1>6, SumPlus
<1>8. ASSUME NEW i \in S PROVE pay[i] \in Nat /\ both[i] \in Nat /\ pay[i] <= both[i]
  <2>1. PICK m : m = Migrated(sp, pos[i])
    OBVIOUS
  <2>2. /\ m.dir \in Direction /\ Payout(sp, pos[i]) \in Nat
        /\ Payout(sp, pos[i]) <= SidePart(sp, pos[i], m.dir)
    <3>1. /\ m.dir \in Direction /\ ActiveValue(sp, m) \in Nat /\ RecoveryValue(sp, m) \in Nat
          /\ Payout(sp, pos[i]) = ActiveValue(sp, m) + RecoveryValue(sp, m)
          /\ Payout(sp, pos[i]) <= SidePart(sp, pos[i], m.dir)
      BY <1>1, <2>1, PayoutWithin
    <3> QED
      BY <3>1
  <2>3. long[i] \in Nat /\ short[i] \in Nat
    BY <1>5, <1>6 DEF Amounts
  <2>4. SidePart(sp, pos[i], m.dir) = long[i] \/ SidePart(sp, pos[i], m.dir) = short[i]
    BY <1>4, <2>2 DEF Direction
  <2>5. pay[i] = Payout(sp, pos[i]) /\ both[i] = long[i] + short[i]
    BY <1>4
  <2> HIDE DEF pay
  <2> QED
    BY <2>2, <2>3, <2>4, <2>5
<1> HIDE DEF pay
<1>9. SumOver(pay, S) \in Nat /\ SumOver(pay, S) <= SumOver(both, S)
  <2>1. Amounts(pay, S) /\ Amounts(both, S) /\ \A i \in S : pay[i] <= both[i]
    BY <1>8 DEF Amounts
  <2> QED
    BY <1>2, <2>1, SumMonotone, SumNat
<1>10. /\ vault = SideFunds(sp, "Long") + SideFunds(sp, "Short")
       /\ \A d \in Direction :
            /\ SideFunds(sp, d) = sp.pool[d] + sp.dust[d] + StoreMoney(sp.dormant[d])
            /\ sp.pool[d] \in Nat /\ sp.dust[d] \in Nat /\ StoreMoney(sp.dormant[d]) \in Nat
  BY <1>1, <1>3, FundsBySide DEF Funds
<1>11. SumOver(pay, S) + sp.dust["Long"] + sp.dust["Short"] <= vault
  BY <1>3, <1>5, <1>6, <1>7, <1>9, <1>10
<1> QED
  BY <1>11 DEF Solvent, pay, S

(* For any prices, deposits and parameters, after any sequence of calls    *)
(* the vault could pay every position what a close would pay it, all at    *)
(* once, and still hold the dust: no rounding anywhere in distributing,    *)
(* replaying, merging, minting or redeeming creates a claim on money that  *)
(* is not there.                                                           *)
THEOREM EveryoneCanBePaid == Spec => []Solvent
<1> QED
  BY SharesAreInvariant, InvGivesSolvent, PTL

-----------------------------------------------------------------------------
(***************************************************************************)
(* Leaving.  At the price of the last sync a call's sync changes nothing,  *)
(* migration finds its record, and what the position takes off the books   *)
(* leaves them balanced: the check a call ends with does not fail.         *)
(***************************************************************************)
LEMMA FloorOfWhole ==
  ASSUME NEW x \in Nat \ {0}, NEW y \in Nat \ {0}, NEW z \in Nat, z <= y
  PROVE  MulDivFloor(x, z, y) \in Nat /\ (MulDivFloor(x, z, y) = x <=> z = y)
         /\ MulDivFloor(x, z, y) <= x
<1> DEFINE q == MulDivFloor(x, z, y)
<1>1. q \in Nat /\ q * y <= x * z /\ x * z < (q + 1) * y
  BY DEF MulDivFloor
<1> HIDE DEF q
<1>2. CASE z = y
  <2>1. x * y < (q + 1) * y /\ q * y <= x * y
    BY <1>1, <1>2
  <2>2. x < q + 1 /\ q <= x
    BY <1>1, <2>1
  <2> QED
    BY <1>1, <1>2, <2>2 DEF q
<1>3. CASE z # y
  <2>1. z + 1 <= y
    BY <1>3
  <2>2. x * z + x <= x * y
    BY <2>1
  <2>3. q * y < x * y
    BY <1>1, <2>2
  <2>4. q < x
    BY <1>1, <2>3
  <2> QED
    BY <1>1, <1>3, <2>4 DEF q
<1> QED
  BY <1>2, <1>3

LEMMA ActiveLeaveChecks ==
  ASSUME NEW s, NEW P, Owned(s, P), SubPoolSound(s), NEW i \in 1 .. Len(P),
         NEW m, m = Migrated(s, P[i]), m.shares > 0
  PROVE  LET v == ActiveValue(s, m)
             u == LeaveActive(s, m, v)
         IN  /\ CanLeaveActive(s, m) /\ HasPool(s, m)
             /\ v \in Nat
             /\ PoolSound(u) /\ SubPoolSound(u) /\ u.dormant = s.dormant
<1> DEFINE v == ActiveValue(s, m)
           u == LeaveActive(s, m, v)
           d == m.dir
<1>1. /\ Holding(m) /\ ~NeedsMigration(s, m)
      /\ \A a : Weight(s, m, a) = Weight(s, P[i], a)
  BY ReadyPosition
<1>2. PoolSound(s) /\ d \in Direction /\ m.shares \in Nat /\ m.notional \in Nat
  BY <1>1 DEF Owned, Listed, Holding
<1>3. CanLeaveActive(s, m)
  BY CanRedeemAll DEF CanLeaveActive
<1>4. HasPool(s, m)
  BY <1>1, <1>2, SharesHavePool
<1>5. PICK x, y, z \in Nat :
        /\ x = s.pool[d] /\ y = s.shares[d] /\ z = m.shares
        /\ x > 0 /\ y > 0 /\ z > 0 /\ z <= y
  BY <1>2, <1>3, <1>4 DEF PoolSound, HasPool, CanLeaveActive
<1>6. v = MulDivFloor(x, z, y)
  BY <1>5 DEF ActiveValue
<1>7. v \in Nat /\ v <= x /\ (v = x <=> z = y)
  <2>1. x \in Nat \ {0} /\ y \in Nat \ {0} /\ z <= y
    BY <1>5
  <2>2. /\ MulDivFloor(x, z, y) \in Nat /\ (MulDivFloor(x, z, y) = x <=> z = y)
        /\ MulDivFloor(x, z, y) <= x
    BY <2>1, FloorOfWhole
  <2> HIDE DEF v
  <2> QED
    BY <1>6, <2>2
<1> HIDE DEF v
<1>8. PoolSound(u) /\ u.dormant = s.dormant
  BY <1>2, <1>3, <1>5, <1>7, LeaveActiveSound
<1>9. /\ u.pool = [s.pool EXCEPT ![d] = @ - v]
      /\ u.shares = [s.shares EXCEPT ![d] = @ - m.shares]
      /\ u.recovery = s.recovery
  BY <1>2 DEF LeaveActive, PoolSound, IsSubPool, SubPoolFields
<1> HIDE DEF u, d
<1>10. ASSUME NEW e \in Direction
       PROVE  /\ (u.pool[e] = 0) = (u.shares[e] = 0)
              /\ TotalRecoveryShares(u.dormant[e]) = u.recovery[e]
              /\ CheckStore(u.dormant[e])
  <2>1. /\ (s.pool[e] = 0) = (s.shares[e] = 0)
        /\ TotalRecoveryShares(u.dormant[e]) = u.recovery[e]
        /\ CheckStore(u.dormant[e])
    BY <1>8, <1>9 DEF SubPoolSound
  <2>2. CASE e = d
    <3>1. u.pool[e] = x - v /\ u.shares[e] = y - z
      BY <1>2, <1>5, <1>9, <2>2 DEF PoolSound
    <3>2. x - v = 0 <=> y - z = 0
      BY <1>5, <1>7
    <3>3. (u.pool[e] = 0) = (u.shares[e] = 0)
      BY <3>1, <3>2
    <3> QED
      BY <2>1, <3>3
  <2>3. CASE e # d
    <3>1. u.pool[e] = s.pool[e] /\ u.shares[e] = s.shares[e]
      BY <1>2, <1>9, <2>3 DEF PoolSound
    <3> QED
      BY <2>1, <3>1
  <2> QED
    BY <2>2, <2>3
<1>11. SubPoolSound(u)
  BY <1>10 DEF SubPoolSound
<1> QED
  BY <1>3, <1>4, <1>7, <1>8, <1>11 DEF u, v

LEMMA RecoveryLeaveChecks ==
  ASSUME NEW s, PoolSound(s), SubPoolSound(s), NEW m, m.dir \in Direction, m.recovery \in Nat,
         CanLeaveRecovery(s, m)
  PROVE  SubPoolSound(LeaveRecovery(s, m)) /\ PoolSound(LeaveRecovery(s, m))
<1> DEFINE u == LeaveRecovery(s, m)
           d == m.dir
           st == s.dormant[d]
           r == Redeem(st, m.tick, m.recovery)
<1>1. PoolSound(u)
  BY LeaveRecoverySound
<1>2. CASE m.recovery = 0
  BY <1>1, <1>2 DEF LeaveRecovery
<1>3. CASE m.recovery # 0
  <2>1. d \in Direction /\ StoreSound(st) /\ TotalRecoveryShares(st) = s.recovery[d]
    BY DEF PoolSound, SubPoolSound
  <2>2. /\ TotalRecoveryShares(r) + m.recovery = TotalRecoveryShares(st)
        /\ TotalRecoveryShares(r) \in Nat
    BY <1>3, <2>1, RedeemTotal DEF CanLeaveRecovery
  <2>3. u = [s EXCEPT !.dormant[d] = r, !.recovery[d] = @ - m.recovery]
    BY <1>3 DEF LeaveRecovery
  <2> HIDE DEF u, d, r
  <2>4. /\ u.pool = s.pool /\ u.shares = s.shares
        /\ u.recovery = [s.recovery EXCEPT ![d] = @ - m.recovery]
        /\ u.dormant = [s.dormant EXCEPT ![d] = r]
    BY <2>3 DEF PoolSound, IsSubPool, SubPoolFields
  <2>5. ASSUME NEW e \in Direction
        PROVE  /\ (u.pool[e] = 0) = (u.shares[e] = 0)
               /\ TotalRecoveryShares(u.dormant[e]) = u.recovery[e]
               /\ CheckStore(u.dormant[e])
    <3>1. /\ (s.pool[e] = 0) = (s.shares[e] = 0)
          /\ TotalRecoveryShares(s.dormant[e]) = s.recovery[e]
          /\ CheckStore(u.dormant[e])
      BY <1>1, CoveredChecks DEF SubPoolSound, PoolSound
    <3>2. CASE e = d
      <4>1. u.dormant[e] = r /\ u.recovery[e] = s.recovery[d] - m.recovery
        BY <2>1, <2>4, <3>2 DEF PoolSound
      <4>2. TotalRecoveryShares(r) = s.recovery[d] - m.recovery
        BY <2>1, <2>2
      <4> QED
        BY <2>2, <2>4, <3>1, <4>1, <4>2
    <3>3. CASE e # d
      <4>1. u.dormant[e] = s.dormant[e] /\ u.recovery[e] = s.recovery[e]
        BY <2>1, <2>4, <3>3 DEF PoolSound
      <4> QED
        BY <2>4, <3>1, <4>1
    <3> QED
      BY <3>2, <3>3
  <2>6. SubPoolSound(u)
    BY <2>5 DEF SubPoolSound
  <2> QED
    BY <1>1, <2>6 DEF u
<1> QED
  BY <1>2, <1>3

(* Whatever part of a position leaves, its own check passes.               *)
LEMMA LeavingChecks ==
  ASSUME NEW s, NEW P, Owned(s, P), SubPoolSound(s), NEW i \in 1 .. Len(P),
         NEW m, m = Migrated(s, P[i])
  PROVE  LET left == LeaveRecovery(IF m.shares > 0 THEN LeaveActive(s, m, ActiveValue(s, m))
                                   ELSE s, m)
         IN  /\ Checked(left).err = "Ok"
             /\ \A x : Checked([left EXCEPT !.dust[m.dir] = @ + x]).err = "Ok"
<1> DEFINE base == IF m.shares > 0 THEN LeaveActive(s, m, ActiveValue(s, m)) ELSE s
           left == LeaveRecovery(base, m)
<1>1. Holding(m) /\ CanLeaveRecovery(s, m) /\ PoolSound(s)
  BY ReadyPosition, CanRedeemAll DEF Owned, Listed
<1>2. m.dir \in Direction /\ m.recovery \in Nat
  BY <1>1 DEF Holding
<1>3. PoolSound(base) /\ SubPoolSound(base) /\ base.dormant = s.dormant
  <2>1. CASE m.shares > 0
    BY <2>1, ActiveLeaveChecks
  <2>2. CASE ~(m.shares > 0)
    BY <1>1, <2>2
  <2> QED
    BY <2>1, <2>2
<1> HIDE DEF base
<1>4. CanLeaveRecovery(base, m)
  BY <1>1, <1>3 DEF CanLeaveRecovery
<1>5. SubPoolSound(left) /\ PoolSound(left)
  BY <1>2, <1>3, <1>4, RecoveryLeaveChecks
<1> HIDE DEF left
<1>6. Checked(left).err = "Ok"
  BY <1>5 DEF Checked, Ok
<1>7. ASSUME NEW x PROVE Checked([left EXCEPT !.dust[m.dir] = @ + x]).err = "Ok"
  <2> DEFINE u == [left EXCEPT !.dust[m.dir] = @ + x]
  <2>1. /\ u.pool = left.pool /\ u.shares = left.shares /\ u.recovery = left.recovery
        /\ u.dormant = left.dormant
    BY <1>5 DEF PoolSound, IsSubPool, SubPoolFields
  <2> HIDE DEF u
  <2>2. SubPoolSound(u)
    BY <1>5, <2>1 DEF SubPoolSound
  <2>3. Checked(u).err = "Ok"
    BY <2>2 DEF Checked, Ok
  <2> QED
    BY <2>3 DEF u
<1> QED
  BY <1>6, <1>7 DEF left, base

LEMMA TouchAtRest ==
  ASSUME NEW s, NEW P, Owned(s, P), SubPoolSound(s), NEW i \in 1 .. Len(P)
  PROVE  LET t == Touch(s, s.lastPrice, P[i])
         IN  t.err = "Ok" /\ t.sp = s /\ t.pos = Migrated(s, P[i])
<1> DEFINE q == P[i]
           m == Migrated(s, q)
<1>1. CanMigrate(s, q) /\ CanLeaveRecovery(s, m) /\ IsSubPool(s)
  BY ReadyPosition, CanRedeemAll DEF Owned, Listed, PoolSound
<1>2. SyncPool(s, s.lastPrice) = Ok(s)
  <2>1. SyncPool(s, s.lastPrice) = Checked([s EXCEPT !.lastPrice = s.lastPrice])
    BY DEF SyncPool
  <2>2. [s EXCEPT !.lastPrice = s.lastPrice] = s
    BY <1>1 DEF IsSubPool, SubPoolFields
  <2> QED
    BY <2>1, <2>2 DEF Checked
<1> HIDE DEF m, q
<1>3. Touch(s, s.lastPrice, q) = [err |-> "Ok", sp |-> s, pos |-> m]
  BY <1>1, <1>2 DEF Touch, Ok, m
<1> QED
  BY <1>3 DEF m, q

(* The position can leave s: a close pays it, or is refused because there  *)
(* is nothing to pay, and then a force-close removes it.                   *)
Leaves(close, force) ==
  \/ close.err = "Ok" /\ close.paid > 0
  \/ close.err = "WithdrawableZero" /\ force.err = "Ok"

LEMMA PositionLeaves ==
  ASSUME NEW s, NEW P, Owned(s, P), SubPoolSound(s), NEW i \in 1 .. Len(P),
         P[i].status # "Closed"
  PROVE  Leaves(ClosePosition(s, s.lastPrice, P[i]), ForceClosePosition(s, s.lastPrice, P[i]))
<1> DEFINE q == P[i]
           m == Migrated(s, q)
           t == Touch(s, s.lastPrice, q)
           a == ActiveValue(s, m)
           r == RecoveryValue(s, m)
           base == IF m.shares > 0 THEN LeaveActive(s, m, a) ELSE s
           left == LeaveRecovery(base, m)
           close == ClosePosition(s, s.lastPrice, q)
           force == ForceClosePosition(s, s.lastPrice, q)
<1>1. t.err = "Ok" /\ t.sp = s /\ t.pos = m
  BY TouchAtRest
<1>2. a \in Nat /\ r \in Nat
  <2>1. PICK n : n = Migrated(s, P[i])
    OBVIOUS
  <2>2. ActiveValue(s, n) \in Nat /\ RecoveryValue(s, n) \in Nat
    BY <2>1, PayoutWithin
  <2> QED
    BY <2>1, <2>2
<1>3. m.shares \in Nat /\ q.status \in {"Open", "Dormant"}
  BY ReadyPosition DEF Holding
<1>4. /\ HasPool(s, m) <=> m.shares > 0
      /\ m.shares > 0 => CanLeaveActive(s, m)
  <2>1. PICK n : n = Migrated(s, P[i])
    OBVIOUS
  <2>2. n.shares > 0 => CanLeaveActive(s, n) /\ HasPool(s, n)
    BY <2>1, ActiveLeaveChecks
  <2> QED
    BY <2>1, <2>2 DEF HasPool
<1>5. Checked(left).err = "Ok" /\ \A x : Checked([left EXCEPT !.dust[m.dir] = @ + x]).err = "Ok"
  <2>1. PICK n : n = Migrated(s, P[i])
    OBVIOUS
  <2>2. LET l == LeaveRecovery(IF n.shares > 0 THEN LeaveActive(s, n, ActiveValue(s, n))
                               ELSE s, n)
        IN  /\ Checked(l).err = "Ok"
            /\ \A x : Checked([l EXCEPT !.dust[n.dir] = @ + x]).err = "Ok"
    BY ONLY SMTT(30), Owned(s, P), SubPoolSound(s), i \in 1 .. Len(P), <2>1, LeavingChecks
  <2> QED
    BY <2>1, <2>2
<1>6. close = CloseTouched(t) /\ force = ForceCloseTouched(t)
  BY <1>3 DEF ClosePosition, ForceClosePosition
<1> HIDE DEF t, q, m
<1>7. CASE a + r = 0
  <2>1. close.err = "WithdrawableZero"
    BY <1>1, <1>2, <1>4, <1>6, <1>7 DEF CloseTouched, Fail
  <2>2. a = 0
    BY <1>2, <1>7
  <2>3. base = IF m.shares > 0 THEN LeaveActive(s, m, 0) ELSE s
    BY <2>2
  <2>4. force = Finished([left EXCEPT !.dust[m.dir] = @ + r], 0, Closed(WithoutShares(m)))
    BY <1>1, <1>4, <1>6, <2>2, <2>3 DEF ForceCloseTouched
  <2>5. force.err = "Ok"
    <3>1. Checked([left EXCEPT !.dust[m.dir] = @ + r]).err = "Ok"
      BY <1>5
    <3> HIDE DEF force, left
    <3> QED
      BY <2>4, <3>1 DEF Finished
  <2> QED
    BY <2>1, <2>5 DEF Leaves, q
<1>8. CASE a + r # 0
  <2>1. close = Finished(left, a + r, Closed(IF HasPool(s, m) THEN WithoutShares(m)
                                             ELSE WithoutRecovery(m)))
    BY <1>1, <1>4, <1>6, <1>8 DEF CloseTouched
  <2>2. close.err = "Ok" /\ close.paid = a + r
    BY <1>5, <2>1 DEF Finished
  <2>3. close.paid > 0
    BY <1>2, <1>8, <2>2
  <2> QED
    BY <2>2, <2>3 DEF Leaves, q
<1> QED
  BY <1>7, <1>8

LEMMA InvGivesLeave == SharesInv => CanAlwaysLeave
<1> SUFFICES ASSUME SharesInv, NEW i \in PosIds, pos[i].status # "Closed"
             PROVE  Leaves(ClosePosition(sp, sp.lastPrice, pos[i]),
                           ForceClosePosition(sp, sp.lastPrice, pos[i]))
  BY DEF CanAlwaysLeave, Leaves
<1>1. Owned(sp, pos) /\ SubPoolSound(sp) /\ PosIds = 1 .. Len(pos)
  BY DEF SharesInv, MoneyInv, PosIds
<1> QED
  BY <1>1, PositionLeaves

(* For any prices, deposits and parameters, no sequence of calls locks a   *)
(* position in: at the price of the last sync a close pays it, or there is *)
(* nothing to pay and a force-close removes it.  Neither migration, nor    *)
(* redemption, nor the check a call ends with ever stands in its way.      *)
THEOREM NobodyIsLockedIn == Spec => []CanAlwaysLeave
<1> QED
  BY SharesAreInvariant, InvGivesLeave, PTL

-----------------------------------------------------------------------------
(***************************************************************************)
(* Leaving and the others.  Nothing a leaver does at an unchanged price    *)
(* changes another's weight, and its part is floored out of the accounts   *)
(* they share.                                                             *)
(***************************************************************************)
LEMMA PairWithin ==
  ASSUME NEW s, NEW P, Owned(s, P), NEW i \in 1 .. Len(P), NEW j \in 1 .. Len(P), i # j,
         NEW a \in BookAccounts
  PROVE  /\ Weight(s, P[i], a) \in Nat /\ Weight(s, P[j], a) \in Nat /\ OnBooks(s, a) \in Nat
         /\ Weight(s, P[i], a) + Weight(s, P[j], a) <= OnBooks(s, a)
<1> DEFINE S == 1 .. Len(P)
           f == Weights(s, P, a)
<1>1. /\ Amounts(f, S) /\ IsFiniteSet(S) /\ f[i] = Weight(s, P[i], a) /\ i \in S
      /\ f[j] = Weight(s, P[j], a) /\ j \in S
      /\ OnBooks(s, a) = SumOver(f, S)
  BY WeightsAmounts DEF Owned, Backed
<1> HIDE DEF f, S
<1>2. PICK R : R = S \ {i}
  OBVIOUS
<1>3. PICK Q : Q = R \ {j}
  OBVIOUS
<1>4. j \in R /\ IsFiniteSet(R) /\ Amounts(f, R) /\ IsFiniteSet(Q) /\ Amounts(f, Q)
  <2>1. R \subseteq S /\ Q \subseteq S /\ j \in R
    BY <1>1, <1>2, <1>3
  <2> QED
    BY <1>1, <2>1, FS_Subset DEF Amounts
<1>5. /\ SumOver(f, S) = f[i] + SumOver(f, R) /\ SumOver(f, R) = f[j] + SumOver(f, Q)
      /\ SumOver(f, Q) \in Nat /\ f[i] \in Nat /\ f[j] \in Nat
  BY <1>1, <1>2, <1>3, <1>4, SumRemove, SumNat DEF Amounts
<1> QED
  BY <1>1, <1>5

LEMMA ActiveKept ==
  ASSUME NEW s, NEW P, Owned(s, P), SubPoolSound(s),
         NEW i \in 1 .. Len(P), NEW j \in 1 .. Len(P), i # j,
         NEW m, m = Migrated(s, P[i]), NEW n, n = Migrated(s, P[j]),
         m.shares > 0, NEW v \in Nat, v <= ActiveValue(s, m)
  PROVE  /\ ActiveValue(s, n) \in Nat /\ ActiveValue(LeaveActive(s, m, v), n) \in Nat
         /\ ActiveValue(s, n) <= ActiveValue(LeaveActive(s, m, v), n)
<1> DEFINE u == LeaveActive(s, m, v)
           d == m.dir
<1>1. /\ Placed(s, m) /\ Holding(m) /\ ~NeedsMigration(s, m)
      /\ \A a : Weight(s, m, a) = Weight(s, P[i], a)
  BY ReadyPosition
<1>2. /\ Placed(s, n) /\ Holding(n) /\ ~NeedsMigration(s, n)
      /\ \A a : Weight(s, n, a) = Weight(s, P[j], a)
  BY ReadyPosition
<1>3. /\ Numbered(s) /\ PoolSound(s) /\ d \in Direction /\ n.dir \in Direction
      /\ m.shares \in Nat /\ n.shares \in Nat
  BY <1>1, <1>2 DEF Owned, Listed, Holding
<1>4. ActiveValue(s, n) \in Nat
  BY <1>2, <1>3, ActiveValueNat
<1>5. /\ u.pool = [s.pool EXCEPT ![d] = @ - v]
      /\ u.shares = [s.shares EXCEPT ![d] = @ - m.shares]
  BY <1>3 DEF LeaveActive, PoolSound, IsSubPool, SubPoolFields
<1> HIDE DEF u
<1>6. CASE n.dir # d
  <2>1. u.pool[n.dir] = s.pool[n.dir] /\ u.shares[n.dir] = s.shares[n.dir]
    BY <1>3, <1>5, <1>6 DEF PoolSound
  <2>2. ActiveValue(u, n) = ActiveValue(s, n)
    BY <2>1 DEF ActiveValue
  <2> QED
    BY <1>4, <2>2 DEF u
<1>7. CASE n.dir = d /\ n.shares = 0
  BY <1>7 DEF ActiveValue, u
<1>8. CASE n.dir = d /\ n.shares # 0
  <2>1. PICK x, y, z, w \in Nat :
          /\ x = s.pool[d] /\ y = s.shares[d] /\ z = m.shares /\ w = n.shares
          /\ z > 0 /\ w > 0 /\ z + w <= y
    <3>1. Running(d) \in BookAccounts /\ OnBooks(s, Running(d)) = s.shares[d]
      BY <1>3 DEF Running, BookAccounts, OnBooks
    <3>2. Weight(s, m, Running(d)) = m.shares /\ Weight(s, n, Running(d)) = n.shares
      BY <1>1, <1>2, <1>3, <1>8, RestingWeight
    <3>3. m.shares + n.shares <= s.shares[d]
      <4>1. Weight(s, P[i], Running(d)) + Weight(s, P[j], Running(d)) <= OnBooks(s, Running(d))
        BY <3>1, PairWithin
      <4> QED
        BY <1>1, <1>2, <3>1, <3>2, <4>1
    <3>4. s.pool[d] \in Nat /\ s.shares[d] \in Nat
      BY <1>3 DEF PoolSound
    <3>5. m.shares > 0 /\ n.shares > 0
      BY <1>3, <1>8
    <3> QED
      BY <1>3, <3>3, <3>4, <3>5
  <2>2. ActiveValue(s, m) = MulDivFloor(x, z, y) /\ ActiveValue(s, n) = MulDivFloor(x, w, y)
    BY <1>8, <2>1 DEF ActiveValue
  <2>3. MulDivFloor(x, z, y) \in Nat /\ MulDivFloor(x, z, y) * y <= x * z /\ MulDivFloor(x, z, y) <= x
    <3>1. y \in Nat \ {0} /\ z <= y
      BY SMTT(30), <2>1
    <3> QED
      BY <3>1, FloorPart
  <2>4. v <= x /\ v * y <= x * z
    <3>1. PICK q \in Nat : q = MulDivFloor(x, z, y)
      BY <2>3
    <3>2. v <= q /\ q <= x /\ q * y <= x * z
      BY <2>2, <2>3, <3>1
    <3>3. PICK e \in Nat : q = v + e
      BY <3>2
    <3>4. q * y = v * y + e * y /\ e * y \in Nat /\ v * y \in Nat
      BY <3>3
    <3>5. PICK xz \in Nat : xz = x * z
      OBVIOUS
    <3>6. v * y <= xz
      BY <3>2, <3>4, <3>5
    <3> QED
      BY <3>2, <3>5, <3>6
  <2>5. ActiveValue(u, n) = MulDivFloor(x - v, w, y - z)
    <3>1. s.pool \in [Direction -> Nat] /\ s.shares \in [Direction -> Nat]
      BY <1>3 DEF PoolSound
    <3>2. u.pool[d] = x - v
      BY <1>3, <1>5, <2>1, <3>1
    <3>3. u.shares[d] = y - z
      BY <1>3, <1>5, <2>1, <3>1
    <3>4. y - z # 0
      BY <2>1
    <3> QED
      BY <1>8, <2>1, <3>2, <3>3, <3>4 DEF ActiveValue
  <2>6. MulDivFloor(x, w, y) <= MulDivFloor(x - v, w, y - z) /\ MulDivFloor(x - v, w, y - z) \in Nat
    <3>1. z < y
      BY <2>1
    <3> QED
      BY <2>1, <2>4, <3>1, FloorKept
  <2> QED
    BY <1>4, <2>2, <2>5, <2>6 DEF u
<1> QED
  BY <1>6, <1>7, <1>8

LEMMA RecoveryKept ==
  ASSUME NEW s, NEW P, Owned(s, P), SubPoolSound(s),
         NEW i \in 1 .. Len(P), NEW j \in 1 .. Len(P), i # j,
         NEW m, m = Migrated(s, P[i]), NEW n, n = Migrated(s, P[j]),
         NEW base, IsSubPool(base), base.dormant = s.dormant
  PROVE  /\ RecoveryValue(s, n) \in Nat /\ RecoveryValue(LeaveRecovery(base, m), n) \in Nat
         /\ RecoveryValue(s, n) <= RecoveryValue(LeaveRecovery(base, m), n)
<1> DEFINE u == LeaveRecovery(base, m)
           d == m.dir
           st == s.dormant[d]
           r == Redeem(st, m.tick, m.recovery)
<1>1. /\ Placed(s, m) /\ Holding(m) /\ ~NeedsMigration(s, m)
      /\ \A a : Weight(s, m, a) = Weight(s, P[i], a)
  BY ReadyPosition
<1>2. /\ Placed(s, n) /\ Holding(n) /\ ~NeedsMigration(s, n)
      /\ \A a : Weight(s, n, a) = Weight(s, P[j], a)
  BY ReadyPosition
<1>3. /\ Numbered(s) /\ PoolSound(s) /\ d \in Direction /\ n.dir \in Direction
      /\ m.recovery \in Nat /\ n.recovery \in Nat /\ StoreSound(st)
      /\ m.tick \in Nat \cup {NoTick} /\ n.tick \in Nat \cup {NoTick}
  BY <1>1, <1>2 DEF Owned, Listed, Holding, PoolSound
<1>4. RecoveryValue(s, n) \in Nat
  BY PayoutWithin
<1>5. /\ m.recovery = 0 => u.dormant = s.dormant
      /\ m.recovery # 0 => u.dormant = [s.dormant EXCEPT ![d] = r]
  BY DEF LeaveRecovery, IsSubPool, SubPoolFields
<1> HIDE DEF u, r
<1>6. CASE m.recovery = 0 \/ n.dir # d \/ n.recovery = 0
  <2>1. n.recovery # 0 => u.dormant[n.dir] = s.dormant[n.dir]
    BY <1>3, <1>5, <1>6 DEF PoolSound
  <2>2. RecoveryValue(u, n) = RecoveryValue(s, n)
    BY <2>1 DEF RecoveryValue
  <2> QED
    BY <1>4, <2>2 DEF u
<1>7. CASE m.recovery # 0 /\ n.dir = d /\ n.recovery # 0
  <2>1. u.dormant[d] = r
    BY <1>3, <1>5, <1>7 DEF PoolSound
  <2>2. RecoveryValue(u, n) = Redeemable(r, n.tick, n.recovery)
        /\ RecoveryValue(s, n) = Redeemable(st, n.tick, n.recovery)
    BY <1>7, <2>1 DEF RecoveryValue
  <2>3. CanRedeem(st, m.tick, m.recovery) /\ m.recovery > 0 /\ n.recovery > 0
    BY <1>3, <1>7, CanRedeemAll DEF CanLeaveRecovery
  <2>4. n.recovery + (IF n.tick = m.tick THEN m.recovery ELSE 0) <= HeldIn(st, n.tick)
    <3> DEFINE a == InTick(d, n.tick)
    <3>1. a \in BookAccounts /\ OnBooks(s, a) = HeldIn(st, n.tick)
      BY <1>3 DEF InTick, BookAccounts, OnBooks
    <3>2. Weight(s, n, a) = n.recovery
      BY <1>2, <1>3, <1>7, RestingWeight
    <3>3. n.tick = m.tick => Weight(s, m, a) = m.recovery
      BY <1>1, <1>3, RestingWeight
    <3> HIDE DEF a
    <3>4. /\ Weight(s, P[i], a) \in Nat /\ Weight(s, P[j], a) \in Nat /\ OnBooks(s, a) \in Nat
          /\ Weight(s, P[i], a) + Weight(s, P[j], a) <= OnBooks(s, a)
      BY <3>1, PairWithin
    <3> QED
      BY <1>1, <1>2, <1>3, <3>1, <3>2, <3>3, <3>4
  <2>5. /\ Redeemable(r, n.tick, n.recovery) \in Nat
        /\ Redeemable(st, n.tick, n.recovery) <= Redeemable(r, n.tick, n.recovery)
    BY <1>3, <2>3, <2>4, RedeemKeepsOthers DEF r
  <2> QED
    BY <1>4, <2>2, <2>5 DEF u
<1> QED
  BY <1>6, <1>7

LEMMA PayoutSplit ==
  ASSUME NEW s, NEW u, SameGens(s, u), NEW q
  PROVE  Payout(u, q) = ActiveValue(u, Migrated(s, q)) + RecoveryValue(u, Migrated(s, q))
<1>1. Migrated(u, q) = Migrated(s, q)
  BY DEF SameGens, Migrated, NeedsMigration, RotateRecords
<1> QED
  BY <1>1 DEF Payout

(* What u is after m left s: with at most its value of the pool, with its  *)
(* recovery shares, or with both; and possibly with a forfeit to dust.     *)
LeftBy(s, m, u) ==
  \E base :
    /\ \/ base = s
       \/ \E v \in Nat : m.shares > 0 /\ v <= ActiveValue(s, m) /\ base = LeaveActive(s, m, v)
    /\ LET left == LeaveRecovery(base, m)
       IN  /\ SameGens(s, u)
           /\ u.pool = left.pool /\ u.shares = left.shares /\ u.dormant = left.dormant

LEMMA SameValues ==
  ASSUME NEW u, NEW left, u.pool = left.pool, u.shares = left.shares, u.dormant = left.dormant,
         NEW n
  PROVE  ActiveValue(u, n) = ActiveValue(left, n) /\ RecoveryValue(u, n) = RecoveryValue(left, n)
BY DEF ActiveValue, RecoveryValue

LEMMA DepartureKeeps ==
  ASSUME NEW s, NEW P, Owned(s, P), SubPoolSound(s),
         NEW i \in 1 .. Len(P), NEW j \in 1 .. Len(P), i # j,
         NEW m, m = Migrated(s, P[i]), NEW u, LeftBy(s, m, u)
  PROVE  Payout(s, P[j]) <= Payout(u, P[j])
<1>1. PICK n : n = Migrated(s, P[j])
  OBVIOUS
<1>2. PICK base :
        /\ \/ base = s
           \/ \E v \in Nat : m.shares > 0 /\ v <= ActiveValue(s, m) /\ base = LeaveActive(s, m, v)
        /\ SameGens(s, u)
        /\ u.pool = LeaveRecovery(base, m).pool
        /\ u.shares = LeaveRecovery(base, m).shares
        /\ u.dormant = LeaveRecovery(base, m).dormant
  BY DEF LeftBy
<1>3. IsSubPool(s)
  BY DEF Owned, Listed, PoolSound
<1>4. /\ IsSubPool(base) /\ base.dormant = s.dormant
      /\ ActiveValue(s, n) \in Nat /\ ActiveValue(base, n) \in Nat
      /\ ActiveValue(s, n) <= ActiveValue(base, n)
  <2>1. CASE base = s
    <3>1. ActiveValue(s, n) \in Nat
      BY <1>1, PayoutWithin
    <3> QED
      BY <1>3, <2>1, <3>1
  <2>2. CASE \E v \in Nat : m.shares > 0 /\ v <= ActiveValue(s, m) /\ base = LeaveActive(s, m, v)
    <3>1. PICK v \in Nat : m.shares > 0 /\ v <= ActiveValue(s, m) /\ base = LeaveActive(s, m, v)
      BY <2>2
    <3>2. /\ ActiveValue(s, n) \in Nat /\ ActiveValue(LeaveActive(s, m, v), n) \in Nat
          /\ ActiveValue(s, n) <= ActiveValue(LeaveActive(s, m, v), n)
      BY <1>1, <3>1, ActiveKept
    <3>3. IsSubPool(base) /\ base.dormant = s.dormant
      BY <1>3, <3>1 DEF LeaveActive, IsSubPool, SubPoolFields
    <3> QED
      BY <3>1, <3>2, <3>3
  <2> QED
    BY <1>2, <2>1, <2>2
<1>5. /\ RecoveryValue(s, n) \in Nat /\ RecoveryValue(LeaveRecovery(base, m), n) \in Nat
      /\ RecoveryValue(s, n) <= RecoveryValue(LeaveRecovery(base, m), n)
  BY <1>1, <1>4, RecoveryKept
<1>6. ActiveValue(LeaveRecovery(base, m), n) = ActiveValue(base, n)
  BY <1>4 DEF LeaveRecovery, ActiveValue, IsSubPool, SubPoolFields
<1>7. /\ ActiveValue(u, n) = ActiveValue(base, n)
      /\ RecoveryValue(u, n) = RecoveryValue(LeaveRecovery(base, m), n)
  BY <1>2, <1>6, SameValues
<1>8. /\ Payout(s, P[j]) = ActiveValue(s, n) + RecoveryValue(s, n)
      /\ Payout(u, P[j]) = ActiveValue(u, n) + RecoveryValue(u, n)
  BY <1>1, <1>2, PayoutSplit DEF Payout
<1> QED
  BY <1>4, <1>5, <1>7, <1>8

LEMMA CloseLeaves ==
  ASSUME NEW s, NEW P, Owned(s, P), SubPoolSound(s), NEW i \in 1 .. Len(P),
         NEW m, m = Migrated(s, P[i]), NEW r, r = ClosePosition(s, s.lastPrice, P[i]),
         r.err = "Ok"
  PROVE  LeftBy(s, m, r.sp)
<1> DEFINE t == Touch(s, s.lastPrice, P[i])
           a == ActiveValue(s, m)
           base == IF HasPool(s, m) THEN LeaveActive(s, m, a) ELSE s
<1>1. t.err = "Ok" /\ t.sp = s /\ t.pos = m
  BY TouchAtRest
<1>2. a \in Nat /\ IsSubPool(s)
  BY PayoutWithin DEF Owned, Listed, PoolSound
<1>3. r = CloseTouched(t)
  BY DEF ClosePosition, Fail
<1> HIDE DEF t
<1>4. r.sp = LeaveRecovery(base, m)
  BY <1>1, <1>3 DEF CloseTouched, Finished, Fail
<1>5. HasPool(s, m) => m.shares > 0
  BY DEF HasPool
<1>6. base = s \/ (m.shares > 0 /\ base = LeaveActive(s, m, a))
  BY <1>5
<1> HIDE DEF base, a
<1>7. SameGens(s, r.sp)
  <2>1. IsSubPool(base) /\ SameGens(s, base)
    BY <1>2, <1>6, LeaveSame DEF SameGens
  <2>2. SameGens(base, r.sp)
    BY <1>4, <2>1, LeaveSame
  <2> QED
    BY <2>1, <2>2 DEF SameGens
<1> QED
  BY <1>2, <1>4, <1>6, <1>7 DEF LeftBy, a

LEMMA ForceCloseLeaves ==
  ASSUME NEW s, NEW P, Owned(s, P), SubPoolSound(s), NEW i \in 1 .. Len(P),
         NEW m, m = Migrated(s, P[i]), NEW r, r = ForceClosePosition(s, s.lastPrice, P[i]),
         r.err = "Ok"
  PROVE  LeftBy(s, m, r.sp)
<1> DEFINE t == Touch(s, s.lastPrice, P[i])
           base == IF m.shares > 0 THEN LeaveActive(s, m, 0) ELSE s
           left == LeaveRecovery(base, m)
           x == RecoveryValue(s, m)
<1>1. t.err = "Ok" /\ t.sp = s /\ t.pos = m
  BY TouchAtRest
<1>2. ActiveValue(s, m) \in Nat /\ IsSubPool(s)
  BY PayoutWithin DEF Owned, Listed, PoolSound
<1>3. r = ForceCloseTouched(t)
  BY DEF ForceClosePosition, Fail
<1> HIDE DEF t
<1>4. r.sp = [left EXCEPT !.dust[m.dir] = @ + x]
  BY <1>1, <1>3 DEF ForceCloseTouched, Finished, Fail
<1>5. base = s \/ (m.shares > 0 /\ base = LeaveActive(s, m, 0))
  OBVIOUS
<1> HIDE DEF base, x
<1>6. IsSubPool(left) /\ SameGens(s, left)
  <2>1. IsSubPool(base) /\ SameGens(s, base)
    BY <1>2, <1>5, LeaveSame DEF SameGens
  <2>2. SameGens(base, left)
    BY <2>1, LeaveSame
  <2> QED
    BY <2>1, <2>2 DEF SameGens
<1> HIDE DEF left
<1>7. /\ SameGens(s, r.sp)
      /\ r.sp.pool = left.pool /\ r.sp.shares = left.shares /\ r.sp.dormant = left.dormant
  BY <1>4, <1>6 DEF SameGens, IsSubPool, SubPoolFields
<1>8. \/ base = s
      \/ \E v \in Nat : m.shares > 0 /\ v <= ActiveValue(s, m) /\ base = LeaveActive(s, m, v)
  BY <1>2, <1>5
<1> QED
  BY <1>7, <1>8 DEF LeftBy, left

LEMMA ClaimLeaves ==
  ASSUME NEW s, NEW P, Owned(s, P), SubPoolSound(s), NEW i \in 1 .. Len(P),
         NEW m, m = Migrated(s, P[i]), NEW r, r = ClaimRecovery(s, s.lastPrice, P[i]),
         r.err = "Ok"
  PROVE  LeftBy(s, m, r.sp)
<1> DEFINE t == Touch(s, s.lastPrice, P[i])
<1>1. t.err = "Ok" /\ t.sp = s /\ t.pos = m
  BY TouchAtRest
<1>2. IsSubPool(s)
  BY DEF Owned, Listed, PoolSound
<1>3. r = ClaimTouched(t)
  BY DEF ClaimRecovery
<1> HIDE DEF t
<1>4. r.sp = LeaveRecovery(s, m)
  BY <1>1, <1>3 DEF ClaimTouched, Finished, Fail
<1>5. SameGens(s, r.sp)
  BY <1>2, <1>4, LeaveSame
<1> QED
  BY <1>4, <1>5 DEF LeftBy

(* A pre-sync leaves every bucket its shares and what it is entitled to.   *)
CaughtUpIn(s, u, d, t) ==
  /\ d \in Direction /\ t \in Ticks(s.dormant[d])
  /\ u = [s EXCEPT !.dormant[d] = ApplyPending(@, {t})]

LEMMA PreSyncPayout ==
  ASSUME NEW s, NEW P, Owned(s, P), SubPoolSound(s), NEW j \in 1 .. Len(P),
         NEW d, NEW t, NEW u, CaughtUpIn(s, u, d, t)
  PROVE  Payout(u, P[j]) = Payout(s, P[j])
<1> DEFINE st == s.dormant[d]
           v == ApplyPending(st, {t})
<1>1. PICK n : n = Migrated(s, P[j])
  OBVIOUS
<1>2. /\ IsSubPool(s) /\ StoreSound(st) /\ s.dormant = [e \in Direction |-> s.dormant[e]]
      /\ Numbered(s) /\ d \in Direction /\ t \in Ticks(st)
  BY DEF Owned, Listed, PoolSound, CaughtUpIn
<1>3. /\ Placed(s, n) /\ Holding(n) /\ ~NeedsMigration(s, n) /\ n.recovery \in Nat
      /\ n.dir \in Direction
  BY <1>1, ReadyPosition DEF Holding
<1>4. /\ SameGens(s, u) /\ u.pool = s.pool /\ u.shares = s.shares
      /\ u.dormant = [s.dormant EXCEPT ![d] = v]
  BY <1>2 DEF SameGens, IsSubPool, SubPoolFields, CaughtUpIn
<1>5. ActiveValue(u, n) = ActiveValue(s, n)
  BY <1>4 DEF ActiveValue
<1>6. RecoveryValue(u, n) = RecoveryValue(s, n)
  <2>1. CASE n.recovery = 0 \/ n.dir # d
    <3>1. n.recovery # 0 => u.dormant[n.dir] = s.dormant[n.dir]
      BY <1>2, <1>3, <1>4, <2>1
    <3> QED
      BY <3>1 DEF RecoveryValue
  <2>2. CASE n.recovery # 0 /\ n.dir = d
    <3>1. u.dormant[d] = v
      BY <1>2, <1>4
    <3>2. CanRedeem(st, n.tick, n.recovery)
      BY <1>1, <1>3, <2>2, CanRedeemAll DEF CanLeaveRecovery
    <3>3. CaughtUpBy(st, {t}, v)
      BY <1>2, ApplyPendingSound
    <3>4. StoreSound(v) /\ SameShares(st, v)
      BY <1>2, <3>3, ApplyPendingShares DEF CaughtUpBy
    <3> HIDE DEF v
    <3>5. n.tick \in Ticks(st) /\ CanRedeem(v, n.tick, n.recovery)
      BY <3>2, <3>4 DEF CanRedeem, SameShares
    <3>6. /\ v.bucket[n.tick].shares = st.bucket[n.tick].shares
          /\ Promised(v, n.tick) = Promised(st, n.tick)
      <4>1. PICK x : x = st
        OBVIOUS
      <4>2. PICK T \in SUBSET Ticks(x) : CaughtUpBy(x, T, v)
        <5>1. {t} \in SUBSET Ticks(x)
          BY <1>2, <4>1
        <5> QED
          BY <3>3, <4>1, <5>1
      <4>3. PICK k : k = n.tick
        OBVIOUS
      <4>4. StoreSound(x) /\ k \in Ticks(x)
        BY <1>2, <3>5, <4>1, <4>3
      <4>5. /\ v.bucket[k].shares = x.bucket[k].shares
            /\ Promised(v, k) = Promised(x, k)
        BY ONLY <4>2, <4>4, CaughtUpBucket
      <4> QED
        BY <4>1, <4>3, <4>5
    <3>7. /\ Redeemable(v, n.tick, n.recovery)
               = MulDivFloor(Promised(v, n.tick), n.recovery, v.bucket[n.tick].shares)
          /\ Redeemable(st, n.tick, n.recovery)
               = MulDivFloor(Promised(st, n.tick), n.recovery, st.bucket[n.tick].shares)
      BY <1>2, <1>3, <3>2, <3>4, <3>5, RedeemShares
    <3> QED
      BY <2>2, <3>1, <3>6, <3>7 DEF RecoveryValue
  <2> QED
    BY <2>1, <2>2
<1>7. Payout(u, P[j]) = ActiveValue(u, n) + RecoveryValue(u, n)
  BY <1>1, <1>4, PayoutSplit
<1> QED
  BY <1>1, <1>5, <1>6, <1>7 DEF Payout

(* A step at an unchanged price that opens nothing.                        *)
OthersKept ==
  \A j \in PosIds : pos'[j] = pos[j] => Payout(sp', pos'[j]) >= Payout(sp, pos[j])

LEMMA SettledKeeps ==
  ASSUME SharesInv, NEW i \in PosIds, NEW r, Settled(i, r), r.pos # pos[i],
         LeftBy(sp, Migrated(sp, pos[i]), r.sp)
  PROVE  OthersKept
<1> SUFFICES ASSUME NEW j \in PosIds, pos'[j] = pos[j]
             PROVE  Payout(sp', pos'[j]) >= Payout(sp, pos[j])
  BY DEF OthersKept
<1>1. sp' = r.sp /\ pos' = [pos EXCEPT ![i] = r.pos]
  BY DEF Settled, Accept
<1>2. Owned(sp, pos) /\ SubPoolSound(sp) /\ PosIds = 1 .. Len(pos)
  BY DEF SharesInv, MoneyInv, PosIds
<1>3. pos = [k \in PosIds |-> pos[k]]
  BY <1>2 DEF Owned, Listed, IsList
<1>4. i # j
  BY <1>1, <1>3
<1>5. PICK m : m = Migrated(sp, pos[i])
  OBVIOUS
<1>6. Payout(sp, pos[j]) <= Payout(r.sp, pos[j])
  BY <1>2, <1>4, <1>5, DepartureKeeps
<1>7. Payout(sp, pos[j]) \in Int
  <2>1. PICK n : n = Migrated(sp, pos[j])
    OBVIOUS
  <2>2. ActiveValue(sp, n) \in Nat /\ RecoveryValue(sp, n) \in Nat
    BY <1>2, <2>1, PayoutWithin
  <2> QED
    BY <2>1, <2>2 DEF Payout
<1> QED
  BY <1>1, <1>6

LEMMA OthersStep ==
  ASSUME SharesInv, [Next]_vars, sp'.lastPrice = sp.lastPrice, Len(pos') = Len(pos)
  PROVE  OthersKept
<1>1. /\ Owned(sp, pos) /\ SubPoolSound(sp) /\ PosIds = 1 .. Len(pos)
      /\ PoolSound(sp) /\ Numbered(sp) /\ IsSubPool(sp)
      /\ \A i \in PosIds : Holding(pos[i])
  BY DEF SharesInv, MoneyInv, PosIds, Owned, Listed, PoolSound
<1>2. \A j \in PosIds : Payout(sp, pos[j]) \in Nat
  <2> TAKE j \in PosIds
  <2>1. PICK n : n = Migrated(sp, pos[j])
    OBVIOUS
  <2>2. ActiveValue(sp, n) \in Nat /\ RecoveryValue(sp, n) \in Nat
    BY <1>1, <2>1, PayoutWithin
  <2> QED
    BY <2>1, <2>2 DEF Payout
<1>3. sp' = sp => OthersKept
  BY <1>2 DEF OthersKept
<1>4. ASSUME NEW p \in Prices, Sync(p) PROVE OthersKept
  <2>1. p = sp.lastPrice
    BY <1>1, <1>4, SyncClears, MarketParameters DEF Sync, Accept
  <2>2. SyncPool(sp, p).sp = sp
    <3>1. SyncPool(sp, p) = Checked([sp EXCEPT !.lastPrice = p])
      BY <2>1 DEF SyncPool
    <3>2. [sp EXCEPT !.lastPrice = p] = sp
      BY <1>1, <2>1 DEF IsSubPool, SubPoolFields
    <3> QED
      BY <3>1, <3>2, CheckedSame
  <2> QED
    BY <1>3, <1>4, <2>2 DEF Sync, Accept
<1>5. ASSUME NEW p \in Prices, NEW d \in Direction, NEW g \in Grosses, Open(p, d, g)
      PROVE  OthersKept
  <2>1. PICK x : pos' = Append(pos, x)
    BY <1>5 DEF Open, Opened
  <2>2. Len(pos') = Len(pos) + 1 /\ Len(pos) \in Nat
    BY <1>1, <2>1 DEF Owned, Listed, IsList
  <2> QED
    BY <2>2
<1>6. ASSUME NEW i \in PosIds, NEW p \in Prices, Close(i, p) PROVE OthersKept
  <2>1. PICK r : r = ClosePosition(sp, p, pos[i]) /\ Settled(i, r)
    BY <1>6 DEF Close
  <2>2. r.err = "Ok" /\ sp' = r.sp
    BY <2>1 DEF Settled, Accept
  <2>3. r.sp.lastPrice = p /\ pos[i].status # "Closed" /\ r.pos.status = "Closed"
    BY <1>1, <2>1, <2>2, CloseSound, MarketParameters DEF PaidOut
  <2>4. r.pos # pos[i] /\ p = sp.lastPrice
    BY <2>2, <2>3
  <2>5. LeftBy(sp, Migrated(sp, pos[i]), r.sp)
    BY <1>1, <2>1, <2>2, <2>4, CloseLeaves
  <2> QED
    BY <2>1, <2>4, <2>5, SettledKeeps
<1>7. ASSUME NEW i \in PosIds, NEW p \in Prices, ForceClose(i, p) PROVE OthersKept
  <2>1. PICK r : r = ForceClosePosition(sp, p, pos[i]) /\ Settled(i, r)
    BY <1>7 DEF ForceClose
  <2>2. r.err = "Ok" /\ sp' = r.sp
    BY <2>1 DEF Settled, Accept
  <2>3. r.sp.lastPrice = p /\ pos[i].status # "Closed" /\ r.pos.status = "Closed"
    BY <1>1, <2>1, <2>2, ForceCloseSound, MarketParameters DEF PaidOut
  <2>4. r.pos # pos[i] /\ p = sp.lastPrice
    BY <2>2, <2>3
  <2>5. LeftBy(sp, Migrated(sp, pos[i]), r.sp)
    BY <1>1, <2>1, <2>2, <2>4, ForceCloseLeaves
  <2> QED
    BY <2>1, <2>4, <2>5, SettledKeeps
<1>8. ASSUME NEW i \in PosIds, NEW p \in Prices, Claim(i, p) PROVE OthersKept
  <2>1. PICK r : r = ClaimRecovery(sp, p, pos[i]) /\ Settled(i, r)
    BY <1>8 DEF Claim
  <2>2. r.err = "Ok" /\ sp' = r.sp
    BY <2>1 DEF Settled, Accept
  <2>3. r.sp.lastPrice = p /\ r.pos # pos[i]
    BY <1>1, <2>1, <2>2, ClaimSound, MarketParameters DEF PaidOut
  <2>4. p = sp.lastPrice
    BY <2>2, <2>3
  <2>5. LeftBy(sp, Migrated(sp, pos[i]), r.sp)
    BY <1>1, <2>1, <2>2, <2>4, ClaimLeaves
  <2> QED
    BY <2>1, <2>3, <2>5, SettledKeeps
<1>9. ASSUME NEW d \in Direction, NEW t \in Ticks(sp.dormant[d]), PreSync(d, t)
      PROVE  OthersKept
  <2>1. /\ sp' = [sp EXCEPT !.dormant[d] = ApplyPending(@, {t})]
        /\ pos' = pos
    BY <1>9 DEF PreSync, Accept, PreSyncBucket, Checked, Ok, Fail
  <2>2. PICK u : CaughtUpIn(sp, u, d, t) /\ u = [sp EXCEPT !.dormant[d] = ApplyPending(@, {t})]
    BY DEF CaughtUpIn
  <2>3. \A j \in PosIds : Payout(u, pos[j]) = Payout(sp, pos[j])
    <3> TAKE j \in PosIds
    <3>1. j \in 1 .. Len(pos)
      BY <1>1
    <3> QED
      BY <1>1, <2>2, <3>1, PreSyncPayout
  <2> QED
    BY <1>2, <2>1, <2>2, <2>3 DEF OthersKept
<1>10. ASSUME NEW d \in Direction, Harvest(d) PROVE OthersKept
  <2>1. PICK u : u = [sp EXCEPT !.dust[d] = 0]
    OBVIOUS
  <2>2. sp' = u /\ pos' = pos
    BY <1>10, <2>1, CheckedSame DEF Harvest, Accept, HarvestDust
  <2>3. SameGens(sp, u) /\ u.pool = sp.pool /\ u.shares = sp.shares /\ u.dormant = sp.dormant
    BY <1>1, <2>1 DEF SameGens, IsSubPool, SubPoolFields
  <2>4. \A j \in PosIds : Payout(u, pos[j]) = Payout(sp, pos[j])
    <3> TAKE j \in PosIds
    <3>1. PICK n : n = Migrated(sp, pos[j])
      OBVIOUS
    <3>2. ActiveValue(u, n) = ActiveValue(sp, n) /\ RecoveryValue(u, n) = RecoveryValue(sp, n)
      BY <2>3, SameValues
    <3>3. Payout(u, pos[j]) = ActiveValue(u, n) + RecoveryValue(u, n)
      BY <2>3, <3>1, PayoutSplit
    <3> QED
      BY <3>1, <3>2, <3>3 DEF Payout
  <2> QED
    BY <1>2, <2>2, <2>4 DEF OthersKept
<1>11. CASE UNCHANGED vars
  BY <1>3, <1>11 DEF vars
<1> QED
  BY <1>4, <1>5, <1>6, <1>7, <1>8, <1>9, <1>10, <1>11 DEF Next

(* For any prices, deposits and parameters, what another position does at  *)
(* an unchanged price (close, force-close, claim), and what the keeper     *)
(* does (a pre-sync, a harvest), never lowers what a position would be     *)
(* paid: the code pays a leaver the floor of its part, and burns all of    *)
(* its shares.                                                             *)
THEOREM TheOthersKeepTheirs == Spec => LeavingKeepsOthers
<1>1. SharesInv /\ [Next]_vars =>
        [sp'.lastPrice = sp.lastPrice /\ Len(pos') = Len(pos) =>
           \A i \in PosIds :
             pos'[i] = pos[i] => Payout(sp', pos'[i]) >= Payout(sp, pos[i])]_vars
  BY OthersStep DEF OthersKept
<1> QED
  BY <1>1, SharesAreInvariant, PTL DEF Spec, LeavingKeepsOthers

-----------------------------------------------------------------------------
(***************************************************************************)
(* Refusals.  What a sync leaves passes the check it ends with: a side     *)
(* with no shares asks for nothing and gives nothing, so it stays empty; a *)
(* side whose pool is emptied is rotated out; and the stores check, since  *)
(* their ledgers cover what they owe.                                      *)
(***************************************************************************)
LEMMA EmptySide ==
  ASSUME NEW s, NEW P, Owned(s, P), NEW d \in Direction, s.shares[d] = 0
  PROVE  s.notional[d] = 0
<1> DEFINE a == Running(d)
           b == [kind |-> "notional", dir |-> d, tick |-> NoTick]
           S == 1 .. Len(P)
           f == Weights(s, P, b)
<1>1. /\ a \in BookAccounts /\ a.kind = "shares" /\ a.dir = d /\ OnBooks(s, a) = 0
      /\ b \in BookAccounts /\ b.kind = "notional" /\ b.dir = d /\ OnBooks(s, b) = s.notional[d]
  BY DEF BookAccounts, Running, OnBooks
<1> HIDE DEF a, b
<1>2. /\ IsFiniteSet(S) /\ s.notional[d] = SumOver(f, S)
      /\ \A i \in S : f[i] = Weight(s, P[i], b)
  BY <1>1, WeightsAmounts DEF Owned, Backed
<1>3. \A i \in S : f[i] = 0
  <2> TAKE i \in S
  <2>1. Weight(s, P[i], a) = 0
    BY <1>1, WeightWithin
  <2>2. Weight(s, P[i], b) = 0
    BY <1>1, <2>1 DEF Weight
  <2> QED
    BY <1>2, <2>2
<1> HIDE DEF S, f
<1> QED
  BY <1>2, <1>3, SumZero

LEMMA NothingDemanded ==
  ASSUME NEW s, PoolSound(s), NEW w \in Direction, NEW p \in Nat, s.lastPrice # 0,
         s.notional[w] = 0
  PROVE  ActiveDemand(s, w, p) = 0
<1>1. s.lastPrice \in Nat \ {0}
  BY DEF PoolSound
<1>2. Distance(p, s.lastPrice) \in Nat
  BY <1>1 DEF Distance
<1>3. MulDivFloor(s.notional[w], Distance(p, s.lastPrice), s.lastPrice) = 0
  <2>1. PICK x, y \in Nat : x = Distance(p, s.lastPrice) /\ y = s.lastPrice /\ y > 0
    BY <1>1, <1>2
  <2>2. (0 * x) \div y = 0
    BY <2>1
  <2> QED
    BY <2>1, <2>2 DEF MulDivFloor
<1> QED
  BY <1>3 DEF ActiveDemand, SignedPnlIncrement, Larger

(* What holds of a side while a sync is under way, and once it is done.    *)
Underway(s, d) ==
  /\ s.shares[d] = 0 => s.pool[d] = 0
  /\ TotalRecoveryShares(s.dormant[d]) = s.recovery[d]

Done(s, d) == Underway(s, d) /\ (s.pool[d] = 0 => s.shares[d] = 0)

LEMMA DoneChecks ==
  ASSUME NEW s, PoolSound(s), \A d \in Direction : Done(s, d)
  PROVE  SubPoolSound(s)
<1> SUFFICES ASSUME NEW d \in Direction
             PROVE  /\ (s.pool[d] = 0) = (s.shares[d] = 0)
                    /\ TotalRecoveryShares(s.dormant[d]) = s.recovery[d]
                    /\ CheckStore(s.dormant[d])
  BY DEF SubPoolSound
<1>1. CheckStore(s.dormant[d])
  BY CoveredChecks DEF PoolSound
<1>2. s.pool[d] = 0 <=> s.shares[d] = 0
  BY DEF Done, Underway
<1>3. (s.pool[d] = 0) = (s.shares[d] = 0)
  BY <1>2
<1>4. TotalRecoveryShares(s.dormant[d]) = s.recovery[d]
  BY DEF Done, Underway
<1> QED
  BY <1>1, <1>3, <1>4

LEMMA SettleRefuses ==
  ASSUME NEW s, NEW w, NEW p, Settle(s, w, p).err # "Ok"
  PROVE  Settle(s, w, p).err = "LedgerCapacityExceeded" /\ LedgerFull(s.dormant[w])
BY DEF Settle, Ok, Fail

LEMMA SettleUnderway ==
  ASSUME NEW s, NEW P, Owned(s, P), SubPoolSound(s), NEW w \in Direction, NEW p \in Nat,
         s.lastPrice # 0, Settle(s, w, p).err = "Ok"
  PROVE  \A d \in Direction : Underway(Settle(s, w, p).sp, d)
<1> DEFINE o == Opposite(w)
           transfer == Transfer(s, w, p)
           toActive == MulDivFloor(transfer, ActiveDemand(s, w, p), Demand(s, w, p))
           toRecovery == transfer - toActive
           st == s.dormant[w]
           paid == [s EXCEPT !.pool[w] = @ + toActive, !.pool[o] = @ - transfer]
           placed == [paid EXCEPT !.dormant[w] = Distribute(@, p, toRecovery),
                                  !.dust[w] = @ + Residual(st, p, toRecovery)]
           t == Settle(s, w, p).sp
<1>1. PoolSound(s) /\ IsSubPool(s)
  BY DEF Owned, Listed, PoolSound
<1>2. \A d \in Direction : /\ s.pool[d] = 0 <=> s.shares[d] = 0
                           /\ TotalRecoveryShares(s.dormant[d]) = s.recovery[d]
  <2> TAKE d \in Direction
  <2>1. /\ (s.pool[d] = 0) = (s.shares[d] = 0)
        /\ TotalRecoveryShares(s.dormant[d]) = s.recovery[d]
    BY DEF SubPoolSound
  <2> QED
    BY <2>1
<1>3. /\ transfer = 0 => t = s
      /\ transfer # 0 /\ toRecovery = 0 => t = paid
      /\ transfer # 0 /\ toRecovery # 0 => t = placed
  <2>1. transfer = 0 => t = s
    BY DEF Settle, Ok
  <2>2. transfer # 0 /\ toRecovery = 0 => t = paid
    BY DEF Settle, Ok
  <2>3. transfer # 0 /\ toRecovery # 0 => t = placed
    BY DEF Settle, Ok, Fail
  <2> QED
    BY <2>1, <2>2, <2>3
<1>4. CASE transfer = 0
  <2>1. t = s
    BY <1>3, <1>4
  <2> QED
    BY <1>2, <2>1 DEF Underway
<1>5. CASE transfer # 0
  <2>1. /\ transfer \in Nat /\ transfer <= s.pool[o]
        /\ ActiveDemand(s, w, p) \in Nat /\ Demand(s, w, p) \in Nat \ {0}
        /\ ActiveDemand(s, w, p) <= Demand(s, w, p)
    BY <1>1, <1>5, DemandNat
  <2>2. /\ toActive \in Nat /\ toActive <= transfer
        /\ toActive * Demand(s, w, p) <= transfer * ActiveDemand(s, w, p)
    BY <2>1, FloorPart
  <2>3. toRecovery \in Nat
    BY <2>1, <2>2
  <2>4. /\ o \in Direction /\ o # w /\ \A d \in Direction : d = w \/ d = o
        /\ s.pool[w] \in Nat /\ s.pool[o] \in Nat /\ StoreSound(st)
    BY <1>1, Sides DEF PoolSound
  <2>5. s.shares[w] = 0 => toActive = 0 /\ s.pool[w] = 0
    <3> SUFFICES ASSUME s.shares[w] = 0 PROVE toActive = 0 /\ s.pool[w] = 0
      OBVIOUS
    <3>1. ActiveDemand(s, w, p) = 0
      BY <1>1, EmptySide, NothingDemanded
    <3>2. toActive * Demand(s, w, p) <= 0
      BY <2>1, <2>2, <3>1
    <3> HIDE DEF toActive
    <3>3. PICK x, y \in Nat : x = toActive /\ y = Demand(s, w, p) /\ y > 0 /\ x * y <= 0
      BY <2>1, <2>2, <3>2
    <3>4. x = 0
      BY <3>3
    <3> QED
      BY <1>2, <3>3, <3>4
  <2>6. s.shares[o] # 0
    BY <1>2, <1>5, <2>1, <2>4
  <2> DEFINE u == Distribute(st, p, toRecovery)
  <2> HIDE DEF transfer, toActive, toRecovery, o, t
  <2>7. SameShares(st, u)
    BY <2>3, <2>4, DistributeShares DEF Distribute
  <2> HIDE DEF u
  <2>8. PICK a, b \in Nat : a = s.pool[w] + toActive /\ b = s.pool[o] - transfer
    <3>1. s.pool[w] + toActive \in Nat
      BY <2>2, <2>4
    <3>2. s.pool[o] - transfer \in Nat
      BY <2>1, <2>4
    <3> QED
      BY <3>1, <3>2
  <2>9. /\ paid.pool = [s.pool EXCEPT ![w] = a, ![o] = b]
        /\ paid.shares = s.shares /\ paid.recovery = s.recovery /\ paid.dormant = s.dormant
        /\ IsSubPool(paid)
    BY <1>1, <2>4, <2>8 DEF PoolSound, IsSubPool, SubPoolFields
  <2>10. /\ placed.pool = paid.pool /\ placed.shares = s.shares
         /\ placed.recovery = s.recovery /\ placed.dormant = [s.dormant EXCEPT ![w] = u]
    <3> HIDE DEF paid
    <3> QED
      BY <2>9 DEF IsSubPool, SubPoolFields, u
  <2> HIDE DEF paid, placed
  <2>11. \A d \in Direction : SameShares(s.dormant[d], placed.dormant[d])
    BY <1>1, <2>7, <2>10, SameSelf DEF PoolSound
  <2>12. t \in {paid, placed}
    BY <1>3, <1>5
  <2>13. /\ t.pool = [s.pool EXCEPT ![w] = a, ![o] = b]
         /\ t.shares = s.shares /\ t.recovery = s.recovery
         /\ \A d \in Direction : SameShares(s.dormant[d], t.dormant[d])
    BY <2>9, <2>10, <2>11, <2>12, SameSelf
  <2>14. \A d \in Direction : TotalRecoveryShares(t.dormant[d]) = t.recovery[d]
    BY <1>2, <2>13, SameSharesTotal
  <2>15. t.pool[w] = a /\ (s.shares[w] = 0 => a = 0)
    BY <1>1, <2>4, <2>5, <2>8, <2>13 DEF PoolSound
  <2>16. \A d \in Direction : t.shares[d] = 0 => t.pool[d] = 0
    BY <2>4, <2>6, <2>13, <2>15
  <2> QED
    BY <2>14, <2>16 DEF Underway, t
<1> QED
  BY <1>4, <1>5

(* A rotation finishes its side and leaves the other one as it is.         *)
LEMMA RotateFinishes ==
  ASSUME NEW s, PoolSound(s), NEW d \in Direction, NEW p \in Nat,
         \A e \in Direction : Underway(s, e)
  PROVE  /\ Rotate(s, d, p).err \in {"Ok", "DormantBucketCapExceeded"}
         /\ Rotate(s, d, p).err = "Ok" =>
              /\ Done(Rotate(s, d, p).sp, d)
              /\ \A e \in Direction \ {d} :
                   /\ Underway(Rotate(s, d, p).sp, e)
                   /\ Done(s, e) => Done(Rotate(s, d, p).sp, e)
<1> DEFINE tick == BucketTickOf(p)
           st == s.dormant[d]
           u == InsertOrMerge(st, tick, p, s.shares[d], s.notional[d])
           t == Rotate(s, d, p).sp
           record == RotateRecord(s, d, tick)
           moved == [s EXCEPT !.dormant[d] = u, !.recovery[d] = @ + s.shares[d],
                              !.shares[d] = 0, !.notional[d] = 0,
                              !.rotateLog[d] = Append(@, record), !.gen[d] = @ + 1]
<1>1. Rotate(s, d, p).err \in {"Ok", "DormantBucketCapExceeded"}
  BY DEF Rotate, Ok, Fail
<1>3. CASE t = s /\ (s.pool[d] # 0 \/ s.shares[d] = 0)
  <2>1. t = s
    BY <1>3
  <2> HIDE DEF t
  <2> QED
    BY <1>1, <1>3, <2>1 DEF Done, t
<1>4. CASE t = moved /\ s.pool[d] = 0 /\ s.shares[d] # 0
  <2>0. t = moved
    BY <1>4
  <2>1. /\ StoreSound(st) /\ s.shares[d] \in Nat /\ s.notional[d] \in Nat /\ tick \in Nat
    BY SMTT(30), CoreParameters DEF PoolSound, BucketTickOf
  <2> HIDE DEF tick
  <2>2. TotalRecoveryShares(u) = s.recovery[d] + s.shares[d]
    <3>1. TotalRecoveryShares(u) = TotalRecoveryShares(st) + s.shares[d]
      BY <2>1, InsertTotal
    <3> QED
      BY <3>1 DEF Underway
  <2> HIDE DEF u, t, record
  <2>3. /\ t.pool = s.pool
        /\ t.shares = [s.shares EXCEPT ![d] = 0]
        /\ t.recovery = [s.recovery EXCEPT ![d] = @ + s.shares[d]]
        /\ t.dormant = [s.dormant EXCEPT ![d] = u]
    BY <2>0 DEF PoolSound, IsSubPool, SubPoolFields
  <2>4. /\ t.shares[d] = 0 /\ t.pool[d] = 0 /\ t.dormant[d] = u
        /\ t.recovery[d] = s.recovery[d] + s.shares[d]
    BY <1>4, <2>3 DEF PoolSound
  <2>5. \A e \in Direction \ {d} : /\ t.shares[e] = s.shares[e] /\ t.pool[e] = s.pool[e]
                                   /\ t.dormant[e] = s.dormant[e]
                                   /\ t.recovery[e] = s.recovery[e]
    BY <2>3 DEF PoolSound
  <2>6. Done(t, d)
    BY <2>2, <2>4 DEF Done, Underway
  <2>7. \A e \in Direction \ {d} : Underway(t, e) /\ (Done(s, e) => Done(t, e))
    BY <2>5 DEF Done, Underway
  <2> QED
    BY <1>1, <2>6, <2>7 DEF t
<1>5. Rotate(s, d, p).err = "Ok" =>
        \/ t = s /\ (s.pool[d] # 0 \/ s.shares[d] = 0)
        \/ t = moved /\ s.pool[d] = 0 /\ s.shares[d] # 0
  BY DEF Rotate, Ok, Fail
<1> QED
  BY <1>1, <1>3, <1>4, <1>5

LEMMA RotateBothFinishes ==
  ASSUME NEW s, PoolSound(s), NEW p \in Nat, \A e \in Direction : Underway(s, e)
  PROVE  /\ RotateBoth(s, p).err \in {"Ok", "DormantBucketCapExceeded"}
         /\ RotateBoth(s, p).err = "Ok" => SubPoolSound(RotateBoth(s, p).sp)
<1> DEFINE long == Rotate(s, "Long", p)
           both == Rotate(long.sp, "Short", p)
<1>1. /\ "Long" \in Direction /\ "Short" \in Direction /\ "Long" # "Short"
      /\ \A d \in Direction : d = "Long" \/ d = "Short"
  BY DEF Direction
<1>2. /\ long.err \in {"Ok", "DormantBucketCapExceeded"}
      /\ RotateBoth(s, p) = IF long.err = "Ok" THEN both ELSE long
  BY <1>1, RotateFinishes DEF RotateBoth
<1>3. CASE long.err # "Ok"
  BY <1>2, <1>3
<1>4. CASE long.err = "Ok"
  <2>1. /\ Done(long.sp, "Long") /\ Underway(long.sp, "Short")
    BY <1>1, <1>4, RotateFinishes
  <2>2. PoolSound(long.sp)
    BY <1>1, <1>4, RotateClears DEF Clears
  <2>3. RotateBoth(s, p) = both
    BY <1>2, <1>4
  <2> HIDE DEF long
  <2>4. \A e \in Direction : Underway(long.sp, e)
    BY <1>1, <2>1 DEF Done
  <2>5. /\ both.err \in {"Ok", "DormantBucketCapExceeded"}
        /\ both.err = "Ok" => Done(both.sp, "Short") /\ Done(both.sp, "Long")
    BY <1>1, <2>1, <2>2, <2>4, RotateFinishes
  <2>6. both.err = "Ok" => PoolSound(both.sp)
    BY <1>1, <2>2, RotateClears DEF Clears
  <2> HIDE DEF both
  <2>7. both.err = "Ok" => SubPoolSound(both.sp)
    BY <1>1, <2>5, <2>6, DoneChecks
  <2> QED
    BY <2>3, <2>5, <2>7
<1> QED
  BY <1>3, <1>4

LEMMA SyncRefuses ==
  ASSUME NEW s, NEW P, Owned(s, P), SubPoolSound(s), NEW p \in Nat
  PROVE  /\ SyncPool(s, p).err \in {"Ok", "PriceMoveTooLarge", "LedgerCapacityExceeded",
                                    "DormantBucketCapExceeded"}
         /\ SyncPool(s, p).err = "LedgerCapacityExceeded" =>
              LedgerFull(s.dormant[Winner(s, p)])
<1> DEFINE settled == Settle(s, Winner(s, p), p)
           priced == [settled.sp EXCEPT !.lastPrice = p]
           rotated == RotateBoth(priced, p)
           renewed == [s EXCEPT !.lastPrice = p]
<1>0. PoolSound(s) /\ IsSubPool(s)
  BY DEF Owned, Listed, PoolSound
<1>1. CASE s.lastPrice \in {0, p}
  <2>1. SyncPool(s, p) = Checked(renewed)
    BY <1>1 DEF SyncPool
  <2>2. /\ renewed.pool = s.pool /\ renewed.shares = s.shares
        /\ renewed.recovery = s.recovery /\ renewed.dormant = s.dormant
    BY <1>0 DEF IsSubPool, SubPoolFields
  <2> HIDE DEF renewed
  <2>3. SubPoolSound(renewed)
    BY <2>2 DEF SubPoolSound
  <2> QED
    BY <2>1, <2>3 DEF Checked, Ok
<1>2. CASE s.lastPrice \notin {0, p} /\ PriceMoveBps(s.lastPrice, p) > MaxMoveBps
  BY <1>2 DEF SyncPool, Fail
<1>3. CASE s.lastPrice \notin {0, p} /\ ~(PriceMoveBps(s.lastPrice, p) > MaxMoveBps)
  <2>1. SyncPool(s, p) = IF settled.err # "Ok" THEN settled
                         ELSE IF rotated.err # "Ok" THEN rotated
                         ELSE Checked(rotated.sp)
    BY <1>3 DEF SyncPool
  <2>2. Winner(s, p) \in Direction
    BY DEF Winner, Direction
  <2>3. CASE settled.err # "Ok"
    BY <2>1, <2>3, SettleRefuses
  <2>4. CASE settled.err = "Ok"
    <3>1. /\ PoolSound(settled.sp) /\ \A d \in Direction : Underway(settled.sp, d)
      BY <1>0, <1>3, <2>2, <2>4, SettleClears, SettleUnderway DEF Clears
    <3> HIDE DEF settled
    <3>2. PoolSound(priced)
      BY <3>1, Repriced DEF Clears
    <3>3. /\ priced.pool = settled.sp.pool /\ priced.shares = settled.sp.shares
          /\ priced.recovery = settled.sp.recovery /\ priced.dormant = settled.sp.dormant
      BY <3>1 DEF PoolSound, IsSubPool, SubPoolFields
    <3> HIDE DEF priced
    <3>4. \A d \in Direction : Underway(priced, d)
      BY <3>1, <3>3 DEF Underway
    <3>5. /\ rotated.err \in {"Ok", "DormantBucketCapExceeded"}
          /\ rotated.err = "Ok" => SubPoolSound(rotated.sp)
      BY <3>2, <3>4, RotateBothFinishes
    <3> HIDE DEF rotated
    <3>6. CASE rotated.err # "Ok"
      BY <2>1, <2>4, <3>5, <3>6
    <3>7. CASE rotated.err = "Ok"
      <4>1. SyncPool(s, p).err = "Ok"
        BY <2>1, <2>4, <3>5, <3>7 DEF Checked, Ok
      <4> QED
        BY <4>1
    <3> QED
      BY <3>6, <3>7
  <2> QED
    BY <2>3, <2>4
<1> QED
  BY <1>1, <1>2, <1>3

LEMMA InvGivesErrors == SharesInv => SyncOnlyDocumentedErrors
<1> SUFFICES ASSUME SharesInv, NEW p \in Prices
             PROVE  /\ SyncPool(sp, p).err \in {"Ok", "PriceMoveTooLarge", "LedgerCapacityExceeded",
                                                "DormantBucketCapExceeded"}
                    /\ SyncPool(sp, p).err = "LedgerCapacityExceeded" =>
                         \E t \in Ticks(sp.dormant[Winner(sp, p)]) :
                           Backlog(sp.dormant[Winner(sp, p)], t) >= MaxLedger
  BY DEF SyncOnlyDocumentedErrors
<1>1. Owned(sp, pos) /\ SubPoolSound(sp) /\ PoolSound(sp)
  BY DEF SharesInv, MoneyInv
<1>2. p \in Nat
  BY MarketParameters
<1>3. StoreSound(sp.dormant[Winner(sp, p)])
  BY <1>1 DEF PoolSound, Winner, Direction
<1>4. /\ SyncPool(sp, p).err \in {"Ok", "PriceMoveTooLarge", "LedgerCapacityExceeded",
                                  "DormantBucketCapExceeded"}
      /\ SyncPool(sp, p).err = "LedgerCapacityExceeded" =>
           LedgerFull(sp.dormant[Winner(sp, p)])
  BY <1>1, <1>2, SyncRefuses
<1>5. LedgerFull(sp.dormant[Winner(sp, p)]) =>
        \E t \in Ticks(sp.dormant[Winner(sp, p)]) :
          Backlog(sp.dormant[Winner(sp, p)], t) >= MaxLedger
  BY <1>3, FullBehindABucket DEF Backlog
<1> QED
  BY <1>4, <1>5

(* For any prices, deposits and parameters and after any calls, sync_pool  *)
(* at any price is refused only by the price band, a full ledger or a full *)
(* bucket table: check_subpool_invariants, which it ends with, never       *)
(* fails; and a full ledger only stands in the way while a bucket of the   *)
(* winning side has not replayed any of its MaxLedger entries.             *)
THEOREM SyncFailsOnlyAsDocumented == Spec => []SyncOnlyDocumentedErrors
<1> QED
  BY SharesAreInvariant, InvGivesErrors, PTL

-----------------------------------------------------------------------------
(***************************************************************************)
(* Stores as the index shows them. The index knows a store from the        *)
(* events only: it never sees a backlog, a ledger or a cursor. What it     *)
(* shows is, of each bucket, the anchor, shares and notional the chain     *)
(* stores and, as credit, what the bucket is entitled to (Promised). On    *)
(* that picture the eager and the lazy store do the same thing.            *)
(***************************************************************************)
(* What is shown of bucket t.                                              *)
Shown(st, t) ==
  [anchor |-> st.bucket[t].anchor, shares |-> st.bucket[t].shares,
   notional |-> st.bucket[t].notional, accrued |-> Promised(st, t)]

(* The same of a whole store.                                              *)
ShownStore(st) == [t \in Ticks(st) |-> Shown(st, t)]

(* What is shown of a store depends on these four things of each bucket    *)
(* only.                                                                   *)
LEMMA ShownSame ==
  ASSUME NEW st, NEW u, Ticks(u) = Ticks(st),
         \A t \in Ticks(st) : /\ u.bucket[t].anchor = st.bucket[t].anchor
                              /\ u.bucket[t].shares = st.bucket[t].shares
                              /\ u.bucket[t].notional = st.bucket[t].notional
                              /\ Promised(u, t) = Promised(st, t)
  PROVE  ShownStore(u) = ShownStore(st)
  BY DEF ShownStore, Shown

(* Replaying is not seen in the index.                                     *)
LEMMA CaughtUpShown ==
  ASSUME NEW st, StoreSound(st), NEW T \in SUBSET Ticks(st)
  PROVE  ShownStore(ApplyPending(st, T)) = ShownStore(st)
<1> DEFINE u == ApplyPending(st, T)
<1>1. CaughtUpBy(st, T, u)
  BY ApplyPendingSound
<1> HIDE DEF u
<1>2. Ticks(u) = Ticks(st)
  BY <1>1 DEF CaughtUpBy
<1>3. \A t \in Ticks(st) : /\ u.bucket[t].anchor = st.bucket[t].anchor
                           /\ u.bucket[t].shares = st.bucket[t].shares
                           /\ u.bucket[t].notional = st.bucket[t].notional
                           /\ Promised(u, t) = Promised(st, t)
  BY <1>1, CaughtUpBucket
<1>4. ShownStore(u) = ShownStore(st)
  BY <1>2, <1>3, ShownSame
<1> QED
  BY <1>4 DEF u

(* A distribution over what is shown.                                      *)
Ahead(d, B, p) == {t \in DOMAIN B : Activated(d, B[t].anchor, p)}

(* What each bucket in the money claims.                                   *)
OwedTo(d, B, p) == [t \in Ahead(d, B, p) |-> OutstandingClaim(d, B[t], p)]

(* What a bucket is granted of n, and the buckets after it.                *)
GrantTo(d, B, p, n, t) ==
  IF t \in Ahead(d, B, p)
  THEN ShareOf(n, OwedTo(d, B, p)[t], SumOver(OwedTo(d, B, p), Ahead(d, B, p)))
  ELSE 0

(* What is shown of a store once n is distributed over it at price p.      *)
Granted(d, B, p, n) ==
  [t \in DOMAIN B |-> [B[t] EXCEPT !.accrued = @ + GrantTo(d, B, p, n, t)]]

(* A claim depends on the anchor, the notional and the credit of a         *)
(* bucket.                                                                 *)
LEMMA ShownClaim ==
  ASSUME NEW d, NEW b, NEW c, NEW p, b.anchor = c.anchor, b.notional = c.notional,
         b.accrued = c.accrued
  PROVE  OutstandingClaim(d, b, p) = OutstandingClaim(d, c, p)
  BY DEF OutstandingClaim, IntrinsicClaim

(* The shares of a split are those of what is shown.                       *)
LEMMA SplitShown ==
  ASSUME NEW st, StoreSound(st), NEW p \in Nat, NEW n \in Nat,
         NEW s, s = Split(st, p, n), NEW B, B = ShownStore(st)
  PROVE  /\ ShownStore(s.ready) = B
         /\ s.active = Ahead(st.dir, B, p)
         /\ s.total = SumOver(OwedTo(st.dir, B, p), Ahead(st.dir, B, p))
         /\ \A t \in s.active : s.share[t] = GrantTo(st.dir, B, p, n, t)
<1> DEFINE room == WithRoom(st)
           T == ActivatedTicks(st, p)
           u == ApplyPending(room, T)
           owed == OwedAt(u, p)
<1>1. Compacted(st, room) /\ StoreSound(room)
  BY WithRoomSound DEF Compacted
<1>2. Ticks(room) = Ticks(st) /\ room.bucket = st.bucket /\ room.dir = st.dir
  BY <1>1 DEF Compacted, Ticks
<1>3. T \in SUBSET Ticks(room)
  BY <1>2 DEF ActivatedTicks
<1>4. CaughtUpBy(room, T, u) /\ ShownStore(u) = ShownStore(room)
  BY <1>1, <1>3, ApplyPendingSound, CaughtUpShown
<1>5. s = [ready |-> u, active |-> DOMAIN owed, total |-> SumOver(owed, DOMAIN owed),
           share |-> [t \in DOMAIN owed |-> ShareOf(n, owed[t], SumOver(owed, DOMAIN owed))],
           allocated |-> SumOver([t \in DOMAIN owed |->
                            ShareOf(n, owed[t], SumOver(owed, DOMAIN owed))],
                            DOMAIN [t \in DOMAIN owed |->
                            ShareOf(n, owed[t], SumOver(owed, DOMAIN owed))])]
  BY DEF Split, CaughtUp
<1> HIDE DEF room, u, T
<1>6. ShownStore(room) = ShownStore(st)
  BY <1>1, <1>2, ShownSame DEF Compacted
<1>7. ShownStore(u) = B /\ DOMAIN B = Ticks(u) /\ u.dir = st.dir
      /\ \A t \in Ticks(u) : B[t] = Shown(u, t)
  BY <1>2, <1>4, <1>6 DEF ShownStore, CaughtUpBy
<1>8. StoreTyped(u) /\ Within(u) /\ Ticks(u) = Ticks(room)
  BY <1>4 DEF CaughtUpBy, StoreSound
<1>a. \A t \in Ticks(room) :
        /\ u.bucket[t] \in Bucket /\ u.bucket[t].anchor = room.bucket[t].anchor
        /\ t \in T => u.bucket[t].lastApplied = NextEventIndex(u)
  <2> SUFFICES ASSUME NEW t \in Ticks(room)
               PROVE  /\ u.bucket[t] \in Bucket /\ u.bucket[t].anchor = room.bucket[t].anchor
                      /\ t \in T => u.bucket[t].lastApplied = NextEventIndex(u)
    OBVIOUS
  <2>1. StoreSound(room) /\ T \in SUBSET Ticks(room) /\ CaughtUpBy(room, T, u)
    BY <1>1, <1>3, <1>4
  <2>2. PICK a, S : a = room /\ S = T
    OBVIOUS
  <2>3. StoreSound(a) /\ S \in SUBSET Ticks(a) /\ CaughtUpBy(a, S, u) /\ t \in Ticks(a)
    BY <2>1, <2>2
  <2>4. u.bucket[t] \in Bucket
    BY ONLY <2>3, CaughtUpBucket
  <2>5. u.bucket[t].anchor = a.bucket[t].anchor
    BY ONLY <2>3, CaughtUpBucket
  <2>6. t \in S => u.bucket[t].lastApplied = NextEventIndex(u)
    BY ONLY <2>3, CaughtUpBucket
  <2> QED
    BY <2>2, <2>4, <2>5, <2>6
<1>9. Ahead(st.dir, B, p) = ActivatedTicks(u, p) /\ DOMAIN owed = ActivatedTicks(u, p)
  BY <1>7 DEF Ahead, ActivatedTicks, OwedAt, Shown
<1>10. ActivatedTicks(u, p) \subseteq T
  <2> SUFFICES ASSUME NEW t \in ActivatedTicks(u, p) PROVE t \in T
    OBVIOUS
  <2>1. t \in Ticks(room) /\ Activated(room.dir, u.bucket[t].anchor, p)
    BY <1>2, <1>7, <1>8 DEF ActivatedTicks
  <2>2. u.bucket[t].anchor = st.bucket[t].anchor
    BY <1>2, <1>a, <2>1
  <2> QED
    BY <1>2, <2>1, <2>2 DEF T, ActivatedTicks
<1>11. \A t \in ActivatedTicks(u, p) :
         owed[t] = OutstandingClaim(st.dir, B[t], p)
  <2> SUFFICES ASSUME NEW t \in ActivatedTicks(u, p)
               PROVE  owed[t] = OutstandingClaim(st.dir, B[t], p)
    OBVIOUS
  <2>1. t \in T /\ t \in Ticks(u) /\ owed[t] = OutstandingClaim(st.dir, u.bucket[t], p)
    BY <1>7, <1>10 DEF ActivatedTicks, OwedAt
  <2>2. u.bucket[t] \in Bucket /\ u.bucket[t].lastApplied = NextEventIndex(u)
    BY <1>8, <1>a, <2>1
  <2>3. Promised(u, t) = u.bucket[t].accrued + Due(u)[t] /\ Due(u)[t] = 0
    BY <1>8, <2>1, <2>2, DueType, PromisedNat
  <2>4. Promised(u, t) = u.bucket[t].accrued
    BY <2>2, <2>3 DEF Bucket
  <2>5. /\ B[t].anchor = u.bucket[t].anchor /\ B[t].notional = u.bucket[t].notional
        /\ B[t].accrued = u.bucket[t].accrued
    BY <1>7, <2>1, <2>4 DEF Shown
  <2> QED
    BY <2>1, <2>5, ShownClaim
<1>12. owed = OwedTo(st.dir, B, p)
  <2>1. owed = [t \in ActivatedTicks(u, p) |-> owed[t]]
    BY DEF OwedAt
  <2> HIDE DEF owed
  <2> QED
    BY <1>9, <1>11, <2>1 DEF OwedTo
<1> HIDE DEF owed
<1>13. s.ready = u /\ s.active = DOMAIN owed /\ s.total = SumOver(owed, DOMAIN owed)
       /\ \A t \in DOMAIN owed : s.share[t] = ShareOf(n, owed[t], SumOver(owed, DOMAIN owed))
  BY <1>5
<1> QED
  BY <1>7, <1>9, <1>12, <1>13 DEF GrantTo

(* Store u is store st after the distribution split up in s.               *)
Receives(st, s, u) ==
  /\ Ticks(u) = Ticks(st)
  /\ \A t \in Ticks(st) :
       /\ u.bucket[t].anchor = s.ready.bucket[t].anchor
       /\ u.bucket[t].shares = s.ready.bucket[t].shares
       /\ u.bucket[t].notional = s.ready.bucket[t].notional
       /\ Promised(u, t) = Promised(s.ready, t) + (IF t \in s.active THEN s.share[t] ELSE 0)

(* What a store is known to have been credited or recorded, the index      *)
(* shows.                                                                  *)
LEMMA GrantShown ==
  ASSUME NEW st, StoreSound(st), NEW p \in Nat, NEW n \in Nat,
         NEW s, s = Split(st, p, n), NEW u, Receives(st, s, u)
  PROVE  ShownStore(u) = Granted(st.dir, ShownStore(st), p, n)
<1>0. /\ Ticks(u) = Ticks(st)
      /\ \A t \in Ticks(st) :
           /\ u.bucket[t].anchor = s.ready.bucket[t].anchor
           /\ u.bucket[t].shares = s.ready.bucket[t].shares
           /\ u.bucket[t].notional = s.ready.bucket[t].notional
           /\ Promised(u, t) = Promised(s.ready, t) + (IF t \in s.active THEN s.share[t] ELSE 0)
  BY DEF Receives
<1> DEFINE B == ShownStore(st)
<1>1. /\ ShownStore(s.ready) = B /\ s.active = Ahead(st.dir, B, p)
      /\ \A t \in s.active : s.share[t] = GrantTo(st.dir, B, p, n, t)
  BY SplitShown
<1>2. Ticks(s.ready) = Ticks(st)
  <2>1. SplitFacts(st, p, n, s)
    BY SplitSound
  <2> QED
    BY <2>1 DEF SplitFacts
<1>3. DOMAIN B = Ticks(st)
  BY DEF ShownStore
<1>4. \A t \in Ticks(st) : B[t] = Shown(s.ready, t)
  BY <1>1, <1>2 DEF ShownStore
<1>5. \A t \in Ticks(st) : Promised(u, t) = Promised(s.ready, t) + GrantTo(st.dir, B, p, n, t)
  BY <1>0, <1>1 DEF GrantTo
<1> HIDE DEF B
<1>6. ASSUME NEW t \in Ticks(st)
      PROVE  Shown(u, t) = [B[t] EXCEPT !.accrued = @ + GrantTo(st.dir, B, p, n, t)]
  <2>1. B[t] = Shown(s.ready, t)
    BY <1>4
  <2>2. /\ u.bucket[t].anchor = B[t].anchor /\ u.bucket[t].shares = B[t].shares
        /\ u.bucket[t].notional = B[t].notional
    BY <1>0, <2>1 DEF Shown
  <2>3. Promised(u, t) = B[t].accrued + GrantTo(st.dir, B, p, n, t)
    BY <1>5, <2>1 DEF Shown
  <2> QED
    BY <2>1, <2>2, <2>3 DEF Shown
<1>7. ShownStore(u) = Granted(st.dir, B, p, n)
  BY <1>0, <1>3, <1>6 DEF ShownStore, Granted
<1> QED
  BY <1>7 DEF B

(* Where nobody claims anything, a distribution shows nothing.             *)
LEMMA NothingGranted ==
  ASSUME NEW st, StoreSound(st), NEW p \in Nat, NEW n \in Nat, Split(st, p, n).total = 0
  PROVE  Granted(st.dir, ShownStore(st), p, n) = ShownStore(st)
<1> DEFINE B == ShownStore(st)
<1>1. SumOver(OwedTo(st.dir, B, p), Ahead(st.dir, B, p)) = 0
  BY SplitShown
<1>2. \A t : GrantTo(st.dir, B, p, n, t) = 0
  BY <1>1 DEF GrantTo, ShareOf
<1>3. \A t \in Ticks(st) : Promised(st, t) \in Nat
  BY PromisedNat DEF StoreSound
<1>4. \A t \in Ticks(st) : B[t] = Shown(st, t)
  BY DEF ShownStore
<1>5. B = [t \in Ticks(st) |-> B[t]] /\ DOMAIN B = Ticks(st)
  BY DEF ShownStore
<1> HIDE DEF B
<1>6. ASSUME NEW t \in Ticks(st)
      PROVE  [B[t] EXCEPT !.accrued = @ + GrantTo(st.dir, B, p, n, t)] = B[t]
  <2>1. B[t].accrued + GrantTo(st.dir, B, p, n, t) = B[t].accrued
    <3>0. B[t] = Shown(st, t)
      BY <1>4
    <3>1. B[t].accrued = Promised(st, t)
      BY <3>0 DEF Shown
    <3>2. B[t].accrued \in Nat /\ GrantTo(st.dir, B, p, n, t) = 0
      BY <1>2, <1>3, <3>1
    <3> QED
      BY <3>2
  <2> QED
    BY <1>4, <2>1 DEF Shown
<1>7. Granted(st.dir, B, p, n) = B
  BY <1>5, <1>6 DEF Granted
<1> QED
  BY <1>7 DEF B

(* A distribution written to the ledger shows as the index computes it.    *)
LEMMA LazyShown ==
  ASSUME NEW st, StoreSound(st), NEW p \in Nat, NEW n \in Nat
  PROVE  ShownStore(DistributeLazy(st, p, n)) = Granted(st.dir, ShownStore(st), p, n)
<1> DEFINE s == Split(st, p, n)
           r == s.ready
           e == NewEntry(p, n, s)
           u == DistributeLazy(st, p, n)
<1>0. SplitFacts(st, p, n, s)
  BY SplitSound
<1>1. CASE s.total = 0
  <2>1. u = s.ready
    BY <1>1 DEF DistributeLazy
  <2>2. ShownStore(s.ready) = ShownStore(st)
    BY SplitShown
  <2> QED
    BY <1>1, <2>1, <2>2, NothingGranted
<1>2. CASE s.total # 0
  <2>1. u = [r EXCEPT !.pending = @ + s.allocated, !.ledger = Append(@, e)]
    BY <1>2 DEF DistributeLazy
  <2>2. StoreSound(u) /\ Ticks(u) = Ticks(st)
    BY DistributeLazySound DEF Distributed
  <2>3. \A t \in Ticks(st) :
          /\ e \in Entry
          /\ EntryShare(st.dir, r.bucket[t], Replayed(r, r.bucket[t]), e)
               = IF t \in s.active THEN s.share[t] ELSE 0
    BY <1>0, EntryGives
  <2>4. /\ StoreTyped(r) /\ Within(r) /\ Ticks(r) = Ticks(st) /\ r.dir = st.dir
        /\ Amounts(s.share, s.active)
    BY <1>0 DEF SplitFacts, StoreSound
  <2>5. s = Split(st, p, n)
    OBVIOUS
  <2> HIDE DEF s, u, e
  <2>6. /\ u.dir = r.dir /\ u.bucket = r.bucket
        /\ u.ledger = Append(r.ledger, e) /\ u.gcOffset = r.gcOffset
    BY <2>1, <2>4 DEF StoreTyped, StoreFields
  <2>7. ASSUME NEW t \in Ticks(st)
        PROVE  Promised(u, t) = Promised(r, t) + (IF t \in s.active THEN s.share[t] ELSE 0)
    <3>1. t \in Ticks(r) /\ t \in Ticks(u) /\ u.bucket[t] = r.bucket[t]
          /\ r.bucket[t].lastApplied \in r.gcOffset .. NextEventIndex(r)
      BY <2>2, <2>4, <2>6 DEF Within
    <3>2. Due(u)[t] = Due(r)[t]
            + EntryShare(r.dir, r.bucket[t], Replayed(r, r.bucket[t]), e)
      BY <2>3, <2>4, <2>6, <3>1, AppendedDue
    <3>3. /\ Promised(u, t) = u.bucket[t].accrued + Due(u)[t]
          /\ Promised(r, t) = r.bucket[t].accrued + Due(r)[t]
      BY <2>2, <2>4, <3>1, PromisedNat DEF StoreSound
    <3>4. Due(r)[t] \in Nat /\ r.bucket[t].accrued \in Nat
      BY <2>4, <3>1, DueType DEF Amounts, StoreTyped, Bucket
    <3>5. PICK g \in Nat : g = IF t \in s.active THEN s.share[t] ELSE 0
      BY <2>4 DEF Amounts
    <3> QED
      BY <2>3, <2>4, <3>1, <3>2, <3>3, <3>4, <3>5
  <2>8. ShownStore(u) = Granted(st.dir, ShownStore(st), p, n)
    <3>1. \A t \in Ticks(st) :
            /\ u.bucket[t].anchor = r.bucket[t].anchor
            /\ u.bucket[t].shares = r.bucket[t].shares
            /\ u.bucket[t].notional = r.bucket[t].notional
            /\ Promised(u, t) = Promised(r, t) + (IF t \in s.active THEN s.share[t] ELSE 0)
      BY <2>6, <2>7
    <3>2. Receives(st, s, u)
      BY <2>2, <3>1 DEF Receives, r
    <3> QED
      BY <2>5, <3>2, GrantShown
  <2> QED
    BY <2>8 DEF u
<1> QED
  BY <1>1, <1>2

(* A distribution written to the buckets shows as the index computes it.   *)
LEMMA EagerShown ==
  ASSUME NEW st, StoreSound(st), NEW p \in Nat, NEW n \in Nat
  PROVE  ShownStore(DistributeEager(st, p, n)) = Granted(st.dir, ShownStore(st), p, n)
<1> DEFINE s == Split(st, p, n)
           r == s.ready
           e == NewEntry(p, n, s)
           next == NextEventIndex(r) + 1
           u == DistributeEager(st, p, n)
<1>0. SplitFacts(st, p, n, s)
  BY SplitSound
<1>1. CASE s.total = 0
  <2>1. u = s.ready
    BY <1>1 DEF DistributeEager
  <2>2. ShownStore(s.ready) = ShownStore(st)
    BY SplitShown
  <2> QED
    BY <1>1, <2>1, <2>2, NothingGranted
<1>2. CASE s.total # 0
  <2>1. u = [r EXCEPT !.bucket = [t \in Ticks(st) |->
                                    IF t \in s.active THEN Credited(@[t], s.share[t], next)
                                    ELSE @[t]],
                      !.accruedTotal = @ + s.allocated, !.ledger = Append(@, e)]
    BY <1>2 DEF DistributeEager
  <2>2. StoreSound(u) /\ Ticks(u) = Ticks(st)
    BY DistributeEagerSound DEF Distributed
  <2>3. \A t \in Ticks(st) :
          /\ e \in Entry
          /\ EntryShare(st.dir, r.bucket[t], Replayed(r, r.bucket[t]), e)
               = IF t \in s.active THEN s.share[t] ELSE 0
          /\ t \in s.active => Due(r)[t] = 0
    BY <1>0, EntryGives
  <2>4. /\ StoreTyped(r) /\ Within(r) /\ Ticks(r) = Ticks(st) /\ r.dir = st.dir
        /\ Amounts(s.share, s.active)
    BY <1>0 DEF SplitFacts, StoreSound
  <2>5. s = Split(st, p, n)
    OBVIOUS
  <2> HIDE DEF s, u, e
  <2>6. /\ u.dir = r.dir
        /\ u.bucket = [t \in Ticks(st) |->
                         IF t \in s.active THEN Credited(r.bucket[t], s.share[t], next)
                         ELSE r.bucket[t]]
        /\ u.ledger = Append(r.ledger, e) /\ u.gcOffset = r.gcOffset
    BY <2>1, <2>4 DEF StoreTyped, StoreFields
  <2>9. NextEventIndex(u) = next
    <3>1. r.ledger \in Seq(Entry) /\ r.gcOffset \in Nat /\ Len(r.ledger) \in Nat
      BY <2>4 DEF StoreTyped
    <3>2. Len(u.ledger) = Len(r.ledger) + 1
      BY <2>6, <3>1
    <3>3. /\ NextEventIndex(u) = r.gcOffset + Len(u.ledger)
          /\ next = r.gcOffset + Len(r.ledger) + 1
      BY <2>6, <3>1 DEF NextEventIndex
    <3> HIDE DEF next
    <3> QED
      BY <3>1, <3>2, <3>3
  <2> HIDE DEF next
  <2>7. ASSUME NEW t \in Ticks(st)
        PROVE  /\ Promised(u, t) = Promised(r, t) + (IF t \in s.active THEN s.share[t] ELSE 0)
               /\ u.bucket[t].anchor = r.bucket[t].anchor
               /\ u.bucket[t].shares = r.bucket[t].shares
               /\ u.bucket[t].notional = r.bucket[t].notional
    <3>0. t \in Ticks(r) /\ t \in Ticks(u) /\ r.bucket[t] \in Bucket
          /\ r.bucket[t].lastApplied \in r.gcOffset .. NextEventIndex(r)
      BY <2>2, <2>4 DEF Within, StoreTyped
    <3>3. /\ Promised(u, t) = u.bucket[t].accrued + Due(u)[t]
          /\ Promised(r, t) = r.bucket[t].accrued + Due(r)[t]
      BY <2>2, <2>4, <3>0, PromisedNat DEF StoreSound
    <3>4. Due(r)[t] \in Nat /\ r.bucket[t].accrued \in Nat
      BY <2>4, <3>0, DueType DEF Amounts, Bucket
    <3>1. CASE t \in s.active
      <4>1. PICK g \in Nat : g = s.share[t]
        BY <2>4, <3>1 DEF Amounts
      <4>2. u.bucket[t] = [r.bucket[t] EXCEPT !.accrued = @ + g, !.lastApplied = next]
        BY <2>6, <3>1, <4>1 DEF Credited
      <4>3. /\ u.bucket[t].accrued = r.bucket[t].accrued + g
            /\ u.bucket[t].lastApplied = next
            /\ u.bucket[t].anchor = r.bucket[t].anchor
            /\ u.bucket[t].shares = r.bucket[t].shares
            /\ u.bucket[t].notional = r.bucket[t].notional
        BY <3>0, <4>2 DEF Bucket
      <4>4. Due(u)[t] = 0
        BY <2>2, <2>9, <3>0, <4>3, DueType DEF StoreSound
      <4> QED
        BY <2>3, <3>1, <3>3, <3>4, <4>1, <4>3, <4>4
    <3>2. CASE t \notin s.active
      <4>1. u.bucket[t] = r.bucket[t]
        BY <2>6, <3>2
      <4>2. Due(u)[t] = Due(r)[t]
              + EntryShare(r.dir, r.bucket[t], Replayed(r, r.bucket[t]), e)
        BY <2>3, <2>4, <2>6, <3>0, <4>1, AppendedDue
      <4> QED
        BY <2>3, <2>4, <3>2, <3>3, <3>4, <4>1, <4>2
    <3> QED
      BY <3>1, <3>2
  <2>8. ShownStore(u) = Granted(st.dir, ShownStore(st), p, n)
    <3>1. Receives(st, s, u)
      BY <2>2, <2>7 DEF Receives, r
    <3> QED
      BY <2>5, <3>1, GrantShown
  <2> QED
    BY <2>8 DEF u
<1> QED
  BY <1>1, <1>2

(* In either mode the index shows a distribution as the chain makes it.    *)
LEMMA DistributeShown ==
  ASSUME NEW st, StoreSound(st), NEW p \in Nat, NEW n \in Nat
  PROVE  ShownStore(Distribute(st, p, n)) = Granted(st.dir, ShownStore(st), p, n)
  BY LazyShown, EagerShown DEF Distribute

(* What a bucket is entitled to depends on itself and on the ledger.       *)
LEMMA SamePromise ==
  ASSUME NEW st, NEW u, u.dir = st.dir, u.ledger = st.ledger, u.gcOffset = st.gcOffset,
         NEW t, u.bucket[t] = st.bucket[t]
  PROVE  Promised(u, t) = Promised(st, t)
  BY ReplayedIsReplay DEF Promised, Unapplied

(* A bucket that has replayed the ledger is entitled to its credit.        *)
LEMMA CurrentPromise ==
  ASSUME NEW st, StoreSound(st), NEW t \in Ticks(st),
         st.bucket[t].lastApplied = NextEventIndex(st)
  PROVE  Promised(st, t) = st.bucket[t].accrued /\ st.bucket[t] \in Bucket
<1>1. st.bucket[t] \in Bucket
  BY DEF StoreSound, StoreTyped
<1>2. Promised(st, t) = st.bucket[t].accrued + Due(st)[t] /\ Due(st)[t] = 0
  BY DueType, PromisedNat DEF StoreSound
<1>3. PICK a \in Nat : a = st.bucket[t].accrued
  BY <1>1 DEF Bucket
<1> QED
  BY <1>1, <1>2, <1>3

(* The bucket of a tick after a merge.                                     *)
JoinedTo(B, t, anchor, shares, notional) ==
  IF t \in DOMAIN B THEN [B[t] EXCEPT !.shares = @ + shares, !.notional = @ + notional]
  ELSE [anchor |-> anchor, shares |-> shares, notional |-> notional, accrued |-> 0]

(* The same of the store.                                                  *)
JoinedStore(B, t, anchor, shares, notional) ==
  [x \in DOMAIN B \cup {t} |->
     IF x = t THEN JoinedTo(B, t, anchor, shares, notional) ELSE B[x]]

(* Shares that enter a bucket, or make one, show as the index books them.  *)
LEMMA InsertShown ==
  ASSUME NEW st, StoreSound(st), NEW t \in Nat, NEW anchor \in Nat,
         NEW shares \in Nat, NEW notional \in Nat, NEW B, B = ShownStore(st)
  PROVE  ShownStore(InsertOrMerge(st, t, anchor, shares, notional))
           = JoinedStore(B, t, anchor, shares, notional)
<1> DEFINE u == InsertOrMerge(st, t, anchor, shares, notional)
<1>0. StoreTyped(st) /\ Within(st) /\ DOMAIN B = Ticks(st) /\ \A x \in Ticks(st) : B[x] = Shown(st, x)
  BY DEF StoreSound, ShownStore
<1>1. StoreSound(u)
  BY InsertOrMergeSound DEF MergedInto
<1>2. CASE t \in Ticks(st)
  <2> DEFINE v == ApplyPending(st, {t})
             b == [v.bucket[t] EXCEPT !.shares = @ + shares, !.notional = @ + notional]
  <2>1. CaughtUpBy(st, {t}, v) /\ {t} \in SUBSET Ticks(st)
    BY <1>2, ApplyPendingSound
  <2>2. u = [v EXCEPT !.bucket[t].shares = @ + shares, !.bucket[t].notional = @ + notional]
    BY <1>2 DEF InsertOrMerge
  <2> HIDE DEF u, v
  <2>3. \A x \in Ticks(st) :
          /\ v.bucket[x] \in Bucket
          /\ v.bucket[x].anchor = st.bucket[x].anchor
          /\ v.bucket[x].shares = st.bucket[x].shares
          /\ v.bucket[x].notional = st.bucket[x].notional
          /\ x = t => v.bucket[x].lastApplied = NextEventIndex(v)
          /\ Promised(v, x) = Promised(st, x)
    BY <2>1, CaughtUpBucket
  <2>4. StoreSound(v) /\ StoreTyped(v) /\ Ticks(v) = Ticks(st)
    BY <2>1 DEF CaughtUpBy, StoreSound
  <2>5. Promised(v, t) = v.bucket[t].accrued
    BY <1>2, <2>3, <2>4, CurrentPromise
  <2>6. /\ b.anchor = v.bucket[t].anchor /\ b.shares = v.bucket[t].shares + shares
        /\ b.notional = v.bucket[t].notional + notional
        /\ b.accrued = v.bucket[t].accrued /\ b.lastApplied = NextEventIndex(v)
    BY <1>2, <2>3 DEF Bucket
  <2>7. /\ u.dir = v.dir /\ u.ledger = v.ledger /\ u.gcOffset = v.gcOffset
        /\ u.bucket = [x \in Ticks(v) |-> IF x = t THEN b ELSE v.bucket[x]]
    BY <1>2, <2>2, <2>4 DEF StoreTyped, StoreFields, Ticks
  <2> HIDE DEF b
  <2>8. Ticks(u) = Ticks(st) /\ NextEventIndex(u) = NextEventIndex(v) /\ u.bucket[t] = b
        /\ \A x \in Ticks(st) \ {t} : u.bucket[x] = v.bucket[x]
    BY <1>2, <2>4, <2>7 DEF Ticks, NextEventIndex
  <2>9. Promised(u, t) = b.accrued
    BY <1>1, <1>2, <2>6, <2>8, CurrentPromise
  <2>10. Shown(u, t) = JoinedTo(B, t, anchor, shares, notional)
    <3>1. B[t] = Shown(st, t) /\ t \in DOMAIN B
      BY <1>0, <1>2
    <3>2. /\ b.anchor = st.bucket[t].anchor /\ b.shares = st.bucket[t].shares + shares
          /\ b.notional = st.bucket[t].notional + notional /\ b.accrued = Promised(st, t)
      BY <1>2, <2>3, <2>5, <2>6
    <3>3. Shown(u, t)
            = [anchor |-> st.bucket[t].anchor, shares |-> st.bucket[t].shares + shares,
               notional |-> st.bucket[t].notional + notional, accrued |-> Promised(st, t)]
      BY <2>8, <2>9, <3>2 DEF Shown
    <3>4. JoinedTo(B, t, anchor, shares, notional)
            = [Shown(st, t) EXCEPT !.shares = @ + shares, !.notional = @ + notional]
      BY <3>1 DEF JoinedTo
    <3> QED
      BY <3>3, <3>4 DEF Shown
  <2>11. \A x \in Ticks(st) \ {t} : Shown(u, x) = B[x]
    <3> SUFFICES ASSUME NEW x \in Ticks(st) \ {t} PROVE Shown(u, x) = B[x]
      OBVIOUS
    <3>1. Promised(u, x) = Promised(v, x) /\ u.bucket[x] = v.bucket[x]
      BY <2>7, <2>8, SamePromise
    <3>2. B[x] = Shown(st, x)
      BY <1>0
    <3>3. /\ v.bucket[x].anchor = st.bucket[x].anchor
          /\ v.bucket[x].shares = st.bucket[x].shares
          /\ v.bucket[x].notional = st.bucket[x].notional
          /\ Promised(v, x) = Promised(st, x)
      BY <2>3
    <3> QED
      BY <3>1, <3>2, <3>3 DEF Shown
  <2>12. ShownStore(u) = [x \in Ticks(st) \cup {t} |->
                IF x = t THEN JoinedTo(B, t, anchor, shares, notional) ELSE B[x]]
    BY <1>2, <2>8, <2>10, <2>11 DEF ShownStore
  <2> QED
    BY <1>0, <2>12 DEF u, JoinedStore
<1>3. CASE t \notin Ticks(st)
  <2> DEFINE b == [anchor |-> anchor, shares |-> shares, notional |-> notional,
                   accrued |-> 0, lastApplied |-> NextEventIndex(st)]
  <2>1. u = [st EXCEPT !.bucket = [x \in Ticks(st) \cup {t} |-> IF x = t THEN b ELSE @[x]]]
    BY <1>3 DEF InsertOrMerge
  <2>2. b.anchor = anchor /\ b.shares = shares /\ b.notional = notional /\ b.accrued = 0
        /\ b.lastApplied = NextEventIndex(st)
    OBVIOUS
  <2> HIDE DEF u, b
  <2>3. /\ u.dir = st.dir /\ u.ledger = st.ledger /\ u.gcOffset = st.gcOffset
        /\ u.bucket = [x \in Ticks(st) \cup {t} |-> IF x = t THEN b ELSE st.bucket[x]]
    BY <1>0, <2>1 DEF StoreTyped, StoreFields
  <2>4. Ticks(u) = Ticks(st) \cup {t} /\ NextEventIndex(u) = NextEventIndex(st) /\ u.bucket[t] = b
        /\ \A x \in Ticks(st) \ {t} : u.bucket[x] = st.bucket[x]
    BY <2>3 DEF Ticks, NextEventIndex
  <2>5. Promised(u, t) = b.accrued
    BY <1>1, <2>2, <2>4, CurrentPromise
  <2>6. Shown(u, t) = JoinedTo(B, t, anchor, shares, notional)
    BY <1>0, <1>3, <2>2, <2>4, <2>5 DEF Shown, JoinedTo
  <2>7. \A x \in Ticks(st) \ {t} : Shown(u, x) = B[x]
    <3> SUFFICES ASSUME NEW x \in Ticks(st) \ {t} PROVE Shown(u, x) = B[x]
      OBVIOUS
    <3>1. Promised(u, x) = Promised(st, x) /\ u.bucket[x] = st.bucket[x]
      BY <2>3, <2>4, SamePromise
    <3> QED
      BY <1>0, <3>1 DEF Shown
  <2>8. ShownStore(u) = [x \in Ticks(st) \cup {t} |->
                IF x = t THEN JoinedTo(B, t, anchor, shares, notional) ELSE B[x]]
    BY <1>3, <2>4, <2>6, <2>7 DEF ShownStore
  <2> QED
    BY <1>0, <2>8 DEF u, JoinedStore
<1> QED
  BY <1>2, <1>3

(* A redemption, as the index books it.                                    *)
BurntTo(b, n, m, v) ==
  [b EXCEPT !.shares = @ - n, !.notional = Monus(@, m), !.accrued = Monus(@, v)]

(* The same of the store: a bucket with nothing left in it disappears.     *)
BurntFrom(B, t, n, m, v) ==
  [x \in IF Spent(BurntTo(B[t], n, m, v)) THEN DOMAIN B \ {t} ELSE DOMAIN B |->
     IF x = t THEN BurntTo(B[t], n, m, v) ELSE B[x]]

(* Shares that leave a bucket show as the index books them.                *)
LEMMA RedeemShown ==
  ASSUME NEW st, StoreSound(st), NEW t, NEW n \in Nat, n > 0, CanRedeem(st, t, n),
         NEW B, B = ShownStore(st)
  PROVE  ShownStore(Redeem(st, t, n))
           = BurntFrom(B, t, n, MulDivFloor(st.bucket[t].notional, n, st.bucket[t].shares),
                       Redeemable(st, t, n))
<1> DEFINE u == Redeem(st, t, n)
           out == Redeemable(st, t, n)
           v == ApplyPending(st, {t})
           w == v.bucket[t]
           b == [w EXCEPT !.accrued = @ - out, !.shares = @ - n,
                          !.notional = @ - MulDivFloor(@, n, w.shares)]
           m == MulDivFloor(st.bucket[t].notional, n, st.bucket[t].shares)
           c == BurntTo(B[t], n, m, out)
<1>0. /\ StoreTyped(st) /\ Within(st) /\ t \in Ticks(st) /\ n <= st.bucket[t].shares
      /\ DOMAIN B = Ticks(st) /\ \A x \in Ticks(st) : B[x] = Shown(st, x)
  BY DEF StoreSound, CanRedeem, ShownStore
<1>1. CaughtUpBy(st, {t}, v) /\ {t} \in SUBSET Ticks(st)
  BY <1>0, ApplyPendingSound
<1>2. u = [v EXCEPT !.bucket = [x \in TicksKept(v, t, b) |-> IF x = t THEN b ELSE @[x]],
                    !.accruedTotal = @ - out]
  BY DEF Redeem
<1>3. out = MulDivFloor(w.accrued, n, w.shares)
  BY DEF Redeemable
<1>4. StoreSound(u)
  BY RedeemSound DEF Redeemed
<1> HIDE DEF u, v, out
<1>5. \A x \in Ticks(st) :
        /\ v.bucket[x] \in Bucket
        /\ v.bucket[x].anchor = st.bucket[x].anchor
        /\ v.bucket[x].shares = st.bucket[x].shares
        /\ v.bucket[x].notional = st.bucket[x].notional
        /\ x = t => v.bucket[x].lastApplied = NextEventIndex(v)
        /\ Promised(v, x) = Promised(st, x)
  BY <1>1, CaughtUpBucket
<1>6. StoreSound(v) /\ StoreTyped(v) /\ Ticks(v) = Ticks(st)
  BY <1>1 DEF CaughtUpBy, StoreSound
<1>7. Promised(v, t) = w.accrued
  BY <1>0, <1>5, <1>6, CurrentPromise
<1>8. /\ w \in Bucket /\ w.lastApplied = NextEventIndex(v)
      /\ B[t] = [anchor |-> w.anchor, shares |-> w.shares, notional |-> w.notional,
                 accrued |-> w.accrued]
      /\ m = MulDivFloor(w.notional, n, w.shares) /\ n <= w.shares
  BY <1>0, <1>5, <1>7 DEF Shown
<1> HIDE DEF w, m
<1>9. /\ w.accrued \in Nat /\ w.notional \in Nat /\ w.shares \in Nat \ {0}
      /\ out \in Nat /\ out <= w.accrued /\ m \in Nat /\ m <= w.notional
  <2>1. w.accrued \in Nat /\ w.notional \in Nat /\ w.shares \in Nat \ {0}
    BY <1>8 DEF Bucket
  <2> QED
    BY <1>3, <1>8, <2>1, FloorPart
<1>10. /\ b.anchor = w.anchor /\ b.shares = w.shares - n /\ b.notional = w.notional - m
       /\ b.accrued = w.accrued - out /\ b.lastApplied = w.lastApplied
  BY <1>8 DEF Bucket
<1> HIDE DEF b
<1>11. c = [anchor |-> b.anchor, shares |-> b.shares, notional |-> b.notional,
            accrued |-> b.accrued]
  <2>1. Monus(w.notional, m) = w.notional - m /\ Monus(w.accrued, out) = w.accrued - out
    BY <1>9 DEF Monus
  <2>2. B[t].shares = w.shares /\ B[t].notional = w.notional /\ B[t].accrued = w.accrued
    BY <1>8
  <2>3. c = [B[t] EXCEPT !.shares = b.shares, !.notional = b.notional, !.accrued = b.accrued]
    BY <1>10, <2>1, <2>2 DEF BurntTo
  <2> HIDE DEF c
  <2>4. B[t] = [anchor |-> b.anchor, shares |-> w.shares, notional |-> w.notional,
                accrued |-> w.accrued]
    BY <1>8, <1>10
  <2> DEFINE r == [B[t] EXCEPT !.shares = b.shares]
             q == [r EXCEPT !.notional = b.notional]
  <2>5. r = [anchor |-> b.anchor, shares |-> b.shares, notional |-> w.notional,
             accrued |-> w.accrued]
    BY <2>4
  <2>6. c = [q EXCEPT !.accrued = b.accrued]
    BY <2>3
  <2> HIDE DEF r
  <2>7. q = [anchor |-> b.anchor, shares |-> b.shares, notional |-> b.notional,
             accrued |-> w.accrued]
    BY <2>5
  <2> HIDE DEF q
  <2> QED
    BY <2>6, <2>7
<1> HIDE DEF c
<1>12. Spent(c) <=> Spent(b)
  BY <1>11 DEF Spent
<1>13. /\ u.dir = v.dir /\ u.ledger = v.ledger /\ u.gcOffset = v.gcOffset
       /\ u.bucket = [x \in TicksKept(v, t, b) |-> IF x = t THEN b ELSE v.bucket[x]]
  BY <1>2, <1>6 DEF StoreTyped, StoreFields
<1>14. /\ Ticks(u) = (IF Spent(c) THEN Ticks(st) \ {t} ELSE Ticks(st))
       /\ NextEventIndex(u) = NextEventIndex(v)
       /\ \A x \in Ticks(u) : u.bucket[x] = IF x = t THEN b ELSE v.bucket[x]
  BY <1>6, <1>12, <1>13 DEF Ticks, TicksKept, NextEventIndex
<1>15. ASSUME NEW x \in Ticks(u) PROVE Shown(u, x) = IF x = t THEN c ELSE B[x]
  <2>1. CASE x = t
    <3>1. u.bucket[x] = b /\ b.lastApplied = NextEventIndex(u)
      BY <1>8, <1>10, <1>14, <2>1
    <3>2. Promised(u, x) = b.accrued
      BY <1>4, <3>1, CurrentPromise
    <3> QED
      BY <1>11, <2>1, <3>1, <3>2 DEF Shown
  <2>2. CASE x # t
    <3>1. u.bucket[x] = v.bucket[x] /\ x \in Ticks(st)
      BY <1>14, <2>2
    <3>2. Promised(u, x) = Promised(v, x)
      BY <1>13, <3>1, SamePromise
    <3>3. B[x] = Shown(st, x)
      BY <1>0, <3>1
    <3>4. /\ v.bucket[x].anchor = st.bucket[x].anchor
          /\ v.bucket[x].shares = st.bucket[x].shares
          /\ v.bucket[x].notional = st.bucket[x].notional
          /\ Promised(v, x) = Promised(st, x)
      BY <1>5, <3>1
    <3> QED
      BY <2>2, <3>1, <3>2, <3>3, <3>4 DEF Shown
  <2> QED
    BY <2>1, <2>2
<1>16. ShownStore(u) = BurntFrom(B, t, n, m, out)
  BY <1>0, <1>14, <1>15 DEF ShownStore, BurntFrom, c
<1> QED
  BY <1>16 DEF u, m, out

-----------------------------------------------------------------------------
(***************************************************************************)
(* Batches. The events of a call are applied one after the other. The      *)
(* index is no member of a set known beforehand, so the fold that          *)
(* ApplyAll takes is built here, one event at a time, from the empty       *)
(* batch up to the length of this one.                                     *)
(***************************************************************************)
(* g is a fold over the events of log at the indexes in S.                 *)
IsApplied(g, x, log, S) ==
  g = [s \in SUBSET S |->
         IF s = {} THEN x ELSE Apply(g[s \ {Max(s)}], log[Max(s)])]

(* ApplyAll takes one such fold, if there is one.                          *)
LEMMA ApplyIsChosen ==
  ASSUME NEW x, NEW log
  PROVE  ApplyAll(x, log) = (CHOOSE g : IsApplied(g, x, log, DOMAIN log))[DOMAIN log]
BY DEF ApplyAll, FoldLeft, MapThenFoldSet, IsApplied

(* The largest index of a range, and what is left without it.              *)
LEMMA LastOfRange ==
  ASSUME NEW k \in Nat
  PROVE  /\ Max(1 .. k + 1) = k + 1 /\ 1 .. k + 1 # {}
         /\ (1 .. k + 1) \ {k + 1} = 1 .. k
         /\ \A s \in SUBSET (1 .. k + 1) :
              k + 1 \in s => Max(s) = k + 1 /\ s \ {Max(s)} \in SUBSET (1 .. k)
         /\ \A s \in SUBSET (1 .. k + 1) :
              s # {} => Max(s) \in s
<1> DEFINE m == k + 1
           R == 1 .. m
<1>0. m \in Nat /\ m \in R /\ (\A z \in R : m >= z) /\ R \ {m} = 1 .. k
  OBVIOUS
<1>1. \A s \in SUBSET R : s # {} => Max(s) \in s
  <2>1. Chooses(Latest(R), R)
    BY <1>0, LatestChooses
  <2> QED
    BY <2>1 DEF Chooses, Latest
<1>2. \A s \in SUBSET R : m \in s => Max(s) = m
  <2> SUFFICES ASSUME NEW s \in SUBSET R, m \in s PROVE Max(s) = m
    OBVIOUS
  <2>1. m \in s /\ \A z \in s : m >= z
    BY <1>0
  <2>2. \A y \in s : (\A z \in s : y >= z) => y = m
    BY <1>0, <2>1
  <2> QED
    BY <2>1, <2>2 DEF Max
<1>3. \A s \in SUBSET R : m \in s => s \ {Max(s)} \in SUBSET (1 .. k)
  BY <1>0, <1>2
<1>4. R # {} /\ R \in SUBSET R
  BY <1>0
<1> HIDE DEF R, m
<1>5. Max(R) = m
  BY <1>0, <1>2, <1>4
<1> QED
  BY <1>0, <1>1, <1>2, <1>3, <1>4, <1>5 DEF R, m

(* A fold at a set is its value without the largest index, and one event.  *)
LEMMA AppliedValue ==
  ASSUME NEW S, NEW x, NEW log, NEW g, IsApplied(g, x, log, S)
  PROVE  /\ g[{}] = x
         /\ \A s \in SUBSET S : s # {} => g[s] = Apply(g[s \ {Max(s)}], log[Max(s)])
  BY DEF IsApplied

(* A fold over k events extends to one over k + 1.                         *)
LEMMA AppliedGrows ==
  ASSUME NEW k \in Nat, NEW x, NEW log, NEW g, IsApplied(g, x, log, 1 .. k)
  PROVE  \E h : IsApplied(h, x, log, 1 .. k + 1)
<1> DEFINE R == 1 .. k + 1
           m == k + 1
           h == [s \in SUBSET R |-> IF m \in s THEN Apply(g[s \ {m}], log[m]) ELSE g[s]]
<1>1. /\ \A s \in SUBSET R : m \in s => Max(s) = m /\ s \ {Max(s)} \in SUBSET (1 .. k)
      /\ \A s \in SUBSET R : s # {} => Max(s) \in s
      /\ R \ {m} = 1 .. k
  BY LastOfRange
<1>2. m \notin 1 .. k
  OBVIOUS
<1>3. ASSUME NEW s \in SUBSET R, s # {}
      PROVE  h[s] = Apply(h[s \ {Max(s)}], log[Max(s)])
  <2>1. CASE m \in s
    <3>1. Max(s) = m /\ s \ {m} \in SUBSET (1 .. k) /\ m \notin s \ {m} /\ s \ {m} \in SUBSET R
      BY <1>1, <2>1
    <3> HIDE DEF R, m
    <3>2. h[s \ {m}] = g[s \ {m}] /\ h[s] = Apply(g[s \ {m}], log[m])
      BY <2>1, <3>1
    <3> QED
      BY <3>1, <3>2
  <2>2. CASE m \notin s
    <3>1. s \in SUBSET (1 .. k) /\ Max(s) \in s /\ s \ {Max(s)} \in SUBSET R
          /\ m \notin s \ {Max(s)}
      BY <1>1, <1>3, <2>2
    <3>a. \A z \in SUBSET (1 .. k) : z # {} => g[z] = Apply(g[z \ {Max(z)}], log[Max(z)])
      BY DEF IsApplied
    <3>2. g[s] = Apply(g[s \ {Max(s)}], log[Max(s)])
      BY <1>3, <3>1, <3>a
    <3> HIDE DEF R, m
    <3>3. h[s] = g[s] /\ h[s \ {Max(s)}] = g[s \ {Max(s)}]
      BY <2>2, <3>1
    <3> QED
      BY <3>2, <3>3
  <2> QED
    BY <2>1, <2>2
<1>4. h[{}] = x
  <2>1. g[{}] = x
    BY AppliedValue
  <2> QED
    BY <2>1
<1>5. h = [s \in SUBSET R |-> h[s]]
  OBVIOUS
<1> HIDE DEF h, R
<1>6. IsApplied(h, x, log, R)
  BY <1>3, <1>4, <1>5 DEF IsApplied
<1> QED
  BY <1>6 DEF R

(* There is a fold over any number of events.                              *)
LEMMA AppliedExists ==
  ASSUME NEW n \in Nat, NEW x, NEW log
  PROVE  \E g : IsApplied(g, x, log, 1 .. n)
<1> DEFINE G == {k \in Nat : \E g : IsApplied(g, x, log, 1 .. k)}
<1>1. 0 \in G
  <2> DEFINE g == [s \in SUBSET (1 .. 0) |-> x]
  <2>1. 1 .. 0 = {}
    OBVIOUS
  <2>2. IsApplied(g, x, log, 1 .. 0)
    BY <2>1 DEF IsApplied
  <2> QED
    BY <2>2
<1>2. \A k \in Nat : k \in G => k + 1 \in G
  BY AppliedGrows
<1> HIDE DEF G
<1>3. Nat \subseteq G
  BY <1>1, <1>2, NaturalInduction
<1> QED
  BY <1>3 DEF G

(* Two such functions agree as far as their events do.                     *)
LEMMA AppliedAgree ==
  ASSUME NEW n \in Nat, NEW m \in Nat, n <= m, NEW x, NEW log, NEW more,
         \A i \in 1 .. n : more[i] = log[i],
         NEW g, IsApplied(g, x, log, 1 .. n), NEW h, IsApplied(h, x, more, 1 .. m)
  PROVE  g[1 .. n] = h[1 .. n]
<1> DEFINE G == {k \in Nat : k <= n => g[1 .. k] = h[1 .. k]}
<1>1. 0 \in G
  <2>1. 1 .. 0 = {} /\ g[{}] = x /\ h[{}] = x
    BY AppliedValue
  <2> QED
    BY <2>1
<1>2. \A k \in Nat : k \in G => k + 1 \in G
  <2> SUFFICES ASSUME NEW k \in Nat, k \in G, k + 1 <= n PROVE g[1 .. k + 1] = h[1 .. k + 1]
    BY DEF G
  <2>1. g[1 .. k] = h[1 .. k]
    BY DEF G
  <2>2. 1 .. k + 1 \in SUBSET (1 .. n) /\ 1 .. k + 1 \in SUBSET (1 .. m) /\ k + 1 \in 1 .. n
    OBVIOUS
  <2>3. Max(1 .. k + 1) = k + 1 /\ 1 .. k + 1 # {} /\ (1 .. k + 1) \ {k + 1} = 1 .. k
    BY LastOfRange
  <2> DEFINE R == 1 .. k + 1
             r == k + 1
             S == 1 .. k
  <2> HIDE DEF R, r, S
  <2>4. g[R] = Apply(g[R \ {Max(R)}], log[Max(R)]) /\ h[R] = Apply(h[R \ {Max(R)}], more[Max(R)])
    <3>1. /\ \A z \in SUBSET (1 .. n) : z # {} => g[z] = Apply(g[z \ {Max(z)}], log[Max(z)])
          /\ \A z \in SUBSET (1 .. m) : z # {} => h[z] = Apply(h[z \ {Max(z)}], more[Max(z)])
      BY DEF IsApplied
    <3>2. R \in SUBSET (1 .. n) /\ R \in SUBSET (1 .. m) /\ R # {}
      BY <2>2, <2>3 DEF R
    <3> QED
      BY <3>1, <3>2
  <2>5. Max(R) = r /\ R \ {r} = S /\ more[r] = log[r] /\ g[S] = h[S]
    BY <2>1, <2>2, <2>3 DEF R, r, S
  <2>6. g[R] = h[R]
    BY <2>4, <2>5
  <2> QED
    BY <2>6 DEF R
<1> HIDE DEF G
<1>3. n \in G
  BY <1>1, <1>2, NaturalInduction
<1> QED
  BY <1>3 DEF G

(* The index after a batch is the value of a fold at the whole batch.      *)
LEMMA ApplyAllIs ==
  ASSUME NEW x, NEW log, IsList(log)
  PROVE  \E g : /\ IsApplied(g, x, log, 1 .. Len(log)) /\ Len(log) \in Nat
                /\ ApplyAll(x, log) = g[1 .. Len(log)]
<1>1. DOMAIN log = 1 .. Len(log) /\ Len(log) \in Nat
  BY DEF IsList
<1>2. \E g : IsApplied(g, x, log, DOMAIN log)
  BY <1>1, AppliedExists
<1>3. IsApplied(CHOOSE g : IsApplied(g, x, log, DOMAIN log), x, log, DOMAIN log)
  BY <1>2
<1> QED
  BY <1>1, <1>3, ApplyIsChosen

(* No event changes nothing.                                               *)
LEMMA ApplyNone == ASSUME NEW x PROVE ApplyAll(x, <<>>) = x /\ IsList(<<>>)
<1>1. IsList(<<>>) /\ Len(<<>>) = 0
  BY DEF IsList
<1>2. PICK g : IsApplied(g, x, <<>>, 1 .. 0) /\ ApplyAll(x, <<>>) = g[1 .. 0]
  BY <1>1, ApplyAllIs
<1>3. 1 .. 0 = {} /\ g[{}] = x
  BY <1>2, AppliedValue
<1> QED
  BY <1>1, <1>2, <1>3

(* A batch with one more event is the batch, and then the event.           *)
LEMMA ApplyMore ==
  ASSUME NEW x, NEW log, IsList(log), NEW e
  PROVE  ApplyAll(x, Append(log, e)) = Apply(ApplyAll(x, log), e) /\ IsList(Append(log, e))
<1> DEFINE n == Len(log)
           more == Append(log, e)
<1>1. /\ IsList(more) /\ Len(more) = n + 1 /\ n \in Nat
      /\ \A i \in 1 .. n : more[i] = log[i]
      /\ more[n + 1] = e
  BY ListGrows
<1>2. PICK g : IsApplied(g, x, log, 1 .. n) /\ ApplyAll(x, log) = g[1 .. n]
  BY ApplyAllIs
<1> HIDE DEF n, more
<1>3. PICK h : IsApplied(h, x, more, 1 .. n + 1) /\ ApplyAll(x, more) = h[1 .. n + 1]
  BY <1>1, ApplyAllIs
<1>4. g[1 .. n] = h[1 .. n]
  BY <1>1, <1>2, <1>3, AppliedAgree
<1>5. Max(1 .. n + 1) = n + 1 /\ 1 .. n + 1 # {} /\ (1 .. n + 1) \ {n + 1} = 1 .. n
  BY <1>1, LastOfRange
<1>6. h[1 .. n + 1] = Apply(h[1 .. n], more[n + 1])
  <2>1. \A z \in SUBSET (1 .. n + 1) : z # {} => h[z] = Apply(h[z \ {Max(z)}], more[Max(z)])
    BY <1>3 DEF IsApplied
  <2> QED
    BY <1>5, <2>1
<1> QED
  BY <1>1, <1>2, <1>3, <1>4, <1>6 DEF more

-----------------------------------------------------------------------------
(***************************************************************************)
(* One event. A transfer or a rotation, an opening or a departure, brings  *)
(* an index that follows the market to one that follows the market after   *)
(* it.                                                                     *)
(***************************************************************************)
(* The fields of an index.                                                 *)
IndexFields == {"view", "bucket", "gen", "err"}

(* The fields of a view.                                                   *)
ViewFields ==
  {"dir", "principal", "notional", "shares", "recovery", "tick", "gen",
   "locked", "profit", "closed"}

(* v is a view.                                                            *)
IsView(v) == v = [f \in ViewFields |-> v[f]]

(* x is an index.                                                          *)
IsIndex(x) ==
  /\ x = [f \in IndexFields |-> x[f]]
  /\ IsList(x.view)
  /\ \A i \in 1 .. Len(x.view) : IsView(x.view[i])

(* Views v and w say the same of what the position holds.                  *)
SameStakes(v, w) ==
  /\ IsView(w)
  /\ w.closed = v.closed /\ w.dir = v.dir /\ w.shares = v.shares /\ w.recovery = v.recovery
  /\ w.gen = v.gen /\ w.notional = v.notional /\ w.tick = v.tick

(* Indexes x and y say the same of what each position holds.               *)
SameViews(x, y) ==
  /\ IsIndex(y) /\ y.err = x.err /\ y.gen = x.gen
  /\ Len(y.view) = Len(x.view)
  /\ \A i \in 1 .. Len(x.view) : SameStakes(x.view[i], y.view[i])

(* The views of an index are numbered from 1.                              *)
LEMMA ViewsAre ==
  ASSUME NEW x, IsIndex(x)
  PROVE  /\ Views(x) = 1 .. Len(x.view) /\ Len(x.view) \in Nat
         /\ x.view = [i \in 1 .. Len(x.view) |-> x.view[i]]
<1>1. x.view \in Seq({x.view[i] : i \in 1 .. Len(x.view)})
  BY DEF IsIndex, IsList
<1> QED
  BY <1>1 DEF Views

(* An index says the same as itself.                                       *)
LEMMA SameViewsSelf ==
  ASSUME NEW x, IsIndex(x)
  PROVE  SameViews(x, x)
  BY DEF SameViews, SameStakes, IsIndex

(* And what two steps leave alone, both together leave alone.              *)
LEMMA SameViewsTrans ==
  ASSUME NEW x, NEW y, NEW z, SameViews(x, y), SameViews(y, z)
  PROVE  SameViews(x, z)
<1>1. IsIndex(z) /\ z.err = x.err /\ z.gen = x.gen /\ Len(z.view) = Len(x.view)
  BY DEF SameViews
<1>2. ASSUME NEW i \in 1 .. Len(x.view)
      PROVE  SameStakes(x.view[i], z.view[i])
  <2>1. SameStakes(x.view[i], y.view[i]) /\ SameStakes(y.view[i], z.view[i])
    BY <1>2 DEF SameViews
  <2> QED
    BY <2>1 DEF SameStakes
<1> QED
  BY <1>1, <1>2 DEF SameViews

(* A loop over some of the positions.                                      *)
Replaces(x, H, a, y) ==
  /\ IsIndex(y) /\ y.err = x.err /\ y.gen = x.gen /\ y.bucket = x.bucket
  /\ Len(y.view) = Len(x.view)
  /\ \A i \in 1 .. Len(x.view) : y.view[i] = IF i \in H THEN a[i] ELSE x.view[i]

(* Attribute replaces the views it is given, and nothing else.             *)
LEMMA Attributed ==
  ASSUME NEW x, IsIndex(x), NEW H \in SUBSET Views(x), NEW a, DOMAIN a = H,
         \A i \in H : IsView(a[i]), NEW y, y = Attribute(x, a)
  PROVE  Replaces(x, H, a, y)
<1> DEFINE f == [i \in 1 .. Len(x.view) |-> IF i \in H THEN a[i] ELSE x.view[i]]
<1>1. Views(x) = 1 .. Len(x.view)
  BY ViewsAre
<1>2. DOMAIN a = H
  OBVIOUS
<1>4. y = [x EXCEPT !.view = f]
  BY <1>1, <1>2 DEF Attribute, IsIndex, IndexFields
<1>5. \A i \in 1 .. Len(x.view) : IsView(f[i])
  BY DEF IsIndex
<1>6. f = [i \in 1 .. Len(x.view) |-> f[i]]
  OBVIOUS
<1>7. \A i \in 1 .. Len(x.view) : f[i] = IF i \in H THEN a[i] ELSE x.view[i]
  OBVIOUS
<1> HIDE DEF f
<1>8. /\ y = [g \in IndexFields |-> y[g]] /\ y.err = x.err /\ y.gen = x.gen
      /\ y.bucket = x.bucket /\ y.view = f
  BY <1>4 DEF IsIndex, IndexFields
<1>9. IsList(f) /\ Len(f) = Len(x.view)
  BY <1>6, ViewsAre, FunctionIsList
<1>10. IsIndex(y) /\ Len(y.view) = Len(x.view)
  BY <1>5, <1>8, <1>9 DEF IsIndex
<1> QED
  BY <1>7, <1>8, <1>10 DEF Replaces

(* Where the new views hold what the old ones held, so does the index.     *)
LEMMA AttributedSame ==
  ASSUME NEW x, IsIndex(x), NEW H \in SUBSET Views(x), NEW a, DOMAIN a = H,
         \A i \in H : SameStakes(x.view[i], a[i]), NEW y, y = Attribute(x, a)
  PROVE  SameViews(x, y) /\ y.bucket = x.bucket
<1>1. \A i \in H : IsView(a[i])
  BY DEF SameStakes
<1>2. /\ IsIndex(y) /\ y.err = x.err /\ y.gen = x.gen /\ y.bucket = x.bucket
      /\ Len(y.view) = Len(x.view)
      /\ \A i \in 1 .. Len(x.view) : y.view[i] = IF i \in H THEN a[i] ELSE x.view[i]
  BY <1>1, Attributed DEF Replaces
<1>3. \A i \in 1 .. Len(x.view) : SameStakes(x.view[i], y.view[i])
  BY <1>2 DEF SameStakes, IsIndex
<1> QED
  BY <1>2, <1>3 DEF SameViews

(* The profit of the active holders changes no stake.                      *)
LEMMA ActiveProfitSame ==
  ASSUME NEW x, IsIndex(x), NEW d, NEW inflow, NEW total, inflow = 0 \/ total # 0,
         NEW y, y = ActiveProfit(x, d, inflow, total)
  PROVE  SameViews(x, y) /\ y.bucket = x.bucket
<1>1. CASE inflow = 0
  BY <1>1, SameViewsSelf DEF ActiveProfit
<1>2. CASE inflow # 0
  <2> DEFINE a == [i \in Holders(x, d) |->
         [x.view[i] EXCEPT !.profit = @ + MulDivFloor(inflow, x.view[i].shares, total)]]
  <2>1. y = Attribute(x, a)
    BY <1>2 DEF ActiveProfit
  <2>2. Holders(x, d) \in SUBSET Views(x) /\ Views(x) = 1 .. Len(x.view)
    BY ViewsAre DEF Holders
  <2>3. ASSUME NEW i \in Holders(x, d)
        PROVE  SameStakes(x.view[i], a[i])
    <3>1. IsView(x.view[i])
      BY <2>2 DEF IsIndex
    <3>2. a[i] = [x.view[i] EXCEPT !.profit = @ + MulDivFloor(inflow, x.view[i].shares, total)]
      OBVIOUS
    <3> HIDE DEF a
    <3> QED
      BY <3>1, <3>2 DEF SameStakes, IsView, ViewFields
  <2>4. DOMAIN a = Holders(x, d)
    OBVIOUS
  <2> HIDE DEF a
  <2> QED
    BY <2>1, <2>2, <2>3, <2>4, AttributedSame
<1> QED
  BY <1>1, <1>2

(* Nor does a loss charged to a view.                                      *)
LEMMA ChargedSame ==
  ASSUME NEW v, IsView(v), NEW loss
  PROVE  SameStakes(v, Charged(v, loss))
<1> DEFINE used == Smaller(v.profit, loss)
           a == v.profit - used
           b == v.locked + Smaller(loss - used, RemainingMargin(v))
           w == [v EXCEPT !.profit = a]
<1>1. Charged(v, loss) = [w EXCEPT !.locked = w.locked + Smaller(loss - used, RemainingMargin(v))]
  BY DEF Charged, IsView, ViewFields
<1> HIDE DEF a, b, used
<1>2. SameStakes(v, w)
  BY DEF SameStakes, IsView, ViewFields
<1> HIDE DEF w
<1>3. \A c : SameStakes(v, [w EXCEPT !.locked = c])
  BY <1>2 DEF SameStakes, IsView, ViewFields
<1> QED
  BY <1>1, <1>3

(* Nor does the loss of all holders of a side.                             *)
LEMMA ActiveLossSame ==
  ASSUME NEW x, IsIndex(x), NEW d, NEW outflow, NEW total, outflow = 0 \/ total # 0,
         NEW y, y = ActiveLoss(x, d, outflow, total)
  PROVE  SameViews(x, y) /\ y.bucket = x.bucket
<1>1. CASE outflow = 0
  BY <1>1, SameViewsSelf DEF ActiveLoss
<1>2. CASE outflow # 0
  <2> DEFINE a == [i \in Holders(x, d) |->
         Charged(x.view[i], MulDivFloor(outflow, x.view[i].shares, total))]
  <2>1. y = Attribute(x, a)
    BY <1>2 DEF ActiveLoss
  <2>2. Holders(x, d) \in SUBSET Views(x) /\ Views(x) = 1 .. Len(x.view)
    BY ViewsAre DEF Holders
  <2>3. ASSUME NEW i \in Holders(x, d)
        PROVE  SameStakes(x.view[i], a[i])
    <3>1. IsView(x.view[i])
      BY <2>2 DEF IsIndex
    <3> QED
      BY <3>1, ChargedSame
  <2>4. DOMAIN a = Holders(x, d)
    OBVIOUS
  <2> HIDE DEF a
  <2> QED
    BY <2>1, <2>2, <2>3, <2>4, AttributedSame
<1> QED
  BY <1>1, <1>2

(* What the index keeps of a side's buckets.                               *)
BucketFields == {"anchor", "shares", "notional", "accrued"}

(* B is what is shown of a store.                                          *)
IsShown(B) ==
  /\ B = [t \in DOMAIN B |-> B[t]]
  /\ \A t \in DOMAIN B : /\ B[t] = [f \in BucketFields |-> B[t][f]]
                         /\ B[t].accrued \in Nat

(* Where no shown bucket claims anything, nothing is granted.              *)
LEMMA NothingOwed ==
  ASSUME NEW B, IsShown(B), NEW d, NEW p, NEW n,
         SumOver(OwedTo(d, B, p), Ahead(d, B, p)) = 0
  PROVE  Granted(d, B, p, n) = B
<1>1. ASSUME NEW t \in DOMAIN B
      PROVE  [B[t] EXCEPT !.accrued = @ + GrantTo(d, B, p, n, t)] = B[t]
  <2>1. GrantTo(d, B, p, n, t) = 0
    BY DEF GrantTo, ShareOf
  <2>2. B[t] = [f \in BucketFields |-> B[t][f]]
    BY DEF IsShown
  <2> DEFINE b == B[t]
  <2>3. PICK a \in Nat : b.accrued = a
    BY DEF IsShown
  <2> HIDE DEF b
  <2>4. b = [f \in BucketFields |-> b[f]]
    BY <2>2 DEF b
  <2>5. [b EXCEPT !.accrued = @ + 0] = b
    BY <2>3, <2>4 DEF BucketFields
  <2> QED
    BY <2>1, <2>5 DEF b
<1>2. B = [t \in DOMAIN B |-> B[t]]
  BY DEF IsShown
<1>3. Granted(d, B, p, n) = [t \in DOMAIN B |-> B[t]]
  BY <1>1 DEF Granted
<1> QED
  BY <1>2, <1>3

(* The profit of the recovery holders: the index grants each bucket its    *)
(* part, and changes no stake.                                             *)
LEMMA RecoveryProfitGrants ==
  ASSUME NEW x, IsIndex(x), x.bucket = [e \in Direction |-> x.bucket[e]],
         NEW d \in Direction, NEW p, NEW total,
         IsShown(x.bucket[d]), NEW y, y = RecoveryProfit(x, d, p, total)
  PROVE  /\ SameViews(x, y)
         /\ y.bucket = [x.bucket EXCEPT ![d] = IF total = 0 THEN @ ELSE Granted(d, @, p, total)]
<1> DEFINE B == x.bucket[d]
           owed == ProjectedOutstanding(x, d, p)
<1>1. ActivatedIn(x, d, p) = Ahead(d, B, p)
  BY DEF ActivatedIn, Ahead
<1>2. [t \in ActivatedIn(x, d, p) |-> BucketOutstanding(x, d, t, p)] = OwedTo(d, B, p)
  BY <1>1 DEF OwedTo, BucketOutstanding
<1>3. owed = SumOver(OwedTo(d, B, p), Ahead(d, B, p))
  BY <1>1, <1>2 DEF ProjectedOutstanding
<1>4. CASE total = 0 \/ owed = 0
  <2>1. y = x
    BY <1>4 DEF RecoveryProfit
  <2>2. total # 0 => Granted(d, B, p, total) = B
    BY <1>3, <1>4, NothingOwed
  <2>3. (IF total = 0 THEN B ELSE Granted(d, B, p, total)) = B
    BY <2>2
  <2>4. [x.bucket EXCEPT ![d] = B] = x.bucket
    OBVIOUS
  <2> QED
    BY <2>1, <2>3, <2>4, SameViewsSelf
<1>5. CASE ~(total = 0 \/ owed = 0)
  <2> DEFINE share(t) == IF t \in ActivatedIn(x, d, p)
                         THEN ShareOf(total, BucketOutstanding(x, d, t, p), owed)
                         ELSE 0
             part(v) == IF v.closed \/ v.dir # d \/ v.recovery = 0 THEN 0
                        ELSE MulDivFloor(share(v.tick), v.recovery,
                                         x.bucket[d][v.tick].shares)
             gained(v) == [v EXCEPT !.profit = @ + part(v)]
             credited(b, t) == [b EXCEPT !.accrued = @ + share(t)]
             f == [i \in Views(x) |-> gained(x.view[i])]
             G == [t \in DOMAIN B |-> credited(B[t], t)]
           r == [x EXCEPT !.view = f]
  <2>0. y = [x EXCEPT !.view = f,
                      !.bucket[d] = [t \in DOMAIN @ |-> credited(@[t], t)]]
    BY <1>5 DEF RecoveryProfit
  <2>1. y = [r EXCEPT !.bucket[d] = G]
    <3> HIDE DEF f
    <3>1. r.bucket[d] = B
      BY DEF IsIndex, IndexFields
    <3> HIDE DEF credited
    <3> QED
      BY <2>0, <3>1
  <2>2. ASSUME NEW t \in DOMAIN B
        PROVE  share(t) = GrantTo(d, B, p, total, t)
    BY <1>1, <1>3 DEF GrantTo, OwedTo, BucketOutstanding
  <2>3. G = Granted(d, B, p, total)
    BY <2>2 DEF Granted
  <2>4. Views(x) = 1 .. Len(x.view) /\ Len(x.view) \in Nat
    BY ViewsAre
  <2>5. ASSUME NEW i \in 1 .. Len(x.view)
        PROVE  SameStakes(x.view[i], f[i])
    <3>1. IsView(x.view[i])
      BY DEF IsIndex
    <3>2. f[i] = [x.view[i] EXCEPT !.profit = @ + part(x.view[i])]
      BY <2>4
    <3> HIDE DEF f, part
    <3> QED
      BY <3>1, <3>2 DEF SameStakes, IsView, ViewFields
  <2>6. f = [i \in 1 .. Len(x.view) |-> f[i]]
    BY <2>4
  <2> HIDE DEF f, G
  <2>7. /\ y = [g \in IndexFields |-> y[g]] /\ y.err = x.err /\ y.gen = x.gen
        /\ y.bucket = [x.bucket EXCEPT ![d] = G] /\ y.view = f
    BY <2>1 DEF IsIndex, IndexFields
  <2>8. IsList(f) /\ Len(f) = Len(x.view)
    BY <2>4, <2>6, FunctionIsList
  <2>9. SameViews(x, y)
    BY <2>5, <2>7, <2>8 DEF SameViews, IsIndex, SameStakes
  <2> QED
    BY <1>5, <2>3, <2>7, <2>9
<1> QED
  BY <1>4, <1>5

(* Applying what a sync reports of its transfer.                           *)
Outflow(e) == e.toPool + e.toRecovery + e.residual

(* A transfer, in the index: the winning side's buckets are granted their  *)
(* parts, and nothing is refused.                                          *)
LEMMA PoolSyncApplied ==
  ASSUME NEW x, IsIndex(x), x.err = "Ok", x.bucket = [d \in Direction |-> x.bucket[d]],
         NEW e, e.kind = "PoolSync", e.dir \in Direction, IsShown(x.bucket[e.dir]),
         e.toPool = 0 \/ e.sharesBefore[e.dir] # 0,
         Outflow(e) = 0 \/ e.sharesBefore[Opposite(e.dir)] # 0
  PROVE  /\ SameViews(x, Apply(x, e))
         /\ Apply(x, e).bucket
              = [x.bucket EXCEPT ![e.dir] = IF ToRecovery(e) = 0 THEN @
                                            ELSE Granted(e.dir, @, e.price, ToRecovery(e))]
<1> DEFINE a == ActiveProfit(x, e.dir, e.toPool, e.sharesBefore[e.dir])
           b == RecoveryProfit(a, e.dir, e.price, ToRecovery(e))
           c == ActiveLoss(b, Opposite(e.dir), Outflow(e), e.sharesBefore[Opposite(e.dir)])
<1>1. SameViews(x, a) /\ a.bucket = x.bucket
  BY ActiveProfitSame
<1>2. IsIndex(a) /\ a.err = "Ok"
  BY <1>1 DEF SameViews
<1>3. /\ SameViews(a, b)
      /\ b.bucket = [a.bucket EXCEPT ![e.dir] = IF ToRecovery(e) = 0 THEN @
                                                ELSE Granted(e.dir, @, e.price, ToRecovery(e))]
  <2> HIDE DEF a
  <2>1. a.bucket = [d \in Direction |-> a.bucket[d]]
    BY <1>1
  <2> QED
    BY <1>1, <1>2, <2>1, RecoveryProfitGrants
<1>4. IsIndex(b) /\ b.err = "Ok"
  BY <1>2, <1>3 DEF SameViews
<1>5. SameViews(b, c) /\ c.bucket = b.bucket
  BY <1>4, ActiveLossSame
<1>6. ApplyPoolSync(x, e) = c
  BY <1>2, <1>4 DEF ApplyPoolSync, Outflow
<1>7. Apply(x, e) = c
  BY <1>6 DEF Apply
<1> HIDE DEF a, b, c
<1>8. SameViews(x, c)
  BY <1>1, <1>3, <1>5, SameViewsTrans
<1> QED
  BY <1>1, <1>3, <1>5, <1>7, <1>8

(* View v shows position q of sub-pool s as it is once migrated.           *)
Stands(v, s, q) ==
  /\ IsView(v)
  /\ v.closed = (q.status = "Closed") /\ v.dir = q.dir
  /\ ~v.closed =>
       /\ v.shares = Migrated(s, q).shares /\ v.recovery = Migrated(s, q).recovery
       /\ v.shares > 0 => v.gen = s.gen[q.dir] /\ v.notional = Migrated(s, q).notional
       /\ v.recovery > 0 => v.tick = Migrated(s, q).tick

(* What is shown of both stores.                                           *)
Shelved(s) == [d \in Direction |-> ShownStore(s.dormant[d])]

(* Index x follows the market with sub-pool s and positions P.             *)
Tracks(x, s, P) ==
  /\ IsIndex(x) /\ x.err = "Ok"
  /\ x.gen = s.gen /\ x.bucket = Shelved(s)
  /\ Len(x.view) = Len(P)
  /\ \A i \in 1 .. Len(P) : Stands(x.view[i], s, P[i])

(* What is shown of a sound store.                                         *)
LEMMA StoreIsShown ==
  ASSUME NEW st, StoreSound(st)
  PROVE  IsShown(ShownStore(st)) /\ DOMAIN ShownStore(st) = Ticks(st)
<1>1. \A t \in Ticks(st) : Promised(st, t) \in Nat
  BY PromisedNat DEF StoreSound
<1>2. ASSUME NEW t \in Ticks(st)
      PROVE  /\ Shown(st, t) = [f \in BucketFields |-> Shown(st, t)[f]]
             /\ Shown(st, t).accrued \in Nat
  BY <1>1 DEF Shown, BucketFields
<1> QED
  BY <1>2 DEF IsShown, ShownStore

(* A migration depends on the generations and the rotations only.          *)
LEMMA SameGensMigrated ==
  ASSUME NEW s, NEW t, SameGens(s, t), NEW q
  PROVE  Migrated(t, q) = Migrated(s, q)
  BY DEF SameGens, Migrated, NeedsMigration, RotateRecords

(* A step that ends no generation and changes no position is followed by   *)
(* an index that changes no view and shows the new stores.                 *)
LEMMA TracksSame ==
  ASSUME NEW x, NEW s, NEW P, Tracks(x, s, P), NEW t, SameGens(s, t),
         NEW y, SameViews(x, y), y.bucket = Shelved(t)
  PROVE  Tracks(y, t, P)
<1>1. ASSUME NEW i \in 1 .. Len(P)
      PROVE  Stands(y.view[i], t, P[i])
  <2>1. Stands(x.view[i], s, P[i]) /\ Len(x.view) = Len(P)
    BY DEF Tracks
  <2>2. SameStakes(x.view[i], y.view[i])
    BY <2>1 DEF SameViews
  <2>3. Migrated(t, P[i]) = Migrated(s, P[i]) /\ t.gen = s.gen
    BY SameGensMigrated DEF SameGens
  <2> QED
    BY <2>1, <2>2, <2>3 DEF Stands, SameStakes
<1> QED
  BY <1>1 DEF Tracks, SameViews, SameGens

(* A view of the rotated generation turns its shares into recovery         *)
(* shares.                                                                 *)
LEMMA FollowsStands ==
  ASSUME NEW v, IsView(v), NEW e, NEW gen
  PROVE  LET w == Follows(v, e, gen)
         IN  /\ IsView(w) /\ w.closed = v.closed /\ w.dir = v.dir
             /\ w.shares = 0 /\ w.recovery = v.recovery + v.shares
             /\ w.tick = e.tick
<1> DEFINE a == [v EXCEPT !.recovery = @ + v.shares]
           b == [a EXCEPT !.tick = e.tick]
           c == [b EXCEPT !.shares = 0]
           w == [c EXCEPT !.gen = gen]
<1>1. Follows(v, e, gen) = w
  BY DEF Follows
<1>2. IsView(a) /\ a.closed = v.closed /\ a.dir = v.dir /\ a.recovery = v.recovery + v.shares
  BY DEF IsView, ViewFields
<1> HIDE DEF a
<1>3. IsView(b) /\ b.closed = a.closed /\ b.dir = a.dir /\ b.recovery = a.recovery
      /\ b.tick = e.tick
  BY <1>2 DEF IsView, ViewFields
<1> HIDE DEF b
<1>4. IsView(c) /\ c.closed = b.closed /\ c.dir = b.dir /\ c.recovery = b.recovery
      /\ c.tick = b.tick /\ c.shares = 0
  BY <1>3 DEF IsView, ViewFields
<1> HIDE DEF c
<1>5. IsView(w) /\ w.closed = c.closed /\ w.dir = c.dir /\ w.recovery = c.recovery
      /\ w.tick = c.tick /\ w.shares = c.shares
  BY <1>4 DEF IsView, ViewFields
<1> QED
  BY <1>1, <1>2, <1>3, <1>4, <1>5

(* What migration makes of a position when its side is rotated.            *)
LEMMA MigratedOver ==
  ASSUME NEW s, NEW t, NEW d \in Direction, NEW tick, RotatedAt(s, t, d, tick),
         NEW q, Placed(s, q), Placed(t, q), Holding(q), OneSeries(q),
         NEW m, m = Migrated(s, q), NEW n, n = Migrated(t, q)
  PROVE  /\ q.dir # d => /\ n.shares = m.shares /\ n.recovery = m.recovery
                         /\ n.notional = m.notional /\ n.tick = m.tick
                         /\ t.gen[q.dir] = s.gen[q.dir]
         /\ q.dir = d => /\ n.shares = 0 /\ n.recovery = m.recovery + m.shares
                         /\ m.shares > 0 => n.tick = tick /\ m.recovery = 0
                         /\ m.shares = 0 => n.tick = m.tick
         /\ m.shares \in Nat /\ m.recovery \in Nat
<1>1. s.gen \in [Direction -> Nat] /\ q.dir \in Direction /\ Numbered(s) /\ Numbered(t)
  BY DEF Numbered, RotatedAt, Placed
<1>2. q.shares \in Nat /\ q.recovery \in Nat
  BY DEF Holding
<1>3. CASE q.dir # d
  <2>1. t.gen[q.dir] = s.gen[q.dir] /\ t.rotateLog[q.dir] = s.rotateLog[q.dir]
    BY <1>1, <1>3 DEF RotatedAt, Numbered
  <2>2. n = m
    BY <2>1 DEF Migrated, NeedsMigration, RotateRecords
  <2>3. m.shares \in Nat /\ m.recovery \in Nat
    BY <1>1, <1>2, MigratedFields
  <2> QED
    BY <1>3, <2>1, <2>2, <2>3
<1>4. CASE q.dir = d
  <2>1. /\ t.gen[d] = s.gen[d] + 1 /\ q.gen \in 0 .. s.gen[d] /\ s.gen[d] \in Nat
        /\ t.rotateLog[d] = Append(s.rotateLog[d], [gen |-> s.gen[d], tick |-> tick])
        /\ s.rotateLog[d] \in Seq([gen : Nat, tick : Nat]) /\ Len(s.rotateLog[d]) = s.gen[d]
    BY <1>1, <1>4 DEF RotatedAt, Placed, Numbered, IsLog
  <2>2. q.shares > 0 <=> NeedsMigration(t, q)
    BY <1>2, <1>4, <2>1 DEF NeedsMigration
  <2>3. t.rotateLog[d][s.gen[d] + 1].tick = tick
    BY <2>1
  <2>4. \A j \in 1 .. s.gen[d] : t.rotateLog[d][j] = s.rotateLog[d][j]
    BY <2>1
  <2>5. CASE q.shares = 0
    <3>1. ~NeedsMigration(s, q) /\ ~NeedsMigration(t, q)
      BY <2>5 DEF NeedsMigration
    <3> QED
      BY <1>1, <1>2, <1>4, <2>5, <3>1, MigratedFields
  <2>6. CASE q.shares > 0 /\ NeedsMigration(s, q)
    <3>1. q.gen # s.gen[d]
      BY <1>4, <2>6 DEF NeedsMigration
    <3>2. q.gen + 1 \in 1 .. s.gen[d]
      BY <2>1, <3>1
    <3>3. t.rotateLog[d][q.gen + 1].tick = s.rotateLog[d][q.gen + 1].tick
      BY <2>4, <3>2
    <3> QED
      BY <1>1, <1>2, <1>4, <2>2, <2>6, <3>3, MigratedFields
  <2>7. CASE q.shares > 0 /\ ~NeedsMigration(s, q)
    <3>1. q.gen = s.gen[d] /\ q.recovery = 0
      BY <1>4, <2>7 DEF NeedsMigration, OneSeries
    <3> QED
      BY <1>1, <1>2, <1>4, <2>2, <2>3, <2>7, <3>1, MigratedFields
  <2> QED
    BY <1>2, <2>5, <2>6, <2>7
<1> QED
  BY <1>3, <1>4

(* A rotation is followed.                                                 *)
LEMMA RotationApplied ==
  ASSUME NEW s, NEW P, Owned(s, P), NEW t, Owned(t, P), NEW d \in Direction, NEW p \in Nat,
         RotatesTo(s, d, p, t), NEW x, Tracks(x, s, P),
         NEW e, e = Rotated(d, BucketTickOf(p), p, s.shares[d], s.notional[d], s.gen[d])
  PROVE  Tracks(Apply(x, e), t, P)
<1> DEFINE tick == BucketTickOf(p)
           gen == x.gen[d] + 1
           H == InEnded(x, e)
           a == [i \in H |-> Follows(x.view[i], e, gen)]
           r == Attribute(x, a)
           B == ShownStore(s.dormant[d])
           J == [k \in DOMAIN B \cup {tick} |-> IF k = tick THEN Joined(x, e) ELSE B[k]]
           r2 == [r EXCEPT !.gen[d] = gen]
           y == [r2 EXCEPT !.bucket[d] = J]
<1>0. /\ e.kind = "Rotated" /\ e.dir = d /\ e.tick = tick /\ e.anchor = p
      /\ e.shares = s.shares[d] /\ e.notional = s.notional[d] /\ e.gen = s.gen[d]
  BY DEF Rotated
<1>1. /\ IsIndex(x) /\ x.err = "Ok" /\ x.gen = s.gen /\ x.bucket = Shelved(s)
      /\ Len(x.view) = Len(P) /\ Views(x) = 1 .. Len(P)
      /\ x.bucket[d] = B
  BY ViewsAre DEF Tracks, Shelved
<1>2. /\ Numbered(s) /\ PoolSound(s) /\ Numbered(t) /\ PoolSound(t)
      /\ StoreSound(s.dormant[d]) /\ s.gen \in [Direction -> Nat]
      /\ s.shares[d] \in Nat /\ s.notional[d] \in Nat
  BY DEF Owned, Listed, PoolSound, Numbered
<1>3. tick \in Nat
  BY CoreParameters DEF BucketTickOf
<1>4. RotatedAt(s, t, d, tick)
  BY <1>2, <1>3 DEF RotatesTo, RotatedAt, RotateRecord
<1>5. InEnded(x, e) \in SUBSET Views(x)
  BY DEF InEnded
<1>6. ASSUME NEW i \in InEnded(x, e)
      PROVE  IsView(a[i])
  <2>1. IsView(x.view[i])
    BY <1>1, <1>5 DEF IsIndex
  <2> QED
    BY <2>1, FollowsStands
<1>7. DOMAIN a = H
  OBVIOUS
<1>8. /\ IsIndex(r) /\ r.err = "Ok" /\ r.gen = s.gen /\ r.bucket = x.bucket
      /\ Len(r.view) = Len(P)
      /\ \A i \in 1 .. Len(P) : r.view[i] = IF i \in InEnded(x, e) THEN a[i] ELSE x.view[i]
  <2>1. r = Attribute(x, a)
    OBVIOUS
  <2>3. H \in SUBSET Views(x) /\ \A i \in H : IsView(a[i])
    BY <1>5, <1>6
  <2>4. IsIndex(x)
    BY <1>1
  <2> HIDE DEF a, r, H
  <2>2. Replaces(x, H, a, r)
    BY <1>7, <2>1, <2>3, <2>4, Attributed
  <2> QED
    BY <1>1, <2>2 DEF H, Replaces
<1>9. ApplyRotate(x, e) = y
  <2>1. ApplyRotate(x, e) = [r EXCEPT !.gen[d] = gen,
                                      !.bucket[d] = [k \in DOMAIN @ \cup {tick} |->
                                                       IF k = tick THEN Joined(x, e) ELSE @[k]]]
    BY <1>0 DEF ApplyRotate
  <2> HIDE DEF r, gen
  <2>2. r2.bucket = x.bucket
    BY <1>8 DEF IsIndex, IndexFields
  <2>3. r2.bucket[d] = B
    BY <1>1, <2>2
  <2> HIDE DEF r2
  <2>4. [k \in DOMAIN r2.bucket[d] \cup {tick} |->
                              IF k = tick THEN Joined(x, e) ELSE r2.bucket[d][k]] = J
    BY <2>3
  <2>5. ApplyRotate(x, e) = [r2 EXCEPT !.bucket[d] = [k \in DOMAIN @ \cup {tick} |->
                                                       IF k = tick THEN Joined(x, e) ELSE @[k]]]
    BY <1>1, <1>8, <2>1, <2>3 DEF r2
  <2> QED
    BY <2>4, <2>5
<1>10. Apply(x, e) = y
  BY <1>0, <1>1, <1>9 DEF Apply
<1>11. J = ShownStore(t.dormant[d])
  <2>1. Joined(x, e) = JoinedTo(B, tick, p, s.shares[d], s.notional[d])
    BY <1>0, <1>1 DEF Joined, JoinedTo
  <2>2. t.dormant[d] = InsertOrMerge(s.dormant[d], tick, p, s.shares[d], s.notional[d])
    BY <1>2 DEF RotatesTo, PoolSound
  <2>3. ShownStore(t.dormant[d]) = JoinedStore(B, tick, p, s.shares[d], s.notional[d])
    <3> DEFINE st == s.dormant[d]
               n == s.shares[d]
               k0 == s.notional[d]
    <3>1. StoreSound(st) /\ n \in Nat /\ k0 \in Nat /\ B = ShownStore(st)
          /\ t.dormant[d] = InsertOrMerge(st, tick, p, n, k0)
      BY <1>2, <2>2
    <3> HIDE DEF tick, st, n, k0, B
    <3>2. ShownStore(InsertOrMerge(st, tick, p, n, k0)) = JoinedStore(B, tick, p, n, k0)
      BY <1>3, <3>1, InsertShown
    <3> QED
      BY <3>1, <3>2 DEF st, n, k0
  <2> QED
    BY <2>1, <2>3 DEF JoinedStore
<1>12. /\ IsIndex(y) /\ y.err = "Ok" /\ y.gen = [s.gen EXCEPT ![d] = gen]
       /\ y.bucket = [x.bucket EXCEPT ![d] = J] /\ y.view = r.view
  <2> HIDE DEF r, J, gen
  <2>1. r2 = [f \in IndexFields |-> r2[f]] /\ r2.err = "Ok" /\ r2.view = r.view
        /\ r2.bucket = x.bucket /\ r2.gen = [s.gen EXCEPT ![d] = gen]
    BY <1>8 DEF IsIndex, IndexFields
  <2> HIDE DEF r2
  <2>2. y = [f \in IndexFields |-> y[f]] /\ y.err = "Ok" /\ y.view = r.view
        /\ y.bucket = [x.bucket EXCEPT ![d] = J] /\ y.gen = r2.gen
    BY <2>1 DEF IndexFields
  <2> QED
    BY <1>8, <2>1, <2>2 DEF IsIndex
<1>13. y.gen = t.gen
  BY <1>1, <1>2, <1>12 DEF RotatesTo
<1>14. y.bucket = Shelved(t)
  <2>1. ASSUME NEW c \in Direction
        PROVE  y.bucket[c] = ShownStore(t.dormant[c])
    <3>1. c # d => t.dormant[c] = s.dormant[c]
      BY <1>2 DEF RotatesTo, PoolSound
    <3> HIDE DEF y, J
    <3> QED
      BY <1>1, <1>11, <1>12, <3>1 DEF Shelved
  <2>2. y.bucket = [c \in Direction |-> y.bucket[c]]
    <3> HIDE DEF y, J
    <3> QED
      BY <1>1, <1>12 DEF Shelved
  <2> HIDE DEF y
  <2> QED
    BY <2>1, <2>2 DEF Shelved
<1>15. ASSUME NEW i \in 1 .. Len(P)
       PROVE  Stands(y.view[i], t, P[i])
  <2> DEFINE q == P[i]
             v == x.view[i]
             w == y.view[i]
             m == Migrated(s, q)
             n == Migrated(t, q)
  <2>1. Placed(s, q) /\ Placed(t, q) /\ Holding(q) /\ OneSeries(q) /\ q.dir \in Direction
    BY DEF Owned, Listed, Placed
  <2>2. Stands(v, s, q)
    BY DEF Tracks
  <2>3. w = IF i \in InEnded(x, e) THEN a[i] ELSE v
    BY <1>8, <1>12
  <2>4. i \in InEnded(x, e) <=> ~v.closed /\ v.dir = d /\ v.shares > 0 /\ v.gen = s.gen[d]
    BY <1>0, <1>1 DEF InEnded
  <2>5. i \in InEnded(x, e) =>
          /\ IsView(w) /\ w.closed = v.closed /\ w.dir = v.dir
          /\ w.shares = 0 /\ w.recovery = v.recovery + v.shares /\ w.tick = tick
    <3>1. i \in InEnded(x, e) => a[i] = Follows(v, e, gen)
      OBVIOUS
    <3>2. IsView(v)
      BY <2>2 DEF Stands
    <3> HIDE DEF a, v, w, gen
    <3> QED
      BY <1>0, <2>3, <3>1, <3>2, FollowsStands
  <2>6. /\ q.dir # d => /\ n.shares = m.shares /\ n.recovery = m.recovery
                        /\ n.notional = m.notional /\ n.tick = m.tick
                        /\ t.gen[q.dir] = s.gen[q.dir]
        /\ q.dir = d => /\ n.shares = 0 /\ n.recovery = m.recovery + m.shares
                        /\ m.shares > 0 => n.tick = tick /\ m.recovery = 0
                        /\ m.shares = 0 => n.tick = m.tick
        /\ m.shares \in Nat /\ m.recovery \in Nat
    <3> HIDE DEF tick
    <3> QED
      BY <1>4, <2>1, MigratedOver
  <2> SUFFICES Stands(w, t, q)
    OBVIOUS
  <2> HIDE DEF q, v, w, a, tick, y
  <2>7. CASE i \in InEnded(x, e)
    BY <2>2, <2>4, <2>5, <2>6, <2>7 DEF Stands, m, n
  <2>8. CASE i \notin InEnded(x, e)
    <3>1. w = v
      BY <2>3, <2>8
    <3>2. CASE q.dir # d
      BY <2>2, <2>6, <3>1, <3>2 DEF Stands, m, n
    <3>3. CASE q.dir = d /\ ~v.closed
      <4>1. v.shares = m.shares /\ v.recovery = m.recovery /\ IsView(v) /\ v.dir = d
        BY <2>2, <3>3 DEF Stands, m
      <4>2. v.shares = 0
        BY <2>2, <2>4, <2>6, <2>8, <3>3, <4>1 DEF Stands, m
      <4> QED
        BY <2>2, <2>6, <3>1, <3>3, <4>1, <4>2 DEF Stands, m, n
    <3>4. CASE v.closed
      BY <2>2, <3>1, <3>4 DEF Stands
    <3> QED
      BY <3>2, <3>3, <3>4
  <2> QED
    BY <2>7, <2>8
<1> HIDE DEF y
<1>16. Len(y.view) = Len(P)
  BY <1>8, <1>12
<1> QED
  BY <1>10, <1>12, <1>13, <1>14, <1>15, <1>16 DEF Tracks

(* An opening is followed.                                                 *)
LEMMA OpeningApplied ==
  ASSUME NEW s, NEW P, Owned(s, P), NEW u, NEW q, Owned(u, Append(P, q)),
         SameGens(s, u), u.dormant = s.dormant,
         q.status # "Closed", q.recovery = 0, q.gen = s.gen[q.dir],
         NEW x, Tracks(x, s, P),
         NEW principal, NEW e, e = PositionOpened(q.dir, principal, q)
  PROVE  Tracks(Apply(x, e), u, Append(P, q))
<1> DEFINE v == [dir |-> e.dir, principal |-> e.principal, notional |-> e.notional,
                 shares |-> e.shares, recovery |-> 0, tick |-> NoTick, gen |-> e.gen,
                 locked |-> 0, profit |-> 0, closed |-> FALSE]
           r == [x EXCEPT !.view = Append(@, v)]
           y == [r EXCEPT !.gen[e.dir] = Larger(@, e.gen)]
           Q == Append(P, q)
<1>0. /\ e.kind = "Opened" /\ e.dir = q.dir /\ e.notional = q.notional
      /\ e.shares = q.shares /\ e.gen = q.gen
  BY DEF PositionOpened
<1>1. /\ IsIndex(x) /\ x.err = "Ok" /\ x.gen = s.gen /\ x.bucket = Shelved(s)
      /\ IsList(x.view) /\ Len(x.view) = Len(P)
  BY DEF Tracks, IsIndex
<1>2. IsList(P) /\ Numbered(s) /\ Numbered(u) /\ u.gen = s.gen
      /\ s.gen \in [Direction -> Nat]
  BY DEF Owned, Listed, SameGens, Numbered
<1>3. /\ IsList(Q) /\ Len(Q) = Len(P) + 1 /\ Len(P) \in Nat
      /\ \A i \in 1 .. Len(P) : Q[i] = P[i]
      /\ Q[Len(P) + 1] = q
  BY <1>2, ListGrows
<1>4. Placed(u, q) /\ Holding(q) /\ q.dir \in Direction
  <2>1. Len(P) + 1 \in 1 .. Len(Q)
    BY <1>3
  <2> QED
    BY <1>3, <2>1 DEF Owned, Listed, Placed
<1>5. /\ IsView(v) /\ v.closed = FALSE /\ v.dir = q.dir /\ v.shares = q.shares
      /\ v.recovery = 0 /\ v.gen = q.gen /\ v.notional = q.notional
  BY <1>0 DEF IsView, ViewFields
<1>6. ApplyOpen(x, e) = [x EXCEPT !.view = Append(@, v), !.gen[e.dir] = Larger(@, e.gen)]
  BY DEF ApplyOpen
<1> HIDE DEF v
<1>7. /\ r = [f \in IndexFields |-> r[f]] /\ r.err = "Ok" /\ r.gen = s.gen
      /\ r.bucket = x.bucket /\ r.view = Append(x.view, v)
  BY <1>1 DEF IsIndex, IndexFields
<1>8. ApplyOpen(x, e) = y
  <2>1. r.gen = x.gen
    BY <1>1, <1>7
  <2> QED
    BY <1>1, <1>6, <2>1
<1> HIDE DEF r
<1>9. Larger(s.gen[q.dir], q.gen) = s.gen[q.dir]
  BY <1>2, <1>4 DEF Larger
<1>10. /\ y = [f \in IndexFields |-> y[f]] /\ y.err = "Ok" /\ y.gen = s.gen
       /\ y.bucket = x.bucket /\ y.view = Append(x.view, v)
  <2>1. y.gen = [s.gen EXCEPT ![q.dir] = Larger(@, q.gen)]
    BY <1>0, <1>7 DEF IndexFields
  <2>2. y.gen = s.gen
    BY <1>2, <1>4, <1>9, <2>1
  <2> QED
    BY <1>7, <2>2 DEF IndexFields
<1> HIDE DEF y
<1>11. /\ IsList(y.view) /\ Len(y.view) = Len(P) + 1
       /\ \A i \in 1 .. Len(P) : y.view[i] = x.view[i]
       /\ y.view[Len(P) + 1] = v
  <2> DEFINE l == x.view
  <2>1. IsList(l) /\ Len(l) = Len(P) /\ y.view = Append(l, v)
    BY <1>1, <1>10
  <2> HIDE DEF l
  <2>2. /\ IsList(Append(l, v)) /\ Len(Append(l, v)) = Len(l) + 1
        /\ \A i \in 1 .. Len(l) : Append(l, v)[i] = l[i]
        /\ Append(l, v)[Len(l) + 1] = v
    BY <2>1, ListGrows
  <2> QED
    BY <2>1, <2>2 DEF l
<1>12. IsIndex(y)
  <2>1. \A i \in 1 .. Len(P) : IsView(x.view[i])
    BY <1>1 DEF IsIndex
  <2>2. \A i \in 1 .. Len(P) + 1 : IsView(y.view[i])
    BY <1>3, <1>5, <1>11, <2>1
  <2> QED
    BY <1>10, <1>11, <2>2 DEF IsIndex
<1>13. ASSUME NEW i \in 1 .. Len(Q)
       PROVE  Stands(y.view[i], u, Q[i])
  <2>1. CASE i \in 1 .. Len(P)
    <3>1. Stands(x.view[i], s, P[i])
      BY <2>1 DEF Tracks
    <3>2. Migrated(u, P[i]) = Migrated(s, P[i])
      BY SameGensMigrated
    <3> QED
      BY <1>2, <1>3, <1>11, <2>1, <3>1, <3>2 DEF Stands
  <2>2. CASE i = Len(P) + 1
    <3>1. ~NeedsMigration(u, q)
      BY <1>2 DEF NeedsMigration
    <3>2. /\ Migrated(u, q).shares = q.shares /\ Migrated(u, q).notional = q.notional
          /\ Migrated(u, q).recovery = 0
      BY <1>2, <1>4, <3>1, MigratedFields
    <3>3. v.closed = (q.status = "Closed")
      BY <1>5
    <3>4. q.gen = u.gen[q.dir]
      BY <1>2
    <3>5. Stands(v, u, q)
      BY <1>5, <3>2, <3>3, <3>4 DEF Stands
    <3> QED
      BY <1>3, <1>11, <2>2, <3>5
  <2> QED
    BY <1>3, <2>1, <2>2
<1>14. y.bucket = Shelved(u)
  BY <1>1, <1>10 DEF Shelved
<1>15. Apply(x, e) = y
  BY <1>0, <1>1, <1>8 DEF Apply
<1> QED
  BY <1>2, <1>3, <1>10, <1>11, <1>12, <1>13, <1>14, <1>15 DEF Tracks

-----------------------------------------------------------------------------
(* A position that leaves.                                                 *)
FlushedTo(v, e, w) ==
  /\ IsView(w) /\ w.dir = v.dir
  /\ e.kind = "Claimed" =>
       /\ w.closed = v.closed /\ w.shares = v.shares /\ w.recovery = 0
       /\ w.gen = v.gen /\ w.notional = v.notional
  /\ e.kind # "Claimed" => w.closed = TRUE

(* Flushed does that, when the event burns all the view has.               *)
LEMMA FlushedView ==
  ASSUME NEW v, IsView(v), NEW e, NEW w, w = Flushed(v, e),
         v.recovery \in Nat, e.recoveryBurned = v.recovery
  PROVE  FlushedTo(v, e, w)
<1> DEFINE left == v.recovery - e.recoveryBurned
           a == [v EXCEPT !.recovery = left]
           b == [a EXCEPT !.tick = IF left = 0 THEN NoTick ELSE @]
           c1 == [b EXCEPT !.profit = Monus(@, e.value)]
           c2 == [b EXCEPT !.shares = @ - e.activeBurned]
           c3 == [c2 EXCEPT !.closed = TRUE]
<1>1. left = 0
  OBVIOUS
<1>2. w = IF e.kind = "Claimed" THEN c1 ELSE c3
  BY DEF Flushed, IsView, ViewFields
<1> HIDE DEF left
<1>3. IsView(a) /\ a.dir = v.dir /\ a.closed = v.closed /\ a.shares = v.shares
      /\ a.recovery = left /\ a.gen = v.gen /\ a.notional = v.notional
  BY DEF IsView, ViewFields
<1> HIDE DEF a
<1>4. IsView(b) /\ b.dir = a.dir /\ b.closed = a.closed /\ b.shares = a.shares
      /\ b.recovery = a.recovery /\ b.gen = a.gen /\ b.notional = a.notional
  BY <1>3 DEF IsView, ViewFields
<1> HIDE DEF b
<1>5. IsView(c1) /\ c1.dir = b.dir /\ c1.closed = b.closed /\ c1.shares = b.shares
      /\ c1.recovery = b.recovery /\ c1.gen = b.gen /\ c1.notional = b.notional
  BY <1>4 DEF IsView, ViewFields
<1>6. IsView(c2) /\ c2.dir = b.dir
  BY <1>4 DEF IsView, ViewFields
<1> HIDE DEF c2
<1>7. IsView(c3) /\ c3.dir = c2.dir /\ c3.closed = TRUE
  BY <1>6 DEF IsView, ViewFields
<1> HIDE DEF c1, c3
<1> QED
  BY <1>1, <1>2, <1>3, <1>4, <1>5, <1>6, <1>7 DEF FlushedTo

(* Index y is x with the buckets J on side d.                              *)
Rebooked(x, y, d, J) ==
  /\ IsIndex(y) /\ y.err = x.err /\ y.gen = x.gen /\ y.view = x.view
  /\ y.bucket = [x.bucket EXCEPT ![d] = J]

(* BurnFromBucket does to the shown store what a redemption does.          *)
LEMMA BucketBurnt ==
  ASSUME NEW x, IsIndex(x), x.bucket = [d \in Direction |-> x.bucket[d]],
         NEW d \in Direction, NEW t, NEW e, NEW y, y = BurnFromBucket(x, d, t, e)
  PROVE  Rebooked(x, y, d, BurntFrom(x.bucket[d], t, e.recoveryBurned, e.notionalBurned,
                                     e.value))
<1> DEFINE B == x.bucket[d]
           b == BurntTo(B[t], e.recoveryBurned, e.notionalBurned, e.value)
           kept == IF Spent(b) THEN DOMAIN B \ {t} ELSE DOMAIN B
           J == [k \in kept |-> IF k = t THEN b ELSE B[k]]
<1>1. Burnt(B[t], e) = b
  BY DEF Burnt, BurntTo
<1>2. y = [x EXCEPT !.bucket[d] = [k \in kept |-> IF k = t THEN b ELSE @[k]]]
  BY <1>1 DEF BurnFromBucket
<1>3. y = [x EXCEPT !.bucket[d] = J]
  <2> HIDE DEF b, kept
  <2> QED
    BY <1>2
<1>4. BurntFrom(B, t, e.recoveryBurned, e.notionalBurned, e.value) = J
  BY DEF BurntFrom
<1> HIDE DEF J
<1>5. /\ y = [f \in IndexFields |-> y[f]] /\ y.err = x.err /\ y.gen = x.gen
      /\ y.view = x.view /\ y.bucket = [x.bucket EXCEPT ![d] = J]
  BY <1>3 DEF IsIndex, IndexFields
<1> QED
  BY <1>4, <1>5 DEF IsIndex, Rebooked

(* What the event of a departure says, of what the index holds.            *)
LEMMA LeaveEventSays ==
  ASSUME NEW s, NEW m, NEW t, t.sp = s, t.pos = m, NEW kind, NEW i,
         NEW e, e = LeaveEvent(kind, i, t)
  PROVE  /\ e.kind = kind /\ e.id = i /\ e.dir = m.dir /\ e.tick = m.tick
         /\ e.recoveryBurned = m.recovery
         /\ e.activeBurned = 0 \/ e.activeBurned = m.shares
         /\ m.recovery # 0 =>
              /\ e.value = Redeemable(s.dormant[m.dir], m.tick, m.recovery)
              /\ e.notionalBurned
                   = MulDivFloor(s.dormant[m.dir].bucket[m.tick].notional, m.recovery,
                                 s.dormant[m.dir].bucket[m.tick].shares)
  BY DEF LeaveEvent, PositionLeft, RecoveryValue

(* Position i leaves s with its recovery shares, in one of the three ways: *)
(* m is the position by then, r what remains of it, u what remains of s.   *)
Departing(s, P, i, kind, m, u, r) ==
  /\ i \in 1 .. Len(P) /\ P[i].status # "Closed"
  /\ m = Migrated(s, P[i]) /\ CanLeaveRecovery(s, m)
  /\ kind \in {"Claimed", "Closed", "ForceClosed"}
  /\ kind = "Claimed" => m.recovery # 0 /\ r = WithoutRecovery(m)
  /\ kind # "Claimed" => r.status = "Closed"
  /\ r.dir = m.dir /\ SameGens(s, u)
  /\ m.recovery = 0 => u.dormant = s.dormant
  /\ m.recovery # 0 =>
       u.dormant = [s.dormant EXCEPT ![m.dir] = Redeem(@, m.tick, m.recovery)]
  /\ Owned(u, [P EXCEPT ![i] = r])

(* And the event of a departure is followed.                               *)
LEMMA LeavingApplied ==
  ASSUME NEW s, NEW P, Owned(s, P), NEW i, NEW kind, NEW m, NEW u, NEW r,
         Departing(s, P, i, kind, m, u, r),
         NEW t, t.sp = s, t.pos = m, NEW e, e = LeaveEvent(kind, i, t),
         NEW x, Tracks(x, s, P)
  PROVE  Tracks(Apply(x, e), u, [P EXCEPT ![i] = r])
<1>0. /\ i \in 1 .. Len(P) /\ P[i].status # "Closed"
      /\ m = Migrated(s, P[i]) /\ CanLeaveRecovery(s, m)
      /\ kind \in {"Claimed", "Closed", "ForceClosed"}
      /\ kind = "Claimed" => m.recovery # 0
      /\ kind = "Claimed" => r = WithoutRecovery(m)
      /\ kind # "Claimed" => r.status = "Closed"
      /\ r.dir = m.dir /\ SameGens(s, u)
      /\ m.recovery = 0 => u.dormant = s.dormant
      /\ m.recovery # 0 =>
           u.dormant = [s.dormant EXCEPT ![m.dir] = Redeem(@, m.tick, m.recovery)]
      /\ Owned(u, [P EXCEPT ![i] = r])
  BY DEF Departing
<1> USE <1>0
<1> DEFINE q == P[i]
           d == m.dir
           v == x.view[i]
           Q == [P EXCEPT ![i] = r]
           tick == IF kind = "Claimed" THEN m.tick ELSE v.tick
           burns == kind = "Claimed" \/ m.recovery > 0
           burnt == IF burns THEN BurnFromBucket(x, d, tick, e) ELSE x
           w == Flushed(v, e)
           y == [burnt EXCEPT !.view[i] = w]
<1>1. /\ IsIndex(x) /\ x.err = "Ok" /\ x.gen = s.gen /\ x.bucket = Shelved(s)
      /\ IsList(x.view) /\ Len(x.view) = Len(P) /\ Views(x) = 1 .. Len(P)
      /\ x.view = [j \in 1 .. Len(P) |-> x.view[j]] /\ Len(P) \in Nat
      /\ Stands(v, s, q)
  <2>1. /\ IsIndex(x) /\ x.err = "Ok" /\ x.gen = s.gen /\ x.bucket = Shelved(s)
        /\ IsList(x.view) /\ Len(x.view) = Len(P) /\ Stands(v, s, q)
    BY DEF Tracks, IsIndex
  <2>2. /\ Views(x) = 1 .. Len(x.view) /\ Len(x.view) \in Nat
        /\ x.view = [j \in 1 .. Len(x.view) |-> x.view[j]]
    BY <2>1, ViewsAre
  <2> QED
    BY <2>1, <2>2
<1>2. /\ Placed(s, m) /\ Holding(m) /\ OneSeries(m) /\ m.dir = q.dir
      /\ ~NeedsMigration(s, m) /\ Placed(s, q) /\ Holding(q)
  BY ReadyPosition
<1>3. /\ Numbered(s) /\ PoolSound(s) /\ StoreSound(s.dormant[d]) /\ IsList(P)
      /\ d \in Direction /\ m.recovery \in Nat /\ m.shares \in Nat
      /\ u.gen = s.gen /\ s.gen \in [Direction -> Nat] /\ Numbered(u)
  BY <1>2 DEF Owned, Listed, PoolSound, Holding, SameGens, Numbered
<1>4. /\ IsView(v) /\ ~v.closed /\ v.dir = d
      /\ v.shares = m.shares /\ v.recovery = m.recovery
      /\ v.shares > 0 => v.gen = s.gen[d] /\ v.notional = m.notional
      /\ v.recovery > 0 => v.tick = m.tick
  BY <1>1, <1>2 DEF Stands
<1>5. /\ e.kind = kind /\ e.id = i /\ e.dir = d /\ e.tick = m.tick
      /\ e.recoveryBurned = m.recovery
      /\ e.activeBurned = 0 \/ e.activeBurned = m.shares
      /\ m.recovery # 0 =>
           /\ e.value = Redeemable(s.dormant[d], m.tick, m.recovery)
           /\ e.notionalBurned
                = MulDivFloor(s.dormant[d].bucket[m.tick].notional, m.recovery,
                              s.dormant[d].bucket[m.tick].shares)
  BY LeaveEventSays
<1>6. burns <=> m.recovery > 0
  BY <1>3
<1>7. burns => tick = m.tick
  BY <1>4, <1>6
<1>8. burns => CanRedeem(s.dormant[d], m.tick, m.recovery)
  BY <1>6 DEF CanLeaveRecovery
<1>9. x.bucket[d] = ShownStore(s.dormant[d])
  BY <1>1, <1>3 DEF Shelved
<1>10. burns => CanBurn(x, d, tick, e)
  <2>1. CASE burns
    <3>1. m.tick \in Ticks(s.dormant[d]) /\ m.recovery <= s.dormant[d].bucket[m.tick].shares
      BY <1>8, <2>1 DEF CanRedeem
    <3>2. /\ DOMAIN x.bucket[d] = Ticks(s.dormant[d])
          /\ x.bucket[d][m.tick].shares = s.dormant[d].bucket[m.tick].shares
      <4> DEFINE st == s.dormant[d]
                 B == ShownStore(st)
      <4>1. x.bucket[d] = B /\ m.tick \in Ticks(st)
        BY <1>9, <3>1
      <4> HIDE DEF st, d
      <4>2. DOMAIN B = Ticks(st) /\ B[m.tick] = Shown(st, m.tick)
        BY <4>1 DEF ShownStore
      <4>3. B[m.tick].shares = st.bucket[m.tick].shares
        BY <4>2 DEF Shown
      <4> HIDE DEF B
      <4> QED
        BY <4>1, <4>2, <4>3 DEF st
    <3> QED
      BY <1>5, <1>7, <2>1, <3>1, <3>2 DEF CanBurn
  <2> QED
    BY <2>1
<1>11. e.activeBurned <= v.shares /\ e.recoveryBurned <= v.recovery
  BY <1>3, <1>4, <1>5
<1>12. ApplyLeave(x, e) = y
  <2>1. i \in Views(x)
    BY <1>1
  <2> DEFINE ve == x.view[e.id]
             te == IF e.kind = "Claimed" THEN e.tick ELSE ve.tick
             be == e.kind = "Claimed" \/ e.recoveryBurned > 0
             xe == IF be THEN BurnFromBucket(x, e.dir, te, e) ELSE x
  <2>2. ve = v /\ te = tick /\ (be <=> burns)
    BY <1>5
  <2>3. xe = burnt
    BY <1>5, <2>2
  <2>4. /\ e.id \in Views(x) /\ ~ve.closed /\ ~(be /\ ~CanBurn(x, e.dir, te, e))
        /\ ~(e.activeBurned > ve.shares \/ e.recoveryBurned > ve.recovery)
    <3>1. e.id = i /\ e.dir = d
      BY <1>5
    <3>2. ~(be /\ ~CanBurn(x, d, tick, e))
      BY <1>10, <2>2
    <3>3. v.shares \in Nat /\ v.recovery \in Nat
      BY <1>3, <1>4
    <3>4. ~(e.activeBurned > v.shares \/ e.recoveryBurned > v.recovery)
      BY <1>3, <1>5, <1>11, <3>3
    <3> HIDE DEF v, tick, be, te, d
    <3> QED
      BY <1>4, <2>1, <2>2, <3>1, <3>2, <3>4
  <2>5. ApplyLeave(x, e) = [xe EXCEPT !.view[e.id] = Flushed(ve, e)]
    BY <2>4 DEF ApplyLeave
  <2>6. Flushed(ve, e) = w /\ e.id = i
    BY <1>5, <2>2
  <2> HIDE DEF xe, burnt, w, ve
  <2> QED
    BY <2>3, <2>5, <2>6
<1>13. Apply(x, e) = y
  BY <1>1, <1>5, <1>12 DEF Apply
<1>14. /\ IsView(w) /\ w.dir = d
       /\ kind = "Claimed" =>
            /\ w.closed = v.closed /\ w.shares = v.shares /\ w.recovery = 0
            /\ w.gen = v.gen /\ w.notional = v.notional
       /\ kind # "Claimed" => w.closed = TRUE
  <2>1. IsView(v) /\ v.recovery \in Nat /\ e.recoveryBurned = v.recovery /\ w = Flushed(v, e)
    BY <1>3, <1>4, <1>5
  <2> HIDE DEF v, w
  <2>2. FlushedTo(v, e, w)
    BY <2>1, FlushedView
  <2> QED
    BY <1>4, <1>5, <2>2 DEF FlushedTo
<1>15. /\ IsIndex(burnt) /\ burnt.err = "Ok" /\ burnt.gen = s.gen /\ burnt.view = x.view
       /\ burnt.bucket = Shelved(u)
  <2>1. CASE ~burns
    <3>1. u.dormant = s.dormant
      BY <1>3, <1>6, <2>1
    <3> QED
      BY <1>1, <2>1, <3>1 DEF Shelved
  <2>2. CASE burns
    <3>1. burnt = BurnFromBucket(x, d, tick, e)
      BY <2>2
    <3> HIDE DEF burnt, d, tick
    <3>2. x.bucket = [c \in Direction |-> x.bucket[c]]
      BY <1>1 DEF Shelved
    <3>3. Rebooked(x, burnt, d, BurntFrom(x.bucket[d], tick, e.recoveryBurned,
                                          e.notionalBurned, e.value))
      BY <1>1, <1>3, <3>1, <3>2, BucketBurnt
    <3>4. ShownStore(Redeem(s.dormant[d], m.tick, m.recovery))
            = BurntFrom(x.bucket[d], tick, e.recoveryBurned, e.notionalBurned, e.value)
      <4> DEFINE st == s.dormant[d]
                 B == ShownStore(st)
      <4>1. StoreSound(st) /\ m.recovery > 0 /\ CanRedeem(st, m.tick, m.recovery)
        BY <1>3, <1>6, <1>8, <2>2
      <4> HIDE DEF st
      <4>2. ShownStore(Redeem(st, m.tick, m.recovery))
              = BurntFrom(B, m.tick, m.recovery,
                          MulDivFloor(st.bucket[m.tick].notional, m.recovery,
                                      st.bucket[m.tick].shares),
                          Redeemable(st, m.tick, m.recovery))
        BY <1>3, <4>1, RedeemShown
      <4> QED
        BY <1>3, <1>5, <1>6, <1>7, <1>9, <2>2, <4>1, <4>2 DEF st
    <3>5. u.dormant[d] = Redeem(s.dormant[d], m.tick, m.recovery)
          /\ \A c \in Direction \ {d} : u.dormant[c] = s.dormant[c]
      BY <1>3, <1>6, <2>2 DEF PoolSound, d
    <3>6. \A c \in Direction : burnt.bucket[c] = ShownStore(u.dormant[c])
      BY <1>1, <1>3, <3>2, <3>3, <3>4, <3>5 DEF Shelved, Rebooked
    <3>7. burnt.bucket = [c \in Direction |-> burnt.bucket[c]]
      BY <3>2, <3>3 DEF Rebooked
    <3>8. burnt.bucket = Shelved(u)
      BY <3>6, <3>7 DEF Shelved
    <3> QED
      BY <1>1, <3>3, <3>8 DEF Rebooked
  <2> QED
    BY <2>1, <2>2
<1> HIDE DEF w, burnt
<1>16. /\ y = [f \in IndexFields |-> y[f]] /\ y.err = "Ok" /\ y.gen = s.gen
       /\ y.bucket = Shelved(u) /\ y.view = [x.view EXCEPT ![i] = w]
  BY <1>15 DEF IsIndex, IndexFields
<1> HIDE DEF y
<1>17. /\ y.view[i] = w /\ \A j \in 1 .. Len(P) : j # i => y.view[j] = x.view[j]
       /\ y.view = [j \in 1 .. Len(P) |-> y.view[j]]
  BY <1>1, <1>16
<1>18. IsList(y.view) /\ Len(y.view) = Len(P)
  <2> DEFINE l == y.view
             n == Len(P)
  <2>1. l = [j \in 1 .. n |-> l[j]] /\ n \in Nat
    BY <1>1, <1>17
  <2> HIDE DEF l, n
  <2>2. IsList(l) /\ Len(l) = n
    BY <2>1, FunctionIsList
  <2> QED
    BY <2>2 DEF l, n
<1>19. IsIndex(y)
  <2>1. \A j \in 1 .. Len(P) : IsView(y.view[j])
    BY <1>1, <1>14, <1>17 DEF IsIndex
  <2> QED
    BY <1>16, <1>18, <2>1 DEF IsIndex
<1>20. /\ Len(Q) = Len(P) /\ Q[i] = r
       /\ \A j \in 1 .. Len(P) : j # i => Q[j] = P[j]
  BY <1>3 DEF IsList
<1>21. ASSUME NEW j \in 1 .. Len(P)
       PROVE  Stands(y.view[j], u, Q[j])
  <2>1. CASE j # i
    <3>1. Stands(x.view[j], s, P[j])
      BY DEF Tracks
    <3>2. Migrated(u, P[j]) = Migrated(s, P[j])
      BY SameGensMigrated
    <3> QED
      BY <1>3, <1>17, <1>20, <2>1, <3>1, <3>2 DEF Stands
  <2>2. CASE j = i /\ kind # "Claimed"
    <3>1. y.view[j] = w /\ Q[j] = r /\ IsView(w) /\ w.dir = r.dir
      BY <1>14, <1>17, <1>20, <2>2
    <3>2. w.closed = TRUE /\ r.status = "Closed"
      BY <1>14, <2>2
    <3>3. w.closed = (r.status = "Closed")
      BY <3>2
    <3>4. Stands(w, u, r)
      BY <3>1, <3>2, <3>3 DEF Stands
    <3> QED
      BY <3>1, <3>4
  <2>3. CASE j = i /\ kind = "Claimed"
    <3>1. r = WithoutRecovery(m)
      BY <2>3
    <3>2. /\ r.status = m.status /\ r.shares = m.shares /\ r.notional = m.notional
          /\ r.recovery = 0 /\ r.gen = m.gen /\ r.dir = d
      BY <1>2, <3>1 DEF WithoutRecovery, Holding, IsPosition, PositionFields
    <3>3. m.status # "Closed" /\ m.gen = s.gen[d]
      BY <1>2 DEF Migrated, Holding, IsPosition, PositionFields
    <3>4. Placed(u, r) /\ Holding(r)
      BY <1>20 DEF Owned, Listed
    <3>5. ~NeedsMigration(u, r)
      BY <1>3, <3>2, <3>3 DEF NeedsMigration
    <3>6. /\ Migrated(u, r).shares = m.shares /\ Migrated(u, r).notional = m.notional
          /\ Migrated(u, r).recovery = 0
      BY <1>3, <3>2, <3>4, <3>5, MigratedFields
    <3>7. w.closed = (r.status = "Closed")
      BY <1>1, <1>14, <2>3, <3>2, <3>3 DEF Stands
    <3>8. Stands(w, u, r)
      BY <1>3, <1>4, <1>14, <2>3, <3>2, <3>6, <3>7 DEF Stands
    <3> QED
      BY <1>17, <1>20, <2>3, <3>8
  <2> QED
    BY <2>1, <2>2, <2>3
<1> QED
  BY <1>3, <1>13, <1>16, <1>18, <1>19, <1>20, <1>21 DEF Tracks

(* What the event of a transfer says, next to the settlement it reports.   *)
TransferSays(s, w, p, e, t) ==
  /\ e.kind = "PoolSync" /\ e.dir = w /\ e.price = p /\ e.sharesBefore = s.shares
  /\ e.toPool = 0 \/ s.shares[w] # 0
  /\ Outflow(e) = 0 \/ s.shares[Opposite(w)] # 0
  /\ ToRecovery(e) \in Nat
  /\ t.dormant = IF ToRecovery(e) = 0 THEN s.dormant
                 ELSE [s.dormant EXCEPT ![w] = Distribute(@, p, ToRecovery(e))]

(* Event and settlement agree on the transfer, whatever its size: both     *)
(* divide it in the same way.                                              *)
LEMMA TransferForm ==
  ASSUME NEW s, NEW P, Owned(s, P), SubPoolSound(s), NEW w \in Direction, NEW p \in Nat,
         s.lastPrice # 0, Settle(s, w, p).err = "Ok",
         NEW e, e = TransferEvent(s, w, p), NEW t, t = Settle(s, w, p).sp
  PROVE  TransferSays(s, w, p, e, t)
<1> DEFINE o == Opposite(w)
           transfer == Transfer(s, w, p)
           toActive == MulDivFloor(transfer, ActiveDemand(s, w, p), Demand(s, w, p))
           toRecovery == transfer - toActive
           st == s.dormant[w]
           paid == [s EXCEPT !.pool[w] = @ + toActive, !.pool[o] = @ - transfer]
           placed == [paid EXCEPT !.dormant[w] = Distribute(@, p, toRecovery),
                                  !.dust[w] = @ + Residual(st, p, toRecovery)]
           rest == IF transfer = toActive THEN 0 ELSE Residual(st, p, toRecovery)
<1>1. PoolSound(s) /\ IsSubPool(s)
  BY DEF Owned, Listed, PoolSound
<1>2. \A d \in Direction : s.pool[d] = 0 <=> s.shares[d] = 0
  BY DEF SubPoolSound
<1>3. /\ transfer = 0 => t = s
      /\ transfer # 0 /\ toRecovery = 0 => t = paid
      /\ transfer # 0 /\ toRecovery # 0 => t = placed
  <2>1. transfer = 0 => t = s
    BY DEF Settle, Ok
  <2>2. transfer # 0 /\ toRecovery = 0 => t = paid
    BY DEF Settle, Ok
  <2>3. transfer # 0 /\ toRecovery # 0 => t = placed
    BY DEF Settle, Ok, Fail
  <2> QED
    BY <2>1, <2>2, <2>3
<1>4. /\ transfer = 0 => e = PoolSynced(w, p, 0, 0 - 0, 0, s.shares)
      /\ transfer # 0 => e = PoolSynced(w, p, toActive, toRecovery - rest, rest, s.shares)
  BY DEF TransferEvent
<1>5. CASE transfer = 0
  <2>1. e = PoolSynced(w, p, 0, 0 - 0, 0, s.shares) /\ t = s
    BY <1>3, <1>4, <1>5
  <2>2. /\ e.kind = "PoolSync" /\ e.dir = w /\ e.price = p /\ e.sharesBefore = s.shares
        /\ e.toPool = 0 /\ Outflow(e) = 0 /\ ToRecovery(e) = 0
    BY <2>1 DEF PoolSynced, Outflow, ToRecovery
  <2> QED
    BY <2>1, <2>2 DEF TransferSays
<1>6. CASE transfer # 0
  <2>1. /\ transfer \in Nat /\ transfer <= s.pool[o]
        /\ ActiveDemand(s, w, p) \in Nat /\ Demand(s, w, p) \in Nat \ {0}
        /\ ActiveDemand(s, w, p) <= Demand(s, w, p)
    BY <1>1, <1>6, DemandNat
  <2>2. /\ toActive \in Nat /\ toActive <= transfer
        /\ toActive * Demand(s, w, p) <= transfer * ActiveDemand(s, w, p)
    BY <2>1, FloorPart
  <2>3. toRecovery \in Nat
    BY <2>1, <2>2
  <2>4. /\ o \in Direction /\ o # w /\ s.pool[o] \in Nat /\ StoreSound(st)
    BY <1>1, Sides DEF PoolSound
  <2>5. s.shares[w] = 0 => toActive = 0
    <3> SUFFICES ASSUME s.shares[w] = 0 PROVE toActive = 0
      OBVIOUS
    <3>1. ActiveDemand(s, w, p) = 0
      BY <1>1, EmptySide, NothingDemanded
    <3>2. toActive * Demand(s, w, p) <= 0
      BY <2>1, <2>2, <3>1
    <3> HIDE DEF toActive
    <3>3. PICK x, y \in Nat : x = toActive /\ y = Demand(s, w, p) /\ y > 0 /\ x * y <= 0
      BY <2>1, <2>2, <3>2
    <3> QED
      BY <3>3
  <2>6. s.shares[o] # 0
    BY <1>2, <1>6, <2>1, <2>4
  <2>7. rest \in Nat
    BY <2>3, <2>4, ResidualNat
  <2> HIDE DEF transfer, toActive, st, rest
  <2>8. PICK a \in Nat, n \in Nat, r \in Nat : a = toActive /\ n = toRecovery /\ r = rest
    BY <2>2, <2>3, <2>7
  <2> DEFINE same == [s EXCEPT !.pool[w] = @ + a, !.pool[o] = @ - transfer]
             u == [same EXCEPT !.dormant[w] = Distribute(@, p, n),
                               !.dust[w] = @ + Residual(st, p, n)]
  <2>9. e = PoolSynced(w, p, a, n - r, r, s.shares)
    BY <1>4, <1>6, <2>8
  <2>10. t = IF n = 0 THEN same ELSE u
    BY <1>3, <1>6, <2>8
  <2> HIDE DEF toRecovery, o
  <2>11. /\ same.dormant = s.dormant /\ IsSubPool(same)
    BY <1>1 DEF IsSubPool, SubPoolFields
  <2> HIDE DEF same
  <2>12. u.dormant = [s.dormant EXCEPT ![w] = Distribute(@, p, n)]
    BY <2>11 DEF IsSubPool, SubPoolFields
  <2> HIDE DEF u
  <2>13. /\ e.kind = "PoolSync" /\ e.dir = w /\ e.price = p /\ e.sharesBefore = s.shares
         /\ e.toPool = a /\ ToRecovery(e) = n
    BY <2>9 DEF PoolSynced, ToRecovery
  <2>14. t.dormant = IF n = 0 THEN s.dormant
                     ELSE [s.dormant EXCEPT ![w] = Distribute(@, p, n)]
    BY <2>10, <2>11, <2>12
  <2> QED
    BY <2>5, <2>6, <2>8, <2>13, <2>14 DEF TransferSays, o
<1> QED
  BY <1>5, <1>6

(* The index after the event of the transfer.                              *)
LEMMA TransferApplied ==
  ASSUME NEW s, NEW P, Owned(s, P), SubPoolSound(s), NEW w \in Direction, NEW p \in Nat,
         s.lastPrice # 0, Settle(s, w, p).err = "Ok", NEW x, Tracks(x, s, P),
         NEW e, e = TransferEvent(s, w, p), NEW t, t = Settle(s, w, p).sp
  PROVE  Tracks(Apply(x, e), t, P)
<1> DEFINE n == ToRecovery(e)
           st == s.dormant[w]
           y == Apply(x, e)
<1>1. PoolSound(s) /\ IsSubPool(s) /\ SameGens(s, t)
  BY SettleSame DEF Owned, Listed, PoolSound
<1>2. TransferSays(s, w, p, e, t)
  BY TransferForm
<1>3. /\ e.kind = "PoolSync" /\ e.dir = w /\ e.price = p /\ e.sharesBefore = s.shares
      /\ e.toPool = 0 \/ s.shares[w] # 0
      /\ Outflow(e) = 0 \/ s.shares[Opposite(w)] # 0
      /\ n \in Nat
      /\ t.dormant = IF n = 0 THEN s.dormant
                     ELSE [s.dormant EXCEPT ![w] = Distribute(@, p, n)]
  BY <1>2 DEF TransferSays
<1>4. IsIndex(x) /\ x.err = "Ok" /\ x.bucket = Shelved(s)
  BY DEF Tracks
<1>5. /\ StoreSound(st) /\ st.dir = w
      /\ s.dormant = [d \in Direction |-> s.dormant[d]]
  BY <1>1 DEF PoolSound
<1>6. /\ x.bucket = [d \in Direction |-> x.bucket[d]]
      /\ x.bucket[w] = ShownStore(st)
  BY <1>4 DEF Shelved
<1>7. IsShown(ShownStore(st))
  BY <1>5, StoreIsShown
<1>8. ShownStore(Distribute(st, p, n)) = Granted(w, ShownStore(st), p, n)
  BY <1>3, <1>5, DistributeShown
<1>9. /\ SameViews(x, y)
      /\ y.bucket = [x.bucket EXCEPT ![w] = IF n = 0 THEN @ ELSE Granted(w, @, p, n)]
  BY <1>3, <1>4, <1>6, <1>7, PoolSyncApplied
<1> HIDE DEF y, n, st
<1>10. y.bucket = Shelved(t)
  <2>1. CASE n = 0
    BY <1>3, <1>4, <1>6, <1>9, <2>1 DEF Shelved
  <2>2. CASE n # 0
    <3>1. y.bucket = [Shelved(s) EXCEPT ![w] = Granted(w, ShownStore(st), p, n)]
      BY <1>4, <1>6, <1>9, <2>2
    <3>2. \A d \in Direction : t.dormant[d] = IF d = w THEN Distribute(st, p, n)
                                              ELSE s.dormant[d]
      BY <1>3, <1>5, <2>2 DEF st
    <3> QED
      BY <1>8, <3>1, <3>2 DEF Shelved
  <2> QED
    BY <2>1, <2>2
<1>11. Tracks(y, t, P)
  BY <1>1, <1>9, <1>10, TracksSame
<1> QED
  BY <1>11 DEF y

(* A new price alone is nothing the index knows of.                        *)
LEMMA RepricedTracks ==
  ASSUME NEW s, NEW P, Owned(s, P), NEW x, Tracks(x, s, P), NEW p
  PROVE  Tracks(x, [s EXCEPT !.lastPrice = p], P)
<1> DEFINE t == [s EXCEPT !.lastPrice = p]
<1>1. IsSubPool(s)
  BY DEF Owned, Listed, PoolSound
<1>2. SameGens(s, t) /\ t.dormant = s.dormant
  BY <1>1 DEF SameGens, IsSubPool, SubPoolFields
<1> HIDE DEF t
<1>3. SameViews(x, x) /\ x.bucket = Shelved(t)
  BY <1>2, SameViewsSelf DEF Tracks, Shelved
<1>4. Tracks(x, t, P)
  BY <1>2, <1>3, TracksSame
<1> QED
  BY <1>4 DEF t

(* Appending one event, written in two ways.                               *)
LEMMA OneMore ==
  ASSUME NEW log, IsList(log), NEW e
  PROVE  log \o <<>> = log /\ log \o <<e>> = Append(log, e) /\ <<e>> = Append(<<>>, e)
<1> DEFINE S == {log[i] : i \in 1 .. Len(log)}
           R == S \cup {e}
<1>1. log \in Seq(S)
  BY DEF IsList
<1> HIDE DEF S
<1>2. log \in Seq(R) /\ e \in R
  BY <1>1
<1> HIDE DEF R
<1>3. log \o <<>> = log
  BY <1>2, ConcatEmptySeq
<1>4. log \o <<e>> = Append(log, e)
  BY <1>2, AppendIsConcat
<1>5. <<e>> = Append(<<>>, e)
  OBVIOUS
<1> QED
  BY <1>3, <1>4, <1>5

-----------------------------------------------------------------------------
(***************************************************************************)
(* Calls. The events of a whole call bring the index to the state the      *)
(* call leaves: those of its sync first, one per side that rotates, and    *)
(* then the call's own. Each event is made from states the engine saw on   *)
(* the way, so the proof goes through the states in between.               *)
(***************************************************************************)
(* Where the events of a call have brought the index.                      *)
Reached(x, log, s, P) == IsList(log) /\ Tracks(ApplyAll(x, log), s, P)

(* A batch of one event.                                                   *)
LEMMA OneEvent ==
  ASSUME NEW x, NEW e, NEW s, NEW P, Tracks(Apply(x, e), s, P)
  PROVE  Reached(x, <<e>>, s, P)
<1>1. ApplyAll(x, <<>>) = x /\ IsList(<<>>)
  BY ApplyNone
<1>2. <<e>> = Append(<<>>, e)
  BY <1>1, OneMore
<1>3. /\ ApplyAll(x, Append(<<>>, e)) = Apply(ApplyAll(x, <<>>), e)
      /\ IsList(Append(<<>>, e))
  <2>1. PICK nil : nil = <<>>
    OBVIOUS
  <2>2. ApplyAll(x, Append(nil, e)) = Apply(ApplyAll(x, nil), e) /\ IsList(Append(nil, e))
    <3>1. IsList(nil)
      BY <1>1, <2>1
    <3> QED
      BY <3>1, ApplyMore
  <2> QED
    BY <2>1, <2>2
<1> QED
  BY <1>1, <1>2, <1>3 DEF Reached

(* A batch with one more.                                                  *)
LEMMA AnotherEvent ==
  ASSUME NEW x, NEW log, IsList(log), NEW e, NEW s, NEW P,
         Tracks(Apply(ApplyAll(x, log), e), s, P)
  PROVE  Reached(x, log \o <<e>>, s, P)
<1>1. log \o <<e>> = Append(log, e)
  BY OneMore
<1>2. /\ ApplyAll(x, Append(log, e)) = Apply(ApplyAll(x, log), e)
      /\ IsList(Append(log, e))
  BY ApplyMore
<1> QED
  BY <1>1, <1>2 DEF Reached

(* One side's turn.  The event is made from the sub-pool of before the     *)
(* sync, which by then differs on neither side's shares.                   *)
LEMMA SideApplied ==
  ASSUME NEW s, NEW P, Owned(s, P), NEW d \in Direction, NEW p \in Nat,
         Rotate(s, d, p).err = "Ok", NEW t, t = Rotate(s, d, p).sp,
         NEW x, NEW log, Reached(x, log, s, P),
         NEW old, old.shares[d] = s.shares[d], old.notional[d] = s.notional[d],
         old.gen[d] = s.gen[d], NEW after, after.gen[d] = t.gen[d]
  PROVE  /\ Reached(x, log \o RotatedEvent(old, after, d, p), t, P) /\ Owned(t, P)
         /\ \A e \in Direction \ {d} : /\ t.shares[e] = s.shares[e]
                                       /\ t.notional[e] = s.notional[e]
                                       /\ t.gen[e] = s.gen[e]
<1>1. /\ IsSubPool(s) /\ PoolSound(s)
      /\ s.gen \in [Direction -> Nat]
  BY DEF Owned, Listed, PoolSound, Numbered
<1>2. t = s \/ RotatesTo(s, d, p, t)
  BY <1>1, RotateForm
<1>3. Owned(t, P)
  BY RotateBacked
<1>4. IsList(log) /\ Tracks(ApplyAll(x, log), s, P)
  BY DEF Reached
<1>5. CASE t = s
  <2>1. RotatedEvent(old, after, d, p) = <<>>
    BY <1>5 DEF RotatedEvent
  <2>2. log \o <<>> = log
    BY <1>4, OneMore
  <2> QED
    BY <1>3, <1>5, <2>1, <2>2
<1>6. CASE RotatesTo(s, d, p, t)
  <2> DEFINE ev == Rotated(d, BucketTickOf(p), p, s.shares[d], s.notional[d], s.gen[d])
  <2>1. /\ t.shares = [s.shares EXCEPT ![d] = 0] /\ t.notional = [s.notional EXCEPT ![d] = 0]
        /\ t.gen = [s.gen EXCEPT ![d] = @ + 1]
    BY <1>6 DEF RotatesTo
  <2>2. t.gen[d] = s.gen[d] + 1 /\ s.gen[d] \in Nat
    BY <1>1, <2>1
  <2>3. after.gen[d] # old.gen[d]
    BY <2>2
  <2>4. RotatedEvent(old, after, d, p) = <<ev>>
    BY <2>3 DEF RotatedEvent
  <2>5. Tracks(Apply(ApplyAll(x, log), ev), t, P)
    BY <1>3, <1>4, <1>6, RotationApplied
  <2> HIDE DEF ev
  <2>6. Reached(x, log \o <<ev>>, t, P)
    BY <1>4, <2>5, AnotherEvent
  <2>7. \A e \in Direction \ {d} : /\ t.shares[e] = s.shares[e]
                                   /\ t.notional[e] = s.notional[e]
                                   /\ t.gen[e] = s.gen[e]
    BY <1>1, <2>1 DEF PoolSound
  <2> QED
    BY <1>3, <2>4, <2>6, <2>7
<1> QED
  BY <1>2, <1>5, <1>6

(* The events of a sync bring the index to the synced sub-pool.            *)
LEMMA SyncApplied ==
  ASSUME NEW s, NEW P, Owned(s, P), SubPoolSound(s), NEW p \in Nat,
         SyncPool(s, p).err = "Ok", NEW after, after.gen = SyncPool(s, p).sp.gen,
         NEW x, Tracks(x, s, P)
  PROVE  Reached(x, SyncEvents(s, after, p), SyncPool(s, p).sp, P)
<1> DEFINE w == Winner(s, p)
           settled == Settle(s, w, p)
           priced == [settled.sp EXCEPT !.lastPrice = p]
           long == Rotate(priced, "Long", p)
           both == Rotate(long.sp, "Short", p)
           renewed == [s EXCEPT !.lastPrice = p]
           log == SyncEvents(s, after, p)
           transfer == <<TransferEvent(s, w, p)>>
           first == transfer \o RotatedEvent(s, after, "Long", p)
<1>1. CASE s.lastPrice \in {0, p}
  <2>1. SyncPool(s, p) = Checked(renewed) /\ log = <<>>
    BY <1>1 DEF SyncPool, SyncEvents
  <2>2. Tracks(x, renewed, P)
    BY RepricedTracks
  <2> HIDE DEF renewed, log
  <2>3. SyncPool(s, p).sp = renewed
    BY <2>1, CheckedOk
  <2>4. Reached(x, log, SyncPool(s, p).sp, P)
    BY <2>1, <2>2, <2>3, ApplyNone DEF Reached
  <2> QED
    BY <2>4 DEF log
<1>2. CASE s.lastPrice \notin {0, p}
  <2>1. /\ w \in Direction /\ "Long" \in Direction /\ "Short" \in Direction
        /\ settled.err = "Ok" /\ long.err = "Ok" /\ both.err = "Ok"
        /\ SyncPool(s, p).sp = both.sp
    BY <1>2, SyncForm
  <2>2. s.lastPrice # 0 /\ log = first \o RotatedEvent(s, after, "Short", p)
    BY <1>2 DEF SyncEvents
  <2>3. Owned(settled.sp, P)
    BY <2>1, <2>2, SettleBacked
  <2>4. Reached(x, transfer, settled.sp, P)
    BY <2>1, <2>2, TransferApplied, OneEvent
  <2>5. /\ settled.sp.shares = s.shares /\ settled.sp.notional = s.notional
        /\ settled.sp.gen = s.gen /\ IsSubPool(settled.sp)
    <3>1. IsSubPool(s)
      BY DEF Owned, Listed, PoolSound
    <3>2. PICK v \in Direction : v = w
      BY <2>1
    <3>3. PICK t : t = settled.sp
      OBVIOUS
    <3>4. Settle(s, v, p).err = "Ok" /\ t = Settle(s, v, p).sp
      BY <2>1, <3>2, <3>3
    <3>5. t.shares = s.shares /\ t.notional = s.notional /\ t.gen = s.gen /\ IsSubPool(t)
      BY <3>1, <3>4, SettleForm
    <3> QED
      BY <3>3, <3>5
  <2> HIDE DEF settled, transfer
  <2>6. Owned(priced, P)
    BY <2>3, RepricedBacked
  <2>7. Reached(x, transfer, priced, P)
    BY <2>3, <2>4, RepricedTracks DEF Reached
  <2>8. priced.shares = s.shares /\ priced.notional = s.notional /\ priced.gen = s.gen
    BY <2>5 DEF IsSubPool, SubPoolFields
  <2> HIDE DEF priced
  <2>9. "Long" \in Direction \ {"Short"} /\ "Short" \in Direction \ {"Long"}
    BY <2>1
  <2>10. /\ IsSubPool(long.sp) /\ Owned(long.sp, P)
    <3>1. Owned(long.sp, P)
      BY <2>1, <2>6, RotateBacked
    <3> QED
      BY <3>1 DEF Owned, Listed, PoolSound
  <2>11. both.sp.gen["Long"] = long.sp.gen["Long"]
    <3>1. both.sp = long.sp \/ RotatesTo(long.sp, "Short", p, both.sp)
      BY <2>1, <2>10, RotateForm
    <3>2. long.sp.gen \in [Direction -> Nat]
      BY <2>10 DEF Owned, Listed, Numbered
    <3> HIDE DEF both, long
    <3>3. CASE RotatesTo(long.sp, "Short", p, both.sp)
      BY <2>9, <3>2, <3>3 DEF RotatesTo
    <3> QED
      BY <3>1, <3>3
  <2>12. after.gen = both.sp.gen
    BY <2>1
  <2> DEFINE l == long.sp
             b == both.sp
             one == RotatedEvent(s, after, "Long", p)
             two == RotatedEvent(s, after, "Short", p)
  <2>13. /\ Reached(x, transfer \o one, l, P)
         /\ l.shares["Short"] = s.shares["Short"] /\ l.notional["Short"] = s.notional["Short"]
         /\ l.gen["Short"] = s.gen["Short"]
    BY <2>1, <2>6, <2>7, <2>8, <2>9, <2>11, <2>12, SideApplied
  <2>14. Reached(x, first \o two, b, P)
    <3> HIDE DEF long
    <3>1. Reached(x, first, long.sp, P)
      BY <2>13
    <3> HIDE DEF first
    <3> QED
      BY <2>1, <2>10, <2>12, <2>13, <3>1, SideApplied
  <2> QED
    BY <2>1, <2>2, <2>14
<1> QED
  BY <1>1, <1>2

(* An accepted open.                                                       *)
LEMMA OpenApplied ==
  ASSUME NEW s, NEW P, Owned(s, P), SubPoolSound(s), NEW p \in Nat,
         NEW d \in Direction, NEW g \in Nat,
         NEW r, r = OpenPosition(s, p, d, g), r.err = "Ok", NEW x, Tracks(x, s, P),
         NEW log, log = SyncEvents(s, r.sp, p) \o <<PositionOpened(d, g - OpenFee(g), r.pos)>>
  PROVE  Tracks(ApplyAll(x, log), r.sp, Append(P, r.pos))
<1> DEFINE w == SyncPool(s, p).sp
           u == OpenedSide(w, d, g)
           q == r.pos
           e == PositionOpened(d, g - OpenFee(g), q)
           sync == SyncEvents(s, r.sp, p)
<1>1. SyncPool(s, p).err = "Ok" /\ r = OpenSynced(w, d, g)
  BY DEF OpenPosition
<1>2. Owned(w, P)
  BY <1>1, SyncBacked
<1>3. Owned(r.sp, Append(P, q))
  BY OpenBacked
<1>4. IsSubPool(w) /\ Numbered(w)
  BY <1>2 DEF Owned, Listed, PoolSound
<1> HIDE DEF w
<1>5. CanOpen(w, d, g)
  BY <1>1, OpenSyncedIs
<1>6. PICK minted, notional :
        r.sp = u /\ q = NewPosition(d, minted, notional, w.gen[d])
  BY <1>1, <1>5, OpenSyncedIs
<1>7. /\ q.status # "Closed" /\ q.recovery = 0 /\ q.gen = w.gen[q.dir] /\ q.dir = d
  BY <1>6 DEF NewPosition
<1>8. SameGens(w, u) /\ u.dormant = w.dormant
  <2>1. PICK a, b, c, f : u = SideGrown(w, d, a, b, c, f)
    BY DEF OpenedSide
  <2> HIDE DEF u
  <2> QED
    BY <1>4, <2>1 DEF SideGrown, IsSubPool, SubPoolFields, SameGens
<1> HIDE DEF u
<1>9. Reached(x, sync, w, P)
  <2>1. r.sp.gen = SyncPool(s, p).sp.gen
    BY <1>6, <1>8 DEF SameGens, w
  <2> QED
    BY <1>1, <2>1, SyncApplied DEF w
<1> HIDE DEF sync
<1>10. /\ e = PositionOpened(q.dir, g - OpenFee(g), q)
       /\ IsList(sync) /\ Tracks(ApplyAll(x, sync), w, P)
  BY <1>7, <1>9 DEF Reached
<1> HIDE DEF e, q
<1>11. Owned(u, Append(P, q))
  BY <1>3, <1>6
<1>12. Tracks(Apply(ApplyAll(x, sync), e), u, Append(P, q))
  BY <1>2, <1>7, <1>8, <1>10, <1>11, OpeningApplied
<1>13. Reached(x, sync \o <<e>>, u, Append(P, q))
  BY <1>10, <1>12, AnotherEvent
<1>14. log = sync \o <<e>>
  BY DEF sync, e, q
<1>15. Tracks(ApplyAll(x, log), u, Append(P, q))
  BY <1>13, <1>14 DEF Reached
<1> QED
  BY <1>6, <1>15 DEF q

(* The events of a position that leaves, after those of its sync.          *)
LEMMA LeftApplied ==
  ASSUME NEW s, NEW P, Owned(s, P), SubPoolSound(s), NEW i \in 1 .. Len(P), NEW p \in Nat,
         NEW t, t = Touch(s, p, P[i]), t.err = "Ok",
         NEW kind, NEW u, NEW r, Departing(t.sp, P, i, kind, t.pos, u, r),
         NEW x, Tracks(x, s, P),
         NEW log, log = SyncEvents(s, u, p) \o <<LeaveEvent(kind, i, t)>>
  PROVE  Tracks(ApplyAll(x, log), u, [P EXCEPT ![i] = r])
<1> DEFINE w == SyncPool(s, p).sp
           m == t.pos
           e == LeaveEvent(kind, i, t)
           sync == SyncEvents(s, u, p)
           Q == [P EXCEPT ![i] = r]
<1>1. SyncPool(s, p).err = "Ok" /\ t.sp = w
  BY TouchForm
<1>2. Owned(w, P)
  BY <1>1, SyncBacked
<1>3. Reached(x, sync, w, P)
  <2>1. u.gen = SyncPool(s, p).sp.gen
    BY <1>1 DEF SameGens, Departing
  <2> QED
    BY <1>1, <2>1, SyncApplied
<1> HIDE DEF w, sync
<1>4. IsList(sync) /\ Tracks(ApplyAll(x, sync), w, P)
  BY <1>3 DEF Reached
<1>5. e = LeaveEvent(kind, i, t) /\ m = t.pos
  OBVIOUS
<1> HIDE DEF e, m
<1>6. Departing(w, P, i, kind, m, u, r)
  BY <1>1, <1>5
<1>7. Tracks(Apply(ApplyAll(x, sync), e), u, Q)
  BY <1>1, <1>2, <1>4, <1>5, <1>6, LeavingApplied
<1> HIDE DEF Q
<1>8. Reached(x, sync \o <<e>>, u, Q)
  BY <1>4, <1>7, AnotherEvent
<1>9. log = sync \o <<e>>
  BY DEF sync, e
<1> QED
  BY <1>8, <1>9 DEF Reached, Q

(* What a position keeps of its recovery shares is what burning them takes *)
(* from the store.                                                         *)
BurnsRecovery(s, q, u) ==
  /\ SameGens(s, u)
  /\ q.recovery = 0 => u.dormant = s.dormant
  /\ q.recovery # 0 => u.dormant = [s.dormant EXCEPT ![q.dir] = Redeem(@, q.tick, q.recovery)]

(* Leaving recovery does that.                                             *)
LEMMA RecoveryBurnt ==
  ASSUME NEW s, NEW v, SameGens(s, v), v.dormant = s.dormant, NEW q,
         NEW u, u = LeaveRecovery(v, q)
  PROVE  BurnsRecovery(s, q, u)
<1>1. IsSubPool(v)
  BY DEF SameGens
<1>2. CASE q.recovery = 0
  BY <1>2 DEF LeaveRecovery, BurnsRecovery
<1>3. CASE q.recovery # 0
  <2>1. /\ IsSubPool(u)
        /\ u.dormant = [v.dormant EXCEPT ![q.dir] = Redeem(@, q.tick, q.recovery)]
        /\ u.gen = v.gen /\ u.rotateLog = v.rotateLog
    BY <1>1, <1>3 DEF LeaveRecovery, IsSubPool, SubPoolFields
  <2>2. SameGens(s, u)
    BY <2>1 DEF SameGens
  <2> QED
    BY <1>3, <2>1, <2>2 DEF BurnsRecovery
<1> QED
  BY <1>2, <1>3

(* Leaving the pool touches no store.                                      *)
LEMMA ActiveLeft ==
  ASSUME NEW s, NEW q, SameGens(s, s), NEW c \in BOOLEAN, NEW value,
         NEW v, v = IF c THEN LeaveActive(s, q, value) ELSE s
  PROVE  SameGens(s, v) /\ v.dormant = s.dormant
<1>1. IsSubPool(s)
  BY DEF SameGens
<1>2. CASE c
  <2>1. v = LeaveActive(s, q, value)
    BY <1>2
  <2> QED
    BY <1>1, <2>1, LeaveActiveKeeps DEF SameGens
<1>3. CASE ~c
  BY <1>3
<1> QED
  BY <1>2, <1>3

(* The position an entry point works on is the stored one, migrated to     *)
(* the sub-pool the sync left.                                             *)
LEMMA TouchedPosition ==
  ASSUME NEW s, NEW P, Owned(s, P), NEW i \in 1 .. Len(P), NEW p \in Nat,
         NEW t, t = Touch(s, p, P[i]), t.err = "Ok"
  PROVE  /\ t.pos = Migrated(t.sp, P[i]) /\ CanLeaveRecovery(t.sp, t.pos)
         /\ Owned(t.sp, P) /\ SubPoolSound(t.sp) /\ SameGens(t.sp, t.sp)
         /\ Placed(t.sp, t.pos) /\ Holding(t.pos) /\ t.pos.dir = P[i].dir
         /\ t.pos.shares > 0 => HasPool(t.sp, t.pos)
<1>1. TouchedOwned(s, P, P[i], t)
  BY TouchBacked
<1>2. /\ Owned(t.sp, P) /\ SubPoolSound(t.sp) /\ Placed(t.sp, t.pos) /\ Holding(t.pos)
      /\ ~NeedsMigration(t.sp, t.pos) /\ CanLeaveRecovery(t.sp, t.pos)
      /\ \A a : Weight(t.sp, t.pos, a) = Weight(t.sp, P[i], a)
  BY <1>1 DEF TouchedOwned
<1>3. t.pos = Migrated(t.sp, P[i])
  BY TouchForm
<1>4. SameGens(t.sp, t.sp)
  BY <1>2 DEF SameGens, Owned, Listed, PoolSound
<1>5. t.pos.dir = P[i].dir
  <2>1. Placed(s, P[i]) /\ IsPosition(P[i])
    BY DEF Owned, Listed, Placed
  <2> QED
    BY <1>3, <2>1 DEF Migrated, IsPosition, PositionFields
<1>6. t.pos.shares > 0 => HasPool(t.sp, t.pos)
  <2>1. t.pos.dir \in Direction /\ t.pos.shares \in Nat
    BY <1>2 DEF Holding
  <2> QED
    BY <1>2, <2>1, SharesHavePool
<1> QED
  BY <1>2, <1>3, <1>4, <1>5, <1>6

(* An accepted departure of position i: what the events are made from, and *)
(* that nothing is left in a closed position.                              *)
Parted(s, P, i, p, kind, u, r) ==
  LET t == Touch(s, p, P[i])
  IN  /\ t.err = "Ok"
      /\ Departing(t.sp, P, i, kind, t.pos, u, r)
      /\ r.status = "Closed" => r.shares = 0 /\ r.recovery = 0

(* A close is a departure.                                                 *)
LEMMA CloseParts ==
  ASSUME NEW s, NEW P, Owned(s, P), NEW i \in 1 .. Len(P), NEW p \in Nat,
         NEW r, r = ClosePosition(s, p, P[i]), r.err = "Ok"
  PROVE  Parted(s, P, i, p, "Closed", r.sp, r.pos)
<1> DEFINE t == Touch(s, p, P[i])
           m == t.pos
           leaves == HasPool(t.sp, m)
           v == IF leaves THEN LeaveActive(t.sp, m, ActiveValue(t.sp, m)) ELSE t.sp
           kept == IF leaves THEN WithoutShares(m) ELSE WithoutRecovery(m)
<1>1. /\ t.err = "Ok" /\ P[i].status # "Closed"
      /\ r.sp = LeaveRecovery(v, m) /\ r.pos = Closed(kept)
  <2>1. /\ t.err = "Ok" /\ P[i].status \in {"Open", "Dormant"}
        /\ r.sp = LeaveRecovery(v, m) /\ r.pos = Closed(kept)
    BY CloseForm
  <2> QED
    BY <2>1
<1>2. leaves \in BOOLEAN
  BY DEF HasPool
<1>3. Owned(r.sp, [P EXCEPT ![i] = r.pos])
  BY CloseBacked
<1> HIDE DEF t
<1>4. /\ m = Migrated(t.sp, P[i]) /\ CanLeaveRecovery(t.sp, m)
      /\ SameGens(t.sp, t.sp) /\ Holding(m) /\ m.shares \in Nat
      /\ m.shares > 0 => leaves
  BY <1>1, TouchedPosition DEF t, Holding
<1> HIDE DEF m, leaves
<1>5. SameGens(t.sp, v) /\ v.dormant = t.sp.dormant
  BY <1>2, <1>4, ActiveLeft
<1> HIDE DEF v
<1>6. BurnsRecovery(t.sp, m, r.sp)
  BY <1>1, <1>5, RecoveryBurnt
<1>7. Holding(kept) /\ kept.shares = 0 /\ kept.recovery = 0 /\ kept.dir = m.dir
  <2>1. /\ Holding(WithoutShares(m)) /\ Holding(WithoutRecovery(m))
        /\ WithoutShares(m).shares = 0 /\ WithoutShares(m).recovery = 0
        /\ WithoutRecovery(m).shares = m.shares /\ WithoutRecovery(m).recovery = 0
    BY <1>4, EmptiedFields, ClosedHolding
  <2>2. WithoutShares(m).dir = m.dir /\ WithoutRecovery(m).dir = m.dir
    BY <1>4 DEF WithoutShares, WithoutRecovery, Holding, IsPosition, PositionFields
  <2>3. ~leaves => m.shares = 0
    BY <1>4
  <2> QED
    BY <2>1, <2>2, <2>3
<1> HIDE DEF kept
<1>8. r.pos.status = "Closed" /\ r.pos.dir = m.dir /\ r.pos.shares = 0 /\ r.pos.recovery = 0
  BY <1>1, <1>7 DEF Closed, Holding, IsPosition, PositionFields
<1>9. Departing(t.sp, P, i, "Closed", m, r.sp, r.pos)
  BY <1>1, <1>3, <1>4, <1>6, <1>8 DEF Departing, BurnsRecovery
<1> QED
  BY <1>1, <1>8, <1>9 DEF Parted, t, m

(* So is a forced close.                                                   *)
LEMMA ForceCloseParts ==
  ASSUME NEW s, NEW P, Owned(s, P), NEW i \in 1 .. Len(P), NEW p \in Nat,
         NEW r, r = ForceClosePosition(s, p, P[i]), r.err = "Ok"
  PROVE  Parted(s, P, i, p, "ForceClosed", r.sp, r.pos)
<1> DEFINE t == Touch(s, p, P[i])
           m == t.pos
           leaves == m.shares > 0
           v == IF leaves THEN LeaveActive(t.sp, m, 0) ELSE t.sp
           left == LeaveRecovery(v, m)
           kept == WithoutShares(m)
           n == RecoveryValue(t.sp, m)
<1>1. /\ t.err = "Ok" /\ P[i].status # "Closed"
      /\ r.sp = [left EXCEPT !.dust[m.dir] = @ + n] /\ r.pos = Closed(kept)
  BY ForceCloseForm
<1>2. leaves \in BOOLEAN
  OBVIOUS
<1>3. Owned(r.sp, [P EXCEPT ![i] = r.pos])
  BY ForceCloseBacked
<1> HIDE DEF t
<1>4. /\ m = Migrated(t.sp, P[i]) /\ CanLeaveRecovery(t.sp, m)
      /\ SameGens(t.sp, t.sp) /\ Holding(m)
  BY <1>1, TouchedPosition DEF t
<1> HIDE DEF m, leaves, n
<1>5. SameGens(t.sp, v) /\ v.dormant = t.sp.dormant
  BY <1>2, <1>4, ActiveLeft
<1> HIDE DEF v
<1>6. BurnsRecovery(t.sp, m, left)
  BY <1>5, RecoveryBurnt
<1> HIDE DEF left
<1>7. BurnsRecovery(t.sp, m, r.sp)
  <2>1. IsSubPool(left) /\ left.gen = t.sp.gen /\ left.rotateLog = t.sp.rotateLog
    BY <1>6 DEF BurnsRecovery, SameGens
  <2>2. SameGens(t.sp, r.sp) /\ r.sp.dormant = left.dormant
    BY <1>1, <2>1 DEF SameGens, IsSubPool, SubPoolFields
  <2> QED
    BY <1>6, <2>2 DEF BurnsRecovery
<1>8. Holding(kept) /\ kept.shares = 0 /\ kept.recovery = 0 /\ kept.dir = m.dir
  BY <1>4, EmptiedFields, ClosedHolding DEF WithoutShares, WithoutRecovery, Holding,
     IsPosition, PositionFields
<1> HIDE DEF kept
<1>9. r.pos.status = "Closed" /\ r.pos.dir = m.dir /\ r.pos.shares = 0 /\ r.pos.recovery = 0
  BY <1>1, <1>8 DEF Closed, Holding, IsPosition, PositionFields
<1>10. Departing(t.sp, P, i, "ForceClosed", m, r.sp, r.pos)
  BY <1>1, <1>3, <1>4, <1>7, <1>9 DEF Departing, BurnsRecovery
<1> QED
  BY <1>1, <1>9, <1>10 DEF Parted, t, m

(* And a claim.                                                            *)
LEMMA ClaimParts ==
  ASSUME NEW s, NEW P, Owned(s, P), NEW i \in 1 .. Len(P), NEW p \in Nat,
         P[i].status = "Closed" => P[i].shares = 0 /\ P[i].recovery = 0,
         NEW r, r = ClaimRecovery(s, p, P[i]), r.err = "Ok"
  PROVE  Parted(s, P, i, p, "Claimed", r.sp, r.pos)
<1> DEFINE t == Touch(s, p, P[i])
           m == t.pos
<1>1. /\ t.err = "Ok" /\ m.recovery # 0
      /\ r.sp = LeaveRecovery(t.sp, m) /\ r.pos = WithoutRecovery(m)
  BY ClaimForm
<1>2. Owned(r.sp, [P EXCEPT ![i] = r.pos])
  BY ClaimBacked
<1> HIDE DEF t
<1>3. /\ m = Migrated(t.sp, P[i]) /\ CanLeaveRecovery(t.sp, m)
      /\ SameGens(t.sp, t.sp) /\ Holding(m)
  BY <1>1, TouchedPosition DEF t
<1>4. Holding(P[i])
  BY DEF Owned, Listed
<1> HIDE DEF m
<1>5. P[i].status # "Closed" /\ m.status # "Closed"
  <2>1. CASE NeedsMigration(t.sp, P[i])
    <3>1. P[i].shares > 0
      BY <2>1 DEF NeedsMigration
    <3>2. P[i].status # "Closed"
      BY <3>1
    <3>3. m.status = "Dormant"
      BY <1>3, <1>4, <2>1 DEF Migrated, Holding, IsPosition, PositionFields
    <3> QED
      BY <3>2, <3>3
  <2>2. CASE ~NeedsMigration(t.sp, P[i])
    BY <1>1, <1>3, <1>4, <2>2 DEF Migrated, Holding, IsPosition, PositionFields
  <2> QED
    BY <2>1, <2>2
<1>6. BurnsRecovery(t.sp, m, r.sp)
  BY <1>1, <1>3, RecoveryBurnt
<1>7. r.pos.status = m.status /\ r.pos.dir = m.dir
  BY <1>1, <1>3 DEF WithoutRecovery, Holding, IsPosition, PositionFields
<1>8. Departing(t.sp, P, i, "Claimed", m, r.sp, r.pos)
  BY <1>1, <1>2, <1>3, <1>5, <1>6, <1>7 DEF Departing, BurnsRecovery
<1> QED
  BY <1>1, <1>5, <1>7, <1>8 DEF Parted, t, m

(* The index after an accepted departure.                                  *)
LEMMA PartedApplied ==
  ASSUME NEW s, NEW P, Owned(s, P), SubPoolSound(s), NEW i \in 1 .. Len(P), NEW p \in Nat,
         NEW kind, NEW u, NEW r, Parted(s, P, i, p, kind, u, r),
         NEW x, Tracks(x, s, P),
         NEW log, log = SyncEvents(s, u, p) \o <<LeaveEvent(kind, i, Touch(s, p, P[i]))>>
  PROVE  Tracks(ApplyAll(x, log), u, [P EXCEPT ![i] = r])
<1>1. PICK t : t = Touch(s, p, P[i])
  OBVIOUS
<1>2. t.err = "Ok" /\ Departing(t.sp, P, i, kind, t.pos, u, r)
  BY <1>1 DEF Parted
<1>3. log = SyncEvents(s, u, p) \o <<LeaveEvent(kind, i, t)>>
  BY <1>1
<1> QED
  BY <1>1, <1>2, <1>3, LeftApplied

-----------------------------------------------------------------------------
(***************************************************************************)
(* The invariant of the market with its index: the books of the market,    *)
(* that the index follows them, and that a closed position holds nothing,  *)
(* without which its dead view would be missing from the index's sums.     *)
(***************************************************************************)
(* A closed position holds nothing.                                        *)
Emptied(P) ==
  \A i \in 1 .. Len(P) : P[i].status = "Closed" => P[i].shares = 0 /\ P[i].recovery = 0

(* The inductive invariant: the books, what the index says of them, and    *)
(* closed positions being empty.                                           *)
IndexInv == SharesInv /\ Tracks(idx, sp, pos) /\ Emptied(pos)

(* It holds at the start: no events, no positions.                         *)
LEMMA IndexStarts == IndexedInit => IndexInv
<1> SUFFICES ASSUME IndexedInit PROVE IndexInv
  OBVIOUS
<1>1. SharesInv /\ sp = NewSubPool /\ pos = <<>> /\ idx = NewIndex
  BY SharesInit DEF IndexedInit, Init
<1>2. IsList(<<>>) /\ Len(<<>>) = 0
  BY ApplyNone
<1>3. IsIndex(NewIndex)
  BY <1>2 DEF IsIndex, NewIndex, IndexFields
<1>4. Shelved(NewSubPool) = [d \in Direction |-> [t \in {} |-> 0]]
  <2>1. ASSUME NEW d \in Direction PROVE ShownStore(NewSubPool.dormant[d]) = [t \in {} |-> 0]
    BY DEF ShownStore, NewSubPool, NewStore, Ticks
  <2> QED
    BY <2>1 DEF Shelved
<1>5. Tracks(NewIndex, NewSubPool, <<>>)
  BY <1>2, <1>3, <1>4 DEF Tracks, NewIndex, NewSubPool
<1> QED
  BY <1>1, <1>2, <1>5 DEF IndexInv, Emptied

(* A sync keeps it.                                                        *)
LEMMA IndexSynced ==
  ASSUME IndexInv, NEW p \in Prices, SyncFed(p)
  PROVE  Tracks(idx', sp', pos') /\ Emptied(pos')
<1>1. /\ Owned(sp, pos) /\ SubPoolSound(sp) /\ Tracks(idx, sp, pos) /\ Emptied(pos)
      /\ p \in Nat
  BY MarketParameters DEF IndexInv, SharesInv, MoneyInv
<1>2. /\ SyncPool(sp, p).err = "Ok" /\ sp' = SyncPool(sp, p).sp /\ pos' = pos
      /\ idx' = ApplyAll(idx, SyncEvents(sp, sp', p))
  BY DEF SyncFed, Fed, Sync, Accept
<1>3. Reached(idx, SyncEvents(sp, sp', p), SyncPool(sp, p).sp, pos)
  BY <1>1, <1>2, SyncApplied
<1> QED
  BY <1>1, <1>2, <1>3 DEF Reached

(* An open keeps it.                                                       *)
LEMMA IndexOpened ==
  ASSUME IndexInv, NEW p \in Prices, NEW d \in Direction, NEW g \in Grosses, OpenFed(p, d, g)
  PROVE  Tracks(idx', sp', pos') /\ Emptied(pos')
<1> DEFINE r == OpenPosition(sp, p, d, g)
<1>1. /\ Owned(sp, pos) /\ SubPoolSound(sp) /\ Tracks(idx, sp, pos) /\ Emptied(pos)
      /\ p \in Nat /\ g \in Nat /\ IsList(pos)
  BY MarketParameters DEF IndexInv, SharesInv, MoneyInv, Owned, Listed
<1>2. /\ r.err = "Ok" /\ sp' = r.sp /\ pos' = Append(pos, r.pos)
      /\ idx' = ApplyAll(idx, SyncEvents(sp, sp', p)
                                \o <<PositionOpened(d, g - OpenFee(g), Last(pos'))>>)
  BY DEF OpenFed, Fed, Open, Opened, Accept
<1>3. /\ Len(pos') = Len(pos) + 1 /\ Len(pos) \in Nat
      /\ \A i \in 1 .. Len(pos) : pos'[i] = pos[i]
      /\ pos'[Len(pos) + 1] = r.pos
  <2> DEFINE q == r.pos
  <2>1. pos' = Append(pos, q)
    BY <1>2
  <2> HIDE DEF r, q
  <2>2. /\ Len(Append(pos, q)) = Len(pos) + 1 /\ Len(pos) \in Nat
        /\ \A i \in 1 .. Len(pos) : Append(pos, q)[i] = pos[i]
        /\ Append(pos, q)[Len(pos) + 1] = q
    BY <1>1, ListGrows
  <2> QED
    BY <2>1, <2>2 DEF q
<1>4. Last(pos') = r.pos
  BY <1>3 DEF Last
<1>5. Tracks(idx', sp', pos')
  <2>1. PICK log : log = SyncEvents(sp, r.sp, p) \o <<PositionOpened(d, g - OpenFee(g), r.pos)>>
    OBVIOUS
  <2>2. idx' = ApplyAll(idx, log)
    BY <1>2, <1>4, <2>1
  <2>3. Tracks(ApplyAll(idx, log), r.sp, Append(pos, r.pos))
    BY <1>1, <1>2, <2>1, OpenApplied
  <2> QED
    BY <1>2, <2>2, <2>3
<1>6. r.pos.status # "Closed"
  <2>1. r = OpenSynced(SyncPool(sp, p).sp, d, g)
    BY <1>2 DEF OpenPosition
  <2>2. CanOpen(SyncPool(sp, p).sp, d, g)
    BY <1>2, <2>1, OpenSyncedIs
  <2>3. PICK minted, notional, n : r.pos = NewPosition(d, minted, notional, n)
    BY <2>1, <2>2, OpenSyncedIs
  <2> QED
    BY <2>3 DEF NewPosition
<1> HIDE DEF r
<1> QED
  BY <1>1, <1>3, <1>5, <1>6 DEF Emptied

(* A departure keeps it.                                                   *)
LEMMA IndexParted ==
  ASSUME IndexInv, NEW p \in Prices, NEW i \in PosIds, NEW kind, NEW r,
         Parted(sp, pos, i, p, kind, r.sp, r.pos),
         sp' = r.sp, pos' = [pos EXCEPT ![i] = r.pos], Left(kind, i, p)
  PROVE  Tracks(idx', sp', pos') /\ Emptied(pos')
<1>1. /\ Owned(sp, pos) /\ SubPoolSound(sp) /\ Tracks(idx, sp, pos) /\ Emptied(pos)
      /\ p \in Nat /\ IsList(pos) /\ i \in 1 .. Len(pos)
  BY MarketParameters DEF IndexInv, SharesInv, MoneyInv, Owned, Listed, PosIds
<1>2. idx' = ApplyAll(idx, SyncEvents(sp, r.sp, p)
                             \o <<LeaveEvent(kind, i, Touch(sp, p, pos[i]))>>)
  BY DEF Left, Fed
<1>3. PICK log :
        log = SyncEvents(sp, r.sp, p) \o <<LeaveEvent(kind, i, Touch(sp, p, pos[i]))>>
  OBVIOUS
<1>4. PICK u, q : u = r.sp /\ q = r.pos
  OBVIOUS
<1>5. Tracks(ApplyAll(idx, log), u, [pos EXCEPT ![i] = q])
  BY <1>1, <1>3, <1>4, PartedApplied
<1>6. Tracks(idx', sp', pos')
  BY <1>2, <1>3, <1>4, <1>5
<1>7. Emptied(pos')
  <2>1. q.status = "Closed" => q.shares = 0 /\ q.recovery = 0
    BY <1>4 DEF Parted
  <2>2. pos = [j \in 1 .. Len(pos) |-> pos[j]] /\ Len(pos) \in Nat
    BY <1>1 DEF IsList
  <2>3. pos' = [j \in 1 .. Len(pos) |-> IF j = i THEN q ELSE pos[j]]
    BY <1>1, <1>4, <2>2
  <2>4. Len(pos') = Len(pos)
    <3>1. PICK f : f = pos'
      OBVIOUS
    <3>2. f = [j \in 1 .. Len(pos) |-> f[j]]
      BY <2>3, <3>1
    <3>3. Len(f) = Len(pos)
      BY <2>2, <3>2, FunctionIsList
    <3> QED
      BY <3>1, <3>3
  <2> QED
    BY <1>1, <2>1, <2>3, <2>4 DEF Emptied
<1> QED
  BY <1>6, <1>7

(* Closing, closing by force and claiming are departures.                  *)
LEMMA IndexLeft ==
  ASSUME IndexInv, NEW i \in PosIds, NEW p \in Prices,
         CloseFed(i, p) \/ ForceCloseFed(i, p) \/ ClaimFed(i, p)
  PROVE  Tracks(idx', sp', pos') /\ Emptied(pos')
<1>1. Owned(sp, pos) /\ Emptied(pos) /\ p \in Nat /\ i \in 1 .. Len(pos)
  BY MarketParameters DEF IndexInv, SharesInv, PosIds
<1>2. CASE CloseFed(i, p)
  <2>1. PICK r : r = ClosePosition(sp, p, pos[i])
    OBVIOUS
  <2>2. r.err = "Ok" /\ sp' = r.sp /\ pos' = [pos EXCEPT ![i] = r.pos] /\ Left("Closed", i, p)
    BY <1>2, <2>1 DEF CloseFed, Close, Settled, Accept
  <2>3. Parted(sp, pos, i, p, "Closed", r.sp, r.pos)
    BY <1>1, <2>1, <2>2, CloseParts
  <2> QED
    BY <2>2, <2>3, IndexParted
<1>3. CASE ForceCloseFed(i, p)
  <2>1. PICK r : r = ForceClosePosition(sp, p, pos[i])
    OBVIOUS
  <2>2. /\ r.err = "Ok" /\ sp' = r.sp /\ pos' = [pos EXCEPT ![i] = r.pos]
        /\ Left("ForceClosed", i, p)
    BY <1>3, <2>1 DEF ForceCloseFed, ForceClose, Settled, Accept
  <2>3. Parted(sp, pos, i, p, "ForceClosed", r.sp, r.pos)
    BY <1>1, <2>1, <2>2, ForceCloseParts
  <2> QED
    BY <2>2, <2>3, IndexParted
<1>4. CASE ClaimFed(i, p)
  <2>1. PICK r : r = ClaimRecovery(sp, p, pos[i])
    OBVIOUS
  <2>2. r.err = "Ok" /\ sp' = r.sp /\ pos' = [pos EXCEPT ![i] = r.pos] /\ Left("Claimed", i, p)
    BY <1>4, <2>1 DEF ClaimFed, Claim, Settled, Accept
  <2>3. pos[i].status = "Closed" => pos[i].shares = 0 /\ pos[i].recovery = 0
    BY <1>1 DEF Emptied
  <2>4. Parted(sp, pos, i, p, "Claimed", r.sp, r.pos)
    BY <1>1, <2>1, <2>2, <2>3, ClaimParts
  <2> QED
    BY <2>2, <2>4, IndexParted
<1> QED
  BY <1>2, <1>3, <1>4

(* Writing a bucket's backlog into it is no event: it shows the same.      *)
LEMMA IndexPreSynced ==
  ASSUME IndexInv, NEW d \in Direction, NEW t \in Ticks(sp.dormant[d]),
         PreSync(d, t), UNCHANGED idx
  PROVE  Tracks(idx', sp', pos')
<1> DEFINE st == sp.dormant[d]
           u == ApplyPending(st, {t})
           applied == [sp EXCEPT !.dormant[d] = ApplyPending(@, {t})]
<1>1. /\ PoolSound(sp) /\ Tracks(idx, sp, pos) /\ IsSubPool(sp) /\ StoreSound(st)
      /\ {t} \in SUBSET Ticks(st)
  BY DEF IndexInv, SharesInv, MoneyInv, PoolSound
<1>2. sp' = applied /\ pos' = pos /\ idx' = idx
  <2>1. /\ PreSyncBucket(sp, d, t).err = "Ok" /\ sp' = PreSyncBucket(sp, d, t).sp
        /\ pos' = pos /\ idx' = idx
    BY DEF PreSync, Accept
  <2>2. PreSyncBucket(sp, d, t) = Checked(applied)
    BY <2>1 DEF PreSyncBucket, Fail
  <2> HIDE DEF applied
  <2> QED
    BY <2>1, <2>2, CheckedSame
<1>3. ShownStore(u) = ShownStore(st)
  BY <1>1, CaughtUpShown
<1>4. SameGens(sp, applied) /\ applied.dormant = [sp.dormant EXCEPT ![d] = u]
  BY <1>1 DEF SameGens, IsSubPool, SubPoolFields
<1> HIDE DEF applied, u
<1>5. Shelved(applied) = Shelved(sp)
  BY <1>1, <1>3, <1>4 DEF Shelved, PoolSound
<1>6. SameViews(idx, idx) /\ idx.bucket = Shelved(applied)
  BY <1>1, <1>5, SameViewsSelf DEF Tracks
<1>7. Tracks(idx, applied, pos)
  BY <1>1, <1>4, <1>6, TracksSame
<1> QED
  BY <1>2, <1>7

(* Taking the dust out is no event either.                                 *)
LEMMA IndexHarvested ==
  ASSUME IndexInv, NEW d \in Direction, Harvest(d), UNCHANGED idx
  PROVE  Tracks(idx', sp', pos')
<1> DEFINE swept == [sp EXCEPT !.dust[d] = 0]
<1>1. Tracks(idx, sp, pos) /\ IsSubPool(sp)
  BY DEF IndexInv, SharesInv, MoneyInv, PoolSound
<1>2. sp' = swept /\ pos' = pos /\ idx' = idx
  BY CheckedSame DEF Harvest, Accept, HarvestDust
<1>3. SameGens(sp, swept) /\ swept.dormant = sp.dormant
  BY <1>1 DEF SameGens, IsSubPool, SubPoolFields
<1> HIDE DEF swept
<1>4. SameViews(idx, idx) /\ idx.bucket = Shelved(swept)
  BY <1>1, <1>3, SameViewsSelf DEF Tracks, Shelved
<1>5. Tracks(idx, swept, pos)
  BY <1>1, <1>3, <1>4, TracksSame
<1> QED
  BY <1>2, <1>5

(* Every step keeps it.                                                    *)
LEMMA IndexSteps == IndexInv /\ [IndexedNext]_indexedVars => IndexInv'
<1> SUFFICES ASSUME IndexInv, [IndexedNext]_indexedVars PROVE IndexInv'
  OBVIOUS
<1> DEFINE Goal == SharesInv' /\ Tracks(idx', sp', pos') /\ Emptied(pos')
<1>1. SharesInv /\ Tracks(idx, sp, pos) /\ Emptied(pos)
  BY DEF IndexInv
<1>2. ASSUME NEW p \in Prices, SyncFed(p) PROVE Goal
  BY <1>1, <1>2, SharesStep, IndexSynced DEF SyncFed, Next
<1>3. ASSUME NEW p \in Prices, NEW d \in Direction, NEW g \in Grosses, OpenFed(p, d, g)
      PROVE  Goal
  BY <1>1, <1>3, SharesStep, IndexOpened DEF OpenFed, Next
<1>4. ASSUME NEW i \in PosIds, NEW p \in Prices,
             CloseFed(i, p) \/ ForceCloseFed(i, p) \/ ClaimFed(i, p)
      PROVE  Goal
  BY <1>1, <1>4, SharesStep, IndexLeft DEF CloseFed, ForceCloseFed, ClaimFed, Next
<1>5. ASSUME NEW d \in Direction, NEW t \in Ticks(sp.dormant[d]), PreSync(d, t), UNCHANGED idx
      PROVE  Goal
  <2>1. pos' = pos
    BY <1>5 DEF PreSync
  <2> QED
    BY <1>1, <1>5, <2>1, SharesStep, IndexPreSynced DEF Next
<1>6. ASSUME NEW d \in Direction, Harvest(d), UNCHANGED idx PROVE Goal
  <2>1. pos' = pos
    BY <1>6 DEF Harvest
  <2> QED
    BY <1>1, <1>6, <2>1, SharesStep, IndexHarvested DEF Next
<1>7. ASSUME UNCHANGED indexedVars PROVE Goal
  <2>1. UNCHANGED vars /\ sp' = sp /\ pos' = pos /\ idx' = idx
    BY <1>7 DEF indexedVars, vars
  <2> QED
    BY <1>1, <2>1, SharesStep
<1>8. Goal
  <2> HIDE DEF Goal
  <2>1. ASSUME IndexedNext PROVE Goal
    BY <1>2, <1>3, <1>4, <1>5, <1>6, <2>1 DEF IndexedNext
  <2> QED
    BY <1>7, <2>1
<1> QED
  BY <1>8 DEF IndexInv

(* So it always holds.                                                     *)
LEMMA IndexIsInvariant == IndexedSpec => []IndexInv
<1> QED
  BY IndexStarts, IndexSteps, PTL DEF IndexedSpec

(* For any prices, deposits and parameters and after any calls:            *)
(* apply_event has never returned an error. Every event the engine         *)
(* emitted named a position, a bucket and a generation the index had, so   *)
(* the projection has stayed in step and is not stuck behind an event it   *)
(* refuses.                                                                *)
THEOREM IndexAcceptsEveryEvent == IndexedSpec => []IndexNeverErrs
<1>1. IndexInv => IndexNeverErrs
  BY DEF IndexInv, Tracks, IndexNeverErrs
<1> QED
  BY <1>1, IndexIsInvariant, PTL

-----------------------------------------------------------------------------
(***************************************************************************)
(* Sums. The index adds up what its views say, position by position; the   *)
(* chain adds up its buckets. Both are sums of one table, by rows and by   *)
(* columns.                                                                *)
(***************************************************************************)
(* A row of table f.                                                       *)
RowOf(f, i, R) == [t \in R |-> f[<<i, t>>]]

(* A column of it.                                                         *)
ColumnOf(f, t, S) == [i \in S |-> f[<<i, t>>]]

(* row and col are the sums of its rows and of its columns.                *)
AddsUp(f, S, R, row, col) ==
  /\ \A i \in S, t \in R : f[<<i, t>>] \in Nat
  /\ \A i \in S : row[i] = SumOver(RowOf(f, i, R), R)
  /\ \A t \in R : col[t] = SumOver(ColumnOf(f, t, S), S)

(* The rows and the columns of a table of amounts have the same sum.       *)
LEMMA SumsExchange ==
  ASSUME NEW S, IsFiniteSet(S), NEW R, IsFiniteSet(R), NEW f, NEW row, NEW col,
         AddsUp(f, S, R, row, col)
  PROVE  Amounts(row, S) /\ Amounts(col, R) /\ SumOver(row, S) = SumOver(col, R)
<1> DEFINE Row(i) == RowOf(f, i, R)
           Col(t) == ColumnOf(f, t, S)
           Part(T) == [i \in S |-> SumOver(Row(i), T)]
           G == {T \in SUBSET R : SumOver(Part(T), S) = SumOver(col, T)}
<1>1. /\ \A i \in S, t \in R : Row(i)[t] = f[<<i, t>>] /\ Col(t)[i] = f[<<i, t>>]
      /\ \A t \in R : col[t] = SumOver(Col(t), S)
      /\ \A i \in S : row[i] = SumOver(Row(i), R)
  BY DEF RowOf, ColumnOf, AddsUp
<1>2. /\ \A i \in S : Amounts(Row(i), R)
      /\ \A t \in R : Amounts(Col(t), S)
  BY DEF Amounts, RowOf, ColumnOf, AddsUp
<1> HIDE DEF Row, Col
<1>3. Amounts(col, R)
  BY <1>1, <1>2, SumNat DEF Amounts
<1>4. ASSUME NEW T \in SUBSET R
      PROVE  /\ IsFiniteSet(T) /\ Amounts(col, T)
             /\ \A i \in S : Amounts(Row(i), T) /\ Part(T)[i] = SumOver(Row(i), T)
             /\ Amounts(Part(T), S)
  <2>1. IsFiniteSet(T) /\ Amounts(col, T) /\ \A i \in S : Amounts(Row(i), T)
    BY <1>2, <1>3, FS_Subset DEF Amounts
  <2>2. \A i \in S : SumOver(Row(i), T) \in Nat
    BY <2>1, SumNat
  <2> QED
    BY <2>1, <2>2 DEF Amounts
<1>5. {} \in G
  <2>1. \A i \in S : Part({})[i] = 0
    BY SumEmpty
  <2>2. SumOver(Part({}), S) = 0 /\ SumOver(col, {}) = 0
    <3> HIDE DEF Part
    <3> QED
      BY <2>1, SumZero, SumEmpty
  <2> QED
    BY <2>2
<1>6. ASSUME NEW T \in SUBSET R, NEW t \in R \ T, T \in G PROVE T \cup {t} \in G
  <2> DEFINE U == T \cup {t}
  <2>1. U \in SUBSET R
    OBVIOUS
  <2>2. ASSUME NEW i \in S PROVE Part(U)[i] = Col(t)[i] + Part(T)[i]
    <3>1. SumOver(Row(i), U) = Row(i)[t] + SumOver(Row(i), T)
      BY <1>4, <2>1, SumAdd
    <3> QED
      BY <1>1, <3>1
  <2>3. SumOver(Part(U), S) = SumOver(Col(t), S) + SumOver(Part(T), S)
    <3>1. Amounts(Col(t), S) /\ Amounts(Part(T), S)
      BY <1>2, <1>4
    <3> HIDE DEF Part, U
    <3> QED
      BY <2>2, <3>1, SumPlus
  <2>4. SumOver(col, U) = col[t] + SumOver(col, T)
    BY <1>4, <2>1, SumAdd
  <2> HIDE DEF Part, U
  <2>5. SumOver(Part(T), S) = SumOver(col, T) /\ col[t] = SumOver(Col(t), S)
    BY <1>1, <1>6
  <2> QED
    BY <2>1, <2>3, <2>4, <2>5 DEF U
<1>7. R \in G
  <2> HIDE DEF G
  <2> QED
    BY <1>5, <1>6, SetInduction
<1>8. \A i \in S : row[i] = Part(R)[i]
  BY <1>1
<1>9. Amounts(Part(R), S)
  BY <1>4
<1> HIDE DEF Part
<1>10. SumOver(row, S) = SumOver(Part(R), S) /\ Amounts(row, S)
  BY <1>8, <1>9, SumSame DEF Amounts
<1> QED
  BY <1>3, <1>7, <1>10

(* All recovery shares of a store are held by positions.                   *)
LEMMA DormantTotal ==
  ASSUME NEW s, NEW P, Owned(s, P), NEW d \in Direction,
         NEW f, \A i \in 1 .. Len(P) :
                  f[i] = IF P[i].dir = d THEN Migrated(s, P[i]).recovery ELSE 0
  PROVE  SumOver(f, 1 .. Len(P)) = TotalRecoveryShares(s.dormant[d])
<1> DEFINE S == 1 .. Len(P)
           st == s.dormant[d]
           R == Ticks(st)
           g == [q \in S \X R |-> Weight(s, P[q[1]], InTick(d, q[2]))]
           held == [t \in R |-> HeldIn(st, t)]
<1>1. /\ StoreTyped(st) /\ IsFiniteSet(R) /\ IsFiniteSet(S) /\ R \subseteq Nat
      /\ Listed(s, P) /\ Backed(s, P) /\ Numbered(s)
  <2>1. StoreTyped(st)
    BY DEF Owned, Listed, PoolSound, StoreSound
  <2>2. IsFiniteSet(S)
    BY WeightsAmounts DEF Owned
  <2> QED
    BY <2>1, <2>2 DEF StoreTyped, Owned, Listed
<1>2. ASSUME NEW i \in S, NEW t \in R
      PROVE  g[<<i, t>>] = Weight(s, P[i], InTick(d, t)) /\ g[<<i, t>>] \in Nat
  <2>1. Weight(s, P[i], InTick(d, t)) \in Nat
    BY <1>1, WeightNat DEF Listed
  <2> QED
    BY <2>1
<1>3. ASSUME NEW i \in S PROVE f[i] = SumOver(RowOf(g, i, R), R)
  <2> DEFINE m == Migrated(s, P[i])
             h == RowOf(g, i, R)
  <2>1. \A t \in R : /\ h[t] = IF P[i].dir = d /\ m.tick = t THEN m.recovery ELSE 0
                     /\ h[t] \in Nat
    <3> TAKE t \in R
    <3>1. h[t] = Weight(s, P[i], InTick(d, t)) /\ h[t] \in Nat
      BY <1>2 DEF RowOf
    <3> QED
      BY <3>1 DEF Weight, InTick
  <2>2. /\ m.recovery \in Nat /\ m.dir = P[i].dir
        /\ m.recovery > 0 => m.tick \in Ticks(s.dormant[m.dir])
    <3>1. m.recovery > 0 => m.tick \in Ticks(s.dormant[m.dir])
      BY CanRedeemAll
    <3>2. Holding(m) /\ m.dir = P[i].dir
      BY ReadyPosition
    <3> QED
      BY <3>1, <3>2 DEF Holding
  <2> HIDE DEF m, h, g
  <2>3. CASE P[i].dir = d /\ m.recovery > 0
    <3>1. m.tick \in R
      BY <2>2, <2>3
    <3>2. Amounts(h, R)
      BY <2>1 DEF Amounts
    <3>3. SumOver(h, R) = h[m.tick] + SumOver(h, R \ {m.tick})
      BY <1>1, <3>1, <3>2, SumRemove
    <3>4. IsFiniteSet(R \ {m.tick}) /\ \A t \in R \ {m.tick} : h[t] = 0
      BY <1>1, <2>1, FS_Subset
    <3>5. SumOver(h, R \ {m.tick}) = 0
      BY <3>4, SumZero
    <3>6. f[i] = m.recovery
      BY <2>3 DEF m
    <3> QED
      BY <2>1, <2>2, <2>3, <3>1, <3>3, <3>5, <3>6 DEF h
  <2>4. CASE ~(P[i].dir = d /\ m.recovery > 0)
    <3>1. \A t \in R : h[t] = 0
      BY <2>1, <2>2, <2>4
    <3>2. SumOver(h, R) = 0
      BY <1>1, <3>1, SumZero
    <3>3. f[i] = 0
      BY <2>2, <2>4 DEF m
    <3> QED
      BY <3>2, <3>3 DEF h
  <2> QED
    BY <2>3, <2>4
<1>4. ASSUME NEW t \in R PROVE held[t] = SumOver(ColumnOf(g, t, S), S)
  <2> DEFINE a == InTick(d, t)
             w == ColumnOf(g, t, S)
  <2>1. a \in BookAccounts /\ a.kind = "bucket" /\ a.dir = d /\ a.tick = t
    BY <1>1 DEF InTick, BookAccounts
  <2>2. \A i \in S : w[i] = Weight(s, P[i], a)
    BY <1>2 DEF ColumnOf
  <2> HIDE DEF a, w, g
  <2>3. HeldIn(st, t) = SumOver(Weights(s, P, a), S)
    BY <1>1, <2>1 DEF Backed, OnBooks
  <2>4. Amounts(Weights(s, P, a), S) /\ \A i \in S : Weights(s, P, a)[i] = Weight(s, P[i], a)
    BY <1>1, WeightsAmounts
  <2> HIDE DEF S
  <2>5. SumOver(w, S) = SumOver(Weights(s, P, a), S)
    BY <1>1, <2>2, <2>4, SumSame
  <2> QED
    BY <2>3, <2>5 DEF w
<1>5. TotalRecoveryShares(st) = SumOver(held, R)
  BY <1>1, HeldSum
<1>6. \A i \in S, t \in R : g[<<i, t>>] \in Nat
  BY <1>2
<1> HIDE DEF g, held, S, R
<1>7. AddsUp(g, S, R, f, held)
  BY <1>3, <1>4, <1>6 DEF AddsUp
<1>8. SumOver(f, S) = SumOver(held, R)
  BY <1>1, <1>7, SumsExchange
<1> QED
  BY <1>5, <1>8 DEF S

(* What the index sums over its own views.                                 *)
Stated(x, S, field) == [i \in S |-> x.view[i][field]]

(* The views with recovery shares on side d.                               *)
DormantViews(x, d) ==
  {i \in Views(x) : ~x.view[i].closed /\ x.view[i].dir = d /\ x.view[i].recovery > 0}

(* What the index sums of its views' recovery shares is what the sub-pool  *)
(* counts.                                                                 *)
LEMMA DormantSharesMirrored ==
  ASSUME NEW s, NEW P, Owned(s, P), SubPoolSound(s), Emptied(P), NEW x, Tracks(x, s, P),
         NEW d \in Direction, NEW D, D = DormantViews(x, d)
  PROVE  TotalOf(x, D, "recovery") = s.recovery[d]
<1> DEFINE S == 1 .. Len(P)
           h == Stated(x, D, "recovery")
           f == [i \in S |-> IF P[i].dir = d THEN Migrated(s, P[i]).recovery ELSE 0]
<1>1. /\ Views(x) = S /\ IsFiniteSet(S)
      /\ \A i \in S : Stands(x.view[i], s, P[i])
  <2>1. IsFiniteSet(S)
    BY WeightsAmounts DEF Owned
  <2>2. IsIndex(x) /\ Len(x.view) = Len(P)
    BY DEF Tracks
  <2> QED
    BY <2>1, <2>2, ViewsAre DEF Tracks
<1>2. D \in SUBSET S
  BY <1>1 DEF DormantViews
<1>3. \A i \in D : h[i] = x.view[i].recovery
  BY DEF Stated
<1>4. ASSUME NEW i \in S
      PROVE  /\ f[i] = IF i \in D THEN h[i] ELSE 0
             /\ i \in D => h[i] \in Nat
  <2> DEFINE m == Migrated(s, P[i])
             v == x.view[i]
  <2>1. /\ Holding(P[i]) /\ Placed(s, P[i]) /\ m.recovery \in Nat /\ Numbered(s)
    BY ReadyPosition DEF Holding, Owned, Listed
  <2>2. Stands(v, s, P[i])
    BY <1>1
  <2>3. i \in D <=> ~v.closed /\ v.dir = d /\ v.recovery > 0
    BY <1>1 DEF DormantViews
  <2>4. CASE P[i].status = "Closed"
    <3>1. P[i].shares = 0 /\ P[i].recovery = 0
      BY <2>4 DEF Emptied
    <3>2. ~NeedsMigration(s, P[i])
      BY <3>1 DEF NeedsMigration
    <3>3. m.recovery = 0
      BY <2>1, <3>1, <3>2, MigratedFields
    <3>4. i \notin D
      BY <2>2, <2>3, <2>4 DEF Stands
    <3> QED
      BY <3>3, <3>4
  <2>5. CASE P[i].status # "Closed"
    <3>1. ~v.closed /\ v.dir = P[i].dir /\ v.recovery = m.recovery
      BY <2>2, <2>5 DEF Stands
    <3> HIDE DEF m, v, S
    <3>2. f[i] = IF P[i].dir = d THEN m.recovery ELSE 0
      BY DEF m
    <3>3. i \in D => h[i] = v.recovery
      BY <1>3 DEF v
    <3> HIDE DEF f, h
    <3> QED
      BY <2>1, <2>3, <3>1, <3>2, <3>3
  <2> QED
    BY <2>4, <2>5
<1>5. SumOver(f, S) = TotalRecoveryShares(s.dormant[d])
  BY DormantTotal
<1>6. SumOver(f, S) = SumOver(h, D)
  <2>1. Amounts(h, D)
    BY <1>2, <1>4 DEF Amounts
  <2> HIDE DEF f, h, S
  <2> QED
    BY <1>1, <1>2, <1>4, <2>1, SumOfPart
<1>7. TotalOf(x, D, "recovery") = SumOver(h, D)
  BY DEF TotalOf, Stated
<1>8. TotalRecoveryShares(s.dormant[d]) = s.recovery[d]
  BY DEF SubPoolSound
<1> QED
  BY <1>5, <1>6, <1>7, <1>8

(* What it sums of its holders' notional is what the sub-pool has in       *)
(* play.                                                                   *)
LEMMA NotionalMirrored ==
  ASSUME NEW s, NEW P, Owned(s, P), Emptied(P), NEW x, Tracks(x, s, P),
         NEW d \in Direction, NEW D, D = Holders(x, d)
  PROVE  TotalOf(x, D, "notional") = s.notional[d]
<1> DEFINE S == 1 .. Len(P)
           a == [kind |-> "notional", dir |-> d, tick |-> NoTick]
           h == Stated(x, D, "notional")
           f == Weights(s, P, a)
<1>1. /\ Views(x) = S /\ IsFiniteSet(S) /\ x.gen = s.gen
      /\ \A i \in S : Stands(x.view[i], s, P[i])
      /\ \A i \in S : f[i] = Weight(s, P[i], a)
  <2>1. IsFiniteSet(S) /\ \A i \in S : f[i] = Weight(s, P[i], a)
    BY WeightsAmounts DEF Owned
  <2>2. IsIndex(x) /\ Len(x.view) = Len(P)
    BY DEF Tracks
  <2> QED
    BY <2>1, <2>2, ViewsAre DEF Tracks
<1>2. D \in SUBSET S
  BY <1>1 DEF Holders
<1>3. \A i \in D : h[i] = x.view[i].notional
  BY DEF Stated
<1>4. /\ a \in BookAccounts /\ OnBooks(s, a) = s.notional[d] /\ a.dir = d
      /\ a.kind = "notional"
  BY DEF BookAccounts, OnBooks
<1> HIDE DEF a
<1>5. ASSUME NEW i \in S
      PROVE  /\ f[i] = IF i \in D THEN h[i] ELSE 0
             /\ i \in D => h[i] \in Nat
  <2> DEFINE m == Migrated(s, P[i])
             v == x.view[i]
  <2>1. /\ Holding(m) /\ m.dir = P[i].dir /\ ~NeedsMigration(s, m)
        /\ m.shares \in Nat /\ m.notional \in Nat
        /\ Weight(s, m, a) = Weight(s, P[i], a)
    <3>1. /\ Holding(m) /\ m.dir = P[i].dir /\ ~NeedsMigration(s, m)
          /\ \A b : Weight(s, m, b) = Weight(s, P[i], b)
      BY ReadyPosition
    <3> HIDE DEF m
    <3> QED
      BY <3>1 DEF Holding
  <2>2. f[i] = IF m.dir # d \/ m.shares = 0 THEN 0 ELSE m.notional
    BY <1>1, <1>4, <2>1 DEF Weight
  <2>3. Stands(v, s, P[i])
    BY <1>1
  <2>4. i \in D <=> ~v.closed /\ v.dir = d /\ v.shares > 0 /\ v.gen = s.gen[d]
    BY <1>1 DEF Holders
  <2>5. CASE P[i].status = "Closed"
    <3>1. P[i].shares = 0
      BY <2>5 DEF Emptied
    <3>2. m.shares = 0
      <4>1. ~NeedsMigration(s, P[i]) /\ Numbered(s) /\ Holding(P[i]) /\ Placed(s, P[i])
        BY <3>1, ReadyPosition DEF NeedsMigration, Owned, Listed
      <4> QED
        BY <3>1, <4>1, MigratedFields
    <3>3. i \notin D
      BY <2>3, <2>4, <2>5 DEF Stands
    <3> HIDE DEF m
    <3> QED
      BY <2>2, <3>2, <3>3
  <2>6. CASE P[i].status # "Closed"
    <3>1. /\ ~v.closed /\ v.dir = P[i].dir /\ v.shares = m.shares
          /\ v.shares > 0 => v.gen = s.gen[P[i].dir] /\ v.notional = m.notional
      BY <2>3, <2>6 DEF Stands
    <3>2. i \in D => h[i] = v.notional
      BY <1>3
    <3> HIDE DEF m, v, S, f, h
    <3> QED
      BY <2>1, <2>2, <2>4, <3>1, <3>2
  <2> QED
    BY <2>5, <2>6
<1>6. OnBooks(s, a) = SumOver(f, S)
  BY <1>4 DEF Owned, Backed
<1>7. SumOver(f, S) = SumOver(h, D)
  <2>1. Amounts(h, D)
    BY <1>2, <1>5 DEF Amounts
  <2> HIDE DEF f, h, S
  <2> QED
    BY <1>1, <1>2, <1>5, <2>1, SumOfPart
<1>8. TotalOf(x, D, "notional") = SumOver(h, D)
  BY DEF TotalOf, Stated
<1> QED
  BY <1>4, <1>6, <1>7, <1>8

(* Its buckets are the store's, and their credit is all the store's        *)
(* money.                                                                  *)
LEMMA AccruedMirrored ==
  ASSUME NEW s, PoolSound(s), NEW x, x.bucket = Shelved(s), NEW d \in Direction,
         NEW T, T = DOMAIN x.bucket[d]
  PROVE  /\ T = Ticks(s.dormant[d])
         /\ \A t \in T : x.bucket[d][t] = Shown(s.dormant[d], t)
         /\ SumOver([t \in T |-> x.bucket[d][t].accrued], T)
              = s.dormant[d].accruedTotal + s.dormant[d].pending
<1> DEFINE st == s.dormant[d]
           f == [t \in T |-> x.bucket[d][t].accrued]
<1>1. StoreSound(st) /\ x.bucket[d] = ShownStore(st)
  BY DEF PoolSound, Shelved
<1>2. T = Ticks(st) /\ \A t \in T : x.bucket[d][t] = Shown(st, t)
  BY <1>1 DEF ShownStore
<1>3. \A t \in T : f[t] = Promised(st, t)
  <2> TAKE t \in T
  <2>1. f[t] = x.bucket[d][t].accrued
    OBVIOUS
  <2>2. x.bucket[d][t].accrued = Shown(st, t).accrued
    BY <1>2
  <2>3. Shown(st, t).accrued = Promised(st, t)
    BY DEF Shown
  <2> HIDE DEF f
  <2> QED
    BY <2>1, <2>2, <2>3
<1> HIDE DEF f
<1>4. SumOver(f, T) = StoreMoney(st)
  BY <1>1, <1>2, <1>3, PromisesAreMoney
<1> QED
  BY <1>2, <1>4 DEF StoreMoney, f

(* So the inductive invariant gives what the index answers of each side.   *)
LEMMA InvGivesMirror == IndexInv => BucketsMirrored
<1> SUFFICES ASSUME IndexInv, NEW d \in Direction,
                    NEW stats, stats = SubPoolStats(idx, d)
             PROVE  /\ DOMAIN idx.bucket[d] = Ticks(sp.dormant[d])
                    /\ \A t \in Ticks(sp.dormant[d]) :
                         LET b == sp.dormant[d].bucket[t]
                         IN  idx.bucket[d][t] = [anchor |-> b.anchor, shares |-> b.shares,
                                                 notional |-> b.notional,
                                                 accrued |-> Entitled(sp, d, t)]
                    /\ stats.activeNotional = sp.notional[d]
                    /\ stats.dormantShares = sp.recovery[d]
                    /\ stats.dormantAccrued = sp.dormant[d].accruedTotal + sp.dormant[d].pending
                    /\ stats.gen = sp.gen[d]
  BY DEF BucketsMirrored
<1> DEFINE D == DormantViews(idx, d)
           H == Holders(idx, d)
           T == DOMAIN idx.bucket[d]
<1>1. /\ PoolSound(sp) /\ SubPoolSound(sp) /\ Owned(sp, pos)
      /\ Tracks(idx, sp, pos) /\ Emptied(pos)
      /\ idx.bucket = Shelved(sp) /\ idx.gen = sp.gen
  BY DEF IndexInv, SharesInv, MoneyInv, Tracks
<1>2. /\ stats.activeNotional = TotalOf(idx, H, "notional")
      /\ stats.dormantShares = TotalOf(idx, D, "recovery")
      /\ stats.dormantAccrued = SumOver([t \in T |-> idx.bucket[d][t].accrued], T)
      /\ stats.gen = idx.gen[d]
  BY DEF SubPoolStats, DormantViews
<1> HIDE DEF D, H, T
<1>3. TotalOf(idx, H, "notional") = sp.notional[d]
  BY <1>1, NotionalMirrored DEF H
<1>4. TotalOf(idx, D, "recovery") = sp.recovery[d]
  BY <1>1, DormantSharesMirrored DEF D
<1>5. /\ T = Ticks(sp.dormant[d])
      /\ \A t \in T : idx.bucket[d][t] = Shown(sp.dormant[d], t)
      /\ SumOver([t \in T |-> idx.bucket[d][t].accrued], T)
           = sp.dormant[d].accruedTotal + sp.dormant[d].pending
  BY <1>1, AccruedMirrored DEF T
<1>6. ASSUME NEW t \in Ticks(sp.dormant[d])
      PROVE  LET b == sp.dormant[d].bucket[t]
             IN  idx.bucket[d][t] = [anchor |-> b.anchor, shares |-> b.shares,
                                     notional |-> b.notional, accrued |-> Entitled(sp, d, t)]
  <2>1. Entitled(sp, d, t) = Promised(sp.dormant[d], t)
    BY <1>1, EntitledIsPromised
  <2> QED
    BY <1>5, <2>1 DEF Shown
<1> QED
  BY <1>1, <1>2, <1>3, <1>4, <1>5, <1>6 DEF T

(* For any prices, deposits and parameters and after any calls, what the   *)
(* index answers for each side is what the chain stores: the same buckets  *)
(* with the same anchor, shares and notional, each with the credit it is   *)
(* entitled to once its backlog is replayed; and the totals of             *)
(* sub_pool_stats are the sub-pool's own.                                  *)
THEOREM IndexMirrorsChain == IndexedSpec => []BucketsMirrored
<1> QED
  BY InvGivesMirror, IndexIsInvariant, PTL

=============================================================================
