------------------------ MODULE KeeperOnChain_proofs ------------------------
(***************************************************************************)
(* What holds of the program and of its keeper, whatever the prices, the   *)
(* deposits, the parameters and the number of positions and buckets, and   *)
(* whatever lists of bucket accounts the callers pass, provided that none  *)
(* names a dead account twice and that positions are opened at the price   *)
(* of the last sync (TimelySpec; the program enforces neither).            *)
(*                                                                         *)
(* The view.  An instruction sees a part of the buckets and an empty log   *)
(* of rotations.  The engine ends every call with a check that the buckets *)
(* it sees hold as many shares as the sub-pool says; no step of the engine *)
(* changes the difference (SameMissing), so a call that succeeds was given *)
(* every bucket that holds shares, and the log it lacks is one it never    *)
(* looks into (SameOutcome).  What an instruction does is therefore what   *)
(* the engine does to the whole sub-pool.                                  *)
(*                                                                         *)
(* The accounts.  A bucket account is named by a place, a bucket by its    *)
(* tick, and an account no longer in use takes in the next bucket that is  *)
(* made.  Holds says that the accounts hold a store; unpacking them gives  *)
(* it back, and packing the store the engine leaves keeps Holds, as a call *)
(* makes one bucket of a side at most and takes away only buckets that are *)
(* redeemed whole.  What is packed are copies, one for each place of the   *)
(* list; they go back to the accounts they were made from, and none of     *)
(* them overwrites another, as the list names no account twice: a dead one *)
(* by assumption, a live one because its tick would be there twice.        *)
(*                                                                         *)
(* The invariant.  ChainInv is Tidy, which is about the accounts alone,    *)
(* with Owned, the invariant of the market (ClearingCore_proofs), of the   *)
(* sub-pool the accounts stand for.  That the accounts always decode and   *)
(* that they implement the market follow from it.                          *)
(*                                                                         *)
(* The keeper.  BotInv adds that a snapshot has no bucket that is further  *)
(* than its ledger and that the plan names nothing but ticks of a side.    *)
(***************************************************************************)
EXTENDS KeeperOnChain, ClearingCore_proofs

-----------------------------------------------------------------------------
(* Shares, in a store that may hold a part of the buckets only.            *)

BucketFields == {"anchor", "shares", "notional", "accrued", "lastApplied"}

IsBucket(b) == b = [f \in BucketFields |-> b[f]]

(* What is left of StoreTyped when the amounts need not add up.            *)
Shaped(st) ==
  /\ st = [f \in StoreFields |-> st[f]]
  /\ st.bucket = [t \in Ticks(st) |-> st.bucket[t]]
  /\ IsFiniteSet(Ticks(st))
  /\ \A t \in Ticks(st) : IsBucket(st.bucket[t]) /\ st.bucket[t].shares \in Nat

Reshaped(st, u) == Shaped(u) /\ SameShares(st, u)

(* u holds n shares more than st, all of them in bucket t.                 *)
Gained(st, u, t, n) ==
  \A k : HeldIn(u, k) = HeldIn(st, k) + (IF k = t THEN n ELSE 0)

LEMMA ReshapedTrans ==
  ASSUME NEW st, NEW u, NEW v, Reshaped(st, u), Reshaped(u, v)
  PROVE  Reshaped(st, v)
BY DEF Reshaped, SameShares

LEMMA TypedShaped ==
  ASSUME NEW st, StoreTyped(st)
  PROVE  Shaped(st)
<1>1. \A b \in Bucket : IsBucket(b) /\ b.shares \in Nat
  BY DEF Bucket, IsBucket, BucketFields
<1> QED
  BY <1>1 DEF StoreTyped, Shaped

LEMMA ShapedHeld ==
  ASSUME NEW st, Shaped(st), NEW k
  PROVE  HeldIn(st, k) \in Nat
BY DEF Shaped, HeldIn

LEMMA ShapedSum ==
  ASSUME NEW st, Shaped(st), NEW T, IsFiniteSet(T), Ticks(st) \in SUBSET T,
         NEW f, \A k \in T : f[k] = HeldIn(st, k)
  PROVE  /\ TotalRecoveryShares(st) = SumOver(f, T) /\ Amounts(f, T)
         /\ TotalRecoveryShares(st) \in Nat
<1> DEFINE g == [t \in Ticks(st) |-> st.bucket[t].shares]
           R == Ticks(st)
<1>1. \A t \in R : st.bucket[t].shares \in Nat
  BY DEF Shaped
<1>2. Amounts(g, R) /\ \A k \in T : f[k] = IF k \in R THEN g[k] ELSE 0
  BY <1>1 DEF Amounts, HeldIn
<1>3. TotalRecoveryShares(st) = SumOver(g, R)
  BY DEF TotalRecoveryShares
<1> HIDE DEF g, R
<1>4. Amounts(f, T) /\ SumOver(f, T) = SumOver(g, R) /\ SumOver(g, R) \in Nat
  BY <1>2, SumOfPart DEF R
<1> QED
  BY <1>3, <1>4

LEMMA GainedTotal ==
  ASSUME NEW st, Shaped(st), NEW u, Shaped(u), NEW t, NEW n \in Nat, Gained(st, u, t, n)
  PROVE  /\ TotalRecoveryShares(st) \in Nat
         /\ TotalRecoveryShares(u) = TotalRecoveryShares(st) + n
<1> DEFINE T == Ticks(st) \cup Ticks(u) \cup {t}
           f == [k \in T |-> HeldIn(st, k)]
           g == [k \in T |-> HeldIn(u, k)]
           h == [k \in T |-> IF k = t THEN n ELSE 0]
           one == [k \in {t} |-> n]
<1>1. IsFiniteSet(Ticks(st)) /\ IsFiniteSet(Ticks(u))
  BY DEF Shaped
<1>2. /\ IsFiniteSet(T) /\ Ticks(st) \in SUBSET T /\ Ticks(u) \in SUBSET T
      /\ {t} \in SUBSET T
  <2>1. IsFiniteSet(Ticks(st) \cup Ticks(u)) /\ IsFiniteSet({t})
    BY <1>1, FS_Union, FS_Singleton
  <2> QED
    BY <2>1, FS_Union
<1>3. \A k \in T : HeldIn(u, k) = HeldIn(st, k) + (IF k = t THEN n ELSE 0)
  BY DEF Gained
<1>4. /\ \A k \in T : /\ f[k] = HeldIn(st, k) /\ g[k] = HeldIn(u, k)
                      /\ h[k] = IF k \in {t} THEN one[k] ELSE 0
                      /\ g[k] = f[k] + h[k]
      /\ Amounts(one, {t}) /\ one[t] = n
  BY <1>3 DEF Amounts
<1> HIDE DEF T, f, g, h, one
<1>5. /\ TotalRecoveryShares(st) = SumOver(f, T) /\ Amounts(f, T)
      /\ TotalRecoveryShares(st) \in Nat
  BY <1>2, <1>4, ShapedSum
<1>6. TotalRecoveryShares(u) = SumOver(g, T)
  BY <1>2, <1>4, ShapedSum
<1>7. SumOver(h, T) = n /\ Amounts(h, T)
  <2>1. Amounts(h, T) /\ SumOver(h, T) = SumOver(one, {t})
    BY <1>2, <1>4, SumOfPart
  <2>2. SumOver(one, {}) = 0 /\ IsFiniteSet({}) /\ {} \cup {t} = {t} /\ t \notin {}
    BY SumEmpty, FS_EmptySet
  <2>3. Amounts(one, {} \cup {t})
    BY <1>4, <2>2
  <2>4. SumOver(one, {} \cup {t}) = one[t] + SumOver(one, {})
    BY <2>2, <2>3, SumAdd
  <2> QED
    BY <1>4, <2>1, <2>2, <2>4
<1>8. SumOver(g, T) = SumOver(f, T) + SumOver(h, T)
  BY <1>2, <1>4, <1>5, <1>7, SumPlus
<1> QED
  BY <1>5, <1>6, <1>7, <1>8

LEMMA ApplyReshapes ==
  ASSUME NEW st, Shaped(st), NEW T
  PROVE  /\ Reshaped(st, ApplyPending(st, T))
         /\ ApplyPending(st, T).ledger = st.ledger
<1> DEFINE caught(b) == [b EXCEPT !.accrued = Replayed(st, b), !.lastApplied = NextEventIndex(st)]
           B == [t \in Ticks(st) |-> IF t \in T THEN caught(st.bucket[t]) ELSE st.bucket[t]]
           u == ApplyPending(st, T)
           c == SumOver([t \in T |-> PendingForBucket(st, t)], T)
<1>1. u = [st EXCEPT !.bucket = B, !.accruedTotal = @ + c, !.pending = Monus(@, c)]
  BY DEF ApplyPending
<1> HIDE DEF u, c
<1>2. u = [f \in StoreFields |-> u[f]] /\ u.bucket = B /\ u.ledger = st.ledger
  <2> HIDE DEF B
  <2> QED
    BY <1>1 DEF Shaped, StoreFields
<1>3. ASSUME NEW b, IsBucket(b) PROVE IsBucket(caught(b)) /\ caught(b).shares = b.shares
  <2> DEFINE v == Replayed(st, b)
             n == NextEventIndex(st)
  <2> HIDE DEF v, n
  <2>1. IsBucket([b EXCEPT !.accrued = v, !.lastApplied = n])
        /\ [b EXCEPT !.accrued = v, !.lastApplied = n].shares = b.shares
    BY <1>3 DEF IsBucket, BucketFields
  <2> QED
    BY <2>1 DEF v, n
<1>4. Ticks(u) = Ticks(st)
  BY <1>2 DEF Ticks
<1>5. ASSUME NEW t \in Ticks(st)
      PROVE IsBucket(u.bucket[t]) /\ u.bucket[t].shares = st.bucket[t].shares
  <2>1. u.bucket[t] = IF t \in T THEN caught(st.bucket[t]) ELSE st.bucket[t]
    BY <1>2
  <2>2. IsBucket(st.bucket[t])
    BY DEF Shaped
  <2> QED
    BY <1>3, <2>1, <2>2
<1> QED
  BY <1>2, <1>4, <1>5 DEF Reshaped, SameShares, Shaped, u

LEMMA RoomReshapes ==
  ASSUME NEW st, Shaped(st)
  PROVE  Reshaped(st, WithRoom(st))
<1>1. \A l, g : Reshaped(st, [st EXCEPT !.ledger = l, !.gcOffset = g])
  <2> TAKE l, g
  <2> DEFINE u == [st EXCEPT !.ledger = l, !.gcOffset = g]
  <2>1. u = [f \in StoreFields |-> u[f]] /\ u.bucket = st.bucket
    BY DEF Shaped, StoreFields
  <2> HIDE DEF u
  <2>2. Reshaped(st, u)
    BY <2>1 DEF Reshaped, Shaped, SameShares, Ticks
  <2> QED
    BY <2>2 DEF u
<1>2. Reshaped(st, st)
  BY DEF Reshaped, SameShares
<1> QED
  BY <1>1, <1>2 DEF WithRoom, CompactLedger

LEMMA DistributeReshapes ==
  ASSUME NEW st, Shaped(st), NEW p, NEW alloc
  PROVE  Reshaped(st, Distribute(st, p, alloc))
<1> DEFINE s == Split(st, p, alloc)
           r == s.ready
           lazy == DistributeLazy(st, p, alloc)
           eager == DistributeEager(st, p, alloc)
<1>1. Reshaped(st, r)
  <2>1. r = ApplyPending(WithRoom(st), ActivatedTicks(st, p))
    BY DEF Split, CaughtUp
  <2>2. Reshaped(st, WithRoom(st)) /\ Shaped(WithRoom(st))
    BY RoomReshapes DEF Reshaped
  <2>3. Reshaped(WithRoom(st), ApplyPending(WithRoom(st), ActivatedTicks(st, p)))
    BY <2>2, ApplyReshapes
  <2> QED
    BY <2>1, <2>2, <2>3, ReshapedTrans
<1>2. Shaped(r) /\ Ticks(r) = Ticks(st)
  BY <1>1 DEF Reshaped, SameShares
<1>3. Reshaped(st, lazy)
  <2>1. lazy = IF s.total = 0 THEN r
               ELSE [r EXCEPT !.pending = @ + s.allocated,
                              !.ledger = Append(@, NewEntry(p, alloc, s))]
    BY DEF DistributeLazy
  <2> HIDE DEF s, r, lazy
  <2>2. lazy = [f \in StoreFields |-> lazy[f]] /\ lazy.bucket = r.bucket
    BY <1>2, <2>1 DEF Shaped, StoreFields
  <2> QED
    BY <1>1, <1>2, <2>2 DEF Reshaped, Shaped, SameShares, Ticks
<1>4. Reshaped(st, eager)
  <2>1. CASE s.total = 0
    BY <1>1, <2>1 DEF DistributeEager
  <2>2. CASE s.total # 0
    <3> DEFINE n == NextEventIndex(r) + 1
               B == [t \in Ticks(st) |->
                       IF t \in s.active THEN Credited(r.bucket[t], s.share[t], n)
                       ELSE r.bucket[t]]
    <3>1. eager = [r EXCEPT !.bucket = B, !.accruedTotal = @ + s.allocated,
                            !.ledger = Append(@, NewEntry(p, alloc, s))]
      BY <2>2 DEF DistributeEager
    <3> HIDE DEF s, r, eager, n
    <3>2. eager = [f \in StoreFields |-> eager[f]] /\ eager.bucket = B
      <4> HIDE DEF B
      <4> QED
        BY <1>2, <3>1 DEF Shaped, StoreFields
    <3>3. Ticks(eager) = Ticks(st) /\ \A t \in Ticks(st) : eager.bucket[t] = B[t]
      BY <3>2 DEF Ticks
    <3>4. ASSUME NEW t \in Ticks(st) PROVE IsBucket(B[t]) /\ B[t].shares = r.bucket[t].shares
      <4>1. IsBucket(r.bucket[t])
        BY <1>2 DEF Shaped
      <4>2. \A b : IsBucket(b) =>
              \A x, y : IsBucket(Credited(b, x, y)) /\ Credited(b, x, y).shares = b.shares
        BY DEF Credited, IsBucket, BucketFields
      <4> QED
        BY <4>1, <4>2
    <3>5. eager.bucket = [t \in Ticks(eager) |-> eager.bucket[t]]
      BY <3>2 DEF Ticks
    <3> QED
      BY <1>1, <1>2, <3>2, <3>3, <3>4, <3>5 DEF Reshaped, Shaped, SameShares
  <2> QED
    BY <2>1, <2>2
<1> QED
  BY <1>3, <1>4 DEF Distribute

LEMMA InsertGains ==
  ASSUME NEW st, Shaped(st), NEW t, NEW anchor, NEW shares \in Nat, NEW notional
  PROVE  /\ Shaped(InsertOrMerge(st, t, anchor, shares, notional))
         /\ Gained(st, InsertOrMerge(st, t, anchor, shares, notional), t, shares)
<1> DEFINE u == InsertOrMerge(st, t, anchor, shares, notional)
<1>1. CASE t \in Ticks(st)
  <2> DEFINE v == ApplyPending(st, {t})
             b == [v.bucket[t] EXCEPT !.shares = @ + shares, !.notional = @ + notional]
  <2>1. u = [v EXCEPT !.bucket[t].shares = @ + shares, !.bucket[t].notional = @ + notional]
    BY <1>1 DEF InsertOrMerge
  <2>2. Shaped(v) /\ SameShares(st, v) /\ Ticks(v) = Ticks(st)
    BY ApplyReshapes DEF Reshaped, SameShares
  <2> HIDE DEF u, v
  <2>3. u = [f \in StoreFields |-> u[f]] /\ u.bucket = [v.bucket EXCEPT ![t] = b]
    <3> DEFINE w == v.bucket
    <3>1. v = [f \in StoreFields |-> v[f]]
      BY <2>2 DEF Shaped
    <3>2. u = [v EXCEPT !.bucket = [[w EXCEPT ![t].shares = @ + shares]
                                    EXCEPT ![t].notional = @ + notional]]
      BY ZenonT(30), <2>1, <3>1 DEF StoreFields
    <3>3. [[w EXCEPT ![t].shares = @ + shares] EXCEPT ![t].notional = @ + notional]
          = [w EXCEPT ![t] = b]
      BY <1>1, <2>2 DEF Shaped, Ticks
    <3> HIDE DEF w, b
    <3>4. u = [v EXCEPT !.bucket = [w EXCEPT ![t] = b]]
      BY <3>2, <3>3
    <3> QED
      BY <3>1, <3>4 DEF StoreFields, w
  <2>4. IsBucket(b) /\ b.shares = st.bucket[t].shares + shares /\ b.shares \in Nat
    <3>1. IsBucket(v.bucket[t]) /\ v.bucket[t].shares \in Nat /\ v.bucket[t].shares = st.bucket[t].shares
      BY <1>1, <2>2 DEF Shaped, SameShares
    <3> DEFINE m == v.bucket[t].notional + notional
               n == v.bucket[t].shares + shares
    <3>2. b = [v.bucket[t] EXCEPT !.shares = n, !.notional = m]
      BY <3>1 DEF IsBucket, BucketFields
    <3>3. n \in Nat /\ n = st.bucket[t].shares + shares
      BY <3>1
    <3> HIDE DEF m, n, b
    <3>4. IsBucket(b) /\ b.shares = n
      BY <3>1, <3>2 DEF IsBucket, BucketFields
    <3> QED
      BY <3>3, <3>4
  <2> HIDE DEF b
  <2>5. /\ Ticks(u) = Ticks(st) /\ u.bucket[t] = b /\ \A x \in Ticks(st) \ {t} : u.bucket[x] = v.bucket[x]
        /\ u.bucket = [x \in Ticks(u) |-> u.bucket[x]]
    BY <1>1, <2>2, <2>3 DEF Ticks, Shaped
  <2>6. Shaped(u)
    BY <2>2, <2>3, <2>4, <2>5 DEF Shaped
  <2>7. Gained(st, u, t, shares)
    <3>1. ASSUME NEW k PROVE HeldIn(u, k) = HeldIn(st, k) + (IF k = t THEN shares ELSE 0)
      <4>1. HeldIn(st, k) \in Nat
        BY ShapedHeld
      <4> QED
        BY <1>1, <2>2, <2>4, <2>5, <4>1 DEF HeldIn, SameShares
    <3> QED
      BY <3>1 DEF Gained
  <2> QED
    BY <2>6, <2>7 DEF u
<1>2. CASE t \notin Ticks(st)
  <2> DEFINE fresh == [anchor |-> anchor, shares |-> shares, notional |-> notional,
                       accrued |-> 0, lastApplied |-> NextEventIndex(st)]
             B == [x \in Ticks(st) \cup {t} |-> IF x = t THEN fresh ELSE st.bucket[x]]
  <2>1. u = [st EXCEPT !.bucket = B]
    BY <1>2 DEF InsertOrMerge
  <2>2. IsBucket(fresh) /\ fresh.shares = shares
    BY DEF IsBucket, BucketFields
  <2> HIDE DEF u, fresh
  <2>3. u = [f \in StoreFields |-> u[f]] /\ u.bucket = B
    <3> HIDE DEF B
    <3> QED
      BY <2>1 DEF Shaped, StoreFields
  <2>4. /\ Ticks(u) = Ticks(st) \cup {t} /\ u.bucket[t] = fresh
        /\ \A x \in Ticks(st) : u.bucket[x] = st.bucket[x]
        /\ u.bucket = [x \in Ticks(u) |-> u.bucket[x]]
    BY <1>2, <2>3 DEF Ticks
  <2>5. IsFiniteSet(Ticks(u))
    <3>1. IsFiniteSet(Ticks(st)) /\ IsFiniteSet({t})
      BY FS_Singleton DEF Shaped
    <3> QED
      BY <2>4, <3>1, FS_Union
  <2> HIDE DEF B
  <2>6. Shaped(u)
    BY <2>2, <2>3, <2>4, <2>5 DEF Shaped
  <2>7. Gained(st, u, t, shares)
    <3>1. ASSUME NEW k PROVE HeldIn(u, k) = HeldIn(st, k) + (IF k = t THEN shares ELSE 0)
      <4>1. HeldIn(st, k) \in Nat
        BY ShapedHeld
      <4> QED
        BY <1>2, <2>2, <2>4, <4>1 DEF HeldIn
    <3> QED
      BY <3>1 DEF Gained
  <2> QED
    BY <2>6, <2>7 DEF u
<1> QED
  BY <1>1, <1>2

(* A sub-pool some of whose buckets may be missing.                        *)
Partial(s) ==
  /\ IsSubPool(s)
  /\ s.shares \in [Direction -> Nat]
  /\ s.recovery \in [Direction -> Int]
  /\ s.dormant = [d \in Direction |-> s.dormant[d]]
  /\ \A d \in Direction : Shaped(s.dormant[d])

(* The recovery shares that no bucket holds.                               *)
Missing(s, d) == s.recovery[d] - TotalRecoveryShares(s.dormant[d])

SameMissing(s, u) == \A d \in Direction : Missing(u, d) = Missing(s, d)

LEMMA ShapedTotal ==
  ASSUME NEW st, Shaped(st)
  PROVE  TotalRecoveryShares(st) \in Nat
<1> DEFINE f == [k \in Ticks(st) |-> HeldIn(st, k)]
<1>1. \A k \in Ticks(st) : f[k] = HeldIn(st, k)
  OBVIOUS
<1> HIDE DEF f
<1> QED
  BY <1>1, ShapedSum DEF Shaped

LEMMA SettleMisses ==
  ASSUME NEW s, Partial(s), NEW w \in Direction, NEW p, Settle(s, w, p).err = "Ok"
  PROVE  Partial(Settle(s, w, p).sp) /\ SameMissing(s, Settle(s, w, p).sp)
<1> PICK t : t = Settle(s, w, p).sp
  OBVIOUS
<1>1. IsSubPool(s)
  BY DEF Partial
<1>2. /\ IsSubPool(t)
      /\ t.shares = s.shares /\ t.recovery = s.recovery
      /\ \/ t.dormant = s.dormant
         \/ \E n : t.dormant = [s.dormant EXCEPT ![w] = Distribute(@, p, n)]
  BY <1>1, SettleForm
<1>3. CASE t.dormant = s.dormant
  <2>1. Partial(t) /\ SameMissing(s, t)
    BY <1>2, <1>3 DEF Partial, SameMissing, Missing
  <2> QED
    BY <2>1
<1>4. ASSUME NEW n, t.dormant = [s.dormant EXCEPT ![w] = Distribute(@, p, n)]
      PROVE  Partial(t) /\ SameMissing(s, t)
  <2>1. PICK u : u = Distribute(s.dormant[w], p, n)
    OBVIOUS
  <2>2. Shaped(s.dormant[w])
    BY DEF Partial
  <2>3. Shaped(u) /\ TotalRecoveryShares(u) = TotalRecoveryShares(s.dormant[w])
    BY <2>1, <2>2, DistributeReshapes, SameSharesTotal DEF Reshaped
  <2>4. /\ t.dormant[w] = u
        /\ \A d \in Direction \ {w} : t.dormant[d] = s.dormant[d]
        /\ t.dormant = [d \in Direction |-> t.dormant[d]]
    BY <1>4, <2>1 DEF Partial
  <2>5. Partial(t)
    BY <1>2, <2>3, <2>4 DEF Partial
  <2>6. ASSUME NEW d \in Direction PROVE Missing(t, d) = Missing(s, d)
    BY <1>2, <2>3, <2>4 DEF Missing
  <2> QED
    BY <2>5, <2>6 DEF SameMissing
<1> QED
  BY <1>2, <1>3, <1>4

LEMMA RotateMisses ==
  ASSUME NEW s, Partial(s), NEW d \in Direction, NEW p, Rotate(s, d, p).err = "Ok"
  PROVE  Partial(Rotate(s, d, p).sp) /\ SameMissing(s, Rotate(s, d, p).sp)
<1> DEFINE st == s.dormant[d]
<1> PICK t : t = Rotate(s, d, p).sp
  OBVIOUS
<1>1. IsSubPool(s)
  BY DEF Partial
<1>2. CASE t = s
  BY <1>2 DEF SameMissing
<1>3. CASE t # s
  <2>1. PICK u : u = InsertOrMerge(st, BucketTickOf(p), p, s.shares[d], s.notional[d])
    OBVIOUS
  <2>2. /\ IsSubPool(t)
        /\ t.shares = [s.shares EXCEPT ![d] = 0]
        /\ t.recovery = [s.recovery EXCEPT ![d] = @ + s.shares[d]]
        /\ t.dormant = [s.dormant EXCEPT ![d] = u]
    <3>1. RotatesTo(s, d, p, t)
      BY <1>1, <1>3, RotateForm
    <3> QED
      BY <2>1, <3>1 DEF RotatesTo
  <2>3. Shaped(st) /\ s.shares[d] \in Nat
    BY DEF Partial
  <2>4. Shaped(u) /\ Gained(st, u, BucketTickOf(p), s.shares[d])
    BY <2>1, <2>3, InsertGains
  <2>5. /\ TotalRecoveryShares(st) \in Nat
        /\ TotalRecoveryShares(u) = TotalRecoveryShares(st) + s.shares[d]
    BY <2>3, <2>4, GainedTotal
  <2>6. /\ t.dormant[d] = u
        /\ \A e \in Direction \ {d} : t.dormant[e] = s.dormant[e] /\ t.recovery[e] = s.recovery[e]
        /\ t.dormant = [e \in Direction |-> t.dormant[e]]
        /\ t.recovery[d] = s.recovery[d] + s.shares[d]
        /\ t.shares \in [Direction -> Nat]
        /\ t.recovery \in [Direction -> Int]
        /\ s.recovery[d] \in Int
    BY <2>2 DEF Partial
  <2>7. Partial(t)
    BY <2>2, <2>4, <2>6 DEF Partial
  <2>8. ASSUME NEW e \in Direction PROVE Missing(t, e) = Missing(s, e)
    <3>1. CASE e = d
      BY <2>3, <2>5, <2>6, <3>1 DEF Missing
    <3>2. CASE e # d
      BY <2>6, <3>2 DEF Missing
    <3> QED
      BY <3>1, <3>2
  <2> QED
    BY <2>7, <2>8 DEF SameMissing
<1> QED
  BY <1>2, <1>3

LEMMA RepricedMisses ==
  ASSUME NEW s, Partial(s), NEW p
  PROVE  Partial([s EXCEPT !.lastPrice = p]) /\ SameMissing(s, [s EXCEPT !.lastPrice = p])
<1> DEFINE t == [s EXCEPT !.lastPrice = p]
<1>1. /\ IsSubPool(t) /\ t.shares = s.shares /\ t.recovery = s.recovery /\ t.dormant = s.dormant
  BY DEF Partial, IsSubPool, SubPoolFields
<1> HIDE DEF t
<1>2. Partial(t) /\ SameMissing(s, t)
  BY <1>1 DEF Partial, SameMissing, Missing
<1> QED
  BY <1>2 DEF t

LEMMA SyncMisses ==
  ASSUME NEW s, Partial(s), NEW p, SyncPool(s, p).err = "Ok"
  PROVE  Partial(SyncPool(s, p).sp) /\ SameMissing(s, SyncPool(s, p).sp)
<1>1. CASE s.lastPrice \in {0, p}
  <2>1. SyncPool(s, p) = Checked([s EXCEPT !.lastPrice = p])
    BY <1>1 DEF SyncPool
  <2>2. SyncPool(s, p).sp = [s EXCEPT !.lastPrice = p]
    BY <2>1, CheckedSame
  <2> QED
    BY <2>2, RepricedMisses
<1>2. CASE s.lastPrice \notin {0, p}
  <2>1. PICK settled : settled = Settle(s, Winner(s, p), p)
    OBVIOUS
  <2>2. PICK priced : priced = [settled.sp EXCEPT !.lastPrice = p]
    OBVIOUS
  <2>3. PICK long : long = Rotate(priced, "Long", p)
    OBVIOUS
  <2>4. PICK both : both = Rotate(long.sp, "Short", p)
    OBVIOUS
  <2>5. /\ Winner(s, p) \in Direction /\ "Long" \in Direction /\ "Short" \in Direction
        /\ settled.err = "Ok" /\ long.err = "Ok" /\ both.err = "Ok"
        /\ SyncPool(s, p).sp = both.sp
    BY <1>2, <2>1, <2>2, <2>3, <2>4, SyncForm
  <2>6. Partial(settled.sp) /\ SameMissing(s, settled.sp)
    BY <2>1, <2>5, SettleMisses
  <2>7. Partial(priced) /\ SameMissing(settled.sp, priced)
    BY <2>2, <2>6, RepricedMisses
  <2>8. Partial(long.sp) /\ SameMissing(priced, long.sp)
    BY <2>3, <2>5, <2>7, RotateMisses
  <2>9. Partial(both.sp) /\ SameMissing(long.sp, both.sp)
    BY <2>4, <2>5, <2>8, RotateMisses
  <2> QED
    BY <2>5, <2>6, <2>7, <2>8, <2>9 DEF SameMissing
<1> QED
  BY <1>1, <1>2

(* Nothing is missing: every bucket that holds shares is there.            *)
AllThere(s) == \A d \in Direction : TotalRecoveryShares(s.dormant[d]) = s.recovery[d]

LEMMA NoneMissing ==
  ASSUME NEW s, Partial(s), NEW u, SameMissing(s, u), SubPoolSound(u),
         \A d \in Direction : u.recovery[d] \in Int
  PROVE  AllThere(s)
<1> SUFFICES ASSUME NEW d \in Direction
             PROVE  TotalRecoveryShares(s.dormant[d]) = s.recovery[d]
  BY DEF AllThere
<1>1. TotalRecoveryShares(u.dormant[d]) = u.recovery[d] /\ u.recovery[d] \in Int
  BY DEF SubPoolSound
<1>2. Missing(u, d) = 0
  BY <1>1 DEF Missing
<1>3. Missing(s, d) = 0
  BY <1>2 DEF SameMissing
<1>4. s.recovery[d] \in Int /\ TotalRecoveryShares(s.dormant[d]) \in Nat
  BY ShapedTotal DEF Partial
<1> QED
  BY <1>3, <1>4 DEF Missing

(* The program's own check of the totals, made at the end of every call    *)
(* that takes bucket accounts, therefore holds at its beginning.           *)
LEMMA SyncNeedsAll ==
  ASSUME NEW s, Partial(s), NEW p, SyncPool(s, p).err = "Ok"
  PROVE  AllThere(s)
<1> PICK r : r = SyncPool(s, p)
  OBVIOUS
<1>1. Partial(r.sp) /\ SameMissing(s, r.sp)
  BY SyncMisses
<1>2. \A d \in Direction : r.sp.recovery[d] \in Int
  BY <1>1 DEF Partial
<1>3. SubPoolSound(r.sp)
  <2>1. CASE s.lastPrice \in {0, p}
    BY <2>1, CheckedOk DEF SyncPool
  <2>2. CASE s.lastPrice \notin {0, p}
    <3>1. r = Checked(RotateBoth([Settle(s, Winner(s, p), p).sp EXCEPT !.lastPrice = p], p).sp)
      BY <2>2 DEF SyncPool, Fail
    <3> QED
      BY <3>1, CheckedOk
  <2> QED
    BY <2>1, <2>2
<1> QED
  BY <1>1, <1>2, <1>3, NoneMissing

LEMMA LeaverNeedsAll ==
  ASSUME NEW s, Partial(s), NEW p, NEW q, Touch(s, p, q).err = "Ok"
  PROVE  AllThere(s)
<1>1. SyncPool(s, p).err = "Ok"
  BY DEF Touch
<1> QED
  BY <1>1, SyncNeedsAll

LEMMA PreSyncNeedsAll ==
  ASSUME NEW s, Partial(s), NEW d \in Direction, NEW t, PreSyncBucket(s, d, t).err = "Ok"
  PROVE  AllThere(s)
<1> DEFINE st == s.dormant[d]
<1> PICK r : r = PreSyncBucket(s, d, t)
  OBVIOUS
<1> PICK u : u = ApplyPending(st, {t})
  OBVIOUS
<1> DEFINE applied == [s EXCEPT !.dormant[d] = u]
<1>1. r = Checked(applied)
  BY DEF PreSyncBucket, Fail
<1>2. Reshaped(st, u)
  BY ApplyReshapes DEF Partial
<1>3. applied.recovery = s.recovery /\ applied.dormant = [s.dormant EXCEPT ![d] = u]
  BY DEF Partial, IsSubPool, SubPoolFields
<1> HIDE DEF applied
<1>4. r.sp = applied /\ SubPoolSound(r.sp)
  BY <1>1, CheckedOk, CheckedSame
<1>5. ASSUME NEW e \in Direction PROVE Missing(r.sp, e) = Missing(s, e)
  <2>1. TotalRecoveryShares(u) = TotalRecoveryShares(st)
    BY <1>2, SameSharesTotal DEF Reshaped
  <2>2. r.sp.dormant[e] = IF e = d THEN u ELSE s.dormant[e]
    BY <1>3, <1>4 DEF Partial
  <2> QED
    BY <1>3, <1>4, <2>1, <2>2 DEF Missing
<1>6. \A e \in Direction : r.sp.recovery[e] \in Int
  BY <1>3, <1>4 DEF Partial
<1> QED
  BY <1>4, <1>5, <1>6, NoneMissing DEF SameMissing

(* A part of a side's buckets that holds all of its shares is the whole.   *)
LEMMA WholeStore ==
  ASSUME NEW st, Shaped(st), NEW all, Shaped(all),
         Ticks(st) \subseteq Ticks(all),
         \A t \in Ticks(st) : st.bucket[t] = all.bucket[t],
         \A t \in Ticks(all) : all.bucket[t].shares > 0,
         TotalRecoveryShares(st) = TotalRecoveryShares(all)
  PROVE  Ticks(st) = Ticks(all) /\ st.bucket = all.bucket
<1> DEFINE T == Ticks(all)
           R == Ticks(st)
           f == [k \in T |-> HeldIn(all, k)]
<1>1. IsFiniteSet(T) /\ R \in SUBSET T /\ IsFiniteSet(T \ R) /\ IsFiniteSet(R)
  BY FS_Subset DEF Shaped
<1>2. \A k \in T : f[k] = HeldIn(all, k)
  OBVIOUS
<1>3. \A k \in R : f[k] = HeldIn(st, k)
  BY DEF HeldIn
<1>4. \A k \in T : f[k] > 0
  BY DEF HeldIn
<1> HIDE DEF f, T, R
<1>5. TotalRecoveryShares(all) = SumOver(f, T) /\ Amounts(f, T)
  BY <1>1, <1>2, ShapedSum DEF T
<1>6. TotalRecoveryShares(st) = SumOver(f, R) /\ SumOver(f, R) \in Nat
  BY <1>1, <1>3, ShapedSum DEF R
<1>7. SumOver(f, T) = SumOver(f, R) + SumOver(f, T \ R)
  BY <1>1, <1>5, SumSplit
<1>8. Amounts(f, T \ R) /\ SumOver(f, T \ R) \in Nat
  <2>1. Amounts(f, T \ R)
    BY <1>5 DEF Amounts
  <2> QED
    BY <1>1, <2>1, SumNat
<1>9. SumOver(f, T \ R) = 0
  BY <1>5, <1>6, <1>7, <1>8
<1>10. T \ R = {}
  <2> SUFFICES ASSUME NEW x \in T \ R PROVE FALSE
    OBVIOUS
  <2>1. SumOver(f, T \ R) = f[x] + SumOver(f, (T \ R) \ {x})
    BY <1>1, <1>8, SumRemove
  <2>2. IsFiniteSet((T \ R) \ {x}) /\ Amounts(f, (T \ R) \ {x})
    BY <1>1, <1>8, FS_Subset DEF Amounts
  <2>3. SumOver(f, (T \ R) \ {x}) \in Nat /\ f[x] \in Nat /\ f[x] > 0
    BY <1>4, <1>8, <2>2, SumNat DEF Amounts
  <2> QED
    BY <1>9, <2>1, <2>3
<1>11. Ticks(st) = Ticks(all)
  BY <1>1, <1>10 DEF T, R
<1>12. st.bucket = all.bucket
  BY <1>11 DEF Shaped
<1> QED
  BY <1>11, <1>12

-----------------------------------------------------------------------------
(* The log of rotations.  A call works on an empty one; with a longer one  *)
(* it does the same, as long as it finds the record it looks for.          *)

(* The same sub-pool but for the log.                                      *)
Alike(s, v) ==
  /\ IsSubPool(s) /\ IsSubPool(v)
  /\ v.pool = s.pool /\ v.shares = s.shares /\ v.notional = s.notional
  /\ v.recovery = s.recovery /\ v.dust = s.dust /\ v.gen = s.gen
  /\ v.dormant = s.dormant /\ v.lastPrice = s.lastPrice

(* And its log continues F with that of s.                                 *)
Continues(F, s, v) ==
  /\ Alike(s, v)
  /\ v.rotateLog = [d \in Direction |-> F[d] \o s.rotateLog[d]]

LEMMA AlikeDemand ==
  ASSUME NEW s, NEW v, Alike(s, v), NEW w, NEW p
  PROVE  /\ ActiveDemand(v, w, p) = ActiveDemand(s, w, p)
         /\ Demand(v, w, p) = Demand(s, w, p)
         /\ Transfer(v, w, p) = Transfer(s, w, p)
         /\ Winner(v, p) = Winner(s, p)
BY DEF Alike, Demand, ActiveDemand, DormantDemand, Transfer, Winner

LEMMA AlikeChecked ==
  ASSUME NEW s, NEW v, Alike(s, v)
  PROVE  /\ SubPoolSound(v) = SubPoolSound(s)
         /\ Checked(v).err = Checked(s).err
<1>1. SubPoolSound(v) = SubPoolSound(s)
  BY DEF Alike, SubPoolSound
<1> QED
  BY <1>1 DEF Checked, Ok, Fail

LEMMA RepricedContinues ==
  ASSUME NEW F, NEW s, NEW v, Continues(F, s, v), NEW p
  PROVE  Continues(F, [s EXCEPT !.lastPrice = p], [v EXCEPT !.lastPrice = p])
BY DEF Continues, Alike, IsSubPool, SubPoolFields

LEMMA SettleContinues ==
  ASSUME NEW F, NEW s, NEW v, Continues(F, s, v), NEW w \in Direction, NEW p,
         Settle(s, w, p).err = "Ok"
  PROVE  Settle(v, w, p).err = "Ok" /\ Continues(F, Settle(s, w, p).sp, Settle(v, w, p).sp)
<1> DEFINE o == Opposite(w)
           transfer == Transfer(s, w, p)
           toActive == MulDivFloor(transfer, ActiveDemand(s, w, p), Demand(s, w, p))
           toRecovery == transfer - toActive
           st == s.dormant[w]
           paid(x) == [x EXCEPT !.pool[w] = @ + toActive, !.pool[o] = @ - transfer]
           placed(x) == [x EXCEPT !.dormant[w] = Distribute(@, p, toRecovery),
                                  !.dust[w] = @ + Residual(st, p, toRecovery)]
<1>1. Alike(s, v)
  BY DEF Continues
<1>2. /\ ActiveDemand(v, w, p) = ActiveDemand(s, w, p) /\ Demand(v, w, p) = Demand(s, w, p)
      /\ Transfer(v, w, p) = transfer /\ v.dormant[w] = st
  BY <1>1, AlikeDemand DEF Alike
<1>3. CASE transfer = 0
  <2>1. Settle(s, w, p) = Ok(s)
    BY <1>3 DEF Settle
  <2>2. Settle(v, w, p) = Ok(v)
    BY <1>2, <1>3 DEF Settle
  <2> QED
    BY <2>1, <2>2 DEF Ok
<1>4. Continues(F, paid(s), paid(v))
  BY DEF Continues, Alike, IsSubPool, SubPoolFields
<1>5. CASE transfer # 0 /\ toRecovery = 0
  <2>1. Settle(s, w, p) = Ok(paid(s))
    BY <1>5 DEF Settle
  <2>2. Settle(v, w, p) = Ok(paid(v))
    BY <1>2, <1>5 DEF Settle
  <2> QED
    BY <1>4, <2>1, <2>2 DEF Ok
<1>6. CASE transfer # 0 /\ toRecovery # 0
  <2>1. Settle(s, w, p) = Ok(placed(paid(s))) /\ ~LedgerFull(st)
    BY <1>6 DEF Settle, Fail
  <2>2. Settle(v, w, p) = Ok(placed(paid(v)))
    BY <1>2, <1>6, <2>1 DEF Settle
  <2> HIDE DEF transfer, toActive, toRecovery, st, o
  <2>3. ASSUME NEW x, NEW y, Continues(F, x, y) PROVE Continues(F, placed(x), placed(y))
    BY <2>3 DEF Continues, Alike, IsSubPool, SubPoolFields
  <2>4. Continues(F, placed(paid(s)), placed(paid(v)))
    <3> HIDE DEF paid, placed
    <3> QED
      BY <1>4, <2>3
  <2> QED
    BY <2>1, <2>2, <2>4 DEF Ok
<1> QED
  BY <1>3, <1>5, <1>6

(* Both logs are lists.                                                    *)
Logs(F, s) ==
  \A d \in Direction : /\ F[d] \in Seq([gen : Nat, tick : Nat])
                       /\ s.rotateLog[d] \in Seq([gen : Nat, tick : Nat])

LEMMA ConcatAppend ==
  ASSUME NEW S, NEW a \in Seq(S), NEW b \in Seq(S), NEW e \in S
  PROVE  a \o Append(b, e) = Append(a \o b, e)
<1>1. Append(b, e) = b \o <<e>> /\ Append(a \o b, e) = (a \o b) \o <<e>> /\ <<e>> \in Seq(S)
  <2>1. a \o b \in Seq(S)
    BY ConcatProperties
  <2> QED
    BY <2>1, AppendIsConcat
<1> QED
  BY <1>1, ConcatAssociative

LEMMA RotateDoes ==
  ASSUME NEW s, NEW d \in Direction, NEW p, IsSubPool(s), Rotate(s, d, p).err = "Ok",
         s.pool[d] = 0, s.shares[d] # 0, NEW t, t = Rotate(s, d, p).sp
  PROVE  RotatesTo(s, d, p, t)
<1> DEFINE st == InsertOrMerge(s.dormant[d], BucketTickOf(p), p, s.shares[d], s.notional[d])
           rec == RotateRecord(s, d, BucketTickOf(p))
<1>1. CanInsert(s.dormant[d], BucketTickOf(p))
  BY DEF Rotate, Fail
<1>2. t = [s EXCEPT
             !.dormant[d] = st, !.recovery[d] = @ + s.shares[d],
             !.shares[d] = 0, !.notional[d] = 0,
             !.rotateLog[d] = Append(@, rec), !.gen[d] = @ + 1]
  BY <1>1 DEF Rotate, Ok
<1> HIDE DEF st, rec
<1>3. /\ IsSubPool(t) /\ t.lastPrice = s.lastPrice
      /\ t.pool = s.pool /\ t.dust = s.dust
      /\ t.shares = [s.shares EXCEPT ![d] = 0] /\ t.notional = [s.notional EXCEPT ![d] = 0]
      /\ t.recovery = [s.recovery EXCEPT ![d] = @ + s.shares[d]]
      /\ t.dormant = [s.dormant EXCEPT ![d] = st]
      /\ t.rotateLog = [s.rotateLog EXCEPT ![d] = Append(@, rec)]
      /\ t.gen = [s.gen EXCEPT ![d] = @ + 1]
  BY <1>2 DEF IsSubPool, SubPoolFields
<1> QED
  BY <1>3 DEF RotatesTo, st, rec

(* What the log prefix needs to be carried through a sync.                 *)
Carries(F, s, v) ==
  /\ Continues(F, s, v) /\ Logs(F, s) /\ s.gen \in [Direction -> Nat]
  /\ s.rotateLog = [d \in Direction |-> s.rotateLog[d]]

LEMMA RotateContinues ==
  ASSUME NEW F, NEW s, NEW v, Carries(F, s, v), NEW d \in Direction, NEW p \in Nat,
         Rotate(s, d, p).err = "Ok"
  PROVE  Rotate(v, d, p).err = "Ok" /\ Carries(F, Rotate(s, d, p).sp, Rotate(v, d, p).sp)
<1>0. /\ Continues(F, s, v) /\ Logs(F, s) /\ s.gen \in [Direction -> Nat]
      /\ s.rotateLog = [e \in Direction |-> s.rotateLog[e]]
  BY DEF Carries
<1> DEFINE R == [gen : Nat, tick : Nat]
<1>1. Alike(s, v)
  BY <1>0 DEF Continues
<1>2. /\ v.pool[d] = s.pool[d] /\ v.shares[d] = s.shares[d] /\ v.notional[d] = s.notional[d]
      /\ v.dormant[d] = s.dormant[d] /\ v.gen[d] = s.gen[d]
      /\ RotateRecord(v, d, BucketTickOf(p)) = RotateRecord(s, d, BucketTickOf(p))
      /\ IsSubPool(s) /\ IsSubPool(v)
  BY <1>1 DEF Alike, RotateRecord
<1>3. RotateRecord(s, d, BucketTickOf(p)) \in R
  <2>1. s.gen[d] \in Nat /\ BucketTickOf(p) \in Nat
    BY <1>0, CoreParameters DEF BucketTickOf
  <2> QED
    BY <2>1 DEF RotateRecord
<1> PICK rec : rec = RotateRecord(s, d, BucketTickOf(p))
  OBVIOUS
<1> PICK a : a = Rotate(s, d, p).sp
  OBVIOUS
<1> PICK b : b = Rotate(v, d, p).sp
  OBVIOUS
<1>4. CASE s.pool[d] # 0 \/ s.shares[d] = 0
  <2>1. Rotate(s, d, p) = Ok(s) /\ Rotate(v, d, p) = Ok(v)
    BY <1>2, <1>4 DEF Rotate
  <2> QED
    BY <2>1 DEF Ok
<1>5. CASE ~(s.pool[d] # 0 \/ s.shares[d] = 0)
  <2>1. CanInsert(s.dormant[d], BucketTickOf(p))
    BY <1>5 DEF Rotate, Fail
  <2>2. Rotate(v, d, p).err = "Ok"
    BY <1>2, <1>5, <2>1 DEF Rotate, Ok
  <2>3. RotatesTo(s, d, p, a) /\ RotatesTo(v, d, p, b)
    BY <1>2, <1>5, <2>2, RotateDoes
  <2>4. Alike(a, b)
    BY <1>1, <1>2, <2>3 DEF Alike, RotatesTo
  <2>5. /\ a.rotateLog = [s.rotateLog EXCEPT ![d] = Append(@, rec)]
        /\ b.rotateLog = [v.rotateLog EXCEPT ![d] = Append(@, rec)]
        /\ a.gen = [s.gen EXCEPT ![d] = @ + 1]
    BY <1>2, <2>3 DEF RotatesTo
  <2>6. /\ F[d] \o Append(s.rotateLog[d], rec) = Append(F[d] \o s.rotateLog[d], rec)
        /\ Append(s.rotateLog[d], rec) \in Seq(R)
    <3>1. F[d] \in Seq(R) /\ s.rotateLog[d] \in Seq(R) /\ rec \in R
      BY <1>0, <1>3 DEF Logs
    <3>2. PICK x : x = F[d]
      OBVIOUS
    <3>3. PICK y : y = s.rotateLog[d]
      OBVIOUS
    <3>4. x \in Seq(R) /\ y \in Seq(R) /\ rec \in R
      BY <3>1, <3>2, <3>3
    <3> HIDE DEF R
    <3>5. x \o Append(y, rec) = Append(x \o y, rec)
      BY <3>4, ConcatAppend
    <3>6. Append(y, rec) \in Seq(R)
      BY <3>4, AppendProperties
    <3> QED
      BY <3>2, <3>3, <3>5, <3>6
  <2>7. b.rotateLog = [e \in Direction |-> F[e] \o a.rotateLog[e]]
    <3>1. v.rotateLog = [e \in Direction |-> F[e] \o s.rotateLog[e]]
      BY <1>0 DEF Continues
    <3>2. ASSUME NEW e \in Direction PROVE b.rotateLog[e] = F[e] \o a.rotateLog[e]
      <4>1. CASE e = d
        BY <1>0, <2>5, <2>6, <3>1, <4>1
      <4>2. CASE e # d
        BY <1>0, <2>5, <3>1, <4>2
      <4> QED
        BY <4>1, <4>2
    <3> QED
      BY <2>5, <3>1, <3>2
  <2>8. Logs(F, a)
    BY <1>0, <2>5, <2>6 DEF Logs
  <2>9. a.gen \in [Direction -> Nat]
    <3>1. s.gen[d] + 1 \in Nat
      BY <1>0
    <3> QED
      BY <1>0, <2>5, <3>1
  <2>10. a.rotateLog = [e \in Direction |-> a.rotateLog[e]]
    <3>1. PICK g : g = s.rotateLog
      OBVIOUS
    <3>2. PICK x : x = Append(s.rotateLog[d], rec)
      OBVIOUS
    <3>3. a.rotateLog = [g EXCEPT ![d] = x] /\ g = [e \in Direction |-> g[e]]
      BY <1>0, <2>5, <3>1, <3>2
    <3> QED
      BY <3>3
  <2> QED
    BY <2>2, <2>4, <2>7, <2>8, <2>9, <2>10 DEF Continues, Carries
<1> QED
  BY <1>4, <1>5

LEMMA CarriesOn ==
  ASSUME NEW F, NEW s, NEW v, Carries(F, s, v), NEW a, NEW b, Continues(F, a, b),
         a.gen = s.gen, a.rotateLog = s.rotateLog
  PROVE  Carries(F, a, b)
BY DEF Carries, Logs

LEMMA SyncContinues ==
  ASSUME NEW F, NEW s, NEW v, Carries(F, s, v), NEW p \in Nat, SyncPool(s, p).err = "Ok"
  PROVE  SyncPool(v, p).err = "Ok" /\ Carries(F, SyncPool(s, p).sp, SyncPool(v, p).sp)
<1>1. Alike(s, v) /\ v.lastPrice = s.lastPrice /\ Winner(v, p) = Winner(s, p) /\ Continues(F, s, v)
      /\ IsSubPool(s) /\ IsSubPool(v)
  BY AlikeDemand DEF Carries, Continues, Alike
<1>2. CASE s.lastPrice \in {0, p}
  <2>1. PICK a : a = [s EXCEPT !.lastPrice = p]
    OBVIOUS
  <2>2. PICK b : b = [v EXCEPT !.lastPrice = p]
    OBVIOUS
  <2>3. SyncPool(s, p) = Checked(a) /\ SyncPool(v, p) = Checked(b)
    BY <1>1, <1>2, <2>1, <2>2 DEF SyncPool
  <2>4. Continues(F, a, b)
    BY <1>1, <2>1, <2>2, RepricedContinues
  <2>5. a.gen = s.gen /\ a.rotateLog = s.rotateLog
    BY <1>1, <2>1 DEF IsSubPool, SubPoolFields
  <2>6. Carries(F, a, b)
    BY <2>4, <2>5, CarriesOn
  <2> QED
    BY <2>3, <2>4, <2>6, AlikeChecked, CheckedSame DEF Continues
<1>3. CASE s.lastPrice \notin {0, p}
  <2> DEFINE settled(x) == Settle(x, Winner(x, p), p)
             priced(x) == [settled(x).sp EXCEPT !.lastPrice = p]
             long(x) == Rotate(priced(x), "Long", p)
             both(x) == Rotate(long(x).sp, "Short", p)
  <2>1. /\ Winner(s, p) \in Direction /\ "Long" \in Direction /\ "Short" \in Direction
        /\ settled(s).err = "Ok" /\ long(s).err = "Ok" /\ both(s).err = "Ok"
        /\ SyncPool(s, p).sp = both(s).sp
    BY <1>3, SyncForm
  <2>2. Checked(both(s).sp).err = "Ok"
    BY <1>3, <2>1 DEF SyncPool, RotateBoth, Fail, Ok
  <2>3. settled(v).err = "Ok" /\ Continues(F, settled(s).sp, settled(v).sp)
    BY <1>1, <2>1, SettleContinues
  <2>4. settled(s).sp.gen = s.gen /\ settled(s).sp.rotateLog = s.rotateLog
        /\ IsSubPool(settled(s).sp)
    BY <1>1, <2>1, SettleForm
  <2>5. ~(PriceMoveBps(v.lastPrice, p) > MaxMoveBps)
    BY <1>1, <1>3 DEF SyncPool, Fail
  <2> HIDE DEF settled
  <2>6. Continues(F, priced(s), priced(v))
    BY <2>3, RepricedContinues
  <2>7. priced(s).gen = s.gen /\ priced(s).rotateLog = s.rotateLog
    BY <2>4 DEF IsSubPool, SubPoolFields
  <2> HIDE DEF priced
  <2>8. Carries(F, priced(s), priced(v))
    BY <2>6, <2>7, CarriesOn
  <2>9. long(v).err = "Ok" /\ Carries(F, long(s).sp, long(v).sp)
    <3>1. PICK x : x = priced(s)
      OBVIOUS
    <3>2. PICK y : y = priced(v)
      OBVIOUS
    <3>3. Carries(F, x, y) /\ Rotate(x, "Long", p).err = "Ok"
      BY <2>1, <2>8, <3>1, <3>2
    <3> QED
      BY <2>1, <3>1, <3>2, <3>3, RotateContinues
  <2>10. both(v).err = "Ok" /\ Carries(F, both(s).sp, both(v).sp)
    <3>1. PICK x : x = long(s).sp
      OBVIOUS
    <3>2. PICK y : y = long(v).sp
      OBVIOUS
    <3>3. Carries(F, x, y) /\ Rotate(x, "Short", p).err = "Ok"
      BY <2>1, <2>9, <3>1, <3>2
    <3> QED
      BY <2>1, <3>1, <3>2, <3>3, RotateContinues
  <2>11. SyncPool(v, p) = Checked(both(v).sp)
    <3>1. RotateBoth(priced(v), p) = both(v)
      BY <2>9 DEF RotateBoth
    <3> HIDE DEF long
    <3>2. both(v).err = "Ok" /\ settled(v).err = "Ok" /\ v.lastPrice \notin {0, p}
      BY <1>1, <1>3, <2>3, <2>10
    <3> HIDE DEF both
    <3> QED
      BY <2>5, <3>1, <3>2 DEF SyncPool, priced, settled
  <2> HIDE DEF both, long
  <2>12. Checked(both(v).sp).err = "Ok" /\ Checked(both(v).sp).sp = both(v).sp
    BY <2>2, <2>10, AlikeChecked, CheckedSame DEF Carries, Continues
  <2> QED
    BY <2>1, <2>10, <2>11, <2>12
<1> QED
  BY <1>2, <1>3

LEMMA SingletonMin == ASSUME NEW n \in Int PROVE Min({n}) = n
BY DEF Min

(* A position that finds its record in the short log finds the same one in *)
(* the whole log, which has one record of each generation.                 *)
LEMMA MigratedContinues ==
  ASSUME NEW F, NEW s, NEW v, Carries(F, s, v), Numbered(v), NEW q, Placed(v, q),
         CanMigrate(s, q)
  PROVE  CanMigrate(v, q) /\ Migrated(v, q) = Migrated(s, q)
<1>a. /\ q.dir \in Direction /\ q.gen \in Nat /\ Continues(F, s, v) /\ Logs(F, s)
      /\ v.gen = s.gen
  BY DEF Carries, Continues, Alike, Placed
<1> DEFINE R == [gen : Nat, tick : Nat]
<1>b. PICK d : d = q.dir
  OBVIOUS
<1>c. PICK short : short = s.rotateLog[d]
  OBVIOUS
<1>d. PICK log : log = v.rotateLog[d]
  OBVIOUS
<1>e. PICK f : f = F[d]
  OBVIOUS
<1>1. /\ d \in Direction /\ q.gen \in Nat
      /\ f \in Seq(R) /\ short \in Seq(R) /\ log = f \o short
      /\ v.gen = s.gen /\ NeedsMigration(v, q) = NeedsMigration(s, q)
      /\ RotateRecords(s, q) = {j \in DOMAIN short : short[j].gen = q.gen}
      /\ RotateRecords(v, q) = {j \in DOMAIN log : log[j].gen = q.gen}
  <2>1. v.rotateLog[d] = F[d] \o s.rotateLog[d] /\ d \in Direction
    BY <1>a, <1>b DEF Continues
  <2> QED
    BY <1>a, <1>b, <1>c, <1>d, <1>e, <2>1 DEF Logs, NeedsMigration, RotateRecords
<1> HIDE DEF R
<1>2. CASE ~NeedsMigration(s, q)
  BY <1>1, <1>2 DEF CanMigrate, Migrated
<1>3. CASE NeedsMigration(s, q)
  <2>1. PICK i \in RotateRecords(s, q) : TRUE
    BY <1>3 DEF CanMigrate
  <2>2. IsLog(log, v.gen[d]) /\ v.gen[d] \in Nat
    BY <1>1, <1>d DEF Numbered
  <2>a. PICK n : n = v.gen[d]
    OBVIOUS
  <2>3. DOMAIN log = 1 .. n /\ n \in Nat /\ \A j \in 1 .. n : log[j].gen = j - 1
    BY <2>2, <2>a, LenProperties DEF IsLog
  <2>4. ASSUME NEW j \in RotateRecords(s, q)
        PROVE  /\ j \in Int /\ Len(f) \in Nat /\ Len(f) + j \in DOMAIN log
               /\ Len(f) + j = q.gen + 1 /\ log[q.gen + 1] = short[j]
               /\ log[q.gen + 1].gen = q.gen /\ q.gen + 1 \in 1 .. n
    <3>1. j \in 1 .. Len(short) /\ short[j].gen = q.gen /\ Len(f) \in Nat /\ Len(short) \in Nat
      BY <1>1, LenProperties
    <3>2. log \in Seq(R) /\ Len(log) = Len(f) + Len(short)
          /\ \A k \in 1 .. Len(f) + Len(short) :
               log[k] = IF k <= Len(f) THEN f[k] ELSE short[k - Len(f)]
      BY <1>1, ConcatProperties
    <3>3. PICK k : k = Len(f) + j
      OBVIOUS
    <3>4. k \in 1 .. Len(f) + Len(short) /\ ~(k <= Len(f)) /\ k - Len(f) = j /\ k \in Int
      BY <3>1, <3>3
    <3>5. log[k] = short[j] /\ k \in DOMAIN log
      BY <3>2, <3>4, LenProperties
    <3>6. k \in 1 .. n /\ log[k].gen = k - 1 /\ log[k].gen = q.gen
      BY <2>3, <3>1, <3>5
    <3>7. k = q.gen + 1
      BY <1>1, <3>4, <3>6
    <3> QED
      BY <3>1, <3>3, <3>4, <3>5, <3>6, <3>7
  <2>5. RotateRecords(v, q) = {q.gen + 1}
    <3>1. q.gen + 1 \in 1 .. n /\ log[q.gen + 1].gen = q.gen
      BY <2>1, <2>4
    <3>2. ASSUME NEW j \in DOMAIN log, log[j].gen = q.gen PROVE j = q.gen + 1
      BY SMTT(30), <1>1, <2>3, <3>2
    <3> QED
      BY <1>1, <2>3, <3>1, <3>2
  <2>7. RotateRecords(s, q) = {i} /\ i \in Int
    <3>1. ASSUME NEW j \in RotateRecords(s, q) PROVE j = i
      <4>1. i \in Int /\ j \in Int /\ Len(f) \in Nat /\ Len(f) + j = q.gen + 1 /\ Len(f) + i = q.gen + 1
        BY <2>1, <2>4
      <4> QED
        BY <1>1, <4>1
    <3> QED
      BY <2>1, <2>4, <3>1
  <2>8. Min(RotateRecords(s, q)) = i /\ Min(RotateRecords(v, q)) = q.gen + 1
    <3>1. i \in Int /\ q.gen + 1 \in Int
      BY <1>1, <2>7
    <3>2. Min({i}) = i
      BY <3>1, SingletonMin
    <3>3. Min({q.gen + 1}) = q.gen + 1
      BY <3>1, SingletonMin
    <3> QED
      BY <2>5, <2>7, <3>2, <3>3
  <2>9. v.rotateLog[q.dir][Min(RotateRecords(v, q))] = s.rotateLog[q.dir][Min(RotateRecords(s, q))]
    BY <1>b, <1>c, <1>d, <2>1, <2>4, <2>8
  <2>10. CanMigrate(v, q)
    BY <2>5 DEF CanMigrate
  <2> QED
    BY <1>1, <1>3, <2>9, <2>10 DEF Migrated
<1> QED
  BY <1>2, <1>3

(* Leaving the active pool, and burning recovery shares, look only at what *)
(* the two sub-pools have in common.                                       *)
LEMMA ValuesAlike ==
  ASSUME NEW s, NEW v, Alike(s, v), NEW q
  PROVE  /\ ActiveValue(v, q) = ActiveValue(s, q) /\ RecoveryValue(v, q) = RecoveryValue(s, q)
         /\ HasPool(v, q) = HasPool(s, q)
         /\ CanLeaveActive(v, q) = CanLeaveActive(s, q)
         /\ CanLeaveRecovery(v, q) = CanLeaveRecovery(s, q)
BY DEF Alike, ActiveValue, RecoveryValue, HasPool, CanLeaveActive, CanLeaveRecovery

LEMMA LeaveActiveContinues ==
  ASSUME NEW F, NEW s, NEW v, Continues(F, s, v), NEW q, NEW x
  PROVE  Continues(F, LeaveActive(s, q, x), LeaveActive(v, q, x))
<1> PICK a : a = LeaveActive(s, q, x)
  OBVIOUS
<1> PICK b : b = LeaveActive(v, q, x)
  OBVIOUS
<1>1. IsSubPool(s) /\ IsSubPool(v) /\ Alike(s, v)
  BY DEF Continues, Alike
<1>2. /\ IsSubPool(a) /\ a.recovery = s.recovery /\ a.dormant = s.dormant /\ a.dust = s.dust
      /\ a.gen = s.gen /\ a.rotateLog = s.rotateLog /\ a.lastPrice = s.lastPrice
  BY <1>1, LeaveActiveKeeps
<1>3. /\ IsSubPool(b) /\ b.recovery = v.recovery /\ b.dormant = v.dormant /\ b.dust = v.dust
      /\ b.gen = v.gen /\ b.rotateLog = v.rotateLog /\ b.lastPrice = v.lastPrice
  BY <1>1, LeaveActiveKeeps
<1>4. /\ a.pool = [s.pool EXCEPT ![q.dir] = @ - x] /\ b.pool = [v.pool EXCEPT ![q.dir] = @ - x]
      /\ a.shares = [s.shares EXCEPT ![q.dir] = @ - q.shares]
      /\ b.shares = [v.shares EXCEPT ![q.dir] = @ - q.shares]
      /\ a.notional = [s.notional EXCEPT ![q.dir] = @ - q.notional]
      /\ b.notional = [v.notional EXCEPT ![q.dir] = @ - q.notional]
  BY <1>1 DEF LeaveActive, IsSubPool, SubPoolFields
<1> QED
  BY <1>1, <1>2, <1>3, <1>4 DEF Continues, Alike

LEMMA LeaveRecoveryContinues ==
  ASSUME NEW F, NEW s, NEW v, Continues(F, s, v), NEW q
  PROVE  Continues(F, LeaveRecovery(s, q), LeaveRecovery(v, q))
<1> PICK a : a = LeaveRecovery(s, q)
  OBVIOUS
<1> PICK b : b = LeaveRecovery(v, q)
  OBVIOUS
<1>1. IsSubPool(s) /\ IsSubPool(v) /\ Alike(s, v)
  BY DEF Continues, Alike
<1>2. CASE q.recovery = 0
  BY <1>2 DEF LeaveRecovery
<1>3. CASE q.recovery # 0
  <2>1. /\ IsSubPool(a)
        /\ a.dormant = [s.dormant EXCEPT ![q.dir] = Redeem(@, q.tick, q.recovery)]
        /\ a.recovery = [s.recovery EXCEPT ![q.dir] = @ - q.recovery]
        /\ a.pool = s.pool /\ a.shares = s.shares /\ a.notional = s.notional
        /\ a.dust = s.dust /\ a.gen = s.gen /\ a.rotateLog = s.rotateLog
        /\ a.lastPrice = s.lastPrice
    BY <1>1, <1>3, LeaveRecoveryForm
  <2>2. /\ IsSubPool(b)
        /\ b.dormant = [v.dormant EXCEPT ![q.dir] = Redeem(@, q.tick, q.recovery)]
        /\ b.recovery = [v.recovery EXCEPT ![q.dir] = @ - q.recovery]
        /\ b.pool = v.pool /\ b.shares = v.shares /\ b.notional = v.notional
        /\ b.dust = v.dust /\ b.gen = v.gen /\ b.rotateLog = v.rotateLog
        /\ b.lastPrice = v.lastPrice
    BY <1>1, <1>3, LeaveRecoveryForm
  <2> QED
    BY <1>1, <2>1, <2>2 DEF Continues, Alike
<1> QED
  BY <1>2, <1>3

(* Touching a position on the short log and on the whole one.              *)
TouchesAlike(F, t, u) ==
  /\ u.err = "Ok" /\ Carries(F, t.sp, u.sp) /\ u.pos = t.pos

LEMMA TouchContinues ==
  ASSUME NEW F, NEW s, NEW v, Carries(F, s, v), Numbered(v), NEW p \in Nat, NEW q, Placed(v, q),
         Touch(s, p, q).err = "Ok"
  PROVE  TouchesAlike(F, Touch(s, p, q), Touch(v, p, q))
<1> PICK a : a = SyncPool(s, p)
  OBVIOUS
<1> PICK b : b = SyncPool(v, p)
  OBVIOUS
<1>1. a.err = "Ok" /\ CanMigrate(a.sp, q) /\ CanLeaveRecovery(a.sp, Migrated(a.sp, q))
  BY TouchForm
<1>2. b.err = "Ok" /\ Carries(F, a.sp, b.sp)
  BY <1>1, SyncContinues
<1>3. Numbered(b.sp) /\ Placed(b.sp, q)
  BY SyncFollows, PlacedFollows DEF ComesAfter
<1>4. CanMigrate(b.sp, q) /\ Migrated(b.sp, q) = Migrated(a.sp, q)
  BY <1>1, <1>2, <1>3, MigratedContinues
<1>5. CanLeaveRecovery(b.sp, Migrated(b.sp, q))
  BY <1>1, <1>2, <1>4, ValuesAlike DEF Carries, Continues
<1>6. Touch(v, p, q).err = "Ok"
  BY <1>2, <1>4, <1>5, TouchForm
<1>7. /\ Touch(s, p, q).sp = a.sp /\ Touch(v, p, q).sp = b.sp
      /\ Touch(s, p, q).pos = Migrated(a.sp, q) /\ Touch(v, p, q).pos = Migrated(b.sp, q)
  BY <1>6, TouchForm
<1> QED
  BY <1>2, <1>4, <1>6, <1>7 DEF TouchesAlike

(* What an outcome on the short log says of the outcome on the whole log.  *)
SameOutcome(F, r, w) ==
  w.err = "Ok" /\ Continues(F, r.sp, w.sp) /\ w.pos = r.pos /\ w.paid = r.paid

LEMMA CloseDoes ==
  ASSUME NEW s, NEW p, NEW q, NEW t, t = Touch(s, p, q), t.err = "Ok",
         q.status \in {"Open", "Dormant"},
         HasPool(t.sp, t.pos) => CanLeaveActive(t.sp, t.pos),
         NEW rest, rest = LeaveRecovery(IF HasPool(t.sp, t.pos)
                                 THEN LeaveActive(t.sp, t.pos, ActiveValue(t.sp, t.pos))
                                 ELSE t.sp, t.pos),
         SubPoolSound(rest), NEW paid, paid = ActiveValue(t.sp, t.pos) + RecoveryValue(t.sp, t.pos),
         paid # 0, NEW r, r = ClosePosition(s, p, q)
  PROVE  r.err = "Ok" /\ r.sp = rest /\ r.paid = paid
         /\ r.pos = Closed(IF HasPool(t.sp, t.pos) THEN WithoutShares(t.pos)
                           ELSE WithoutRecovery(t.pos))
<1>1. Checked(rest).err = "Ok"
  BY DEF Checked, Ok
<1> QED
  BY <1>1 DEF ClosePosition, CloseTouched, Finished, Fail

LEMMA CloseContinues ==
  ASSUME NEW F, NEW s, NEW v, Carries(F, s, v), Numbered(v), NEW p \in Nat, NEW q, Placed(v, q),
         ClosePosition(s, p, q).err = "Ok"
  PROVE  SameOutcome(F, ClosePosition(s, p, q), ClosePosition(v, p, q))
<1> PICK t : t = Touch(s, p, q)
  OBVIOUS
<1> PICK u : u = Touch(v, p, q)
  OBVIOUS
<1> PICK r : r = ClosePosition(s, p, q)
  OBVIOUS
<1> PICK w : w = ClosePosition(v, p, q)
  OBVIOUS
<1> DEFINE middle(x) == IF HasPool(x.sp, x.pos)
                        THEN LeaveActive(x.sp, x.pos, ActiveValue(x.sp, x.pos)) ELSE x.sp
           rest(x) == LeaveRecovery(middle(x), x.pos)
<1>1. /\ t.err = "Ok" /\ q.status \in {"Open", "Dormant"} /\ SubPoolSound(r.sp)
      /\ HasPool(t.sp, t.pos) => CanLeaveActive(t.sp, t.pos)
      /\ r.sp = rest(t)
      /\ r.pos = Closed(IF HasPool(t.sp, t.pos) THEN WithoutShares(t.pos)
                        ELSE WithoutRecovery(t.pos))
      /\ r.paid = ActiveValue(t.sp, t.pos) + RecoveryValue(t.sp, t.pos)
      /\ r.paid # 0
  BY CloseForm
<1>2. u.err = "Ok" /\ Continues(F, t.sp, u.sp) /\ u.pos = t.pos /\ Alike(t.sp, u.sp)
  <2>1. TouchesAlike(F, t, u)
    BY <1>1, TouchContinues
  <2> QED
    BY <2>1 DEF TouchesAlike, Carries, Continues
<1>3. /\ HasPool(u.sp, u.pos) = HasPool(t.sp, t.pos)
      /\ ActiveValue(u.sp, u.pos) = ActiveValue(t.sp, t.pos)
      /\ RecoveryValue(u.sp, u.pos) = RecoveryValue(t.sp, t.pos)
      /\ CanLeaveActive(u.sp, u.pos) = CanLeaveActive(t.sp, t.pos)
  BY <1>2, ValuesAlike
<1>4. Continues(F, middle(t), middle(u))
  BY <1>2, <1>3, LeaveActiveContinues
<1>5. Continues(F, rest(t), rest(u))
  <2>1. PICK a : a = middle(t)
    OBVIOUS
  <2>2. PICK b : b = middle(u)
    OBVIOUS
  <2> HIDE DEF middle
  <2> QED
    BY <1>2, <1>4, <2>1, <2>2, LeaveRecoveryContinues
<1>6. SubPoolSound(rest(u))
  BY <1>1, <1>5, AlikeChecked DEF Continues
<1>7. w.err = "Ok" /\ w.sp = rest(u) /\ w.paid = r.paid /\ w.pos = r.pos
  <2>1. PICK z : z = rest(u)
    OBVIOUS
  <2>2. PICK n : n = ActiveValue(u.sp, u.pos) + RecoveryValue(u.sp, u.pos)
    OBVIOUS
  <2>3. n = r.paid /\ n # 0 /\ SubPoolSound(z)
    BY <1>1, <1>3, <1>6, <2>1, <2>2
  <2>4. w.err = "Ok" /\ w.sp = z /\ w.paid = n
        /\ w.pos = Closed(IF HasPool(u.sp, u.pos) THEN WithoutShares(u.pos)
                          ELSE WithoutRecovery(u.pos))
    BY <1>1, <1>2, <1>3, <2>1, <2>2, <2>3, CloseDoes
  <2> HIDE DEF rest
  <2> QED
    BY <1>1, <1>2, <1>3, <2>1, <2>3, <2>4
<1> HIDE DEF rest
<1> QED
  BY <1>1, <1>5, <1>7 DEF SameOutcome

LEMMA ForceCloseDoes ==
  ASSUME NEW s, NEW p, NEW q, NEW t, t = Touch(s, p, q), t.err = "Ok", q.status # "Closed",
         ~(ActiveValue(t.sp, t.pos) > 0),
         t.pos.shares > 0 => CanLeaveActive(t.sp, t.pos),
         NEW left, left = LeaveRecovery(IF t.pos.shares > 0 THEN LeaveActive(t.sp, t.pos, 0)
                                        ELSE t.sp, t.pos),
         NEW rest, rest = [left EXCEPT !.dust[t.pos.dir] = @ + RecoveryValue(t.sp, t.pos)],
         SubPoolSound(rest), NEW r, r = ForceClosePosition(s, p, q)
  PROVE  r.err = "Ok" /\ r.sp = rest /\ r.paid = 0 /\ r.pos = Closed(WithoutShares(t.pos))
<1>1. Checked(rest).err = "Ok"
  BY DEF Checked, Ok
<1> QED
  BY <1>1 DEF ForceClosePosition, ForceCloseTouched, Finished, Fail

LEMMA DustContinues ==
  ASSUME NEW F, NEW s, NEW v, Continues(F, s, v), NEW d, NEW x
  PROVE  Continues(F, [s EXCEPT !.dust[d] = @ + x], [v EXCEPT !.dust[d] = @ + x])
<1> PICK a : a = [s EXCEPT !.dust[d] = @ + x]
  OBVIOUS
<1> PICK b : b = [v EXCEPT !.dust[d] = @ + x]
  OBVIOUS
<1>1. IsSubPool(s) /\ IsSubPool(v) /\ Alike(s, v)
  BY DEF Continues, Alike
<1>2. /\ IsSubPool(a) /\ a.pool = s.pool /\ a.shares = s.shares /\ a.notional = s.notional
      /\ a.recovery = s.recovery /\ a.dormant = s.dormant /\ a.gen = s.gen
      /\ a.rotateLog = s.rotateLog /\ a.lastPrice = s.lastPrice
      /\ a.dust = [s.dust EXCEPT ![d] = @ + x]
  BY <1>1 DEF IsSubPool, SubPoolFields
<1>3. /\ IsSubPool(b) /\ b.pool = v.pool /\ b.shares = v.shares /\ b.notional = v.notional
      /\ b.recovery = v.recovery /\ b.dormant = v.dormant /\ b.gen = v.gen
      /\ b.rotateLog = v.rotateLog /\ b.lastPrice = v.lastPrice
      /\ b.dust = [v.dust EXCEPT ![d] = @ + x]
  BY <1>1 DEF IsSubPool, SubPoolFields
<1> QED
  BY <1>1, <1>2, <1>3 DEF Continues, Alike

LEMMA ForceCloseContinues ==
  ASSUME NEW F, NEW s, NEW v, Carries(F, s, v), Numbered(v), NEW p \in Nat, NEW q, Placed(v, q),
         ForceClosePosition(s, p, q).err = "Ok"
  PROVE  SameOutcome(F, ForceClosePosition(s, p, q), ForceClosePosition(v, p, q))
<1> PICK t : t = Touch(s, p, q)
  OBVIOUS
<1> PICK u : u = Touch(v, p, q)
  OBVIOUS
<1> PICK r : r = ForceClosePosition(s, p, q)
  OBVIOUS
<1> PICK w : w = ForceClosePosition(v, p, q)
  OBVIOUS
<1> DEFINE middle(x) == IF x.pos.shares > 0 THEN LeaveActive(x.sp, x.pos, 0) ELSE x.sp
           left(x) == LeaveRecovery(middle(x), x.pos)
<1> PICK a : a = left(t)
  OBVIOUS
<1> PICK b : b = left(u)
  OBVIOUS
<1>1. /\ t.err = "Ok" /\ q.status # "Closed" /\ SubPoolSound(r.sp)
      /\ ~(ActiveValue(t.sp, t.pos) > 0)
      /\ t.pos.shares > 0 => CanLeaveActive(t.sp, t.pos)
      /\ r.sp = [a EXCEPT !.dust[t.pos.dir] = @ + RecoveryValue(t.sp, t.pos)]
      /\ r.pos = Closed(WithoutShares(t.pos)) /\ r.paid = 0
  BY ForceCloseForm
<1>2. u.err = "Ok" /\ Continues(F, t.sp, u.sp) /\ u.pos = t.pos /\ Alike(t.sp, u.sp)
  <2>1. TouchesAlike(F, t, u)
    BY <1>1, TouchContinues
  <2> QED
    BY <2>1 DEF TouchesAlike, Carries, Continues
<1>3. /\ ActiveValue(u.sp, u.pos) = ActiveValue(t.sp, t.pos)
      /\ RecoveryValue(u.sp, u.pos) = RecoveryValue(t.sp, t.pos)
      /\ CanLeaveActive(u.sp, u.pos) = CanLeaveActive(t.sp, t.pos)
  BY <1>2, ValuesAlike
<1>4. Continues(F, middle(t), middle(u))
  BY <1>2, LeaveActiveContinues
<1>5. Continues(F, a, b)
  <2>1. PICK x : x = middle(t)
    OBVIOUS
  <2>2. PICK y : y = middle(u)
    OBVIOUS
  <2> HIDE DEF middle
  <2> QED
    BY <1>2, <1>4, <2>1, <2>2, LeaveRecoveryContinues
<1> PICK z : z = [b EXCEPT !.dust[u.pos.dir] = @ + RecoveryValue(u.sp, u.pos)]
  OBVIOUS
<1>6. Continues(F, r.sp, z)
  <2>1. PICK e : e = t.pos.dir
    OBVIOUS
  <2>2. PICK x : x = RecoveryValue(t.sp, t.pos)
    OBVIOUS
  <2>3. r.sp = [a EXCEPT !.dust[e] = @ + x]
    BY <1>1, <2>1, <2>2
  <2>4. z = [b EXCEPT !.dust[e] = @ + x]
    BY <1>2, <1>3, <2>1, <2>2
  <2>5. Continues(F, [a EXCEPT !.dust[e] = @ + x], [b EXCEPT !.dust[e] = @ + x])
    BY <1>5, DustContinues
  <2> QED
    BY <2>3, <2>4, <2>5
<1>7. SubPoolSound(z)
  BY ZenonT(30), <1>1, <1>6, AlikeChecked DEF Continues
<1>8. w.err = "Ok" /\ w.sp = z /\ w.paid = 0 /\ w.pos = Closed(WithoutShares(u.pos))
  <2>1. /\ ~(ActiveValue(u.sp, u.pos) > 0)
        /\ u.pos.shares > 0 => CanLeaveActive(u.sp, u.pos)
    BY <1>1, <1>2, <1>3
  <2>2. b = LeaveRecovery(IF u.pos.shares > 0 THEN LeaveActive(u.sp, u.pos, 0) ELSE u.sp, u.pos)
    OBVIOUS
  <2>3. u.err = "Ok" /\ q.status # "Closed"
    BY <1>1, <1>2
  <2> HIDE DEF middle, left
  <2> QED
    BY <1>7, <2>1, <2>2, <2>3, ForceCloseDoes
<1> QED
  BY <1>1, <1>2, <1>6, <1>8 DEF SameOutcome

LEMMA ClaimContinues ==
  ASSUME NEW F, NEW s, NEW v, Carries(F, s, v), Numbered(v), NEW p \in Nat, NEW q, Placed(v, q),
         ClaimRecovery(s, p, q).err = "Ok"
  PROVE  SameOutcome(F, ClaimRecovery(s, p, q), ClaimRecovery(v, p, q))
<1> PICK t : t = Touch(s, p, q)
  OBVIOUS
<1> PICK u : u = Touch(v, p, q)
  OBVIOUS
<1> PICK r : r = ClaimRecovery(s, p, q)
  OBVIOUS
<1> PICK w : w = ClaimRecovery(v, p, q)
  OBVIOUS
<1>1. /\ t.err = "Ok" /\ SubPoolSound(r.sp) /\ t.pos.recovery # 0
      /\ r.sp = LeaveRecovery(t.sp, t.pos)
      /\ r.pos = WithoutRecovery(t.pos) /\ r.paid = RecoveryValue(t.sp, t.pos)
  BY ClaimForm
<1>2. u.err = "Ok" /\ Continues(F, t.sp, u.sp) /\ u.pos = t.pos /\ Alike(t.sp, u.sp)
  <2>1. TouchesAlike(F, t, u)
    BY <1>1, TouchContinues
  <2> QED
    BY <2>1 DEF TouchesAlike, Carries, Continues
<1>3. RecoveryValue(u.sp, u.pos) = RecoveryValue(t.sp, t.pos)
  BY <1>2, ValuesAlike
<1> PICK z : z = LeaveRecovery(u.sp, u.pos)
  OBVIOUS
<1>4. Continues(F, r.sp, z)
  BY <1>1, <1>2, LeaveRecoveryContinues
<1>5. Checked(z).err = "Ok"
  BY <1>1, <1>4, AlikeChecked DEF Continues, Checked, Ok
<1>6. w.err = "Ok" /\ w.sp = z /\ w.paid = RecoveryValue(u.sp, u.pos)
      /\ w.pos = WithoutRecovery(u.pos)
  BY <1>1, <1>2, <1>5 DEF ClaimRecovery, ClaimTouched, Finished
<1> QED
  BY <1>1, <1>2, <1>3, <1>4, <1>6 DEF SameOutcome

LEMMA PreSyncContinues ==
  ASSUME NEW F, NEW s, NEW v, Continues(F, s, v), NEW d \in Direction, NEW t,
         PreSyncBucket(s, d, t).err = "Ok"
  PROVE  /\ PreSyncBucket(v, d, t).err = "Ok"
         /\ Continues(F, PreSyncBucket(s, d, t).sp, PreSyncBucket(v, d, t).sp)
<1> PICK u : u = ApplyPending(s.dormant[d], {t})
  OBVIOUS
<1> PICK a : a = [s EXCEPT !.dormant[d] = u]
  OBVIOUS
<1> PICK b : b = [v EXCEPT !.dormant[d] = u]
  OBVIOUS
<1>1. IsSubPool(s) /\ IsSubPool(v) /\ Alike(s, v) /\ v.dormant[d] = s.dormant[d]
  BY DEF Continues, Alike
<1>2. PreSyncBucket(s, d, t) = Checked(a)
  BY DEF PreSyncBucket, Fail
<1>3. PreSyncBucket(v, d, t) = Checked(b)
  BY <1>1 DEF PreSyncBucket, Fail
<1>4. /\ IsSubPool(a) /\ a.pool = s.pool /\ a.shares = s.shares /\ a.notional = s.notional
      /\ a.recovery = s.recovery /\ a.dust = s.dust /\ a.gen = s.gen
      /\ a.rotateLog = s.rotateLog /\ a.lastPrice = s.lastPrice
      /\ a.dormant = [s.dormant EXCEPT ![d] = u]
  BY <1>1 DEF IsSubPool, SubPoolFields
<1>5. /\ IsSubPool(b) /\ b.pool = v.pool /\ b.shares = v.shares /\ b.notional = v.notional
      /\ b.recovery = v.recovery /\ b.dust = v.dust /\ b.gen = v.gen
      /\ b.rotateLog = v.rotateLog /\ b.lastPrice = v.lastPrice
      /\ b.dormant = [v.dormant EXCEPT ![d] = u]
  BY <1>1 DEF IsSubPool, SubPoolFields
<1>6. Continues(F, a, b)
  BY <1>1, <1>4, <1>5 DEF Continues, Alike
<1>7. Checked(b).err = Checked(a).err
  BY <1>6, AlikeChecked DEF Continues
<1>8. Checked(a).sp = a /\ Checked(b).sp = b
  BY CheckedSame
<1> QED
  BY <1>2, <1>3, <1>6, <1>7, <1>8

(***************************************************************************)
(* Accounts and the store they stand for.                                  *)
(***************************************************************************)
Account ==
  [tick : Nat, anchor : Nat, shares : Nat, notional : Nat, accrued : Nat, lastApplied : Nat]

(* Bucket accounts are orderly when those that are in use have shares and  *)
(* a tick of their own, and those that are not were never written.         *)
Orderly(A) ==
  /\ A = [k \in DOMAIN A |-> A[k]]
  /\ IsFiniteSet(DOMAIN A)
  /\ \A k \in DOMAIN A : A[k] \in Account
  /\ \A k \in Live(A) : A[k].shares > 0
  /\ \A k \in DOMAIN A \ Live(A) : A[k].anchor = 0 /\ A[k].lastApplied = 0
  /\ OneTickEach(A)

TicksOf(A) == {A[k].tick : k \in Live(A)}

LEMMA NoneOrderly == Orderly([k \in {} |-> 0]) /\ TicksOf([k \in {} |-> 0]) = {}
<1> DEFINE A == [k \in {} |-> 0]
<1>1. DOMAIN A = {} /\ A = [k \in DOMAIN A |-> A[k]] /\ IsFiniteSet({})
  BY FS_EmptySet
<1>2. Live(A) = {}
  BY <1>1 DEF Live
<1> HIDE DEF A
<1>3. Orderly(A) /\ TicksOf(A) = {}
  BY <1>1, <1>2 DEF Orderly, TicksOf, OneTickEach
<1> QED
  BY <1>3 DEF A

LEMMA TicksFinite ==
  ASSUME NEW A, Orderly(A)
  PROVE  IsFiniteSet(TicksOf(A)) /\ TicksOf(A) \subseteq Nat /\ IsFiniteSet(Live(A))
<1>1. IsFiniteSet(Live(A)) /\ Live(A) \subseteq DOMAIN A
  BY FS_Subset DEF Orderly, Live
<1> DEFINE f == [k \in Live(A) |-> A[k].tick]
<1>2. f \in Surjection(Live(A), TicksOf(A))
  BY DEF Surjection, TicksOf
<1>3. IsFiniteSet(TicksOf(A))
  BY <1>1, <1>2, FS_Surjection
<1>4. TicksOf(A) \subseteq Nat
  BY <1>1 DEF TicksOf, Orderly, Account
<1> QED
  BY <1>1, <1>3, <1>4

Unpacked(st, d, L, A) ==
  /\ st = [f \in StoreFields |-> st[f]]
  /\ st.dir = d /\ st.ledger = L.entries /\ st.gcOffset = L.gcOffset
  /\ st.accruedTotal = L.accruedTotal /\ st.pending = L.pending
  /\ Ticks(st) = TicksOf(A)
  /\ st.bucket = [t \in Ticks(st) |-> st.bucket[t]]
  /\ \A k \in Live(A) : st.bucket[A[k].tick] = BucketOf(A[k])

LEMMA UnpackFields ==
  ASSUME NEW A, Orderly(A), NEW d, NEW L, NEW st, st = Unpack(d, L, A)
  PROVE  Unpacked(st, d, L, A)
<1> DEFINE chosen(t) == CHOOSE k \in Live(A) : A[k].tick = t
           bucket == [t \in TicksOf(A) |-> BucketOf(A[chosen(t)])]
<1>1. st = [dir |-> d, bucket |-> bucket, ledger |-> L.entries, gcOffset |-> L.gcOffset,
            accruedTotal |-> L.accruedTotal, pending |-> L.pending]
  BY DEF Unpack, TicksOf
<1>2. ASSUME NEW k \in Live(A) PROVE bucket[A[k].tick] = BucketOf(A[k])
  <2>1. A[k].tick \in TicksOf(A)
    BY DEF TicksOf
  <2>2. chosen(A[k].tick) \in Live(A) /\ A[chosen(A[k].tick)].tick = A[k].tick
    OBVIOUS
  <2>3. chosen(A[k].tick) = k
    BY <2>2 DEF Orderly, OneTickEach
  <2> QED
    BY <2>1, <2>3
<1>3. bucket = [t \in DOMAIN bucket |-> bucket[t]] /\ DOMAIN bucket = TicksOf(A)
  OBVIOUS
<1> HIDE DEF bucket
<1>4. /\ st = [f \in StoreFields |-> st[f]]
      /\ st.dir = d /\ st.ledger = L.entries /\ st.gcOffset = L.gcOffset
      /\ st.accruedTotal = L.accruedTotal /\ st.pending = L.pending
      /\ st.bucket = bucket
  BY <1>1 DEF StoreFields
<1> QED
  BY <1>2, <1>3, <1>4 DEF Ticks, Unpacked

(* A store is what orderly accounts unpack to if they hold its buckets.    *)
Holds(A, st) ==
  /\ TicksOf(A) = Ticks(st)
  /\ \A k \in Live(A) : BucketOf(A[k]) = st.bucket[A[k].tick]

LEMMA UnpackHeld ==
  ASSUME NEW A, Orderly(A), NEW st, st = [f \in StoreFields |-> st[f]],
         st.bucket = [t \in Ticks(st) |-> st.bucket[t]], Holds(A, st)
  PROVE  Unpack(st.dir, LedgerOf(st), A) = st
<1> PICK u : u = Unpack(st.dir, LedgerOf(st), A)
  OBVIOUS
<1>1. /\ u = [f \in StoreFields |-> u[f]]
      /\ u.dir = st.dir /\ u.ledger = LedgerOf(st).entries /\ u.gcOffset = LedgerOf(st).gcOffset
      /\ u.accruedTotal = LedgerOf(st).accruedTotal /\ u.pending = LedgerOf(st).pending
      /\ Ticks(u) = TicksOf(A)
      /\ u.bucket = [t \in Ticks(u) |-> u.bucket[t]]
      /\ \A k \in Live(A) : u.bucket[A[k].tick] = BucketOf(A[k])
  BY UnpackFields DEF Unpacked
<1>2. /\ u.ledger = st.ledger /\ u.gcOffset = st.gcOffset /\ u.accruedTotal = st.accruedTotal
      /\ u.pending = st.pending
  BY <1>1 DEF LedgerOf
<1>3. u.bucket = st.bucket
  <2>1. Ticks(u) = Ticks(st)
    BY <1>1 DEF Holds
  <2>2. ASSUME NEW t \in Ticks(u) PROVE u.bucket[t] = st.bucket[t]
    <3>1. PICK k \in Live(A) : t = A[k].tick
      BY <1>1 DEF TicksOf
    <3> QED
      BY <1>1, <3>1 DEF Holds
  <2> QED
    BY <1>1, <2>1, <2>2
<1>4. \A f \in StoreFields : u[f] = st[f]
  BY <1>1, <1>2, <1>3 DEF StoreFields
<1> QED
  BY <1>1, <1>4

(* Only the accounts in use matter.                                        *)
LEMMA UnpackPart ==
  ASSUME NEW A, Orderly(A), NEW S, S \subseteq DOMAIN A, NEW B, B = [k \in S |-> A[k]]
  PROVE  /\ Orderly(B) /\ DOMAIN B = S /\ \A k \in S : B[k] = A[k]
         /\ Live(B) = Live(A) \cap S
<1>1. DOMAIN B = S /\ B = [k \in S |-> B[k]] /\ \A k \in S : B[k] = A[k]
  OBVIOUS
<1>2. Live(B) = Live(A) \cap S
  BY <1>1 DEF Live
<1>3. IsFiniteSet(S)
  BY FS_Subset DEF Orderly
<1>4. OneTickEach(B)
  BY <1>1, <1>2 DEF Orderly, OneTickEach
<1> QED
  BY <1>1, <1>2, <1>3, <1>4 DEF Orderly

(* What a caller passes: a list of accounts.                               *)
Ordered(order, S) == \E n \in Nat : order \in [1 .. n -> S]

LEMMA FirstFreeIsFree ==
  ASSUME NEW C, NEW n \in Nat, DOMAIN C = 1 .. n, FreeSlots(C) # {}
  PROVE  FirstFree(C) \in DOMAIN C /\ IsDead(C[FirstFree(C)])
<1>1. FreeSlots(C) \subseteq 1 .. n /\ FreeSlots(C) \subseteq Nat
  BY DEF FreeSlots
<1>2. Min(FreeSlots(C)) \in FreeSlots(C)
  BY <1>1, LeastNatural DEF Min
<1> QED
  BY <1>2 DEF FirstFree, FreeSlots

(* A packed list of accounts holds the store, when every live account was  *)
(* passed, none of its buckets is gone, and at most one bucket is new.     *)
Packable(A, st) ==
  /\ StoreTyped(st)
  /\ \A t \in Ticks(st) : st.bucket[t].shares > 0
  /\ TicksOf(A) \subseteq Ticks(st)
  /\ \A t, u \in Ticks(st) \ TicksOf(A) : t = u
  /\ \A t \in Ticks(st) \ TicksOf(A) : st.bucket[t].anchor > 0

LEMMA RecordLive ==
  ASSUME NEW st, StoreTyped(st), NEW t \in Ticks(st), st.bucket[t].shares > 0
  PROVE  /\ RecordOf(st, t) \in Account /\ ~IsDead(RecordOf(st, t))
         /\ RecordOf(st, t).tick = t /\ RecordOf(st, t).shares = st.bucket[t].shares
         /\ BucketOf(RecordOf(st, t)) = st.bucket[t]
         /\ RecordOf(st, t).anchor = st.bucket[t].anchor
         /\ RecordOf(st, t).lastApplied = st.bucket[t].lastApplied
<1>1. st.bucket[t] \in Bucket /\ t \in Nat
  BY DEF StoreTyped
<1>2. RecordOf(st, t) \in Account /\ ~IsDead(RecordOf(st, t))
  BY <1>1 DEF RecordOf, Account, IsDead, Bucket
<1>3. BucketOf(RecordOf(st, t)) = st.bucket[t]
  BY <1>1 DEF RecordOf, BucketOf, Bucket
<1> QED
  BY <1>2, <1>3 DEF RecordOf

LEMMA NothingKeptBack ==
  ASSUME NEW A, Orderly(A), NEW st, Packable(A, st)
  PROVE  /\ Kept(A, st) = Live(A)
         /\ \A k \in Live(A) : Refreshed(A, st)[k] = RecordOf(st, A[k].tick)
         /\ \A k \in DOMAIN A \ Live(A) : Refreshed(A, st)[k] = A[k]
         /\ Unplaced(A, st) = Ticks(st) \ TicksOf(A)
<1>1. Kept(A, st) = Live(A) /\ \A k \in Live(A) : A[k].tick \in Ticks(st)
  BY DEF Kept, Packable, TicksOf
<1>2. /\ \A k \in Live(A) : Refreshed(A, st)[k] = RecordOf(st, A[k].tick)
      /\ \A k \in DOMAIN A \ Live(A) : Refreshed(A, st)[k] = A[k]
  BY <1>1 DEF Refreshed, Live
<1>3. ASSUME NEW t \in TicksOf(A) PROVE AlreadyPlaced(A, st, t)
  <2>1. PICK k \in Live(A) : A[k].tick = t
    BY DEF TicksOf
  <2>2. Refreshed(A, st)[k] = RecordOf(st, t) /\ k \in DOMAIN A
    BY <1>2, <2>1 DEF Live
  <2> QED
    BY <2>2 DEF AlreadyPlaced, RecordOf
<1>4. ASSUME NEW t \in Ticks(st) \ TicksOf(A) PROVE ~AlreadyPlaced(A, st, t)
  <2> SUFFICES ASSUME NEW k \in DOMAIN A,
                      <<Refreshed(A, st)[k].tick, Refreshed(A, st)[k].anchor,
                        Refreshed(A, st)[k].lastApplied>>
                        = <<t, st.bucket[t].anchor, st.bucket[t].lastApplied>>
               PROVE  FALSE
    BY DEF AlreadyPlaced
  <2>1. Refreshed(A, st)[k].tick = t /\ Refreshed(A, st)[k].anchor = st.bucket[t].anchor
    OBVIOUS
  <2>2. CASE k \in Live(A)
    <3>1. Refreshed(A, st)[k].tick = A[k].tick
      <4>1. Refreshed(A, st)[k] = RecordOf(st, A[k].tick)
        BY <1>2, <2>2
      <4> QED
        BY <4>1 DEF RecordOf
    <3> QED
      BY <2>1, <2>2, <3>1 DEF TicksOf
  <2>3. CASE k \notin Live(A)
    <3>1. Refreshed(A, st)[k].anchor = 0
      BY <1>2, <2>3 DEF Orderly
    <3>2. st.bucket[t].anchor > 0 /\ st.bucket[t].anchor \in Nat
      BY DEF Packable, StoreTyped, Bucket
    <3> QED
      BY <2>1, <3>1, <3>2
  <2> QED
    BY <2>2, <2>3
<1>5. Unplaced(A, st) = Ticks(st) \ TicksOf(A)
  BY <1>3, <1>4 DEF Unplaced, Packable
<1> QED
  BY <1>1, <1>2, <1>5

LEMMA PackedHolds ==
  ASSUME NEW A, Orderly(A), NEW n \in Nat, DOMAIN A = 1 .. n,
         NEW st, Packable(A, st), ~SlotExhausted(A, st), NEW B, B = ProgramPack(A, st)
  PROVE  Orderly(B) /\ DOMAIN B = DOMAIN A /\ Holds(B, st)
<1> DEFINE new == Ticks(st) \ TicksOf(A)
           fresh == CHOOSE t \in new : TRUE
           free == FirstFree(A)
           put == IF new = {} THEN {} ELSE {free}
<1>1. /\ Kept(A, st) = Live(A)
      /\ \A k \in Live(A) : Refreshed(A, st)[k] = RecordOf(st, A[k].tick)
      /\ \A k \in DOMAIN A \ Live(A) : Refreshed(A, st)[k] = A[k]
      /\ Unplaced(A, st) = new
  BY NothingKeptBack
<1>2. new # {} => free \in DOMAIN A \ Live(A)
  <2>1. new # {} => FreeSlots(A) # {}
    BY <1>1 DEF SlotExhausted
  <2> QED
    BY <2>1, FirstFreeIsFree DEF Live
<1>3. put \subseteq DOMAIN A \ Live(A)
  BY <1>2
<1>4. new # {} => fresh \in new
  OBVIOUS
<1>5. new \subseteq {fresh}
  BY <1>4 DEF Packable
<1>6. B = [k \in DOMAIN A |-> IF k \in put THEN RecordOf(st, fresh) ELSE Refreshed(A, st)[k]]
  BY <1>1 DEF ProgramPack
<1>7. DOMAIN B = DOMAIN A /\ B = [k \in DOMAIN B |-> B[k]]
  BY <1>6
<1>8. /\ \A k \in put : B[k] = RecordOf(st, fresh)
      /\ \A k \in Live(A) : B[k] = RecordOf(st, A[k].tick)
      /\ \A k \in DOMAIN A \ (Live(A) \cup put) : B[k] = A[k]
  <2> HIDE DEF put, fresh, free, new
  <2>1. ASSUME NEW k \in put PROVE B[k] = RecordOf(st, fresh)
    BY <1>3, <1>6
  <2>2. ASSUME NEW k \in Live(A) PROVE B[k] = RecordOf(st, A[k].tick)
    BY <1>1, <1>3, <1>6 DEF Live
  <2>3. ASSUME NEW k \in DOMAIN A, k \notin Live(A), k \notin put PROVE B[k] = A[k]
    BY <1>1, <1>6, <2>3
  <2> QED
    BY <2>1, <2>2, <2>3
<1>9. put # {} => fresh \in new
  BY <1>4
<1> HIDE DEF put, fresh
<1>10. \A t \in Ticks(st) : /\ RecordOf(st, t) \in Account /\ ~IsDead(RecordOf(st, t))
                            /\ RecordOf(st, t).tick = t /\ RecordOf(st, t).shares > 0
                            /\ BucketOf(RecordOf(st, t)) = st.bucket[t]
  BY RecordLive DEF Packable
<1>11. Live(A) \subseteq DOMAIN A /\ put \subseteq DOMAIN A /\ put \cap Live(A) = {}
  BY <1>3 DEF Live
<1>12. \A k \in Live(A) : A[k].tick \in Ticks(st) /\ A[k].tick \in TicksOf(A)
  BY <1>11 DEF Packable, TicksOf, Live
<1>13. \A k \in put : fresh \in Ticks(st) /\ fresh \notin TicksOf(A)
  BY <1>9
<1>14. Live(B) = Live(A) \cup put
  <2>1. ASSUME NEW k \in Live(A) \cup put PROVE k \in Live(B)
    BY <1>7, <1>8, <1>10, <1>11, <1>12, <1>13 DEF Live
  <2>2. ASSUME NEW k \in DOMAIN A, k \notin Live(A) \cup put PROVE k \notin Live(B)
    BY <1>8, <2>2 DEF Live
  <2> QED
    BY <1>7, <2>1, <2>2 DEF Live
<1>15. \A k \in Live(B) : /\ B[k] \in Account /\ B[k].shares > 0
                          /\ BucketOf(B[k]) = st.bucket[B[k].tick] /\ B[k].tick \in Ticks(st)
                          /\ B[k].tick = IF k \in put THEN fresh ELSE A[k].tick
  BY <1>8, <1>10, <1>11, <1>12, <1>13, <1>14
<1>16. OneTickEach(B)
  <2> SUFFICES ASSUME NEW j \in Live(B), NEW k \in Live(B), B[j].tick = B[k].tick
               PROVE  j = k
    BY DEF OneTickEach
  <2>1. CASE j \in put /\ k \in put
    BY <2>1 DEF put
  <2>2. CASE j \in put /\ k \notin put
    BY <1>12, <1>13, <1>14, <1>15, <2>2
  <2>3. CASE j \notin put /\ k \in put
    BY <1>12, <1>13, <1>14, <1>15, <2>3
  <2>4. CASE j \notin put /\ k \notin put
    BY <1>14, <1>15, <2>4 DEF Orderly, OneTickEach
  <2> QED
    BY <2>1, <2>2, <2>3, <2>4
<1>17. Orderly(B)
  <2>1. IsFiniteSet(DOMAIN B)
    BY <1>7 DEF Orderly
  <2>2. \A k \in DOMAIN B \ Live(B) : B[k] = A[k] /\ k \in DOMAIN A \ Live(A)
    BY <1>7, <1>8, <1>14
  <2>3. \A k \in DOMAIN B : B[k] \in Account
    BY <1>7, <1>15, <2>2 DEF Orderly
  <2> QED
    BY <1>7, <1>15, <1>16, <2>1, <2>2, <2>3 DEF Orderly
<1>18. TicksOf(B) = Ticks(st)
  <2>1. TicksOf(B) \subseteq Ticks(st)
    BY <1>15 DEF TicksOf
  <2>2. ASSUME NEW t \in Ticks(st) PROVE t \in TicksOf(B)
    <3>1. CASE t \in TicksOf(A)
      <4>1. PICK k \in Live(A) : A[k].tick = t
        BY <3>1 DEF TicksOf
      <4>2. k \in Live(B) /\ B[k].tick = t
        BY <1>11, <1>14, <1>15, <4>1 DEF Live
      <4> QED
        BY <4>2 DEF TicksOf
    <3>2. CASE t \notin TicksOf(A)
      <4>1. t = fresh /\ new # {}
        BY <1>5, <3>2
      <4>2. free \in put
        BY <4>1 DEF put
      <4>3. free \in Live(B) /\ B[free].tick = t
        BY <1>14, <1>15, <4>1, <4>2
      <4> QED
        BY <4>3 DEF TicksOf
    <3> QED
      BY <3>1, <3>2
  <2> QED
    BY <2>1, <2>2
<1> QED
  BY <1>7, <1>15, <1>17, <1>18 DEF Holds

(* The list of all accounts has them all.                                  *)
LEMMA SetToSeqOnto ==
  ASSUME NEW S, IsFiniteSet(S)
  PROVE  Ordered(SetToSeq(S), S) /\ IsInjective(SetToSeq(S)) /\ ToSet(SetToSeq(S)) = S
<1> DEFINE n == Cardinality(S)
<1>1. n \in Nat /\ ExistsBijection(1 .. n, S)
  BY FS_CardinalityType
<1>2. \E f \in [1 .. n -> S] : IsInjective(f)
  BY <1>1 DEF ExistsBijection, Bijection, Injection
<1>3. SetToSeq(S) \in [1 .. n -> S] /\ IsInjective(SetToSeq(S))
  BY <1>2 DEF SetToSeq
<1>4. SetToSeq(S) \in Injection(1 .. n, S)
  BY <1>3 DEF Injection
<1>5. Cardinality(1 .. n) = n
  BY <1>1, FS_Interval
<1>6. SetToSeq(S) \in Surjection(1 .. n, S)
  BY <1>4, <1>5, FS_Injection
<1>7. ToSet(SetToSeq(S)) = S
  BY <1>3, <1>6 DEF Surjection, ToSet
<1> QED
  BY <1>1, <1>3, <1>7 DEF Ordered

(***************************************************************************)
(* Which buckets a call makes, and that it takes away none.                *)
(***************************************************************************)
(* What a call at price p does to the buckets of a side.                   *)
Grown(st, u, p) ==
  /\ AllHeld(u)
  /\ Ticks(st) \subseteq Ticks(u)
  /\ \A t, x \in Ticks(u) \ Ticks(st) : t = x
  /\ \A t \in Ticks(u) \ Ticks(st) : u.bucket[t].anchor = p

LEMMA SameGrown ==
  ASSUME NEW st, NEW u, SameShares(st, u), AllHeld(st), NEW p
  PROVE  Grown(st, u, p)
BY DEF SameShares, Grown, AllHeld

(* A side either keeps its buckets or ends a generation.                   *)
SideKept(s, u, d) ==
  /\ u.shares[d] = s.shares[d] /\ u.gen[d] = s.gen[d] /\ u.rotateLog[d] = s.rotateLog[d]
  /\ SameShares(s.dormant[d], u.dormant[d])

SideRotated(s, u, d, p) ==
  LET t == BucketTickOf(p)
  IN  /\ s.shares[d] # 0
      /\ u.rotateLog[d] = Append(s.rotateLog[d], [gen |-> s.gen[d], tick |-> t])
      /\ Ticks(u.dormant[d]) = Ticks(s.dormant[d]) \cup {t}
      /\ \A k : HeldIn(u.dormant[d], k)
                  = HeldIn(s.dormant[d], k) + (IF k = t THEN s.shares[d] ELSE 0)
      /\ t \notin Ticks(s.dormant[d]) => u.dormant[d].bucket[t].anchor = p

SideMoves(s, u, d, p) == SideKept(s, u, d) \/ SideRotated(s, u, d, p)

LEMMA KeptThenMoves ==
  ASSUME NEW s, NEW x, NEW u, NEW d, NEW p, SideKept(s, x, d), SideMoves(x, u, d, p)
  PROVE  SideMoves(s, u, d, p)
<1>1. CASE SideKept(x, u, d)
  BY <1>1 DEF SideMoves, SideKept, SameShares
<1>2. CASE SideRotated(x, u, d, p)
  <2>1. /\ x.shares[d] = s.shares[d] /\ x.gen[d] = s.gen[d] /\ x.rotateLog[d] = s.rotateLog[d]
        /\ SameShares(s.dormant[d], x.dormant[d])
    BY DEF SideKept
  <2>2. \A k : HeldIn(x.dormant[d], k) = HeldIn(s.dormant[d], k)
    BY <2>1, SameSharesHeld
  <2>3. Ticks(x.dormant[d]) = Ticks(s.dormant[d])
    BY <2>1 DEF SameShares
  <2> QED
    BY <1>2, <2>1, <2>2, <2>3 DEF SideRotated, SideMoves
<1> QED
  BY <1>1, <1>2 DEF SideMoves

LEMMA SameSide ==
  ASSUME NEW s, NEW u, NEW d, u.shares[d] = s.shares[d], u.gen[d] = s.gen[d],
         u.rotateLog[d] = s.rotateLog[d], u.dormant[d] = s.dormant[d]
  PROVE  SideKept(s, u, d) /\ (\A x, p : SideMoves(x, s, d, p) => SideMoves(x, u, d, p))
BY DEF SideKept, SameShares, SideMoves, SideRotated

LEMMA InsertTicks ==
  ASSUME NEW st, Shaped(st), NEW t, NEW anchor, NEW shares, NEW notional
  PROVE  LET u == InsertOrMerge(st, t, anchor, shares, notional)
         IN  /\ Ticks(u) = Ticks(st) \cup {t}
             /\ t \notin Ticks(st) => u.bucket[t].anchor = anchor
<1> DEFINE u == InsertOrMerge(st, t, anchor, shares, notional)
<1>1. CASE t \in Ticks(st)
  <2> DEFINE v == ApplyPending(st, {t})
  <2>1. u = [v EXCEPT !.bucket[t].shares = @ + shares, !.bucket[t].notional = @ + notional]
    BY <1>1 DEF InsertOrMerge
  <2>2. v = [f \in StoreFields |-> v[f]] /\ Ticks(v) = Ticks(st)
        /\ v.bucket = [x \in Ticks(v) |-> v.bucket[x]]
    BY ApplyReshapes DEF Reshaped, Shaped, SameShares
  <2> HIDE DEF v, u
  <2>3. PICK n : n = v.bucket[t].shares + shares
    OBVIOUS
  <2>4. DOMAIN u.bucket = DOMAIN v.bucket
    BY <2>1, <2>2 DEF StoreFields
  <2> QED
    BY <1>1, <2>2, <2>4 DEF Ticks, u
<1>2. CASE t \notin Ticks(st)
  <2> DEFINE fresh == [anchor |-> anchor, shares |-> shares, notional |-> notional,
                       accrued |-> 0, lastApplied |-> NextEventIndex(st)]
             B == [x \in Ticks(st) \cup {t} |-> IF x = t THEN fresh ELSE st.bucket[x]]
  <2>1. u = [st EXCEPT !.bucket = B]
    BY <1>2 DEF InsertOrMerge
  <2>2. B[t] = fresh /\ fresh.anchor = anchor /\ DOMAIN B = Ticks(st) \cup {t}
    OBVIOUS
  <2> HIDE DEF u, fresh, B
  <2>3. u.bucket = B
    BY <2>1 DEF Shaped, StoreFields
  <2> QED
    BY <2>2, <2>3 DEF Ticks, u
<1> QED
  BY <1>1, <1>2

OnSides(f) == f = [d \in Direction |-> f[d]]

LEMMA RotateMoves ==
  ASSUME NEW s, Partial(s), NEW d \in Direction, NEW p, Rotate(s, d, p).err = "Ok",
         NEW u, u = Rotate(s, d, p).sp, NEW e \in Direction,
         OnSides(s.gen), OnSides(s.rotateLog)
  PROVE  /\ e # d => /\ u.shares[e] = s.shares[e] /\ u.gen[e] = s.gen[e]
                     /\ u.rotateLog[e] = s.rotateLog[e] /\ u.dormant[e] = s.dormant[e]
         /\ e = d => SideMoves(s, u, e, p)
         /\ OnSides(u.gen) /\ OnSides(u.rotateLog)
<1>1. u = s \/ RotatesTo(s, d, p, u)
  BY RotateForm DEF Partial
<1>2. CASE u = s
  BY <1>2, SameSide DEF SideMoves
<1>3. CASE RotatesTo(s, d, p, u)
  <2> DEFINE t == BucketTickOf(p)
             st == InsertOrMerge(s.dormant[d], t, p, s.shares[d], s.notional[d])
             rec == RotateRecord(s, d, t)
  <2>1. /\ s.shares[d] # 0 /\ s.shares \in [Direction -> Nat]
        /\ s.dormant = [x \in Direction |-> s.dormant[x]] /\ Shaped(s.dormant[d])
        /\ u.shares = [s.shares EXCEPT ![d] = 0]
        /\ u.dormant = [s.dormant EXCEPT ![d] = st]
        /\ u.rotateLog = [s.rotateLog EXCEPT ![d] = Append(@, rec)]
        /\ u.gen = [s.gen EXCEPT ![d] = @ + 1]
    BY <1>3 DEF RotatesTo, Partial
  <2>2. Gained(s.dormant[d], st, t, s.shares[d])
    BY <2>1, InsertGains
  <2>3. /\ Ticks(st) = Ticks(s.dormant[d]) \cup {t}
        /\ t \notin Ticks(s.dormant[d]) => st.bucket[t].anchor = p
    BY <2>1, InsertTicks
  <2>4. rec = [gen |-> s.gen[d], tick |-> t]
    BY DEF RotateRecord
  <2> HIDE DEF st, rec, t
  <2>5. u.dormant[d] = st /\ u.rotateLog[d] = Append(s.rotateLog[d], rec)
    BY <2>1 DEF OnSides
  <2>6. SideRotated(s, u, d, p)
    BY <2>1, <2>2, <2>3, <2>4, <2>5 DEF SideRotated, Gained, t
  <2>7. OnSides(u.gen)
    BY <2>1 DEF OnSides
  <2>8. OnSides(u.rotateLog)
    <3>1. PICK y : y = Append(s.rotateLog[d], rec)
      OBVIOUS
    <3> QED
      BY <2>1, <3>1 DEF OnSides
  <2> QED
    BY <2>1, <2>6, <2>7, <2>8 DEF SideMoves
<1> QED
  BY <1>1, <1>2, <1>3

LEMMA SettleKeeps ==
  ASSUME NEW s, Partial(s), NEW w \in Direction, NEW p, Settle(s, w, p).err = "Ok",
         NEW t, t = Settle(s, w, p).sp, NEW d \in Direction
  PROVE  SideKept(s, t, d)
<1>1. /\ t.shares = s.shares /\ t.gen = s.gen /\ t.rotateLog = s.rotateLog
      /\ \/ t.dormant = s.dormant
         \/ \E n : t.dormant = [s.dormant EXCEPT ![w] = Distribute(@, p, n)]
  BY SettleForm DEF Partial
<1>2. CASE t.dormant = s.dormant
  BY <1>1, <1>2, SameSide
<1>3. ASSUME NEW n, t.dormant = [s.dormant EXCEPT ![w] = Distribute(@, p, n)]
      PROVE  SideKept(s, t, d)
  <2>1. SameShares(s.dormant[w], Distribute(s.dormant[w], p, n))
    BY DistributeReshapes DEF Partial, Reshaped
  <2>2. t.dormant[d] = IF d = w THEN Distribute(s.dormant[w], p, n) ELSE s.dormant[d]
    BY <1>3 DEF Partial
  <2> QED
    BY <1>1, <2>1, <2>2, SameSelf DEF SideKept
<1> QED
  BY <1>1, <1>2, <1>3

(* A sync moves a series into a bucket of its price's tick, or none.       *)
LEMMA SyncMoves ==
  ASSUME NEW s, Partial(s), OnSides(s.gen), OnSides(s.rotateLog),
         NEW p, SyncPool(s, p).err = "Ok", NEW d \in Direction
  PROVE  SideMoves(s, SyncPool(s, p).sp, d, p)
<1>1. CASE s.lastPrice \in {0, p}
  <2>1. SyncPool(s, p).sp = [s EXCEPT !.lastPrice = p]
    BY <1>1, CheckedSame DEF SyncPool
  <2>2. PICK u : u = [s EXCEPT !.lastPrice = p]
    OBVIOUS
  <2>3. u.shares = s.shares /\ u.gen = s.gen /\ u.rotateLog = s.rotateLog /\ u.dormant = s.dormant
    BY <2>2 DEF Partial, IsSubPool, SubPoolFields
  <2> QED
    BY <2>1, <2>2, <2>3, SameSide DEF SideMoves
<1>2. CASE s.lastPrice \notin {0, p}
  <2>1. PICK settled : settled = Settle(s, Winner(s, p), p)
    OBVIOUS
  <2>2. PICK priced : priced = [settled.sp EXCEPT !.lastPrice = p]
    OBVIOUS
  <2>3. PICK long : long = Rotate(priced, "Long", p)
    OBVIOUS
  <2>4. PICK both : both = Rotate(long.sp, "Short", p)
    OBVIOUS
  <2>5. /\ Winner(s, p) \in Direction /\ "Long" \in Direction /\ "Short" \in Direction
        /\ settled.err = "Ok" /\ long.err = "Ok" /\ both.err = "Ok"
        /\ SyncPool(s, p).sp = both.sp
    BY <1>2, <2>1, <2>2, <2>3, <2>4, SyncForm
  <2>6. Partial(settled.sp) /\ SideKept(s, settled.sp, d)
    BY <2>1, <2>5, SettleMisses, SettleKeeps
  <2>7. /\ Partial(priced) /\ priced.gen = s.gen /\ priced.rotateLog = s.rotateLog
        /\ priced.shares = settled.sp.shares /\ priced.dormant = settled.sp.dormant
    <3>1. settled.sp.gen = s.gen /\ settled.sp.rotateLog = s.rotateLog
      BY <2>1, <2>5, SettleForm DEF Partial
    <3>2. Partial(priced)
      BY <2>2, <2>6, RepricedMisses
    <3> QED
      BY <2>2, <2>6, <3>1, <3>2 DEF Partial, IsSubPool, SubPoolFields
  <2>8. SideKept(s, priced, d)
    BY <2>6, <2>7 DEF SideKept
  <2>9. Partial(long.sp)
    BY <2>3, <2>5, <2>7, RotateMisses
  <2>10. /\ OnSides(long.sp.gen) /\ OnSides(long.sp.rotateLog)
         /\ d = "Long" => SideMoves(priced, long.sp, d, p)
         /\ d # "Long" => /\ long.sp.shares[d] = priced.shares[d] /\ long.sp.gen[d] = priced.gen[d]
                          /\ long.sp.rotateLog[d] = priced.rotateLog[d]
                          /\ long.sp.dormant[d] = priced.dormant[d]
    BY <2>3, <2>5, <2>7, RotateMoves
  <2>11. /\ d = "Short" => SideMoves(long.sp, both.sp, d, p)
         /\ d # "Short" => /\ both.sp.shares[d] = long.sp.shares[d] /\ both.sp.gen[d] = long.sp.gen[d]
                           /\ both.sp.rotateLog[d] = long.sp.rotateLog[d]
                           /\ both.sp.dormant[d] = long.sp.dormant[d]
    <3>1. PICK x : x = long.sp
      OBVIOUS
    <3>2. PICK y : y = both.sp
      OBVIOUS
    <3>3. /\ Partial(x) /\ Rotate(x, "Short", p).err = "Ok" /\ y = Rotate(x, "Short", p).sp
          /\ OnSides(x.gen) /\ OnSides(x.rotateLog)
      BY <2>4, <2>5, <2>9, <2>10, <3>1, <3>2
    <3>5. "Short" \in Direction
      BY DEF Direction
    <3>6. PICK w : w = "Short"
      OBVIOUS
    <3>7. /\ w \in Direction /\ Rotate(x, w, p).err = "Ok" /\ y = Rotate(x, w, p).sp
      BY <3>3, <3>5, <3>6
    <3>8. /\ d # w => /\ y.shares[d] = x.shares[d] /\ y.gen[d] = x.gen[d]
                            /\ y.rotateLog[d] = x.rotateLog[d] /\ y.dormant[d] = x.dormant[d]
          /\ d = w => SideMoves(x, y, d, p)
      BY <3>3, <3>7, RotateMoves
    <3>4. /\ d # "Short" => /\ y.shares[d] = x.shares[d] /\ y.gen[d] = x.gen[d]
                            /\ y.rotateLog[d] = x.rotateLog[d] /\ y.dormant[d] = x.dormant[d]
          /\ d = "Short" => SideMoves(x, y, d, p)
      BY <3>6, <3>8
    <3> QED
      BY <3>1, <3>2, <3>4
  <2>12. CASE d = "Long"
    <3>1. SideMoves(priced, both.sp, d, p)
      BY <2>10, <2>11, <2>12, SameSide
    <3> QED
      BY <2>5, <2>8, <3>1, KeptThenMoves
  <2>13. CASE d = "Short"
    <3>1. SideKept(priced, long.sp, d)
      BY <2>10, <2>13, SameSide
    <3>2. SideMoves(priced, both.sp, d, p)
      BY <2>11, <2>13, <3>1, KeptThenMoves
    <3> QED
      BY <2>5, <2>8, <3>2, KeptThenMoves
  <2> QED
    BY <2>12, <2>13 DEF Direction
<1> QED
  BY <1>1, <1>2

LEMMA MovesGrown ==
  ASSUME NEW s, NEW u, NEW d \in Direction, NEW p, SideMoves(s, u, d, p),
         Shaped(s.dormant[d]), AllHeld(s.dormant[d]), s.shares[d] \in Nat
  PROVE  Grown(s.dormant[d], u.dormant[d], p)
<1>1. CASE SideKept(s, u, d)
  BY <1>1, SameGrown DEF SideKept
<1>2. CASE SideRotated(s, u, d, p)
  <2> DEFINE t == BucketTickOf(p)
             st == s.dormant[d]
             x == u.dormant[d]
  <2>1. /\ Ticks(x) = Ticks(st) \cup {t} /\ s.shares[d] > 0
        /\ \A k : HeldIn(x, k) = HeldIn(st, k) + (IF k = t THEN s.shares[d] ELSE 0)
        /\ t \notin Ticks(st) => x.bucket[t].anchor = p
    BY <1>2 DEF SideRotated
  <2>2. ASSUME NEW k \in Ticks(x) PROVE x.bucket[k].shares > 0
    <3>1. HeldIn(x, k) = x.bucket[k].shares
      BY DEF HeldIn
    <3>2. HeldIn(st, k) \in Nat
      BY ShapedHeld
    <3>3. CASE k = t
      BY <2>1, <3>1, <3>2, <3>3
    <3>4. CASE k # t
      <4>1. k \in Ticks(st)
        BY <2>1, <3>4
      <4>2. HeldIn(st, k) > 0
        BY <4>1 DEF HeldIn, AllHeld
      <4> QED
        BY <2>1, <3>1, <3>2, <3>4, <4>2
    <3> QED
      BY <3>3, <3>4
  <2> QED
    BY <2>1, <2>2 DEF Grown, AllHeld
<1> QED
  BY <1>1, <1>2 DEF SideMoves

(* The bucket a redemption takes from has just taken in what it gives.     *)
LEMMA RedeemGrown ==
  ASSUME NEW s, NEW u, NEW d \in Direction, NEW p, SideRotated(s, u, d, p),
         Shaped(s.dormant[d]), AllHeld(s.dormant[d]), s.shares[d] \in Nat,
         StoreSound(u.dormant[d]), NEW t, t = BucketTickOf(p), NEW n \in Nat, n > 0,
         n <= s.shares[d], CanRedeem(u.dormant[d], t, n), NEW z, z = Redeem(u.dormant[d], t, n)
  PROVE  Grown(s.dormant[d], z, p)
<1> DEFINE st == s.dormant[d]
           x == u.dormant[d]
<1>1. Grown(st, x, p)
  BY MovesGrown DEF SideMoves
<1>2. /\ AllHeld(z) /\ Ticks(z) \subseteq Ticks(x) /\ Ticks(x) \ {t} \subseteq Ticks(z)
      /\ n < x.bucket[t].shares => t \in Ticks(z)
      /\ \A k \in Ticks(z) : z.bucket[k].anchor = x.bucket[k].anchor
  BY <1>1, RedeemKeepsHeld DEF Grown
<1>3. ASSUME t \in Ticks(st) PROVE t \in Ticks(z)
  <2>1. HeldIn(x, t) = HeldIn(st, t) + s.shares[d] /\ t \in Ticks(x)
    BY DEF SideRotated
  <2>2. HeldIn(x, t) = x.bucket[t].shares /\ HeldIn(st, t) = st.bucket[t].shares
    BY <1>3, <2>1 DEF HeldIn
  <2>3. st.bucket[t].shares > 0 /\ st.bucket[t].shares \in Nat
    BY <1>3 DEF AllHeld, Shaped
  <2> QED
    BY <1>2, <2>1, <2>2, <2>3
<1>4. Ticks(st) \subseteq Ticks(z)
  BY <1>1, <1>2, <1>3 DEF Grown
<1> QED
  BY <1>1, <1>2, <1>4 DEF Grown

(* What a call of the program gives back of a side's buckets, if it redeems *)
(* only what its own rotation brought there.                               *)
LEMMA DepartureGrown ==
  ASSUME NEW s, Partial(s), OnSides(s.gen), s.rotateLog = Both(<<>>), NEW p,
         SyncPool(s, p).err = "Ok", NEW u, u = SyncPool(s, p).sp,
         \A e \in Direction : AllHeld(s.dormant[e]) /\ StoreSound(u.dormant[e]),
         NEW q, Holding(q), q.recovery = 0,
         q.gen = s.gen[q.dir] => q.shares <= s.shares[q.dir],
         CanMigrate(u, q), NEW m, m = Migrated(u, q), CanLeaveRecovery(u, m),
         NEW d \in Direction, NEW z,
         z = IF m.recovery = 0 \/ d # q.dir THEN u.dormant[d]
             ELSE Redeem(u.dormant[d], m.tick, m.recovery)
  PROVE  Grown(s.dormant[d], z, p)
<1>1. OnSides(s.rotateLog)
  BY DEF OnSides, Both
<1>2. SideMoves(s, u, d, p)
  BY <1>1, SyncMoves
<1>3. Shaped(s.dormant[d]) /\ s.shares[d] \in Nat
  BY DEF Partial
<1>4. CASE m.recovery = 0 \/ d # q.dir
  BY <1>2, <1>3, <1>4, MovesGrown
<1>5. CASE m.recovery # 0 /\ d = q.dir
  <2>1. IsPosition(q) /\ q.shares \in Nat
    BY DEF Holding
  <2>2. NeedsMigration(u, q)
    <3>1. SUFFICES ASSUME ~NeedsMigration(u, q) PROVE m.recovery = q.recovery
      BY <1>5
    <3> QED
      BY <2>1, <3>1 DEF Migrated, IsPosition, PositionFields
  <2>3. RotateRecords(u, q) # {} /\ q.shares > 0
    BY <2>2 DEF CanMigrate, NeedsMigration
  <2>4. s.rotateLog[d] = <<>>
    BY DEF Both
  <2>5. CASE SideKept(s, u, d)
    <3>1. u.rotateLog[d] = <<>>
      BY <2>4, <2>5 DEF SideKept
    <3> QED
      BY <1>5, <2>3, <3>1 DEF RotateRecords
  <2>6. CASE SideRotated(s, u, d, p)
    <3> DEFINE t == BucketTickOf(p)
               rec == [gen |-> s.gen[d], tick |-> t]
    <3>1. u.rotateLog[d] = <<rec>>
      BY <2>4, <2>6 DEF SideRotated
    <3>2. RotateRecords(u, q) = {1} /\ q.gen = s.gen[d]
      BY <1>5, <2>3, <3>1 DEF RotateRecords
    <3>3. Min(RotateRecords(u, q)) = 1
      <4>1. PICK k \in Int : k = 1
        OBVIOUS
      <4>2. Min({k}) = k
        BY SingletonMin
      <4>3. RotateRecords(u, q) = {k}
        BY <3>2, <4>1
      <4> QED
        BY <4>1, <4>2, <4>3
    <3>4. m.tick = t /\ m.recovery = q.recovery + q.shares
      <4>1. PICK r : r = u.rotateLog[q.dir][Min(RotateRecords(u, q))]
        OBVIOUS
      <4>2. r.tick = t
        BY <1>5, <3>1, <3>3, <4>1
      <4>3. m = [q EXCEPT !.recovery = @ + q.shares, !.tick = r.tick, !.shares = 0,
                          !.notional = 0, !.status = "Dormant", !.gen = u.gen[q.dir]]
        BY <2>2, <4>1 DEF Migrated
      <4> QED
        BY <2>1, <4>2, <4>3 DEF IsPosition, PositionFields
    <3>5. m.recovery = q.shares /\ m.dir = q.dir
      <4>1. m.dir = q.dir
        BY <2>1 DEF Migrated, IsPosition, PositionFields
      <4> QED
        BY <2>1, <3>4, <4>1
    <3>6. CanRedeem(u.dormant[d], t, q.shares) /\ q.shares <= s.shares[d]
      BY <1>5, <2>3, <3>2, <3>4, <3>5 DEF CanLeaveRecovery
    <3>7. z = Redeem(u.dormant[d], t, q.shares)
      BY <1>5, <3>4, <3>5
    <3> QED
      BY <1>3, <2>1, <2>3, <2>6, <3>6, <3>7, RedeemGrown
  <2> QED
    BY <1>2, <2>5, <2>6 DEF SideMoves
<1> QED
  BY <1>4, <1>5

(***************************************************************************)
(* The sub-pool that a set of accounts stands for.                         *)
(***************************************************************************)
WholeOf(acc, L, B, F) ==
  [pool |-> acc.pool, shares |-> acc.shares, notional |-> acc.notional,
   recovery |-> acc.recovery, dust |-> acc.dust, gen |-> acc.gen, rotateLog |-> F,
   dormant |-> [d \in Direction |-> Unpack(d, L[d], B[d])], lastPrice |-> acc.lastPrice]

(* s has the scalars of acc.                                               *)
Shows(s, acc) ==
  /\ IsSubPool(s)
  /\ s.pool = acc.pool /\ s.shares = acc.shares /\ s.notional = acc.notional
  /\ s.recovery = acc.recovery /\ s.dust = acc.dust /\ s.gen = acc.gen
  /\ s.lastPrice = acc.lastPrice

LEMMA WholeFields ==
  ASSUME NEW acc, NEW L, NEW B, NEW F, NEW s, s = WholeOf(acc, L, B, F)
  PROVE  /\ Shows(s, acc) /\ s.rotateLog = F
         /\ s.dormant = [d \in Direction |-> Unpack(d, L[d], B[d])]
<1>1. PICK D : D = [d \in Direction |-> Unpack(d, L[d], B[d])]
  OBVIOUS
<1>2. s = [pool |-> acc.pool, shares |-> acc.shares, notional |-> acc.notional,
           recovery |-> acc.recovery, dust |-> acc.dust, gen |-> acc.gen, rotateLog |-> F,
           dormant |-> D, lastPrice |-> acc.lastPrice]
  BY <1>1 DEF WholeOf
<1> QED
  BY <1>1, <1>2 DEF Shows, IsSubPool, SubPoolFields

LEMMA ShowsSame ==
  ASSUME NEW acc, NEW s, NEW u, Shows(s, acc), Shows(u, acc),
         s.rotateLog = u.rotateLog, s.dormant = u.dormant
  PROVE  s = u
BY DEF Shows, IsSubPool, SubPoolFields

LEMMA ClearingViewIs ==
  ASSUME NEW acc, NEW v, v = ClearingView(acc)
  PROVE  Shows(v, acc) /\ v.rotateLog = Both(<<>>) /\ v.dormant = [d \in Direction |-> NewStore(d)]
<1>1. PICK z, l, n : z = Both(0) /\ l = Both(<<>>) /\ n = [d \in Direction |-> NewStore(d)]
  OBVIOUS
<1>2. v = [[pool |-> z, shares |-> z, notional |-> z, recovery |-> z, dust |-> z, gen |-> z,
            rotateLog |-> l, dormant |-> n, lastPrice |-> 0] EXCEPT
             !.pool = acc.pool, !.shares = acc.shares, !.notional = acc.notional,
             !.recovery = acc.recovery, !.dust = acc.dust, !.gen = acc.gen,
             !.lastPrice = acc.lastPrice]
  BY <1>1 DEF ClearingView, NewSubPool
<1> QED
  BY <1>1, <1>2 DEF Shows, IsSubPool, SubPoolFields

LEMMA ViewWhole ==
  ASSUME NEW acc, NEW L, NEW A
  PROVE  [ClearingView(acc) EXCEPT !.dormant = [d \in Direction |-> Unpack(d, L[d], A[d])]]
           = WholeOf(acc, L, A, Both(<<>>))
<1>1. PICK D : D = [d \in Direction |-> Unpack(d, L[d], A[d])]
  OBVIOUS
<1>2. PICK c, v : c = ClearingView(acc) /\ v = [c EXCEPT !.dormant = D]
  OBVIOUS
<1>3. PICK s : s = WholeOf(acc, L, A, Both(<<>>))
  OBVIOUS
<1>4. Shows(v, acc) /\ v.rotateLog = Both(<<>>) /\ v.dormant = D
  <2>1. Shows(c, acc) /\ c.rotateLog = Both(<<>>)
    BY <1>2, ClearingViewIs
  <2>2. Shows(v, acc) /\ v.rotateLog = c.rotateLog /\ v.dormant = D
    BY <1>2, <2>1 DEF Shows, IsSubPool, SubPoolFields
  <2> QED
    BY <2>1, <2>2
<1>5. Shows(s, acc) /\ s.rotateLog = Both(<<>>)
      /\ s.dormant = [d \in Direction |-> Unpack(d, L[d], A[d])]
  BY <1>3, WholeFields
<1>6. v = s
  BY <1>1, <1>4, <1>5, ShowsSame
<1> QED
  BY <1>1, <1>2, <1>3, <1>6

LEMMA WithLog ==
  ASSUME NEW acc, NEW L, NEW A, NEW E, NEW F
  PROVE  [WholeOf(acc, L, A, E) EXCEPT !.rotateLog = F] = WholeOf(acc, L, A, F)
<1>1. PICK v : v = WholeOf(acc, L, A, E)
  OBVIOUS
<1>2. PICK s : s = WholeOf(acc, L, A, F)
  OBVIOUS
<1>3. PICK u : u = [v EXCEPT !.rotateLog = F]
  OBVIOUS
<1>4. Shows(v, acc) /\ v.dormant = [d \in Direction |-> Unpack(d, L[d], A[d])]
  BY <1>1, WholeFields
<1>5. Shows(s, acc) /\ s.rotateLog = F
      /\ s.dormant = [d \in Direction |-> Unpack(d, L[d], A[d])]
  BY <1>2, WholeFields
<1>6. Shows(u, acc) /\ u.rotateLog = F /\ u.dormant = v.dormant
  BY <1>3, <1>4 DEF Shows, IsSubPool, SubPoolFields
<1>7. u = s
  BY <1>4, <1>5, <1>6, ShowsSame
<1> QED
  BY <1>1, <1>2, <1>3, <1>7

(***************************************************************************)
(* A side of which some accounts are passed.                               *)
(***************************************************************************)
LEMMA BucketOfAccount ==
  ASSUME NEW a \in Account
  PROVE  IsBucket(BucketOf(a)) /\ BucketOf(a).shares = a.shares /\ BucketOf(a) \in Bucket
<1>1. PICK x1, x2, x3, x4, x5 \in Nat :
        x1 = a.anchor /\ x2 = a.shares /\ x3 = a.notional /\ x4 = a.accrued /\ x5 = a.lastApplied
  BY DEF Account
<1>2. BucketOf(a) = [anchor |-> x1, shares |-> x2, notional |-> x3, accrued |-> x4,
                     lastApplied |-> x5]
  BY <1>1 DEF BucketOf
<1> QED
  BY <1>1, <1>2 DEF IsBucket, BucketFields, Bucket

LEMMA UnpackShaped ==
  ASSUME NEW A, Orderly(A), NEW d, NEW L, NEW st, st = Unpack(d, L, A)
  PROVE  Shaped(st) /\ AllHeld(st) /\ Ticks(st) \subseteq Nat
         /\ \A t \in Ticks(st) : st.bucket[t] \in Bucket
<1>1. /\ st = [f \in StoreFields |-> st[f]] /\ Ticks(st) = TicksOf(A)
      /\ st.bucket = [t \in Ticks(st) |-> st.bucket[t]]
      /\ \A k \in Live(A) : st.bucket[A[k].tick] = BucketOf(A[k])
  BY UnpackFields DEF Unpacked
<1>2. IsFiniteSet(TicksOf(A)) /\ TicksOf(A) \subseteq Nat
  BY TicksFinite
<1>3. ASSUME NEW t \in Ticks(st)
      PROVE  /\ IsBucket(st.bucket[t]) /\ st.bucket[t].shares \in Nat /\ st.bucket[t].shares > 0
             /\ st.bucket[t] \in Bucket
  <2>1. PICK k \in Live(A) : A[k].tick = t
    BY <1>1 DEF TicksOf
  <2>2. st.bucket[t] = BucketOf(A[k])
    BY <1>1, <2>1
  <2>3. PICK a \in Account : a = A[k] /\ a.shares > 0
    BY DEF Orderly, Live
  <2>4. IsBucket(BucketOf(a)) /\ BucketOf(a).shares = a.shares /\ BucketOf(a) \in Bucket
    BY BucketOfAccount
  <2>5. a.shares \in Nat
    BY DEF Account
  <2> QED
    BY <2>2, <2>3, <2>4, <2>5
<1> QED
  BY <1>1, <1>2, <1>3 DEF Shaped, AllHeld

IsPart(A, all) == DOMAIN A \subseteq DOMAIN all /\ A = [k \in DOMAIN A |-> all[k]]

LEMMA PartOrderly ==
  ASSUME NEW all, Orderly(all), NEW A, IsPart(A, all)
  PROVE  /\ Orderly(A) /\ \A k \in DOMAIN A : A[k] = all[k]
         /\ Live(A) = Live(all) \cap DOMAIN A
BY UnpackPart DEF IsPart

LEMMA SidePassed ==
  ASSUME NEW all, Orderly(all), NEW A, IsPart(A, all),
         NEW d, NEW L, NEW st, st = Unpack(d, L, A), NEW w, w = Unpack(d, L, all)
  PROVE  TotalRecoveryShares(st) = TotalRecoveryShares(w) => st = w /\ Live(A) = Live(all)
<1>1. /\ Orderly(A) /\ \A k \in DOMAIN A : A[k] = all[k]
      /\ Live(A) = Live(all) \cap DOMAIN A /\ DOMAIN A \subseteq DOMAIN all
  BY PartOrderly DEF IsPart
<1>2. /\ Shaped(st) /\ Shaped(w) /\ AllHeld(w)
  BY <1>1, UnpackShaped
<1>3. /\ st = [f \in StoreFields |-> st[f]]
      /\ st.dir = d /\ st.ledger = L.entries /\ st.gcOffset = L.gcOffset
      /\ st.accruedTotal = L.accruedTotal /\ st.pending = L.pending
      /\ Ticks(st) = TicksOf(A)
      /\ \A k \in Live(A) : st.bucket[A[k].tick] = BucketOf(A[k])
  <2>1. Unpacked(st, d, L, A)
    BY <1>1, UnpackFields
  <2> QED
    BY <2>1 DEF Unpacked
<1>4. /\ w = [f \in StoreFields |-> w[f]]
      /\ w.dir = d /\ w.ledger = L.entries /\ w.gcOffset = L.gcOffset
      /\ w.accruedTotal = L.accruedTotal /\ w.pending = L.pending
      /\ Ticks(w) = TicksOf(all)
      /\ \A k \in Live(all) : w.bucket[all[k].tick] = BucketOf(all[k])
  <2>1. Unpacked(w, d, L, all)
    BY UnpackFields
  <2> QED
    BY <2>1 DEF Unpacked
<1>5. ASSUME TotalRecoveryShares(st) = TotalRecoveryShares(w)
      PROVE  st = w /\ Live(A) = Live(all)
  <2>1. Ticks(st) \subseteq Ticks(w)
    BY <1>1, <1>3, <1>4 DEF TicksOf
  <2>2. ASSUME NEW t \in Ticks(st) PROVE st.bucket[t] = w.bucket[t]
    <3>1. PICK k \in Live(A) : A[k].tick = t
      BY <1>3 DEF TicksOf
    <3>2. k \in Live(all) /\ all[k] = A[k]
      BY <1>1
    <3> QED
      BY <1>3, <1>4, <3>1, <3>2
  <2>3. Ticks(st) = Ticks(w) /\ st.bucket = w.bucket
    BY <1>2, <1>5, <2>1, <2>2, WholeStore DEF AllHeld
  <2>4. st = w
    <3>1. PICK x : x = st
      OBVIOUS
    <3>2. PICK y : y = w
      OBVIOUS
    <3>3. /\ x = [f \in StoreFields |-> x[f]] /\ y = [f \in StoreFields |-> y[f]]
          /\ x.dir = y.dir /\ x.ledger = y.ledger /\ x.gcOffset = y.gcOffset
          /\ x.accruedTotal = y.accruedTotal /\ x.pending = y.pending /\ x.bucket = y.bucket
      BY <1>3, <1>4, <2>3, <3>1, <3>2
    <3>4. x = y
      BY <3>3 DEF StoreFields
    <3> QED
      BY <3>1, <3>2, <3>4
  <2>5. ASSUME NEW k \in Live(all) PROVE k \in Live(A)
    <3>1. PICK j \in Live(A) : A[j].tick = all[k].tick
      BY <1>3, <1>4, <2>3 DEF TicksOf
    <3>2. j \in Live(all) /\ all[j].tick = all[k].tick
      BY <1>1, <3>1
    <3>3. j = k
      BY <3>2 DEF Orderly, OneTickEach
    <3> QED
      BY <3>3
  <2> QED
    BY <1>1, <2>4, <2>5
<1> QED
  BY <1>1, <1>5

(***************************************************************************)
(* The view of some of the accounts against the whole sub-pool.            *)
(***************************************************************************)
Passes(A, B) == \A d \in Direction : IsPart(A[d], B[d])

(* What the engine's calls need of the sub-pool they work on.              *)
Sound(W) == Numbered(W) /\ PoolSound(W) /\ SubPoolSound(W)

LEMMA SoundRecovery ==
  ASSUME NEW W, PoolSound(W), SubPoolSound(W)
  PROVE  W.recovery \in [Direction -> Int]
<1>1. ASSUME NEW d \in Direction PROVE W.recovery[d] \in Int
  <2>1. Shaped(W.dormant[d])
    BY TypedShaped DEF PoolSound, StoreSound
  <2>2. TotalRecoveryShares(W.dormant[d]) \in Nat
    BY <2>1, ShapedTotal
  <2> QED
    BY <2>2 DEF SubPoolSound
<1>2. W.recovery = [d \in Direction |-> W.recovery[d]]
  BY DEF PoolSound
<1> QED
  BY <1>1, <1>2

LEMMA ViewPartial ==
  ASSUME NEW acc, NEW L, NEW B, NEW F, NEW W, W = WholeOf(acc, L, B, F), Sound(W),
         \A d \in Direction : Orderly(B[d]), NEW A, Passes(A, B),
         NEW V, V = WholeOf(acc, L, A, Both(<<>>))
  PROVE  Partial(V) /\ OnSides(V.gen) /\ V.rotateLog = Both(<<>>)
<1>1. Shows(V, acc) /\ V.rotateLog = Both(<<>>)
      /\ V.dormant = [d \in Direction |-> Unpack(d, L[d], A[d])]
  BY WholeFields
<1>2. Shows(W, acc)
  BY WholeFields
<1>3. /\ IsSubPool(V) /\ V.shares = W.shares /\ V.recovery = W.recovery /\ V.gen = W.gen
  BY <1>1, <1>2 DEF Shows
<1>4. /\ W.shares \in [Direction -> Nat] /\ W.recovery \in [Direction -> Int]
      /\ W.gen \in [Direction -> Nat]
  BY SoundRecovery DEF Sound, PoolSound, Numbered
<1>5. V.dormant = [d \in Direction |-> V.dormant[d]]
  BY <1>1
<1>6. ASSUME NEW d \in Direction PROVE Shaped(V.dormant[d])
  <2>1. Orderly(A[d])
    BY PartOrderly DEF Passes
  <2>2. V.dormant[d] = Unpack(d, L[d], A[d])
    BY <1>1
  <2> QED
    BY <2>1, <2>2, UnpackShaped
<1> QED
  BY <1>1, <1>3, <1>4, <1>5, <1>6 DEF Partial, OnSides

LEMMA ViewIsWhole ==
  ASSUME NEW acc, NEW L, NEW B, NEW F, NEW W, W = WholeOf(acc, L, B, F), Sound(W),
         \A d \in Direction : Orderly(B[d]), NEW A, Passes(A, B),
         NEW V, V = WholeOf(acc, L, A, Both(<<>>)), AllThere(V)
  PROVE  /\ Carries(F, V, W) /\ V.dormant = W.dormant
         /\ \A d \in Direction : Live(A[d]) = Live(B[d])
<1>1. Shows(V, acc) /\ V.rotateLog = Both(<<>>)
      /\ V.dormant = [d \in Direction |-> Unpack(d, L[d], A[d])]
  BY WholeFields
<1>2. Shows(W, acc) /\ W.rotateLog = F
      /\ W.dormant = [d \in Direction |-> Unpack(d, L[d], B[d])]
  BY WholeFields
<1>3. ASSUME NEW d \in Direction
      PROVE  Unpack(d, L[d], A[d]) = Unpack(d, L[d], B[d]) /\ Live(A[d]) = Live(B[d])
  <2>1. V.dormant[d] = Unpack(d, L[d], A[d]) /\ W.dormant[d] = Unpack(d, L[d], B[d])
    BY <1>1, <1>2
  <2>2. TotalRecoveryShares(V.dormant[d]) = V.recovery[d]
        /\ TotalRecoveryShares(W.dormant[d]) = W.recovery[d]
    BY DEF AllThere, Sound, SubPoolSound
  <2>3. V.recovery = W.recovery
    BY <1>1, <1>2 DEF Shows
  <2> QED
    <3>1. PICK x, y, a, b : /\ x = V.dormant[d] /\ y = W.dormant[d] /\ a = A[d] /\ b = B[d]
      OBVIOUS
    <3>2. Orderly(b) /\ IsPart(a, b) /\ x = Unpack(d, L[d], a) /\ y = Unpack(d, L[d], b)
          /\ TotalRecoveryShares(x) = TotalRecoveryShares(y)
      BY <2>1, <2>2, <2>3, <3>1 DEF Passes
    <3>3. x = y /\ Live(a) = Live(b)
      BY <3>2, SidePassed
    <3> QED
      BY <2>1, <3>1, <3>3
<1>4. V.dormant = W.dormant
  BY <1>1, <1>2, <1>3
<1>5. Alike(V, W)
  BY <1>1, <1>2, <1>4 DEF Shows, Alike
<1>6. /\ W.gen \in [Direction -> Nat] /\ W.rotateLog = [d \in Direction |-> W.rotateLog[d]]
      /\ \A d \in Direction : W.rotateLog[d] \in Seq([gen : Nat, tick : Nat])
  BY DEF Sound, Numbered, IsLog
<1>7. ASSUME NEW d \in Direction
      PROVE  /\ F[d] \in Seq([gen : Nat, tick : Nat]) /\ V.rotateLog[d] \in Seq([gen : Nat, tick : Nat])
             /\ F[d] \o V.rotateLog[d] = W.rotateLog[d]
  <2>1. PICK T, l : T = [gen : Nat, tick : Nat] /\ l = F[d] /\ l \in Seq(T)
    BY <1>2, <1>6
  <2>2. V.rotateLog[d] = <<>>
    BY <1>1 DEF Both
  <2>3. l \o <<>> = l /\ <<>> \in Seq(T)
    BY <2>1
  <2> QED
    BY <1>2, <2>1, <2>2, <2>3
<1>8. Logs(F, V)
  BY <1>7 DEF Logs
<1>9. W.rotateLog = [d \in Direction |-> F[d] \o V.rotateLog[d]]
  BY <1>6, <1>7
<1>10. V.rotateLog = [d \in Direction |-> V.rotateLog[d]]
  BY <1>1 DEF Both
<1> QED
  BY <1>3, <1>4, <1>5, <1>6, <1>8, <1>9, <1>10 DEF Carries, Continues, Alike

(***************************************************************************)
(* Writing back.                                                           *)
(***************************************************************************)
LEMMA AccountShows ==
  ASSUME NEW a, NEW v, Alike(a, v), NEW acc, acc = AccountOf(a)
  PROVE  Shows(v, acc)
<1>1. /\ acc.pool = a.pool /\ acc.shares = a.shares /\ acc.notional = a.notional
      /\ acc.recovery = a.recovery /\ acc.dust = a.dust /\ acc.gen = a.gen
      /\ acc.lastPrice = a.lastPrice
  BY DEF AccountOf
<1> QED
  BY <1>1 DEF Shows, Alike

LEMMA Repacked ==
  ASSUME NEW a, NEW v, Alike(a, v), PoolSound(v),
         NEW B, \A d \in Direction : Orderly(B[d]) /\ Holds(B[d], v.dormant[d]),
         NEW L, \A d \in Direction : L[d] = LedgerOf(a.dormant[d])
  PROVE  WholeOf(AccountOf(a), L, B, v.rotateLog) = v
<1>1. PICK acc, G, s :
        acc = AccountOf(a) /\ G = v.rotateLog /\ s = WholeOf(acc, L, B, G)
  OBVIOUS
<1>2. Shows(s, acc) /\ s.rotateLog = G /\ s.dormant = [d \in Direction |-> Unpack(d, L[d], B[d])]
  BY <1>1, WholeFields
<1>3. Alike(a, v) /\ v.rotateLog = G
  BY <1>1
<1>4. Shows(v, acc)
  BY <1>1, <1>3, AccountShows
<1>5. a.dormant = v.dormant
  BY <1>3 DEF Alike
<1>6. ASSUME NEW d \in Direction PROVE Unpack(d, L[d], B[d]) = v.dormant[d]
  <2>1. PICK st, b : st = v.dormant[d] /\ b = B[d]
    OBVIOUS
  <2>2. /\ st = [f \in StoreFields |-> st[f]] /\ st.bucket = [t \in Ticks(st) |-> st.bucket[t]]
        /\ st.dir = d
    BY <2>1 DEF PoolSound, StoreSound, StoreTyped
  <2>3. Unpack(st.dir, LedgerOf(st), b) = st
    BY <2>1, <2>2, UnpackHeld
  <2>4. L[d] = LedgerOf(st)
    BY <1>5, <2>1
  <2> QED
    BY <2>1, <2>2, <2>3, <2>4
<1>7. v.dormant = [d \in Direction |-> v.dormant[d]]
  BY DEF PoolSound
<1>8. s.dormant = v.dormant
  BY <1>2, <1>6, <1>7
<1>9. s = v
  BY <1>2, <1>3, <1>4, <1>8, ShowsSame
<1> QED
  BY <1>1, <1>9

LEMMA GrownPackable ==
  ASSUME NEW A, NEW old, TicksOf(A) = Ticks(old), NEW st, StoreTyped(st),
         NEW p \in Nat, p > 0, Grown(old, st, p)
  PROVE  Packable(A, st)
BY DEF Grown, AllHeld, Packable

LEMMA OrderedSet ==
  ASSUME NEW order, NEW S, Ordered(order, S)
  PROVE  ToSet(order) \subseteq S /\ Ordered(order, ToSet(order))
BY DEF Ordered, ToSet

(* The copies a call works on, one for each place of a list that names no  *)
(* account twice, and the accounts they are copies of.                     *)
CopiesOf(order, A) == [i \in DOMAIN order |-> A[order[i]]]

LEMMA CopiesFaithful ==
  ASSUME NEW A, Orderly(A), NEW order, Ordered(order, DOMAIN A), IsInjective(order),
         ToSet(order) = DOMAIN A, NEW C, C = CopiesOf(order, A)
  PROVE  /\ Orderly(C) /\ TicksOf(C) = TicksOf(A)
         /\ \A i \in DOMAIN order : i \in Live(C) <=> order[i] \in Live(A)
<1>1. PICK n \in Nat : order \in [1 .. n -> DOMAIN A]
  BY DEF Ordered
<1>2. /\ DOMAIN C = DOMAIN order /\ DOMAIN C = 1 .. n /\ C = [i \in DOMAIN C |-> C[i]]
      /\ \A i \in DOMAIN order : C[i] = A[order[i]] /\ order[i] \in DOMAIN A
  BY <1>1 DEF CopiesOf
<1>3. \A i \in DOMAIN order : i \in Live(C) <=> order[i] \in Live(A)
  BY <1>2 DEF Live
<1>4. \A i \in Live(C) : i \in DOMAIN order
  BY <1>2 DEF Live
<1>5. OneTickEach(C)
  <2> SUFFICES ASSUME NEW i \in Live(C), NEW j \in Live(C), C[i].tick = C[j].tick
               PROVE  i = j
    BY DEF OneTickEach
  <2>1. order[i] \in Live(A) /\ order[j] \in Live(A) /\ A[order[i]].tick = A[order[j]].tick
    BY <1>2, <1>3, <1>4
  <2>2. order[i] = order[j]
    BY <2>1 DEF Orderly, OneTickEach
  <2> QED
    BY <1>4, <2>2 DEF IsInjective
<1>6. Orderly(C)
  <2>1. IsFiniteSet(DOMAIN C)
    BY <1>2, FS_Interval
  <2>2. \A i \in DOMAIN C : C[i] \in Account
    BY <1>2 DEF Orderly
  <2>3. \A i \in Live(C) : C[i].shares > 0
    BY <1>2, <1>3, <1>4 DEF Orderly
  <2>4. \A i \in DOMAIN C \ Live(C) : C[i].anchor = 0 /\ C[i].lastApplied = 0
    BY <1>2, <1>3 DEF Orderly
  <2> QED
    BY <1>2, <1>5, <2>1, <2>2, <2>3, <2>4 DEF Orderly
<1>7. TicksOf(C) = TicksOf(A)
  <2>1. ASSUME NEW t \in TicksOf(C) PROVE t \in TicksOf(A)
    <3>1. PICK i \in Live(C) : t = C[i].tick
      BY DEF TicksOf
    <3> QED
      BY <1>2, <1>3, <1>4, <3>1 DEF TicksOf
  <2>2. ASSUME NEW t \in TicksOf(A) PROVE t \in TicksOf(C)
    <3>1. PICK k \in Live(A) : t = A[k].tick
      BY DEF TicksOf
    <3>2. PICK i \in DOMAIN order : order[i] = k
      BY <3>1 DEF Live, ToSet
    <3> QED
      BY <1>2, <1>3, <3>1, <3>2 DEF TicksOf
  <2> QED
    BY <2>1, <2>2
<1> QED
  BY <1>3, <1>6, <1>7

(* What a caller lists is a part of the accounts.                          *)
LEMMA ListedPart ==
  ASSUME NEW all, Orderly(all), NEW order, Ordered(order, DOMAIN all), IsInjective(order),
         NEW A, A = [k \in ToSet(order) |-> all[k]], NEW C, C = CopiesOf(order, all)
  PROVE  /\ IsPart(A, all) /\ Orderly(A) /\ DOMAIN A = ToSet(order)
         /\ \A k \in DOMAIN A : A[k] = all[k]
         /\ Orderly(C) /\ TicksOf(C) = TicksOf(A)
         /\ \A i \in DOMAIN order : i \in Live(C) <=> order[i] \in Live(A)
<1>1. ToSet(order) \subseteq DOMAIN all /\ Ordered(order, ToSet(order))
  BY OrderedSet
<1>2. IsPart(A, all) /\ DOMAIN A = ToSet(order)
  BY <1>1 DEF IsPart
<1>3. Orderly(A) /\ \A k \in DOMAIN A : A[k] = all[k]
  BY <1>2, PartOrderly
<1>4. \A i \in DOMAIN order : A[order[i]] = all[order[i]]
  BY <1>2, <1>3 DEF ToSet
<1>5. C = CopiesOf(order, A)
  BY <1>4 DEF CopiesOf
<1>6. Orderly(C) /\ TicksOf(C) = TicksOf(A)
      /\ \A i \in DOMAIN order : i \in Live(C) <=> order[i] \in Live(A)
  BY <1>1, <1>2, <1>3, <1>5, CopiesFaithful
<1> QED
  BY <1>2, <1>3, <1>6

LEMMA CopiesUnpack ==
  ASSUME NEW A, Orderly(A), NEW C, Orderly(C), TicksOf(C) = TicksOf(A),
         NEW order, \A i \in Live(C) : order[i] \in Live(A) /\ C[i] = A[order[i]],
         NEW d, NEW L
  PROVE  Unpack(d, L, C) = Unpack(d, L, A)
<1>1. PICK x, y : x = Unpack(d, L, C) /\ y = Unpack(d, L, A)
  OBVIOUS
<1>2. Unpacked(x, d, L, C) /\ Unpacked(y, d, L, A)
  BY <1>1, UnpackFields
<1>3. Ticks(x) = Ticks(y)
  BY <1>2 DEF Unpacked
<1>4. ASSUME NEW t \in Ticks(x) PROVE x.bucket[t] = y.bucket[t]
  <2>1. PICK i \in Live(C) : t = C[i].tick
    BY <1>2 DEF Unpacked, TicksOf
  <2>2. x.bucket[C[i].tick] = BucketOf(C[i])
    BY <1>2 DEF Unpacked
  <2>3. y.bucket[A[order[i]].tick] = BucketOf(A[order[i]])
    BY <1>2 DEF Unpacked
  <2> QED
    BY <2>1, <2>2, <2>3
<1>5. x.bucket = y.bucket
  BY <1>2, <1>3, <1>4 DEF Unpacked
<1>6. \A f \in StoreFields : x[f] = y[f]
  BY <1>2, <1>5 DEF Unpacked, StoreFields
<1>7. x = y
  BY <1>2, <1>6 DEF Unpacked
<1> QED
  BY <1>1, <1>7

LEMMA MaxOfOne ==
  ASSUME NEW n \in Nat
  PROVE  Max({n}) = n
<1>1. n \in {n} /\ \A y \in {n} : n >= y
  OBVIOUS
<1> QED
  BY <1>1 DEF Max

(* One side of a call that packs its store back: the copies go over the    *)
(* accounts they are copies of.                                            *)
LEMMA SidePacked ==
  ASSUME NEW all, Orderly(all), NEW order, Ordered(order, DOMAIN all), IsInjective(order),
         NEW A, A = [k \in ToSet(order) |-> all[k]], Live(A) = Live(all),
         NEW C, C = CopiesOf(order, all),
         NEW d, NEW L, NEW old, old = Unpack(d, L, all),
         NEW st, StoreTyped(st), NEW p \in Nat, p > 0, Grown(old, st, p),
         ~SlotExhausted(C, st), NEW P, P = ProgramPack(C, st),
         NEW B, B = [k \in DOMAIN all |->
                       IF k \in ToSet(order)
                       THEN P[Max({i \in DOMAIN order : order[i] = k})] ELSE all[k]]
  PROVE  Orderly(B) /\ DOMAIN B = DOMAIN all /\ Holds(B, st)
<1>1. PICK n \in Nat : order \in [1 .. n -> DOMAIN all]
  BY DEF Ordered
<1>2. /\ Orderly(A) /\ DOMAIN A = ToSet(order) /\ \A k \in DOMAIN A : A[k] = all[k]
      /\ Orderly(C) /\ TicksOf(C) = TicksOf(A)
  BY ListedPart
<1>3. TicksOf(A) = Ticks(old)
  <2>1. Unpacked(old, d, L, all)
    BY UnpackFields
  <2>2. \A k \in Live(A) : A[k] = all[k]
    BY <1>2 DEF Live
  <2> QED
    BY ZenonT(30), <2>1, <2>2 DEF Unpacked, TicksOf
<1>4. Packable(C, st)
  <2>1. TicksOf(C) = Ticks(old)
    BY <1>2, <1>3
  <2> QED
    BY <2>1, GrownPackable
<1>5. DOMAIN order = 1 .. n /\ DOMAIN C = 1 .. n
  BY <1>1 DEF CopiesOf
<1>6. Orderly(P) /\ DOMAIN P = 1 .. n /\ Holds(P, st)
  <2>1. Orderly(P) /\ DOMAIN P = DOMAIN C /\ Holds(P, st)
    BY ONLY <1>2, <1>4, <1>5, n \in Nat, ~SlotExhausted(C, st), P = ProgramPack(C, st),
            PackedHolds
  <2> QED
    BY <1>5, <2>1
<1>7. DOMAIN B = DOMAIN all /\ B = [k \in DOMAIN B |-> B[k]]
  OBVIOUS
<1>8. ASSUME NEW i \in 1 .. n PROVE order[i] \in DOMAIN B /\ B[order[i]] = P[i]
  <2>1. {j \in DOMAIN order : order[j] = order[i]} = {i}
    BY <1>5 DEF IsInjective
  <2>2. Max({j \in DOMAIN order : order[j] = order[i]}) = i
    BY <2>1, MaxOfOne
  <2>3. order[i] \in ToSet(order) /\ order[i] \in DOMAIN all
    BY <1>1, <1>5 DEF ToSet
  <2> QED
    BY <2>2, <2>3
<1>9. ASSUME NEW k \in DOMAIN all, k \notin ToSet(order)
      PROVE  B[k] = all[k] /\ k \notin Live(all) /\ IsDead(B[k])
  <2>1. B[k] = all[k]
    BY <1>9
  <2>2. k \notin Live(all)
    BY <1>2, <1>9 DEF Live
  <2> QED
    BY <2>1, <2>2 DEF Live
<1>10. ASSUME NEW k \in ToSet(order) PROVE \E i \in 1 .. n : order[i] = k
  BY <1>5 DEF ToSet
<1>11. ASSUME NEW i \in 1 .. n PROVE order[i] \in Live(B) <=> i \in Live(P)
  BY <1>6, <1>8 DEF Live
<1>12. ASSUME NEW k \in Live(B) PROVE \E i \in Live(P) : order[i] = k /\ B[k] = P[i]
  <2>1. k \in ToSet(order)
    BY <1>7, <1>9 DEF Live
  <2>2. PICK i \in 1 .. n : order[i] = k
    BY <1>10, <2>1
  <2> QED
    BY <1>8, <1>11, <2>2
<1>13. ASSUME NEW i \in Live(P) PROVE order[i] \in Live(B) /\ B[order[i]] = P[i]
  BY <1>6, <1>8, <1>11 DEF Live
<1>14. OneTickEach(B)
  <2> SUFFICES ASSUME NEW j \in Live(B), NEW k \in Live(B), B[j].tick = B[k].tick
               PROVE  j = k
    BY DEF OneTickEach
  <2>1. PICK x \in Live(P) : order[x] = j /\ B[j] = P[x]
    BY <1>12
  <2>2. PICK y \in Live(P) : order[y] = k /\ B[k] = P[y]
    BY <1>12
  <2>3. x = y
    BY <1>6, <2>1, <2>2 DEF Orderly, OneTickEach
  <2> QED
    BY <2>1, <2>2, <2>3
<1>15. ASSUME NEW k \in DOMAIN B
       PROVE  B[k] \in Account /\ (k \in Live(B) => B[k].shares > 0)
              /\ (k \notin Live(B) => B[k].anchor = 0 /\ B[k].lastApplied = 0)
  <2>1. CASE k \in ToSet(order)
    <3>1. PICK i \in 1 .. n : order[i] = k
      BY <1>10, <2>1
    <3>2. B[k] = P[i] /\ (k \in Live(B) <=> i \in Live(P))
      BY <1>8, <1>11, <3>1
    <3> QED
      BY <1>6, <3>2 DEF Orderly
  <2>2. CASE k \notin ToSet(order)
    <3>1. B[k] = all[k] /\ k \in DOMAIN all \ Live(all) /\ k \notin Live(B)
      BY <1>7, <1>9, <2>2 DEF Live
    <3> QED
      BY <3>1 DEF Orderly
  <2> QED
    BY <2>1, <2>2
<1>16. Orderly(B)
  <2>1. IsFiniteSet(DOMAIN B)
    BY <1>7 DEF Orderly
  <2>2. \A k \in Live(B) : k \in DOMAIN B
    BY DEF Live
  <2> QED
    BY <1>7, <1>14, <1>15, <2>1, <2>2 DEF Orderly
<1>17. TicksOf(B) = Ticks(st)
  <2>1. TicksOf(B) = TicksOf(P)
    <3>1. ASSUME NEW t \in TicksOf(B) PROVE t \in TicksOf(P)
      <4>1. PICK k \in Live(B) : t = B[k].tick
        BY DEF TicksOf
      <4>2. PICK i \in Live(P) : B[k] = P[i]
        BY <1>12
      <4> QED
        BY ONLY <4>1, <4>2 DEF TicksOf
    <3>2. ASSUME NEW t \in TicksOf(P) PROVE t \in TicksOf(B)
      <4>1. PICK i \in Live(P) : t = P[i].tick
        BY DEF TicksOf
      <4>2. order[i] \in Live(B) /\ B[order[i]] = P[i]
        BY <1>13
      <4> QED
        BY ONLY <4>1, <4>2 DEF TicksOf
    <3> QED
      BY <3>1, <3>2
  <2> QED
    BY <1>6, <2>1 DEF Holds
<1>18. ASSUME NEW k \in Live(B) PROVE BucketOf(B[k]) = st.bucket[B[k].tick]
  <2>1. PICK i \in Live(P) : B[k] = P[i]
    BY <1>12
  <2>2. BucketOf(P[i]) = st.bucket[P[i].tick]
    BY <1>6 DEF Holds
  <2> QED
    BY ONLY <2>1, <2>2
<1> QED
  BY <1>7, <1>16, <1>17, <1>18 DEF Holds

(***************************************************************************)
(* The accounts, and what they stand for.                                  *)
(***************************************************************************)
Tidy == \A d \in Direction : Orderly(buckets[d])

LEMMA EqualParts ==
  ASSUME NEW acc, NEW L, NEW A, NEW B, NEW F,
         \A d \in Direction : Unpack(d, L[d], A[d]) = Unpack(d, L[d], B[d])
  PROVE  WholeOf(acc, L, A, F) = WholeOf(acc, L, B, F)
<1>1. PICK s, u : s = WholeOf(acc, L, A, F) /\ u = WholeOf(acc, L, B, F)
  OBVIOUS
<1>2. /\ Shows(s, acc) /\ s.rotateLog = F /\ s.dormant = [d \in Direction |-> Unpack(d, L[d], A[d])]
  BY <1>1, WholeFields
<1>3. /\ Shows(u, acc) /\ u.rotateLog = F /\ u.dormant = [d \in Direction |-> Unpack(d, L[d], B[d])]
  BY <1>1, WholeFields
<1>4. s.dormant = u.dormant
  BY <1>2, <1>3
<1>5. s = u
  BY <1>2, <1>3, <1>4, ShowsSame
<1> QED
  BY <1>1, <1>5

LEMMA WholeIs == Whole = WholeOf(subPool, ledger, buckets, forgotten)
<1>1. ViewOn(buckets) = WholeOf(subPool, ledger, buckets, Both(<<>>))
  BY ViewWhole DEF ViewOn
<1> QED
  BY <1>1, WithLog DEF Whole

LEMMA WholeIsNext == Whole' = WholeOf(subPool', ledger', buckets', forgotten')
<1>1. (Whole = WholeOf(subPool, ledger, buckets, forgotten))'
  BY WholeIs, PTL
<1> QED
  BY <1>1

(* A list that names accounts, none of them twice, and what it names.      *)
Listable(list) ==
  \A d \in Direction : Ordered(list[d], DOMAIN buckets[d]) /\ IsInjective(list[d])

Passed(list, d) == [k \in ToSet(list[d]) |-> buckets[d][k]]

LEMMA CopiesAre ==
  ASSUME NEW list, NEW d \in Direction
  PROVE  Copies(list)[d] = CopiesOf(list[d], buckets[d])
BY DEF Copies, CopiesOf

(* The program refuses a live account named twice, as it refuses a tick    *)
(* twice; that no dead one is, is what TimelySpec assumes.                 *)
LEMMA ListsFit ==
  ASSUME NEW list \in Lists, NoDeadTwice(list),
         \A d \in Direction : CanUnpack(d, ledger[d], Copies(list)[d])
  PROVE  Listable(list)
<1>1. ASSUME NEW d \in Direction PROVE Ordered(list[d], DOMAIN buckets[d])
  <2>1. PICK l \in SeqOf(DOMAIN buckets["Long"], MaxListed),
             s \in SeqOf(DOMAIN buckets["Short"], MaxListed) :
          list = [e \in Direction |-> IF e = "Long" THEN l ELSE s]
    BY DEF Lists
  <2>2. list[d] \in SeqOf(DOMAIN buckets[d], MaxListed)
    BY <2>1 DEF Direction
  <2>3. MaxListed \in Nat
    BY ProgramParameters
  <2>4. PICK m \in 0 .. MaxListed : list[d] \in [1 .. m -> DOMAIN buckets[d]]
    BY <2>2 DEF SeqOf
  <2>5. m \in Nat
    BY <2>3
  <2> QED
    BY <2>4, <2>5 DEF Ordered
<1>2. ASSUME NEW d \in Direction PROVE IsInjective(list[d])
  <2> SUFFICES ASSUME NEW i \in DOMAIN list[d], NEW j \in DOMAIN list[d],
                      list[d][i] = list[d][j]
               PROVE  i = j
    BY DEF IsInjective
  <2>1. PICK C : C = Copies(list)[d]
    OBVIOUS
  <2>2. DOMAIN C = DOMAIN list[d] /\ C[i] = buckets[d][list[d][i]] /\ C[j] = C[i]
    BY <2>1 DEF Copies
  <2>3. CASE IsDead(C[i])
    BY <2>2, <2>3 DEF NoDeadTwice
  <2>4. CASE ~IsDead(C[i])
    <3>1. OneTickEach(C)
      BY <2>1 DEF CanUnpack
    <3>2. i \in Live(C) /\ j \in Live(C)
      BY <2>2, <2>4 DEF Live
    <3> QED
      BY <2>2, <3>1, <3>2 DEF OneTickEach
  <2> QED
    BY <2>3, <2>4
<1> QED
  BY <1>1, <1>2 DEF Listable

LEMMA FullListFits ==
  ASSUME Tidy PROVE Listable(FullList)
<1>1. ASSUME NEW d \in Direction
      PROVE  Ordered(FullList[d], DOMAIN buckets[d]) /\ IsInjective(FullList[d])
  <2>1. FullList[d] = SetToSeq(DOMAIN buckets[d])
    BY DEF FullList
  <2>2. IsFiniteSet(DOMAIN buckets[d])
    BY DEF Tidy, Orderly
  <2> QED
    BY <2>1, <2>2, SetToSeqOnto
<1> QED
  BY <1>1 DEF Listable

LEMMA ViewIs ==
  ASSUME Tidy, NEW list, Listable(list)
  PROVE  View(list) = WholeOf(subPool, ledger, [d \in Direction |-> Passed(list, d)], Both(<<>>))
<1>1. PICK A, C : A = [d \in Direction |-> Passed(list, d)] /\ C = Copies(list)
  OBVIOUS
<1>2. View(list) = WholeOf(subPool, ledger, C, Both(<<>>))
  BY <1>1, ViewWhole DEF View, ViewOn
<1>3. ASSUME NEW d \in Direction
      PROVE  Unpack(d, ledger[d], C[d]) = Unpack(d, ledger[d], A[d])
  <2>1. PICK all, order, a, c :
          all = buckets[d] /\ order = list[d] /\ a = A[d] /\ c = C[d]
    OBVIOUS
  <2>2. Orderly(all) /\ Ordered(order, DOMAIN all) /\ IsInjective(order)
    BY <2>1 DEF Tidy, Listable
  <2>3. a = [k \in ToSet(order) |-> all[k]] /\ c = CopiesOf(order, all)
    BY <1>1, <2>1, CopiesAre DEF Passed
  <2>4. /\ Orderly(a) /\ DOMAIN a = ToSet(order) /\ \A k \in DOMAIN a : a[k] = all[k]
        /\ Orderly(c) /\ TicksOf(c) = TicksOf(a)
        /\ \A i \in DOMAIN order : i \in Live(c) <=> order[i] \in Live(a)
    BY <2>2, <2>3, ListedPart
  <2>5. ASSUME NEW i \in Live(c) PROVE order[i] \in Live(a) /\ c[i] = a[order[i]]
    <3>1. i \in DOMAIN order /\ c[i] = all[order[i]]
      BY <2>3 DEF Live, CopiesOf
    <3>2. order[i] \in Live(a)
      BY <2>4, <3>1
    <3> QED
      BY <2>4, <3>1, <3>2 DEF Live
  <2>6. Unpack(d, ledger[d], c) = Unpack(d, ledger[d], a)
    BY <2>4, <2>5, CopiesUnpack
  <2> QED
    BY <2>1, <2>6
<1>4. WholeOf(subPool, ledger, C, Both(<<>>)) = WholeOf(subPool, ledger, A, Both(<<>>))
  BY <1>3, EqualParts
<1> QED
  BY <1>1, <1>2, <1>4

LEMMA ViewPasses ==
  ASSUME Tidy, NEW list, Listable(list)
  PROVE  Passes([d \in Direction |-> Passed(list, d)], buckets)
<1>1. ASSUME NEW d \in Direction PROVE IsPart(Passed(list, d), buckets[d])
  <2>1. ToSet(list[d]) \subseteq DOMAIN buckets[d]
    BY OrderedSet DEF Listable
  <2> QED
    BY <2>1 DEF Passed, IsPart
<1> QED
  BY <1>1 DEF Passes

(* What every call with buckets works on.                                  *)
LEMMA ViewFacts ==
  ASSUME Tidy, Sound(Whole), NEW list, Listable(list)
  PROVE  /\ Partial(View(list)) /\ OnSides(View(list).gen) /\ View(list).rotateLog = Both(<<>>)
         /\ AllThere(View(list)) =>
              /\ Carries(forgotten, View(list), Whole) /\ View(list).dormant = Whole.dormant
              /\ \A d \in Direction : Live(Passed(list, d)) = Live(buckets[d])
<1>1. PICK A, V, W : /\ A = [d \in Direction |-> Passed(list, d)] /\ V = View(list) /\ W = Whole
  OBVIOUS
<1>2. Passes(A, buckets) /\ V = WholeOf(subPool, ledger, A, Both(<<>>))
      /\ W = WholeOf(subPool, ledger, buckets, forgotten) /\ Sound(W)
  BY <1>1, ViewPasses, ViewIs, WholeIs
<1>3. Partial(V) /\ OnSides(V.gen) /\ V.rotateLog = Both(<<>>)
  BY <1>2, ViewPartial DEF Tidy
<1>4. ASSUME AllThere(V)
      PROVE  /\ Carries(forgotten, V, W) /\ V.dormant = W.dormant
             /\ \A d \in Direction : Live(A[d]) = Live(buckets[d])
  BY <1>2, <1>4, ViewIsWhole DEF Tidy
<1>5. \A d \in Direction : A[d] = Passed(list, d)
  BY <1>1
<1> QED
  BY <1>1, <1>3, <1>4, <1>5

LEMMA BridgedWrites ==
  ASSUME Tidy, Sound(Whole), NEW list, Listable(list), NEW r, Bridged(list, r),
         AllThere(View(list)), NEW w, Continues(forgotten, r.sp, w), PoolSound(w),
         NEW p \in Nat, p > 0, \A d \in Direction : Grown(Whole.dormant[d], w.dormant[d], p)
  PROVE  Tidy' /\ Whole' = w /\ WithinBounds(w) /\ OnSides(buckets')
<1>1. /\ subPool' = AccountOf(r.sp)
      /\ forgotten' = [d \in Direction |-> forgotten[d] \o r.sp.rotateLog[d]]
      /\ ledger' = [d \in Direction |-> LedgerOf(r.sp.dormant[d])]
      /\ buckets' = [d \in Direction |->
                       Exited(list, d, ProgramPack(Copies(list)[d], r.sp.dormant[d]))]
      /\ \A d \in Direction : ~SlotExhausted(Copies(list)[d], r.sp.dormant[d])
  BY DEF Bridged, Stored
<1>2. r.sp.dormant = w.dormant
  BY DEF Continues, Alike
<1>3. ASSUME NEW d \in Direction PROVE Orderly(buckets'[d]) /\ Holds(buckets'[d], w.dormant[d])
  <2>1. PICK all, order, A, C, old, st, P, B, L :
          /\ all = buckets[d] /\ order = list[d] /\ A = Passed(list, d) /\ C = Copies(list)[d]
          /\ old = Whole.dormant[d] /\ st = w.dormant[d] /\ P = ProgramPack(C, st)
          /\ B = buckets'[d] /\ L = ledger[d]
    OBVIOUS
  <2>2. Orderly(all) /\ Ordered(order, DOMAIN all) /\ IsInjective(order)
    BY <2>1 DEF Tidy, Listable
  <2>3. A = [k \in ToSet(order) |-> all[k]] /\ Live(A) = Live(all) /\ C = CopiesOf(order, all)
    BY <2>1, ViewFacts, CopiesAre DEF Passed
  <2>4. old = Unpack(d, L, all)
    <3>1. PICK W : W = Whole
      OBVIOUS
    <3>2. W = WholeOf(subPool, ledger, buckets, forgotten)
      BY <3>1, WholeIs
    <3>3. W.dormant = [e \in Direction |-> Unpack(e, ledger[e], buckets[e])]
      BY <3>2, WholeFields
    <3> QED
      BY <2>1, <3>1, <3>3
  <2>5. StoreTyped(st) /\ Grown(old, st, p)
    BY <2>1 DEF PoolSound, StoreSound
  <2>6. ~SlotExhausted(C, st)
        /\ B = [k \in DOMAIN all |->
                  IF k \in ToSet(order)
                  THEN P[Max({i \in DOMAIN order : order[i] = k})] ELSE all[k]]
    BY <1>1, <1>2, <2>1 DEF Exited
  <2>7. Orderly(B) /\ Holds(B, st)
    <3>1. P = ProgramPack(C, st)
      BY <2>1
    <3> QED
      BY ONLY <2>2, <2>3, <2>4, <2>5, <2>6, <3>1, p \in Nat, p > 0, SidePacked
  <2> QED
    BY <2>1, <2>7
<1>4. Tidy'
  BY <1>3 DEF Tidy
<1>5. Whole' = WholeOf(subPool', ledger', buckets', forgotten')
  BY <1>4, WholeIsNext
<1>6. WholeOf(AccountOf(r.sp), ledger', buckets', w.rotateLog) = w
  <2>1. \A d \in Direction : ledger'[d] = LedgerOf(r.sp.dormant[d])
    BY <1>1
  <2>2. Alike(r.sp, w)
    BY DEF Continues
  <2> QED
    BY <1>3, <2>1, <2>2, Repacked
<1>7. forgotten' = w.rotateLog
  BY <1>1 DEF Continues
<1>8. WithinBounds(w)
  BY DEF Bridged, WithinBounds, Continues, Alike
<1>9. OnSides(buckets')
  BY <1>1 DEF OnSides
<1> QED
  BY <1>1, <1>4, <1>5, <1>6, <1>7, <1>8, <1>9

(***************************************************************************)
(* What the instructions do to the sub-pool the accounts stand for.        *)
(***************************************************************************)
LEMMA WholeParts ==
  ASSUME NEW W, Sound(W)
  PROVE  Partial(W) /\ OnSides(W.gen) /\ OnSides(W.rotateLog)
<1>1. W.recovery \in [Direction -> Int]
  BY SoundRecovery DEF Sound
<1>2. \A d \in Direction : Shaped(W.dormant[d])
  BY TypedShaped DEF Sound, PoolSound, StoreSound
<1>3. IsSubPool(W) /\ W.shares \in [Direction -> Nat]
      /\ W.dormant = [d \in Direction |-> W.dormant[d]]
  BY DEF Sound, PoolSound
<1>4. OnSides(W.gen) /\ OnSides(W.rotateLog)
  BY DEF Sound, Numbered, OnSides
<1> QED
  BY <1>1, <1>2, <1>3, <1>4 DEF Partial

LEMMA WholeHeld ==
  ASSUME Tidy PROVE \A d \in Direction : AllHeld(Whole.dormant[d])
<1>1. PICK W : W = Whole
  OBVIOUS
<1>2. W = WholeOf(subPool, ledger, buckets, forgotten)
  BY <1>1, WholeIs
<1>3. W.dormant = [d \in Direction |-> Unpack(d, ledger[d], buckets[d])]
  BY <1>2, WholeFields
<1>4. ASSUME NEW d \in Direction PROVE AllHeld(W.dormant[d])
  <2>1. PICK A, L, st : A = buckets[d] /\ L = ledger[d] /\ st = Unpack(d, L, A)
    OBVIOUS
  <2>2. Orderly(A)
    BY <2>1 DEF Tidy
  <2>3. AllHeld(st)
    BY <2>1, <2>2, UnpackShaped
  <2> QED
    BY <1>3, <2>1, <2>3
<1> QED
  BY <1>1, <1>4

LEMMA SyncWrites ==
  ASSUME Tidy, Sound(Whole), NEW list, Listable(list), NEW p \in Nat, p > 0,
         Bridged(list, SyncPool(View(list), p))
  PROVE  /\ Tidy' /\ OnSides(buckets') /\ WithinBounds(Whole')
         /\ SyncPool(Whole, p).err = "Ok" /\ Whole' = SyncPool(Whole, p).sp
<1>1. PICK W, V : W = Whole /\ V = View(list)
  OBVIOUS
<1>2. PICK r, w : r = SyncPool(V, p) /\ w = SyncPool(W, p)
  OBVIOUS
<1>3. r.err = "Ok"
  BY <1>1, <1>2 DEF Bridged
<1>4. Partial(V) /\ (AllThere(V) => Carries(forgotten, V, W))
  BY <1>1, ViewFacts
<1>5. AllThere(V)
  BY <1>2, <1>3, <1>4, SyncNeedsAll
<1>6. w.err = "Ok" /\ Carries(forgotten, r.sp, w.sp)
  BY <1>2, <1>3, <1>4, <1>5, SyncContinues
<1>7. PoolSound(w.sp)
  BY <1>1, <1>2, <1>6, SyncClears DEF Sound, Clears
<1>8. ASSUME NEW d \in Direction PROVE Grown(W.dormant[d], w.sp.dormant[d], p)
  <2>1. Partial(W) /\ OnSides(W.gen) /\ OnSides(W.rotateLog)
    BY <1>1, WholeParts
  <2>2. SideMoves(W, w.sp, d, p)
    BY <1>2, <1>6, <2>1, SyncMoves
  <2>3. Shaped(W.dormant[d]) /\ AllHeld(W.dormant[d]) /\ W.shares[d] \in Nat
    BY <1>1, <2>1, WholeHeld DEF Partial
  <2> QED
    BY <2>2, <2>3, MovesGrown
<1>9. Continues(forgotten, r.sp, w.sp)
  BY <1>6 DEF Carries
<1>10. Bridged(list, r) /\ AllThere(View(list))
       /\ \A d \in Direction : Grown(Whole.dormant[d], w.sp.dormant[d], p)
  BY <1>1, <1>2, <1>5, <1>8
<1>11. Tidy' /\ Whole' = w.sp /\ WithinBounds(w.sp) /\ OnSides(buckets')
  BY <1>7, <1>9, <1>10, BridgedWrites
<1> QED
  BY <1>1, <1>2, <1>6, <1>11

LEMMA PreSyncWrites ==
  ASSUME Tidy, Sound(Whole), NEW list, Listable(list), NEW d \in Direction, NEW t,
         Bridged(list, PreSyncBucket(View(list), d, t))
  PROVE  /\ Tidy' /\ OnSides(buckets') /\ WithinBounds(Whole')
         /\ PreSyncBucket(Whole, d, t).err = "Ok"
         /\ Whole' = PreSyncBucket(Whole, d, t).sp
<1>1. PICK W, V : W = Whole /\ V = View(list)
  OBVIOUS
<1>2. PICK r, w : r = PreSyncBucket(V, d, t) /\ w = PreSyncBucket(W, d, t)
  OBVIOUS
<1>3. r.err = "Ok"
  BY <1>1, <1>2 DEF Bridged
<1>4. Partial(V) /\ (AllThere(V) => Carries(forgotten, V, W))
  BY <1>1, ViewFacts
<1>5. AllThere(V)
  BY <1>2, <1>3, <1>4, PreSyncNeedsAll
<1>6. w.err = "Ok" /\ Continues(forgotten, r.sp, w.sp)
  BY <1>2, <1>3, <1>4, <1>5, PreSyncContinues DEF Carries
<1>7. PoolSound(w.sp)
  BY <1>1, <1>2, <1>6, PreSyncClears DEF Sound, Clears
<1>8. ASSUME NEW e \in Direction PROVE Grown(W.dormant[e], w.sp.dormant[e], 1)
  <2>1. SameShares(W.dormant[e], w.sp.dormant[e])
    <3> DEFINE u == ApplyPending(W.dormant[d], {t})
               applied == [W EXCEPT !.dormant[d] = ApplyPending(@, {t})]
    <3>1. PoolSound(W) /\ IsSubPool(W) /\ StoreSound(W.dormant[d])
      BY <1>1 DEF Sound, PoolSound
    <3>2. w = Checked(applied) /\ {t} \in SUBSET Ticks(W.dormant[d])
      BY <1>2, <1>6 DEF PreSyncBucket, Fail
    <3>3. SameShares(W.dormant[d], u)
      BY <3>1, <3>2, ApplyPendingShares
    <3>4. w.sp = applied
      BY <3>2, CheckedSame
    <3> HIDE DEF u
    <3>5. applied.dormant = [W.dormant EXCEPT ![d] = u]
      BY <3>1 DEF IsSubPool, SubPoolFields, u
    <3>6. W.dormant = [x \in Direction |-> W.dormant[x]]
      BY <3>1 DEF PoolSound
    <3> HIDE DEF applied
    <3> QED
      BY <3>3, <3>4, <3>5, <3>6, SameSelf
  <2>2. AllHeld(W.dormant[e])
    BY <1>1, WholeHeld
  <2> QED
    BY <2>1, <2>2, SameGrown
<1>9. Bridged(list, r) /\ AllThere(View(list))
      /\ \A e \in Direction : Grown(Whole.dormant[e], w.sp.dormant[e], 1)
  BY <1>1, <1>2, <1>5, <1>8
<1>10. Tidy' /\ Whole' = w.sp /\ WithinBounds(w.sp) /\ OnSides(buckets')
  <2>1. 1 \in Nat /\ 1 > 0
    OBVIOUS
  <2> QED
    BY <1>6, <1>7, <1>9, <2>1, BridgedWrites
<1> QED
  BY <1>1, <1>2, <1>6, <1>10

(* A position that leaves: r is what the instruction makes of the view, w  *)
(* what the engine makes of the whole sub-pool.                            *)
Leaver(W, q) ==
  /\ Holding(q) /\ Placed(W, q) /\ q.recovery = 0
  /\ q.gen = W.gen[q.dir] => q.shares <= W.shares[q.dir]

TakesRecovery(t, r) ==
  \E base : /\ IsSubPool(base) /\ base.dormant = t.sp.dormant
            /\ r.sp.dormant = LeaveRecovery(base, t.pos).dormant

LEMMA TakenGrown ==
  ASSUME NEW V, Partial(V), OnSides(V.gen), V.rotateLog = Both(<<>>), NEW p, NEW q,
         Holding(q), q.recovery = 0, q.gen = V.gen[q.dir] => q.shares <= V.shares[q.dir],
         NEW t, t = Touch(V, p, q), t.err = "Ok", NEW r, TakesRecovery(t, r),
         \A e \in Direction : AllHeld(V.dormant[e]) /\ StoreSound(t.sp.dormant[e])
  PROVE  \A d \in Direction : Grown(V.dormant[d], r.sp.dormant[d], p)
<1>1. PICK y, u, m : y = SyncPool(V, p) /\ u = y.sp /\ m = Migrated(u, q)
  OBVIOUS
<1>2. /\ y.err = "Ok" /\ CanMigrate(u, q) /\ CanLeaveRecovery(u, m)
      /\ t.sp = u /\ t.pos = m
  BY <1>1, TouchForm
<1>3. Partial(u)
  BY <1>1, <1>2, SyncMisses
<1>4. m.dir = q.dir
  BY <1>1 DEF Migrated, Holding, IsPosition, PositionFields
<1>5. PICK base : /\ IsSubPool(base) /\ base.dormant = u.dormant
                  /\ r.sp.dormant = LeaveRecovery(base, m).dormant
  BY <1>2 DEF TakesRecovery
<1>6. u.dormant = [d \in Direction |-> u.dormant[d]]
  BY <1>3 DEF Partial
<1>7. ASSUME NEW d \in Direction
      PROVE  r.sp.dormant[d] = IF m.recovery = 0 \/ d # q.dir THEN u.dormant[d]
                               ELSE Redeem(u.dormant[d], m.tick, m.recovery)
  <2>1. CASE m.recovery = 0
    BY <1>5, <2>1 DEF LeaveRecovery
  <2>2. CASE m.recovery # 0
    <3>1. PICK left : left = LeaveRecovery(base, m)
      OBVIOUS
    <3>2. left.dormant = [base.dormant EXCEPT ![m.dir] = Redeem(@, m.tick, m.recovery)]
      <4>1. IsSubPool(base)
        BY <1>5
      <4> QED
        BY <2>2, <3>1, <4>1 DEF LeaveRecovery, IsSubPool, SubPoolFields
    <3>3. r.sp.dormant = [u.dormant EXCEPT ![m.dir] = Redeem(@, m.tick, m.recovery)]
      BY <1>5, <3>1, <3>2
    <3> QED
      BY <1>4, <1>6, <2>2, <3>3
  <2> QED
    BY <2>1, <2>2
<1>8. ASSUME NEW d \in Direction PROVE Grown(V.dormant[d], r.sp.dormant[d], p)
  <2>1. PICK z : z = r.sp.dormant[d]
    OBVIOUS
  <2>2. z = IF m.recovery = 0 \/ d # q.dir THEN u.dormant[d]
            ELSE Redeem(u.dormant[d], m.tick, m.recovery)
    BY <1>7, <2>1
  <2>3. \A e \in Direction : AllHeld(V.dormant[e]) /\ StoreSound(u.dormant[e])
    BY <1>2
  <2>4. Grown(V.dormant[d], z, p)
    BY <1>1, <1>2, <2>2, <2>3, DepartureGrown
  <2> QED
    BY <2>1, <2>4
<1> QED
  BY <1>8

LEMMA LeaverWrites ==
  ASSUME Tidy, Sound(Whole), NEW list, Listable(list), NEW p \in Nat, p > 0,
         NEW q, Leaver(Whole, q), NEW t, t = Touch(View(list), p, q), t.err = "Ok",
         NEW r, Bridged(list, r), TakesRecovery(t, r),
         NEW w, Carries(forgotten, View(list), Whole) => SameOutcome(forgotten, r, w),
         SameOutcome(forgotten, r, w) => PoolSound(w.sp)
  PROVE  /\ Tidy' /\ OnSides(buckets') /\ WithinBounds(w.sp)
         /\ Whole' = w.sp /\ SameOutcome(forgotten, r, w)
<1>1. PICK W, V : W = Whole /\ V = View(list)
  OBVIOUS
<1>2. /\ Partial(V) /\ OnSides(V.gen) /\ V.rotateLog = Both(<<>>)
      /\ AllThere(V) => Carries(forgotten, V, W) /\ V.dormant = W.dormant
  BY <1>1, ViewFacts
<1>3. AllThere(V)
  BY <1>1, <1>2, LeaverNeedsAll
<1>4. Carries(forgotten, V, W) /\ V.dormant = W.dormant
  BY <1>2, <1>3
<1>5. V.gen = W.gen /\ V.shares = W.shares
  BY <1>4 DEF Carries, Continues, Alike
<1>6. SameOutcome(forgotten, r, w)
  BY <1>1, <1>4
<1>7. Continues(forgotten, r.sp, w.sp) /\ PoolSound(w.sp) /\ r.sp.dormant = w.sp.dormant
  BY <1>6 DEF SameOutcome, Continues, Alike
<1>8. \A e \in Direction : AllHeld(V.dormant[e]) /\ StoreSound(t.sp.dormant[e])
  <2>1. PICK x, y : x = SyncPool(V, p) /\ y = SyncPool(W, p)
    OBVIOUS
  <2>2. x.err = "Ok" /\ t.sp = x.sp
    BY <1>1, <2>1, TouchForm
  <2>3. y.err = "Ok" /\ Carries(forgotten, x.sp, y.sp)
    BY <1>4, <2>1, <2>2, SyncContinues
  <2>4. PoolSound(y.sp)
    BY <1>1, <2>1, <2>3, SyncClears DEF Sound, Clears
  <2>5. x.sp.dormant = y.sp.dormant
    BY <2>3 DEF Carries, Continues, Alike
  <2> QED
    BY <1>1, <1>4, <2>2, <2>4, <2>5, WholeHeld DEF PoolSound
<1>9. \A d \in Direction : Grown(V.dormant[d], r.sp.dormant[d], p)
  BY <1>1, <1>2, <1>5, <1>8, TakenGrown DEF Leaver
<1>10. \A d \in Direction : Grown(Whole.dormant[d], w.sp.dormant[d], p)
  BY <1>1, <1>4, <1>7, <1>9
<1>11. Tidy' /\ Whole' = w.sp /\ WithinBounds(w.sp) /\ OnSides(buckets')
  BY <1>1, <1>3, <1>7, <1>10, BridgedWrites
<1> QED
  BY <1>6, <1>11

(* A position of the market is a leaver.                                   *)
LEMMA OwnedLeaver ==
  ASSUME NEW W, NEW P, Owned(W, P), NEW i \in 1 .. Len(P), P[i].recovery = 0
  PROVE  Leaver(W, P[i])
<1>1. PICK q : q = P[i]
  OBVIOUS
<1>2. Placed(W, q) /\ Holding(q) /\ PoolSound(W)
  BY <1>1 DEF Owned, Listed
<1>3. ASSUME q.gen = W.gen[q.dir] PROVE q.shares <= W.shares[q.dir]
  <2>1. PICK a : a = Running(q.dir)
    OBVIOUS
  <2>2. /\ a \in BookAccounts /\ a.kind = "shares" /\ a.dir = q.dir
    BY <1>2, <2>1 DEF Running, BookAccounts, Holding
  <2>3. /\ Weight(W, q, a) \in Nat /\ OnBooks(W, a) \in Nat
        /\ Weight(W, q, a) <= OnBooks(W, a)
    BY <1>1, <2>2, WeightWithin
  <2>4. OnBooks(W, a) = W.shares[q.dir]
    BY <2>2 DEF OnBooks
  <2>5. q.shares \in Nat
    BY <1>2 DEF Holding
  <2>6. Weight(W, q, a) = q.shares
    BY <1>3, <2>2, <2>5 DEF Weight, NeedsMigration
  <2> QED
    BY <2>3, <2>4, <2>6
<1> QED
  BY <1>1, <1>2, <1>3 DEF Leaver

LEMMA TouchShaped ==
  ASSUME NEW V, Partial(V), NEW p, NEW q, NEW t, t = Touch(V, p, q), t.err = "Ok"
  PROVE  IsSubPool(t.sp)
<1>1. SyncPool(V, p).err = "Ok" /\ t.sp = SyncPool(V, p).sp
  BY TouchForm
<1> QED
  BY <1>1, SyncMisses DEF Partial

(* What leaves of a bucket is what LeaveRecovery takes.                    *)
LEMMA CloseTakes ==
  ASSUME NEW V, Partial(V), NEW p, NEW q, NEW t, t = Touch(V, p, q),
         NEW r, r = ClosePosition(V, p, q), r.err = "Ok"
  PROVE  t.err = "Ok" /\ TakesRecovery(t, r)
<1>1. PICK base : base = IF HasPool(t.sp, t.pos)
                         THEN LeaveActive(t.sp, t.pos, ActiveValue(t.sp, t.pos)) ELSE t.sp
  OBVIOUS
<1>2. t.err = "Ok" /\ r.sp = LeaveRecovery(base, t.pos)
  BY <1>1, CloseForm
<1>3. IsSubPool(t.sp)
  BY <1>2, TouchShaped
<1>4. IsSubPool(base) /\ base.dormant = t.sp.dormant
  BY <1>1, <1>3, LeaveActiveKeeps
<1> QED
  BY <1>2, <1>4 DEF TakesRecovery

LEMMA ForceCloseTakes ==
  ASSUME NEW V, Partial(V), NEW p, NEW q, NEW t, t = Touch(V, p, q),
         NEW r, r = ForceClosePosition(V, p, q), r.err = "Ok"
  PROVE  t.err = "Ok" /\ TakesRecovery(t, r)
<1>1. PICK base : base = IF t.pos.shares > 0 THEN LeaveActive(t.sp, t.pos, 0) ELSE t.sp
  OBVIOUS
<1>2. PICK left : left = LeaveRecovery(base, t.pos)
  OBVIOUS
<1>3. t.err = "Ok" /\ r.sp = [left EXCEPT !.dust[t.pos.dir] = @ + RecoveryValue(t.sp, t.pos)]
  BY <1>1, <1>2, ForceCloseForm
<1>4. IsSubPool(t.sp)
  BY <1>3, TouchShaped
<1>5. IsSubPool(base) /\ base.dormant = t.sp.dormant
  BY <1>1, <1>4, LeaveActiveKeeps
<1>6. IsSubPool(left)
  BY <1>2, <1>5 DEF LeaveRecovery, IsSubPool, SubPoolFields
<1>7. r.sp.dormant = left.dormant
  BY <1>3, <1>6 DEF IsSubPool, SubPoolFields
<1> QED
  BY <1>2, <1>3, <1>5, <1>7 DEF TakesRecovery

LEMMA ClaimTakes ==
  ASSUME NEW V, Partial(V), NEW p, NEW q, NEW t, t = Touch(V, p, q),
         NEW r, r = ClaimRecovery(V, p, q), r.err = "Ok"
  PROVE  t.err = "Ok" /\ TakesRecovery(t, r)
<1>1. t.err = "Ok" /\ r.sp = LeaveRecovery(t.sp, t.pos)
  BY ClaimForm
<1>2. IsSubPool(t.sp)
  BY <1>1, TouchShaped
<1> QED
  BY <1>1, <1>2 DEF TakesRecovery

LEMMA CloseWrites ==
  ASSUME Tidy, Sound(Whole), NEW list, Listable(list), NEW p \in Nat, p > 0,
         NEW P, Owned(Whole, P), NEW i \in 1 .. Len(P), P[i].recovery = 0,
         Bridged(list, ClosePosition(View(list), p, P[i]))
  PROVE  /\ Tidy' /\ OnSides(buckets') /\ WithinBounds(Whole')
         /\ Whole' = ClosePosition(Whole, p, P[i]).sp
         /\ SameOutcome(forgotten, ClosePosition(View(list), p, P[i]), ClosePosition(Whole, p, P[i]))
         /\ ClosePosition(Whole, p, P[i]).pos.recovery = 0
<1>1. PICK W, V, q : W = Whole /\ V = View(list) /\ q = P[i]
  OBVIOUS
<1>2. PICK r, w, t : r = ClosePosition(V, p, q) /\ w = ClosePosition(W, p, q) /\ t = Touch(V, p, q)
  OBVIOUS
<1>3. Bridged(list, r) /\ r.err = "Ok"
  BY <1>1, <1>2 DEF Bridged
<1>4. Partial(V)
  BY <1>1, ViewFacts
<1>5. t.err = "Ok" /\ TakesRecovery(t, r)
  BY <1>2, <1>3, <1>4, CloseTakes
<1>6. Placed(W, q) /\ Holding(q) /\ Numbered(W) /\ PoolSound(W)
  BY <1>1 DEF Owned, Listed
<1>7. Carries(forgotten, V, W) => SameOutcome(forgotten, r, w)
  BY <1>2, <1>3, <1>6, CloseContinues
<1>8. SameOutcome(forgotten, r, w) => PoolSound(w.sp)
  BY <1>2, <1>6, CloseSound DEF SameOutcome, PaidOut
<1>9. Leaver(Whole, q) /\ t = Touch(View(list), p, q)
      /\ (Carries(forgotten, View(list), Whole) => SameOutcome(forgotten, r, w))
  BY <1>1, <1>2, <1>7, OwnedLeaver
<1>10. /\ Tidy' /\ OnSides(buckets') /\ WithinBounds(w.sp)
       /\ Whole' = w.sp /\ SameOutcome(forgotten, r, w)
  BY <1>3, <1>5, <1>8, <1>9, LeaverWrites
<1>11. w.pos.recovery = 0
  <2>1. PICK x : x = Touch(W, p, q)
    OBVIOUS
  <2>2. w.err = "Ok"
    BY <1>10 DEF SameOutcome
  <2>3. x.err = "Ok" /\ w.pos = Closed(IF HasPool(x.sp, x.pos) THEN WithoutShares(x.pos)
                                       ELSE WithoutRecovery(x.pos))
    BY <1>2, <2>1, <2>2, CloseForm
  <2>4. Holding(x.pos)
    BY <1>6, <2>1, <2>3, TouchSound DEF Touched
  <2>5. /\ Holding(WithoutShares(x.pos)) /\ Holding(WithoutRecovery(x.pos))
        /\ WithoutShares(x.pos).recovery = 0 /\ WithoutRecovery(x.pos).recovery = 0
    BY <2>4, EmptiedFields, ClosedHolding
  <2>6. \A y : Holding(y) => Closed(y).recovery = y.recovery
    BY <2>4, EmptiedFields
  <2> QED
    BY <2>3, <2>5, <2>6
<1> QED
  BY <1>1, <1>2, <1>10, <1>11

LEMMA ForceCloseWrites ==
  ASSUME Tidy, Sound(Whole), NEW list, Listable(list), NEW p \in Nat, p > 0,
         NEW P, Owned(Whole, P), NEW i \in 1 .. Len(P), P[i].recovery = 0,
         Bridged(list, ForceClosePosition(View(list), p, P[i]))
  PROVE  /\ Tidy' /\ OnSides(buckets') /\ WithinBounds(Whole')
         /\ Whole' = ForceClosePosition(Whole, p, P[i]).sp
         /\ SameOutcome(forgotten, ForceClosePosition(View(list), p, P[i]),
                        ForceClosePosition(Whole, p, P[i]))
         /\ ForceClosePosition(Whole, p, P[i]).pos.recovery = 0
<1>1. PICK W, V, q : W = Whole /\ V = View(list) /\ q = P[i]
  OBVIOUS
<1>2. PICK r, w, t : /\ r = ForceClosePosition(V, p, q) /\ w = ForceClosePosition(W, p, q)
                     /\ t = Touch(V, p, q)
  OBVIOUS
<1>3. Bridged(list, r) /\ r.err = "Ok"
  BY <1>1, <1>2 DEF Bridged
<1>4. Partial(V)
  BY <1>1, ViewFacts
<1>5. t.err = "Ok" /\ TakesRecovery(t, r)
  BY <1>2, <1>3, <1>4, ForceCloseTakes
<1>6. Placed(W, q) /\ Holding(q) /\ Numbered(W) /\ PoolSound(W)
  BY <1>1 DEF Owned, Listed
<1>7. Carries(forgotten, V, W) => SameOutcome(forgotten, r, w)
  BY <1>2, <1>3, <1>6, ForceCloseContinues
<1>8. SameOutcome(forgotten, r, w) => PoolSound(w.sp)
  BY <1>2, <1>6, ForceCloseSound DEF SameOutcome, PaidOut
<1>9. Leaver(Whole, q) /\ t = Touch(View(list), p, q)
      /\ (Carries(forgotten, View(list), Whole) => SameOutcome(forgotten, r, w))
  BY <1>1, <1>2, <1>7, OwnedLeaver
<1>10. /\ Tidy' /\ OnSides(buckets') /\ WithinBounds(w.sp)
       /\ Whole' = w.sp /\ SameOutcome(forgotten, r, w)
  BY <1>3, <1>5, <1>8, <1>9, LeaverWrites
<1>11. w.pos.recovery = 0
  <2>1. PICK x : x = Touch(W, p, q)
    OBVIOUS
  <2>2. w.err = "Ok"
    BY <1>10 DEF SameOutcome
  <2>3. x.err = "Ok" /\ w.pos = Closed(WithoutShares(x.pos))
    BY <1>2, <2>1, <2>2 DEF ForceClosePosition, ForceCloseTouched, Finished, Fail
  <2>4. Holding(x.pos)
    BY <1>6, <2>1, <2>3, TouchSound DEF Touched
  <2>5. /\ Holding(WithoutShares(x.pos)) /\ Holding(WithoutRecovery(x.pos))
        /\ WithoutShares(x.pos).recovery = 0 /\ WithoutRecovery(x.pos).recovery = 0
    BY <2>4, EmptiedFields, ClosedHolding
  <2>6. \A y : Holding(y) => Closed(y).recovery = y.recovery
    BY <2>4, EmptiedFields
  <2> QED
    BY <2>3, <2>5, <2>6
<1> QED
  BY <1>1, <1>2, <1>10, <1>11

LEMMA ClaimWrites ==
  ASSUME Tidy, Sound(Whole), NEW list, Listable(list), NEW p \in Nat, p > 0,
         NEW P, Owned(Whole, P), NEW i \in 1 .. Len(P), P[i].recovery = 0,
         Bridged(list, ClaimRecovery(View(list), p, P[i]))
  PROVE  /\ Tidy' /\ OnSides(buckets') /\ WithinBounds(Whole')
         /\ Whole' = ClaimRecovery(Whole, p, P[i]).sp
         /\ SameOutcome(forgotten, ClaimRecovery(View(list), p, P[i]), ClaimRecovery(Whole, p, P[i]))
         /\ ClaimRecovery(Whole, p, P[i]).pos.recovery = 0
<1>1. PICK W, V, q : W = Whole /\ V = View(list) /\ q = P[i]
  OBVIOUS
<1>2. PICK r, w, t : r = ClaimRecovery(V, p, q) /\ w = ClaimRecovery(W, p, q) /\ t = Touch(V, p, q)
  OBVIOUS
<1>3. Bridged(list, r) /\ r.err = "Ok"
  BY <1>1, <1>2 DEF Bridged
<1>4. Partial(V)
  BY <1>1, ViewFacts
<1>5. t.err = "Ok" /\ TakesRecovery(t, r)
  BY <1>2, <1>3, <1>4, ClaimTakes
<1>6. Placed(W, q) /\ Holding(q) /\ Numbered(W) /\ PoolSound(W)
  BY <1>1 DEF Owned, Listed
<1>7. Carries(forgotten, V, W) => SameOutcome(forgotten, r, w)
  BY <1>2, <1>3, <1>6, ClaimContinues
<1>8. SameOutcome(forgotten, r, w) => PoolSound(w.sp)
  BY <1>2, <1>6, ClaimSound DEF SameOutcome, PaidOut
<1>9. Leaver(Whole, q) /\ t = Touch(View(list), p, q)
      /\ (Carries(forgotten, View(list), Whole) => SameOutcome(forgotten, r, w))
  BY <1>1, <1>2, <1>7, OwnedLeaver
<1>10. /\ Tidy' /\ OnSides(buckets') /\ WithinBounds(w.sp)
       /\ Whole' = w.sp /\ SameOutcome(forgotten, r, w)
  BY <1>3, <1>5, <1>8, <1>9, LeaverWrites
<1>11. w.pos.recovery = 0
  <2>1. PICK x : x = Touch(W, p, q)
    OBVIOUS
  <2>2. w.err = "Ok"
    BY <1>10 DEF SameOutcome
  <2>3. x.err = "Ok" /\ w.pos = WithoutRecovery(x.pos)
    BY <1>2, <2>1, <2>2, ClaimForm
  <2>4. Holding(x.pos)
    BY <1>6, <2>1, <2>3, TouchSound DEF Touched
  <2>5. /\ Holding(WithoutShares(x.pos)) /\ Holding(WithoutRecovery(x.pos))
        /\ WithoutShares(x.pos).recovery = 0 /\ WithoutRecovery(x.pos).recovery = 0
    BY <2>4, EmptiedFields, ClosedHolding
  <2>6. \A y : Holding(y) => Closed(y).recovery = y.recovery
    BY <2>4, EmptiedFields
  <2> QED
    BY <2>3, <2>5, <2>6
<1> QED
  BY <1>1, <1>2, <1>10, <1>11

(***************************************************************************)
(* The instructions that are given no bucket.                              *)
(***************************************************************************)
SameScalars(v, w) ==
  /\ IsSubPool(v) /\ IsSubPool(w)
  /\ w.pool = v.pool /\ w.shares = v.shares /\ w.notional = v.notional
  /\ w.recovery = v.recovery /\ w.dust = v.dust /\ w.gen = v.gen
  /\ w.lastPrice = v.lastPrice

(* The sub-pool u with the scalars of v, as the accounts show it.          *)
LEMMA ScalarsWritten ==
  ASSUME Tidy, Numbered(Whole), NEW s, IsSubPool(s), s.rotateLog = Both(<<>>),
         NEW w, SameScalars(s, w),
         w.dormant = Whole.dormant, w.rotateLog = Whole.rotateLog,
         subPool' = AccountOf(s), forgotten' = [d \in Direction |-> forgotten[d] \o s.rotateLog[d]],
         ledger' = ledger, buckets' = buckets
  PROVE  Tidy' /\ Whole' = w
<1>1. Tidy'
  BY DEF Tidy
<1>2. PICK W, U : W = Whole /\ U = Whole'
  OBVIOUS
<1>3. W = WholeOf(subPool, ledger, buckets, forgotten)
      /\ U = WholeOf(subPool', ledger, buckets, forgotten')
  BY <1>1, <1>2, WholeIs, WholeIsNext
<1>4. /\ Shows(U, subPool') /\ U.rotateLog = forgotten'
      /\ U.dormant = [d \in Direction |-> Unpack(d, ledger[d], buckets[d])]
  BY <1>3, WholeFields
<1>5. W.rotateLog = forgotten /\ W.dormant = [d \in Direction |-> Unpack(d, ledger[d], buckets[d])]
  BY <1>3, WholeFields
<1>6. forgotten' = forgotten
  <2>1. /\ forgotten = [d \in Direction |-> forgotten[d]]
        /\ \A d \in Direction : forgotten[d] \in Seq([gen : Nat, tick : Nat])
    BY <1>2, <1>5 DEF Numbered, IsLog
  <2>2. ASSUME NEW d \in Direction PROVE forgotten[d] \o s.rotateLog[d] = forgotten[d]
    <3>1. PICK T, l : T = [gen : Nat, tick : Nat] /\ l = forgotten[d] /\ l \in Seq(T)
      BY <2>1
    <3>2. s.rotateLog[d] = <<>>
      BY DEF Both
    <3>3. l \o <<>> = l
      BY <3>1
    <3> QED
      BY <3>1, <3>2, <3>3
  <2> QED
    BY <2>1, <2>2
<1>7. Shows(w, subPool')
  BY DEF SameScalars, Shows, AccountOf
<1>8. w.rotateLog = U.rotateLog /\ w.dormant = U.dormant
  BY <1>2, <1>4, <1>5, <1>6
<1>9. U = w
  BY <1>4, <1>7, <1>8, ShowsSame
<1> QED
  BY <1>1, <1>2, <1>9

LEMMA SameScalarsOpen ==
  ASSUME NEW v, NEW w, SameScalars(v, w), NEW d, NEW g
  PROVE  /\ CanOpen(w, d, g) = CanOpen(v, d, g)
         /\ SameScalars(OpenedSide(v, d, g), OpenedSide(w, d, g))
         /\ \A n : /\ SharesMinted(w, d, n) = SharesMinted(v, d, n)
                   /\ PrincipalIntoPool(w, d, n) = PrincipalIntoPool(v, d, n)
<1>1. \A n : /\ SharesMinted(w, d, n) = SharesMinted(v, d, n)
             /\ PrincipalIntoPool(w, d, n) = PrincipalIntoPool(v, d, n)
  BY DEF SharesMinted, PrincipalIntoPool, SameScalars
<1>2. Diluted(w, d) = Diluted(v, d) /\ w.pool[d] = v.pool[d]
  BY DEF Diluted, SameScalars
<1>3. CanOpen(w, d, g) = CanOpen(v, d, g)
  BY <1>1, <1>2 DEF CanOpen
<1>4. ASSUME NEW a, NEW b, NEW c, NEW e
      PROVE  SameScalars(SideGrown(v, d, a, b, c, e), SideGrown(w, d, a, b, c, e))
  BY DEF SameScalars, SideGrown, IsSubPool, SubPoolFields
<1>5. SameScalars(OpenedSide(v, d, g), OpenedSide(w, d, g))
  BY <1>1, <1>4 DEF OpenedSide
<1> QED
  BY <1>1, <1>3, <1>5

(* With the same scalars and its own stores in order, a sub-pool passes.   *)
LEMMA SoundAlso ==
  ASSUME NEW v, NEW w, SameScalars(v, w), SubPoolSound(v),
         \A d \in Direction : /\ TotalRecoveryShares(w.dormant[d]) = w.recovery[d]
                              /\ CheckStore(w.dormant[d])
  PROVE  SubPoolSound(w)
BY DEF SubPoolSound, SameScalars

(* open_position without buckets does what the engine does with them.      *)
SameOpen(r, w) ==
  /\ w.err = "Ok" /\ w.pos = r.pos /\ w.fee = r.fee /\ w.principal = r.principal
  /\ IsSubPool(r.sp) /\ SameScalars(r.sp, w.sp)

LEMMA OpenAlso ==
  ASSUME NEW v, NEW w, SameScalars(v, w), SubPoolSound(w), NEW p, v.lastPrice \in {0, p},
         NEW d, NEW g, NEW r, r = OpenPosition(v, p, d, g), r.err = "Ok",
         NEW x, x = OpenPosition(w, p, d, g)
  PROVE  /\ SameOpen(r, x)
         /\ r.sp.rotateLog = v.rotateLog
         /\ x.sp.dormant = w.dormant /\ x.sp.rotateLog = w.rotateLog
<1>1. PICK a, b : a = [v EXCEPT !.lastPrice = p] /\ b = [w EXCEPT !.lastPrice = p]
  OBVIOUS
<1>2. SyncPool(v, p) = Checked(a) /\ SyncPool(w, p) = Checked(b)
  BY <1>1 DEF SyncPool, SameScalars
<1>3. /\ SameScalars(a, b) /\ a.rotateLog = v.rotateLog
      /\ b.dormant = w.dormant /\ b.rotateLog = w.rotateLog
      /\ b.pool = w.pool /\ b.shares = w.shares /\ b.recovery = w.recovery
  BY <1>1 DEF SameScalars, IsSubPool, SubPoolFields
<1>4. SubPoolSound(b)
  BY <1>3 DEF SubPoolSound
<1>5. Checked(b).err = "Ok" /\ Checked(b).sp = b
  BY <1>4 DEF Checked, Ok
<1>6. Checked(a).err = "Ok" /\ Checked(a).sp = a
  <2>1. Checked(a).sp = a
    BY CheckedSame
  <2>2. Checked(a).err = "Ok"
    BY <1>2 DEF OpenPosition
  <2> QED
    BY <2>1, <2>2
<1>7. r = OpenSynced(a, d, g) /\ x = OpenSynced(b, d, g)
  BY <1>2, <1>5, <1>6 DEF OpenPosition
<1>8. PICK y, z, n : y = OpenedSide(a, d, g) /\ z = OpenedSide(b, d, g) /\ n = g - OpenFee(g)
  OBVIOUS
<1>9. CanOpen(a, d, g) /\ SubPoolSound(y)
  BY <1>7, <1>8, OpenSyncedIs
<1>10. /\ r.sp = y /\ r.fee = OpenFee(g) /\ r.principal = n
       /\ r.pos = NewPosition(d, SharesMinted(a, d, n),
                              MulDivFloor(n, LeverageBps, BpsScale), a.gen[d])
  BY <1>7, <1>8, <1>9, OpenSyncedIs
<1>11. CanOpen(b, d, g) /\ SameScalars(y, z) /\ SharesMinted(b, d, n) = SharesMinted(a, d, n)
  BY <1>3, <1>8, <1>9, SameScalarsOpen
<1>12. /\ x.err = Checked(z).err /\ x.sp = z /\ x.fee = OpenFee(g) /\ x.principal = n
       /\ x.pos = NewPosition(d, SharesMinted(b, d, n),
                              MulDivFloor(n, LeverageBps, BpsScale), b.gen[d])
  BY <1>7, <1>8, <1>11, OpenSyncedIs
<1>13. /\ IsSubPool(y) /\ y.rotateLog = a.rotateLog
       /\ z.dormant = b.dormant /\ z.rotateLog = b.rotateLog /\ z.recovery = b.recovery
  BY <1>3, <1>8, OpenedSideKeeps DEF SameScalars
<1>14. SubPoolSound(z)
  <2>1. \A e \in Direction : /\ TotalRecoveryShares(z.dormant[e]) = z.recovery[e]
                             /\ CheckStore(z.dormant[e])
    BY <1>4, <1>13 DEF SubPoolSound
  <2> QED
    BY <1>9, <1>11, <2>1, SoundAlso
<1>15. Checked(z).err = "Ok"
  BY <1>14 DEF Checked, Ok
<1>16. x.pos = r.pos
  BY <1>3, <1>10, <1>11, <1>12 DEF SameScalars
<1>17. SameOpen(r, x)
  BY <1>10, <1>11, <1>12, <1>13, <1>15, <1>16 DEF SameOpen
<1> QED
  BY <1>3, <1>10, <1>12, <1>13, <1>17

LEMMA ViewScalars ==
  ASSUME Tidy, NEW v, v = ClearingView(subPool)
  PROVE  SameScalars(v, Whole) /\ v.rotateLog = Both(<<>>)
<1>1. PICK W : W = Whole
  OBVIOUS
<1>2. W = WholeOf(subPool, ledger, buckets, forgotten)
  BY <1>1, WholeIs
<1>3. Shows(W, subPool)
  BY <1>2, WholeFields
<1>4. Shows(v, subPool) /\ v.rotateLog = Both(<<>>)
  BY ClearingViewIs
<1> QED
  BY <1>1, <1>3, <1>4 DEF Shows, SameScalars

LEMMA OpenWrites ==
  ASSUME Tidy, Sound(Whole), NEW p, subPool.lastPrice \in {0, p}, NEW d, NEW g,
         Open(p, d, g)
  PROVE  /\ Tidy' /\ Whole' = OpenPosition(Whole, p, d, g).sp
         /\ SameOpen(OpenPosition(ClearingView(subPool), p, d, g), OpenPosition(Whole, p, d, g))
<1>1. PICK v, W : v = ClearingView(subPool) /\ W = Whole
  OBVIOUS
<1>2. PICK r, x : r = OpenPosition(v, p, d, g) /\ x = OpenPosition(W, p, d, g)
  OBVIOUS
<1>3. /\ r.err = "Ok" /\ subPool' = AccountOf(r.sp)
      /\ forgotten' = [e \in Direction |-> forgotten[e] \o r.sp.rotateLog[e]]
      /\ ledger' = ledger /\ buckets' = buckets
  BY <1>1, <1>2 DEF Open, Opened, Stored
<1>4. SameScalars(v, W) /\ v.rotateLog = Both(<<>>)
  BY <1>1, ViewScalars
<1>5. v.lastPrice \in {0, p}
  <2>1. v.lastPrice = subPool.lastPrice
    BY <1>1, ClearingViewIs DEF Shows
  <2> QED
    BY <2>1
<1>6. SubPoolSound(W) /\ Numbered(W)
  BY <1>1 DEF Sound
<1>7. /\ SameOpen(r, x) /\ r.sp.rotateLog = v.rotateLog
      /\ x.sp.dormant = W.dormant /\ x.sp.rotateLog = W.rotateLog
  BY <1>2, <1>3, <1>4, <1>5, <1>6, OpenAlso
<1>8. Tidy' /\ Whole' = x.sp
  BY <1>1, <1>3, <1>4, <1>6, <1>7, ScalarsWritten DEF SameOpen
<1> QED
  BY <1>1, <1>2, <1>7, <1>8

LEMMA HarvestWrites ==
  ASSUME Tidy, Sound(Whole), NEW d, Harvest(d)
  PROVE  /\ Tidy' /\ HarvestDust(Whole, d).err = "Ok"
         /\ Whole' = HarvestDust(Whole, d).sp /\ Whole.dust = subPool.dust
<1>1. PICK v, W : v = ClearingView(subPool) /\ W = Whole
  OBVIOUS
<1>2. PICK a, b : a = [v EXCEPT !.dust[d] = 0] /\ b = [W EXCEPT !.dust[d] = 0]
  OBVIOUS
<1>3. HarvestDust(v, d).sp = a /\ HarvestDust(W, d) = Checked(b)
  BY <1>2, CheckedSame DEF HarvestDust
<1>4. /\ subPool' = AccountOf(a)
      /\ forgotten' = [e \in Direction |-> forgotten[e] \o a.rotateLog[e]]
      /\ ledger' = ledger /\ buckets' = buckets
  BY <1>1, <1>3 DEF Harvest, Harvested, Stored
<1>5. SameScalars(v, W) /\ v.rotateLog = Both(<<>>)
  BY <1>1, ViewScalars
<1>6. /\ SameScalars(a, b) /\ a.rotateLog = v.rotateLog /\ IsSubPool(a)
      /\ b.dormant = W.dormant /\ b.rotateLog = W.rotateLog
      /\ b.pool = W.pool /\ b.shares = W.shares /\ b.recovery = W.recovery
  BY <1>2, <1>5 DEF SameScalars, IsSubPool, SubPoolFields
<1>7. SubPoolSound(W) /\ Numbered(W)
  BY <1>1 DEF Sound
<1>8. SubPoolSound(b)
  BY <1>6, <1>7 DEF SubPoolSound
<1>9. Checked(b).err = "Ok" /\ Checked(b).sp = b
  BY <1>8 DEF Checked, Ok
<1>10. Tidy' /\ Whole' = b
  BY <1>1, <1>4, <1>5, <1>6, <1>7, ScalarsWritten
<1>11. W.dust = subPool.dust
  <2>1. v.dust = subPool.dust
    BY <1>1, ClearingViewIs DEF Shows
  <2> QED
    BY <1>5, <2>1 DEF SameScalars
<1> QED
  BY <1>1, <1>3, <1>9, <1>10, <1>11

(***************************************************************************)
(* Dead accounts come and go unseen.                                       *)
(***************************************************************************)
LEMMA SameLive ==
  ASSUME NEW A, Orderly(A), NEW B, Orderly(B), Live(B) = Live(A),
         \A k \in Live(A) : B[k] = A[k], NEW d, NEW L
  PROVE  Unpack(d, L, B) = Unpack(d, L, A)
<1>1. PICK x, y : x = Unpack(d, L, A) /\ y = Unpack(d, L, B)
  OBVIOUS
<1>2. Unpacked(x, d, L, A)
  BY <1>1, UnpackFields
<1>3. Unpacked(y, d, L, B)
  BY <1>1, UnpackFields
<1>4. TicksOf(B) = TicksOf(A)
  BY DEF TicksOf
<1>5. Ticks(y) = Ticks(x)
  BY <1>2, <1>3, <1>4 DEF Unpacked
<1>6. ASSUME NEW t \in Ticks(x) PROVE y.bucket[t] = x.bucket[t]
  <2>1. PICK k \in Live(A) : A[k].tick = t
    BY <1>2 DEF Unpacked, TicksOf
  <2>2. x.bucket[t] = BucketOf(A[k])
    BY <1>2, <2>1 DEF Unpacked
  <2>3. y.bucket[t] = BucketOf(B[k])
    BY <1>3, <2>1 DEF Unpacked
  <2> QED
    BY <2>2, <2>3
<1>7. x.bucket = [t \in Ticks(x) |-> x.bucket[t]] /\ y.bucket = [t \in Ticks(y) |-> y.bucket[t]]
  BY <1>2, <1>3 DEF Unpacked
<1>8. x.bucket = y.bucket
  BY <1>5, <1>6, <1>7
<1>9. /\ x = [f \in StoreFields |-> x[f]] /\ y = [f \in StoreFields |-> y[f]]
      /\ x.dir = y.dir /\ x.ledger = y.ledger /\ x.gcOffset = y.gcOffset
      /\ x.accruedTotal = y.accruedTotal /\ x.pending = y.pending
  BY <1>2, <1>3 DEF Unpacked
<1>10. x = y
  BY <1>8, <1>9 DEF StoreFields
<1> QED
  BY <1>1, <1>10

LEMMA DeadJoins ==
  ASSUME NEW A, Orderly(A), NEW t \in Nat, t \notin DOMAIN A,
         NEW B, B = Over([k \in {t} |-> DeadRecord(k)], A)
  PROVE  Orderly(B) /\ Live(B) = Live(A) /\ \A k \in Live(A) : B[k] = A[k]
<1>1. DOMAIN B = {t} \cup DOMAIN A /\ B = [k \in DOMAIN B |-> B[k]]
  BY DEF Over
<1>2. \A k \in DOMAIN A : B[k] = A[k]
  BY DEF Over
<1>3. B[t] = DeadRecord(t)
  BY DEF Over
<1>4. /\ DeadRecord(t) \in Account /\ IsDead(DeadRecord(t))
      /\ DeadRecord(t).anchor = 0 /\ DeadRecord(t).lastApplied = 0
  BY DEF DeadRecord, Account, IsDead
<1>5. Live(B) = Live(A)
  BY <1>1, <1>2, <1>3, <1>4 DEF Live
<1>6. IsFiniteSet(DOMAIN B)
  <2>1. IsFiniteSet(DOMAIN A) /\ IsFiniteSet({t})
    BY FS_Singleton DEF Orderly
  <2> QED
    BY ZenonT(30), <1>1, <2>1, FS_Union
<1>7. /\ \A k \in DOMAIN B : B[k] \in Account
      /\ \A k \in DOMAIN B \ Live(B) : B[k].anchor = 0 /\ B[k].lastApplied = 0
  BY <1>1, <1>2, <1>3, <1>4, <1>5 DEF Orderly
<1>8. \A k \in Live(A) : k \in DOMAIN A
  BY DEF Live
<1>9. \A k \in Live(B) : B[k].shares > 0
  BY <1>2, <1>5, <1>8 DEF Orderly
<1>10. OneTickEach(B)
  BY <1>2, <1>5, <1>8 DEF Orderly, OneTickEach
<1> QED
  BY <1>1, <1>2, <1>5, <1>6, <1>7, <1>8, <1>9, <1>10 DEF Orderly

LEMMA DeadLeaves ==
  ASSUME NEW A, Orderly(A), NEW x \in DOMAIN A, IsDead(A[x]),
         NEW B, B = [k \in DOMAIN A \ {x} |-> A[k]]
  PROVE  Orderly(B) /\ Live(B) = Live(A) /\ \A k \in Live(A) : B[k] = A[k]
<1>1. IsPart(B, A) /\ DOMAIN B = DOMAIN A \ {x}
  BY DEF IsPart
<1>2. Orderly(B) /\ (\A k \in DOMAIN B : B[k] = A[k]) /\ Live(B) = Live(A) \cap DOMAIN B
  BY <1>1, PartOrderly
<1>3. x \notin Live(A) /\ Live(A) \subseteq DOMAIN A
  BY DEF Live
<1> QED
  BY <1>1, <1>2, <1>3

LEMMA BucketsSwapped ==
  ASSUME Tidy, NEW d \in Direction, OnSides(buckets),
         NEW B, Orderly(B), Live(B) = Live(buckets[d]),
         \A k \in Live(buckets[d]) : B[k] = buckets[d][k],
         buckets' = [buckets EXCEPT ![d] = B],
         UNCHANGED <<subPool, ledger, forgotten>>
  PROVE  Tidy' /\ Whole' = Whole /\ OnSides(buckets')
<1>1. \A e \in Direction : buckets'[e] = IF e = d THEN B ELSE buckets[e]
  BY DEF OnSides
<1>2. OnSides(buckets')
  BY DEF OnSides
<1>3. Tidy'
  BY <1>1 DEF Tidy
<1>4. PICK W, U, N : W = Whole /\ U = Whole' /\ N = buckets'
  OBVIOUS
<1>5. W = WholeOf(subPool, ledger, buckets, forgotten)
      /\ U = WholeOf(subPool, ledger, N, forgotten)
  BY <1>3, <1>4, WholeIs, WholeIsNext
<1>6. /\ Shows(U, subPool) /\ U.rotateLog = forgotten
      /\ U.dormant = [e \in Direction |-> Unpack(e, ledger[e], N[e])]
  BY <1>5, WholeFields
<1>7. /\ Shows(W, subPool) /\ W.rotateLog = forgotten
      /\ W.dormant = [e \in Direction |-> Unpack(e, ledger[e], buckets[e])]
  BY <1>5, WholeFields
<1>8. ASSUME NEW e \in Direction
      PROVE  Unpack(e, ledger[e], N[e]) = Unpack(e, ledger[e], buckets[e])
  <2>1. CASE e # d
    BY <1>1, <1>4, <2>1
  <2>2. CASE e = d
    <3>1. PICK A : A = buckets[d] /\ Orderly(A)
      BY DEF Tidy
    <3>2. Unpack(d, ledger[d], B) = Unpack(d, ledger[d], A)
      BY <3>1, SameLive
    <3> QED
      BY <1>1, <1>4, <2>2, <3>1, <3>2
  <2> QED
    BY <2>1, <2>2
<1>9. U.dormant = W.dormant
  BY <1>6, <1>7, <1>8
<1>10. U = W
  BY <1>6, <1>7, <1>9, ShowsSame
<1> QED
  BY <1>2, <1>3, <1>4, <1>10

LEMMA InitBucketWrites ==
  ASSUME Tidy, OnSides(buckets), NEW d \in Direction, NEW t \in Nat, InitBucket(d, t)
  PROVE  Tidy' /\ Whole' = Whole /\ OnSides(buckets')
<1>1. PICK A, B : A = buckets[d] /\ B = Over([k \in {t} |-> DeadRecord(k)], A)
  OBVIOUS
<1>2. Orderly(A) /\ t \notin DOMAIN A
  BY <1>1 DEF Tidy, InitBucket
<1>3. Orderly(B) /\ Live(B) = Live(A) /\ \A k \in Live(A) : B[k] = A[k]
  BY <1>1, <1>2, DeadJoins
<1>4. /\ buckets' = [buckets EXCEPT ![d] = B]
      /\ UNCHANGED <<subPool, ledger, forgotten>>
  BY <1>1 DEF InitBucket
<1> QED
  BY <1>1, <1>3, <1>4, BucketsSwapped

LEMMA CloseBucketWrites ==
  ASSUME Tidy, OnSides(buckets), NEW d \in Direction, NEW k \in DOMAIN buckets[d],
         CloseBucket(d, k)
  PROVE  Tidy' /\ Whole' = Whole /\ OnSides(buckets')
<1>1. PICK A, B : A = buckets[d] /\ B = [j \in DOMAIN A \ {k} |-> A[j]]
  OBVIOUS
<1>2. Orderly(A) /\ IsDead(A[k])
  BY <1>1 DEF Tidy, CloseBucket
<1>3. Orderly(B) /\ Live(B) = Live(A) /\ \A j \in Live(A) : B[j] = A[j]
  BY <1>1, <1>2, DeadLeaves
<1>4. /\ buckets' = [buckets EXCEPT ![d] = B]
      /\ UNCHANGED <<subPool, ledger, forgotten>>
  BY <1>1 DEF CloseBucket
<1> QED
  BY <1>1, <1>3, <1>4, BucketsSwapped

(***************************************************************************)
(* The invariant.                                                          *)
(***************************************************************************)
(* The market's invariant, of the sub-pool the accounts stand for.         *)
WholeInv ==
  /\ Owned(Whole, pos)
  /\ SubPoolSound(Whole)
  /\ WithinBounds(Whole)

(* No position is stored with recovery shares: the call that migrates a    *)
(* stale one also redeems what it is given.                                *)
NoneClaimed(P) == \A i \in 1 .. Len(P) : P[i].recovery = 0

ChainInv ==
  /\ Tidy /\ OnSides(buckets)
  /\ WholeInv
  /\ NoneClaimed(pos)

LEMMA ChainSound == ChainInv => Sound(Whole)
BY DEF ChainInv, WholeInv, Owned, Listed, Sound

LEMMA PricesPositive == \A p \in Prices : p \in Nat /\ p > 0
BY ProgramParameters

LEMMA SyncKeeps ==
  ASSUME ChainInv, NEW list, Listable(list), NEW p \in Prices, Sync(list, p)
  PROVE  /\ ChainInv'
         /\ SyncPool(Whole, p).err = "Ok" /\ Whole' = SyncPool(Whole, p).sp
<1>1. Bridged(list, SyncPool(View(list), p)) /\ pos' = pos
  BY DEF Sync
<1>2. p \in Nat /\ p > 0 /\ Tidy /\ Sound(Whole)
  BY PricesPositive, ChainSound DEF ChainInv
<1>3. /\ Tidy' /\ OnSides(buckets') /\ WithinBounds(Whole')
      /\ SyncPool(Whole, p).err = "Ok" /\ Whole' = SyncPool(Whole, p).sp
  BY <1>1, <1>2, SyncWrites
<1>4. Owned(Whole', pos')
  <2>1. PICK W, P, U : W = Whole /\ P = pos /\ U = Whole'
    OBVIOUS
  <2>2. Owned(W, P)
    BY <2>1 DEF ChainInv, WholeInv
  <2>3. Owned(SyncPool(W, p).sp, P)
    BY <1>2, <1>3, <2>1, <2>2, SyncBacked
  <2> QED
    BY <1>1, <1>3, <2>1, <2>3
<1>5. SubPoolSound(Whole')
  BY <1>2, <1>3, SyncClears DEF Sound
<1>6. NoneClaimed(pos')
  BY <1>1 DEF ChainInv
<1> QED
  BY <1>3, <1>4, <1>5, <1>6 DEF ChainInv, WholeInv

LEMMA PreSyncKeeps ==
  ASSUME ChainInv, NEW list, Listable(list), NEW d \in Direction, NEW t, PreSync(list, d, t)
  PROVE  /\ ChainInv'
         /\ PreSyncBucket(Whole, d, t).err = "Ok" /\ Whole' = PreSyncBucket(Whole, d, t).sp
<1>1. Bridged(list, PreSyncBucket(View(list), d, t)) /\ pos' = pos
  BY DEF PreSync
<1>2. Tidy /\ Sound(Whole)
  BY ChainSound DEF ChainInv
<1>3. /\ Tidy' /\ OnSides(buckets') /\ WithinBounds(Whole')
      /\ PreSyncBucket(Whole, d, t).err = "Ok" /\ Whole' = PreSyncBucket(Whole, d, t).sp
  BY <1>1, <1>2, PreSyncWrites
<1>4. Owned(Whole', pos')
  <2>1. PICK W, P, U : W = Whole /\ P = pos /\ U = Whole'
    OBVIOUS
  <2>2. Owned(W, P)
    BY <2>1 DEF ChainInv, WholeInv
  <2>3. Owned(PreSyncBucket(W, d, t).sp, P)
    BY <1>3, <2>1, <2>2, PreSyncBacked
  <2> QED
    BY <1>1, <1>3, <2>1, <2>3
<1>5. SubPoolSound(Whole')
  BY <1>2, <1>3, PreSyncClears DEF Sound
<1>6. NoneClaimed(pos')
  BY <1>1 DEF ChainInv
<1> QED
  BY <1>3, <1>4, <1>5, <1>6 DEF ChainInv, WholeInv

(* r is what leaves the position i of the whole sub-pool.                  *)
LEMMA SettledKeeps ==
  ASSUME ChainInv, NEW i \in PosIds, NEW x,
         Tidy', OnSides(buckets'), WithinBounds(Whole'), SubPoolSound(Whole'),
         pos' = [pos EXCEPT ![i] = x], Owned(Whole', [pos EXCEPT ![i] = x]), x.recovery = 0
  PROVE  ChainInv'
<1>1. PICK P : P = pos
  OBVIOUS
<1>2. IsList(P) /\ NoneClaimed(P) /\ i \in 1 .. Len(P)
  BY <1>1 DEF ChainInv, WholeInv, Owned, Listed, PosIds
<1>3. P = [j \in 1 .. Len(P) |-> P[j]] /\ Len(P) \in Nat
  BY <1>2, LenProperties DEF IsList
<1>4. PICK Q : Q = [P EXCEPT ![i] = x]
  OBVIOUS
<1>5. Q = [j \in 1 .. Len(P) |-> Q[j]] /\ \A j \in 1 .. Len(P) : Q[j].recovery = 0
  BY <1>2, <1>3, <1>4 DEF NoneClaimed
<1>6. Len(Q) = Len(P)
  BY <1>3, <1>5, FunctionIsList
<1>7. NoneClaimed(Q)
  BY <1>5, <1>6 DEF NoneClaimed
<1>8. NoneClaimed(pos') /\ Owned(Whole', pos')
  BY <1>1, <1>4, <1>7
<1> QED
  BY <1>8 DEF ChainInv, WholeInv

(* What the market's own departure does, with the sub-pool in one piece.   *)
Left(i, w) ==
  /\ w.err = "Ok" /\ WithinBounds(w.sp) /\ Whole' = w.sp
  /\ w.paid <= vault
  /\ pos' = [pos EXCEPT ![i] = w.pos]
  /\ vault' = vault - w.paid /\ paidOut' = paidOut + w.paid
  /\ UNCHANGED <<feeVault, paidIn>>

LEMMA CloseKeeps ==
  ASSUME ChainInv, NEW list, Listable(list), NEW i \in PosIds, NEW p \in Prices,
         Close(list, i, p)
  PROVE  ChainInv' /\ Left(i, ClosePosition(Whole, p, pos[i]))
<1>1. PICK W, P, r, w : /\ W = Whole /\ P = pos
                        /\ r = ClosePosition(View(list), p, P[i])
                        /\ w = ClosePosition(W, p, P[i])
  OBVIOUS
<1>2. /\ Bridged(list, r) /\ r.paid <= vault /\ pos' = [pos EXCEPT ![i] = r.pos]
      /\ vault' = vault - r.paid /\ paidOut' = paidOut + r.paid
      /\ UNCHANGED <<feeVault, paidIn>>
  BY <1>1 DEF Close, Settled
<1>3. /\ p \in Nat /\ p > 0 /\ Tidy /\ Sound(Whole) /\ i \in 1 .. Len(P)
      /\ Owned(W, P) /\ P[i].recovery = 0
  BY <1>1, PricesPositive, ChainSound DEF ChainInv, WholeInv, PosIds, NoneClaimed
<1>4. /\ Tidy' /\ OnSides(buckets') /\ WithinBounds(Whole') /\ Whole' = w.sp
      /\ SameOutcome(forgotten, r, w) /\ w.pos.recovery = 0
  BY <1>1, <1>2, <1>3, CloseWrites
<1>5. w.err = "Ok" /\ w.pos = r.pos /\ w.paid = r.paid
  BY <1>4 DEF SameOutcome
<1>6. Owned(w.sp, [P EXCEPT ![i] = w.pos])
  BY <1>1, <1>3, <1>5, CloseBacked
<1>7. SubPoolSound(w.sp)
  <2>1. Numbered(W) /\ PoolSound(W) /\ Holding(P[i])
    BY <1>3 DEF Owned, Listed
  <2> QED
    BY <1>1, <1>3, <1>5, <2>1, CloseSound DEF PaidOut
<1>8. ChainInv'
  BY <1>1, <1>2, <1>4, <1>5, <1>6, <1>7, SettledKeeps
<1>9. Left(i, w)
  BY <1>1, <1>2, <1>4, <1>5 DEF Left
<1> QED
  BY <1>1, <1>8, <1>9

LEMMA ForceCloseKeeps ==
  ASSUME ChainInv, NEW list, Listable(list), NEW i \in PosIds, NEW p \in Prices,
         ForceClose(list, i, p)
  PROVE  ChainInv' /\ Left(i, ForceClosePosition(Whole, p, pos[i]))
<1>1. PICK W, P, r, w : /\ W = Whole /\ P = pos
                        /\ r = ForceClosePosition(View(list), p, P[i])
                        /\ w = ForceClosePosition(W, p, P[i])
  OBVIOUS
<1>2. /\ Bridged(list, r) /\ r.paid <= vault /\ pos' = [pos EXCEPT ![i] = r.pos]
      /\ vault' = vault - r.paid /\ paidOut' = paidOut + r.paid
      /\ UNCHANGED <<feeVault, paidIn>>
  BY <1>1 DEF ForceClose, Settled
<1>3. /\ p \in Nat /\ p > 0 /\ Tidy /\ Sound(Whole) /\ i \in 1 .. Len(P)
      /\ Owned(W, P) /\ P[i].recovery = 0
  BY <1>1, PricesPositive, ChainSound DEF ChainInv, WholeInv, PosIds, NoneClaimed
<1>4. /\ Tidy' /\ OnSides(buckets') /\ WithinBounds(Whole') /\ Whole' = w.sp
      /\ SameOutcome(forgotten, r, w) /\ w.pos.recovery = 0
  BY <1>1, <1>2, <1>3, ForceCloseWrites
<1>5. w.err = "Ok" /\ w.pos = r.pos /\ w.paid = r.paid
  BY <1>4 DEF SameOutcome
<1>6. Owned(w.sp, [P EXCEPT ![i] = w.pos])
  BY <1>1, <1>3, <1>5, ForceCloseBacked
<1>7. SubPoolSound(w.sp)
  <2>1. Numbered(W) /\ PoolSound(W) /\ Holding(P[i])
    BY <1>3 DEF Owned, Listed
  <2> QED
    BY <1>1, <1>3, <1>5, <2>1, ForceCloseSound DEF PaidOut
<1>8. ChainInv'
  BY <1>1, <1>2, <1>4, <1>5, <1>6, <1>7, SettledKeeps
<1>9. Left(i, w)
  BY <1>1, <1>2, <1>4, <1>5 DEF Left
<1> QED
  BY <1>1, <1>8, <1>9

LEMMA ClaimKeeps ==
  ASSUME ChainInv, NEW list, Listable(list), NEW i \in PosIds, NEW p \in Prices,
         Claim(list, i, p)
  PROVE  ChainInv' /\ Left(i, ClaimRecovery(Whole, p, pos[i]))
<1>1. PICK W, P, r, w : /\ W = Whole /\ P = pos
                        /\ r = ClaimRecovery(View(list), p, P[i])
                        /\ w = ClaimRecovery(W, p, P[i])
  OBVIOUS
<1>2. /\ Bridged(list, r) /\ r.paid <= vault /\ pos' = [pos EXCEPT ![i] = r.pos]
      /\ vault' = vault - r.paid /\ paidOut' = paidOut + r.paid
      /\ UNCHANGED <<feeVault, paidIn>>
  BY <1>1 DEF Claim, Settled
<1>3. /\ p \in Nat /\ p > 0 /\ Tidy /\ Sound(Whole) /\ i \in 1 .. Len(P)
      /\ Owned(W, P) /\ P[i].recovery = 0
  BY <1>1, PricesPositive, ChainSound DEF ChainInv, WholeInv, PosIds, NoneClaimed
<1>4. /\ Tidy' /\ OnSides(buckets') /\ WithinBounds(Whole') /\ Whole' = w.sp
      /\ SameOutcome(forgotten, r, w) /\ w.pos.recovery = 0
  BY <1>1, <1>2, <1>3, ClaimWrites
<1>5. w.err = "Ok" /\ w.pos = r.pos /\ w.paid = r.paid
  BY <1>4 DEF SameOutcome
<1>6. Owned(w.sp, [P EXCEPT ![i] = w.pos])
  BY <1>1, <1>3, <1>5, ClaimBacked
<1>7. SubPoolSound(w.sp)
  <2>1. Numbered(W) /\ PoolSound(W) /\ Holding(P[i])
    BY <1>3 DEF Owned, Listed
  <2> QED
    BY <1>1, <1>3, <1>5, <2>1, ClaimSound DEF PaidOut
<1>8. ChainInv'
  BY <1>1, <1>2, <1>4, <1>5, <1>6, <1>7, SettledKeeps
<1>9. Left(i, w)
  BY <1>1, <1>2, <1>4, <1>5 DEF Left
<1> QED
  BY <1>1, <1>8, <1>9

LEMMA TimelyOpenKeeps ==
  ASSUME ChainInv, NEW p \in Prices, NEW d \in Direction, NEW g \in Grosses,
         subPool.lastPrice \in {0, p}, Open(p, d, g)
  PROVE  /\ ChainInv' /\ WithinBounds(Whole') /\ Whole' = OpenPosition(Whole, p, d, g).sp
         /\ SameOpen(OpenPosition(ClearingView(subPool), p, d, g), OpenPosition(Whole, p, d, g))
<1>1. PICK W, P, v, r, x : /\ W = Whole /\ P = pos /\ v = ClearingView(subPool)
                           /\ r = OpenPosition(v, p, d, g) /\ x = OpenPosition(W, p, d, g)
  OBVIOUS
<1>2. /\ WithinBounds(r.sp) /\ pos' = Append(P, r.pos) /\ buckets' = buckets
  BY <1>1 DEF Open, Opened
<1>3. p \in Nat /\ p > 0 /\ g \in Nat /\ Tidy /\ Sound(Whole) /\ Owned(W, P)
  BY <1>1, PricesPositive, ChainSound, ProgramParameters DEF ChainInv, WholeInv
<1>4. Tidy' /\ Whole' = x.sp /\ SameOpen(r, x)
  BY <1>1, <1>3, OpenWrites
<1>5. x.err = "Ok" /\ x.pos = r.pos /\ SameScalars(r.sp, x.sp)
  BY <1>4 DEF SameOpen
<1>6. Owned(x.sp, Append(P, x.pos))
  BY <1>1, <1>3, <1>5, OpenBacked
<1>7. Deposited(W, p, g, x)
  <2>1. PoolSound(W) /\ Numbered(W)
    BY <1>3 DEF Owned, Listed
  <2> QED
    BY <1>1, <1>3, <1>5, <2>1, OpenSound
<1>8. SubPoolSound(x.sp)
  BY <1>7 DEF Deposited
<1>9. WithinBounds(x.sp)
  <2>1. SameScalars(v, W) /\ v.lastPrice \in {0, p} /\ SubPoolSound(W)
    <3>1. v.lastPrice = subPool.lastPrice
      BY <1>1, ClearingViewIs DEF Shows
    <3> QED
      BY <1>1, <1>3, <3>1, ViewScalars DEF Sound
  <2>2. r.err = "Ok"
    BY <1>1 DEF Open, Opened
  <2>3. x.sp.dormant = W.dormant
    BY <1>1, <2>1, <2>2, OpenAlso
  <2>4. WithinBounds(W)
    BY <1>1 DEF ChainInv, WholeInv
  <2> QED
    BY <1>2, <1>5, <2>3, <2>4 DEF WithinBounds, SameScalars
<1>10. NoneClaimed(pos')
  <2>1. IsList(P) /\ NoneClaimed(P)
    BY <1>1, <1>3 DEF Owned, Listed, ChainInv
  <2>2. x.pos.recovery = 0
    <3>1. PICK y : y = SyncPool(W, p).sp
      OBVIOUS
    <3>2. x = OpenSynced(y, d, g)
      BY <1>1, <1>5, <3>1 DEF OpenPosition
    <3>3. PICK final, n : final = OpenedSide(y, d, g) /\ n = g - OpenFee(g)
      OBVIOUS
    <3>4. x.pos = NewPosition(d, SharesMinted(y, d, n), MulDivFloor(n, LeverageBps, BpsScale),
                              y.gen[d])
      BY <1>5, <3>2, <3>3, OpenSyncedIs
    <3> QED
      BY <3>4 DEF NewPosition
  <2>3. PICK Q : Q = Append(P, x.pos)
    OBVIOUS
  <2>4. Len(Q) = Len(P) + 1 /\ Len(P) \in Nat /\ Q[Len(P) + 1] = x.pos
        /\ \A i \in 1 .. Len(P) : Q[i] = P[i]
    BY <2>1, <2>3, ListGrows
  <2>5. NoneClaimed(Q)
    BY <2>1, <2>2, <2>4 DEF NoneClaimed
  <2> QED
    BY <1>2, <1>5, <2>3, <2>5
<1>11. OnSides(buckets')
  BY <1>2 DEF ChainInv
<1>12. Owned(Whole', pos') /\ SubPoolSound(Whole') /\ WithinBounds(Whole')
  BY <1>2, <1>4, <1>5, <1>6, <1>8, <1>9
<1> QED
  BY <1>1, <1>4, <1>10, <1>11, <1>12 DEF ChainInv, WholeInv

LEMMA HarvestKeeps ==
  ASSUME ChainInv, NEW d \in Direction, Harvest(d)
  PROVE  /\ ChainInv' /\ WithinBounds(Whole')
         /\ HarvestDust(Whole, d).err = "Ok" /\ Whole' = HarvestDust(Whole, d).sp
         /\ Whole.dust = subPool.dust
<1>1. PICK W, P, x : W = Whole /\ P = pos /\ x = HarvestDust(W, d)
  OBVIOUS
<1>2. pos' = pos /\ buckets' = buckets
  BY DEF Harvest, Harvested
<1>3. Tidy /\ Sound(Whole) /\ Owned(W, P) /\ PoolSound(W) /\ WithinBounds(W)
  BY <1>1, ChainSound DEF ChainInv, WholeInv, Sound
<1>4. Tidy' /\ x.err = "Ok" /\ Whole' = x.sp /\ Whole.dust = subPool.dust
  BY <1>1, <1>3, HarvestWrites
<1>5. Owned(x.sp, P)
  BY <1>1, <1>3, <1>4, HarvestBacked
<1>6. SubPoolSound(x.sp)
  BY <1>1, <1>3, <1>4, HarvestSound
<1>7. WithinBounds(x.sp)
  <2>1. PICK b : b = [W EXCEPT !.dust[d] = 0]
    OBVIOUS
  <2>2. b.dormant = W.dormant /\ b.gen = W.gen
    BY <1>3, <2>1 DEF PoolSound, IsSubPool, SubPoolFields
  <2>3. x.sp = b
    BY <1>1, <2>1, CheckedSame DEF HarvestDust
  <2> QED
    BY <1>3, <2>2, <2>3 DEF WithinBounds
<1>8. Owned(Whole', pos') /\ SubPoolSound(Whole') /\ WithinBounds(Whole')
  BY <1>1, <1>2, <1>4, <1>5, <1>6, <1>7
<1>9. NoneClaimed(pos') /\ OnSides(buckets')
  BY <1>2 DEF ChainInv
<1> QED
  BY <1>1, <1>4, <1>8, <1>9 DEF ChainInv, WholeInv

LEMMA UnseenKeeps ==
  ASSUME ChainInv, Tidy', OnSides(buckets'), Whole' = Whole, pos' = pos
  PROVE  ChainInv'
BY DEF ChainInv, WholeInv

LEMMA AccountKeeps ==
  ASSUME ChainInv, NEW d \in Direction,
         \/ \E t \in Addresses : InitBucket(d, t)
         \/ \E k \in DOMAIN buckets[d] : CloseBucket(d, k)
  PROVE  ChainInv' /\ Whole' = Whole
<1>1. Tidy /\ OnSides(buckets)
  BY DEF ChainInv
<1>2. CASE \E t \in Addresses : InitBucket(d, t)
  <2>1. PICK t \in Addresses : InitBucket(d, t)
    BY <1>2
  <2>2. t \in Nat
    <3>1. PICK p \in Prices : t = BucketTickOf(p)
      BY DEF Addresses
    <3>2. p \in Nat /\ TickSize \in Nat /\ TickSize > 0
      BY PricesPositive, CoreParameters
    <3> QED
      BY <3>1, <3>2 DEF BucketTickOf
  <2>3. Tidy' /\ Whole' = Whole /\ OnSides(buckets')
    BY <1>1, <2>1, <2>2, InitBucketWrites
  <2>4. pos' = pos
    BY <2>1 DEF InitBucket
  <2> QED
    BY <2>3, <2>4, UnseenKeeps
<1>3. CASE \E k \in DOMAIN buckets[d] : CloseBucket(d, k)
  <2>1. PICK k \in DOMAIN buckets[d] : CloseBucket(d, k)
    BY <1>3
  <2>2. Tidy' /\ Whole' = Whole /\ OnSides(buckets')
    BY <1>1, <2>1, CloseBucketWrites
  <2>3. pos' = pos
    BY <2>1 DEF CloseBucket
  <2> QED
    BY <2>2, <2>3, UnseenKeeps
<1> QED
  BY <1>2, <1>3

(* A call that succeeds was not given a live account twice.                *)
LEMMA CallFits ==
  ASSUME NEW list \in Lists, NoDeadTwice(list), BucketCall(list)
  PROVE  Listable(list)
<1>1. PICK r : Bridged(list, r)
  BY DEF BucketCall, Sync, Close, ForceClose, Claim, Settled, PreSync
<1> QED
  BY <1>1, ListsFit DEF Bridged

LEMMA ChainStep ==
  ASSUME ChainInv, [TimelyBucketStep \/ TimelyOpenStep \/ AccountStep]_chainVars
  PROVE  ChainInv'
<1>1. CASE TimelyBucketStep
  <2>1. PICK list \in Lists : NoDeadTwice(list) /\ BucketCall(list)
    BY <1>1 DEF TimelyBucketStep
  <2>2. Listable(list)
    BY <2>1, CallFits
  <2>3. CASE \E p \in Prices : Sync(list, p)
    BY <2>2, <2>3, SyncKeeps
  <2>4. CASE \E i \in PosIds, p \in Prices :
               Close(list, i, p) \/ ForceClose(list, i, p) \/ Claim(list, i, p)
    BY <2>2, <2>4, CloseKeeps, ForceCloseKeeps, ClaimKeeps
  <2>5. CASE \E d \in Direction : \E t \in Ticks(View(list).dormant[d]) : PreSync(list, d, t)
    BY <2>2, <2>5, PreSyncKeeps
  <2> QED
    BY <2>1, <2>3, <2>4, <2>5 DEF BucketCall
<1>2. CASE TimelyOpenStep
  BY <1>2, TimelyOpenKeeps DEF TimelyOpenStep
<1>3. CASE AccountStep
  <2>1. PICK d \in Direction :
          \/ Harvest(d)
          \/ \E t \in Addresses : InitBucket(d, t)
          \/ \E k \in DOMAIN buckets[d] : CloseBucket(d, k)
    BY <1>3 DEF AccountStep
  <2> QED
    BY <2>1, HarvestKeeps, AccountKeeps
<1>4. CASE UNCHANGED chainVars
  <2>1. UNCHANGED <<subPool, ledger, buckets, forgotten, pos>>
    BY <1>4 DEF chainVars, accounts
  <2>2. Tidy' /\ OnSides(buckets')
    BY <2>1 DEF ChainInv, Tidy
  <2>3. Whole' = Whole
    BY <2>1, <2>2, WholeIs, WholeIsNext DEF ChainInv
  <2> QED
    BY <2>1, <2>2, <2>3, UnseenKeeps
<1> QED
  BY <1>1, <1>2, <1>3, <1>4

LEMMA WholeInit == Init => Tidy /\ OnSides(buckets) /\ Whole = NewSubPool
<1> SUFFICES ASSUME Init PROVE Tidy /\ OnSides(buckets) /\ Whole = NewSubPool
  OBVIOUS
<1>1. PICK e : e = [k \in {} |-> 0]
  OBVIOUS
<1>2. Orderly(e) /\ TicksOf(e) = {}
  BY <1>1, NoneOrderly
<1>3. buckets = [d \in Direction |-> e]
  BY <1>1 DEF Init, Both
<1>4. Tidy /\ OnSides(buckets)
  BY <1>2, <1>3 DEF Tidy, OnSides
<1>5. PICK W : W = Whole
  OBVIOUS
<1>6. W = WholeOf(AccountOf(NewSubPool), ledger, buckets, forgotten)
  BY <1>4, <1>5, WholeIs DEF Init
<1>7. /\ Shows(W, AccountOf(NewSubPool)) /\ W.rotateLog = Both(<<>>)
      /\ W.dormant = [d \in Direction |-> Unpack(d, ledger[d], buckets[d])]
  BY <1>6, WholeFields DEF Init
<1>8. Shows(NewSubPool, AccountOf(NewSubPool)) /\ NewSubPool.rotateLog = Both(<<>>)
      /\ NewSubPool.dormant = [d \in Direction |-> NewStore(d)]
  BY DEF NewSubPool, Shows, AccountOf, IsSubPool, SubPoolFields
<1>9. ASSUME NEW d \in Direction PROVE Unpack(d, ledger[d], buckets[d]) = NewStore(d)
  <2>1. PICK st : st = NewStore(d)
    OBVIOUS
  <2>2. /\ st = [f \in StoreFields |-> st[f]] /\ st.bucket = [t \in Ticks(st) |-> st.bucket[t]]
        /\ Ticks(st) = {} /\ st.dir = d
    BY <2>1 DEF NewStore, StoreFields, Ticks
  <2>3. Holds(e, st)
    BY <1>2, <2>2 DEF Holds, TicksOf
  <2>4. Unpack(st.dir, LedgerOf(st), e) = st
    BY <1>2, <2>2, <2>3, UnpackHeld
  <2>5. ledger[d] = LedgerOf(st) /\ buckets[d] = e
    BY <1>3, <2>1 DEF Init
  <2> QED
    BY <2>1, <2>2, <2>4, <2>5
<1>10. W.dormant = NewSubPool.dormant
  BY <1>7, <1>8, <1>9
<1>11. W = NewSubPool
  BY <1>7, <1>8, <1>10, ShowsSame
<1> QED
  BY <1>4, <1>5, <1>11

LEMMA InvGivesSound == ChainInv => AccountsSound
<1> SUFFICES ASSUME ChainInv PROVE AccountsSound
  OBVIOUS
<1>1. Tidy /\ SubPoolSound(Whole)
  BY DEF ChainInv, WholeInv
<1>2. ASSUME NEW d \in Direction PROVE CanUnpack(d, ledger[d], buckets[d])
  <2>1. PICK W, A : W = Whole /\ A = buckets[d]
    OBVIOUS
  <2>2. Orderly(A)
    BY <1>1, <2>1 DEF Tidy
  <2>3. W = WholeOf(subPool, ledger, buckets, forgotten)
    BY <1>1, <2>1, WholeIs
  <2>4. W.dormant = [e \in Direction |-> Unpack(e, ledger[e], buckets[e])]
    BY <2>3, WholeFields
  <2>5. W.dormant[d] = Unpack(d, ledger[d], A)
    BY <2>1, <2>4
  <2>6. CheckStore(W.dormant[d])
    BY <1>1, <2>1 DEF SubPoolSound
  <2> QED
    BY <2>1, <2>2, <2>5, <2>6 DEF CanUnpack, Orderly
<1> QED
  BY <1>1, <1>2 DEF AccountsSound

LEMMA ChainInit == Init => ChainInv
<1> SUFFICES ASSUME Init PROVE ChainInv
  OBVIOUS
<1>1. Tidy /\ OnSides(buckets) /\ Whole = NewSubPool /\ pos = <<>>
  BY WholeInit DEF Init
<1>2. SubPoolSound(Whole) /\ Owned(Whole, pos)
  BY <1>1, NothingOwned, NewSubPoolSound
<1>3. WithinBounds(NewSubPool)
  BY ProgramParameters DEF WithinBounds, NewSubPool, NewStore, NextEventIndex, Both
<1>4. NoneClaimed(pos)
  BY <1>1 DEF NoneClaimed
<1> QED
  BY <1>1, <1>2, <1>3, <1>4 DEF ChainInv, WholeInv

LEMMA ChainIsInvariant == TimelySpec => []ChainInv
<1>1. ChainInv /\ [TimelyBucketStep \/ TimelyOpenStep \/ AccountStep]_chainVars => ChainInv'
  BY ChainStep
<1> QED
  BY <1>1, ChainInit, PTL DEF TimelySpec

(* After any sequence of the program's instructions in which positions are *)
(* opened at the price of the last sync and no list names a dead account   *)
(* twice, all accounts together unpack and pass the engine's check of the  *)
(* sub-pool (account_layout.rs, sync.rs).  Both conditions are conditions  *)
(* on the callers: the program enforces neither, and without either a      *)
(* bucket can be lost and the market with it.  Whatever else a caller      *)
(* leaves out, repeats or puts in another order does no harm.              *)
THEOREM AccountsAlwaysDecode == TimelySpec => []AccountsSound
BY ChainIsInvariant, InvGivesSound, PTL

(***************************************************************************)
(* The keeper.                                                             *)
(***************************************************************************)
SnapFields == {"head", "buckets", "subPool"}

IsSnap(s) == s = [f \in SnapFields |-> s[f]] /\ OnSides(s.buckets)

(* A side that was read: its buckets are no further than its ledger.       *)
Fits(s, d) ==
  \A k \in DOMAIN s.buckets[d] :
    d \in DOMAIN s.head /\ s.head[d] \in Nat /\ s.buckets[d][k].lastApplied <= s.head[d]

Readable(acc) ==
  /\ acc.lastPrice \in Nat
  /\ \A d \in Direction : acc.pool[d] \in Nat /\ acc.notional[d] \in Nat

Placeable(h) == h.dir \in Direction /\ h.tick \in Nat

Doable(a) == Placeable(a) /\ a.kind \in {"Init", "PreSync", "Close"}

(* The keeper's invariant: ChainInv, and what each phase of a round knows  *)
(* of what was read and planned.                                           *)
BotInv ==
  /\ ChainInv
  /\ phase \in {"Send", "Long", "Short", "Plan"}
  /\ phase # "Send" => Trimmed
  /\ IsSnap(snap)
  /\ \A d \in Direction : Orderly(snap.buckets[d])
  /\ phase # "Send" => \A d \in Direction : Fits(snap, d)
  /\ Readable(snap.subPool)
  /\ \A h \in hints : Placeable(h)
  /\ \A a \in queue : Doable(a)

LEMMA EmptySnap ==
  /\ IsSnap(NoSnapshot) /\ \A d \in Direction : Orderly(NoSnapshot.buckets[d])
  /\ \A d \in Direction : Fits(NoSnapshot, d)
  /\ Readable(NoSnapshot.subPool)
<1>1. PICK e : e = [k \in {} |-> 0]
  OBVIOUS
<1>2. Orderly(e) /\ DOMAIN e = {}
  BY <1>1, NoneOrderly
<1>3. PICK N : N = NoSnapshot
  OBVIOUS
<1>4. /\ N = [f \in SnapFields |-> N[f]]
      /\ N.buckets = [d \in Direction |-> e] /\ N.subPool = AccountOf(NewSubPool)
  BY <1>1, <1>3 DEF NoSnapshot, SnapFields, Both
<1>5. Readable(N.subPool)
  BY <1>4 DEF Readable, AccountOf, NewSubPool, Both
<1>6. IsSnap(N) /\ \A d \in Direction : N.buckets[d] = e
  BY <1>4 DEF IsSnap, OnSides
<1> QED
  BY <1>2, <1>3, <1>5, <1>6 DEF Fits

(* What a decoded ledger says of the accounts of its side.                 *)
LEMMA LiveFits ==
  ASSUME ChainInv, NEW d \in Direction
  PROVE  /\ NextIndex(d) \in Nat
         /\ \A k \in DOMAIN buckets[d] : buckets[d][k].lastApplied <= NextIndex(d)
<1>1. PICK A, W, L : A = buckets[d] /\ W = Whole /\ L = ledger[d]
  OBVIOUS
<1>2. Orderly(A)
  BY <1>1 DEF ChainInv, Tidy
<1>3. W = WholeOf(subPool, ledger, buckets, forgotten)
  BY <1>1, WholeIs DEF ChainInv
<1>4. W.dormant = [e \in Direction |-> Unpack(e, ledger[e], buckets[e])]
  BY <1>3, WholeFields
<1>5. PICK st : st = Unpack(d, L, A)
  OBVIOUS
<1>6. W.dormant[d] = st
  BY <1>1, <1>4, <1>5
<1>7. StoreTyped(st) /\ Within(st)
  <2>1. PoolSound(W)
    BY <1>1, ChainSound DEF Sound
  <2> QED
    BY <1>6, <2>1 DEF PoolSound, StoreSound
<1>8. Unpacked(st, d, L, A)
  BY <1>2, <1>5, UnpackFields
<1>9. NextEventIndex(st) \in Nat /\ NextEventIndex(st) = NextIndex(d)
  BY <1>1, <1>7, <1>8, NextIndexNat DEF Unpacked, NextEventIndex, NextIndex
<1>10. ASSUME NEW k \in DOMAIN A PROVE A[k].lastApplied <= NextEventIndex(st)
  <2>1. CASE k \in Live(A)
    <3>1. A[k].tick \in Ticks(st) /\ st.bucket[A[k].tick] = BucketOf(A[k])
      BY <1>8, <2>1 DEF Unpacked, TicksOf
    <3>2. st.bucket[A[k].tick].lastApplied \in st.gcOffset .. NextEventIndex(st)
      BY <1>7, <3>1 DEF Within
    <3>3. st.bucket[A[k].tick].lastApplied = A[k].lastApplied
      BY <3>1 DEF BucketOf
    <3>4. st.gcOffset \in Nat
      BY <1>7 DEF StoreTyped
    <3> QED
      BY <1>9, <3>2, <3>3, <3>4
  <2>2. CASE k \notin Live(A)
    BY <1>2, <1>9, <2>2 DEF Orderly
  <2> QED
    BY <2>1, <2>2
<1> QED
  BY <1>1, <1>9, <1>10

LEMMA BotInitially == BotInit => BotInv
<1> SUFFICES ASSUME BotInit PROVE BotInv
  OBVIOUS
<1>1. ChainInv
  BY ChainInit DEF BotInit
<1> QED
  BY <1>1, EmptySnap DEF BotInit, BotInv

LEMMA SubPoolReadable == ChainInv => Readable(subPool)
<1> SUFFICES ASSUME ChainInv PROVE Readable(subPool)
  OBVIOUS
<1>1. PICK W : W = Whole
  OBVIOUS
<1>2. PoolSound(W)
  BY <1>1, ChainSound DEF Sound
<1>3. W = WholeOf(subPool, ledger, buckets, forgotten)
  BY <1>1, WholeIs DEF ChainInv
<1>4. Shows(W, subPool)
  BY <1>3, WholeFields
<1> QED
  BY <1>2, <1>4 DEF PoolSound, Shows, Readable

LEMMA ReadSubPoolKeeps ==
  ASSUME BotInv, ReadSubPool
  PROVE  BotInv'
<1>1. PICK N : N = [NoSnapshot EXCEPT !.subPool = subPool]
  OBVIOUS
<1>2. /\ N = [f \in SnapFields |-> N[f]] /\ N.subPool = subPool
      /\ N.buckets = NoSnapshot.buckets /\ N.head = NoSnapshot.head
  BY <1>1 DEF NoSnapshot, SnapFields
<1>3. /\ IsSnap(N) /\ \A d \in Direction : Orderly(N.buckets[d]) /\ Fits(N, d)
  BY <1>2, EmptySnap DEF IsSnap, Fits
<1>4. Readable(N.subPool)
  BY <1>2, SubPoolReadable DEF BotInv
<1>5. Trimmed
  BY DEF ReadSubPool, Decodes, MarketBytes, MarketSpace
<1>6. snap' = N /\ phase' = "Long" /\ UNCHANGED <<chainVars, hints, queue>>
  BY <1>1 DEF ReadSubPool
<1>7. ChainInv'
  <2>1. ChainInv /\ UNCHANGED chainVars
    BY <1>6 DEF BotInv
  <2> QED
    BY <2>1, ChainStep
<1> QED
  BY <1>3, <1>4, <1>5, <1>6, <1>7 DEF BotInv

LEMMA ReadSideKeeps ==
  ASSUME BotInv, NEW d \in Direction, ReadSide(d)
  PROVE  BotInv'
<1>1. PICK A, H, S : A = buckets[d] /\ H = HeadRead(d) /\ S = snap
  OBVIOUS
<1>2. PICK N : N = [S EXCEPT !.head = H, !.buckets[d] = A]
  OBVIOUS
<1>3. /\ IsSnap(S) /\ \A e \in Direction : Orderly(S.buckets[e])
      /\ phase = d /\ d # "Send" /\ phase # "Send"
      /\ \A e \in Direction : Fits(S, e)
      /\ Readable(S.subPool) /\ Trimmed
  BY <1>1 DEF BotInv, ReadSide, Direction
<1>4. snap' = N /\ UNCHANGED <<chainVars, hints, queue>> /\ phase' \in {"Short", "Plan"}
  BY <1>1, <1>2 DEF ReadSide
<1>5. /\ N = [f \in SnapFields |-> N[f]] /\ N.head = H
      /\ N.buckets = [S.buckets EXCEPT ![d] = A] /\ N.subPool = S.subPool
  BY <1>2, <1>3 DEF IsSnap, SnapFields
<1>6. /\ N.buckets = [e \in Direction |-> IF e = d THEN A ELSE S.buckets[e]]
  <2>1. PICK B : B = S.buckets
    OBVIOUS
  <2>2. B = [e \in Direction |-> B[e]]
    BY <1>3, <2>1 DEF IsSnap, OnSides
  <2>3. N.buckets = [B EXCEPT ![d] = A]
    BY <1>5, <2>1
  <2>4. [B EXCEPT ![d] = A] = [e \in Direction |-> IF e = d THEN A ELSE B[e]]
    BY <2>2
  <2> QED
    BY <2>1, <2>3, <2>4
<1>7. IsSnap(N)
  BY <1>5, <1>6 DEF IsSnap, OnSides
<1>8. Orderly(A)
  BY <1>1 DEF BotInv, ChainInv, Tidy
<1>9. \A e \in Direction : Orderly(N.buckets[e])
  BY <1>3, <1>6, <1>8
<1>10. H = Over([e \in {d} |-> NextIndex(e)], S.head)
  BY <1>1, <1>3 DEF HeadRead, LedgerDecodes, Decodes
<1>11. /\ d \in DOMAIN H /\ H[d] = NextIndex(d)
       /\ \A e \in DOMAIN S.head : e \in DOMAIN H /\ (e # d => H[e] = S.head[e])
  BY <1>10 DEF Over
<1>12. ASSUME NEW e \in Direction PROVE Fits(N, e)
  <2>1. CASE e = d
    <3>1. N.buckets[e] = A /\ N.head = H
      BY <1>5, <1>6, <2>1
    <3>2. NextIndex(d) \in Nat /\ \A k \in DOMAIN A : A[k].lastApplied <= NextIndex(d)
      BY <1>1, LiveFits DEF BotInv
    <3> QED
      BY <1>11, <2>1, <3>1, <3>2 DEF Fits
  <2>2. CASE e # d
    <3>1. N.buckets[e] = S.buckets[e] /\ N.head = H /\ Fits(S, e)
      BY <1>3, <1>5, <1>6, <2>2
    <3> QED
      BY <1>11, <2>2, <3>1 DEF Fits
  <2> QED
    BY <2>1, <2>2
<1>13. ChainInv'
  <2>1. ChainInv /\ UNCHANGED chainVars
    BY <1>4 DEF BotInv
  <2> QED
    BY <2>1, ChainStep
<1>14. Readable(N.subPool) /\ (\A h \in hints : Placeable(h)) /\ \A a \in queue : Doable(a)
  BY <1>3, <1>5 DEF BotInv
<1> QED
  BY <1>3, <1>4, <1>7, <1>9, <1>12, <1>13, <1>14 DEF BotInv

LEMMA TickNat ==
  ASSUME NEW a \in Nat, NEW n \in Nat, n > 0
  PROVE  BucketTickOf(RoundedRatio(a, n)) \in Nat
<1>1. PICK x : x = 2 * a + n
  OBVIOUS
<1>2. PICK y : y = 2 * n
  OBVIOUS
<1>3. x \in Nat /\ y \in Nat /\ y > 0
  BY <1>1, <1>2
<1>4. x \div y \in Nat
  BY <1>3
<1>5. TickSize \in Nat /\ TickSize > 0
  BY CoreParameters
<1>6. (x \div y) \div TickSize \in Nat
  BY <1>4, <1>5
<1> QED
  BY <1>1, <1>2, <1>6 DEF BucketTickOf, RoundedRatio

LEMMA PredictedPlaceable ==
  ASSUME NEW acc, Readable(acc), NEW h \in Predicted(acc)
  PROVE  Placeable(h)
<1>1. PICK d \in Direction : MayZero(acc, d) /\ h = Hint(d, BucketTickOf(ZeroPrice(acc, d)))
  BY DEF Predicted
<1>2. PICK n, m, x : n = acc.notional[d] /\ m = acc.pool[d] /\ x = acc.lastPrice
  OBVIOUS
<1>3. n \in Nat /\ m \in Nat /\ x \in Nat /\ n # 0
  BY <1>1, <1>2 DEF Readable, MayZero
<1>4. PICK left : left = IF d = "Long" THEN n - m ELSE n + m
  OBVIOUS
<1>5. left \in Nat
  BY <1>1, <1>2, <1>3, <1>4 DEF MayZero
<1>6. x * left \in Nat
  BY <1>3, <1>5
<1>7. BucketTickOf(RoundedRatio(x * left, n)) \in Nat
  BY <1>3, <1>6, TickNat
<1>8. ZeroPrice(acc, d) = RoundedRatio(x * left, n)
  BY <1>2, <1>4 DEF ZeroPrice
<1> QED
  BY <1>1, <1>7, <1>8 DEF Hint, Placeable

LEMMA HintPlaceable ==
  ASSUME NEW s, \A d \in Direction : Orderly(s.buckets[d]), NEW a \in Accounts(s)
  PROVE  Placeable(HintOf(s, a))
<1>1. PICK d \in Direction : \E k \in DOMAIN s.buckets[d] : a = <<d, k>>
  BY DEF Accounts
<1>11. PICK k \in DOMAIN s.buckets[d] : a = <<d, k>>
  BY <1>1
<1>2. PICK A : A = s.buckets[d] /\ Orderly(A)
  OBVIOUS
<1>3. A[k].tick \in Nat
  BY <1>2, <1>11 DEF Orderly, Account
<1>4. HintOf(s, a) = Hint(d, A[k].tick)
  BY <1>2, <1>11 DEF HintOf, Content
<1> QED
  BY <1>3, <1>4 DEF Hint, Placeable

LEMMA TaskDoable ==
  ASSUME NEW h, Placeable(h), NEW k \in {"Init", "PreSync", "Close"}, NEW n
  PROVE  Doable(Task(k, h, n))
BY DEF Task, Doable, Placeable

LEMMA WantedDoable ==
  ASSUME NEW s, \A d \in Direction : Orderly(s.buckets[d]),
         NEW known, \A h \in known : Placeable(h), NEW a \in Wanted(s, known)
  PROVE  Doable(a)
<1>1. CASE a \in {Task("Init", h, 0) : h \in ToEmit(s, known)}
  <2>1. PICK h \in known : a = Task("Init", h, 0)
    BY <1>1 DEF ToEmit
  <2> QED
    BY <2>1, TaskDoable
<1>2. CASE a \in Upkeep(s)
  <2>1. PICK b \in Accounts(s) : \/ a = Task("PreSync", HintOf(s, b), PendingOf(s, b))
                                 \/ a = Task("Close", HintOf(s, b), 0)
    BY <1>2 DEF Upkeep
  <2>2. Placeable(HintOf(s, b))
    BY HintPlaceable
  <2> QED
    BY <2>1, <2>2, TaskDoable
<1> QED
  BY <1>1, <1>2 DEF Wanted

LEMMA PlansWanted ==
  ASSUME NEW s, NEW known, NEW q \in Plans(s, known)
  PROVE  q \subseteq Wanted(s, known)
<1>1. PICK T : T = Wanted(s, known)
  OBVIOUS
<1>2. q \in Truncated(T)
  BY <1>1 DEF Plans
<1> QED
  BY <1>1, <1>2 DEF Truncated, kSubset

LEMMA PlanRoundKeeps ==
  ASSUME BotInv, PlanRound
  PROVE  BotInv'
<1>1. PICK likely \in SUBSET Predicted(snap.subPool) :
        LET known == hints \cup likely
        IN  IF ViewError(snap) = "Ok"
            THEN queue' \in Plans(snap, known) /\ hints' = HintsLeft(snap, known)
            ELSE queue' = {} /\ hints' = known
  BY DEF PlanRound
<1>2. PICK known : known = hints \cup likely
  OBVIOUS
<1>3. \A h \in known : Placeable(h)
  BY <1>2, PredictedPlaceable DEF BotInv
<1>4. hints' \subseteq known /\ queue' \subseteq Wanted(snap, known)
  BY <1>1, <1>2, PlansWanted DEF HintsLeft
<1>5. (\A h \in hints' : Placeable(h)) /\ \A a \in queue' : Doable(a)
  BY <1>3, <1>4, WantedDoable DEF BotInv
<1>6. PICK N, B : /\ B = IF queue' = {} THEN NoSnapshot.buckets ELSE snap.buckets
                  /\ N = [NoSnapshot EXCEPT !.buckets = B]
  OBVIOUS
<1>7. snap' = N /\ phase' = "Send" /\ UNCHANGED chainVars
  BY <1>6 DEF PlanRound
<1>8. OnSides(B) /\ \A d \in Direction : Orderly(B[d])
  BY <1>6, EmptySnap DEF BotInv, IsSnap
<1>9. N = [f \in SnapFields |-> N[f]] /\ N.buckets = B /\ N.subPool = NoSnapshot.subPool
  BY <1>6 DEF NoSnapshot, SnapFields
<1>10. Readable(N.subPool) /\ IsSnap(N)
  BY <1>8, <1>9, EmptySnap DEF IsSnap
<1>11. ChainInv'
  <2>1. ChainInv /\ UNCHANGED chainVars
    BY <1>7 DEF BotInv
  <2> QED
    BY <2>1, ChainStep
<1> QED
  BY <1>5, <1>7, <1>8, <1>9, <1>10, <1>11 DEF BotInv

(* What the keeper's transactions do to the accounts.                      *)
Harmless(a) ==
  \/ Whole' = Whole
  \/ /\ a.kind = "PreSync" /\ PreSyncBucket(Whole, a.dir, a.tick).err = "Ok"
     /\ Whole' = PreSyncBucket(Whole, a.dir, a.tick).sp

LEMMA SentKeeps ==
  ASSUME BotInv, NEW a, Doable(a), Sent(a)
  PROVE  ChainInv' /\ Harmless(a)
<1>1. ChainInv /\ Tidy /\ OnSides(buckets) /\ a.dir \in Direction /\ a.tick \in Nat
  BY DEF BotInv, ChainInv, Doable, Placeable
<1>2. CASE a.kind = "Init"
  <2>1. InitBucket(a.dir, a.tick)
    BY <1>2 DEF Sent
  <2>2. Tidy' /\ Whole' = Whole /\ OnSides(buckets')
    BY <1>1, <2>1, InitBucketWrites
  <2>3. pos' = pos
    BY <2>1 DEF InitBucket
  <2> QED
    BY <1>1, <2>2, <2>3, UnseenKeeps DEF Harmless
<1>3. CASE a.kind = "PreSync"
  <2>1. SplitsAsSent /\ PreSync(BucketsSent, a.dir, a.tick)
    BY <1>3 DEF Sent
  <2>2. ASSUME NEW d \in Direction
        PROVE  Ordered(BucketsSent[d], DOMAIN buckets[d]) /\ IsInjective(BucketsSent[d])
    <3>1. PICK S, all : S = DOMAIN snap.buckets[d] /\ all = DOMAIN buckets[d]
      OBVIOUS
    <3>2. IsFiniteSet(S)
      BY <3>1 DEF BotInv, Orderly
    <3>3. Ordered(SetToSeq(S), S) /\ IsInjective(SetToSeq(S))
      BY <3>2, SetToSeqOnto
    <3>4. S \subseteq all
      BY <2>1, <3>1 DEF SplitsAsSent
    <3>5. BucketsSent[d] = SetToSeq(S)
      BY <3>1 DEF BucketsSent
    <3>6. \E n \in Nat : SetToSeq(S) \in [1 .. n -> S]
      BY <3>3 DEF Ordered
    <3> QED
      BY <3>1, <3>3, <3>4, <3>5, <3>6 DEF Ordered
  <2>3. Listable(BucketsSent)
    BY <2>2 DEF Listable
  <2>4. /\ ChainInv' /\ PreSyncBucket(Whole, a.dir, a.tick).err = "Ok"
        /\ Whole' = PreSyncBucket(Whole, a.dir, a.tick).sp
    BY <1>1, <2>1, <2>3, PreSyncKeeps
  <2> QED
    BY <1>3, <2>4 DEF Harmless
<1>4. CASE a.kind = "Close"
  <2>1. PICK k \in DOMAIN buckets[a.dir] : CloseBucket(a.dir, k)
    BY <1>4 DEF Sent
  <2>2. Tidy' /\ Whole' = Whole /\ OnSides(buckets')
    BY <1>1, <2>1, CloseBucketWrites
  <2>3. pos' = pos
    BY <2>1 DEF CloseBucket
  <2> QED
    BY <1>1, <2>2, <2>3, UnseenKeeps DEF Harmless
<1> QED
  BY <1>2, <1>3, <1>4 DEF Doable

LEMMA SendingKeeps ==
  ASSUME BotInv, NEW a, Sending(a), ChainInv'
  PROVE  BotInv'
<1>1. PICK S : S = snap'
  OBVIOUS
<1>2. /\ phase' = phase /\ phase = "Send" /\ hints' = hints /\ queue' \subseteq queue
      /\ S = NoSnapshot \/ S = snap
  BY <1>1 DEF Sending
<1>3. IsSnap(S) /\ Readable(S.subPool) /\ \A d \in Direction : Orderly(S.buckets[d])
  BY <1>2, EmptySnap DEF BotInv
<1> QED
  BY <1>1, <1>2, <1>3 DEF BotInv

LEMMA TradersKeep ==
  ASSUME ChainInv, Traders
  PROVE  ChainInv'
<1>1. Listable(FullList)
  BY FullListFits DEF ChainInv
<1>2. CASE \E p \in Prices : Sync(FullList, p)
  BY <1>1, <1>2, SyncKeeps
<1>3. CASE \E p \in Prices, d \in Direction, g \in Grosses :
             phase = "Send" /\ subPool.lastPrice \in {0, p} /\ Open(p, d, g)
  BY <1>3, TimelyOpenKeeps
<1>4. CASE \E i \in PosIds, p \in Prices :
             Close(FullList, i, p) \/ ForceClose(FullList, i, p) \/ Claim(FullList, i, p)
  BY <1>1, <1>4, CloseKeeps, ForceCloseKeeps, ClaimKeeps
<1> QED
  BY <1>2, <1>3, <1>4 DEF Traders

LEMMA UnmovedChain == ChainInv /\ UNCHANGED chainVars => ChainInv'
BY ChainStep

LEMMA BotStep ==
  ASSUME BotInv, [BotNext]_botVars
  PROVE  BotInv'
<1>1. CASE Traders /\ UNCHANGED bot
  <2>1. ChainInv'
    BY <1>1, TradersKeep DEF BotInv
  <2> QED
    BY <1>1, <2>1 DEF BotInv, bot
<1>2. CASE ReadSubPool
  BY <1>2, ReadSubPoolKeeps
<1>3. CASE \E d \in Direction : ReadSide(d)
  BY <1>3, ReadSideKeeps
<1>4. CASE PlanRound
  BY <1>4, PlanRoundKeeps
<1>5. CASE \E a \in queue : Lands(a) \/ Fails(a)
  <2>1. PICK a \in queue : Lands(a) \/ Fails(a)
    BY <1>5
  <2>2. Sending(a) /\ Doable(a)
    BY <2>1 DEF Lands, Fails, BotInv
  <2>3. ChainInv'
    <3>1. CASE Lands(a)
      BY <2>2, <3>1, SentKeeps DEF Lands
    <3>2. CASE Fails(a)
      BY <3>2, UnmovedChain DEF Fails, BotInv
    <3> QED
      BY <2>1, <3>1, <3>2
  <2> QED
    BY <2>2, <2>3, SendingKeeps
<1>6. CASE UNCHANGED botVars
  <2>1. ChainInv'
    BY <1>6, UnmovedChain DEF BotInv, botVars
  <2> QED
    BY <1>6, <2>1 DEF BotInv, botVars, bot
<1> QED
  BY <1>1, <1>2, <1>3, <1>4, <1>5, <1>6 DEF BotNext

LEMMA InvReads == BotInv => ReadsAgree
<1> SUFFICES ASSUME BotInv, phase = "Plan" PROVE ViewError(snap) = "Ok"
  BY DEF ReadsAgree
<1>1. PICK s : s = snap
  OBVIOUS
<1>2. \A d \in Direction : Fits(s, d) /\ Orderly(s.buckets[d])
  BY <1>1 DEF BotInv
<1>3. ASSUME NEW a \in Accounts(s)
      PROVE  a[1] \in DOMAIN s.head /\ ~(Content(s, a).lastApplied > s.head[a[1]])
  <2>1. PICK d \in Direction : \E k \in DOMAIN s.buckets[d] : a = <<d, k>>
    BY DEF Accounts
  <2>2. PICK k \in DOMAIN s.buckets[d] : a = <<d, k>>
    BY <2>1
  <2>3. PICK m, n : m = s.buckets[d][k].lastApplied /\ n = s.head[d]
    OBVIOUS
  <2>4. d \in DOMAIN s.head /\ m <= n /\ n \in Nat
    BY <1>2, <2>2, <2>3 DEF Fits
  <2>5. m \in Nat
    <3>1. PICK A : A = s.buckets[d] /\ Orderly(A)
      BY <1>2
    <3> QED
      BY <2>2, <2>3, <3>1 DEF Orderly, Account
  <2>6. ~(m > n)
    BY <2>4, <2>5
  <2> QED
    BY <2>2, <2>3, <2>4, <2>6 DEF Content
<1> QED
  BY <1>1, <1>3 DEF ViewError

LEMMA BotIsInvariant == BotSpec => []BotInv
BY BotInitially, BotStep, PTL DEF BotSpec

(* Whatever transactions land between the three calls of a refresh, the    *)
(* scheduler's consistency check (keeper/src/lib.rs) accepts what was read *)
(* when it comes to plan: the ledger and the buckets of a side come from   *)
(* one call, and only an account of that side is compared with them.       *)
THEOREM ReadsAlwaysAgree == BotSpec => []ReadsAgree
BY BotIsInvariant, InvReads, PTL

(***************************************************************************)
(* What a pre-sync leaves.                                                 *)
(***************************************************************************)

LEMMA SameReplayed == ASSUME NEW st, NEW b PROVE Market!Replayed(st, b) = Replayed(st, b)
BY Zenon DEF Market!Replayed, Replayed, Market!FoldLeft, FoldLeft, Market!MapThenFoldSet,
     MapThenFoldSet, Market!Max, Max, Market!Unapplied, Unapplied, Market!EntryShare, EntryShare,
     Market!ShareOf, ShareOf, Market!Smaller, Smaller, Market!MulDivFloor, MulDivFloor,
     Market!Monus, Monus, Market!IntrinsicClaim, IntrinsicClaim, Market!Activated, Activated,
     Market!Distance, Distance, Market!NextEventIndex, NextEventIndex

LEMMA EntitledIs ==
  ASSUME NEW s, NEW d, NEW t
  PROVE  Market!Entitled(s, d, t)
           = s.dormant[d].bucket[t].accrued
               + (Promised(s.dormant[d], t) - s.dormant[d].bucket[t].accrued)
BY SameReplayed DEF Market!Entitled, Market!PendingForBucket, Promised

LEMMA EntitledPromised ==
  ASSUME NEW s, NEW d \in Direction, StoreSound(s.dormant[d]), NEW t \in Ticks(s.dormant[d])
  PROVE  Market!Entitled(s, d, t) = Promised(s.dormant[d], t)
<1>1. PICK st : st = s.dormant[d]
  OBVIOUS
<1>2. Promised(st, t) \in Nat /\ st.bucket[t].accrued \in Nat
  BY <1>1, PromisedNat DEF StoreSound, StoreTyped, Bucket
<1>3. PICK a, b : a = st.bucket[t].accrued /\ b = Promised(st, t)
  OBVIOUS
<1>4. a + (b - a) = b
  BY <1>2, <1>3
<1> QED
  BY <1>1, <1>3, <1>4, EntitledIs

(* V has every bucket of W with all that it is entitled to.                *)
Spared(W, V) ==
  \A d \in Direction : \A t \in Ticks(W.dormant[d]) :
    /\ t \in Ticks(V.dormant[d])
    /\ Market!Entitled(V, d, t) = Market!Entitled(W, d, t)

LEMMA PreSyncSpares ==
  ASSUME NEW W, PoolSound(W), NEW e \in Direction, NEW x, PreSyncBucket(W, e, x).err = "Ok",
         NEW V, V = PreSyncBucket(W, e, x).sp, PoolSound(V)
  PROVE  Spared(W, V)
<1>1. ASSUME NEW d \in Direction, NEW t \in Ticks(W.dormant[d])
      PROVE  t \in Ticks(V.dormant[d]) /\ Market!Entitled(V, d, t) = Market!Entitled(W, d, t)
  <2>1. t \in Ticks(V.dormant[d]) /\ Promised(V.dormant[d], t) = Promised(W.dormant[d], t)
    BY PreSyncPromises
  <2>2. StoreSound(W.dormant[d]) /\ StoreSound(V.dormant[d])
    BY DEF PoolSound
  <2> QED
    BY <2>1, <2>2, EntitledPromised
<1> QED
  BY <1>1 DEF Spared

LEMMA BotSpares ==
  ASSUME BotInv, [BotNext]_botVars, queue' # queue
  PROVE  Spared(Whole, Whole')
<1>1. CASE PlanRound
  <2>1. UNCHANGED chainVars /\ ChainInv
    BY <1>1 DEF PlanRound, BotInv
  <2>2. Whole' = Whole
    <3>1. UNCHANGED <<subPool, ledger, buckets, forgotten>> /\ Tidy /\ Tidy'
      BY <2>1, UnmovedChain DEF chainVars, accounts, ChainInv
    <3> QED
      BY <3>1, WholeIs, WholeIsNext
  <2> QED
    BY <2>2 DEF Spared
<1>2. CASE \E a \in queue : Fails(a)
  <2>1. UNCHANGED chainVars /\ ChainInv
    BY <1>2 DEF Fails, BotInv
  <2>2. Whole' = Whole
    <3>1. UNCHANGED <<subPool, ledger, buckets, forgotten>> /\ Tidy /\ Tidy'
      BY <2>1, UnmovedChain DEF chainVars, accounts, ChainInv
    <3> QED
      BY <3>1, WholeIs, WholeIsNext
  <2> QED
    BY <2>2 DEF Spared
<1>3. CASE \E a \in queue : Lands(a)
  <2>1. PICK a \in queue : Sent(a) /\ Doable(a)
    BY <1>3 DEF Lands, BotInv
  <2>2. ChainInv' /\ Harmless(a)
    BY <2>1, SentKeeps
  <2>3. PICK W, V : W = Whole /\ V = Whole'
    OBVIOUS
  <2>4. PoolSound(W)
    BY <2>3, ChainSound DEF BotInv, Sound
  <2>5. PoolSound(V)
    BY <2>2, <2>3 DEF ChainInv, WholeInv, Owned, Listed
  <2>6. \/ V = W
        \/ /\ PreSyncBucket(W, a.dir, a.tick).err = "Ok"
           /\ V = PreSyncBucket(W, a.dir, a.tick).sp
    BY <2>2, <2>3 DEF Harmless
  <2>7. a.dir \in Direction
    BY <2>1 DEF Doable, Placeable
  <2>8. CASE V = W
    BY <2>3, <2>8 DEF Spared
  <2>9. CASE /\ PreSyncBucket(W, a.dir, a.tick).err = "Ok"
             /\ V = PreSyncBucket(W, a.dir, a.tick).sp
    BY <2>3, <2>4, <2>5, <2>7, <2>9, PreSyncSpares
  <2> QED
    BY <2>6, <2>8, <2>9
<1> QED
  BY <1>1, <1>2, <1>3 DEF BotNext, ReadSubPool, ReadSide, botVars, bot

LEMMA BotHarmless ==
  ASSUME BotInv, [BotNext]_botVars
  PROVE  [UNCHANGED pos /\ queue' # queue =>
            \A d \in Direction : \A t \in Ticks(Whole.dormant[d]) :
              /\ t \in Ticks(Whole'.dormant[d])
              /\ Market!Entitled(Whole', d, t) = Market!Entitled(Whole, d, t)]_botVars
<1>1. queue' # queue => Spared(Whole, Whole')
  BY BotSpares
<1> QED
  BY <1>1 DEF Spared

(* A plan made from an old snapshot and carried out later still leaves     *)
(* every live bucket where it was, with what it holds and is owed: the     *)
(* program refuses to close an account that is in use, a new account takes *)
(* no tick, and a pre-sync credits exactly what was promised.              *)
THEOREM RoundsAreHarmless == BotSpec => RoundHarmless
BY BotIsInvariant, BotHarmless, PTL DEF BotSpec, RoundHarmless

(***************************************************************************)
(* The market of the refinement has engine operators of its own, instances *)
(* of the ones above: the same functions of the same arguments.            *)
(***************************************************************************)

LEMMA SameArithmetic ==
  /\ Market!BpsScale = BpsScale
  /\ \A a, b : Market!Smaller(a, b) = Smaller(a, b)
  /\ \A a, b : Market!Larger(a, b) = Larger(a, b)
  /\ \A a, b : Market!Monus(a, b) = Monus(a, b)
  /\ \A a, b : Market!Distance(a, b) = Distance(a, b)
  /\ \A a, b, d : Market!MulDivFloor(a, b, d) = MulDivFloor(a, b, d)
  /\ \A a, b, d : Market!MulDivCeil(a, b, d) = MulDivCeil(a, b, d)
  /\ \A sign, notional, pLast, pNow :
        Market!SignedPnlIncrement(sign, notional, pLast, pNow)
          = SignedPnlIncrement(sign, notional, pLast, pNow)
  /\ \A pOld, pNew : Market!PriceMoveBps(pOld, pNew) = PriceMoveBps(pOld, pNew)
<1>1. Market!BpsScale = BpsScale
  BY DEF Market!BpsScale, BpsScale
<1>2. \A a, b : Market!Smaller(a, b) = Smaller(a, b)
  BY DEF Market!Smaller, Smaller
<1>3. \A a, b : Market!Larger(a, b) = Larger(a, b)
  BY DEF Market!Larger, Larger
<1>4. \A a, b : Market!Monus(a, b) = Monus(a, b)
  BY DEF Market!Monus, Monus
<1>5. \A a, b : Market!Distance(a, b) = Distance(a, b)
  BY DEF Market!Distance, Distance
<1>6. \A a, b, d : Market!MulDivFloor(a, b, d) = MulDivFloor(a, b, d)
  BY DEF Market!MulDivFloor, MulDivFloor
<1>7. \A a, b, d : Market!MulDivCeil(a, b, d) = MulDivCeil(a, b, d)
  BY DEF Market!MulDivCeil, MulDivCeil
<1>8. \A sign, notional, pLast, pNow :
      Market!SignedPnlIncrement(sign, notional, pLast, pNow)
        = SignedPnlIncrement(sign, notional, pLast, pNow)
  BY <1>5, <1>6 DEF Market!SignedPnlIncrement, SignedPnlIncrement
<1>9. \A pOld, pNew : Market!PriceMoveBps(pOld, pNew) = PriceMoveBps(pOld, pNew)
  BY <1>1, <1>5, <1>6 DEF Market!PriceMoveBps, PriceMoveBps
<1> QED
  BY <1>1, <1>2, <1>3, <1>4, <1>5, <1>6, <1>7, <1>8, <1>9

LEMMA SameReads ==
  /\ Market!Direction = Direction
  /\ \A d : Market!Sign(d) = Sign(d)
  /\ \A st : Market!Ticks(st) = Ticks(st)
  /\ \A d : Market!NewStore(d) = NewStore(d)
  /\ \A st : Market!NextEventIndex(st) = NextEventIndex(st)
  /\ \A f, S : Market!SumOver(f, S) = SumOver(f, S)
  /\ \A st, b : Market!Unapplied(st, b) = Unapplied(st, b)
  /\ \A st, t, shares : Market!CanRedeem(st, t, shares) = CanRedeem(st, t, shares)
  /\ \A b : Market!Spent(b) = Spent(b)
  /\ \A st, t, b : Market!TicksKept(st, t, b) = TicksKept(st, t, b)
  /\ \A st, t : Market!CanInsert(st, t) = CanInsert(st, t)
  /\ \A st : Market!TotalRecoveryShares(st) = TotalRecoveryShares(st)
  /\ \A st : Market!CheckStore(st) = CheckStore(st)
<1>1. Market!Direction = Direction
  BY DEF Market!Direction, Direction
<1>2. \A d : Market!Sign(d) = Sign(d)
  BY DEF Market!Sign, Sign
<1>3. \A st : Market!Ticks(st) = Ticks(st)
  BY DEF Market!Ticks, Ticks
<1>4. \A d : Market!NewStore(d) = NewStore(d)
  BY DEF Market!NewStore, NewStore
<1>5. \A st : Market!NextEventIndex(st) = NextEventIndex(st)
  BY DEF Market!NextEventIndex, NextEventIndex
<1>6. \A f, S : Market!SumOver(f, S) = SumOver(f, S)
  BY DEF Market!SumOver, SumOver, Market!SumFunctionOnSet, SumFunctionOnSet,
       Market!FoldFunctionOnSet, FoldFunctionOnSet, Market!MapThenFoldSet, MapThenFoldSet
<1>7. \A st, b : Market!Unapplied(st, b) = Unapplied(st, b)
  BY DEF Market!Unapplied, Unapplied
<1>8. \A st, t, shares : Market!CanRedeem(st, t, shares) = CanRedeem(st, t, shares)
  BY <1>3 DEF Market!CanRedeem, CanRedeem
<1>9. \A b : Market!Spent(b) = Spent(b)
  BY DEF Market!Spent, Spent
<1>10. \A st, t, b : Market!TicksKept(st, t, b) = TicksKept(st, t, b)
  BY <1>3, <1>9 DEF Market!TicksKept, TicksKept
<1>11. \A st, t : Market!CanInsert(st, t) = CanInsert(st, t)
  BY Zenon DEF Market!CanInsert, CanInsert, Market!Cardinality, Cardinality, Market!Ticks, Ticks
<1>12. \A st : Market!TotalRecoveryShares(st) = TotalRecoveryShares(st)
  BY <1>3, <1>6 DEF Market!TotalRecoveryShares, TotalRecoveryShares
<1>13. \A st : Market!CheckStore(st) = CheckStore(st)
  BY <1>3, <1>5, <1>6 DEF Market!CheckStore, CheckStore
<1> QED
  BY <1>1, <1>2, <1>3, <1>4, <1>5, <1>6, <1>7, <1>8, <1>9, <1>10, <1>11, <1>12, <1>13

LEMMA SameClaims ==
  /\ \A d, anchor, p : Market!Activated(d, anchor, p) = Activated(d, anchor, p)
  /\ \A st, p : Market!ActivatedTicks(st, p) = ActivatedTicks(st, p)
  /\ \A d, b, p : Market!IntrinsicClaim(d, b, p) = IntrinsicClaim(d, b, p)
  /\ \A d, b, p : Market!OutstandingClaim(d, b, p) = OutstandingClaim(d, b, p)
  /\ \A st, p : Market!TotalOutstanding(st, p) = TotalOutstanding(st, p)
  /\ \A alloc, owed, total : Market!ShareOf(alloc, owed, total) = ShareOf(alloc, owed, total)
  /\ \A d, b, accrued, e : Market!EntryShare(d, b, accrued, e) = EntryShare(d, b, accrued, e)
<1>1. \A d, anchor, p : Market!Activated(d, anchor, p) = Activated(d, anchor, p)
  BY DEF Market!Activated, Activated
<1>2. \A st, p : Market!ActivatedTicks(st, p) = ActivatedTicks(st, p)
  BY SameReads, <1>1 DEF Market!ActivatedTicks, ActivatedTicks
<1>3. \A d, b, p : Market!IntrinsicClaim(d, b, p) = IntrinsicClaim(d, b, p)
  BY SameArithmetic, <1>1 DEF Market!IntrinsicClaim, IntrinsicClaim
<1>4. \A d, b, p : Market!OutstandingClaim(d, b, p) = OutstandingClaim(d, b, p)
  BY SameArithmetic, <1>3 DEF Market!OutstandingClaim, OutstandingClaim
<1>5. \A st, p : Market!TotalOutstanding(st, p) = TotalOutstanding(st, p)
  BY SameReads, <1>2, <1>4 DEF Market!TotalOutstanding, TotalOutstanding
<1>6. \A alloc, owed, total : Market!ShareOf(alloc, owed, total) = ShareOf(alloc, owed, total)
  BY SameArithmetic DEF Market!ShareOf, ShareOf
<1>7. \A d, b, accrued, e : Market!EntryShare(d, b, accrued, e) = EntryShare(d, b, accrued, e)
  BY SameArithmetic, <1>3, <1>6 DEF Market!EntryShare, EntryShare
<1> QED
  BY <1>1, <1>2, <1>3, <1>4, <1>5, <1>6, <1>7

LEMMA SameReplay ==
  /\ \A st, b : Market!Replayed(st, b) = Replayed(st, b)
  /\ \A st, t : Market!PendingForBucket(st, t) = PendingForBucket(st, t)
  /\ \A st, T : Market!ApplyPending(st, T) = ApplyPending(st, T)
  /\ \A st : Market!Watermark(st) = Watermark(st)
  /\ \A st : Market!CompactLedger(st) = CompactLedger(st)
  /\ \A st : Market!WithRoom(st) = WithRoom(st)
  /\ \A st : Market!LedgerFull(st) = LedgerFull(st)
<1>1. \A st, b : Market!Replayed(st, b) = Replayed(st, b)
  BY SameReplayed
<1>2. \A st, t : Market!PendingForBucket(st, t) = PendingForBucket(st, t)
  BY <1>1 DEF Market!PendingForBucket, PendingForBucket
<1>3. \A st, T : Market!ApplyPending(st, T) = ApplyPending(st, T)
  BY SameArithmetic, SameReads, <1>1, <1>2 DEF Market!ApplyPending, ApplyPending
<1>4. \A st : Market!Watermark(st) = Watermark(st)
  BY SameReads DEF Market!Watermark, Watermark, Market!Min, Min
<1>5. \A st : Market!CompactLedger(st) = CompactLedger(st)
  BY SameArithmetic, <1>4 DEF Market!CompactLedger, CompactLedger
<1>6. \A st : Market!WithRoom(st) = WithRoom(st)
  BY <1>5 DEF Market!WithRoom, WithRoom
<1>7. \A st : Market!LedgerFull(st) = LedgerFull(st)
  BY <1>6 DEF Market!LedgerFull, LedgerFull
<1> QED
  BY <1>1, <1>2, <1>3, <1>4, <1>5, <1>6, <1>7

LEMMA SameInsert ==
  \A st, t, anchor, shares, notional :
        Market!InsertOrMerge(st, t, anchor, shares, notional)
          = InsertOrMerge(st, t, anchor, shares, notional)
<1>1. ASSUME NEW st, NEW t, NEW anchor, NEW shares, NEW notional
      PROVE Market!InsertOrMerge(st, t, anchor, shares, notional)
              = InsertOrMerge(st, t, anchor, shares, notional)
  <2>1. PICK a : a = ApplyPending(st, {t})
    OBVIOUS
  <2>2. /\ Market!ApplyPending(st, {t}) = a /\ Market!Ticks(st) = Ticks(st)
        /\ Market!NextEventIndex(st) = NextEventIndex(st)
    BY <2>1, SameReplay, SameReads
  <2>3. CASE t \in Ticks(st)
    BY <2>1, <2>2, <2>3 DEF Market!InsertOrMerge, InsertOrMerge
  <2>4. CASE t \notin Ticks(st)
    BY <2>1, <2>2, <2>4 DEF Market!InsertOrMerge, InsertOrMerge
  <2> QED
    BY <2>3, <2>4
<1> QED
  BY <1>1

LEMMA SameSplit ==
  /\ \A st, p : Market!CaughtUp(st, p) = CaughtUp(st, p)
  /\ \A ready, p : Market!OwedAt(ready, p) = OwedAt(ready, p)
  /\ \A st, p, alloc : Market!Split(st, p, alloc) = Split(st, p, alloc)
  /\ \A p, alloc, split : Market!NewEntry(p, alloc, split) = NewEntry(p, alloc, split)
  /\ \A st, p, alloc : Market!Residual(st, p, alloc) = Residual(st, p, alloc)
  /\ \A b, share, next : Market!Credited(b, share, next) = Credited(b, share, next)
<1>1. \A st, p : Market!CaughtUp(st, p) = CaughtUp(st, p)
  BY SameClaims, SameReplay DEF Market!CaughtUp, CaughtUp
<1>2. \A ready, p : Market!OwedAt(ready, p) = OwedAt(ready, p)
  BY SameClaims DEF Market!OwedAt, OwedAt
<1>3. \A st, p, alloc : Market!Split(st, p, alloc) = Split(st, p, alloc)
  BY SameReads, SameClaims, <1>1, <1>2 DEF Market!Split, Split
<1>4. \A p, alloc, split : Market!NewEntry(p, alloc, split) = NewEntry(p, alloc, split)
  BY DEF Market!NewEntry, NewEntry
<1>5. \A st, p, alloc : Market!Residual(st, p, alloc) = Residual(st, p, alloc)
  BY <1>3 DEF Market!Residual, Residual
<1>6. \A b, share, next : Market!Credited(b, share, next) = Credited(b, share, next)
  BY DEF Market!Credited, Credited
<1> QED
  BY <1>1, <1>2, <1>3, <1>4, <1>5, <1>6

LEMMA SameDistribute ==
  /\ \A st, p, alloc : Market!DistributeEager(st, p, alloc) = DistributeEager(st, p, alloc)
  /\ \A st, p, alloc : Market!DistributeLazy(st, p, alloc) = DistributeLazy(st, p, alloc)
  /\ \A st, p, alloc : Market!Distribute(st, p, alloc) = Distribute(st, p, alloc)
<1>1. ASSUME NEW st, NEW p, NEW alloc
      PROVE Market!DistributeEager(st, p, alloc)
              = DistributeEager(st, p, alloc)
  <2>1. PICK s : s = Split(st, p, alloc)
    OBVIOUS
  <2>2. PICK n, e : n = NextEventIndex(s.ready) /\ e = NewEntry(p, alloc, s)
    OBVIOUS
  <2>3. /\ Market!Split(st, p, alloc) = s
        /\ Market!NextEventIndex(s.ready) = n /\ Market!NewEntry(p, alloc, s) = e
    BY <2>1, <2>2, SameSplit, SameReads
  <2> QED
    BY <2>1, <2>2, <2>3
    DEF Market!DistributeEager, DistributeEager, Market!Credited, Credited, Market!Ticks, Ticks
<1>2. \A st, p, alloc : Market!DistributeLazy(st, p, alloc) = DistributeLazy(st, p, alloc)
  BY ZenonT(30), SameSplit DEF Market!DistributeLazy, DistributeLazy
<1>3. \A st, p, alloc : Market!Distribute(st, p, alloc) = Distribute(st, p, alloc)
  BY <1>1, <1>2 DEF Market!Distribute, Distribute
<1> QED
  BY <1>1, <1>2, <1>3

LEMMA SameRedeem ==
  /\ \A st, t, shares : Market!Redeemable(st, t, shares) = Redeemable(st, t, shares)
  /\ \A st, t, shares : Market!Redeem(st, t, shares) = Redeem(st, t, shares)
<1>1. \A st, t, shares : Market!Redeemable(st, t, shares) = Redeemable(st, t, shares)
  BY SameArithmetic, SameReplay DEF Market!Redeemable, Redeemable
<1>2. ASSUME NEW st, NEW t, NEW shares
      PROVE Market!Redeem(st, t, shares)
              = Redeem(st, t, shares)
  <2>1. PICK a, r : a = ApplyPending(st, {t}) /\ r = Redeemable(st, t, shares)
    OBVIOUS
  <2>2. Market!ApplyPending(st, {t}) = a /\ Market!Redeemable(st, t, shares) = r
    BY <1>1, <2>1, SameReplay
  <2> QED
    BY <2>1, <2>2 DEF Market!Redeem, Redeem, Market!TicksKept, TicksKept, Market!Ticks, Ticks,
                      Market!Spent, Spent, Market!MulDivFloor, MulDivFloor
<1> QED
  BY <1>1, <1>2

LEMMA SameChecks ==
  /\ \A x : Market!Both(x) = Both(x)
  /\ Market!NewSubPool = NewSubPool
  /\ \A d : Market!Opposite(d) = Opposite(d)
  /\ \A s : Market!SubPoolSound(s) = SubPoolSound(s)
  /\ \A s : Market!Checked(s) = Checked(s)
<1>1. \A x : Market!Both(x) = Both(x)
  BY SameReads DEF Market!Both, Both
<1>2. Market!NewSubPool = NewSubPool
  BY SameReads, <1>1 DEF Market!NewSubPool, NewSubPool
<1>3. \A d : Market!Opposite(d) = Opposite(d)
  BY DEF Market!Opposite, Opposite
<1>4. \A s : Market!SubPoolSound(s) = SubPoolSound(s)
  BY SameReads DEF Market!SubPoolSound, SubPoolSound
<1>5. \A s : Market!Checked(s) = Checked(s)
  BY <1>4 DEF Market!Checked, Checked, Market!Ok, Ok, Market!Fail, Fail
<1> QED
  BY <1>1, <1>2, <1>3, <1>4, <1>5

LEMMA SameDemand ==
  /\ \A s, d, p : Market!ActiveDemand(s, d, p) = ActiveDemand(s, d, p)
  /\ \A s, d, p : Market!DormantDemand(s, d, p) = DormantDemand(s, d, p)
  /\ \A s, d, p : Market!Demand(s, d, p) = Demand(s, d, p)
  /\ \A s, w, p : Market!Transfer(s, w, p) = Transfer(s, w, p)
  /\ \A s, p : Market!Winner(s, p) = Winner(s, p)
<1>1. \A s, d, p : Market!ActiveDemand(s, d, p) = ActiveDemand(s, d, p)
  BY SameArithmetic, SameReads DEF Market!ActiveDemand, ActiveDemand
<1>2. \A s, d, p : Market!DormantDemand(s, d, p) = DormantDemand(s, d, p)
  BY SameArithmetic, SameClaims DEF Market!DormantDemand, DormantDemand
<1>3. \A s, d, p : Market!Demand(s, d, p) = Demand(s, d, p)
  BY <1>1, <1>2 DEF Market!Demand, Demand
<1>4. \A s, w, p : Market!Transfer(s, w, p) = Transfer(s, w, p)
  BY SameArithmetic, SameChecks, <1>3 DEF Market!Transfer, Transfer
<1>5. \A s, p : Market!Winner(s, p) = Winner(s, p)
  BY <1>3 DEF Market!Winner, Winner
<1> QED
  BY <1>1, <1>2, <1>3, <1>4, <1>5

LEMMA SameSettle ==
  \A s, w, p : Market!Settle(s, w, p) = Settle(s, w, p)
<1>1. ASSUME NEW s, NEW w, NEW p PROVE Market!Settle(s, w, p) = Settle(s, w, p)
  <2>1. PICK o, x, y, a : /\ o = Opposite(w) /\ x = Transfer(s, w, p) /\ y = Demand(s, w, p)
                          /\ a = MulDivFloor(x, ActiveDemand(s, w, p), y)
    OBVIOUS
  <2>2. /\ Market!Opposite(w) = o /\ Market!Transfer(s, w, p) = x /\ Market!Demand(s, w, p) = y
        /\ Market!MulDivFloor(x, Market!ActiveDemand(s, w, p), y) = a
    BY <2>1, SameChecks, SameDemand, SameArithmetic
  <2>3. PICK n, r : n = x - a /\ r = Residual(s.dormant[w], p, n)
    OBVIOUS
  <2>4. Market!Residual(s.dormant[w], p, n) = r
    BY <2>3, SameSplit
  <2>5. PICK v : v = [s EXCEPT !.pool[w] = @ + a, !.pool[o] = @ - x]
    OBVIOUS
  <2>6. Market!Distribute(v.dormant[w], p, n) = Distribute(v.dormant[w], p, n)
    BY SameDistribute
  <2>7. Market!LedgerFull(s.dormant[w]) = LedgerFull(s.dormant[w])
    BY SameReplay
  <2>8. Settle(s, w, p) =
          IF x = 0 THEN [err |-> "Ok", sp |-> s]
          ELSE IF n = 0 THEN [err |-> "Ok", sp |-> v]
          ELSE IF LedgerFull(s.dormant[w]) THEN [err |-> "LedgerCapacityExceeded", sp |-> s]
          ELSE [err |-> "Ok",
                sp |-> [v EXCEPT !.dormant[w] = Distribute(@, p, n), !.dust[w] = @ + r]]
    BY <2>1, <2>3, <2>5 DEF Settle, Ok, Fail
  <2>9. Market!Settle(s, w, p) =
          IF x = 0 THEN [err |-> "Ok", sp |-> s]
          ELSE IF n = 0 THEN [err |-> "Ok", sp |-> v]
          ELSE IF Market!LedgerFull(s.dormant[w]) THEN [err |-> "LedgerCapacityExceeded", sp |-> s]
          ELSE [err |-> "Ok",
                sp |-> [v EXCEPT !.dormant[w] = Market!Distribute(@, p, n),
                                 !.dust[w] = @ + r]]
    BY <2>2, <2>3, <2>4, <2>5 DEF Market!Settle, Market!Ok, Market!Fail
  <2>11. PICK f : f = Distribute(v.dormant[w], p, n)
    OBVIOUS
  <2>12. [v EXCEPT !.dormant[w] = Market!Distribute(@, p, n), !.dust[w] = @ + r]
           = [v EXCEPT !.dormant[w] = f, !.dust[w] = @ + r]
    BY <2>6, <2>11
  <2>13. [v EXCEPT !.dormant[w] = Distribute(@, p, n), !.dust[w] = @ + r]
           = [v EXCEPT !.dormant[w] = f, !.dust[w] = @ + r]
    BY <2>11
  <2> QED
    BY <2>7, <2>8, <2>9, <2>12, <2>13
<1> QED
  BY <1>1

LEMMA SameRotate ==
  /\ \A p : Market!BucketTickOf(p) = BucketTickOf(p)
  /\ \A s, d, t : Market!RotateRecord(s, d, t) = RotateRecord(s, d, t)
  /\ \A s, d, p : Market!Rotate(s, d, p) = Rotate(s, d, p)
  /\ \A s, p : Market!RotateBoth(s, p) = RotateBoth(s, p)
<1>1. \A p : Market!BucketTickOf(p) = BucketTickOf(p)
  BY DEF Market!BucketTickOf, BucketTickOf
<1>2. \A s, d, t : Market!RotateRecord(s, d, t) = RotateRecord(s, d, t)
  BY DEF Market!RotateRecord, RotateRecord
<1>3. ASSUME NEW s, NEW d, NEW p PROVE Market!Rotate(s, d, p) = Rotate(s, d, p)
  <2>1. PICK t, r : t = BucketTickOf(p) /\ r = RotateRecord(s, d, t)
    OBVIOUS
  <2>2. Market!BucketTickOf(p) = t /\ Market!RotateRecord(s, d, t) = r
    BY <1>1, <1>2, <2>1
  <2>3. PICK u : u = InsertOrMerge(s.dormant[d], t, p, s.shares[d], s.notional[d])
    OBVIOUS
  <2>4. /\ Market!CanInsert(s.dormant[d], t) = CanInsert(s.dormant[d], t)
        /\ Market!InsertOrMerge(s.dormant[d], t, p, s.shares[d], s.notional[d]) = u
    BY <2>3, SameReads, SameInsert
  <2> QED
    BY <2>1, <2>2, <2>3, <2>4 DEF Market!Rotate, Rotate, Market!Ok, Ok, Market!Fail, Fail
<1>4. \A s, p : Market!RotateBoth(s, p) = RotateBoth(s, p)
  BY <1>3 DEF Market!RotateBoth, RotateBoth, Market!Ok, Ok
<1> QED
  BY <1>1, <1>2, <1>3, <1>4

LEMMA SameSync ==
  \A s, p : Market!SyncPool(s, p) = SyncPool(s, p)
<1>1. \A s, p : Market!SyncPool(s, p) = SyncPool(s, p)
  BY SameArithmetic, SameChecks, SameSettle, SameRotate, SameDemand
    DEF Market!SyncPool, SyncPool, Market!Ok, Ok, Market!Fail, Fail
<1> QED
  BY <1>1

LEMMA SamePosition ==
  /\ \A d, shares, notional, gen :
        Market!NewPosition(d, shares, notional, gen) = NewPosition(d, shares, notional, gen)
  /\ \A q : Market!Closed(q) = Closed(q)
  /\ \A q : Market!WithoutRecovery(q) = WithoutRecovery(q)
  /\ \A q : Market!WithoutShares(q) = WithoutShares(q)
  /\ \A s, q : Market!RotateRecords(s, q) = RotateRecords(s, q)
  /\ \A s, q : Market!NeedsMigration(s, q) = NeedsMigration(s, q)
  /\ \A s, q : Market!CanMigrate(s, q) = CanMigrate(s, q)
  /\ \A s, q : Market!Migrated(s, q) = Migrated(s, q)
<1>1. \A d, shares, notional, gen :
      Market!NewPosition(d, shares, notional, gen) = NewPosition(d, shares, notional, gen)
  BY DEF Market!NewPosition, NewPosition, Market!NoTick, NoTick
<1>2. \A q : Market!Closed(q) = Closed(q)
  BY DEF Market!Closed, Closed
<1>3. \A q : Market!WithoutRecovery(q) = WithoutRecovery(q)
  BY DEF Market!WithoutRecovery, WithoutRecovery, Market!NoTick, NoTick
<1>4. \A q : Market!WithoutShares(q) = WithoutShares(q)
  BY <1>3 DEF Market!WithoutShares, WithoutShares
<1>5. \A s, q : Market!RotateRecords(s, q) = RotateRecords(s, q)
  BY DEF Market!RotateRecords, RotateRecords
<1>6. \A s, q : Market!NeedsMigration(s, q) = NeedsMigration(s, q)
  BY DEF Market!NeedsMigration, NeedsMigration
<1>7. \A s, q : Market!CanMigrate(s, q) = CanMigrate(s, q)
  BY <1>5, <1>6 DEF Market!CanMigrate, CanMigrate
<1>8. \A s, q : Market!Migrated(s, q) = Migrated(s, q)
  BY Zenon DEF Market!Migrated, Migrated, Market!Min, Min, Market!RotateRecords, RotateRecords,
       Market!NeedsMigration, NeedsMigration
<1> QED
  BY <1>1, <1>2, <1>3, <1>4, <1>5, <1>6, <1>7, <1>8

LEMMA SameMinting ==
  /\ \A gross : Market!OpenFee(gross) = OpenFee(gross)
  /\ \A s, d : Market!Diluted(s, d) = Diluted(s, d)
  /\ \A s, d, principal : Market!SharesMinted(s, d, principal) = SharesMinted(s, d, principal)
  /\ \A s, d, principal :
        Market!PrincipalIntoPool(s, d, principal) = PrincipalIntoPool(s, d, principal)
<1>1. \A gross : Market!OpenFee(gross) = OpenFee(gross)
  BY SameArithmetic DEF Market!OpenFee, OpenFee
<1>2. \A s, d : Market!Diluted(s, d) = Diluted(s, d)
  BY SameArithmetic DEF Market!Diluted, Diluted
<1>3. \A s, d, principal : Market!SharesMinted(s, d, principal) = SharesMinted(s, d, principal)
  BY SameArithmetic DEF Market!SharesMinted, SharesMinted
<1>4. \A s, d, principal :
      Market!PrincipalIntoPool(s, d, principal) = PrincipalIntoPool(s, d, principal)
  BY SameArithmetic, <1>3 DEF Market!PrincipalIntoPool, PrincipalIntoPool
<1> QED
  BY <1>1, <1>2, <1>3, <1>4

LEMMA SameOpened ==
  /\ \A s, d, gross : Market!OpenSynced(s, d, gross) = OpenSynced(s, d, gross)
  /\ \A old, p, d, gross :
        Market!OpenPosition(old, p, d, gross) = OpenPosition(old, p, d, gross)
<1>1. ASSUME NEW s, NEW d, NEW gross
      PROVE Market!OpenSynced(s, d, gross)
              = OpenSynced(s, d, gross)
  <2>1. PICK fee, n, k : /\ fee = OpenFee(gross) /\ n = gross - fee /\ k = SharesMinted(s, d, n)
    OBVIOUS
  <2>2. PICK m, i : m = MulDivFloor(n, LeverageBps, BpsScale) /\ i = PrincipalIntoPool(s, d, n)
    OBVIOUS
  <2>3. /\ Market!OpenFee(gross) = fee /\ Market!SharesMinted(s, d, n) = k
        /\ Market!MulDivFloor(n, LeverageBps, Market!BpsScale) = m
        /\ Market!PrincipalIntoPool(s, d, n) = i
        /\ Market!Diluted(s, d) = Diluted(s, d)
    BY <2>1, <2>2, SameMinting, SameArithmetic
  <2>4. PICK v : v = [s EXCEPT !.pool[d] = @ + i, !.shares[d] = @ + k,
                     !.notional[d] = @ + m,
                     !.dust[d] = @ + (n - i)]
    OBVIOUS
  <2>5. /\ Market!Checked(v) = Checked(v)
        /\ Market!NewPosition(d, k, m, s.gen[d]) = NewPosition(d, k, m, s.gen[d])
    BY SameChecks, SamePosition
  <2> QED
    BY <2>1, <2>2, <2>3, <2>4, <2>5 DEF Market!OpenSynced, OpenSynced, Market!Fail, Fail
<1>2. \A old, p, d, gross :
      Market!OpenPosition(old, p, d, gross) = OpenPosition(old, p, d, gross)
  BY SameSync, <1>1 DEF Market!OpenPosition, OpenPosition, Market!Ok, Ok
<1> QED
  BY <1>1, <1>2

LEMMA SameLeaving ==
  /\ \A s, q : Market!ActiveValue(s, q) = ActiveValue(s, q)
  /\ \A s, q : Market!CanLeaveActive(s, q) = CanLeaveActive(s, q)
  /\ \A s, q, value : Market!LeaveActive(s, q, value) = LeaveActive(s, q, value)
  /\ \A s, q : Market!CanLeaveRecovery(s, q) = CanLeaveRecovery(s, q)
  /\ \A s, q : Market!RecoveryValue(s, q) = RecoveryValue(s, q)
  /\ \A s, q : Market!LeaveRecovery(s, q) = LeaveRecovery(s, q)
  /\ \A s, q : Market!HasPool(s, q) = HasPool(s, q)
  /\ \A s, paid, q : Market!Finished(s, paid, q) = Finished(s, paid, q)
<1>1. \A s, q : Market!ActiveValue(s, q) = ActiveValue(s, q)
  BY SameArithmetic DEF Market!ActiveValue, ActiveValue
<1>2. \A s, q : Market!CanLeaveActive(s, q) = CanLeaveActive(s, q)
  BY DEF Market!CanLeaveActive, CanLeaveActive
<1>3. \A s, q, value : Market!LeaveActive(s, q, value) = LeaveActive(s, q, value)
  BY DEF Market!LeaveActive, LeaveActive
<1>4. \A s, q : Market!CanLeaveRecovery(s, q) = CanLeaveRecovery(s, q)
  BY SameReads DEF Market!CanLeaveRecovery, CanLeaveRecovery
<1>5. \A s, q : Market!RecoveryValue(s, q) = RecoveryValue(s, q)
  BY SameRedeem DEF Market!RecoveryValue, RecoveryValue
<1>6. \A s, q : Market!LeaveRecovery(s, q) = LeaveRecovery(s, q)
  BY ZenonT(30), SameRedeem DEF Market!LeaveRecovery, LeaveRecovery
<1>7. \A s, q : Market!HasPool(s, q) = HasPool(s, q)
  BY DEF Market!HasPool, HasPool
<1>8. \A s, paid, q : Market!Finished(s, paid, q) = Finished(s, paid, q)
  BY SameChecks DEF Market!Finished, Finished
<1> QED
  BY <1>1, <1>2, <1>3, <1>4, <1>5, <1>6, <1>7, <1>8

LEMMA SameTouch ==
  \A old, p, old_pos : Market!Touch(old, p, old_pos) = Touch(old, p, old_pos)
<1>1. \A old, p, old_pos : Market!Touch(old, p, old_pos) = Touch(old, p, old_pos)
  BY SameSync, SamePosition, SameLeaving DEF Market!Touch, Touch, Market!Ok, Ok
<1> QED
  BY <1>1

LEMMA SameExits ==
  /\ \A t : Market!CloseTouched(t) = CloseTouched(t)
  /\ \A old, p, old_pos : Market!ClosePosition(old, p, old_pos) = ClosePosition(old, p, old_pos)
  /\ \A t : Market!ForceCloseTouched(t) = ForceCloseTouched(t)
  /\ \A old, p, old_pos :
        Market!ForceClosePosition(old, p, old_pos) = ForceClosePosition(old, p, old_pos)
  /\ \A t : Market!ClaimTouched(t) = ClaimTouched(t)
  /\ \A old, p, old_pos : Market!ClaimRecovery(old, p, old_pos) = ClaimRecovery(old, p, old_pos)
<1>1. \A t : Market!CloseTouched(t) = CloseTouched(t)
  BY SamePosition, SameLeaving
    DEF Market!CloseTouched, CloseTouched, Market!Ok, Ok, Market!Fail, Fail
<1>2. \A old, p, old_pos :
      Market!ClosePosition(old, p, old_pos) = ClosePosition(old, p, old_pos)
  BY SameTouch, <1>1 DEF Market!ClosePosition, ClosePosition, Market!Fail, Fail
<1>3. \A t : Market!ForceCloseTouched(t) = ForceCloseTouched(t)
  BY SamePosition, SameLeaving
    DEF Market!ForceCloseTouched, ForceCloseTouched, Market!Ok, Ok, Market!Fail, Fail
<1>4. \A old, p, old_pos :
      Market!ForceClosePosition(old, p, old_pos) = ForceClosePosition(old, p, old_pos)
  BY SamePosition, SameTouch, <1>3
    DEF Market!ForceClosePosition, ForceClosePosition, Market!Fail, Fail
<1>5. \A t : Market!ClaimTouched(t) = ClaimTouched(t)
  BY SameLeaving, SamePosition
    DEF Market!ClaimTouched, ClaimTouched, Market!Ok, Ok, Market!Fail, Fail
<1>6. \A old, p, old_pos :
      Market!ClaimRecovery(old, p, old_pos) = ClaimRecovery(old, p, old_pos)
  BY SameTouch, <1>5 DEF Market!ClaimRecovery, ClaimRecovery
<1> QED
  BY <1>1, <1>2, <1>3, <1>4, <1>5, <1>6

LEMMA SamePreSync ==
  /\ \A st, t : Market!Backlog(st, t) = Backlog(st, t)
  /\ \A s, d, t : Market!PreSyncBucket(s, d, t) = PreSyncBucket(s, d, t)
  /\ \A s, d : Market!HarvestDust(s, d) = HarvestDust(s, d)
<1>1. \A st, t : Market!Backlog(st, t) = Backlog(st, t)
  BY SameReads DEF Market!Backlog, Backlog
<1>2. \A s, d, t : Market!PreSyncBucket(s, d, t) = PreSyncBucket(s, d, t)
  BY SameReads, SameReplay, SameChecks, <1>1
    DEF Market!PreSyncBucket, PreSyncBucket, Market!Fail, Fail
<1>3. \A s, d : Market!HarvestDust(s, d) = HarvestDust(s, d)
  BY SameChecks DEF Market!HarvestDust, HarvestDust
<1> QED
  BY <1>1, <1>2, <1>3

(***************************************************************************)
(* The program's steps are the market's.                                   *)
(***************************************************************************)
LEMMA SameBounds == \A s : Market!WithinBounds(s) = WithinBounds(s)
BY SameReads DEF Market!WithinBounds, WithinBounds

LEMMA Accepts ==
  ASSUME NEW r, r.err = "Ok", WithinBounds(r.sp), Whole' = r.sp
  PROVE  Market!Accept(r)
BY SameBounds DEF Market!Accept

LEMMA SyncImplements ==
  ASSUME ChainInv, NEW list, Listable(list), NEW p \in Prices, Sync(list, p)
  PROVE  Market!Sync(p)
<1>1. PICK r : r = SyncPool(Whole, p)
  OBVIOUS
<1>2. r.err = "Ok" /\ Whole' = r.sp /\ WithinBounds(Whole')
  BY <1>1, SyncKeeps DEF ChainInv, WholeInv
<1>3. Market!Accept(r)
  BY <1>2, Accepts
<1>4. Market!SyncPool(Whole, p) = r
  BY <1>1, SameSync
<1>5. UNCHANGED <<pos, vault, feeVault, paidIn, paidOut>>
  BY DEF Sync, tokens
<1> QED
  BY <1>3, <1>4, <1>5 DEF Market!Sync, Market!books

LEMMA PreSyncImplements ==
  ASSUME ChainInv, NEW list, Listable(list), NEW d \in Direction, NEW t, PreSync(list, d, t)
  PROVE  Market!PreSync(d, t) /\ t \in Ticks(Whole.dormant[d])
<1>1. PICK r : r = PreSyncBucket(Whole, d, t)
  OBVIOUS
<1>2. r.err = "Ok" /\ Whole' = r.sp /\ WithinBounds(Whole')
  BY <1>1, PreSyncKeeps DEF ChainInv, WholeInv
<1>3. Market!Accept(r)
  BY <1>2, Accepts
<1>4. Market!PreSyncBucket(Whole, d, t) = r
  BY <1>1, SamePreSync
<1>5. UNCHANGED <<pos, vault, feeVault, paidIn, paidOut>>
  BY DEF PreSync, tokens
<1>6. t \in Ticks(Whole.dormant[d])
  BY <1>1, <1>2 DEF PreSyncBucket, Fail
<1> QED
  BY <1>3, <1>4, <1>5, <1>6 DEF Market!PreSync, Market!books

LEMMA SettledImplements ==
  ASSUME NEW i, NEW r, Left(i, r)
  PROVE  Market!Settled(i, r)
BY Accepts DEF Left, Market!Settled

LEMMA LeavingImplements ==
  ASSUME ChainInv, NEW list, Listable(list), NEW i \in PosIds, NEW p \in Prices,
         Close(list, i, p) \/ ForceClose(list, i, p) \/ Claim(list, i, p)
  PROVE  Market!Close(i, p) \/ Market!ForceClose(i, p) \/ Market!Claim(i, p)
<1>1. CASE Close(list, i, p)
  <2>1. PICK r : r = ClosePosition(Whole, p, pos[i])
    OBVIOUS
  <2>2. Left(i, r)
    BY <1>1, <2>1, CloseKeeps
  <2>3. Market!ClosePosition(Whole, p, pos[i]) = r
    BY <2>1, SameExits
  <2> QED
    BY <2>2, <2>3, SettledImplements DEF Market!Close
<1>2. CASE ForceClose(list, i, p)
  <2>1. PICK r : r = ForceClosePosition(Whole, p, pos[i])
    OBVIOUS
  <2>2. Left(i, r)
    BY <1>2, <2>1, ForceCloseKeeps
  <2>3. Market!ForceClosePosition(Whole, p, pos[i]) = r
    BY <2>1, SameExits
  <2> QED
    BY <2>2, <2>3, SettledImplements DEF Market!ForceClose
<1>3. CASE Claim(list, i, p)
  <2>1. PICK r : r = ClaimRecovery(Whole, p, pos[i])
    OBVIOUS
  <2>2. Left(i, r)
    BY <1>3, <2>1, ClaimKeeps
  <2>3. Market!ClaimRecovery(Whole, p, pos[i]) = r
    BY <2>1, SameExits
  <2> QED
    BY <2>2, <2>3, SettledImplements DEF Market!Claim
<1> QED
  BY <1>1, <1>2, <1>3

LEMMA HarvestImplements ==
  ASSUME ChainInv, NEW d \in Direction, Harvest(d)
  PROVE  Market!Harvest(d)
<1>1. PICK r, W, S : r = HarvestDust(Whole, d) /\ W = Whole /\ S = subPool
  OBVIOUS
<1>2. r.err = "Ok" /\ Whole' = r.sp /\ WithinBounds(Whole') /\ W.dust = S.dust
  BY <1>1, HarvestKeeps
<1>3. Market!Accept(r)
  BY <1>2, Accepts
<1>4. Market!HarvestDust(Whole, d) = r
  BY <1>1, SamePreSync
<1>5. /\ S.dust[d] <= vault /\ vault' = vault - S.dust[d] /\ feeVault' = feeVault + S.dust[d]
      /\ UNCHANGED <<pos, paidIn, paidOut>>
  BY <1>1 DEF Harvest, Harvested
<1>6. S.dust[d] = W.dust[d]
  BY <1>2
<1> QED
  BY <1>1, <1>3, <1>4, <1>5, <1>6 DEF Market!Harvest

(***************************************************************************)
(* An open whose principal is more than one unit places some of it in the  *)
(* pool, so the program transfers it.                                      *)
(***************************************************************************)
LEMMA FloorReaches ==
  ASSUME NEW a \in Nat, NEW b \in Nat, b > 0, a >= b
  PROVE  a \div b > 0
OBVIOUS

LEMMA FloorBetween ==
  ASSUME NEW a \in Nat, NEW b \in Nat, b > 0, NEW m, m = a \div b
  PROVE  m \in Nat /\ m * b <= a /\ a < m * b + b
OBVIOUS

LEMMA TwoFloors ==
  ASSUME NEW n \in Nat, n >= 2, NEW pool \in Nat, pool > 0, NEW shares \in Nat, shares > 0,
         NEW minted, minted = (n * shares) \div pool, minted # 0
  PROVE  (minted * pool) \div shares > 0
<1>1. PICK a : a = n * shares
  OBVIOUS
<1>2. a \in Nat /\ 2 * shares <= a
  BY <1>1
<1>3. minted \in Nat /\ a < minted * pool + pool
  BY <1>1, <1>2, FloorBetween
<1>4. PICK b : b = minted * pool
  OBVIOUS
<1>5. b \in Nat /\ b >= pool
  BY <1>3, <1>4
<1>6. b >= shares
  BY <1>2, <1>3, <1>4, <1>5
<1> QED
  BY <1>4, <1>5, <1>6, FloorReaches

LEMMA OpenPlaces ==
  ASSUME MinMargin >= 2, NEW s, s.pool \in [Direction -> Nat], s.shares \in [Direction -> Nat],
         SubPoolSound(s), NEW d \in Direction, NEW g \in Nat, CanOpen(s, d, g),
         NEW n, n = g - OpenFee(g), n \in Nat
  PROVE  PrincipalIntoPool(s, d, n) > 0
<1>1. n >= 2
  BY CoreParameters DEF CanOpen
<1>2. CASE s.pool[d] = 0
  BY <1>1, <1>2 DEF PrincipalIntoPool
<1>3. CASE s.pool[d] # 0
  <2>1. PICK x, y, m : x = s.pool[d] /\ y = s.shares[d] /\ m = SharesMinted(s, d, n)
    OBVIOUS
  <2>2. x \in Nat /\ x > 0 /\ y \in Nat
    BY <1>3, <2>1
  <2>3. y > 0
    BY <1>3, <2>1, <2>2 DEF SubPoolSound
  <2>4. m = (n * y) \div x
    BY <1>3, <2>1 DEF SharesMinted, MulDivFloor
  <2>5. m # 0
    BY <2>1, <2>2 DEF CanOpen
  <2>6. (m * x) \div y > 0
    BY <1>1, <2>2, <2>3, <2>4, <2>5, TwoFloors
  <2> QED
    BY <1>3, <2>1, <2>6 DEF PrincipalIntoPool, MulDivFloor
<1> QED
  BY <1>2, <1>3

LEMMA TimelyPlaces ==
  ASSUME MinMargin >= 2, NEW v, NEW w, SameScalars(v, w), PoolSound(w), SubPoolSound(w),
         NEW p, v.lastPrice \in {0, p}, NEW d \in Direction, NEW g \in Nat,
         NEW r, r = OpenPosition(v, p, d, g), r.err = "Ok", r.principal \in Nat
  PROVE  PrincipalIntoPool(SyncPool(v, p).sp, d, r.principal) > 0
<1>1. PICK a : a = [v EXCEPT !.lastPrice = p]
  OBVIOUS
<1>2. SyncPool(v, p) = Checked(a)
  BY <1>1 DEF SyncPool, SameScalars
<1>3. Checked(a).err = "Ok" /\ Checked(a).sp = a
  BY <1>2, CheckedSame DEF OpenPosition
<1>4. a.pool \in [Direction -> Nat] /\ a.shares \in [Direction -> Nat]
  BY <1>1 DEF SameScalars, IsSubPool, SubPoolFields, PoolSound
<1>5. SubPoolSound(a)
  BY <1>3 DEF Checked, Fail
<1>6. r = OpenSynced(a, d, g)
  BY <1>2, <1>3 DEF OpenPosition
<1>7. PICK y, n : y = OpenedSide(a, d, g) /\ n = g - OpenFee(g)
  OBVIOUS
<1>8. CanOpen(a, d, g) /\ r.principal = n
  BY <1>6, <1>7, OpenSyncedIs
<1>9. PrincipalIntoPool(a, d, n) > 0
  BY <1>4, <1>5, <1>7, <1>8, OpenPlaces
<1> QED
  BY <1>2, <1>3, <1>8, <1>9

LEMMA OpenMoves ==
  ASSUME NEW p, NEW d, NEW g, Open(p, d, g), NEW v, v = ClearingView(subPool),
         NEW r, r = OpenPosition(v, p, d, g),
         PrincipalIntoPool(SyncPool(v, p).sp, d, r.principal) > 0
  PROVE  /\ r.err = "Ok" /\ Len(pos) < MaxPositions /\ pos' = Append(pos, r.pos)
         /\ vault' = vault + r.principal /\ feeVault' = feeVault + r.fee
         /\ paidIn' = paidIn + r.principal + r.fee /\ paidOut' = paidOut
BY DEF Open, Opened, TransferIn

LEMMA OpenImplements ==
  ASSUME MinMargin >= 2, ChainInv, paidIn \in Nat, NEW p \in Prices, NEW d \in Direction,
         NEW g \in Grosses, subPool.lastPrice \in {0, p}, Open(p, d, g)
  PROVE  Market!Open(p, d, g) /\ paidIn' \in Nat
<1>1. PICK W, P, v, r, x : /\ W = Whole /\ P = pos /\ v = ClearingView(subPool)
                           /\ r = OpenPosition(v, p, d, g) /\ x = OpenPosition(W, p, d, g)
  OBVIOUS
<1>2. p \in Nat /\ g \in Nat /\ Tidy /\ Sound(W)
  BY <1>1, PricesPositive, ChainSound, ProgramParameters DEF ChainInv
<1>3. Whole' = x.sp /\ WithinBounds(x.sp) /\ SameOpen(r, x)
  <2>1. WithinBounds(Whole') /\ Whole' = x.sp
    BY <1>1, TimelyOpenKeeps
  <2> QED
    BY <1>1, <2>1, TimelyOpenKeeps
<1>4. x.err = "Ok" /\ x.pos = r.pos /\ x.fee = r.fee /\ x.principal = r.principal
  BY <1>3 DEF SameOpen
<1>5. x.fee \in Nat /\ x.principal \in Nat /\ x.fee + x.principal = g
  BY <1>1, <1>2, <1>4, OpenSound DEF Sound, Deposited
<1>6. r.err = "Ok"
  BY <1>1 DEF Open, Opened
<1>7. SameScalars(v, W) /\ v.lastPrice \in {0, p}
  BY <1>1, <1>2, ViewScalars, ClearingViewIs DEF Shows
<1>8. PrincipalIntoPool(SyncPool(v, p).sp, d, r.principal) > 0
  BY <1>1, <1>2, <1>4, <1>5, <1>6, <1>7, TimelyPlaces DEF Sound
<1>9. /\ Len(pos) < MaxPositions /\ pos' = Append(pos, x.pos)
      /\ vault' = vault + x.principal /\ feeVault' = feeVault + x.fee
      /\ paidIn' = paidIn + x.principal + x.fee /\ paidOut' = paidOut
  BY <1>1, <1>4, <1>8, OpenMoves
<1>10. paidIn' = paidIn + g /\ paidIn' \in Nat
  <2>1. PICK m, n, k, q : m = x.principal /\ n = x.fee /\ k = paidIn /\ q = paidIn'
    OBVIOUS
  <2>2. {m, n, k} \subseteq Nat /\ n + m = g /\ q = k + m + n
    BY <1>5, <1>9, <2>1
  <2>3. q = k + g /\ q \in Nat
    BY <2>2
  <2> QED
    BY <2>1, <2>3
<1>11. Market!Accept(x)
  BY <1>3, <1>4, Accepts
<1>12. Market!Opened(g, x)
  BY <1>9, <1>10, <1>11 DEF Market!Opened
<1>13. Market!OpenPosition(Whole, p, d, g) = x
  BY <1>1, SameOpened
<1> QED
  BY <1>10, <1>12, <1>13 DEF Market!Open

LEMMA AccountStutters ==
  ASSUME ChainInv, NEW d \in Direction,
         \/ \E t \in Addresses : InitBucket(d, t)
         \/ \E k \in DOMAIN buckets[d] : CloseBucket(d, k)
  PROVE  UNCHANGED Market!vars /\ paidIn' = paidIn
<1>1. Whole' = Whole
  BY AccountKeeps
<1>2. UNCHANGED <<pos, vault, feeVault, paidIn, paidOut>>
  BY DEF InitBucket, CloseBucket, tokens
<1> QED
  BY <1>1, <1>2 DEF Market!vars, Market!books

(* What the refinement says of a step.                                     *)
StepFollows == [Market!Next]_(Market!vars) /\ paidIn' \in Nat

LEMMA BucketFollows ==
  ASSUME ChainInv, paidIn \in Nat, TimelyBucketStep
  PROVE  StepFollows
<1>1. PICK list \in Lists : NoDeadTwice(list) /\ BucketCall(list)
  BY DEF TimelyBucketStep
<1>2. Listable(list)
  BY <1>1, CallFits
<1>3. CASE \E p \in Prices : Sync(list, p)
  <2>1. PICK p \in Prices : Sync(list, p)
    BY <1>3
  <2>2. Market!Sync(p)
    BY <1>2, <2>1, SyncImplements
  <2>3. paidIn' = paidIn
    BY <2>1 DEF Sync, tokens
  <2> QED
    BY <2>2, <2>3 DEF StepFollows, Market!Next
<1>4. CASE \E i \in PosIds, p \in Prices :
             Close(list, i, p) \/ ForceClose(list, i, p) \/ Claim(list, i, p)
  <2>1. PICK i \in PosIds, p \in Prices :
          Close(list, i, p) \/ ForceClose(list, i, p) \/ Claim(list, i, p)
    BY <1>4
  <2>2. Market!Close(i, p) \/ Market!ForceClose(i, p) \/ Market!Claim(i, p)
    BY <1>2, <2>1, LeavingImplements
  <2>3. paidIn' = paidIn
    BY <2>1 DEF Close, ForceClose, Claim, Settled
  <2>4. Market!PosIds = PosIds
    BY DEF Market!PosIds, PosIds
  <2> QED
    BY <2>2, <2>3, <2>4 DEF StepFollows, Market!Next
<1>5. CASE \E d \in Direction : \E t \in Ticks(View(list).dormant[d]) : PreSync(list, d, t)
  <2>1. PICK d \in Direction : \E t \in Ticks(View(list).dormant[d]) : PreSync(list, d, t)
    BY <1>5
  <2>2. PICK t : PreSync(list, d, t)
    BY <2>1
  <2>3. Market!PreSync(d, t) /\ t \in Ticks(Whole.dormant[d])
    BY <1>2, <2>2, PreSyncImplements
  <2>4. paidIn' = paidIn
    BY <2>2 DEF PreSync, tokens
  <2>5. d \in Market!Direction /\ t \in Market!Ticks(Whole.dormant[d])
    BY <2>3, SameReads
  <2> QED
    BY <2>3, <2>4, <2>5 DEF StepFollows, Market!Next
<1> QED
  BY <1>1, <1>3, <1>4, <1>5 DEF BucketCall

LEMMA OpenFollows ==
  ASSUME MinMargin >= 2, ChainInv, paidIn \in Nat, TimelyOpenStep
  PROVE  StepFollows
<1>1. PICK p \in Prices, d \in Direction, g \in Grosses :
        subPool.lastPrice \in {0, p} /\ Open(p, d, g)
  BY DEF TimelyOpenStep
<1>2. Market!Open(p, d, g) /\ paidIn' \in Nat
  BY <1>1, OpenImplements
<1>3. d \in Market!Direction
  BY SameReads
<1> QED
  BY <1>2, <1>3 DEF StepFollows, Market!Next

LEMMA AccountFollows ==
  ASSUME ChainInv, paidIn \in Nat, AccountStep
  PROVE  StepFollows
<1>1. PICK d \in Direction :
        \/ Harvest(d)
        \/ \E t \in Addresses : InitBucket(d, t)
        \/ \E k \in DOMAIN buckets[d] : CloseBucket(d, k)
  BY DEF AccountStep
<1>2. CASE Harvest(d)
  <2>1. Market!Harvest(d)
    BY <1>2, HarvestImplements
  <2>2. d \in Market!Direction
    BY SameReads
  <2>3. paidIn' = paidIn
    BY <1>2 DEF Harvest, Harvested
  <2> QED
    BY <2>1, <2>2, <2>3 DEF StepFollows, Market!Next
<1>3. CASE \/ \E t \in Addresses : InitBucket(d, t)
           \/ \E k \in DOMAIN buckets[d] : CloseBucket(d, k)
  BY <1>3, AccountStutters DEF StepFollows
<1> QED
  BY <1>1, <1>2, <1>3

LEMMA IdleFollows ==
  ASSUME ChainInv, paidIn \in Nat, UNCHANGED chainVars
  PROVE  StepFollows
<1>1. UNCHANGED <<subPool, ledger, buckets, forgotten, pos>>
  BY DEF chainVars, accounts
<1>2. UNCHANGED <<vault, feeVault, paidIn, paidOut>>
  BY DEF chainVars, tokens
<1>3. Tidy'
  BY <1>1 DEF ChainInv, Tidy
<1>4. Whole' = Whole
  BY <1>1, <1>3, WholeIs, WholeIsNext DEF ChainInv
<1> QED
  BY <1>1, <1>2, <1>4 DEF StepFollows, Market!vars, Market!books

LEMMA MarketInitially == Init => Market!Init /\ paidIn \in Nat
<1> SUFFICES ASSUME Init PROVE Market!Init /\ paidIn \in Nat
  OBVIOUS
<1>1. Whole = NewSubPool
  BY WholeInit
<1>2. Whole = Market!NewSubPool
  BY <1>1, SameChecks
<1> QED
  BY <1>2 DEF Init, Market!Init

(* Deposits are counted in natural numbers.                                *)
Counted == paidIn \in Nat

(* While positions are opened at the last price and no list names a dead   *)
(* account twice, the program's accounts implement the market of           *)
(* protocol-harness: an instruction that succeeds, whichever of the other  *)
(* bucket accounts its caller leaves out, repeats or reorders, does to the *)
(* sub-pool, the positions and the token accounts what the market's call   *)
(* does, and creating or closing accounts does nothing.  The hypothesis is *)
(* needed: the program transfers the principal only if some of it is       *)
(* placed in the pool (open.rs:84), and a principal of one unit may be     *)
(* placed as nothing at all.                                               *)
THEOREM AccountsImplementMarket ==
  ASSUME MinMargin >= 2
  PROVE  TimelySpec => ImplementsMarket
<1>1. TimelySpec => []ChainInv
  BY ChainIsInvariant
<1>2. Init => Market!Init /\ Counted
  BY MarketInitially DEF Counted
<1>3. ChainInv /\ Counted /\ [TimelyBucketStep \/ TimelyOpenStep \/ AccountStep]_chainVars
        => [Market!Next]_(Market!vars) /\ Counted'
  BY BucketFollows, OpenFollows, AccountFollows, IdleFollows DEF StepFollows, Counted
<1> QED
  BY <1>1, <1>2, <1>3, PTL DEF TimelySpec, ImplementsMarket, Market!Spec
=============================================================================
