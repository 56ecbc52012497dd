---------------------------- MODULE DormantStore ----------------------------
(***************************************************************************)
(* crates/clearing-core/src/dormant.rs: the recovery claims of one side of *)
(* a sub-pool.  When a side's active pool is wiped out, its shares move to *)
(* a bucket keyed by the price tick at which that happened.  Money later   *)
(* won back is split over the buckets in proportion to what each is still  *)
(* owed.  A distribution is written to a ledger of at most MaxLedger live  *)
(* entries; a bucket remembers how far it has replayed the ledger, and in  *)
(* lazy mode the replay is the only thing that credits it.                 *)
(*                                                                         *)
(* A store is a record; every operation is an operator from stores to      *)
(* stores.  `entry.event_index` is not stored: it is the entry's position  *)
(* plus gcOffset, which check_invariants demands.  `position_count` is a   *)
(* running counter no operation branches on and is left out.               *)
(***************************************************************************)
EXTENDS MoleMath, FiniteSets, Sequences, SequencesExt

CONSTANTS
  MaxBuckets,    \* max_dormant_bucket_count_per_direction
  MaxLedger      \* max_distribution_ledger_size

ASSUME StoreLimits == MaxBuckets \in Nat /\ MaxLedger \in Nat \ {0}

Direction == {"Long", "Short"}

Sign(d) == IF d = "Long" THEN 1 ELSE -1

Ticks(st) == DOMAIN st.bucket

NewStore(d) ==
  [dir |-> d, bucket |-> [t \in {} |-> 0], ledger |-> <<>>,
   gcOffset |-> 0, accruedTotal |-> 0, pending |-> 0]

NextEventIndex(st) == st.gcOffset + Len(st.ledger)

SumOver(f, S) == SumFunctionOnSet(f, S)

-----------------------------------------------------------------------------
(* A bucket is activated when the price is strictly on the winning side of *)
(* its anchor.                                                             *)
Activated(d, anchor, p) == IF d = "Long" THEN p > anchor ELSE p < anchor

ActivatedTicks(st, p) ==
  {t \in Ticks(st) : Activated(st.dir, st.bucket[t].anchor, p)}

(* What the bucket's notional has earned since its anchor.                 *)
IntrinsicClaim(d, b, p) ==
  IF b.anchor # 0 /\ Activated(d, b.anchor, p)
  THEN MulDivFloor(b.notional, Distance(p, b.anchor), b.anchor)
  ELSE 0

(* The part of it the bucket has not been credited with.                   *)
OutstandingClaim(d, b, p) == Monus(IntrinsicClaim(d, b, p), b.accrued)

(* Uses the credited value as stored: entries not replayed yet still count *)
(* as outstanding.                                                         *)
TotalOutstanding(st, p) ==
  SumOver([t \in Ticks(st) |-> OutstandingClaim(st.dir, st.bucket[t], p)],
          ActivatedTicks(st, p))

-----------------------------------------------------------------------------
(* A proportional, floored share of `alloc`, never above what is owed.     *)
ShareOf(alloc, owed, total) ==
  IF total = 0 THEN 0 ELSE Smaller(MulDivFloor(alloc, owed, total), owed)

(* What one ledger entry credits to a bucket whose value is `accrued`.     *)
EntryShare(d, b, accrued, e) ==
  ShareOf(e.alloc, Monus(IntrinsicClaim(d, b, e.price), accrued), e.outstanding)

Unapplied(st, b) ==
  SubSeq(st.ledger, b.lastApplied - st.gcOffset + 1, Len(st.ledger))

Replayed(st, b) ==
  FoldLeft(LAMBDA accrued, e : accrued + EntryShare(st.dir, b, accrued, e),
           b.accrued, Unapplied(st, b))

PendingForBucket(st, t) ==
  Replayed(st, st.bucket[t]) - st.bucket[t].accrued

(* apply_pending_to_bucket for every tick of T.  Replaying one bucket does *)
(* not change what another one replays, so the order does not matter.      *)
ApplyPending(st, T) ==
  LET credited == SumOver([t \in T |-> PendingForBucket(st, t)], T)
      caughtUp(b) == [b EXCEPT !.accrued = Replayed(st, b),
                               !.lastApplied = NextEventIndex(st)]
  IN  [st EXCEPT !.bucket = [t \in Ticks(st) |->
                               IF t \in T THEN caughtUp(@[t]) ELSE @[t]],
                 !.accruedTotal = @ + credited,
                 !.pending = Monus(@, credited)]

(* Drop the ledger prefix every bucket has replayed.                       *)
Watermark(st) ==
  Min({st.bucket[t].lastApplied : t \in Ticks(st)} \cup {NextEventIndex(st)})

CompactLedger(st) ==
  LET drop == Monus(Watermark(st), st.gcOffset)
  IN  [st EXCEPT !.ledger = SubSeq(@, drop + 1, Len(@)),
                 !.gcOffset = @ + drop]

-----------------------------------------------------------------------------
(* insert_or_merge: a wiped-out series joins the bucket of its tick.  An   *)
(* existing bucket first replays what it is due on its old notional, and   *)
(* keeps its own anchor.                                                   *)
CanInsert(st, t) == t \in Ticks(st) \/ Cardinality(Ticks(st)) < MaxBuckets

(* Mutant: an existing bucket is moved to the head like a fresh one.       *)
InsertOrMerge_SkipsReplay(st, t, anchor, shares, notional) ==
  [st EXCEPT !.bucket =
     (t :> [anchor   |-> IF t \in Ticks(st) THEN @[t].anchor ELSE anchor,
            shares   |-> shares + (IF t \in Ticks(st) THEN @[t].shares ELSE 0),
            notional |-> notional + (IF t \in Ticks(st) THEN @[t].notional ELSE 0),
            accrued  |-> IF t \in Ticks(st) THEN @[t].accrued ELSE 0,
            lastApplied |-> NextEventIndex(st)]) @@ @]

InsertOrMerge(st, t, anchor, shares, notional) ==
  LET fresh == [anchor |-> anchor, shares |-> shares, notional |-> notional,
                accrued |-> 0, lastApplied |-> NextEventIndex(st)]
  IN  IF t \in Ticks(st)
      THEN [ApplyPending(st, {t}) EXCEPT !.bucket[t].shares = @ + shares,
                                         !.bucket[t].notional = @ + notional]
      ELSE [st EXCEPT !.bucket = [u \in Ticks(st) \cup {t} |->
                                    IF u = t THEN fresh ELSE @[u]]]

(* Mutant: compacts one entry too late.                                    *)
WithRoom_Late(st) == IF Len(st.ledger) > MaxLedger THEN CompactLedger(st) ELSE st

(* The ledger takes one more entry, after compaction if it is full.        *)
WithRoom(st) == IF Len(st.ledger) >= MaxLedger THEN CompactLedger(st) ELSE st

LedgerFull(st) == Len(WithRoom(st).ledger) >= MaxLedger

(* The part distribute and distribute_lazy share: activated buckets catch  *)
(* up, then the new entry's denominator and shares are computed on them.   *)
CaughtUp(st, p) == ApplyPending(WithRoom(st), ActivatedTicks(st, p))

OwedAt(ready, p) ==
  [t \in ActivatedTicks(ready, p) |->
     OutstandingClaim(ready.dir, ready.bucket[t], p)]

Split(st, p, alloc) ==
  LET shares(owed, total) == [t \in DOMAIN owed |-> ShareOf(alloc, owed[t], total)]
      split(ready, owed, share) ==
        [ready |-> ready, active |-> DOMAIN owed, total |-> SumOver(owed, DOMAIN owed),
         share |-> share, allocated |-> SumOver(share, DOMAIN share)]
      among(ready, owed) ==
        split(ready, owed, shares(owed, SumOver(owed, DOMAIN owed)))
      over(ready) == among(ready, OwedAt(ready, p))
  IN  over(CaughtUp(st, p))

NewEntry(p, alloc, split) ==
  [price |-> p, outstanding |-> split.total, alloc |-> alloc,
   observed |-> split.allocated]

(* distribute (eager): the shares are credited at once and the activated   *)
(* buckets step past the entry; the others keep their index.               *)
(* Mutant: credited, but the entry is left to be replayed again.           *)
Credited_NoStep(b, share, next) == [b EXCEPT !.accrued = @ + share]

Credited(b, share, next) ==
  [b EXCEPT !.accrued = @ + share, !.lastApplied = next]

DistributeEager(st, p, alloc) ==
  LET step(b, s, t) == Credited(b, s.share[t], NextEventIndex(s.ready) + 1)
      credit(s) ==
        IF s.total = 0 THEN s.ready
        ELSE [s.ready EXCEPT
                !.bucket = [t \in Ticks(st) |->
                              IF t \in s.active THEN step(@[t], s, t) ELSE @[t]],
                !.accruedTotal = @ + s.allocated,
                !.ledger = Append(@, NewEntry(p, alloc, s))]
  IN  credit(Split(st, p, alloc))

(* distribute_lazy: only the entry and the in-flight total are written.    *)
DistributeLazy(st, p, alloc) ==
  LET record(s) ==
        IF s.total = 0 THEN s.ready
        ELSE [s.ready EXCEPT !.pending = @ + s.allocated,
                             !.ledger = Append(@, NewEntry(p, alloc, s))]
  IN  record(Split(st, p, alloc))

(* What neither path could place; the engine turns it into dust.           *)
Residual(st, p, alloc) == alloc - Split(st, p, alloc).allocated

(* Mutant: the redeemer's part is rounded up.                              *)
Redeemable_RoundedUp(st, t, shares) ==
  LET part(b) == MulDivCeil(b.accrued, shares, b.shares)
  IN  part(ApplyPending(st, {t}).bucket[t])

(* redeem: burn `shares` of bucket t for their floored part of the credit. *)
Redeemable(st, t, shares) ==
  LET part(b) == MulDivFloor(b.accrued, shares, b.shares)
  IN  part(ApplyPending(st, {t}).bucket[t])

CanRedeem(st, t, shares) == t \in Ticks(st) /\ shares <= st.bucket[t].shares

(* Mutant: a bucket with nothing credited is taken for an empty one.       *)
Spent_IgnoresShares(b) == b.accrued = 0

Spent(b) == b.shares = 0 /\ b.accrued = 0

(* An empty bucket is removed.                                             *)
TicksKept(st, t, b) == IF Spent(b) THEN Ticks(st) \ {t} ELSE Ticks(st)

Redeem(st, t, shares) ==
  LET left(b, out) == [b EXCEPT !.accrued = @ - out,
                                !.shares = @ - shares,
                                !.notional = @ - MulDivFloor(@, shares, b.shares)]
      put(ready, b, out) ==
        [ready EXCEPT !.bucket = [u \in TicksKept(ready, t, b) |->
                                    IF u = t THEN b ELSE @[u]],
                      !.accruedTotal = @ - out]
      burn(ready, out) == put(ready, left(ready.bucket[t], out), out)
  IN  burn(ApplyPending(st, {t}), Redeemable(st, t, shares))

-----------------------------------------------------------------------------
TotalRecoveryShares(st) ==
  SumOver([t \in Ticks(st) |-> st.bucket[t].shares], Ticks(st))

(* DormantStore::check_invariants.                                         *)
CheckStore(st) ==
  /\ \A t \in Ticks(st) :
       st.bucket[t].lastApplied \in st.gcOffset .. NextEventIndex(st)
  /\ SumOver([t \in Ticks(st) |-> st.bucket[t].accrued], Ticks(st))
       = st.accruedTotal
  /\ st.pending <= SumOver([i \in DOMAIN st.ledger |-> st.ledger[i].observed],
                           DOMAIN st.ledger)
=============================================================================
