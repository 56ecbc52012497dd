--------------------------- MODULE BucketAccounts ---------------------------
(***************************************************************************)
(* How a sub-pool lies in accounts, and how the engine's view of it is     *)
(* built from them and written back.  A SubPool account holds the scalars, *)
(* a DistributionLedger account per side the ledger, and a DormantBucket   *)
(* account (a PDA derived from a tick) one bucket.  `unpack` and `pack`    *)
(* are crates/clearing-core/src/onchain.rs; ProgramPack is the program's   *)
(* pack_direction (instructions/dormant_bridge.rs) and MirrorPack the two  *)
(* write_buckets of crates/chain-mirror, which claims to be its twin.      *)
(*                                                                         *)
(* Left out: position_count, a running counter that is zero whenever the   *)
(* three amounts of a written account are, and the identity fields that    *)
(* the account constraints check.                                          *)
(***************************************************************************)
EXTENDS ClearingCore

(* The scalars; the rotate log and the stores live elsewhere or nowhere.   *)
AccountOf(sp) ==
  [pool |-> sp.pool, shares |-> sp.shares, notional |-> sp.notional,
   recovery |-> sp.recovery, dust |-> sp.dust, gen |-> sp.gen,
   lastPrice |-> sp.lastPrice]

(* clearing_view: a new sub-pool, its stores and its rotate log empty,     *)
(* with the account's scalars.                                             *)
ClearingView(acc) ==
  [NewSubPool EXCEPT
     !.pool = acc.pool, !.shares = acc.shares, !.notional = acc.notional,
     !.recovery = acc.recovery, !.dust = acc.dust, !.gen = acc.gen,
     !.lastPrice = acc.lastPrice]

LedgerOf(st) ==
  [gcOffset |-> st.gcOffset, entries |-> st.ledger,
   accruedTotal |-> st.accruedTotal, pending |-> st.pending]

(* OnChainBucketRecord::dead, what initialize_dormant_bucket writes.       *)
DeadRecord(t) ==
  [tick |-> t, anchor |-> 0, shares |-> 0, notional |-> 0, accrued |-> 0,
   lastApplied |-> 0]

IsDead(a) == a.shares = 0 /\ a.notional = 0 /\ a.accrued = 0

RecordOf(st, t) ==
  LET b == st.bucket[t]
  IN  [tick |-> t, anchor |-> b.anchor, shares |-> b.shares,
       notional |-> b.notional, accrued |-> b.accrued,
       lastApplied |-> b.lastApplied]

BucketOf(a) ==
  [anchor |-> a.anchor, shares |-> a.shares, notional |-> a.notional,
   accrued |-> a.accrued, lastApplied |-> a.lastApplied]

-----------------------------------------------------------------------------
(* unpack: A holds the contents of the bucket accounts at hand, whatever   *)
(* names them: the place in a caller's list, or an address.  Dead accounts *)
(* must not reach the engine: it would merge into them instead of giving a *)
(* new bucket its anchor.                                                  *)

(* Mutant: dead accounts are loaded as buckets (the bug of wave 7.2).      *)
Live_All(A) == DOMAIN A

Live(A) == {k \in DOMAIN A : ~IsDead(A[k])}

OneTickEach(A) == \A j, k \in Live(A) : A[j].tick = A[k].tick => j = k

Unpack(d, ledger, A) ==
  [dir |-> d,
   bucket |-> [t \in {A[k].tick : k \in Live(A)} |->
                 BucketOf(A[CHOOSE k \in Live(A) : A[k].tick = t])],
   ledger |-> ledger.entries, gcOffset |-> ledger.gcOffset,
   accruedTotal |-> ledger.accruedTotal, pending |-> ledger.pending]

(* from_onchain_parts refuses a tick twice, a bucket outside the ledger's  *)
(* window and totals that do not add up.                                   *)
CanUnpack(d, ledger, A) == OneTickEach(A) /\ CheckStore(Unpack(d, ledger, A))

(* The accounts B are written, the others of A stay as they are.           *)
Over(B, A) == [k \in DOMAIN B \cup DOMAIN A |-> IF k \in DOMAIN B THEN B[k] ELSE A[k]]

-----------------------------------------------------------------------------
(* pack_direction writes the store st to the list A of accounts.  Pass 1   *)
(* gives every record the live account that holds its tick; pass 2 gives a *)
(* record without one the first dead account, whatever tick its address    *)
(* was derived from; pass 3 clears what is left over.  A call rotates a    *)
(* side at most once, so at most one record reaches pass 2.                *)
Kept(A, st) == {k \in Live(A) : A[k].tick \in Ticks(st)}

Refreshed(A, st) ==
  [k \in DOMAIN A |-> IF k \in Kept(A, st) THEN RecordOf(st, A[k].tick) ELSE A[k]]

(* already_placed compares three fields with every account, dead ones too. *)
AlreadyPlaced(A, st, t) ==
  \E k \in DOMAIN A :
    LET a == Refreshed(A, st)[k]
        b == st.bucket[t]
    IN  <<a.tick, a.anchor, a.lastApplied>> = <<t, b.anchor, b.lastApplied>>

Unplaced(A, st) == {t \in Ticks(st) : ~AlreadyPlaced(A, st, t)}

(* The places in the list that hold a dead account.                        *)
FreeSlots(A) == {i \in DOMAIN A : IsDead(A[i])}

FirstFree(A) == Min(FreeSlots(A))

SlotExhausted(A, st) ==
  \/ Cardinality(Ticks(st)) > Len(A)
  \/ Unplaced(A, st) # {} /\ FreeSlots(A) = {}

Cleared(a, index) ==
  [a EXCEPT !.shares = 0, !.notional = 0, !.accrued = 0, !.lastApplied = index]

(* Mutant: pass 1 writes only what is new, so a refreshed bucket is lost.  *)
ProgramPack_KeepsOld(A, st) ==
  LET new == Unplaced(A, st)
  IN  IF new = {} THEN A
      ELSE [A EXCEPT ![FirstFree(A)] = RecordOf(st, CHOOSE t \in new : TRUE)]

ProgramPack(A, st) ==
  LET new == Unplaced(A, st)
      put == IF new = {} THEN {} ELSE {FirstFree(A)}
  IN  [i \in DOMAIN A |->
         IF i \in put THEN RecordOf(st, CHOOSE t \in new : TRUE)
         ELSE IF i \in Live(A) \ Kept(A, st)
         THEN Cleared(A[i], NextEventIndex(st))
         ELSE Refreshed(A, st)[i]]

-----------------------------------------------------------------------------
(* The mirror's accounts of one side are a map from ticks.  Loose: exactly *)
(* the records.  Strict: a record needs an account at its own tick, and    *)
(* pass 3 leaves last_applied_index alone.                                 *)

MirrorPack(strict, A, st) ==
  LET written == [t \in Ticks(st) |-> RecordOf(st, t)]
      emptied == [t \in DOMAIN A |->
                    IF IsDead(A[t]) THEN A[t] ELSE Cleared(A[t], A[t].lastApplied)]
  IN  IF strict THEN Over(written, emptied) ELSE written

MissingPda(A, st) == ~(Ticks(st) \subseteq DOMAIN A)
=============================================================================
