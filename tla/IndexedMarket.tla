--------------------------- MODULE IndexedMarket ---------------------------
(***************************************************************************)
(* The market of ClearingMarket with the index of crates/indexer fed by    *)
(* it, as crates/protocol-harness feeds it: after a successful call, with  *)
(* the events of that call; a call that fails emits nothing.               *)
(***************************************************************************)
EXTENDS ClearingMarket, Indexer

CONSTANT Rounding   \* bound: what the floors of a run can add up to

ASSUME RoundingIsNat == Rounding \in Nat

VARIABLE idx    \* the index

indexedVars == <<vars, idx>>

IndexedInit == Init /\ idx = NewIndex

Fed(events) == idx' = ApplyAll(idx, events)

SyncFed(p) == Sync(p) /\ Fed(SyncEvents(sp, sp', p))

OpenFed(p, d, g) ==
  /\ Open(p, d, g)
  /\ Fed(SyncEvents(sp, sp', p)
           \o <<PositionOpened(d, g - OpenFee(g), Last(pos'))>>)

Left(kind, i, p) ==
  Fed(SyncEvents(sp, sp', p) \o <<LeaveEvent(kind, i, Touch(sp, p, pos[i]))>>)

CloseFed(i, p) == Close(i, p) /\ Left("Closed", i, p)

ForceCloseFed(i, p) == ForceClose(i, p) /\ Left("ForceClosed", i, p)

ClaimFed(i, p) == Claim(i, p) /\ Left("Claimed", i, p)

IndexedNext ==
  \/ \E p \in Prices : SyncFed(p)
  \/ \E p \in Prices, d \in Direction, g \in Grosses : OpenFed(p, d, g)
  \/ \E i \in PosIds, p \in Prices :
       CloseFed(i, p) \/ ForceCloseFed(i, p) \/ ClaimFed(i, p)
  \/ \E d \in Direction : \E t \in Ticks(sp.dormant[d]) : PreSync(d, t) /\ UNCHANGED idx
  \/ \E d \in Direction : Harvest(d) /\ UNCHANGED idx

IndexedSpec == IndexedInit /\ [][IndexedNext]_indexedVars
-----------------------------------------------------------------------------
(* Every event the engine emits finds the index in a state it applies to:  *)
(* no unknown or closed position, no missing bucket, nothing to burn that  *)
(* the index does not have.                                                *)
IndexNeverErrs == idx.err = "Ok"

(* The harness's check_dir: the index has the buckets of the chain, no     *)
(* more and no fewer, with the same anchor, shares and notional, and each  *)
(* is credited with what the chain has credited plus what it will replay;  *)
(* and the totals shown to the front end are those of the chain, although  *)
(* the index sums its own positions, which it migrates earlier.            *)
BucketsMirrored ==
  \A d \in Direction :
    LET stats == SubPoolStats(idx, d)
    IN  /\ DOMAIN idx.bucket[d] = Ticks(sp.dormant[d])
        /\ \A t \in Ticks(sp.dormant[d]) :
             LET b == sp.dormant[d].bucket[t]
             IN  idx.bucket[d][t] = [anchor |-> b.anchor, shares |-> b.shares,
                                     notional |-> b.notional,
                                     accrued |-> Entitled(sp, d, t)]
        /\ stats.activeNotional = sp.notional[d]
        /\ stats.dormantShares = sp.recovery[d]
        /\ stats.dormantAccrued = sp.dormant[d].accruedTotal + sp.dormant[d].pending
        /\ stats.gen = sp.gen[d]

(* Two generations of side d were wiped out at the same tick.              *)
Merged(d) ==
  \E r, q \in DOMAIN sp.rotateLog[d] :
    r # q /\ sp.rotateLog[d][r].tick = sp.rotateLog[d][q].tick

Live == {i \in PosIds : pos[i].status # "Closed"}

Drift(i) == Distance(Equity(idx.view[i]), Payout(sp, pos[i]))

(* tests/indexer_parity.rs: what the index shows as a position's equity is *)
(* what the chain would pay it, up to the accumulated floors, as long as   *)
(* no two generations of its side share a bucket.                          *)
EquityTracksPayout ==
  \A i \in Live : Merged(pos[i].dir) \/ Drift(i) <= Rounding
=============================================================================
