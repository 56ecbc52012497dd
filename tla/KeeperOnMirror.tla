--------------------------- MODULE KeeperOnMirror ---------------------------
(***************************************************************************)
(* The keeper's loop on the strict mirror, as the integration tests of     *)
(* crates/keeper bind them.  The keeper reads all accounts and plans in    *)
(* one step (MirrorView, plan), then carries the plan out one task at a    *)
(* time; traders' calls land in between.  Only the keeper creates, replays *)
(* and closes bucket accounts.  A task the runtime refuses, or whose call  *)
(* is lost, is dropped: the loop never retries, it plans again.            *)
(***************************************************************************)
EXTENDS ChainMirror, KeeperScheduler

CONSTANTS
  MaxHints,   \* bound: hints recorded and not yet planned
  MaxLost     \* bound: calls of the keeper that are lost

ASSUME KeeperParameters == {MaxHints, MaxLost} \subseteq Nat

VARIABLES
  hints,   \* the scheduler's init_hints
  queue,   \* what is left of the plan being carried out
  lost     \* calls lost so far

keeper == <<hints, queue, lost>>
vars == <<mirrorVars, keeper>>

KeeperInit == Init /\ hints = {} /\ queue = {} /\ lost = 0

MirrorView ==
  [head |-> [d \in Direction |-> ledger[d].gcOffset + Len(ledger[d].entries)],
   buckets |-> buckets]

(* record_init_hint, by the predictor or by an operator.                   *)
RecordHint(h) ==
  /\ queue = {}
  /\ h \notin hints /\ Cardinality(hints) < MaxHints
  /\ hints' = hints \cup {h}
  /\ UNCHANGED <<mirrorVars, queue, lost>>

(* cancel_init_hint.                                                       *)
CancelHint(h) ==
  /\ queue = {}
  /\ h \in hints
  /\ hints' = hints \ {h}
  /\ UNCHANGED <<mirrorVars, queue, lost>>

Tick ==
  /\ queue = {}
  /\ ViewError(MirrorView) = "Ok"
  /\ queue' \in Plans(MirrorView, hints)
  /\ hints' = HintsLeft(MirrorView, hints)
  /\ UNCHANGED <<mirrorVars, lost>>

Carried(a) ==
  CASE a.kind = "Init"    -> InitBucket(a.dir, a.tick)
    [] a.kind = "PreSync" -> PreSync(a.dir, a.tick)
    [] a.kind = "Close"   -> a.tick \in DOMAIN buckets[a.dir] /\ CloseBucket(a.dir, a.tick)

(* Whether the runtime accepts a task now.                                 *)
Accepts(a) ==
  CASE a.kind = "Init"    -> a.tick \notin DOMAIN buckets[a.dir]
    [] a.kind = "PreSync" -> Entered(PreSyncBucket(Core, a.dir, a.tick))
    [] a.kind = "Close"   -> /\ a.tick \in DOMAIN buckets[a.dir]
                             /\ Closable(a.dir, buckets[a.dir][a.tick])

Taken(a) == a \in Foremost(queue) /\ queue' = queue \ {a} /\ UNCHANGED hints

Dispatch(a) == Taken(a) /\ Accepts(a) /\ Carried(a) /\ UNCHANGED lost

Declined(a) == Taken(a) /\ ~Accepts(a) /\ UNCHANGED <<mirrorVars, lost>>

CallLost(a) ==
  /\ Taken(a)
  /\ lost < MaxLost /\ lost' = lost + 1
  /\ UNCHANGED mirrorVars

Traders ==
  \/ \E p \in Prices : Sync(p)
  \/ \E p \in Prices, d \in Direction, g \in Grosses : Open(p, d, g)
  \/ \E i \in PosIds, p \in Prices : Close(i, p) \/ ForceClose(i, p) \/ Claim(i, p)
  \/ \E d \in Direction : Harvest(d)

(* A task ends in one of three ways, so a plan can always be finished.     *)
Carry(a) == Dispatch(a) \/ Declined(a) \/ CallLost(a)

Hints == {Hint(d, t) : d \in Direction, t \in BucketTicks}

KeeperNext ==
  \/ Traders /\ UNCHANGED keeper
  \/ \E h \in Hints : RecordHint(h) \/ CancelHint(h)
  \/ Tick
  \/ \E a \in queue : Carry(a)

(* The loop finishes every plan and ticks for ever.                        *)
PlansFinish == []<>(queue = {})

KeeperSafe == KeeperInit /\ [][KeeperNext]_vars

KeeperSpec == KeeperSafe /\ WF_keeper(Tick) /\ PlansFinish
-----------------------------------------------------------------------------
(* A plan is always older than the accounts it is carried out on.  Still,  *)
(* the keeper's steps take no account away that holds anything, and no     *)
(* bucket loses what it holds or is owed (Entitled), whatever traders did  *)
(* between the plan and the task.                                          *)
StalePlanHarmless ==
  [][UNCHANGED pos /\ queue' # queue =>
       \A d \in Direction : \A t \in Ticks(Core.dormant[d]) :
         /\ t \in Ticks(Core'.dormant[d])
         /\ Market!Entitled(Core', d, t) = Market!Entitled(Core, d, t)]_vars

Lagging(d, t) ==
  /\ t \in DOMAIN buckets[d] /\ ~IsDead(buckets[d][t])
  /\ PendingOf(MirrorView, <<d, t>>) >= Max({1, MinPending})

=============================================================================
