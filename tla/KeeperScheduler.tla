--------------------------- MODULE KeeperScheduler ---------------------------
(***************************************************************************)
(* crates/keeper: what the keeper decides to do, from what it read of the  *)
(* chain.  A view is [head |-> the next event index of each ledger it      *)
(* read, buckets |-> the bucket accounts of each side]; a hint is a side   *)
(* and a tick.  A plan is a set of actions: it is carried out in    *)
(* order of priority, and nothing depends on the order of equals (the code *)
(* leaves it to a hash map for the init actions).                          *)
(***************************************************************************)
EXTENDS BucketAccounts

CONSTANTS
  MinPending,   \* min_pending_for_pre_sync
  MaxActions,   \* max_actions_per_plan, 0 for no cap
  CloseDead     \* close_dead_buckets

ASSUME SchedulerParameters ==
  /\ {MinPending, MaxActions} \subseteq Nat
  /\ CloseDead \in BOOLEAN

Hint(d, t) == [dir |-> d, tick |-> t]

Task(kind, h, pending) ==
  [kind |-> kind, dir |-> h.dir, tick |-> h.tick, pending |-> pending]

Priority(a) ==
  CASE a.kind = "Init"    -> 1000000000
    [] a.kind = "PreSync" -> 10000000 + a.pending
    [] a.kind = "Close"   -> 1

(* The bucket accounts of a view, and the ticks they hold: on the chain an *)
(* account's address need not be that of its tick.                         *)
Accounts(view) == UNION {{<<d, k>> : k \in DOMAIN view.buckets[d]} : d \in Direction}

Content(view, a) == view.buckets[a[1]][a[2]]

HintOf(view, a) == Hint(a[1], Content(view, a).tick)

Seen(view) == {HintOf(view, a) : a \in Accounts(view)}

PendingOf(view, a) == view.head[a[1]] - Content(view, a).lastApplied

(* What plan refuses: a bucket without its ledger, or ahead of it.         *)
ViewError(view) ==
  IF \E a \in Accounts(view) : a[1] \notin DOMAIN view.head THEN "MissingLedger"
  ELSE IF \E a \in Accounts(view) : Content(view, a).lastApplied > view.head[a[1]]
  THEN "BucketAheadOfLedger"
  ELSE "Ok"


Behind(view, a) == PendingOf(view, a) >= MinPending /\ PendingOf(view, a) > 0

Reclaimable(view, a) ==
  /\ CloseDead
  /\ IsDead(Content(view, a))
  /\ Content(view, a).lastApplied >= view.head[a[1]]

(* An account that is behind is pre-synced and, this time, not closed.     *)
Upkeep(view) ==
  {Task("PreSync", HintOf(view, a), PendingOf(view, a)) :
     a \in {b \in Accounts(view) : Behind(view, b)}}
    \cup {Task("Close", HintOf(view, a), 0) :
            a \in {b \in Accounts(view) : ~Behind(view, b) /\ Reclaimable(view, b)}}

(* The hints that become init actions, and are forgotten with it.          *)
ToEmit(view, hints) == {h \in hints : h \notin Seen(view)}

Wanted(view, hints) ==
  {Task("Init", h, 0) : h \in ToEmit(view, hints)} \cup Upkeep(view)

HintsLeft(view, hints) == hints \ ToEmit(view, hints)

(* The plans that sorting by priority and truncating can leave.            *)
Truncated(tasks) ==
  IF MaxActions = 0 \/ Cardinality(tasks) <= MaxActions THEN {tasks}
  ELSE {kept \in kSubset(MaxActions, tasks) :
          \A a \in kept, b \in tasks \ kept : Priority(a) >= Priority(b)}

Plans(view, hints) == Truncated(Wanted(view, hints))

(* The tasks that may be dispatched next.                                  *)
Foremost(queue) ==
  {a \in queue : \A b \in queue : Priority(a) >= Priority(b)}

-----------------------------------------------------------------------------
(* RotateRiskPredictor::predict_direction on a SubPool account: the price  *)
(* at which the side's pool is used up, rounded to the nearest unit, and   *)
(* its tick.  How likely that price is, and so whether a prediction        *)
(* becomes a hint, depends on floating-point statistics of past prices;    *)
(* here either may be.  The anchor is the last price (ChainSnapshot).      *)
MayZero(acc, d) ==
  /\ acc.lastPrice # 0 /\ acc.notional[d] # 0
  /\ d = "Long" => acc.pool[d] < acc.notional[d]

RoundedRatio(a, b) == (2 * a + b) \div (2 * b)

ZeroPrice(acc, d) ==
  LET left == IF d = "Long" THEN acc.notional[d] - acc.pool[d]
              ELSE acc.notional[d] + acc.pool[d]
  IN  RoundedRatio(acc.lastPrice * left, acc.notional[d])

Predicted(acc) ==
  {Hint(d, BucketTickOf(ZeroPrice(acc, d))) : d \in {e \in Direction : MayZero(acc, e)}}
=============================================================================
