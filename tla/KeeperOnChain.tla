---------------------------- MODULE KeeperOnChain ----------------------------
(***************************************************************************)
(* The keeper bot against the program (crates/keeper-bot, keeper-rpc).  A  *)
(* round reads the accounts in three calls (the market and the sub-pool,   *)
(* then each side's ledger and buckets), takes hints from the predictor,   *)
(* plans, and sends one transaction per task, built from what was read.    *)
(* Traders' transactions land between any two of these steps.              *)
(*                                                                         *)
(* Traders pass every bucket account, as ChainProgram's callers may.  They *)
(* open no position while a round reads: an open writes nothing that the   *)
(* rest of the round looks at.                                             *)
(***************************************************************************)
EXTENDS ChainProgram, KeeperScheduler

CONSTANT Trimmed   \* account data reaches the decoder without its unused space,
                   \* as the fixtures of the tests do

ASSUME TrimmedParameter == Trimmed \in BOOLEAN

VARIABLES
  phase,   \* what the round does next
  snap,    \* ChainSnapshot: what the round has read
  hints,   \* the scheduler's init_hints
  queue    \* what is left of the plan

bot == <<phase, snap, hints, queue>>
botVars == <<chainVars, bot>>

NoSnapshot ==
  [head |-> [d \in {} |-> 0], buckets |-> Both([k \in {} |-> 0]),
   subPool |-> AccountOf(NewSubPool)]

BotInit ==
  Init /\ phase = "Send" /\ snap = NoSnapshot /\ hints = {} /\ queue = {}

-----------------------------------------------------------------------------
(* refresh.                                                                *)

(* The bytes of a Market account: its discriminator and its fields, and    *)
(* the space Market::LEN gives it, which counts two fields once too often. *)
MarketBytes == 372

MarketSpace == 388

(* decode_anchor_account leaves no byte unread.                            *)
Decodes(length, space) == Trimmed \/ length = space

(* A ledger's space is that of a full ledger.                              *)
LedgerDecodes(d) == Decodes(Len(ledger[d].entries), MaxLedger)

(* A refresh that fails leaves everything as it is and is no step.         *)
ReadSubPool ==
  /\ phase = "Send" /\ queue = {}
  /\ Decodes(MarketBytes, MarketSpace)
  /\ snap' = [NoSnapshot EXCEPT !.subPool = subPool]
  /\ phase' = "Long"
  /\ UNCHANGED <<chainVars, hints, queue>>

NextIndex(d) == ledger[d].gcOffset + Len(ledger[d].entries)

(* Mutant: the last event's index taken for the next one.                  *)
HeadRead_LastIndex(d) == Over([e \in {d} |-> NextIndex(e) - 1], snap.head)

(* A ledger that does not decode is passed over.                           *)
HeadRead(d) ==
  IF LedgerDecodes(d) THEN Over([e \in {d} |-> NextIndex(e)], snap.head) ELSE snap.head

(* One getProgramAccounts call returns a side's ledger and buckets.        *)
ReadSide(d) ==
  /\ phase = d
  /\ snap' = [snap EXCEPT !.head = HeadRead(d), !.buckets[d] = buckets[d]]
  /\ phase' = IF d = "Long" THEN "Short" ELSE "Plan"
  /\ UNCHANGED <<chainVars, hints, queue>>

(* populate_scheduler, then plan; an error ends the round.  Of what was    *)
(* read, only the accounts are used again, to send the tasks.              *)
PlanRound ==
  /\ phase = "Plan"
  /\ \E likely \in SUBSET Predicted(snap.subPool) :
       LET known == hints \cup likely
       IN  IF ViewError(snap) = "Ok"
           THEN queue' \in Plans(snap, known) /\ hints' = HintsLeft(snap, known)
           ELSE queue' = {} /\ hints' = known
  /\ snap' = [NoSnapshot EXCEPT !.buckets = IF queue' = {} THEN @ ELSE snap.buckets]
  /\ phase' = "Send"
  /\ UNCHANGED chainVars

-----------------------------------------------------------------------------
(* RpcExecutor and the program's answer.                                   *)

(* The addresses of the accounts that were read with a tick.               *)
AddressesOf(d, t) == {k \in DOMAIN snap.buckets[d] : snap.buckets[d][k].tick = t}

(* long_dormant_bucket_count and its twin: initialize_sub_pool writes      *)
(* zero, and every later write stores what was read.                       *)
Counts == Both(0)

(* build_pre_sync passes every account it read, the long ones first, and   *)
(* the two counts; split_remaining_buckets wants them to agree, and an     *)
(* account that was closed since then is no account.                       *)
BucketsSent == [d \in Direction |-> SetToSeq(DOMAIN snap.buckets[d])]

SplitsAsSent ==
  /\ Len(BucketsSent["Long"]) + Len(BucketsSent["Short"]) = Counts["Long"] + Counts["Short"]
  /\ \A d \in Direction : DOMAIN snap.buckets[d] \subseteq DOMAIN buckets[d]

Sent(a) ==
  CASE a.kind = "Init"    -> InitBucket(a.dir, a.tick)
    [] a.kind = "PreSync" -> SplitsAsSent /\ PreSync(BucketsSent, a.dir, a.tick)
    [] a.kind = "Close"   -> \E k \in AddressesOf(a.dir, a.tick) \cap DOMAIN buckets[a.dir] :
                               CloseBucket(a.dir, k)

Sending(a) ==
  /\ phase = "Send"
  /\ a \in Foremost(queue)
  /\ queue' = queue \ {a}
  /\ snap' = IF queue' = {} THEN NoSnapshot ELSE snap
  /\ UNCHANGED <<phase, hints>>

(* The transaction lands, or is refused or lost: either way the round goes *)
(* on with the next task.                                                  *)
Lands(a) == Sending(a) /\ Sent(a)

Fails(a) == Sending(a) /\ UNCHANGED chainVars

Traders ==
  \/ \E p \in Prices : Sync(FullList, p)
  \/ \E p \in Prices, d \in Direction, g \in Grosses :
       phase = "Send" /\ subPool.lastPrice \in {0, p} /\ Open(p, d, g)
  \/ \E i \in PosIds, p \in Prices :
       Close(FullList, i, p) \/ ForceClose(FullList, i, p) \/ Claim(FullList, i, p)

BotNext ==
  \/ Traders /\ UNCHANGED bot
  \/ ReadSubPool
  \/ \E d \in Direction : ReadSide(d)
  \/ PlanRound
  \/ \E a \in queue : Lands(a) \/ Fails(a)

BotSpec == BotInit /\ [][BotNext]_botVars
-----------------------------------------------------------------------------
(* keeper/src/lib.rs:50-70: what a round reads is never inconsistent,      *)
(* although transactions land between its calls: a side's ledger and its   *)
(* buckets come from one call.                                             *)
ReadsAgree == phase = "Plan" => ViewError(snap) = "Ok"

(* The plan is made from a snapshot that may be three calls old and is     *)
(* carried out later still.  No transaction of the keeper takes away a     *)
(* live bucket or anything it holds or is owed.                            *)
RoundHarmless ==
  [][UNCHANGED pos /\ queue' # queue =>
       \A d \in Direction : \A t \in Ticks(Whole.dormant[d]) :
         /\ t \in Ticks(Whole'.dormant[d])
         /\ Market!Entitled(Whole', d, t) = Market!Entitled(Whole, d, t)]_botVars
=============================================================================
