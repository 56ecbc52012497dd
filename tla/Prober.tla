------------------------------- MODULE Prober -------------------------------
(***************************************************************************)
(* The prober daemon (crates/ops-toolkit: prober.rs, multi.rs,             *)
(* rpc_fetcher.rs, position_interest.rs, main.rs).  Each cycle reads every *)
(* market of the registry from the chain, runs the battery of HealthChecks *)
(* and writes a Prometheus textfile and a JSON snapshot.                   *)
(*                                                                         *)
(* A market is read by four calls, one step each, so that the chain moves  *)
(* between them: getMultipleAccounts (Market and lock in one answer),      *)
(* getSlot, the backup's getSlot, and the scan of Position accounts.  The  *)
(* fetcher is OpenInterestAugmentingFetcher around RpcMarketFetcher.       *)
(***************************************************************************)
EXTENDS HealthChecks, FiniteSets

CONSTANTS
  NMarkets,    \* entries of the registry, in the order of markets.toml
  Keys,        \* keeper wallets
  Nobody,
  Expected,    \* expected_leader of every entry
  Threshold,   \* takeover_threshold_slots of every lock
  Retries,     \* retry_attempts
  Limits,      \* max_cycles it may be started with
  Endless,     \* ... of which this one stands for usize::MAX
  Lags,        \* what the backup may be seen to lag by
  NoFile,      \* the content of a file never written
  Torn,        \* ... of one truncated and not yet filled
  Events,      \* which kinds of change the world makes
  MaxSlot,     \* bound
  MaxChanges   \* bound on the changes of the world

(* What the prober may know of a leader lock.                              *)
Locks ==
  [initialized: BOOLEAN, has_leader: BOOLEAN, leader: Keys \cup {Nobody, Expected},
   beat: Nat, slot: Nat, threshold: {Threshold}, expected: {NoFacts, Expected}]

ASSUME ProberParameters ==
  /\ NMarkets \in Nat \ {0}
  /\ Threshold \in Nat
  /\ NoFacts \notin Locks
  /\ Retries \in Nat /\ MaxChanges \in Nat /\ MaxSlot \in Nat
  /\ Limits \subseteq (Nat \ {0}) \cup {Endless}
  /\ Lags \subseteq Nat /\ Lags # {}
  /\ Nobody \notin Keys

VARIABLES
  chain,     \* each market's accounts
  halted,    \* GlobalConfig.paused_globally
  slot,      \* the cluster's slot
  down,      \* calls and writes that fail for now
  changes,   \* how often the world has changed
  pc,        \* where the prober is
  at,        \* the entry being read
  tries,     \* failed attempts of the current call
  got,       \* the context under construction
  clock,     \* the slot read for it
  reports,   \* of the markets read in this cycle
  prom,      \* the textfile
  json,      \* the snapshot file
  limit,     \* max_cycles of this run
  cycle,     \* completed cycles, counted up to the limit
  exit,      \* the process's exit code
  seen,      \* history: what was true of each market during this cycle
  owed       \* history: freshness of m's leader once lock and slot were read

world == <<chain, halted, slot, down, changes>>
prober == <<pc, at, tries, got, clock, reports, prom, json, limit, cycle, exit>>
history == <<seen, owed>>
vars == <<world, prober, history>>

Symbols == 1 .. NMarkets

(* Mutant: every entry's accounts are the first entry's.                   *)
m_First == 1

m == at

Running == 99   \* no exit code yet
Accounts == {"sound", "missing", "garbled"}
Services == {<<call, s>>: call \in {"accounts", "slot", "positions"}, s \in Symbols}
              \cup {<<"write", "prom">>, <<"write", "json">>}

Fails(call, s) == <<call, s>> \in down

(* What an observer with no delay would say of a market.                   *)
Fresh(c, now) ==
  leader_lock_freshness([leader_lock |->
    [initialized |-> TRUE, has_leader |-> c.leader # Nobody, leader |-> c.leader,
     beat |-> c.beat, slot |-> now, threshold |-> Threshold, expected |-> Expected]]).status
Truth(c, now) == [paused |-> c.paused, fresh |-> Fresh(c, now)]

-----------------------------------------------------------------------------
(* From accounts to a context.                                             *)

Decoded(kind) == kind = "sound"

(* default_keeper, default_oracle and default_pool as a deployment that    *)
(* passes them would set them; the sub-pool facts are the code's zeros.    *)
Defaults ==
  [paused_globally |-> FALSE, paused |-> FALSE, frozen_new_position |-> FALSE,
   schema_onchain |-> 0, schema_compiled |-> 1,
   sub_pools |-> <<[dormant_ticks |-> 0, hints |-> 0, open_qty |-> 0]>>,
   heartbeat |-> TRUE, failed |-> 0, skipped |-> 0, warming |-> 0,
   vol_known |-> TRUE, wallet |-> 1500, latency |-> 50, slot_diff |-> 0,
   gpa |-> 0, slot_age |-> 4, confidence |-> 1, notional |-> 0, recovery |-> 0,
   onchain |-> 0, leader_lock |-> NoFacts]

MarketFacts(ctx, c) ==
  IF Decoded(c.market)
  THEN [ctx EXCEPT !.paused = c.paused, !.frozen_new_position = c.frozen,
                   !.schema_onchain = 1, !.notional = c.total]
  ELSE ctx

(* A lock that is there but cannot be decoded leaves no facts.             *)
LockFacts(c) ==
  LET missing == c.lock = "missing"
  IN  IF c.lock = "garbled" THEN NoFacts
      ELSE [initialized |-> ~missing, has_leader |-> ~missing /\ c.leader # Nobody,
            leader |-> IF missing THEN Nobody ELSE c.leader,
            beat |-> IF missing THEN 0 ELSE c.beat, slot |-> 0,
            threshold |-> Threshold, expected |-> NoFacts]

build_ctx_from_accounts(c) == [MarketFacts(Defaults, c) EXCEPT !.leader_lock = LockFacts(c)]

WithSlot(ctx, now) ==
  IF ctx.leader_lock = NoFacts THEN ctx ELSE [ctx EXCEPT !.leader_lock.slot = now]

(* Mutant: the positions of every market are summed.                       *)
aggregate_open_interest_for_market_All(s) ==
  LET sum[left \in SUBSET Symbols] ==
        IF left = {} THEN 0
        ELSE LET x == CHOOSE y \in left: TRUE IN chain[x].open + sum[left \ {x}]
  IN  sum[Symbols]

aggregate_open_interest_for_market(s) == chain[s].open

(* scan_all_markets hands the registry's expected_leader on.               *)
WithExpected(ctx) ==
  IF Expected = NoFacts \/ ctx.leader_lock = NoFacts THEN ctx
  ELSE [ctx EXCEPT !.leader_lock.expected = Expected]

-----------------------------------------------------------------------------
Sound(s) ==
  [market |-> "sound", paused |-> FALSE, frozen |-> FALSE, lock |-> "sound",
   leader |-> Expected, beat |-> 0, total |-> 1000, open |-> 1000, bad |-> FALSE]

Init ==
  /\ chain = [s \in Symbols |-> Sound(s)]
  /\ halted = FALSE /\ slot = 0 /\ down = {} /\ changes = 0
  /\ pc = "accounts" /\ at = 1 /\ tries = 0 /\ got = Defaults /\ reports = <<>>
  /\ clock = 0
  /\ prom = NoFile /\ json = NoFile /\ limit \in Limits /\ cycle = 0 /\ exit = Running
  /\ seen = [s \in Symbols |-> {Truth(Sound(s), 0)}]
  /\ owed = Pass

(* The world: what keepers, traders, operators and networks do.            *)

(* Only a departure from the normal counts; its end is free.               *)
Change(kind, ends) ==
  /\ kind \in Events
  /\ ends \/ changes < MaxChanges
  /\ changes' = IF ends THEN changes ELSE changes + 1
  /\ UNCHANGED <<prober, owed>>

See(s, c, now) == seen' = [seen EXCEPT ![s] = @ \cup {Truth(c, now)}]

Becomes(s, c) ==
  /\ chain' = [chain EXCEPT ![s] = c]
  /\ See(s, c, slot)
  /\ UNCHANGED <<halted, slot, down>>

Pause(s) ==
  /\ Change("pause", chain[s].paused)
  /\ Becomes(s, [chain[s] EXCEPT !.paused = ~@])
Freeze(s) ==
  /\ Change("freeze", chain[s].frozen)
  /\ Becomes(s, [chain[s] EXCEPT !.frozen = ~@])
Garble(s) ==
  \E kind \in Accounts \ {chain[s].market}:
    /\ Change("garble", kind = "sound")
    /\ Becomes(s, [chain[s] EXCEPT !.market = kind])
LoseLock(s) ==
  \E kind \in Accounts \ {chain[s].lock}:
    /\ Change("lock", kind = "sound")
    /\ Becomes(s, [chain[s] EXCEPT !.lock = kind])
Beat(s) ==
  /\ "beat" \in Events /\ chain[s].leader # Nobody /\ chain[s].beat < slot
  /\ UNCHANGED <<prober, changes, owed>>
  /\ Becomes(s, [chain[s] EXCEPT !.beat = slot])
TakeOver(s) ==
  /\ Change("leader", FALSE)
  /\ \E k \in (Keys \cup {Nobody}) \ {chain[s].leader}:
       Becomes(s, [chain[s] EXCEPT !.leader = k, !.beat = slot])
Trade(s) ==
  /\ Change("trade", FALSE)
  /\ Becomes(s, [chain[s] EXCEPT !.total = @ + 100, !.open = @ + 100])
Drift(s) ==
  /\ Change("drift", FALSE)
  /\ Becomes(s, [chain[s] EXCEPT !.open = @ + 30])
Rot(s) ==
  /\ Change("rot", FALSE)
  /\ Becomes(s, [chain[s] EXCEPT !.open = 0, !.bad = TRUE])
Halt ==
  /\ Change("halt", halted)
  /\ halted' = ~halted
  /\ UNCHANGED <<chain, slot, down, seen>>
Break(service) ==
  /\ Change(service[1], service \in down)
  /\ down' = IF service \in down THEN down \ {service} ELSE down \cup {service}
  /\ UNCHANGED <<chain, halted, slot, seen>>
Tick ==
  /\ slot < MaxSlot
  /\ slot' = slot + 1
  /\ seen' = [s \in Symbols |-> seen[s] \cup {Truth(chain[s], slot')}]
  /\ UNCHANGED <<chain, halted, down, changes, prober, owed>>

-----------------------------------------------------------------------------
(* Mutant: the slot is read before the accounts.                           *)
Order_SlotFirst == <<"slot", "accounts", "backup", "positions">>

(* The calls of one fetch, in order.                                       *)
Order == <<"accounts", "slot", "backup", "positions">>

After(call) == LET i == CHOOSE j \in 1 .. 4: Order[j] = call
               IN  IF i < 4 THEN Order[i + 1] ELSE "checks"

(* A call answered: the context takes what was read.                       *)
Answer(call, ctx, now) ==
  /\ pc = call
  /\ got' = ctx
  /\ clock' = now
  /\ tries' = 0
  /\ pc' = After(call)
  /\ owed' = IF After(call) # "backup" THEN owed
             ELSE IF ctx.leader_lock = NoFacts \/ chain[m].leader = Nobody THEN Pass
             ELSE Fresh(chain[m], slot)
  /\ UNCHANGED <<at, reports, prom, json, limit, cycle, exit, seen, world>>

MayRetry == tries < Retries

(* with_retry sleeps and tries again.                                      *)
Retry ==
  /\ pc \in {"accounts", "slot"} /\ Fails(pc, m)
  /\ MayRetry
  /\ tries' = tries + 1
  /\ UNCHANGED <<pc, at, got, clock, reports, prom, json, limit, cycle, exit, history, world>>

(* Mutant: a market that cannot be read is left out of the report.         *)
Abandon_Skip ==
  /\ UNCHANGED reports
  /\ IF at < NMarkets THEN at' = at + 1 /\ pc' = Order[1]
     ELSE at' = at /\ pc' = "prom"

(* The first builder error ends the scan; nothing is published.            *)
Abandon == reports' = <<>> /\ pc' = "end" /\ UNCHANGED at

Abort ==
  /\ pc \in {"accounts", "slot"} /\ Fails(pc, m)
  /\ ~MayRetry
  /\ tries' = 0
  /\ Abandon
  /\ UNCHANGED <<got, clock, prom, json, limit, cycle, exit, history, world>>

get_multiple_accounts ==
  /\ ~Fails("accounts", m)
  /\ Answer("accounts", build_ctx_from_accounts(chain[m]), clock)

get_slot ==
  /\ ~Fails("slot", m)
  /\ Answer("slot", got, slot)

(* The backup is asked once and its error counts as no lag.                *)
backup_slot == \E lag \in Lags: Answer("backup", [got EXCEPT !.slot_diff = lag], clock)

(* A failed scan leaves the figure of the base fetcher, zero.              *)
fetch_open_interest ==
  Answer("positions",
         IF Fails("positions", m) THEN got
         ELSE [got EXCEPT !.onchain = aggregate_open_interest_for_market(m)],
         clock)

RunChecks ==
  /\ pc = "checks"
  /\ reports' = Append(reports, run_all_checks(WithExpected(WithSlot(got, clock))))
  /\ got' = Defaults
  /\ IF at < NMarkets THEN at' = at + 1 /\ pc' = Order[1]
     ELSE at' = at /\ pc' = "prom"
  /\ UNCHANGED <<tries, clock, prom, json, limit, cycle, exit, history, world>>

(* std::fs::write: the old file is truncated before the new body is there, *)
(* and a failing disk may leave it either way.                             *)
Truncate ==
  \/ pc = "prom" /\ pc' = "prom body" /\ prom' = Torn /\ UNCHANGED json
  \/ pc = "json" /\ pc' = "json body" /\ json' = Torn /\ UNCHANGED prom

Body ==
  \/ /\ pc = "prom body" /\ ~Fails("write", "prom")
     /\ pc' = "json" /\ prom' = reports /\ UNCHANGED json
  \/ /\ pc = "json body" /\ ~Fails("write", "json")
     /\ pc' = "end" /\ json' = reports /\ UNCHANGED prom

WriteFails ==
  \/ pc \in {"prom", "prom body"} /\ Fails("write", "prom") /\ pc' = "json"
  \/ pc \in {"json", "json body"} /\ Fails("write", "json") /\ pc' = "end"

Publish ==
  /\ Truncate \/ Body \/ (WriteFails /\ UNCHANGED <<prom, json>>)
  /\ UNCHANGED <<at, tries, got, clock, reports, limit, cycle, exit, history, world>>

(* drive_prober looks at the last cycle only; a scan error exits with 2.   *)
ExitCode == IF reports = <<>> THEN 2 ELSE worst_exit_code(reports)

EndCycle ==
  /\ pc = "end"
  /\ IF limit # Endless /\ cycle + 1 = limit
     THEN pc' = "exited" /\ exit' = ExitCode
     ELSE pc' = "asleep" /\ UNCHANGED exit
  /\ cycle' = IF limit = Endless THEN cycle ELSE cycle + 1
  /\ UNCHANGED <<at, tries, got, clock, reports, prom, json, limit, history, world>>

(* The next cycle starts; what is true now is what it can still see.       *)
Wake ==
  /\ pc = "asleep"
  /\ pc' = Order[1] /\ at' = 1 /\ reports' = <<>> /\ got' = Defaults
  /\ seen' = [s \in Symbols |-> {Truth(chain[s], slot)}]
  /\ UNCHANGED <<tries, clock, prom, json, limit, cycle, exit, owed, world>>

Probe ==
  \/ get_multiple_accounts \/ get_slot \/ backup_slot \/ fetch_open_interest
  \/ Retry \/ Abort \/ RunChecks \/ Publish \/ EndCycle \/ Wake

World ==
  \/ \E s \in Symbols:
       \/ Pause(s) \/ Freeze(s) \/ Garble(s) \/ LoseLock(s) \/ Beat(s) \/ TakeOver(s)
       \/ Trade(s) \/ Drift(s) \/ Rot(s)
  \/ Halt \/ Tick
  \/ \E service \in Services: Break(service)

Next == Probe \/ World

Spec == Init /\ [][Next]_vars

(* The daemon is a loop that calls, writes and sleeps: it never stays put. *)
FairSpec == Spec /\ WF_vars(Probe)

-----------------------------------------------------------------------------
Whole(file) == file \notin {NoFile, Torn}

(* A whole file reports every market of the registry: a cycle in which one *)
(* market could not be read publishes nothing (prober.rs: strict-fail).    *)
StrictPublish ==
  \A file \in {prom, json}: Whole(file) => Len(file) = NMarkets

(* What a report says of the pause flag was true of that market, not of    *)
(* another, at some moment of the cycle that read it.                      *)
TrueOfSomeMoment ==
  \A i \in DOMAIN reports:
    reports[i].schema_version_match.status = Pass =>
      \E t \in seen[i]: t.paused <=> (reports[i].market_paused.status = Critical)

(* A leader whose lock could be read is never graded fresher than it was   *)
(* when lock and slot had both been read, at two different moments.        *)
NeverRosier ==
  [][Len(reports') > Len(reports) =>
       reports'[Len(reports')].leader_lock_freshness.status >= owed]_vars

Agrees(r, c) ==
  LET market == Decoded(c.market)
      drift == IF c.open > c.total THEN c.open - c.total ELSE c.total - c.open
  IN  /\ (r.market_paused.status = Critical) <=> (market /\ c.paused)
      /\ (r.frozen_new_position.status = Warn) <=> (market /\ c.frozen)
      /\ (r.schema_version_match.status = Pass) <=> market
      /\ (r.leader_lock_initialized.status = Critical) <=> (c.lock = "missing")
      /\ c.lock = "sound" =>
           /\ r.leader_lock_freshness.status = Fresh(c, slot)
           /\ (r.holder_matches_expected.status = Pass) <=> (c.leader = Expected)
      /\ market /\ ~c.bad =>
           (r.position_principal_drift.status = Pass) <=> (1000 * drift < 5 * c.total)

(* The snapshot says so, or is being replaced.                             *)
Rewriting(claim) == pc = "json body" \/ (Whole(json) /\ claim)

(* The exit code is that of the snapshot left behind or of a scan error.   *)
ExitTells == Whole(json) /\ exit # 2 => exit = worst_exit_code(json)

(* Once the world is quiet and every call is answered, the snapshot comes  *)
(* to say what is true of every market, whatever failed before; or the     *)
(* process, started with a limit, has exited with a code that fits it.     *)
ReportsSettle ==
  <>[](down = {} =>
         IF pc = "exited" THEN ExitTells
         ELSE Rewriting(\A i \in DOMAIN json: Agrees(json[i], chain[i])))
=============================================================================
