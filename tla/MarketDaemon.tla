---------------------------- MODULE MarketDaemon ----------------------------
(***************************************************************************)
(* The keeper-bot process (crates/keeper-bot/src/main.rs): the thread of   *)
(* the tick loop and the thread of the HTTP endpoint (serve.rs), which     *)
(* meet in the shutdown flag, the metrics registers (metrics.rs) and, in   *)
(* `serve-multi`, the mutex around the market registry (multi.rs).         *)
(*                                                                         *)
(* What a tick does with the lock and the chain is in KeeperFleet and      *)
(* KeeperOnChain; here it has one of its five outcomes.  In `serve` the    *)
(* loop is run_loop_with_factory: one market and no leader gate.  How the  *)
(* process is started is a choice of the initial state.                    *)
(***************************************************************************)
EXTENDS Naturals, Sequences

CONSTANTS
  Modes,     \* whether it may be started as serve-multi (TRUE), as serve
  Limits,    \* the max_passes or max_ticks it may be given
  NMarkets,  \* slots of the registry, in the order of markets.toml
  Endless,   \* the limit of a process without one
  Paths,     \* what clients ask for
  MaxTicks   \* bound: a counter is not followed further

ASSUME DaemonParameters ==
  /\ Modes \subseteq BOOLEAN
  /\ Limits \subseteq Nat \cup {Endless}
  /\ NMarkets \in Nat \ {0}
  /\ Endless \notin Nat
  /\ MaxTicks \in Nat \ {0}

VARIABLES
  command,   \* how the process was started
  main,      \* where the tick thread is
  at,        \* the slot the pass has come to
  passes,    \* completed passes, or ticks in `serve`
  slots,     \* MarketSlotState of each market
  registers, \* KeeperMetrics of each market and of the process
  released,  \* markets whose graceful release was submitted
  reported,  \* reason of the loop's outcome
  held,      \* the registry's mutex is held by the tick thread
  shutdown,  \* the flag SIGTERM raises
  server,    \* the connection the endpoint is serving
  backlog,   \* connections not yet accepted
  answer     \* the last response

vars == <<command, main, at, passes, slots, registers, released, reported, held,
          shutdown, server, backlog, answer>>

Commands == [multi : Modes, limit : Limits]

Multi == command.multi  \* serve-multi, or serve
Limit == command.limit  \* max_passes, or max_ticks

Last == IF Multi THEN NMarkets ELSE 1
Markets == 1 .. Last
Process == 0  \* the register handed to the endpoint

Running == "Running"
Reasons == {"PermanentError", "ShutdownSignal", "TickLimitReached"}

Bump(n) == IF n < MaxTicks THEN n + 1 ELSE n

(* Mutant: in `serve` the loop is given a register of its own.             *)
Register_OwnAlways(m) == m

(* The register a market's ticks are counted in: its own, or in `serve`    *)
(* the one the endpoint renders.                                           *)
Register(m) == IF Multi THEN m ELSE Process

-----------------------------------------------------------------------------
Init ==
  /\ command \in Commands
  /\ main = "Boot"
  /\ at = 1
  /\ passes = 0
  /\ slots = [m \in Markets |-> [finished |-> Running, leads |-> FALSE]]
  /\ registers = [r \in Markets \cup {Process} |->
                    [ticks |-> 0, errors |-> 0,
                     leader |-> IF r = Process THEN "Leader" ELSE "Unknown"]]
  /\ released = {}
  /\ reported = Running
  /\ held = FALSE
  /\ shutdown = FALSE
  /\ server = "Poll"
  /\ backlog = <<>>
  /\ answer = [to |-> "Nobody", status |-> 0, shows |-> FALSE]

-----------------------------------------------------------------------------
(* The world: a signal arrives, a client connects.                         *)

Signal ==
  /\ main # "Exited" /\ ~shutdown
  /\ shutdown' = TRUE
  /\ UNCHANGED <<command, main, at, passes, slots, registers, released, reported, held,
                 server, backlog, answer>>

Pending(p) == server = p \/ \E i \in DOMAIN backlog : backlog[i] = p

Connect(p) ==
  /\ main # "Exited" /\ ~Pending(p)
  /\ backlog' = Append(backlog, p)
  /\ UNCHANGED <<command, main, at, passes, slots, registers, released, reported, held,
                 shutdown, server, answer>>

(* A client closes its connection before it is accepted.                   *)
GiveUp(i) ==
  /\ main # "Exited"
  /\ backlog' = SubSeq(backlog, 1, i - 1) \o SubSeq(backlog, i + 1, Len(backlog))
  /\ UNCHANGED <<command, main, at, passes, slots, registers, released, reported, held,
                 shutdown, server, answer>>

-----------------------------------------------------------------------------
(* The tick thread.                                                        *)

theServer == <<command, server, backlog, answer>>

(* The endpoint is up; serve-multi locks the registry for the whole loop.  *)
EnterLoop ==
  /\ main = "Boot"
  /\ main' = "Top"
  /\ held' = Multi
  /\ UNCHANGED <<at, passes, slots, registers, released, reported, shutdown, theServer>>

AllFinished == \A m \in Markets : slots[m].finished # Running

(* Mutant: the signal is latched into every slot.                          *)
Latched_All(reason) == [m \in Markets |-> [slots[m] EXCEPT !.finished = reason]]

(* A reason is latched by the slots that still tick.                       *)
Latched(reason) ==
  [m \in Markets |-> [slots[m] EXCEPT !.finished = IF @ = Running THEN reason ELSE @]]

(* The flag is up at the top of the loop: slots still ticking that led on  *)
(* their last tick submit a release (try_graceful_release), failed or not. *)
SeeShutdown ==
  /\ main = "Top" /\ shutdown
  /\ released' = {m \in Markets : Multi /\ slots[m].finished = Running /\ slots[m].leads}
  /\ slots' = Latched("ShutdownSignal")
  /\ main' = "Left"
  /\ UNCHANGED <<at, passes, registers, reported, held, shutdown, theServer>>

LimitReached == IF Limit = Endless THEN FALSE ELSE passes >= Limit

SeeLimit ==
  /\ main = "Top" /\ ~shutdown
  /\ LimitReached
  /\ slots' = Latched("TickLimitReached")
  /\ main' = "Left"
  /\ UNCHANGED <<at, passes, registers, released, reported, held, shutdown, theServer>>

MayPass == main = "Top" /\ ~shutdown /\ ~LimitReached

StartPass ==
  /\ MayPass /\ ~AllFinished
  /\ main' = "Walk" /\ at' = 1
  /\ UNCHANGED <<passes, slots, registers, released, reported, held, shutdown, theServer>>


Counted(n) == IF Limit = Endless THEN n ELSE n + 1

(* Where the pass goes after the slot it is at.                            *)
Onwards == at' = at + 1 /\ main' = main

Visiting(m) == main = "Walk" /\ at = m /\ m \in Markets /\ slots[m].finished = Running

walkUnchanged == <<released, reported, held, shutdown, theServer>>

(* Mutant: a retired market breaks the pass off.                           *)
Skip_Break(m) ==
  /\ main = "Walk" /\ at = m /\ m \in Markets /\ slots[m].finished # Running
  /\ at' = Last + 1 /\ main' = main
  /\ UNCHANGED <<passes, slots, registers, walkUnchanged>>

Skip(m) ==
  /\ main = "Walk" /\ at = m /\ m \in Markets /\ slots[m].finished # Running
  /\ Onwards
  /\ UNCHANGED <<passes, slots, registers, walkUnchanged>>

Erred(m) == [registers EXCEPT ![Register(m)].errors = Bump(@)]

(* is_transient: a transport error; the slot backs off and does not count  *)
(* a tick.                                                                 *)
TransientError(m) ==
  /\ Visiting(m)
  /\ registers' = Erred(m)
  /\ Onwards
  /\ UNCHANGED <<passes, slots, walkUnchanged>>

(* A paused market, a missing account, an account that does not decode:    *)
(* the slot retires, whatever it led.                                      *)
PermanentError(m) ==
  /\ Visiting(m)
  /\ registers' = Erred(m)
  /\ slots' = [slots EXCEPT ![m].finished = "PermanentError"]
  /\ Onwards
  /\ UNCHANGED <<passes, walkUnchanged>>

(* Mutant: standing by forgets the gauge.                                  *)
StoodBy_KeepsGauge(m) == registers

StoodBy(m) == [registers EXCEPT ![Register(m)].leader = "Standby"]

(* The leader gate refuses.                                                *)
StandBy(m) ==
  /\ Multi /\ Visiting(m)
  /\ registers' = StoodBy(m)
  /\ slots' = [slots EXCEPT ![m].leads = FALSE]
  /\ Onwards
  /\ UNCHANGED <<passes, walkUnchanged>>

(* The slot dispatches; observe_tick rolls the report up.                  *)
Dispatch(m) ==
  /\ Visiting(m)
  /\ registers' = [registers EXCEPT ![Register(m)].leader = "Leader",
                                    ![Register(m)].ticks = Bump(@)]
  /\ slots' = [slots EXCEPT ![m].leads = Multi]
  /\ passes' = IF Multi THEN passes ELSE Counted(passes)
  /\ Onwards
  /\ UNCHANGED walkUnchanged

(* The scheduler refuses the snapshot: the slot retires as the leader.     *)
SchedulerError(m) ==
  /\ Visiting(m)
  /\ registers' = [registers EXCEPT ![Register(m)].leader = "Leader",
                                    ![Register(m)].errors = Bump(@)]
  /\ slots' = [slots EXCEPT ![m].leads = Multi, ![m].finished = "PermanentError"]
  /\ Onwards
  /\ UNCHANGED <<passes, walkUnchanged>>

Visit(m) == \/ TransientError(m) \/ PermanentError(m) \/ StandBy(m)
            \/ Dispatch(m) \/ SchedulerError(m)

(* A pass that finds every slot finished ends the loop.                    *)
EmptyPass ==
  /\ MayPass /\ AllFinished
  /\ main' = "Left"
  /\ passes' = Counted(passes)
  /\ UNCHANGED <<at, slots, registers, released, reported, held, shutdown, theServer>>

(* A pass counts whatever came of its slots; in `serve` the ticks count.   *)
PassCounts == Multi

(* The end of a pass; `serve` ends with its only market.                   *)
EndPass ==
  /\ main = "Walk" /\ at > Last
  /\ passes' = IF PassCounts THEN Counted(passes) ELSE passes
  /\ main' = IF ~Multi /\ AllFinished THEN "Left" ELSE "Top"
  /\ UNCHANGED <<at, slots, registers, walkUnchanged>>

Rank == [PermanentError |-> 3, ShutdownSignal |-> 2, TickLimitReached |-> 1]

(* promote_worst over the slots, from ShutdownSignal.                      *)
Worst(rs) ==
  CHOOSE r \in rs \cup {"ShutdownSignal"} :
    \A q \in rs \cup {"ShutdownSignal"} : Rank[q] <= Rank[r]

Finished == {slots[m].finished : m \in Markets}

(* Mutant: the guard lives until the end of the function.                  *)
Kept_ToTheEnd == held

(* The guard goes out of scope with the block around the loop.             *)
Kept == FALSE

(* The loop returns its outcome and the mutex is released.                 *)
Report ==
  /\ main = "Left"
  /\ reported' = IF Multi THEN Worst(Finished) ELSE slots[1].finished
  /\ held' = Kept
  /\ main' = "Returned"
  /\ UNCHANGED <<at, passes, slots, registers, released, shutdown, theServer>>

StopServer ==
  /\ main = "Returned"
  /\ shutdown' = TRUE
  /\ main' = "Join"
  /\ UNCHANGED <<at, passes, slots, registers, released, reported, held, theServer>>

(* server_thread.join(), and the process exits.                            *)
Join ==
  /\ main = "Join" /\ server = "Gone"
  /\ main' = "Exited"
  /\ UNCHANGED <<at, passes, slots, registers, released, reported, held, shutdown, theServer>>

Tick ==
  \/ EnterLoop \/ SeeShutdown \/ SeeLimit \/ StartPass \/ EmptyPass \/ EndPass
  \/ \E m \in Markets : Visit(m) \/ Skip(m)
  \/ Report \/ StopServer \/ Join

-----------------------------------------------------------------------------
(* The endpoint's thread.                                                  *)

theLoop == <<command, main, at, passes, slots, registers, released, reported, held, shutdown>>

(* The flag is looked at between connections.                              *)
Leave ==
  /\ server = "Poll" /\ shutdown
  /\ server' = "Gone"
  /\ UNCHANGED <<theLoop, backlog, answer>>

Accept ==
  /\ server = "Poll" /\ ~shutdown /\ backlog # <<>>
  /\ server' = Head(backlog)
  /\ backlog' = Tail(backlog)
  /\ UNCHANGED <<theLoop, answer>>

Ticked(rs) == \E r \in rs : registers[r].ticks > 0

(* Whether a body shows that a market has ticked: the text of              *)
(* render_prometheus, the JSON of render_per_market_json.                  *)
Prometheus == Ticked({Process})
PerMarket  == Ticked(Markets)

(* render_response_with_multi.                                             *)
Response(p) ==
  CASE p = "/metrics"                  -> [to |-> p, status |-> 200, shows |-> Prometheus]
    [] p = "/metrics-multi" /\ Multi   -> [to |-> p, status |-> 200, shows |-> PerMarket]
    [] p = "/healthz"                  -> [to |-> p, status |-> 200, shows |-> FALSE]
    [] OTHER                           -> [to |-> p, status |-> 404, shows |-> FALSE]

(* The provider of /metrics-multi locks the registry.                      *)
MayServe(p) == p = "/metrics-multi" /\ Multi => ~held

(* Mutant: an error on a connection ends the server's loop.                *)
Served_ErrorEnds(p) == IF p = "Silent" THEN "Gone" ELSE "Poll"

Served(p) == "Poll"

(* A client that sends nothing is dropped after the read timeout.          *)
Serve(p) ==
  /\ server = p
  /\ MayServe(p)
  /\ answer' = IF p = "Silent" THEN answer ELSE Response(p)
  /\ server' = Served(p)
  /\ UNCHANGED <<theLoop, backlog>>

Endpoint == Leave \/ Accept \/ \E p \in Paths : Serve(p)

(* The process is gone.                                                    *)
Over == main = "Exited" /\ UNCHANGED vars

Next == Signal \/ (\E p \in Paths : Connect(p)) \/ (\E i \in DOMAIN backlog : GiveUp(i))
        \/ Tick \/ Endpoint \/ Over

(* Both threads run; nobody has to send a signal or a request.             *)
Spec == Init /\ [][Next]_vars /\ WF_vars(Tick) /\ WF_vars(Endpoint)

-----------------------------------------------------------------------------
(* Types; and keeper_leader_status of a market says Leader exactly when    *)
(* its last tick led, also after the slot has retired.                     *)
DaemonTypeOK ==
  /\ command \in Commands
  /\ main \in {"Boot", "Top", "Walk", "Left", "Returned", "Join", "Exited"}
  /\ at \in 1 .. Last + 1
  /\ passes \in Nat
  /\ slots \in [Markets -> [finished : Reasons \cup {Running}, leads : BOOLEAN]]
  /\ registers \in [Markets \cup {Process} ->
                      [ticks : 0 .. MaxTicks, errors : 0 .. MaxTicks,
                       leader : {"Unknown", "Leader", "Standby"}]]
  /\ released \subseteq Markets
  /\ reported \in Reasons \cup {Running}
  /\ held \in BOOLEAN /\ shutdown \in BOOLEAN
  /\ server \in Paths \cup {"Poll", "Gone"}
  /\ backlog \in Seq(Paths)
  /\ \A m \in Markets : Multi => (slots[m].leads <=> registers[m].leader = "Leader")

Retired(m) == slots[m].finished = "PermanentError"

(* multi.rs:313-317: once a market has retired on a permanent error, that  *)
(* is the outcome of the process, whatever its other markets and a later   *)
(* signal add to it.                                                       *)
ErrorSurfaces ==
  \A m \in 1 .. NMarkets :
    [](m \in Markets /\ Retired(m) =>
         [](reported # Running => reported = "PermanentError"))

(* The body that tells of the markets, /metrics in `serve`, /metrics-multi *)
(* in `serve-multi`, shows a tick as soon as one of them has ticked.       *)
ScrapeShowsTicks ==
  [][server' = "Poll" /\ server = (IF Multi THEN "/metrics-multi" ELSE "/metrics")
       /\ Ticked(DOMAIN registers) => answer'.shows]_vars

(* A signal ends the process, and so does max_passes (multi.rs:336): both  *)
(* threads let go of what the other waits for, whatever request is being   *)
(* served and whichever markets err or retire on the way.  (The ticks of   *)
(* `serve` count only when they dispatch, so errors can keep it going.)    *)
Drains == (shutdown \/ (Multi /\ Limit # Endless)) ~> main = "Exited"

(* A market that errs, stands by or retires does not keep the others from  *)
(* being ticked.                                                           *)
OthersTick ==
  \A m \in 1 .. NMarkets :
    \/ <>[](m \notin Markets \/ slots[m].finished # Running \/ main \notin {"Top", "Walk"})
    \/ []<><<Visit(m)>>_vars

(* serve.rs:16-19: a request is answered, or dropped after its timeout,    *)
(* while the process lives; unless the endpoint waits for the mutex, which *)
(* only /metrics-multi makes it do, and then until the loop ends.          *)
RequestsAnswered ==
  \A p \in Paths :
    Pending(p) ~> (~Pending(p) \/ main = "Exited" \/ (server = "/metrics-multi" /\ held))
=============================================================================
