------------------------ MODULE MarketDaemon_proofs ------------------------
(***************************************************************************)
(* Proofs about the keeper-bot process, for any number of markets, any     *)
(* limit and any clients.                                                  *)
(***************************************************************************)
EXTENDS MarketDaemon, TLAPS

LoopOver == main \in {"Left", "Returned", "Join", "Exited"}

(* The loop is left with every slot finished, and its reason is reported   *)
(* once, from slots that no longer change.                                 *)
OutcomeInv ==
  /\ LoopOver => AllFinished
  /\ reported # Running <=> main \in {"Returned", "Join", "Exited"}
  /\ reported # Running => \A m \in Markets : Retired(m) => reported = "PermanentError"

IInv == DaemonTypeOK /\ OutcomeInv

(* promote_worst lets no reason outweigh a permanent error.                *)
LEMMA WorstIsPermanent ==
  ASSUME NEW rs \in SUBSET Reasons
  PROVE  /\ Worst(rs) \in Reasons
         /\ "PermanentError" \in rs => Worst(rs) = "PermanentError"
<1> DEFINE all == rs \cup {"ShutdownSignal"}
           top(r) == \A q \in all : Rank[q] <= Rank[r]
<1>1. \E r \in all : top(r)
  <2>1. CASE "PermanentError" \in rs
    <3>1. top("PermanentError")
      BY <2>1 DEF Reasons, Rank
    <3> QED BY <2>1, <3>1
  <2>2. CASE "PermanentError" \notin rs
    <3>1. top("ShutdownSignal")
      BY <2>2 DEF Reasons, Rank
    <3> QED BY <3>1
  <2> QED BY <2>1, <2>2
<1>2. Worst(rs) \in all /\ top(Worst(rs))
  BY <1>1 DEF Worst
<1>3. Worst(rs) \in Reasons
  BY <1>2 DEF Reasons
<1>4. ASSUME "PermanentError" \in rs PROVE Worst(rs) = "PermanentError"
  <2>1. 3 <= Rank[Worst(rs)]
    BY <1>2, <1>4 DEF Rank
  <2> QED BY <1>3, <2>1 DEF Reasons, Rank
<1> QED BY <1>3, <1>4

(* How the process was started, and so what its markets are, never changes.*)
LEMMA SameMarkets ==
  ASSUME UNCHANGED command
  PROVE  Last' = Last /\ Markets' = Markets /\ Multi' = Multi
BY DEF Last, Markets, Multi

LEMMA SomeMarket ==
  ASSUME command \in Commands
  PROVE  /\ Last \in Nat /\ 1 \in Markets /\ Multi \in BOOLEAN
         /\ ~Multi => Markets = {1}
<1>1. Multi \in BOOLEAN
  BY DaemonParameters DEF Commands, Multi
<1>2. Last \in Nat \ {0}
  BY <1>1, DaemonParameters DEF Last
<1>3. ~Multi => Last = 1
  BY DEF Last
<1> QED BY <1>1, <1>2, <1>3 DEF Markets

LEMMA InitInv == Init => IInv
<1> SUFFICES ASSUME Init PROVE IInv
  OBVIOUS
<1> USE DaemonParameters
<1>c. command \in Commands /\ Last \in Nat
  BY SomeMarket DEF Init
<1>0. at = 1 /\ 1 \in 1 .. Last + 1
  BY <1>c DEF Init
<1>1. /\ main = "Boot" /\ passes = 0 /\ released = {} /\ reported = Running
      /\ held = FALSE /\ shutdown = FALSE /\ server = "Poll" /\ backlog = <<>>
  BY DEF Init
<1>2. slots \in [Markets -> [finished : Reasons \cup {Running}, leads : BOOLEAN]]
  BY DEF Init
<1>3. registers \in [Markets \cup {Process} ->
                       [ticks : 0 .. MaxTicks, errors : 0 .. MaxTicks,
                        leader : {"Unknown", "Leader", "Standby"}]]
  BY DEF Init
<1>4. \A m \in Markets : ~slots[m].leads /\ registers[m].leader # "Leader"
  BY DEF Init, Markets, Process
<1>p. passes \in Nat /\ released \subseteq Markets
  BY <1>1
<1>q. backlog \in Seq(Paths)
  BY <1>1
<1>r. held \in BOOLEAN /\ shutdown \in BOOLEAN
  BY <1>1
<1>5. DaemonTypeOK
  BY <1>c, <1>0, <1>p, <1>q, <1>r, <1>1, <1>2, <1>3, <1>4 DEF DaemonTypeOK
<1>6. OutcomeInv
  BY <1>1 DEF OutcomeInv, LoopOver
<1> QED BY <1>5, <1>6 DEF IInv

-----------------------------------------------------------------------------
(* The steps of the endpoint and of the world leave the loop alone.        *)
LEMMA OthersInv ==
  ASSUME IInv, UNCHANGED <<command, main, at, passes, slots, registers, released, reported, held>>,
         shutdown' \in BOOLEAN, server' \in Paths \cup {"Poll", "Gone"},
         backlog' \in Seq(Paths)
  PROVE  IInv'
BY SameMarkets DEF IInv, DaemonTypeOK, OutcomeInv, LoopOver, AllFinished, Retired

(* What a visit keeps: it is done before the loop is left.                 *)
LEMMA WalkInv ==
  ASSUME IInv, main \in {"Top", "Walk"}, main' \in {"Top", "Walk"},
         at' \in 1 .. Last + 1, passes' \in Nat, UNCHANGED walkUnchanged,
         slots' \in [Markets -> [finished : Reasons \cup {Running}, leads : BOOLEAN]],
         registers' \in [Markets \cup {Process} ->
                      [ticks : 0 .. MaxTicks, errors : 0 .. MaxTicks,
                       leader : {"Unknown", "Leader", "Standby"}]],
         \A m \in Markets : Multi => (slots'[m].leads <=> registers'[m].leader = "Leader")
  PROVE  IInv'
BY SameMarkets DEF IInv, DaemonTypeOK, OutcomeInv, LoopOver, walkUnchanged, theServer,
       Process, Running, Reasons

LEMMA VisitInv ==
  ASSUME IInv, NEW m \in Markets, Visit(m)
  PROVE  IInv'
<1> USE DaemonParameters
<1>0. command \in Commands /\ Last \in Nat /\ Multi \in BOOLEAN
  BY SomeMarket DEF IInv, DaemonTypeOK
<1>1. /\ main = "Walk" /\ main' \in {"Top", "Walk"}
      /\ at \in Markets /\ at' \in 1 .. Last + 1
      /\ UNCHANGED walkUnchanged
  BY <1>0 DEF Visit, TransientError, PermanentError, StandBy, Dispatch, SchedulerError,
         Visiting, Onwards, Markets
<1>2. passes' \in Nat
  BY DEF Visit, TransientError, PermanentError, StandBy, Dispatch, SchedulerError,
         Counted, IInv, DaemonTypeOK
<1>3. Register(m) \in Markets \cup {Process} /\ (Multi => Register(m) = m)
  BY DEF Register
<1>4. /\ Bump(registers[Register(m)].errors) \in 0 .. MaxTicks
      /\ Bump(registers[Register(m)].ticks) \in 0 .. MaxTicks
  BY <1>3 DEF Bump, IInv, DaemonTypeOK
<1>5. slots' \in [Markets -> [finished : Reasons \cup {Running}, leads : BOOLEAN]]
  <2> DEFINE SlotTypes == [Markets -> [finished : Reasons \cup {Running}, leads : BOOLEAN]]
  <2>1. slots \in SlotTypes
    BY DEF IInv, DaemonTypeOK
  <2>2. CASE TransientError(m)
    BY <2>1, <2>2 DEF TransientError
  <2>3. CASE PermanentError(m)
    BY <2>1, <2>3 DEF PermanentError, Reasons
  <2>4. CASE StandBy(m) \/ Dispatch(m)
    <3>1. PICK b \in BOOLEAN : slots' = [slots EXCEPT ![m].leads = b]
      BY <1>0, <2>4, Zenon DEF StandBy, Dispatch
    <3> QED BY <2>1, <3>1
  <2>5. CASE SchedulerError(m)
    <3>1. slots' = [slots EXCEPT ![m] = [[@ EXCEPT !.leads = Multi]
                                             EXCEPT !.finished = "PermanentError"]]
      BY <2>1, <2>5 DEF SchedulerError
    <3> QED BY <1>0, <2>1, <3>1 DEF Reasons
  <2> QED BY <2>2, <2>3, <2>4, <2>5 DEF Visit
<1> DEFINE Types == [Markets \cup {Process} ->
                       [ticks : 0 .. MaxTicks, errors : 0 .. MaxTicks,
                        leader : {"Unknown", "Leader", "Standby"}]]
<1>6. registers \in Types /\ registers' \in Types
  <2>1. registers \in Types
    BY DEF IInv, DaemonTypeOK
  <2>2. CASE TransientError(m) \/ PermanentError(m)
    <3>1. registers' = [registers EXCEPT ![Register(m)].errors = Bump(@)]
      BY <2>2 DEF TransientError, PermanentError, Erred
    <3> HIDE DEF Types
    <3>2. registers' \in Types
      BY <1>3, <1>4, <2>1, <3>1 DEF Types
    <3> QED BY <2>1, <3>2
  <2>3. CASE StandBy(m)
    BY <1>3, <2>1, <2>3 DEF StandBy, StoodBy
  <2>4. CASE Dispatch(m)
    BY <1>3, <1>4, <2>1, <2>4 DEF Dispatch
  <2>5. CASE SchedulerError(m)
    BY <1>3, <1>4, <2>1, <2>5 DEF SchedulerError
  <2> QED BY <2>1, <2>2, <2>3, <2>4, <2>5 DEF Visit
<1>7. \A n \in Markets : Multi => (slots'[n].leads <=> registers'[n].leader = "Leader")
  <2> SUFFICES ASSUME NEW n \in Markets, Multi
               PROVE  slots'[n].leads <=> registers'[n].leader = "Leader"
    OBVIOUS
  <2>1. /\ slots[n].leads <=> registers[n].leader = "Leader"
        /\ slots \in [Markets -> [finished : Reasons \cup {Running}, leads : BOOLEAN]]
        /\ registers \in [Markets \cup {Process} ->
                        [ticks : 0 .. MaxTicks, errors : 0 .. MaxTicks,
                         leader : {"Unknown", "Leader", "Standby"}]]
    BY DEF IInv, DaemonTypeOK
  <2>2. CASE TransientError(m) \/ PermanentError(m)
    <3>1. registers' = [registers EXCEPT ![m].errors = Bump(@)]
      BY <1>3, <2>2 DEF TransientError, PermanentError, Erred
    <3>2. registers'[n].leader = registers[n].leader
      BY <2>1, <3>1
    <3>3. slots'[n].leads = slots[n].leads
      BY <2>1, <2>2 DEF TransientError, PermanentError
    <3> QED BY <2>1, <3>2, <3>3
  <2>3. CASE StandBy(m)
    BY <1>3, <2>1, <2>3 DEF StandBy, StoodBy
  <2>4. CASE Dispatch(m)
    BY <1>3, <2>1, <2>4 DEF Dispatch
  <2>5. CASE SchedulerError(m)
    BY <1>3, <2>1, <2>5 DEF SchedulerError
  <2> QED BY <2>2, <2>3, <2>4, <2>5 DEF Visit
<1> QED BY <1>1, <1>2, <1>5, <1>6, <1>7, WalkInv

(* Leaving the loop: the reason is latched by the slots that still tick.   *)
LEMMA LatchInv ==
  ASSUME IInv, SeeShutdown \/ SeeLimit
  PROVE  IInv'
<1> PICK reason \in Reasons : slots' = Latched(reason)
  BY DEF SeeShutdown, SeeLimit, Reasons
<1>1. /\ main = "Top" /\ main' = "Left" /\ released' \subseteq Markets
      /\ UNCHANGED <<command, at, passes, registers, reported, held, shutdown, server, backlog>>
  BY DEF SeeShutdown, SeeLimit, theServer, IInv, DaemonTypeOK
<1>2. \A m \in Markets :
        /\ slots'[m] \in [finished : Reasons, leads : BOOLEAN]
        /\ slots'[m].leads = slots[m].leads
  BY DEF Latched, IInv, DaemonTypeOK
<1>3. slots' \in [Markets -> [finished : Reasons \cup {Running}, leads : BOOLEAN]]
  BY <1>2 DEF Latched
<1>4. DaemonTypeOK'
  BY <1>1, <1>2, <1>3, SameMarkets DEF IInv, DaemonTypeOK
<1>5. OutcomeInv'
  BY <1>1, <1>2, SameMarkets DEF IInv, OutcomeInv, LoopOver, AllFinished, Reasons, Running
<1> QED BY <1>4, <1>5 DEF IInv

LEMMA ReportInv ==
  ASSUME IInv, Report
  PROVE  IInv'
<1> USE DaemonParameters
<1>0. 1 \in Markets /\ Multi \in BOOLEAN /\ (~Multi => Markets = {1})
  BY SomeMarket DEF IInv, DaemonTypeOK
<1>1. \A m \in Markets : slots[m].finished \in Reasons
  BY DEF Report, IInv, DaemonTypeOK, OutcomeInv, LoopOver, AllFinished
<1>2. Finished \in SUBSET Reasons
  BY <1>1 DEF Finished
<1>3. /\ reported' \in Reasons
      /\ \A m \in Markets : Retired(m) => reported' = "PermanentError"
  <2>1. CASE Multi
    BY <1>2, <2>1, WorstIsPermanent DEF Report, Finished, Retired
  <2>2. CASE ~Multi
    BY <1>0, <1>1, <2>2 DEF Report, Retired
  <2> QED BY <2>1, <2>2
<1>4. Running \notin Reasons
  BY DEF Running, Reasons
<1>5. /\ main' = "Returned" /\ held' = FALSE
      /\ UNCHANGED <<command, at, passes, slots, registers, released, shutdown, server, backlog>>
  BY DEF Report, Kept, theServer
<1>6. DaemonTypeOK'
  <2>1. held' \in BOOLEAN /\ reported' \in Reasons \cup {Running}
    BY <1>3, <1>5
  <2> QED BY <1>5, <2>1, SameMarkets DEF IInv, DaemonTypeOK
<1>7. OutcomeInv'
  BY <1>1, <1>3, <1>4, <1>5, SameMarkets DEF OutcomeInv, LoopOver, AllFinished, Retired
<1> QED BY <1>6, <1>7 DEF IInv

(* The other steps of the tick thread.                                     *)
LEMMA LoopInv ==
  ASSUME IInv,
         \/ EnterLoop \/ StartPass \/ EmptyPass \/ EndPass \/ StopServer \/ Join
         \/ \E m \in Markets : Skip(m)
  PROVE  IInv'
<1> USE DaemonParameters
<1> DEFINE Goal == /\ main' \in {"Top", "Walk", "Left", "Join", "Exited"}
                   /\ main' = "Left" => AllFinished
                   /\ main' \in {"Join", "Exited"} <=> main \in {"Returned", "Join"}
                   /\ main \in {"Boot", "Top", "Walk", "Returned", "Join"}
                   /\ at' \in 1 .. Last + 1 /\ passes' \in Nat
                   /\ held' \in BOOLEAN /\ shutdown' \in BOOLEAN
<1>a. at \in 1 .. Last + 1 /\ passes \in Nat /\ held \in BOOLEAN /\ shutdown \in BOOLEAN
  BY DEF IInv, DaemonTypeOK
<1>b. Last \in Nat /\ Multi \in BOOLEAN
  BY SomeMarket DEF IInv, DaemonTypeOK
<1>1. Goal
  <2>1. CASE EnterLoop \/ StartPass
    BY <1>a, <1>b, <2>1 DEF EnterLoop, StartPass, MayPass, theServer
  <2>2. CASE EmptyPass \/ EndPass
    BY <1>a, <2>2 DEF EmptyPass, EndPass, MayPass, Counted, walkUnchanged, theServer
  <2>3. CASE StopServer \/ Join
    BY <1>a, <2>3 DEF StopServer, Join, theServer
  <2>4. CASE \E m \in Markets : Skip(m)
    BY <1>a, <1>b, <2>4 DEF Skip, Onwards, Markets, walkUnchanged, theServer
  <2> QED BY <2>1, <2>2, <2>3, <2>4
<1>2. UNCHANGED <<command, slots, registers, released, reported, server, backlog>>
  BY DEF EnterLoop, StartPass, EmptyPass, EndPass, StopServer, Join, Skip,
         walkUnchanged, theServer
<1>3. DaemonTypeOK'
  BY <1>1, <1>2, SameMarkets DEF IInv, DaemonTypeOK
<1>4. OutcomeInv'
  BY <1>1, <1>2, SameMarkets DEF IInv, DaemonTypeOK, OutcomeInv, LoopOver, AllFinished, Retired
<1> QED BY <1>3, <1>4 DEF IInv

LEMMA TickInv ==
  ASSUME IInv, Tick
  PROVE  IInv'
BY VisitInv, LatchInv, ReportInv, LoopInv DEF Tick

LEMMA EndpointInv ==
  ASSUME IInv, Endpoint
  PROVE  IInv'
<1>1. backlog \in Seq(Paths) /\ shutdown \in BOOLEAN
  BY DEF IInv, DaemonTypeOK
<1>2. CASE Leave
  BY <1>1, <1>2, OthersInv DEF Leave, theLoop
<1>3. CASE Accept
  <2>1. Head(backlog) \in Paths /\ Tail(backlog) \in Seq(Paths)
    BY <1>1, <1>3 DEF Accept
  <2> QED BY <1>1, <1>3, <2>1, OthersInv DEF Accept, theLoop
<1>4. CASE \E p \in Paths : Serve(p)
  BY <1>1, <1>4, OthersInv DEF Serve, Served, theLoop
<1> QED BY <1>2, <1>3, <1>4 DEF Endpoint

LEMMA WorldInv ==
  ASSUME IInv,
         Signal \/ (\E p \in Paths : Connect(p)) \/ (\E i \in DOMAIN backlog : GiveUp(i))
  PROVE  IInv'
<1>1. /\ backlog \in Seq(Paths) /\ shutdown \in BOOLEAN
      /\ server \in Paths \cup {"Poll", "Gone"}
  BY DEF IInv, DaemonTypeOK
<1>2. CASE Signal
  BY <1>1, <1>2, OthersInv DEF Signal
<1>3. CASE \E p \in Paths : Connect(p)
  BY <1>1, <1>3, OthersInv DEF Connect
<1>4. CASE \E i \in DOMAIN backlog : GiveUp(i)
  <2> PICK i \in DOMAIN backlog : GiveUp(i)
    BY <1>4
  <2>1. SubSeq(backlog, 1, i - 1) \in Seq(Paths)
    BY <1>1
  <2>2. SubSeq(backlog, i + 1, Len(backlog)) \in Seq(Paths)
    BY <1>1
  <2>3. backlog' \in Seq(Paths)
    BY <2>1, <2>2 DEF GiveUp
  <2> QED BY <1>1, <2>3, OthersInv DEF GiveUp
<1> QED BY <1>2, <1>3, <1>4

LEMMA StepInv == IInv /\ [Next]_vars => IInv'
<1> SUFFICES ASSUME IInv, [Next]_vars PROVE IInv'
  OBVIOUS
<1>1. CASE UNCHANGED vars
  BY <1>1, SameMarkets DEF vars, IInv, DaemonTypeOK, OutcomeInv, LoopOver, AllFinished, Retired
<1>2. CASE Over
  BY <1>1, <1>2 DEF Over
<1> QED BY <1>1, <1>2, TickInv, EndpointInv, WorldInv DEF Next

THEOREM Invariant == Spec => []IInv
BY InitInv, StepInv, PTL DEF Spec

-----------------------------------------------------------------------------
(* The registers and slots keep their types, and keeper_leader_status of a *)
(* market agrees with its was_leader_last_tick.                            *)
THEOREM DaemonTypeCorrect == Spec => []DaemonTypeOK
<1>1. IInv => DaemonTypeOK
  BY DEF IInv
<1> QED BY <1>1, Invariant, PTL

LEMMA CommandStays == [Next]_vars => UNCHANGED command
BY DEF Next, vars, Signal, Connect, GiveUp, Over, Endpoint, Leave, Accept, Serve, theLoop,
   Tick, EnterLoop, StartPass, EmptyPass, EndPass, Skip, Report, StopServer, Join,
   SeeShutdown, SeeLimit, Visit, TransientError, PermanentError, StandBy, Dispatch,
   SchedulerError, walkUnchanged, theServer

(* A retired slot stays retired: neither a signal nor the limit overwrites *)
(* its outcome.                                                            *)
LEMMA RetiredStays ==
  ASSUME NEW m \in Markets, IInv, [Next]_vars, Retired(m)
  PROVE  Retired(m)'
<1>1. slots \in [Markets -> [finished : Reasons \cup {Running}, leads : BOOLEAN]]
  BY DEF IInv, DaemonTypeOK
<1>2. slots[m].finished # Running
  BY DEF Retired, Running
<1>3. slots'[m].finished = slots[m].finished
  <2>1. CASE UNCHANGED slots
    BY <2>1
  <2>2. CASE SeeShutdown \/ SeeLimit
    BY <1>1, <1>2, <2>2 DEF SeeShutdown, SeeLimit, Latched
  <2>3. CASE \E n \in Markets : Visit(n)
    BY <1>1, <1>2, <2>3 DEF Visit, TransientError, PermanentError, StandBy, Dispatch,
       SchedulerError, Visiting
  <2> QED
    BY <2>1, <2>2, <2>3 DEF Next, vars, Signal, Connect, GiveUp, Over, Endpoint, Leave,
       Accept, Serve, theLoop, Tick, EnterLoop, StartPass, EmptyPass, EndPass, Skip,
       Report, StopServer, Join
<1> QED BY <1>3 DEF Retired

(* However many markets, signals and passes: a market's permanent error    *)
(* becomes the outcome of the process.                                     *)
THEOREM ErrorAlwaysSurfaces == Spec => ErrorSurfaces
<1> SUFFICES ASSUME NEW m \in 1 .. NMarkets
             PROVE  Spec => [](m \in Markets /\ Retired(m) =>
                                 [](reported # Running => reported = "PermanentError"))
  BY DEF ErrorSurfaces
<1> DEFINE Gone == m \in Markets /\ Retired(m)
<1>1. IInv /\ [Next]_vars /\ Gone => Gone'
  <2> SUFFICES ASSUME IInv, [Next]_vars, Gone PROVE Gone'
    OBVIOUS
  <2>1. UNCHANGED command
    BY CommandStays
  <2> QED BY <2>1, SameMarkets, RetiredStays
<1>2. IInv /\ Gone => (reported # Running => reported = "PermanentError")
  BY DEF IInv, OutcomeInv
<1> HIDE DEF Gone
<1>3. Spec => [](Gone => [](reported # Running => reported = "PermanentError"))
  BY <1>1, <1>2, Invariant, PTL DEF Spec
<1> QED BY <1>3 DEF Gone

-----------------------------------------------------------------------------
(* Ticks are counted only in the registers the endpoint renders: those of  *)
(* the markets, or in `serve` the one of the process.                      *)
CountedInv ==
  \A r \in Markets \cup {Process} : (r = Process <=> Multi) => registers[r].ticks = 0

LEMMA CountedStep ==
  ASSUME IInv, CountedInv, [Next]_vars
  PROVE  CountedInv'
<1> USE DaemonParameters
<1>1. command \in Commands /\ UNCHANGED <<Markets, Multi>>
  BY CommandStays, SameMarkets DEF IInv, DaemonTypeOK
<1>2. /\ registers \in [Markets \cup {Process} ->
                      [ticks : 0 .. MaxTicks, errors : 0 .. MaxTicks,
                       leader : {"Unknown", "Leader", "Standby"}]]
      /\ Process \notin Markets
  BY DEF IInv, DaemonTypeOK, Markets, Process
<1>3. ASSUME NEW m \in Markets, Visit(m) PROVE CountedInv'
  <2>1. Register(m) \in Markets \cup {Process} /\ (Register(m) = Process <=> ~Multi)
    BY <1>2 DEF Register
  <2>2. ASSUME NEW r \in Markets \cup {Process}, r = Process <=> Multi
        PROVE  registers'[r] = registers[r]
    <3>1. r # Register(m)
      BY <2>1, <2>2
    <3>2. CASE TransientError(m) \/ PermanentError(m)
      BY <1>2, <3>1, <3>2 DEF TransientError, PermanentError, Erred
    <3>3. CASE StandBy(m)
      BY <1>2, <3>1, <3>3 DEF StandBy, StoodBy
    <3>4. CASE Dispatch(m)
      BY <1>2, <3>1, <3>4 DEF Dispatch
    <3>5. CASE SchedulerError(m)
      BY <1>2, <3>1, <3>5 DEF SchedulerError
    <3> QED
      BY <1>3, <3>2, <3>3, <3>4, <3>5 DEF Visit
  <2> QED
    BY <1>1, <2>2 DEF CountedInv, Process
<1>4. CASE UNCHANGED registers
  BY <1>1, <1>4 DEF CountedInv, Process
<1>5. UNCHANGED registers \/ \E m \in Markets : Visit(m)
  BY DEF Next, vars, Signal, Connect, GiveUp, Over, Endpoint, Leave, Accept, Serve, theLoop,
     Tick, EnterLoop, StartPass, EmptyPass, EndPass, Skip, Report, StopServer, Join,
     SeeShutdown, SeeLimit, walkUnchanged, theServer
<1> QED
  BY <1>3, <1>4, <1>5

(* A request for the page that tells of the markets is answered with one   *)
(* that shows their ticks.                                                 *)
LEMMA ServedShows ==
  ASSUME IInv, CountedInv, [Next]_vars, server' = "Poll",
         server = (IF Multi THEN "/metrics-multi" ELSE "/metrics"),
         Ticked(DOMAIN registers)
  PROVE  answer'.shows
<1> USE DaemonParameters
<1>1. Multi \in BOOLEAN /\ DOMAIN registers = Markets \cup {Process}
      /\ \A r \in Markets \cup {Process} : registers[r].ticks \in Nat
  BY SomeMarket DEF IInv, DaemonTypeOK
<1>2. PICK r \in Markets \cup {Process} : registers[r].ticks > 0
  BY <1>1 DEF Ticked
<1>3. r = Process <=> ~Multi
  BY <1>1, <1>2 DEF CountedInv
<1>4. IF Multi THEN PerMarket ELSE Prometheus
  BY <1>1, <1>2, <1>3 DEF PerMarket, Prometheus, Ticked
<1>5. server \in {"/metrics", "/metrics-multi"} /\ server # server'
  <2>1. server \in {"/metrics", "/metrics-multi"}
    BY <1>1
  <2> QED
    BY <2>1
<1>6. PICK p \in Paths : Serve(p)
  BY <1>5 DEF Next, vars, Signal, Connect, GiveUp, Over, Endpoint, Leave, Accept, Tick,
     EnterLoop, StartPass, EmptyPass, EndPass, Skip, Report, StopServer, Join, Visit,
     TransientError, PermanentError, StandBy, Dispatch, SchedulerError,
     SeeShutdown, SeeLimit, walkUnchanged, theServer
<1>7. p = server /\ answer' = Response(server)
  BY <1>5, <1>6 DEF Serve
<1>8. CASE Multi
  <2>1. server = "/metrics-multi"
    BY <1>8
  <2>2. Response(server) = [to |-> server, status |-> 200, shows |-> PerMarket]
    BY <1>8, <2>1 DEF Response
  <2>3. PerMarket
    BY <1>4, <1>8
  <2>4. answer'.shows = PerMarket
    BY <1>7, <2>2
  <2> QED
    BY <2>3, <2>4
<1>9. CASE ~Multi
  <2>1. server = "/metrics"
    BY <1>9
  <2>2. Response(server) = [to |-> server, status |-> 200, shows |-> Prometheus]
    BY <2>1 DEF Response
  <2>3. Prometheus
    BY <1>4, <1>9
  <2>4. answer'.shows = Prometheus
    BY <1>7, <2>2
  <2> QED
    BY <2>3, <2>4
<1> QED
  BY <1>8, <1>9

(* A scrape shows that a market has ticked, in either way the process may  *)
(* have been started.                                                      *)
THEOREM ScrapesTell == Spec => ScrapeShowsTicks
<1>1. Init => CountedInv
  BY DEF Init, CountedInv
<1>2. IInv /\ CountedInv /\ [Next]_vars => CountedInv'
  BY CountedStep
<1> DEFINE Told == server' = "Poll" /\ server = (IF Multi THEN "/metrics-multi" ELSE "/metrics")
                     /\ Ticked(DOMAIN registers) => answer'.shows
<1>3. IInv /\ CountedInv /\ [Next]_vars => [Told]_vars
  BY ServedShows
<1> QED
  BY <1>1, <1>2, <1>3, Invariant, PTL DEF Spec, ScrapeShowsTicks
=============================================================================
