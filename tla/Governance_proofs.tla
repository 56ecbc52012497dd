-------------------------- MODULE Governance_proofs --------------------------
(***************************************************************************)
(* Header and bytes agree, for any number of markets, positions, schema    *)
(* versions and deployments.                                               *)
(***************************************************************************)
EXTENDS Governance, TLAPS

MarketAccounts ==
  [live: BOOLEAN, paused: BOOLEAN, frozen: BOOLEAN, schema_version: Int, layout: Int]

PositionAccounts ==
  [status: {"none", "open", "closed"}, market: Markets, schema_version: Int, layout: Int]

Fields ==
  /\ deployed \in [version: Int, steps: SUBSET Int]
  /\ config \in [paused_globally: BOOLEAN, schema_version: Int]
  /\ market \in [Markets -> MarketAccounts]
  /\ position \in [Positions -> PositionAccounts]

(* Header and bytes agree in every position, and in every market whose     *)
(* header only migrate_market and initialize_market under a matching       *)
(* GlobalConfig have set.                                                  *)
Agreed ==
  /\ \A p \in Positions: position[p].layout = position[p].schema_version
  /\ \A m \in Markets \ bent: market[m].layout = market[m].schema_version

GovernanceInv == Fields /\ Agreed /\ ReadsItsLayout

LEMMA GovernanceStart == Init => GovernanceInv
<1> SUFFICES ASSUME Init PROVE GovernanceInv
  OBVIOUS
<1> DEFINE first == CHOOSE m \in Markets: TRUE
<1>1. first \in Markets
  BY GovernanceParameters DEF GovernanceParameters
<1> HIDE DEF first
<1>2. position = [p \in Positions |-> [status |-> "none", market |-> first,
                                       schema_version |-> 1, layout |-> 1]]
  BY DEF Init, Launch, first
<1>3. market = [m \in Markets |-> [live |-> FALSE, paused |-> FALSE, frozen |-> FALSE,
                                   schema_version |-> 1, layout |-> 1]]
  BY DEF Init, Launch
<1>4. deployed \in [version: Int, steps: SUBSET Int]
  BY DEF Init, Launch
<1>5. config \in [paused_globally: BOOLEAN, schema_version: Int]
  BY DEF Init, Launch
<1>6. position \in [Positions -> PositionAccounts]
  BY <1>1, <1>2 DEF PositionAccounts
<1>7. market \in [Markets -> MarketAccounts]
  BY <1>3 DEF MarketAccounts
<1>8. Agreed
  BY <1>2, <1>3 DEF Agreed
<1>9. ReadsItsLayout
  BY DEF Init, ReadsItsLayout
<1> QED
  BY <1>4, <1>5, <1>6, <1>7, <1>8, <1>9 DEF GovernanceInv, Fields

(* Migration moves header and bytes together, to the program's version.    *)
LEMMA MarketMigrates ==
  ASSUME deployed.version \in Int, NEW a \in MarketAccounts
  PROVE  /\ Migrated(a) \in MarketAccounts
         /\ a.layout = a.schema_version =>
              Migrated(a).layout = Migrated(a).schema_version
<1> DEFINE v == deployed.version
           w == a.layout + v - a.schema_version
           b == [[a EXCEPT !.schema_version = v] EXCEPT !.layout = w]
<1>1. a.schema_version \in Int /\ a.layout \in Int /\ v \in Int /\ w \in Int
  BY DEF MarketAccounts
<1>2. Migrated(a) = a \/ (Migrated(a) = b /\ ~(a.schema_version > v))
  BY DEF Migrated
<1>3. b \in MarketAccounts
  <2> DEFINE c == [a EXCEPT !.schema_version = v]
  <2>1. c \in MarketAccounts
    BY <1>1 DEF MarketAccounts
  <2> HIDE DEF c, w
  <2>2. [c EXCEPT !.layout = w] \in MarketAccounts
    BY <1>1, <2>1 DEF MarketAccounts
  <2> QED
    BY <2>2 DEF c
<1>4. b.schema_version = v /\ b.layout = w
  BY DEF MarketAccounts
<1>5. a.layout = a.schema_version => b.layout = b.schema_version
  BY <1>1, <1>4
<1> HIDE DEF b
<1> QED
  BY <1>2, <1>3, <1>5

LEMMA PositionMigrates ==
  ASSUME deployed.version \in Int, NEW a \in PositionAccounts
  PROVE  /\ Migrated(a) \in PositionAccounts
         /\ a.layout = a.schema_version =>
              Migrated(a).layout = Migrated(a).schema_version
<1> DEFINE v == deployed.version
           w == a.layout + v - a.schema_version
           b == [[a EXCEPT !.schema_version = v] EXCEPT !.layout = w]
<1>1. a.schema_version \in Int /\ a.layout \in Int /\ v \in Int /\ w \in Int
  BY DEF PositionAccounts
<1>2. Migrated(a) = a \/ (Migrated(a) = b /\ ~(a.schema_version > v))
  BY DEF Migrated
<1>3. b \in PositionAccounts
  <2> DEFINE c == [a EXCEPT !.schema_version = v]
  <2>1. c \in PositionAccounts
    BY <1>1 DEF PositionAccounts
  <2> HIDE DEF c, w
  <2>2. [c EXCEPT !.layout = w] \in PositionAccounts
    BY <1>1, <2>1 DEF PositionAccounts
  <2> QED
    BY <2>2 DEF c
<1>4. b.schema_version = v /\ b.layout = w
  BY DEF PositionAccounts
<1>5. a.layout = a.schema_version => b.layout = b.schema_version
  BY <1>1, <1>4
<1> HIDE DEF b
<1> QED
  BY <1>2, <1>3, <1>5

(* An instruction of governance runs no engine code.                       *)
LEMMA NothingRead == ASSUME read' = {} PROVE ReadsItsLayout'
BY DEF ReadsItsLayout

(* One market's account replaced, by one whose header and bytes agree or   *)
(* that counts as bent.                                                    *)
LEMMA MarketWritten ==
  ASSUME GovernanceInv, NEW m \in Markets, NEW a \in MarketAccounts,
         market' = [market EXCEPT ![m] = a],
         bent \subseteq bent',
         m \notin bent' => a.layout = a.schema_version,
         read' = {}, UNCHANGED <<deployed, config, position>>
  PROVE  GovernanceInv'
<1>1. Fields'
  BY DEF GovernanceInv, Fields
<1>2. Agreed'
  <2>1. ASSUME NEW n \in Markets \ bent'
        PROVE  market'[n].layout = market'[n].schema_version
    <3>1. CASE n = m
      BY <2>1, <3>1 DEF GovernanceInv, Fields
    <3>2. CASE n # m
      BY <2>1, <3>2 DEF GovernanceInv, Fields, Agreed
    <3> QED
      BY <3>1, <3>2
  <2> QED
    BY <2>1 DEF GovernanceInv, Agreed
<1> QED
  BY <1>1, <1>2, NothingRead DEF GovernanceInv

LEMMA FlagsWritten ==
  ASSUME GovernanceInv, NEW m \in Markets,
         \/ pause_market(m) \/ resume_market(m)
         \/ freeze_new_position(m) \/ unfreeze_new_position(m)
  PROVE  GovernanceInv'
<1>1. PICK flags: /\ Emergency(m, flags)
                  /\ \/ flags = [market[m] EXCEPT !.paused = TRUE]
                     \/ flags = [market[m] EXCEPT !.paused = FALSE]
                     \/ flags = [market[m] EXCEPT !.frozen = TRUE]
                     \/ flags = [market[m] EXCEPT !.frozen = FALSE]
  BY DEF pause_market, resume_market, freeze_new_position, unfreeze_new_position
<1>2. market[m] \in MarketAccounts
  BY DEF GovernanceInv, Fields
<1>3. /\ flags \in MarketAccounts
      /\ flags.layout = market[m].layout /\ flags.schema_version = market[m].schema_version
  BY <1>1, <1>2 DEF MarketAccounts
<1>4. m \notin bent => flags.layout = flags.schema_version
  BY <1>3 DEF GovernanceInv, Agreed
<1>5. /\ market' = [market EXCEPT ![m] = flags] /\ read' = {}
      /\ UNCHANGED <<deployed, config, position, bent>>
  BY <1>1 DEF Emergency, Policy
<1> QED
  BY <1>3, <1>4, <1>5, MarketWritten

LEMMA MarketGoverned ==
  ASSUME GovernanceInv, NEW m \in Markets,
         \/ initialize_market(m) \/ migrate_market(m)
         \/ \E version \in 1 .. MaxVersion: bump_market_schema_version(m, version)
  PROVE  GovernanceInv'
<1>1. market[m] \in MarketAccounts /\ deployed.version \in Int
      /\ config.schema_version \in Int
  BY DEF GovernanceInv, Fields
<1>2. CASE initialize_market(m)
  <2> DEFINE a == [live |-> TRUE, paused |-> FALSE, frozen |-> FALSE,
                   schema_version |-> config.schema_version,
                   layout |-> deployed.version]
  <2>1. a \in MarketAccounts
    BY <1>1 DEF MarketAccounts
  <2>2. market' = [market EXCEPT ![m] = a] /\ bent \subseteq bent' /\ read' = {}
        /\ UNCHANGED <<deployed, config, position>>
    BY <1>2 DEF initialize_market, Policy
  <2>3. m \notin bent' => a.layout = a.schema_version
    BY <1>2 DEF initialize_market
  <2> QED
    BY <2>1, <2>2, <2>3, MarketWritten
<1>3. CASE migrate_market(m)
  <2>1. market' = [market EXCEPT ![m] = Migrated(market[m])] /\ bent' = bent /\ read' = {}
        /\ UNCHANGED <<deployed, config, position>>
    BY <1>3 DEF migrate_market, Policy
  <2>2. m \notin bent => market[m].layout = market[m].schema_version
    BY DEF GovernanceInv, Agreed
  <2>3. /\ Migrated(market[m]) \in MarketAccounts
        /\ m \notin bent => Migrated(market[m]).layout = Migrated(market[m]).schema_version
    BY <1>1, <2>2, MarketMigrates
  <2> QED
    BY <2>1, <2>3, MarketWritten
<1>4. ASSUME NEW version \in 1 .. MaxVersion, bump_market_schema_version(m, version)
      PROVE  GovernanceInv'
  <2> DEFINE a == [market[m] EXCEPT !.schema_version = version]
  <2>1. a \in MarketAccounts
    BY <1>1 DEF MarketAccounts
  <2>2. market' = [market EXCEPT ![m] = a] /\ bent' = bent \cup {m} /\ read' = {}
        /\ UNCHANGED <<deployed, config, position>>
    BY <1>1, <1>4 DEF bump_market_schema_version, Policy, GovernanceInv, Fields
  <2> QED
    BY <2>1, <2>2, MarketWritten
<1> QED
  BY <1>2, <1>3, <1>4

(* Likewise one position's account.                                        *)
LEMMA PositionWritten ==
  ASSUME GovernanceInv, NEW p \in Positions, NEW a \in PositionAccounts,
         position' = [position EXCEPT ![p] = a],
         a.layout = a.schema_version,
         UNCHANGED <<deployed, config, market, bent>>
  PROVE  Fields' /\ Agreed'
<1>1. Fields'
  BY DEF GovernanceInv, Fields
<1>2. \A q \in Positions: position'[q].layout = position'[q].schema_version
  <2> SUFFICES ASSUME NEW q \in Positions
               PROVE  position'[q].layout = position'[q].schema_version
    OBVIOUS
  <2>1. CASE q = p
    BY <2>1 DEF GovernanceInv, Fields
  <2>2. CASE q # p
    BY <2>2 DEF GovernanceInv, Fields, Agreed
  <2> QED
    BY <2>1, <2>2
<1> QED
  BY <1>1, <1>2 DEF GovernanceInv, Agreed

(* A market that passes the gates has bytes of the program's own version.  *)
LEMMA GatedMarket ==
  ASSUME GovernanceInv, NEW m \in Markets, Runs(m), m \notin bent
  PROVE  market[m].layout = deployed.version
BY DEF GovernanceInv, Agreed, Runs

LEMMA PositionMoves ==
  ASSUME GovernanceInv, NEW p \in Positions, migrate_position(p)
  PROVE  GovernanceInv'
<1>1. position[p] \in PositionAccounts /\ deployed.version \in Int
      /\ position[p].layout = position[p].schema_version
  BY DEF GovernanceInv, Fields, Agreed
<1>2. position' = [position EXCEPT ![p] = Migrated(position[p])] /\ read' = {}
      /\ UNCHANGED <<deployed, config, market, bent>>
  BY DEF migrate_position, Policy
<1>3. /\ Migrated(position[p]) \in PositionAccounts
      /\ Migrated(position[p]).layout = Migrated(position[p]).schema_version
  BY <1>1, PositionMigrates
<1> QED
  BY <1>2, <1>3, PositionWritten, NothingRead DEF GovernanceInv

LEMMA PositionOpens ==
  ASSUME GovernanceInv, NEW p \in Positions, NEW m \in Markets, open_position(p, m)
  PROVE  GovernanceInv'
<1> DEFINE a == [status |-> "open", market |-> m,
                 schema_version |-> market[m].schema_version,
                 layout |-> deployed.version]
<1>1. market[m] \in MarketAccounts /\ deployed.version \in Int /\ Runs(m)
  BY DEF GovernanceInv, Fields, open_position
<1>2. a \in PositionAccounts /\ a.layout = a.schema_version /\ a.layout = deployed.version
  BY <1>1 DEF PositionAccounts, MarketAccounts, Runs
<1>3. position' = [position EXCEPT ![p] = a] /\ read' = {m, p}
      /\ UNCHANGED <<deployed, config, market, bent>>
  BY DEF open_position
<1>4. position'[p] = a
  BY <1>3 DEF GovernanceInv, Fields
<1> HIDE DEF a
<1>5. Fields' /\ Agreed'
  BY <1>2, <1>3, PositionWritten
<1>6. m \notin Positions /\ p \notin Markets
  BY GovernanceParameters DEF GovernanceParameters
<1>7. ReadsItsLayout'
  BY <1>2, <1>3, <1>4, <1>6, GatedMarket, <1>1 DEF ReadsItsLayout
<1> QED
  BY <1>5, <1>7 DEF GovernanceInv

LEMMA PositionUsed ==
  ASSUME GovernanceInv, NEW p \in Positions, NEW status \in {"open", "closed"},
         UsePosition(p, status)
  PROVE  GovernanceInv'
<1> DEFINE m == position[p].market
           a == [position[p] EXCEPT !.status = status]
<1>1. /\ position[p] \in PositionAccounts
      /\ position[p].layout = position[p].schema_version
      /\ Runs(m) /\ SameSchema(p)
  BY DEF GovernanceInv, Fields, Agreed, UsePosition
<1>2. m \in Markets
  BY <1>1 DEF PositionAccounts
<1>3. position[p].layout = deployed.version
  BY <1>1 DEF Runs, SameSchema
<1>4. /\ a \in PositionAccounts
      /\ a.layout = position[p].layout /\ a.schema_version = position[p].schema_version
  BY <1>1 DEF PositionAccounts
<1>5. position' = [position EXCEPT ![p] = a] /\ read' = {m, p}
      /\ UNCHANGED <<deployed, config, market, bent>>
  BY DEF UsePosition, GovernanceInv, Fields
<1> HIDE DEF a, m
<1>6. position'[p] = a
  BY <1>5 DEF GovernanceInv, Fields
<1>7. Fields' /\ Agreed'
  BY <1>1, <1>4, <1>5, PositionWritten
<1>8. m \notin Positions /\ p \notin Markets
  BY <1>2, GovernanceParameters DEF GovernanceParameters
<1>9. ReadsItsLayout'
  BY <1>1, <1>2, <1>3, <1>4, <1>5, <1>6, <1>8, GatedMarket DEF ReadsItsLayout
<1> QED
  BY <1>7, <1>9 DEF GovernanceInv

LEMMA MarketCranked ==
  ASSUME GovernanceInv, NEW m \in Markets, Crank(m)
  PROVE  GovernanceInv'
<1>1. Runs(m) /\ read' = {m} /\ UNCHANGED <<deployed, config, market, position, bent>>
  BY DEF Crank, accounts
<1>2. m \notin Positions
  BY GovernanceParameters DEF GovernanceParameters
<1>3. ReadsItsLayout'
  BY <1>1, <1>2, GatedMarket DEF ReadsItsLayout
<1> QED
  BY <1>1, <1>3 DEF GovernanceInv, Fields, Agreed

(* A deployment and the global flag change no account's version.           *)
LEMMA ProgramChanges ==
  ASSUME GovernanceInv,
         \/ \E raise \in BOOLEAN, step \in 0 .. MaxVersion - 1: Deploy(raise, step)
         \/ \E paused \in BOOLEAN: set_globally_paused(paused)
  PROVE  GovernanceInv'
<1>1. ASSUME NEW raise \in BOOLEAN, NEW step \in 0 .. MaxVersion - 1, Deploy(raise, step)
      PROVE  GovernanceInv'
  <2> DEFINE version == IF raise THEN deployed.version + 1 ELSE deployed.version
             steps == IF step = 0 THEN deployed.steps ELSE deployed.steps \cup {step}
  <2>1. deployed' = [version |-> version, steps |-> steps] /\ read' = {}
        /\ UNCHANGED <<config, market, position, bent>>
    BY <1>1 DEF Deploy, accounts
  <2>2. version \in Int /\ steps \in SUBSET Int
    <3>1. deployed.version \in Int /\ deployed.steps \in SUBSET Int /\ step \in Int
      BY GovernanceParameters DEF GovernanceInv, Fields, GovernanceParameters
    <3> QED
      BY <3>1
  <2> HIDE DEF version, steps
  <2>3. deployed' \in [version: Int, steps: SUBSET Int]
    BY <2>1, <2>2
  <2> QED
    BY <2>1, <2>3, NothingRead DEF GovernanceInv, Fields, Agreed
<1>2. ASSUME NEW paused \in BOOLEAN, set_globally_paused(paused) PROVE GovernanceInv'
  <2>1. config' = [config EXCEPT !.paused_globally = paused] /\ read' = {}
        /\ UNCHANGED <<deployed, market, position, bent>>
    BY <1>2 DEF set_globally_paused, Policy
  <2>2. config' \in [paused_globally: BOOLEAN, schema_version: Int]
    BY <2>1 DEF GovernanceInv, Fields
  <2> QED
    BY <2>1, <2>2, NothingRead DEF GovernanceInv, Fields, Agreed
<1> QED
  BY <1>1, <1>2

(* No order of deployments, bumps, pauses and migrations makes the engine  *)
(* work on a position of another shape, nor on a market of another shape   *)
(* whose header was only ever set by the code that sets its bytes.         *)
THEOREM LayoutsMatch == Spec => []ReadsItsLayout
<1>1. GovernanceInv /\ [Next]_vars => GovernanceInv'
  <2> SUFFICES ASSUME GovernanceInv, [Next]_vars PROVE GovernanceInv'
    OBVIOUS
  <2>1. CASE \/ \E raise \in BOOLEAN, step \in 0 .. MaxVersion - 1: Deploy(raise, step)
             \/ \E paused \in BOOLEAN: set_globally_paused(paused)
    BY <2>1, ProgramChanges
  <2>2. ASSUME NEW m \in Markets,
               \/ initialize_market(m) \/ migrate_market(m)
               \/ pause_market(m) \/ resume_market(m)
               \/ freeze_new_position(m) \/ unfreeze_new_position(m)
               \/ sync_pool(m) \/ pre_sync_dormant_bucket(m) \/ harvest_dust(m)
               \/ \E version \in 1 .. MaxVersion: bump_market_schema_version(m, version)
               \/ \E p \in Positions: open_position(p, m)
        PROVE  GovernanceInv'
    BY <2>2, MarketGoverned, FlagsWritten, MarketCranked, PositionOpens
    DEF sync_pool, pre_sync_dormant_bucket, harvest_dust
  <2>3. ASSUME NEW p \in Positions,
               \/ migrate_position(p) \/ close_position(p)
               \/ force_close_zero_value_position(p) \/ claim_dormant_recovery(p)
        PROVE  GovernanceInv'
    BY <2>3, PositionMoves, PositionUsed
    DEF close_position, force_close_zero_value_position, claim_dormant_recovery
  <2>4. CASE UNCHANGED vars
    BY <2>4 DEF vars, accounts, GovernanceInv, Fields, Agreed, ReadsItsLayout
  <2> QED
    BY <2>1, <2>2, <2>3, <2>4 DEF Next
<1>2. GovernanceInv => ReadsItsLayout
  BY DEF GovernanceInv
<1> QED
  BY <1>1, <1>2, GovernanceStart, PTL DEF Spec
=============================================================================
