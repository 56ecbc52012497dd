------------------------------ MODULE Governance -----------------------------
(***************************************************************************)
(* Governance and schema migration (programs/mole-option: admin.rs,        *)
(* migration.rs, init.rs) around the gates of the engine's entrypoints.    *)
(*                                                                         *)
(* An account has two versions: schema_version, the header field the gates *)
(* compare, and layout, the shape its bytes really have, which only        *)
(* creation and a registered migration step set.  The program that is      *)
(* deployed was compiled with SCHEMA_VERSION_CURRENT and a registry of     *)
(* steps; both change when the upgrade authority deploys another.  What    *)
(* the engine does behind its gates is ClearingCore's.                     *)
(***************************************************************************)
EXTENDS Integers

CONSTANTS
  Markets,
  Positions,
  MaxVersion   \* bound on schema versions

ASSUME GovernanceParameters ==
  MaxVersion \in Nat \ {0} /\ Markets # {} /\ Markets \cap Positions = {}

VARIABLES
  deployed,  \* SCHEMA_VERSION_CURRENT and the registry: n stands for n -> n + 1
  config,    \* GlobalConfig
  market,    \* each Market account
  position,  \* each Position account
  read,      \* history: accounts the engine worked on in this step
  bent       \* history: markets whose header was set other than by a step

accounts == <<config, market, position>>
vars == <<deployed, config, market, position, read, bent>>

Launch == 1   \* schema_version initialize_global_config writes

Init ==
  /\ deployed = [version |-> Launch, steps |-> {}]
  /\ config = [paused_globally |-> FALSE, schema_version |-> Launch]
  /\ market = [m \in Markets |-> [live |-> FALSE, paused |-> FALSE, frozen |-> FALSE,
                                  schema_version |-> Launch, layout |-> Launch]]
  /\ position = [p \in Positions |->
                   [status |-> "none", market |-> CHOOSE m \in Markets: TRUE,
                    schema_version |-> Launch, layout |-> Launch]]
  /\ read = {} /\ bent = {}

Policy == read' = {} /\ UNCHANGED deployed

(* The upgrade authority deploys a program: it may know one more step, and *)
(* may have been compiled for the next version.                            *)
Deploy(raise, step) ==
  LET version == IF raise THEN deployed.version + 1 ELSE deployed.version
      steps == IF step = 0 THEN deployed.steps ELSE deployed.steps \cup {step}
  IN  /\ version <= MaxVersion
      /\ deployed' = [version |-> version, steps |-> steps]
      /\ read' = {} /\ UNCHANGED <<accounts, bent>>

(* The header comes from GlobalConfig, the bytes from the program.         *)
initialize_market(m) ==
  /\ ~market[m].live
  /\ market' = [market EXCEPT ![m] =
                  [live |-> TRUE, paused |-> FALSE, frozen |-> FALSE,
                   schema_version |-> config.schema_version,
                   layout |-> deployed.version]]
  /\ bent' = IF config.schema_version = deployed.version THEN bent ELSE bent \cup {m}
  /\ Policy /\ UNCHANGED <<config, position>>

-----------------------------------------------------------------------------
(* The emergency authority.                                                *)

Emergency(m, flags) ==
  /\ market[m].live
  /\ market' = [market EXCEPT ![m] = flags]
  /\ Policy /\ UNCHANGED <<config, position, bent>>

pause_market(m) == Emergency(m, [market[m] EXCEPT !.paused = TRUE])
resume_market(m) == Emergency(m, [market[m] EXCEPT !.paused = FALSE])
freeze_new_position(m) == Emergency(m, [market[m] EXCEPT !.frozen = TRUE])
unfreeze_new_position(m) == Emergency(m, [market[m] EXCEPT !.frozen = FALSE])

(* The admin authority.                                                    *)

set_globally_paused(paused) ==
  /\ config' = [config EXCEPT !.paused_globally = paused]
  /\ Policy /\ UNCHANGED <<market, position, bent>>

bump_market_schema_version(m, version) ==
  /\ market[m].live
  /\ version > market[m].schema_version
  /\ market' = [market EXCEPT ![m].schema_version = version]
  /\ bent' = bent \cup {m}
  /\ Policy /\ UNCHANGED <<config, position>>

(* migrate_market and migrate_position: one registered step per version up *)
(* to the program's own, or none at all; a header ahead is left alone.     *)
Path(account) == account.schema_version .. deployed.version - 1

Migrates(account) ==
  account.schema_version # deployed.version /\ Path(account) \subseteq deployed.steps

Migrated(account) ==
  IF account.schema_version > deployed.version THEN account
  ELSE [account EXCEPT !.schema_version = deployed.version,
                       !.layout = @ + deployed.version - account.schema_version]

migrate_market(m) ==
  /\ market[m].live /\ Migrates(market[m])
  /\ market' = [market EXCEPT ![m] = Migrated(@)]
  /\ Policy /\ UNCHANGED <<config, position, bent>>

migrate_position(p) ==
  /\ position[p].status # "none" /\ Migrates(position[p])
  /\ position' = [position EXCEPT ![p] = Migrated(@)]
  /\ Policy /\ UNCHANGED <<config, market, bent>>

-----------------------------------------------------------------------------
(* The engine's entrypoints, by their gates.                               *)

(* Mutant: a frozen market refuses everything.                             *)
Runs_NotFrozen(m) ==
  /\ market[m].live /\ market[m].schema_version = deployed.version
  /\ ~market[m].paused /\ ~market[m].frozen

(* assert_schema_version and the pause flag, in every entrypoint.          *)
Runs(m) ==
  /\ market[m].live /\ market[m].schema_version = deployed.version
  /\ ~market[m].paused

(* Mutant: the position's own version is not compared.                     *)
SameSchema_Unchecked(p) == TRUE

SameSchema(p) == position[p].schema_version = market[position[p].market].schema_version

Crank(m) ==
  /\ Runs(m)
  /\ read' = {m}
  /\ UNCHANGED <<deployed, accounts, bent>>

sync_pool(m) == Crank(m)
pre_sync_dormant_bucket(m) == Crank(m)
harvest_dust(m) == Crank(m)

(* The new account is stamped with the market's header.                    *)
open_position(p, m) ==
  /\ position[p].status = "none"
  /\ Runs(m) /\ ~market[m].frozen
  /\ position' = [position EXCEPT ![p] =
                    [status |-> "open", market |-> m,
                     schema_version |-> market[m].schema_version,
                     layout |-> deployed.version]]
  /\ read' = {m, p}
  /\ UNCHANGED <<deployed, config, market, bent>>

UsePosition(p, status) ==
  /\ position[p].status = "open"
  /\ Runs(position[p].market) /\ SameSchema(p)
  /\ position' = [position EXCEPT ![p].status = status]
  /\ read' = {position[p].market, p}
  /\ UNCHANGED <<deployed, config, market, bent>>

close_position(p) == UsePosition(p, "closed")
force_close_zero_value_position(p) == UsePosition(p, "closed")
claim_dormant_recovery(p) == UsePosition(p, "open")

Next ==
  \/ \E raise \in BOOLEAN, step \in 0 .. MaxVersion - 1: Deploy(raise, step)
  \/ \E paused \in BOOLEAN: set_globally_paused(paused)
  \/ \E m \in Markets:
       \/ initialize_market(m) \/ migrate_market(m)
       \/ pause_market(m) \/ resume_market(m)
       \/ freeze_new_position(m) \/ unfreeze_new_position(m)
       \/ sync_pool(m) \/ pre_sync_dormant_bucket(m) \/ harvest_dust(m)
       \/ \E version \in 1 .. MaxVersion: bump_market_schema_version(m, version)
       \/ \E p \in Positions: open_position(p, m)
  \/ \E p \in Positions:
       \/ migrate_position(p) \/ close_position(p)
       \/ force_close_zero_value_position(p) \/ claim_dormant_recovery(p)

Spec == Init /\ [][Next]_vars

(* What people are expected to do, not what the program enforces: a pause  *)
(* is lifted some day, the admin migrates its markets, owners migrate      *)
(* their positions, and an owner who can close time and again does.        *)
FairSpec ==
  /\ Spec
  /\ \A m \in Markets: WF_vars(market[m].paused /\ resume_market(m)) /\ WF_vars(migrate_market(m))
  /\ \A p \in Positions: WF_vars(migrate_position(p)) /\ SF_vars(close_position(p))

-----------------------------------------------------------------------------
(* The engine never works on an account whose bytes have another shape     *)
(* than the deployed program was compiled for, whatever the order of       *)
(* deployments, bumps and migrations: of every position, and of every      *)
(* market whose header no bump and no stale GlobalConfig has set           *)
(* (migration.rs: "read mis-laid-out data").                               *)
ReadsItsLayout ==
  /\ \A p \in read \cap Positions: position[p].layout = deployed.version
  /\ \A m \in (read \cap Markets) \ bent: market[m].layout = deployed.version

(* Whoever holds a position gets out, through freezes, pauses and schema   *)
(* upgrades, as long as the header of its market was left to migrate_market*)
(* and every step is registered in the end: a step that comes with a later *)
(* deployment excuses nobody.                                              *)
Stranded(p) ==
  position[p].market \in bent \/ ~(1 .. deployed.version - 1 \subseteq deployed.steps)

EveryoneLeaves ==
  \A p \in Positions:
    position[p].status = "open" ~> position[p].status = "closed" \/ []Stranded(p)
=============================================================================
