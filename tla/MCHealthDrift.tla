---------------------------- MODULE MCHealthDrift ---------------------------
(***************************************************************************)
(* The values TLC lets the facts take: for every check of checks.rs, both  *)
(* sides of each of its bounds, and every dark or malformed fact it has a  *)
(* branch for.  The healthy values are those of healthy_demo_context where *)
(* that does not lie further from a bound.                                 *)
(***************************************************************************)
EXTENDS HealthDrift

CONSTANTS Rightful, Intruder  \* the leader the registry names, and another

TheMarkets == {1, 2}

Keepers == {Rightful, Intruder}

Pool(ticks, hints, qty) == [dormant_ticks |-> ticks, hints |-> hints, open_qty |-> qty]

Lock(init, has, leader, since, expected) ==
  [initialized |-> init, has_leader |-> has, leader |-> leader, beat |-> 100,
   slot |-> 100 + since, threshold |-> 10, expected |-> expected]

Healthy ==
  [paused_globally |-> FALSE, paused |-> FALSE, frozen_new_position |-> FALSE,
   schema_onchain |-> 1, schema_compiled |-> 1,
   sub_pools |-> <<Pool(2000, 49, 9800), Pool(80, 3, 6700)>>,
   heartbeat |-> TRUE, failed |-> 1, skipped |-> 99, warming |-> 2,
   vol_known |-> TRUE, wallet |-> 500, latency |-> 200, slot_diff |-> 5,
   gpa |-> 5000, slot_age |-> 29, confidence |-> 5, notional |-> 100000,
   recovery |-> 0, onchain |-> 100000,
   leader_lock |-> Lock(TRUE, TRUE, Rightful, 0, Rightful)]

(* The threshold is 10 slots: 60 and 90 per cent of it are 6 and 9.        *)
FactValues ==
  [paused_globally |-> BOOLEAN, paused |-> BOOLEAN, frozen_new_position |-> BOOLEAN,
   schema_onchain |-> {0, 1},
   sub_pools |-> {<<Pool(t, h, q[1]), Pool(80, 3, q[2])>>:
                    t \in {2000, 2001, 5000, 5001}, h \in {49, 50},
                    q \in {<<9800, 6700>>, <<0, 6700>>, <<0, 0>>}},
   heartbeat |-> BOOLEAN, failed |-> {1, 2, 4, 5}, skipped |-> {99, 100},
   warming |-> {2, 3}, vol_known |-> BOOLEAN, wallet |-> {500, 499, 200, 199},
   latency |-> {200, 201, 1000, 1001}, slot_diff |-> {5, 6, 32, 33},
   gpa |-> {5000, 5001, 30000, 30001}, slot_age |-> {29, 30, 31, 64, 65},
   confidence |-> {5, 6, 20, 21}, recovery |-> {0, 100, 101, 1000, 1001},
   onchain |-> {0, 98000, 98001, 99500, 99501, 100000, 100499, 100500, 101999, 102000},
   leader_lock |-> {NoFacts} \cup
     {Lock(a[1], a[2], l, s, e):
        a \in {<<TRUE, TRUE>>, <<TRUE, FALSE>>, <<FALSE, FALSE>>}, l \in Keepers,
        s \in {0, 5, 6, 8, 9}, e \in {Rightful, NoFacts}}]
=============================================================================
