----------------------------- MODULE StableEngine -----------------------------
(***************************************************************************)
(* The rule engine under configurations that agree with each other.  A     *)
(* reload or restart may add and drop rules, interfaces and profiles, but  *)
(* a rule name always stands for the same rule, no two rules share a       *)
(* destination, and a rule is a default rule or a profile's, never both.   *)
(* The program validates none of this; the runs of MCEngine show what      *)
(* happens without it.                                                     *)
(***************************************************************************)
EXTENDS Engine

AllRules == DefaultRules \cup ProfileRules

ASSUME StableRules ==
  /\ \A r, s \in AllRules : r.name = s.name => r = s
  /\ \A r, s \in AllRules : (r.dest = s.dest /\ r.dest # Unresolved) => r = s
  /\ DefaultRules \cap ProfileRules = {}

\* table_id_start never changes, and the tables of all interfaces the system
\* ever has fit the cleanup's range and the netlink header.
ASSUME StableTables ==
  /\ Cardinality(Ifaces) <= MaxInterfaces
  /\ \A c, d \in Configs :
       /\ c.table_id_start = d.table_id_start
       /\ c.table_id_start + Cardinality(Ifaces) <= MaxTableId + 1
-----------------------------------------------------------------------------
\* Where the process takes a default rule to be, and where it has put routes of it.
KnownTables(r) == {a.table_id : a \in {a \in active : a.rule_name = r.name}}
RouteTables(r) == {x.table : x \in {x \in NewRoutes : x.dest = r.dest}}

Managed == INSTANCE ManagedRules WITH
  Rules <- DefaultRules,
  known <- [r \in DefaultRules |-> KnownTables(r)],
  route <- [r \in DefaultRules |-> RouteTables(r)]

\* The engine implements ManagedRules: through failed requests, reloads between two
\* requests, events in any order and restarts, executor.rs has a default rule in
\* one table at a time and knows which, until it stops.
RulesManaged == Managed!ManagedSpec
=============================================================================
