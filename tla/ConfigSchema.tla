------------------------------ MODULE ConfigSchema ------------------------------
(***************************************************************************)
(* Which configurations are valid (src/config/schema.rs).  A configuration *)
(* is a record with the fields of the source; names are strings, domains   *)
(* and domain patterns sequences of letters (Patterns).                    *)
(***************************************************************************)
EXTENDS Patterns

MAX_TABLE_ID_START == 252

ValidLogLevels == {"trace", "debug", "info", "warn", "error"}

\* str::to_lowercase(), for the names that occur.
to_lowercase(name) == CASE name = "INFO" -> "info" [] name = "Debug" -> "debug" [] OTHER -> name

-----------------------------------------------------------------------------
(* Mutants of the definitions below. *)

\* The rules of a WiFi profile are not looked at.
WifiProfileValid_rules(p) == p.interface # ""

-----------------------------------------------------------------------------
(* The validate() methods, from the leaves up. *)

GlobalValid(g) ==
  /\ g.monitor_interval > 0
  /\ to_lowercase(g.log_level) \in ValidLogLevels
  /\ g.table_id_start \in 100 .. MAX_TABLE_ID_START

\* match_by is a name, a pattern or a MAC address.
InterfaceValid(i) == i.match_by # ""

RuleValid(r) ==
  /\ r.name # ""
  /\ r.match_on.kind = "domain_pattern" => validate_domain_pattern(r.match_on.value)

WifiProfileValid(p) ==
  /\ p.interface # ""
  /\ \A r \in ToSet(p.rules) : RuleValid(r)

RoutingValid(default_rules) == \A r \in ToSet(default_rules) : RuleValid(r)

\* interfaces and wifi_profiles map names to records; the names themselves are not
\* looked at, nor does a rule's interface have to exist.
ConfigValid(c) ==
  /\ GlobalValid(c.global)
  /\ DOMAIN c.interfaces # {}
  /\ \A i \in Range(c.interfaces) : InterfaceValid(i)
  /\ \A p \in Range(c.wifi_profiles) : WifiProfileValid(p)
  /\ RoutingValid(c.default_rules)

-----------------------------------------------------------------------------
(* What the code that uses a configuration relies on. *)

AllRules(c) == ToSet(c.default_rules) \cup UNION {ToSet(p.rules) : p \in Range(c.wifi_profiles)}

\* The matcher does for every domain pattern what the pattern says.
PatternsMean(c, domains) ==
  \A r \in AllRules(c) :
    r.match_on.kind = "domain_pattern" => MatcherMeans(r.match_on.value, domains)

\* The rules that are installed together, and tracked by their names.
RuleLists(c) == {c.default_rules} \cup {p.rules : p \in Range(c.wifi_profiles)}

NamesDistinct(rules) == \A i, j \in DOMAIN rules : rules[i].name = rules[j].name => i = j
===============================================================================
