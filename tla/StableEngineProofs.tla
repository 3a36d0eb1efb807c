-------------------------- MODULE StableEngineProofs --------------------------
(***************************************************************************)
(* The tracking of routes and policy rules is right whatever requests      *)
(* fail, whatever the kernel drops and however reloads and events          *)
(* interleave, for all configurations that agree with each other; the     *)
(* startup cleanup is complete, and so is what handlers do.                *)
(***************************************************************************)
EXTENDS StableEngine, EngineProofs

\* Entries of the kernel come from rules.
RouteShape ==
  \A x \in routes : \E r \in AllRules :
    r.dest # Unresolved /\ x.dest = r.dest /\ x.metric = r.priority /\ x.dev = r.via

PolicyShape ==
  \A p \in policies : \E r \in AllRules :
    r.dest # Unresolved /\ p.dest = r.dest /\ p.priority = r.priority

\* active_routes is a map keyed by rule name.
NamedOnce == \A a, b \in active : a.rule_name = b.rule_name => a = b

\* What a queued operation may be about.  A removal names the table its rule is
\* tracked in for as long as the rule is tracked, by what is tracked in A.
OpOK(op, A) ==
  /\ op.kind = "default" => op.rule \in DefaultRules
  /\ op.kind = "profile" => op.rule \in ProfileRules
  /\ op.kind = "remove" =>
       /\ op.rule \in AllRules
       /\ \A a \in A : a.rule_name = op.rule.name => a.table_id = op.table

OpsOK == \A k \in DOMAIN todo : OpOK(todo[k], active)

\* A handler either applies or removes.
OneKind ==
  \A j, k \in DOMAIN todo : todo[j].kind = "remove" => todo[k].kind = "remove"

\* What is known between the two requests of an operation.
HalfOK ==
  half =>
    /\ cur.kind = "default" => ~is_route_active(cur.rule.name)
    /\ cur.kind = "remove" /\ ~rm.dry_run => policy_of(cur.rule, cur.table) \notin policies

\* A process that is not running, or that runs dry, has added nothing.
NothingNew ==
  (phase = "down" \/ rm.dry_run) => NewRoutes = {} /\ NewPolicies = {}

StableInv ==
  /\ RouteShape /\ PolicyShape
  /\ NamedOnce
  /\ OpsOK /\ OneKind /\ HalfOK
  /\ NothingNew
  /\ RoutesTracked /\ DefaultRouteOnce /\ PoliciesTracked

-----------------------------------------------------------------------------
(* Rules and operations *)

\* Rules of configurations, and that a destination or a name tells them apart.
LEMMA RuleFacts ==
  /\ AllRules \subseteq Rules
  /\ DefaultRules \subseteq AllRules /\ ProfileRules \subseteq AllRules
  /\ \A r, s \in AllRules : r.name = s.name => r = s
  /\ \A r, s \in AllRules : (r.dest = s.dest /\ r.dest # Unresolved) => r = s
  /\ \A r \in DefaultRules : r \notin ProfileRules
<1>1. DefaultRules \subseteq Rules
  BY ConfigFields DEF DefaultRules, ToSet
<1>2. ProfileRules \subseteq Rules
  BY ConfigFields DEF ProfileRules, ToSet
<1> QED
  BY <1>1, <1>2, StableRules DEF AllRules

LEMMA ConfigRules ==
  ASSUME NEW c \in Configs
  PROVE  /\ \A k \in DOMAIN c.default_rules : c.default_rules[k] \in DefaultRules
         /\ \A s \in DOMAIN c.wifi_profiles :
              \A k \in DOMAIN c.wifi_profiles[s] :
                c.wifi_profiles[s][k] \in ProfileRules
  BY DEF DefaultRules, ProfileRules, ToSet

LEMMA RulesMapNames ==
  ASSUME NEW c \in Configs, NEW n, NEW r \in rules_map(c, n)
  PROVE  r \in AllRules /\ r.name = n
<1>1. CASE r \in LastNamed(c.default_rules, n)
  BY <1>1, ConfigRules, RuleFacts DEF LastNamed
<1>2. ASSUME NEW s \in DOMAIN c.wifi_profiles, r \in LastNamed(c.wifi_profiles[s], n)
      PROVE  r \in AllRules /\ r.name = n
  BY <1>2, ConfigRules, RuleFacts DEF LastNamed
<1> QED
  BY <1>1, <1>2 DEF rules_map

\* The operation in progress is as good as any that is queued.
LEMMA CurrentOK ==
  ASSUME TypeInv, StableInv, todo # <<>>
  PROVE  OpOK(cur, active) /\ cur \in Ops /\ cur.rule \in AllRules
<1>1. cur \in Ops /\ cur = todo[1] /\ 1 \in DOMAIN todo
  BY CurrentOp, HeadTailProperties DEF cur, TypeInv, TypeOK
<1>2. OpOK(cur, active)
  BY <1>1 DEF StableInv, OpsOK
<1> QED
  BY <1>1, <1>2, RuleFacts DEF OpOK, Ops

LEMMA TailOps ==
  ASSUME TypeInv, StableInv, todo # <<>>, todo' = Tail(todo),
         active' \subseteq active \/ cur.kind # "remove"
  PROVE  OpsOK' /\ OneKind'
<1> DEFINE n == Len(todo)
<1>1. /\ n \in Nat /\ DOMAIN todo = 1 .. n /\ cur = todo[1] /\ 1 \in 1 .. n
      /\ \A k \in DOMAIN todo' : k + 1 \in 1 .. n /\ todo'[k] = todo[k + 1]
  <2>1. todo \in Seq(Ops) /\ Len(todo) > 0
    BY EmptySeq DEF TypeInv, TypeOK
  <2>2. Len(todo') = n - 1 /\ DOMAIN todo' = 1 .. n - 1
    BY <2>1, HeadTailProperties
  <2> QED
    BY <2>1, <2>2, HeadTailProperties DEF cur
<1> HIDE DEF n
<1>2. OneKind'
  BY <1>1 DEF StableInv, OneKind
<1>3. ASSUME NEW k \in DOMAIN todo'
      PROVE  OpOK(todo'[k], active')
  <2>1. OpOK(todo[k + 1], active)
    BY <1>1 DEF StableInv, OpsOK
  <2>2. cur.kind # "remove" => todo[k + 1].kind # "remove"
    BY <1>1 DEF StableInv, OneKind
  <2> QED
    BY <1>1, <2>1, <2>2 DEF OpOK
<1> QED
  BY <1>2, <1>3 DEF OpsOK

LEMMA ApplyOps ==
  ASSUME NEW i, NEW kind, NEW rules \in Seq(Rules), ApplyTo(i, kind, rules),
         \/ kind = "default" /\ \A k \in DOMAIN rules : rules[k] \in DefaultRules
         \/ kind = "profile" /\ \A k \in DOMAIN rules : rules[k] \in ProfileRules
  PROVE  OpsOK' /\ OneKind'
<1>1. /\ DOMAIN todo' = DOMAIN rules
      /\ \A k \in DOMAIN todo' : todo'[k].kind = kind /\ todo'[k].rule = rules[k]
  BY DEF ApplyTo, OpsFor
<1> QED
  BY <1>1 DEF OpsOK, OneKind, OpOK

LEMMA ApplyDefaultsOps ==
  ASSUME TypeInv, StableInv, NEW i, apply_default_rules(i), UNCHANGED active
  PROVE  OpsOK' /\ OneKind'
<1>1. CASE config.default_rules = <<>>
  BY <1>1 DEF apply_default_rules, StableInv, OpsOK, OneKind, OpOK
<1>2. CASE config.default_rules # <<>>
  BY <1>2, ConfigFields, ConfigRules, ApplyOps DEF apply_default_rules, TypeInv, TypeOK
<1> QED
  BY <1>1, <1>2

LEMMA ApplyRulesOps ==
  ASSUME TypeInv, StableInv, NEW i, NEW s, apply_rules_for_interface(i, s), UNCHANGED active
  PROVE  OpsOK' /\ OneKind'
<1>1. CASE s \in DOMAIN config.wifi_profiles
  BY <1>1, ConfigFields, ConfigRules, ApplyOps DEF apply_rules_for_interface, TypeInv, TypeOK
<1>2. CASE s \notin DOMAIN config.wifi_profiles
  BY <1>2, ApplyDefaultsOps DEF apply_rules_for_interface
<1> QED
  BY <1>1, <1>2

LEMMA RemoveOps ==
  ASSUME TypeInv, StableInv, NEW i \in Ifaces, handle_interface_down(i), UNCHANGED active
  PROVE  OpsOK' /\ OneKind'
<1>1. todo' \in Seq(Ops) /\ DOMAIN todo' = 1 .. Len(todo')
  BY RemovalsType
<1>2. ASSUME NEW k \in DOMAIN todo'
      PROVE  todo'[k].kind = "remove" /\ OpOK(todo'[k], active')
  <2>1. PICK a \in active :
          /\ todo'[k].kind = "remove"
          /\ todo'[k].rule \in rules_map(config, a.rule_name)
          /\ todo'[k].table = a.table_id
    BY <1>1, <1>2, RemovalsType
  <2>2. todo'[k].rule \in AllRules /\ todo'[k].rule.name = a.rule_name
    BY <2>1, RulesMapNames DEF TypeInv, TypeOK
  <2>3. \A b \in active : b.rule_name = a.rule_name => b = a
    BY DEF StableInv, NamedOnce
  <2> QED
    BY <2>1, <2>2, <2>3 DEF OpOK
<1> QED
  BY <1>2 DEF OpsOK, OneKind

-----------------------------------------------------------------------------
(* The kernel and the tracking *)

TrackInv ==
  /\ RouteShape /\ PolicyShape /\ NamedOnce /\ NothingNew
  /\ RoutesTracked /\ DefaultRouteOnce /\ PoliciesTracked

\* Routes that are tracked under one name are one route.
LEMMA OnceFromTracking ==
  TypeOK /\ RouteShape /\ NamedOnce /\ RoutesTracked /\ phase # "stopped"
    => DefaultRouteOnce
<1> SUFFICES ASSUME TypeOK, RouteShape, NamedOnce, RoutesTracked, phase # "stopped",
                    NEW x \in NewRoutes, NEW y \in NewRoutes, x.dest = y.dest,
                    NEW r \in DefaultRules, r.dest = x.dest
             PROVE  x = y
  BY DEF DefaultRouteOnce
<1>1. x \in Route /\ y \in Route /\ x \in routes /\ y \in routes
  BY DEF NewRoutes, TypeOK
<1>2. Tracked(r, x.table) /\ Tracked(r, y.table)
  BY DEF RoutesTracked
<1>3. x.table = y.table
  BY <1>2 DEF NamedOnce, Tracked
<1>4. x.metric = y.metric /\ x.dev = y.dev
  BY <1>1, RuleFacts DEF RouteShape
<1> QED
  BY <1>1, <1>3, <1>4 DEF Route

\* A policy rule towards the destination of r, in table t, is the one of r.
LEMMA PolicyOfRule ==
  ASSUME TypeOK, PolicyShape, NEW r \in AllRules, NEW p \in policies, p.dest = r.dest
  PROVE  p = policy_of(r, p.table)
<1>1. p.priority = r.priority
  BY RuleFacts DEF PolicyShape
<1> QED
  BY <1>1 DEF TypeOK, PolicyRule, policy_of

\* Between the two requests of a removal no policy rule is left of its rule in
\* its table, so only tracked ones are left of default rules.
LEMMA RemovingTracks ==
  ASSUME TypeInv, StableInv, half, cur.kind = "remove", faults = 0, phase # "stopped",
         NEW p \in NewPolicies, NEW r \in DefaultRules, p.dest = r.dest
  PROVE  Tracked(r, p.table) /\ (r = cur.rule => p.table # cur.table)
<1>1. p \in policies
  BY DEF NewPolicies
<1>2. Tracked(r, p.table) \/ InFlight(r, p.table)
  BY DEF StableInv, PoliciesTracked
<1>3. p = policy_of(r, p.table)
  BY <1>1, PolicyOfRule, RuleFacts DEF TypeInv, StableInv
<1>4. ~rm.dry_run
  BY DEF StableInv, NothingNew
<1>5. policy_of(cur.rule, cur.table) \notin policies
  BY <1>4 DEF StableInv, HalfOK
<1> QED
  BY <1>1, <1>2, <1>3, <1>5 DEF InFlight

\* A step that adds nothing to the kernel and leaves the tracking alone.
LEMMA KernelShrinks ==
  ASSUME TypeInv, StableInv, TypeOK',
         routes' \subseteq routes, policies' \subseteq policies,
         NewRoutes' \subseteq NewRoutes, NewPolicies' \subseteq NewPolicies,
         UNCHANGED active,
         phase # "stopped" \/ phase' = "stopped",
         (phase' = "down" \/ rm'.dry_run) => (phase = "down" \/ rm.dry_run),
         faults' = 0 => faults = 0,
         \/ ~half \/ UNCHANGED <<half, todo>>
         \/ cur.kind = "remove" \/ faults' # 0
  PROVE  TrackInv'
<1>1. RouteShape' /\ PolicyShape' /\ NamedOnce' /\ NothingNew'
  BY DEF StableInv, RouteShape, PolicyShape, NamedOnce, NothingNew
<1>2. RoutesTracked'
  BY DEF StableInv, RoutesTracked, Tracked
<1>3. DefaultRouteOnce'
  BY DEF StableInv, DefaultRouteOnce
<1>4. PoliciesTracked'
  <2> SUFFICES ASSUME faults' = 0, phase' # "stopped",
                      NEW p \in NewPolicies', NEW r \in DefaultRules, p.dest = r.dest
               PROVE  (Tracked(r, p.table) \/ InFlight(r, p.table))'
    BY DEF PoliciesTracked
  <2>1. Tracked(r, p.table) \/ InFlight(r, p.table)
    BY DEF StableInv, PoliciesTracked
  <2>2. CASE Tracked(r, p.table)
    BY <2>2 DEF Tracked
  <2>3. CASE InFlight(r, p.table) /\ UNCHANGED <<half, todo>>
    BY <2>3 DEF InFlight, cur
  <2>4. CASE half /\ cur.kind = "remove"
    BY <2>4, RemovingTracks DEF Tracked
  <2> QED
    BY <2>1, <2>2, <2>3, <2>4 DEF InFlight
<1> QED
  BY <1>1, <1>2, <1>3, <1>4 DEF TrackInv

\* Nothing of the kernel changes.
LEMMA KernelSame ==
  ASSUME UNCHANGED kernelVars
  PROVE  /\ routes' \subseteq routes /\ policies' \subseteq policies
         /\ NewRoutes' \subseteq NewRoutes /\ NewPolicies' \subseteq NewPolicies
  BY DEF kernelVars, NewRoutes, NewPolicies

\* How SetRoutes and SetPolicies change what is new.
LEMMA SetRoutesNew ==
  ASSUME NEW S, SetRoutes(S), TypeOK, UNCHANGED policies
  PROVE  /\ routes' = S
         /\ NewRoutes' = S \ old.routes
         /\ NewPolicies' = NewPolicies
  BY DEF SetRoutes, NewRoutes, NewPolicies, TypeOK

LEMMA SetPoliciesNew ==
  ASSUME NEW S, SetPolicies(S), TypeOK, UNCHANGED routes
  PROVE  /\ policies' = S
         /\ NewPolicies' = S \ old.policies
         /\ NewRoutes' = NewRoutes
  BY DEF SetPolicies, NewRoutes, NewPolicies, TypeOK

-----------------------------------------------------------------------------
(* Rule operations *)

LEMMA StableAddPolicyRule ==
  ASSUME TypeInv, StableInv, TypeOK', AddPolicyRule, half'
  PROVE  StableInv'
<1> DEFINE p == policy_of(cur.rule, cur.table)
<1>0. /\ Working /\ ~half /\ Applying /\ cur.rule.dest # Unresolved
      /\ IF rm.dry_run THEN UNCHANGED <<policies, old>> ELSE SetPolicies(policies \cup {p})
      /\ UNCHANGED <<todo, phase, rm, active, routes, faults>>
  BY DEF AddPolicyRule, OpDone, dispatcherVars, TypeInv, TypeOK
<1>1. todo # <<>> /\ cur' = cur /\ phase \in {"initial", "loop"}
  BY <1>0 DEF Working, cur
<1>2. cur.rule \in AllRules /\ cur \in Ops
  BY <1>1, CurrentOK
<1>3. /\ NewRoutes' = NewRoutes
      /\ policies' \subseteq policies \cup {p}
      /\ NewPolicies' \subseteq NewPolicies \cup {p}
      /\ rm.dry_run => NewPolicies' = NewPolicies
  <2>1. CASE rm.dry_run
    BY <1>0, <2>1 DEF NewRoutes, NewPolicies
  <2>2. CASE ~rm.dry_run
    BY <1>0, <2>2, SetPoliciesNew DEF NewPolicies, TypeInv
  <2> QED
    BY <2>1, <2>2
<1>4. OpsOK' /\ OneKind'
  BY <1>0 DEF StableInv, OpsOK, OneKind
<1>5. HalfOK'
  BY <1>0, <1>1 DEF HalfOK, Applying, is_route_active
<1>6. RouteShape' /\ NamedOnce'
  BY <1>0 DEF StableInv, RouteShape, NamedOnce
<1>7. PolicyShape'
  BY <1>0, <1>2, <1>3 DEF StableInv, PolicyShape, policy_of
<1>8. NothingNew'
  BY <1>0, <1>1, <1>3 DEF StableInv, NothingNew
<1>9. RoutesTracked' /\ DefaultRouteOnce'
  BY <1>0, <1>3 DEF StableInv, RoutesTracked, DefaultRouteOnce, Tracked
<1>10. PoliciesTracked'
  <2> SUFFICES ASSUME faults = 0,
                      NEW q \in NewPolicies', NEW r \in DefaultRules, q.dest = r.dest
               PROVE  (Tracked(r, q.table) \/ InFlight(r, q.table))'
    BY <1>0 DEF PoliciesTracked
  <2>1. CASE q \in NewPolicies
    BY <1>0, <1>1, <2>1 DEF StableInv, PoliciesTracked, InFlight, Tracked
  <2>2. CASE q = p
    <3>1. r = cur.rule /\ q.table = cur.table
      BY <1>0, <1>2, <2>2, RuleFacts DEF policy_of
    <3> QED
      BY <1>0, <1>1, <3>1 DEF InFlight
  <2> QED
    BY <1>3, <2>1, <2>2
<1> QED
  BY <1>4, <1>5, <1>6, <1>7, <1>8, <1>9, <1>10 DEF StableInv

\* The second request of an application succeeds, or finds the route there.
LEMMA StableAddRoute ==
  ASSUME TypeInv, StableInv, TypeOK', AddRoute, UNCHANGED faults
  PROVE  StableInv'
<1> DEFINE rt == route_of(cur.rule, cur.table)
<1>0. /\ Working /\ half /\ cur.kind # "remove"
      /\ IF rm.dry_run \/ SameRoute(rt) # {} THEN UNCHANGED <<routes, old>>
         ELSE SetRoutes(routes \cup {rt})
      /\ active' = track_active_route(cur.rule, cur.table)
      /\ todo' = Tail(todo) /\ ~half'
      /\ UNCHANGED <<phase, rm, policies>>
  BY DEF AddRoute, OpDone, Fault, dispatcherVars, TypeInv, TypeOK
<1>1. todo # <<>> /\ phase \in {"initial", "loop"}
  BY <1>0 DEF Working
<1>2. /\ cur.rule \in AllRules /\ cur \in Ops /\ OpOK(cur, active)
      /\ cur.rule.dest # Unresolved
  BY <1>0, <1>1, CurrentOK DEF TypeInv
<1>3. /\ NewPolicies' = NewPolicies
      /\ routes' \subseteq routes \cup {rt}
      /\ NewRoutes' \subseteq NewRoutes \cup {rt}
      /\ rm.dry_run => NewRoutes' = NewRoutes
  <2>1. CASE rm.dry_run \/ SameRoute(rt) # {}
    BY <1>0, <2>1 DEF NewRoutes, NewPolicies
  <2>2. CASE ~(rm.dry_run \/ SameRoute(rt) # {})
    BY <1>0, <2>2, SetRoutesNew DEF NewRoutes, TypeInv
  <2> QED
    BY <2>1, <2>2
<1>4. OpsOK' /\ OneKind'
  BY <1>0, <1>1, TailOps
<1>5. HalfOK'
  BY <1>0 DEF HalfOK
<1>6. RouteShape'
  BY <1>2, <1>3 DEF StableInv, RouteShape, route_of
<1>7. PolicyShape' /\ NothingNew'
  BY <1>0, <1>1, <1>3 DEF StableInv, PolicyShape, NothingNew
<1>8. NamedOnce'
  BY <1>0 DEF StableInv, NamedOnce, track_active_route, untrack_active_route
<1>9. \A r, t : (r = cur.rule /\ t = cur.table) => Tracked(r, t)'
  BY <1>0 DEF Tracked, track_active_route
<1>10. ASSUME NEW r \in DefaultRules, NEW t, Tracked(r, t), r # cur.rule
       PROVE  Tracked(r, t)'
  <2>1. r.name # cur.rule.name
    BY <1>2, <1>10, RuleFacts
  <2> QED
    BY <1>0, <1>10, <2>1 DEF Tracked, track_active_route, untrack_active_route
<1>11. \A r \in DefaultRules : r = cur.rule => \A t : ~Tracked(r, t)
  BY <1>0, <1>2, RuleFacts DEF StableInv, HalfOK, OpOK, Ops, Tracked, is_route_active
<1>12. RoutesTracked'
  <2> SUFFICES ASSUME NEW x \in NewRoutes', NEW r \in DefaultRules, x.dest = r.dest
               PROVE  x.dev = r.via /\ Tracked(r, x.table)'
    BY DEF RoutesTracked, Tracked
  <2>1. CASE x \in NewRoutes
    <3>1. x.dev = r.via /\ Tracked(r, x.table)
      BY <1>1, <2>1 DEF StableInv, RoutesTracked
    <3> QED
      BY <3>1, <1>10, <1>11
  <2>2. CASE x = rt
    <3>1. r = cur.rule /\ x.table = cur.table /\ x.dev = r.via
      BY <1>2, <2>2, RuleFacts DEF route_of
    <3> QED
      BY <3>1, <1>9 DEF Tracked
  <2> QED
    BY <1>3, <2>1, <2>2
<1>13. PoliciesTracked'
  <2> SUFFICES ASSUME faults = 0,
                      NEW q \in NewPolicies, NEW r \in DefaultRules, q.dest = r.dest
               PROVE  Tracked(r, q.table)'
    BY <1>3 DEF PoliciesTracked, Tracked
  <2>1. Tracked(r, q.table) \/ (cur.rule = r /\ cur.table = q.table)
    BY <1>1 DEF StableInv, PoliciesTracked, InFlight
  <2> QED
    BY <2>1, <1>9, <1>10, <1>11 DEF Tracked
<1>14. DefaultRouteOnce'
  <2>1. TypeOK' /\ (phase # "stopped")'
    BY <1>0, <1>1
  <2> QED
    BY <2>1, <1>6, <1>8, <1>12, OnceFromTracking, PTL
<1> QED
  BY <1>4, <1>5, <1>6, <1>7, <1>8, <1>12, <1>13, <1>14 DEF StableInv

LEMMA StableRemovePolicyRule ==
  ASSUME TypeInv, StableInv, TypeOK', RemovePolicyRule, half'
  PROVE  StableInv'
<1> DEFINE p == policy_of(cur.rule, cur.table)
<1>0. /\ Working /\ ~half /\ cur.kind = "remove"
      /\ IF rm.dry_run THEN UNCHANGED <<policies, old>> ELSE SetPolicies(policies \ {p})
      /\ UNCHANGED <<todo, phase, rm, active, routes, faults>>
  BY DEF RemovePolicyRule, OpDone, dispatcherVars, TypeInv, TypeOK
<1>1. cur' = cur /\ phase \in {"initial", "loop"}
  BY <1>0 DEF Working, cur
<1>2. /\ NewRoutes' = NewRoutes
      /\ policies' \subseteq policies
      /\ NewPolicies' \subseteq NewPolicies
      /\ ~rm.dry_run => p \notin policies'
  <2>1. CASE rm.dry_run
    BY <1>0, <2>1 DEF NewRoutes, NewPolicies
  <2>2. CASE ~rm.dry_run
    BY <1>0, <2>2, SetPoliciesNew DEF NewPolicies, TypeInv
  <2> QED
    BY <2>1, <2>2
<1>3. TrackInv'
  BY <1>0, <1>1, <1>2, KernelShrinks
<1>4. OpsOK' /\ OneKind'
  BY <1>0 DEF StableInv, OpsOK, OneKind
<1>5. HalfOK'
  BY <1>0, <1>1, <1>2 DEF HalfOK
<1> QED
  BY <1>3, <1>4, <1>5 DEF StableInv, TrackInv

\* The routes of a table towards the destination of a rule all have its metric,
\* so the deletion of the lowest one deletes all of them.
LEMMA RemoveRouteTakesAll ==
  ASSUME TypeInv, StableInv, NEW r \in AllRules, r.dest # Unresolved, NEW t,
         NEW x \in RoutesTo(r.dest, t)
  PROVE  ~\E y \in RoutesTo(r.dest, t) : y.metric < x.metric
<1>1. \A y \in RoutesTo(r.dest, t) : y.metric = r.priority
  BY RuleFacts DEF RoutesTo, StableInv, RouteShape
<1>2. r.priority \in Nat
  BY RuleFacts, RuleFields
<1> QED
  BY <1>1, <1>2

LEMMA StableRemoveRoute ==
  ASSUME TypeInv, StableInv, TypeOK', RemoveRoute,
         active' = untrack_active_route(cur.rule.name), UNCHANGED faults,
         IF rm.dry_run THEN UNCHANGED <<routes, old>>
         ELSE SetRoutes({x \in routes : x \in RoutesTo(cur.rule.dest, cur.table) =>
                           \E y \in RoutesTo(cur.rule.dest, cur.table) : y.metric < x.metric})
  PROVE  StableInv'
<1>0. /\ Working /\ half /\ cur.kind = "remove"
      /\ todo' = Tail(todo) /\ ~half'
      /\ UNCHANGED <<phase, rm, policies>>
  BY DEF RemoveRoute, OpDone, dispatcherVars
<1>1. todo # <<>> /\ phase \in {"initial", "loop"}
  BY <1>0 DEF Working
<1>2. /\ cur.rule \in AllRules /\ OpOK(cur, active)
      /\ cur.rule.dest # Unresolved
  BY <1>0, <1>1, CurrentOK DEF TypeInv
<1>3. /\ NewPolicies' = NewPolicies
      /\ routes' \subseteq routes
      /\ NewRoutes' \subseteq NewRoutes
      /\ \A x \in NewRoutes' : x \notin RoutesTo(cur.rule.dest, cur.table)
  <2>1. CASE rm.dry_run
    <3>1. NewRoutes = {} /\ UNCHANGED <<routes, old>>
      BY <2>1 DEF StableInv, NothingNew
    <3> QED
      BY <1>0, <3>1 DEF NewRoutes, NewPolicies
  <2>2. CASE ~rm.dry_run
    <3> DEFINE rts == RoutesTo(cur.rule.dest, cur.table)
               left == {x \in routes : x \in rts => \E y \in rts : y.metric < x.metric}
    <3>1. \A x \in left : x \notin rts
      BY <1>2, RemoveRouteTakesAll
    <3>2. /\ NewPolicies' = NewPolicies /\ routes' = left
          /\ NewRoutes' = left \ old.routes
      BY <1>0, <2>2, SetRoutesNew DEF TypeInv
    <3> HIDE DEF rts
    <3> QED
      BY <3>1, <3>2 DEF NewRoutes, rts
  <2> QED
    BY <2>1, <2>2
<1>4. active' \subseteq active
  BY DEF untrack_active_route
<1>5. OpsOK' /\ OneKind'
  BY <1>0, <1>1, <1>4, TailOps
<1>6. HalfOK'
  BY <1>0 DEF HalfOK
<1>7. RouteShape' /\ PolicyShape' /\ NothingNew' /\ NamedOnce' /\ DefaultRouteOnce'
  BY <1>0, <1>3, <1>4
     DEF StableInv, RouteShape, PolicyShape, NothingNew, NamedOnce, DefaultRouteOnce
<1>8. ASSUME NEW r \in DefaultRules, NEW t, Tracked(r, t), r = cur.rule => t # cur.table
      PROVE  Tracked(r, t)'
  <2>1. r = cur.rule => t = cur.table
    BY <1>0, <1>2, <1>8 DEF OpOK, Tracked
  <2>2. r.name # cur.rule.name
    BY <1>2, <1>8, <2>1, RuleFacts
  <2> QED
    BY <1>8, <2>2 DEF Tracked, untrack_active_route
<1>9. RoutesTracked'
  <2> SUFFICES ASSUME NEW x \in NewRoutes', NEW r \in DefaultRules, x.dest = r.dest
               PROVE  x.dev = r.via /\ Tracked(r, x.table)'
    BY DEF RoutesTracked, Tracked
  <2>1. x.dev = r.via /\ Tracked(r, x.table) /\ x \in routes
    BY <1>1, <1>3 DEF StableInv, RoutesTracked, NewRoutes
  <2>2. r = cur.rule => x.table # cur.table
    BY <1>3, <2>1 DEF RoutesTo
  <2> QED
    BY <1>8, <2>1, <2>2
<1>10. PoliciesTracked'
  <2> SUFFICES ASSUME faults = 0,
                      NEW q \in NewPolicies, NEW r \in DefaultRules, q.dest = r.dest
               PROVE  Tracked(r, q.table)'
    BY <1>3 DEF PoliciesTracked, Tracked
  <2> QED
    BY <1>0, <1>1, <1>8, RemovingTracks
<1> QED
  BY <1>5, <1>6, <1>7, <1>9, <1>10 DEF StableInv

\* An operation that ends without its second request, or whose request fails.
LEMMA StableOpEnds ==
  ASSUME TypeInv, StableInv, TypeOK', todo # <<>>, OpDone,
         UNCHANGED <<active, kernelVars, phase, rm>>,
         (UNCHANGED faults /\ (~half \/ cur.kind = "remove")) \/ Fault
  PROVE  StableInv'
<1>1. OpsOK' /\ OneKind'
  BY TailOps DEF OpDone
<1>2. HalfOK'
  BY DEF OpDone, HalfOK
<1>3. TrackInv'
  <2>1. Fault => faults' # 0
    BY DEF Fault, TypeInv, TypeOK
  <2>2. phase # "stopped" \/ phase' = "stopped"
    OBVIOUS
  <2> QED
    BY <2>1, <2>2, KernelSame, KernelShrinks
<1> QED
  BY <1>1, <1>2, <1>3 DEF StableInv, TrackInv

LEMMA StableRuleOperation ==
  ASSUME TypeInv, StableInv, TypeOK', RuleOperation
  PROVE  StableInv'
<1> USE DEF dispatcherVars, kernelVars
<1>0. todo # <<>>
  BY DEF RuleOperation, SkipActive, RejectUnresolved, AddPolicyRule, AddRoute,
         RemovePolicyRule, RemoveRoute, Working
<1>1. CASE SkipActive
  BY <1>0, <1>1, StableOpEnds DEF SkipActive
<1>2. CASE RejectUnresolved
  BY <1>0, <1>2, StableOpEnds DEF RejectUnresolved
<1>3. CASE AddPolicyRule
  <2>1. CASE half'
    BY <1>3, <2>1, StableAddPolicyRule
  <2>2. CASE ~half'
    BY <1>0, <1>3, <2>2, StableOpEnds DEF AddPolicyRule
  <2> QED
    BY <2>1, <2>2
<1>4. CASE AddRoute
  <2>1. CASE UNCHANGED faults
    BY <1>4, <2>1, StableAddRoute
  <2>2. CASE ~UNCHANGED faults
    BY <1>0, <1>4, <2>2, StableOpEnds DEF AddRoute
  <2> QED
    BY <2>1, <2>2
<1>5. CASE RemovePolicyRule
  <2>1. CASE half'
    BY <1>5, <2>1, StableRemovePolicyRule
  <2>2. CASE ~half'
    BY <1>0, <1>5, <2>2, StableOpEnds DEF RemovePolicyRule
  <2> QED
    BY <2>1, <2>2
<1>6. CASE RemoveRoute
  <2>1. CASE UNCHANGED <<routes, old, active>> /\ (Fault \/ UNCHANGED faults)
    BY <1>0, <1>6, <2>1, StableOpEnds DEF RemoveRoute
  <2>2. CASE /\ IF rm.dry_run THEN UNCHANGED <<routes, old>>
                ELSE SetRoutes({x \in routes : x \in RoutesTo(cur.rule.dest, cur.table) =>
                       \E y \in RoutesTo(cur.rule.dest, cur.table) : y.metric < x.metric})
             /\ active' = untrack_active_route(cur.rule.name)
             /\ UNCHANGED faults
    BY <1>6, <2>2, StableRemoveRoute
  <2> QED
    BY <1>6, <2>1, <2>2 DEF RemoveRoute
<1> QED
  BY <1>1, <1>2, <1>3, <1>4, <1>5, <1>6 DEF RuleOperation

-----------------------------------------------------------------------------
(* Events and the life of the process *)

LEMMA StableHandleEvent ==
  ASSUME TypeInv, StableInv, TypeOK', HandleEvent
  PROVE  StableInv'
<1>1. PICK i \in Ifaces :
        \/ InterfaceUp(i) \/ InterfaceDown(i) \/ InterfaceRemoved(i)
        \/ WifiDisconnected(i) \/ AddressChanged(i)
        \/ \E s \in Ssids : WifiConnected(i, s)
  BY DEF HandleEvent
<1>2. /\ Listening /\ UNCHANGED <<phase, rm, half, active, kernelVars, faults>>
  BY <1>1 DEF InterfaceUp, InterfaceDown, InterfaceRemoved, WifiDisconnected,
              AddressChanged, WifiConnected, Handle
<1>3. ~half
  BY <1>2 DEF Listening, TypeInv
<1>4. TrackInv'
  BY <1>2, <1>3, KernelSame, KernelShrinks DEF Listening
<1>5. OpsOK' /\ OneKind'
  <2>0. UNCHANGED todo => OpsOK' /\ OneKind'
    BY <1>2 DEF StableInv, OpsOK, OneKind
  <2>1. CASE InterfaceUp(i)
    BY <1>2, <2>0, <2>1, ApplyDefaultsOps DEF InterfaceUp
  <2>2. CASE InterfaceDown(i) \/ InterfaceRemoved(i)
    BY <1>2, <2>2, RemoveOps DEF InterfaceDown, InterfaceRemoved
  <2>3. CASE WifiDisconnected(i)
    BY <1>2, <2>3, ApplyDefaultsOps DEF WifiDisconnected
  <2>4. CASE AddressChanged(i)
    BY <1>2, <2>4, ApplyRulesOps DEF AddressChanged
  <2>5. CASE \E s \in Ssids : WifiConnected(i, s)
    BY <1>2, <2>5, ApplyRulesOps DEF WifiConnected
  <2> QED
    BY <1>1, <2>1, <2>2, <2>3, <2>4, <2>5
<1>6. HalfOK'
  BY <1>2, <1>3 DEF HalfOK
<1> QED
  BY <1>4, <1>5, <1>6 DEF StableInv, TrackInv

\* A step that neither adds to the kernel nor touches tracking and operations.
LEMMA StableQuiet ==
  ASSUME TypeInv, StableInv, TypeOK',
         routes' \subseteq routes, UNCHANGED <<active, todo, half>>,
         policies' \subseteq policies,
         NewRoutes' \subseteq NewRoutes, NewPolicies' \subseteq NewPolicies,
         phase # "stopped" \/ phase' = "stopped",
         (phase' = "down" \/ rm'.dry_run) => (phase = "down" \/ rm.dry_run),
         rm.dry_run => rm'.dry_run \/ ~half,
         faults' = 0 => faults = 0
  PROVE  StableInv'
<1>1. TrackInv'
  BY KernelShrinks
<1>2. OpsOK' /\ OneKind'
  BY DEF StableInv, OpsOK, OneKind
<1>3. HalfOK'
  BY DEF StableInv, HalfOK, cur, is_route_active
<1> QED
  BY <1>1, <1>2, <1>3 DEF StableInv, TrackInv

\* A new process, and the end of one: nothing is tracked and nothing queued.
LEMMA StableFresh ==
  ASSUME TypeInv, StableInv, TypeOK',
         routes' \subseteq routes, policies' \subseteq policies,
         NewRoutes' \subseteq NewRoutes, NewPolicies' \subseteq NewPolicies,
         active' = {}, todo' = <<>>, ~half',
         phase' = "stopped" \/ (NewRoutes' = {} /\ NewPolicies' = {}),
         (phase' = "down" \/ rm'.dry_run) => NewRoutes' = {} /\ NewPolicies' = {}
  PROVE  StableInv'
<1>1. RouteShape' /\ PolicyShape' /\ NamedOnce' /\ DefaultRouteOnce'
  BY DEF StableInv, RouteShape, PolicyShape, NamedOnce, DefaultRouteOnce
<1>2. OpsOK' /\ OneKind' /\ HalfOK'
  BY DEF OpsOK, OneKind, HalfOK
<1>3. RoutesTracked' /\ PoliciesTracked' /\ NothingNew'
  BY DEF RoutesTracked, PoliciesTracked, NothingNew
<1> QED
  BY <1>1, <1>2, <1>3 DEF StableInv

LEMMA StableLifecycle ==
  ASSUME TypeInv, StableInv, TypeOK',
         \/ \E c \in Configs : Boot(c) \/ UpdateConfig(c)
         \/ \E known \in SUBSET Ifaces : \E up \in SUBSET known : Start(known, up)
         \/ FlushTables \/ CollectInitial \/ ApplyInitial \/ EnterLoop
         \/ Stop \/ Exit
         \/ \E i \in Ifaces : KernelDropsRoutes(i)
  PROVE  StableInv'
<1> USE DEF dispatcherVars, workVars
<1>1. ASSUME NEW c \in Configs, Boot(c)
      PROVE  StableInv'
  <2>1. NewRoutes = {} /\ NewPolicies = {}
    BY <1>1 DEF Boot, StableInv, NothingNew
  <2>2. UNCHANGED kernelVars /\ active' = {} /\ todo' = <<>> /\ ~half'
    BY <1>1 DEF Boot, Idle
  <2> QED
    BY <2>1, <2>2, KernelSame, StableFresh
<1>2. ASSUME NEW c \in Configs, UpdateConfig(c)
      PROVE  StableInv'
  BY <1>2, KernelSame, StableQuiet DEF UpdateConfig
<1>3. ASSUME NEW known \in SUBSET Ifaces, NEW up \in SUBSET known, Start(known, up)
      PROVE  StableInv'
  BY <1>3, KernelSame, StableQuiet DEF Start
<1>4. CASE FlushTables
  <2>1. /\ phase = "cleanup" /\ UNCHANGED <<phase, rm, active, todo, half>>
        /\ faults' = 0 => faults = 0
    BY <1>4 DEF FlushTables, Fault, TypeInv, TypeOK
  <2>2. /\ routes' \subseteq routes /\ policies' \subseteq policies
        /\ NewRoutes' \subseteq NewRoutes /\ NewPolicies' \subseteq NewPolicies
    <3>1. CASE rm.dry_run
      BY <1>4, <3>1, KernelSame DEF FlushTables
    <3>2. CASE ~rm.dry_run
      BY <1>4, <3>2 DEF FlushTables, NewRoutes, NewPolicies
    <3> QED
      BY <3>1, <3>2
  <2> QED
    BY <2>1, <2>2, StableQuiet
<1>5. CASE CollectInitial
  BY <1>5, KernelSame, StableQuiet DEF CollectInitial
<1>6. CASE ApplyInitial
  <2>1. /\ phase = "initial" /\ ~half
        /\ UNCHANGED <<phase, rm, half, active, kernelVars, faults>>
    BY <1>6 DEF ApplyInitial, TypeInv
  <2>2. TrackInv'
    BY <2>1, KernelSame, KernelShrinks
  <2>3. OpsOK' /\ OneKind'
    BY <1>6, <2>1, ApplyDefaultsOps DEF ApplyInitial
  <2>4. HalfOK'
    BY <2>1 DEF HalfOK
  <2> QED
    BY <2>2, <2>3, <2>4 DEF StableInv, TrackInv
<1>7. CASE EnterLoop
  BY <1>7, KernelSame, StableQuiet DEF EnterLoop
<1>8. CASE Stop
  <2>1. /\ phase' = "stopped" /\ active' = {} /\ todo' = <<>> /\ ~half'
        /\ UNCHANGED kernelVars /\ UNCHANGED rm
    BY <1>8 DEF Stop, Listening, TypeInv
  <2>2. /\ routes' \subseteq routes /\ policies' \subseteq policies
        /\ NewRoutes' \subseteq NewRoutes /\ NewPolicies' \subseteq NewPolicies
    BY <2>1, KernelSame
  <2>3. (phase' = "down" \/ rm'.dry_run) => NewRoutes' = {} /\ NewPolicies' = {}
    BY <2>1, <2>2 DEF StableInv, NothingNew
  <2>4. phase' = "stopped" \/ (NewRoutes' = {} /\ NewPolicies' = {})
    BY <2>1
  <2> HIDE DEF dispatcherVars, workVars
  <2> QED
    BY <2>1, <2>2, <2>3, <2>4, StableFresh
<1>9. CASE Exit
  <2>1. UNCHANGED <<routes, policies>> /\ NewRoutes' = {} /\ NewPolicies' = {}
    BY <1>9 DEF Exit, NewRoutes, NewPolicies
  <2>2. active' = {} /\ todo' = <<>> /\ ~half'
    BY <1>9 DEF Exit, Idle
  <2> QED
    BY <2>1, <2>2, StableFresh
<1>10. ASSUME NEW i \in Ifaces, KernelDropsRoutes(i)
       PROVE  StableInv'
  <2>1. UNCHANGED <<phase, rm, active, todo, half, policies, faults>>
    BY <1>10 DEF KernelDropsRoutes
  <2>2. /\ routes' \subseteq routes /\ NewRoutes' \subseteq NewRoutes
        /\ NewPolicies' = NewPolicies
    BY <1>10, <2>1, SetRoutesNew DEF KernelDropsRoutes, NewRoutes, TypeInv
  <2>3. /\ policies' \subseteq policies /\ NewPolicies' \subseteq NewPolicies
        /\ phase # "stopped" \/ phase' = "stopped"
        /\ UNCHANGED <<active, todo, half>>
    BY <2>1, <2>2
  <2> HIDE DEF dispatcherVars, workVars
  <2> QED
    BY <2>1, <2>2, <2>3, StableQuiet
<1> QED
  BY <1>1, <1>2, <1>3, <1>4, <1>5, <1>6, <1>7, <1>8, <1>9, <1>10

LEMMA StableInit == Init => StableInv
  BY DEF Init, StableInv, RouteShape, PolicyShape, NamedOnce, OpsOK, OneKind, HalfOK,
         NothingNew, NewRoutes, NewPolicies, RoutesTracked, DefaultRouteOnce,
         PoliciesTracked

LEMMA StableNext == TypeInv /\ TypeInv' /\ StableInv /\ [Next]_vars => StableInv'
<1> SUFFICES ASSUME TypeInv, TypeInv', StableInv, [Next]_vars PROVE StableInv'
  OBVIOUS
<1>0. TypeOK'
  BY DEF TypeInv
<1>1. CASE Next
  BY <1>0, <1>1, StableRuleOperation, StableHandleEvent, StableLifecycle DEF Next
<1>2. CASE UNCHANGED vars
  <2>1. UNCHANGED <<phase, rm, active, todo, half, kernelVars, faults>>
    BY <1>2 DEF vars, dispatcherVars, workVars
  <2> QED
    BY <1>0, <2>1, KernelSame, StableQuiet
<1> QED
  BY <1>1, <1>2

-----------------------------------------------------------------------------
(* The theorems *)

THEOREM StableInvariance == Spec => []StableInv
  BY StableInit, StableNext, TypeInvariance, PTL DEF Spec

\* The executor never forgets a route it added for a default rule.
THEOREM RoutesStayTracked == Spec => []RoutesTracked
<1>1. StableInv => RoutesTracked
  BY DEF StableInv
<1> QED
  BY <1>1, StableInvariance, PTL

\* The routes of a default rule are never in two tables, not even when stop()
\* has cleared the tracking.
THEOREM DefaultRoutesOnce == Spec => []DefaultRouteOnce
<1>1. StableInv => DefaultRouteOnce
  BY DEF StableInv
<1> QED
  BY <1>1, StableInvariance, PTL

\* Without failed requests, the policy rule of a default rule is in the table
\* the rule is tracked in.
THEOREM PoliciesStayTracked == Spec => []PoliciesTracked
<1>1. StableInv => PoliciesTracked
  BY DEF StableInv
<1> QED
  BY <1>1, StableInvariance, PTL

-----------------------------------------------------------------------------
(* The clean slate *)

\* The tables that interfaces get, whatever configurations and interfaces come.
InWindow(t) ==
  rm.base_table_id <= t /\ t < rm.base_table_id + Cardinality(Ifaces)

QueuedIn == \A k \in DOMAIN todo : todo[k].kind # "remove" => InWindow(todo[k].table)

\* All kernel entries, those of earlier processes too, are in these tables, because
\* every configuration has the same base.
WindowInv ==
  /\ rm.base_table_id = config.table_id_start
  /\ \A p \in policies : InWindow(p.table)
  /\ \A x \in routes : InWindow(x.table)
  /\ QueuedIn

\* What a cleanup has visited holds nothing old.
OldFrom(t) ==
  /\ \A p \in old.policies : p.table >= t
  /\ \A x \in old.routes : x.dest \in V4Dests => x.table >= t

SlateInv ==
  /\ phase = "init" => flushed = 0
  /\ (phase = "cleanup" /\ faults = 0 /\ ~rm.dry_run) => OldFrom(rm.base_table_id + flushed)
  /\ CleanSlate

LEMMA WindowFacts ==
  ASSUME TypeInv
  PROVE  /\ rm.base_table_id \in Nat /\ rm.dry_run \in BOOLEAN
         /\ Cardinality(Ifaces) \in Nat /\ Cardinality(Ifaces) <= MaxInterfaces
         /\ MaxInterfaces \in Nat /\ MaxTableId \in Nat
         /\ \A c, d \in Configs : c.table_id_start = d.table_id_start
         /\ \A c \in Configs : c.table_id_start \in Nat
         /\ \A c \in Configs : c.table_id_start + Cardinality(Ifaces) <= MaxTableId + 1
         /\ faults \in Nat /\ flushed \in 0 .. MaxInterfaces
         /\ \A p \in policies : p.table \in Nat
         /\ \A x \in routes : x.table \in Nat
         /\ old.policies \subseteq policies /\ old.routes \subseteq routes
<1>1. Cardinality(Ifaces) \in Nat
  BY FS_CardinalityType, RulesAssumption
<1>2. \A c \in Configs : c.table_id_start \in Nat
  BY ConfigFields
<1>3. /\ rm.base_table_id \in Nat /\ rm.dry_run \in BOOLEAN
      /\ faults \in Nat /\ flushed \in 0 .. MaxInterfaces
      /\ \A p \in policies : p.table \in Nat
      /\ \A x \in routes : x.table \in Nat
      /\ old.policies \subseteq policies /\ old.routes \subseteq routes
  BY BoundsAssumption DEF TypeInv, TypeOK, PolicyRule, Route, Tables
<1> QED
  BY <1>1, <1>2, <1>3, StableTables, BoundsAssumption

\* A step that adds nothing to the kernel.
LEMMA WindowQuiet ==
  ASSUME TypeInv, WindowInv, UNCHANGED rm,
         UNCHANGED config \/ config' \in Configs,
         policies' \subseteq policies, routes' \subseteq routes,
         QueuedIn'
  PROVE  WindowInv'
<1>1. config'.table_id_start = config.table_id_start
  BY WindowFacts DEF TypeInv, TypeOK
<1> QED
  BY <1>1 DEF WindowInv, InWindow

LEMMA QueuedTail ==
  ASSUME TypeInv, WindowInv, UNCHANGED rm, todo # <<>>, todo' = Tail(todo)
  PROVE  QueuedIn'
<1>1. todo \in Seq(Ops)
  BY DEF TypeInv, TypeOK
<1>2. \A k \in DOMAIN todo' : k + 1 \in DOMAIN todo /\ todo'[k] = todo[k + 1]
  BY <1>1
<1> QED
  BY <1>2 DEF WindowInv, QueuedIn, InWindow

LEMMA CurrentInWindow ==
  ASSUME TypeInv, WindowInv, todo # <<>>, cur.kind # "remove"
  PROVE  InWindow(cur.table)
<1>1. 1 \in DOMAIN todo /\ cur = todo[1]
  BY HeadTailProperties DEF cur, TypeInv, TypeOK
<1> QED
  BY <1>1 DEF WindowInv, QueuedIn

\* An interface's table is in the window, by IndexMap.
LEMMA QueuedApply ==
  ASSUME TypeInv, NEW i \in Ifaces, NEW kind \in {"default", "profile"},
         NEW rules \in Seq(Rules), ApplyTo(i, kind, rules), UNCHANGED rm
  PROVE  QueuedIn'
<1>1. IndexMap(indices', Ifaces) /\ i \in DOMAIN indices'
  BY AssignIndexMap, RulesAssumption DEF ApplyTo, TypeInv
<1>2. indices'[i] \in Nat /\ indices'[i] < Cardinality(Ifaces)
  BY <1>1, IndexModAssumption DEF IndexMap, IndexMax
<1>3. InWindow(rm.base_table_id + indices'[i])
  BY <1>2, WindowFacts DEF InWindow
<1>4. \A k \in DOMAIN todo' : todo'[k].table = rm.base_table_id + indices'[i]
  BY DEF ApplyTo, OpsFor
<1> QED
  BY <1>3, <1>4 DEF QueuedIn, InWindow

LEMMA QueuedDefaults ==
  ASSUME TypeInv, WindowInv, NEW i \in Ifaces, apply_default_rules(i), UNCHANGED rm
  PROVE  QueuedIn'
<1>1. CASE config.default_rules = <<>>
  BY <1>1 DEF apply_default_rules, WindowInv, QueuedIn, InWindow
<1>2. CASE config.default_rules # <<>>
  BY <1>2, ConfigFields, QueuedApply DEF apply_default_rules, TypeInv, TypeOK
<1> QED
  BY <1>1, <1>2

LEMMA QueuedRules ==
  ASSUME TypeInv, WindowInv, NEW i \in Ifaces, NEW s, apply_rules_for_interface(i, s),
         UNCHANGED rm
  PROVE  QueuedIn'
<1>1. CASE s \in DOMAIN config.wifi_profiles
  BY <1>1, ConfigFields, QueuedApply DEF apply_rules_for_interface, TypeInv, TypeOK
<1>2. CASE s \notin DOMAIN config.wifi_profiles
  BY <1>2, QueuedDefaults DEF apply_rules_for_interface
<1> QED
  BY <1>1, <1>2

LEMMA WindowRuleOperation ==
  ASSUME TypeInv, WindowInv, RuleOperation
  PROVE  WindowInv'
<1> USE DEF dispatcherVars, kernelVars
<1>1. todo # <<>> /\ UNCHANGED <<rm, config>>
  BY DEF RuleOperation, SkipActive, RejectUnresolved, AddPolicyRule, AddRoute,
         RemovePolicyRule, RemoveRoute, Working
<1>2. QueuedIn'
  <2>1. UNCHANGED todo \/ todo' = Tail(todo)
    BY DEF RuleOperation, SkipActive, RejectUnresolved, AddPolicyRule, AddRoute,
           RemovePolicyRule, RemoveRoute, OpDone
  <2>2. CASE UNCHANGED todo
    BY <1>1, <2>2 DEF WindowInv, QueuedIn, InWindow
  <2> QED
    BY <1>1, <2>1, <2>2, QueuedTail
<1>3. CASE policies' \subseteq policies /\ routes' \subseteq routes
  BY <1>1, <1>2, <1>3, WindowQuiet
<1>4. CASE AddPolicyRule
  <2>1. cur.kind # "remove"
    BY <1>4 DEF AddPolicyRule, Applying
  <2>2. /\ routes' = routes
        /\ \A p \in policies' : p \in policies \/ p.table = cur.table
    BY <1>4 DEF AddPolicyRule, SetPolicies, policy_of
  <2> QED
    BY <1>1, <1>2, <2>1, <2>2, CurrentInWindow DEF WindowInv, InWindow
<1>5. CASE AddRoute
  <2>1. cur.kind # "remove"
    BY <1>5 DEF AddRoute
  <2>2. /\ policies' = policies
        /\ \A x \in routes' : x \in routes \/ x.table = cur.table
    BY <1>5 DEF AddRoute, SetRoutes, route_of
  <2> QED
    BY <1>1, <1>2, <2>1, <2>2, CurrentInWindow DEF WindowInv, InWindow
<1>6. CASE RemovePolicyRule \/ RemoveRoute
  <2>1. policies' \subseteq policies /\ routes' \subseteq routes
    BY <1>6 DEF RemovePolicyRule, RemoveRoute, SetPolicies, SetRoutes
  <2> QED
    BY <1>3, <2>1
<1>7. CASE SkipActive \/ RejectUnresolved
  BY <1>3, <1>7 DEF SkipActive, RejectUnresolved
<1> QED
  BY <1>4, <1>5, <1>6, <1>7 DEF RuleOperation

LEMMA WindowHandleEvent ==
  ASSUME TypeInv, WindowInv, HandleEvent
  PROVE  WindowInv'
<1>1. PICK i \in Ifaces :
        \/ InterfaceUp(i) \/ InterfaceDown(i) \/ InterfaceRemoved(i)
        \/ WifiDisconnected(i) \/ AddressChanged(i)
        \/ \E s \in Ssids : WifiConnected(i, s)
  BY DEF HandleEvent
<1>2. UNCHANGED <<rm, config, policies, routes>>
  BY <1>1 DEF InterfaceUp, InterfaceDown, InterfaceRemoved, WifiDisconnected,
              AddressChanged, WifiConnected, Handle, kernelVars
<1>3. QueuedIn'
  <2>1. CASE InterfaceUp(i)
    <3>1. UNCHANGED todo => QueuedIn'
      BY <1>2 DEF WindowInv, QueuedIn, InWindow
    <3> QED
      BY <1>2, <2>1, <3>1, QueuedDefaults DEF InterfaceUp
  <2>2. CASE InterfaceDown(i) \/ InterfaceRemoved(i)
    <3>1. todo' \in Seq(Ops) /\ \A k \in 1 .. Len(todo') : todo'[k].kind = "remove"
      BY <2>2, RemovalsType DEF InterfaceDown, InterfaceRemoved
    <3> QED
      BY <3>1 DEF QueuedIn
  <2>3. CASE WifiDisconnected(i)
    BY <1>2, <2>3, QueuedDefaults DEF WifiDisconnected
  <2>4. CASE AddressChanged(i)
    BY <1>2, <2>4, QueuedRules DEF AddressChanged
  <2>5. CASE \E s \in Ssids : WifiConnected(i, s)
    BY <1>2, <2>5, QueuedRules DEF WifiConnected
  <2> QED
    BY <1>1, <2>1, <2>2, <2>3, <2>4, <2>5
<1> QED
  BY <1>2, <1>3, WindowQuiet

LEMMA WindowLifecycle ==
  ASSUME TypeInv, WindowInv,
         \/ \E c \in Configs : Boot(c) \/ UpdateConfig(c)
         \/ \E known \in SUBSET Ifaces : \E up \in SUBSET known : Start(known, up)
         \/ FlushTables \/ CollectInitial \/ ApplyInitial \/ EnterLoop
         \/ Stop \/ Exit
         \/ \E i \in Ifaces : KernelDropsRoutes(i)
  PROVE  WindowInv'
<1> USE DEF dispatcherVars, workVars, kernelVars
<1>a. UNCHANGED <<rm, todo>> \/ (UNCHANGED rm /\ todo' = <<>>) => QueuedIn'
  BY DEF WindowInv, QueuedIn, InWindow
<1>1. ASSUME NEW c \in Configs, Boot(c)
      PROVE  WindowInv'
  <2>1. rm'.base_table_id = rm.base_table_id /\ config' = c
    BY <1>1, WindowFacts DEF Boot, WindowInv, TypeInv, TypeOK
  <2>2. todo' = <<>> /\ policies' = policies /\ routes' = routes
    BY <1>1 DEF Boot, Idle
  <2> QED
    BY <1>1, <2>1, <2>2 DEF Boot, WindowInv, QueuedIn, InWindow
<1>2. ASSUME NEW c \in Configs, UpdateConfig(c)
      PROVE  WindowInv'
  BY <1>2, <1>a, WindowQuiet DEF UpdateConfig
<1>3. ASSUME NEW known \in SUBSET Ifaces, NEW up \in SUBSET known, Start(known, up)
      PROVE  WindowInv'
  BY <1>3, <1>a, WindowQuiet DEF Start
<1>4. CASE FlushTables
  <2>1. policies' \subseteq policies /\ routes' \subseteq routes
    BY <1>4 DEF FlushTables
  <2> QED
    BY <1>4, <1>a, <2>1, WindowQuiet DEF FlushTables
<1>5. CASE CollectInitial \/ EnterLoop \/ Stop
  BY <1>5, <1>a, WindowQuiet DEF CollectInitial, EnterLoop, Stop
<1>6. CASE ApplyInitial
  <2>1. Head(starting) \in Ifaces
    BY <1>6, HeadTailProperties DEF ApplyInitial, TypeInv, TypeOK
  <2> QED
    BY <1>6, <2>1, QueuedDefaults, WindowQuiet DEF ApplyInitial
<1>7. CASE Exit
  BY <1>7, <1>a, WindowQuiet DEF Exit, Idle
<1>8. ASSUME NEW i \in Ifaces, KernelDropsRoutes(i)
      PROVE  WindowInv'
  <2>1. policies' \subseteq policies /\ routes' \subseteq routes
    BY <1>8 DEF KernelDropsRoutes, SetRoutes
  <2> QED
    BY <1>8, <1>a, <2>1, WindowQuiet DEF KernelDropsRoutes
<1> QED
  BY <1>1, <1>2, <1>3, <1>4, <1>5, <1>6, <1>7, <1>8

\* A visit that deletes all it found leaves nothing old below the next table.
LEMMA SlateFlush ==
  ASSUME TypeInv, WindowInv, SlateInv, FlushTables
  PROVE  SlateInv'
<1> DEFINE base == rm.base_table_id
           tables == {t \in flushed_tables(flushed) : t <= MaxTableId}
           rts == {x \in routes : x.table \in tables /\ x.dest \in V4Dests}
           pls == {p \in policies : p.table \in tables}
<1>1. /\ phase = "cleanup" /\ phase' = "cleanup" /\ flushed' = flushed + 1
      /\ UNCHANGED rm
  BY DEF FlushTables, dispatcherVars
<1> SUFFICES ASSUME faults' = 0, ~rm.dry_run
             PROVE  OldFrom(rm.base_table_id + flushed)'
  BY <1>1, WindowFacts DEF SlateInv, CleanSlate
<1>2. faults = 0
  BY WindowFacts DEF FlushTables, Fault
<1>3. OldFrom(base + flushed)
  BY <1>1, <1>2 DEF SlateInv
<1>4. /\ old'.policies = old.policies \cap (policies \ pls)
      /\ old'.routes = old.routes \cap (routes \ rts)
  BY WindowFacts DEF FlushTables, Fault
<1>5. base + flushed <= MaxTableId => base + flushed \in tables
  BY WindowFacts DEF flushed_tables
<1>6. ASSUME NEW t \in Nat, InWindow(t), t >= base + flushed, t \notin tables
      PROVE  t >= base + flushed + 1
  <2>1. t < MaxTableId + 1
    BY <1>6, WindowFacts DEF InWindow, WindowInv, TypeInv, TypeOK
  <2> QED
    BY <1>5, <1>6, <2>1, WindowFacts
<1> HIDE DEF tables
<1>7. \A p \in old'.policies : p.table >= base + flushed + 1
  BY <1>3, <1>4, <1>6, WindowFacts DEF OldFrom, WindowInv
<1>8. \A x \in old'.routes : x.dest \in V4Dests => x.table >= base + flushed + 1
  BY <1>3, <1>4, <1>6, WindowFacts DEF OldFrom, WindowInv
<1> QED
  BY <1>1, <1>7, <1>8, WindowFacts DEF OldFrom

\* Nothing else adds to what is old in a running process.
LEMMA SlateQuiet ==
  ASSUME TypeInv, SlateInv,
         old'.policies \subseteq old.policies, old'.routes \subseteq old.routes,
         UNCHANGED <<rm, flushed>>, faults' = 0 => faults = 0,
         UNCHANGED phase \/ (phase = "initial" /\ phase' = "loop") \/ phase' = "stopped"
  PROVE  SlateInv'
  BY DEF SlateInv, CleanSlate, OldFrom

LEMMA OldShrinks ==
  ASSUME TypeInv, NEW S
  PROVE  SetPolicies(S) \/ SetRoutes(S) \/ UNCHANGED old =>
           old'.policies \subseteq old.policies /\ old'.routes \subseteq old.routes
  BY DEF SetPolicies, SetRoutes, TypeInv, TypeOK

LEMMA SlateNext ==
  ASSUME TypeInv, WindowInv, SlateInv, [Next]_vars
  PROVE  SlateInv'
<1> USE DEF dispatcherVars, workVars, kernelVars
<1>a. ASSUME Fault PROVE faults' # 0
  BY <1>a, WindowFacts DEF Fault
<1>1. CASE RuleOperation
  <2>1. UNCHANGED <<rm, flushed, phase>>
    BY <1>1 DEF RuleOperation, SkipActive, RejectUnresolved, AddPolicyRule, AddRoute,
                RemovePolicyRule, RemoveRoute
  <2>2. UNCHANGED faults \/ Fault
    BY <1>1 DEF RuleOperation, SkipActive, RejectUnresolved, AddPolicyRule, AddRoute,
                RemovePolicyRule, RemoveRoute
  <2>3. old'.policies \subseteq old.policies /\ old'.routes \subseteq old.routes
    BY <1>1, OldShrinks DEF RuleOperation, SkipActive, RejectUnresolved, AddPolicyRule,
                AddRoute, RemovePolicyRule, RemoveRoute
  <2> QED
    BY <1>a, <2>1, <2>2, <2>3, SlateQuiet
<1>2. CASE HandleEvent
  BY <1>2, SlateQuiet DEF HandleEvent, InterfaceUp, InterfaceDown, InterfaceRemoved,
     WifiConnected, WifiDisconnected, AddressChanged, Handle
<1>3. CASE \E c \in Configs : UpdateConfig(c)
  BY <1>3, SlateQuiet DEF UpdateConfig
<1>4. CASE \E c \in Configs : Boot(c)
  BY <1>4 DEF Boot, Idle, SlateInv, CleanSlate
<1>5. CASE \E known \in SUBSET Ifaces : \E up \in SUBSET known : Start(known, up)
  <2>1. /\ phase = "init" /\ phase' = "cleanup" /\ flushed' = 0
        /\ UNCHANGED <<rm, old, faults>>
    BY <1>5 DEF Start, SlateInv
  <2> QED
    BY <2>1, WindowFacts DEF SlateInv, CleanSlate, OldFrom, WindowInv, InWindow
<1>6. CASE CollectInitial
  <2>1. /\ phase = "cleanup" /\ phase' = "initial" /\ flushed = MaxInterfaces
        /\ UNCHANGED <<rm, old, faults>>
    BY <1>6 DEF CollectInitial
  <2>2. ASSUME faults = 0, ~rm.dry_run
        PROVE  old.policies = {} /\ \A x \in old.routes : x.dest \notin V4Dests
    BY <2>1, <2>2, WindowFacts DEF SlateInv, OldFrom, WindowInv, InWindow
  <2> QED
    BY <2>1, <2>2 DEF SlateInv, CleanSlate
<1>7. CASE ApplyInitial \/ EnterLoop \/ Stop
  BY <1>7, SlateQuiet DEF ApplyInitial, EnterLoop, Stop
<1>8. CASE Exit
  BY <1>8 DEF Exit, SlateInv, CleanSlate
<1>9. CASE \E i \in Ifaces : KernelDropsRoutes(i)
  BY <1>9, SlateQuiet, OldShrinks DEF KernelDropsRoutes
<1>10. CASE UNCHANGED vars
  BY <1>10, SlateQuiet DEF vars
<1> QED
  BY <1>1, <1>2, <1>3, <1>4, <1>5, <1>6, <1>7, <1>8, <1>9, <1>10, SlateFlush DEF Next

LEMMA WindowNext ==
  ASSUME TypeInv, WindowInv, [Next]_vars
  PROVE  WindowInv'
<1>1. CASE UNCHANGED vars
  BY <1>1 DEF vars, dispatcherVars, workVars, kernelVars, WindowInv, QueuedIn, InWindow
<1> QED
  BY <1>1, WindowRuleOperation, WindowHandleEvent, WindowLifecycle DEF Next

\* cleanup_stale_tables(): whatever sequence of reloads, late interfaces, crashes and
\* failed requests came before, a cleanup in which no request fails leaves no policy
\* rule and no IPv4 route of an earlier process.
THEOREM CleanupIsComplete == Spec => []CleanSlate
<1>1. Init => WindowInv /\ SlateInv
  BY DEF Init, WindowInv, QueuedIn, SlateInv, CleanSlate
<1>2. TypeInv /\ WindowInv /\ SlateInv /\ [Next]_vars => WindowInv' /\ SlateInv'
  BY SlateNext, WindowNext
<1>3. SlateInv => CleanSlate
  BY DEF SlateInv
<1> QED
  BY <1>1, <1>2, <1>3, TypeInvariance, PTL DEF Spec

-----------------------------------------------------------------------------
(* What a handler brings about *)

\* Nothing is tracked or queued before the initial rules, and no event is handled
\* before the main loop.
EarlyInv ==
  /\ phase \in {"down", "init", "cleanup"} => active = {} /\ todo = <<>>
  /\ phase \notin {"loop", "stopped"} => last = NoEvent

\* What is tracked is a rule with an address.
TrackedShape ==
  \A a \in active : \E r \in AllRules :
    r.name = a.rule_name /\ r.via = a.interface /\ r.dest # Unresolved

\* The policy rule of an application is there before its route.
HalfAdded ==
  (half /\ cur.kind # "remove" /\ ~rm.dry_run) => policy_of(cur.rule, cur.table) \in policies

\* As long as no request failed, what is tracked has its policy rule, unless that is
\* being removed; as long as the kernel dropped nothing, it has its route.
TrackedInstalled ==
  (faults = 0 /\ ~rm.dry_run) =>
    \A a \in active, r \in AllRules : r.name = a.rule_name =>
      /\ \/ policy_of(r, a.table_id) \in policies
         \/ InFlight(r, a.table_id) /\ cur.kind = "remove"
         \/ RoutesTo(r.dest, a.table_id) = {}
      /\ drops = 0 => route_of(r, a.table_id) \in routes

\* What the handler of an event queues.
EventOps ==
  \A i \in Ifaces, c \in Configs, k \in DOMAIN todo :
    /\ CameUp(i, c) => todo[k].kind # "remove"
    /\ WentDown(i, c) => todo[k].kind = "remove"

Pending(r, t) == \E k \in DOMAIN todo : todo[k].rule = r /\ todo[k].table = t

\* What a down event has not yet removed is still in the list.
Removing(r) ==
  /\ \A x \in NewRoutes : x.dest = r.dest => Pending(r, x.table)
  /\ \A p \in NewPolicies : p.dest = r.dest => Pending(r, p.table)
  /\ drops = 0 => \A a \in active : a.rule_name = r.name => Pending(r, a.table_id)

DownInv ==
  \A i \in Ifaces, c \in Configs, r \in DefaultRules :
    (phase = "loop" /\ WentDown(i, c) /\ faults = 0 /\ r.via = i /\ Configured(c, r)) =>
      Removing(r)

\* What an up event has not yet applied is still in the list.
Applied(r) ==
  \/ is_route_active(r.name)
  \/ \E k \in DOMAIN todo : todo[k].kind = "default" /\ todo[k].rule = r

UpInv ==
  \A i \in Ifaces, c \in Configs :
    (phase = "loop" /\ CameUp(i, c) /\ interface_up_applies(i) /\ faults = 0) =>
      \A k \in DOMAIN c.default_rules :
        LET r == c.default_rules[k] IN r.dest # Unresolved => Applied(r)

BackInv == EarlyInv /\ TrackedShape /\ HalfAdded /\ TrackedInstalled

HandlerInv == BackInv /\ EventOps /\ DownInv /\ UpInv

LEMMA EventNames ==
  /\ \A i, c : NoEvent # <<"up", i, c>> /\ NoEvent # <<"down", i, c>>
  /\ \A i, c, j, d : <<"up", i, c>> # <<"down", j, d>>
  /\ \A i, c, j, d : <<"up", i, c>> = <<"up", j, d>> => i = j /\ c = d
  /\ \A i, c, j, d : <<"down", i, c>> = <<"down", j, d>> => i = j /\ c = d
  /\ \A i, c, j, s, d : /\ <<"connected", j, s, d>> # <<"up", i, c>>
                        /\ <<"connected", j, s, d>> # <<"down", i, c>>
  BY DEF NoEvent

\* What is left when the first operation is done.
LEMMA QueueTail ==
  ASSUME TypeInv, todo # <<>>, todo' = Tail(todo)
  PROVE  /\ 1 \in DOMAIN todo /\ cur = todo[1]
         /\ \A k \in DOMAIN todo' : k + 1 \in DOMAIN todo /\ todo'[k] = todo[k + 1]
         /\ \A k \in DOMAIN todo : k # 1 => k - 1 \in DOMAIN todo' /\ todo'[k - 1] = todo[k]
<1> DEFINE n == Len(todo)
<1>1. todo \in Seq(Ops) /\ n > 0 /\ n \in Nat /\ DOMAIN todo = 1 .. n
  BY EmptySeq DEF TypeInv, TypeOK
<1>2. Len(todo') = n - 1 /\ DOMAIN todo' = 1 .. n - 1
  BY <1>1, HeadTailProperties
<1>3. \A k \in 1 .. n - 1 : todo'[k] = todo[k + 1]
  BY <1>1, HeadTailProperties
<1> HIDE DEF n
<1>4. \A k \in 1 .. n : k # 1 => k - 1 \in 1 .. n - 1 /\ k = (k - 1) + 1
  BY <1>1
<1> QED
  BY <1>1, <1>2, <1>3, <1>4 DEF cur

\* A step does one of these to the rest of the list, the tracking and the counters.
LEMMA OperationFrame ==
  ASSUME TypeInv, RuleOperation
  PROVE  /\ todo # <<>> /\ phase \in {"initial", "loop"}
         /\ UNCHANGED <<phase, config, rm, net, ssid, indices, last, drops>>
         /\ UNCHANGED faults \/ (Fault /\ faults' # 0 /\ ~rm.dry_run)
         /\ (todo' = Tail(todo) /\ ~half') \/ (UNCHANGED todo /\ half')
<1> USE DEF dispatcherVars, kernelVars
<1>1. Fault => faults' # 0 /\ ~rm.dry_run
  BY DEF Fault, TypeInv, TypeOK
<1>2. /\ todo # <<>> /\ phase \in {"initial", "loop"}
      /\ UNCHANGED <<phase, config, rm, net, ssid, indices, last, drops>>
  BY DEF RuleOperation, SkipActive, RejectUnresolved, AddPolicyRule, AddRoute,
         RemovePolicyRule, RemoveRoute, Working
<1>3. UNCHANGED faults \/ Fault
  BY DEF RuleOperation, SkipActive, RejectUnresolved, AddPolicyRule, AddRoute,
         RemovePolicyRule, RemoveRoute
<1>4. (todo' = Tail(todo) /\ ~half') \/ (UNCHANGED todo /\ half')
  BY DEF RuleOperation, SkipActive, RejectUnresolved, AddPolicyRule, AddRoute,
         RemovePolicyRule, RemoveRoute, OpDone
<1> QED
  BY <1>1, <1>2, <1>3, <1>4

LEMMA EarlyNext ==
  ASSUME TypeInv, BackInv, [Next]_vars
  PROVE  EarlyInv'
<1> USE DEF dispatcherVars, workVars, EarlyInv, BackInv
<1>1. CASE RuleOperation
  BY <1>1, OperationFrame
<1>2. CASE HandleEvent
  BY <1>2 DEF HandleEvent, InterfaceUp, InterfaceDown, InterfaceRemoved, WifiConnected,
     WifiDisconnected, AddressChanged, Handle, Listening
<1>3. CASE \E c \in Configs : Boot(c) \/ UpdateConfig(c)
  BY <1>3 DEF Boot, Idle, UpdateConfig
<1>4. CASE \E known \in SUBSET Ifaces : \E up \in SUBSET known : Start(known, up)
  BY <1>4 DEF Start
<1>5. CASE FlushTables \/ CollectInitial \/ ApplyInitial \/ EnterLoop \/ Stop
  BY <1>5 DEF FlushTables, CollectInitial, ApplyInitial, EnterLoop, Stop, Listening
<1>6. CASE Exit
  BY <1>6 DEF Exit, Idle
<1>7. CASE \E i \in Ifaces : KernelDropsRoutes(i)
  BY <1>7 DEF KernelDropsRoutes
<1>8. CASE UNCHANGED vars
  BY <1>8 DEF vars
<1> QED
  BY <1>1, <1>2, <1>3, <1>4, <1>5, <1>6, <1>7, <1>8 DEF Next

LEMMA ShapeSame ==
  ASSUME TrackedShape, active' \subseteq active
  PROVE  TrackedShape'
  BY DEF TrackedShape

\* Rules of what is tracked have an address, and one name.
LEMMA TrackedRule ==
  ASSUME BackInv, NEW a \in active, NEW r \in AllRules, r.name = a.rule_name
  PROVE  r.via = a.interface /\ r.dest # Unresolved
  BY RuleFacts DEF BackInv, TrackedShape

\* A step that leaves tracking and kernel alone, but for dropped routes.
LEMMA BackQuiet ==
  ASSUME TypeInv, BackInv, EarlyInv',
         UNCHANGED <<active, rm, policies>>, faults' = 0 => faults = 0,
         drops' = 0 => drops = 0 /\ UNCHANGED routes, routes' \subseteq routes,
         UNCHANGED <<half, todo>> \/ (~half /\ ~half')
  PROVE  BackInv'
<1>1. TrackedShape'
  BY ShapeSame DEF BackInv
<1>2. HalfAdded'
  BY DEF BackInv, HalfAdded, cur
<1>3. TrackedInstalled'
  <2> SUFFICES ASSUME faults' = 0, ~rm.dry_run, NEW a \in active, NEW r \in AllRules,
                      r.name = a.rule_name
               PROVE  /\ \/ policy_of(r, a.table_id) \in policies
                         \/ InFlight(r, a.table_id)' /\ cur'.kind = "remove"
                         \/ RoutesTo(r.dest, a.table_id)' = {}
                      /\ drops' = 0 => route_of(r, a.table_id) \in routes'
    BY DEF TrackedInstalled
  <2>1. /\ \/ policy_of(r, a.table_id) \in policies
           \/ InFlight(r, a.table_id) /\ cur.kind = "remove"
           \/ RoutesTo(r.dest, a.table_id) = {}
        /\ drops = 0 => route_of(r, a.table_id) \in routes
    BY DEF BackInv, TrackedInstalled
  <2>2. RoutesTo(r.dest, a.table_id)' \subseteq RoutesTo(r.dest, a.table_id)
    BY DEF RoutesTo
  <2>3. InFlight(r, a.table_id) /\ cur.kind = "remove" =>
          InFlight(r, a.table_id)' /\ cur'.kind = "remove"
    BY DEF InFlight, cur
  <2> QED
    BY <2>1, <2>2, <2>3
<1> QED
  BY <1>1, <1>2, <1>3 DEF BackInv

\* Nothing is tracked after the step.
LEMMA BackFresh ==
  ASSUME EarlyInv', active' = {}, ~half'
  PROVE  BackInv'
  BY DEF BackInv, TrackedShape, HalfAdded, TrackedInstalled

\* What TrackedInstalled says of one entry, and what a step has to show for it.
LEMMA InstalledFrame ==
  ASSUME TypeInv, BackInv, UNCHANGED rm, UNCHANGED drops, faults' = 0 => faults = 0,
         faults' = 0 /\ ~rm.dry_run =>
           \A a \in active', r \in AllRules : r.name = a.rule_name =>
             /\ \/ policy_of(r, a.table_id) \in policies'
                \/ InFlight(r, a.table_id)' /\ cur'.kind = "remove"
                \/ RoutesTo(r.dest, a.table_id)' = {}
             /\ drops = 0 => route_of(r, a.table_id) \in routes'
  PROVE  TrackedInstalled'
  BY DEF TrackedInstalled

LEMMA Installation ==
  ASSUME BackInv, faults = 0, ~rm.dry_run, NEW a \in active, NEW r \in AllRules,
         r.name = a.rule_name
  PROVE  /\ \/ policy_of(r, a.table_id) \in policies
            \/ InFlight(r, a.table_id) /\ cur.kind = "remove"
            \/ RoutesTo(r.dest, a.table_id) = {}
         /\ drops = 0 => route_of(r, a.table_id) \in routes
  BY DEF BackInv, TrackedInstalled

LEMMA BackAddPolicyRule ==
  ASSUME TypeInv, BackInv, EarlyInv', AddPolicyRule
  PROVE  BackInv'
<1>0. /\ ~half /\ cur.kind # "remove"
      /\ UNCHANGED <<rm, active, routes, drops>> /\ policies \subseteq policies'
      /\ UNCHANGED faults \/ faults' # 0
      /\ \/ /\ half' /\ UNCHANGED todo
            /\ ~rm.dry_run => policy_of(cur.rule, cur.table) \in policies'
         \/ ~half'
  BY DEF AddPolicyRule, OpDone, SetPolicies, Applying, dispatcherVars, Fault, TypeInv, TypeOK
<1>1. TrackedShape'
  BY <1>0, ShapeSame DEF BackInv
<1>2. HalfAdded'
  <2>1. half' => cur' = cur
    BY <1>0 DEF cur
  <2> QED
    BY <1>0, <2>1 DEF HalfAdded
<1>3. TrackedInstalled'
  <2>1. ASSUME faults' = 0, ~rm.dry_run, NEW a \in active', NEW r \in AllRules,
               r.name = a.rule_name
        PROVE  /\ \/ policy_of(r, a.table_id) \in policies'
                  \/ RoutesTo(r.dest, a.table_id)' = {}
               /\ drops = 0 => route_of(r, a.table_id) \in routes'
    <3>1. a \in active /\ faults = 0
      BY <1>0, <2>1
    <3>2. RoutesTo(r.dest, a.table_id)' = RoutesTo(r.dest, a.table_id)
      BY <1>0 DEF RoutesTo
    <3> QED
      BY <1>0, <2>1, <3>1, <3>2, Installation DEF InFlight
  <2> QED
    BY <1>0, <2>1, InstalledFrame
<1> QED
  BY <1>1, <1>2, <1>3 DEF BackInv

LEMMA BackAddRoute ==
  ASSUME TypeInv, StableInv, BackInv, EarlyInv', AddRoute
  PROVE  BackInv'
<1> DEFINE rt == route_of(cur.rule, cur.table)
           new == [rule_name |-> cur.rule.name, interface |-> cur.rule.via,
                   table_id |-> cur.table]
<1>0. /\ todo # <<>> /\ half /\ ~half' /\ cur.kind # "remove"
      /\ UNCHANGED <<rm, policies, drops>>
      /\ UNCHANGED faults \/ faults' # 0
      /\ \/ UNCHANGED active
         \/ /\ active' = {a \in active : a.rule_name # cur.rule.name} \cup {new}
            /\ routes' = IF rm.dry_run \/ SameRoute(rt) # {} THEN routes ELSE routes \cup {rt}
  BY DEF AddRoute, Working, OpDone, SetRoutes, dispatcherVars, Fault, TypeInv, TypeOK,
         track_active_route, untrack_active_route
<1>1. cur.rule \in AllRules /\ cur.rule.dest # Unresolved
  BY <1>0, CurrentOK DEF TypeInv
<1>2. TrackedShape'
  <2>1. \A a \in active' : a \in active \/ a = new
    BY <1>0
  <2> QED
    BY <1>1, <2>1 DEF BackInv, TrackedShape
<1>3. HalfAdded'
  BY <1>0 DEF HalfAdded
<1>4. TrackedInstalled'
  <2>1. ASSUME faults' = 0, ~rm.dry_run
        PROVE  /\ active' = {a \in active : a.rule_name # cur.rule.name} \cup {new}
               /\ routes' = IF SameRoute(rt) # {} THEN routes ELSE routes \cup {rt}
               /\ faults = 0
    BY <1>0, <2>1 DEF AddRoute, SetRoutes, Fault, TypeInv, TypeOK, track_active_route,
       untrack_active_route
  <2>2. ASSUME faults' = 0, ~rm.dry_run, NEW a \in active', NEW r \in AllRules,
               r.name = a.rule_name
        PROVE  /\ \/ policy_of(r, a.table_id) \in policies'
                  \/ RoutesTo(r.dest, a.table_id)' = {}
               /\ drops = 0 => route_of(r, a.table_id) \in routes'
    <3>1. CASE a = new
      <4>1. r = cur.rule /\ a.table_id = cur.table
        BY <1>1, <2>2, <3>1, RuleFacts
      <4>2. policy_of(r, cur.table) \in policies
        BY <1>0, <2>2, <4>1 DEF BackInv, HalfAdded
      <4>3. rt \in routes'
        <5>1. ASSUME NEW x \in SameRoute(rt) PROVE x = rt
          <6>1. x \in Route /\ x \in routes /\ x.table = cur.table /\ x.dest = cur.rule.dest
                /\ x.metric = cur.rule.priority
            BY <5>1 DEF SameRoute, route_of, TypeInv, TypeOK
          <6>2. x.dev = cur.rule.via
            BY <1>1, <6>1, RuleFacts DEF StableInv, RouteShape
          <6> QED
            BY <6>1, <6>2 DEF Route, route_of
        <5>2. SameRoute(rt) # {} => rt \in routes
          BY <5>1 DEF SameRoute
        <5> QED
          BY <2>1, <2>2, <5>2
      <4> QED
        BY <1>0, <4>1, <4>2, <4>3
    <3>2. CASE a \in active /\ a.rule_name # cur.rule.name
      <4>1. r # cur.rule /\ r.dest # cur.rule.dest
        BY <1>1, <2>2, <3>2, RuleFacts
      <4>2. RoutesTo(r.dest, a.table_id)' = RoutesTo(r.dest, a.table_id)
        BY <2>1, <2>2, <4>1 DEF RoutesTo, route_of
      <4>3. faults = 0 /\ routes \subseteq routes'
        BY <2>1, <2>2
      <4> QED
        BY <1>0, <2>2, <3>2, <4>2, <4>3, Installation DEF InFlight
    <3> QED
      BY <2>1, <2>2, <3>1, <3>2
  <2>3. faults' = 0 => faults = 0
    BY <1>0
  <2> QED
    BY <1>0, <2>2, <2>3, InstalledFrame
<1> QED
  BY <1>2, <1>3, <1>4 DEF BackInv

LEMMA BackRemovePolicyRule ==
  ASSUME TypeInv, StableInv, BackInv, EarlyInv', RemovePolicyRule
  PROVE  BackInv'
<1> DEFINE p == policy_of(cur.rule, cur.table)
<1>0. /\ todo # <<>> /\ ~half /\ cur.kind = "remove" /\ cur.rule.dest # Unresolved
      /\ UNCHANGED <<rm, active, routes, drops>>
      /\ UNCHANGED faults \/ faults' # 0
      /\ \/ half' /\ UNCHANGED todo /\ \A q \in policies : q = p \/ q \in policies'
         \/ ~half' /\ UNCHANGED policies
  BY DEF RemovePolicyRule, Working, OpDone, SetPolicies, dispatcherVars, Fault, TypeInv, TypeOK
<1>1. TrackedShape'
  BY <1>0, ShapeSame DEF BackInv
<1>2. HalfAdded'
  BY <1>0 DEF HalfAdded, cur
<1>3. cur.rule \in AllRules
  BY <1>0, CurrentOK
<1>4. TrackedInstalled'
  <2>1. ASSUME faults' = 0, ~rm.dry_run, NEW a \in active', NEW r \in AllRules,
               r.name = a.rule_name
        PROVE  /\ \/ policy_of(r, a.table_id) \in policies'
                  \/ InFlight(r, a.table_id)' /\ cur'.kind = "remove"
                  \/ RoutesTo(r.dest, a.table_id)' = {}
               /\ drops = 0 => route_of(r, a.table_id) \in routes'
    <3>1. a \in active /\ faults = 0
      BY <1>0, <2>1
    <3>2. RoutesTo(r.dest, a.table_id)' = RoutesTo(r.dest, a.table_id)
      BY <1>0 DEF RoutesTo
    <3>3. /\ policy_of(r, a.table_id) \in policies \/ RoutesTo(r.dest, a.table_id) = {}
          /\ drops = 0 => route_of(r, a.table_id) \in routes
      BY <1>0, <2>1, <3>1, Installation DEF InFlight
    <3>4. CASE policy_of(r, a.table_id) = p /\ half' /\ UNCHANGED todo
      <4>1. r = cur.rule /\ a.table_id = cur.table
        BY <1>0, <1>3, <3>4, RuleFacts DEF policy_of
      <4> QED
        BY <1>0, <3>3, <3>4, <4>1 DEF InFlight, cur
    <3> QED
      BY <1>0, <3>2, <3>3, <3>4
  <2>2. faults' = 0 => faults = 0
    BY <1>0
  <2> QED
    BY <1>0, <2>1, <2>2, InstalledFrame
<1> QED
  BY <1>1, <1>2, <1>4 DEF BackInv

\* The tables of the kernel entries have ids that fit the netlink header.
LEMMA WindowFits ==
  ASSUME TypeInv, WindowInv, NEW t \in Nat, InWindow(t)
  PROVE  t <= MaxTableId
<1>1. config \in Configs /\ rm.base_table_id = config.table_id_start
  BY DEF TypeInv, TypeOK, WindowInv
<1>2. rm.base_table_id + Cardinality(Ifaces) <= MaxTableId + 1
  BY <1>1, WindowFacts
<1> QED
  BY <1>2, WindowFacts DEF InWindow

LEMMA RoutesFit ==
  ASSUME TypeInv, WindowInv, NEW t, NEW dest, NEW x \in RoutesTo(dest, t)
  PROVE  t \in Nat /\ t <= MaxTableId
<1>1. x \in routes /\ x.table = t
  BY DEF RoutesTo
<1>2. t \in Nat /\ InWindow(t)
  BY <1>1, WindowFacts DEF WindowInv
<1> QED
  BY <1>2, WindowFits

LEMMA PoliciesFit ==
  ASSUME TypeInv, WindowInv, NEW p \in policies
  PROVE  p.table \in Nat /\ p.table <= MaxTableId
<1>1. p.table \in Nat /\ InWindow(p.table)
  BY WindowFacts DEF WindowInv
<1> QED
  BY <1>1, WindowFits

\* The deletion takes the routes of its rule in its table, and no others.
LEMMA RemoveRouteOwn ==
  ASSUME TypeInv, StableInv, RemoveRoute, NEW x \in routes \ routes'
  PROVE  x.dest = cur.rule.dest /\ x.table = cur.table
  BY DEF RemoveRoute, SetRoutes, RoutesTo

LEMMA BackRemoveRoute ==
  ASSUME TypeInv, StableInv, WindowInv, BackInv, EarlyInv', RemoveRoute
  PROVE  BackInv'
<1>0. /\ todo # <<>> /\ half /\ ~half' /\ cur.kind = "remove"
      /\ UNCHANGED <<rm, policies, drops>> /\ routes' \subseteq routes
      /\ UNCHANGED faults \/ faults' # 0
      /\ active' \subseteq active
  BY DEF RemoveRoute, Working, OpDone, SetRoutes, dispatcherVars, Fault, TypeInv, TypeOK,
         untrack_active_route
<1>1. cur.rule \in AllRules /\ cur.rule.dest # Unresolved
  BY <1>0, CurrentOK DEF TypeInv
<1>2. TrackedShape'
  BY <1>0, ShapeSame DEF BackInv
<1>3. HalfAdded'
  BY <1>0 DEF HalfAdded
<1>4. TrackedInstalled'
  <2>1. ASSUME faults' = 0, ~rm.dry_run, NEW a \in active', NEW r \in AllRules,
               r.name = a.rule_name
        PROVE  /\ \/ policy_of(r, a.table_id) \in policies'
                  \/ RoutesTo(r.dest, a.table_id)' = {}
               /\ drops = 0 => route_of(r, a.table_id) \in routes'
    <3>1. a \in active /\ faults = 0
      BY <1>0, <2>1
    <3>2. /\ \/ policy_of(r, a.table_id) \in policies
             \/ InFlight(r, a.table_id)
             \/ RoutesTo(r.dest, a.table_id) = {}
          /\ drops = 0 => route_of(r, a.table_id) \in routes
      BY <2>1, <3>1, Installation
    <3>3. RoutesTo(r.dest, a.table_id)' \subseteq RoutesTo(r.dest, a.table_id)
      BY <1>0 DEF RoutesTo
    <3>4. CASE active' = untrack_active_route(cur.rule.name)
      <4>1. r # cur.rule /\ r.dest # cur.rule.dest
        BY <1>1, <2>1, <3>4, RuleFacts DEF untrack_active_route
      <4>2. ASSUME route_of(r, a.table_id) \in routes PROVE route_of(r, a.table_id) \in routes'
        BY <4>1, <4>2, RemoveRouteOwn DEF route_of
      <4> QED
        BY <1>0, <3>2, <3>3, <4>1, <4>2 DEF InFlight
    <3>5. CASE UNCHANGED routes /\ RemovalFails(cur.table, RoutesTo(cur.rule.dest, cur.table) # {},
                                                MissingRoute)
      <4>1. RoutesTo(cur.rule.dest, cur.table) = {}
        <5>1. ASSUME NEW x \in RoutesTo(cur.rule.dest, cur.table)
              PROVE  FALSE
          BY <3>5, <5>1, RoutesFit, WindowFacts DEF RemovalFails
        <5> QED
          BY <5>1
      <4> QED
        BY <1>0, <3>2, <3>3, <3>5, <4>1 DEF InFlight
    <3> QED
      BY <1>0, <2>1, <3>4, <3>5 DEF RemoveRoute, Fault, TypeInv, TypeOK
  <2>2. faults' = 0 => faults = 0
    BY <1>0
  <2> QED
    BY <1>0, <2>1, <2>2, InstalledFrame
<1> QED
  BY <1>2, <1>3, <1>4 DEF BackInv

LEMMA BackNext ==
  ASSUME TypeInv, StableInv, WindowInv, BackInv, EarlyInv', [Next]_vars
  PROVE  BackInv'
<1> USE DEF dispatcherVars, workVars, kernelVars
<1>0. faults \in Nat /\ drops \in Nat /\ (todo = <<>> => ~half)
  BY BoundsAssumption DEF TypeInv, TypeOK
<1>1. CASE SkipActive \/ RejectUnresolved
  BY <1>1, BackQuiet DEF SkipActive, RejectUnresolved, OpDone
<1>2. CASE HandleEvent
  BY <1>0, <1>2, BackQuiet DEF HandleEvent, InterfaceUp, InterfaceDown, InterfaceRemoved,
     WifiConnected, WifiDisconnected, AddressChanged, Handle, Listening
<1>3. CASE \E c \in Configs : UpdateConfig(c)
  BY <1>3, BackQuiet DEF UpdateConfig
<1>4. CASE \E known \in SUBSET Ifaces : \E up \in SUBSET known : Start(known, up)
  BY <1>4, BackQuiet DEF Start
<1>5. CASE CollectInitial \/ EnterLoop \/ ApplyInitial
  BY <1>0, <1>5, BackQuiet DEF CollectInitial, EnterLoop, ApplyInitial
<1>6. CASE (\E c \in Configs : Boot(c)) \/ Exit
  BY <1>6, BackFresh DEF Boot, Exit, Idle
<1>7. CASE Stop
  BY <1>0, <1>7, BackFresh DEF Stop, Listening
<1>8. CASE FlushTables
  <2>1. active' = {} /\ ~half'
    BY <1>0, <1>8 DEF FlushTables, BackInv, EarlyInv
  <2> QED
    BY <2>1, BackFresh
<1>9. ASSUME NEW i \in Ifaces, KernelDropsRoutes(i)
      PROVE  BackInv'
  <2>1. drops' # 0 /\ routes' \subseteq routes
    BY <1>0, <1>9 DEF KernelDropsRoutes, SetRoutes
  <2> QED
    BY <1>9, <2>1, BackQuiet DEF KernelDropsRoutes
<1>10. CASE UNCHANGED vars
  BY <1>10, BackQuiet DEF vars
<1> QED
  BY <1>1, <1>2, <1>3, <1>4, <1>5, <1>6, <1>7, <1>8, <1>9, <1>10, BackAddPolicyRule,
     BackAddRoute, BackRemovePolicyRule, BackRemoveRoute DEF Next, RuleOperation

\* An order of a finite set has each of its elements.
LEMMA OrderCovers ==
  ASSUME NEW S, IsFiniteSet(S), NEW s \in SetToSeqs(S), NEW x \in S
  PROVE  \E k \in DOMAIN s : s[k] = x
<1> DEFINE N == Cardinality(S)
<1>1. N \in Nat /\ Cardinality(1 .. N) = N
  BY FS_CardinalityType, FS_Interval
<1>2. s \in [1 .. N -> S] /\ \A j, k \in 1 .. N : j # k => s[j] # s[k]
  BY DEF SetToSeqs
<1>3. s \in Injection(1 .. N, S)
  BY <1>2 DEF Injection, IsInjective
<1> HIDE DEF N
<1>4. s \in Surjection(1 .. N, S)
  BY <1>1, <1>3, FS_Injection DEF N
<1> QED
  BY <1>2, <1>4 DEF Surjection

\* handle_interface_down() removes whatever is tracked via i and still configured.
LEMMA RemovesTracked ==
  ASSUME TypeInv, NEW i \in Ifaces, handle_interface_down(i),
         NEW r \in AllRules, Configured(config, r),
         NEW a \in active, a.rule_name = r.name, a.interface = i
  PROVE  Pending(r, a.table_id)'
<1> DEFINE gone == removable(i)
<1>1. PICK order \in SetToSeqs(gone), pick \in [gone -> Rules] :
        /\ \A b \in gone : pick[b] \in rules_map(config, b.rule_name)
        /\ todo' = [k \in DOMAIN order |->
                      [kind |-> "remove", rule |-> pick[order[k]],
                       table |-> order[k].table_id]]
  BY DEF handle_interface_down
<1>2. a \in gone
  BY DEF removable, depends_on, Configured
<1>3. IsFiniteSet(gone)
  BY FS_Subset DEF removable, TypeInv
<1> HIDE DEF gone
<1>4. PICK k \in DOMAIN order : order[k] = a
  BY <1>1, <1>2, <1>3, OrderCovers
<1>5. pick[a] \in AllRules /\ pick[a].name = r.name
  BY <1>1, <1>2, RulesMapNames DEF TypeInv, TypeOK
<1>6. pick[a] = r
  BY <1>5, RuleFacts
<1>7. k \in DOMAIN todo' /\ todo'[k].rule = r /\ todo'[k].table = a.table_id
  BY <1>1, <1>4, <1>6
<1> QED
  BY <1>7 DEF Pending

\* A list of default rules has them all, and applies.
LEMMA AppliesDefaults ==
  ASSUME TypeInv, NEW i, apply_default_rules(i), todo = <<>>
  PROVE  /\ \A k \in DOMAIN todo' : todo'[k].kind = "default"
         /\ \A k \in DOMAIN config.default_rules :
              k \in DOMAIN todo' /\ todo'[k].rule = config.default_rules[k]
<1>1. CASE config.default_rules = <<>>
  BY <1>1 DEF apply_default_rules
<1>2. CASE config.default_rules # <<>>
  <2>1. DOMAIN config.default_rules = 1 .. Len(config.default_rules)
    BY ConfigFields DEF TypeInv, TypeOK
  <2> QED
    BY <1>2, <2>1 DEF apply_default_rules, ApplyTo, OpsFor
<1> QED
  BY <1>1, <1>2

-----------------------------------------------------------------------------
(* Steps of a handler *)

LEMMA EventOpsRuleOperation ==
  ASSUME TypeInv, EventOps, RuleOperation
  PROVE  EventOps'
<1>1. \A k \in DOMAIN todo' : \E m \in DOMAIN todo : todo'[k] = todo[m]
  <2>1. CASE todo' = Tail(todo)
    BY <2>1, OperationFrame, QueueTail
  <2> QED
    BY <2>1, OperationFrame
<1> QED
  BY <1>1, OperationFrame DEF EventOps, CameUp, WentDown

\* The operation in progress is of the event's kind.
LEMMA CurrentKind ==
  ASSUME TypeInv, EventOps, todo # <<>>, NEW i \in Ifaces, NEW c \in Configs
  PROVE  /\ CameUp(i, c) => cur.kind # "remove"
         /\ WentDown(i, c) => cur.kind = "remove"
<1>1. 1 \in DOMAIN todo /\ cur = todo[1]
  BY EmptySeq DEF cur, TypeInv, TypeOK
<1> QED
  BY <1>1 DEF EventOps

\* What is pending stays so unless it is what the operation was about.
LEMMA PendingStep ==
  ASSUME TypeInv, RuleOperation, NEW r, NEW t, Pending(r, t),
         UNCHANGED todo \/ cur.rule # r \/ cur.table # t
  PROVE  Pending(r, t)'
<1>1. CASE UNCHANGED todo
  BY <1>1 DEF Pending
<1>2. CASE todo' = Tail(todo) /\ (cur.rule # r \/ cur.table # t)
  <2>1. PICK k \in DOMAIN todo : todo[k].rule = r /\ todo[k].table = t
    BY DEF Pending
  <2>2. k # 1
    BY <1>2, <2>1, OperationFrame, QueueTail
  <2>3. k - 1 \in DOMAIN todo' /\ todo'[k - 1] = todo[k]
    BY <1>2, <2>1, <2>2, OperationFrame, QueueTail
  <2> QED
    BY <2>1, <2>3 DEF Pending
<1> QED
  BY <1>1, <1>2, OperationFrame

\* A removal that ends without both requests had nothing to remove.
LEMMA RemovalEnds ==
  ASSUME TypeInv, StableInv, WindowInv, BackInv, RuleOperation, cur.kind = "remove",
         faults' = 0, todo' # todo,
         NEW r \in DefaultRules, cur.rule = r
  PROVE  /\ \A x \in NewRoutes' : x.dest = r.dest => x.table # cur.table
         /\ \A p \in NewPolicies' : p.dest = r.dest => p.table # cur.table
         /\ drops = 0 => \A a \in active' : a.rule_name = r.name => a.table_id # cur.table
<1>0. /\ todo # <<>> /\ faults = 0 /\ ~Fault /\ r \in AllRules /\ UNCHANGED <<rm, phase>>
      /\ phase # "stopped" /\ ~half'
  BY OperationFrame, RuleFacts DEF Fault, TypeInv, TypeOK
<1>1. CASE RejectUnresolved
  <2>1. r.dest = Unresolved /\ UNCHANGED <<routes, policies, active>>
    BY <1>1 DEF RejectUnresolved, kernelVars
  <2>2. \A x \in NewRoutes' : x.dest # r.dest
    BY <2>1 DEF StableInv, RouteShape, NewRoutes
  <2>3. \A p \in NewPolicies' : p.dest # r.dest
    BY <2>1 DEF StableInv, PolicyShape, NewPolicies
  <2>4. \A a \in active' : a.rule_name # r.name
    BY <1>0, <2>1, TrackedRule
  <2> QED
    BY <2>2, <2>3, <2>4
<1>2. CASE RemovePolicyRule
  <2>1. /\ ~half /\ UNCHANGED <<routes, policies, old, active>> /\ ~rm.dry_run
        /\ \/ cur.table > MaxTableId
           \/ policy_of(cur.rule, cur.table) \notin policies
    <3>1. UNCHANGED todo \/ OpDone
      BY <1>2 DEF RemovePolicyRule
    <3> QED
      BY <1>0, <1>2 DEF RemovePolicyRule, RemovalFails
  <2>2. ASSUME NEW x \in routes, x.dest = r.dest, x.table = cur.table,
               NEW a \in active, a.rule_name = r.name, a.table_id = cur.table
        PROVE  FALSE
    <3>1. x \in RoutesTo(r.dest, cur.table)
      BY <2>2 DEF RoutesTo
    <3>2. policy_of(r, cur.table) \in policies
      BY <1>0, <2>1, <2>2, <3>1, Installation DEF InFlight
    <3> QED
      BY <2>1, <3>1, <3>2, RoutesFit, WindowFacts
  <2>3. \A x \in NewRoutes' : x.dest = r.dest => x.table # cur.table
    BY <1>0, <2>1, <2>2 DEF StableInv, RoutesTracked, Tracked, NewRoutes
  <2>4. \A p \in NewPolicies' : p.dest = r.dest => p.table # cur.table
    <3> SUFFICES ASSUME NEW p \in policies, p.dest = r.dest, p.table = cur.table
                 PROVE  FALSE
      BY <2>1 DEF NewPolicies
    <3>1. p = policy_of(r, cur.table)
      BY <1>0, PolicyOfRule DEF TypeInv, StableInv
    <3> QED
      BY <2>1, <3>1, PoliciesFit, WindowFacts
  <2>5. drops = 0 => \A a \in active' : a.rule_name = r.name => a.table_id # cur.table
    <3> SUFFICES ASSUME drops = 0, NEW a \in active, a.rule_name = r.name,
                        a.table_id = cur.table
                 PROVE  FALSE
      BY <2>1
    <3>1. route_of(r, cur.table) \in routes
      BY <1>0, <2>1, Installation
    <3> QED
      BY <2>2, <3>1 DEF route_of
  <2> QED
    BY <2>3, <2>4, <2>5
<1>3. CASE RemoveRoute
  <2>0. half /\ UNCHANGED policies /\ r.dest # Unresolved
    BY <1>3 DEF RemoveRoute, TypeInv
  <2>1. \A p \in NewPolicies' : p.dest = r.dest => p.table # cur.table
    <3> SUFFICES ASSUME NEW p \in NewPolicies, p.dest = r.dest
                 PROVE  p.table # cur.table
      <4>1. old'.policies = old.policies
        BY <1>3 DEF RemoveRoute, SetRoutes, TypeInv, TypeOK
      <4> QED
        BY <2>0, <4>1 DEF NewPolicies
    <3> QED
      BY <1>0, <2>0, RemovingTracks
  <2>2. CASE RemovalFails(cur.table, RoutesTo(r.dest, cur.table) # {}, MissingRoute)
             /\ UNCHANGED <<routes, old, active>>
    <3>1. RoutesTo(r.dest, cur.table) = {}
      <4>1. ASSUME NEW x \in RoutesTo(r.dest, cur.table) PROVE FALSE
        BY <2>2, <4>1, RoutesFit, WindowFacts DEF RemovalFails
      <4> QED
        BY <4>1
    <3>2. ~rm.dry_run
      BY <2>2 DEF RemovalFails
    <3>3. drops = 0 => \A a \in active : a.rule_name = r.name => a.table_id # cur.table
      <4> SUFFICES ASSUME drops = 0, NEW a \in active, a.rule_name = r.name,
                          a.table_id = cur.table
                   PROVE  FALSE
        OBVIOUS
      <4>1. route_of(r, cur.table) \in routes
        BY <1>0, <3>2, Installation
      <4> QED
        BY <3>1, <4>1 DEF route_of, RoutesTo
    <3>4. \A x \in NewRoutes' : x.dest = r.dest => x.table # cur.table
      BY <2>2, <3>1 DEF RoutesTo, NewRoutes
    <3> QED
      BY <2>1, <2>2, <3>3, <3>4
  <2>3. CASE /\ IF rm.dry_run THEN UNCHANGED <<routes, old>>
                ELSE SetRoutes({x \in routes : x \in RoutesTo(r.dest, cur.table) =>
                       \E y \in RoutesTo(r.dest, cur.table) : y.metric < x.metric})
             /\ active' = untrack_active_route(r.name)
    <3>1. \A a \in active' : a.rule_name # r.name
      BY <2>3 DEF untrack_active_route
    <3>2. \A x \in NewRoutes' : x.dest = r.dest => x.table # cur.table
      <4>1. CASE rm.dry_run
        <5>1. NewRoutes = {} /\ UNCHANGED <<routes, old>>
          BY <2>3, <4>1 DEF StableInv, NothingNew
        <5> QED
          BY <5>1 DEF NewRoutes
      <4>2. CASE ~rm.dry_run
        <5>1. \A x \in routes' : x \notin RoutesTo(r.dest, cur.table) /\ x \in routes
          <6>1. \A x \in routes' :
                  /\ x \in routes
                  /\ x \in RoutesTo(r.dest, cur.table) =>
                       \E y \in RoutesTo(r.dest, cur.table) : y.metric < x.metric
            BY <2>3, <4>2 DEF SetRoutes
          <6> QED
            BY <1>0, <2>0, <6>1, RemoveRouteTakesAll
        <5> QED
          BY <5>1 DEF RoutesTo, NewRoutes
      <4> QED
        BY <1>0, <4>1, <4>2
    <3> QED
      BY <2>1, <3>1, <3>2
  <2> QED
    BY <1>0, <1>3, <2>2, <2>3 DEF RemoveRoute
<1> QED
  BY <1>1, <1>2, <1>3 DEF RuleOperation, SkipActive, AddPolicyRule, AddRoute, Applying

\* An operation further down the list is still there.
LEMMA LaterStays ==
  ASSUME TypeInv, todo # <<>>, todo' = Tail(todo),
         NEW k \in DOMAIN todo, todo[k].rule # cur.rule
  PROVE  \E m \in DOMAIN todo' : todo'[m] = todo[k]
<1>1. k # 1
  BY QueueTail
<1> QED
  BY <1>1, QueueTail

LEMMA DownRuleOperation ==
  ASSUME TypeInv, StableInv, WindowInv, BackInv, EventOps, DownInv, RuleOperation
  PROVE  DownInv'
<1> SUFFICES ASSUME NEW i \in Ifaces, NEW c \in Configs, NEW r \in DefaultRules,
                    (phase = "loop" /\ WentDown(i, c) /\ faults = 0)', r.via = i,
                    Configured(c, r)
             PROVE  Removing(r)'
  BY DEF DownInv, Configured, rules_map
<1>0. /\ todo # <<>> /\ faults = 0 /\ UNCHANGED <<rm, phase, drops>>
      /\ cur.kind = "remove" /\ r \in AllRules /\ Removing(r)
  <2>1. UNCHANGED <<phase, last, drops, rm>> /\ faults = 0 /\ todo # <<>>
    BY OperationFrame
  <2>2. WentDown(i, c) /\ phase = "loop"
    BY <2>1 DEF WentDown
  <2>3. cur.kind = "remove"
    BY <2>1, <2>2, CurrentKind
  <2> QED
    BY <2>1, <2>2, <2>3, RuleFacts DEF DownInv
<1>1. /\ NewRoutes' \subseteq NewRoutes /\ NewPolicies' \subseteq NewPolicies
      /\ active' \subseteq active
  <2>1. CASE RejectUnresolved
    BY <2>1, KernelSame DEF RejectUnresolved
  <2>2. CASE RemovePolicyRule
    BY <2>2, SetPoliciesNew DEF RemovePolicyRule, NewRoutes, NewPolicies, TypeInv
  <2>3. CASE RemoveRoute
    BY <2>3, SetRoutesNew DEF RemoveRoute, NewRoutes, NewPolicies, TypeInv,
       untrack_active_route
  <2> QED
    BY <1>0, <2>1, <2>2, <2>3 DEF RuleOperation, SkipActive, AddPolicyRule, AddRoute, Applying
<1>2. /\ \A x \in NewRoutes' : x.dest = r.dest => Pending(r, x.table)
      /\ \A p \in NewPolicies' : p.dest = r.dest => Pending(r, p.table)
      /\ drops = 0 => \A a \in active' : a.rule_name = r.name => Pending(r, a.table_id)
  BY <1>0, <1>1 DEF Removing
<1>3. CASE UNCHANGED todo \/ cur.rule # r
  <2>1. \A t : Pending(r, t) => Pending(r, t)'
    BY <1>3, PendingStep
  <2> QED
    BY <1>0, <1>2, <2>1 DEF Removing
<1>4. CASE todo' # todo /\ cur.rule = r
  <2>1. \A t : Pending(r, t) /\ t # cur.table => Pending(r, t)'
    BY PendingStep
  <2>2. /\ \A x \in NewRoutes' : x.dest = r.dest => x.table # cur.table
        /\ \A p \in NewPolicies' : p.dest = r.dest => p.table # cur.table
        /\ drops = 0 => \A a \in active' : a.rule_name = r.name => a.table_id # cur.table
    BY <1>0, <1>4, RemovalEnds
  <2> QED
    BY <1>0, <1>2, <2>1, <2>2 DEF Removing
<1> QED
  BY <1>3, <1>4

LEMMA UpRuleOperation ==
  ASSUME TypeInv, StableInv, EventOps, UpInv, RuleOperation
  PROVE  UpInv'
<1> SUFFICES ASSUME NEW i \in Ifaces, NEW c \in Configs,
                    (phase = "loop" /\ CameUp(i, c) /\ interface_up_applies(i)
                       /\ faults = 0)',
                    NEW n \in DOMAIN c.default_rules,
                    NEW r, r = c.default_rules[n], r.dest # Unresolved
             PROVE  Applied(r)'
  BY DEF UpInv
<1>1. /\ todo # <<>> /\ ~Fault /\ UNCHANGED faults /\ cur.kind # "remove"
      /\ r \in AllRules /\ Applied(r)
  <2>1. /\ UNCHANGED <<phase, last, net, ssid>> /\ faults = 0 /\ todo # <<>>
    BY OperationFrame
  <2>2. phase = "loop" /\ CameUp(i, c) /\ interface_up_applies(i)
    BY <2>1 DEF interface_up_applies, CameUp
  <2>3. cur.kind # "remove"
    BY <2>1, <2>2, CurrentKind
  <2>4. r \in AllRules
    BY ConfigRules, RuleFacts
  <2>5. ~Fault /\ UNCHANGED faults
    BY <2>1 DEF Fault
  <2> QED
    BY <2>1, <2>2, <2>3, <2>4, <2>5 DEF UpInv
<1>2. CASE SkipActive
  <2>1. UNCHANGED active /\ is_route_active(cur.rule.name)
    BY <1>2 DEF SkipActive
  <2>2. CASE cur.rule = r
    BY <2>1, <2>2 DEF Applied, is_route_active
  <2>3. CASE cur.rule # r
    <3>1. ASSUME NEW k \in DOMAIN todo, todo[k].kind = "default", todo[k].rule = r
          PROVE  Applied(r)'
      BY <1>1, <1>2, <2>3, <3>1, LaterStays DEF SkipActive, OpDone, Applied
    <3> QED
      BY <1>1, <2>1, <3>1 DEF Applied, is_route_active
  <2> QED
    BY <2>2, <2>3
<1>3. CASE RejectUnresolved
  <2>1. cur.rule # r /\ UNCHANGED active
    BY <1>3 DEF RejectUnresolved
  <2>2. ASSUME NEW k \in DOMAIN todo, todo[k].kind = "default", todo[k].rule = r
        PROVE  Applied(r)'
    BY <1>1, <1>3, <2>1, <2>2, LaterStays DEF RejectUnresolved, OpDone, Applied
  <2> QED
    BY <1>1, <2>1, <2>2 DEF Applied, is_route_active
<1>4. CASE AddPolicyRule
  BY <1>1, <1>4 DEF AddPolicyRule, Applied, is_route_active
<1>5. CASE AddRoute
  <2>1. active' = track_active_route(cur.rule, cur.table) /\ todo' = Tail(todo)
    <3>1. OpDone /\ (active' = track_active_route(cur.rule, cur.table) \/ Fault)
      BY <1>5 DEF AddRoute
    <3> QED
      BY <1>1, <3>1 DEF OpDone
  <2>2. \E a \in active' : a.rule_name = cur.rule.name
    <3> DEFINE new == [rule_name |-> cur.rule.name, interface |-> cur.rule.via,
                       table_id |-> cur.table]
    <3>1. new \in active' /\ new.rule_name = cur.rule.name
      BY <2>1 DEF track_active_route
    <3> QED
      BY <3>1
  <2>3. \A a \in active : a.rule_name # cur.rule.name => a \in active'
    BY <2>1 DEF track_active_route, untrack_active_route
  <2>4. CASE r.name = cur.rule.name
    BY <2>2, <2>4 DEF Applied, is_route_active
  <2>5. CASE r.name # cur.rule.name
    <3>1. ASSUME NEW k \in DOMAIN todo, todo[k].kind = "default", todo[k].rule = r
          PROVE  Applied(r)'
      BY <1>1, <2>1, <2>5, <3>1, LaterStays DEF Applied
    <3> QED
      BY <1>1, <2>3, <2>5, <3>1 DEF Applied, is_route_active
  <2> QED
    BY <2>4, <2>5
<1> QED
  BY <1>1, <1>2, <1>3, <1>4, <1>5 DEF RuleOperation, RemovePolicyRule, RemoveRoute

LEMMA HandlerStarts ==
  ASSUME TypeInv, StableInv, BackInv, HandleEvent
  PROVE  EventOps' /\ DownInv' /\ UpInv'
<1>1. PICK i \in Ifaces :
        \/ InterfaceUp(i) \/ InterfaceDown(i) \/ InterfaceRemoved(i)
        \/ WifiDisconnected(i) \/ AddressChanged(i)
        \/ \E s \in Ssids : WifiConnected(i, s)
  BY DEF HandleEvent
<1>2. CASE InterfaceUp(i)
  <2>1. /\ last' = <<"up", i, config>> /\ todo = <<>> /\ UNCHANGED <<ssid, config>>
        /\ \/ interface_up_applies(i) /\ apply_default_rules(i)
           \/ ~interface_up_applies(i) /\ todo' = <<>>
    BY <1>2 DEF InterfaceUp, Handle, Listening
  <2>2. interface_up_applies(i)' => interface_up_applies(i)
    BY <1>2, <2>1 DEF interface_up_applies, InterfaceUp, SetNet, TypeInv, TypeOK
  <2>3. \A k \in DOMAIN todo' : todo'[k].kind = "default"
    BY <2>1, AppliesDefaults
  <2>4. EventOps' /\ DownInv'
    BY <2>1, <2>3, EventNames DEF EventOps, DownInv, CameUp, WentDown
  <2>5. UpInv'
    <3> SUFFICES ASSUME interface_up_applies(i), NEW n \in DOMAIN config.default_rules
                 PROVE  Applied(config.default_rules[n])'
      BY <2>1, <2>2, EventNames DEF UpInv, CameUp
    <3> QED
      BY <2>1, AppliesDefaults DEF Applied
  <2> QED
    BY <2>4, <2>5
<1>3. CASE InterfaceDown(i) \/ InterfaceRemoved(i)
  <2>1. /\ last' = <<"down", i, config>> /\ ~half /\ phase = "loop" /\ handle_interface_down(i)
        /\ UNCHANGED <<config, active, kernelVars, faults, drops>>
    BY <1>3 DEF InterfaceDown, InterfaceRemoved, Handle, Listening, TypeInv
  <2>2. \A k \in DOMAIN todo' : todo'[k].kind = "remove"
    <3>1. todo' \in Seq(Ops) /\ \A k \in 1 .. Len(todo') : todo'[k].kind = "remove"
      BY <2>1, RemovalsType
    <3> QED
      BY <3>1
  <2>3. EventOps' /\ UpInv'
    BY <2>1, <2>2, EventNames DEF EventOps, UpInv, CameUp, WentDown
  <2>4. DownInv'
    <3> SUFFICES ASSUME NEW r \in DefaultRules, r.via = i, Configured(config, r), faults = 0
                 PROVE  Removing(r)'
      BY <2>1, EventNames DEF DownInv, WentDown
    <3>1. r \in AllRules
      BY RuleFacts
    <3>2. \A a \in active : a.rule_name = r.name => Pending(r, a.table_id)'
      <4> SUFFICES ASSUME NEW a \in active, a.rule_name = r.name
                   PROVE  Pending(r, a.table_id)'
        OBVIOUS
      <4>1. a.interface = i
        BY <3>1, TrackedRule
      <4> QED
        BY <2>1, <3>1, <4>1, RemovesTracked
    <3>3. \A t : Tracked(r, t) => Pending(r, t)'
      BY <3>2 DEF Tracked
    <3>4. \A x \in NewRoutes : x.dest = r.dest => Pending(r, x.table)'
      BY <2>1, <3>3 DEF StableInv, RoutesTracked
    <3>5. \A p \in NewPolicies : p.dest = r.dest => Pending(r, p.table)'
      BY <2>1, <3>3 DEF StableInv, PoliciesTracked, InFlight
    <3>6. NewRoutes' = NewRoutes /\ NewPolicies' = NewPolicies
      BY <2>1 DEF kernelVars, NewRoutes, NewPolicies
    <3> QED
      BY <2>1, <3>2, <3>4, <3>5, <3>6 DEF Removing
  <2> QED
    BY <2>3, <2>4
<1>4. CASE WifiDisconnected(i) \/ AddressChanged(i) \/ \E s \in Ssids : WifiConnected(i, s)
  <2>1. last' = NoEvent \/ \E s, c : last' = <<"connected", i, s, c>>
    BY <1>4 DEF WifiDisconnected, AddressChanged, WifiConnected, Handle
  <2>2. \A j, c : ~CameUp(j, c)' /\ ~WentDown(j, c)'
    BY <2>1, EventNames DEF CameUp, WentDown
  <2> QED
    BY <2>2 DEF EventOps, DownInv, UpInv
<1> QED
  BY <1>1, <1>2, <1>3, <1>4

LEMMA HandlerNext ==
  ASSUME TypeInv, StableInv, WindowInv, HandlerInv, [Next]_vars
  PROVE  HandlerInv'
<1> USE DEF dispatcherVars, workVars
<1>1. BackInv'
  BY EarlyNext, BackNext DEF HandlerInv
<1>a. ASSUME last' = NoEvent PROVE EventOps' /\ DownInv' /\ UpInv'
  BY <1>a, EventNames DEF EventOps, DownInv, UpInv, WentDown, CameUp
<1>b. ASSUME UNCHANGED <<phase, last, net, ssid, todo, active, faults>>,
             drops' = 0 => drops = 0,
             NewRoutes' \subseteq NewRoutes, NewPolicies' \subseteq NewPolicies
      PROVE  EventOps' /\ DownInv' /\ UpInv'
  <2>1. EventOps'
    BY <1>b DEF HandlerInv, EventOps, CameUp, WentDown
  <2>2. UpInv'
    BY <1>b DEF HandlerInv, UpInv, CameUp, Applied, is_route_active, interface_up_applies
  <2>3. DownInv'
    <3> SUFFICES ASSUME NEW i \in Ifaces, NEW c \in Configs, NEW r \in DefaultRules,
                        (phase = "loop" /\ WentDown(i, c) /\ faults = 0)', r.via = i,
                        Configured(c, r)
                 PROVE  Removing(r)'
      BY DEF DownInv, Configured, rules_map
    <3>1. Removing(r)
      BY <1>b DEF HandlerInv, DownInv, WentDown
    <3> QED
      BY <1>b, <3>1 DEF Removing, Pending
  <2> QED
    BY <2>1, <2>2, <2>3
<1>2. CASE RuleOperation
  BY <1>1, <1>2, EventOpsRuleOperation, DownRuleOperation, UpRuleOperation DEF HandlerInv
<1>3. CASE HandleEvent
  BY <1>1, <1>3, HandlerStarts DEF HandlerInv
<1>4. CASE (\E c \in Configs : Boot(c)) \/ Exit
  BY <1>1, <1>4, <1>a DEF HandlerInv, Boot, Exit, Idle
<1>5. CASE \/ \E known \in SUBSET Ifaces : \E up \in SUBSET known : Start(known, up)
           \/ FlushTables \/ CollectInitial \/ ApplyInitial \/ EnterLoop
  <2>1. phase \notin {"loop", "stopped"} /\ UNCHANGED last
    BY <1>5 DEF Start, FlushTables, CollectInitial, ApplyInitial, EnterLoop
  <2> QED
    BY <1>1, <1>a, <2>1 DEF HandlerInv, BackInv, EarlyInv
<1>6. CASE Stop
  BY <1>1, <1>6 DEF HandlerInv, Stop, Listening, EventOps, DownInv, UpInv, CameUp, WentDown
<1>7. ASSUME NEW i \in Ifaces, KernelDropsRoutes(i) PROVE HandlerInv'
  <2>1. NewRoutes' \subseteq NewRoutes /\ NewPolicies' \subseteq NewPolicies
    BY <1>7, SetRoutesNew DEF KernelDropsRoutes, NewRoutes, TypeInv
  <2>2. drops' # 0
    BY <1>7 DEF KernelDropsRoutes, TypeInv, TypeOK
  <2> QED
    BY <1>1, <1>7, <1>b, <2>1, <2>2 DEF HandlerInv, KernelDropsRoutes
<1>8. ASSUME NEW c \in Configs, UpdateConfig(c) PROVE HandlerInv'
  BY <1>1, <1>8, <1>b, KernelSame DEF HandlerInv, UpdateConfig
<1>9. CASE UNCHANGED vars
  BY <1>1, <1>9, <1>b, KernelSame DEF HandlerInv, vars
<1> QED
  BY <1>2, <1>3, <1>4, <1>5, <1>6, <1>7, <1>8, <1>9 DEF Next

-----------------------------------------------------------------------------
(* The theorems about handlers *)

\* What is tracked is in the kernel, and what a handler has not done is in its list.
THEOREM HandlerInvariance == Spec => [](WindowInv /\ HandlerInv)
<1>1. Init => WindowInv /\ HandlerInv
  BY EventNames DEF Init, WindowInv, QueuedIn, HandlerInv, BackInv, EarlyInv, TrackedShape,
     HalfAdded, TrackedInstalled, EventOps, DownInv, UpInv, WentDown, CameUp
<1>2. TypeInv /\ StableInv /\ WindowInv /\ HandlerInv /\ [Next]_vars =>
        WindowInv' /\ HandlerInv'
  BY HandlerNext, WindowNext
<1> QED
  BY <1>1, <1>2, TypeInvariance, StableInvariance, PTL DEF Spec

\* When the handler of a down event is done and no request failed, nothing of a
\* default rule via that interface is left in the kernel that was configured when the
\* event came, whatever was reloaded since, and unless the kernel dropped routes first,
\* none is tracked.
THEOREM DownEventsClean == Spec => []DownCleans
<1>1. HandlerInv => DownCleans
  <2> SUFFICES ASSUME HandlerInv, NEW i \in Ifaces, NEW c \in Configs, NEW r \in DefaultRules,
                      Listening, WentDown(i, c), faults = 0, r.via = i, Configured(c, r)
               PROVE  /\ \A x \in NewRoutes : x.dest # r.dest
                      /\ \A p \in NewPolicies : p.dest # r.dest
                      /\ drops = 0 => ~is_route_active(r.name)
    BY DEF DownCleans
  <2>1. Removing(r) /\ \A t : ~Pending(r, t)
    BY DEF HandlerInv, DownInv, Pending, Listening
  <2> QED
    BY <2>1 DEF Removing, is_route_active
<1> QED
  BY <1>1, HandlerInvariance, PTL

\* When the handler of an up event is done, no request failed and the kernel dropped
\* nothing, both halves of every default rule with an address are in the table it is
\* tracked in.
THEOREM UpEventsInstall == Spec => []UpInstalls
<1>1. TypeInv /\ HandlerInv => UpInstalls
  <2> SUFFICES ASSUME TypeInv, HandlerInv, NEW i \in Ifaces, NEW c \in Configs,
                      Listening, CameUp(i, c), interface_up_applies(i),
                      faults = 0, drops = 0, ~rm.dry_run,
                      NEW r \in ToSet(c.default_rules), r.dest # Unresolved
               PROVE  \E a \in active : a.rule_name = r.name /\ Installed(r, a.table_id)
    BY DEF UpInstalls
  <2>1. PICK n \in DOMAIN c.default_rules : r = c.default_rules[n]
    BY DEF ToSet
  <2>2. r \in AllRules
    BY <2>1, ConfigRules, RuleFacts
  <2>3. todo = <<>> /\ ~half /\ Applied(r)
    BY <2>1 DEF HandlerInv, UpInv, Listening, TypeInv
  <2>4. PICK a \in active : a.rule_name = r.name
    BY <2>3 DEF Applied, is_route_active
  <2>5. route_of(r, a.table_id) \in routes
    BY <2>2, <2>4, Installation DEF HandlerInv
  <2>6. route_of(r, a.table_id) \in RoutesTo(r.dest, a.table_id)
    BY <2>5 DEF RoutesTo, route_of
  <2>7. policy_of(r, a.table_id) \in policies
    BY <2>2, <2>3, <2>4, <2>6, Installation DEF HandlerInv, InFlight
  <2> QED
    BY <2>4, <2>5, <2>7 DEF Installed
<1> QED
  BY <1>1, HandlerInvariance, TypeInvariance, PTL

-----------------------------------------------------------------------------
(* The rule engine implements ManagedRules: initial states map to initial   *)
(* states, and every step to a step of ManagedRules or to none.              *)

\* The steps of ManagedRules, in terms of the engine.
Keeps(r)    == KnownTables(r)' = KnownTables(r) /\ RouteTables(r)' = RouteTables(r)
Applies(r)  == /\ KnownTables(r) = {} /\ RouteTables(r) = {}
               /\ \E t \in KnownTables(r)' : KnownTables(r)' = {t}
               /\ RouteTables(r)' \subseteq KnownTables(r)'
Removes(r)  == KnownTables(r) # {} /\ KnownTables(r)' = {} /\ RouteTables(r)' = {}
Drops(r)    == RouteTables(r)' = {} /\ KnownTables(r)' = KnownTables(r)
Forgets(r)  == KnownTables(r)' = {} /\ RouteTables(r)' = RouteTables(r)
Vanishes(r) == KnownTables(r)' = {} /\ RouteTables(r)' = {}

ManagedStep ==
  \/ \A r \in DefaultRules : Keeps(r) \/ Applies(r)
  \/ \A r \in DefaultRules : Keeps(r) \/ Removes(r)
  \/ \A r \in DefaultRules : Keeps(r) \/ Drops(r)
  \/ \A r \in DefaultRules : Forgets(r)
  \/ \A r \in DefaultRules : Vanishes(r)

LEMMA StepMaps == ManagedStep => Managed!ManagedNext
  BY DEF ManagedStep, Keeps, Applies, Removes, Drops, Forgets, Vanishes, Managed!ManagedNext,
         Managed!Unchanged, Managed!Applied, Managed!Removed, Managed!Dropped, Managed!Stopped,
         Managed!Gone

LEMMA InitMaps == Init => Managed!ManagedInit
  BY DEF Init, Managed!ManagedInit, KnownTables, RouteTables, NewRoutes

-----------------------------------------------------------------------------
(* Facts about the mapped variables *)

\* A step that touches neither the tracking nor the new routes.
LEMMA NothingManaged ==
  ASSUME UNCHANGED active, NewRoutes' = NewRoutes
  PROVE  ManagedStep
  BY DEF ManagedStep, Keeps, KnownTables, RouteTables

LEMMA KernelUnmoved ==
  ASSUME UNCHANGED active, UNCHANGED kernelVars
  PROVE  ManagedStep
<1>1. NewRoutes' = NewRoutes
  BY DEF kernelVars, NewRoutes
<1> QED
  BY <1>1, NothingManaged

\* While the process runs, a rule has routes in the one table it is tracked in.
LEMMA RouteWhereKnown ==
  ASSUME StableInv, phase # "stopped", NEW r \in DefaultRules
  PROVE  /\ RouteTables(r) \subseteq KnownTables(r)
         /\ \A s, t \in KnownTables(r) : s = t
<1>1. \A x \in NewRoutes : x.dest = r.dest => Tracked(r, x.table)
  BY DEF StableInv, RoutesTracked
<1>2. \A t : Tracked(r, t) => t \in KnownTables(r)
  BY DEF Tracked, KnownTables
<1> QED
  BY <1>1, <1>2 DEF RouteTables, KnownTables, StableInv, NamedOnce

\* Two rules share neither a name nor, if they have routes, a destination.
LEMMA OtherRules ==
  ASSUME TypeInv, NEW r \in AllRules, r.dest # Unresolved, NEW s \in DefaultRules, s # r
  PROVE  /\ s.name # r.name /\ s.dest # r.dest
  BY RuleFacts

-----------------------------------------------------------------------------
(* The steps *)

LEMMA AddRouteMaps ==
  ASSUME TypeInv, StableInv, AddRoute
  PROVE  ManagedStep
<1> DEFINE rt == route_of(cur.rule, cur.table)
           a  == [rule_name |-> cur.rule.name, interface |-> cur.rule.via, table_id |-> cur.table]
<1>0. /\ Working /\ half /\ cur.kind # "remove" /\ todo # <<>> /\ phase # "stopped"
      /\ UNCHANGED policies
  BY DEF AddRoute, Working
<1>1. /\ cur.rule \in AllRules /\ cur.rule.dest # Unresolved
      /\ cur.kind = "default" => cur.rule \in DefaultRules /\ ~is_route_active(cur.rule.name)
      /\ cur.kind \in {"default", "profile"}
      /\ cur.kind = "profile" => cur.rule \notin DefaultRules
  BY <1>0, CurrentOK, RuleFacts DEF TypeInv, StableInv, HalfOK, OpOK, Ops
<1>2. CASE UNCHANGED <<routes, old, active>>
  BY <1>0, <1>2, KernelUnmoved DEF kernelVars
<1>3. CASE /\ IF rm.dry_run \/ SameRoute(rt) # {} THEN UNCHANGED <<routes, old>>
              ELSE SetRoutes(routes \cup {rt})
           /\ active' = track_active_route(cur.rule, cur.table)
  <2>1. /\ NewRoutes \subseteq NewRoutes'
        /\ NewRoutes' \subseteq NewRoutes \cup {rt}
    <3>1. CASE UNCHANGED <<routes, old>>
      BY <3>1 DEF NewRoutes
    <3>2. CASE SetRoutes(routes \cup {rt})
      BY <1>0, <3>2, SetRoutesNew DEF NewRoutes, TypeInv
    <3> QED
      BY <1>3, <3>1, <3>2
  <2>2. active' = {b \in active : b.rule_name # cur.rule.name} \cup {a}
    BY <1>3 DEF track_active_route, untrack_active_route
  <2>3. ASSUME NEW r \in DefaultRules, r # cur.rule PROVE Keeps(r)
    <3>1. r.name # cur.rule.name /\ r.dest # cur.rule.dest
      BY <1>1, <2>3, OtherRules
    <3>2. KnownTables(r)' = KnownTables(r)
      BY <2>2, <3>1 DEF KnownTables
    <3>3. RouteTables(r)' = RouteTables(r)
      BY <2>1, <3>1 DEF RouteTables, route_of
    <3> QED
      BY <3>2, <3>3 DEF Keeps
  <2>4. ASSUME NEW r \in DefaultRules, r = cur.rule PROVE Applies(r)
    <3>1. ~is_route_active(r.name)
      BY <1>1, <2>4
    <3>2. KnownTables(r) = {} /\ RouteTables(r) = {}
      BY <1>0, <3>1, RouteWhereKnown DEF KnownTables, is_route_active
    <3>3. KnownTables(r)' = {cur.table}
      <4>1. {b \in active' : b.rule_name = r.name} = {a}
        BY <2>2, <2>4
      <4> HIDE DEF a
      <4>2. KnownTables(r)' = {b.table_id : b \in {a}}
        BY <4>1 DEF KnownTables
      <4>3. KnownTables(r)' = {a.table_id}
        BY <4>2
      <4> QED
        BY <4>3 DEF a
    <3>4. RouteTables(r)' \subseteq {cur.table}
      <4> SUFFICES ASSUME NEW x \in NewRoutes', x.dest = r.dest PROVE x.table = cur.table
        BY DEF RouteTables
      <4>1. x \notin NewRoutes
        BY <3>2 DEF RouteTables
      <4> QED
        BY <2>1, <4>1 DEF route_of
    <3> QED
      BY <3>2, <3>3, <3>4 DEF Applies
  <2> QED
    BY <2>3, <2>4 DEF ManagedStep
<1> QED
  BY <1>2, <1>3 DEF AddRoute

LEMMA RemoveRouteMaps ==
  ASSUME TypeInv, StableInv, RemoveRoute
  PROVE  ManagedStep
<1> DEFINE rts  == RoutesTo(cur.rule.dest, cur.table)
           left == {x \in routes : x \in rts => \E y \in rts : y.metric < x.metric}
<1>0. /\ Working /\ half /\ cur.kind = "remove" /\ todo # <<>> /\ phase # "stopped"
      /\ UNCHANGED <<policies, rm>>
  BY DEF RemoveRoute, Working, dispatcherVars
<1>1. cur.rule \in AllRules /\ cur.rule.dest # Unresolved /\ OpOK(cur, active)
  BY <1>0, CurrentOK DEF TypeInv
<1>2. CASE UNCHANGED <<routes, old, active>>
  BY <1>0, <1>2, KernelUnmoved DEF kernelVars
<1>3. CASE /\ IF rm.dry_run THEN UNCHANGED <<routes, old>> ELSE SetRoutes(left)
           /\ active' = untrack_active_route(cur.rule.name)
  <2>1. /\ NewRoutes' \subseteq NewRoutes
        /\ \A x \in NewRoutes' : x \notin rts
        /\ \A x \in NewRoutes : x \notin rts => x \in NewRoutes'
    <3>1. CASE rm.dry_run
      <4>1. NewRoutes = {} /\ UNCHANGED <<routes, old>>
        BY <1>3, <3>1 DEF StableInv, NothingNew
      <4> QED
        BY <4>1 DEF NewRoutes
    <3>2. CASE ~rm.dry_run
      <4>1. \A x \in left : x \notin rts
        BY <1>1, RemoveRouteTakesAll
      <4>2. NewRoutes' = left \ old.routes
        BY <1>0, <1>3, <3>2, SetRoutesNew DEF TypeInv
      <4> HIDE DEF rts
      <4> QED
        BY <4>1, <4>2 DEF NewRoutes, left
    <3> QED
      BY <3>1, <3>2
  <2>2. active' = {b \in active : b.rule_name # cur.rule.name}
    BY <1>3 DEF untrack_active_route
  <2>3. ASSUME NEW r \in DefaultRules, r # cur.rule PROVE Keeps(r)
    <3>1. r.name # cur.rule.name /\ r.dest # cur.rule.dest
      BY <1>1, <2>3, OtherRules
    <3>2. KnownTables(r)' = KnownTables(r)
      BY <2>2, <3>1 DEF KnownTables
    <3>3. RouteTables(r)' = RouteTables(r)
      BY <2>1, <3>1 DEF RouteTables, RoutesTo
    <3> QED
      BY <3>2, <3>3 DEF Keeps
  <2>4. ASSUME NEW r \in DefaultRules, r = cur.rule PROVE Keeps(r) \/ Removes(r)
    <3>1. \A b \in active : b.rule_name = r.name => b.table_id = cur.table
      BY <1>0, <1>1, <2>4 DEF OpOK
    <3>2. RouteTables(r) \subseteq KnownTables(r) /\ KnownTables(r) \subseteq {cur.table}
      BY <1>0, <3>1, RouteWhereKnown DEF KnownTables
    <3>3. KnownTables(r)' = {}
      BY <2>2, <2>4 DEF KnownTables
    <3>4. RouteTables(r)' = {}
      <4> SUFFICES ASSUME NEW x \in NewRoutes', x.dest = r.dest PROVE FALSE
        BY DEF RouteTables
      <4>1. x \in NewRoutes /\ x \in routes /\ x.table \in RouteTables(r)
        BY <2>1 DEF RouteTables, NewRoutes
      <4>2. x \in rts
        BY <2>4, <3>2, <4>1 DEF RoutesTo
      <4> QED
        BY <2>1, <4>2
    <3>5. CASE KnownTables(r) = {}
      BY <3>2, <3>3, <3>4, <3>5 DEF Keeps
    <3>6. CASE KnownTables(r) # {}
      BY <3>3, <3>4, <3>6 DEF Removes
    <3> QED
      BY <3>5, <3>6
  <2> QED
    BY <2>3, <2>4 DEF ManagedStep
<1> QED
  BY <1>2, <1>3 DEF RemoveRoute

LEMMA RuleOperationMaps ==
  ASSUME TypeInv, StableInv, RuleOperation
  PROVE  ManagedStep
<1>1. CASE SkipActive \/ RejectUnresolved
  BY <1>1, KernelUnmoved DEF SkipActive, RejectUnresolved
<1>2. CASE AddPolicyRule \/ RemovePolicyRule
  <2>1. UNCHANGED <<routes, active>>
    BY <1>2 DEF AddPolicyRule, RemovePolicyRule
  <2>2. ASSUME NEW S, SetPolicies(S) PROVE NewRoutes' = NewRoutes
    BY <2>1, <2>2, SetPoliciesNew DEF TypeInv
  <2>3. UNCHANGED <<policies, old>> \/ \E S : SetPolicies(S)
    BY <1>2 DEF AddPolicyRule, RemovePolicyRule
  <2>4. NewRoutes' = NewRoutes
    BY <2>1, <2>2, <2>3 DEF NewRoutes
  <2> QED
    BY <2>1, <2>4, NothingManaged
<1> QED
  BY <1>1, <1>2, AddRouteMaps, RemoveRouteMaps DEF RuleOperation

\* A process that has added nothing and tracks nothing after the step.
LEMMA FreshMaps ==
  ASSUME Idle, NewRoutes' = {}
  PROVE  ManagedStep
  BY DEF Idle, ManagedStep, Vanishes, KnownTables, RouteTables

LEMMA FlushMaps ==
  ASSUME TypeInv, StableInv, FlushTables
  PROVE  ManagedStep
<1>1. UNCHANGED active /\ phase = "cleanup"
  BY DEF FlushTables
<1>2. NewRoutes' \subseteq NewRoutes
  <2>1. UNCHANGED kernelVars \/
        \E R, P : /\ R \subseteq routes /\ routes' = R
                  /\ old' = [policies |-> old.policies \cap P, routes |-> old.routes \cap R]
    BY DEF FlushTables
  <2> QED
    BY <2>1 DEF NewRoutes, kernelVars
<1>3. ASSUME NEW r \in DefaultRules PROVE Keeps(r) \/ Drops(r)
  <2>1. KnownTables(r)' = KnownTables(r)
    BY <1>1 DEF KnownTables
  <2>2. RouteTables(r)' \subseteq RouteTables(r)
    BY <1>2 DEF RouteTables
  <2>3. \A s, t \in RouteTables(r) : s = t
    BY <1>1, RouteWhereKnown
  <2>4. RouteTables(r)' = {} \/ RouteTables(r)' = RouteTables(r)
    BY <2>2, <2>3
  <2> QED
    BY <2>1, <2>4 DEF Keeps, Drops
<1> QED
  BY <1>3 DEF ManagedStep

LEMMA KernelDropMaps ==
  ASSUME TypeInv, StableInv, NEW i \in Ifaces, KernelDropsRoutes(i)
  PROVE  ManagedStep
<1>1. UNCHANGED <<active, policies>> /\ SetRoutes({x \in routes : x.dev # i})
  BY DEF KernelDropsRoutes, workVars
<1>2. NewRoutes' = {x \in NewRoutes : x.dev # i}
  BY <1>1, SetRoutesNew DEF NewRoutes, TypeInv
<1>3. ASSUME NEW r \in DefaultRules PROVE Keeps(r) \/ Drops(r)
  <2>1. \A x \in NewRoutes : x.dest = r.dest => x.dev = r.via
    BY RuleFacts DEF StableInv, RouteShape, NewRoutes
  <2>2. KnownTables(r)' = KnownTables(r)
    BY <1>1 DEF KnownTables
  <2>3. CASE r.via = i
    <3>1. RouteTables(r)' = {}
      BY <1>2, <2>1, <2>3 DEF RouteTables
    <3> QED
      BY <2>2, <3>1 DEF Drops
  <2>4. CASE r.via # i
    <3>1. RouteTables(r)' = RouteTables(r)
      BY <1>2, <2>1, <2>4 DEF RouteTables
    <3> QED
      BY <2>2, <3>1 DEF Keeps
  <2> QED
    BY <2>3, <2>4
<1> QED
  BY <1>3 DEF ManagedStep

LEMMA LifecycleMaps ==
  ASSUME TypeInv, StableInv,
         \/ \E c \in Configs : Boot(c) \/ UpdateConfig(c)
         \/ \E known \in SUBSET Ifaces : \E up \in SUBSET known : Start(known, up)
         \/ CollectInitial \/ ApplyInitial \/ EnterLoop \/ Stop \/ Exit
  PROVE  ManagedStep
<1>1. CASE \E c \in Configs : Boot(c)
  <2>1. Idle /\ UNCHANGED kernelVars /\ phase = "down"
    BY <1>1 DEF Boot
  <2>2. NewRoutes' = {}
    BY <2>1 DEF StableInv, NothingNew, NewRoutes, kernelVars
  <2> QED
    BY <2>1, <2>2, FreshMaps
<1>2. CASE Exit
  <2>1. Idle /\ NewRoutes' = {}
    BY <1>2 DEF Exit, NewRoutes
  <2> QED
    BY <2>1, FreshMaps
<1>3. CASE Stop
  <2>1. active' = {} /\ NewRoutes' = NewRoutes
    BY <1>3 DEF Stop, kernelVars, NewRoutes
  <2> QED
    BY <2>1 DEF ManagedStep, Forgets, KnownTables, RouteTables
<1>4. CASE \/ \E c \in Configs : UpdateConfig(c)
           \/ \E known \in SUBSET Ifaces : \E up \in SUBSET known : Start(known, up)
           \/ CollectInitial \/ ApplyInitial \/ EnterLoop
  <2>1. UNCHANGED active /\ UNCHANGED kernelVars
    BY <1>4 DEF UpdateConfig, Start, CollectInitial, ApplyInitial, EnterLoop, workVars
  <2> QED
    BY <2>1, KernelUnmoved
<1> QED
  BY <1>1, <1>2, <1>3, <1>4

LEMMA EventMaps ==
  ASSUME HandleEvent
  PROVE  ManagedStep
<1>1. UNCHANGED active /\ UNCHANGED kernelVars
  BY DEF HandleEvent, InterfaceUp, InterfaceDown, InterfaceRemoved, WifiConnected,
         WifiDisconnected, AddressChanged, Handle
<1> QED
  BY <1>1, KernelUnmoved

LEMMA NextMaps == TypeInv /\ StableInv /\ [Next]_vars => ManagedStep
<1> SUFFICES ASSUME TypeInv, StableInv, [Next]_vars PROVE ManagedStep
  OBVIOUS
<1>1. CASE UNCHANGED vars
  BY <1>1, KernelUnmoved DEF vars, workVars
<1>2. CASE \E i \in Ifaces : KernelDropsRoutes(i)
  BY <1>2, KernelDropMaps
<1>3. CASE FlushTables
  BY <1>3, FlushMaps
<1>4. CASE RuleOperation
  BY <1>4, RuleOperationMaps
<1>5. CASE HandleEvent
  BY <1>5, EventMaps
<1> QED
  BY <1>1, <1>2, <1>3, <1>4, <1>5, LifecycleMaps DEF Next

\* Whatever requests fail and however events, reloads and restarts interleave, the
\* dispatcher and the executor implement ManagedRules.
THEOREM EngineImplementsManagedRules == Spec => RulesManaged
<1>1. Init => Managed!ManagedInit
  BY InitMaps
<1>2. TypeInv /\ StableInv /\ [Next]_vars => [Managed!ManagedNext]_(Managed!managed_vars)
  BY NextMaps, StepMaps
<1> QED
  BY <1>1, <1>2, TypeInvariance, StableInvariance, PTL
     DEF Spec, RulesManaged, Managed!ManagedSpec
===============================================================================
