----------------------------- MODULE EngineProofs -----------------------------
(***************************************************************************)
(* Type correctness of the rule engine and the purity of dry runs, for all *)
(* interfaces, rules, configurations and bounds.                           *)
(***************************************************************************)
EXTENDS Engine, FiniteSetTheorems, SequenceTheorems, TLAPS

-----------------------------------------------------------------------------
(* The index map, for every set of interfaces and every u8 width.  An index  *)
(* is smaller than the number of interface names there are, although indices *)
(* are neither unique nor bounded by the size of the map they are in.        *)

\* An index map over interfaces of I.
IndexMap(f, I) ==
  /\ DOMAIN f \subseteq I
  /\ f \in [DOMAIN f -> 0 .. IndexMax]
  /\ \A i \in DOMAIN f : f[i] < Cardinality(I)

\* A truncated size is an index, and no larger than the size.
LEMMA Truncated ==
  ASSUME NEW n \in Nat
  PROVE  n % IndexMod \in 0 .. IndexMax /\ n % IndexMod <= n
  BY IndexModAssumption DEF IndexMax

\* The empty map of a dispatcher that does not exist yet.
LEMMA NoIndicesMap ==
  ASSUME NEW I
  PROVE  IndexMap(NoIndices, I)
  BY DEF IndexMap, NoIndices

\* get_table_id_for_interface(): the map stays within the interfaces, and i has
\* an index afterwards.
LEMMA AssignIndexMap ==
  ASSUME NEW I, IsFiniteSet(I), NEW f, IndexMap(f, I), NEW i \in I
  PROVE  IndexMap(assign_index(f, i), I) /\ i \in DOMAIN assign_index(f, i)
<1>1. CASE i \in DOMAIN f
  BY <1>1 DEF assign_index
<1>2. CASE i \notin DOMAIN f
  <2>1. IsFiniteSet(DOMAIN f) /\ Cardinality(DOMAIN f) \in Nat
    BY FS_Subset, FS_CardinalityType DEF IndexMap
  <2>2. /\ IsFiniteSet(DOMAIN f \cup {i})
        /\ Cardinality(DOMAIN f \cup {i}) = Cardinality(DOMAIN f) + 1
    BY <1>2, <2>1, FS_AddElement
  <2>3. DOMAIN f \cup {i} \subseteq I
    BY DEF IndexMap
  <2>4. Cardinality(DOMAIN f) + 1 <= Cardinality(I) /\ Cardinality(I) \in Nat
    BY <2>2, <2>3, FS_Subset, FS_CardinalityType
  <2>5. /\ Cardinality(DOMAIN f) % IndexMod \in 0 .. IndexMax
        /\ Cardinality(DOMAIN f) % IndexMod < Cardinality(I)
    BY <2>1, <2>4, Truncated, IndexModAssumption DEF IndexMax
  <2> QED
    BY <1>2, <2>3, <2>5 DEF assign_index, IndexMap
<1> QED
  BY <1>1, <1>2

\* update_config(): a rebuilt map stays within the interfaces.
LEMMA RebuildIndexMap ==
  ASSUME NEW I, IsFiniteSet(I), NEW f, IndexMap(f, I), NEW S \in SUBSET I,
         NEW h \in rebuild_indices(f, S)
  PROVE  IndexMap(h, I)
<1> DEFINE kept == S \cap DOMAIN f
           fresh == S \ kept
           next == Cardinality(DOMAIN f) % IndexMod
<1>1. /\ IsFiniteSet(DOMAIN f) /\ Cardinality(DOMAIN f) \in Nat
      /\ IsFiniteSet(fresh) /\ Cardinality(fresh) \in Nat
      /\ Cardinality(I) \in Nat
  BY FS_Subset, FS_CardinalityType DEF IndexMap
<1>2. next \in 0 .. IndexMax /\ next <= Cardinality(DOMAIN f)
  BY <1>1, Truncated
<1>3. Cardinality(DOMAIN f) + Cardinality(fresh) <= Cardinality(I)
  <2>1. DOMAIN f \cap fresh = {}
    OBVIOUS
  <2>2. Cardinality(DOMAIN f \cup fresh) = Cardinality(DOMAIN f) + Cardinality(fresh)
    BY <1>1, <2>1, FS_Union, FS_EmptySet
  <2>3. DOMAIN f \cup fresh \subseteq I
    BY DEF IndexMap
  <2> QED
    BY <2>2, <2>3, FS_Subset
<1>4. PICK g \in Numberings(fresh, next) :
        h = [i \in kept \cup {j \in fresh : g[j] < IndexMax} |->
               IF i \in kept THEN f[i] ELSE g[i]]
  BY DEF rebuild_indices
<1>5. g \in [fresh -> next .. next + Cardinality(fresh) - 1]
  BY <1>4 DEF Numberings, Injection
<1>6. \A i \in DOMAIN h : h[i] \in 0 .. IndexMax /\ h[i] < Cardinality(I)
  <2> SUFFICES ASSUME NEW i \in DOMAIN h
               PROVE  h[i] \in 0 .. IndexMax /\ h[i] < Cardinality(I)
    OBVIOUS
  <2>1. CASE i \in kept
    BY <1>4, <2>1 DEF IndexMap
  <2>2. CASE i \notin kept
    <3>1. i \in fresh /\ h[i] = g[i] /\ g[i] < IndexMax
      BY <1>4, <2>2
    <3>2. g[i] \in next .. next + Cardinality(fresh) - 1
      BY <1>5, <3>1
    <3> HIDE DEF next, fresh
    <3> QED
      BY <1>1, <1>2, <1>3, <3>1, <3>2, IndexModAssumption DEF IndexMax
  <2> QED
    BY <2>1, <2>2
<1>7. DOMAIN h \subseteq I /\ h = [i \in DOMAIN h |-> h[i]]
  BY <1>4
<1> QED
  BY <1>6, <1>7 DEF IndexMap

\* EventDispatcher::new(): so does the first map.
LEMMA NewIndexMap ==
  ASSUME NEW I, IsFiniteSet(I), NEW S \in SUBSET I, NEW h \in new_indices(S)
  PROVE  IndexMap(h, I)
  BY NoIndicesMap, RebuildIndexMap DEF new_indices

-----------------------------------------------------------------------------
(* The engine *)

\* TypeOK is not inductive by itself: that a set of removals can be put in an
\* order needs the tracking to be finite, and the second half of an operation
\* needs an operation with a destination.
TypeInv ==
  /\ TypeOK
  /\ IsFiniteSet(active)
  /\ IndexMap(indices, Ifaces)
  /\ half => todo # <<>> /\ cur.rule.dest # Unresolved

-----------------------------------------------------------------------------
(* The data *)

LEMMA OrderingIsSeq ==
  ASSUME NEW S, IsFiniteSet(S), NEW s \in SetToSeqs(S)
  PROVE  s \in Seq(S)
  BY FS_CardinalityType DEF SetToSeqs

LEMMA ConfigFields ==
  ASSUME NEW c \in Configs
  PROVE  /\ c.interfaces \subseteq Ifaces
         /\ c.default_rules \in Seq(Rules)
         /\ DOMAIN c.wifi_profiles \subseteq Ssids
         /\ \A s \in DOMAIN c.wifi_profiles : c.wifi_profiles[s] \in Seq(Rules)
         /\ c.table_id_start \in Nat
         /\ c.dry_run \in BOOLEAN
  BY ConfigsAssumption

LEMMA RuleFields ==
  ASSUME NEW r \in Rules
  PROVE  /\ r.name \in Names
         /\ r.dest \in Dests \cup {Unresolved}
         /\ r.via \in Ifaces
         /\ r.priority \in Nat
  BY RulesAssumption

\* The head of a non-empty list of operations, and what is left after it.
LEMMA CurrentOp ==
  ASSUME todo \in Seq(Ops), todo # <<>>
  PROVE  /\ cur \in Ops
         /\ cur.rule \in Rules
         /\ cur.table \in Tables
         /\ Tail(todo) \in Seq(Ops)
<1>1. cur \in Ops /\ Tail(todo) \in Seq(Ops)
  BY HeadTailProperties DEF cur
<1> QED
  BY <1>1 DEF Ops

LEMMA OpsForType ==
  ASSUME NEW kind \in {"default", "profile"}, NEW rules \in Seq(Rules), NEW t \in Tables
  PROVE  OpsFor(kind, rules, t) \in Seq(Ops)
  BY DEF OpsFor, Ops

\* handle_interface_down() works through a list of removals, each of a rule that
\* is found under the name of something tracked via i, from the tracked table.
LEMMA RemovalsType ==
  ASSUME TypeInv, NEW i \in Ifaces, handle_interface_down(i)
  PROVE  /\ todo' \in Seq(Ops)
         /\ \A k \in 1 .. Len(todo') :
              \E a \in active :
                /\ a.interface = i
                /\ todo'[k].kind = "remove"
                /\ todo'[k].rule \in rules_map(config, a.rule_name)
                /\ todo'[k].table = a.table_id
<1> DEFINE gone == removable(i)
<1>1. PICK order \in SetToSeqs(gone), pick \in [gone -> Rules] :
        /\ \A a \in gone : pick[a] \in rules_map(config, a.rule_name)
        /\ todo' = [k \in DOMAIN order |->
                      [kind |-> "remove", rule |-> pick[order[k]],
                       table |-> order[k].table_id]]
  BY DEF handle_interface_down
<1>2. /\ \A a \in gone : /\ a \in active /\ a.interface = i
                          /\ a.table_id \in Tables
      /\ IsFiniteSet(gone)
  BY FS_Subset DEF removable, depends_on, TypeInv, TypeOK, ActiveRoute
<1>3. order \in Seq(gone)
  BY <1>1, <1>2, OrderingIsSeq
<1> HIDE DEF gone
<1>4. /\ Len(order) \in Nat /\ DOMAIN order = 1 .. Len(order)
      /\ \A k \in 1 .. Len(order) : order[k] \in gone
  BY <1>3
<1>5. todo' \in [1 .. Len(order) -> Ops]
  BY <1>1, <1>2, <1>4 DEF Ops
<1>6. todo' \in Seq(Ops) /\ Len(todo') = Len(order)
  BY <1>4, <1>5
<1> QED
  BY <1>1, <1>2, <1>4, <1>6

LEMMA KernelEntryTypes ==
  ASSUME NEW r \in Rules, r.dest # Unresolved, NEW t \in Tables
  PROVE  policy_of(r, t) \in PolicyRule /\ route_of(r, t) \in Route
  BY RuleFields DEF policy_of, route_of, PolicyRule, Route

LEMMA TrackType ==
  ASSUME TypeInv, NEW r \in Rules, NEW t \in Tables
  PROVE  /\ track_active_route(r, t) \subseteq ActiveRoute
         /\ IsFiniteSet(track_active_route(r, t))
<1>1. untrack_active_route(r.name) \subseteq active
  BY DEF untrack_active_route
<1>2. IsFiniteSet(untrack_active_route(r.name))
  BY <1>1, FS_Subset DEF TypeInv
<1>3. [rule_name |-> r.name, interface |-> r.via, table_id |-> t] \in ActiveRoute
  BY RuleFields DEF ActiveRoute
<1> QED
  BY <1>1, <1>2, <1>3, FS_AddElement DEF track_active_route, TypeInv, TypeOK

LEMMA UntrackType ==
  ASSUME TypeInv, NEW n
  PROVE  /\ untrack_active_route(n) \subseteq ActiveRoute
         /\ IsFiniteSet(untrack_active_route(n))
  BY FS_Subset DEF untrack_active_route, TypeInv, TypeOK

-----------------------------------------------------------------------------
(* The parts of handlers that several actions share *)

IndicesOK(f) ==
  /\ DOMAIN f \subseteq Ifaces
  /\ f \in [DOMAIN f -> 0 .. IndexMax]
  /\ IndexMap(f, Ifaces)

LEMMA ApplyToType ==
  ASSUME TypeInv, NEW i \in Ifaces, NEW kind \in {"default", "profile"},
         NEW rules \in Seq(Rules), ApplyTo(i, kind, rules)
  PROVE  /\ IndicesOK(indices') /\ todo' \in Seq(Ops)
         /\ i \in DOMAIN indices' /\ rm.base_table_id + indices'[i] \in Tables
<1>1. IndexMap(indices', Ifaces) /\ i \in DOMAIN indices'
  BY AssignIndexMap, RulesAssumption DEF ApplyTo, TypeInv
<1>2. rm.base_table_id + indices'[i] \in Tables
  BY <1>1, IndexModAssumption DEF IndexMap, Tables, TypeInv, TypeOK, IndexMax
<1>3. todo' \in Seq(Ops)
  BY <1>2, OpsForType DEF ApplyTo
<1> QED
  BY <1>1, <1>2, <1>3 DEF IndicesOK, IndexMap

LEMMA ApplyDefaultsType ==
  ASSUME TypeInv, NEW i \in Ifaces, apply_default_rules(i)
  PROVE  IndicesOK(indices') /\ todo' \in Seq(Ops)
<1>1. config.default_rules \in Seq(Rules)
  BY ConfigFields DEF TypeInv, TypeOK
<1>2. CASE config.default_rules = <<>>
  BY <1>2 DEF apply_default_rules, TypeInv, TypeOK, IndicesOK
<1>3. CASE config.default_rules # <<>>
  BY <1>1, <1>3, ApplyToType DEF apply_default_rules
<1> QED
  BY <1>2, <1>3

LEMMA ApplyRulesType ==
  ASSUME TypeInv, NEW i \in Ifaces, NEW s, apply_rules_for_interface(i, s)
  PROVE  IndicesOK(indices') /\ todo' \in Seq(Ops)
<1>1. CASE s \in DOMAIN config.wifi_profiles
  <2>1. config.wifi_profiles[s] \in Seq(Rules)
    BY <1>1, ConfigFields DEF TypeInv, TypeOK
  <2> QED
    BY <1>1, <2>1, ApplyToType DEF apply_rules_for_interface
<1>2. CASE s \notin DOMAIN config.wifi_profiles
  BY <1>2, ApplyDefaultsType DEF apply_rules_for_interface
<1> QED
  BY <1>1, <1>2

\* Shrinking or growing a kernel table keeps the history within it.
LEMMA SetPoliciesType ==
  ASSUME TypeInv, NEW S \in SUBSET PolicyRule, SetPolicies(S)
  PROVE  /\ policies' \subseteq PolicyRule
         /\ old' \in [policies: SUBSET policies', routes: SUBSET routes]
  BY DEF SetPolicies, TypeInv, TypeOK

LEMMA SetRoutesType ==
  ASSUME TypeInv, NEW S \in SUBSET Route, SetRoutes(S)
  PROVE  /\ routes' \subseteq Route
         /\ old' \in [policies: SUBSET policies, routes: SUBSET routes']
  BY DEF SetRoutes, TypeInv, TypeOK

LEMMA FaultType ==
  ASSUME TypeInv, Fault
  PROVE  faults' \in 0 .. MaxFaults
  BY BoundsAssumption DEF Fault, TypeInv, TypeOK

-----------------------------------------------------------------------------
(* Type correctness *)

LEMMA TypeInit == Init => TypeInv
<1> SUFFICES ASSUME Init PROVE TypeInv
  OBVIOUS
<1>1. IndexMap(indices, Ifaces)
  BY NoIndicesMap DEF Init
<1>2. rm \in [base_table_id: Tables, dry_run: BOOLEAN]
  BY ConfigFields DEF Init, Tables
<1>3. /\ 0 \in 0 .. MaxInterfaces /\ 0 \in 0 .. MaxFaults /\ 0 \in 0 .. MaxDrops
      /\ last \in Events
  BY BoundsAssumption DEF Init, Events
<1>4. /\ starting \in Seq(Ifaces) /\ todo \in Seq(Ops)
      /\ old \in [policies: SUBSET policies, routes: SUBSET routes]
      /\ net \in [Ifaces -> {"unknown", "down", "up"}]
      /\ ssid \in [Ifaces -> Ssids \cup {NoSsid}]
  BY DEF Init
<1>5. /\ flushed \in 0 .. MaxInterfaces /\ faults \in 0 .. MaxFaults
      /\ drops \in 0 .. MaxDrops
      /\ active \subseteq ActiveRoute /\ policies \subseteq PolicyRule
      /\ routes \subseteq Route /\ half \in BOOLEAN
      /\ config \in Configs /\ phase = "down"
  BY <1>3 DEF Init
<1>6. TypeOK
  BY <1>1, <1>2, <1>3, <1>4, <1>5 DEF TypeOK, IndexMap
<1> QED
  BY <1>1, <1>6, FS_EmptySet DEF Init, TypeInv

\* The six kinds of steps of a rule operation.
LEMMA TypeRuleOperation ==
  ASSUME TypeInv, RuleOperation
  PROVE  TypeInv'
<1> USE DEF dispatcherVars, workVars, kernelVars
<1>1. todo \in Seq(Ops) /\ todo # <<>>
  BY DEF RuleOperation, SkipActive, RejectUnresolved, AddPolicyRule, AddRoute,
         RemovePolicyRule, RemoveRoute, Working, TypeInv, TypeOK
<1>2. cur \in Ops /\ cur.rule \in Rules /\ cur.table \in Tables /\ Tail(todo) \in Seq(Ops)
  BY <1>1, CurrentOp
<1>3. CASE SkipActive
  BY <1>2, <1>3 DEF SkipActive, OpDone, TypeInv, TypeOK
<1>4. CASE RejectUnresolved
  BY <1>2, <1>4 DEF RejectUnresolved, OpDone, TypeInv, TypeOK
<1>5. CASE AddPolicyRule
  <2>1. policy_of(cur.rule, cur.table) \in PolicyRule
    BY <1>2, <1>5, KernelEntryTypes DEF AddPolicyRule
  <2>2. CASE Fault /\ OpDone /\ UNCHANGED <<policies, old>>
    BY <1>2, <1>5, <2>2, FaultType DEF AddPolicyRule, OpDone, TypeInv, TypeOK
  <2>3. CASE /\ IF rm.dry_run THEN UNCHANGED <<policies, old>>
                ELSE SetPolicies(policies \cup {policy_of(cur.rule, cur.table)})
             /\ half' = TRUE
             /\ UNCHANGED <<todo, faults>>
    <3>1. /\ policies' \subseteq PolicyRule
          /\ old' \in [policies: SUBSET policies', routes: SUBSET routes]
      BY <2>1, <2>3, SetPoliciesType DEF TypeInv, TypeOK
    <3> QED
      BY <1>1, <1>5, <2>3, <3>1 DEF AddPolicyRule, cur, TypeInv, TypeOK
  <2> QED
    BY <1>5, <2>2, <2>3 DEF AddPolicyRule
<1>6. CASE AddRoute
  <2> DEFINE rt == route_of(cur.rule, cur.table)
  <2>1. CASE Fault /\ UNCHANGED <<routes, old, active>>
    BY <1>2, <1>6, <2>1, FaultType DEF AddRoute, OpDone, TypeInv, TypeOK
  <2>2. CASE /\ IF rm.dry_run \/ SameRoute(rt) # {} THEN UNCHANGED <<routes, old>>
                ELSE SetRoutes(routes \cup {rt})
             /\ active' = track_active_route(cur.rule, cur.table)
             /\ UNCHANGED faults
    <3>1. active' \subseteq ActiveRoute /\ IsFiniteSet(active')
      BY <1>2, <2>2, TrackType
    <3>2. /\ routes' \subseteq Route
          /\ old' \in [policies: SUBSET policies, routes: SUBSET routes']
      <4>1. rt \in Route
        BY <1>2, <1>6, KernelEntryTypes DEF AddRoute, TypeInv
      <4> QED
        BY <2>2, <4>1, SetRoutesType DEF TypeInv, TypeOK
    <3> QED
      BY <1>2, <1>6, <2>2, <3>1, <3>2 DEF AddRoute, OpDone, TypeInv, TypeOK
  <2> QED
    BY <1>6, <2>1, <2>2 DEF AddRoute
<1>7. CASE RemovePolicyRule
  <2> DEFINE p == policy_of(cur.rule, cur.table)
             fails == RemovalFails(cur.table, p \in policies, MissingRule)
  <2>1. CASE /\ Fault \/ (fails /\ UNCHANGED faults)
             /\ OpDone
             /\ UNCHANGED <<policies, old>>
    <3>1. faults' \in 0 .. MaxFaults
      BY <2>1, FaultType DEF TypeInv, TypeOK
    <3> QED
      BY <1>2, <1>7, <2>1, <3>1 DEF RemovePolicyRule, OpDone, TypeInv, TypeOK
  <2>2. CASE /\ IF rm.dry_run THEN UNCHANGED <<policies, old>> ELSE SetPolicies(policies \ {p})
             /\ half' = TRUE
             /\ UNCHANGED <<todo, faults>>
    <3>1. /\ policies' \subseteq PolicyRule
          /\ old' \in [policies: SUBSET policies', routes: SUBSET routes]
      BY <2>2, SetPoliciesType DEF TypeInv, TypeOK
    <3> QED
      BY <1>1, <1>7, <2>2, <3>1 DEF RemovePolicyRule, cur, TypeInv, TypeOK
  <2> QED
    BY <1>7, <2>1, <2>2 DEF RemovePolicyRule
<1>8. CASE RemoveRoute
  <2> DEFINE rts == RoutesTo(cur.rule.dest, cur.table)
             fails == RemovalFails(cur.table, rts # {}, MissingRoute)
             left == {x \in routes : x \in rts => \E y \in rts : y.metric < x.metric}
  <2>1. CASE /\ Fault \/ (fails /\ UNCHANGED faults)
             /\ UNCHANGED <<routes, old, active>>
    <3>1. faults' \in 0 .. MaxFaults
      BY <2>1, FaultType DEF TypeInv, TypeOK
    <3> QED
      BY <1>2, <1>8, <2>1, <3>1 DEF RemoveRoute, OpDone, TypeInv, TypeOK
  <2>2. CASE /\ IF rm.dry_run THEN UNCHANGED <<routes, old>> ELSE SetRoutes(left)
             /\ active' = untrack_active_route(cur.rule.name)
             /\ UNCHANGED faults
    <3>1. active' \subseteq ActiveRoute /\ IsFiniteSet(active')
      BY <2>2, UntrackType
    <3>2. /\ routes' \subseteq Route
          /\ old' \in [policies: SUBSET policies, routes: SUBSET routes']
      BY <2>2, SetRoutesType DEF TypeInv, TypeOK
    <3> QED
      BY <1>2, <1>8, <2>2, <3>1, <3>2 DEF RemoveRoute, OpDone, TypeInv, TypeOK
  <2> QED
    BY <1>8, <2>1, <2>2 DEF RemoveRoute
<1> QED
  BY <1>3, <1>4, <1>5, <1>6, <1>7, <1>8 DEF RuleOperation

\* Events: only todo and the dispatcher's tables change.
LEMMA TypeHandleEvent ==
  ASSUME TypeInv, HandleEvent
  PROVE  TypeInv'
<1> USE DEF kernelVars
<1> DEFINE Kept == UNCHANGED <<phase, config, rm, flushed, starting, half, active,
                               kernelVars, faults, drops>>
<1>1. PICK i \in Ifaces :
        \/ InterfaceUp(i) \/ InterfaceDown(i) \/ InterfaceRemoved(i)
        \/ WifiDisconnected(i) \/ AddressChanged(i)
        \/ \E s \in Ssids : WifiConnected(i, s)
  BY DEF HandleEvent
<1>2. Listening /\ Kept
  BY <1>1 DEF InterfaceUp, InterfaceDown, InterfaceRemoved, WifiDisconnected,
              AddressChanged, WifiConnected, Handle
<1>3. last' \in Events
  <2>1. config \in Configs
    BY DEF TypeInv, TypeOK
  <2> QED
    BY <1>1, <2>1 DEF InterfaceUp, InterfaceDown, InterfaceRemoved, WifiDisconnected,
                      AddressChanged, WifiConnected, Handle, Events
<1>4. net' \in [Ifaces -> {"unknown", "down", "up"}]
  BY <1>1 DEF InterfaceUp, InterfaceDown, InterfaceRemoved, WifiDisconnected,
              AddressChanged, WifiConnected, SetNet, TypeInv, TypeOK
<1>5. ssid' \in [Ifaces -> Ssids \cup {NoSsid}]
  BY <1>1 DEF InterfaceUp, InterfaceDown, InterfaceRemoved, WifiDisconnected,
              AddressChanged, WifiConnected, handle_interface_down, TypeInv, TypeOK
<1>6. IndicesOK(indices') /\ todo' \in Seq(Ops)
  <2>0. IndicesOK(indices) /\ todo \in Seq(Ops)
    BY DEF IndicesOK, TypeInv, TypeOK
  <2>1. CASE InterfaceUp(i)
    BY <2>0, <2>1, ApplyDefaultsType DEF InterfaceUp
  <2>2. CASE InterfaceDown(i) \/ InterfaceRemoved(i)
    BY <2>0, <2>2, RemovalsType DEF InterfaceDown, InterfaceRemoved, handle_interface_down
  <2>3. CASE WifiDisconnected(i)
    BY <2>3, ApplyDefaultsType DEF WifiDisconnected
  <2>4. CASE AddressChanged(i)
    BY <2>4, ApplyRulesType DEF AddressChanged
  <2>5. CASE \E s \in Ssids : WifiConnected(i, s)
    BY <2>5, ApplyRulesType DEF WifiConnected
  <2> QED
    BY <1>1, <2>1, <2>2, <2>3, <2>4, <2>5
<1>7. half = FALSE
  BY <1>2 DEF Listening, TypeInv, TypeOK
<1> QED
  BY <1>2, <1>3, <1>4, <1>5, <1>6, <1>7 DEF TypeInv, TypeOK, IndicesOK

\* The life of the process: what Idle sets, and the steps of a startup.
LEMMA TypeLifecycle ==
  ASSUME TypeInv,
         \/ \E c \in Configs : Boot(c) \/ UpdateConfig(c)
         \/ \E known \in SUBSET Ifaces : \E up \in SUBSET known : Start(known, up)
         \/ FlushTables \/ CollectInitial \/ ApplyInitial \/ EnterLoop
         \/ Stop \/ Exit
         \/ \E i \in Ifaces : KernelDropsRoutes(i)
  PROVE  TypeInv'
<1> USE DEF dispatcherVars, workVars, kernelVars
<1>a. 0 \in 0 .. MaxInterfaces /\ 0 \in 0 .. MaxFaults /\ 0 \in 0 .. MaxDrops
  BY BoundsAssumption
<1>b. ASSUME Idle
      PROVE  /\ net' \in [Ifaces -> {"unknown", "down", "up"}]
             /\ ssid' \in [Ifaces -> Ssids \cup {NoSsid}]
             /\ active' \subseteq ActiveRoute /\ IsFiniteSet(active')
             /\ flushed' \in 0 .. MaxInterfaces
             /\ starting' \in Seq(Ifaces) /\ todo' \in Seq(Ops)
             /\ half' = FALSE
             /\ last' \in Events
  BY <1>a, <1>b, FS_EmptySet DEF Idle, Events
<1>1. ASSUME NEW c \in Configs, Boot(c)
      PROVE  TypeInv'
  <2>1. IndexMap(indices', Ifaces)
    BY <1>1, ConfigFields, NewIndexMap, RulesAssumption DEF Boot
  <2>2. rm' \in [base_table_id: Tables, dry_run: BOOLEAN]
    BY <1>1, ConfigFields, BoundsAssumption DEF Boot, Tables
  <2> QED
    BY <1>1, <1>b, <2>1, <2>2 DEF Boot, TypeInv, TypeOK, IndexMap
<1>2. ASSUME NEW c \in Configs, UpdateConfig(c)
      PROVE  TypeInv'
  <2>1. IndexMap(indices', Ifaces)
    BY <1>2, ConfigFields, RebuildIndexMap, RulesAssumption DEF UpdateConfig, TypeInv
  <2>2. half => todo # <<>> /\ cur'.rule.dest # Unresolved
    BY <1>2 DEF UpdateConfig, cur, TypeInv
  <2> QED
    BY <1>2, <2>1, <2>2 DEF UpdateConfig, TypeInv, TypeOK, IndexMap
<1>3. ASSUME NEW known \in SUBSET Ifaces, NEW up \in SUBSET known, Start(known, up)
      PROVE  TypeInv'
  BY <1>3 DEF Start, cur, TypeInv, TypeOK
<1>4. CASE FlushTables
  <2> DEFINE tables == {t \in flushed_tables(flushed) : t <= MaxTableId}
             rts == {x \in routes : x.table \in tables /\ x.dest \in V4Dests}
             pls == {p \in policies : p.table \in tables}
  <2>1. flushed' \in 0 .. MaxInterfaces
    BY <1>4, BoundsAssumption DEF FlushTables, TypeInv, TypeOK
  <2>2. PICK keptRoutes \in SUBSET rts, keptPolicies \in SUBSET pls :
          /\ IF keptRoutes = {} /\ keptPolicies = {} THEN UNCHANGED faults ELSE Fault
          /\ IF rm.dry_run THEN UNCHANGED kernelVars
             ELSE LET R == (routes \ rts) \cup keptRoutes
                      P == (policies \ pls) \cup keptPolicies
                  IN /\ routes' = R
                     /\ policies' = P
                     /\ old' = [policies |-> old.policies \cap P, routes |-> old.routes \cap R]
    BY <1>4 DEF FlushTables
  <2>3. faults' \in 0 .. MaxFaults
    BY <2>2, FaultType DEF TypeInv, TypeOK
  <2>4. /\ routes' \subseteq Route /\ policies' \subseteq PolicyRule
        /\ old' \in [policies: SUBSET policies', routes: SUBSET routes']
    BY <2>2 DEF TypeInv, TypeOK
  <2> QED
    BY <1>4, <2>1, <2>3, <2>4 DEF FlushTables, cur, TypeInv, TypeOK
<1>5. CASE CollectInitial
  <2>1. {i \in config.interfaces : net[i] = "up"} \subseteq Ifaces
    BY ConfigFields DEF TypeInv, TypeOK
  <2>2. starting' \in Seq(Ifaces)
    <3> DEFINE S == {i \in config.interfaces : net[i] = "up"}
    <3>1. IsFiniteSet(S)
      BY <2>1, FS_Subset, RulesAssumption
    <3>2. starting' \in SetToSeqs(S)
      BY <1>5 DEF CollectInitial
    <3>3. starting' \in Seq(S)
      BY <3>1, <3>2, OrderingIsSeq
    <3> HIDE DEF S
    <3>4. S \subseteq Ifaces
      BY <2>1 DEF S
    <3> QED
      BY <3>3, <3>4
  <2> QED
    BY <1>5, <2>2 DEF CollectInitial, cur, TypeInv, TypeOK
<1>6. CASE ApplyInitial
  <2>1. Head(starting) \in Ifaces /\ Tail(starting) \in Seq(Ifaces)
    BY <1>6, HeadTailProperties DEF ApplyInitial, TypeInv, TypeOK
  <2>2. IndicesOK(indices') /\ todo' \in Seq(Ops)
    BY <1>6, <2>1, ApplyDefaultsType DEF ApplyInitial
  <2>3. half' = FALSE
    BY <1>6 DEF ApplyInitial, TypeInv, TypeOK
  <2> QED
    BY <1>6, <2>1, <2>2, <2>3 DEF ApplyInitial, TypeInv, TypeOK, IndicesOK
<1>7. CASE EnterLoop
  BY <1>7 DEF EnterLoop, cur, TypeInv, TypeOK
<1>8. CASE Stop
  BY <1>8, FS_EmptySet DEF Stop, cur, TypeInv, TypeOK
<1>9. CASE Exit
  <2>1. IndexMap(indices', Ifaces)
    BY <1>9, NoIndicesMap DEF Exit
  <2> QED
    BY <1>9, <1>a, <1>b, <2>1 DEF Exit, TypeInv, TypeOK, IndexMap
<1>10. ASSUME NEW i \in Ifaces, KernelDropsRoutes(i)
       PROVE  TypeInv'
  <2>1. /\ routes' \subseteq Route
        /\ old' \in [policies: SUBSET policies, routes: SUBSET routes']
    BY <1>10, SetRoutesType DEF KernelDropsRoutes, TypeInv, TypeOK
  <2>2. drops' \in 0 .. MaxDrops
    BY <1>10, BoundsAssumption DEF KernelDropsRoutes, TypeInv, TypeOK
  <2> QED
    BY <1>10, <2>1, <2>2 DEF KernelDropsRoutes, cur, TypeInv, TypeOK
<1> QED
  BY <1>1, <1>2, <1>3, <1>4, <1>5, <1>6, <1>7, <1>8, <1>9, <1>10

LEMMA TypeNext == TypeInv /\ [Next]_vars => TypeInv'
<1> SUFFICES ASSUME TypeInv, [Next]_vars PROVE TypeInv'
  OBVIOUS
<1>1. CASE Next
  BY <1>1, TypeRuleOperation, TypeHandleEvent, TypeLifecycle DEF Next
<1>2. CASE UNCHANGED vars
  BY <1>2 DEF vars, dispatcherVars, workVars, kernelVars, cur, TypeInv, TypeOK
<1> QED
  BY <1>1, <1>2

\* The inductive form of type correctness.
THEOREM TypeInvariance == Spec => []TypeInv
  BY TypeInit, TypeNext, PTL DEF Spec

\* Every variable of the engine keeps its type: indices are u8 values of known
\* interfaces, and the history refers to entries the kernel holds.
THEOREM TypeCorrect == Spec => []TypeOK
<1>1. TypeInv => TypeOK
  BY DEF TypeInv
<1> QED
  BY <1>1, TypeInvariance, PTL

\* A dry run sends no netlink request that changes anything: the simulated
\* requests of route and rule operations and of the startup cleanup leave the
\* kernel as it is, under any interleaving of events and reloads.
THEOREM DryRunChangesNothing == Spec => DryRunPure
<1>1. TypeInv /\ [Next]_vars =>
        [(rm.dry_run /\ phase # "down" /\ drops' = drops) =>
            UNCHANGED <<policies, routes>>]_vars
  <2> SUFFICES ASSUME TypeInv, [Next]_vars, rm.dry_run, phase # "down", drops' = drops
               PROVE  UNCHANGED <<policies, routes>>
    OBVIOUS
  <2> USE DEF dispatcherVars, workVars, kernelVars
  <2>1. CASE RuleOperation
    BY <2>1 DEF RuleOperation, SkipActive, RejectUnresolved, AddPolicyRule, AddRoute,
                RemovePolicyRule, RemoveRoute, Fault
  <2>2. CASE HandleEvent
    BY <2>2 DEF HandleEvent, InterfaceUp, InterfaceDown, InterfaceRemoved, WifiConnected,
                WifiDisconnected, AddressChanged, Handle
  <2>3. CASE \E c \in Configs : Boot(c) \/ UpdateConfig(c)
    BY <2>3 DEF Boot, UpdateConfig
  <2>4. CASE \/ \E known \in SUBSET Ifaces : \E up \in SUBSET known : Start(known, up)
             \/ FlushTables \/ CollectInitial \/ ApplyInitial \/ EnterLoop \/ Stop \/ Exit
    BY <2>4 DEF Start, FlushTables, CollectInitial, ApplyInitial, EnterLoop, Stop, Exit
  <2>5. CASE \E i \in Ifaces : KernelDropsRoutes(i)
    BY <2>5 DEF KernelDropsRoutes, TypeInv, TypeOK
  <2>6. CASE UNCHANGED vars
    BY <2>6 DEF vars
  <2> QED
    BY <2>1, <2>2, <2>3, <2>4, <2>5, <2>6 DEF Next
<1> QED
  BY <1>1, TypeInvariance, PTL DEF Spec, DryRunPure
===============================================================================
