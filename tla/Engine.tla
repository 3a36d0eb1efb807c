------------------------------- MODULE Engine -------------------------------
(***************************************************************************)
(* The rule engine of nic-autoswitch: the event dispatcher with the        *)
(* NetworkState it keeps (src/engine/dispatcher.rs, src/monitor/state.rs), *)
(* the rule executor (src/engine/executor.rs), the rule operator           *)
(* (src/router/rules.rs) and the route manager (src/router/manager.rs),    *)
(* over a kernel that holds policy rules and routes and that outlives the  *)
(* process.                                                                *)
(*                                                                         *)
(* A handler of the dispatcher first updates its tables, then works        *)
(* through a list of rule operations, each of which awaits two netlink     *)
(* requests.  `todo' is what is left of that list and `half' says that the *)
(* first request of its head is done; one action is one netlink request    *)
(* with the bookkeeping the code does on its answer.  The main loop runs   *)
(* one handler at a time; a configuration reload through a control server  *)
(* can come between two requests.                                          *)
(***************************************************************************)
EXTENDS TableIndex, SequencesExt

CONSTANTS
  Ifaces,          \* interface names
  Ssids,           \* WiFi network names
  NoSsid,          \* "no SSID is recorded"
  Names,           \* rule names
  Dests,           \* destinations of rules
  V4Dests,         \* those that are IPv4 networks
  Unresolved,      \* the destination of a domain rule: none until DNS resolution
  Rules,           \* the route rules configurations are made of
  Configs,         \* configurations the loader accepts
  BaseTables,      \* base table ids the route manager accepts (100..199)
  V6TableStart,    \* IPV6_TABLE_START (200)
  MaxTableId,      \* largest table id a netlink header holds (255)
  MaxInterfaces,   \* tables per family that the startup cleanup visits (32)
  MissingRule,     \* errno of deleting a policy rule that is not there
  MissingRoute,    \* errno of deleting a route that is not there
  ControlAttached, \* is a control server running beside the main loop?
  NmAttached,      \* is there a source of WiFi and address events?
  CliDryRun,       \* may the command line ask for a dry run (--dry-run)?
  MaxFaults,       \* bound: netlink requests that fail in one run
  MaxDrops         \* bound: times the kernel drops the routes of a device

ASSUME RulesAssumption ==
  /\ IsFiniteSet(Ifaces)
  /\ NoSsid \notin Ssids
  /\ V4Dests \subseteq Dests
  /\ Unresolved \notin Dests
  /\ Rules \subseteq [name: Names, dest: Dests \cup {Unresolved},
                      via: Ifaces, priority: Nat]

ASSUME ConfigsAssumption ==
  \A c \in Configs :
    /\ c.interfaces \subseteq Ifaces
    /\ c.default_rules \in Seq(Rules)
    /\ DOMAIN c.wifi_profiles \subseteq Ssids
    /\ \A s \in DOMAIN c.wifi_profiles : c.wifi_profiles[s] \in Seq(Rules)
    /\ c.table_id_start \in Nat
    /\ c.dry_run \in BOOLEAN

ASSUME BoundsAssumption ==
  /\ BaseTables \subseteq Nat
  /\ {V6TableStart, MaxTableId, MaxInterfaces} \subseteq Nat
  /\ {MissingRule, MissingRoute} \subseteq Nat
  /\ {ControlAttached, NmAttached} \subseteq BOOLEAN
  /\ CliDryRun \subseteq BOOLEAN
  /\ {MaxFaults, MaxDrops} \subseteq Nat

VARIABLES
  phase,      \* where run() is, with the DispatcherState
  config,     \* EventDispatcher.config
  rm,         \* RouteManager: base_table_id and dry_run, fixed at init()
  net,        \* NetworkState.interfaces: unknown, down or up
  ssid,       \* EventDispatcher.current_ssids
  indices,    \* EventDispatcher.interface_indices
  active,     \* RuleExecutor.active_routes, a set of ActiveRoute
  flushed,    \* cleanup_stale_tables: indices visited so far
  starting,   \* apply_initial_state: interfaces whose rules are still to apply
  todo,       \* the rule operations the current handler still has to do
  half,       \* the policy-rule request of Head(todo) has been answered
  policies,   \* kernel: policy rules of all tables the program uses
  routes,     \* kernel: routes of those tables
  old,        \* history: kernel entries that an earlier process left
  last,       \* history: the last event a property asks about, with the
              \* configuration its handler read
  faults,     \* history: netlink requests that failed in this run
  drops       \* history: times the kernel dropped routes in this run

dispatcherVars == <<config, rm, net, ssid, indices>>
workVars       == <<flushed, starting, todo, half, active>>
kernelVars     == <<policies, routes, old>>
vars == <<phase, dispatcherVars, workVars, kernelVars, last, faults, drops>>

-----------------------------------------------------------------------------
(* Data *)

Tables == Nat

\* ActiveRoute.  The HashMap is keyed by rule_name.
ActiveRoute == [rule_name: Names, interface: Ifaces, table_id: Tables]

\* A step of a handler: apply a default rule, apply a profile's rule, or
\* remove a rule.
Ops == [kind: {"default", "profile", "remove"}, rule: Rules, table: Tables]

\* What `ip rule' and `ip route' would list.
PolicyRule == [table: Tables, dest: Dests, priority: Nat]
Route      == [table: Tables, dest: Dests, metric: Nat, dev: Ifaces]

NoEvent == <<"none">>
Events  == {NoEvent} \cup ({"up", "down"} \X Ifaces \X Configs)
             \cup ({"connected"} \X Ifaces \X Ssids \X Configs)

policy_of(r, t) == [table |-> t, dest |-> r.dest, priority |-> r.priority]
route_of(r, t)  == [table |-> t, dest |-> r.dest, metric |-> r.priority, dev |-> r.via]

TypeOK ==
  /\ phase \in {"down", "init", "cleanup", "initial", "loop", "stopped"}
  /\ config \in Configs
  /\ rm \in [base_table_id: Tables, dry_run: BOOLEAN]
  /\ net \in [Ifaces -> {"unknown", "down", "up"}]
  /\ ssid \in [Ifaces -> Ssids \cup {NoSsid}]
  /\ DOMAIN indices \subseteq Ifaces
  /\ indices \in [DOMAIN indices -> 0 .. IndexMax]
  /\ active \subseteq ActiveRoute
  /\ flushed \in 0 .. MaxInterfaces
  /\ starting \in Seq(Ifaces)
  /\ todo \in Seq(Ops)
  /\ half \in BOOLEAN
  /\ policies \subseteq PolicyRule
  /\ routes \subseteq Route
  /\ old \in [policies: SUBSET policies, routes: SUBSET routes]
  /\ last \in Events
  /\ faults \in 0 .. MaxFaults
  /\ drops \in 0 .. MaxDrops

-----------------------------------------------------------------------------
(* Mutants: plausible bugs in the definitions below. *)

\* is_route_active() is asked about nothing.
is_route_active_never(n) == FALSE

\* untrack_active_route() clears the map.
untrack_active_route_all(n) == {}

\* track_active_route() records the table of index 0.
track_active_route_base(r, t) ==
  {a \in active : a.rule_name # r.name}
    \cup {[rule_name |-> r.name, interface |-> r.via, table_id |-> rm.base_table_id]}

\* remove_route() sends no destination.
RoutesTo_all(dest, t) == {x \in routes : x.table = t}

\* handle_interface_down() keeps what routes via the interface and drops the rest.
depends_on_other(a, i) == a.interface # i

\* The loop over the rules ends one rule early.
OpsFor_short(kind, rules, t) ==
  [k \in 1 .. Len(rules) - 1 |-> [kind |-> kind, rule |-> rules[k], table |-> t]]

\* The startup cleanup stops one index early.
flushed_tables_short(k) ==
  IF k = MaxInterfaces - 1 THEN {} ELSE {rm.base_table_id + k, V6TableStart + k}

-----------------------------------------------------------------------------
(* The executor's tracking of active routes *)

is_route_active(n) == \E a \in active : a.rule_name = n

untrack_active_route(n) == {a \in active : a.rule_name # n}

track_active_route(r, t) ==
  untrack_active_route(r.name)
    \cup {[rule_name |-> r.name, interface |-> r.via, table_id |-> t]}

-----------------------------------------------------------------------------
(* Kernel entries and what a netlink request does to them *)

\* is_no_such_entry(): ENOENT and ENXIO count as success of a removal.
is_no_such_entry(errno) == errno \in {2, 6}

\* Routes that an addition of rt collides with: the kernel answers EEXIST for
\* the same table, destination and metric whatever the device.
SameRoute(rt) ==
  {x \in routes : x.table = rt.table /\ x.dest = rt.dest /\ x.metric = rt.metric}

\* remove_route() names a destination and a table, no metric and no device.
RoutesTo(dest, t) == {x \in routes : x.table = t /\ x.dest = dest}

SetPolicies(S) ==
  policies' = S /\ old' = [old EXCEPT !.policies = @ \cap S]

SetRoutes(S) ==
  routes' = S /\ old' = [old EXCEPT !.routes = @ \cap S]

\* A netlink request fails for a reason outside the model: the connection, the
\* permissions, or a device that add_route() cannot find.
Fault == ~rm.dry_run /\ faults < MaxFaults /\ faults' = faults + 1

\* A removal ends in an error: the table id does not fit the netlink header, or
\* the entry is absent and the errno is not one the code knows.
RemovalFails(t, present, errno) ==
  /\ ~rm.dry_run
  /\ t > MaxTableId \/ (~present /\ ~is_no_such_entry(errno))

-----------------------------------------------------------------------------
(* One rule operation: RuleExecutor::apply_rule and remove_rule through the  *)
(* RuleOperator.  The caller logs an error and goes on with the next one.    *)

cur == Head(todo)

Working == phase \in {"initial", "loop"} /\ todo # <<>>

OpDone == todo' = Tail(todo) /\ half' = FALSE

\* apply_default_rules(): a rule that is active in any table is skipped.
SkipActive ==
  /\ Working /\ ~half
  /\ cur.kind = "default" /\ is_route_active(cur.rule.name)
  /\ OpDone
  /\ UNCHANGED <<phase, dispatcherVars, flushed, starting, active, kernelVars,
                 last, faults, drops>>

Applying == cur.kind = "profile" \/ (cur.kind = "default" /\ ~is_route_active(cur.rule.name))

\* get_destination() refuses domain rules before any request is made.
RejectUnresolved ==
  /\ Working /\ ~half
  /\ Applying \/ cur.kind = "remove"
  /\ cur.rule.dest = Unresolved
  /\ OpDone
  /\ UNCHANGED <<phase, dispatcherVars, flushed, starting, active, kernelVars,
                 last, faults, drops>>

\* Mutant of AddPolicyRule: the dry-run check is missing.
AddPolicyRuleNotDry ==
  /\ Working /\ ~half /\ Applying
  /\ cur.rule.dest # Unresolved
  /\ SetPolicies(policies \cup {policy_of(cur.rule, cur.table)})
  /\ half' = TRUE
  /\ UNCHANGED <<phase, dispatcherVars, flushed, starting, todo, active, routes,
                 last, faults, drops>>

\* add_policy_rule(); EEXIST is success.
AddPolicyRule ==
  /\ Working /\ ~half /\ Applying
  /\ cur.rule.dest # Unresolved
  /\ \/ /\ IF rm.dry_run THEN UNCHANGED <<policies, old>>
           ELSE SetPolicies(policies \cup {policy_of(cur.rule, cur.table)})
        /\ half' = TRUE
        /\ UNCHANGED <<todo, faults>>
     \/ Fault /\ OpDone /\ UNCHANGED <<policies, old>>
  /\ UNCHANGED <<phase, dispatcherVars, flushed, starting, active, routes, last, drops>>

\* add_route(); EEXIST is success, and only success is tracked.
AddRoute ==
  /\ Working /\ half
  /\ cur.kind # "remove"
  /\ LET rt == route_of(cur.rule, cur.table) IN
     \/ /\ IF rm.dry_run \/ SameRoute(rt) # {} THEN UNCHANGED <<routes, old>>
           ELSE SetRoutes(routes \cup {rt})
        /\ active' = track_active_route(cur.rule, cur.table)
        /\ UNCHANGED faults
     \/ Fault /\ UNCHANGED <<routes, old, active>>
  /\ OpDone
  /\ UNCHANGED <<phase, dispatcherVars, flushed, starting, policies, last, drops>>

\* remove_policy_rule()
RemovePolicyRule ==
  LET p == policy_of(cur.rule, cur.table)
      fails == RemovalFails(cur.table, p \in policies, MissingRule)
  IN
  /\ Working /\ ~half
  /\ cur.kind = "remove" /\ cur.rule.dest # Unresolved
  /\ \/ /\ ~fails
        /\ IF rm.dry_run THEN UNCHANGED <<policies, old>>
           ELSE SetPolicies(policies \ {p})
        /\ half' = TRUE
        /\ UNCHANGED <<todo, faults>>
     \/ /\ Fault \/ (fails /\ UNCHANGED faults)
        /\ OpDone
        /\ UNCHANGED <<policies, old>>
  /\ UNCHANGED <<phase, dispatcherVars, flushed, starting, active, routes, last, drops>>

\* remove_route(): of several routes to the destination the kernel deletes the
\* one with the lowest metric.  Only success ends the tracking.
RemoveRoute ==
  LET rts == RoutesTo(cur.rule.dest, cur.table)
      fails == RemovalFails(cur.table, rts # {}, MissingRoute)
  IN
  /\ Working /\ half
  /\ cur.kind = "remove"
  /\ \/ /\ ~fails
        /\ IF rm.dry_run THEN UNCHANGED <<routes, old>>
           ELSE SetRoutes({x \in routes : x \in rts => \E y \in rts : y.metric < x.metric})
        /\ active' = untrack_active_route(cur.rule.name)
        /\ UNCHANGED faults
     \/ /\ Fault \/ (fails /\ UNCHANGED faults)
        /\ UNCHANGED <<routes, old, active>>
  /\ OpDone
  /\ UNCHANGED <<phase, dispatcherVars, flushed, starting, policies, last, drops>>

RuleOperation ==
  SkipActive \/ RejectUnresolved \/ AddPolicyRule \/ AddRoute
    \/ RemovePolicyRule \/ RemoveRoute

-----------------------------------------------------------------------------
(* Event handlers.  Each begins with NetworkState::apply_event and ends when *)
(* the operations it puts in todo are done.                                  *)

Listening == phase = "loop" /\ todo = <<>>

OpsFor(kind, rules, t) ==
  [k \in 1 .. Len(rules) |-> [kind |-> kind, rule |-> rules[k], table |-> t]]

\* Assign i an index if it has none and queue the rules for its table.
ApplyTo(i, kind, rules) ==
  /\ indices' = assign_index(indices, i)
  /\ todo' = OpsFor(kind, rules, rm.base_table_id + indices'[i])

\* No index is assigned when there are no default rules.
apply_default_rules(i) ==
  IF config.default_rules = <<>> THEN UNCHANGED <<indices, todo>>
  ELSE ApplyTo(i, "default", config.default_rules)

apply_rules_for_interface(i, s) ==
  IF s \in DOMAIN config.wifi_profiles
  THEN ApplyTo(i, "profile", config.wifi_profiles[s])
  ELSE apply_default_rules(i)

Handle(event) ==
  /\ last' = event
  /\ UNCHANGED <<phase, config, rm, flushed, starting, half, active, kernelVars,
                 faults, drops>>

SetNet(i, v) ==
  net' = [net EXCEPT ![i] = IF @ = "unknown" THEN "unknown" ELSE v]

\* handle_interface_change(Up): nothing for an interface NetworkState does not
\* know, or one with a recorded SSID.
interface_up_applies(i) == net[i] # "unknown" /\ ssid[i] = NoSsid

InterfaceUp(i) ==
  /\ Listening
  /\ SetNet(i, "up")
  /\ IF interface_up_applies(i) THEN apply_default_rules(i)
     ELSE UNCHANGED <<indices, todo>>
  /\ UNCHANGED ssid
  /\ Handle(<<"up", i, config>>)

\* The last rule of a list under a name: later ones overwrite earlier ones.
LastNamed(rules, n) ==
  {rules[k] : k \in {k \in DOMAIN rules :
      rules[k].name = n /\ \A m \in DOMAIN rules : m > k => rules[m].name # n}}

\* rules_map of handle_interface_down(): the rules of configuration c, profiles (in
\* HashMap order) overwriting default rules of the same name.
rules_map(c, n) ==
  LET inProfiles == UNION {LastNamed(c.wifi_profiles[s], n) : s \in DOMAIN c.wifi_profiles}
  IN IF inProfiles # {} THEN inProfiles ELSE LastNamed(c.default_rules, n)

depends_on(a, i) == a.interface = i

\* What is tracked as routed via i and is still configured is removed, in the
\* order the HashMap of active routes yields.
removable(i) == {a \in active : depends_on(a, i) /\ rules_map(config, a.rule_name) # {}}

handle_interface_down(i) ==
  /\ \E order \in SetToSeqs(removable(i)) :
     \E pick \in [removable(i) -> Rules] :
       /\ \A a \in removable(i) : pick[a] \in rules_map(config, a.rule_name)
       /\ todo' = [k \in DOMAIN order |->
                     [kind |-> "remove", rule |-> pick[order[k]],
                      table |-> order[k].table_id]]
  /\ UNCHANGED <<ssid, indices>>

InterfaceDown(i) ==
  /\ Listening
  /\ SetNet(i, "down")
  /\ handle_interface_down(i)
  /\ Handle(<<"down", i, config>>)

InterfaceRemoved(i) ==
  /\ Listening
  /\ net' = [net EXCEPT ![i] = "unknown"]
  /\ handle_interface_down(i)
  /\ Handle(<<"down", i, config>>)

WifiConnected(i, s) ==
  /\ Listening /\ NmAttached
  /\ SetNet(i, "up")
  /\ ssid' = [ssid EXCEPT ![i] = s]
  /\ apply_rules_for_interface(i, s)
  /\ Handle(<<"connected", i, s, config>>)

WifiDisconnected(i) ==
  /\ Listening /\ NmAttached
  /\ ssid' = [ssid EXCEPT ![i] = NoSsid]
  /\ apply_default_rules(i)
  /\ UNCHANGED net
  /\ Handle(NoEvent)

AddressChanged(i) ==
  /\ Listening /\ NmAttached
  /\ apply_rules_for_interface(i, ssid[i])
  /\ UNCHANGED <<net, ssid>>
  /\ Handle(NoEvent)

\* Added and RouteChanged events change nothing and are left out.  The netlink
\* monitor reports interface changes; WiFi and address events need the
\* NetworkManager monitor, which init() does not start yet.
HandleEvent ==
  \E i \in Ifaces :
    \/ InterfaceUp(i) \/ InterfaceDown(i) \/ InterfaceRemoved(i)
    \/ WifiDisconnected(i) \/ AddressChanged(i)
    \/ \E s \in Ssids : WifiConnected(i, s)

-----------------------------------------------------------------------------
(* The life of the process *)

\* Nothing of the dispatcher exists while the process is down.
Idle ==
  /\ net' = [i \in Ifaces |-> "unknown"]
  /\ ssid' = [i \in Ifaces |-> NoSsid]
  /\ active' = {}
  /\ flushed' = 0
  /\ starting' = <<>>
  /\ todo' = <<>>
  /\ half' = FALSE
  /\ last' = NoEvent

\* DaemonService::new() and init(): the loader's configuration, a fresh
\* dispatcher, a route manager for that configuration's base table.  The run is dry
\* when the configuration or the command line says so.  A base the route manager
\* refuses ends the process before it does anything.
Boot(c) ==
  /\ phase = "down" /\ phase' = "init"
  /\ c.table_id_start \in BaseTables
  /\ config' = c
  /\ \E cli \in CliDryRun :
       rm' = [base_table_id |-> c.table_id_start, dry_run |-> c.dry_run \/ cli]
  /\ indices' \in new_indices(c.interfaces)
  /\ Idle
  /\ UNCHANGED <<kernelVars, faults, drops>>

\* run(): start() and the first step of apply_initial_state(), which records
\* every interface of the system, up or down.
Start(known, up) ==
  /\ phase = "init" /\ phase' = "cleanup"
  /\ net' = [i \in Ifaces |-> IF i \in up THEN "up"
                              ELSE IF i \in known THEN "down" ELSE "unknown"]
  /\ UNCHANGED <<config, rm, ssid, indices, workVars, kernelVars, last, faults, drops>>

\* The tables that cleanup_stale_tables() flushes for index k.
flushed_tables(k) == {rm.base_table_id + k, V6TableStart + k}

\* flush_table_complete() of these tables: all IPv4 routes, then all policy
\* rules.  A failure leaves any of them behind and is only logged.
FlushTables ==
  LET tables == {t \in flushed_tables(flushed) : t <= MaxTableId}
      rts == {x \in routes : x.table \in tables /\ x.dest \in V4Dests}
      pls == {p \in policies : p.table \in tables}
  IN
  /\ phase = "cleanup" /\ flushed < MaxInterfaces
  /\ flushed' = flushed + 1
  /\ \E keptRoutes \in SUBSET rts, keptPolicies \in SUBSET pls :
       /\ IF keptRoutes = {} /\ keptPolicies = {} THEN UNCHANGED faults ELSE Fault
       /\ IF rm.dry_run THEN UNCHANGED kernelVars
          ELSE LET R == (routes \ rts) \cup keptRoutes
                   P == (policies \ pls) \cup keptPolicies
               IN /\ routes' = R
                  /\ policies' = P
                  /\ old' = [policies |-> old.policies \cap P, routes |-> old.routes \cap R]
  /\ UNCHANGED <<phase, dispatcherVars, starting, todo, half, active, last, drops>>

\* Step 3 of apply_initial_state(): the interfaces that are configured and up.
CollectInitial ==
  /\ phase = "cleanup" /\ flushed = MaxInterfaces
  /\ phase' = "initial"
  /\ starting' \in SetToSeqs({i \in config.interfaces : net[i] = "up"})
  /\ UNCHANGED <<dispatcherVars, flushed, todo, half, active, kernelVars, last,
                 faults, drops>>

\* Step 4: their default rules, one interface after the other.
ApplyInitial ==
  /\ phase = "initial" /\ todo = <<>> /\ starting # <<>>
  /\ apply_default_rules(Head(starting))
  /\ starting' = Tail(starting)
  /\ UNCHANGED <<phase, config, rm, net, ssid, flushed, half, active, kernelVars,
                 last, faults, drops>>

\* run() enters the main loop.
EnterLoop ==
  /\ phase = "initial" /\ todo = <<>> /\ starting = <<>>
  /\ phase' = "loop"
  /\ UNCHANGED <<dispatcherVars, workVars, kernelVars, last, faults, drops>>

\* update_config(), from the main loop (SIGHUP) or, when a control server is
\* attached, from a connection task between two requests of a handler.  Routes
\* and tracking are left alone.
UpdateConfig(c) ==
  /\ phase \in {"init", "cleanup", "initial", "loop"}
  /\ ControlAttached \/ Listening
  /\ config' = c
  /\ indices' \in rebuild_indices(indices, c.interfaces)
  /\ UNCHANGED <<phase, rm, net, ssid, workVars, kernelVars, last, faults, drops>>

\* stop(): the tracking is cleared, the kernel is not touched.
Stop ==
  /\ Listening
  /\ phase' = "stopped"
  /\ active' = {}
  /\ UNCHANGED <<dispatcherVars, flushed, starting, todo, half, kernelVars, last,
                 faults, drops>>

\* The process ends: after stop(), by an error return of run(), or killed at
\* any point.  What it installed stays in the kernel.
Exit ==
  /\ phase # "down" /\ phase' = "down"
  /\ indices' = NoIndices
  /\ old' = [policies |-> policies, routes |-> routes]
  /\ faults' = 0 /\ drops' = 0
  /\ Idle
  /\ UNCHANGED <<config, rm, policies, routes>>

\* The kernel drops every route through a device that is shut down or removed.
KernelDropsRoutes(i) ==
  /\ drops < MaxDrops /\ drops' = drops + 1
  /\ \E x \in routes : x.dev = i
  /\ SetRoutes({x \in routes : x.dev # i})
  /\ UNCHANGED <<phase, dispatcherVars, workVars, policies, last, faults>>

Init ==
  /\ phase = "down"
  /\ config \in Configs
  /\ rm = [base_table_id |-> config.table_id_start, dry_run |-> config.dry_run]
  /\ net = [i \in Ifaces |-> "unknown"]
  /\ ssid = [i \in Ifaces |-> NoSsid]
  /\ indices = NoIndices
  /\ active = {}
  /\ flushed = 0 /\ starting = <<>> /\ todo = <<>> /\ half = FALSE
  /\ policies = {} /\ routes = {}
  /\ old = [policies |-> {}, routes |-> {}]
  /\ last = NoEvent
  /\ faults = 0 /\ drops = 0

Next ==
  \/ \E c \in Configs : Boot(c) \/ UpdateConfig(c)
  \/ \E known \in SUBSET Ifaces : \E up \in SUBSET known : Start(known, up)
  \/ FlushTables \/ CollectInitial \/ ApplyInitial \/ EnterLoop
  \/ RuleOperation
  \/ HandleEvent
  \/ Stop \/ Exit
  \/ \E i \in Ifaces : KernelDropsRoutes(i)

Spec == Init /\ [][Next]_vars

-----------------------------------------------------------------------------
(* Safety.  The properties speak of the entries that the current process put into *)
(* the kernel (NewRoutes and NewPolicies); what earlier processes left is the     *)
(* business of CleanSlate.                                                        *)

DefaultRules == UNION {ToSet(c.default_rules) : c \in Configs}
ProfileRules ==
  UNION {UNION {ToSet(c.wifi_profiles[s]) : s \in DOMAIN c.wifi_profiles} : c \in Configs}

NewRoutes   == routes \ old.routes
NewPolicies == policies \ old.policies

Tracked(r, t) == [rule_name |-> r.name, interface |-> r.via, table_id |-> t] \in active

InFlight(r, t) == half /\ cur.rule = r /\ cur.table = t

Configured(c, r) == rules_map(c, r.name) # {}

\* The last event was a down or up event of i, handled under configuration c; a
\* reload since then, in the middle of the handler too, does not change that.
WentDown(i, c) == last = <<"down", i, c>>
CameUp(i, c)   == last = <<"up", i, c>>

\* Both halves of the rule are in the kernel.
Installed(r, t) == policy_of(r, t) \in policies /\ route_of(r, t) \in routes

\* A route the process added for a default rule is tracked with the table it is
\* in, so that a later down event finds it: whatever requests fail, however
\* reloads and events interleave, executor.rs never forgets a route it added.
RoutesTracked ==
  phase # "stopped" =>
    \A x \in NewRoutes, r \in DefaultRules :
      x.dest = r.dest => x.dev = r.via /\ Tracked(r, x.table)

\* "Default rules are global and should only exist once" (apply_default_rules):
\* the process never has routes of one default rule in two tables.
DefaultRouteOnce ==
  \A x, y \in NewRoutes :
    (x.dest = y.dest /\ \E r \in DefaultRules : r.dest = x.dest) => x = y

\* The same of the policy rules.
DefaultPolicyOnce ==
  \A p, q \in NewPolicies :
    (p.dest = q.dest /\ \E r \in DefaultRules : r.dest = p.dest) => p = q

\* As long as no request has failed, every policy rule of a default rule steers
\* into the table where the rule is tracked or is just being applied.
PoliciesTracked ==
  (faults = 0 /\ phase # "stopped") =>
    \A p \in NewPolicies, r \in DefaultRules :
      p.dest = r.dest => Tracked(r, p.table) \/ InFlight(r, p.table)

\* After a startup cleanup in which no request failed, no policy rule and no
\* IPv4 route of an earlier process is left: the 32 visited tables contain every
\* table any sequence of reloads and late interfaces can have led to.
CleanSlate ==
  (phase \in {"initial", "loop"} /\ faults = 0 /\ ~rm.dry_run) =>
    /\ old.policies = {}
    /\ \A x \in old.routes : x.dest \notin V4Dests

\* cleanup_stale_tables() "ensures a clean slate": of all routes, IPv6 too.
CleanSlateAll ==
  (phase \in {"initial", "loop"} /\ faults = 0 /\ ~rm.dry_run) =>
    old.policies = {} /\ old.routes = {}

\* When an interface went down and no request failed, neither a route nor a policy
\* rule of a default rule via that interface is left that was configured when the
\* event came, whatever was reloaded while its handler was at work, and (unless the
\* kernel dropped routes first) none is tracked.
DownCleans ==
  \A i \in Ifaces, c \in Configs, r \in DefaultRules :
    (Listening /\ WentDown(i, c) /\ faults = 0 /\ r.via = i /\ Configured(c, r)) =>
      /\ \A x \in NewRoutes : x.dest # r.dest
      /\ \A p \in NewPolicies : p.dest # r.dest
      /\ drops = 0 => ~is_route_active(r.name)

\* When a known interface without SSID came up, no request failed and the kernel
\* dropped nothing, every default rule with an address that was configured when the
\* event came is tracked in one table and has both its policy rule and its route there.
UpInstalls ==
  \A i \in Ifaces, c \in Configs :
    (Listening /\ CameUp(i, c) /\ interface_up_applies(i)
      /\ faults = 0 /\ drops = 0 /\ ~rm.dry_run) =>
        \A r \in ToSet(c.default_rules) :
          r.dest # Unresolved =>
            \E a \in active : a.rule_name = r.name /\ Installed(r, a.table_id)

\* A removal takes away the route of the rule it removes and no other: the
\* request names a destination and a table only.
RemovesOwnRoute ==
  [][\A x \in routes \ routes' :
       (phase = "loop" /\ phase' = "loop" /\ drops' = drops) =>
          x.dev = cur.rule.via /\ x.metric = cur.rule.priority]_vars

\* A dry run changes nothing in the kernel, not even in the startup cleanup.
DryRunPure ==
  [][(rm.dry_run /\ phase # "down" /\ drops' = drops) =>
        UNCHANGED <<policies, routes>>]_vars

-----------------------------------------------------------------------------
(* Claims of comments and test plans that the code does not meet *)

\* get_table_id_for_interface() assigns "a unique index"; update_config() says
\* that indices of removed interfaces are "not reused".
UniqueIndices == IsInjective(indices)

\* handle_interface_down() "Removes all active routes whose `route_via'
\* references the downed interface".
DownRemovesAll ==
  (Listening /\ faults = 0) =>
    \A i \in Ifaces, c \in Configs : WentDown(i, c) => \A x \in NewRoutes : x.dev # i

\* "Treating these as success makes remove operations idempotent": a down event
\* whose routes the kernel dropped already still ends their tracking.
DownUntracks ==
  (Listening /\ faults = 0) =>
    \A i \in Ifaces, c \in Configs : WentDown(i, c) =>
      \A a \in active : a.interface = i => rules_map(c, a.rule_name) = {}

\* ENG-11: a WiFi switch clears the rules of the old profile.
SwitchClears ==
  \A i \in Ifaces, s \in Ssids, c \in Configs :
    (Listening /\ last = <<"connected", i, s, c>> /\ faults = 0) =>
      \A a \in active :
        (\E r \in ProfileRules : r.name = a.rule_name) =>
          \E k \in DOMAIN c.wifi_profiles[s] : c.wifi_profiles[s][k].name = a.rule_name

\* E2E-04: when an interface comes up again the rules for it are applied again,
\* here those of the profile of the network it is connected to.
UpRestoresProfile ==
  \A i \in Ifaces, c \in Configs :
    (Listening /\ CameUp(i, c) /\ net[i] = "up" /\ faults = 0 /\ drops = 0
      /\ ssid[i] \in DOMAIN c.wifi_profiles) =>
        \A r \in ToSet(c.wifi_profiles[ssid[i]]) : is_route_active(r.name)
=============================================================================
