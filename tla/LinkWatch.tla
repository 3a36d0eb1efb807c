------------------------------- MODULE LinkWatch -------------------------------
(***************************************************************************)
(* The netlink monitor and the dispatcher together, from a change of a     *)
(* link in the kernel to the routes through it: init(),                    *)
(* apply_initial_routes() and poll_network_changes() of                    *)
(* src/daemon/service.rs.                                                  *)
(*                                                                         *)
(* The dispatcher is Engine reduced to what links tell apart.  There is    *)
(* one default rule per interface name, via that interface, all names are  *)
(* configured, the configuration does not change, and an event is handled  *)
(* in one step whose requests fail only because of the device: adding a    *)
(* route needs a device that is set up, and the kernel drops the routes of *)
(* a device that is shut down or removed.                                  *)
(***************************************************************************)
EXTENDS NetlinkMonitor

VARIABLES
  running,  \* has apply_initial_routes() been done?
  net,      \* NetworkState.interfaces
  tracked,  \* active_routes, by the interface their rule routes via
  routed    \* kernel: the interfaces that routes of the daemon go through

dispatcherVars == <<running, net, tracked>>
watch_vars     == <<kernelVars, monitorVars, dispatcherVars, routed>>

WatchTypeOK ==
  /\ MonitorTypeOK
  /\ running \in BOOLEAN
  /\ net \in [Names -> {"unknown", "down", "up"}]
  /\ tracked \subseteq Names
  /\ routed \subseteq Names

\* The devices the kernel accepts routes through, carrier or not.
Usable == {links[i].name : i \in {i \in DOMAIN links : links[i].up}}

-----------------------------------------------------------------------------
(* Mutants of the definitions below. *)

\* A rule whose route failed is tracked as well.
apply_default_rules_all == tracked' = Names /\ routed' = routed \cup Usable

\* The default rules are applied for interfaces without the name of the rule.
handle_up_unknown(n) ==
  /\ net' = [net EXCEPT ![n] = "up"]
  /\ UNCHANGED <<tracked, routed>>

-----------------------------------------------------------------------------
\* apply_default_rules(): whichever interface came up, all rules that are not
\* tracked are tried, and those with a usable device end up tracked.
apply_default_rules ==
  /\ tracked' = tracked \cup Usable
  /\ routed' = routed \cup (Usable \ tracked)

\* handle_interface_change(Up)
handle_up(n) ==
  IF net[n] = "unknown" THEN UNCHANGED <<net, tracked, routed>>
  ELSE net' = [net EXCEPT ![n] = "up"] /\ apply_default_rules

\* handle_interface_down(): deleting a route the kernel has dropped already is
\* an error the code does not recognise, and the rule stays tracked.
handle_interface_down(n, v) ==
  /\ net' = [net EXCEPT ![n] = IF @ = "unknown" THEN "unknown" ELSE v]
  /\ tracked' = tracked \ (routed \cap {n})
  /\ routed' = routed \ {n}

\* get_interfaces(): what it returns makes the links known.  It looks at the flag UP
\* only, and returns nothing without a connection.
get_interfaces ==
  [n \in Names |-> IF ~connected \/ n \notin NamesInUse THEN "unknown"
                  ELSE IF n \in Usable THEN "up" ELSE "down"]

\* apply_initial_routes()
ApplyInitialRoutes ==
  /\ ~running /\ running' = TRUE
  /\ net' = get_interfaces
  /\ IF \E n \in Names : net'[n] = "up" THEN apply_default_rules
     ELSE UNCHANGED <<tracked, routed>>
  /\ UNCHANGED <<kernelVars, monitorVars>>

\* poll_network_changes() takes a snapshot and then handles its events.
WatchPoll ==
  /\ running /\ events = <<>>
  /\ PollChanges
  /\ UNCHANGED <<kernelVars, dispatcherVars, routed>>

WatchHandle ==
  /\ TakeEvent
  /\ LET e == Head(events) IN
     CASE e.change = "up" -> handle_up(e.interface)
       [] e.change = "down" -> handle_interface_down(e.interface, "down")
       [] e.change = "removed" -> handle_interface_down(e.interface, "unknown")
  /\ UNCHANGED <<kernelVars, running>>

\* Links change under the running daemon, and routes go with their device.
WatchLinksChange ==
  /\ LinksChange
  /\ routed' = routed \cap Usable'
  /\ UNCHANGED <<monitorVars, dispatcherVars>>

WatchInit ==
  /\ InitialLinks /\ NewMonitor
  /\ running = FALSE
  /\ net = [n \in Names |-> "unknown"]
  /\ tracked = {} /\ routed = {}

WatchNext == ApplyInitialRoutes \/ WatchPoll \/ WatchHandle \/ WatchLinksChange

\* The interval ticks every 5 seconds, dumps of the kernel do not fail for ever,
\* and the handlers return.
WatchSpec ==
  /\ WatchInit /\ [][WatchNext]_watch_vars
  /\ WF_watch_vars(ApplyInitialRoutes)
  /\ WF_watch_vars(WatchPoll)
  /\ WF_watch_vars(WatchHandle)

-----------------------------------------------------------------------------
(* Properties *)

IsUp(n) == n \in UpNames([i \in DOMAIN links |-> extract_link_snapshot(links[i])])

FollowsLink(n) == <>[](IsUp(n) /\ net[n] # "unknown") => <>[](n \in routed)

\* A known interface that only loses and gains its carrier, and stays up, has its
\* route in the end, however often and however fast it flapped and whatever the
\* other interfaces do.
RoutesFollow == \A n \in Names \ AdminSets : FollowsLink(n)

\* The daemon never has a route it does not track, and tracks no rule without a
\* route of an interface that is there and is not shut down.
RoutedTracked ==
  /\ routed \subseteq tracked
  /\ (tracked \cap NamesInUse) \ AdminSets \subseteq routed

\* The rules are managed as ManagedRules says: all share one table here, and the
\* kernel's dropping of routes is the only way in which the two sides diverge.
Managed == INSTANCE ManagedRules WITH
  Rules <- Names,
  known <- [n \in Names |-> IF n \in tracked THEN {"table"} ELSE {}],
  route <- [n \in Names |-> IF n \in routed THEN {"table"} ELSE {}]

RulesManaged == Managed!ManagedSpec

-----------------------------------------------------------------------------
(* Claims of the documents that the code does not meet *)

\* ENG-14: a down event clears the routes of the interface.  They stay cleared
\* as long as the interface is down.
NoDeadRoutes ==
  running /\ events = <<>> => \A n \in Names : net[n] = "down" => n \notin routed

\* E2E-04: a link that is cut and restored has its route again, after it was shut down
\* and set up as well.
AllRoutesFollow == \A n \in Names : FollowsLink(n)

\* "adjusts routes automatically when WiFi or wired connections change": an
\* interface plugged in while the daemon runs gets its route.
HotPlugRouted ==
  \A n \in Names : <>[](IsUp(n) /\ connected) => <>[](n \in routed)
===============================================================================
