---------------------------- MODULE NetlinkMonitor ----------------------------
(***************************************************************************)
(* NetlinkMonitor (src/monitor/netlink.rs): interface changes are found by *)
(* polling.  Every poll dumps the links of the kernel, compares the dump   *)
(* with the one before, link by link under the kernel's interface index,   *)
(* and returns the differences as events about interface NAMES: first the  *)
(* links that came up or went down, in HashMap order, then the ones that   *)
(* disappeared.                                                            *)
(*                                                                         *)
(* The kernel's links are part of the model: they are plugged and          *)
(* unplugged, set up and down, and gain and lose their carrier between any *)
(* two polls.                                                              *)
(***************************************************************************)
EXTENDS Naturals, SequencesExt

CONSTANTS
  Links,       \* interface indices of the kernel; none is used twice
  Names,       \* interface names
  AdminSets,   \* names of links that are set up and down (others only change carrier)
  Replugs,     \* may a name come back under a new index?
  MaxChanges   \* bound: changes of links in one behaviour

ASSUME LinksAssumption ==
  /\ IsFiniteSet(Links)
  /\ AdminSets \subseteq Names
  /\ Replugs \in BOOLEAN
  /\ MaxChanges \in Nat

VARIABLES
  links,      \* kernel: the links there are
  gone,       \* kernel: the names of links that were unplugged
  connected,  \* handle: Some after a successful connection in new()
  prev,       \* prev_state: the last snapshot
  events,     \* what the last poll returned and the caller has not handled yet
  view,       \* history: names that are up for a caller that starts with the
              \* first snapshot and believes the events
  changes     \* history: changes of links so far

kernelVars  == <<links, gone, changes>>
monitorVars == <<connected, prev, events, view>>

Link     == [name: Names, up: BOOLEAN, running: BOOLEAN]
Snapshot == [name: Names, is_up: BOOLEAN]
Event    == [interface: Names, change: {"up", "down", "removed"}]

MonitorTypeOK ==
  /\ links \in UNION {[S -> Link] : S \in SUBSET Links}
  /\ gone \subseteq Names
  /\ connected \in BOOLEAN
  /\ prev \in UNION {[S -> Snapshot] : S \in SUBSET Links}
  /\ events \in Seq(Event)
  /\ view \subseteq Names
  /\ changes \in 0 .. MaxChanges

NoLinks == [i \in {} |-> 0]

UpNames(snapshot) == {snapshot[i].name : i \in {i \in DOMAIN snapshot : snapshot[i].is_up}}

-----------------------------------------------------------------------------
(* Mutants of the definitions below. *)

\* A link that is new since the last snapshot is not reported.
changed_links_known(current) ==
  {i \in DOMAIN current \cap DOMAIN prev : prev[i].is_up # current[i].is_up}

\* Links that disappeared are not reported.
removed_links_never(current) == {}

\* A link that came up is reported as added.
link_event_added(snap) ==
  [interface |-> snap.name, change |-> IF snap.is_up THEN "added" ELSE "down"]

\* Every link is reported as changed.
changed_links_all(current) == DOMAIN current

-----------------------------------------------------------------------------
(* The monitor *)

\* A link is up when it is set up and has a carrier.
extract_link_snapshot(l) == [name |-> l.name, is_up |-> l.up /\ l.running]

\* Without a connection there is nothing to see, and no error.
snapshot_interfaces ==
  IF connected THEN [i \in DOMAIN links |-> extract_link_snapshot(links[i])] ELSE NoLinks

\* Links with an event: a different state, or new and up.
changed_links(current) ==
  {i \in DOMAIN current :
     IF i \in DOMAIN prev THEN prev[i].is_up # current[i].is_up ELSE current[i].is_up}

removed_links(current) == DOMAIN prev \ DOMAIN current

link_event(snap) ==
  [interface |-> snap.name, change |-> IF snap.is_up THEN "up" ELSE "down"]

\* The events about changed and about removed links, in the order of a HashMap.
changed_events(current, order) == [k \in DOMAIN order |-> link_event(current[order[k]])]

removed_events(order) ==
  [k \in DOMAIN order |-> [interface |-> prev[order[k]].name, change |-> "removed"]]

\* Everything one poll can return.
poll_events(current) ==
  { changed_events(current, first) \o removed_events(second) :
      first \in SetToSeqs(changed_links(current)),
      second \in SetToSeqs(removed_links(current)) }

\* new(): connect and take the first snapshot; either may fail.
NewMonitor ==
  /\ connected \in BOOLEAN
  /\ prev \in {NoLinks, snapshot_interfaces}
  /\ view = UpNames(prev)
  /\ events = <<>>

\* poll_changes(); a dump that fails leaves everything as it is.
PollChanges ==
  /\ events' \in poll_events(snapshot_interfaces)
  /\ prev' = snapshot_interfaces
  /\ UNCHANGED <<connected, view>>

\* The caller takes the next event.
TakeEvent ==
  LET e == Head(events) IN
  /\ events # <<>>
  /\ events' = Tail(events)
  /\ view' = IF e.change = "up" THEN view \cup {e.interface} ELSE view \ {e.interface}
  /\ UNCHANGED <<connected, prev>>

-----------------------------------------------------------------------------
(* The kernel *)

NamesInUse == {links[i].name : i \in DOMAIN links}

LinkChange == changes < MaxChanges /\ changes' = changes + 1

SetLink(i, l) == links' = [links EXCEPT ![i] = l] /\ UNCHANGED gone

\* A new link gets an index that was never used: a larger one than all before.
Plug(n) ==
  /\ LinkChange
  /\ n \notin NamesInUse /\ (n \in gone => Replugs)
  /\ \E i \in Links \ (DOMAIN links \cup DOMAIN prev), up, running \in BOOLEAN :
       links' = [j \in DOMAIN links \cup {i} |->
                   IF j = i THEN [name |-> n, up |-> up, running |-> running] ELSE links[j]]
  /\ UNCHANGED gone

Unplug(i) ==
  /\ LinkChange
  /\ links' = [j \in DOMAIN links \ {i} |-> links[j]]
  /\ gone' = gone \cup {links[i].name}

SetUp(i) ==
  /\ LinkChange /\ links[i].name \in AdminSets
  /\ SetLink(i, [links[i] EXCEPT !.up = ~@])

SetCarrier(i) ==
  /\ LinkChange
  /\ SetLink(i, [links[i] EXCEPT !.running = ~@])

\* What the kernel's links do, whoever watches them.
LinksChange ==
  \/ \E n \in Names : Plug(n)
  \/ \E i \in DOMAIN links : Unplug(i) \/ SetUp(i) \/ SetCarrier(i)

InitialLinks ==
  /\ links \in {f \in UNION {[S -> Link] : S \in SUBSET Links} :
                  \A i, j \in DOMAIN f : f[i].name = f[j].name => i = j}
  /\ gone = {}
  /\ changes = 0

-----------------------------------------------------------------------------
(* The monitor with a caller that handles all events of a poll before it    *)
(* polls again, as poll_network_changes() does.                             *)

monitor_vars == <<kernelVars, monitorVars>>

Init == InitialLinks /\ NewMonitor

Poll == events = <<>> /\ PollChanges /\ UNCHANGED kernelVars

Handle == TakeEvent /\ UNCHANGED kernelVars

Next == Poll \/ Handle \/ (LinksChange /\ UNCHANGED monitorVars)

\* The interval ticks every 5 seconds and the loop over the events ends.
Spec == Init /\ [][Next]_monitor_vars /\ WF_monitor_vars(Poll) /\ WF_monitor_vars(Handle)

-----------------------------------------------------------------------------
(* Properties *)

\* Between polls the events have told exactly what the snapshots showed: whoever
\* believes them, by name, knows the links that were up at the last poll,
\* whatever order the HashMap yields and however links come and go, as long as no
\* name comes back under another index (netlink_replug.cfg shows what happens then).
ViewFollows == events = <<>> => view = UpNames(prev)

\* "returns InterfaceChanged for any transitions", and for nothing else: a link
\* is reported up only when it was down for the caller, and down when it was up,
\* as long as no name comes back under another index.
OnlyTransitions ==
  [][events # <<>> /\ events' = Tail(events) =>
       LET e == Head(events) IN
       /\ e.change = "up" => e.interface \notin view
       /\ e.change = "down" => e.interface \in view]_monitor_vars

\* A link that stays up, or stays down, is known to do so in the end.
CatchesUp ==
  \A n \in Names :
    /\ <>[](n \in UpNames(snapshot_interfaces)) => <>[](n \in view)
    /\ <>[](n \notin UpNames(snapshot_interfaces)) => <>[](n \notin view)
===============================================================================
