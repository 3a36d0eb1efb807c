# Formal models of nic-autoswitch

TLA+ modules for the daemon in this repository: what it does to the kernel's
routing tables when links, WiFi networks, configuration files and signals
change, checked with TLC on small instances and, where the prover reaches,
proved with TLAPS for every value of the constants. `PROJECT.json` is the
machine-readable index: components, runs, mutants, the map from definitions to
source lines, findings, hazards and theorems. Paths below are those of the
repository.

## 1. The system

A single asynchronous main task runs everything; `src/main.rs` creates a
`DaemonService`, calls `init()` and `run()`.

| part | source | state | operations |
|---|---|---|---|
| daemon service | `src/daemon/service.rs` | service state, configuration, shutdown flag, slot of the monitor | `new`, `init`, `run`, `main_loop`, `poll_network_changes`, `reload_configuration`, the `ControlState` callbacks |
| signal handler | `src/daemon/signals.rs` | broadcast channel of 16 messages, two tasks | `register_signals`, `subscribe` |
| systemd | `src/daemon/systemd.rs` | what was told last | `notify_*`, `watchdog_keepalive` |
| control server, CLI | `src/daemon/control.rs`, `src/cli/` | socket, connections, shutdown flag | `start`, `handle_connection`, `handle_command`, `stop`; `send_command` |
| netlink monitor | `src/monitor/netlink.rs` | connection, last snapshot, pending events | `new`, `poll_changes`, `get_interfaces` |
| NetworkManager monitor | `src/monitor/networkmanager.rs` | none (a stub) | yields no event |
| network state | `src/monitor/state.rs`, `events.rs` | known interfaces, up or down | `update_interface`, `apply_event` |
| event dispatcher | `src/engine/dispatcher.rs` | configuration, recorded SSIDs, index of each interface, dispatcher state | `start`, `stop`, `handle_event` and its handlers, `apply_initial_state`, `cleanup_stale_tables`, `update_config` |
| rule executor | `src/engine/executor.rs` | active routes by rule name | `apply_rule`, `remove_rule`, `apply_wifi_profile`, tracking |
| rule operator | `src/router/rules.rs` | none | two netlink requests per rule, in order |
| route manager | `src/router/manager.rs` | base table, dry-run flag, connection | add and remove policy rules and routes, flush a table |
| configuration | `src/config/loader.rs`, `schema.rs`, `watcher.rs` | file, current value, modification time | `load`, `reload`, `validate`, polling |
| rule matcher | `src/engine/matcher.rs` | an optional resolver | `find_matching_rule`, `find_all_matching_rules` |
| DNS resolver | `src/router/dns.rs` | cache, permits | `resolve`, `resolve_ipv4`, `resolve_ipv6`, `clear_cache`, `prune_cache` |

How they interact. The main loop waits for a signal, a tick of the 5-second
poll, or the watchdog. A poll compares two dumps of the kernel's links and
hands each difference, awaited one by one, to the dispatcher. A handler of the
dispatcher first updates its maps under locks it releases at once, then works
through rules; each rule is two netlink requests through executor, operator and
route manager, and tracking follows the answer. Nothing is persisted except in
the kernel, which outlives the process. A reload replaces the configuration in
the service and in the dispatcher. `main` starts neither the control server, nor the
NetworkManager monitor, nor the configuration watcher, and the engine calls neither the
matcher nor the resolver. These have modules of their own; where they reach into the
engine a constant says whether they do (`ControlAttached`, `NmAttached`).

What is hard: requests that fail half-way through a rule; reloads between a
rule's installation and its removal; processes killed between requests; a
kernel that drops routes by itself before the daemon hears of it; differences
between polls that cancel out; names that come back under a new index; signals
before the loop listens, or more of them than the channel keeps; reloads at the
same time; stopping a server while clients come; answers of a DNS server that overtake
each other; files that change, go and come back between two looks at them. Section "hazards" of `PROJECT.json` lists each at its line.

What makes each part correct:

- engine: what is in the kernel is tracked, what is tracked is in the kernel,
  every default rule exists once, a down event removes what depends on the
  interface and nothing else, start-up leaves nothing old, a dry run changes
  nothing;
- index map: indices are unique and stay in the range the cleanup visits;
- netlink monitor: the events tell the transitions, all of them, once, in an
  order that a caller who knows names only can follow;
- monitor and dispatcher: routes follow the links;
- daemon: a shutdown stops it, a reload brings in the file, what systemd is
  told is true, both copies of the configuration agree;
- control server and client: a server that listens is reached at the socket file and leaves
  none behind, a stopped server ends, a client is told what happened, and gets an answer
  before its own limit;
- loader and watcher: what is in effect was accepted and its patterns mean the same to the
  matcher, an edit arrives;
- resolver: no answer is too old, every call returns;
- matcher: the rule with the best priority, by what patterns mean;
- waits for signals: none skips what it waits for, none is stuck after a lag.

## 2. Modules

| module | models | extends or uses |
|---|---|---|
| `TableIndex` | the index map of the dispatcher, as operators | |
| `Engine` | dispatcher, network state, executor, operator, route manager, kernel, and the properties of all that | `TableIndex` |
| `ManagedRules` | abstract: which tables a default rule is known to be in, and is in | |
| `StableEngine` | assumption: configurations agree with each other; refinement | `Engine`, `ManagedRules` |
| `MCStable`, `MCEngine` | rules and configurations for TLC | `StableEngine`, `Engine` |
| `NetlinkMonitor` | polling over a kernel whose links change | |
| `LinkWatch` | monitor and dispatcher together, start-up included; refinement | `NetlinkMonitor`, `ManagedRules` |
| `Daemon` | main task, signals, reloads, systemd and its watchdog | |
| `ControlServer` | control server and its clients beside the daemon | `Daemon` |
| `SignalWait` | the calls that wait for a signal | |
| `Patterns` | validator and matcher of domain patterns, and their meaning | |
| `ConfigSchema` | which configurations are valid | `Patterns` |
| `ConfigWatch`, `MCConfigWatch` | loader and watcher over a file that changes | `ConfigSchema` |
| `DnsCache`, `MCDnsCache` | the resolver | |
| `RuleMatcher`, `MCRuleMatcher` | the matcher over the resolver | `DnsCache`, `Patterns` |
| `EngineProofs` | theorems about `TableIndex` and `Engine` | `Engine` |
| `StableEngineProofs` | theorems under the assumption, and the refinement | `StableEngine`, `EngineProofs` |
| `DaemonProofs` | theorems about the daemon and the control server | `ControlServer` |
| `LinkProofs` | theorems about `NetlinkMonitor` and `LinkWatch` | `LinkWatch` |
| `PatternProofs` | the patterns, and two lemmas on natural numbers | `Patterns` |
| `ConfigProofs` | theorems about schema, loader and watcher | `ConfigWatch`, `PatternProofs` |
| `MatcherProofs` | theorems about the resolver and the matcher | `RuleMatcher`, `PatternProofs` |

`SignalWait` ends with theorems of its own.

### Engine

`phase` is the position of `run()`: `down` (no process), `init`, `cleanup`,
`initial`, `loop`, `stopped`. `config`, `rm`, `net`, `ssid`, `indices`,
`active` are the fields of the dispatcher, the route manager, the network state
and the executor; `policies` and `routes` are the kernel. A handler
(`InterfaceUp`, `InterfaceDown`, ...) does its synchronous part in one step and
puts the rule operations that follow into `todo`. A step of `RuleOperation` is one
netlink request with the bookkeeping on its answer: `half` says that the policy
rule's request has been answered and the route's comes next. So a crash
(`Exit`), a reload of a control connection (`UpdateConfig`) and a kernel that drops
routes (`KernelDropsRoutes`) fall between any two requests. `FlushTables` is the
visit of one index by the startup cleanup, with any of its deletions failing.
HashMap orders are choices (`SetToSeqs`, `pick`, `Numberings`).

Abstractions: names, destinations and priorities are small sets; a rule that
matches a domain has the destination `Unresolved` and is refused as in
`get_destination()`; a gateway is always absent, as in `get_gateway()`; parts of
`InterfaceInfo` that the engine does not read are absent; `Added` and
`RouteChanged` events change nothing and are left out. `update_config()` is one
step (the gap between its two locks is a listed hazard). A run is dry when the
configuration or the command line (`CliDryRun`) says so when it starts.

What is taken from Linux, not from the code: adding a route answers EEXIST for
the same table, destination and metric whatever the device; adding an existing
policy rule answers EEXIST; deleting an absent rule answers ENOENT (2) and an
absent route ESRCH (3); of several routes to a destination the one with the lowest metric
is deleted; routes of a device go when it is shut down or removed, not when the
carrier is lost; a route dump is filtered by the table in its header, as
`flush_table()` assumes (see the hazard at `src/router/manager.rs:400`).

`NewRoutes` and `NewPolicies` are the kernel entries that the current process
made; `old` is the history of those from before, `last` the last event with the
configuration its handler read, `faults` and `drops` count against the bounds. What a
handler promises (`DownCleans`, `UpInstalls`) is about that configuration, so a reload that
falls into the handler, or comes after it, does not end the promise.

### ManagedRules

What the daemon promises of its default rules. For each rule there are two sets of
tables: those the daemon takes it to be in (`known`) and those that hold a route of it
(`route`). A rule that is nowhere may be applied to one table, a known rule may be
removed with its route, the kernel may drop routes behind the daemon's back, and a stop or
a crash ends the knowledge. So a rule never moves from one table to another without a
removal, is never in two, and is never there unknown to a running daemon. In
`StableEngine` the mapping is `known` = tables of the rule's entries in `active`, `route` =
tables of routes to its destination made by this process; in `LinkWatch` it is `tracked` and
`routed`. Both are checked as the property `RulesManaged`, and both are proved.

### NetlinkMonitor and LinkWatch

`links` is the kernel: an index, a name, the flags UP and RUNNING. `Poll` is
`poll_changes()`, `Handle` the caller that takes one event. `view` is what a
caller believes who starts from the first snapshot and follows the events by
name. `LinkWatch` puts the dispatcher behind the monitor: `net`, `tracked` and
`routed` are `Engine`'s `net`, `active` and `routes` with one default rule per
interface name, and a handler is one step. `ApplyInitialRoutes` uses
`get_interfaces()`, for which a link is up without a carrier. A link that is
renamed is not modelled.

### Daemon

`stage` is the position of the main task, with a stage between every two of `run()`'s
notifications and state changes (`applying`, `stopping`). A signal is `raised` until its task
forwards it to the channel (`queue`, which overwrites its oldest message when
full and then reports `lagged` once). `reload` holds the step of the main task's
reload and of each control connection's: load the file, store the configuration
in the service, hand it to the dispatcher. File contents are version numbers. `due` says that
the watchdog's ticker has fired since the last keepalive; `watchdog_interval_ms` and
`is_watchdog_enabled` are the arithmetic of `systemd.rs` on `WATCHDOG_USEC`.

### ControlServer

`phase` is the position of `start()`: preparing the path, binding, setting the permissions,
the loop, the removal of the file. Each of these may fail as in the code: the first three end
`start()` with an error (after `bind()` that leaves the file without a listener, `stale`), the
last is not looked at, and `failed` remembers all of them. `flag` and `permit` are what `stop()` leaves (an
atomic flag and the permit of `notify_one()`), `socket` is the owner of the socket file. `conn`
is a connection as the server sees it, `client` where its client is. A connection is accepted from the
backlog, checked for its user (`check_peer_cred`), then served by a task of its own: read a line,
handle the command, write the answer. A reload is three steps of `Daemon`'s `reload`, so
connections and the main task interleave. `TimeLimit` ends a connection that waits for a line, never one
that is being answered (handling a command does not await). `outcome` is what the client makes of the answer, a
`null` for a string included. A daemon that ends takes its servers with it and leaves the socket file. Nobody
but the servers of this process touches it; what an earlier process left is there at the start. `Careless` lets a server start while another runs, or again after it returned.

### SignalWait

`log` is all messages ever sent, `at` the place each receiver reads next; the channel
keeps the last `Capacity`. A wait that is under way (`caller`) takes one message per step
and returns with the first of its kind; dropping it loses nothing. `PollFuture` is
`ShutdownFuture::poll()`.

### ConfigSchema, Patterns, ConfigWatch

`ConfigValid` is `Config::validate()` with everything it calls, over records with the
fields of the source. Patterns and domains are sequences of letters; `validate_domain_pattern`
(schema) and `matches_wildcard` (matcher) were written apart, and `GlobMatches` is what
both should mean. That a configuration was accepted does not mean that the rest of the program can
work with it: `manager.rs:132-137` refuses first tables that the schema accepts (200 to 252), and rules
may share a name (`duplicate_names.cfg`). What is claimed of accepted configurations is about their
patterns (`PatternsMean`). In `ConfigWatch` a file has a content and a modification time; `watcher`
is the tasks that `start()` spawned (each call spawns one) with the time each saw last;
`inbox` the event channel; `current` and `published` the loader's value and the one in its
watch channel, which drops values nobody receives. The consumer that reloads on `Modified`
is external: the two interfaces are made for it, the program has none yet.

### DnsCache and RuleMatcher

What a name resolves to changes: `version` counts the contents of a name, and an answer
carries one that the server had while the query was under way. The server is
whatever is behind this cache: hickory's resolver is built with its default options
(`dns.rs:58`) and keeps a cache of its own, which belongs to it. A cache miss, the wait for a
permit, the query and the write of the cache are separate steps, so that answers of
concurrent callers overtake each other. `RuleMatcher` lets any list of rules be
asked about any destination: first by name, then (one call of `resolve`) by address. Rules
are for addresses (the ones a network contains) or for names.

## 3. Runs

Passing runs, with the deadlock check on except for `signal_wait`, which ends when its
signals are used up:

| run | shows | states |
|---|---|---|
| `stable_defaults` | default rules under reloads, restarts, one failing request, one kernel drop; refinement of `ManagedRules` | 1.15 M |
| `stable_wifi` | WiFi events, a profile, reloads between requests, dry runs between real ones | 990 k |
| `link_watch` | events and snapshots, any order of changes; routes follow carriers; refinement of `ManagedRules` | 112 k |
| `daemon_signals` | signals, polls, watchdog ticks, edits, refused files | 4 k |
| `control_server` | starts and cleanups that fail, two clients, one rejected, a stop at any time | 199 k |
| `control_reloads` | reloads of two clients that overlap, a refused file and a valid newer one | 1.78 M |
| `config_watch` | edits, deletions, two watcher tasks, a consumer that lags | 106 k |
| `dns_cache` | three callers, two permits, a name that changes | 101 k |
| `rule_matcher` | all lists of up to two of five rules, changing addresses | 121 k |
| `signal_wait` | both waits and a future over a channel that overflows | 41 k |

Violation runs, each one claim of a comment or of the test plan that the code
does not meet; the quoted lines are in `findings` of `PROJECT.json`:

| run | property | what happens |
|---|---|---|
| `index_reuse` | `UniqueIndices` | after a reload dropped an interface, two interfaces share a table |
| `down_dropped` | `DownUntracks` | ESRCH is not recognised; the rule stays tracked and is skipped from then on |

More counterexamples of the same kind, each with a configuration file of its
own that is not listed as a run. The module to run is in the first column.

| module, file | property | claim | what happens |
|---|---|---|---|
| `MCEngine` `policy_duplicate.cfg` | `DefaultPolicyOnce` | `dispatcher.rs:307-309` "should only exist once" | a failed route leaves its policy rule; the retry adds another |
| `MCEngine` `down_after_reload.cfg` | `DownRemovesAll` | `dispatcher.rs:176` "Removes all active routes whose `route_via` references the downed interface" | a rule dropped by a reload is never removed |
| `MCEngine` `wifi_switch.cfg` | `SwitchClears` | ENG-11, test plan line 104 | the rules of the old network's profile stay |
| `MCEngine` `wifi_up_again.cfg` | `UpRestoresProfile` | E2E-04, line 184 | down and up with a recorded SSID restores nothing |
| `MCEngine` `cleanup_v6.cfg` | `CleanSlateAll` | `dispatcher.rs:443` "ensures a clean slate" | old IPv6 routes survive |
| `MCEngine` `cleanup_base.cfg` | `CleanSlate` | `dispatcher.rs:441` "all table IDs that could have been assigned in previous runs" | entries below a raised base table survive |
| `MCEngine` `same_destination.cfg` | `RemovesOwnRoute` | `dispatcher.rs:176` "Removes all active routes whose `route_via` references the downed interface" | of two default rules with one destination, a down event of one interface removes the route via the other |
| `NetlinkMonitor` `netlink_replug.cfg` | `ViewFollows` | `netlink.rs:87` "for any transitions" | up is reported before the removal of the same name |
| `LinkWatch` `link_hotplug.cfg` | `HotPlugRouted` | `README.md:12`, `docs/design.md:9`: rules are adjusted when links change | a new interface never gets its route |
| `LinkWatch` `link_admin.cfg` | `AllRoutesFollow` | E2E-04, line 184 | down and up between two polls loses the route for ever |
| `LinkWatch` `link_dead.cfg` | `NoDeadRoutes` | ENG-14, line 107 | routes via a down interface come back |
| `Daemon` `sigterm_lost.cfg` | `TermStops` | DMN-02, line 152 | a signal before the loop subscribes is lost |
| `ControlServer` `control_shutdown.cfg` | `ControlStops` | CLI-06, line 171 | nobody reads the flag |
| `ControlServer` `control_reload_race.cfg` | `ConfigForward` | CLI-05, line 170 | the older of two reloads wins |
| `ControlServer` `reload_reported.cfg` | `SuccessReported` | CLI-05, line 170 | the daemon reloads, the client reports an error |
| `ControlServer` `socket_stolen.cfg` | `SocketFollows` | DMN-06, line 156 | a server that ends removes the socket of another that listens |
| `MCConfigWatch` `duplicate_names.cfg` | `NamesUnique` | CFG-15, line 86 | a file with two rules of one name is accepted |
| `MCConfigWatch` `watch_recreated.cfg` | `EveryEditArrives` | DMN-09, line 159 | a file that is deleted and created again is not noticed |
| `MCRuleMatcher` `best_match.cfg` | `FindsBest` | `matcher.rs:67` "Find the best matching rule for a destination" | a match by name hides a better one by address |

Those of `ControlServer`, `ConfigWatch`, `RuleMatcher` and the two about WiFi need a part
that `main` does not start yet; they show what starting it would bring. Further
disagreements need no run: `ShutdownFuture` is the "Future that resolves when shutdown is
requested" (`signals.rs:151`) and is ready with a reload too (`signals.rs:170`); `reload()` takes
back what `override_dry_run()` stored (`loader.rs:55-81`); a watcher that was stopped and is started
again ends at once, because `start()` leaves the flag of `stop()` (`watcher.rs:72`); DMN-09
(`docs/integration-test-plan.md:159`) expects an edit of the file to be applied by itself, while nothing
starts the watcher; DNS-08 (line 145) expects one query when several tasks ask for one
name at once, while `resolve()` has nothing between the cache miss and the query that
would hold a second caller back.

### The assumption of the stable runs

`StableEngine` assumes that a rule name always stands for the same rule, that
destinations of rules are distinct, that a rule is a default rule or a
profile's and not both, that `table_id_start` stays, and that all tables fit the
cleanup's 32 indices and the 8-bit header field. The program validates none of
it. Without it properties fail, and the counterexamples above show how; with it
they hold even with failing requests, kernel drops and crashes. Which hazards the
assumption, or a condition of a property, leaves out is said in their notes: in particular
`RemovesOwnRoute` holds in `stable_defaults` because destinations are distinct, and fails
in `same_destination.cfg`.

### Bounds

Two interfaces, two or three rules, two configurations, one failing request and at
most one kernel drop per process. Restarts and events are unbounded. Two interfaces suffice for
every property here: each relates at most two of them (a table and another, a
rule and the one that replaces it), and two are what a shared index or a retry
in a second table needs. `IndexMod = 2` is as many indices as interfaces, so that `new()` stops at its
limit; indices do not wrap in the runs (that would take a third interface, where properties
about tables no longer hold). `MaxInterfaces = 2` keeps the relation of the program
(at least as many tables visited as interfaces), and table ids start at 1 and 5
instead of 100 and 200, since only their order matters. `link_watch` has three
links (indices are never used twice), two names, one of them also set up and down
(`AdminSets`), and five changes: enough for both links of a poll to change, in either order, for
one to go and another to come, and for a link to flap more often than a poll notices. For more names
and changes there are the theorems. `Daemon` has a channel of two and four signals, so that it overflows
with a message to spare, and two edits, so that a reload can be overtaken.
`control_server` has one server, a client of the same user and one of another, and one edit to a content that
is refused: who waits for whom needs no third. `control_reloads` has two clients of the same user and
two edits, to a refused content and to a valid newer one, so that two reloads load different contents and
overtake each other. `ConfigWatch` has three writes, two tasks and a channel
of one event, so that the consumer lags behind the first write when the second comes. `DnsCache` has one caller more than
permits, and time enough for an entry to be written, to expire and to be written again. `RuleMatcher` has one caller (the
matcher keeps no state of its own; concurrent use of the cache is `DnsCache`'s) and lists of two rules: the choice
between rules compares two at a time. `SignalWait` has a channel of two and four signals.

### Fairness

Assumed in `LinkWatch` (and in `NetlinkMonitor` alone): the poll interval ticks and dumps do not fail for
ever (weak fairness of polls), and handlers return (weak). In `Daemon`: the two
signal tasks and the reload's steps run, starting and a poll end (weak); the main loop, which may choose
the poll whenever several branches are ready, chooses a signal and the watchdog in the end, because
`select!` starts with a random branch: receiving and the keepalive are strongly fair. In `ControlServer`:
the server's and the connection tasks' own steps run (weak), and its `select!` takes each ready branch
in the end (strong fairness of accepting and of the notification). In `ConfigWatch`: tasks look at
the file every five seconds, the consumer keeps receiving (weak). In `DnsCache`: a caller at the
head of the semaphore's queue that gets a permit goes on, and a query ends with an answer or
a failure (weak; the resolver has a time limit). In `SignalWait`: a receiver with a message is
polled (weak); signals do not arrive for ever, so a future that lags catches up. No fairness is assumed of links, users,
signals, clients, of a connection's beginning, or of `stop()`.

Every property of a passing run has a mutant of the code (an operator named after
the definition it replaces) under which TLC finds it violated.

## 4. Proofs

All theorems are for every value of the constants that meets the named
assumptions of the modules.

`EngineProofs` begins with the index map: every index the three operations
assign fits its type and is smaller than the number of interfaces there are (by cardinality).
It then proves `TypeCorrect` (`Spec => []TypeOK`) through the inductive `TypeInv`.
`TypeOK` alone is not inductive: an operation in `todo` must belong to the
configurations, an operation of a rule without an address must not be half done, and
indices must be below the number of interfaces. `DryRunChangesNothing` follows from it, action by action.

`StableEngineProofs` adds the assumptions of `StableEngine` and proves six of the
properties of the stable runs. Its `StableInv` is a conjunction of named parts, and every part
was checked by TLC on the stable configurations before it was proved.
Besides the properties themselves it says: a kernel route of
this process is the route of a rule (`RouteShape`), so is a policy rule
(`PolicyShape`); one active route per name (`NamedOnce`); what is in `todo` is a rule of
some configuration, removals are of tracked rules and tables (`OpsOK`), a handler either
applies or removes (`OneKind`); an operation is half done only on the way (`HalfOK`); a process
that has not reached `initial` made nothing (`NothingNew`). The argument: a route is added
only by `AddRoute`, which tracks it in the same step, and only when the rule was not
tracked when the operation began; nothing else can have tracked it in between,
because a handler runs alone. A removal untracks only together with the route's
deletion, and, the destinations being distinct, deletes all of the rule's routes in the
table. From this follow `RoutesStayTracked`, `DefaultRoutesOnce` and `PoliciesStayTracked`.

The fourth is `CleanSlate` (theorem `CleanupIsComplete`): when the startup cleanup is done, what is left of
earlier processes are entries whose deletion failed. An index is smaller than the number of interfaces
(`TypeInv`), so all kernel entries and everything in `todo` lie in that many tables from the base
on (`WindowInv`), and the next process visits those because no configuration moves the base
(`StableTables`; `cleanup_base.cfg` moves it). `SlateInv` says of each visited table that it holds nothing old
but failures.

The last two are `DownCleans` and `UpInstalls` (theorems `DownEventsClean`, `UpEventsInstall`). Both speak of the end
of a handler, so their invariant `HandlerInv` says what holds on the way there: what a down event has
not yet removed, and what an up event has not yet applied, is still in the list (`DownInv`, `UpInv`). Both speak of the configuration
that came with the event, and a reload changes neither the list nor the kernel, so they survive it. A removal
must also not give up on what is there: `TrackedInstalled` says that, as long as no request failed, what is tracked
has its route, unless the kernel dropped it, and its policy rule wherever it has a route, so the
first of the two requests fails only when there is no route that it would leave behind.

It ends with the refinement: the engine implements `ManagedRules`
(`EngineImplementsManagedRules`, the property `RulesManaged` of two runs) from the same
`StableInv`. What a step does to one rule is stated in terms of the engine (`Applies`,
`Removes`, `Drops`, ...), each action is shown to be one of them for every rule, and only then the
substitution is unfolded. The decisive step is `RouteWhereKnown`: a rule's routes are in
the one table it is tracked in, so a removal from that table leaves none.

`DaemonProofs` proves the safety properties of `Daemon` through `DaemonInv`: besides
`DaemonTypeOK` and `ToldTruth` it says that only the main task reloads, in its own stage
(`OneReloader`), and that the two copies of the configuration hold accepted contents
no newer than the file, with a loaded one on its way between them (`Copies`). From
it follow `DaemonTypeCorrect`, `DaemonTellsTruth`, `CopiesAgree` and `OnlyForward`. With connections that reload as well
`OneReloader` fails, and so does `ConfigForward` (`control_reload_race.cfg`). `WatchdogInTime` is the
interval's integer arithmetic for every value of `WATCHDOG_USEC`: the keepalive comes in less than the time allowed.

Of the control server it proves `SocketFollowsServer`, `AnswersAreTrue` and `ServerTypeCorrect`. The first assumes that no server is
started while another runs or after one returned (`~Careless`; `socket_stolen.cfg` shows what
happens otherwise): then at most one server is past its start (`OneServer`) and only it touches the
file. What it says of a file that is left behind is conditional, as the code is: a start or a removal that fails
may leave one (`failed`). The second assumes nothing: `AnswerInv` says of every connection that what it answers, or is about
to, is backed by what the daemon did for it. A connection that stored a content stored an accepted one, no older
than its client's request, because versions of the file only grow. So it holds for any number of clients, signals and edits, although
there `ConfigForward` does not. The third assumes nothing either: `TasksReload` says that until the process
ends a connection is in a reload exactly while its task does one, across the steps that the connection and
the daemon's `reload` take in turn.

`LinkProofs` proves the safety properties of `NetlinkMonitor` and `LinkWatch` for any number of links,
names and changes. `EventsTellTheView`, `OnlyTransitionsTold` and `TrackedAreRouted` assume that no name is given
to a second link (`~Replugs`; `netlink_replug.cfg` shows why). Their `MonitorInv` says that a name belongs to
one link in the kernel and in the last snapshot (`OneName`), that a name that is gone
stays gone (`GoneOK`), and that at most one event per name waits, which is what the caller's view still
lacks (`EventsOK`): a poll emits one event per link, and only after the caller has taken those of the
poll before. `WatchInv` adds that a default route is tracked where it is. `WatchTypeCorrect` and
`WatchImplementsManagedRules` need no such assumption.

`SignalWait` proves `SignalTypeCorrect` and from it `WaitsSkipNone`: a wait passes over no message
of its kind unless the channel has dropped it, for every capacity and any number of futures.

`PatternProofs` proves `ValidPatternsMean`: a pattern that the validator lets through, of any length,
matches in the matcher exactly the names that `GlobMatches` gives it. `GlobMatches` is the textbook
definition, a set of reachable positions for each prefix of the pattern. For each of the
shapes the validator leaves (no inner star: a star alone, in front, or at the end) that table is written
down in closed form (`StarFirst`, `StarLast`), which is what `matches_wildcard` tests.
`FirstBestCorrect` and `AcceptedPatternsMean` rest on it.

`ConfigProofs` proves `ConfigTypeCorrect`, which is inductive as it stands, `AcceptedPatternsMean` (the patterns
of what `ConfigValid` accepts mean what they say, `PatternsMean`) and `PatternsInEffect`. The invariant of the last is
`InEffectAccepted`: the value in effect and the one in the watch channel both come from accepted files, through
every order of edits, deletions, reloads and overrides.

`MatcherProofs` begins with the resolver. `DnsInv` is the inductive invariant. Its decisive part says how old an entry
was when it was stored: at most a query's time after the server had dropped its content (`Contents`). That is
so because a query under way is no older than `QueryTime` and asks for contents that had not ended when it began
(`Calls`), and it stays true when a slower, older answer overwrites a newer one. An entry is used for `Ttl` more, which makes
`Ttl + QueryTime` the bound of `AnswersAreRecent`. `DnsTypeCorrect` says with `Queue` that the semaphore's
queue and the waiting callers are the same, each once.

Then the matcher's loops, for lists of any length: `DirectMatch` (the invariant `BestOf` of the loop of
`find_direct_match()`: the best rule so far decides before every other one that matched), `PushMatches`
and `AddAddresses` (what is pushed, and when it stays free of repetitions), `Sorted` (the place of a rule is a bijection,
by counting, so sorting keeps the rules and orders them). `MatcherInv` adds to `DnsInv` that a call under way is
about the name its caller asked for, has no answer yet, and was made because there is a resolver. From it follow
`MatcherTypeCorrect`, `FirstBestCorrect`, `AllInOrderCorrect` and `AnswersFitCorrect`: when a call returns, its content is
one the name had recently (`AnswersAreRecent`'s argument, step by step), and the answer is right for it. `FirstBest` and
`AnswersFit` speak of `u32::MAX` as the code does: a rule of that priority is never found by
`find_direct_match()`, which starts with it as the best so far.

Induction. The library's induction theorems take an operator as a parameter, which the provers here cannot
instantiate, so `PatternProofs` derives induction on a set of numbers from the least element (`LeastNatural`,
`Induction`), and what is to be proved for all `n` is written as such a set. The loops are recursive functions, of which nothing is
known until their equation is shown to have a solution: `Recursion` builds one for any loop whose
steps stay in a set, and `DirectMatchLoop`, `PushLoop` and `AddLoop` apply it. Nothing is declared `RECURSIVE` in a module with a proof.

Only model-checked: liveness (`CatchesUp`, `RoutesFollow`, `KeepaliveSent`, `QueuedShutdownStops`,
`QueuedReloadApplies`, `StopReturns`, `Served`, `EditsArrive`, `CallsReturn`, `WaitsReturn`). Liveness under
fairness and ENABLED are out of the prover's reach. Every invariant and action property of the passing
runs is stated by a theorem, except `RemovesOwnRoute`, which rests on the assumption that destinations are
distinct and on little else.

## 5. Not modelled

Parsing (TOML, JSON, CIDR), logging, wording and command-line handling; what a status answer
says and `cache_stats()`, which only read; `flush_interface()`, `route_exists()`,
`flush_interface_routes()` and the Stream of the monitors, which nothing calls; the type, addresses and SSID
stored per interface, which the engine never reads; links that are renamed; failures of
the sockets to systemd and to the client; `src/error.rs`, which has no state. More than half of the lines under `src/src/` are unit tests
inside the source files, and they are not modelled: they are read for what they expect.

## 6. Running

`tlc -config <file>.cfg <module>` with the module that `PROJECT.json` names for the
run (the table of section 3 for the other files); `tlapm <module>.tla` for the seven proof modules (`...Proofs`) and `SignalWait`. The stable
runs take a minute or two each, the others seconds.

## 7. Plan

Done: every component that keeps state, its composition where components
interact (monitor with dispatcher, daemon with control server, matcher with resolver,
watcher with loader), the abstract specification of managed rules, and the theorems of section 4. Left, in
this order:

1. `Engine`: tables above the header's limit in a run; whether the kernel filters route
   dumps as a constant; `update_config()` in two steps; a second handler at once (ENG-15).
2. An abstract specification of signal delivery that `Daemon` and `SignalWait` both implement.
3. The engine behind `Daemon`: reloads of `Daemon` in place of `Engine`'s `UpdateConfig`.
