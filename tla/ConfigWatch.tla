------------------------------- MODULE ConfigWatch -------------------------------
(***************************************************************************)
(* The hot reload of src/config: ConfigLoader (loader.rs), which holds a   *)
(* configuration and publishes it in a watch channel, and ConfigWatcher    *)
(* (watcher.rs), whose tasks look at the file's modification time every    *)
(* five seconds and broadcast an event.                                    *)
(*                                                                         *)
(* The daemon uses neither reload() nor the watcher.  The consumer that    *)
(* joins them, a task that reloads on every Modified, is what the two      *)
(* interfaces are made for; the files and their times are the user's.      *)
(***************************************************************************)
EXTENDS ConfigSchema, FiniteSets

CONSTANTS
  Files,       \* contents a file may have
  Toml,        \* [Files -> what the parser makes of it: <<a configuration>> or <<>>]
  Domains,     \* domains that are looked at in patterns
  Watchers,    \* 1 .. how often start() may be called
  Capacity,    \* events the broadcast channel keeps (16)
  FreshTimes,  \* does every write get a later time than the one before?
  MaxTime      \* bound: writes of the file

ASSUME ConfigAssumption ==
  /\ \A f \in Files : Len(Toml[f]) \in {0, 1}
  /\ Watchers = 1 .. Cardinality(Watchers)
  /\ Capacity \in Nat \ {0} /\ MaxTime \in Nat \ {0}
  /\ FreshTimes \in BOOLEAN

\* The parser's patterns are strings, and so are domains.
ASSUME StringsAssumption ==
  /\ Domains \subseteq Seq(Letters)
  /\ \A f \in Files : Toml[f] # <<>> =>
       \A r \in AllRules(Toml[f][1]) :
         r.match_on.kind = "domain_pattern" => r.match_on.value \in Seq(Letters)

VARIABLES
  file,       \* the file: content and modification time
  clock,      \* the time of the last write
  watcher,    \* the tasks that start() spawned: where each is, the time it saw last
  enabled,    \* ConfigWatcher.enabled
  stopped,    \* ConfigWatcher.shutdown
  inbox,      \* events the channel keeps for the consumer
  lagged,     \* has one been overwritten since its last recv()?
  current,    \* ConfigLoader.current: the file it is from, and dry_run overridden?
  published,  \* the value in the watch channel
  receivers   \* has the watch channel a receiver?

fileVars   == <<file, clock>>
watchVars  == <<watcher, enabled, stopped>>
loaderVars == <<current, published, receivers>>
watch_vars == <<fileVars, watchVars, inbox, lagged, loaderVars>>

Absent == [content |-> "none", mtime |-> 0]

\* get_modified_time(): 0 when there is no file.
get_modified_time == file.mtime

Accepted(f) == Toml[f] # <<>> /\ ConfigValid(Toml[f][1])

ConfigTypeOK ==
  /\ file = Absent \/ file \in [content : Files, mtime : 1 .. clock]
  /\ clock \in 1 .. MaxTime
  /\ watcher \in [Watchers -> [pc : {"none", "spawned", "sleeping", "ended"}, seen : 0 .. clock]]
  /\ {enabled, stopped, lagged, receivers} \subseteq BOOLEAN
  /\ inbox \in Seq({"Modified", "Deleted"}) /\ Len(inbox) <= Capacity
  /\ enabled => \E w \in Watchers : watcher[w].pc # "none"
  /\ {current, published} \subseteq [content : Files, dry : BOOLEAN]

-----------------------------------------------------------------------------
(* Mutants of the definitions below. *)

\* Times are compared in whole seconds, two to a second.
is_newer_seconds(t, last) == t \div 2 > last \div 2

-----------------------------------------------------------------------------
(* ConfigLoader *)

\* A sender without receivers does not store the value.
Publish(value) == published' = IF receivers THEN value ELSE published

\* reload(): the file is read and validated first; a refusal changes nothing.
Reload ==
  IF file # Absent /\ Accepted(file.content)
  THEN LET value == [content |-> file.content, dry |-> FALSE]
       IN current' = value /\ Publish(value)
  ELSE UNCHANGED <<current, published>>

\* override_dry_run(true)
OverrideDryRun ==
  /\ ~current.dry
  /\ LET value == [current EXCEPT !.dry = TRUE] IN current' = value /\ Publish(value)
  /\ UNCHANGED <<fileVars, watchVars, inbox, lagged, receivers>>

\* subscribe(), and the last receiver is dropped.
SubscribeUpdates ==
  /\ receivers' = ~receivers
  /\ UNCHANGED <<fileVars, watchVars, inbox, lagged, current, published>>

-----------------------------------------------------------------------------
(* ConfigWatcher *)

SetWatcher(w, pc, seen) == watcher' = [watcher EXCEPT ![w] = [pc |-> pc, seen |-> seen]]

\* start() spawns a task, each time.
StartWatcher(w) ==
  /\ watcher[w].pc = "none" /\ \A v \in 1 .. w - 1 : watcher[v].pc # "none"
  /\ enabled' = TRUE
  /\ SetWatcher(w, "spawned", 0)
  /\ UNCHANGED <<fileVars, stopped, inbox, lagged, loaderVars>>

\* stop() tells the tasks of all starts, those to come as well.
StopWatcher ==
  /\ enabled' = FALSE /\ stopped' = TRUE
  /\ UNCHANGED <<fileVars, watcher, inbox, lagged, loaderVars>>

\* Where a task is after it looked at the file: the loop begins with the flag.
after_poll(t) == IF stopped THEN "ended" ELSE "sleeping"

\* The task looks for the first time.
BeginWatch(w) ==
  /\ watcher[w].pc = "spawned"
  /\ SetWatcher(w, after_poll(get_modified_time), get_modified_time)
  /\ UNCHANGED <<fileVars, enabled, stopped, inbox, lagged, loaderVars>>

is_newer(t, last) == t > last

\* Mutant: the channel grows.
SendEvent_unbounded(event) == inbox' = Append(inbox, event) /\ UNCHANGED lagged

\* event_tx.send(): the oldest event makes room.
SendEvent(event) ==
  LET q == Append(inbox, event) IN
  /\ inbox' = IF Len(q) > Capacity THEN Tail(q) ELSE q
  /\ lagged' = (lagged \/ Len(q) > Capacity)

\* Five seconds later: a later time is Modified, a file that has gone is Deleted.
\* Nothing else is an event, a file that has come back least of all.
Poll(w) ==
  LET last == watcher[w].seen
      t    == get_modified_time
  IN
  /\ watcher[w].pc = "sleeping"
  /\ SetWatcher(w, after_poll(t), t)
  /\ CASE last # 0 /\ t # 0 /\ is_newer(t, last) -> SendEvent("Modified")
       [] last # 0 /\ t = 0 -> SendEvent("Deleted")
       [] OTHER -> UNCHANGED <<inbox, lagged>>
  /\ UNCHANGED <<fileVars, enabled, stopped, loaderVars>>

-----------------------------------------------------------------------------
(* The consumer and the user *)

\* recv() says that events were lost, or gives the next one; Modified is a reload.
HandleEvent ==
  /\ IF lagged THEN lagged' = FALSE /\ UNCHANGED <<inbox, current, published>>
     ELSE /\ inbox # <<>> /\ inbox' = Tail(inbox) /\ UNCHANGED lagged
          /\ IF Head(inbox) = "Modified" THEN Reload ELSE UNCHANGED <<current, published>>
  /\ UNCHANGED <<fileVars, watchVars, receivers>>

\* A write takes the time of now.  Without FreshTimes the clock may not have moved
\* since the last one, or the file is one that was made earlier and moved here.
WriteFile(f) ==
  /\ \/ clock < MaxTime /\ clock' = clock + 1
     \/ ~FreshTimes /\ UNCHANGED clock
  /\ \E t \in IF FreshTimes THEN {clock'} ELSE 1 .. clock' : file' = [content |-> f, mtime |-> t]
  /\ UNCHANGED <<watchVars, inbox, lagged, loaderVars>>

DeleteFile ==
  /\ file # Absent /\ file' = Absent
  /\ UNCHANGED <<clock, watchVars, inbox, lagged, loaderVars>>

\* ConfigLoader::new() has loaded a valid file; its first receiver is dropped.
ConfigInit ==
  /\ clock = 1
  /\ file \in {[content |-> f, mtime |-> 1] : f \in {g \in Files : Accepted(g)}}
  /\ watcher = [w \in Watchers |-> [pc |-> "none", seen |-> 0]]
  /\ enabled = FALSE /\ stopped = FALSE
  /\ inbox = <<>> /\ lagged = FALSE
  /\ current = [content |-> file.content, dry |-> FALSE]
  /\ published = current /\ receivers = FALSE

WatcherStep(w) == BeginWatch(w) \/ Poll(w)

ConfigNext ==
  \/ \E w \in Watchers : StartWatcher(w) \/ WatcherStep(w)
  \/ StopWatcher \/ HandleEvent
  \/ OverrideDryRun \/ SubscribeUpdates
  \/ \E f \in Files : WriteFile(f)
  \/ DeleteFile

\* Tasks run, timers fire, and the consumer keeps receiving.
ConfigFairness ==
  /\ \A w \in Watchers : WF_watch_vars(WatcherStep(w))
  /\ WF_watch_vars(HandleEvent)

ConfigSpec == ConfigInit /\ [][ConfigNext]_watch_vars /\ ConfigFairness

-----------------------------------------------------------------------------
(* Properties *)

\* The configuration in effect and the one that subscribers get are from files that
\* were accepted, whose domain patterns the matcher understands as they are meant:
\* neither reload() nor an override lets another one through.
PatternsInEffectMean ==
  \A value \in {current, published} :
    Toml[value.content] # <<>> /\ PatternsMean(Toml[value.content][1], Domains)

\* Once a task has seen the file, a later write comes into effect, unless the file
\* is deleted or refused or the watcher is stopped: several tasks, a lagging
\* consumer, and events that were sent for earlier writes do not prevent it.
EditsArrive ==
  \A w \in Watchers :
    watcher[w].pc = "sleeping" /\ watcher[w].seen \in 1 .. file.mtime - 1 ~>
      file = Absent \/ ~Accepted(file.content) \/ current.content = file.content \/ stopped

-----------------------------------------------------------------------------
(* Claims of the documents that the code does not meet *)

\* DMN-09: a file that is written comes into effect while the watcher is enabled.
EveryEditArrives ==
  enabled ~>
    file = Absent \/ ~Accepted(file.content) \/ current.content = file.content \/ ~enabled

\* CFG-15: two rules of the same name are refused.
NamesUnique ==
  \A value \in {current, published} :
    \A rules \in RuleLists(Toml[value.content][1]) : NamesDistinct(rules)
===============================================================================
