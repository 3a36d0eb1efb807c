------------------------------ MODULE ConfigProofs ------------------------------
(***************************************************************************)
(* For every parser, every set of files and every number of watchers, the  *)
(* matcher understands the domain patterns of the configuration in effect. *)
(***************************************************************************)
EXTENDS ConfigWatch, PatternProofs

USE ConfigAssumption

-----------------------------------------------------------------------------
(* Types *)

Events == {"Modified", "Deleted"}

LEMMA SendEventType ==
  ASSUME ConfigTypeOK, NEW event \in Events, SendEvent(event)
  PROVE  /\ inbox' \in Seq(Events) /\ Len(inbox') <= Capacity
         /\ lagged' \in BOOLEAN
<1> DEFINE q == Append(inbox, event)
<1>1. inbox \in Seq(Events) /\ Len(inbox) <= Capacity /\ lagged \in BOOLEAN
  BY DEF ConfigTypeOK, Events
<1>2. q \in Seq(Events) /\ Len(q) = Len(inbox) + 1
  BY <1>1
<1>3. lagged' \in BOOLEAN
  BY <1>1 DEF SendEvent
<1>4. CASE Len(q) > Capacity
  <2>1. inbox' = Tail(q)
    BY <1>4 DEF SendEvent
  <2>2. q # <<>>
    BY <1>2
  <2>3. Tail(q) \in Seq(Events) /\ Len(Tail(q)) = Len(q) - 1
    BY <1>2, <2>2, HeadTailProperties
  <2> QED BY <1>1, <1>2, <1>3, <2>1, <2>3
<1>5. CASE ~(Len(q) > Capacity)
  <2>1. inbox' = q
    BY <1>5 DEF SendEvent
  <2> QED BY <1>1, <1>2, <1>3, <1>5, <2>1
<1> QED BY <1>4, <1>5

LEMMA ReloadType ==
  ASSUME ConfigTypeOK, Reload
  PROVE  {current', published'} \subseteq [content : Files, dry : BOOLEAN]
<1>1. CASE file # Absent /\ Accepted(file.content)
  <2> DEFINE value == [content |-> file.content, dry |-> FALSE]
  <2>1. value \in [content : Files, dry : BOOLEAN]
    BY <1>1 DEF ConfigTypeOK
  <2>2. current' = value /\ published' \in {value, published}
    BY <1>1 DEF Reload, Publish
  <2> QED BY <2>1, <2>2 DEF ConfigTypeOK
<1>2. CASE ~(file # Absent /\ Accepted(file.content))
  BY <1>2 DEF Reload, ConfigTypeOK
<1> QED BY <1>1, <1>2

LEMMA SetWatcherType ==
  ASSUME ConfigTypeOK, NEW w \in Watchers, NEW pc \in {"spawned", "sleeping", "ended"},
         NEW seen \in 0 .. clock, SetWatcher(w, pc, seen)
  PROVE  /\ watcher' \in [Watchers -> [pc : {"none", "spawned", "sleeping", "ended"},
                                       seen : 0 .. clock]]
         /\ \E v \in Watchers : watcher'[v].pc # "none"
<1>1. watcher'[w].pc = pc
  BY DEF ConfigTypeOK, SetWatcher
<1> QED BY <1>1 DEF ConfigTypeOK, SetWatcher

LEMMA PollTime ==
  ASSUME ConfigTypeOK
  PROVE  file.mtime \in 0 .. clock
BY DEF ConfigTypeOK, Absent

LEMMA ConfigTypeInit ==
  ASSUME ConfigInit
  PROVE  ConfigTypeOK
<1>1. PICK f \in Files : file = [content |-> f, mtime |-> 1]
  BY DEF ConfigInit
<1>2. inbox \in Seq({"Modified", "Deleted"}) /\ Len(inbox) <= Capacity
  BY DEF ConfigInit
<1>3. clock \in 1 .. MaxTime /\ file \in [content : Files, mtime : 1 .. clock]
  BY <1>1 DEF ConfigInit
<1>4. watcher \in [Watchers -> [pc : {"none", "spawned", "sleeping", "ended"}, seen : 0 .. clock]]
  BY DEF ConfigInit
<1>5. {current, published} \subseteq [content : Files, dry : BOOLEAN]
  BY <1>1 DEF ConfigInit
<1>6. {enabled, stopped, lagged, receivers} \subseteq BOOLEAN /\ ~enabled
  BY DEF ConfigInit
<1> QED BY <1>2, <1>3, <1>4, <1>5, <1>6 DEF ConfigTypeOK

LEMMA ConfigTypeStep ==
  ASSUME ConfigTypeOK, [ConfigNext]_watch_vars
  PROVE  ConfigTypeOK'
<1>1. ASSUME NEW w \in Watchers, StartWatcher(w) PROVE ConfigTypeOK'
  <2>1. 0 \in 0 .. clock
    BY DEF ConfigTypeOK
  <2>2. SetWatcher(w, "spawned", 0)
    BY <1>1 DEF StartWatcher
  <2>3. /\ watcher' \in [Watchers -> [pc : {"none", "spawned", "sleeping", "ended"},
                                      seen : 0 .. clock]]
        /\ \E v \in Watchers : watcher'[v].pc # "none"
    BY <2>1, <2>2, SetWatcherType
  <2> QED BY <1>1, <2>3 DEF ConfigTypeOK, StartWatcher, fileVars, loaderVars
<1>2. ASSUME NEW w \in Watchers, WatcherStep(w) PROVE ConfigTypeOK'
  <2> DEFINE t == get_modified_time
  <2>1. t \in 0 .. clock
    BY PollTime DEF get_modified_time
  <2>2. after_poll(t) \in {"spawned", "sleeping", "ended"} /\ SetWatcher(w, after_poll(t), t)
    BY <1>2 DEF WatcherStep, BeginWatch, Poll, after_poll
  <2>3. /\ watcher' \in [Watchers -> [pc : {"none", "spawned", "sleeping", "ended"},
                                      seen : 0 .. clock]]
        /\ \E v \in Watchers : watcher'[v].pc # "none"
    <3> HIDE DEF t
    <3> QED BY <2>1, <2>2, SetWatcherType
  <2>4. /\ inbox' \in Seq(Events) /\ Len(inbox') <= Capacity
        /\ lagged' \in BOOLEAN
    <3>1. \/ SendEvent("Modified") \/ SendEvent("Deleted")
          \/ UNCHANGED <<inbox, lagged>>
      BY <1>2 DEF WatcherStep, BeginWatch, Poll
    <3>2. "Modified" \in Events /\ "Deleted" \in Events
      BY DEF Events
    <3>3. CASE UNCHANGED <<inbox, lagged>>
      BY <3>3 DEF ConfigTypeOK, Events
    <3> QED BY <3>1, <3>2, <3>3, SendEventType
  <2>5. UNCHANGED <<fileVars, enabled, stopped, loaderVars>>
    BY <1>2 DEF WatcherStep, BeginWatch, Poll
  <2> QED BY <2>3, <2>4, <2>5 DEF ConfigTypeOK, Events, fileVars, loaderVars
<1>3. CASE StopWatcher
  BY <1>3 DEF ConfigTypeOK, StopWatcher, fileVars, loaderVars
<1>4. CASE HandleEvent
  <2>1. UNCHANGED <<fileVars, watchVars, receivers>>
    BY <1>4 DEF HandleEvent
  <2>2. {current', published'} \subseteq [content : Files, dry : BOOLEAN]
    <3>1. Reload \/ UNCHANGED <<current, published>>
      BY <1>4 DEF HandleEvent
    <3> QED BY <3>1, ReloadType DEF ConfigTypeOK
  <2>3. inbox' \in Seq(Events) /\ Len(inbox') <= Capacity /\ lagged' \in BOOLEAN
    <3>1. CASE lagged
      BY <1>4, <3>1 DEF HandleEvent, ConfigTypeOK, Events
    <3>2. CASE ~lagged
      <4>1. inbox # <<>> /\ inbox' = Tail(inbox) /\ lagged' = lagged
        BY <1>4, <3>2 DEF HandleEvent
      <4>2. inbox \in Seq(Events) /\ Len(inbox) <= Capacity /\ lagged \in BOOLEAN
        BY DEF ConfigTypeOK, Events
      <4>3. Tail(inbox) \in Seq(Events) /\ Len(Tail(inbox)) = Len(inbox) - 1
        BY <4>1, <4>2, HeadTailProperties
      <4> QED BY <4>1, <4>2, <4>3
    <3> QED BY <3>1, <3>2
  <2> QED BY <2>1, <2>2, <2>3 DEF ConfigTypeOK, Events, fileVars, watchVars
<1>5. CASE OverrideDryRun
  <2>1. [current EXCEPT !.dry = TRUE] \in [content : Files, dry : BOOLEAN]
    BY DEF ConfigTypeOK
  <2>2. {current', published'} \subseteq [content : Files, dry : BOOLEAN]
    BY <1>5, <2>1 DEF OverrideDryRun, Publish, ConfigTypeOK
  <2> QED BY <1>5, <2>2 DEF ConfigTypeOK, OverrideDryRun, fileVars, watchVars
<1>6. CASE SubscribeUpdates
  BY <1>6 DEF ConfigTypeOK, SubscribeUpdates, fileVars, watchVars
<1>7. ASSUME NEW f \in Files, WriteFile(f) PROVE ConfigTypeOK'
  <2>1. clock' \in 1 .. MaxTime /\ clock <= clock'
    BY <1>7 DEF WriteFile, ConfigTypeOK
  <2>2. file' \in [content : Files, mtime : 1 .. clock']
    BY <1>7, <2>1 DEF WriteFile
  <2>3. 0 .. clock \subseteq 0 .. clock'
    BY <2>1 DEF ConfigTypeOK
  <2>4. watcher' \in [Watchers -> [pc : {"none", "spawned", "sleeping", "ended"},
                                   seen : 0 .. clock']]
    BY <1>7, <2>3 DEF WriteFile, ConfigTypeOK, watchVars
  <2> QED BY <1>7, <2>1, <2>2, <2>4 DEF ConfigTypeOK, WriteFile, watchVars, loaderVars
<1>8. CASE DeleteFile
  BY <1>8 DEF ConfigTypeOK, DeleteFile, watchVars, loaderVars
<1>9. CASE UNCHANGED watch_vars
  BY <1>9 DEF ConfigTypeOK, watch_vars, fileVars, watchVars, loaderVars
<1> QED BY <1>1, <1>2, <1>3, <1>4, <1>5, <1>6, <1>7, <1>8, <1>9 DEF ConfigNext

(* File, watchers, channel and loader are always of their types; while the watcher *)
(* is enabled a task of it was started, and the channel never exceeds its size.    *)
THEOREM ConfigTypeCorrect == ConfigSpec => []ConfigTypeOK
<1>1. ConfigInit => ConfigTypeOK
  BY ConfigTypeInit
<1>2. ConfigTypeOK /\ [ConfigNext]_watch_vars => ConfigTypeOK'
  BY ConfigTypeStep
<1> QED BY <1>1, <1>2, PTL DEF ConfigSpec

-----------------------------------------------------------------------------
(* The configuration in effect *)

(* Every domain pattern of a configuration that validate() lets through, a default *)
(* rule's or a WiFi profile's, the matcher understands as it is meant.             *)
THEOREM AcceptedPatternsMean ==
  ASSUME NEW f \in Files, Accepted(f)
  PROVE  Toml[f] # <<>> /\ PatternsMean(Toml[f][1], Domains)
<1> DEFINE c == Toml[f][1]
<1>1. Toml[f] # <<>> /\ ConfigValid(c)
  BY DEF Accepted
<1>2. ASSUME NEW r \in AllRules(c)
      PROVE  RuleValid(r)
  <2>1. CASE r \in ToSet(c.default_rules)
    BY <1>1, <2>1 DEF ConfigValid, RoutingValid
  <2>2. ASSUME NEW p \in Range(c.wifi_profiles), r \in ToSet(p.rules)
        PROVE  RuleValid(r)
    BY <1>1, <2>2 DEF ConfigValid, WifiProfileValid
  <2> QED BY <2>1, <2>2 DEF AllRules
<1>3. ASSUME NEW r \in AllRules(c), r.match_on.kind = "domain_pattern"
      PROVE  MatcherMeans(r.match_on.value, Domains)
  <2>1. r.match_on.value \in Seq(Letters) /\ Domains \in SUBSET Seq(Letters)
    BY <1>1, <1>3, StringsAssumption
  <2>2. validate_domain_pattern(r.match_on.value)
    BY <1>2, <1>3 DEF RuleValid
  <2> QED BY <2>1, <2>2, ValidPatternsMean
<1> QED BY <1>1, <1>3 DEF PatternsMean

\* Both configurations are from accepted files.
InEffectAccepted == Accepted(current.content) /\ Accepted(published.content)

LEMMA AcceptedInit ==
  ASSUME ConfigInit
  PROVE  InEffectAccepted
<1>1. PICK f \in Files : Accepted(f) /\ file = [content |-> f, mtime |-> 1]
  BY DEF ConfigInit
<1>2. current.content = f /\ published.content = f
  BY <1>1 DEF ConfigInit
<1> QED BY <1>1, <1>2 DEF InEffectAccepted

LEMMA AcceptedStep ==
  ASSUME ConfigTypeOK, InEffectAccepted, [ConfigNext]_watch_vars
  PROVE  InEffectAccepted'
<1>1. ASSUME UNCHANGED <<current, published>> PROVE InEffectAccepted'
  BY <1>1 DEF InEffectAccepted, Accepted
<1>2. CASE Reload
  <2>1. CASE file # Absent /\ Accepted(file.content)
    <3>1. current'.content = file.content
            /\ published'.content \in {file.content, published.content}
      BY <1>2, <2>1 DEF Reload, Publish
    <3> QED BY <2>1, <3>1 DEF InEffectAccepted, Accepted
  <2>2. CASE ~(file # Absent /\ Accepted(file.content))
    BY <1>1, <1>2, <2>2 DEF Reload
  <2> QED BY <2>1, <2>2
<1>3. CASE OverrideDryRun
  <2>1. [current EXCEPT !.dry = TRUE].content = current.content
    BY DEF ConfigTypeOK
  <2>2. /\ current'.content = current.content
        /\ published'.content \in {current.content, published.content}
    BY <1>3, <2>1 DEF OverrideDryRun, Publish
  <2> QED BY <2>2 DEF InEffectAccepted, Accepted
<1>4. \/ Reload \/ OverrideDryRun \/ UNCHANGED <<current, published>>
  BY DEF ConfigNext, StartWatcher, WatcherStep, BeginWatch, Poll, StopWatcher, HandleEvent,
         SubscribeUpdates, WriteFile, DeleteFile, loaderVars, watch_vars
<1> QED BY <1>1, <1>2, <1>3, <1>4

(* The configuration in effect and the one that subscribers get have only domain   *)
(* patterns that the matcher understands as they are meant, whatever is written,   *)
(* reloaded and overridden.                                                        *)
THEOREM PatternsInEffect == ConfigSpec => []PatternsInEffectMean
<1>1. ConfigInit => InEffectAccepted
  BY AcceptedInit
<1>2. ConfigTypeOK /\ InEffectAccepted /\ [ConfigNext]_watch_vars => InEffectAccepted'
  BY AcceptedStep
<1>3. ConfigTypeOK /\ InEffectAccepted => PatternsInEffectMean
  <2> SUFFICES ASSUME ConfigTypeOK, InEffectAccepted, NEW value \in {current, published}
               PROVE  Toml[value.content] # <<>> /\ PatternsMean(Toml[value.content][1], Domains)
    BY DEF PatternsInEffectMean
  <2>1. value.content \in Files /\ Accepted(value.content)
    BY DEF ConfigTypeOK, InEffectAccepted
  <2> QED BY <2>1, AcceptedPatternsMean
<1> QED BY <1>1, <1>2, <1>3, ConfigTypeCorrect, PTL DEF ConfigSpec
===============================================================================
