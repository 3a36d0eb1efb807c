------------------------------- MODULE LinkProofs -------------------------------
(***************************************************************************)
(* What the monitor reports, and what the dispatcher makes of it, for any  *)
(* number of links, names and changes.                                     *)
(***************************************************************************)
EXTENDS LinkWatch, FiniteSetTheorems, SequenceTheorems, TLAPS

\* The types of MonitorTypeOK, each function by its own domain.
MonitorInv ==
  /\ DOMAIN links \subseteq Links /\ links \in [DOMAIN links -> Link]
  /\ gone \subseteq Names
  /\ connected \in BOOLEAN
  /\ DOMAIN prev \subseteq Links /\ prev \in [DOMAIN prev -> Snapshot]
  /\ events \in Seq(Event)
  /\ view \subseteq Names
  /\ changes \in 0 .. MaxChanges

\* A name is that of one link, now and in the last snapshot.
OneName ==
  /\ \A i, j \in DOMAIN links : links[i].name = links[j].name => i = j
  /\ \A i, j \in DOMAIN prev : prev[i].name = prev[j].name => i = j
  /\ \A i \in DOMAIN prev \cap DOMAIN links : prev[i].name = links[i].name

\* Names that are gone stay so, unless they may come back.
GoneOK ==
  /\ NamesInUse \cap gone = {}
  /\ \A i \in DOMAIN prev \ DOMAIN links : prev[i].name \in gone

\* Of each name one event at most is waiting, and it is what the view lacks.
EventsOK ==
  /\ \A j, k \in 1 .. Len(events) : events[j].interface = events[k].interface => j = k
  /\ \A k \in 1 .. Len(events) :
       LET n == events[k].interface IN
       /\ events[k].change = "up" => n \in UpNames(prev) /\ n \notin view
       /\ events[k].change = "down" => n \notin UpNames(prev) /\ n \in view
       /\ events[k].change = "removed" => n \notin UpNames(prev)
  /\ \A n \in Names : (\A k \in 1 .. Len(events) : events[k].interface # n) =>
       (n \in view <=> n \in UpNames(prev))

-----------------------------------------------------------------------------
(* Data *)

LEMMA FinitePart ==
  ASSUME NEW S \in SUBSET Links
  PROVE  IsFiniteSet(S) /\ Cardinality(S) \in Nat
  BY FS_Subset, FS_CardinalityType, LinksAssumption

\* An order of a finite set has each of its elements once.
LEMMA Orders ==
  ASSUME NEW S \in SUBSET Links, NEW s \in SetToSeqs(S)
  PROVE  /\ s \in Seq(S) /\ DOMAIN s = 1 .. Len(s)
         /\ \A j, k \in 1 .. Len(s) : s[j] = s[k] => j = k
         /\ \A x \in S : \E k \in 1 .. Len(s) : s[k] = x
<1> DEFINE N == Cardinality(S)
<1>1. N \in Nat /\ IsFiniteSet(S)
  BY FinitePart
<1>2. s \in [1 .. N -> S] /\ \A j, k \in 1 .. N : j # k => s[j] # s[k]
  BY DEF SetToSeqs
<1>3. s \in Injection(1 .. N, S)
  BY <1>2 DEF Injection, IsInjective
<1>4. Cardinality(1 .. N) = N
  BY <1>1, FS_Interval
<1> HIDE DEF N
<1>5. s \in Surjection(1 .. N, S)
  BY <1>1, <1>3, <1>4, FS_Injection DEF N
<1>6. \A x \in S : \E k \in 1 .. N : s[k] = x
  BY <1>5 DEF Surjection
<1>7. s \in Seq(S) /\ Len(s) = N
  BY <1>1, <1>2
<1> QED
  BY <1>2, <1>6, <1>7

LEMMA SnapshotType ==
  ASSUME MonitorInv
  PROVE  /\ DOMAIN snapshot_interfaces \subseteq DOMAIN links
         /\ snapshot_interfaces \in [DOMAIN snapshot_interfaces -> Snapshot]
         /\ \A i \in DOMAIN snapshot_interfaces :
              snapshot_interfaces[i].name = links[i].name
  BY DEF MonitorInv, snapshot_interfaces, NoLinks, extract_link_snapshot, Link, Snapshot

LEMMA UpNamesType ==
  ASSUME NEW f, f \in [DOMAIN f -> Snapshot]
  PROVE  UpNames(f) \subseteq Names
  BY DEF UpNames, Snapshot

\* E tells the changed links, in the order A, and then the removed ones in the order B.
Told(current, E, A, B) ==
  /\ E \in Seq(Event) /\ Len(E) = Len(A) + Len(B)
  /\ \A k \in 1 .. Len(A) :
       A[k] \in changed_links(current) /\ E[k] = link_event(current[A[k]])
  /\ \A k \in 1 .. Len(B) :
       /\ B[k] \in removed_links(current)
       /\ E[Len(A) + k] = [interface |-> prev[B[k]].name, change |-> "removed"]
  /\ \A j, k \in 1 .. Len(A) : A[j] = A[k] => j = k
  /\ \A j, k \in 1 .. Len(B) : B[j] = B[k] => j = k
  /\ \A i \in changed_links(current) : \E k \in 1 .. Len(A) : A[k] = i
  /\ \A i \in removed_links(current) : \E k \in 1 .. Len(B) : B[k] = i

LEMMA PollEvents ==
  ASSUME MonitorInv, NEW current, DOMAIN current \subseteq Links,
         current \in [DOMAIN current -> Snapshot], NEW E \in poll_events(current)
  PROVE  \E A, B \in Seq(Links) : Told(current, E, A, B)
<1> DEFINE changed == changed_links(current)
           removed == removed_links(current)
<1>1. PICK A \in SetToSeqs(changed), B \in SetToSeqs(removed) :
        E = changed_events(current, A) \o removed_events(B)
  BY DEF poll_events
<1> DEFINE EA == changed_events(current, A)
           EB == removed_events(B)
<1>3. changed \subseteq DOMAIN current /\ removed \subseteq DOMAIN prev
  BY DEF changed_links, removed_links
<1>4. changed \in SUBSET Links /\ removed \in SUBSET Links
  BY <1>3 DEF MonitorInv
<1>5. /\ A \in Seq(changed) /\ DOMAIN A = 1 .. Len(A)
      /\ \A j, k \in 1 .. Len(A) : A[j] = A[k] => j = k
      /\ \A x \in changed : \E k \in 1 .. Len(A) : A[k] = x
  BY <1>4, Orders
<1>6. /\ B \in Seq(removed) /\ DOMAIN B = 1 .. Len(B)
      /\ \A j, k \in 1 .. Len(B) : B[j] = B[k] => j = k
      /\ \A x \in removed : \E k \in 1 .. Len(B) : B[k] = x
  BY <1>4, Orders
<1>7. /\ Len(A) \in Nat /\ \A k \in 1 .. Len(A) : A[k] \in changed
      /\ Len(B) \in Nat /\ \A k \in 1 .. Len(B) : B[k] \in removed
      /\ A \in Seq(Links) /\ B \in Seq(Links)
  BY <1>4, <1>5, <1>6
<1>8. EA \in Seq(Event) /\ Len(EA) = Len(A)
  <2>1. \A k \in 1 .. Len(A) : link_event(current[A[k]]) \in Event
    BY <1>3, <1>7 DEF link_event, Event, Snapshot
  <2>2. EA \in [1 .. Len(A) -> Event]
    BY <1>5, <2>1 DEF changed_events
  <2> QED
    BY <1>7, <2>2
<1>9. EB \in Seq(Event) /\ Len(EB) = Len(B)
  <2>1. \A k \in 1 .. Len(B) : [interface |-> prev[B[k]].name, change |-> "removed"] \in Event
    BY <1>3, <1>7 DEF MonitorInv, Event, Snapshot
  <2>2. EB \in [1 .. Len(B) -> Event]
    BY <1>6, <2>1 DEF removed_events
  <2> QED
    BY <1>7, <2>2
<1>10. /\ \A k \in 1 .. Len(A) : EA[k] = link_event(current[A[k]])
       /\ \A k \in 1 .. Len(B) :
            EB[k] = [interface |-> prev[B[k]].name, change |-> "removed"]
  BY <1>5, <1>6 DEF changed_events, removed_events
<1>11. /\ E \in Seq(Event) /\ Len(E) = Len(A) + Len(B)
       /\ \A k \in 1 .. Len(A) : E[k] = EA[k]
       /\ \A k \in 1 .. Len(B) : E[Len(A) + k] = EB[k]
  <2>1. E = EA \o EB
    BY <1>1
  <2> HIDE DEF EA, EB
  <2>2. /\ E \in Seq(Event) /\ Len(E) = Len(A) + Len(B)
        /\ \A k \in 1 .. Len(A) + Len(B) :
             E[k] = IF k <= Len(A) THEN EA[k] ELSE EB[k - Len(A)]
    <3>1. /\ EA \o EB \in Seq(Event) /\ Len(EA \o EB) = Len(EA) + Len(EB)
          /\ \A k \in 1 .. Len(EA) + Len(EB) :
               (EA \o EB)[k] = IF k <= Len(EA) THEN EA[k] ELSE EB[k - Len(EA)]
      BY <1>8, <1>9, ConcatProperties
    <3> QED
      BY <1>8, <1>9, <2>1, <3>1
  <2>3. ASSUME NEW k \in 1 .. Len(B) PROVE E[Len(A) + k] = EB[k]
    <3>1. /\ Len(A) + k \in 1 .. Len(A) + Len(B) /\ ~(Len(A) + k <= Len(A))
          /\ Len(A) + k - Len(A) = k
      BY <1>7
    <3> QED
      BY <2>2, <3>1
  <2> QED
    BY <1>7, <2>2, <2>3
<1>12. Told(current, E, A, B)
  <2> HIDE DEF EA, EB
  <2> QED
    BY <1>5, <1>6, <1>7, <1>10, <1>11 DEF Told
<1> QED
  BY <1>7, <1>12

-----------------------------------------------------------------------------
(* The kernel's steps, link by link *)

Plugged(i, n) ==
  /\ i \in Links \ (DOMAIN links \cup DOMAIN prev)
  /\ n \in Names \ NamesInUse /\ (n \in gone => Replugs)
  /\ DOMAIN links' = DOMAIN links \cup {i} /\ links'[i].name = n
  /\ \A j \in DOMAIN links : links'[j] = links[j]
  /\ gone' = gone

Unplugged(i) ==
  /\ i \in DOMAIN links
  /\ DOMAIN links' = DOMAIN links \ {i}
  /\ \A j \in DOMAIN links \ {i} : links'[j] = links[j]
  /\ gone' = gone \cup {links[i].name}

Changed(i) ==
  /\ i \in DOMAIN links
  /\ DOMAIN links' = DOMAIN links
  /\ \A j \in DOMAIN links \ {i} : links'[j] = links[j]
  /\ links'[i].name = links[i].name
  /\ links'[i].up = links[i].up \/ links[i].name \in AdminSets
  /\ gone' = gone

LEMMA LinkSteps ==
  ASSUME MonitorInv, LinksChange
  PROVE  /\ DOMAIN links' \subseteq Links /\ links' \in [DOMAIN links' -> Link]
         /\ gone' \subseteq Names /\ changes' \in 0 .. MaxChanges
         /\ \/ \E i \in Links, n \in Names : Plugged(i, n)
            \/ \E i \in DOMAIN links : Unplugged(i) \/ Changed(i)
<1>1. changes' \in 0 .. MaxChanges
  <2>1. LinkChange
    BY DEF LinksChange, Plug, Unplug, SetUp, SetCarrier
  <2> QED
    BY <2>1, LinksAssumption DEF LinkChange, MonitorInv
<1>2. ASSUME NEW n \in Names, Plug(n)
      PROVE  /\ DOMAIN links' \subseteq Links /\ links' \in [DOMAIN links' -> Link]
             /\ gone' \subseteq Names
             /\ \E i \in Links : Plugged(i, n)
  <2>1. PICK i \in Links \ (DOMAIN links \cup DOMAIN prev), up \in BOOLEAN, on \in BOOLEAN :
          links' = [j \in DOMAIN links \cup {i} |->
                      IF j = i THEN [name |-> n, up |-> up, running |-> on] ELSE links[j]]
    BY <1>2 DEF Plug
  <2>2. [name |-> n, up |-> up, running |-> on] \in Link
    BY DEF Link
  <2>3. gone' = gone /\ n \notin NamesInUse /\ (n \in gone => Replugs)
    BY <1>2 DEF Plug
  <2> QED
    BY <2>1, <2>2, <2>3 DEF MonitorInv, Plugged
<1>3. ASSUME NEW i \in DOMAIN links, Unplug(i)
      PROVE  /\ DOMAIN links' \subseteq Links /\ links' \in [DOMAIN links' -> Link]
             /\ gone' \subseteq Names
             /\ Unplugged(i)
  BY <1>3 DEF Unplug, MonitorInv, Link, Unplugged
<1>4. ASSUME NEW i \in DOMAIN links, SetUp(i)
      PROVE  /\ DOMAIN links' \subseteq Links /\ links' \in [DOMAIN links' -> Link]
             /\ gone' \subseteq Names
             /\ Changed(i)
  BY <1>4 DEF SetUp, SetLink, MonitorInv, Link, Changed
<1>5. ASSUME NEW i \in DOMAIN links, SetCarrier(i)
      PROVE  /\ DOMAIN links' \subseteq Links /\ links' \in [DOMAIN links' -> Link]
             /\ gone' \subseteq Names
             /\ Changed(i)
  BY <1>5 DEF SetCarrier, SetLink, MonitorInv, Link, Changed
<1> QED
  BY <1>1, <1>2, <1>3, <1>4, <1>5 DEF LinksChange

-----------------------------------------------------------------------------
(* Types *)

LEMMA MonitorInit == Init => MonitorInv
<1> SUFFICES ASSUME Init PROVE MonitorInv
  OBVIOUS
<1>1. DOMAIN links \subseteq Links /\ links \in [DOMAIN links -> Link]
  BY DEF Init, InitialLinks
<1>2. snapshot_interfaces \in [DOMAIN snapshot_interfaces -> Snapshot]
      /\ DOMAIN snapshot_interfaces \subseteq Links
  BY <1>1 DEF snapshot_interfaces, NoLinks, extract_link_snapshot, Link, Snapshot
<1>3. NoLinks \in [DOMAIN NoLinks -> Snapshot] /\ DOMAIN NoLinks \subseteq Links
  BY DEF NoLinks
<1>4. DOMAIN prev \subseteq Links /\ prev \in [DOMAIN prev -> Snapshot]
  BY <1>2, <1>3 DEF Init, NewMonitor
<1>5. view \subseteq Names
  BY <1>4, UpNamesType DEF Init, NewMonitor
<1>6. 0 \in 0 .. MaxChanges
  BY LinksAssumption
<1> QED
  BY <1>1, <1>4, <1>5, <1>6 DEF MonitorInv, Init, InitialLinks, NewMonitor

LEMMA MonitorNext == MonitorInv /\ [Next]_monitor_vars => MonitorInv'
<1> SUFFICES ASSUME MonitorInv, [Next]_monitor_vars PROVE MonitorInv'
  OBVIOUS
<1>1. CASE Poll
  <2>1. /\ DOMAIN snapshot_interfaces \subseteq Links
        /\ snapshot_interfaces \in [DOMAIN snapshot_interfaces -> Snapshot]
    BY SnapshotType DEF MonitorInv
  <2>2. PICK A \in Seq(Links), B \in Seq(Links) : Told(snapshot_interfaces, events', A, B)
    BY <1>1, <2>1, PollEvents DEF Poll, PollChanges
  <2> QED
    BY <1>1, <2>1, <2>2 DEF Poll, PollChanges, Told, MonitorInv, kernelVars
<1>2. CASE Handle
  <2>1. events \in Seq(Event) /\ events # <<>>
    BY <1>2 DEF Handle, TakeEvent, MonitorInv
  <2>2. Head(events) \in Event /\ Tail(events) \in Seq(Event)
    BY <2>1, HeadTailProperties
  <2> QED
    BY <1>2, <2>2 DEF Handle, TakeEvent, MonitorInv, kernelVars, Event
<1>3. CASE LinksChange /\ UNCHANGED monitorVars
  BY <1>3, LinkSteps DEF MonitorInv, monitorVars
<1>4. CASE UNCHANGED monitor_vars
  BY <1>4 DEF MonitorInv, monitor_vars, monitorVars, kernelVars
<1> QED
  BY <1>1, <1>2, <1>3, <1>4 DEF Next

LEMMA MonitorTypes == MonitorInv => MonitorTypeOK
  BY DEF MonitorInv, MonitorTypeOK
-----------------------------------------------------------------------------
(* Names *)

LEMMA NamesInit == Init => OneName /\ GoneOK
<1> SUFFICES ASSUME Init PROVE OneName /\ GoneOK
  OBVIOUS
<1>1. /\ \A i, j \in DOMAIN links : links[i].name = links[j].name => i = j
      /\ gone = {}
  BY DEF Init, InitialLinks
<1>2. /\ DOMAIN prev \subseteq DOMAIN links
      /\ \A i \in DOMAIN prev : prev[i].name = links[i].name
  BY DEF Init, NewMonitor, snapshot_interfaces, NoLinks, extract_link_snapshot
<1> QED
  BY <1>1, <1>2 DEF OneName, GoneOK

LEMMA NamesNext ==
  ASSUME ~Replugs, MonitorInv, OneName, GoneOK, [Next]_monitor_vars
  PROVE  OneName' /\ GoneOK'
<1> USE DEF OneName, GoneOK, NamesInUse
<1>1. CASE Poll
  BY <1>1, SnapshotType DEF Poll, PollChanges, kernelVars
<1>2. CASE Handle
  BY <1>2 DEF Handle, TakeEvent, kernelVars
<1>3. CASE LinksChange /\ UNCHANGED monitorVars
  <2>1. prev' = prev
    BY <1>3 DEF monitorVars
  <2>2. ASSUME NEW i \in Links, NEW n \in Names, Plugged(i, n)
        PROVE  OneName' /\ GoneOK'
    BY <2>1, <2>2 DEF Plugged
  <2>3. ASSUME NEW i \in DOMAIN links, Unplugged(i)
        PROVE  OneName' /\ GoneOK'
    BY <2>1, <2>3 DEF Unplugged
  <2>4. ASSUME NEW i \in DOMAIN links, Changed(i)
        PROVE  OneName' /\ GoneOK'
    <3>1. \A j \in DOMAIN links' : links'[j].name = links[j].name
      BY <2>4 DEF Changed
    <3> QED
      BY <2>1, <2>4, <3>1 DEF Changed
  <2> QED
    BY <1>3, <2>2, <2>3, <2>4, LinkSteps
<1>4. CASE UNCHANGED monitor_vars
  BY <1>4 DEF monitor_vars, monitorVars, kernelVars
<1> QED
  BY <1>1, <1>2, <1>3, <1>4 DEF Next

-----------------------------------------------------------------------------
(* Events *)

LEMMA UpIn ==
  ASSUME NEW f, NEW n
  PROVE  n \in UpNames(f) <=> \E i \in DOMAIN f : f[i].name = n /\ f[i].is_up
  BY DEF UpNames

\* When all events of a poll are handled, the view is the snapshot.
LEMMA AllTold ==
  ASSUME MonitorInv, EventsOK, events = <<>>
  PROVE  view = UpNames(prev)
<1>1. view \subseteq Names /\ UpNames(prev) \subseteq Names
  BY UpNamesType DEF MonitorInv
<1>2. Len(events) = 0
  OBVIOUS
<1>3. \A n \in Names : n \in view <=> n \in UpNames(prev)
  BY <1>2 DEF EventsOK
<1> QED
  BY <1>1, <1>3

LEMMA EventsPoll ==
  ASSUME MonitorInv, OneName, GoneOK, EventsOK, Poll
  PROVE  EventsOK'
<1> DEFINE now == snapshot_interfaces
<1>1. /\ DOMAIN now \subseteq Links /\ now \in [DOMAIN now -> Snapshot]
      /\ DOMAIN now \subseteq DOMAIN links
      /\ \A i \in DOMAIN now : now[i].name = links[i].name
  BY SnapshotType DEF MonitorInv
<1>2. prev' = now /\ view' = view /\ view = UpNames(prev) /\ events' \in poll_events(now)
  BY AllTold DEF Poll, PollChanges
<1>3. PICK A \in Seq(Links), B \in Seq(Links) : Told(now, events', A, B)
  BY <1>1, <1>2, PollEvents
<1> HIDE DEF now
<1>4. /\ \A i \in DOMAIN now, j \in DOMAIN prev : now[i].name = prev[j].name <=> i = j
      /\ \A i, j \in DOMAIN now : now[i].name = now[j].name => i = j
  BY <1>1 DEF OneName, GoneOK, NamesInUse
<1>5. /\ \A i \in DOMAIN now :
           /\ now[i].name \in UpNames(now) <=> now[i].is_up
           /\ now[i].name \in UpNames(prev) <=> i \in DOMAIN prev /\ prev[i].is_up
      /\ \A i \in DOMAIN prev :
           prev[i].name \in UpNames(now) <=> i \in DOMAIN now /\ now[i].is_up
  BY <1>4, UpIn
<1>6. /\ Len(A) \in Nat /\ Len(B) \in Nat /\ Len(events') = Len(A) + Len(B)
      /\ \A k \in 1 .. Len(A) :
           /\ A[k] \in DOMAIN now /\ events'[k].interface = now[A[k]].name
           /\ A[k] \in changed_links(now)
           /\ events'[k].change = IF now[A[k]].is_up THEN "up" ELSE "down"
      /\ \A k \in 1 .. Len(B) :
           /\ B[k] \in DOMAIN prev \ DOMAIN now
           /\ events'[Len(A) + k].interface = prev[B[k]].name
           /\ events'[Len(A) + k].change = "removed"
  <2>1. /\ Len(A) \in Nat /\ Len(B) \in Nat /\ Len(events') = Len(A) + Len(B)
        /\ \A k \in 1 .. Len(A) :
             A[k] \in changed_links(now) /\ events'[k] = link_event(now[A[k]])
        /\ \A k \in 1 .. Len(B) :
             /\ B[k] \in removed_links(now)
             /\ events'[Len(A) + k] = [interface |-> prev[B[k]].name, change |-> "removed"]
    BY <1>3 DEF Told
  <2>2. \A i : /\ link_event(now[i]).interface = now[i].name
               /\ link_event(now[i]).change = IF now[i].is_up THEN "up" ELSE "down"
    BY DEF link_event
  <2>3. changed_links(now) \subseteq DOMAIN now /\ removed_links(now) = DOMAIN prev \ DOMAIN now
    BY DEF changed_links, removed_links
  <2>4. ASSUME NEW k \in 1 .. Len(A)
        PROVE  /\ A[k] \in DOMAIN now /\ events'[k].interface = now[A[k]].name
               /\ A[k] \in changed_links(now)
               /\ events'[k].change = IF now[A[k]].is_up THEN "up" ELSE "down"
    BY <2>1, <2>2, <2>3
  <2>5. ASSUME NEW k \in 1 .. Len(B)
        PROVE  /\ B[k] \in DOMAIN prev \ DOMAIN now
               /\ events'[Len(A) + k].interface = prev[B[k]].name
               /\ events'[Len(A) + k].change = "removed"
    <3>1. events'[Len(A) + k] = [interface |-> prev[B[k]].name, change |-> "removed"]
      BY <2>1
    <3>2. B[k] \in removed_links(now)
      BY <2>1
    <3> QED
      BY <2>3, <3>1, <3>2
  <2> QED
    BY <2>1, <2>4, <2>5
<1>7. \A k \in 1 .. Len(events') :
        k \in 1 .. Len(A) \/ \E m \in 1 .. Len(B) : k = Len(A) + m
  <2> SUFFICES ASSUME NEW k \in 1 .. Len(events'), k \notin 1 .. Len(A)
               PROVE  k - Len(A) \in 1 .. Len(B) /\ k = Len(A) + (k - Len(A))
    OBVIOUS
  <2> QED
    BY <1>6
<1>8. \A j, k \in 1 .. Len(events') :
        events'[j].interface = events'[k].interface => j = k
  <2> SUFFICES ASSUME NEW j \in 1 .. Len(events'), NEW k \in 1 .. Len(events'),
                      events'[j].interface = events'[k].interface
               PROVE  j = k
    OBVIOUS
  <2>1. CASE j \in 1 .. Len(A) /\ k \in 1 .. Len(A)
    <3>1. A[j] = A[k]
      <4>1. /\ A[j] \in DOMAIN now /\ A[k] \in DOMAIN now
            /\ now[A[j]].name = now[A[k]].name
        BY <1>6, <2>1
      <4> QED
        BY <1>4, <4>1
    <3> QED
      BY <1>3, <2>1, <3>1 DEF Told
  <2>2. ASSUME NEW a \in 1 .. Len(A), NEW b \in 1 .. Len(B)
        PROVE  events'[a].interface # events'[Len(A) + b].interface
    <3>1. A[a] \in DOMAIN now /\ events'[a].interface = now[A[a]].name
      BY <1>6
    <3>2. /\ B[b] \in DOMAIN prev \ DOMAIN now
          /\ events'[Len(A) + b].interface = prev[B[b]].name
      BY <1>6
    <3>3. now[A[a]].name # prev[B[b]].name
      BY <1>4, <3>1, <3>2
    <3> QED
      BY <3>1, <3>2, <3>3
  <2>3. ASSUME NEW a \in 1 .. Len(B), NEW b \in 1 .. Len(B),
               events'[Len(A) + a].interface = events'[Len(A) + b].interface
        PROVE  a = b
    <3>1. prev[B[a]].name = prev[B[b]].name /\ B[a] \in DOMAIN prev /\ B[b] \in DOMAIN prev
      BY <1>6, <2>3
    <3>2. B[a] = B[b]
      BY <3>1 DEF OneName
    <3> QED
      BY <1>3, <3>2 DEF Told
  <2> QED
    BY <1>7, <2>1, <2>2, <2>3
<1>9. ASSUME NEW k \in 1 .. Len(events')
      PROVE  LET n == events'[k].interface IN
             /\ events'[k].change = "up" => n \in UpNames(now) /\ n \notin view
             /\ events'[k].change = "down" => n \notin UpNames(now) /\ n \in view
             /\ events'[k].change = "removed" => n \notin UpNames(now)
  <2>1. CASE k \in 1 .. Len(A)
    <3> DEFINE i == A[k]
    <3>1. /\ i \in DOMAIN now /\ events'[k].interface = now[i].name
          /\ events'[k].change = IF now[i].is_up THEN "up" ELSE "down"
          /\ i \in changed_links(now)
      BY <1>6, <2>1
    <3> HIDE DEF i
    <3>2. now[i].is_up \in BOOLEAN /\ (i \in DOMAIN prev => prev[i].is_up \in BOOLEAN)
      BY <1>1, <3>1 DEF MonitorInv, Snapshot
    <3>3. IF i \in DOMAIN prev THEN prev[i].is_up # now[i].is_up ELSE now[i].is_up
      BY <3>1 DEF changed_links
    <3> QED
      BY <1>2, <1>5, <3>1, <3>2, <3>3
  <2>2. ASSUME NEW m \in 1 .. Len(B), k = Len(A) + m
        PROVE  events'[k].change = "removed" /\ events'[k].interface \notin UpNames(now)
    BY <1>5, <1>6, <2>2
  <2> QED
    BY <1>7, <2>1, <2>2
<1>10. ASSUME NEW n \in Names, \A k \in 1 .. Len(events') : events'[k].interface # n
       PROVE  n \in view <=> n \in UpNames(now)
  <2>1. \A k \in 1 .. Len(A) : now[A[k]].name # n
    BY <1>6, <1>10
  <2>2. \A k \in 1 .. Len(B) : prev[B[k]].name # n
    <3> SUFFICES ASSUME NEW k \in 1 .. Len(B) PROVE prev[B[k]].name # n
      OBVIOUS
    <3>1. Len(A) + k \in 1 .. Len(events')
      BY <1>6
    <3> QED
      BY <1>6, <1>10, <3>1
  <2>3. \A i \in changed_links(now) : now[i].name # n
    BY <1>3, <2>1 DEF Told
  <2>4. \A i \in removed_links(now) : prev[i].name # n
    BY <1>3, <2>2 DEF Told
  <2>5. ASSUME NEW i \in DOMAIN prev, prev[i].name = n, prev[i].is_up
        PROVE  n \in UpNames(now)
    <3>1. i \in DOMAIN now
      BY <2>4, <2>5 DEF removed_links
    <3>2. now[i].name = n
      BY <1>4, <2>5, <3>1
    <3>3. now[i].is_up
      BY <1>1, <2>3, <2>5, <3>1, <3>2 DEF changed_links, MonitorInv, Snapshot
    <3> QED
      BY <3>1, <3>2, <3>3, UpIn
  <2>6. ASSUME NEW i \in DOMAIN now, now[i].name = n, now[i].is_up
        PROVE  n \in UpNames(prev)
    <3>1. i \in DOMAIN prev /\ prev[i].is_up
      BY <1>1, <2>3, <2>6 DEF changed_links, MonitorInv, Snapshot
    <3> QED
      BY <1>4, <2>6, <3>1, UpIn
  <2> QED
    BY <1>2, <2>5, <2>6, UpIn
<1> QED
  BY <1>2, <1>8, <1>9, <1>10 DEF EventsOK
LEMMA EventsHandle ==
  ASSUME MonitorInv, EventsOK, Handle
  PROVE  EventsOK'
<1> DEFINE e == Head(events)
<1>1. /\ events # <<>> /\ events' = Tail(events) /\ prev' = prev
      /\ view' = IF e.change = "up" THEN view \cup {e.interface} ELSE view \ {e.interface}
  BY DEF Handle, TakeEvent
<1>2. events \in Seq(Event)
  BY DEF MonitorInv
<1>3. /\ Len(events) \in Nat \ {0} /\ e = events[1] /\ e \in Event
      /\ Len(events') = Len(events) - 1
      /\ \A k \in 1 .. Len(events') : events'[k] = events[k + 1]
  BY <1>1, <1>2, HeadTailProperties
<1> HIDE DEF e
<1>4. ASSUME NEW k \in 1 .. Len(events')
      PROVE  k + 1 \in 1 .. Len(events) /\ events'[k] = events[k + 1] /\ k + 1 # 1
  BY <1>3
<1>5. 1 \in 1 .. Len(events)
  BY <1>3
<1>6. \A j, k \in 1 .. Len(events') : events'[j].interface = events'[k].interface => j = k
  <2> SUFFICES ASSUME NEW j \in 1 .. Len(events'), NEW k \in 1 .. Len(events'),
                      events'[j].interface = events'[k].interface
               PROVE  j = k
    OBVIOUS
  <2>1. /\ j + 1 \in 1 .. Len(events) /\ k + 1 \in 1 .. Len(events)
        /\ events[j + 1].interface = events[k + 1].interface
    BY <1>4
  <2>2. j + 1 = k + 1
    BY <2>1 DEF EventsOK
  <2> QED
    BY <2>2
<1>7. ASSUME NEW k \in 1 .. Len(events')
      PROVE  /\ events'[k].interface # e.interface
             /\ LET n == events'[k].interface IN
                /\ events'[k].change = "up" => n \in UpNames(prev) /\ n \notin view
                /\ events'[k].change = "down" => n \notin UpNames(prev) /\ n \in view
                /\ events'[k].change = "removed" => n \notin UpNames(prev)
  BY <1>3, <1>4, <1>5 DEF EventsOK
<1>8. ASSUME NEW n \in Names, \A k \in 1 .. Len(events') : events'[k].interface # n
      PROVE  n \in view' <=> n \in UpNames(prev)
  <2>1. CASE n = e.interface
    <3>1. e.change \in {"up", "down", "removed"}
      BY <1>3 DEF Event
    <3> QED
      BY <1>1, <1>3, <1>5, <2>1, <3>1 DEF EventsOK
  <2>2. CASE n # e.interface
    <3>1. ASSUME NEW k \in 1 .. Len(events) PROVE events[k].interface # n
      <4>1. CASE k = 1
        BY <1>3, <2>2, <4>1
      <4>2. CASE k # 1
        <5>1. k - 1 \in 1 .. Len(events') /\ (k - 1) + 1 = k
          BY <1>3, <4>2
        <5> QED
          BY <1>3, <1>8, <5>1
      <4> QED
        BY <4>1, <4>2
    <3> QED
      BY <1>1, <2>2, <3>1 DEF EventsOK
  <2> QED
    BY <2>1, <2>2
<1> QED
  BY <1>1, <1>6, <1>7, <1>8 DEF EventsOK

\* Everything about the monitor that the theorems need.
NamedInv == MonitorInv /\ OneName /\ GoneOK /\ EventsOK

LEMMA NamedInit == Init => NamedInv
<1> SUFFICES ASSUME Init PROVE EventsOK
  BY MonitorInit, NamesInit DEF NamedInv
<1> QED
  BY DEF Init, NewMonitor, EventsOK

LEMMA NamedNext ==
  ASSUME ~Replugs, NamedInv, [Next]_monitor_vars
  PROVE  NamedInv'
<1>1. MonitorInv' /\ OneName' /\ GoneOK'
  BY MonitorNext, NamesNext DEF NamedInv
<1>2. CASE UNCHANGED monitorVars
  BY <1>1, <1>2 DEF monitorVars, NamedInv, EventsOK
<1> QED
  BY <1>1, <1>2, EventsPoll, EventsHandle DEF NamedInv, Next, monitor_vars

\* poll_changes(): as long as no name comes back under another index, whoever believes
\* the events knows the links that were up at the last poll, in whatever order a poll
\* reports them and however many links come, go and flap between two polls.
THEOREM EventsTellTheView ==
  ASSUME ~Replugs
  PROVE  Spec => []ViewFollows
<1>1. NamedInv => ViewFollows
  BY AllTold DEF NamedInv, ViewFollows
<1> QED
  BY <1>1, NamedInit, NamedNext, PTL DEF Spec

\* poll_changes(): as long as no name comes back under another index, it reports
\* transitions only: never up for who believes that the link is up, never down for who
\* believes that it is down.  For a name that a second link takes over between two polls
\* this is false: its removal is reported after the new link, and both under one name.
THEOREM OnlyTransitionsTold ==
  ASSUME ~Replugs
  PROVE  Spec => OnlyTransitions
<1>1. NamedInv /\ [Next]_monitor_vars =>
        [events # <<>> /\ events' = Tail(events) =>
           LET e == Head(events) IN
           /\ e.change = "up" => e.interface \notin view
           /\ e.change = "down" => e.interface \in view]_monitor_vars
  <2> SUFFICES ASSUME NamedInv, events # <<>>
               PROVE  LET e == Head(events) IN
                      /\ e.change = "up" => e.interface \notin view
                      /\ e.change = "down" => e.interface \in view
    OBVIOUS
  <2>1. Head(events) = events[1] /\ 1 \in 1 .. Len(events)
    BY HeadTailProperties DEF NamedInv, MonitorInv
  <2> QED
    BY <2>1 DEF NamedInv, EventsOK
<1> QED
  BY <1>1, NamedInit, NamedNext, PTL DEF Spec, OnlyTransitions
-----------------------------------------------------------------------------
(* The dispatcher behind the monitor *)

\* A step of both is a step of the monitor.
LEMMA MonitorSteps ==
  /\ WatchInit => Init
  /\ [WatchNext]_watch_vars => [Next]_monitor_vars
<1> USE DEF kernelVars, monitorVars, monitor_vars
<1>1. WatchInit => Init
  BY DEF WatchInit, Init
<1>2. WatchPoll => Poll
  BY DEF WatchPoll, Poll
<1>3. WatchHandle => Handle
  BY DEF WatchHandle, Handle
<1>4. WatchLinksChange => LinksChange /\ UNCHANGED monitorVars
  BY DEF WatchLinksChange
<1>5. ApplyInitialRoutes \/ UNCHANGED watch_vars => UNCHANGED monitor_vars
  BY DEF ApplyInitialRoutes, watch_vars
<1> QED
  BY <1>1, <1>2, <1>3, <1>4, <1>5 DEF WatchNext, Next

DispatcherTypes ==
  /\ running \in BOOLEAN
  /\ net \in [Names -> {"unknown", "down", "up"}]
  /\ tracked \subseteq Names

\* Routes are those of usable devices, and of what is tracked.
RoutesOK ==
  /\ routed \subseteq Usable
  /\ routed \subseteq tracked

LEMMA UsableType ==
  ASSUME MonitorInv
  PROVE  Usable \subseteq NamesInUse /\ NamesInUse \subseteq Names
  BY DEF MonitorInv, Usable, NamesInUse, Link

LEMMA HandledEvent ==
  ASSUME MonitorInv, WatchHandle
  PROVE  /\ \E n \in Names :
               \/ handle_up(n)
               \/ \E v \in {"down", "unknown"} : handle_interface_down(n, v)
         /\ UNCHANGED <<links, gone, changes, running>>
<1>1. Head(events) \in Event
  BY HeadTailProperties DEF MonitorInv, WatchHandle, TakeEvent
<1> DEFINE e == Head(events)
<1>2. e.interface \in Names /\ e.change \in {"up", "down", "removed"}
  BY <1>1 DEF Event
<1>3. CASE e.change = "up"
  BY <1>2, <1>3 DEF WatchHandle, kernelVars
<1>4. CASE e.change = "down"
  BY <1>2, <1>4 DEF WatchHandle, kernelVars
<1>5. CASE e.change = "removed"
  BY <1>2, <1>5 DEF WatchHandle, kernelVars
<1> QED
  BY <1>2, <1>3, <1>4, <1>5

LEMMA DispatcherNext ==
  ASSUME MonitorInv, DispatcherTypes, RoutesOK, [WatchNext]_watch_vars
  PROVE  DispatcherTypes' /\ RoutesOK'
<1> USE DEF DispatcherTypes, RoutesOK
<1>a. Usable \subseteq Names
  BY UsableType
<1>b. UNCHANGED links => Usable' = Usable
  BY DEF Usable
<1>1. CASE ApplyInitialRoutes
  <2>1. net' \in [Names -> {"unknown", "down", "up"}]
    BY <1>1 DEF ApplyInitialRoutes, get_interfaces
  <2> QED
    BY <1>1, <1>a, <1>b, <2>1 DEF ApplyInitialRoutes, apply_default_rules, kernelVars
<1>2. CASE WatchPoll
  BY <1>2, <1>b DEF WatchPoll, dispatcherVars, kernelVars
<1>3. CASE WatchHandle
  <2>1. PICK n \in Names :
          \/ handle_up(n)
          \/ \E v \in {"down", "unknown"} : handle_interface_down(n, v)
    BY <1>3, HandledEvent
  <2>2. UNCHANGED links /\ UNCHANGED running
    BY <1>3, HandledEvent
  <2>3. CASE handle_up(n)
    BY <1>a, <1>b, <2>2, <2>3 DEF handle_up, apply_default_rules
  <2>4. ASSUME NEW v \in {"down", "unknown"}, handle_interface_down(n, v)
        PROVE  DispatcherTypes' /\ RoutesOK'
    BY <1>a, <1>b, <2>2, <2>4 DEF handle_interface_down
  <2> QED
    BY <2>1, <2>3, <2>4
<1>4. CASE WatchLinksChange
  BY <1>4 DEF WatchLinksChange, dispatcherVars
<1>5. CASE UNCHANGED watch_vars
  BY <1>5, <1>b DEF watch_vars, dispatcherVars, kernelVars
<1> QED
  BY <1>1, <1>2, <1>3, <1>4, <1>5 DEF WatchNext

WatchInv == MonitorInv /\ DispatcherTypes /\ RoutesOK

LEMMA WatchInvInit == WatchInit => WatchInv
<1> SUFFICES ASSUME WatchInit PROVE WatchInv
  OBVIOUS
<1>1. MonitorInv
  BY MonitorInit, MonitorSteps
<1> QED
  BY <1>1 DEF WatchInit, WatchInv, DispatcherTypes, RoutesOK

LEMMA WatchInvNext == WatchInv /\ [WatchNext]_watch_vars => WatchInv'
  BY MonitorNext, MonitorSteps, DispatcherNext DEF WatchInv

\* Every variable of the monitor and the dispatcher keeps its type.
THEOREM WatchTypeCorrect == WatchSpec => []WatchTypeOK
<1>1. WatchInv => WatchTypeOK
  BY MonitorTypes, UsableType DEF WatchInv, DispatcherTypes, RoutesOK, WatchTypeOK
<1> QED
  BY <1>1, WatchInvInit, WatchInvNext, PTL DEF WatchSpec
-----------------------------------------------------------------------------
(* What is tracked and what is routed *)

\* Of devices that are not shut down, what is tracked is routed or unplugged.
PresentOK ==
  /\ tracked \subseteq NamesInUse \cup gone
  /\ (tracked \cap NamesInUse) \ AdminSets \subseteq routed

\* What a change of links does to the names.
LEMMA NamesChange ==
  ASSUME ~Replugs, MonitorInv, OneName, LinksChange
  PROVE  /\ NamesInUse \cup gone \subseteq NamesInUse' \cup gone'
         /\ (Usable \cap NamesInUse') \ AdminSets \subseteq Usable'
         /\ \A n \in NamesInUse' : n \in NamesInUse \/ n \notin gone
<1> USE DEF NamesInUse, Usable
<1>1. ASSUME NEW i \in Links, NEW n \in Names, Plugged(i, n)
      PROVE  /\ NamesInUse \cup gone \subseteq NamesInUse' \cup gone'
             /\ Usable \subseteq Usable'
             /\ \A m \in NamesInUse' : m \in NamesInUse \/ m \notin gone
  BY <1>1 DEF Plugged
<1>2. ASSUME NEW i \in DOMAIN links, Unplugged(i)
      PROVE  /\ NamesInUse \cup gone \subseteq NamesInUse' \cup gone'
             /\ (Usable \cap NamesInUse') \ AdminSets \subseteq Usable'
             /\ NamesInUse' \subseteq NamesInUse
  BY <1>2 DEF Unplugged, OneName
<1>3. ASSUME NEW i \in DOMAIN links, Changed(i)
      PROVE  /\ NamesInUse' = NamesInUse /\ gone' = gone
             /\ Usable \ AdminSets \subseteq Usable'
  <2>1. /\ DOMAIN links' = DOMAIN links /\ gone' = gone
        /\ \A j \in DOMAIN links :
             /\ links'[j].name = links[j].name
             /\ links'[j].up = links[j].up \/ links[j].name \in AdminSets
    BY <1>3 DEF Changed
  <2> QED
    BY <2>1
<1> QED
  BY <1>1, <1>2, <1>3, LinkSteps

LEMMA PresentNext ==
  ASSUME ~Replugs, NamedInv, WatchInv, PresentOK, [WatchNext]_watch_vars
  PROVE  PresentOK'
<1> SUFFICES /\ tracked' \subseteq NamesInUse' \cup gone'
             /\ (tracked' \cap NamesInUse') \ AdminSets \subseteq routed'
  BY DEF PresentOK
<1>a. /\ tracked \subseteq NamesInUse \cup gone
      /\ (tracked \cap NamesInUse) \ AdminSets \subseteq routed
      /\ routed \subseteq Usable /\ Usable \subseteq NamesInUse
  BY UsableType DEF PresentOK, WatchInv, RoutesOK
<1>b. UNCHANGED links => NamesInUse' = NamesInUse
  BY DEF NamesInUse
<1>1. CASE ApplyInitialRoutes
  BY <1>1, <1>a, <1>b DEF ApplyInitialRoutes, apply_default_rules, kernelVars
<1>2. CASE WatchPoll \/ UNCHANGED watch_vars
  BY <1>2, <1>a, <1>b DEF WatchPoll, watch_vars, dispatcherVars, kernelVars
<1>3. CASE WatchHandle
  <2>1. PICK n \in Names :
          \/ handle_up(n)
          \/ \E v \in {"down", "unknown"} : handle_interface_down(n, v)
    BY <1>3, HandledEvent DEF WatchInv
  <2>2. UNCHANGED links /\ gone' = gone
    BY <1>3, HandledEvent DEF WatchInv
  <2>3. CASE handle_up(n)
    BY <1>a, <1>b, <2>2, <2>3 DEF handle_up, apply_default_rules
  <2>4. ASSUME NEW v \in {"down", "unknown"}, handle_interface_down(n, v)
        PROVE  /\ tracked' \subseteq NamesInUse' \cup gone'
               /\ (tracked' \cap NamesInUse') \ AdminSets \subseteq routed'
    BY <1>a, <1>b, <2>2, <2>4 DEF handle_interface_down
  <2> QED
    BY <2>1, <2>3, <2>4
<1>4. CASE WatchLinksChange
  <2>1. LinksChange /\ routed' = routed \cap Usable' /\ tracked' = tracked
    BY <1>4 DEF WatchLinksChange, dispatcherVars
  <2>2. /\ NamesInUse \cup gone \subseteq NamesInUse' \cup gone'
        /\ (Usable \cap NamesInUse') \ AdminSets \subseteq Usable'
        /\ \A n \in NamesInUse' : n \in NamesInUse \/ n \notin gone
    BY <2>1, NamesChange DEF NamedInv
  <2> QED
    BY <1>a, <2>1, <2>2
<1> QED
  BY <1>1, <1>2, <1>3, <1>4 DEF WatchNext

\* The daemon tracks every route it has; as long as names do not come back, it has a
\* route for every rule it tracks whose interface is there and is not shut down.
THEOREM TrackedAreRouted ==
  ASSUME ~Replugs
  PROVE  WatchSpec => []RoutedTracked
<1>1. WatchInit => NamedInv /\ WatchInv /\ PresentOK
  <2> SUFFICES ASSUME WatchInit PROVE PresentOK
    BY MonitorSteps, NamedInit, WatchInvInit
  <2> QED
    BY DEF WatchInit, PresentOK
<1>2. NamedInv /\ WatchInv /\ PresentOK /\ [WatchNext]_watch_vars =>
        NamedInv' /\ WatchInv' /\ PresentOK'
  BY MonitorSteps, NamedNext, WatchInvNext, PresentNext
<1>3. WatchInv /\ PresentOK => RoutedTracked
  BY DEF WatchInv, RoutesOK, PresentOK, RoutedTracked
<1> QED
  BY <1>1, <1>2, <1>3, PTL DEF WatchSpec
-----------------------------------------------------------------------------
(* Managed rules *)

\* The steps of ManagedRules, in terms of the dispatcher.
Keeps(n)   == (n \in tracked' <=> n \in tracked) /\ (n \in routed' <=> n \in routed)
Applies(n) == n \notin tracked /\ n \notin routed /\ n \in tracked'
Removes(n) == n \in tracked /\ n \notin tracked' /\ n \notin routed'
Drops(n)   == n \notin routed' /\ (n \in tracked' <=> n \in tracked)

ManagedStep ==
  \/ \A n \in Names : Keeps(n) \/ Applies(n)
  \/ \A n \in Names : Keeps(n) \/ Removes(n)
  \/ \A n \in Names : Keeps(n) \/ Drops(n)

LEMMA ManagedSteps == ManagedStep => Managed!ManagedNext
<1>1. ASSUME NEW n \in Names, Keeps(n) PROVE Managed!Unchanged(n)
  BY <1>1 DEF Keeps, Managed!Unchanged
<1>2. ASSUME NEW n \in Names, Applies(n) PROVE Managed!Applied(n)
  BY <1>2 DEF Applies, Managed!Applied
<1>3. ASSUME NEW n \in Names, Removes(n) PROVE Managed!Removed(n)
  BY <1>3 DEF Removes, Managed!Removed
<1>4. ASSUME NEW n \in Names, Drops(n) PROVE Managed!Dropped(n)
  BY <1>4 DEF Drops, Managed!Dropped
<1> QED
  BY <1>1, <1>2, <1>3, <1>4 DEF ManagedStep, Managed!ManagedNext

LEMMA WatchSteps ==
  ASSUME WatchInv, [WatchNext]_watch_vars
  PROVE  ManagedStep
<1>a. routed \subseteq tracked
  BY DEF WatchInv, RoutesOK
<1>b. ASSUME apply_default_rules PROVE ManagedStep
  BY <1>a, <1>b DEF apply_default_rules, ManagedStep, Keeps, Applies
<1>c. ASSUME UNCHANGED <<tracked, routed>> PROVE ManagedStep
  BY <1>c DEF ManagedStep, Keeps
<1>1. CASE ApplyInitialRoutes
  BY <1>1, <1>b, <1>c DEF ApplyInitialRoutes
<1>2. CASE WatchPoll \/ UNCHANGED watch_vars
  BY <1>2, <1>c DEF WatchPoll, watch_vars, dispatcherVars
<1>3. CASE WatchHandle
  <2>1. PICK n \in Names :
          \/ handle_up(n)
          \/ \E v \in {"down", "unknown"} : handle_interface_down(n, v)
    BY <1>3, HandledEvent DEF WatchInv
  <2>2. CASE handle_up(n)
    BY <1>b, <1>c, <2>2 DEF handle_up
  <2>3. ASSUME NEW v \in {"down", "unknown"}, handle_interface_down(n, v)
        PROVE  ManagedStep
    <3>1. \A m \in Names : Keeps(m) \/ Removes(m)
      BY <1>a, <2>3 DEF handle_interface_down, Keeps, Removes
    <3> QED
      BY <3>1 DEF ManagedStep
  <2> QED
    BY <2>1, <2>2, <2>3
<1>4. CASE WatchLinksChange
  <2>1. \A n \in Names : Keeps(n) \/ Drops(n)
    BY <1>4 DEF WatchLinksChange, dispatcherVars, Keeps, Drops
  <2> QED
    BY <2>1 DEF ManagedStep
<1> QED
  BY <1>1, <1>2, <1>3, <1>4 DEF WatchNext

\* Monitor and dispatcher together implement ManagedRules, whatever links do: a rule is
\* applied only when it is nowhere, and forgotten only with its route.
THEOREM WatchImplementsManagedRules == WatchSpec => RulesManaged
<1>1. WatchInit => Managed!ManagedInit
  BY DEF WatchInit, Managed!ManagedInit
<1>2. WatchInv /\ [WatchNext]_watch_vars => [Managed!ManagedNext]_(Managed!managed_vars)
  BY WatchSteps, ManagedSteps
<1> QED
  BY <1>1, <1>2, WatchInvInit, WatchInvNext, PTL
     DEF WatchSpec, RulesManaged, Managed!ManagedSpec
===============================================================================
