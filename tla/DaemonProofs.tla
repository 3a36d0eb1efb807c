----------------------------- MODULE DaemonProofs -----------------------------
(***************************************************************************)
(* The daemon service for all channel capacities, files, signals and       *)
(* watchdog times: what systemd is told is true, the two copies of the     *)
(* configuration agree, and the configuration only moves forward; and the  *)
(* control server beside it.                                               *)
(***************************************************************************)
EXTENDS ControlServer, TLAPS

\* Only the main task reloads, in its own stage.
OneReloader ==
  /\ \A t \in Tasks \ {"main"} : reload[t] = NoReload
  /\ stage = "reloading" <=> reload["main"].step # "none"

\* What has been told before the loop begins and when it has ended.
Starting ==
  /\ stage = "starting" => state = "Initializing" /\ told = "nothing"
  /\ stage = "applying" => state = "Running" /\ told = "RELOADING"
  /\ stage = "ready" => state = "Running" /\ told = "READY"
  /\ stage = "stopping" => told = "STOPPING"

\* Both copies hold a content of the file that the loader accepts.  A reload carries
\* one that is no older, and stores it before the dispatcher gets it.
Copies ==
  LET r == reload["main"] IN
  /\ applied <= file /\ applied \notin Invalid
  /\ r.step \in {"store", "update"} =>
       r.version >= applied /\ r.version <= file /\ r.version \notin Invalid
  /\ config = IF r.step = "update" THEN r.version ELSE applied

DaemonInv == DaemonTypeOK /\ OneReloader /\ Starting /\ ToldTruth /\ Copies

-----------------------------------------------------------------------------
(* The channel *)

\* A channel that has room for a message keeps it within its capacity, and one
\* that has none drops its oldest.
LEMMA RetainedFits ==
  ASSUME NEW q \in Seq(Messages), Len(q) <= Capacity + 1
  PROVE  retained(q) \in Seq(Messages) /\ Len(retained(q)) <= Capacity
<1>1. CASE Len(q) > Capacity
  <2>1. q # <<>> /\ Capacity \in Nat
    BY <1>1, DaemonAssumption
  <2>2. Tail(q) \in Seq(Messages) /\ Len(Tail(q)) = Len(q) - 1
    BY <2>1
  <2> QED
    BY <1>1, <2>1, <2>2 DEF retained
<1>2. CASE ~(Len(q) > Capacity)
  BY <1>2, DaemonAssumption DEF retained
<1> QED
  BY <1>1, <1>2

LEMMA SendType ==
  ASSUME DaemonTypeOK, NEW m \in Messages, send(m)
  PROVE  /\ queue' \in Seq(Messages) /\ Len(queue') <= Capacity
         /\ {lagged', overrun'} \subseteq BOOLEAN
<1> DEFINE q == Append(queue, m)
<1>1. q \in Seq(Messages) /\ Len(q) <= Capacity + 1
  BY DaemonAssumption DEF DaemonTypeOK
<1>2. retained(q) \in Seq(Messages) /\ Len(retained(q)) <= Capacity
  BY <1>1, RetainedFits
<1>3. queue' = retained(q) \/ queue' = queue
  BY DEF send
<1>4. {lagged', overrun'} \subseteq BOOLEAN
  BY DEF send, DaemonTypeOK
<1> QED
  BY <1>2, <1>3, <1>4 DEF DaemonTypeOK

LEMMA ReceiveType ==
  ASSUME DaemonTypeOK, queue # <<>>, queue' = rest_of_queue
  PROVE  queue' \in Seq(Messages) /\ Len(queue') <= Capacity
<1>1. queue \in Seq(Messages) /\ Len(queue) <= Capacity /\ Capacity \in Nat
  BY DaemonAssumption DEF DaemonTypeOK
<1> QED
  BY <1>1 DEF rest_of_queue

-----------------------------------------------------------------------------
(* Reloads *)

\* An update of the record of one task leaves the others alone.
LEMMA SetReloadType ==
  ASSUME DaemonTypeOK, NEW step \in {"none", "load", "store", "update"},
         NEW v \in 0 .. MaxEdits,
         reload' = [reload EXCEPT !["main"] = [step |-> step, version |-> v]]
  PROVE  /\ reload' \in [Tasks -> [step: {"none", "load", "store", "update"},
                                   version: 0 .. MaxEdits]]
         /\ reload'["main"] = [step |-> step, version |-> v]
         /\ \A t \in Tasks \ {"main"} : reload'[t] = reload[t]
  BY DEF DaemonTypeOK, Tasks

LEMMA InitDaemon == Init => DaemonInv
<1> SUFFICES ASSUME Init PROVE DaemonInv
  OBVIOUS
<1>1. MaxEdits \in Nat /\ MaxSignals \in Nat /\ Capacity \in Nat /\ 0 \notin Invalid
  BY DaemonAssumption
<1>2. DaemonTypeOK
  <2>1. queue \in Seq(Messages) /\ Len(queue) = 0
    BY DEF Init
  <2>2. {lagged, overrun, due, shutdown} \subseteq BOOLEAN
    BY DEF Init
  <2>3. reload \in [Tasks -> [step: {"none", "load", "store", "update"}, version: 0 .. MaxEdits]]
    BY <1>1 DEF Init, NoReload
  <2> QED
    BY <1>1, <2>1, <2>2, <2>3 DEF Init, DaemonTypeOK
<1>3. "main" \in Tasks
  BY DEF Tasks
<1> QED
  BY <1>1, <1>2, <1>3 DEF Init, DaemonInv, OneReloader, Starting, ToldTruth, Copies, NoReload

\* The steps of a reload.
LEMMA ReloadKeeps ==
  ASSUME DaemonInv, ReloadStep("main")
  PROVE  DaemonInv'
<1> USE DEF DaemonInv
<1>0. /\ DaemonTypeOK /\ 0 \in 0 .. MaxEdits /\ file \in 0 .. MaxEdits
      /\ file \in Nat /\ applied \in Nat /\ config \in Nat
      /\ "main" \in Tasks /\ reload["main"].version \in 0 .. MaxEdits
      /\ reload["main"].version \in Nat
  BY DaemonAssumption DEF DaemonTypeOK, Tasks
<1>1. stage = "reloading" /\ state = "Reloading" /\ told = "RELOADING"
  <2>1. reload["main"].step \in {"load", "store", "update"}
    BY DEF ReloadStep, LoadConfig, StoreConfig, UpdateConfig
  <2> QED
    BY <2>1 DEF OneReloader, ToldTruth
<1>2. ASSUME LoadConfig("main") PROVE DaemonInv'
  <2>1. CASE file \in Invalid
    <3>1. /\ reload' = [reload EXCEPT !["main"] = NoReload]
          /\ stage' = "select" /\ state' = "Running" /\ told' = "READY"
          /\ UNCHANGED <<signalVars, file, config, applied, due, shutdown>>
          /\ reload["main"].step = "load"
      BY <1>2, <2>1 DEF LoadConfig, ReloadDone
    <3>2. DaemonTypeOK' /\ OneReloader'
      BY <1>0, <3>1, SetReloadType DEF DaemonTypeOK, signalVars, NoReload, OneReloader
    <3> QED
      BY <1>0, <1>1, <3>1, <3>2, SetReloadType DEF Starting, ToldTruth, Copies, NoReload
  <2>2. CASE file \notin Invalid
    <3>1. /\ reload' = [reload EXCEPT !["main"] = [step |-> "store", version |-> file]]
          /\ UNCHANGED mainVars
          /\ UNCHANGED <<signalVars, file, config, applied, due, shutdown>>
          /\ reload["main"].step = "load"
      BY <1>2, <2>2 DEF LoadConfig, SetReload
    <3>2. DaemonTypeOK' /\ OneReloader'
      BY <1>0, <1>1, <3>1, SetReloadType DEF DaemonTypeOK, signalVars, mainVars, OneReloader
    <3> QED
      BY <1>0, <1>1, <2>2, <3>1, <3>2, SetReloadType DEF Starting, ToldTruth, Copies, mainVars
  <2> QED
    BY <2>1, <2>2
<1>3. ASSUME StoreConfig("main") PROVE DaemonInv'
  <2>1. /\ reload' = [reload EXCEPT !["main"] =
                        [step |-> "update", version |-> reload["main"].version]]
        /\ config' = reload["main"].version
        /\ UNCHANGED mainVars
        /\ UNCHANGED <<signalVars, file, applied, due, shutdown>>
        /\ reload["main"].step = "store"
    BY <1>3 DEF StoreConfig, SetReload
  <2>2. DaemonTypeOK' /\ OneReloader'
    BY <1>0, <1>1, <2>1, SetReloadType DEF DaemonTypeOK, signalVars, mainVars, OneReloader
  <2> QED
    BY <1>0, <1>1, <2>1, <2>2, SetReloadType DEF Starting, ToldTruth, Copies, mainVars
<1>4. ASSUME UpdateConfig("main") PROVE DaemonInv'
  <2>1. /\ reload' = [reload EXCEPT !["main"] = NoReload]
        /\ applied' = reload["main"].version
        /\ stage' = "select" /\ state' = "Running" /\ told' = "READY"
        /\ UNCHANGED <<signalVars, file, config, due, shutdown>>
        /\ reload["main"].step = "update"
    BY <1>4 DEF UpdateConfig, ReloadDone
  <2>2. DaemonTypeOK' /\ OneReloader'
    BY <1>0, <2>1, SetReloadType DEF DaemonTypeOK, signalVars, NoReload, OneReloader
  <2> QED
    BY <1>0, <1>1, <2>1, <2>2, SetReloadType DEF Starting, ToldTruth, Copies, NoReload
<1> QED
  BY <1>2, <1>3, <1>4 DEF ReloadStep

-----------------------------------------------------------------------------
(* The other steps *)

\* What a step without a reload has to keep.
LEMMA NoReloadStep ==
  ASSUME DaemonInv, DaemonTypeOK',
         UNCHANGED <<reload, config, applied>>, file' >= file,
         (stage' = "reloading") = (stage = "reloading"),
         Starting', ToldTruth'
  PROVE  DaemonInv'
<1>1. {file, file', applied, reload["main"].version} \subseteq Nat
  BY DaemonAssumption DEF DaemonInv, DaemonTypeOK, Tasks
<1> QED
  BY <1>1 DEF DaemonInv, OneReloader, Copies

LEMMA MainKeeps ==
  ASSUME DaemonInv, MainStep
  PROVE  DaemonInv'
<1> USE DEF DaemonInv
<1>0. file \in Nat /\ "main" \in Tasks /\ 0 \in 0 .. MaxEdits
  BY DaemonAssumption DEF DaemonTypeOK, Tasks
<1>1. CASE BeginRun \/ StartDaemon \/ StartFails \/ EnterLoop \/ FinishStop
  <2>0. is_watchdog_enabled \in BOOLEAN
    BY DEF is_watchdog_enabled
  <2>1. UNCHANGED <<signalVars, configVars, shutdown>> /\ due' \in BOOLEAN
    BY <1>1, <2>0 DEF BeginRun, StartDaemon, StartFails, EnterLoop, FinishStop, DaemonTypeOK
  <2>2. DaemonTypeOK'
    BY <1>1, <2>1 DEF DaemonTypeOK, BeginRun, StartDaemon, StartFails, EnterLoop,
                   FinishStop, signalVars, configVars
  <2>3. Starting' /\ ToldTruth'
    BY <1>1 DEF Starting, ToldTruth, BeginRun, StartDaemon, StartFails, EnterLoop, FinishStop
  <2>4. stage # "reloading" /\ stage' # "reloading"
    BY <1>1 DEF BeginRun, StartDaemon, StartFails, EnterLoop, FinishStop
  <2> QED
    BY <1>0, <2>1, <2>2, <2>3, <2>4, NoReloadStep DEF configVars
<1>2. CASE BeginPoll \/ EndPoll \/ WatchdogTick \/ Keepalive \/ ReceiveLagged
  <2>1. /\ UNCHANGED <<raised, queue, overrun, signals, configVars, state, told, shutdown>>
        /\ due' \in BOOLEAN /\ lagged' \in BOOLEAN
    BY <1>2 DEF BeginPoll, EndPoll, WatchdogTick, Keepalive, ReceiveLagged, DaemonTypeOK,
                signalVars, mainVars
  <2>2. \/ stage' = stage
        \/ stage \in {"select", "polling"} /\ stage' \in {"select", "polling"}
    BY <1>2 DEF BeginPoll, EndPoll, WatchdogTick, Keepalive, ReceiveLagged, mainVars
  <2>3. DaemonTypeOK'
    BY <2>1, <2>2 DEF DaemonTypeOK, configVars
  <2>4. Starting' /\ ToldTruth'
    BY <2>1, <2>2 DEF Starting, ToldTruth
  <2> QED
    BY <1>0, <2>1, <2>2, <2>3, <2>4, NoReloadStep DEF configVars
<1>3. CASE ReceiveShutdown
  <2>1. DaemonTypeOK'
    BY <1>3, ReceiveType DEF DaemonTypeOK, ReceiveShutdown, configVars
  <2>2. Starting' /\ ToldTruth' /\ stage # "reloading" /\ stage' # "reloading"
    BY <1>3 DEF Starting, ToldTruth, ReceiveShutdown
  <2> QED
    BY <1>0, <1>3, <2>1, <2>2, NoReloadStep DEF ReceiveShutdown, configVars
<1>4. CASE ReceiveReload
  <2>1. /\ queue' \in Seq(Messages) /\ Len(queue') <= Capacity
        /\ reload' = [reload EXCEPT !["main"] = [step |-> "load", version |-> 0]]
        /\ UNCHANGED <<raised, lagged, overrun, signals, file, config, applied, due, shutdown>>
        /\ stage' = "reloading" /\ state' = "Reloading" /\ told' = "RELOADING"
        /\ stage = "select"
    BY <1>4, ReceiveType DEF ReceiveReload, SetReload
  <2>2. DaemonTypeOK'
    BY <1>0, <2>1, SetReloadType DEF DaemonTypeOK
  <2>3. OneReloader' /\ reload'["main"] = [step |-> "load", version |-> 0]
    BY <1>0, <2>1, SetReloadType DEF OneReloader
  <2>4. Starting' /\ ToldTruth'
    BY <2>1 DEF Starting, ToldTruth
  <2>5. reload["main"].step = "none"
    BY <2>1 DEF OneReloader
  <2> QED
    BY <2>1, <2>2, <2>3, <2>4, <2>5 DEF Copies
<1> QED
  BY <1>1, <1>2, <1>3, <1>4, ReloadKeeps DEF MainStep, Receive

LEMMA WorldKeeps ==
  ASSUME DaemonInv, WorldStep
  PROVE  DaemonInv'
<1> USE DEF DaemonInv
<1>0. file \in Nat /\ MaxEdits \in Nat /\ MaxSignals \in Nat
  BY DaemonAssumption DEF DaemonTypeOK
<1>1. ASSUME NEW s \in Signals, RaiseSignal(s) PROVE DaemonInv'
  <2>1. DaemonTypeOK'
    BY <1>0, <1>1 DEF DaemonTypeOK, RaiseSignal, mainVars, configVars
  <2> QED
    BY <1>0, <1>1, <2>1, NoReloadStep DEF RaiseSignal, mainVars, configVars, Starting, ToldTruth
<1>2. ASSUME NEW s \in Signals, ForwardSignal(s) PROVE DaemonInv'
  <2>1. /\ queue' \in Seq(Messages) /\ Len(queue') <= Capacity
        /\ {lagged', overrun'} \subseteq BOOLEAN
    BY <1>2, SendType DEF ForwardSignal, Messages
  <2>2. DaemonTypeOK'
    BY <1>2, <2>1 DEF DaemonTypeOK, ForwardSignal, mainVars, configVars
  <2> QED
    BY <1>0, <1>2, <2>2, NoReloadStep DEF ForwardSignal, mainVars, configVars, Starting, ToldTruth
<1>3. CASE EditFile
  <2>1. DaemonTypeOK'
    BY <1>0, <1>3 DEF DaemonTypeOK, EditFile, mainVars, signalVars
  <2> QED
    BY <1>0, <1>3, <2>1, NoReloadStep DEF EditFile, mainVars, Starting, ToldTruth
<1> QED
  BY <1>1, <1>2, <1>3 DEF WorldStep

LEMMA DaemonStepKeeps == DaemonInv /\ [Next]_vars => DaemonInv'
<1>1. ASSUME DaemonInv, UNCHANGED vars PROVE DaemonInv'
  BY <1>1 DEF DaemonInv, DaemonTypeOK, OneReloader, Starting, ToldTruth, Copies, vars,
              mainVars, signalVars, configVars
<1> QED
  BY <1>1, MainKeeps, WorldKeeps DEF Next, Ended

-----------------------------------------------------------------------------
(* Theorems *)

\* The daemon's invariant holds at all times.
THEOREM DaemonInvariant == Spec => []DaemonInv
  BY InitDaemon, DaemonStepKeeps, PTL DEF Spec

\* Type correctness of signals.rs and service.rs: the channel never keeps more
\* messages than its capacity.
THEOREM DaemonTypeCorrect == Spec => []DaemonTypeOK
<1>1. DaemonInv => DaemonTypeOK
  BY DEF DaemonInv
<1> QED
  BY <1>1, DaemonInvariant, PTL

\* run() and reload_configuration() tell systemd the truth, failed reloads included.
THEOREM DaemonTellsTruth == Spec => []ToldTruth
<1>1. DaemonInv => ToldTruth
  BY DEF DaemonInv
<1> QED
  BY <1>1, DaemonInvariant, PTL

\* The copies of the configuration in the service and in the dispatcher agree
\* whenever the main loop is not reloading.
THEOREM CopiesAgree == Spec => []ConfigsAgree
<1>1. DaemonInv => ConfigsAgree
  BY DEF DaemonInv, ConfigsAgree, Copies, Tasks
<1> QED
  BY <1>1, DaemonInvariant, PTL

\* The dispatcher's configuration never goes back to an older content of the file
\* and is never one that ConfigLoader::load() refuses.
THEOREM OnlyForward == Spec => ConfigForward
<1>1. DaemonInv /\ [Next]_vars => [applied' >= applied /\ applied' \notin Invalid]_vars
  <2> SUFFICES ASSUME DaemonInv, Next PROVE applied' >= applied /\ applied' \notin Invalid
    OBVIOUS
  <2>1. applied \in Nat /\ applied \notin Invalid
    BY DaemonAssumption DEF DaemonInv, DaemonTypeOK, Copies
  <2>2. CASE UpdateConfig("main")
    BY <2>2 DEF UpdateConfig, DaemonInv, Copies
  <2>3. CASE ~UpdateConfig("main")
    <3>1. applied' = applied
      BY <2>3 DEF Next, MainStep, WorldStep, Ended, BeginRun, StartDaemon, StartFails,
                  EnterLoop, FinishStop, Receive,
                  ReceiveLagged, ReceiveShutdown, ReceiveReload, BeginPoll, EndPoll, WatchdogTick,
                  Keepalive, ReloadStep, LoadConfig, StoreConfig, RaiseSignal, ForwardSignal,
                  EditFile, configVars, vars
    <3> QED
      BY <2>1, <3>1
  <2> QED
    BY <2>2, <2>3
<1> QED
  BY <1>1, DaemonInvariant, PTL DEF Spec, ConfigForward

\* The watchdog is answered in less than the time systemd allows, and it is on
\* exactly when systemd allows two milliseconds or more.
THEOREM WatchdogInTime ==
  /\ is_watchdog_enabled <=> WatchdogUsec >= 2000
  /\ is_watchdog_enabled => watchdog_interval_ms * 1000 < WatchdogUsec
  BY DaemonAssumption DEF is_watchdog_enabled, watchdog_interval_ms

-----------------------------------------------------------------------------
(* The control server: for any number of clients, files and commands the    *)
(* socket file follows the server as long as one runs at a time, and what a *)
(* client is told of a reload is so.                                        *)

\* One server runs at most, and the file is bound by it or by none.  What a dead
\* process left is gone once a start() that did not fail has returned.
OneServer ==
  /\ phase \in [Servers -> Phases]
  /\ socket \in Servers \cup {"none", "stale"}
  /\ \A r, s \in Servers : Running(r) /\ Running(s) => r = s
  /\ \A s \in Servers :
       /\ phase[s] \in {"bound", "listening", "removing"} => socket = s
       /\ phase[s] = "starting" => socket \notin Servers
       /\ phase[s] = "binding" => socket \notin Servers /\ (~failed => socket = "none")
       /\ ~Running(s) => socket # s
       /\ phase[s] = "returned" /\ ~failed /\ stage # "ended" => socket # "stale"

Conn ==
  [step: {"none", "backlog", "serving", "reloading", "answered", "closed"},
   at: Servers \cup {"none"}, line: Commands \cup {"none"},
   answer: {"none", "data", "ok", "error"}]

Client ==
  [pc: {"idle", "connected", "sent"}, command: Commands \cup {"none"}, asked: Nat]

Reloading == [step: {"none", "load", "store", "update"}, version: Nat]

\* A line is the client's command, and a reload that has loaded a file carries one
\* no older than the command.
ConnOK(c) ==
  /\ conn[c].step # "answered" => conn[c].answer = "none"
  /\ client[c].pc = "sent" =>
       /\ client[c].asked <= file
       /\ conn[c].line \in {"none", client[c].command}
  /\ client[c].pc = "connected" => conn[c].step # "reloading" /\ conn[c].line = "none"
  /\ (conn[c].step = "reloading" /\ reload[c].step \in {"store", "update"}) =>
       /\ reload[c].version \notin Invalid
       /\ client[c].pc = "sent" => reload[c].version >= client[c].asked

AnswerInv ==
  /\ file \in Nat
  /\ reload \in [Tasks -> Reloading]
  /\ conn \in [Connections -> Conn]
  /\ client \in [Connections -> Client]
  /\ \A c \in Connections : ConnOK(c)

-----------------------------------------------------------------------------
(* The socket file *)

LEMMA EndedStays ==
  ASSUME MainStep \/ WorldStep, stage = "ended"
  PROVE  stage' = "ended"
<1>1. CASE MainStep
  BY <1>1 DEF MainStep, BeginRun, StartDaemon, StartFails, EnterLoop, FinishStop, Receive,
              ReceiveLagged, ReceiveShutdown, ReceiveReload, BeginPoll, EndPoll, WatchdogTick,
              subscribed, Keepalive, ReloadStep, LoadConfig, StoreConfig, UpdateConfig
<1>2. CASE WorldStep
  BY <1>2 DEF WorldStep, RaiseSignal, ForwardSignal, EditFile, mainVars
<1> QED
  BY <1>1, <1>2

LEMMA SocketInit == ControlInit => OneServer
  BY ControlAssumption DEF ControlInit, OneServer, Running, Phases

LEMMA SocketStep ==
  ASSUME OneServer, ~Careless, [ControlNext]_controlVars
  PROVE  OneServer'
<1> USE DEF OneServer, Running, Phases
<1>0. {"none", "stale"} \cap Servers = {}
  BY ControlAssumption
<1>1. CASE UNCHANGED <<phase, socket, failed>> /\ (stage = "ended" => stage' = "ended")
  BY <1>1
<1>2. CASE DaemonStep
  <2>1. CASE stage' = "ended" /\ stage # "ended"
    <3>1. phase' = [s \in Servers |-> "returned"] /\ socket' \in {"none", "stale"}
      BY <1>2, <2>1 DEF DaemonStep
    <3> QED
      BY <1>0, <2>1, <3>1
  <2>2. CASE ~(stage' = "ended" /\ stage # "ended")
    BY <1>1, <1>2, <2>2, EndedStays DEF DaemonStep, serverVars
  <2> QED
    BY <2>1, <2>2
<1>3. ASSUME NEW s \in Servers, ServerStep(s) PROVE OneServer'
  <2>0. UNCHANGED stage
    BY <1>3 DEF ServerStep, Start, PrepareSocket, Bind, SetPermissions, AcceptFails, Notified,
                RemoveSocket, Stop, daemonVars, vars, mainVars
  <2>1. CASE Start(s)
    BY <1>0, <2>0, <2>1 DEF Start, MayStart, GoTo
  <2>2. CASE PrepareSocket(s)
    BY <1>0, <2>0, <2>2 DEF PrepareSocket, GoTo
  <2>3. CASE Bind(s)
    BY <1>0, <2>0, <2>3 DEF Bind, GoTo
  <2>4. CASE SetPermissions(s)
    BY <1>0, <2>0, <2>4 DEF SetPermissions, GoTo, LeftBy
  <2>5. CASE AcceptFails(s) \/ Notified(s)
    BY <2>0, <2>5 DEF AcceptFails, Notified, GoTo, LookAtFlag
  <2>6. CASE RemoveSocket(s)
    BY <1>0, <2>0, <2>6 DEF RemoveSocket, GoTo, LeftBy
  <2>7. CASE Stop(s)
    BY <1>1, <2>0, <2>7 DEF Stop
  <2> QED
    BY <1>3, <2>1, <2>2, <2>3, <2>4, <2>5, <2>6, <2>7 DEF ServerStep
<1>4. ASSUME NEW s \in Servers, NEW c \in Connections, Accept(s, c) PROVE OneServer'
  <2>1. UNCHANGED <<stage, socket, failed>> /\ phase[s] = "listening"
    BY <1>4 DEF Accept, daemonVars, vars, mainVars
  <2>2. phase' = phase \/ LookAtFlag(s)
    BY <1>4 DEF Accept
  <2> QED
    BY <2>1, <2>2 DEF GoTo, LookAtFlag
<1>5. ASSUME NEW c \in Connections, ConnectionStep(c) PROVE OneServer'
  <2>1. CASE ServeLine(c) \/ ServeReload(c) \/ TimeLimit(c) \/ Forget(c)
    <3>1. UNCHANGED <<phase, socket, failed>>
      BY <2>1 DEF ServeLine, ServeReload, TimeLimit, Forget, serverVars
    <3>2. UNCHANGED stage
      <4>1. c # "main"
        BY DaemonAssumption
      <4> QED
        BY <2>1, <4>1 DEF ServeLine, ServeReload, TimeLimit, Forget, ReloadStep, LoadConfig,
                     StoreConfig, UpdateConfig, ReloadDone, ControlShutdown, ControlReload,
                     daemonVars, vars, mainVars
    <3> QED
      BY <1>1, <3>1, <3>2
  <2> QED
    BY <1>4, <1>5, <2>1 DEF ConnectionStep
<1>6. ASSUME NEW c \in Connections, ClientStep(c) PROVE OneServer'
  BY <1>1, <1>6 DEF ClientStep, Connect, Send, ReadAnswer, ReadTimesOut, serverVars, daemonVars,
                    vars, mainVars
<1>7. CASE UNCHANGED controlVars
  BY <1>1, <1>7 DEF controlVars, serverVars, daemonVars, vars, mainVars
<1> QED
  BY <1>2, <1>3, <1>5, <1>6, <1>7 DEF ControlNext

\* start() and stop(), as long as one server runs at a time: a server that listens has
\* the socket file, whatever failed before; and once a start() has returned no file is
\* left that no server serves, unless a start or a removal has failed or the process
\* has ended.
THEOREM SocketFollowsServer ==
  ASSUME ~Careless
  PROVE  ControlSpec => []SocketFollows
<1>1. OneServer => SocketFollows
  BY DEF OneServer, SocketFollows
<1>2. OneServer /\ [ControlNext]_controlVars => OneServer'
  BY SocketStep
<1> QED
  BY <1>1, <1>2, SocketInit, PTL DEF ControlSpec

-----------------------------------------------------------------------------
(* Answers *)

LEMMA AnswerInit == ControlInit => AnswerInv
  BY DEF ControlInit, Init, AnswerInv, ConnOK, Conn, Client, Reloading, NoConn, Idle, NoReload,
         Commands

\* A connection that is left alone while files only get newer.
LEMMA Frame ==
  ASSUME AnswerInv, NEW c \in Connections,
         conn'[c] = conn[c], client'[c] = client[c], reload'[c] = reload[c],
         file' \in Nat, file' >= file
  PROVE  ConnOK(c)'
<1>1. client[c].asked \in Nat /\ file \in Nat
  BY DEF AnswerInv, Client
<1> QED
  BY <1>1 DEF AnswerInv, ConnOK

\* One that the server ends, or that ends with the daemon.
LEMMA ClosedOK ==
  ASSUME AnswerInv, NEW c \in Connections,
         conn'[c] = [NoConn EXCEPT !.step = "closed"] \/ conn'[c] = NoConn,
         client'[c] = client[c], file' \in Nat, file' >= file
  PROVE  /\ ConnOK(c)' /\ conn'[c] \in Conn /\ conn'[c].answer = "none"
<1>1. client[c].asked \in Nat /\ file \in Nat
  BY DEF AnswerInv, Client
<1>2. /\ conn'[c].step \in {"closed", "none"} /\ conn'[c].line = "none"
      /\ conn'[c].answer = "none" /\ conn'[c] \in Conn
  BY DEF NoConn, Conn
<1> QED
  BY <1>1, <1>2 DEF AnswerInv, ConnOK

\* The steps of one connection and its client: what has to be shown of it.
LEMMA OneMoves ==
  ASSUME AnswerInv, NEW c \in Connections,
         UNCHANGED file,
         reload' \in [Tasks -> Reloading],
         \A t \in Tasks \ {c} : reload'[t] = reload[t],
         NEW r \in Conn, SetConn(c, r),
         NEW q \in Client, client' = [client EXCEPT ![c] = q],
         ConnOK(c)'
  PROVE  AnswerInv'
<1>1. conn' \in [Connections -> Conn] /\ client' \in [Connections -> Client]
  BY DEF AnswerInv, SetConn
<1>2. ASSUME NEW d \in Connections, d # c PROVE ConnOK(d)'
  <2>1. conn'[d] = conn[d] /\ client'[d] = client[d]
    BY <1>2 DEF AnswerInv, SetConn
  <2>2. reload'[d] = reload[d]
    BY <1>2 DEF Tasks
  <2>3. file' \in Nat /\ file' >= file
    BY DEF AnswerInv
  <2> QED
    BY <2>1, <2>2, <2>3, Frame
<1> QED
  BY <1>1, <1>2 DEF AnswerInv

\* The main task and the world leave the connections' reloads alone.
LEMMA DaemonFrame ==
  ASSUME AnswerInv, MainStep \/ WorldStep
  PROVE  /\ reload' \in [Tasks -> Reloading]
         /\ \A c \in Connections : reload'[c] = reload[c]
         /\ file' \in Nat /\ file' >= file
<1> USE DEF AnswerInv
<1>1. "main" \in Tasks /\ \A c \in Connections : c \in Tasks /\ c # "main"
  BY DaemonAssumption DEF Tasks
<1>2. CASE UNCHANGED <<reload, file>>
  BY <1>1, <1>2
<1>3. ASSUME NEW r \in Reloading, reload' = [reload EXCEPT !["main"] = r], UNCHANGED file
      PROVE  /\ reload' \in [Tasks -> Reloading]
             /\ \A c \in Connections : reload'[c] = reload[c]
             /\ file' \in Nat /\ file' >= file
  BY <1>1, <1>3
<1>4. NoReload \in Reloading /\ [step |-> "load", version |-> 0] \in Reloading
  BY DEF NoReload, Reloading
<1>5. reload["main"].version \in Nat
  BY <1>1 DEF Reloading
<1>6. CASE ReloadStep("main")
  <2>1. CASE LoadConfig("main")
    <3>1. [step |-> "store", version |-> file] \in Reloading
      BY DEF Reloading
    <3> QED
      BY <1>3, <1>4, <2>1, <3>1 DEF LoadConfig, SetReload, ReloadDone
  <2>2. CASE StoreConfig("main")
    <3>1. [step |-> "update", version |-> reload["main"].version] \in Reloading
      BY <1>5 DEF Reloading
    <3> QED
      BY <1>3, <2>2, <3>1 DEF StoreConfig, SetReload
  <2>3. CASE UpdateConfig("main")
    BY <1>3, <1>4, <2>3 DEF UpdateConfig, ReloadDone
  <2> QED
    BY <1>6, <2>1, <2>2, <2>3 DEF ReloadStep
<1>7. CASE ReceiveReload
  BY <1>3, <1>4, <1>7 DEF ReceiveReload, SetReload
<1>8. CASE BeginRun \/ StartDaemon \/ StartFails \/ EnterLoop \/ FinishStop \/ ReceiveLagged
             \/ ReceiveShutdown \/ BeginPoll \/ EndPoll \/ WatchdogTick \/ Keepalive
  BY <1>2, <1>8 DEF BeginRun, StartDaemon, StartFails, EnterLoop, FinishStop, ReceiveLagged,
                    ReceiveShutdown, BeginPoll, EndPoll, WatchdogTick, Keepalive, configVars
<1>9. CASE WorldStep
  <2>1. CASE EditFile
    BY <1>1, <2>1 DEF EditFile
  <2>2. ASSUME NEW s \in Signals, RaiseSignal(s) \/ ForwardSignal(s)
        PROVE  UNCHANGED <<reload, file>>
    BY <2>2 DEF RaiseSignal, ForwardSignal, configVars
  <2> QED
    BY <1>2, <1>9, <2>1, <2>2 DEF WorldStep
<1> QED
  BY <1>6, <1>7, <1>8, <1>9 DEF MainStep, Receive

LEMMA DaemonAnswers ==
  ASSUME AnswerInv, DaemonStep
  PROVE  /\ AnswerInv'
         /\ \A c \in Connections : conn'[c] = conn[c] \/ conn'[c].answer = "none"
<1>1. /\ reload' \in [Tasks -> Reloading]
      /\ \A c \in Connections : reload'[c] = reload[c]
      /\ file' \in Nat /\ file' >= file
  BY DaemonFrame DEF DaemonStep
<1>2. UNCHANGED client
  BY DEF DaemonStep, clientVars
<1>3. CASE UNCHANGED conn
  BY <1>1, <1>2, <1>3, Frame DEF AnswerInv
<1>4. CASE conn' = [c \in Connections |->
                      IF conn[c].step \in {"none", "answered"} THEN conn[c]
                      ELSE [NoConn EXCEPT !.step = "closed"]]
  <2>1. ASSUME NEW c \in Connections
        PROVE  /\ ConnOK(c)' /\ conn'[c] \in Conn
               /\ conn'[c] = conn[c] \/ conn'[c].answer = "none"
    <3>1. CASE conn'[c] = conn[c]
      BY <1>1, <1>2, <3>1, Frame DEF AnswerInv
    <3>2. CASE conn'[c] = [NoConn EXCEPT !.step = "closed"]
      BY <1>1, <1>2, <3>2, ClosedOK
    <3> QED
      BY <1>4, <3>1, <3>2
  <2> QED
    BY <1>1, <1>2, <1>4, <2>1 DEF AnswerInv
<1> QED
  BY <1>3, <1>4 DEF DaemonStep

\* What a step may tell the client of a reload.
Told(c) ==
  client[c].command = "reload" /\ conn[c].step # "answered" =>
    /\ conn'[c].answer = "ok" => applied' >= client[c].asked /\ applied' \notin Invalid
    /\ conn'[c].answer = "error" => file \in Invalid /\ applied' = applied

LEMMA NothingTold ==
  ASSUME AnswerInv, NEW c \in Connections, conn'[c] = conn[c] \/ conn'[c].answer \in {"none", "data"}
  PROVE  Told(c)
  BY DEF AnswerInv, ConnOK, Told

LEMMA OneTold ==
  ASSUME AnswerInv, NEW c \in Connections, NEW r, SetConn(c, r), Told(c)
  PROVE  \A d \in Connections : Told(d)
<1>1. ASSUME NEW d \in Connections, d # c PROVE Told(d)
  <2>1. conn'[d] = conn[d]
    BY <1>1 DEF AnswerInv, SetConn
  <2> QED
    BY <1>1, <2>1, NothingTold
<1> QED
  BY <1>1

\* A step that only moves one connection and its client, and tells nothing.
LEMMA QuietMove ==
  ASSUME AnswerInv, NEW c \in Connections, UNCHANGED <<file, reload>>,
         NEW r \in Conn, SetConn(c, r), r.answer \in {"none", "data"} \/ r = conn[c],
         NEW q \in Client, client' = [client EXCEPT ![c] = q],
         ConnOK(c)'
  PROVE  AnswerInv' /\ \A d \in Connections : Told(d)
<1>1. reload' \in [Tasks -> Reloading] /\ \A t \in Tasks \ {c} : reload'[t] = reload[t]
  BY DEF AnswerInv
<1>2. AnswerInv'
  BY <1>1, OneMoves
<1>3. conn'[c] = r
  BY DEF AnswerInv, SetConn
<1> QED
  BY <1>2, <1>3, NothingTold, OneTold

\* The connection's part of a task that ends without an answer.
LEMMA Ends ==
  ASSUME AnswerInv, NEW c \in Connections, UNCHANGED <<file, reload>>,
         NEW r, SetConn(c, r), r = [NoConn EXCEPT !.step = "closed"] \/ r = NoConn,
         UNCHANGED client
  PROVE  AnswerInv' /\ \A d \in Connections : Told(d)
<1>1. conn'[c] = r
  BY DEF AnswerInv, SetConn
<1>2. ConnOK(c)' /\ r \in Conn /\ r.answer = "none"
  BY <1>1, ClosedOK DEF AnswerInv
<1>3. client[c] \in Client /\ client' = [client EXCEPT ![c] = client[c]]
  BY DEF AnswerInv
<1> QED
  BY <1>2, <1>3, QuietMove

LEMMA ServerAnswers ==
  ASSUME AnswerInv, NEW s \in Servers, ServerStep(s)
  PROVE  AnswerInv' /\ \A c \in Connections : Told(c)
<1>1. UNCHANGED <<file, reload, client>>
  BY DEF ServerStep, Start, PrepareSocket, Bind, SetPermissions, AcceptFails, Notified,
         RemoveSocket, Stop, daemonVars, vars, configVars, clientVars
<1>2. file' \in Nat /\ file' >= file
  BY <1>1 DEF AnswerInv
<1>3. CASE UNCHANGED conn
  BY <1>1, <1>2, <1>3, Frame, NothingTold DEF AnswerInv
<1>4. CASE CloseBacklog(s)
  <2>1. ASSUME NEW c \in Connections PROVE ConnOK(c)' /\ conn'[c] \in Conn /\ Told(c)
    <3>1. CASE conn'[c] = conn[c]
      BY <1>1, <1>2, <3>1, Frame, NothingTold DEF AnswerInv
    <3>2. CASE conn'[c] = [NoConn EXCEPT !.step = "closed"]
      BY <1>1, <1>2, <3>2, ClosedOK, NothingTold
    <3> QED
      BY <1>4, <3>1, <3>2 DEF CloseBacklog
  <2> QED
    BY <1>1, <1>2, <1>4, <2>1 DEF AnswerInv, CloseBacklog
<1> QED
  BY <1>3, <1>4 DEF ServerStep, Start, PrepareSocket, Bind, SetPermissions, AcceptFails, Notified,
                    RemoveSocket, Stop

LEMMA AcceptAnswers ==
  ASSUME AnswerInv, NEW c \in Connections, NEW s \in Servers, Accept(s, c)
  PROVE  AnswerInv' /\ \A d \in Connections : Told(d)
<1>1. UNCHANGED <<file, reload, client, applied>>
  BY DEF Accept, daemonVars, vars, configVars, clientVars
<1>2. CASE SetConn(c, [NoConn EXCEPT !.step = "closed"])
  BY <1>1, <1>2, Ends
<1>3. CASE SetConn(c, [conn[c] EXCEPT !.step = "serving"])
  <2> DEFINE r == [conn[c] EXCEPT !.step = "serving"]
  <2>1. r \in Conn /\ r.answer = "none" /\ r.line = conn[c].line /\ r.step = "serving"
    BY DEF Accept, AnswerInv, ConnOK, Conn
  <2>2. conn'[c] = r
    BY <1>3 DEF AnswerInv, SetConn
  <2>3. client[c] \in Client /\ client' = [client EXCEPT ![c] = client[c]]
    BY <1>1 DEF AnswerInv
  <2>4. ConnOK(c)'
    BY <1>1, <2>1, <2>2 DEF AnswerInv, ConnOK
  <2> QED
    BY <1>1, <1>3, <2>1, <2>3, <2>4, QuietMove
<1> QED
  BY <1>2, <1>3 DEF Accept

\* What Reply() leaves of a connection.
LEMMA Replied ==
  ASSUME AnswerInv, NEW c \in Connections, NEW answer \in {"data", "ok", "error"},
         Reply(c, answer), UNCHANGED <<file, client>>
  PROVE  /\ \E r \in Conn : SetConn(c, r) /\ conn'[c] = r
         /\ ConnOK(c)'
         /\ conn'[c].answer \in {"none", answer}
         /\ client[c].pc # "sent" => conn'[c].answer = "none"
<1>1. CASE client[c].pc = "sent"
  <2> DEFINE r == [NoConn EXCEPT !.step = "answered", !.answer = answer]
  <2>1. SetConn(c, r)
    BY <1>1 DEF Reply
  <2>2. r \in Conn /\ r.step = "answered" /\ r.answer = answer /\ r.line = "none"
    BY DEF NoConn, Conn
  <2>3. conn'[c] = r
    BY <2>1 DEF AnswerInv, SetConn
  <2>4. ConnOK(c)'
    BY <2>2, <2>3 DEF AnswerInv, ConnOK
  <2> HIDE DEF r
  <2> QED
    BY <1>1, <2>1, <2>2, <2>3, <2>4
<1>2. CASE client[c].pc # "sent"
  <2>1. SetConn(c, NoConn)
    BY <1>2 DEF Reply
  <2>2. conn'[c] = NoConn
    BY <2>1 DEF AnswerInv, SetConn
  <2>3. file' \in Nat /\ file' >= file /\ client'[c] = client[c]
    BY DEF AnswerInv
  <2>4. ConnOK(c)' /\ NoConn \in Conn /\ conn'[c].answer = "none"
    BY <2>2, <2>3, ClosedOK
  <2> QED
    BY <2>1, <2>2, <2>4
<1> QED
  BY <1>1, <1>2

LEMMA ServeLineAnswers ==
  ASSUME AnswerInv, NEW c \in Connections, ServeLine(c)
  PROVE  AnswerInv' /\ \A d \in Connections : Told(d)
<1>1. UNCHANGED <<client, file>>
  BY DEF ServeLine, clientVars, daemonVars, vars, configVars, ControlShutdown, ControlReload
<1>2. client[c] \in Client /\ client' = [client EXCEPT ![c] = client[c]]
  BY <1>1 DEF AnswerInv
<1>3. c \in Tasks
  BY DEF Tasks
<1>4. CASE conn[c].line = "query" /\ Reply(c, "data") /\ UNCHANGED daemonVars
  <2>1. UNCHANGED reload
    BY <1>4 DEF daemonVars, vars, configVars
  <2>2. PICK r \in Conn : SetConn(c, r) /\ conn'[c] = r
    BY <1>1, <1>4, Replied
  <2>3. ConnOK(c)' /\ conn'[c].answer \in {"none", "data"}
    BY <1>1, <1>4, Replied
  <2> QED
    BY <1>1, <1>2, <2>1, <2>2, <2>3, QuietMove
<1>5. CASE conn[c].line = "shutdown" /\ Reply(c, "ok") /\ ControlShutdown
  <2>1. UNCHANGED reload
    BY <1>5 DEF ControlShutdown, configVars
  <2>2. PICK r \in Conn : SetConn(c, r) /\ conn'[c] = r
    BY <1>1, <1>5, Replied
  <2>3. /\ ConnOK(c)' /\ conn'[c].answer \in {"none", "ok"}
        /\ client[c].pc # "sent" => conn'[c].answer = "none"
    BY <1>1, <1>5, Replied
  <2>4. client[c].pc = "sent" => client[c].command # "reload"
    BY <1>5 DEF AnswerInv, ConnOK
  <2>5. Told(c)
    BY <2>3, <2>4 DEF Told
  <2>6. AnswerInv'
    BY <1>1, <1>2, <2>1, <2>2, <2>3, OneMoves DEF AnswerInv
  <2> QED
    BY <2>2, <2>5, <2>6, OneTold
<1>6. CASE /\ conn[c].line = "reload" /\ ControlReload(c)
           /\ SetConn(c, [conn[c] EXCEPT !.step = "reloading", !.line = "none"])
  <2> DEFINE r == [conn[c] EXCEPT !.step = "reloading", !.line = "none"]
  <2>1. r \in Conn /\ r.answer = "none" /\ r.line = "none" /\ r.step = "reloading"
    BY DEF ServeLine, AnswerInv, ConnOK, Conn
  <2>2. conn'[c] = r
    BY <1>6 DEF AnswerInv, SetConn
  <2>3. reload' = [reload EXCEPT ![c] = [step |-> "load", version |-> 0]]
    BY <1>6 DEF ControlReload, SetReload
  <2>4. [step |-> "load", version |-> 0] \in Reloading
    BY DEF Reloading
  <2>5. /\ reload' \in [Tasks -> Reloading]
        /\ \A t \in Tasks \ {c} : reload'[t] = reload[t]
        /\ reload'[c].step = "load"
    BY <1>3, <2>3, <2>4 DEF AnswerInv
  <2>6. client[c].pc # "connected"
    BY <1>6 DEF AnswerInv, ConnOK
  <2>7. ConnOK(c)'
    BY <1>1, <2>1, <2>2, <2>5, <2>6 DEF AnswerInv, ConnOK
  <2>8. AnswerInv'
    BY <1>1, <1>2, <1>6, <2>1, <2>5, <2>7, OneMoves
  <2> QED
    BY <1>6, <2>1, <2>2, <2>8, NothingTold, OneTold
<1> QED
  BY <1>4, <1>5, <1>6 DEF ServeLine

\* reload_config() in the task of a connection, step by step.
LEMMA ServeReloadAnswers ==
  ASSUME AnswerInv, NEW c \in Connections, ServeReload(c)
  PROVE  AnswerInv' /\ \A d \in Connections : Told(d)
<1>1. c \in Tasks /\ reload[c] \in Reloading /\ file \in Nat /\ conn[c].step = "reloading"
  BY DEF AnswerInv, Tasks, ServeReload
<1>2. UNCHANGED <<client, file>>
  BY DEF ServeReload, ReloadStep, LoadConfig, StoreConfig, UpdateConfig, clientVars
<1>3. client[c] \in Client /\ client' = [client EXCEPT ![c] = client[c]]
  BY <1>2 DEF AnswerInv
<1>4. conn[c] \in Conn /\ conn[c].answer = "none" /\ client[c].pc # "connected"
  BY <1>1 DEF AnswerInv, ConnOK
<1>5. ASSUME NEW q \in Reloading, reload' = [reload EXCEPT ![c] = q]
      PROVE  /\ reload' \in [Tasks -> Reloading] /\ reload'[c] = q
             /\ \A t \in Tasks \ {c} : reload'[t] = reload[t]
  BY <1>1, <1>5 DEF AnswerInv
\* A step on the way: the connection stays as it is.
<1>6. ASSUME NEW q \in Reloading, reload' = [reload EXCEPT ![c] = q], q # NoReload,
             q.version \notin Invalid,
             client[c].pc = "sent" => q.version >= client[c].asked
      PROVE  AnswerInv' /\ \A d \in Connections : Told(d)
  <2>1. reload'[c] = q
    BY <1>5, <1>6
  <2>2. UNCHANGED conn
    BY <1>6, <2>1 DEF ServeReload
  <2>3. SetConn(c, conn[c]) /\ conn'[c] = conn[c]
    BY <2>2 DEF SetConn, AnswerInv
  <2>4. ConnOK(c)'
    BY <1>2, <1>6, <2>1, <2>2 DEF AnswerInv, ConnOK
  <2>5. AnswerInv'
    BY <1>2, <1>3, <1>4, <1>5, <1>6, <2>3, <2>4, OneMoves
  <2> QED
    BY <2>3, <2>5, NothingTold, OneTold
\* The last step: the connection is answered.
<1>7. ASSUME NEW answer \in {"ok", "error"}, reload' = [reload EXCEPT ![c] = NoReload],
             Reply(c, answer),
             client[c].pc = "sent" =>
               /\ answer = "ok" => applied' >= client[c].asked /\ applied' \notin Invalid
               /\ answer = "error" => file \in Invalid /\ applied' = applied
      PROVE  AnswerInv' /\ \A d \in Connections : Told(d)
  <2>1. NoReload \in Reloading
    BY DEF NoReload, Reloading
  <2>2. PICK r \in Conn : SetConn(c, r) /\ conn'[c] = r
    BY <1>2, <1>7, Replied
  <2>3. /\ ConnOK(c)' /\ conn'[c].answer \in {"none", answer}
        /\ client[c].pc # "sent" => conn'[c].answer = "none"
    BY <1>2, <1>7, Replied
  <2>4. AnswerInv'
    BY <1>2, <1>3, <1>5, <1>7, <2>1, <2>2, <2>3, OneMoves
  <2>5. Told(c)
    BY <1>7, <2>3 DEF Told
  <2> QED
    BY <2>2, <2>4, <2>5, OneTold
<1>8. NoReload.step = "none" /\ NoReload \in Reloading
  BY DEF NoReload, Reloading
<1>9. CASE LoadConfig(c)
  <2>1. c # "main"
    BY DaemonAssumption
  <2>2. CASE file \in Invalid
    <3>1. reload' = [reload EXCEPT ![c] = NoReload] /\ applied' = applied
      BY <1>9, <2>2 DEF LoadConfig, ReloadDone
    <3>2. reload'[c] = NoReload /\ reload[c].step # "update"
      BY <1>5, <1>8, <1>9, <3>1 DEF LoadConfig
    <3>3. Reply(c, "error")
      BY <3>2 DEF ServeReload
    <3> QED
      BY <1>7, <2>2, <3>1, <3>3
  <2>3. CASE file \notin Invalid
    <3> DEFINE q == [step |-> "store", version |-> file]
    <3>1. reload' = [reload EXCEPT ![c] = q]
      BY <1>9, <2>3 DEF LoadConfig, SetReload
    <3>2. q \in Reloading /\ q.version = file /\ q # NoReload
      BY <1>1 DEF Reloading, NoReload
    <3>3. client[c].pc = "sent" => file >= client[c].asked
      BY <1>1, <1>3 DEF AnswerInv, ConnOK, Client
    <3> QED
      BY <1>6, <2>3, <3>1, <3>2, <3>3
  <2> QED
    BY <2>2, <2>3
<1>10. CASE StoreConfig(c)
  <2> DEFINE q == [step |-> "update", version |-> reload[c].version]
  <2>1. reload' = [reload EXCEPT ![c] = q] /\ reload[c].step = "store"
    BY <1>10 DEF StoreConfig, SetReload
  <2>2. q \in Reloading /\ q.version = reload[c].version /\ q # NoReload
    BY <1>1 DEF Reloading, NoReload
  <2>3. /\ reload[c].version \notin Invalid
        /\ client[c].pc = "sent" => reload[c].version >= client[c].asked
    BY <1>1, <2>1 DEF AnswerInv, ConnOK
  <2> QED
    BY <1>6, <2>1, <2>2, <2>3
<1>11. CASE UpdateConfig(c)
  <2>1. c # "main"
    BY DaemonAssumption
  <2>2. /\ reload' = [reload EXCEPT ![c] = NoReload] /\ reload[c].step = "update"
        /\ applied' = reload[c].version
    BY <1>11 DEF UpdateConfig, ReloadDone
  <2>3. reload'[c] = NoReload
    BY <1>5, <1>8, <2>2
  <2>4. Reply(c, "ok")
    BY <2>2, <2>3 DEF ServeReload
  <2>5. /\ reload[c].version \notin Invalid
        /\ client[c].pc = "sent" => reload[c].version >= client[c].asked
    BY <1>1, <2>2 DEF AnswerInv, ConnOK
  <2> QED
    BY <1>7, <2>2, <2>4, <2>5
<1> QED
  BY <1>9, <1>10, <1>11 DEF ServeReload, ReloadStep

LEMMA ConnectionAnswers ==
  ASSUME AnswerInv, NEW c \in Connections, ConnectionStep(c)
  PROVE  AnswerInv' /\ \A d \in Connections : Told(d)
<1>1. CASE TimeLimit(c) \/ Forget(c)
  <2>1. UNCHANGED <<file, reload, client>>
    BY <1>1 DEF TimeLimit, Forget, daemonVars, vars, configVars, clientVars
  <2>2. SetConn(c, [NoConn EXCEPT !.step = "closed"]) \/ SetConn(c, NoConn)
    BY <1>1 DEF TimeLimit, Forget
  <2> QED
    BY <2>1, <2>2, Ends
<1> QED
  BY <1>1, AcceptAnswers, ServeLineAnswers, ServeReloadAnswers DEF ConnectionStep

LEMMA ClientAnswers ==
  ASSUME AnswerInv, NEW c \in Connections, ClientStep(c)
  PROVE  AnswerInv' /\ \A d \in Connections : Told(d)
<1>1. UNCHANGED <<file, reload>> /\ file \in Nat
  BY DEF ClientStep, Connect, Send, ReadAnswer, ReadTimesOut, daemonVars, vars, configVars,
         AnswerInv
<1>2. /\ Idle \in Client /\ Idle.pc = "idle"
      /\ NoConn \in Conn /\ NoConn.step = "none" /\ NoConn.answer = "none"
      /\ NoConn.line = "none"
  BY DEF Idle, Client, NoConn, Conn
<1>3. conn[c] \in Conn /\ client[c] \in Client
  BY DEF AnswerInv
<1>4. ASSUME NEW r, SetConn(c, r) PROVE conn'[c] = r
  BY <1>4 DEF AnswerInv, SetConn
<1>5. ASSUME NEW q, client' = [client EXCEPT ![c] = q] PROVE client'[c] = q
  BY <1>5 DEF AnswerInv
\* The client leaves and keeps its connection, or drops it.
<1>6. ASSUME client' = [client EXCEPT ![c] = Idle],
             SetConn(c, NoConn) \/ UNCHANGED conn
      PROVE  AnswerInv' /\ \A d \in Connections : Told(d)
  <2>1. client'[c] = Idle
    BY <1>5, <1>6
  <2>2. CASE SetConn(c, NoConn)
    <3>1. ConnOK(c)'
      BY <1>2, <1>4, <2>1, <2>2 DEF ConnOK
    <3> QED
      BY <1>1, <1>2, <1>6, <2>2, <3>1, QuietMove
  <2>3. CASE UNCHANGED conn
    <3>1. SetConn(c, conn[c])
      BY <2>3 DEF SetConn, AnswerInv
    <3>2. ConnOK(c)'
      BY <1>1, <1>2, <2>1, <2>3 DEF AnswerInv, ConnOK
    <3> QED
      BY <1>1, <1>2, <1>3, <1>6, <3>1, <3>2, QuietMove
  <2> QED
    BY <1>6, <2>2, <2>3
<1>7. ASSUME NEW command \in Commands, Connect(c, command)
      PROVE  AnswerInv' /\ \A d \in Connections : Told(d)
  <2>1. CASE socket \in Servers
    <3> DEFINE r == [NoConn EXCEPT !.step = "backlog", !.at = socket]
               q == [pc |-> "connected", command |-> command, asked |-> 0]
    <3>1. SetConn(c, r) /\ client' = [client EXCEPT ![c] = q]
      BY <1>7, <2>1 DEF Connect
    <3>2. r \in Conn /\ r.step = "backlog" /\ r.line = "none" /\ r.answer = "none"
      BY <2>1 DEF NoConn, Conn
    <3>3. q \in Client /\ q.pc = "connected"
      BY DEF Client
    <3>4. conn'[c] = r /\ client'[c] = q
      BY <1>4, <1>5, <3>1
    <3>5. ConnOK(c)'
      BY <3>2, <3>3, <3>4 DEF ConnOK
    <3> HIDE DEF r, q
    <3> QED
      BY <1>1, <3>1, <3>2, <3>3, <3>5, QuietMove
  <2>2. CASE socket \notin Servers
    BY <1>6, <1>7, <2>2 DEF Connect, Finish
  <2> QED
    BY <2>1, <2>2
<1>8. CASE Send(c)
  <2>1. CASE conn[c].step = "closed"
    BY <1>6, <1>8, <2>1 DEF Send, Finish
  <2>2. CASE conn[c].step # "closed"
    <3> DEFINE r == [conn[c] EXCEPT !.line = client[c].command]
               q == [pc |-> "sent", command |-> client[c].command, asked |-> file]
    <3>1. SetConn(c, r)
      BY <1>8, <2>2 DEF Send
    <3>2. client' = [client EXCEPT ![c] = q]
      BY <1>3, <1>8, <2>2 DEF Send, Client, AnswerInv
    <3>3. /\ r \in Conn /\ r.step = conn[c].step /\ r.line = client[c].command
          /\ r.answer = conn[c].answer
      BY <1>3 DEF Conn, Client
    <3>4. /\ q \in Client /\ q.pc = "sent" /\ q.asked = file /\ q.command = client[c].command
      BY <1>1, <1>3 DEF Client
    <3>5. conn'[c] = r /\ client'[c] = q
      BY <1>4, <1>5, <3>1, <3>2
    <3>6. conn[c].step # "reloading" /\ (conn[c].step # "answered" => conn[c].answer = "none")
      BY <1>8 DEF Send, AnswerInv, ConnOK
    <3>7. ConnOK(c)'
      BY <1>1, <3>3, <3>4, <3>5, <3>6 DEF ConnOK
    <3> HIDE DEF r, q
    <3>8. AnswerInv'
      <4>1. reload' \in [Tasks -> Reloading] /\ \A t \in Tasks \ {c} : reload'[t] = reload[t]
        BY <1>1 DEF AnswerInv
      <4> QED
        BY <1>1, <3>1, <3>2, <3>3, <3>4, <3>7, <4>1, OneMoves
    <3>9. Told(c)
      BY <3>3, <3>5, <3>6 DEF Told
    <3> QED
      BY <3>1, <3>8, <3>9, OneTold
  <2> QED
    BY <2>1, <2>2
<1>9. CASE ReadAnswer(c) \/ ReadTimesOut(c)
  BY <1>6, <1>9 DEF ReadAnswer, ReadTimesOut, Finish
<1> QED
  BY <1>7, <1>8, <1>9 DEF ClientStep

LEMMA ControlStepAnswers ==
  ASSUME AnswerInv, ControlNext
  PROVE  AnswerInv' /\ \A c \in Connections : Told(c)
<1>1. CASE DaemonStep
  <2>1. AnswerInv' /\ \A c \in Connections : conn'[c] = conn[c] \/ conn'[c].answer = "none"
    BY <1>1, DaemonAnswers
  <2> QED
    BY <2>1, NothingTold
<1> QED
  BY <1>1, ServerAnswers, ConnectionAnswers, ClientAnswers DEF ControlNext

\* handle_command(): a client that is told of a reload is told the truth, however many
\* clients, signals and edits of the file there are, and whichever server answers.
THEOREM AnswersAreTrue == ControlSpec => AnswersTrue
<1>1. AnswerInv /\ [ControlNext]_controlVars => AnswerInv'
  <2>1. ASSUME AnswerInv, UNCHANGED controlVars PROVE AnswerInv'
    BY <2>1 DEF controlVars, daemonVars, vars, configVars, clientVars, AnswerInv, ConnOK
  <2> QED
    BY <2>1, ControlStepAnswers
<1>2. AnswerInv /\ [ControlNext]_controlVars => [\A c \in Connections : Told(c)]_controlVars
  BY ControlStepAnswers
<1>3. [\A c \in Connections : Told(c)]_controlVars =>
        [\A c \in Connections :
           client[c].command = "reload" /\ conn[c].step # "answered" =>
             /\ conn'[c].answer = "ok" => applied' >= client[c].asked /\ applied' \notin Invalid
             /\ conn'[c].answer = "error" => file \in Invalid /\ applied' = applied]_controlVars
  BY DEF Told
<1> QED
  BY <1>1, <1>2, <1>3, AnswerInit, PTL DEF ControlSpec, AnswersTrue
-----------------------------------------------------------------------------
(* Type correctness: the task of a connection and its reload *)

ServerTypes ==
  /\ phase \in [Servers -> Phases]
  /\ failed \in BOOLEAN
  /\ {flag, permit} \subseteq [Servers -> BOOLEAN]
  /\ socket \in Servers \cup {"none", "stale"}

\* Until the process ends, a connection is in a reload exactly while its task does one.
Reloads(c) == reload[c].step # "none" <=> conn[c].step = "reloading"

TasksReload == stage # "ended" => \A c \in Connections : Reloads(c)

LEMMA ServerTypesInit == ControlInit => ServerTypes /\ TasksReload
<1>1. NoReload.step = "none" /\ NoConn.step = "none"
  BY DEF NoReload, NoConn
<1>2. ControlInit => TasksReload
  BY <1>1 DEF ControlInit, Init, TasksReload, Reloads, Tasks
<1>3. ControlInit => {flag, permit} \subseteq [Servers -> BOOLEAN]
  BY DEF ControlInit
<1>4. ControlInit => failed \in BOOLEAN
  BY DEF ControlInit
<1>5. ControlInit => phase \in [Servers -> Phases] /\ socket \in Servers \cup {"none", "stale"}
  BY DEF ControlInit, Phases
<1> QED
  BY <1>2, <1>3, <1>4, <1>5 DEF ServerTypes

LEMMA ServerTypesStep ==
  ASSUME ServerTypes, [ControlNext]_controlVars
  PROVE  ServerTypes'
<1> USE DEF ServerTypes, Phases
<1>1. CASE UNCHANGED serverVars
  BY <1>1 DEF serverVars
<1>2. CASE DaemonStep
  BY <1>1, <1>2 DEF DaemonStep
<1>3. ASSUME NEW s \in Servers, ServerStep(s) PROVE ServerTypes'
  <2>1. CASE Start(s) \/ PrepareSocket(s)
    BY <2>1 DEF Start, PrepareSocket, GoTo
  <2>2. CASE Bind(s)
    BY <2>2 DEF Bind, GoTo
  <2>3. CASE SetPermissions(s)
    BY <2>3 DEF SetPermissions, GoTo, LeftBy
  <2>4. CASE AcceptFails(s) \/ Notified(s)
    BY <2>4 DEF AcceptFails, Notified, GoTo, LookAtFlag
  <2>5. CASE RemoveSocket(s)
    BY <2>5 DEF RemoveSocket, GoTo, LeftBy
  <2>6. CASE Stop(s)
    BY <2>6 DEF Stop
  <2> QED
    BY <1>3, <2>1, <2>2, <2>3, <2>4, <2>5, <2>6 DEF ServerStep
<1>4. ASSUME NEW s \in Servers, NEW c \in Connections, Accept(s, c) PROVE ServerTypes'
  <2>1. phase' = phase \/ LookAtFlag(s)
    BY <1>4 DEF Accept
  <2> QED
    BY <1>4, <2>1 DEF Accept, GoTo, LookAtFlag
<1>5. ASSUME NEW c \in Connections, ConnectionStep(c) PROVE ServerTypes'
  BY <1>1, <1>4, <1>5 DEF ConnectionStep, ServeLine, ServeReload, TimeLimit, Forget
<1>6. ASSUME NEW c \in Connections, ClientStep(c) PROVE ServerTypes'
  BY <1>1, <1>6 DEF ClientStep, Connect, Send, ReadAnswer, ReadTimesOut
<1>7. CASE UNCHANGED controlVars
  BY <1>1, <1>7 DEF controlVars
<1> QED
  BY <1>2, <1>3, <1>5, <1>6, <1>7 DEF ControlNext

\* A step of one connection that is no step of a reload.
LEMMA ReloadsStay ==
  ASSUME AnswerInv, TasksReload, NEW c \in Connections, stage' = stage, reload' = reload,
         NEW r, SetConn(c, r), (r.step = "reloading") = (conn[c].step = "reloading")
  PROVE  TasksReload'
<1>1. conn'[c] = r
  BY DEF AnswerInv, SetConn
<1>2. \A d \in Connections : d # c => conn'[d] = conn[d]
  BY DEF AnswerInv, SetConn
<1>3. \A d \in Connections : stage # "ended" => Reloads(d)'
  BY <1>1, <1>2 DEF TasksReload, Reloads
<1> QED
  BY <1>3 DEF TasksReload

\* The process ends once, and its connections with it.
LEMMA DaemonReloads ==
  ASSUME AnswerInv, TasksReload, DaemonStep
  PROVE  TasksReload'
<1> SUFFICES ASSUME stage' # "ended" PROVE \A c \in Connections : Reloads(c)'
  BY DEF TasksReload
<1>1. stage # "ended"
  BY EndedStays DEF DaemonStep
<1>2. UNCHANGED conn
  BY <1>1 DEF DaemonStep
<1>3. \A c \in Connections : reload'[c] = reload[c]
  BY DaemonFrame DEF DaemonStep
<1> QED
  BY <1>1, <1>2, <1>3 DEF TasksReload, Reloads

LEMMA ReplyStep ==
  ASSUME NEW c \in Connections, NEW answer, Reply(c, answer)
  PROVE  \E r : SetConn(c, r) /\ r.step # "reloading"
<1> DEFINE q == IF client[c].pc = "sent" THEN [NoConn EXCEPT !.step = "answered", !.answer = answer]
                ELSE NoConn
<1>1. SetConn(c, q)
  BY DEF Reply
<1>2. q.step # "reloading"
  BY DEF NoConn
<1> HIDE DEF q
<1> QED
  BY <1>1, <1>2

LEMMA ServeLineReloads ==
  ASSUME AnswerInv, TasksReload, NEW c \in Connections, ServeLine(c)
  PROVE  TasksReload'
<1>1. conn[c].step = "serving"
  BY DEF ServeLine
<1>2. CASE /\ Reply(c, "data") \/ Reply(c, "ok")
           /\ UNCHANGED <<stage, reload>>
  <2>1. PICK r : SetConn(c, r) /\ r.step # "reloading"
    BY <1>2, ReplyStep
  <2> QED
    BY <1>1, <1>2, <2>1, ReloadsStay
<1>3. CASE /\ ControlReload(c)
           /\ SetConn(c, [conn[c] EXCEPT !.step = "reloading", !.line = "none"])
  <2>1. c \in Tasks /\ Connections \subseteq Tasks
    BY DEF Tasks
  <2>2. reload' = [reload EXCEPT ![c] = [step |-> "load", version |-> 0]]
    BY <1>3 DEF ControlReload, SetReload
  <2>3. /\ reload'[c].step = "load"
        /\ \A d \in Connections \ {c} : reload'[d] = reload[d]
    BY <2>1, <2>2 DEF AnswerInv
  <2>4. /\ conn'[c].step = "reloading"
        /\ \A d \in Connections \ {c} : conn'[d] = conn[d]
    BY <1>3 DEF AnswerInv, SetConn, Conn
  <2>5. UNCHANGED stage
    BY <1>3 DEF ControlReload, mainVars
  <2> QED
    BY <2>3, <2>4, <2>5 DEF TasksReload, Reloads
<1> QED
  BY <1>2, <1>3 DEF ServeLine, daemonVars, vars, mainVars, configVars, ControlShutdown

LEMMA ServeReloadReloads ==
  ASSUME AnswerInv, TasksReload, NEW c \in Connections, ServeReload(c)
  PROVE  TasksReload'
<1>1. c \in Tasks /\ Connections \subseteq Tasks /\ c # "main"
  BY DaemonAssumption DEF Tasks
<1>2. UNCHANGED stage
  BY <1>1 DEF ServeReload, ReloadStep, LoadConfig, StoreConfig, UpdateConfig, ReloadDone, mainVars
<1>3. PICK q : reload' = [reload EXCEPT ![c] = q] /\ (q.step = "none" => q = NoReload)
  BY DEF ServeReload, ReloadStep, LoadConfig, StoreConfig, UpdateConfig, ReloadDone, SetReload
<1>4. reload'[c] = q /\ \A d \in Connections \ {c} : reload'[d] = reload[d]
  BY <1>1, <1>3 DEF AnswerInv
<1>5. CASE q = NoReload
  <2>1. Reply(c, "ok") \/ Reply(c, "error")
    BY <1>4, <1>5 DEF ServeReload
  <2>2. PICK r : SetConn(c, r) /\ r.step # "reloading"
    BY <2>1, ReplyStep
  <2>3. conn'[c] = r /\ \A d \in Connections \ {c} : conn'[d] = conn[d]
    BY <2>2 DEF AnswerInv, SetConn
  <2>4. q.step = "none"
    BY <1>5 DEF NoReload
  <2> QED
    BY <1>2, <1>4, <2>2, <2>3, <2>4 DEF TasksReload, Reloads
<1>6. CASE q # NoReload
  <2>1. UNCHANGED conn /\ conn[c].step = "reloading" /\ q.step # "none"
    BY <1>3, <1>4, <1>6 DEF ServeReload
  <2> QED
    BY <1>2, <1>4, <2>1 DEF TasksReload, Reloads
<1> QED
  BY <1>5, <1>6

LEMMA ConnectionReloads ==
  ASSUME AnswerInv, TasksReload, NEW c \in Connections, ConnectionStep(c)
  PROVE  TasksReload'
<1>1. ASSUME NEW s \in Servers, Accept(s, c) PROVE TasksReload'
  <2>1. PICK r : SetConn(c, r) /\ r.step # "reloading"
    BY <1>1 DEF Accept, NoConn, AnswerInv, Conn
  <2>2. UNCHANGED <<stage, reload>> /\ conn[c].step = "backlog"
    BY <1>1 DEF Accept, daemonVars, vars, mainVars, configVars
  <2> QED
    BY <2>1, <2>2, ReloadsStay
<1>2. CASE TimeLimit(c) \/ Forget(c)
  <2>1. PICK r : SetConn(c, r) /\ r.step # "reloading"
    BY <1>2 DEF TimeLimit, Forget, NoConn
  <2>2. UNCHANGED <<stage, reload>> /\ conn[c].step # "reloading"
    BY <1>2 DEF TimeLimit, Forget, daemonVars, vars, mainVars, configVars
  <2> QED
    BY <2>1, <2>2, ReloadsStay
<1> QED
  BY <1>1, <1>2, ServeLineReloads, ServeReloadReloads DEF ConnectionStep

LEMMA ServerReloads ==
  ASSUME AnswerInv, TasksReload, NEW s \in Servers, ServerStep(s)
  PROVE  TasksReload'
<1>1. UNCHANGED <<stage, reload>>
  BY DEF ServerStep, Start, PrepareSocket, Bind, SetPermissions, AcceptFails, Notified,
         RemoveSocket, Stop, daemonVars, vars, mainVars, configVars
<1>2. ASSUME NEW c \in Connections
      PROVE  conn'[c].step = "reloading" <=> conn[c].step = "reloading"
  BY DEF ServerStep, Start, PrepareSocket, Bind, SetPermissions, AcceptFails, Notified,
         RemoveSocket, CloseBacklog, Stop, NoConn
<1> QED
  BY <1>1, <1>2 DEF TasksReload, Reloads

LEMMA ClientReloads ==
  ASSUME AnswerInv, TasksReload, NEW c \in Connections, ClientStep(c)
  PROVE  TasksReload'
<1>1. UNCHANGED <<stage, reload>>
  BY DEF ClientStep, Connect, Send, ReadAnswer, ReadTimesOut, daemonVars, vars, mainVars,
         configVars
<1>2. CASE UNCHANGED conn
  BY <1>1, <1>2 DEF TasksReload, Reloads
<1>3. ASSUME NEW r, SetConn(c, r), (r.step = "reloading") = (conn[c].step = "reloading")
      PROVE  TasksReload'
  BY <1>1, <1>3, ReloadsStay
<1>4. ASSUME NEW command \in Commands, Connect(c, command) PROVE TasksReload'
  <2> DEFINE q == [NoConn EXCEPT !.step = "backlog", !.at = socket]
  <2>1. UNCHANGED conn \/ SetConn(c, q)
    BY <1>4 DEF Connect
  <2>2. q.step # "reloading" /\ conn[c].step # "reloading"
    BY <1>4 DEF Connect, NoConn
  <2> HIDE DEF q
  <2> QED
    BY <1>2, <1>3, <2>1, <2>2
<1>5. CASE Send(c)
  <2>1. conn[c] \in Conn
    BY DEF AnswerInv
  <2> QED
    BY <1>3, <1>5, <2>1 DEF Send, NoConn, Conn
<1>6. CASE ReadAnswer(c)
  BY <1>3, <1>6 DEF ReadAnswer, NoConn
<1>7. CASE ReadTimesOut(c)
  BY <1>2, <1>7 DEF ReadTimesOut
<1> QED
  BY <1>4, <1>5, <1>6, <1>7 DEF ClientStep

LEMMA TasksReloadStep ==
  ASSUME AnswerInv, TasksReload, [ControlNext]_controlVars
  PROVE  TasksReload'
<1>1. CASE UNCHANGED controlVars
  BY <1>1 DEF controlVars, daemonVars, vars, mainVars, configVars, TasksReload, Reloads
<1> QED
  BY <1>1, DaemonReloads, ServerReloads, ConnectionReloads, ClientReloads DEF ControlNext

\* The control server's states are of their types, a client that has not sent its
\* command has no line on its connection, and a connection is in a reload exactly while
\* its task does one, which handle_command() awaits.
THEOREM ServerTypeCorrect == ControlSpec => []ServerTypeOK
<1> DEFINE Inv == AnswerInv /\ ServerTypes /\ TasksReload
<1>1. ControlInit => Inv
  BY AnswerInit, ServerTypesInit
<1>2. Inv /\ [ControlNext]_controlVars => Inv'
  <2>1. ASSUME AnswerInv, UNCHANGED controlVars PROVE AnswerInv'
    BY <2>1 DEF controlVars, daemonVars, vars, configVars, clientVars, AnswerInv, ConnOK
  <2> QED
    BY <2>1, ControlStepAnswers, ServerTypesStep, TasksReloadStep
<1>3. Inv => ServerTypeOK
  BY DEF AnswerInv, ConnOK, Conn, Client, ServerTypes, TasksReload, Reloads, ServerTypeOK
<1> QED
  BY <1>1, <1>2, <1>3, PTL DEF ControlSpec
===============================================================================
