-------------------------------- MODULE Daemon --------------------------------
(***************************************************************************)
(* The daemon service (src/daemon/service.rs) with its signal handler      *)
(* (src/daemon/signals.rs), what it tells systemd, and the part of the     *)
(* control interface that changes it (ControlState).                       *)
(*                                                                         *)
(* A signal of the operating system sets a flag; one of two tasks turns it *)
(* into a message of a broadcast channel, which the main loop reads.  The  *)
(* loop polls the network in between, and while it does it neither reads   *)
(* a message nor answers the watchdog.                                     *)
(* Configuration files are told apart by their version: the n-th content   *)
(* the file has had.                                                       *)
(***************************************************************************)
EXTENDS Naturals, SequencesExt

CONSTANTS
  Capacity,         \* messages the broadcast channel keeps (16)
  Invalid,          \* versions of the file the loader refuses
  Connections,      \* connections of a control server (ControlServer), if any
  WatchdogUsec,     \* WATCHDOG_USEC as systemd sets it, 0 when it does not
  MaxSignals,       \* bound: signals sent to the process
  MaxEdits          \* bound: edits of the file

ASSUME DaemonAssumption ==
  /\ Capacity \in Nat \ {0}
  /\ Invalid \subseteq Nat \ {0}
  /\ "main" \notin Connections
  /\ {WatchdogUsec, MaxSignals, MaxEdits} \subseteq Nat

VARIABLES
  stage,     \* where the main task is
  state,     \* ServiceState
  told,      \* the last notification sent to systemd
  raised,    \* signals that are pending for the process
  queue,     \* messages the channel keeps for signal_rx
  lagged,    \* has one been overwritten since the last recv()?
  due,       \* has the watchdog ticker fired since the last keepalive?
  shutdown,  \* DaemonService.shutdown
  file,      \* version of the configuration file
  config,    \* DaemonService.config
  applied,   \* EventDispatcher.config
  reload,    \* the reload a task is doing: its step and the version it loaded
  overrun,   \* history: has a message been overwritten at all?
  signals    \* history: signals sent so far

mainVars   == <<stage, state, told>>
signalVars == <<raised, queue, lagged, overrun, signals>>
configVars == <<file, config, applied, reload>>
vars       == <<mainVars, signalVars, configVars, due, shutdown>>

Signals  == {"SIGTERM", "SIGHUP"}
Messages == {"Shutdown", "Reload"}
Tasks    == {"main"} \cup Connections

NoReload == [step |-> "none", version |-> 0]

DaemonTypeOK ==
  /\ stage \in {"starting", "applying", "ready", "select", "polling", "reloading", "stopping",
               "ended"}
  /\ state \in {"Initializing", "Running", "Reloading", "Stopping", "Stopped"}
  /\ told \in {"nothing", "RELOADING", "READY", "STOPPING"}
  /\ raised \in [Signals -> BOOLEAN]
  /\ queue \in Seq(Messages) /\ Len(queue) <= Capacity
  /\ {lagged, overrun, due, shutdown} \subseteq BOOLEAN
  /\ {file, config, applied} \subseteq 0 .. MaxEdits
  /\ reload \in [Tasks -> [step: {"none", "load", "store", "update"}, version: 0 .. MaxEdits]]
  /\ signals \in 0 .. MaxSignals

-----------------------------------------------------------------------------
(* Mutants of the definitions below. *)

\* The channel keeps one message more.
retained_more(q) == IF Len(q) > Capacity + 1 THEN Tail(q) ELSE q

\* What else is queued is dropped with the message that is taken.
rest_of_queue_none == <<>>

-----------------------------------------------------------------------------
(* The broadcast channel: a sender never waits, it overwrites the oldest    *)
(* message that the receiver has not read, and recv() reports that once.    *)

subscribed == stage \in {"select", "polling", "reloading"}

retained(q) == IF Len(q) > Capacity THEN Tail(q) ELSE q

send(m) ==
  LET q == Append(queue, m)
      lost == subscribed /\ Len(queue) = Capacity
  IN /\ queue' = IF subscribed THEN retained(q) ELSE queue
     /\ lagged' = (lagged \/ lost)
     /\ overrun' = (overrun \/ lost)

next_message == Head(queue)

rest_of_queue == Tail(queue)

-----------------------------------------------------------------------------
(* Signals *)

\* A signal is sent to the process, between new() and its end.  Until the task
\* that waits for it has seen it, the same signal again makes no difference.
RaiseSignal(s) ==
  /\ stage # "ended" /\ signals < MaxSignals
  /\ signals' = signals + 1
  /\ raised' = [raised EXCEPT ![s] = TRUE]
  /\ UNCHANGED <<mainVars, queue, lagged, overrun, configVars, due, shutdown>>

\* The two tasks of register_signals().  SIGINT is handled like SIGTERM.
ForwardSignal(s) ==
  /\ stage # "ended" /\ raised[s]
  /\ raised' = [raised EXCEPT ![s] = FALSE]
  /\ send(IF s = "SIGTERM" THEN "Shutdown" ELSE "Reload")
  /\ UNCHANGED <<mainVars, signals, configVars, due, shutdown>>

-----------------------------------------------------------------------------
(* Reloading the configuration: ConfigLoader::load, then the two places     *)
(* that hold the configuration, one after the other.                        *)

SetReload(t, step, v) == reload' = [reload EXCEPT ![t] = [step |-> step, version |-> v]]

\* The main task reports the end of its reload, failed or not.
ReloadDone(t) ==
  /\ reload' = [reload EXCEPT ![t] = NoReload]
  /\ IF t = "main" THEN stage' = "select" /\ state' = "Running" /\ told' = "READY"
     ELSE UNCHANGED mainVars

\* Mutant: a file that is refused is an early return.
LoadConfig_early_return(t) ==
  /\ stage # "ended" /\ reload[t].step = "load"
  /\ IF file \in Invalid
     THEN /\ reload' = [reload EXCEPT ![t] = NoReload]
          /\ stage' = "select" /\ UNCHANGED <<state, told>>
     ELSE SetReload(t, "store", file) /\ UNCHANGED mainVars
  /\ UNCHANGED <<signalVars, file, config, applied, due, shutdown>>

\* Mutant: the loader does not validate.
LoadConfig_unchecked(t) ==
  /\ stage # "ended" /\ reload[t].step = "load"
  /\ SetReload(t, "store", file)
  /\ UNCHANGED <<mainVars, signalVars, file, config, applied, due, shutdown>>

\* ConfigLoader::new() loads the file, and load() loads it again: a refusal of
\* either is an error, and the second content is the one that is used.
LoadConfig(t) ==
  /\ stage # "ended" /\ reload[t].step = "load"
  /\ IF file \in Invalid THEN ReloadDone(t)
     ELSE SetReload(t, "store", file) /\ UNCHANGED mainVars
  /\ UNCHANGED <<signalVars, file, config, applied, due, shutdown>>

StoreConfig(t) ==
  /\ stage # "ended" /\ reload[t].step = "store"
  /\ config' = reload[t].version
  /\ SetReload(t, "update", reload[t].version)
  /\ UNCHANGED <<mainVars, signalVars, file, applied, due, shutdown>>

\* Mutant: the dispatcher keeps its configuration.
UpdateConfig_forgotten(t) ==
  /\ stage # "ended" /\ reload[t].step = "update"
  /\ ReloadDone(t)
  /\ UNCHANGED <<signalVars, file, config, applied, due, shutdown>>

\* dispatcher.update_config()
UpdateConfig(t) ==
  /\ stage # "ended" /\ reload[t].step = "update"
  /\ applied' = reload[t].version
  /\ ReloadDone(t)
  /\ UNCHANGED <<signalVars, file, config, due, shutdown>>

-----------------------------------------------------------------------------
(* The main task *)

\* get_watchdog_interval(): three quarters of the time systemd allows, in whole
\* milliseconds; 0 disables it.
watchdog_interval_ms == ((WatchdogUsec \div 1000) * 3) \div 4

is_watchdog_enabled == watchdog_interval_ms > 0

\* init() has succeeded, and run() begins: a start is told like a reload.
BeginRun ==
  /\ stage = "starting" /\ stage' = "applying"
  /\ state' = "Running" /\ told' = "RELOADING"
  /\ UNCHANGED <<signalVars, configVars, due, shutdown>>

\* apply_initial_routes() has returned.
StartDaemon ==
  /\ stage = "applying" /\ stage' = "ready"
  /\ told' = "READY"
  /\ UNCHANGED <<state, signalVars, configVars, due, shutdown>>

\* An error of init() or of apply_initial_routes() ends the process.
StartFails ==
  /\ stage \in {"starting", "applying"} /\ stage' = "ended"
  /\ UNCHANGED <<state, told, signalVars, configVars, due, shutdown>>

\* main_loop() subscribes to the signals: it sees those sent from now on.  The
\* first tick of the watchdog's interval is immediate.
EnterLoop ==
  /\ stage = "ready" /\ stage' = "select"
  /\ due' = is_watchdog_enabled
  /\ UNCHANGED <<state, told, signalVars, configVars, shutdown>>

\* recv() reports that messages were lost; the loop only logs it.
ReceiveLagged ==
  /\ stage = "select" /\ lagged
  /\ lagged' = FALSE
  /\ UNCHANGED <<mainVars, raised, queue, overrun, signals, configVars, due, shutdown>>

\* A shutdown breaks the loop, and run() stops the dispatcher.
ReceiveShutdown ==
  /\ stage = "select" /\ ~lagged
  /\ queue # <<>> /\ next_message = "Shutdown"
  /\ queue' = rest_of_queue
  /\ shutdown' = TRUE
  /\ stage' = "stopping" /\ state' = "Stopping" /\ told' = "STOPPING"
  /\ UNCHANGED <<raised, lagged, overrun, signals, configVars, due>>

\* The dispatcher has stopped, and run() returns.
FinishStop ==
  /\ stage = "stopping" /\ stage' = "ended"
  /\ state' = "Stopped"
  /\ UNCHANGED <<told, signalVars, configVars, due, shutdown>>

\* reload_configuration() runs to its end before the loop goes on.
ReceiveReload ==
  /\ stage = "select" /\ ~lagged
  /\ queue # <<>> /\ next_message = "Reload"
  /\ queue' = rest_of_queue
  /\ stage' = "reloading" /\ state' = "Reloading" /\ told' = "RELOADING"
  /\ SetReload("main", "load", 0)
  /\ UNCHANGED <<raised, lagged, overrun, signals, file, config, applied, due, shutdown>>

Receive == ReceiveLagged \/ ReceiveShutdown \/ ReceiveReload

\* The network_poll_interval ticks, and the loop awaits poll_network_changes().
BeginPoll ==
  /\ stage = "select" /\ stage' = "polling"
  /\ UNCHANGED <<state, told, signalVars, configVars, due, shutdown>>

\* Mutant: the poll has a loop of its own.
EndPoll_again == stage = "polling" /\ UNCHANGED vars

EndPoll ==
  /\ stage = "polling" /\ stage' = "select"
  /\ UNCHANGED <<state, told, signalVars, configVars, due, shutdown>>

-----------------------------------------------------------------------------
(* The watchdog *)

WatchdogTick ==
  /\ is_watchdog_enabled /\ subscribed /\ ~due
  /\ due' = TRUE
  /\ UNCHANGED <<mainVars, signalVars, configVars, shutdown>>

\* watchdog_keepalive(), a branch of the loop's select! like the others.
Keepalive ==
  /\ stage = "select" /\ due
  /\ due' = FALSE
  /\ UNCHANGED <<mainVars, signalVars, configVars, shutdown>>

-----------------------------------------------------------------------------
(* The user *)

EditFile ==
  /\ file < MaxEdits /\ file' = file + 1
  /\ UNCHANGED <<mainVars, signalVars, config, applied, reload, due, shutdown>>

\* ControlState::request_shutdown()
ControlShutdown ==
  /\ stage # "ended"
  /\ shutdown' = TRUE
  /\ UNCHANGED <<mainVars, signalVars, configVars, due>>

\* ControlState::reload_config(), in the task of a connection.
ControlReload(c) ==
  /\ stage # "ended"
  /\ reload[c].step = "none"
  /\ SetReload(c, "load", 0)
  /\ UNCHANGED <<mainVars, signalVars, file, config, applied, due, shutdown>>

\* new() has loaded the configuration and registered the signals.
Init ==
  /\ stage = "starting" /\ state = "Initializing" /\ told = "nothing"
  /\ raised = [s \in Signals |-> FALSE]
  /\ queue = <<>> /\ lagged = FALSE /\ overrun = FALSE
  /\ due = FALSE /\ shutdown = FALSE
  /\ file = 0 /\ config = 0 /\ applied = 0
  /\ reload = [t \in Tasks |-> NoReload]
  /\ signals = 0

ReloadStep(t) == LoadConfig(t) \/ StoreConfig(t) \/ UpdateConfig(t)

\* The process has ended.
Ended == stage = "ended" /\ UNCHANGED vars

\* The main task, but for its reloads, and what it reacts to.
MainStep ==
  \/ BeginRun \/ StartDaemon \/ StartFails \/ EnterLoop \/ FinishStop
  \/ Receive \/ BeginPoll \/ EndPoll
  \/ WatchdogTick \/ Keepalive
  \/ ReloadStep("main")

WorldStep ==
  \/ \E s \in Signals : RaiseSignal(s) \/ ForwardSignal(s)
  \/ EditFile

Next == MainStep \/ WorldStep \/ Ended

\* Tasks run, and handlers return.  A loop that polls again and again still
\* reads a message in the end: select! picks a ready branch at random.
Fairness ==
  /\ \A s \in Signals : WF_vars(ForwardSignal(s))
  /\ \A t \in Tasks : WF_vars(ReloadStep(t))
  /\ WF_vars(BeginRun \/ StartDaemon \/ StartFails)
  /\ WF_vars(EnterLoop)
  /\ WF_vars(EndPoll) /\ WF_vars(FinishStop)
  /\ SF_vars(Receive) /\ SF_vars(Keepalive)

Spec == Init /\ [][Next]_vars /\ Fairness

-----------------------------------------------------------------------------
(* Properties *)

\* Whenever the loop waits for something, systemd has been told READY and the
\* state is Running, after a failed reload too; while it reloads both say so, and
\* no other task changes that; STOPPING is told when the daemon stops in order and
\* at no other time, and READY only while it runs, not when its start fails.
ToldTruth ==
  /\ stage \in {"select", "polling"} => state = "Running" /\ told = "READY"
  /\ stage = "reloading" => state = "Reloading" /\ told = "RELOADING"
  /\ told = "STOPPING" <=> stage = "stopping" \/ (stage = "ended" /\ state = "Stopped")
  /\ told = "READY" => state = "Running"

\* The service and its dispatcher agree on the configuration whenever no reload
\* is under way.
ConfigsAgree == (\A t \in Tasks : reload[t].step = "none") => config = applied

\* The dispatcher never goes back to an older content of the file, and never
\* uses one the loader refused.
ConfigForward == [][applied' >= applied /\ applied' \notin Invalid]_vars

\* A shutdown that has reached the loop's receiver stops the daemon, unless the
\* channel overflows: no poll and no reload can keep it from stopping.
QueuedShutdownStops ==
  "Shutdown" \in ToSet(queue) ~> stage = "ended" \/ overrun

\* A reload that has reached the loop's receiver brings in what the file says,
\* unless the file changes again, is refused, the channel overflows, or the
\* daemon stops first.
QueuedReloadApplies ==
  \A v \in 0 .. MaxEdits \ Invalid :
    "Reload" \in ToSet(queue) /\ file = v ~>
      applied = v \/ file # v \/ overrun \/ stage = "ended"

\* The watchdog is answered whenever it is due, unless the daemon stops: neither
\* polls nor signals nor reloads keep the loop from it for good.
KeepaliveSent == due ~> ~due \/ stage = "ended"

-----------------------------------------------------------------------------
(* Claims of the documents that the code does not meet *)

\* DMN-02: a shutdown signal stops the daemon.
TermStops == raised["SIGTERM"] ~> stage = "ended"

\* CLI-06: the shutdown command stops the daemon (ControlServer).
ControlStops == shutdown ~> stage = "ended"
===============================================================================
