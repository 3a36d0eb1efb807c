------------------------------ MODULE ControlServer ------------------------------
(***************************************************************************)
(* The control server (src/daemon/control.rs) in the process of the daemon *)
(* (Daemon), and the command line clients that talk to it                  *)
(* (src/cli/client.rs): start() and stop(), the socket file, connections   *)
(* with their time limit, and the commands with what they do to the        *)
(* daemon.  A client runs one command at a time over a connection of its   *)
(* own, so Connections names both.                                         *)
(*                                                                         *)
(* main() does not start a server; here it runs as the tests run it, in a  *)
(* task beside DaemonService, and any task may call start() and stop().    *)
(***************************************************************************)
EXTENDS Daemon

CONSTANTS
  Servers,   \* values of ControlServer, all with the same socket_path
  Foreign,   \* clients that run as another user, not root, or whose user is unknown
  Careless   \* may a server be started while another runs, or once more?

ASSUME ControlAssumption ==
  /\ Foreign \subseteq Connections
  /\ Servers \cap {"none", "stale"} = {}
  /\ Careless \in BOOLEAN

VARIABLES
  phase,    \* where each server's start() is
  flag,     \* ControlServer.shutdown
  permit,   \* ControlServer.shutdown_notify: the permit of a notify_one()
  socket,   \* the socket file: bound by a server, left without one, or none
  failed,   \* history: has a start(), or the removal of the file, failed?
  conn,     \* each client's connection
  client,   \* where each client is, its command, the file's version when it was sent
  outcome   \* how each client's last command ended: its exit status

serverVars  == <<phase, flag, permit, socket, failed>>
clientVars  == <<client, outcome>>
daemonVars  == vars
controlVars == <<daemonVars, serverVars, conn, clientVars>>

\* "query" is status or list_routes.  The client sends nothing but commands.
Commands == {"query", "reload", "shutdown"}

\* A connection: what the server does with it, which server, the line that was
\* sent and not read, and the answer.
NoConn == [step |-> "none", at |-> "none", line |-> "none", answer |-> "none"]
Idle   == [pc |-> "idle", command |-> "none", asked |-> 0]

Phases == {"off", "starting", "binding", "bound", "listening", "removing", "returned"}

ServerTypeOK ==
  /\ phase \in [Servers -> Phases]
  /\ failed \in BOOLEAN
  /\ {flag, permit} \subseteq [Servers -> BOOLEAN]
  /\ socket \in Servers \cup {"none", "stale"}
  /\ \A c \in Connections :
       /\ conn[c].step \in {"none", "backlog", "serving", "reloading", "answered", "closed"}
       /\ conn[c].at \in Servers \cup {"none"} /\ conn[c].line \in Commands \cup {"none"}
       /\ conn[c].answer \in {"none", "data", "ok", "error"}
       /\ client[c].pc \in {"idle", "connected", "sent"}
       /\ client[c].pc = "connected" => conn[c].line = "none"
       /\ stage # "ended" => (reload[c].step # "none" <=> conn[c].step = "reloading")

-----------------------------------------------------------------------------
(* The server: start() and stop() *)

SetConn(c, r) == conn' = [conn EXCEPT ![c] = r]

GoTo(s, p) == phase' = [phase EXCEPT ![s] = p]

Running(s) == phase[s] \notin {"off", "returned"}

MayStart(s) ==
  \/ phase[s] = "off" /\ ~\E r \in Servers : Running(r)
  \/ Careless /\ ~Running(s)

\* A listener is dropped, and the connections it did not accept end.
CloseBacklog(s) ==
  conn' = [c \in Connections |->
             IF conn[c].step = "backlog" /\ conn[c].at = s
             THEN [NoConn EXCEPT !.step = "closed"] ELSE conn[c]]

\* What is left of the file of a server whose listener is dropped.
LeftBy(s) == IF socket = s THEN "stale" ELSE socket

Start(s) ==
  /\ stage # "ended" /\ MayStart(s)
  /\ GoTo(s, "starting")
  /\ UNCHANGED <<daemonVars, flag, permit, socket, failed, conn, clientVars>>

\* The directory is made, and whatever is in the socket's place is removed.  Either
\* may fail, which is start()'s error; that the file cannot be looked at counts as
\* its absence.
PrepareSocket(s) ==
  /\ phase[s] = "starting"
  /\ \/ GoTo(s, "binding") /\ socket' = "none" /\ UNCHANGED failed
     \/ GoTo(s, "binding") /\ failed' = TRUE /\ UNCHANGED socket
     \/ GoTo(s, "returned") /\ failed' = TRUE /\ UNCHANGED socket
  /\ UNCHANGED <<daemonVars, flag, permit, conn, clientVars>>

\* The path must be free, and bind() may fail all the same.
Bind(s) ==
  /\ phase[s] = "binding"
  /\ \/ /\ socket = "none"
        /\ GoTo(s, "bound") /\ socket' = s /\ UNCHANGED failed
     \/ GoTo(s, "returned") /\ failed' = TRUE /\ UNCHANGED socket
  /\ UNCHANGED <<daemonVars, flag, permit, conn, clientVars>>

\* The permissions are set at the path, whoever's file is there.  An error ends
\* start(), which drops the listener and leaves its file.
SetPermissions(s) ==
  /\ phase[s] = "bound"
  /\ \/ /\ socket # "none"
        /\ GoTo(s, "listening") /\ UNCHANGED <<socket, failed, conn>>
     \/ GoTo(s, "returned") /\ failed' = TRUE /\ socket' = LeftBy(s) /\ CloseBacklog(s)
  /\ UNCHANGED <<daemonVars, flag, permit, clientVars>>

\* check_peer_cred(), on every platform
check_peer_cred(c) == c \notin Foreign

\* The end of a round of the loop
LookAtFlag(s) == GoTo(s, IF flag[s] THEN "removing" ELSE "listening")

\* A connection of another user is dropped and the loop continues without looking
\* at the flag; any other gets a task of its own.
Accept(s, c) ==
  /\ phase[s] = "listening"
  /\ conn[c].step = "backlog" /\ conn[c].at = s
  /\ IF ~check_peer_cred(c)
     THEN SetConn(c, [NoConn EXCEPT !.step = "closed"]) /\ UNCHANGED phase
     ELSE SetConn(c, [conn[c] EXCEPT !.step = "serving"]) /\ LookAtFlag(s)
  /\ UNCHANGED <<daemonVars, flag, permit, socket, failed, clientVars>>

\* accept() fails, which is only logged.
AcceptFails(s) ==
  /\ phase[s] = "listening"
  /\ LookAtFlag(s)
  /\ UNCHANGED <<daemonVars, flag, permit, socket, failed, conn, clientVars>>

\* Mutant: start() returns from the select without the cleanup after the loop.
Notified_returns(s) ==
  /\ phase[s] = "listening" /\ permit[s]
  /\ permit' = [permit EXCEPT ![s] = FALSE]
  /\ GoTo(s, "returned")
  /\ UNCHANGED <<daemonVars, flag, socket, failed, conn, clientVars>>

Notified(s) ==
  /\ phase[s] = "listening" /\ permit[s]
  /\ permit' = [permit EXCEPT ![s] = FALSE]
  /\ GoTo(s, "removing")
  /\ UNCHANGED <<daemonVars, flag, socket, failed, conn, clientVars>>

\* After the loop: the file at the path is removed, whoever bound it, unless that
\* fails, which nobody looks at; and the listener is dropped.
RemoveSocket(s) ==
  /\ phase[s] = "removing"
  /\ GoTo(s, "returned")
  /\ \/ socket' = "none" /\ UNCHANGED failed
     \/ socket' = LeftBy(s) /\ failed' = TRUE
  /\ CloseBacklog(s)
  /\ UNCHANGED <<daemonVars, flag, permit, clientVars>>

\* Mutant: the flag is set and nobody is woken.
Stop_silent(s) ==
  /\ stage # "ended" /\ ~flag[s]
  /\ flag' = [flag EXCEPT ![s] = TRUE]
  /\ UNCHANGED <<daemonVars, phase, permit, socket, failed, conn, clientVars>>

\* stop(), called at any time, before start() and after it as well.
Stop(s) ==
  /\ stage # "ended"
  /\ flag' = [flag EXCEPT ![s] = TRUE]
  /\ permit' = [permit EXCEPT ![s] = TRUE]
  /\ UNCHANGED <<daemonVars, phase, socket, failed, conn, clientVars>>

-----------------------------------------------------------------------------
(* The task of a connection: handle_connection() under its time limit *)

\* The answer is written; if the client has gone, the write fails.
Reply(c, answer) ==
  SetConn(c, IF client[c].pc = "sent" THEN [NoConn EXCEPT !.step = "answered", !.answer = answer]
             ELSE NoConn)

\* Mutant: a reload is answered when it begins.
ServeLine_early(c) ==
  LET line == conn[c].line IN
  /\ conn[c].step = "serving" /\ line # "none"
  /\ \/ line = "query" /\ Reply(c, "data") /\ UNCHANGED daemonVars
     \/ line = "shutdown" /\ Reply(c, "ok") /\ ControlShutdown
     \/ line = "reload" /\ Reply(c, "ok") /\ ControlReload(c)
  /\ UNCHANGED <<serverVars, clientVars>>

\* A line is read and its command handled.
ServeLine(c) ==
  LET line == conn[c].line IN
  /\ conn[c].step = "serving" /\ line # "none"
  /\ \/ line = "query" /\ Reply(c, "data") /\ UNCHANGED daemonVars
     \/ line = "shutdown" /\ Reply(c, "ok") /\ ControlShutdown
     \/ /\ line = "reload" /\ ControlReload(c)
        /\ SetConn(c, [conn[c] EXCEPT !.step = "reloading", !.line = "none"])
  /\ UNCHANGED <<serverVars, clientVars>>

\* reload_config() goes on, beside the main loop; a refused file is an error.
ServeReload(c) ==
  /\ conn[c].step = "reloading"
  /\ ReloadStep(c)
  /\ IF reload'[c] # NoReload THEN UNCHANGED conn
     ELSE Reply(c, IF reload[c].step = "update" THEN "ok" ELSE "error")
  /\ UNCHANGED <<serverVars, clientVars>>

\* Mutant: the limit cuts a connection whose line has come.
TimeLimit_always(c) ==
  /\ conn[c].step = "serving"
  /\ SetConn(c, [NoConn EXCEPT !.step = "closed"])
  /\ UNCHANGED <<daemonVars, serverVars, clientVars>>

\* The limit ends a task that waits for a line, and nothing else: handling one
\* does not await, and the line is read first when both are ready.
TimeLimit(c) ==
  /\ conn[c].step = "serving" /\ conn[c].line = "none"
  /\ SetConn(c, [NoConn EXCEPT !.step = "closed"])
  /\ UNCHANGED <<daemonVars, serverVars, clientVars>>

-----------------------------------------------------------------------------
(* The client: send_command() *)

Finish(c, how) ==
  /\ client' = [client EXCEPT ![c] = Idle]
  /\ outcome' = [outcome EXCEPT ![c] = how]

\* connect() succeeds when a listener has the file, accepted or not.
Connect(c, command) ==
  /\ client[c].pc = "idle" /\ conn[c] = NoConn
  /\ IF socket \in Servers
     THEN /\ SetConn(c, [NoConn EXCEPT !.step = "backlog", !.at = socket])
          /\ client' = [client EXCEPT ![c] = [pc |-> "connected", command |-> command, asked |-> 0]]
          /\ outcome' = [outcome EXCEPT ![c] = "none"]
     ELSE Finish(c, "failed") /\ UNCHANGED conn
  /\ UNCHANGED <<daemonVars, serverVars>>

Send(c) ==
  /\ client[c].pc = "connected"
  /\ IF conn[c].step = "closed" THEN SetConn(c, NoConn) /\ Finish(c, "failed")
     ELSE /\ SetConn(c, [conn[c] EXCEPT !.line = client[c].command])
          /\ client' = [client EXCEPT ![c].pc = "sent", ![c].asked = file]
          /\ UNCHANGED outcome
  /\ UNCHANGED <<daemonVars, serverVars>>

\* The answer is read, or the end of the connection, which is no answer; the client
\* leaves.  Data is printed; an answer without data is taken as null, which is not
\* the String that reload_config() and shutdown() return.
ReadAnswer(c) ==
  /\ client[c].pc = "sent" /\ conn[c].step \in {"answered", "closed"}
  /\ Finish(c, IF conn[c].answer = "data" THEN "done" ELSE "failed")
  /\ SetConn(c, NoConn)
  /\ UNCHANGED <<daemonVars, serverVars>>

\* The read times out.  The server may still read the line.
ReadTimesOut(c) ==
  /\ client[c].pc = "sent" /\ conn[c].step \in {"backlog", "serving", "reloading"}
  /\ Finish(c, "failed")
  /\ UNCHANGED <<daemonVars, serverVars, conn>>

\* A connection that ended when its client had left.
Forget(c) ==
  /\ client[c].pc = "idle" /\ conn[c].step = "closed"
  /\ SetConn(c, NoConn)
  /\ UNCHANGED <<daemonVars, serverVars, clientVars>>

-----------------------------------------------------------------------------
(* The process *)

\* The daemon's own steps.  When run() returns, main() drops the runtime with all
\* tasks, and the socket file stays: nobody calls stop().
DaemonStep ==
  /\ MainStep \/ WorldStep
  /\ IF stage' = "ended" /\ stage # "ended"
     THEN /\ phase' = [s \in Servers |-> "returned"]
          /\ socket' = IF socket = "none" THEN "none" ELSE "stale"
          /\ conn' = [c \in Connections |->
                        IF conn[c].step \in {"none", "answered"} THEN conn[c]
                        ELSE [NoConn EXCEPT !.step = "closed"]]
          /\ UNCHANGED <<flag, permit, failed>>
     ELSE UNCHANGED <<serverVars, conn>>
  /\ UNCHANGED clientVars

\* The socket may be there from a process that was killed.  Nobody but the servers
\* of the daemon touches it.
ControlInit ==
  /\ Init
  /\ phase = [s \in Servers |-> "off"]
  /\ flag = [s \in Servers |-> FALSE] /\ permit = [s \in Servers |-> FALSE]
  /\ socket \in {"none", "stale"} /\ failed = FALSE
  /\ conn = [c \in Connections |-> NoConn]
  /\ client = [c \in Connections |-> Idle]
  /\ outcome = [c \in Connections |-> "none"]

ServerStep(s) ==
  \/ Start(s) \/ PrepareSocket(s) \/ Bind(s) \/ SetPermissions(s)
  \/ AcceptFails(s) \/ Notified(s) \/ RemoveSocket(s) \/ Stop(s)

ConnectionStep(c) ==
  \/ \E s \in Servers : Accept(s, c)
  \/ ServeLine(c) \/ ServeReload(c) \/ TimeLimit(c) \/ Forget(c)

ClientStep(c) ==
  \/ \E command \in Commands : Connect(c, command)
  \/ Send(c) \/ ReadAnswer(c) \/ ReadTimesOut(c)

ControlNext ==
  \/ DaemonStep
  \/ \E s \in Servers : ServerStep(s)
  \/ \E c \in Connections : ConnectionStep(c) \/ ClientStep(c)

\* Tasks run.  A listening server picks a ready branch of its select! at random
\* and the backlog in order, so that neither connections nor the notification
\* wait for good while the other comes again and again.  No client need be fast
\* enough for the time limits, and none fails to be.  The server does not depend
\* on the main task, whose fairness (as in Daemon) is apart.
ControlFairness ==
  /\ \A s \in Servers :
       WF_controlVars(PrepareSocket(s) \/ Bind(s) \/ SetPermissions(s) \/ RemoveSocket(s))
  /\ \A s \in Servers : SF_controlVars(Notified(s))
  /\ \A s \in Servers, c \in Connections : SF_controlVars(Accept(s, c))
  /\ \A c \in Connections : WF_controlVars(ServeLine(c) \/ ServeReload(c))

ControlSpec == ControlInit /\ [][ControlNext]_controlVars /\ ControlFairness

MainFairness ==
  /\ WF_controlVars(DaemonStep /\ (BeginRun \/ StartDaemon \/ StartFails))
  /\ WF_controlVars(DaemonStep /\ EnterLoop)
  /\ WF_controlVars(DaemonStep /\ FinishStop)
  /\ WF_controlVars(DaemonStep /\ EndPoll)
  /\ SF_controlVars(DaemonStep /\ Receive)

FullSpec == ControlSpec /\ MainFairness

-----------------------------------------------------------------------------
(* Properties *)

\* A server that listens is reached at the socket file, however stop() and new
\* connections meet.  Once a start() has returned there is no file but that of a server
\* that runs: neither its own nor what an earlier process left.  This is said of
\* starts and removals that have not failed, in a process that goes on.
SocketFollows ==
  /\ \A s \in Servers : phase[s] \in {"bound", "listening"} => socket = s
  /\ (\E s \in Servers : phase[s] = "returned") /\ ~failed /\ stage # "ended" =>
       socket = "none" \/ \E r \in Servers : Running(r) /\ socket = r

\* DMN-07: a server that is stopped ends, although stop() may have come before
\* start() and clients keep coming, rejected ones too.
StopReturns ==
  \A s \in Servers : Running(s) /\ flag[s] ~> phase[s] = "returned"

\* A client that has sent its command gets an answer or gives up after its own
\* time limit, unless start() returns before it is accepted or the daemon ends.  Once
\* it is accepted neither the server's time limit nor stop() cuts it off.
Served ==
  \A c \in Connections \ Foreign :
    /\ client[c].pc = "sent" ~>
         \/ conn[c].step = "answered"
         \/ client[c].pc = "idle" /\ conn[c].step \in {"backlog", "serving", "reloading"}
         \/ stage = "ended" \/ \E s \in Servers : phase[s] = "returned"
    /\ client[c].pc = "sent" /\ conn[c].step = "serving" ~>
         conn[c].step = "answered" \/ client[c].pc = "idle" \/ stage = "ended"

\* What a client is told is so: "reloaded" when the dispatcher has a configuration
\* no older than the file was at the command, and an error when the file is refused
\* and nothing was changed.
AnswersTrue ==
  [][\A c \in Connections :
       client[c].command = "reload" /\ conn[c].step # "answered" =>
         /\ conn'[c].answer = "ok" => applied' >= client[c].asked /\ applied' \notin Invalid
         /\ conn'[c].answer = "error" => file \in Invalid /\ applied' = applied]_controlVars

-----------------------------------------------------------------------------
(* Claims of the documents that the code does not meet *)

\* CLI-05: the reload command succeeds when the daemon has reloaded.
SuccessReported ==
  [][\A c \in Connections :
       conn[c].answer = "ok" /\ client'[c].pc = "idle" => outcome'[c] = "done"]_controlVars
===============================================================================
