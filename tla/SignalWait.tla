------------------------------- MODULE SignalWait -------------------------------
(***************************************************************************)
(* The calls of SignalHandler (src/daemon/signals.rs) by which a program   *)
(* waits for a signal: wait_shutdown(), wait_reload() and ShutdownFuture.  *)
(* Each has a receiver of its own on the one broadcast channel that the    *)
(* signal tasks send to; the two receivers of the handler exist from new() *)
(* on, that of a future from its creation.  The channel keeps the last     *)
(* Capacity messages, and a receiver that falls behind is told once and    *)
(* goes on with the oldest message kept.                                   *)
(*                                                                         *)
(* The daemon's main loop subscribes by itself (Daemon) and uses none of   *)
(* them.  Both waits borrow the handler mutably, so that at most one is    *)
(* under way; a caller may drop it, as a time limit does.  The channel is  *)
(* never closed: the handler and the tasks keep its sender.                *)
(***************************************************************************)
EXTENDS Naturals, SequencesExt, TLAPS

CONSTANTS
  Capacity,  \* messages the channel keeps (16)
  Futures,   \* values of ShutdownFuture
  MaxSent    \* bound: signals that arrive

ASSUME SignalAssumption ==
  /\ Capacity \in Nat \ {0} /\ MaxSent \in Nat
  /\ Futures \cap {"shutdown_rx", "reload_rx"} = {}

VARIABLES
  log,     \* history: all messages sent
  at,      \* the place in log of the message each receiver reads next; 0: no receiver
  caller,  \* the receiver of the wait that is under way
  got      \* what each receiver returned, as places in log

signal_vars == <<log, at, caller, got>>

Messages  == {"Shutdown", "Reload"}
Waits     == {"shutdown_rx", "reload_rx"}
Receivers == Waits \cup Futures

\* The oldest message the channel keeps.
oldest == IF Len(log) > Capacity THEN Len(log) - Capacity + 1 ELSE 1

-----------------------------------------------------------------------------
(* Mutants of the definitions below. *)

\* A receiver that lagged subscribes again.
after_lag_newest == Len(log) + 1

\* A receiver that lagged stays where it is.
after_lag_never == 0

-----------------------------------------------------------------------------
(* The channel *)

\* Where a receiver goes on after RecvError::Lagged.
after_lag == oldest

\* The two tasks of register_signals().
Send(m) ==
  /\ Len(log) < MaxSent
  /\ log' = Append(log, m)
  /\ UNCHANGED <<at, caller, got>>

-----------------------------------------------------------------------------
(* The receivers *)

\* What a wait returns; it ignores the rest.  A future takes anything.
wanted(r, m) ==
  CASE r = "shutdown_rx" -> m = "Shutdown"
    [] r = "reload_rx"   -> m = "Reload"
    [] r \in Futures     -> TRUE

\* recv() or try_recv(), and what the loop around it does with the result.
TakeNext(r) ==
  /\ at[r] \in 1 .. Len(log)
  /\ IF at[r] < oldest
     THEN at' = [at EXCEPT ![r] = after_lag] /\ UNCHANGED <<caller, got>>
     ELSE /\ at' = [at EXCEPT ![r] = @ + 1]
          /\ IF wanted(r, log[at[r]])
             THEN /\ got' = [got EXCEPT ![r] = @ \cup {at[r]}]
                  /\ caller' = IF r = caller THEN "none" ELSE caller
             ELSE UNCHANGED <<caller, got>>
  /\ UNCHANGED log

CallWait(r) ==
  /\ caller = "none" /\ caller' = r
  /\ UNCHANGED <<log, at, got>>

\* The wait is dropped before it returns.
DropWait ==
  /\ caller # "none" /\ caller' = "none"
  /\ UNCHANGED <<log, at, got>>

WaitStep(r) == caller = r /\ TakeNext(r)

\* ShutdownFuture::new()
NewFuture(f) ==
  /\ at[f] = 0
  /\ at' = [at EXCEPT ![f] = Len(log) + 1]
  /\ UNCHANGED <<log, caller, got>>

\* ShutdownFuture::poll(); a future is not polled again when it is ready.
PollFuture(f) == got[f] = {} /\ TakeNext(f)

\* SignalHandler::new()
SignalInit ==
  /\ log = <<>>
  /\ at = [r \in Receivers |-> IF r \in Waits THEN 1 ELSE 0]
  /\ caller = "none"
  /\ got = [r \in Receivers |-> {}]

SignalNext ==
  \/ \E m \in Messages : Send(m)
  \/ \E r \in Waits : CallWait(r) \/ WaitStep(r)
  \/ DropWait
  \/ \E f \in Futures : NewFuture(f) \/ PollFuture(f)

\* A task that waits is polled when there is a message.
SignalFairness ==
  /\ \A r \in Waits : WF_signal_vars(WaitStep(r))
  /\ \A f \in Futures : WF_signal_vars(PollFuture(f))

SignalSpec == SignalInit /\ [][SignalNext]_signal_vars /\ SignalFairness

-----------------------------------------------------------------------------
(* Properties *)

\* Neither wait ever passes over a signal of its kind without returning it, unless
\* the channel has overwritten it: not while the other wait is under way or takes
\* the same message, not between two calls, and not when a call is dropped.
NoneSkipped ==
  [][\A r \in Waits : \A k \in at[r] .. at'[r] - 1 :
       wanted(r, log[k]) => k \in got'[r] \/ k < oldest]_signal_vars

\* A wait returns once there is a signal of its kind it has not returned, sent
\* before the call or during it, and a future once any is sent after its creation;
\* a receiver that lagged returns too.
WaitsReturn ==
  /\ \A r \in Waits, k \in 1 .. MaxSent :
       (caller = r /\ k \in at[r] .. Len(log) /\ wanted(r, log[k])) ~>
         caller # r \/ k < oldest
  /\ \A f \in Futures :
       at[f] \in 1 .. Len(log) ~> got[f] # {}

-----------------------------------------------------------------------------
(* Proofs *)

SignalTypeOK ==
  /\ log \in Seq(Messages)
  /\ at \in [Receivers -> Nat]
  /\ got \in [Receivers -> SUBSET Nat]

LEMMA OldestType ==
  ASSUME SignalTypeOK
  PROVE  oldest \in Nat
  BY SignalAssumption DEF SignalTypeOK, oldest

\* What a receiver takes, or a lag skips, leaves the others alone.
LEMMA TakeNextType ==
  ASSUME SignalTypeOK, NEW r \in Receivers, TakeNext(r)
  PROVE  SignalTypeOK'
<1>1. oldest \in Nat /\ at[r] \in Nat
  BY OldestType DEF SignalTypeOK
<1>2. CASE at[r] < oldest
  BY <1>1, <1>2 DEF TakeNext, SignalTypeOK, after_lag
<1>3. CASE ~(at[r] < oldest)
  <2>1. at' = [at EXCEPT ![r] = @ + 1]
    BY <1>3 DEF TakeNext
  <2>2. got' = got \/ got' = [got EXCEPT ![r] = @ \cup {at[r]}]
    BY <1>3 DEF TakeNext
  <2> QED
    BY <1>1, <2>1, <2>2 DEF TakeNext, SignalTypeOK
<1> QED
  BY <1>2, <1>3

LEMMA SignalStepType ==
  ASSUME SignalTypeOK, [SignalNext]_signal_vars
  PROVE  SignalTypeOK'
<1>1. ASSUME NEW m \in Messages, Send(m) PROVE SignalTypeOK'
  BY <1>1 DEF Send, SignalTypeOK
<1>2. ASSUME NEW r \in Waits, CallWait(r) \/ WaitStep(r) PROVE SignalTypeOK'
  BY <1>2, TakeNextType DEF CallWait, WaitStep, SignalTypeOK, Receivers
<1>3. CASE DropWait
  BY <1>3 DEF DropWait, SignalTypeOK
<1>4. ASSUME NEW f \in Futures, NewFuture(f) PROVE SignalTypeOK'
  <2>1. Len(log) + 1 \in Nat
    BY DEF SignalTypeOK
  <2>2. at' \in [Receivers -> Nat]
    BY <1>4, <2>1 DEF NewFuture, SignalTypeOK
  <2> QED
    BY <1>4, <2>2 DEF NewFuture, SignalTypeOK
<1>5. ASSUME NEW f \in Futures, PollFuture(f) PROVE SignalTypeOK'
  BY <1>5, TakeNextType DEF PollFuture, Receivers
<1>6. CASE UNCHANGED signal_vars
  BY <1>6 DEF signal_vars, SignalTypeOK
<1> QED
  BY <1>1, <1>2, <1>3, <1>4, <1>5, <1>6 DEF SignalNext

THEOREM SignalTypeCorrect == SignalSpec => []SignalTypeOK
<1>1. SignalInit => SignalTypeOK
  BY DEF SignalInit, SignalTypeOK
<1> QED
  BY <1>1, SignalStepType, PTL DEF SignalSpec

\* wait_shutdown() and wait_reload() skip no signal of their kind, for every
\* capacity and any number of signals and futures.
THEOREM WaitsSkipNone == SignalSpec => NoneSkipped
<1> DEFINE Fine(r) == \A k \in at[r] .. at'[r] - 1 :
                        wanted(r, log[k]) => k \in got'[r] \/ k < oldest
<1>1. ASSUME SignalTypeOK, NEW r \in Waits, at'[r] = at[r] PROVE Fine(r)
  BY <1>1 DEF SignalTypeOK, Receivers
<1>2. ASSUME SignalTypeOK, NEW r \in Waits, TakeNext(r) PROVE Fine(r)
  <2>1. oldest \in Nat /\ at[r] \in Nat /\ r \in Receivers
    BY <1>2, OldestType DEF SignalTypeOK, Receivers
  <2>2. CASE at[r] < oldest
    <3>1. at'[r] = oldest
      BY <1>2, <2>1, <2>2 DEF TakeNext, after_lag, SignalTypeOK
    <3> QED
      BY <2>1, <3>1
  <2>3. CASE ~(at[r] < oldest)
    <3>1. at'[r] = at[r] + 1
      BY <1>2, <2>1, <2>3 DEF TakeNext, SignalTypeOK
    <3>2. wanted(r, log[at[r]]) => at[r] \in got'[r]
      BY <1>2, <2>1, <2>3 DEF TakeNext, SignalTypeOK
    <3> QED
      BY <2>1, <3>1, <3>2
  <2> QED
    BY <2>2, <2>3
<1>3. ASSUME SignalTypeOK, NEW q \in Receivers, NEW r \in Waits, TakeNext(q) PROVE Fine(r)
  <2>1. CASE q = r
    BY <1>2, <1>3, <2>1
  <2>2. CASE q # r
    <3>1. at'[r] = at[r]
      BY <1>3, <2>2 DEF TakeNext, SignalTypeOK, Receivers
    <3> QED
      BY <1>1, <1>3, <3>1
  <2> QED
    BY <2>1, <2>2
<1>4. ASSUME SignalTypeOK, NEW f \in Futures, NewFuture(f), NEW r \in Waits PROVE Fine(r)
  <2>1. r # f
    BY SignalAssumption, <1>4 DEF Waits
  <2>2. at'[r] = at[r]
    BY <1>4, <2>1 DEF NewFuture, SignalTypeOK, Receivers
  <2> QED
    BY <1>1, <1>4, <2>2
<1>5. SignalTypeOK /\ [SignalNext]_signal_vars => [\A r \in Waits : Fine(r)]_signal_vars
  <2> SUFFICES ASSUME SignalTypeOK, SignalNext, NEW r \in Waits PROVE Fine(r)
    OBVIOUS
  <2>1. ASSUME NEW m \in Messages, Send(m) PROVE Fine(r)
    BY <1>1, <2>1 DEF Send
  <2>2. ASSUME NEW q \in Waits, CallWait(q) PROVE Fine(r)
    BY <1>1, <2>2 DEF CallWait
  <2>3. ASSUME NEW q \in Waits, WaitStep(q) PROVE Fine(r)
    BY <1>3, <2>3 DEF WaitStep, Receivers
  <2>4. CASE DropWait
    BY <1>1, <2>4 DEF DropWait
  <2>5. ASSUME NEW f \in Futures, NewFuture(f) PROVE Fine(r)
    BY <1>4, <2>5
  <2>6. ASSUME NEW f \in Futures, PollFuture(f) PROVE Fine(r)
    BY <1>3, <2>6 DEF PollFuture, Receivers
  <2> QED
    BY <2>1, <2>2, <2>3, <2>4, <2>5, <2>6 DEF SignalNext
<1> QED
  BY <1>5, SignalTypeCorrect, PTL DEF SignalSpec, NoneSkipped
===============================================================================
