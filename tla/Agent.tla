-------------------------------- MODULE Agent --------------------------------
(***************************************************************************)
(* The tunnel agent behind `zerodrop listen`: internal/tunnel/agent.go.    *)
(*                                                                         *)
(* Start loops over connectAndListen and a pause of three seconds.  Each   *)
(* connection has a read goroutine, which hands every webhook to a         *)
(* goroutine of its own that posts it to the local application.  Signals   *)
(* wait in a channel of one slot.  The socket is whatever the module that  *)
(* instantiates this one makes of it: it passes in frames and the facts    *)
(* whether a connection is established and whether it still stands.        *)
(***************************************************************************)
EXTENDS Naturals, Sequences

CONSTANTS
  Conns,          \* the connections the agent may dial, one per call of Dial
  Webhooks,       \* the webhooks that may be relayed
  NoConn,         \* no connection
  MaxSignals      \* bound: how often the user interrupts

VARIABLES
  phase,          \* where Start stands: "dial", "listen", "pause", "stopped"
  current,        \* the connection that connectAndListen holds
  signal,         \* an interrupt waits in the channel
  signals,        \* how many interrupts there were
  reading,        \* connections whose read goroutine runs
  nread,          \* nread[c]: how many frames of c it has read
  running,        \* webhooks some forwardLocally goroutine is posting
  received,       \* the webhooks the local application got, oldest first
  failed          \* the webhooks it refused or could not be reached for

AgentTypeOK ==
  /\ phase \in {"dial", "listen", "pause", "stopped"}
  /\ current \in Conns \union {NoConn}
  /\ phase = "listen" => current \in Conns
  /\ signal \in BOOLEAN
  /\ signals \in 0 .. MaxSignals
  /\ reading \subseteq Conns
  /\ nread \in [Conns -> Nat]
  /\ running \subseteq Webhooks
  /\ received \in Seq(Webhooks)
  /\ failed \subseteq Webhooks

AgentInit ==
  /\ phase = "dial"
  /\ current = NoConn
  /\ signal = FALSE
  /\ signals = 0
  /\ reading = {}
  /\ nread = [c \in Conns |-> 0]
  /\ running = {}
  /\ received = <<>>
  /\ failed = {}

-----------------------------------------------------------------------------
(* Start and connectAndListen *)

\* The user presses Ctrl+C or the system sends SIGTERM; one signal waits at
\* most, the others are dropped.
Interrupt ==
  /\ phase # "stopped" /\ signals < MaxSignals
  /\ signals' = signals + 1
  /\ signal' = TRUE
  /\ UNCHANGED <<phase, current, reading, nread, running, received, failed>>

\* Dial established connection c: start its read goroutine and wait.
Dialed(c) ==
  /\ phase = "dial"
  /\ phase' = "listen"
  /\ current' = c
  /\ reading' = reading \union {c}
  /\ UNCHANGED <<signal, signals, nread, running, received, failed>>

DialFails ==
  /\ phase = "dial"
  /\ phase' = "pause"
  /\ UNCHANGED <<current, signal, signals, reading, nread, running, received, failed>>

\* <-done: the read goroutine has ended.
ConnectionLost ==
  /\ phase = "listen" /\ current \notin reading
  /\ phase' = "pause"
  /\ current' = NoConn
  /\ UNCHANGED <<signal, signals, reading, nread, running, received, failed>>

\* <-interrupt: takes the signal and returns to Start.
Interrupted ==
  /\ phase = "listen" /\ signal
  /\ signal' = FALSE
  /\ phase' = "pause"
  /\ current' = NoConn
  /\ UNCHANGED <<signals, reading, nread, running, received, failed>>

\* Start finds a signal in its own select: the process ends.
Stop ==
  /\ phase = "pause" /\ signal
  /\ signal' = FALSE
  /\ phase' = "stopped"
  /\ reading' = {}
  /\ running' = {}
  /\ UNCHANGED <<current, signals, nread, received, failed>>

\* The three seconds are over, and no signal has come: a signal that waits is
\* taken at once, one that comes with the timer may count as coming after it.
Reconnect ==
  /\ phase = "pause" /\ ~signal
  /\ phase' = "dial"
  /\ UNCHANGED <<current, signal, signals, reading, nread, running, received, failed>>

-----------------------------------------------------------------------------
(* The read goroutine and forwardLocally *)

\* A frame is one JSON value or it is skipped; a batch is several values.
Parses(frame) == Len(frame) = 1

\* Mutant: reads a frame and stays where it is.
AdvanceNot(c) == nread

Advance(c) == [nread EXCEPT ![c] = @ + 1]

ReadFrame(c, frame) ==
  /\ c \in reading
  /\ nread' = Advance(c)
  /\ running' = IF Parses(frame) THEN running \union {frame[1]} ELSE running
  /\ UNCHANGED <<phase, current, signal, signals, reading, received, failed>>

\* ReadMessage fails: the goroutine closes done and ends.
ReadFails(c) ==
  /\ c \in reading
  /\ reading' = reading \ {c}
  /\ UNCHANGED <<phase, current, signal, signals, nread, running, received, failed>>

\* The local application answers, or there is an error or a timeout.
ForwardLocally(r) ==
  /\ r \in running
  /\ running' = running \ {r}
  /\ \/ received' = Append(received, r) /\ UNCHANGED failed
     \/ failed' = failed \union {r} /\ UNCHANGED received
  /\ UNCHANGED <<phase, current, signal, signals, reading, nread>>

=============================================================================
