-------------------------------- MODULE Relay --------------------------------
(***************************************************************************)
(* The hub of module Hub and one agent of module Agent that dials it again *)
(* and again, over connections that may be lost.                           *)
(***************************************************************************)
EXTENDS Hub

CONSTANT MaxSignals  \* bound: how often the user interrupts

ASSUME RelayAssumption == MaxSignals \in Nat

VARIABLES phase, current, signal, signals, reading, nread,
          running, received, failed

A == INSTANCE Agent WITH Conns <- Tunnels, Webhooks <- Requests, NoConn <- NoClient

agentVars == <<phase, current, signal, signals, reading, nread,
               running, received, failed>>
relayVars == <<vars, agentVars>>

RelayInit == Init /\ A!AgentInit

-----------------------------------------------------------------------------
(* Steps of both sides *)

\* The handshake: Dial returns once ServeWS has upgraded the connection.
Dial(c) == ServeWS(c) /\ A!Dialed(c)

\* Mutant: connectAndListen forgets to close the connection.
CloseForgotten == UNCHANGED vars

\* The deferred conn.Close ends the connection for the hub, if it still stands.
Close == IF conn[current] = "open" THEN PeerLost(current) ELSE UNCHANGED vars

\* connectAndListen returns.
Leave == (A!ConnectionLost \/ A!Interrupted) /\ Close

\* Frames arrive in order.  What the reader finds buffered after the end of
\* the connection it may still read.
Receive(c) ==
  /\ nread[c] < Len(wire[c])
  /\ A!ReadFrame(c, wire[c][nread[c] + 1])
  /\ UNCHANGED vars

\* A read fails only when one of the sides or the network ended the
\* connection; frames under way may be lost with it.
ReceiveFails(c) ==
  /\ conn[c] # "open"
  /\ A!ReadFails(c)
  /\ UNCHANGED vars

\* The process ends: the system closes what sockets it has left.
AgentStops == A!Stop /\ UNCHANGED vars

AgentAlone ==
  /\ A!Interrupt \/ A!DialFails \/ A!Reconnect \/ \E r \in Requests : A!ForwardLocally(r)
  /\ UNCHANGED vars

-----------------------------------------------------------------------------
(* The hub's own steps *)

HubStep(c) ==
  \/ c \in Dashboards /\ ServeWS(c)
  \/ PeerLost(c) \/ RunStep(c) \/ ReadPump(c) \/ WritePump(c)

HubAlone ==
  /\ \/ \E c \in Clients : HubStep(c)
     \/ TakeBroadcast \/ BroadcastEvent
     \/ \E r \in Requests : ForwardLookup(r) \/ ForwardSend(r)
  /\ UNCHANGED agentVars

\* The agent was stopped and the hub has finished with its connections.
RelayTerminated ==
  /\ phase = "stopped"
  /\ \A c \in Clients : reader[c] \in {"new", "done"} /\ writer[c] \in {"off", "done"}
  /\ \A r \in Requests : call[r] \notin {"idle", "found"}
  /\ UNCHANGED relayVars

RelayNext ==
  \/ HubAlone
  \/ AgentAlone
  \/ \E c \in Tunnels : Dial(c) \/ Receive(c) \/ ReceiveFails(c)
  \/ Leave
  \/ AgentStops
  \/ RelayTerminated

RelaySpec == RelayInit /\ [][RelayNext]_relayVars

\* The goroutines of the agent run, like those of the hub; nothing obliges the
\* user to press Ctrl+C, the network to fail or a dial to succeed.
RelayFairness ==
  /\ Fairness
  /\ WF_relayVars(Leave)
  /\ WF_relayVars((A!Reconnect /\ UNCHANGED vars) \/ AgentStops)
  /\ WF_relayVars((A!DialFails /\ UNCHANGED vars) \/ \E c \in Tunnels : Dial(c))
  /\ \A c \in Tunnels : WF_relayVars(Receive(c) \/ ReceiveFails(c))
  /\ \A r \in Requests : WF_relayVars(A!ForwardLocally(r) /\ UNCHANGED vars)

FairRelaySpec == RelaySpec /\ RelayFairness

=============================================================================
