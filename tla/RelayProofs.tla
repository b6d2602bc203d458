----------------------------- MODULE RelayProofs -----------------------------
(***************************************************************************)
(* Theorems about the hub together with an agent, for any number of        *)
(* connections the agent may dial and of dashboards beside it.             *)
(***************************************************************************)
EXTENDS RelayProperties, TunnelProofs

-----------------------------------------------------------------------------
(* The composition is still a hub *)

\* While the agent listens it holds one of its own connections.
Holds == phase = "listen" => current \in Tunnels

\* No step of either side breaks that.
LEMMA HoldsStep == Holds /\ [RelayNext]_relayVars => Holds'
<1> SUFFICES ASSUME Holds, [RelayNext]_relayVars
             PROVE  Holds'
  OBVIOUS
<1> USE DEF Holds
<1>1. ASSUME NEW c \in Tunnels, Dial(c)
      PROVE  Holds'
  BY <1>1 DEF Dial, A!Dialed
<1>2. ASSUME NEW c \in Tunnels, Receive(c) \/ ReceiveFails(c)
      PROVE  Holds'
  BY <1>2 DEF Receive, ReceiveFails, A!ReadFrame, A!ReadFails
<1>3. CASE Leave
  BY <1>3 DEF Leave, A!ConnectionLost, A!Interrupted
<1>4. CASE AgentStops \/ AgentAlone
  BY <1>4 DEF AgentStops, AgentAlone, A!Stop, A!Interrupt, A!DialFails, A!Reconnect,
              A!ForwardLocally
<1>5. CASE HubAlone \/ UNCHANGED relayVars
  BY <1>5 DEF HubAlone, relayVars, agentVars
<1> QED
  BY <1>1, <1>2, <1>3, <1>4, <1>5 DEF RelayNext, RelayTerminated

\* Each step of the composition is a step of the hub or leaves it alone.
LEMMA StepImplementsHub == Holds /\ [RelayNext]_relayVars => [Next]_vars
<1> SUFFICES ASSUME Holds, [RelayNext]_relayVars
             PROVE  [Next]_vars
  OBVIOUS
<1>1. CASE HubAlone
  BY <1>1, HubAssumption DEF HubAlone, HubStep, Next, Dashboards
<1>2. ASSUME NEW c \in Tunnels, Dial(c)
      PROVE  Next
  BY <1>2, HubAssumption DEF Dial, Next
<1>3. CASE Leave
  <2>1. current \in Clients
    BY <1>3, HubAssumption DEF Holds, Leave, A!ConnectionLost, A!Interrupted
  <2> QED
    BY <1>3, <2>1 DEF Leave, Close, Next
<1>4. CASE AgentAlone \/ AgentStops \/ UNCHANGED relayVars
  BY <1>4 DEF AgentAlone, AgentStops, relayVars
<1>5. ASSUME NEW c \in Tunnels, Receive(c) \/ ReceiveFails(c)
      PROVE  UNCHANGED vars
  BY <1>5 DEF Receive, ReceiveFails
<1> QED
  BY <1>1, <1>2, <1>3, <1>4, <1>5 DEF RelayNext, RelayTerminated

\* The hub with an agent at its other end behaves as module Hub lets a hub
\* behave: whatever holds of the hub alone holds here as well.
THEOREM RelayImplementsHub == RelaySpec => Spec
<1>1. RelayInit => Init /\ Holds
  BY DEF RelayInit, Holds, A!AgentInit
<1> QED
  BY <1>1, HoldsStep, StepImplementsHub, PTL DEF RelaySpec, Spec

\* However the agent dials, is interrupted and loses connections, Run does not
\* panic.
THEOREM RelayRunSafe == RelaySpec => []RunNeverPanics
BY RelayImplementsHub, RunSafe, PTL

-----------------------------------------------------------------------------
(* One socket at a time *)

\* The hub does not open a connection to an agent by itself.
LEMMA HubOpensNone ==
  ASSUME TypeOK, HubAlone, NEW c \in Tunnels, conn'[c] = "open"
  PROVE  conn[c] = "open"
<1>0. conn \in [Clients -> {"none", "open", "lost", "closed"}] /\ c \in Clients
  BY HubAssumption DEF TypeOK, PumpsOK
<1>1. CASE UNCHANGED conn
  BY <1>1
<1>2. ASSUME NEW d \in Dashboards, ServeWS(d)
      PROVE  conn[c] = "open"
  BY <1>0, <1>2 DEF ServeWS, Dashboards
<1>3. ASSUME NEW d \in Clients, PeerLost(d) \/ ReadPump(d) \/ WritePump(d)
      PROVE  conn[c] = "open"
  BY <1>0, <1>3
     DEF PeerLost, ReadPump, ReadError, ReadPumpExit, WritePump, TakeMessage, TakeFails,
         CountQueued, DrainOne, Flush, FlushFails, CloseSeen, PingFails, WritePumpExit
<1>4. ASSUME NEW d \in Clients, RunStep(d)
      PROVE  UNCHANGED conn
  BY <1>4 DEF RunStep, RegisterClient, RegisterTunnel, Registered, UnregisterClient,
              UnregisterTunnel, Unregistered, FanOut, pumpVars
<1>5. ASSUME \/ TakeBroadcast \/ BroadcastEvent
             \/ \E r \in Requests : ForwardLookup(r) \/ ForwardSend(r)
      PROVE  UNCHANGED conn
  BY <1>5 DEF TakeBroadcast, BroadcastEvent, ForwardLookup, ForwardSend, pumpVars
<1> QED
  BY <1>1, <1>2, <1>3, <1>4, <1>5 DEF HubAlone, HubStep

\* Every step of either side leaves at most the current connection open.
LEMMA OneSocketStep ==
  TypeOK /\ Holds /\ OneSocket /\ [RelayNext]_relayVars => OneSocket'
<1> SUFFICES ASSUME TypeOK, Holds, OneSocket, [RelayNext]_relayVars
             PROVE  OneSocket'
  OBVIOUS
<1> USE DEF OneSocket
<1>0. conn \in [Clients -> {"none", "open", "lost", "closed"}] /\ Tunnels \subseteq Clients
  BY HubAssumption DEF TypeOK, PumpsOK
<1>1. CASE HubAlone
  BY <1>1, HubOpensNone DEF HubAlone, agentVars
<1>2. ASSUME NEW c \in Tunnels, Dial(c)
      PROVE  OneSocket'
  BY <1>0, <1>2 DEF Dial, ServeWS, A!Dialed
<1>3. CASE Leave
  <2>1. \A c \in Tunnels : conn'[c] # "open"
    BY <1>0, <1>3
       DEF Leave, Close, PeerLost, vars, pumpVars, A!ConnectionLost, A!Interrupted, Holds
  <2> QED
    BY <2>1
<1>4. CASE AgentAlone \/ AgentStops \/ \E c \in Tunnels : Receive(c) \/ ReceiveFails(c)
  BY <1>4 DEF AgentAlone, AgentStops, Receive, ReceiveFails, vars, pumpVars, A!Stop,
              A!Interrupt, A!DialFails, A!Reconnect, A!ForwardLocally, A!ReadFrame,
              A!ReadFails
<1>5. CASE UNCHANGED relayVars
  BY <1>5 DEF relayVars, agentVars, vars, pumpVars
<1> QED
  BY <1>1, <1>2, <1>3, <1>4, <1>5 DEF RelayNext, RelayTerminated

\* The agent leaves no connection open behind itself: not when it pauses, not
\* when it dials again, not when it ends.
THEOREM OneSocketAtATime == RelaySpec => []OneSocket
<1>1. RelayInit => Holds /\ OneSocket
  BY HubAssumption DEF RelayInit, Init, Holds, OneSocket, A!AgentInit
<1>2. RelaySpec => []TypeOK
  BY RelayImplementsHub, Typing, PTL
<1> QED
  BY <1>1, <1>2, HoldsStep, OneSocketStep, PTL DEF RelaySpec

-----------------------------------------------------------------------------
(* From the socket to the local application *)

\* The webhooks in the frames of c that the agent has read.
Fetched(c) == UNION {Elements(wire[c][k]) : k \in 1 .. nread[c]}

\* The agent reads no frame that the hub has not written.
ReadsWritten == \A c \in Tunnels : nread[c] <= Len(wire[c])

\* What the agent posts or has posted came out of a frame it read.
PostsFetched == \A r \in running \union Finished : \E c \in Tunnels : r \in Fetched(c)

\* A webhook is posted by one goroutine at a time and not again afterwards.
PostsOnce == Distinct(received) /\ running \intersect Finished = {}

\* Until the process ends, the webhook of a frame that parses is posted.
ParsedPosted ==
  phase # "stopped" =>
    \A c \in Tunnels : \A k \in 1 .. nread[c] :
      Len(wire[c][k]) = 1 => wire[c][k][1] \in running \union Finished

RelayInv == ReadsWritten /\ PostsFetched /\ PostsOnce /\ ParsedPosted

\* A connection that stands has its WritePump, from its registration on.
OpenHasPump == \A c \in Clients : conn[c] = "open" => writer[c] # "done"

LEMMA OpenHasPumpStep == TypeOK /\ PumpInv /\ OpenHasPump /\ [Next]_vars => OpenHasPump'
<1> SUFFICES ASSUME TypeOK, PumpInv, OpenHasPump, [Next]_vars PROVE OpenHasPump'
  OBVIOUS
<1>0. /\ conn \in [Clients -> {"none", "open", "lost", "closed"}]
      /\ writer \in [Clients -> {"off", "select", "count", "drain", "done"}]
  BY DEF TypeOK, PumpsOK
<1>1. ASSUME NEW c \in Clients, ServeWS(c) PROVE OpenHasPump'
  BY <1>0, <1>1 DEF ServeWS, OpenHasPump, PumpInv
<1>2. ASSUME NEW c \in Clients, PeerLost(c) \/ ReadPump(c) PROVE OpenHasPump'
  BY <1>0, <1>2 DEF PeerLost, ReadPump, ReadError, ReadPumpExit, OpenHasPump
<1>3. ASSUME NEW c \in Clients, WritePump(c) PROVE OpenHasPump'
  BY <1>0, <1>3
     DEF WritePump, TakeMessage, TakeFails, CountQueued, DrainOne, Flush, FlushFails,
         CloseSeen, PingFails, WritePumpExit, OpenHasPump
<1>4. ASSUME NEW c \in Clients, RunStep(c) PROVE OpenHasPump'
  BY <1>0, <1>4
     DEF RunStep, RegisterClient, RegisterTunnel, Registered, UnregisterClient,
         UnregisterTunnel, Unregistered, FanOut, pumpVars, OpenHasPump
<1>5. ASSUME \/ TakeBroadcast \/ BroadcastEvent
             \/ \E r \in Requests : ForwardLookup(r) \/ ForwardSend(r)
             \/ UNCHANGED vars
      PROVE  OpenHasPump'
  BY <1>5 DEF TakeBroadcast, BroadcastEvent, ForwardLookup, ForwardSend, vars, pumpVars,
              OpenHasPump
<1> QED
  BY <1>1, <1>2, <1>3, <1>4, <1>5 DEF Next, Terminated

\* What is on a socket stays there, in its place.
LEMMA WireGrows ==
  ASSUME TypeOK, [Next]_vars, NEW c \in Clients
  PROVE  /\ Len(wire[c]) <= Len(wire'[c])
         /\ \A k \in 1 .. Len(wire[c]) : wire'[c][k] = wire[c][k]
<1>0. /\ wire \in [Clients -> Seq(Seq(Messages))] /\ frame \in [Clients -> Seq(Messages)]
      /\ Len(wire[c]) \in Nat
  BY LenProperties DEF TypeOK, PumpsOK
<1>1. CASE wire'[c] = wire[c]
  BY <1>0, <1>1
<1>2. CASE wire'[c] = Append(wire[c], frame[c])
  <2>1. /\ Len(Append(wire[c], frame[c])) = Len(wire[c]) + 1
        /\ \A k \in 1 .. Len(wire[c]) : Append(wire[c], frame[c])[k] = wire[c][k]
    BY <1>0, AppendProperties
  <2> QED
    BY <1>0, <1>2, <2>1
<1>3. wire' = wire \/ \E d \in Clients : Flush(d)
  BY DEF Next, ServeWS, PeerLost, RunStep, RegisterClient, RegisterTunnel, Registered,
     UnregisterClient, UnregisterTunnel, Unregistered, FanOut, ReadPump, ReadError,
     ReadPumpExit, WritePump, TakeMessage, TakeFails, CountQueued, DrainOne, FlushFails,
     CloseSeen, PingFails, WritePumpExit, TakeBroadcast, BroadcastEvent, ForwardLookup,
     ForwardSend, Terminated, vars, pumpVars
<1>4. ASSUME NEW d \in Clients, Flush(d)
      PROVE  wire'[c] = wire[c] \/ wire'[c] = Append(wire[c], frame[c])
  BY <1>0, <1>4 DEF Flush, Framed
<1> QED
  BY <1>1, <1>2, <1>3, <1>4

\* The agent's variables keep their types: a frame on an agent's socket holds
\* webhooks, never events.
LEMMA AgentTypeStep ==
  TypeOK /\ TunnelInv /\ A!AgentTypeOK /\ [RelayNext]_relayVars => A!AgentTypeOK'
<1> SUFFICES ASSUME TypeOK, TunnelInv, A!AgentTypeOK, [RelayNext]_relayVars
             PROVE  A!AgentTypeOK'
  OBVIOUS
<1> USE DEF A!AgentTypeOK
<1>1. ASSUME NEW c \in Tunnels, Dial(c) PROVE A!AgentTypeOK'
  BY <1>1 DEF Dial, A!Dialed
<1>2. ASSUME NEW c \in Tunnels, Receive(c) PROVE A!AgentTypeOK'
  <2> DEFINE n == nread[c] + 1
             f == wire[c][n]
  <2>1. nread' = [nread EXCEPT ![c] = n] /\ n \in 1 .. Len(wire[c]) /\ n \in Nat
    BY <1>2, LenProperties, HubAssumption DEF Receive, A!ReadFrame, A!Advance, TypeOK, PumpsOK
  <2>2. ASSUME Len(f) = 1 PROVE f[1] \in Requests
    <3>1. wire[c] \in Seq(Seq(Messages))
      BY HubAssumption DEF TypeOK, PumpsOK
    <3>2. n \in DOMAIN wire[c] /\ f \in Seq(Messages)
      BY <2>1, <3>1, LenProperties
    <3>3. 1 \in DOMAIN f
      BY <2>2, <3>2, LenProperties
    <3>4. f[1] \in Held(c)
      BY <3>2, <3>3 DEF Held, OnWire, Elements
    <3> QED
      BY <3>4 DEF TunnelInv, HeldAccepted
  <2>3. running' = IF Len(f) = 1 THEN running \union {f[1]} ELSE running
    BY <1>2 DEF Receive, A!ReadFrame, A!Parses
  <2> HIDE DEF n, f
  <2>4. nread' \in [Tunnels -> Nat] /\ running' \subseteq Requests
    BY <2>1, <2>2, <2>3
  <2> QED
    BY <1>2, <2>4 DEF Receive, A!ReadFrame
<1>3. ASSUME NEW c \in Tunnels, ReceiveFails(c) PROVE A!AgentTypeOK'
  BY <1>3 DEF ReceiveFails, A!ReadFails
<1>4. CASE Leave
  BY <1>4 DEF Leave, A!ConnectionLost, A!Interrupted
<1>5. CASE AgentStops
  BY <1>5 DEF AgentStops, A!Stop
<1>6. ASSUME NEW r \in Requests, A!ForwardLocally(r) PROVE A!AgentTypeOK'
  <2>1. Append(received, r) \in Seq(Requests)
    BY AppendProperties
  <2> QED
    BY <1>6, <2>1 DEF A!ForwardLocally
<1>7. CASE A!Interrupt
  BY <1>7, RelayAssumption DEF A!Interrupt
<1>8. CASE A!DialFails \/ A!Reconnect
  BY <1>8 DEF A!DialFails, A!Reconnect
<1>9. CASE HubAlone \/ UNCHANGED relayVars
  BY <1>9 DEF HubAlone, relayVars, agentVars
<1> QED
  BY <1>1, <1>2, <1>3, <1>4, <1>5, <1>6, <1>7, <1>8, <1>9
     DEF RelayNext, AgentAlone, RelayTerminated

\* Every variable of the hub and of the agent keeps its type.
THEOREM RelayTyping == RelaySpec => []RelayTypeOK
<1>1. RelayInit => A!AgentTypeOK
  <2> SUFFICES ASSUME A!AgentInit PROVE A!AgentTypeOK
    BY DEF RelayInit
  <2>1. received \in Seq(Requests) /\ signals \in 0 .. MaxSignals
    BY RelayAssumption DEF A!AgentInit
  <2> QED
    BY <2>1 DEF A!AgentInit, A!AgentTypeOK
<1>2. RelaySpec => [](TypeOK /\ TunnelInv)
  BY RelayImplementsHub, Typing, TunnelInvariant, PTL
<1> QED
  BY <1>1, <1>2, AgentTypeStep, PTL DEF RelaySpec, RelayTypeOK

-----------------------------------------------------------------------------
(* The inductive invariant *)

\* Steps in which the agent neither reads nor posts.
LEMMA RelayFrame ==
  ASSUME TypeOK, A!AgentTypeOK, RelayInv, [Next]_vars,
         UNCHANGED <<nread, running, received, failed>>,
         phase = "stopped" => phase' = "stopped"
  PROVE  RelayInv'
<1>1. /\ Tunnels \subseteq Clients /\ nread \in [Tunnels -> Nat]
      /\ wire \in [Clients -> Seq(Seq(Messages))]
  BY HubAssumption DEF TypeOK, PumpsOK, A!AgentTypeOK
<1>2. ASSUME NEW c \in Tunnels
      PROVE  /\ nread[c] <= Len(wire'[c])
             /\ \A k \in 1 .. nread[c] : wire'[c][k] = wire[c][k]
  <2>1. /\ Len(wire[c]) <= Len(wire'[c])
        /\ \A k \in 1 .. Len(wire[c]) : wire'[c][k] = wire[c][k]
    BY <1>1, WireGrows
  <2>2. nread[c] \in Nat /\ nread[c] <= Len(wire[c]) /\ Len(wire[c]) \in Nat
    BY <1>1, LenProperties DEF RelayInv, ReadsWritten
  <2>3. Len(wire'[c]) \in Nat
    <3>1. PumpsOK'
      BY PumpsTypeStep
    <3> QED
      BY <1>1, <3>1, LenProperties DEF PumpsOK
  <2> QED
    BY <2>1, <2>2, <2>3
<1>3. \A c \in Tunnels : Fetched(c)' = Fetched(c)
  BY <1>2 DEF Fetched
<1>4. Finished' = Finished
  BY DEF Finished
<1>5. ReadsWritten'
  BY <1>2 DEF ReadsWritten
<1>6. PostsFetched'
  BY <1>3, <1>4 DEF RelayInv, PostsFetched
<1>7. PostsOnce'
  BY <1>4 DEF RelayInv, PostsOnce
<1>8. ParsedPosted'
  BY <1>2, <1>4 DEF RelayInv, ParsedPosted
<1> QED
  BY <1>5, <1>6, <1>7, <1>8 DEF RelayInv

\* The agent reads a frame: a webhook in it is in no frame that was read before,
\* so it was not posted yet.
LEMMA RelayReceive ==
  ASSUME TypeOK, A!AgentTypeOK, TunnelInv, RelayInv, NEW c \in Tunnels, Receive(c)
  PROVE  RelayInv'
<1> DEFINE n == nread[c] + 1
           f == wire[c][n]
<1>1. /\ Tunnels \subseteq Clients /\ nread \in [Tunnels -> Nat]
      /\ wire[c] \in Seq(Seq(Messages)) /\ DOMAIN wire[c] = 1 .. Len(wire[c])
      /\ Len(wire[c]) \in Nat /\ UNCHANGED <<wire, received, failed, phase>>
      /\ nread' = [nread EXCEPT ![c] = n]
  BY HubAssumption, LenProperties
     DEF TypeOK, PumpsOK, A!AgentTypeOK, Receive, A!ReadFrame, A!Advance, vars, pumpVars
<1>2. n \in DOMAIN wire[c] /\ n \in Nat /\ 1 .. n = (1 .. nread[c]) \union {n}
  BY <1>1 DEF Receive
<1>3. f \in Seq(Messages) /\ (Len(f) = 1 => f[1] \in Elements(f))
  <2>1. f \in Seq(Messages)
    BY <1>1, <1>2
  <2>2. DOMAIN f = 1 .. Len(f)
    BY <2>1, LenProperties
  <2> HIDE DEF f
  <2>3. Len(f) = 1 => 1 \in DOMAIN f
    BY <2>2
  <2> QED
    BY <2>1, <2>3 DEF Elements
<1>4. running' = IF Len(f) = 1 THEN running \union {f[1]} ELSE running
  BY DEF Receive, A!ReadFrame, A!Parses
<1>5. /\ \A d \in Tunnels \ {c} : nread'[d] = nread[d] /\ Fetched(d)' = Fetched(d)
      /\ nread'[c] = n /\ Fetched(c)' = Fetched(c) \union Elements(f)
  <2>1. nread'[c] = n /\ \A d \in Tunnels \ {c} : nread'[d] = nread[d]
    BY <1>1
  <2>2. \A d \in Tunnels \ {c} : Fetched(d)' = Fetched(d)
    BY <1>1, <2>1 DEF Fetched
  <2>3. \A x : (\E k \in 1 .. n : x \in Elements(wire[c][k]))
                 <=> (\E k \in 1 .. nread[c] : x \in Elements(wire[c][k]))
                     \/ x \in Elements(f)
    BY <1>2
  <2> HIDE DEF n, f
  <2>4. /\ Fetched(c)' = UNION {Elements(wire[c][k]) : k \in 1 .. n}
        /\ Fetched(c) = UNION {Elements(wire[c][k]) : k \in 1 .. nread[c]}
    BY <1>1, <2>1 DEF Fetched
  <2>5. Fetched(c)' = Fetched(c) \union Elements(f)
    BY <2>3, <2>4
  <2> QED
    BY <2>1, <2>2, <2>5
<1>6. \A x \in Elements(f) : x \notin Finished
  <2> SUFFICES ASSUME NEW x \in Elements(f), x \in Finished PROVE FALSE
    OBVIOUS
  <2>1. PICK d \in Tunnels : x \in Fetched(d)
    BY DEF RelayInv, PostsFetched
  <2>2. PICK k \in 1 .. nread[d] : x \in Elements(wire[d][k])
    BY <2>1 DEF Fetched
  <2>3. k \in DOMAIN wire[d]
    <3>1. DOMAIN wire[d] = 1 .. Len(wire[d]) /\ Len(wire[d]) \in Nat
      BY <1>1, LenProperties DEF TypeOK, PumpsOK
    <3>2. nread[d] <= Len(wire[d]) /\ nread[d] \in Nat
      BY <1>1 DEF RelayInv, ReadsWritten
    <3> QED
      BY <3>1, <3>2
  <2>4. x \in Held(d) /\ x \in Held(c)
    BY <1>2, <2>2, <2>3 DEF Held, OnWire
  <2>5. d = c
    BY <2>4 DEF TunnelInv, HeldAccepted
  <2>6. k # n
    BY <1>1, <2>2, <2>5
  <2>7. Elements(wire[c][k]) \intersect Elements(wire[c][n]) = {}
    BY <1>2, <2>3, <2>5, <2>6 DEF TunnelInv, InOnePlace
  <2> QED
    BY <2>2, <2>5, <2>7
<1>7. Finished' = Finished
  BY <1>1 DEF Finished
<1> HIDE DEF f
<1>8. ReadsWritten'
  BY <1>1, <1>2, <1>5 DEF RelayInv, ReadsWritten
<1>9. PostsFetched'
  <2> SUFFICES ASSUME NEW r \in running' \union Finished
               PROVE  \E d \in Tunnels : r \in Fetched(d)'
    BY <1>7 DEF PostsFetched
  <2>1. CASE r \in running \union Finished
    <3>1. PICK d \in Tunnels : r \in Fetched(d)
      BY <2>1 DEF RelayInv, PostsFetched
    <3>2. r \in Fetched(d)'
      BY <1>5, <3>1
    <3> QED
      BY <3>2
  <2>2. CASE r \in Elements(f)
    BY <1>5, <2>2
  <2> QED
    BY <1>3, <1>4, <2>1, <2>2
<1>10. PostsOnce'
  BY <1>1, <1>3, <1>4, <1>6, <1>7 DEF RelayInv, PostsOnce
<1>11. ParsedPosted'
  <2> SUFFICES ASSUME phase # "stopped", NEW d \in Tunnels, NEW k \in 1 .. nread'[d],
                      Len(wire[d][k]) = 1
               PROVE  wire[d][k][1] \in running' \union Finished
    BY <1>1, <1>7 DEF ParsedPosted
  <2>1. CASE k \in 1 .. nread[d]
    BY <1>4, <2>1 DEF RelayInv, ParsedPosted
  <2>2. CASE d = c /\ k = n
    BY <1>4, <2>2 DEF f
  <2> QED
    BY <1>2, <1>5, <2>1, <2>2
<1> QED
  BY <1>8, <1>9, <1>10, <1>11 DEF RelayInv

\* A post ends, one way or the other.
LEMMA RelayForward ==
  ASSUME A!AgentTypeOK, RelayInv, NEW r \in Requests, A!ForwardLocally(r), UNCHANGED vars
  PROVE  RelayInv'
<1> DEFINE q == Append(received, r)
<1>1. /\ r \in running /\ running' = running \ {r} /\ r \notin Finished
      /\ UNCHANGED <<wire, nread, phase>>
  BY DEF A!ForwardLocally, vars, pumpVars, RelayInv, PostsOnce
<1>2. /\ Elements(q) = Elements(received) \union {r}
      /\ Distinct(received) /\ r \notin Elements(received) => Distinct(q)
  BY AppendElements DEF A!AgentTypeOK
<1>3. \/ received' = q /\ failed' = failed
      \/ received' = received /\ failed' = failed \union {r}
  BY DEF A!ForwardLocally
<1> HIDE DEF q
<1>4. Finished' = Finished \union {r}
  BY <1>2, <1>3 DEF Finished
<1>5. running' \union Finished' = running \union Finished
  BY <1>1, <1>4
<1>6. \A c \in Tunnels : Fetched(c)' = Fetched(c)
  BY <1>1 DEF Fetched
<1>7. ReadsWritten'
  BY <1>1 DEF RelayInv, ReadsWritten
<1>8. PostsFetched'
  BY <1>5, <1>6 DEF RelayInv, PostsFetched
<1>9. PostsOnce'
  <2>1. Distinct(received')
    BY <1>1, <1>2, <1>3 DEF RelayInv, PostsOnce, Finished
  <2>2. running' \intersect Finished' = {}
    BY <1>1, <1>4 DEF RelayInv, PostsOnce
  <2> QED
    BY <2>1, <2>2 DEF PostsOnce, Distinct
<1>10. ParsedPosted'
  BY <1>1, <1>5 DEF RelayInv, ParsedPosted
<1> QED
  BY <1>7, <1>8, <1>9, <1>10 DEF RelayInv

\* The process ends and takes the posts under way with it.
LEMMA RelayStop ==
  ASSUME RelayInv, AgentStops
  PROVE  RelayInv'
<1>1. /\ running' = {} /\ phase' = "stopped" /\ UNCHANGED <<wire, nread, received, failed>>
  BY DEF AgentStops, A!Stop, vars, pumpVars
<1>2. Finished' = Finished /\ \A c \in Tunnels : Fetched(c)' = Fetched(c)
  BY <1>1 DEF Finished, Fetched
<1> QED
  BY <1>1, <1>2 DEF RelayInv, ReadsWritten, PostsFetched, PostsOnce, ParsedPosted

LEMMA RelayStep ==
  TypeOK /\ TunnelInv /\ Holds /\ A!AgentTypeOK /\ RelayInv /\ [RelayNext]_relayVars
    => RelayInv'
<1> SUFFICES ASSUME TypeOK, TunnelInv, Holds, A!AgentTypeOK, RelayInv,
                    [RelayNext]_relayVars
             PROVE  RelayInv'
  OBVIOUS
<1>1. [Next]_vars
  BY StepImplementsHub
<1>2. ASSUME NEW c \in Tunnels, Receive(c) PROVE RelayInv'
  BY <1>2, RelayReceive
<1>3. ASSUME NEW r \in Requests, A!ForwardLocally(r), UNCHANGED vars PROVE RelayInv'
  BY <1>3, RelayForward
<1>4. CASE AgentStops
  BY <1>4, RelayStop
<1>5. ASSUME UNCHANGED <<nread, running, received, failed>>,
             phase = "stopped" => phase' = "stopped"
      PROVE  RelayInv'
  BY <1>1, <1>5, RelayFrame
<1>6. ASSUME \/ HubAlone \/ Leave \/ UNCHANGED relayVars
             \/ \E c \in Tunnels : Dial(c) \/ ReceiveFails(c)
             \/ A!Interrupt \/ A!DialFails \/ A!Reconnect
      PROVE  /\ UNCHANGED <<nread, running, received, failed>>
             /\ phase = "stopped" => phase' = "stopped"
  BY <1>6 DEF HubAlone, Leave, relayVars, agentVars, Dial, ReceiveFails, A!Interrupt,
     A!DialFails, A!Reconnect, A!Dialed, A!ReadFails, A!ConnectionLost, A!Interrupted
<1> QED
  BY <1>2, <1>3, <1>4, <1>5, <1>6 DEF RelayNext, AgentAlone, RelayTerminated

\* What the agent reads, posts and has posted (the inductive strengthening of
\* the theorems below).
THEOREM RelayInvariant == RelaySpec => [](RelayInv /\ TunnelInv /\ RelayTypeOK /\ OpenHasPump)
<1>1. RelayInit => RelayInv /\ Holds /\ OpenHasPump
  <2> SUFFICES ASSUME RelayInit PROVE RelayInv /\ Holds /\ OpenHasPump
    OBVIOUS
  <2>1. /\ nread = [c \in Tunnels |-> 0] /\ running = {} /\ received = <<>> /\ failed = {}
        /\ phase = "dial"
        /\ wire = [c \in Clients |-> <<>>] /\ writer = [c \in Clients |-> "off"]
    BY DEF RelayInit, A!AgentInit, Init
  <2>2. Finished = {} /\ PostsOnce
    BY <2>1, EmptyElements DEF Finished, PostsOnce
  <2>3. ReadsWritten
    <3>1. Len(<<>>) = 0 /\ 0 <= 0
      OBVIOUS
    <3> QED
      BY <2>1, <3>1, HubAssumption DEF ReadsWritten
  <2>4. PostsFetched
    BY <2>1, <2>2 DEF PostsFetched
  <2>5. ParsedPosted
    <3>1. 1 .. 0 = {}
      OBVIOUS
    <3> QED
      BY <2>1, <3>1 DEF ParsedPosted
  <2> QED
    BY <2>1, <2>2, <2>3, <2>4, <2>5 DEF RelayInv, Holds, OpenHasPump
<1>2. RelaySpec => [](TypeOK /\ PumpInv /\ TunnelInv)
  BY RelayImplementsHub, Typing, PumpInvariant, TunnelInvariant, PTL
<1>3. TypeOK /\ PumpInv /\ Holds /\ OpenHasPump /\ [RelayNext]_relayVars => OpenHasPump'
  BY StepImplementsHub, OpenHasPumpStep
<1> QED
  BY <1>1, <1>2, <1>3, RelayTyping, HoldsStep, RelayStep, PTL DEF RelaySpec, RelayTypeOK

\* Through all reconnections, interruptions and lost connections the local
\* application gets a webhook once at most, and only one that ForwardToTunnel
\* reported as relayed.
THEOREM ReceivedAtMostOnce == RelaySpec => []ReceivedOnce
<1>1. RelayInv /\ TunnelInv /\ RelayTypeOK => ReceivedOnce
  <2> SUFFICES ASSUME RelayInv, TunnelInv, RelayTypeOK PROVE ReceivedOnce
    OBVIOUS
  <2>1. ASSUME NEW r \in running \union Finished PROVE call[r] = "accepted"
    <3>1. PICK c \in Tunnels : r \in Fetched(c)
      BY DEF RelayInv, PostsFetched
    <3>2. PICK k \in 1 .. nread[c] : r \in Elements(wire[c][k])
      BY <3>1 DEF Fetched
    <3>3. k \in DOMAIN wire[c]
      <4>1. DOMAIN wire[c] = 1 .. Len(wire[c]) /\ Len(wire[c]) \in Nat
        BY HubAssumption, LenProperties DEF RelayTypeOK, TypeOK, PumpsOK
      <4>2. nread[c] <= Len(wire[c]) /\ nread[c] \in Nat
        BY DEF RelayInv, ReadsWritten, RelayTypeOK, A!AgentTypeOK
      <4> QED
        BY <4>1, <4>2
    <3>4. r \in Held(c)
      BY <3>2, <3>3 DEF Held, OnWire
    <3> QED
      BY <3>4 DEF TunnelInv, HeldAccepted
  <2> QED
    BY <2>1 DEF RelayInv, PostsOnce, Distinct, ReceivedOnce
<1> QED
  BY <1>1, RelayInvariant, PTL

\* A webhook that ForwardToTunnel reported as relayed is not lost between the
\* two programs as long as its connection stands: it is in the channel, in a
\* frame, on the socket, being posted or posted -- unless it came in a batch,
\* which the agent cannot parse.
THEOREM AcceptedIsHandedOver == RelaySpec => []HandedOver
<1>1. RelayInv /\ TunnelInv /\ RelayTypeOK /\ OpenHasPump /\ OneSocket => HandedOver
  <2> SUFFICES ASSUME RelayInv, TunnelInv, RelayTypeOK, OpenHasPump, OneSocket,
                      NEW r \in Requests, call[r] = "accepted", ~Over(r), ~Batched(r)
               PROVE  r \in Underway(target[r]) \union running \union Finished
    BY DEF HandedOver
  <2>1. target[r] \in Tunnels
    BY DEF TunnelInv, RoutedRight
  <2> PICK c \in Tunnels : c = target[r]
    BY <2>1
  <2>2. conn[c] = "open" /\ c \in Clients /\ phase # "stopped"
    BY HubAssumption DEF Over, OneSocket
  <2>3. r \in Held(c)
    BY <2>2 DEF TunnelInv, AcceptedIsKept, OpenHasPump
  <2>4. CASE r \in Elements(sendq[c]) \union Elements(frame[c])
    BY <2>4 DEF Underway
  <2>5. ASSUME NEW k \in DOMAIN wire[c], r \in Elements(wire[c][k])
        PROVE  r \in Underway(c) \union running \union Finished
    <3>1. /\ wire[c] \in Seq(Seq(Messages)) /\ nread[c] \in Nat
      BY <2>2 DEF RelayTypeOK, TypeOK, PumpsOK, A!AgentTypeOK
    <3>2. k \in 1 .. Len(wire[c]) /\ Len(wire[c]) \in Nat /\ wire[c][k] \in Seq(Messages)
      BY <3>1, LenProperties
    <3>3. CASE k \in nread[c] + 1 .. Len(wire[c])
      BY <2>5, <3>3 DEF Underway
    <3>4. CASE k \in 1 .. nread[c]
      <4> DEFINE f == wire[c][k]
      <4>1. f \in Read(c) /\ f \in Seq(Messages) /\ r \in Elements(f)
        BY <2>5, <3>2, <3>4 DEF Read
      <4> HIDE DEF f
      <4>2. ~(Len(f) > 1)
        BY <4>1 DEF Batched
      <4>3. PICK i \in DOMAIN f : r = f[i]
        BY <4>1 DEF Elements
      <4>4. DOMAIN f = 1 .. Len(f) /\ Len(f) \in Nat
        BY <4>1, LenProperties
      <4>5. Len(f) = 1 /\ i = 1
        BY <4>2, <4>3, <4>4
      <4>6. r = f[1] /\ Len(f) = 1
        BY <4>3, <4>5
      <4> QED
        BY <2>2, <3>4, <4>6 DEF f, RelayInv, ParsedPosted
    <3> QED
      BY <3>1, <3>2, <3>3, <3>4
  <2> QED
    BY <2>3, <2>4, <2>5 DEF Held, OnWire
<1> QED
  BY <1>1, RelayInvariant, OneSocketAtATime, PTL

=============================================================================
