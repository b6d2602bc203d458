------------------------------ MODULE HubProofs ------------------------------
(***************************************************************************)
(* Theorems about the hub, for any number of dashboards, agents, slugs,    *)
(* webhooks and events and any channel capacities.                         *)
(***************************************************************************)
EXTENDS HubProperties, TLAPS

-----------------------------------------------------------------------------
(* Typing *)

\* A step leaves the routing tables in their type.
LEMMA TablesStep == TypeOK /\ [Next]_vars => TablesOK'
<1> SUFFICES ASSUME TypeOK, [Next]_vars PROVE TablesOK'
  OBVIOUS
<1> USE DEF TypeOK, TablesOK
<1>1. CASE UNCHANGED tableVars
  BY <1>1 DEF tableVars
<1>2. ASSUME NEW c \in Clients, RegisterClient(c) PROVE TablesOK'
  BY <1>2 DEF RegisterClient
<1>3. ASSUME NEW c \in Clients, RegisterTunnel(c) PROVE TablesOK'
  BY <1>3 DEF RegisterTunnel
<1>4. ASSUME NEW c \in Clients, UnregisterClient(c) PROVE TablesOK'
  BY <1>4 DEF UnregisterClient
<1>5. ASSUME NEW c \in Clients, UnregisterTunnel(c) PROVE TablesOK'
  BY <1>5 DEF UnregisterTunnel, RemoveTunnel
<1>6. ASSUME NEW c \in Clients, FanOut(c) PROVE TablesOK'
  BY <1>6 DEF FanOut, DropSlow
<1>7. ASSUME NEW c \in Clients,
             ServeWS(c) \/ PeerLost(c) \/ ReadPump(c) \/ WritePump(c)
      PROVE  UNCHANGED tableVars
  BY <1>7 DEF ServeWS, PeerLost, ReadPump, ReadError, ReadPumpExit, WritePump,
     TakeMessage, TakeFails, CountQueued, DrainOne, Flush, FlushFails,
     CloseSeen, PingFails, WritePumpExit
<1>8. ASSUME \/ TakeBroadcast \/ BroadcastEvent
             \/ \E r \in Requests : ForwardLookup(r) \/ ForwardSend(r)
             \/ UNCHANGED vars
      PROVE  UNCHANGED tableVars
  BY <1>8 DEF TakeBroadcast, BroadcastEvent, ForwardLookup, ForwardSend, vars
<1>9. QED
  BY <1>1, <1>2, <1>3, <1>4, <1>5, <1>6, <1>7, <1>8 DEF Next, RunStep, Terminated

\* A step leaves the broadcast channel and the fan-out loop in their types.
LEMMA RunTypeStep == TypeOK /\ [Next]_vars => RunOK'
<1> SUFFICES ASSUME TypeOK, [Next]_vars PROVE RunOK'
  OBVIOUS
<1> USE HubAssumption DEF TypeOK, TablesOK, RunOK
<1>1. CASE UNCHANGED runVars
  BY <1>1 DEF runVars
<1>2. CASE TakeBroadcast
  BY <1>2 DEF TakeBroadcast
<1>3. CASE BroadcastEvent
  BY <1>3 DEF BroadcastEvent
<1>4. ASSUME NEW c \in Clients, FanOut(c) PROVE RunOK'
  BY <1>4 DEF FanOut
<1>5. ASSUME NEW c \in Clients,
             \/ ServeWS(c) \/ PeerLost(c) \/ ReadPump(c) \/ WritePump(c)
             \/ RegisterClient(c) \/ RegisterTunnel(c)
             \/ UnregisterClient(c) \/ UnregisterTunnel(c)
      PROVE  UNCHANGED runVars
  BY <1>5 DEF ServeWS, PeerLost, RegisterClient, RegisterTunnel, Registered,
     UnregisterClient, UnregisterTunnel, Unregistered,
     ReadPump, ReadError, ReadPumpExit, WritePump,
     TakeMessage, TakeFails, CountQueued, DrainOne, Flush, FlushFails,
     CloseSeen, PingFails, WritePumpExit
<1>6. ASSUME \/ \E r \in Requests : ForwardLookup(r) \/ ForwardSend(r)
             \/ UNCHANGED vars
      PROVE  UNCHANGED runVars
  BY <1>6 DEF ForwardLookup, ForwardSend, vars
<1>7. QED
  BY <1>1, <1>2, <1>3, <1>4, <1>5, <1>6 DEF Next, RunStep, Terminated

\* A message appended to a channel with room, by Run or by a handler ...
LEMMA SendKeepsType ==
  ASSUME SendsOK, NEW c \in Clients, NEW m \in Messages,
         Len(sendq[c]) < SendCap,
         sendq' = [sendq EXCEPT ![c] = Append(@, m)],
         UNCHANGED <<closed, panicked>>
  PROVE  SendsOK'
<1> DEFINE q == Append(sendq[c], m)
<1>1. sendq[c] \in Seq(Messages) /\ Len(sendq[c]) \in Nat /\ SendCap \in Nat
  BY HubAssumption DEF SendsOK
<1>2. q \in Seq(Messages) /\ Len(q) = Len(sendq[c]) + 1
  BY <1>1
<1>3. Len(q) <= SendCap
  BY <1>1, <1>2
<1> HIDE DEF q
<1>4. sendq' = [sendq EXCEPT ![c] = q]
  BY DEF q
<1>5. QED
  BY <1>2, <1>3, <1>4 DEF SendsOK

\* ... or received from one, by a WritePump, leaves the channels well-typed.
LEMMA ReceiveKeepsType ==
  ASSUME SendsOK, NEW c \in Clients, sendq[c] # <<>>,
         sendq' = [sendq EXCEPT ![c] = Tail(@)],
         UNCHANGED <<closed, panicked>>
  PROVE  /\ SendsOK'
         /\ Head(sendq[c]) \in Messages
         /\ Len(sendq'[c]) = Len(sendq[c]) - 1
<1> DEFINE q == Tail(sendq[c])
<1>1. sendq[c] \in Seq(Messages) /\ Len(sendq[c]) \in Nat /\ SendCap \in Nat
      /\ Len(sendq[c]) <= SendCap
  BY HubAssumption DEF SendsOK
<1>2. /\ q \in Seq(Messages) /\ Len(q) = Len(sendq[c]) - 1
      /\ Head(sendq[c]) \in Messages
  BY <1>1
<1>3. Len(q) <= SendCap
  BY <1>1, <1>2
<1> HIDE DEF q
<1>4. sendq' = [sendq EXCEPT ![c] = q]
  BY DEF q
<1>5. QED
  BY <1>2, <1>3, <1>4 DEF SendsOK

\* A step leaves the send channels in their type and within their capacity.
LEMMA SendsTypeStep == TypeOK /\ [Next]_vars => SendsOK'
<1> SUFFICES ASSUME TypeOK, [Next]_vars PROVE SendsOK'
  OBVIOUS
<1> USE HubAssumption DEF TypeOK, SendsOK
<1>1. CASE UNCHANGED sendVars
  BY <1>1 DEF sendVars
<1>2. ASSUME NEW c \in Clients, UnregisterClient(c) PROVE SendsOK'
  BY <1>2 DEF UnregisterClient, Unregistered, CloseSend
<1>3. ASSUME NEW c \in Clients, UnregisterTunnel(c) PROVE SendsOK'
  BY <1>3 DEF UnregisterTunnel, RemoveTunnel, Unregistered, CloseSend
<1>4. ASSUME NEW c \in Clients, FanOut(c) PROVE SendsOK'
  <2>1. message \in Messages /\ c \in Clients
    BY DEF Messages, RunOK
  <2>2. CASE UNCHANGED sendq
    BY <1>4, <2>2 DEF FanOut, DropSlow, CloseSend
  <2>3. QED
    BY <1>4, <2>1, <2>2, SendKeepsType DEF FanOut, HasRoom
<1>5. ASSUME NEW r \in Requests, ForwardSend(r) PROVE SendsOK'
  <2>1. CASE UNCHANGED sendq
    BY <1>5, <2>1 DEF ForwardSend
  <2>2. CASE /\ target[r] \notin closed /\ Len(sendq[target[r]]) < SendCap
             /\ sendq' = [sendq EXCEPT ![target[r]] = Append(@, r)]
             /\ target[r] \in Clients
    <3>1. r \in Messages /\ UNCHANGED <<closed, panicked>>
      BY <1>5 DEF ForwardSend, Messages
    <3>2. QED
      BY <2>2, <3>1, SendKeepsType
  <2>3. QED
    BY <1>5, <2>1, <2>2 DEF ForwardSend, HasRoom
<1>6. ASSUME NEW c \in Clients, TakeMessage(c) \/ TakeFails(c) \/ DrainOne(c)
      PROVE  SendsOK'
  BY <1>6, ReceiveKeepsType
     DEF TakeMessage, TakeFails, DrainOne, WritePumpExit
<1>7. ASSUME NEW c \in Clients,
             \/ ServeWS(c) \/ PeerLost(c) \/ ReadPump(c)
             \/ RegisterClient(c) \/ RegisterTunnel(c)
             \/ CountQueued(c) \/ Flush(c) \/ FlushFails(c)
             \/ CloseSeen(c) \/ PingFails(c)
      PROVE  UNCHANGED sendVars
  BY <1>7 DEF ServeWS, PeerLost, RegisterClient, RegisterTunnel, Registered,
     ReadPump, ReadError, ReadPumpExit, CountQueued, Flush, FlushFails,
     CloseSeen, PingFails, WritePumpExit, sendVars
<1>8. ASSUME \/ TakeBroadcast \/ BroadcastEvent
             \/ \E r \in Requests : ForwardLookup(r)
             \/ UNCHANGED vars
      PROVE  UNCHANGED sendVars
  BY <1>8 DEF TakeBroadcast, BroadcastEvent, ForwardLookup, vars
<1>9. QED
  BY <1>1, <1>2, <1>3, <1>4, <1>5, <1>6, <1>7, <1>8
     DEF Next, RunStep, WritePump, Terminated

\* A step leaves sockets, pumps and frames in their types.
LEMMA PumpsTypeStep == TypeOK /\ [Next]_vars => PumpsOK'
<1> SUFFICES ASSUME TypeOK, [Next]_vars PROVE PumpsOK'
  OBVIOUS
<1> USE DEF TypeOK, PumpsOK
<1>1. CASE UNCHANGED pumpVars
  BY <1>1 DEF pumpVars
<1>2. ASSUME NEW c \in Clients, ServeWS(c) \/ PeerLost(c) PROVE PumpsOK'
  BY <1>2 DEF ServeWS, PeerLost
<1>3. ASSUME NEW c \in Clients, RegisterClient(c) \/ RegisterTunnel(c)
      PROVE  PumpsOK'
  <2>1. Dispatched \in Nat
    BY DEF Dispatched, RunOK
  <2>2. /\ reader' = [reader EXCEPT ![c] = "reading"]
        /\ writer' = [writer EXCEPT ![c] = "select"]
        /\ joined' = [joined EXCEPT ![c] = Dispatched]
        /\ UNCHANGED <<conn, frame, left, wire>>
    BY <1>3 DEF RegisterClient, RegisterTunnel, Registered
  <2>3. QED
    BY <2>1, <2>2
<1>4. ASSUME NEW c \in Clients, UnregisterClient(c) \/ UnregisterTunnel(c)
      PROVE  PumpsOK'
  BY <1>4 DEF UnregisterClient, UnregisterTunnel, Unregistered
<1>5. ASSUME NEW c \in Clients, ReadPump(c) PROVE PumpsOK'
  BY <1>5 DEF ReadPump, ReadError, ReadPumpExit
<1>6. ASSUME NEW c \in Clients, WritePumpExit(c) PROVE PumpsOK'
  BY <1>6 DEF WritePumpExit
<1>7. ASSUME NEW c \in Clients, TakeMessage(c) \/ DrainOne(c) PROVE PumpsOK'
  <2>1. /\ Head(sendq[c]) \in Messages
        /\ left[c] > 0 => left[c] - 1 \in Nat
    BY <1>7 DEF TakeMessage, DrainOne, SendsOK
  <2>2. /\ <<Head(sendq[c])>> \in Seq(Messages)
        /\ Append(frame[c], Head(sendq[c])) \in Seq(Messages)
    BY <2>1
  <2>3. CASE TakeMessage(c)
    BY <2>2, <2>3 DEF TakeMessage
  <2>4. CASE DrainOne(c)
    BY <2>1, <2>2, <2>4 DEF DrainOne
  <2>5. QED
    BY <1>7, <2>3, <2>4
<1>8. ASSUME NEW c \in Clients, CountQueued(c) PROVE PumpsOK'
  BY <1>8 DEF CountQueued, Queued, SendsOK
<1>9. ASSUME NEW c \in Clients, Flush(c) PROVE PumpsOK'
  BY <1>9 DEF Flush, Framed
<1>10. ASSUME \/ TakeBroadcast \/ BroadcastEvent
              \/ \E c \in Clients : FanOut(c)
              \/ \E r \in Requests : ForwardLookup(r) \/ ForwardSend(r)
              \/ UNCHANGED vars
       PROVE  UNCHANGED pumpVars
  BY <1>10 DEF TakeBroadcast, BroadcastEvent, FanOut, ForwardLookup,
     ForwardSend, vars
<1>11. QED
  BY <1>1, <1>2, <1>3, <1>4, <1>5, <1>6, <1>7, <1>8, <1>9, <1>10
     DEF Next, RunStep, WritePump, TakeFails, FlushFails, CloseSeen, PingFails,
         Terminated

\* A step leaves the ForwardToTunnel calls in their types.
LEMMA CallsTypeStep == TypeOK /\ [Next]_vars => CallsOK'
<1> SUFFICES ASSUME TypeOK, [Next]_vars PROVE CallsOK'
  OBVIOUS
<1> USE DEF TypeOK, CallsOK
<1>1. CASE UNCHANGED callVars
  BY <1>1 DEF callVars
<1>2. ASSUME NEW r \in Requests, ForwardLookup(r) PROVE CallsOK'
  BY <1>2, HubAssumption DEF ForwardLookup, Route, TablesOK
<1>3. ASSUME NEW r \in Requests, ForwardSend(r) PROVE CallsOK'
  BY <1>3 DEF ForwardSend, Reply
<1>4. ASSUME NEW c \in Clients,
             \/ ServeWS(c) \/ PeerLost(c) \/ ReadPump(c) \/ WritePump(c)
             \/ RunStep(c)
      PROVE  UNCHANGED callVars
  BY <1>4 DEF ServeWS, PeerLost, RunStep, RegisterClient, RegisterTunnel,
     Registered, UnregisterClient, UnregisterTunnel, Unregistered, FanOut,
     ReadPump, ReadError, ReadPumpExit, WritePump,
     TakeMessage, TakeFails, CountQueued, DrainOne, Flush, FlushFails,
     CloseSeen, PingFails, WritePumpExit
<1>5. ASSUME TakeBroadcast \/ BroadcastEvent \/ UNCHANGED vars
      PROVE  UNCHANGED callVars
  BY <1>5 DEF TakeBroadcast, BroadcastEvent, vars
<1>6. QED
  BY <1>1, <1>2, <1>3, <1>4, <1>5 DEF Next, Terminated

\* The hub's state always has its type: in particular no channel ever holds
\* more than its capacity, however producers and consumers interleave.
THEOREM Typing == Spec => []TypeOK
<1>1. Init => TypeOK
  <2> SUFFICES ASSUME Init PROVE TypeOK
    OBVIOUS
  <2> USE HubAssumption DEF Init
  <2>1. TablesOK
    BY DEF TablesOK
  <2>2. RunOK
    BY DEF RunOK
  <2>3. SendsOK
    <3>1. Len(<<>>) <= SendCap /\ <<>> \in Seq(Messages)
      OBVIOUS
    <3>2. sendq \in [Clients -> Seq(Messages)]
      BY <3>1
    <3>3. QED
      BY <3>1, <3>2 DEF SendsOK
  <2>4. PumpsOK
    BY DEF PumpsOK
  <2>5. CallsOK
    BY DEF CallsOK
  <2>6. QED
    BY <2>1, <2>2, <2>3, <2>4, <2>5 DEF TypeOK
<1>2. TypeOK /\ [Next]_vars => TypeOK'
  BY TablesStep, RunTypeStep, SendsTypeStep, PumpsTypeStep, CallsTypeStep
     DEF TypeOK
<1>3. QED
  BY <1>1, <1>2, PTL DEF Spec

-----------------------------------------------------------------------------
(* The Run goroutine never panics *)

\* Only Run closes a channel, and it does so when it drops the connection
\* from its table: a dashboard at any time once registered, an agent when it
\* has unregistered itself.
ClosedIsGone ==
  \A c \in closed :
    /\ c \notin clients
    /\ reader[c] \notin {"new", "registering"}
    /\ c \in Tunnels => reader[c] \in {"closing", "done"}

\* The fan-out loop visits registered dashboards only.
ClientsLive ==
  /\ fanTodo \subseteq clients
  /\ \A c \in clients : reader[c] \in {"reading", "unregistering"}

RunInv == RunNeverPanics /\ ClosedIsGone /\ ClientsLive /\ TunnelEntriesLive

\* Steps that touch neither the tables nor the channels' closing move a reader
\* forward only from a state in which its connection is in no table.
LEMMA RunInvFrame ==
  ASSUME TypeOK, RunInv,
         UNCHANGED <<clients, tunnels, closed, panicked>>,
         fanTodo' \subseteq clients,
         \A c \in Clients :
           \/ reader'[c] = reader[c]
           \/ reader[c] = "new" /\ reader'[c] = "registering"
           \/ reader[c] = "reading" /\ reader'[c] = "unregistering"
           \/ reader[c] = "closing" /\ reader'[c] = "done"
  PROVE  RunInv'
<1> USE HubAssumption DEF TypeOK, TablesOK, SendsOK, Dashboards
<1>1. RunNeverPanics' /\ ClosedIsGone' /\ ClientsLive'
  BY DEF RunInv, RunNeverPanics, ClosedIsGone, ClientsLive
<1>2. TunnelEntriesLive'
  BY DEF RunInv, TunnelEntriesLive
<1>3. QED
  BY <1>1, <1>2 DEF RunInv

LEMMA RunInvStep == TypeOK /\ RunInv /\ [Next]_vars => RunInv'
<1> SUFFICES ASSUME TypeOK, RunInv, [Next]_vars PROVE RunInv'
  OBVIOUS
<1> USE HubAssumption DEF TypeOK, TablesOK, SendsOK, PumpsOK, Dashboards,
        RunInv, RunNeverPanics, ClosedIsGone, ClientsLive, TunnelEntriesLive
<1>1. ASSUME NEW c \in Clients, RegisterClient(c) PROVE RunInv'
  BY <1>1 DEF RegisterClient, Registered, RunIdle, sendVars, runVars
<1>2. ASSUME NEW c \in Clients, RegisterTunnel(c) PROVE RunInv'
  BY <1>2 DEF RegisterTunnel, Registered, RunIdle, sendVars, runVars
<1>3. ASSUME NEW c \in Clients, UnregisterClient(c) PROVE RunInv'
  BY <1>3 DEF UnregisterClient, Known, Unregistered, CloseSend, RunIdle, runVars
<1>4. ASSUME NEW c \in Clients, UnregisterTunnel(c) PROVE RunInv'
  <2>1. /\ reader[c] = "unregistering" /\ fanTodo' = {}
        /\ reader' = [reader EXCEPT ![c] = "closing"]
        /\ c \in Tunnels /\ UNCHANGED clients /\ c \notin closed
    BY <1>4 DEF UnregisterTunnel, Unregistered, RunIdle, runVars
  <2>2. CASE UNCHANGED <<tunnels, closed, panicked>>
    <3>1. tunnels[SlugOf[c]] = NoClient
      BY <1>4, <2>2 DEF UnregisterTunnel, RemoveTunnel
    <3>2. QED
      BY <2>1, <2>2, <3>1
  <2>3. CASE /\ tunnels' = [tunnels EXCEPT ![SlugOf[c]] = NoClient]
             /\ closed' = closed \union {c} /\ UNCHANGED panicked
    <3>1. RunNeverPanics' /\ ClosedIsGone' /\ ClientsLive'
      BY <2>1, <2>3
    <3>2. TunnelEntriesLive'
      BY <2>1, <2>3
    <3>3. QED
      BY <3>1, <3>2
  <2>4. QED
    BY <1>4, <2>1, <2>2, <2>3 DEF UnregisterTunnel, RemoveTunnel, CloseSend
<1>5. ASSUME NEW c \in Clients, FanOut(c) PROVE RunInv'
  <2>1. /\ c \in fanTodo /\ c \in clients /\ c \notin closed /\ c \notin Tunnels
        /\ fanTodo' = fanTodo \ {c} /\ UNCHANGED <<tunnels, reader>>
    BY <1>5 DEF FanOut, pumpVars
  <2>2. CASE UNCHANGED <<clients, closed, panicked>>
    BY <2>1, <2>2
  <2>3. CASE /\ clients' = clients \ {c} /\ closed' = closed \union {c}
             /\ UNCHANGED panicked
    <3>1. RunNeverPanics' /\ ClientsLive'
      BY <2>1, <2>3
    <3>2. ClosedIsGone'
      <4>1. reader[c] \in {"reading", "unregistering"}
        BY <2>1
      <4>2. QED
        BY <2>1, <2>3, <4>1
    <3>3. TunnelEntriesLive'
      <4>1. \A s \in Slugs : tunnels[s] # c
        BY <2>1
      <4>2. \A s \in Slugs : tunnels'[s] = tunnels[s]
        BY <2>1
      <4>3. \A s \in Slugs : tunnels[s] \notin closed => tunnels'[s] \notin closed'
        BY <2>3, <4>1, <4>2
      <4>4. QED
        BY <2>1, <4>2, <4>3
    <3>4. QED
      BY <3>1, <3>2, <3>3
  <2>4. QED
    BY <1>5, <2>1, <2>2, <2>3 DEF FanOut, DropSlow, CloseSend
<1>6. CASE TakeBroadcast
  BY <1>6 DEF TakeBroadcast, tableVars, sendVars, pumpVars
<1>7. ASSUME NEW c \in Clients, ServeWS(c) \/ PeerLost(c) \/ ReadPump(c)
      PROVE  RunInv'
  <2>1. /\ UNCHANGED <<clients, tunnels, closed, panicked, fanTodo>>
        /\ \/ UNCHANGED reader
           \/ reader[c] = "new" /\ reader' = [reader EXCEPT ![c] = "registering"]
           \/ reader[c] = "reading"
              /\ reader' = [reader EXCEPT ![c] = "unregistering"]
           \/ reader[c] = "closing" /\ reader' = [reader EXCEPT ![c] = "done"]
    BY <1>7 DEF ServeWS, PeerLost, ReadPump, ReadError, ReadPumpExit,
       tableVars, sendVars, runVars
  <2>2. \A d \in Clients :
           \/ reader'[d] = reader[d]
           \/ reader[d] = "new" /\ reader'[d] = "registering"
           \/ reader[d] = "reading" /\ reader'[d] = "unregistering"
           \/ reader[d] = "closing" /\ reader'[d] = "done"
    BY <2>1
  <2>3. QED
    BY <2>1, <2>2, RunInvFrame
<1>8. ASSUME NEW c \in Clients, WritePump(c) PROVE RunInv'
  BY <1>8, RunInvFrame DEF WritePump, TakeMessage, TakeFails, CountQueued,
     DrainOne, Flush, FlushFails, CloseSeen, PingFails, WritePumpExit,
     tableVars, sendVars, runVars
<1>9. ASSUME \/ BroadcastEvent
             \/ \E r \in Requests : ForwardLookup(r) \/ ForwardSend(r)
             \/ UNCHANGED vars
      PROVE  RunInv'
  BY <1>9, RunInvFrame DEF BroadcastEvent, ForwardLookup, ForwardSend, vars,
     tableVars, sendVars, runVars, pumpVars
<1>10. QED
  BY <1>1, <1>2, <1>3, <1>4, <1>5, <1>6, <1>7, <1>8, <1>9
     DEF Next, RunStep, Terminated

\* Only connections with an open channel are in the tables, so Run closes each
\* channel once (the inductive strengthening of the two theorems below).
THEOREM RunInvariant == Spec => []RunInv
<1>1. Init => RunInv
  BY HubAssumption DEF Init, RunInv, RunNeverPanics, ClosedIsGone, ClientsLive,
     TunnelEntriesLive
<1>2. QED
  BY <1>1, RunInvStep, Typing, PTL DEF Spec

\* Whatever the number of clients and the order of registrations,
\* disconnections and saturations, Run never closes a channel twice nor sends
\* on a closed one: the hub never takes the process down.
THEOREM RunSafe == Spec => []RunNeverPanics
<1>1. RunInv => RunNeverPanics
  BY DEF RunInv
<1>2. QED
  BY <1>1, RunInvariant, PTL

\* Every entry of h.tunnels is a connected agent of that slug whose channel
\* is open, so the agent ForwardToTunnel looks up was alive at that moment.
THEOREM EntriesLive == Spec => []TunnelEntriesLive
<1>1. RunInv => TunnelEntriesLive
  BY DEF RunInv
<1>2. QED
  BY <1>1, RunInvariant, PTL

=============================================================================
