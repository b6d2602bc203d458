--------------------------------- MODULE Hub ---------------------------------
(***************************************************************************)
(* The WebSocket hub: internal/hub/hub.go and internal/hub/client.go.      *)
(*                                                                         *)
(* One Run goroutine owns the two routing tables; every connection has a   *)
(* ReadPump and a WritePump goroutine; HTTP handlers call BroadcastEvent   *)
(* and ForwardToTunnel from goroutines of their own.  A step of the model  *)
(* is what one goroutine does between two points where another goroutine   *)
(* can observe or disturb it: a channel operation, a critical section of   *)
(* h.mu, one iteration of the fan-out loop, one write on a socket.         *)
(***************************************************************************)
EXTENDS Naturals, Sequences, FiniteSets

CONSTANTS
  Clients,        \* the connections ServeWS may accept, one *Client each
  Tunnels,        \* those of CLI agents (isTunnel); the others are dashboards
  Slugs,          \* endpoint slugs, the wildcard included
  Star,           \* the wildcard slug "*"
  SlugOf,         \* SlugOf[c]: endpointSlug of agent connection c
  Requests,       \* captured webhooks, one ForwardToTunnel call each
  SlugFor,        \* SlugFor[r]: the endpoint slug webhook r came in on
  SendCap,        \* capacity of a client's send channel (256 in ServeWS)
  BroadcastCap,   \* capacity of the broadcast channel (256 in NewHub)
  MaxEvents,      \* bound: how many events the handlers broadcast
  NoClient        \* the absent map entry

ASSUME HubAssumption ==
  /\ Tunnels \subseteq Clients
  /\ Star \in Slugs
  /\ SlugOf \in [Tunnels -> Slugs]
  /\ SlugFor \in [Requests -> Slugs]
  /\ SendCap \in Nat \ {0}
  /\ BroadcastCap \in Nat \ {0}
  /\ MaxEvents \in Nat
  /\ NoClient \notin Clients

VARIABLES
  clients,        \* h.clients: the registered dashboards
  tunnels,        \* h.tunnels: slug -> agent connection
  broadcast,      \* h.broadcast: events not yet taken by Run
  fanTodo,        \* dashboards the current fan-out loop has yet to visit
  message,        \* the event being fanned out
  panicked,       \* Run sent on or closed a closed channel: the process dies
  sendq,          \* sendq[c]: contents of the channel c.send
  closed,         \* connections whose send channel has been closed
  conn,           \* conn[c]: state of the socket
  reader,         \* reader[c]: where ServeWS / ReadPump of c stands
  writer,         \* writer[c]: where WritePump of c stands
  frame,          \* frame[c]: messages written to the open WebSocket frame
  left,           \* left[c]: messages the drain loop has still to take
  wire,           \* wire[c]: the frames written to the socket, oldest first
  call,           \* call[r]: where the ForwardToTunnel call for r stands
  target,         \* target[r]: the connection that call looked up
  published,      \* history: how many events entered the broadcast channel
  joined          \* history: events dispatched before c was registered

tableVars == <<clients, tunnels>>
runVars   == <<broadcast, fanTodo, message, published>>
sendVars  == <<sendq, closed, panicked>>
pumpVars  == <<conn, reader, writer, frame, left, wire, joined>>
callVars  == <<call, target>>
vars == <<tableVars, runVars, sendVars, pumpVars, callVars>>

Dashboards == Clients \ Tunnels

\* Events are named by their position in the order BroadcastEvent queued them.
Messages == Nat \union Requests

\* How many events Run has taken off the broadcast channel.
Dispatched == published - Len(broadcast)

TablesOK ==
  /\ clients \subseteq Dashboards
  /\ tunnels \in [Slugs -> Tunnels \union {NoClient}]

RunOK ==
  /\ broadcast \in Seq(Nat) /\ Len(broadcast) <= BroadcastCap
  /\ Len(broadcast) <= published
  /\ fanTodo \subseteq Dashboards
  /\ message \in Nat
  /\ published \in Nat

SendsOK ==
  /\ sendq \in [Clients -> Seq(Messages)]
  /\ \A c \in Clients : Len(sendq[c]) <= SendCap
  /\ closed \subseteq Clients
  /\ panicked \in BOOLEAN

PumpsOK ==
  /\ conn \in [Clients -> {"none", "open", "lost", "closed"}]
  /\ reader \in [Clients -> {"new", "registering", "reading",
                             "unregistering", "closing", "done"}]
  /\ writer \in [Clients -> {"off", "select", "count", "drain", "done"}]
  /\ frame \in [Clients -> Seq(Messages)]
  /\ left \in [Clients -> Nat]
  /\ wire \in [Clients -> Seq(Seq(Messages))]
  /\ joined \in [Clients -> Nat]

CallsOK ==
  /\ call \in [Requests -> {"idle", "found", "accepted", "refused", "panic"}]
  /\ target \in [Requests -> Tunnels \union {NoClient}]

TypeOK == TablesOK /\ RunOK /\ SendsOK /\ PumpsOK /\ CallsOK

\* NewHub
Init ==
  /\ clients = {}
  /\ tunnels = [s \in Slugs |-> NoClient]
  /\ broadcast = <<>>
  /\ fanTodo = {}
  /\ message = 0
  /\ panicked = FALSE
  /\ sendq = [c \in Clients |-> <<>>]
  /\ closed = {}
  /\ conn = [c \in Clients |-> "none"]
  /\ reader = [c \in Clients |-> "new"]
  /\ writer = [c \in Clients |-> "off"]
  /\ frame = [c \in Clients |-> <<>>]
  /\ left = [c \in Clients |-> 0]
  /\ wire = [c \in Clients |-> <<>>]
  /\ call = [r \in Requests |-> "idle"]
  /\ target = [r \in Requests |-> NoClient]
  /\ published = 0
  /\ joined = [c \in Clients |-> 0]

-----------------------------------------------------------------------------
(* ServeWS and the network *)

\* The upgrade succeeded; the handler blocks on  hub.register <- client.
ServeWS(c) ==
  /\ reader[c] = "new"
  /\ reader' = [reader EXCEPT ![c] = "registering"]
  /\ conn' = [conn EXCEPT ![c] = "open"]
  /\ UNCHANGED <<tableVars, runVars, sendVars, callVars,
                 writer, frame, left, wire, joined>>

\* The peer closes, the network fails or a deadline (pongWait, writeWait)
\* expires: reads fail from now on, writes may fail.
PeerLost(c) ==
  /\ conn[c] = "open"
  /\ conn' = [conn EXCEPT ![c] = "lost"]
  /\ UNCHANGED <<tableVars, runVars, sendVars, callVars,
                 reader, writer, frame, left, wire, joined>>

-----------------------------------------------------------------------------
(* Run: one case of the select at a time *)

RunIdle == fanTodo = {} /\ ~panicked

\* Mutant: one message too many for the channel.
HasRoomOffByOne(c) == Len(sendq[c]) <= SendCap

HasRoom(c) == Len(sendq[c]) < SendCap

\* close(c.send); closing twice panics.
CloseSend(c) ==
  /\ closed' = closed \union {c}
  /\ IF c \in closed THEN panicked' = TRUE ELSE UNCHANGED panicked

\* Run takes c from the register channel; ServeWS then starts both pumps.
Registered(c) ==
  /\ RunIdle
  /\ reader[c] = "registering"
  /\ reader' = [reader EXCEPT ![c] = "reading"]
  /\ writer' = [writer EXCEPT ![c] = "select"]
  /\ joined' = [joined EXCEPT ![c] = Dispatched]
  /\ UNCHANGED <<runVars, sendVars, callVars, conn, frame, left, wire>>

RegisterClient(c) ==
  /\ c \in Dashboards
  /\ Registered(c)
  /\ clients' = clients \union {c}
  /\ UNCHANGED tunnels

\* A second agent on the same slug takes the entry over; the first one keeps
\* its connection and its open channel.
RegisterTunnel(c) ==
  /\ c \in Tunnels
  /\ Registered(c)
  /\ tunnels' = [tunnels EXCEPT ![SlugOf[c]] = c]
  /\ UNCHANGED clients

\* Run takes c from the unregister channel.
Unregistered(c) ==
  /\ RunIdle
  /\ reader[c] = "unregistering"
  /\ reader' = [reader EXCEPT ![c] = "closing"]
  /\ UNCHANGED <<runVars, callVars, sendq,
                 conn, writer, frame, left, wire, joined>>

\* Mutant: closes without looking the client up.
KnownUnchecked(c) == TRUE

Known(c) == c \in clients

UnregisterClient(c) ==
  /\ c \in Dashboards
  /\ Unregistered(c)
  /\ IF Known(c)
       THEN clients' = clients \ {c} /\ CloseSend(c)
       ELSE UNCHANGED <<clients, closed, panicked>>
  /\ UNCHANGED tunnels

\* Mutants: the entry stays; the entry stays and its agent is the one closed.
RemoveTunnelKeepsEntry(c) == UNCHANGED tunnels /\ CloseSend(c)
RemoveTunnelClosesEntry(c) == UNCHANGED tunnels /\ CloseSend(tunnels[SlugOf[c]])

RemoveTunnel(c) ==
  /\ tunnels' = [tunnels EXCEPT ![SlugOf[c]] = NoClient]
  /\ CloseSend(c)

\* The code tests that the slug has an entry, not that the entry is c.
UnregisterTunnel(c) ==
  /\ c \in Tunnels
  /\ Unregistered(c)
  /\ IF tunnels[SlugOf[c]] # NoClient
       THEN RemoveTunnel(c)
       ELSE UNCHANGED <<tunnels, closed, panicked>>
  /\ UNCHANGED clients

\* Run takes an event and starts to range over h.clients.
TakeBroadcast ==
  /\ RunIdle
  /\ broadcast # <<>>
  /\ message' = Head(broadcast)
  /\ broadcast' = Tail(broadcast)
  /\ fanTodo' = clients
  /\ UNCHANGED <<tableVars, sendVars, pumpVars, callVars, published>>

\* Mutants: a slow dashboard skips the message; the loop waits for it.
DropSlowSkips(c) == UNCHANGED <<clients, closed, panicked>>
DropSlowBlocks(c) == FALSE

\* A full channel costs the dashboard its connection.
DropSlow(c) == CloseSend(c) /\ clients' = clients \ {c}

\* One iteration of the loop: a send that never blocks, and would panic on a
\* closed channel.
FanOut(c) ==
  /\ c \in fanTodo /\ ~panicked
  /\ fanTodo' = fanTodo \ {c}
  /\ \/ /\ c \in closed
        /\ panicked' = TRUE
        /\ UNCHANGED <<clients, sendq, closed>>
     \/ /\ c \notin closed /\ HasRoom(c)
        /\ sendq' = [sendq EXCEPT ![c] = Append(@, message)]
        /\ UNCHANGED <<clients, closed, panicked>>
     \/ /\ c \notin closed /\ ~HasRoom(c)
        /\ DropSlow(c)
        /\ UNCHANGED sendq
  /\ UNCHANGED <<tunnels, broadcast, message, published, pumpVars, callVars>>

-----------------------------------------------------------------------------
(* Calls made by the HTTP handlers *)

\* h.broadcast <- bytes: the handler blocks while the channel is full.
BroadcastEvent ==
  /\ published < MaxEvents
  /\ Len(broadcast) < BroadcastCap
  /\ published' = published + 1
  /\ broadcast' = Append(broadcast, published + 1)
  /\ UNCHANGED <<tableVars, sendVars, pumpVars, callVars, fanTodo, message>>

Route(s) == IF tunnels[s] # NoClient THEN tunnels[s] ELSE tunnels[Star]

\* The lookup under h.mu.RLock.
ForwardLookup(r) ==
  /\ call[r] = "idle"
  /\ target' = [target EXCEPT ![r] = Route(SlugFor[r])]
  /\ call' = [call EXCEPT ![r] = IF Route(SlugFor[r]) = NoClient
                                   THEN "refused" ELSE "found"]
  /\ UNCHANGED <<tableVars, runVars, sendVars, pumpVars>>

\* Mutants: true once a tunnel was found; a retry of what was accepted.
ReplyTrue(room)  == "accepted"
ReplyRetry(room) == IF room THEN "found" ELSE "refused"

Reply(room) == IF room THEN "accepted" ELSE "refused"

\* The non-blocking send, after RUnlock.  The channel may have been closed
\* in between: the send panics and the Recoverer middleware answers 500.
ForwardSend(r) ==
  /\ call[r] = "found"
  /\ LET c == target[r] IN
       \/ /\ c \in closed
          /\ call' = [call EXCEPT ![r] = "panic"]
          /\ UNCHANGED sendq
       \/ /\ c \notin closed
          /\ call' = [call EXCEPT ![r] = Reply(HasRoom(c))]
          /\ IF HasRoom(c) THEN sendq' = [sendq EXCEPT ![c] = Append(@, r)]
                           ELSE UNCHANGED sendq
  /\ UNCHANGED <<tableVars, runVars, closed, panicked, pumpVars, target>>

-----------------------------------------------------------------------------
(* ReadPump *)

\* ReadMessage fails: the deferred function blocks on  hub.unregister <- c.
ReadError(c) ==
  /\ reader[c] = "reading"
  /\ conn[c] # "open"
  /\ reader' = [reader EXCEPT ![c] = "unregistering"]
  /\ UNCHANGED <<tableVars, runVars, sendVars, callVars,
                 conn, writer, frame, left, wire, joined>>

\* ... and then closes the socket.
ReadPumpExit(c) ==
  /\ reader[c] = "closing"
  /\ reader' = [reader EXCEPT ![c] = "done"]
  /\ conn' = [conn EXCEPT ![c] = "closed"]
  /\ UNCHANGED <<tableVars, runVars, sendVars, callVars,
                 writer, frame, left, wire, joined>>

-----------------------------------------------------------------------------
(* WritePump *)

\* return: the deferred function closes the socket.
WritePumpExit(c) ==
  /\ writer' = [writer EXCEPT ![c] = "done"]
  /\ conn' = [conn EXCEPT ![c] = "closed"]
  /\ frame' = [frame EXCEPT ![c] = <<>>]
  /\ left' = [left EXCEPT ![c] = 0]
  /\ UNCHANGED <<tableVars, runVars, closed, panicked, callVars,
                 reader, wire, joined>>

\* A message arrives and NextWriter opens a text frame for it ...
TakeMessage(c) ==
  /\ writer[c] = "select" /\ sendq[c] # <<>>
  /\ conn[c] # "closed"
  /\ writer' = [writer EXCEPT ![c] = "count"]
  /\ frame' = [frame EXCEPT ![c] = <<Head(sendq[c])>>]
  /\ sendq' = [sendq EXCEPT ![c] = Tail(@)]
  /\ UNCHANGED <<tableVars, runVars, closed, panicked, callVars,
                 conn, reader, left, wire, joined>>

\* ... or NextWriter fails and the message is gone.
TakeFails(c) ==
  /\ writer[c] = "select" /\ sendq[c] # <<>>
  /\ conn[c] # "open"
  /\ sendq' = [sendq EXCEPT ![c] = Tail(@)]
  /\ WritePumpExit(c)

\* Mutant: counts the message already taken as well.
QueuedAndTaken(c) == Len(sendq[c]) + 1

Queued(c) == Len(sendq[c])

\* n := len(c.send)
CountQueued(c) ==
  /\ writer[c] = "count"
  /\ writer' = [writer EXCEPT ![c] = "drain"]
  /\ left' = [left EXCEPT ![c] = Queued(c)]
  /\ UNCHANGED <<tableVars, runVars, sendVars, callVars,
                 conn, reader, frame, wire, joined>>

\* w.Write(<-c.send): the receive would block on an empty channel.
DrainOne(c) ==
  /\ writer[c] = "drain" /\ left[c] > 0
  /\ sendq[c] # <<>>
  /\ left' = [left EXCEPT ![c] = @ - 1]
  /\ frame' = [frame EXCEPT ![c] = Append(@, Head(sendq[c]))]
  /\ sendq' = [sendq EXCEPT ![c] = Tail(@)]
  /\ UNCHANGED <<tableVars, runVars, closed, panicked, callVars,
                 conn, reader, writer, wire, joined>>

\* Mutant: only the first message of a batch makes it into the frame.
FramedFirst(c) == SubSeq(frame[c], 1, 1)

Framed(c) == frame[c]

\* w.Close() sends the frame ...
Flush(c) ==
  /\ writer[c] = "drain" /\ left[c] = 0
  /\ conn[c] # "closed"
  /\ writer' = [writer EXCEPT ![c] = "select"]
  /\ wire' = [wire EXCEPT ![c] = Append(@, Framed(c))]
  /\ frame' = [frame EXCEPT ![c] = <<>>]
  /\ UNCHANGED <<tableVars, runVars, sendVars, callVars,
                 conn, reader, left, joined>>

\* ... or fails and the frame is gone.
FlushFails(c) ==
  /\ writer[c] = "drain" /\ left[c] = 0
  /\ conn[c] # "open"
  /\ WritePumpExit(c)
  /\ UNCHANGED sendq

\* The hub closed the channel and it is empty: send a close frame and leave.
CloseSeen(c) ==
  /\ writer[c] = "select" /\ sendq[c] = <<>> /\ c \in closed
  /\ WritePumpExit(c)
  /\ UNCHANGED sendq

\* Mutant: the connection is never pinged.
PingNever(c) == FALSE

\* The ticker fires and the ping cannot be written.
PingFails(c) ==
  /\ writer[c] = "select"
  /\ conn[c] # "open"
  /\ WritePumpExit(c)
  /\ UNCHANGED sendq

-----------------------------------------------------------------------------
(* The specification *)

RunStep(c) ==
  \/ RegisterClient(c) \/ RegisterTunnel(c)
  \/ UnregisterClient(c) \/ UnregisterTunnel(c)
  \/ FanOut(c)

ReadPump(c) == ReadError(c) \/ ReadPumpExit(c)

WritePump(c) ==
  \/ TakeMessage(c) \/ TakeFails(c) \/ CountQueued(c) \/ DrainOne(c)
  \/ Flush(c) \/ FlushFails(c) \/ CloseSeen(c) \/ PingFails(c)

\* Everything the bounds allow has happened and every goroutine has ended.
Terminated ==
  /\ \A c \in Clients : reader[c] = "done" /\ writer[c] = "done"
  /\ published = MaxEvents /\ broadcast = <<>> /\ fanTodo = {}
  /\ \A r \in Requests : call[r] \notin {"idle", "found"}
  /\ UNCHANGED vars

Next ==
  \/ \E c \in Clients :
       ServeWS(c) \/ PeerLost(c) \/ RunStep(c) \/ ReadPump(c) \/ WritePump(c)
  \/ TakeBroadcast
  \/ BroadcastEvent
  \/ \E r \in Requests : ForwardLookup(r) \/ ForwardSend(r)
  \/ Terminated

Spec == Init /\ [][Next]_vars

\* Goroutines that can run do run.  Nothing obliges a peer to connect or to
\* leave, nor a handler to broadcast or to forward.
Fairness ==
  /\ WF_vars(TakeBroadcast)
  /\ \A c \in Clients : /\ WF_vars(RunStep(c))
                        /\ WF_vars(ReadPump(c))
                        /\ WF_vars(WritePump(c))

FairSpec == Spec /\ Fairness

=============================================================================
