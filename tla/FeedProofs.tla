------------------------------ MODULE FeedProofs ------------------------------
(***************************************************************************)
(* Theorems about the dashboards' feed: no event is skipped between the    *)
(* registration of a dashboard and its end, and the hub implements module  *)
(* EventFeed, for any number of dashboards and events and any capacities.  *)
(***************************************************************************)
EXTENDS TunnelProofs

-----------------------------------------------------------------------------
(* Consecutive events *)

\* The next event continues a run of consecutive ones ...
LEMMA AppendConsecutive ==
  ASSUME NEW s \in Seq(Nat), NEW from \in Nat, Consecutive(s, from)
  PROVE  Consecutive(Append(s, from + Len(s) + 1), from)
<1> DEFINE e == from + Len(s) + 1
           t == Append(s, e)
<1>1. Len(s) \in Nat /\ e \in Nat /\ DOMAIN s = 1 .. Len(s)
  BY LenProperties
<1>2. /\ DOMAIN t = 1 .. Len(s) + 1
      /\ \A i \in 1 .. Len(s) : t[i] = s[i]
      /\ t[Len(s) + 1] = e
  BY <1>1, AppendProperties, LenProperties
<1> HIDE DEF t
<1>3. Consecutive(t, from)
  BY <1>1, <1>2 DEF Consecutive
<1> QED
  BY <1>3 DEF t

\* ... taking the first one leaves a run that starts one later ...
LEMMA TailConsecutive ==
  ASSUME NEW s \in Seq(Nat), NEW from \in Nat, Consecutive(s, from), s # <<>>
  PROVE  /\ Head(s) = from + 1
         /\ Tail(s) \in Seq(Nat) /\ Len(Tail(s)) = Len(s) - 1
         /\ Consecutive(Tail(s), from + 1)
<1> DEFINE t == Tail(s)
<1>1. /\ Len(s) \in Nat \ {0} /\ DOMAIN s = 1 .. Len(s) /\ Head(s) = s[1]
      /\ t \in Seq(Nat) /\ Len(t) = Len(s) - 1 /\ DOMAIN t = 1 .. Len(s) - 1
      /\ \A i \in 1 .. Len(s) - 1 : t[i] = s[i + 1]
  BY EmptySeq, LenProperties, HeadTailProperties
<1> HIDE DEF t
<1>2. Head(s) = from + 1
  <2>1. 1 \in DOMAIN s
    BY <1>1
  <2> QED
    BY <1>1, <2>1 DEF Consecutive
<1>3. ASSUME NEW i \in DOMAIN t PROVE t[i] = from + 1 + i
  <2>1. i \in Nat /\ i + 1 \in DOMAIN s /\ t[i] = s[i + 1]
    BY <1>1
  <2> QED
    BY <2>1 DEF Consecutive
<1>4. Consecutive(t, from + 1)
  BY <1>3 DEF Consecutive
<1> QED
  BY <1>1, <1>2, <1>4 DEF t

\* ... and a run is the interval between its ends.
LEMMA ConsecutiveRange ==
  ASSUME NEW s \in Seq(Nat), NEW from \in Nat, Consecutive(s, from)
  PROVE  /\ Elements(s) = from + 1 .. from + Len(s)
         /\ s # <<>> => LastOf(s) = from + Len(s)
<1>1. Len(s) \in Nat /\ DOMAIN s = 1 .. Len(s) /\ (s # <<>> => Len(s) # 0)
  BY EmptySeq, LenProperties
<1>2. ASSUME NEW x \in Elements(s) PROVE x \in from + 1 .. from + Len(s)
  BY <1>1, <1>2 DEF Elements, Consecutive
<1>3. ASSUME NEW x \in from + 1 .. from + Len(s) PROVE x \in Elements(s)
  <2>1. x - from \in DOMAIN s /\ s[x - from] = x
    BY <1>1 DEF Consecutive
  <2> QED
    BY <2>1 DEF Elements
<1>4. s # <<>> => LastOf(s) = from + Len(s)
  BY <1>1 DEF LastOf, Consecutive
<1> QED
  BY <1>2, <1>3, <1>4

\* Frames that follow one another without a gap, from event j on, and their end.
GapFree(w, j) ==
  \A k \in DOMAIN w :
    w[k] # <<>> /\ Consecutive(w[k], IF k = 1 THEN j ELSE LastOf(w[k - 1]))

End(w, j) == IF w = <<>> THEN j ELSE LastOf(LastOf(w))

\* A frame that starts where the others end continues them.
LEMMA AppendGapFree ==
  ASSUME NEW w \in Seq(Seq(Nat)), NEW f \in Seq(Nat), NEW j, NEW u \in Nat,
         GapFree(w, j), End(w, j) = u, Consecutive(f, u), f # <<>>
  PROVE  /\ Append(w, f) \in Seq(Seq(Nat)) /\ Append(w, f) # <<>>
         /\ GapFree(Append(w, f), j)
         /\ End(Append(w, f), j) = u + Len(f)
<1> DEFINE v == Append(w, f)
           n == Len(w)
<1>1. /\ v \in Seq(Seq(Nat)) /\ v # <<>> /\ Len(v) = n + 1 /\ n \in Nat /\ n = Len(w)
      /\ \A k \in 1 .. n : v[k] = w[k]
      /\ v[n + 1] = f
      /\ DOMAIN v = 1 .. n + 1 /\ DOMAIN w = 1 .. n
  BY AppendProperties, LenProperties
<1>2. (w = <<>>) <=> (n = 0)
  BY EmptySeq
<1> HIDE DEF v, n
<1>3. LastOf(f) = u + Len(f)
  BY ConsecutiveRange
<1>4. End(v, j) = u + Len(f)
  BY <1>1, <1>3 DEF End, LastOf
<1>5. ASSUME NEW k \in DOMAIN v
      PROVE  v[k] # <<>> /\ Consecutive(v[k], IF k = 1 THEN j ELSE LastOf(v[k - 1]))
  <2>0. k \in 1 .. n \/ k = n + 1
    BY <1>1
  <2>1. k # 1 => v[k - 1] = w[k - 1]
    <3>1. k # 1 => k - 1 \in 1 .. n
      BY <1>1
    <3> QED
      BY <1>1, <3>1
  <2>2. CASE k \in 1 .. n
    BY <1>1, <2>1, <2>2 DEF GapFree
  <2>3. CASE k = n + 1
    <3>1. u = IF k = 1 THEN j ELSE LastOf(v[k - 1])
      BY <1>1, <1>2, <2>1, <2>3 DEF End, LastOf
    <3> QED
      BY <1>1, <2>3, <3>1
  <2> QED
    BY <2>0, <2>2, <2>3
<1>6. GapFree(v, j)
  BY <1>5 DEF GapFree
<1> QED
  BY <1>1, <1>4, <1>6 DEF v

-----------------------------------------------------------------------------
(* The events that Run has yet to dispatch *)

\* The broadcast channel holds the events that follow the dispatched ones, and
\* the loop sends the one dispatched last.
QueueInv ==
  /\ Consecutive(broadcast, Dispatched)
  /\ fanTodo # {} => message = Dispatched

LEMMA QueueStep == TypeOK /\ QueueInv /\ [Next]_vars => QueueInv'
<1> SUFFICES ASSUME TypeOK, QueueInv, [Next]_vars PROVE QueueInv'
  OBVIOUS
<1>0. /\ broadcast \in Seq(Nat) /\ Len(broadcast) \in Nat /\ published \in Nat
      /\ Dispatched \in Nat /\ published = Dispatched + Len(broadcast)
  BY DEF TypeOK, RunOK, Dispatched
<1>1. CASE UNCHANGED <<broadcast, published, message>> /\ fanTodo' \subseteq fanTodo
  BY <1>1 DEF QueueInv, Consecutive, Dispatched
<1>2. CASE TakeBroadcast
  <2>1. /\ broadcast # <<>> /\ message' = Head(broadcast)
        /\ broadcast' = Tail(broadcast) /\ published' = published
    BY <1>2 DEF TakeBroadcast
  <2>2. /\ Head(broadcast) = Dispatched + 1
        /\ Len(Tail(broadcast)) = Len(broadcast) - 1
        /\ Consecutive(Tail(broadcast), Dispatched + 1)
    BY <1>0, <2>1, TailConsecutive DEF QueueInv
  <2>3. Dispatched' = Dispatched + 1
    BY <1>0, <2>1, <2>2 DEF Dispatched
  <2>4. Consecutive(broadcast, Dispatched)'
    BY <2>1, <2>2, <2>3 DEF Consecutive
  <2> QED
    BY <2>1, <2>2, <2>3, <2>4 DEF QueueInv
<1>3. CASE BroadcastEvent
  <2>1. /\ published' = published + 1 /\ broadcast' = Append(broadcast, published + 1)
        /\ UNCHANGED <<fanTodo, message>>
    BY <1>3 DEF BroadcastEvent
  <2>2. Consecutive(Append(broadcast, published + 1), Dispatched)
    BY <1>0, AppendConsecutive DEF QueueInv
  <2>3. Len(broadcast') = Len(broadcast) + 1
    BY <1>0, <2>1, AppendProperties
  <2>4. Dispatched' = Dispatched
    BY <1>0, <2>1, <2>3 DEF Dispatched
  <2>5. Consecutive(broadcast, Dispatched)'
    BY <2>1, <2>2, <2>4 DEF Consecutive
  <2> QED
    BY <2>1, <2>4, <2>5 DEF QueueInv
<1>4. ASSUME NEW c \in Clients,
             \/ ServeWS(c) \/ PeerLost(c) \/ RunStep(c) \/ ReadPump(c) \/ WritePump(c)
      PROVE  UNCHANGED <<broadcast, published, message>> /\ fanTodo' \subseteq fanTodo
  BY <1>4 DEF ServeWS, PeerLost, RunStep, RegisterClient, RegisterTunnel, Registered,
     UnregisterClient, UnregisterTunnel, Unregistered, FanOut, ReadPump, ReadError,
     ReadPumpExit, WritePump, TakeMessage, TakeFails, CountQueued, DrainOne, Flush,
     FlushFails, CloseSeen, PingFails, WritePumpExit, runVars
<1>5. ASSUME UNCHANGED vars \/ \E r \in Requests : ForwardLookup(r) \/ ForwardSend(r)
      PROVE  UNCHANGED <<broadcast, published, message>> /\ fanTodo' \subseteq fanTodo
  BY <1>5 DEF ForwardLookup, ForwardSend, vars, runVars
<1> QED
  BY <1>1, <1>2, <1>3, <1>4, <1>5 DEF Next, Terminated

-----------------------------------------------------------------------------
(* What a dashboard has been sent *)

\* The last event that a registered dashboard's channel has got.
Due(c) == Dispatched - (IF c \in fanTodo THEN 1 ELSE 0)

\* Socket, frame and channel of a dashboard are one run of events that starts
\* after its registration, ends before what was dispatched, and is complete as
\* long as the dashboard is registered.
FeedOK(c) ==
  /\ sendq[c] \in Seq(Nat) /\ frame[c] \in Seq(Nat) /\ wire[c] \in Seq(Seq(Nat))
  /\ WrittenUpTo(c) \in Nat /\ joined[c] <= WrittenUpTo(c)
  /\ OnWire(c) = joined[c] + 1 .. WrittenUpTo(c)
  /\ WireGapFree(c) /\ PendingGapFree(c)
  /\ writer[c] # "done" => WrittenUpTo(c) + Len(frame[c]) + Len(sendq[c]) <= Dispatched
  /\ writer[c] = "off" => sendq[c] = <<>> /\ wire[c] = <<>>
  /\ c \in clients /\ writer[c] # "done" =>
       WrittenUpTo(c) + Len(frame[c]) + Len(sendq[c]) = Due(c)

FeedInv == \A c \in Dashboards : FeedOK(c)

\* Steps that leave what a dashboard has been sent alone; it may leave the
\* table, its pump may end, Run may dispatch an event and be about to send it.
LEMMA FeedFrame ==
  ASSUME TypeOK, NEW c \in Dashboards, FeedOK(c),
         sendq'[c] = sendq[c], frame'[c] = frame[c], wire'[c] = wire[c],
         joined'[c] = joined[c],
         writer'[c] # "done" => writer[c] # "done",
         writer'[c] = "off" => writer[c] = "off",
         Dispatched' \in Nat, Dispatched <= Dispatched',
         c \in clients' => c \in clients /\ Due(c)' = Due(c)
  PROVE  FeedOK(c)'
<1>1. Dispatched \in Nat /\ Len(frame[c]) \in Nat /\ Len(sendq[c]) \in Nat
      /\ WrittenUpTo(c) \in Nat
  BY LenProperties DEF TypeOK, RunOK, Dispatched, FeedOK
<1>2. WrittenUpTo(c)' = WrittenUpTo(c) /\ OnWire(c)' = OnWire(c)
  BY DEF WrittenUpTo, OnWire
<1>3. WireGapFree(c)' /\ PendingGapFree(c)'
  BY <1>2 DEF FeedOK, WireGapFree, PendingGapFree, Consecutive
<1> QED
  BY <1>1, <1>2, <1>3 DEF FeedOK

\* A pump that ends loses what it has not written.
LEMMA FeedEnd ==
  ASSUME NEW c \in Dashboards, FeedOK(c),
         sendq'[c] \in Seq(Nat), frame'[c] \in Seq(Nat), wire'[c] = wire[c],
         joined'[c] = joined[c], writer'[c] = "done"
  PROVE  FeedOK(c)'
<1>1. WrittenUpTo(c)' = WrittenUpTo(c) /\ OnWire(c)' = OnWire(c)
  BY DEF WrittenUpTo, OnWire
<1>2. WireGapFree(c)' /\ PendingGapFree(c)'
  BY DEF FeedOK, WireGapFree, PendingGapFree, Consecutive
<1> QED
  BY <1>1, <1>2 DEF FeedOK

\* Run registers a dashboard: its feed starts after the last dispatched event.
LEMMA FeedRegister ==
  ASSUME TypeOK, PumpInv, NEW c \in Dashboards, FeedOK(c), RegisterClient(c)
  PROVE  FeedOK(c)'
<1>1. /\ sendq'[c] = <<>> /\ frame'[c] = <<>> /\ wire'[c] = <<>>
      /\ joined'[c] = Dispatched /\ writer'[c] = "select"
      /\ Dispatched' = Dispatched /\ Dispatched \in Nat /\ fanTodo' = {}
  BY DEF RegisterClient, Registered, RunIdle, TypeOK, RunOK, PumpsOK, Dashboards, PumpInv,
         FeedOK, Dispatched, runVars, sendVars
<1>2. WrittenUpTo(c)' = Dispatched /\ OnWire(c)' = {}
  BY <1>1 DEF WrittenUpTo, OnWire
<1>3. WireGapFree(c)' /\ PendingGapFree(c)' /\ Due(c)' = Dispatched /\ Len(<<>>) = 0
  BY <1>1 DEF WireGapFree, PendingGapFree, Consecutive, Due
<1>4. <<>> \in Seq(Nat) /\ <<>> \in Seq(Seq(Nat))
  OBVIOUS
<1> QED
  BY <1>1, <1>2, <1>3, <1>4 DEF FeedOK

\* Run sends the event it dispatched last to a dashboard that has all events
\* before it.
LEMMA FeedSend ==
  ASSUME TypeOK, RunInv, QueueInv, PumpInv, NEW c \in Dashboards, FeedOK(c),
         c \in fanTodo, fanTodo' = fanTodo \ {c},
         sendq' = [sendq EXCEPT ![c] = Append(@, message)],
         UNCHANGED <<clients, broadcast, published, frame, wire, joined, writer>>
  PROVE  FeedOK(c)'
<1> DEFINE q == Append(sendq[c], message)
           u == WrittenUpTo(c) + Len(frame[c])
<1>1. /\ Dispatched \in Nat /\ Dispatched' = Dispatched /\ message = Dispatched
      /\ sendq \in [Clients -> Seq(Messages)] /\ c \in Clients
  BY DEF TypeOK, SendsOK, RunOK, Dispatched, Dashboards, QueueInv
<1>2. c \in clients /\ writer[c] # "off"
  BY <1>1 DEF RunInv, ClientsLive, PumpInv
<1>3. Due(c) = Dispatched - 1 /\ Due(c)' = Dispatched
  BY <1>1 DEF Due
<1>4. /\ sendq[c] \in Seq(Nat) /\ Len(sendq[c]) \in Nat /\ u \in Nat
      /\ writer[c] # "done" => u + Len(sendq[c]) = Due(c) /\ Consecutive(sendq[c], u)
  BY <1>2, LenProperties DEF FeedOK, PendingGapFree
<1> HIDE DEF u
<1>5. ASSUME writer[c] # "done" PROVE message = u + Len(sendq[c]) + 1
  BY <1>1, <1>3, <1>4, <1>5
<1>6. q \in Seq(Nat) /\ Len(q) = Len(sendq[c]) + 1 /\ sendq'[c] = q
  BY <1>1, <1>4, AppendProperties
<1>7. ASSUME writer[c] # "done" PROVE Consecutive(q, u)
  BY <1>4, <1>5, <1>7, AppendConsecutive
<1>8. ASSUME writer[c] # "done" PROVE u + Len(q) = Dispatched
  BY <1>1, <1>3, <1>4, <1>6, <1>8
<1> HIDE DEF q
<1>9. /\ WrittenUpTo(c)' = WrittenUpTo(c) /\ OnWire(c)' = OnWire(c)
      /\ u = WrittenUpTo(c) + Len(frame[c])
  BY DEF WrittenUpTo, OnWire, u
<1>10. WireGapFree(c)' /\ PendingGapFree(c)'
  BY <1>6, <1>7, <1>9 DEF FeedOK, WireGapFree, PendingGapFree, Consecutive
<1> QED
  BY <1>1, <1>2, <1>3, <1>6, <1>8, <1>9, <1>10 DEF FeedOK

\* WritePump moves the first event of the channel to the end of the frame.
LEMMA FeedDrain ==
  ASSUME TypeOK, NEW c \in Dashboards, FeedOK(c), sendq[c] # <<>>,
         sendq'[c] = Tail(sendq[c]),
         frame'[c] = Append(frame[c], Head(sendq[c])),
         UNCHANGED <<clients, broadcast, fanTodo, published, wire, joined>>,
         writer[c] \notin {"off", "done"}, writer'[c] \notin {"off", "done"}
  PROVE  FeedOK(c)'
<1> DEFINE q == Tail(sendq[c])
           f == Append(frame[c], Head(sendq[c]))
           u == WrittenUpTo(c)
           n == Len(frame[c])
           m == Len(sendq[c])
<1>1. /\ sendq[c] \in Seq(Nat) /\ frame[c] \in Seq(Nat) /\ u \in Nat /\ n \in Nat
      /\ m \in Nat /\ n = Len(frame[c]) /\ m = Len(sendq[c]) /\ Dispatched \in Nat
      /\ Consecutive(frame[c], u) /\ Consecutive(sendq[c], u + n)
      /\ u + n + m <= Dispatched /\ (c \in clients => u + n + m = Due(c))
  BY LenProperties DEF FeedOK, PendingGapFree, TypeOK, RunOK, Dispatched
<1> HIDE DEF n, m, u
<1>2. /\ Head(sendq[c]) = u + n + 1 /\ q \in Seq(Nat) /\ Len(q) = m - 1
      /\ Consecutive(q, u + n + 1)
  BY <1>1, TailConsecutive
<1>3. f \in Seq(Nat) /\ Len(f) = n + 1
  BY <1>1, <1>2, AppendProperties
<1>4. Consecutive(f, u)
  BY <1>1, <1>2, AppendConsecutive
<1>5. sendq'[c] = q /\ frame'[c] = f
  OBVIOUS
<1> HIDE DEF q, f
<1>6. u + Len(f) = u + n + 1 /\ u + Len(f) + Len(q) = u + n + m
  <2>1. u \in Nat /\ n \in Nat /\ m \in Nat
    BY <1>1
  <2>2. Len(f) = n + 1 /\ Len(q) = m - 1
    BY <1>2, <1>3
  <2> QED
    BY <2>1, <2>2
<1>7. /\ WrittenUpTo(c)' = u /\ WrittenUpTo(c) = u /\ OnWire(c)' = OnWire(c)
      /\ Dispatched' = Dispatched /\ Due(c)' = Due(c)
  BY DEF WrittenUpTo, OnWire, Dispatched, Due, u
<1>8. WireGapFree(c)'
  BY <1>7 DEF FeedOK, WireGapFree, Consecutive
<1>9. PendingGapFree(c)'
  BY <1>2, <1>4, <1>5, <1>6, <1>7 DEF PendingGapFree, Consecutive
<1> QED
  BY <1>1, <1>2, <1>3, <1>5, <1>6, <1>7, <1>8, <1>9 DEF FeedOK

\* WritePump writes the frame: the socket now ends where the frame ended.
LEMMA FeedFlush ==
  ASSUME TypeOK, NEW c \in Dashboards, FeedOK(c), frame[c] # <<>>,
         sendq' = sendq, frame'[c] = <<>>, wire'[c] = Append(wire[c], frame[c]),
         UNCHANGED <<clients, broadcast, fanTodo, published, joined>>,
         writer[c] \notin {"off", "done"}, writer'[c] \notin {"off", "done"}
  PROVE  /\ FeedOK(c)'
         /\ WrittenUpTo(c)' = WrittenUpTo(c) + Len(frame[c])
         /\ Len(frame[c]) \in Nat \ {0}
<1> DEFINE w == wire[c]
           v == Append(wire[c], frame[c])
           u == WrittenUpTo(c)
           n == Len(frame[c])
           m == Len(sendq[c])
<1>1. /\ sendq[c] \in Seq(Nat) /\ frame[c] \in Seq(Nat) /\ u \in Nat /\ n \in Nat \ {0}
      /\ m \in Nat /\ n = Len(frame[c]) /\ m = Len(sendq[c]) /\ Dispatched \in Nat
      /\ Consecutive(frame[c], u) /\ Consecutive(sendq[c], u + n)
      /\ u + n + m <= Dispatched /\ (c \in clients => u + n + m = Due(c))
      /\ joined[c] \in Nat /\ joined[c] <= u
      /\ OnWire(c) = joined[c] + 1 .. u
      /\ w \in Seq(Seq(Nat))
  BY LenProperties, EmptySeq
     DEF FeedOK, PendingGapFree, TypeOK, RunOK, PumpsOK, Dispatched, Dashboards
<1> HIDE DEF n, m, u
<1>2. Elements(frame[c]) = u + 1 .. u + n
  BY <1>1, ConsecutiveRange
<1>3. GapFree(w, joined[c]) /\ End(w, joined[c]) = u
  BY DEF FeedOK, WireGapFree, WrittenUpTo, GapFree, End, u
<1>4. /\ v \in Seq(Seq(Nat)) /\ v # <<>>
      /\ GapFree(v, joined[c]) /\ End(v, joined[c]) = u + n
  <2>1. /\ w \in Seq(Seq(Nat)) /\ frame[c] \in Seq(Nat) /\ u \in Nat
        /\ Consecutive(frame[c], u) /\ n = Len(frame[c])
    BY <1>1
  <2>2. GapFree(w, joined[c]) /\ End(w, joined[c]) = u
    BY <1>3
  <2> HIDE DEF w
  <2>3. /\ Append(w, frame[c]) \in Seq(Seq(Nat)) /\ Append(w, frame[c]) # <<>>
        /\ GapFree(Append(w, frame[c]), joined[c])
        /\ End(Append(w, frame[c]), joined[c]) = u + n
    BY <2>1, <2>2, AppendGapFree
  <2> QED
    BY <2>3 DEF w
<1>5. InFrames(v) = InFrames(w) \union Elements(frame[c])
  BY <1>1, AppendFrame
<1>6. /\ wire'[c] = v /\ joined'[c] = joined[c] /\ Dispatched' = Dispatched
      /\ Due(c)' = Due(c) /\ OnWire(c) = InFrames(w)
  BY DEF Dispatched, Due, OnWire, InFrames
<1> HIDE DEF v, w
<1>7. WireGapFree(c)' /\ WrittenUpTo(c)' = u + n /\ OnWire(c)' = InFrames(v)
  BY <1>4, <1>6 DEF WireGapFree, WrittenUpTo, GapFree, End, OnWire, InFrames, Consecutive,
                    LastOf
<1>8. OnWire(c)' = joined[c] + 1 .. u + n
  <2>1. OnWire(c)' = (joined[c] + 1 .. u) \union (u + 1 .. u + n)
    BY <1>1, <1>2, <1>5, <1>6, <1>7
  <2>2. (joined[c] + 1 .. u) \union (u + 1 .. u + n) = joined[c] + 1 .. u + n
    BY <1>1
  <2> QED
    BY <2>1, <2>2
<1>9. PendingGapFree(c)'
  <2>1. Len(<<>>) = 0 /\ sendq'[c] = sendq[c]
    OBVIOUS
  <2> QED
    BY <1>1, <1>7, <2>1 DEF PendingGapFree, Consecutive
<1>10. /\ sendq'[c] = sendq[c] /\ m = Len(sendq'[c]) /\ Len(frame'[c]) = 0
       /\ frame'[c] \in Seq(Nat) /\ clients' = clients
  BY <1>1
<1>11. FeedOK(c)'
  <2>1. /\ u + n \in Nat /\ joined[c] <= u + n /\ u + n + 0 + m = u + n + m
    BY <1>1
  <2>2. u + n + 0 + m <= Dispatched /\ (c \in clients => u + n + 0 + m = Due(c))
    BY <1>1, <2>1
  <2> QED
    BY <1>1, <1>4, <1>6, <1>7, <1>8, <1>9, <1>10, <2>1, <2>2 DEF FeedOK
<1> QED
  BY <1>1, <1>7, <1>11 DEF u

\* One step of a dashboard's WritePump.
LEMMA FeedPump ==
  ASSUME TypeOK, PumpInv, NEW c \in Dashboards, FeedOK(c), WritePump(c)
  PROVE  FeedOK(c)'
<1>1. /\ c \in Clients /\ sendq \in [Clients -> Seq(Messages)]
      /\ frame \in [Clients -> Seq(Messages)] /\ wire \in [Clients -> Seq(Seq(Messages))]
      /\ writer \in [Clients -> {"off", "select", "count", "drain", "done"}]
      /\ sendq[c] \in Seq(Nat) /\ frame[c] \in Seq(Nat)
      /\ <<>> \in Seq(Nat)
  BY DEF Dashboards, TypeOK, SendsOK, PumpsOK, FeedOK
<1>2. UNCHANGED <<clients, broadcast, fanTodo, published, joined>>
  BY DEF WritePump, TakeMessage, TakeFails, CountQueued, DrainOne, Flush, FlushFails,
         CloseSeen, PingFails, WritePumpExit, tableVars, runVars
<1>3. CASE TakeMessage(c) \/ DrainOne(c)
  <2>1. /\ sendq[c] # <<>> /\ sendq'[c] = Tail(sendq[c]) /\ wire' = wire
        /\ writer[c] \notin {"off", "done"} /\ writer'[c] \notin {"off", "done"}
    BY <1>1, <1>3 DEF TakeMessage, DrainOne
  <2>2. frame'[c] = Append(frame[c], Head(sendq[c]))
    <3>1. CASE TakeMessage(c)
      <4>1. frame[c] = <<>> /\ frame'[c] = <<Head(sendq[c])>>
        BY <1>1, <3>1 DEF TakeMessage, PumpInv
      <4>2. <<Head(sendq[c])>> = Append(<<>>, Head(sendq[c]))
        OBVIOUS
      <4> QED
        BY <4>1, <4>2
    <3>2. CASE DrainOne(c)
      BY <1>1, <3>2 DEF DrainOne
    <3> QED
      BY <1>3, <3>1, <3>2
  <2> QED
    BY <1>2, <2>1, <2>2, FeedDrain
<1>4. CASE Flush(c)
  <2>1. /\ sendq' = sendq /\ frame'[c] = <<>> /\ wire'[c] = Append(wire[c], frame[c])
        /\ writer[c] \notin {"off", "done"} /\ writer'[c] \notin {"off", "done"}
    BY <1>1, <1>4 DEF Flush, Framed, sendVars
  <2>2. frame[c] # <<>>
    BY <1>1, <1>4 DEF Flush, PumpInv
  <2> QED
    BY <1>2, <2>1, <2>2, FeedFlush
<1>5. CASE /\ WritePumpExit(c)
           /\ \/ sendq' = sendq
              \/ sendq[c] # <<>> /\ sendq' = [sendq EXCEPT ![c] = Tail(@)]
  <2>1. sendq'[c] \in Seq(Nat)
    <3>1. CASE sendq' = sendq
      BY <1>1, <3>1
    <3>2. CASE sendq[c] # <<>> /\ sendq' = [sendq EXCEPT ![c] = Tail(@)]
      <4>1. Tail(sendq[c]) \in Seq(Nat)
        BY <1>1, <3>2, HeadTailProperties
      <4> QED
        BY <1>1, <3>2, <4>1
    <3> QED
      BY <1>5, <3>1, <3>2
  <2>2. frame'[c] = <<>> /\ wire' = wire /\ writer'[c] = "done"
    BY <1>1, <1>5 DEF WritePumpExit
  <2> QED
    BY <1>1, <1>2, <2>1, <2>2, FeedEnd
<1>6. CASE CountQueued(c)
  <2>1. /\ UNCHANGED <<sendq, frame, wire>>
        /\ writer[c] # "done" /\ writer'[c] # "off"
        /\ Dispatched' = Dispatched /\ Dispatched \in Nat /\ Due(c)' = Due(c)
    BY <1>1, <1>2, <1>6 DEF CountQueued, sendVars, Dispatched, Due, TypeOK, RunOK
  <2> QED
    BY <1>2, <2>1, FeedFrame
<1> QED
  BY <1>3, <1>4, <1>5, <1>6 DEF WritePump, TakeFails, FlushFails, CloseSeen, PingFails

\* A step that neither dispatches an event nor touches what c has been sent.
LEMMA FeedIdle ==
  ASSUME TypeOK, NEW c \in Dashboards, FeedOK(c),
         sendq'[c] = sendq[c], frame'[c] = frame[c], wire'[c] = wire[c],
         joined'[c] = joined[c], writer'[c] = writer[c],
         Dispatched' = Dispatched,
         c \in clients' => c \in clients, c \in fanTodo' <=> c \in fanTodo
  PROVE  FeedOK(c)'
<1>1. Dispatched \in Nat /\ Due(c)' = Due(c)
  BY DEF TypeOK, RunOK, Dispatched, Due
<1> QED
  BY <1>1, FeedFrame

LEMMA FeedStep ==
  ASSUME TypeOK, RunInv, PumpInv, QueueInv, NEW c \in Dashboards, FeedOK(c), [Next]_vars
  PROVE  FeedOK(c)'
<1>1. CASE TakeBroadcast
  <2>1. /\ fanTodo = {} /\ fanTodo' = clients /\ UNCHANGED <<clients, published>>
        /\ broadcast # <<>> /\ broadcast' = Tail(broadcast)
        /\ UNCHANGED <<sendq, frame, wire, joined, writer>>
    BY <1>1 DEF TakeBroadcast, RunIdle, tableVars, sendVars, pumpVars
  <2>2. Dispatched \in Nat /\ Dispatched' = Dispatched + 1
    <3>1. /\ broadcast \in Seq(Nat) /\ published \in Nat /\ Len(broadcast) <= published
          /\ Len(broadcast) \in Nat
      BY DEF TypeOK, RunOK
    <3>2. Len(Tail(broadcast)) = Len(broadcast) - 1
      BY <2>1, <3>1, HeadTailProperties
    <3> QED
      BY <2>1, <3>1, <3>2 DEF Dispatched
  <2>3. c \in clients => Due(c)' = Due(c)
    BY <2>1, <2>2 DEF Due
  <2> QED
    BY <2>1, <2>2, <2>3, FeedFrame
<1>2. CASE BroadcastEvent
  <2>1. /\ published' = published + 1 /\ broadcast' = Append(broadcast, published + 1)
        /\ UNCHANGED <<sendq, frame, wire, joined, writer, clients, fanTodo>>
    BY <1>2 DEF BroadcastEvent, tableVars, sendVars, pumpVars
  <2>2. Dispatched' = Dispatched
    <3>1. broadcast \in Seq(Nat) /\ published \in Nat /\ Len(broadcast) \in Nat
      BY DEF TypeOK, RunOK
    <3>2. Len(Append(broadcast, published + 1)) = Len(broadcast) + 1
      BY <3>1, AppendProperties
    <3> QED
      BY <2>1, <3>1, <3>2 DEF Dispatched
  <2> QED
    BY <2>1, <2>2, FeedIdle
<1>3. ASSUME NEW d \in Clients, RegisterClient(d) \/ RegisterTunnel(d)
      PROVE  FeedOK(c)'
  <2>1. CASE d = c
    BY <1>3, <2>1, FeedRegister DEF RegisterTunnel, Dashboards
  <2>2. CASE d # c
    <3>1. /\ UNCHANGED <<sendq, frame, wire>> /\ writer'[c] = writer[c]
          /\ joined'[c] = joined[c] /\ Dispatched' = Dispatched /\ fanTodo' = fanTodo
          /\ c \in clients' => c \in clients
      BY <1>3, <2>2 DEF RegisterClient, RegisterTunnel, Registered, sendVars, runVars,
                        TypeOK, PumpsOK, Dashboards, Dispatched
    <3> QED
      BY <3>1, FeedIdle
  <2> QED
    BY <2>1, <2>2
<1>4. ASSUME NEW d \in Clients, UnregisterClient(d) \/ UnregisterTunnel(d)
      PROVE  FeedOK(c)'
  <2>1. /\ UNCHANGED <<sendq, frame, wire, joined, writer, fanTodo>>
        /\ Dispatched' = Dispatched /\ clients' \subseteq clients
    BY <1>4 DEF UnregisterClient, UnregisterTunnel, Unregistered, runVars, Dispatched
  <2> QED
    BY <2>1, FeedIdle
<1>5. ASSUME NEW d \in Clients, FanOut(d) PROVE FeedOK(c)'
  <2>1. /\ d \in fanTodo /\ fanTodo' = fanTodo \ {d} /\ d \notin closed
        /\ UNCHANGED <<broadcast, published, frame, wire, joined, writer>>
        /\ Dispatched' = Dispatched /\ Dispatched \in Nat
    BY <1>5 DEF FanOut, pumpVars, Dispatched, RunInv, ClosedIsGone, ClientsLive, TypeOK,
                RunOK
  <2>2. CASE sendq' = [sendq EXCEPT ![d] = Append(@, message)] /\ clients' = clients
    <3>1. CASE d = c
      BY <2>1, <2>2, <3>1, FeedSend
    <3>2. CASE d # c
      <4>1. sendq'[c] = sendq[c] /\ (c \in fanTodo' <=> c \in fanTodo)
        BY <2>1, <2>2, <3>2 DEF TypeOK, SendsOK, Dashboards
      <4> QED
        BY <2>1, <2>2, <4>1, FeedIdle
    <3> QED
      BY <3>1, <3>2
  <2>3. CASE sendq' = sendq /\ clients' = clients \ {d}
    <3>1. c \in clients' => c \in clients /\ Due(c)' = Due(c)
      BY <2>1, <2>3 DEF Due
    <3> QED
      BY <2>1, <2>3, <3>1, FeedFrame
  <2> QED
    BY <1>5, <2>1, <2>2, <2>3 DEF FanOut, DropSlow
<1>6. ASSUME NEW d \in Clients, WritePump(d) PROVE FeedOK(c)'
  <2>1. CASE d = c
    BY <1>6, <2>1, FeedPump
  <2>2. CASE d # c
    <3>1. /\ sendq'[c] = sendq[c] /\ frame'[c] = frame[c] /\ wire'[c] = wire[c]
          /\ writer'[c] = writer[c] /\ UNCHANGED <<joined, clients, fanTodo>>
          /\ Dispatched' = Dispatched
      BY <1>6, <2>2
         DEF WritePump, TakeMessage, TakeFails, CountQueued, DrainOne, Flush, FlushFails,
             CloseSeen, PingFails, WritePumpExit, sendVars, tableVars, runVars, TypeOK,
             SendsOK, PumpsOK, Dashboards, Dispatched
    <3> QED
      BY <3>1, FeedIdle
  <2> QED
    BY <2>1, <2>2
<1>7. ASSUME NEW r \in Requests, ForwardSend(r) PROVE FeedOK(c)'
  <2>1. /\ UNCHANGED <<frame, wire, writer, joined, clients, fanTodo>>
        /\ Dispatched' = Dispatched
    BY <1>7 DEF ForwardSend, pumpVars, tableVars, runVars, Dispatched
  <2>2. sendq'[c] = sendq[c]
    <3>1. target[r] # c \/ target[r] = NoClient
      BY DEF TypeOK, CallsOK, Dashboards
    <3>2. c # NoClient
      BY HubAssumption DEF Dashboards
    <3> QED
      BY <1>7, <3>1, <3>2 DEF ForwardSend, TypeOK, SendsOK, Dashboards
  <2> QED
    BY <2>1, <2>2, FeedIdle
<1>8. CASE UNCHANGED <<sendq, frame, wire, writer, joined, clients, fanTodo, broadcast,
                       published>>
  BY <1>8, FeedIdle DEF Dispatched
<1>9. ASSUME \/ \E d \in Clients : ServeWS(d) \/ PeerLost(d) \/ ReadPump(d)
             \/ \E r \in Requests : ForwardLookup(r)
             \/ UNCHANGED vars
      PROVE  UNCHANGED <<sendq, frame, wire, writer, joined, clients, fanTodo, broadcast,
                         published>>
  BY <1>9 DEF ServeWS, PeerLost, ReadPump, ReadError, ReadPumpExit, ForwardLookup, vars,
     sendVars, pumpVars, tableVars, runVars
<1> QED
  BY <1>1, <1>2, <1>3, <1>4, <1>5, <1>6, <1>7, <1>8, <1>9 DEF Next, RunStep, Terminated

\* Every dashboard's feed is a run without gaps (the inductive strengthening of
\* the two theorems below).
THEOREM FeedInvariant == Spec => [](QueueInv /\ FeedInv)
<1>1. ASSUME Init PROVE QueueInv /\ FeedInv
  <2>1. QueueInv
    BY <1>1 DEF Init, QueueInv, Consecutive
  <2>2. ASSUME NEW c \in Dashboards PROVE FeedOK(c)
    <3>0. Len(<<>>) = 0 /\ <<>> \in Seq(Nat) /\ <<>> \in Seq(Seq(Nat))
      OBVIOUS
    <3>1. /\ sendq[c] = <<>> /\ frame[c] = <<>> /\ wire[c] = <<>> /\ joined[c] = 0
          /\ writer[c] = "off" /\ c \notin clients /\ published = 0 /\ broadcast = <<>>
      BY <1>1 DEF Init, Dashboards
    <3>6. Dispatched = 0
      <4>1. Len(broadcast) = 0
        BY <3>0, <3>1
      <4>2. published = 0 /\ 0 - 0 = 0
        BY <3>1
      <4>3. published - Len(broadcast) = 0 - 0
        BY <4>1, <4>2
      <4> QED
        BY <4>2, <4>3 DEF Dispatched
    <3>2. WrittenUpTo(c) = 0 /\ OnWire(c) = {}
      BY <3>1 DEF WrittenUpTo, OnWire
    <3>3. WireGapFree(c) /\ PendingGapFree(c)
      BY <3>1 DEF WireGapFree, PendingGapFree, Consecutive
    <3>4. /\ OnWire(c) = joined[c] + 1 .. WrittenUpTo(c)
          /\ WrittenUpTo(c) \in Nat /\ joined[c] <= WrittenUpTo(c)
          /\ WrittenUpTo(c) + Len(frame[c]) + Len(sendq[c]) <= Dispatched
      <4>1. 0 + 1 .. 0 = {} /\ 0 \in Nat /\ 0 <= 0 /\ 0 + 0 + 0 <= 0
        OBVIOUS
      <4> QED
        BY <3>0, <3>1, <3>2, <3>6, <4>1
    <3>5. /\ sendq[c] \in Seq(Nat) /\ frame[c] \in Seq(Nat) /\ wire[c] \in Seq(Seq(Nat))
      BY <3>0, <3>1
    <3> QED
      BY <3>1, <3>3, <3>4, <3>5 DEF FeedOK
  <2> QED
    BY <2>1, <2>2 DEF FeedInv
<1>2. Init => QueueInv /\ FeedInv
  BY <1>1
<1>3. TypeOK /\ RunInv /\ PumpInv /\ QueueInv /\ FeedInv /\ [Next]_vars
        => QueueInv' /\ FeedInv'
  <2> SUFFICES ASSUME TypeOK, RunInv, PumpInv, QueueInv, FeedInv, [Next]_vars
               PROVE  QueueInv' /\ FeedInv'
    OBVIOUS
  <2>1. QueueInv'
    BY QueueStep
  <2>2. ASSUME NEW c \in Dashboards PROVE FeedOK(c)'
    BY FeedStep DEF FeedInv
  <2>3. FeedInv'
    BY <2>2 DEF FeedInv, Dashboards
  <2> QED
    BY <2>1, <2>3
<1> QED
  BY <1>2, <1>3, Typing, RunInvariant, PumpInvariant, PTL DEF Spec

\* A dashboard misses no event between its registration and its end, whatever
\* the hub, the network and the other clients do: what is on its socket, in the
\* frame being filled and in its channel is one run of events.
THEOREM FeedHasNoGaps == Spec => []FeedGapFree
<1>1. FeedInv => FeedGapFree
  BY DEF FeedInv, FeedOK, FeedGapFree, NothingMissing, Due
<1> QED
  BY <1>1, FeedInvariant, PTL

-----------------------------------------------------------------------------
(* The hub implements the feed *)

\* Where module EventFeed sees a dashboard.
PhaseOf(c) == CASE writer[c] = "off" -> "off" [] writer[c] = "done" -> "gone"
                [] OTHER -> "on"

\* A step that the feed does not see.
LEMMA FeedStutters ==
  ASSUME published' = published,
         \A d \in Dashboards : /\ joined'[d] = joined[d] /\ OnWire(d)' = OnWire(d)
                               /\ PhaseOf(d)' = PhaseOf(d)
  PROVE  UNCHANGED Feed!vars
<1>1. [d \in Dashboards |-> joined[d]]' = [d \in Dashboards |-> joined[d]]
  BY DEF Dashboards
<1>2. [d \in Dashboards |-> OnWire(d)]' = [d \in Dashboards |-> OnWire(d)]
  BY DEF Dashboards
<1>3. [d \in Dashboards |-> PhaseOf(d)]' = [d \in Dashboards |-> PhaseOf(d)]
  BY DEF Dashboards
<1> QED
  BY <1>1, <1>2, <1>3 DEF Feed!vars, PhaseOf

\* A dashboard's own step: it joins, its pump writes a frame or ends.
LEMMA FeedImplements ==
  ASSUME TypeOK, RunInv, PumpInv, QueueInv, FeedInv, NEW c \in Dashboards,
         RegisterClient(c) \/ Flush(c) \/ (WritePump(c) /\ WritePumpExit(c))
  PROVE  Feed!Next
<1> DEFINE start == [d \in Dashboards |-> joined[d]]
           phase == [d \in Dashboards |-> PhaseOf(d)]
           seen  == [d \in Dashboards |-> OnWire(d)]
<1>1. /\ c \in Clients /\ FeedOK(c) /\ FeedOK(c)' /\ published' = published
      /\ Dispatched \in Nat /\ Dispatched' = Dispatched /\ Dispatched <= published
      /\ published \in Nat /\ joined \in [Clients -> Nat]
      /\ writer \in [Clients -> {"off", "select", "count", "drain", "done"}]
  <2>1. [Next]_vars
    <3>1. RunStep(c) \/ WritePump(c)
      BY DEF RunStep, WritePump
    <3> QED
      BY <3>1 DEF Next, Dashboards
  <2>2. FeedOK(c)'
    BY <2>1, FeedStep DEF FeedInv
  <2>3. UNCHANGED <<published, broadcast>>
    BY DEF RegisterClient, Registered, Flush, WritePumpExit, runVars
  <2> QED
    BY <2>2, <2>3 DEF FeedInv, Dashboards, TypeOK, RunOK, PumpsOK, Dispatched
<1>2. \A d \in Dashboards \ {c} :
         joined'[d] = joined[d] /\ writer'[d] = writer[d] /\ wire'[d] = wire[d]
  BY DEF RegisterClient, Registered, Flush, WritePumpExit, TypeOK, PumpsOK, Dashboards
<1>3. \A d \in Dashboards \ {c} :
         start'[d] = start[d] /\ phase'[d] = phase[d] /\ seen'[d] = seen[d]
  BY <1>2 DEF PhaseOf, OnWire
<1>4. /\ start[c] = joined[c] /\ start'[c] = joined'[c]
      /\ phase[c] = PhaseOf(c) /\ phase'[c] = PhaseOf(c)'
      /\ seen[c] = OnWire(c) /\ seen'[c] = OnWire(c)'
  OBVIOUS
<1>5. /\ DOMAIN start = Dashboards /\ DOMAIN phase = Dashboards /\ DOMAIN seen = Dashboards
      /\ DOMAIN start' = Dashboards /\ DOMAIN phase' = Dashboards /\ DOMAIN seen' = Dashboards
      /\ start = [d \in Dashboards |-> start[d]] /\ start' = [d \in Dashboards |-> start'[d]]
      /\ phase = [d \in Dashboards |-> phase[d]] /\ phase' = [d \in Dashboards |-> phase'[d]]
      /\ seen = [d \in Dashboards |-> seen[d]] /\ seen' = [d \in Dashboards |-> seen'[d]]
  BY DEF Dashboards
<1> HIDE DEF start, phase, seen
<1>6. CASE RegisterClient(c)
  <2>1. /\ phase[c] = "off" /\ phase'[c] = "on" /\ start'[c] = Dispatched
        /\ seen'[c] = seen[c]
    BY <1>1, <1>4, <1>6 DEF RegisterClient, Registered, PumpInv, PhaseOf, OnWire
  <2>2. /\ phase' = [phase EXCEPT ![c] = "on"] /\ start' = [start EXCEPT ![c] = Dispatched]
        /\ seen' = seen
    BY <1>3, <1>5, <2>1
  <2>3. Dispatched \in 0 .. published
    BY <1>1
  <2>4. Feed!Join(c)
    BY <1>1, <2>1, <2>2, <2>3 DEF Feed!Join, start, phase, seen, PhaseOf
  <2> QED
    BY <2>4 DEF Feed!Next
<1>7. CASE Flush(c)
  <2> DEFINE n == WrittenUpTo(c)'
  <2>1. /\ phase[c] = "on" /\ phase'[c] = "on" /\ start'[c] = start[c]
    BY <1>1, <1>4, <1>7 DEF Flush, PhaseOf
  <2>2. n = WrittenUpTo(c) + Len(frame[c]) /\ Len(frame[c]) \in Nat \ {0}
    <3>1. /\ sendq' = sendq /\ frame'[c] = <<>> /\ wire'[c] = Append(wire[c], frame[c])
          /\ writer[c] \notin {"off", "done"} /\ writer'[c] \notin {"off", "done"}
          /\ UNCHANGED <<clients, broadcast, fanTodo, published, joined>>
          /\ frame[c] # <<>>
      BY <1>1, <1>7 DEF Flush, Framed, sendVars, tableVars, runVars, PumpInv, TypeOK, PumpsOK
    <3> QED
      BY <1>1, <3>1, FeedFlush
  <2>3. /\ n \in start[c] + 1 .. published /\ seen[c] \subseteq start[c] + 1 .. n - 1
        /\ seen'[c] = start[c] + 1 .. n
    <3> DEFINE u == WrittenUpTo(c)
               k == Len(frame[c])
               m == Len(sendq[c])
    <3>1. /\ u \in Nat /\ joined[c] \in Nat /\ joined[c] <= u /\ m \in Nat
          /\ OnWire(c) = joined[c] + 1 .. u /\ u + k + m <= Dispatched
      BY <1>1, <1>7, LenProperties DEF FeedOK, Flush, Dashboards
    <3>2. OnWire(c)' = joined'[c] + 1 .. n
      BY <1>1 DEF FeedOK
    <3>3. n = u + k /\ k \in Nat \ {0}
      BY <2>2
    <3>4. /\ start[c] = joined[c] /\ start'[c] = joined[c] /\ seen[c] = joined[c] + 1 .. u
          /\ seen'[c] = joined[c] + 1 .. n
      BY <1>4, <2>1, <3>1, <3>2
    <3> HIDE DEF n, u, k, m
    <3>5. n \in joined[c] + 1 .. published
      BY <1>1, <3>1, <3>3
    <3>6. joined[c] + 1 .. u \subseteq joined[c] + 1 .. n - 1
      BY <3>1, <3>3
    <3> QED
      BY <3>4, <3>5, <3>6
  <2>4. /\ phase' = phase /\ start' = start
        /\ seen' = [seen EXCEPT ![c] = start[c] + 1 .. n]
    BY <1>3, <1>5, <2>1, <2>3
  <2> HIDE DEF n
  <2>5. Feed!Deliver(c)
    BY <1>1, <2>1, <2>3, <2>4 DEF Feed!Deliver, start, phase, seen, PhaseOf
  <2> QED
    BY <2>5 DEF Feed!Next
<1>8. CASE WritePump(c) /\ WritePumpExit(c)
  <2>1. /\ phase[c] = "on" /\ phase'[c] = "gone" /\ start'[c] = start[c]
        /\ seen'[c] = seen[c]
    BY <1>1, <1>4, <1>8
       DEF WritePump, TakeMessage, TakeFails, CountQueued, DrainOne, Flush, FlushFails,
           CloseSeen, PingFails, WritePumpExit, PhaseOf, OnWire
  <2>2. /\ phase' = [phase EXCEPT ![c] = "gone"] /\ start' = start /\ seen' = seen
    BY <1>3, <1>5, <2>1
  <2>3. Feed!Leave(c)
    BY <1>1, <2>1, <2>2 DEF Feed!Leave, start, phase, seen, PhaseOf
  <2> QED
    BY <2>3 DEF Feed!Next
<1> QED
  BY <1>6, <1>7, <1>8

\* The other clients' pumps, the tables and the calls.
LEMMA FeedUnseen ==
  ASSUME TypeOK, UNCHANGED published,
         \A d \in Dashboards :
           /\ joined'[d] = joined[d] /\ wire'[d] = wire[d]
           /\ \/ writer'[d] = writer[d]
              \/ /\ writer[d] \in {"select", "count", "drain"}
                 /\ writer'[d] \in {"select", "count", "drain"}
  PROVE  UNCHANGED Feed!vars
<1>1. ASSUME NEW d \in Dashboards
      PROVE  joined'[d] = joined[d] /\ OnWire(d)' = OnWire(d) /\ PhaseOf(d)' = PhaseOf(d)
  BY <1>1 DEF OnWire, PhaseOf
<1> QED
  BY <1>1, FeedStutters

LEMMA FeedInit == Init => Feed!Init
<1> SUFFICES ASSUME Init PROVE Feed!Init
  OBVIOUS
<1>1. ASSUME NEW d \in Dashboards
      PROVE  joined[d] = 0 /\ writer[d] = "off" /\ OnWire(d) = {}
  BY DEF Init, Dashboards, OnWire
<1>2. /\ [d \in Dashboards |-> joined[d]] = [d \in Dashboards |-> 0]
      /\ [d \in Dashboards |-> OnWire(d)] = [d \in Dashboards |-> {}]
      /\ [d \in Dashboards |-> PhaseOf(d)] = [d \in Dashboards |-> "off"]
  BY <1>1 DEF PhaseOf
<1>3. published = 0
  BY DEF Init
<1> QED
  BY <1>2, <1>3 DEF Feed!Init, PhaseOf

LEMMA FeedNext ==
  TypeOK /\ RunInv /\ PumpInv /\ QueueInv /\ FeedInv /\ [Next]_vars
    => [Feed!Next]_(Feed!vars)
<1> SUFFICES ASSUME TypeOK, RunInv, PumpInv, QueueInv, FeedInv, [Next]_vars
             PROVE  Feed!Next \/ UNCHANGED Feed!vars
  OBVIOUS
<1>1. CASE BroadcastEvent
  <2>1. /\ published' = published + 1 /\ UNCHANGED <<joined, wire, writer>>
    BY <1>1 DEF BroadcastEvent, pumpVars
  <2>2. \A d \in Dashboards : OnWire(d)' = OnWire(d) /\ PhaseOf(d)' = PhaseOf(d)
    BY <2>1 DEF OnWire, PhaseOf
  <2>3. /\ [d \in Dashboards |-> joined[d]]' = [d \in Dashboards |-> joined[d]]
        /\ [d \in Dashboards |-> OnWire(d)]' = [d \in Dashboards |-> OnWire(d)]
        /\ [d \in Dashboards |-> PhaseOf(d)]' = [d \in Dashboards |-> PhaseOf(d)]
    BY <2>1, <2>2 DEF Dashboards
  <2>4. Feed!Publish
    BY <2>1, <2>3 DEF Feed!Publish, PhaseOf
  <2> QED
    BY <2>4 DEF Feed!Next
<1>2. ASSUME NEW c \in Dashboards, RegisterClient(c) PROVE Feed!Next
  BY <1>2, FeedImplements
<1>3. ASSUME NEW c \in Tunnels, RegisterTunnel(c) PROVE UNCHANGED Feed!vars
  <2>1. \A d \in Dashboards :
           joined'[d] = joined[d] /\ wire'[d] = wire[d] /\ writer'[d] = writer[d]
    BY <1>3 DEF RegisterTunnel, Registered, TypeOK, PumpsOK, Dashboards
  <2>2. published' = published
    BY <1>3 DEF RegisterTunnel, Registered, runVars
  <2> QED
    BY <2>1, <2>2, FeedUnseen
<1>4. ASSUME NEW c \in Clients, WritePump(c) PROVE Feed!Next \/ UNCHANGED Feed!vars
  <2>1. published' = published
    BY <1>4 DEF WritePump, TakeMessage, TakeFails, CountQueued, DrainOne, Flush, FlushFails,
          CloseSeen, PingFails, WritePumpExit, runVars
  <2>2. CASE c \in Dashboards /\ (Flush(c) \/ WritePumpExit(c))
    BY <1>4, <2>2, FeedImplements
  <2>3. CASE TakeMessage(c) \/ CountQueued(c) \/ DrainOne(c)
    <3>1. UNCHANGED <<joined, wire>>
      BY <2>3 DEF TakeMessage, CountQueued, DrainOne
    <3>2. ASSUME NEW d \in Dashboards
          PROVE  \/ writer'[d] = writer[d]
                 \/ /\ writer[d] \in {"select", "count", "drain"}
                    /\ writer'[d] \in {"select", "count", "drain"}
      BY <2>3 DEF TakeMessage, CountQueued, DrainOne, TypeOK, PumpsOK, Dashboards
    <3> QED
      BY <2>1, <3>1, <3>2, FeedUnseen
  <2>4. CASE c \notin Dashboards
    <3>1. UNCHANGED joined
      BY <1>4 DEF WritePump, TakeMessage, TakeFails, CountQueued, DrainOne, Flush, FlushFails,
         CloseSeen, PingFails, WritePumpExit
    <3>2. \A d \in Dashboards : wire'[d] = wire[d] /\ writer'[d] = writer[d]
      BY <1>4, <2>4
         DEF WritePump, TakeMessage, TakeFails, CountQueued, DrainOne, Flush, FlushFails,
             CloseSeen, PingFails, WritePumpExit, TypeOK, PumpsOK, Dashboards
    <3> QED
      BY <2>1, <3>1, <3>2, FeedUnseen
  <2> QED
    BY <1>4, <2>2, <2>3, <2>4 DEF WritePump, TakeFails, FlushFails, CloseSeen, PingFails
<1>5. ASSUME UNCHANGED <<published, joined, wire, writer>> PROVE UNCHANGED Feed!vars
  BY <1>5, FeedUnseen
<1>6. ASSUME \/ \E c \in Clients : \/ ServeWS(c) \/ PeerLost(c) \/ ReadPump(c)
                                   \/ UnregisterClient(c) \/ UnregisterTunnel(c) \/ FanOut(c)
             \/ TakeBroadcast
             \/ \E r \in Requests : ForwardLookup(r) \/ ForwardSend(r)
             \/ UNCHANGED vars
      PROVE  UNCHANGED <<published, joined, wire, writer>>
  BY <1>6 DEF ServeWS, PeerLost, ReadPump, ReadError, ReadPumpExit, UnregisterClient,
     UnregisterTunnel, Unregistered, FanOut, TakeBroadcast, ForwardLookup, ForwardSend, vars,
     pumpVars, runVars
<1>7. ASSUME NEW c \in Clients, RegisterClient(c) \/ RegisterTunnel(c)
      PROVE  Feed!Next \/ UNCHANGED Feed!vars
  BY <1>2, <1>3, <1>7 DEF RegisterClient, RegisterTunnel
<1> QED
  BY <1>1, <1>4, <1>5, <1>6, <1>7 DEF Next, RunStep, Terminated

\* Seen from outside, the hub is the feed of module EventFeed: a dashboard that
\* joins starts at some event, and from there on its socket carries every event
\* once, in order and none before it was broadcast, until it leaves.
THEOREM HubImplementsFeed == Spec => FeedSpec
<1>1. Init => Feed!Init
  BY FeedInit
<1>2. TypeOK /\ RunInv /\ PumpInv /\ QueueInv /\ FeedInv /\ [Next]_vars
        => [Feed!Next]_(Feed!vars)
  BY FeedNext
<1>3. Spec => [](TypeOK /\ RunInv /\ PumpInv /\ QueueInv /\ FeedInv)
  BY Typing, RunInvariant, PumpInvariant, FeedInvariant, PTL
<1> QED
  BY <1>1, <1>2, <1>3, PTL DEF Spec, FeedSpec, Feed!Spec

=============================================================================
