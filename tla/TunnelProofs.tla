----------------------------- MODULE TunnelProofs -----------------------------
(***************************************************************************)
(* Theorems about the agents' tunnel: what ForwardToTunnel accepted is on  *)
(* exactly one way to exactly one agent, for any number of agents,         *)
(* webhooks and any channel capacity.                                      *)
(***************************************************************************)
EXTENDS HubProofs, SequenceTheorems

-----------------------------------------------------------------------------
(* Messages of a sequence *)

\* A message appended to a channel or a frame joins the ones it holds ...
LEMMA AppendElements ==
  ASSUME NEW S, NEW s \in Seq(S), NEW e \in S
  PROVE  /\ Elements(Append(s, e)) = Elements(s) \union {e}
         /\ Distinct(s) /\ e \notin Elements(s) => Distinct(Append(s, e))
<1> DEFINE t == Append(s, e)
<1>1. /\ t \in Seq(S) /\ Len(t) = Len(s) + 1 /\ Len(s) \in Nat
      /\ DOMAIN t = 1 .. Len(s) + 1 /\ DOMAIN s = 1 .. Len(s)
      /\ \A i \in 1 .. Len(s) : t[i] = s[i]
      /\ t[Len(s) + 1] = e
  BY AppendProperties, LenProperties
<1> HIDE DEF t
<1>2. DOMAIN t = DOMAIN s \union {Len(s) + 1} /\ Len(s) + 1 \notin DOMAIN s
  BY <1>1
<1>3. \A i \in DOMAIN s : t[i] = s[i]
  BY <1>1
<1>4. Elements(t) = Elements(s) \union {e}
  BY <1>1, <1>2, <1>3 DEF Elements
<1>5. ASSUME Distinct(s), e \notin Elements(s) PROVE Distinct(t)
  <2>1. \A i \in DOMAIN s : t[i] # e
    BY <1>3, <1>5 DEF Elements
  <2> QED
    BY <1>1, <1>2, <1>3, <1>5, <2>1 DEF Distinct
<1> QED
  BY <1>4, <1>5 DEF t

\* ... and the head taken off a channel leaves the others behind.
LEMMA TailElements ==
  ASSUME NEW S, NEW s \in Seq(S), s # <<>>
  PROVE  /\ Head(s) \in Elements(s)
         /\ Elements(s) = Elements(Tail(s)) \union {Head(s)}
         /\ Distinct(s) => Head(s) \notin Elements(Tail(s)) /\ Distinct(Tail(s))
<1> DEFINE t == Tail(s)
<1>1. /\ t \in Seq(S) /\ Len(t) = Len(s) - 1 /\ Len(s) \in Nat /\ Len(s) # 0
      /\ DOMAIN t = 1 .. Len(s) - 1 /\ DOMAIN s = 1 .. Len(s)
      /\ \A i \in DOMAIN t : t[i] = s[i + 1]
      /\ Head(s) = s[1]
  BY HeadTailProperties, LenProperties, EmptySeq
<1> HIDE DEF t
<1>2. 1 \in DOMAIN s /\ \A i \in DOMAIN t : i + 1 \in DOMAIN s /\ i + 1 # 1
  BY <1>1
<1>3. \A i \in DOMAIN s : i = 1 \/ (i - 1 \in DOMAIN t /\ t[i - 1] = s[i])
  BY <1>1
<1>4. Head(s) \in Elements(s)
  BY <1>1, <1>2 DEF Elements
<1>5. Elements(s) = Elements(t) \union {Head(s)}
  <2>1. \A x \in Elements(s) : x \in Elements(t) \union {Head(s)}
    BY <1>1, <1>3 DEF Elements
  <2>2. \A x \in Elements(t) : x \in Elements(s)
    BY <1>1, <1>2 DEF Elements
  <2> QED
    BY <1>4, <2>1, <2>2
<1>6. ASSUME Distinct(s)
      PROVE  Head(s) \notin Elements(t) /\ Distinct(t)
  <2>1. \A i \in DOMAIN t : t[i] # s[1]
    BY <1>1, <1>2, <1>6 DEF Distinct
  <2>2. Distinct(t)
    BY <1>1, <1>2, <1>6 DEF Distinct
  <2> QED
    BY <1>1, <2>1, <2>2 DEF Elements
<1> QED
  BY <1>4, <1>5, <1>6 DEF t

\* A frame taken off the wire of nothing: no messages.
LEMMA EmptyElements == Elements(<<>>) = {} /\ Distinct(<<>>)
BY DEF Elements, Distinct

\* The messages of the frames w.
InFrames(w) == UNION {Elements(w[k]) : k \in DOMAIN w}

\* A frame appended to others adds its messages to theirs.
LEMMA AppendFrame ==
  ASSUME NEW S, NEW w \in Seq(Seq(S)), NEW f \in Seq(S)
  PROVE  InFrames(Append(w, f)) = InFrames(w) \union Elements(f)
<1> DEFINE t == Append(w, f)
<1>1. /\ DOMAIN t = 1 .. Len(w) + 1 /\ DOMAIN w = 1 .. Len(w) /\ Len(w) \in Nat
      /\ \A i \in 1 .. Len(w) : t[i] = w[i]
      /\ t[Len(w) + 1] = f
  BY AppendProperties, LenProperties
<1> HIDE DEF t
<1>2. DOMAIN t = DOMAIN w \union {Len(w) + 1}
  BY <1>1
<1>3. \A i \in DOMAIN w : t[i] = w[i]
  BY <1>1
<1>4. \A x : (\E k \in DOMAIN t : x \in Elements(t[k]))
               <=> (\E k \in DOMAIN w : x \in Elements(w[k])) \/ x \in Elements(f)
  BY <1>1, <1>2, <1>3
<1>5. InFrames(t) = InFrames(w) \union Elements(f)
  BY <1>4 DEF InFrames
<1> QED
  BY <1>5 DEF t

-----------------------------------------------------------------------------
(* The WritePump *)

\* A pump starts when its connection is registered, holds a frame exactly while
\* it fills one, and counts no more messages than it will find.
PumpInv ==
  \A c \in Clients :
    /\ writer[c] = "off" <=> reader[c] \in {"new", "registering"}
    /\ frame[c] = <<>> <=> writer[c] \in {"off", "select", "done"}
    /\ writer[c] = "drain" => left[c] <= Len(sendq[c])

\* No step disturbs a pump of which it leaves the parts alone; a channel may
\* gain messages meanwhile.
LEMMA PumpFrame ==
  ASSUME PumpInv, UNCHANGED <<reader, writer, frame, left>>,
         \A c \in Clients : /\ Len(sendq[c]) <= Len(sendq'[c])
                            /\ Len(sendq[c]) \in Nat /\ Len(sendq'[c]) \in Nat
                            /\ left[c] \in Nat
  PROVE  PumpInv'
BY DEF PumpInv

LEMMA PumpStep == TypeOK /\ PumpInv /\ [Next]_vars => PumpInv'
<1> SUFFICES ASSUME TypeOK, PumpInv, [Next]_vars PROVE PumpInv'
  OBVIOUS
<1> USE DEF PumpInv
<1>0. /\ \A c \in Clients : /\ sendq[c] \in Seq(Messages) /\ Len(sendq[c]) \in Nat
                            /\ left[c] \in Nat /\ frame[c] \in Seq(Messages)
      /\ sendq \in [Clients -> Seq(Messages)]
      /\ reader \in [Clients -> {"new", "registering", "reading",
                                 "unregistering", "closing", "done"}]
      /\ writer \in [Clients -> {"off", "select", "count", "drain", "done"}]
      /\ frame \in [Clients -> Seq(Messages)]
      /\ left \in [Clients -> Nat]
  BY DEF TypeOK, SendsOK, PumpsOK
<1>1. CASE UNCHANGED <<sendq, reader, writer, frame, left>>
  BY <1>0, <1>1
<1>2. ASSUME NEW c \in Clients, ServeWS(c) \/ ReadPump(c) PROVE PumpInv'
  BY <1>0, <1>2 DEF ServeWS, ReadPump, ReadError, ReadPumpExit, sendVars
<1>3. ASSUME NEW c \in Clients, RegisterClient(c) \/ RegisterTunnel(c)
      PROVE  PumpInv'
  BY <1>0, <1>3 DEF RegisterClient, RegisterTunnel, Registered, sendVars
<1>4. ASSUME NEW c \in Clients, UnregisterClient(c) \/ UnregisterTunnel(c)
      PROVE  PumpInv'
  BY <1>0, <1>4 DEF UnregisterClient, UnregisterTunnel, Unregistered
<1>5. ASSUME NEW c \in Clients, NEW m \in Messages,
             sendq' = [sendq EXCEPT ![c] = Append(@, m)],
             UNCHANGED <<reader, writer, frame, left>>
      PROVE  PumpInv'
  <2> DEFINE q == Append(sendq[c], m)
  <2>1. Len(q) = Len(sendq[c]) + 1
    BY <1>0
  <2>2. sendq' = [sendq EXCEPT ![c] = q]
    BY <1>5
  <2> HIDE DEF q
  <2>3. \A d \in Clients : Len(sendq[d]) <= Len(sendq'[d]) /\ Len(sendq'[d]) \in Nat
    BY <1>0, <2>1, <2>2
  <2> QED
    BY <1>0, <1>5, <2>3, PumpFrame
<1>6. ASSUME NEW c \in Clients, FanOut(c) PROVE PumpInv'
  <2>1. message \in Messages
    BY DEF TypeOK, RunOK, Messages
  <2> QED
    BY <1>1, <1>5, <1>6, <2>1 DEF FanOut, pumpVars
<1>7. ASSUME NEW r \in Requests, ForwardSend(r) PROVE PumpInv'
  <2>1. r \in Messages
    BY DEF Messages
  <2>2. target[r] \in Clients \/ sendq' = sendq
    <3>1. CASE target[r] \in Clients
      BY <3>1
    <3>2. CASE target[r] \notin Clients
      BY <1>0, <1>7, <3>2 DEF ForwardSend
    <3> QED
      BY <3>1, <3>2
  <2> QED
    BY <1>1, <1>5, <1>7, <2>1, <2>2 DEF ForwardSend, pumpVars
<1>8. ASSUME NEW c \in Clients, WritePumpExit(c),
             sendq' = sendq \/ sendq' = [sendq EXCEPT ![c] = Tail(@)],
             writer[c] # "off"
      PROVE  PumpInv'
  BY <1>0, <1>8 DEF WritePumpExit
<1>9. ASSUME NEW c \in Clients, TakeMessage(c) PROVE PumpInv'
  <2>1. <<Head(sendq[c])>> # <<>>
    OBVIOUS
  <2> QED
    BY <1>0, <1>9, <2>1 DEF TakeMessage
<1>10. ASSUME NEW c \in Clients, CountQueued(c) PROVE PumpInv'
  BY <1>0, <1>10 DEF CountQueued, Queued, sendVars
<1>11. ASSUME NEW c \in Clients, DrainOne(c) PROVE PumpInv'
  <2> DEFINE q == Tail(sendq[c])
             f == Append(frame[c], Head(sendq[c]))
  <2>1. Len(q) = Len(sendq[c]) - 1 /\ Head(sendq[c]) \in Messages
    BY <1>0, <1>11, HeadTailProperties DEF DrainOne
  <2>2. f # <<>>
    BY <1>0, <2>1, AppendProperties
  <2>3. sendq' = [sendq EXCEPT ![c] = q] /\ frame' = [frame EXCEPT ![c] = f]
    BY <1>11 DEF DrainOne
  <2> HIDE DEF q, f
  <2> QED
    BY <1>0, <1>11, <2>1, <2>2, <2>3 DEF DrainOne
<1>12. ASSUME NEW c \in Clients, Flush(c) PROVE PumpInv'
  BY <1>0, <1>12 DEF Flush, sendVars
<1>13. ASSUME NEW c \in Clients, PeerLost(c)
       PROVE  UNCHANGED <<sendq, reader, writer, frame, left>>
  BY <1>13 DEF PeerLost, sendVars
<1>14. ASSUME \/ TakeBroadcast \/ BroadcastEvent
              \/ \E r \in Requests : ForwardLookup(r)
              \/ UNCHANGED vars
       PROVE  UNCHANGED <<sendq, reader, writer, frame, left>>
  BY <1>14 DEF TakeBroadcast, BroadcastEvent, ForwardLookup, vars, sendVars, pumpVars
<1>15. ASSUME NEW c \in Clients, WritePump(c) PROVE PumpInv'
  BY <1>8, <1>9, <1>10, <1>11, <1>12, <1>15
     DEF WritePump, TakeFails, FlushFails, CloseSeen, PingFails
<1> QED
  BY <1>1, <1>2, <1>3, <1>4, <1>6, <1>7, <1>13, <1>14, <1>15
     DEF Next, RunStep, Terminated

THEOREM PumpInvariant == Spec => []PumpInv
<1>1. Init => PumpInv
  BY DEF Init, PumpInv
<1> QED
  BY <1>1, PumpStep, Typing, PTL DEF Spec

\* The drain loop of WritePump finds every message it has counted, whatever Run
\* and the handlers do to the channel meanwhile: it neither blocks nor writes
\* the nil of a closed channel.
THEOREM DrainFinds == Spec => []DrainFindsMessages
<1>1. PumpInv => DrainFindsMessages
  BY DEF PumpInv, DrainFindsMessages
<1> QED
  BY <1>1, PumpInvariant, PTL

-----------------------------------------------------------------------------
(* Webhooks on their way to an agent *)

\* A call that found an agent found one that listens on the slug or on "*".
RoutedRight ==
  \A r \in Requests : call[r] \in {"found", "accepted"} =>
    target[r] \in Tunnels /\ SlugOf[target[r]] \in {SlugFor[r], Star}

\* An agent's channel, frame and socket hold webhooks accepted for it.
HeldAccepted ==
  \A c \in Tunnels : \A r \in Held(c) :
    r \in Requests /\ target[r] = c /\ call[r] = "accepted"

TunnelInv ==
  /\ RoutedRight
  /\ HeldAccepted
  /\ \A c \in Tunnels : InOnePlace(c)
  /\ AcceptedIsKept

\* Steps that leave the agents' channels, frames and sockets alone.
LEMMA TunnelFrame ==
  ASSUME TunnelInv, UNCHANGED callVars,
         \A c \in Tunnels : /\ sendq'[c] = sendq[c] /\ frame'[c] = frame[c]
                            /\ wire'[c] = wire[c]
                            /\ writer[c] = "done" => writer'[c] = "done"
  PROVE  TunnelInv'
<1>1. call' = call /\ target' = target
  BY DEF callVars
<1>2. \A c \in Tunnels : OnWire(c)' = OnWire(c)
  BY DEF OnWire
<1>3. \A c \in Tunnels : Held(c)' = Held(c)
  BY <1>2 DEF Held
<1>4. RoutedRight'
  BY <1>1 DEF TunnelInv, RoutedRight
<1>5. HeldAccepted'
  BY <1>1, <1>3 DEF TunnelInv, HeldAccepted
<1>6. ASSUME NEW c \in Tunnels PROVE InOnePlace(c)'
  BY <1>2 DEF TunnelInv, InOnePlace
<1>7. AcceptedIsKept'
  BY <1>1, <1>3 DEF TunnelInv, AcceptedIsKept, RoutedRight
<1> QED
  BY <1>4, <1>5, <1>6, <1>7 DEF TunnelInv

\* A pump moves its webhooks on, or ends and loses some.
LEMMA TunnelMove ==
  ASSUME TunnelInv, UNCHANGED callVars, NEW c \in Tunnels,
         \A d \in Tunnels \ {c} : /\ sendq'[d] = sendq[d] /\ frame'[d] = frame[d]
                                  /\ wire'[d] = wire[d] /\ writer'[d] = writer[d],
         writer[c] # "done",
         Held(c)' \subseteq Held(c),
         Held(c)' = Held(c) \/ writer'[c] = "done",
         InOnePlace(c)'
  PROVE  TunnelInv'
<1>1. call' = call /\ target' = target
  BY DEF callVars
<1>2. \A d \in Tunnels \ {c} : OnWire(d)' = OnWire(d)
  BY DEF OnWire
<1>3. \A d \in Tunnels \ {c} : Held(d)' = Held(d)
  BY <1>2 DEF Held
<1>4. RoutedRight'
  BY <1>1 DEF TunnelInv, RoutedRight
<1>5. HeldAccepted'
  BY <1>1, <1>3 DEF TunnelInv, HeldAccepted
<1>6. ASSUME NEW d \in Tunnels \ {c} PROVE InOnePlace(d)'
  BY <1>2 DEF TunnelInv, InOnePlace
<1>7. AcceptedIsKept'
  BY <1>1, <1>3 DEF TunnelInv, AcceptedIsKept, RoutedRight
<1> QED
  BY <1>4, <1>5, <1>6, <1>7 DEF TunnelInv

\* ForwardToTunnel looks an agent up: one that h.tunnels has under the slug of
\* the webhook or under "*", so one that listens there.
LEMMA TunnelLookup ==
  ASSUME TypeOK, TunnelEntriesLive, TunnelInv, NEW r \in Requests, ForwardLookup(r)
  PROVE  TunnelInv'
<1> DEFINE t == Route(SlugFor[r])
<1>1. /\ call[r] = "idle" /\ DOMAIN call = Requests
      /\ DOMAIN target = Requests
      /\ call' = [call EXCEPT ![r] = IF t = NoClient THEN "refused" ELSE "found"]
      /\ target' = [target EXCEPT ![r] = t]
      /\ UNCHANGED <<sendq, frame, wire, writer>>
  BY DEF ForwardLookup, TypeOK, CallsOK, sendVars, pumpVars
<1>2. t # NoClient => t \in Tunnels /\ SlugOf[t] \in {SlugFor[r], Star}
  BY HubAssumption DEF Route, TunnelEntriesLive, TypeOK, TablesOK
<1> HIDE DEF t
<1>3. \A c \in Tunnels : OnWire(c)' = OnWire(c) /\ Held(c)' = Held(c)
  BY <1>1 DEF OnWire, Held
<1>4. \A c \in Tunnels : r \notin Held(c)
  BY <1>1 DEF TunnelInv, HeldAccepted
<1>5. \A q \in Requests \ {r} : call'[q] = call[q] /\ target'[q] = target[q]
  BY <1>1
<1>6. call'[r] \in {"refused", "found"} /\ (call'[r] = "found" => t # NoClient)
      /\ target'[r] = t
  BY <1>1
<1>7. RoutedRight'
  BY <1>2, <1>5, <1>6 DEF TunnelInv, RoutedRight
<1>8. HeldAccepted'
  BY <1>3, <1>4, <1>5 DEF TunnelInv, HeldAccepted
<1>9. ASSUME NEW c \in Tunnels PROVE InOnePlace(c)'
  BY <1>1, <1>3 DEF TunnelInv, InOnePlace
<1>10. AcceptedIsKept'
  BY <1>1, <1>3, <1>5, <1>6 DEF TunnelInv, AcceptedIsKept, RoutedRight
<1> QED
  BY <1>7, <1>8, <1>9, <1>10 DEF TunnelInv

\* ForwardToTunnel puts a webhook in a channel once: the call was not accepted
\* before, so no agent holds the webhook yet.
LEMMA TunnelSend ==
  ASSUME TypeOK, TunnelInv, NEW r \in Requests, ForwardSend(r)
  PROVE  TunnelInv'
<1>1. /\ call[r] = "found" /\ DOMAIN call = Requests
      /\ UNCHANGED <<target, frame, wire, writer>>
      /\ sendq \in [Clients -> Seq(Messages)] /\ r \in Messages
  BY DEF ForwardSend, TypeOK, CallsOK, SendsOK, pumpVars, Messages
<1>2. Tunnels \subseteq Clients /\ target[r] \in Tunnels
  BY <1>1, HubAssumption DEF TunnelInv, RoutedRight
<1> PICK c \in Tunnels : c = target[r]
  BY <1>2
<1> DEFINE q == Append(sendq[c], r)
<1>3. \A d \in Tunnels : r \notin Held(d)
  BY <1>1 DEF TunnelInv, HeldAccepted
<1>4. \A d \in Tunnels : OnWire(d)' = OnWire(d)
  BY <1>1 DEF OnWire
<1>5. CASE /\ call' = [call EXCEPT ![r] = "accepted"]
           /\ sendq' = [sendq EXCEPT ![c] = Append(@, r)]
  <2>1. sendq' = [sendq EXCEPT ![c] = q]
    BY <1>5
  <2>2. /\ Elements(q) = Elements(sendq[c]) \union {r}
        /\ Distinct(sendq[c]) /\ r \notin Elements(sendq[c]) => Distinct(q)
    BY <1>1, <1>2, AppendElements
  <2> HIDE DEF q
  <2>3. \A d \in Tunnels \ {c} : sendq'[d] = sendq[d] /\ Held(d)' = Held(d)
    BY <1>1, <1>2, <1>4, <2>1 DEF Held
  <2>4. sendq'[c] = q /\ Held(c)' = Held(c) \union {r}
    BY <1>1, <1>2, <1>4, <2>1, <2>2 DEF Held
  <2>5. /\ \A p \in Requests \ {r} : call'[p] = call[p]
        /\ call'[r] = "accepted" /\ target' = target /\ target[r] = c
    BY <1>1, <1>5
  <2>6. RoutedRight'
    BY <1>1, <2>5 DEF TunnelInv, RoutedRight
  <2>7. HeldAccepted'
    BY <1>3, <2>3, <2>4, <2>5 DEF TunnelInv, HeldAccepted
  <2>8. ASSUME NEW d \in Tunnels PROVE InOnePlace(d)'
    <3>1. CASE d = c
      <4>1. r \notin Elements(sendq[c]) \union Elements(frame[c]) \union OnWire(c)
        BY <1>2, <1>3 DEF Held
      <4>2. InOnePlace(c)
        BY DEF TunnelInv
      <4>3. /\ sendq'[c] = q /\ frame' = frame /\ wire' = wire
            /\ OnWire(c)' = OnWire(c)
        BY <1>1, <1>4, <2>4
      <4>4. InOnePlace(c)'
        BY <2>2, <4>1, <4>2, <4>3 DEF InOnePlace
      <4> QED
        BY <3>1, <4>4
    <3>2. CASE d # c
      BY <1>1, <1>4, <2>3, <3>2 DEF TunnelInv, InOnePlace
    <3> QED
      BY <3>1, <3>2
  <2>9. AcceptedIsKept'
    BY <1>1, <1>2, <2>3, <2>4, <2>5 DEF TunnelInv, AcceptedIsKept, RoutedRight
  <2> QED
    BY <2>6, <2>7, <2>8, <2>9 DEF TunnelInv
<1>6. CASE sendq' = sendq /\ call' \in {[call EXCEPT ![r] = "refused"],
                                        [call EXCEPT ![r] = "panic"]}
  <2>1. /\ \A p \in Requests \ {r} : call'[p] = call[p]
        /\ call'[r] \notin {"found", "accepted"} /\ target' = target
    BY <1>1, <1>6
  <2>2. \A d \in Tunnels : Held(d)' = Held(d)
    BY <1>1, <1>4, <1>6 DEF Held
  <2>3. RoutedRight' /\ HeldAccepted'
    BY <1>3, <2>1, <2>2 DEF TunnelInv, RoutedRight, HeldAccepted
  <2>4. ASSUME NEW d \in Tunnels PROVE InOnePlace(d)'
    BY <1>1, <1>4, <1>6 DEF TunnelInv, InOnePlace
  <2>5. AcceptedIsKept'
    BY <1>1, <2>1, <2>2 DEF TunnelInv, AcceptedIsKept, RoutedRight
  <2> QED
    BY <2>3, <2>4, <2>5 DEF TunnelInv
<1> QED
  BY <1>5, <1>6 DEF ForwardSend, Reply

\* WritePump moves a webhook from the channel to the frame, or the frame to the
\* socket; an agent that it leaves loses what is not written.
LEMMA TunnelPump ==
  ASSUME TypeOK, PumpInv, TunnelInv, NEW c \in Tunnels, WritePump(c)
  PROVE  TunnelInv'
<1> DEFINE h == Head(sendq[c])
           q == Tail(sendq[c])
<1>1. /\ c \in Clients /\ UNCHANGED callVars
      /\ writer[c] # "done"
      /\ sendq \in [Clients -> Seq(Messages)] /\ frame \in [Clients -> Seq(Messages)]
      /\ wire \in [Clients -> Seq(Seq(Messages))]
      /\ writer \in [Clients -> {"off", "select", "count", "drain", "done"}]
  BY HubAssumption
     DEF TypeOK, SendsOK, PumpsOK, WritePump, TakeMessage, TakeFails, CountQueued, DrainOne,
         Flush, FlushFails, CloseSeen, PingFails, WritePumpExit
<1>2. InOnePlace(c)
  BY DEF TunnelInv
<1>3. \A d \in Tunnels \ {c} : /\ sendq'[d] = sendq[d] /\ frame'[d] = frame[d]
                               /\ wire'[d] = wire[d] /\ writer'[d] = writer[d]
  BY <1>1, HubAssumption
     DEF WritePump, TakeMessage, TakeFails, CountQueued, DrainOne, Flush, FlushFails,
         CloseSeen, PingFails, WritePumpExit, sendVars
<1>4. ASSUME sendq[c] # <<>>
      PROVE  /\ Elements(sendq[c]) = Elements(q) \union {h}
             /\ h \notin Elements(q) /\ Distinct(q)
             /\ h \in Messages /\ q \in Seq(Messages)
  BY <1>1, <1>2, <1>4, TailElements, HeadTailProperties DEF InOnePlace
<1>5. ASSUME wire' = wire PROVE OnWire(c)' = OnWire(c)
  BY <1>5 DEF OnWire
<1>6. CASE WritePumpExit(c) /\ (sendq' = sendq \/ (sendq[c] # <<>> /\ sendq' = [sendq EXCEPT ![c] = Tail(@)]))
  <2>1. /\ frame'[c] = <<>> /\ writer'[c] = "done" /\ wire' = wire
        /\ sendq'[c] = sendq[c] \/ (sendq[c] # <<>> /\ sendq'[c] = q)
    BY <1>1, <1>6 DEF WritePumpExit
  <2> HIDE DEF q, h
  <2>2. /\ Elements(sendq'[c]) \subseteq Elements(sendq[c])
        /\ Distinct(sendq'[c]) /\ Elements(frame'[c]) = {} /\ Distinct(frame'[c])
    BY <1>2, <1>4, <2>1, EmptyElements DEF InOnePlace
  <2>3. Held(c)' \subseteq Held(c) /\ InOnePlace(c)'
    BY <1>2, <1>5, <2>1, <2>2 DEF Held, InOnePlace
  <2> QED
    BY <1>1, <1>3, <2>1, <2>3, TunnelMove
<1>7. CASE TakeMessage(c)
  <2>1. /\ sendq[c] # <<>> /\ sendq'[c] = q /\ frame'[c] = <<h>> /\ wire' = wire
        /\ frame[c] = <<>>
    BY <1>1, <1>7 DEF TakeMessage, PumpInv
  <2> HIDE DEF q, h
  <2>2. Elements(<<h>>) = {h} /\ Distinct(<<h>>)
    BY DEF Elements, Distinct
  <2>3. Held(c)' = Held(c) /\ InOnePlace(c)'
    BY <1>2, <1>4, <1>5, <2>1, <2>2, EmptyElements DEF Held, InOnePlace
  <2> QED
    BY <1>1, <1>3, <2>3, TunnelMove
<1>8. CASE DrainOne(c)
  <2> DEFINE f == Append(frame[c], h)
  <2>1. /\ sendq[c] # <<>> /\ sendq'[c] = q /\ frame'[c] = f /\ wire' = wire
    BY <1>1, <1>8 DEF DrainOne
  <2>2. /\ Elements(f) = Elements(frame[c]) \union {h}
        /\ Distinct(frame[c]) /\ h \notin Elements(frame[c]) => Distinct(f)
    BY <1>1, <1>4, <2>1, AppendElements
  <2> HIDE DEF q, h, f
  <2>3. h \notin Elements(frame[c]) \union OnWire(c)
    BY <1>2, <1>4, <2>1 DEF InOnePlace
  <2>4. Held(c)' = Held(c) /\ InOnePlace(c)'
    BY <1>2, <1>4, <1>5, <2>1, <2>2, <2>3 DEF Held, InOnePlace
  <2> QED
    BY <1>1, <1>3, <2>4, TunnelMove
<1>9. CASE Flush(c)
  <2> DEFINE w == Append(wire[c], frame[c])
  <2>1. /\ sendq' = sendq /\ wire'[c] = w /\ frame'[c] = <<>>
    BY <1>1, <1>9 DEF Flush, Framed, sendVars
  <2>2. InFrames(w) = InFrames(wire[c]) \union Elements(frame[c])
    BY <1>1, AppendFrame
  <2>3. /\ DOMAIN w = DOMAIN wire[c] \union {Len(wire[c]) + 1}
        /\ \A k \in DOMAIN wire[c] : w[k] = wire[c][k]
        /\ w[Len(wire[c]) + 1] = frame[c]
    BY <1>1, AppendProperties, LenProperties
  <2> HIDE DEF w
  <2>4. OnWire(c)' = OnWire(c) \union Elements(frame[c])
    BY <2>1, <2>2 DEF OnWire, InFrames
  <2>5. Held(c)' = Held(c)
    BY <2>1, <2>4, EmptyElements DEF Held
  <2>6. \A k \in DOMAIN wire[c] : Elements(wire[c][k]) \intersect Elements(frame[c]) = {}
    BY <1>2 DEF InOnePlace, OnWire
  <2>7. /\ \A k \in DOMAIN w : Distinct(w[k])
        /\ \A k, l \in DOMAIN w : k # l => Elements(w[k]) \intersect Elements(w[l]) = {}
    BY <1>2, <2>3, <2>6 DEF InOnePlace
  <2>8. InOnePlace(c)'
    BY <1>2, <2>1, <2>4, <2>7, EmptyElements DEF InOnePlace
  <2> QED
    BY <1>1, <1>3, <2>5, <2>8, TunnelMove
<1>10. CASE CountQueued(c)
  <2>1. writer[c] = "count" /\ UNCHANGED <<sendq, frame, wire>>
    BY <1>10 DEF CountQueued, sendVars
  <2> QED
    BY <1>1, <1>3, <2>1, TunnelFrame
<1> QED
  BY <1>6, <1>7, <1>8, <1>9, <1>10
     DEF WritePump, TakeFails, FlushFails, CloseSeen, PingFails

LEMMA TunnelStep ==
  TypeOK /\ RunInv /\ PumpInv /\ TunnelInv /\ [Next]_vars => TunnelInv'
<1> SUFFICES ASSUME TypeOK, RunInv, PumpInv, TunnelInv, [Next]_vars
             PROVE  TunnelInv'
  OBVIOUS
<1>1. CASE UNCHANGED <<callVars, sendq, frame, wire, writer>>
  BY <1>1, TunnelFrame
<1>2. ASSUME NEW c \in Clients, RegisterClient(c) \/ RegisterTunnel(c)
      PROVE  TunnelInv'
  <2>1. /\ UNCHANGED <<callVars, sendq, frame, wire>> /\ writer[c] = "off"
        /\ writer' = [writer EXCEPT ![c] = "select"]
    BY <1>2 DEF RegisterClient, RegisterTunnel, Registered, sendVars, PumpInv
  <2>2. \A d \in Tunnels : writer[d] = "done" => writer'[d] = "done"
    BY <2>1, HubAssumption DEF TypeOK, PumpsOK
  <2> QED
    BY <2>1, <2>2, TunnelFrame
<1>3. ASSUME NEW c \in Clients, FanOut(c) PROVE TunnelInv'
  <2>1. /\ UNCHANGED <<callVars, frame, wire, writer>> /\ c \notin Tunnels
        /\ sendq' = sendq \/ sendq' = [sendq EXCEPT ![c] = Append(@, message)]
    BY <1>3 DEF FanOut, pumpVars, TypeOK, RunOK, Dashboards
  <2>2. \A d \in Tunnels : sendq'[d] = sendq[d]
    BY <2>1, HubAssumption DEF TypeOK, SendsOK
  <2> QED
    BY <2>1, <2>2, TunnelFrame
<1>4. ASSUME NEW c \in Clients, WritePump(c) PROVE TunnelInv'
  <2>1. CASE c \in Tunnels
    BY <1>4, <2>1, TunnelPump
  <2>2. CASE c \notin Tunnels
    <3>1. UNCHANGED callVars
      BY <1>4 DEF WritePump, TakeMessage, TakeFails, CountQueued, DrainOne, Flush,
                  FlushFails, CloseSeen, PingFails, WritePumpExit
    <3>2. \A d \in Tunnels : /\ sendq'[d] = sendq[d] /\ frame'[d] = frame[d]
                             /\ wire'[d] = wire[d] /\ writer'[d] = writer[d]
      BY <1>4, <2>2, HubAssumption
         DEF WritePump, TakeMessage, TakeFails, CountQueued, DrainOne, Flush, FlushFails,
             CloseSeen, PingFails, WritePumpExit, sendVars, TypeOK, SendsOK, PumpsOK
    <3> QED
      BY <3>1, <3>2, TunnelFrame
  <2> QED
    BY <2>1, <2>2
<1>5. ASSUME NEW r \in Requests, ForwardLookup(r) \/ ForwardSend(r) PROVE TunnelInv'
  BY <1>5, TunnelLookup, TunnelSend DEF RunInv
<1>6. ASSUME NEW c \in Clients,
             \/ ServeWS(c) \/ PeerLost(c) \/ ReadPump(c)
             \/ UnregisterClient(c) \/ UnregisterTunnel(c)
      PROVE  UNCHANGED <<callVars, sendq, frame, wire, writer>>
  BY <1>6 DEF ServeWS, PeerLost, ReadPump, ReadError, ReadPumpExit, UnregisterClient,
              UnregisterTunnel, Unregistered, sendVars
<1>7. ASSUME TakeBroadcast \/ BroadcastEvent \/ UNCHANGED vars
      PROVE  UNCHANGED <<callVars, sendq, frame, wire, writer>>
  BY <1>7 DEF TakeBroadcast, BroadcastEvent, vars, sendVars, pumpVars
<1> QED
  BY <1>1, <1>2, <1>3, <1>4, <1>5, <1>6, <1>7 DEF Next, RunStep, Terminated

\* Webhooks are where ForwardToTunnel put them and nowhere else (the inductive
\* strengthening of the two theorems below).
THEOREM TunnelInvariant == Spec => []TunnelInv
<1>1. ASSUME Init PROVE TunnelInv
  <2>1. \A c \in Clients : Held(c) = {} /\ InOnePlace(c)
    BY <1>1, EmptyElements DEF Init, Held, OnWire, InOnePlace
  <2> QED
    BY <1>1, <2>1, HubAssumption
       DEF Init, TunnelInv, RoutedRight, HeldAccepted, AcceptedIsKept
<1>2. Init => TunnelInv
  BY <1>1
<1> QED
  BY <1>2, TunnelStep, RunInvariant, PumpInvariant, Typing, PTL DEF Spec

\* However agents come, go and replace one another, a webhook is sent to one
\* agent at most, once, and only to one that listens on its slug or on "*".
THEOREM RelayedOnce == Spec => []RelayedAtMostOnce
<1>1. TunnelInv => RelayedAtMostOnce
  BY DEF TunnelInv, RelayedAtMostOnce, RoutedRight, HeldAccepted, InOnePlace
<1> QED
  BY <1>1, TunnelInvariant, PTL

\* ForwardToTunnel never says true for a webhook that it drops: as long as the
\* pump of the agent it found runs, the webhook is in its channel, in its frame
\* or on its socket.
THEOREM AcceptedKept == Spec => []AcceptedIsKept
<1>1. TunnelInv => AcceptedIsKept
  BY DEF TunnelInv
<1> QED
  BY <1>1, TunnelInvariant, PTL

=============================================================================
