--------------------------- MODULE RelayProperties ---------------------------
(***************************************************************************)
(* What the hub and an agent together are expected to guarantee.           *)
(***************************************************************************)
EXTENDS Relay, HubProperties

RelayTypeOK == TypeOK /\ A!AgentTypeOK

\* The frames of c that the agent has read.
Read(c) == {wire[c][k] : k \in 1 .. nread[c]}

\* Webhooks of c that are still on the hub's side or on the network.
Underway(c) ==
  Elements(sendq[c]) \union Elements(frame[c]) \union
    UNION {Elements(wire[c][k]) : k \in nread[c] + 1 .. Len(wire[c])}

Finished == Elements(received) \union failed

Batched(r) == \E c \in Tunnels : \E f \in Read(c) : r \in Elements(f) /\ Len(f) > 1

\* The connection r was accepted for has ended.
Over(r) == \E c \in Tunnels : target[r] = c /\ conn[c] # "open"

-----------------------------------------------------------------------------
(* Safety *)

\* Through all reconnections the local application gets a webhook once at
\* most, and only one for which ForwardToTunnel returned true.
ReceivedOnce ==
  /\ \A k, l \in DOMAIN received : received[k] = received[l] => k = l
  /\ \A r \in running \union Finished : call[r] = "accepted"
  /\ running \intersect Finished = {}

\* A webhook that was accepted for a connection that still stands is under
\* way, or being posted, or was posted, or came in a batch.
HandedOver ==
  \A r \in Requests :
    call[r] = "accepted" /\ ~Over(r) =>
      r \in Underway(target[r]) \union running \union Finished \/ Batched(r)

\* The agent leaves no connection open behind itself: not when it pauses, not
\* when it dials again, not when it ends.
OneSocket ==
  \A c \in Tunnels : conn[c] = "open" => phase = "listen" /\ c = current

\* A webhook the agent has read is posted (ws_messages.go:11): "ordonner de
\* relayer la requete en local".
BatchRelayed ==
  phase # "stopped" =>
    \A c \in Tunnels : \A f \in Read(c) : Elements(f) \subseteq running \union Finished

-----------------------------------------------------------------------------
(* Liveness *)

\* An accepted webhook is posted unless its connection ends or it is batched.
AcceptedArrives ==
  \A r \in Requests :
    (call[r] = "accepted") ~> (r \in Finished \/ Over(r) \/ Batched(r))

\* Ctrl+C ends the agent (agent.go:80).
InterruptStops == signal ~> (phase = "stopped")

=============================================================================
