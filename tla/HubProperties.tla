--------------------------- MODULE HubProperties ---------------------------
(***************************************************************************)
(* What the hub of module Hub is expected to guarantee.                    *)
(***************************************************************************)
EXTENDS Hub

Elements(s) == {s[i] : i \in DOMAIN s}

LastOf(s) == s[Len(s)]

OnWire(c) == UNION {Elements(wire[c][k]) : k \in DOMAIN wire[c]}

\* Messages handed to c's channel that its WritePump has not lost.
Held(c) == Elements(sendq[c]) \union Elements(frame[c]) \union OnWire(c)

-----------------------------------------------------------------------------
(* The Run goroutine *)

\* Run never sends on a closed channel nor closes one twice, whatever the
\* order of saturations, disconnections and replaced agents.  It has no
\* recover: such a panic would end the process, not just one request.
RunNeverPanics == ~panicked

\* An agent found in h.tunnels listens on the slug it is found under, is
\* still connected as far as the hub knows, and its channel is open.
TunnelEntriesLive ==
  \A s \in Slugs : tunnels[s] # NoClient =>
    /\ SlugOf[tunnels[s]] = s
    /\ tunnels[s] \notin closed
    /\ reader[tunnels[s]] \in {"reading", "unregistering"}

\* WritePump counts len(c.send) and then receives that many times with no
\* escape: those messages are always there, even if Run closes the channel in
\* between, so the pump neither blocks nor writes the nil of a closed channel.
DrainFindsMessages ==
  \A c \in Clients : writer[c] = "drain" => left[c] <= Len(sendq[c])

-----------------------------------------------------------------------------
(* The dashboards' feed *)

Consecutive(s, from) == \A i \in DOMAIN s : s[i] = from + i

WrittenUpTo(c) == IF wire[c] = <<>> THEN joined[c] ELSE LastOf(LastOf(wire[c]))

\* The frames on the socket of a dashboard hold, in order, the events that
\* were dispatched right after it registered.
WireGapFree(c) ==
  \A k \in DOMAIN wire[c] :
    /\ wire[c][k] # <<>>
    /\ Consecutive(wire[c][k],
                   IF k = 1 THEN joined[c] ELSE LastOf(wire[c][k - 1]))

\* The frame being built and the channel continue where the socket stops.
PendingGapFree(c) ==
  writer[c] # "done" =>
    /\ Consecutive(frame[c], WrittenUpTo(c))
    /\ Consecutive(sendq[c], WrittenUpTo(c) + Len(frame[c]))

\* As long as a dashboard is registered and its pump runs, nothing that has
\* been dispatched is missing from socket, frame and channel together.
NothingMissing(c) ==
  c \in clients /\ writer[c] # "done" =>
    WrittenUpTo(c) + Len(frame[c]) + Len(sendq[c])
      = Dispatched - (IF c \in fanTodo THEN 1 ELSE 0)

\* A dashboard misses no event between its registration and its end: the hub
\* disconnects a slow client instead of skipping messages (hub.go:88).
FeedGapFree ==
  \A c \in Dashboards :
    WireGapFree(c) /\ PendingGapFree(c) /\ NothingMissing(c)

\* The hub implements the feed as seen from outside.
Feed == INSTANCE EventFeed WITH
  log   <- published,
  start <- [d \in Dashboards |-> joined[d]],
  phase <- [d \in Dashboards |-> CASE writer[d] = "off"  -> "off"
                                   [] writer[d] = "done" -> "gone"
                                   [] OTHER              -> "on"],
  seen  <- [d \in Dashboards |-> OnWire(d)]

\* Every behaviour of the hub is a behaviour of EventFeed.
FeedSpec == Feed!Spec

-----------------------------------------------------------------------------
(* The agents' tunnel *)

\* No message occurs twice in s.
Distinct(s) == \A i, j \in DOMAIN s : s[i] = s[j] => i = j

\* What is on its way to c is in its channel, in its frame or in one of the
\* frames on its socket, and there once.
InOnePlace(c) ==
  /\ Distinct(sendq[c]) /\ Distinct(frame[c])
  /\ \A k \in DOMAIN wire[c] : Distinct(wire[c][k])
  /\ \A k, l \in DOMAIN wire[c] : k # l =>
       Elements(wire[c][k]) \intersect Elements(wire[c][l]) = {}
  /\ Elements(sendq[c]) \intersect (Elements(frame[c]) \union OnWire(c)) = {}
  /\ Elements(frame[c]) \intersect OnWire(c) = {}

\* A webhook reaches at most one agent, once, and only an agent that listens
\* on its slug or on "*"; ForwardToTunnel said true for it.
RelayedAtMostOnce ==
  \A c \in Tunnels :
    /\ \A r \in Held(c) : /\ target[r] = c /\ call[r] = "accepted"
                          /\ SlugOf[c] \in {SlugFor[r], Star}
    /\ InOnePlace(c)

\* When ForwardToTunnel returned true the webhook is on the agent's socket or
\* on its way there, unless that connection is over.
AcceptedIsKept ==
  \A r \in Requests : call[r] = "accepted" =>
    r \in Held(target[r]) \/ writer[target[r]] = "done"

\* ForwardToTunnel returns true or false (hub.go:116); it does not panic in
\* the goroutine of the ingestion handler.
ForwardNeverPanics == \A r \in Requests : call[r] # "panic"

\* While an agent is connected, its slug has a tunnel (hub.go:22).
ConnectedAgentHasTunnel ==
  \A c \in Tunnels : reader[c] = "reading" => tunnels[SlugOf[c]] # NoClient

-----------------------------------------------------------------------------
(* Liveness *)

\* Run never gets stuck on a client: every event put in the broadcast channel
\* is fanned out, so no handler blocks forever in BroadcastEvent.
EventsFannedOut ==
  \A k \in 1 .. MaxEvents :
    (published >= k) ~> (Dispatched >= k /\ fanTodo = {})

\* A lost connection is cleaned up: both pumps end and no table names it, even
\* for an agent whose table entry another agent took or removed.
LostConnectionsEnd ==
  \A c \in Clients : (conn[c] = "lost") ~>
    /\ reader[c] = "done" /\ writer[c] = "done"
    /\ c \notin clients
    /\ c \in Tunnels => tunnels[SlugOf[c]] # c

=============================================================================
