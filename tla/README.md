# ZeroDrop in TLA+

A TLA+ development of ZeroDrop, the webhook gateway of this repository: it
receives webhooks, stores them in SQLite, shows them live on dashboards, relays
them to a developer's machine through a WebSocket tunnel, and replays them.
TLC checks small instances of the models; TLAPS proves what matters most for
every instance.  Paths below are relative to the repository, `hub.go` standing
for `internal/hub/hub.go` and so on.

## 1. The system

| Component | State | Operations | Talks to |
|---|---|---|---|
| hub (`hub.go`, `client.go`) | tables `clients` and `tunnels`, the `broadcast` channel, one `send` channel and two goroutines per connection | register, unregister, fan out, `BroadcastEvent`, `ForwardToTunnel`, the two pumps | handlers call it; sockets of dashboards and agents |
| handlers (`internal/api`) | none but the stack of a request | create/delete an endpoint, ingest, list, purge, replay | database, hub, replay engine |
| database (`internal/database`) | tables `endpoints`, `webhook_requests`, `replay_logs` | one SQL statement per method; `Migrate` at start | SQLite file |
| replay engine (`engine.go`) | none | resolve target, send, save log, broadcast | database, hub, the target |
| signatures (`hmac.go`) | none | `VerifySignature` per provider | ingestion stores the verdict |
| tunnel agent (`agent.go`) | one socket, an interrupt channel | connect, read, forward locally, reconnect, stop | hub, the local application |
| sample generator (`generator.go`) | none | build and sign a sample webhook | ingestion |
| dashboard (`ui/src`) | endpoint list, request list, selection, one socket | load, live events, purge, create, reconnect | REST API, hub |
| entry points (`main.go`, `cmd/`) | the process | start, stop | all |

What makes it hard:

* *Goroutines.*  `Run` owns the routing tables, but `ForwardToTunnel` uses a
  client after it has released the lock, the pumps end for reasons of their own,
  and `close` has to happen once per channel and before no send.
* *Full channels.*  A dashboard that is too slow loses its connection; an agent
  that is too slow loses the webhook; a full `broadcast` channel blocks the HTTP
  handler.
* *Handlers without transactions.*  Each handler is a chain of statements and
  calls; purges and deletions, with their cascades, come in between.
* *Crashes.*  The process can be killed, or asked to end, between any two
  statements and is restarted on the same file; `Migrate` runs every time.  A power
  cut takes the last commits along (`synchronous(NORMAL)`, `db.go:38`).
* *Reconnections* of agents and dashboards, with what is missed in between.
* *Await.*  Between the call of the dashboard and what it does with the answer, events,
  clicks and the answers to other calls change what the call was made for.
* *Two clocks and two parties* in a signature: a stamp in seconds against a finer
  clock, two secrets while one replaces the other, a sample signed here and verified
  there.

What makes each component correct:

* hub: `Run` survives; the tables name live connections only; a dashboard sees
  the events without a gap; a webhook goes to one agent, once; a lost
  connection is cleaned up; nobody waits for a slow client.
* handlers and store: referential integrity and unique slugs whatever the
  interleaving; what was answered 202 is stored and stays until somebody removes
  it; no event about what is not stored; the default endpoint exists whenever the
  server answers.
* replay: what was answered is in the history.
* agent: what was accepted for its connection is posted to the local application,
  once; it holds one socket at most; an interrupt ends it.
* dashboard: at rest, after the answer to its last load, its list has what the server had
  when it answered and what was heard of since, each webhook once; it always has a
  socket or will open one.
* signatures: what a provider signed is stored as valid; what is stored as valid has a
  signature of the body that is stored.

## 2. The modules

| Module | What it is |
|---|---|
| `Hub` | `hub.go` and `client.go`, one action per channel operation, critical section, loop iteration or socket write |
| `EventFeed` | abstract specification: what a dashboard is promised |
| `HubProperties` | the hub's invariants, its refinement of `EventFeed`, its liveness |
| `HubProofs` | theorems about the hub: typing, `Run`, the routing table |
| `TunnelProofs` | theorems about the `WritePump` and the webhooks relayed, on top of `HubProofs` |
| `FeedProofs` | theorems about the dashboards' feed and its refinement of `EventFeed`, on top of `TunnelProofs` |
| `MCHubFeed`, `MCHubTunnel` | instances for TLC |
| `Agent` | `agent.go`: `Start`, `connectAndListen`, the read goroutine, `forwardLocally` |
| `Relay` | `Hub` and `Agent` composed over connections that may be lost |
| `RelayProperties` | what the two guarantee together |
| `RelayProofs` | theorems about the composition, on top of `TunnelProofs` |
| `MCRelay` | instance for TLC |
| `Gateway` | handlers, replay engine, store, `Migrate`, kill, power cut and restart |
| `GatewayProperties` | their invariants |
| `GatewayProofs` | theorems about them |
| `Signature` | `hmac.go`, the verdict of ingestion, the signed samples of `generator.go`: pure operators |
| `SignatureProperties` | what a provider sends, and what the verdict says about it |
| `Intake` | `Gateway` and `Signature` composed: the verdict a stored webhook has |
| `SignatureProofs` | theorems about the verdict |
| `MCGateway` | instance of `Intake` for TLC |
| `Dashboard` | one page: `App.tsx`, `useWebSocket.ts`, `api.ts`, against the server |
| `DashboardProperties` | what the page shows |
| `DashboardProofs` | theorems about the page |
| `MCDashboard` | instance for TLC |

The modules meet at few points, and each takes of the other what the other shows.
`Dashboard` takes the server's steps in the order `Gateway` gives them (stored, then
announced) and the socket as `Hub` gives it: in order, until it breaks, several
messages in a frame.  `Hub` and `Gateway` meet at two calls.  `Gateway` takes `BroadcastEvent` as a
hand-over that succeeds and `ForwardToTunnel` as one that may panic, which is
what `Hub` shows of them (`hub_feed`, `hub_forward`); `Hub` lets any handler make
either call at any moment.

### Hub

`clients`, `tunnels` and `broadcast` are the fields of `Hub`.  `sendq[c]` and
`closed` are a client's `send` channel, `conn[c]` its socket.  `reader[c]` and
`writer[c]` are the program counters of `ServeWS`/`ReadPump` and `WritePump`;
`frame`, `left` and `wire` are the frame under construction, the loop counter of
the drain and what has reached the socket.  `fanTodo` and `message` are the
state of the fan-out loop.  `call` and `target` are the stack of a
`ForwardToTunnel` call between its `RUnlock` and its `select`.  `published` and
`joined` are history variables; they name events by their position in the
broadcast order.

| Action | Code |
|---|---|
| `ServeWS` | `client.go:114-129`: upgrade, then block on `register` |
| `RegisterClient`, `RegisterTunnel` | `hub.go:54-63` and `client.go:131-132` |
| `UnregisterClient`, `UnregisterTunnel` | `hub.go:65-80` |
| `TakeBroadcast`, `FanOut` | `hub.go:82-93`, one iteration of the loop a step |
| `BroadcastEvent` | `hub.go:99-113` |
| `ForwardLookup`, `ForwardSend` | `hub.go:118-128` and `141-146` |
| `ReadError`, `ReadPumpExit` | `client.go:45-67`: the deferred function unregisters, then closes |
| `TakeMessage`/`TakeFails`, `CountQueued`, `DrainOne`, `Flush`/`FlushFails` | `client.go:79-102` |
| `CloseSeen`, `PingFails` | `client.go:81-85` and `104-108` |
| `PeerLost` | external: the peer leaves, the network fails or a deadline expires |

A receive from `register` or `unregister` and the critical section that follows
it are one step: `Run` does nothing in between, and nothing else can touch the
client until it is in a table.  Pings that succeed and messages a peer sends (they
are read and dropped) change nothing and are left out.  A peer that is lost
never comes back on the same connection; a reconnection is another member of
`Clients`.

### Agent and Relay

`phase` is where `Start` stands: dialling, listening, in its three-second pause,
stopped.  `current` is the connection `connectAndListen` holds, `signal` the one
slot of the `interrupt` channel, `reading` the read goroutines, `running` the
`forwardLocally` goroutines; `received` and `failed` are what the local
application got and what it did not.  The agent's connections are the members of
`Tunnels`, each dialled once; `nread[c]` counts the frames of `wire[c]` that its
read goroutine has taken.

| Action | Code |
|---|---|
| `Dial`, `DialFails` | `agent.go:101-113`, with `ServeWS` on the hub's side |
| `Receive`, `ReceiveFails` | `agent.go:114-132`: one frame, one JSON value or nothing |
| `ForwardLocally` | `agent.go:145-197` |
| `Leave` | `agent.go:135-142` and the deferred `conn.Close` of line 106 |
| `AgentStops`, `Reconnect` | `agent.go:90-98` |
| `Interrupt` | external: Ctrl+C or SIGTERM |

The network keeps the order of frames.  What was written to a connection may
still be read after the connection has ended or may be lost with it; the hub
notices the end later than the agent.  A webhook is posted with a timeout, so
`ForwardLocally` always ends; what the local application answers is data.

### Gateway

`endpoints`, `requests` and `logs` are the tables, by row id; the constraints
and cascades of `migrations.go` are in the operators `InsertEndpoint`,
`InsertRequest`, `InsertLog`, `DeleteRows` and `DeleteEndpointRow`.
`stage[o]` is where the handler of operation `o` stands, `answer[o]` the status
it sent, `found[o]` the endpoint it holds in memory; `events` is what was handed
to `BroadcastEvent`.  `server` is the process.  `committed` is a history
variable: the writing operations in commit order.  `disk` is what a power cut would
leave, `lost` the operations that power cuts have rolled back.

| Action | Code |
|---|---|
| `CreateCheck`, `CreateInsert`, `CreateBroadcast` | `endpoints_handler.go:37-68` |
| `DeleteExec`, `DeleteBroadcast` | `endpoints_handler.go:88-106` |
| `IngestLookup`, `IngestSave`, `IngestBroadcast`, `IngestForward` | `ingest_handler.go:32-113` |
| `ClearExec` | `requests_handler.go:111-120`, `queries.go:337-344` |
| `ReplayLoad` | `requests_handler.go:70-81` |
| `ReplayResolve`, `ReplaySend`, `ReplayLog`, `ReplayBroadcast` | `engine.go:56-135` |
| `MigrateCount`, `MigrateSeed` | `migrations.go:10-96` |
| `Crash` | external: the process is killed; the WAL stays |
| `Quit` | `main.go:126-132`, `cmd/server/main.go:51-57`: on a signal the process ends without waiting for any handler, and `db.Close` checkpoints |
| `PowerCut` | external: the machine stops; the tables are `disk` again |

SQLite runs one statement at a time as far as their effects go, so a statement
is one step.  With `Faults` any statement may also fail without effect
(`SQLITE_BUSY` after the busy timeout, a full disk, a clash of the truncated
UUIDs).  The answer of a replay target, headers and bodies are data nothing here
depends on.  `IngestForward` may answer 500 because `ForwardToTunnel` may panic:
that is what run `hub_forward` of `Hub` finds.

With `synchronous(NORMAL)` a commit is in the WAL and reaches the disk with a
checkpoint, or when the operating system writes it.  So after each commit `disk` is
what it was or all that is stored (`Synced`); being a prefix of the commits, what a
power cut leaves is itself a state the handlers have been through.  The seed of
`Migrate` can be rolled back too.

### Signature and Intake

A MAC is the record of what went into it: two are equal when secret, text and form are.
A header value is a sequence of parts, each with its key (`t`, `v1`, `sha256=`, none), so
that parsing, prefixes and encodings are what they do: which part is compared with
which MAC, which stamp counts, which prefixes are trimmed.  The clock counts instants,
`Second` of them to a second; a Stripe stamp counts seconds, so it lies up to a second
behind.  Bodies are sequences of chunks, cut at `MaxBody`, which stands for 10 MiB.

`Verdict` is `ingest_handler.go:69-73`; `VerifySignature` with the five `Verify...` is
`hmac.go`; `Sample` and `Unix` are `generator.go:23-115`.  What the providers send
(`Delivery`, `StripeHeaders`, `SlackHeaders`) is external, from README:160 of the
repository.  `Gateway` leaves open which delivery an ingestion carries and which secret
its endpoint has; `Intake` therefore asks of every stored webhook that the verdict is
right for any of them.

### Dashboard

`endpoints`, `requests`, `selectedEndpointId` and `selectedRequestId` are the state of
`App`; `rendered` is the selection the effects last ran for.  `loads` holds the calls of
`loadData` under way, each with the selection of the render that created it and with
the point it has reached; `shown` and `listed` are the loads whose requests and whose
endpoints were applied last, which need not be the last one started.  `refreshes`,
`posting` and `clearing` are the other calls.
A *line* is a socket or the timer that will replace it; `timer` is
`reconnectTimeoutRef`.  `rows`, `saved`, `told` and `known` are the server.

| Action | Code |
|---|---|
| `Render`, `LoadAnswered`, `EndpointsLoaded`, `RequestsLoaded`, `LoadFails` | `App.tsx:19-36`, one step up to each `await`; `queries.go:119-155`, `225-295` |
| `Receive` | `useWebSocket.ts:35-52` and `App.tsx:39-50`: one message, or a frame of several that is no JSON value |
| `RefreshAnswered`, `Refreshed`, `RefreshFails` | `App.tsx:49` |
| `Submit`, `PostAnnounces`, `PostDone`, `PostFails` | `App.tsx:77-81`, `api.ts:11-22`: the last when the answer is lost |
| `Clear`, `ClearExec`, `Cleared`, `ClearFails` | `App.tsx:83-89`, `api.ts:40-44`: the last when the fetch is rejected |
| `SelectEndpoint`, `SelectRequest` | the setters of `App.tsx:12` and `14` |
| `Open`, `Lose`, `OnClose`, `Reconnect` | `useWebSocket.ts:17-60` |
| `Store`, `Announce` | `ingest_handler.go:94` and `100` |

`main.tsx` mounts under `React.StrictMode`, which in development mounts twice: the
cleanup closes the first socket while it is connecting, and its close event arms a
reconnection all the same (`useWebSocket.ts:57`).  `Init` has both, the page mounted once and
twice; in the second the page has two lines to the end, which share one timer
reference.  Registration with the hub and `onopen` are one step, and so are the click on the
form and the insertion: what may come between has the same effect before or after.

## 3. The runs

| Run | Instance | Question |
|---|---|---|
| `hub_feed` | two dashboards, channels of one slot, three events | do dashboards see every event in order, does `Run` survive, does anybody wait for a slow client? |
| `hub_tunnel` | two agents on one slug, one on `*`, two webhooks | is the routing table alive, is a webhook relayed at most once, is what was accepted kept? |
| `hub_forward` | one agent, two webhooks | *violated*: `ForwardToTunnel` never panics |
| `hub_replaced` | two agents on one slug | *violated*: a connected agent has its tunnel |
| `relay` | an agent with two successive connections, two webhooks, one interrupt | does the local application get a webhook once, is nothing that was accepted lost while its connection stands, does the agent leave no socket open? |
| `relay_live` | the same with one webhook, fairness | is an accepted webhook posted in the end, is every lost connection cleaned up? |
| `relay_batch` | as `relay` | *violated*: a webhook the agent has read is posted |
| `relay_interrupt` | as `relay_live` | *violated*: Ctrl+C ends the agent |
| `gateway` | two creations of one slug, a deletion and a purge of any endpoint, a webhook, its replay; faults; one kill, power cut or signal; two secrets, four bodies | store, answers and events under every interleaving; is the stored verdict right? |
| `gateway_replay` | the same without faults and kill | *violated*: a replay answered 200 is in the history |
| `gateway_duplicate` | the same without faults and kill | *violated*: a duplicate slug is answered 409 |
| `dashboard` | one page, mounted once or twice, two webhooks of one endpoint, a second endpoint created on the page | at rest, does the page list what its last answer was read with and what it has heard of since, nothing twice, and the endpoint it created? does it stay connected? |

Bounds.  Channels of one slot are enough to fill them with one message, and
three events make a dashboard with one message in the frame and one in the
channel overflow; a longer channel only postpones the same states.  Two
dashboards let one be dropped while the fan-out still has the other to serve.
Two agents on one slug are what a take-over needs, the third on `*` the
fallback.  In `gateway` every kind of operation that can disturb another is
there once, creations twice because they compete; one end of the process is enough to meet
every intermediate state, and `Migrate` then meets an empty, a seeded and a
half-seeded file, or one whose seed was rolled back.  `gateway` has 2.6 million
distinct states.  It uses the symmetry of the two creations, and a view that leaves `disk`
out once no end of the process is left to bring it back: no invariant reads `disk` then but
the type.  The signature inputs are three instants to a second and a tolerance of two
seconds, so that both edges of the window are met from both sides with every fraction of
a second, and one chunk of body, so that one of the four bodies is cut.  `hub_tunnel` uses the symmetry of the agents of one slug and
of the webhooks, and `relay` that of the connections and of the webhooks; neither
checks liveness.  In `relay` two connections are one reconnection, during which
the hub may still hold the first; two webhooks are the smallest batch.  A second
interrupt only repeats the state after the first.  `relay_live` has one webhook, as
liveness is about one at a time and a batch would excuse it.

In `dashboard` (4.7 million distinct states) two webhooks fill the page's limit and the
server's largest one, so the limit is met exactly.  `Budget` and `Breaks` bound what the
user, failing calls and the network do in one behaviour, separately for a page that was
mounted once and one that was mounted twice, because two lines multiply the states.
Mounted once: the form with a failing call, or two failing calls, or a selection, or a
purge, and a connection that breaks twice, so that a reconnection can fail too.  Mounted
twice: a connection that breaks, on either line and at any point, also with both lines
open.  Acts of the user on a page of two lines, and more breaks, are beyond the run; the
theorems hold for any `Budget` and `Breaks` of both pages.  `MaxLoads` keeps two loads at
a time, enough for one to overtake the other.

Deadlock is checked in every run: the only states without a real step are those
of `Terminated` and `AtRest`, in which everything the bounds allow has happened.

Fairness (`Fairness` in `Hub`).  `Run`, each `ReadPump` and each `WritePump`
are goroutines: if one of them can take a step for ever, the Go scheduler lets it.
Weak fairness per goroutine says no more than that.  The choice of `select` between
ready cases is not assumed fair.  No peer is obliged to connect or leave and no
handler to call.  `WritePump`'s ticker fires again and again, which makes
`PingFails` of a lost connection a step that is eventually taken.

`RelayFairness` adds the agent's goroutines: each read goroutine ends or goes on
reading what has arrived, each post ends, `Start` leaves its pause and its dial in
one way or the other.  It does not say that a dial succeeds, that the user
interrupts or that the network fails.  `Reconnect` needs that no signal is waiting: the
`select` of the pause (`agent.go:91-94`) takes one that is there before its timer has run,
so a pause never passes over it.

## 4. What the violated runs show

* `ForwardNeverPanics`: `ForwardToTunnel` releases the lock before it sends
  (`hub.go:124`, `142`); an agent that disconnects in between has its channel
  closed (`hub.go:70`) and the send panics.  The webhook is stored but its sender
  gets a 500.
* `ConnectedAgentHasTunnel`: unregistering tests that the slug has an entry, not
  whose it is (`hub.go:68`).  When an agent reconnects before the server has
  noticed the end of its first connection, that end takes the new entry along:
  the agent stays connected and gets nothing.  Its own end then closes no channel.
* `BatchRelayed`: `WritePump` puts all that is queued into one text frame,
  separated by newlines (`client.go:95`); the agent parses a frame as one JSON value
  and skips it when that fails (`agent.go:121`).  Two webhooks in quick succession
  can both be lost after `ForwardToTunnel` returned true.  The passing properties of
  `relay` except exactly the webhooks of such frames.
* `InterruptStops`: `connectAndListen` consumes the signal (`agent.go:138`) that
  `Start` then waits for, so a connected agent reconnects after the first Ctrl+C.
* `ReplayIsLogged`: the error of `SaveReplayLog` is dropped (`engine.go:127`).
* `DuplicateIs409`: look-up and insertion are two statements
  (`endpoints_handler.go:49`, `55`).

What the passing runs leave room for.  Two of these cases are against what a document of
the repository says:

* A body over the limit is cut without an error (`ingest_handler.go:50`), where the line
  above says "sans troncature" and `hmac.go:25` that the body must not be cut.  A
  signature of the whole body does not make its beginning valid, but one made of
  just the stored beginning does, and the row does not say that more was sent.
  `ValidIsSigned` states what holds: a webhook stored as valid has a signature of the body
  stored.
* After a power cut, webhooks answered 202 may be gone (`lost`), where README:33 of the
  repository speaks of no loss of data; `db.go:24` chooses the faster mode knowingly.
  `AcceptedStays` excepts them.

About the others no document says what should happen:

* A list read before a webhook was stored replaces one that shows its event
  (`App.tsx:25`), and events batched into a frame or missed during a reconnection are not
  made up for until the next load.  `QuietListComplete` says what does hold, of a page that
  shows the answer to its last load: nothing that was in it or heard of since is missing.
* In the same way the endpoints of an older load may replace those of the last one
  (`App.tsx:21-22`), and an endpoint created in between is not listed until the next
  load or event.  `CreatedListedOnce` excepts this (`listed`).
* A selection may name a webhook that is no longer listed: when another endpoint is
  selected, `selectedRequestId` stays, the load selects nothing (`App.tsx:26`), and the page
  lists webhooks and shows none (`App.tsx:72-74`).  `SomethingSelected` is only about
  no selection at all.
* Local posts of the agent may overtake one another (`agent.go:129`), and a kill between the
  commit of a webhook and its event leaves it unannounced (`ingest_handler.go:100`).
* `clearRequests` ignores the status (`api.ts:43`): the page may forget rows the server
  still has.
* The sample generator signs `shopify`, which the comment at `generator.go:17` lists,
  in the generic form, which an endpoint for Shopify finds invalid.  `SamplesVerify` is
  about the providers the command names (`main.go:155`).
* An endpoint created on the page can be listed by its own event before the answer to
  the POST prepends it (`App.tsx:79`).  The load that its selection causes puts that
  right, unless it was selected already: a user who selects it, goes back to all
  endpoints and then sees the POST answered before the effects of that change run leaves
  it listed twice.  `CreatedListedOnce` excepts this (`twice`).  It takes more than
  the `Budget` of the run; the proof of the theorem is what brought it up.

## 5. What is proved

`HubProofs` proves, for any sets of connections, slugs and webhooks and any
capacities, assuming only `HubAssumption`:

* `Typing`: `Spec => []TypeOK`.  The bounds on the channels are part of it.
* `RunSafe`: `Spec => []RunNeverPanics`.
* `EntriesLive`: `Spec => []TunnelEntriesLive`.

Neither of the last two is inductive.  That `Run` does not close a channel twice
depends on who may be in the tables, so the invariant `RunInv` adds to them that
a dashboard in `clients` has an open channel and is registered (`ClientsLive`),
and that a channel is closed only for a connection whose unregistration has been
taken or, for a dashboard, that was dropped (`ClosedIsGone`).  The take-over case is
the delicate one: the first agent's end closes *its own* channel and removes the
*other* agent's entry, so the second agent's end finds no entry and closes
nothing.  Type correctness is proved group by group (`TablesOK`, `RunOK`,
`SendsOK`, `PumpsOK`, `CallsOK`); each lemma covers the actions that touch its
group, the others leave it unchanged.

`TunnelProofs` proves of the same model:

* `DrainFinds`: `Spec => []DrainFindsMessages`, from `PumpInv`: a pump that drains has
  counted no more than its channel holds.  Every other actor only appends to the
  channel or closes it, and closing leaves what it holds.
* `RelayedOnce`: `Spec => []RelayedAtMostOnce` and `AcceptedKept`:
  `Spec => []AcceptedIsKept`, from `TunnelInv`: what is in the channel, the frame and the
  frames written of an agent was accepted for it, the three are disjoint and each
  lists a webhook once, and an accepted webhook is in one of them unless the connection has
  ended.  Disjointness is what makes the moves from one to the next preserve the rest.

`FeedProofs` proves the abstract specification of the feed, for any number of
dashboards, events and slots:

* `FeedHasNoGaps`: `Spec => []FeedGapFree`.  `QueueInv` fixes what `Run` has in hand: the
  broadcast channel holds the events after the dispatched ones, and the loop sends the last
  of those.  `FeedInv` says of each dashboard that wire, frame and channel are one run of
  consecutive events from `joined` on, and that while it is in `clients` this run ends
  with the last event due to it; a dashboard the loop still has to serve is one behind.
* `HubImplementsFeed`: `Spec => FeedSpec`.  Steps of the hub stutter except a broadcast
  (`Publish`), a registration (`Join`), the write of a frame (`Deliver`) and the end of its
  pump (`Leave`); the run being gapless is what makes the write of a
  frame extend what was seen to an interval.

`RelayProofs` proves, for any number of connections and of dashboards beside them:

* `RelayImplementsHub`: `RelaySpec => Spec`.  Each step of the composition is a step
  of the hub or leaves it alone, so every theorem about the hub holds with an agent
  at its other end; `RelayRunSafe` is the instance for `RunNeverPanics`.  The
  invariant it needs is `Holds`: a listening agent holds a connection of its own,
  which is what makes its `conn.Close` a loss of connection for the hub.
* `OneSocketAtATime`: `RelaySpec => []OneSocket`, inductive together with `Holds` and
  the type of `conn`, which comes from `Typing` through the refinement.
* `RelayTyping`: `RelaySpec => []RelayTypeOK`, with `RelayAssumption` on the bound of
  the signals.
* `ReceivedAtMostOnce`: `RelaySpec => []ReceivedOnce` and `AcceptedIsHandedOver`:
  `RelaySpec => []HandedOver`.  `RelayInv` says that the agent reads only what was
  written, posts only webhooks of frames it has read, each once, and has posted or is
  posting every webhook that came alone in a frame.  `TunnelInv`, which holds here because
  of `RelayImplementsHub`, does the rest: a webhook is in one frame of one connection, so
  two connections cannot make the agent post it twice.

`GatewayProofs` proves, for any sets of operations and endpoints, any slugs and any
number of kills, power cuts and signals, assuming only `GatewayAssumption`:

* `GatewayTyping`: `Spec => []TypeOK`.
* `StoreStaysConsistent`: `Spec => []StoreConsistent`.  `StoreInv` adds that a stored
  webhook's handler has left its first stage: only there is `found` assigned, so the
  foreign key of a stored row cannot change.
* `DefaultAlwaysReceives`: `Spec => []DefaultReceives`.  `DefaultInv` adds that a
  table with any endpoint has the default one, whatever `server` is: this is why
  counting the endpoints is a sound test for an unfinished `Migrate`.
* `EventsFollow`: `Spec => []EventsFollowCommits`.  `EventsInv` adds that a handler
  about to broadcast has committed; replays are the exception, see `ReplayIsLogged`.
* `AcceptedIsStored`: `Spec => []AcceptedStays`.  `AcceptedInv` says the same of a
  webhook from its `INSERT` on, and that whatever has been written is past its first
  stage, so that a removal in the history still names what it removed.
* `AnnouncedWhenQuiet`: `Spec => []AnnouncedWhenIdle`.  What a handler has written and
  not announced keeps it at its broadcast.

`StoreInv`, `DefaultInv` and `AcceptedInv` say of `disk` what they say of the tables: a
power cut puts `disk` in their place, and it can only be as good as it was when it
was written.

The proofs do not visit the fifteen steps of the handlers once per theorem.
`Shapes` shows that each step of each handler has one of nine shapes (a quiet
step, a lookup, a refusal, an announcement, one of five writes), and every
invariant is then shown to survive the shapes.

`SignatureProofs` proves, for any secrets, bodies, stamps, readings of the clock, any
tolerance above zero and any resolution of the clock, assuming `SignatureAssumption` and
`InputAssumption`, that every reachable state of `Gateway` satisfies
`GenuineIsValid`, `ValidIsSigned`, `WindowFromSending` and `SamplesVerify`
(`GenuineStoredValid`, `ValidStoredIsSigned`, `WindowHolds`, `SamplesStoredValid`).  The
verdict is a function, so no induction is needed; the argument is `DeliveryVerdict`: the
verifier that an endpoint's provider selects (`Dispatch`) finds in a delivery of its own
form exactly secret, body and stamp (`OwnForm`), and no header at all in a delivery of
another form (`OtherForm`).  The window is arithmetic on `Unix` (`UnixBehind`,
`ToleranceFromSending`).  MACs being symbolic, two differ when secret or text do; that
SHA-256 has no collisions is not the subject.

`DashboardProofs` proves, for any webhooks and any finite number of endpoints, any
`Budget` and `Breaks` of a page mounted once or twice, and any limit up to the server's largest one, assuming `DashboardAssumption` and
`LimitGranted`, the invariant `PageInv` (`PageInvariant`) and from it

* `Typing`: `Spec => []TypeOK`;
* `RowsAreUnique`: `Spec => []NoDuplicateRows`;
* `QuietListIsComplete`: `Spec => []QuietListComplete`;
* `SomethingIsSelected`: `Spec => []SomethingSelected`;
* `CreatedIsListedOnce`: `Spec => []CreatedListedOnce`: listed unless an older load has
  replaced the endpoints, once unless selected before the answer to the POST.

The three about a page at rest are far from inductive: at rest nothing is under way,
so the invariant has to say what every call under way will bring (`LoadOK`).  Only the
load that was started last matters, and it works for the selection the effects last ran
with (`rendered`), whatever the user has selected since; once it has been applied, the
list has its page (`ListInv`).  An endpoint is listed twice only while a load is to come
that lists the endpoints anew (`Repeated`).  That a created one is listed (`CreatedInv`)
has three parts: before the form is submitted nothing the page has or is about to get names
it (`BeforeForm`), so that every refresh, which its event causes, lists it; the last load, once
it works for the selection the form has made, was answered after the insertion
(`LastLists`); and so the endpoints applied last name it if they came with that load
or later (`ListedOnPage`).  That an answer contains the first `Limit`
webhooks rests on `NewestLists`: any finite set of numbers has a listing in descending
order.  This is an induction, which the prover cannot instantiate; it is proved as a
least-number argument instead (`ListingExists`): the set of cardinalities that have no
listing has no smallest member.  `NeverWithoutALine`: `Spec => []NeverSilent` needs only
the type of the lines.

`LimitGranted` says that the page asks for no more than the server grants: 100
(`api.ts:33`) against 100 (`queries.go:248`).  Without it the server falls back to a shorter
page and `QuietListComplete` fails; the mutant of that property does just this.

Only model-checked is liveness (`EventsFannedOut`, `LostConnectionsEnd`,
`AcceptedArrives`): the prover handles neither fairness nor ENABLED.  So are, of course,
the violated properties: a counterexample needs no proof.

## 6. What is not modelled, and the plan

Not modelled: TLS and HTTP details, the contents of headers and bodies, rendering and the
forms of the dashboard, flags and banners, deployment scripts.  The text search and
the offset of the listing have no client; `UpdateEndpointPayload` has no handler.
`rows.Err` (`queries.go:294`) is not read after a listing, so a failure in its middle is
a short list answered 200; no property covers it.

What is left to do, in order of importance: the end of the process composed with the
hub and its agents, which today end together only in `Gateway`; the proof that
what the sockets of `Dashboard` deliver is what `EventFeed` promises, so that the page and the
hub are one refinement; an abstract specification of the store for the handlers of
`Gateway` to implement, in which an operation is one atomic step.
