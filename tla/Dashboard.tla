------------------------------ MODULE Dashboard ------------------------------
(***************************************************************************)
(* One page of the dashboard (ui/src/App.tsx, hooks/useWebSocket.ts,       *)
(* lib/api.ts) against the server: the calls it makes, the list it shows   *)
(* and the sockets over which it hears of new webhooks.                    *)
(*                                                                         *)
(* A step is what JavaScript runs without giving way: an event handler, a  *)
(* timer, the continuation of an await, a render with its effects.  A call *)
(* is asked, answered by the server and applied by the page in three       *)
(* steps, so calls overtake one another.  The server stores a webhook and  *)
(* announces it in two steps, as in module Gateway.                        *)
(*                                                                         *)
(* React.StrictMode mounts a component twice in development: the socket of *)
(* the first mount is closed while it is connecting, its close event arms  *)
(* a reconnection, and the page goes on with two lines.  A line is a       *)
(* socket, or the timer that will replace it.                              *)
(***************************************************************************)
EXTENDS Naturals, Sequences, FiniteSets, SequencesExt

CONSTANTS
  Webhooks,       \* webhooks, numbered in the order of their created_at
  Endpoints,      \* endpoints, numbered in the order of their created_at
  EndpointOf,     \* the endpoint a webhook is sent to
  Created,        \* the endpoint that the form of this page creates
  All,            \* selectedEndpointId = ""
  Nothing,        \* selectedRequestId = null
  Update,         \* a message EVENT_ENDPOINT_UPDATE
  Limit,          \* the limit in the page's request
  MaxLimit,       \* the largest limit the server grants
  DefaultLimit,   \* the one it uses instead of a larger one
  MaxLoads,       \* bound: calls of loadData at a time; a render waits for one
  Budget,         \* bound: Budget[m] is for a page that was mounted m times; the user's
                  \* form and a failed call of loadData or of a refresh take 1 of it,
                  \* a selection or a purge 2
  Breaks          \* bound: broken connections of a page that was mounted m times

ASSUME DashboardAssumption ==
  /\ Webhooks \subseteq Nat /\ Endpoints \subseteq Nat /\ IsFiniteSet(Endpoints)
  /\ EndpointOf \in [Webhooks -> Endpoints]
  /\ Created \in Endpoints
  /\ All \notin Endpoints /\ {Nothing, Update} \intersect Webhooks = {}
  /\ {Limit, MaxLimit, DefaultLimit} \subseteq Nat \ {0}
  /\ MaxLoads \in Nat /\ {Budget, Breaks} \subseteq [{1, 2} -> Nat]

\* The page asks for 100 webhooks, which is just what the server grants.
ASSUME LimitGranted == Limit <= MaxLimit

Lines == {1, 2}
NoTimer == 0

VARIABLES
  rows, saved, told,      \* server: webhooks stored now, ever stored, announced
  known,                  \* server: endpoints stored
  endpoints, requests,    \* page: the two lists
  selectedEndpointId, selectedRequestId,
  rendered,               \* page: the selection when the effects last ran
  loads,                  \* calls of loadData under way
  started, shown, listed, \* number of the last load started, of the one whose requests were
                          \* applied last, and of the one whose endpoints were
  refreshes,              \* calls of fetchEndpoints by handleEndpointUpdate
  posting, clearing,      \* the POST of the form, the DELETE of the purge
  line,                   \* line[l]: state of the socket or timer
  timer,                  \* reconnectTimeoutRef: the line that armed it last
  inbox,                  \* inbox[l]: messages on their way to the page
  budget, breaks,         \* what is left of Budget and Breaks
  read, heard,            \* history: webhooks stored when the list shown was
                          \* read, and heard of since it was applied
  twice                   \* history: Created was selected before its POST came back

server == <<rows, saved, told, known>>
page == <<endpoints, requests, selectedEndpointId, selectedRequestId, rendered>>
calls == <<loads, started, shown, listed, refreshes, posting, clearing>>
net == <<line, timer, inbox>>
history == <<read, heard, twice>>
bounds == <<budget, breaks>>
vars == <<server, page, calls, net, bounds, history>>

-----------------------------------------------------------------------------
(* Listings: ListEndpoints and ListWebhookRequests *)

\* ORDER BY created_at DESC
Newest(S) == CHOOSE s \in SetToSeqs(S) : \A i, j \in DOMAIN s : i < j => s[i] > s[j]

InScope(r, e) == e \in {All, EndpointOf[r]}

\* Mutant: the largest limit is refused too.
GrantedOffByOne(limit) == IF limit \in 1 .. MaxLimit - 1 THEN limit ELSE DefaultLimit

Granted(limit) == IF limit \in 1 .. MaxLimit THEN limit ELSE DefaultLimit

ListRequests(e) ==
  LET all == Newest({r \in rows : InScope(r, e)})
  IN  SubSeq(all, 1, IF Len(all) < Granted(Limit) THEN Len(all) ELSE Granted(Limit))

-----------------------------------------------------------------------------
(* State *)

\* Dependencies of loadData.
Deps == <<selectedEndpointId, selectedRequestId>>

NewLoad(n) ==
  [no |-> n, scope |-> selectedEndpointId, auto |-> selectedRequestId = Nothing,
   at |-> "endpoints", list |-> <<>>, seen |-> {}]

\* The page has been mounted, once or twice.
Init ==
  /\ rows = {} /\ saved = {} /\ told = {} /\ known = Endpoints \ {Created}
  /\ endpoints = <<>> /\ requests = <<>>
  /\ selectedEndpointId = All /\ selectedRequestId = Nothing
  /\ rendered = Deps
  /\ \E mounts \in {1, 2} :
       /\ started = mounts /\ budget = Budget[mounts] /\ breaks = Breaks[mounts]
       /\ line = IF mounts = 1 THEN <<"connecting", "gone">> ELSE <<"lost", "connecting">>
  /\ loads = {NewLoad(n) : n \in 1 .. started}
  /\ shown = 0 /\ listed = 0
  /\ refreshes = <<>> /\ posting = "no" /\ clearing = Nothing
  /\ timer = NoTimer /\ inbox = [l \in Lines |-> <<>>]
  /\ read = {} /\ heard = {} /\ twice = FALSE

Spend(n) == budget >= n /\ budget' = budget - n /\ UNCHANGED breaks

-----------------------------------------------------------------------------
(* Server *)

\* To every socket that is registered with the hub.
Send(message) ==
  inbox' = [l \in Lines |-> IF line[l] = "open" THEN Append(inbox[l], message) ELSE inbox[l]]

Store(r) ==
  /\ r \notin saved /\ EndpointOf[r] \in known
  /\ rows' = rows \union {r} /\ saved' = saved \union {r}
  /\ UNCHANGED <<told, known, page, calls, net, bounds, history>>

\* Mutant: a webhook is announced before it is stored.
UnannouncedAtOnce == Webhooks \ told

Unannounced == saved \ told

Announce(r) ==
  /\ r \in Unannounced
  /\ told' = told \union {r}
  /\ Send(r)
  /\ UNCHANGED <<rows, saved, known, page, calls, line, timer, bounds, history>>

-----------------------------------------------------------------------------
(* loadData *)

\* The selection has changed: the effect calls loadData.
Render ==
  /\ rendered # Deps /\ Cardinality(loads) < MaxLoads
  /\ rendered' = Deps
  /\ started' = started + 1
  /\ loads' = loads \union {NewLoad(started')}
  /\ UNCHANGED <<server, endpoints, requests, selectedEndpointId, selectedRequestId, shown,
                 listed, refreshes, posting, clearing, net, bounds, history>>

Becomes(load, next) == loads' = (loads \ {load}) \union {next}

LoadAnswered(load) ==
  /\ \/ /\ load.at = "endpoints"
        /\ Becomes(load, [load EXCEPT !.at = "gotEndpoints", !.list = Newest(known)])
     \/ /\ load.at = "requests"
        /\ Becomes(load, [load EXCEPT !.at = "gotRequests", !.list = ListRequests(load.scope),
                                      !.seen = rows])
  /\ UNCHANGED <<server, page, started, shown, listed, refreshes, posting, clearing, net, bounds,
                 history>>

EndpointsLoaded(load) ==
  /\ load.at = "gotEndpoints"
  /\ endpoints' = load.list
  /\ Becomes(load, [load EXCEPT !.at = "requests", !.list = <<>>])
  /\ listed' = load.no
  /\ UNCHANGED <<server, requests, selectedEndpointId, selectedRequestId, rendered, started,
                 shown, refreshes, posting, clearing, net, bounds, history>>

\* Mutant: the first request of the list is never selected.
SelectedByNone(load) == selectedRequestId

SelectedBy(load) ==
  IF load.auto /\ load.list # <<>> THEN Head(load.list) ELSE selectedRequestId

RequestsLoaded(load) ==
  /\ load.at = "gotRequests"
  /\ requests' = load.list
  /\ selectedRequestId' = SelectedBy(load)
  /\ loads' = loads \ {load}
  /\ shown' = load.no
  /\ read' = load.seen /\ heard' = {}
  /\ UNCHANGED <<server, endpoints, selectedEndpointId, rendered, started, listed, refreshes,
                 posting, clearing, net, bounds, twice>>

LoadFails(load) ==
  /\ load.at \in {"endpoints", "requests"} /\ Spend(1)
  /\ loads' = loads \ {load}
  /\ UNCHANGED <<server, page, started, shown, listed, refreshes, posting, clearing, net, history>>

Load ==
  \E load \in loads : \/ LoadAnswered(load) \/ EndpointsLoaded(load)
                      \/ RequestsLoaded(load) \/ LoadFails(load)

-----------------------------------------------------------------------------
(* Messages *)

\* Mutant: a webhook is prepended without looking for it.
PrependedAlways(r) == <<r>> \o requests

Prepended(r) == IF r \in Range(requests) THEN requests ELSE <<r>> \o requests

HandleNewRequest(r) ==
  /\ requests' = Prepended(r)
  /\ selectedRequestId' = IF selectedRequestId = Nothing THEN r ELSE selectedRequestId
  /\ heard' = heard \union {r}
  /\ UNCHANGED refreshes

\* An empty list stands for a call the server has not answered.
HandleEndpointUpdate ==
  /\ refreshes' = Append(refreshes, <<>>)
  /\ UNCHANGED <<requests, selectedRequestId, heard>>

\* A frame holds the messages that were queued together; more than one is not
\* a JSON value, and onmessage drops the frame.
Receive(l) ==
  /\ line[l] \in {"open", "lost"}
  /\ \E n \in 1 .. Len(inbox[l]) :
       /\ inbox' = [inbox EXCEPT ![l] = SubSeq(@, n + 1, Len(@))]
       /\ IF n > 1 THEN UNCHANGED <<requests, selectedRequestId, heard, refreshes>>
          ELSE IF Head(inbox[l]) = Update THEN HandleEndpointUpdate
          ELSE HandleNewRequest(Head(inbox[l]))
  /\ UNCHANGED <<server, endpoints, selectedEndpointId, rendered, loads, started, shown, listed,
                 posting, clearing, line, timer, bounds, read, twice>>

RefreshAnswered(i) ==
  /\ refreshes[i] = <<>>
  /\ refreshes' = [refreshes EXCEPT ![i] = Newest(known)]
  /\ UNCHANGED <<server, page, loads, started, shown, listed, posting, clearing, net, bounds, history>>

Refreshed(i) ==
  /\ refreshes[i] # <<>>
  /\ endpoints' = refreshes[i]
  /\ refreshes' = RemoveAt(refreshes, i)
  /\ UNCHANGED <<server, requests, selectedEndpointId, selectedRequestId, rendered, loads,
                 started, shown, listed, posting, clearing, net, bounds, history>>

RefreshFails(i) ==
  /\ refreshes[i] = <<>> /\ Spend(1)
  /\ refreshes' = RemoveAt(refreshes, i)
  /\ UNCHANGED <<server, page, loads, started, shown, listed, posting, clearing, net, history>>

Refresh ==
  \E i \in DOMAIN refreshes : RefreshAnswered(i) \/ Refreshed(i) \/ RefreshFails(i)

-----------------------------------------------------------------------------
(* The user *)

\* The user acts on what is displayed.
Acts(n) == rendered = Deps /\ Spend(n)

SelectEndpoint ==
  /\ Acts(2)
  /\ selectedEndpointId' \in (Range(endpoints) \union {All}) \ {selectedEndpointId}
  /\ UNCHANGED <<server, endpoints, requests, selectedRequestId, rendered, calls, net, history>>

SelectRequest ==
  /\ Acts(2)
  /\ \E r \in Range(requests) \ {selectedRequestId} :
       InScope(r, selectedEndpointId) /\ selectedRequestId' = r
  /\ UNCHANGED <<server, endpoints, requests, selectedEndpointId, rendered, calls, net, history>>

\* The insertion follows the click at once: what happens in between has the same
\* effect before the click.
Submit ==
  /\ Acts(1) /\ posting = "no" /\ Created \notin known
  /\ known' = known \union {Created}
  /\ posting' = "inserted"
  /\ UNCHANGED <<rows, saved, told, page, loads, started, shown, listed, refreshes, clearing, net,
                 history>>

\* Then the event, then the answer.
PostAnnounces ==
  /\ posting = "inserted"
  /\ posting' = "answered"
  /\ Send(Update)
  /\ UNCHANGED <<server, page, loads, started, shown, listed, refreshes, clearing, line, timer,
                 bounds, history>>

\* Mutant: the new endpoint is listed and not selected.
CreatedOnlyListed ==
  endpoints' = <<Created>> \o endpoints /\ UNCHANGED selectedEndpointId

CreatedShown == endpoints' = <<Created>> \o endpoints /\ selectedEndpointId' = Created

PostDone ==
  /\ posting = "answered"
  /\ posting' = "done"
  /\ CreatedShown
  /\ twice' = (Created \in {selectedEndpointId, rendered[1]})
  /\ UNCHANGED <<server, requests, selectedRequestId, rendered, loads, started, shown, listed,
                 refreshes, clearing, net, bounds, read, heard>>

\* The answer is lost.  A form that fails before the insertion changes nothing.
PostFails ==
  /\ posting = "answered"
  /\ posting' = "no"
  /\ UNCHANGED <<server, page, loads, started, shown, listed, refreshes, clearing, net, bounds,
                 history>>

Post == PostAnnounces \/ PostDone \/ PostFails

Clear ==
  /\ Acts(2) /\ clearing = Nothing
  /\ clearing' = [at |-> "asked", scope |-> selectedEndpointId]
  /\ UNCHANGED <<server, page, loads, started, shown, listed, refreshes, posting, net, history>>

\* The purge, or a failure of the server: clearRequests does not look at the status.
ClearExec ==
  /\ clearing # Nothing /\ clearing.at = "asked"
  /\ clearing' = [clearing EXCEPT !.at = "answered"]
  /\ rows' \in {rows, {r \in rows : ~InScope(r, clearing.scope)}}
  /\ UNCHANGED <<saved, told, known, page, loads, started, shown, listed, refreshes, posting, net,
                 bounds, history>>

Cleared ==
  /\ clearing # Nothing /\ clearing.at = "answered"
  /\ clearing' = Nothing
  /\ requests' = <<>> /\ selectedRequestId' = Nothing
  /\ read' = {} /\ heard' = {}
  /\ UNCHANGED <<server, endpoints, selectedEndpointId, rendered, loads, started, shown, listed,
                 refreshes, posting, net, bounds, twice>>

\* The fetch is rejected, with or without a purge: handleClear goes no further.
ClearFails ==
  /\ clearing # Nothing /\ clearing.at = "answered"
  /\ clearing' = Nothing
  /\ UNCHANGED <<server, page, loads, started, shown, listed, refreshes, posting, net, bounds,
                 history>>

-----------------------------------------------------------------------------
(* useWebSocket *)

\* ServeWS registers the upgraded connection with the hub and onopen runs, in one
\* step: registered first, messages wait for onopen; later, they are missed, as
\* if the socket had opened later.  onopen cancels the timer of
\* reconnectTimeoutRef, whoever armed it.
Open(l) ==
  /\ line[l] = "connecting"
  /\ line' = [k \in Lines |-> IF k = l THEN "open"
                               ELSE IF k = timer /\ line[k] = "waiting" THEN "gone"
                               ELSE line[k]]
  /\ timer' = NoTimer
  /\ UNCHANGED <<server, page, calls, inbox, bounds, history>>

\* The connection breaks; what has arrived by then is still handled.
Lose(l) ==
  /\ line[l] \in {"connecting", "open"}
  /\ breaks > 0 /\ breaks' = breaks - 1
  /\ line' = [line EXCEPT ![l] = "lost"]
  /\ \E n \in 0 .. IF line[l] = "open" THEN Len(inbox[l]) ELSE 0 :
       inbox' = [inbox EXCEPT ![l] = SubSeq(@, 1, n)]
  /\ UNCHANGED <<server, page, calls, timer, budget, history>>

\* Mutant: no second timer while the ref holds one; the ref is not reset when
\* its timer fires.
ArmOnce(l) ==
  IF timer = NoTimer
    THEN timer' = l /\ line' = [line EXCEPT ![l] = "waiting"]
    ELSE UNCHANGED timer /\ line' = [line EXCEPT ![l] = "gone"]

Arm(l) == timer' = l /\ line' = [line EXCEPT ![l] = "waiting"]

OnClose(l) ==
  /\ line[l] = "lost" /\ inbox[l] = <<>>
  /\ Arm(l)
  /\ UNCHANGED <<server, page, calls, inbox, bounds, history>>

\* After three seconds.
Reconnect(l) ==
  /\ line[l] = "waiting"
  /\ line' = [line EXCEPT ![l] = "connecting"]
  /\ UNCHANGED <<server, page, calls, timer, inbox, bounds, history>>

Line(l) ==
  Open(l) \/ Lose(l) \/ OnClose(l) \/ Reconnect(l) \/ Receive(l)

\* The page is at rest and the bounds are reached.
AtRest ==
  /\ told = {r \in Webhooks : EndpointOf[r] \in known}
  /\ loads = {} /\ refreshes = <<>> /\ posting \in {"no", "done"} /\ clearing = Nothing
  /\ rendered = Deps
  /\ \A l \in Lines : line[l] \in {"gone", "open"}
  /\ inbox = [l \in Lines |-> <<>>]
  /\ UNCHANGED vars

Next ==
  \/ AtRest
  \/ \E r \in Webhooks : Store(r) \/ Announce(r)
  \/ Render \/ Load \/ Refresh
  \/ SelectEndpoint \/ SelectRequest
  \/ Submit \/ Post
  \/ Clear \/ ClearExec \/ Cleared \/ ClearFails
  \/ \E l \in Lines : Line(l)

Spec == Init /\ [][Next]_vars

=============================================================================
