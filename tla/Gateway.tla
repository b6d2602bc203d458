------------------------------- MODULE Gateway -------------------------------
(***************************************************************************)
(* The HTTP handlers (internal/api), the replay engine (internal/replay)   *)
(* and the SQLite store they share (internal/database).                    *)
(*                                                                         *)
(* Each HTTP request runs its handler in a goroutine of its own.  A step   *)
(* is one SQL statement, one hand-over to the hub or one outgoing HTTP     *)
(* call; SQLite runs statements one at a time, each in a transaction of    *)
(* its own, and no handler groups two of them.  Any statement may fail     *)
(* (SQLITE_BUSY after busy_timeout, a full disk).  The process may be      *)
(* killed or asked to end between any two steps and is started again on    *)
(* the same file.  With synchronous(NORMAL) a commit is not yet on the     *)
(* disk: when the power fails, the last ones are rolled back.              *)
(*                                                                         *)
(* Row ids are 12 characters of a fresh UUID, so the row an operation      *)
(* inserts is named after the operation; a clash of two ids is one of the  *)
(* ways an INSERT may fail.                                                *)
(***************************************************************************)
EXTENDS Naturals, Sequences, FiniteSets, Functions

CONSTANTS
  Creates,        \* POST   /api/endpoints
  Deletes,        \* DELETE /api/endpoints/{id}
  Ingests,        \* ANY    /in/{slug}
  Clears,         \* DELETE /api/requests
  Replays,        \* POST   /api/requests/{id}/replay
  Default,        \* the id "ep_default"
  Slugs,
  SlugOf,         \* slug of an endpoint: of "ep_default" or in the payload
  SlugIn,         \* SlugIn[i]: slug in the URL of ingestion i
  Replayed,       \* Replayed[p]: the webhook replay p re-emits
  WithTarget,     \* the replays whose payload names a target URL
  WithForward,    \* the endpoints that have a forward URL
  All,            \* no endpoint_id in the query string
  None,           \* no endpoint yet
  Faults,         \* whether a statement may fail though no constraint forbids it
  MaxCrashes      \* bound: how often the process ends

Ops == Creates \union Deletes \union Ingests \union Clears \union Replays
Scoped == Ingests \union Deletes \union Clears
EndpointIds == Creates \union {Default}

ASSUME GatewayAssumption ==
  /\ Creates \intersect (Deletes \union Ingests \union Clears \union Replays) = {}
  /\ Deletes \intersect (Ingests \union Clears \union Replays) = {}
  /\ Ingests \intersect (Clears \union Replays) = {}
  /\ Clears \intersect Replays = {}
  /\ Default \notin Ops
  /\ SlugOf \in [EndpointIds -> Slugs]
  /\ SlugIn \in [Ingests -> Slugs]
  /\ Replayed \in [Replays -> Ingests]
  /\ WithTarget \subseteq Replays
  /\ WithForward \subseteq EndpointIds
  /\ {All, None} \intersect EndpointIds = {}
  /\ Faults \in BOOLEAN
  /\ MaxCrashes \in Nat

VARIABLES
  endpoints,      \* rows of table endpoints
  requests,       \* rows of table webhook_requests
  logs,           \* rows of table replay_logs
  found,          \* found[o]: the endpoint ingestion o looked up (the row's
                  \* endpoint_id), or the one deletion or purge o is about
  stage,          \* stage[o]: where the handler of o stands
  answer,         \* answer[o]: HTTP status sent, 0 for none
  events,         \* the operations announced through hub.BroadcastEvent
  server,         \* the process: "down", "seeding" (in Migrate) or "up"
  crashes,        \* how often the process ended
  committed,      \* history: the operations whose write committed, in order
  disk,           \* the tables (and that history) as a power cut leaves them
  lost            \* history: the operations a power cut rolled back

tables == <<endpoints, requests, logs, committed, disk, lost>>
vars == <<tables, found, stage, answer, events, server, crashes>>

Stages == {"start", "insert", "save", "resolve", "send", "log",
           "broadcast", "forward", "done", "killed"}

Codes == {200, 201, 202, 400, 403, 404, 409, 500}

Stored == [endpoints |-> endpoints, requests |-> requests, logs |-> logs,
           committed |-> committed]

Databases == [endpoints : SUBSET EndpointIds, requests : SUBSET Ingests,
              logs : SUBSET Replays, committed : Seq(Ops)]

TablesOK == {Stored, disk} \subseteq Databases /\ lost \subseteq Ops

HandlersOK ==
  /\ found \in [Scoped -> EndpointIds \union {All, None}]
  /\ stage \in [Ops -> Stages]
  /\ answer \in [Ops -> Codes \union {0}]

\* A webhook that is being saved has an endpoint.
FoundOK ==
  \A i \in Ingests : stage[i] \in {"save", "broadcast", "forward"} =>
    found[i] \in EndpointIds

ProcessOK ==
  /\ events \subseteq Ops
  /\ server \in {"down", "seeding", "up"}
  /\ crashes \in 0 .. MaxCrashes

TypeOK == TablesOK /\ HandlersOK /\ FoundOK /\ ProcessOK

\* An empty database file and no process yet.
Init ==
  /\ endpoints = {} /\ requests = {} /\ logs = {} /\ committed = <<>>
  /\ disk = Stored /\ lost = {}
  /\ found = [o \in Scoped |-> None]
  /\ stage = [o \in Ops |-> "start"]
  /\ answer = [o \in Ops |-> 0]
  /\ events = {}
  /\ server = "down"
  /\ crashes = 0

-----------------------------------------------------------------------------
(* Statements: the constraints and cascades of the schema *)

SlugTaken(s) == \E e \in endpoints : SlugOf[e] = s

\* slug TEXT UNIQUE NOT NULL
InsertEndpoint(e) ==
  /\ ~SlugTaken(SlugOf[e])
  /\ endpoints' = endpoints \union {e}
  /\ UNCHANGED <<requests, logs>>

\* Mutant: replay_logs declared without ON DELETE CASCADE.
DeleteRowsKeepsLogs(s) == requests' = requests \ s /\ UNCHANGED logs

\* DELETE FROM webhook_requests, which takes the replay logs along.
DeleteRows(s) ==
  /\ requests' = requests \ s
  /\ logs' = {p \in logs : Replayed[p] \notin s}

RowsOf(e) == {i \in requests : found[i] = e}

\* DELETE FROM endpoints, which takes its webhooks along.
DeleteEndpointRow(e) ==
  /\ endpoints' = endpoints \ {e}
  /\ DeleteRows(RowsOf(e))

\* FOREIGN KEY(endpoint_id) REFERENCES endpoints(id)
InsertRequest(i) ==
  /\ found[i] \in endpoints
  /\ requests' = requests \union {i}
  /\ UNCHANGED <<endpoints, logs>>

\* FOREIGN KEY(request_id) REFERENCES webhook_requests(id)
InsertLog(p) ==
  /\ Replayed[p] \in requests
  /\ logs' = logs \union {p}
  /\ UNCHANGED <<endpoints, requests>>

-----------------------------------------------------------------------------
(* Steps of a handler *)

At(o, s) == server = "up" /\ stage[o] = s

Goto(o, s) ==
  /\ stage' = [stage EXCEPT ![o] = s]
  /\ UNCHANGED <<answer, server, crashes>>

Reply(o, code) ==
  /\ stage' = [stage EXCEPT ![o] = "done"]
  /\ answer' = [answer EXCEPT ![o] = code]
  /\ UNCHANGED <<server, crashes>>

\* Mutant: the error of a write is ignored.
FailIgnored(o) == Goto(o, "broadcast")

Fail(o) == Reply(o, 500)

\* A commit is in the WAL, and on the disk when it is synchronised: by a
\* checkpoint or by the operating system, together with all before it.
Synced == disk' \in {disk, Stored'} /\ UNCHANGED lost

Commit(o) == committed' = Append(committed, o) /\ Synced

\* A step that reads or fails: no table changes, nothing is broadcast.
Only(step) == step /\ UNCHANGED <<tables, found, events>>

\* A statement of o that takes effect.
Write(o, statement) ==
  statement /\ Commit(o) /\ UNCHANGED <<found, events>>

\* Mutant: an event is dropped when the hub is busy.
BroadcastOrDrop(o) ==
  events' \in {events, events \union {o}} /\ UNCHANGED <<tables, found>>

Broadcast(o) == events' = events \union {o} /\ UNCHANGED <<tables, found>>

-----------------------------------------------------------------------------
(* EndpointsHandler *)

\* An invalid payload is a 400.  Create looks the slug up; an error of that
\* read is ignored.
CreateCheck(o) ==
  /\ At(o, "start")
  /\ \/ Only(Reply(o, 400))
     \/ SlugTaken(SlugOf[o]) /\ Only(Reply(o, 409))
     \/ (Faults \/ ~SlugTaken(SlugOf[o])) /\ Only(Goto(o, "insert"))

CreateInsert(o) ==
  /\ At(o, "insert")
  /\ \/ Write(o, InsertEndpoint(o)) /\ Goto(o, "broadcast")
     \/ (Faults \/ SlugTaken(SlugOf[o])) /\ Only(Fail(o))

CreateBroadcast(o) ==
  At(o, "broadcast") /\ Broadcast(o) /\ Reply(o, 201)

Create(o) == CreateCheck(o) \/ CreateInsert(o) \/ CreateBroadcast(o)

\* Mutant: the default endpoint is not protected.
ProtectedNone(e) == FALSE

Protected(e) == e = Default

\* The id is the one in the URL, of an endpoint that exists or not.
DeleteExec(o) ==
  /\ At(o, "start")
  /\ \E e \in EndpointIds :
       /\ found' = [found EXCEPT ![o] = e]
       /\ \/ ~Protected(e) /\ DeleteEndpointRow(e) /\ Commit(o) /\ Goto(o, "broadcast")
          \/ ~Protected(e) /\ Faults /\ Fail(o) /\ UNCHANGED tables
          \/ Protected(e) /\ Reply(o, 403) /\ UNCHANGED tables
  /\ UNCHANGED events

DeleteBroadcast(o) ==
  At(o, "broadcast") /\ Broadcast(o) /\ Reply(o, 200)

Delete(o) == DeleteExec(o) \/ DeleteBroadcast(o)

-----------------------------------------------------------------------------
(* IngestHandler *)

\* Mutant: goes on without an endpoint.
NotFoundIgnored(o) == Goto(o, "save")

NotFound(o) == Reply(o, 404)

\* The endpoint of the slug; a path may have none, as in /in//orders.
IngestLookup(o) ==
  /\ At(o, "start")
  /\ \/ /\ \E e \in endpoints : /\ SlugOf[e] = SlugIn[o]
                                /\ found' = [found EXCEPT ![o] = e]
        /\ Goto(o, "save")
        /\ UNCHANGED <<tables, events>>
     \/ ~SlugTaken(SlugIn[o]) /\ Only(NotFound(o))
     \/ Faults /\ Only(Reply(o, 500))
     \/ Only(Reply(o, 400))

\* Reading the body fails, or its signature is verified and the row written.
IngestSave(o) ==
  /\ At(o, "save")
  /\ \/ Only(Reply(o, 400))
     \/ Write(o, InsertRequest(o)) /\ Goto(o, "broadcast")
     \/ (Faults \/ found[o] \notin endpoints) /\ Only(Fail(o))

IngestBroadcast(o) ==
  At(o, "broadcast") /\ Broadcast(o) /\ Goto(o, "forward")

\* The result of ForwardToTunnel is ignored; a panic in it becomes a 500.
IngestForward(o) ==
  /\ At(o, "forward")
  /\ Only(Reply(o, 202)) \/ Only(Reply(o, 500))

Ingest(o) ==
  IngestLookup(o) \/ IngestSave(o) \/ IngestBroadcast(o) \/ IngestForward(o)

-----------------------------------------------------------------------------
(* RequestsHandler and the replay engine *)

\* Mutant: endpoint_id is not passed on to the query.
InScopeOfAny(i, e) == TRUE

InScope(i, e) == e \in {All, found[i]}

\* endpoint_id in the query string, or none for a purge of everything.
ClearExec(o) ==
  /\ At(o, "start")
  /\ \E e \in EndpointIds \union {All} :
       /\ found' = [found EXCEPT ![o] = e]
       /\ \/ /\ DeleteRows({i \in requests : InScope(i, e)})
             /\ UNCHANGED endpoints /\ Commit(o) /\ Reply(o, 200)
          \/ Faults /\ Fail(o) /\ UNCHANGED tables
  /\ UNCHANGED events

ReplayLoad(o) ==
  /\ At(o, "start")
  /\ \/ Replayed[o] \in requests /\ Only(Goto(o, "resolve"))
     \/ (Faults \/ Replayed[o] \notin requests) /\ Only(Reply(o, 404))

\* The payload's URL, else the endpoint's; none, or an invalid one, is a 400.
ReplayResolve(o) ==
  /\ At(o, "resolve")
  /\ \/ /\ \/ o \in WithTarget
           \/ found[Replayed[o]] \in endpoints \intersect WithForward
        /\ Only(Goto(o, "send"))
     \/ Only(Reply(o, 400))

\* The target answers, fails or times out.
ReplaySend(o) == At(o, "send") /\ Only(Goto(o, "log"))

\* The error of SaveReplayLog is ignored.
ReplayLog(o) ==
  /\ At(o, "log")
  /\ Goto(o, "broadcast")
  /\ \/ Write(o, InsertLog(o))
     \/ /\ Faults \/ Replayed[o] \notin requests
        /\ UNCHANGED <<tables, found, events>>

ReplayBroadcast(o) ==
  At(o, "broadcast") /\ Broadcast(o) /\ Reply(o, 200)

Replay(o) ==
  \/ ReplayLoad(o) \/ ReplayResolve(o) \/ ReplaySend(o) \/ ReplayLog(o)
  \/ ReplayBroadcast(o)

-----------------------------------------------------------------------------
(* The process *)

\* Mutant: only a file that was just created is seeded.
NeedsSeedAtFirst == crashes = 0

NeedsSeed == endpoints = {}

\* Migrate: CREATE ... IF NOT EXISTS, then count the endpoints.
MigrateCount ==
  /\ server = "down"
  /\ server' = IF NeedsSeed THEN "seeding" ELSE "up"
  /\ UNCHANGED <<tables, found, stage, answer, events, crashes>>

\* Migrate inserts the default endpoint into an empty table.
MigrateSeed ==
  /\ server = "seeding"
  /\ InsertEndpoint(Default)
  /\ server' = "up"
  /\ UNCHANGED <<committed, found, stage, answer, events, crashes>>
  /\ Synced

\* The process ends; no handler is waited for.
Halt ==
  /\ crashes < MaxCrashes
  /\ server' = "down"
  /\ crashes' = crashes + 1
  /\ stage' = [o \in Ops |-> IF stage[o] \in {"start", "done"}
                               THEN stage[o] ELSE "killed"]
  /\ UNCHANGED <<found, answer, events>>

\* Kill: the file and the WAL stay as they are.
Crash == server # "down" /\ Halt /\ UNCHANGED tables

Restored ==
  /\ endpoints' = disk.endpoints /\ requests' = disk.requests
  /\ logs' = disk.logs

\* The machine stops: whatever is not on the disk is rolled back.
PowerCut ==
  /\ server # "down" /\ Halt
  /\ Restored /\ committed' = disk.committed
  /\ lost' = lost \union (Range(committed) \ Range(disk.committed))
  /\ UNCHANGED disk

\* SIGINT or SIGTERM: main returns and the deferred Close checkpoints the WAL.
Quit ==
  /\ server = "up" /\ Halt
  /\ disk' = Stored
  /\ UNCHANGED <<endpoints, requests, logs, committed, lost>>

Step(o) ==
  \/ o \in Creates /\ Create(o)
  \/ o \in Deletes /\ Delete(o)
  \/ o \in Ingests /\ Ingest(o)
  \/ o \in Clears  /\ ClearExec(o)
  \/ o \in Replays /\ Replay(o)

Terminated ==
  /\ server = "up"
  /\ \A o \in Ops : stage[o] \in {"done", "killed"}
  /\ UNCHANGED vars

Next ==
  \/ \E o \in Ops : Step(o)
  \/ MigrateCount \/ MigrateSeed \/ Crash \/ PowerCut \/ Quit
  \/ Terminated

Spec == Init /\ [][Next]_vars

=============================================================================
