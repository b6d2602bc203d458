---------------------------- MODULE GatewayProofs ----------------------------
(***************************************************************************)
(* Theorems about module Gateway, for any set of operations and endpoints. *)
(***************************************************************************)
EXTENDS GatewayProperties, TLAPS

-----------------------------------------------------------------------------
(* What a step of a handler does, as far as the invariants can tell *)

Moves(o, s) == stage' = [stage EXCEPT ![o] = s] /\ stage[o] # s

Answers(o) ==
  /\ Moves(o, "done")
  /\ \E code \in Codes \ {202} : answer' = [answer EXCEPT ![o] = code]

Accepts(o) == Moves(o, "done") /\ answer' = [answer EXCEPT ![o] = 202]

\* Nothing but the handler's own stage and answer.
Quiet(o) ==
  /\ UNCHANGED <<tables, found, events>>
  /\ \/ /\ \E s \in {"insert", "resolve", "send", "log"} : Moves(o, s)
        /\ UNCHANGED answer
     \/ o \in Replays /\ Moves(o, "broadcast") /\ UNCHANGED answer
     \/ Answers(o)
     \/ stage[o] = "forward" /\ Accepts(o)

\* A statement of o commits, on the disk or not yet.
Commits(o) == Commit(o) /\ UNCHANGED events

Inserts(o) ==
  /\ o \in Creates /\ Commits(o) /\ InsertEndpoint(o)
  /\ Moves(o, "broadcast") /\ UNCHANGED <<found, answer>>

\* The target of a deletion or a purge is chosen, and perhaps carried out.
Targets(o, e) == found' = [found EXCEPT ![o] = e]

DeletesRow(o) ==
  /\ o \in Deletes /\ Commits(o)
  /\ \E e \in EndpointIds \ {Default} : Targets(o, e) /\ DeleteEndpointRow(e)
  /\ Moves(o, "broadcast") /\ UNCHANGED answer

Purges(o) ==
  /\ o \in Clears /\ Commits(o) /\ UNCHANGED endpoints
  /\ \E e \in EndpointIds \union {All} :
       Targets(o, e) /\ DeleteRows({i \in requests : e \in {All, found[i]}})
  /\ Answers(o)

Refuses(o) ==
  /\ o \in Deletes \union Clears /\ UNCHANGED <<tables, events>>
  /\ \E e \in EndpointIds \union {All} : Targets(o, e)
  /\ Answers(o)

Finds(o) ==
  /\ o \in Ingests /\ UNCHANGED <<tables, events, answer>>
  /\ \E e \in endpoints : Targets(o, e)
  /\ Moves(o, "save")

Saves(o) ==
  /\ o \in Ingests /\ Commits(o) /\ InsertRequest(o)
  /\ stage[o] = "save"
  /\ Moves(o, "broadcast") /\ UNCHANGED <<found, answer>>

Logs(o) ==
  /\ o \in Replays /\ Commits(o) /\ InsertLog(o)
  /\ Moves(o, "broadcast") /\ UNCHANGED <<found, answer>>

Announces(o) ==
  /\ stage[o] = "broadcast" /\ events' = events \union {o}
  /\ UNCHANGED <<tables, found>>
  /\ \/ o \in Ingests /\ Moves(o, "forward") /\ UNCHANGED answer
     \/ Answers(o)

Shape(o) ==
  /\ server = "up" /\ UNCHANGED <<server, crashes>>
  /\ \/ (stage[o] # "broadcast" /\ Quiet(o))
     \/ (stage[o] = "start" /\ (DeletesRow(o) \/ Purges(o) \/ Refuses(o) \/ Finds(o)))
     \/ (stage[o] \in {"insert", "save", "log"} /\ (Inserts(o) \/ Saves(o) \/ Logs(o)))
     \/ Announces(o)

\* A reply other than 202 only answers (the writeJSON or http.Error of a handler).
LEMMA Replying ==
  ASSUME NEW o \in Ops, NEW code \in Codes \ {202}, Reply(o, code), stage[o] # "done"
  PROVE  Answers(o) /\ UNCHANGED <<server, crashes>>
BY DEF Reply, Answers, Moves

\* Going on to another stage changes nothing else.
LEMMA Going ==
  ASSUME NEW o \in Ops, NEW s, Goto(o, s), stage[o] # s
  PROVE  Moves(o, s) /\ UNCHANGED <<answer, server, crashes>>
BY DEF Goto, Moves

\* An early return of a handler is a quiet step.
LEMMA QuietReply ==
  ASSUME NEW o \in Ops, NEW code \in Codes \ {202}, server = "up",
         Only(Reply(o, code)), stage[o] \notin {"done", "broadcast"}
  PROVE  Shape(o)
<1>1. Reply(o, code)
  BY DEF Only
<1> QED
  BY <1>1, Replying DEF Shape, Quiet, Only

\* A read that lets the handler go on is a quiet step.
LEMMA QuietGoto ==
  ASSUME NEW o \in Ops, NEW s \in {"insert", "resolve", "send", "log"}, server = "up",
         Only(Goto(o, s)), stage[o] \notin {s, "broadcast"}
  PROVE  Shape(o)
<1>1. Goto(o, s)
  BY DEF Only
<1> QED
  BY <1>1, Going DEF Shape, Quiet, Only

\* Every step of every handler has one of the shapes above: this is where the
\* fifteen steps of the handlers are visited, once for all theorems.
LEMMA Shapes ==
  ASSUME TypeOK, NEW o \in Ops, Step(o)
  PROVE  Shape(o)
<1> USE DEF At, Codes
<1>1. CASE o \in Creates /\ Create(o)
  <2>1. CASE CreateCheck(o)
    BY <2>1, QuietReply, QuietGoto DEF CreateCheck
  <2>2. CASE CreateInsert(o)
    <3>1. CASE Only(Fail(o))
      BY <2>2, <3>1, QuietReply DEF CreateInsert, Fail
    <3>2. CASE Write(o, InsertEndpoint(o)) /\ Goto(o, "broadcast")
      BY <1>1, <2>2, <3>2, Going DEF CreateInsert, Inserts, Commits, Write, Shape
    <3> QED
      BY <2>2, <3>1, <3>2 DEF CreateInsert
  <2>3. CASE CreateBroadcast(o)
    BY <2>3, Replying DEF CreateBroadcast, Broadcast, Announces, Shape
  <2> QED
    BY <1>1, <2>1, <2>2, <2>3 DEF Create
<1>2. CASE o \in Deletes /\ Delete(o)
  <2>1. CASE DeleteExec(o)
    <3>1. PICK e \in EndpointIds :
            /\ Targets(o, e)
            /\ \/ /\ ~Protected(e) /\ DeleteEndpointRow(e) /\ Commit(o)
                  /\ Goto(o, "broadcast")
               \/ (Reply(o, 500) \/ Reply(o, 403)) /\ UNCHANGED tables
      BY <2>1 DEF DeleteExec, Targets, Fail
    <3>2. CASE (Reply(o, 500) \/ Reply(o, 403)) /\ UNCHANGED tables
      BY <1>2, <2>1, <3>1, <3>2, Replying DEF DeleteExec, Refuses, Shape
    <3>3. CASE ~Protected(e) /\ DeleteEndpointRow(e) /\ Commit(o) /\ Goto(o, "broadcast")
      BY <1>2, <2>1, <3>1, <3>3, Going
         DEF DeleteExec, DeletesRow, Commits, Protected, Shape
    <3> QED
      BY <3>1, <3>2, <3>3
  <2>2. CASE DeleteBroadcast(o)
    BY <2>2, Replying DEF DeleteBroadcast, Broadcast, Announces, Shape
  <2> QED
    BY <1>2, <2>1, <2>2 DEF Delete
<1>3. CASE o \in Ingests /\ Ingest(o)
  <2>1. CASE IngestLookup(o)
    <3>1. CASE Only(NotFound(o)) \/ Only(Reply(o, 500)) \/ Only(Reply(o, 400))
      BY <2>1, <3>1, QuietReply DEF IngestLookup, NotFound
    <3>2. CASE /\ \E e \in endpoints : Targets(o, e)
               /\ Goto(o, "save") /\ UNCHANGED <<tables, events>>
      BY <1>3, <2>1, <3>2, Going DEF IngestLookup, Finds, Shape
    <3> QED
      BY <2>1, <3>1, <3>2 DEF IngestLookup, Targets
  <2>2. CASE IngestSave(o)
    <3>1. CASE Only(Fail(o)) \/ Only(Reply(o, 400))
      BY <2>2, <3>1, QuietReply DEF IngestSave, Fail
    <3>2. CASE Write(o, InsertRequest(o)) /\ Goto(o, "broadcast")
      BY <1>3, <2>2, <3>2, Going DEF IngestSave, Saves, Commits, Write, Shape
    <3> QED
      BY <2>2, <3>1, <3>2 DEF IngestSave
  <2>3. CASE IngestBroadcast(o)
    BY <1>3, <2>3, Going DEF IngestBroadcast, Broadcast, Announces, Shape
  <2>4. CASE IngestForward(o)
    <3>1. CASE Only(Reply(o, 500))
      BY <2>4, <3>1, QuietReply DEF IngestForward
    <3>2. CASE Only(Reply(o, 202))
      BY <2>4, <3>2 DEF IngestForward, Only, Reply, Accepts, Moves, Quiet, Shape
    <3> QED
      BY <2>4, <3>1, <3>2 DEF IngestForward
  <2> QED
    BY <1>3, <2>1, <2>2, <2>3, <2>4 DEF Ingest
<1>4. CASE o \in Clears /\ ClearExec(o)
  <2>1. PICK e \in EndpointIds \union {All} :
          /\ Targets(o, e)
          /\ \/ /\ DeleteRows({i \in requests : InScope(i, e)})
                /\ UNCHANGED endpoints /\ Commit(o) /\ Reply(o, 200)
             \/ Fail(o) /\ UNCHANGED tables
    BY <1>4 DEF ClearExec, Targets
  <2>2. CASE Fail(o) /\ UNCHANGED tables
    BY <1>4, <2>1, <2>2, Replying DEF ClearExec, Fail, Refuses, Shape
  <2>3. CASE /\ DeleteRows({i \in requests : InScope(i, e)})
             /\ UNCHANGED endpoints /\ Commit(o) /\ Reply(o, 200)
    BY <1>4, <2>1, <2>3, Replying DEF ClearExec, Purges, Commits, InScope, Shape
  <2> QED
    BY <2>1, <2>2, <2>3
<1>5. CASE o \in Replays /\ Replay(o)
  <2>1. CASE ReplayLoad(o)
    BY <2>1, QuietReply, QuietGoto DEF ReplayLoad
  <2>2. CASE ReplayResolve(o)
    BY <2>2, QuietReply, QuietGoto DEF ReplayResolve
  <2>3. CASE ReplaySend(o)
    BY <2>3, QuietGoto DEF ReplaySend
  <2>4. CASE ReplayLog(o)
    BY <1>5, <2>4, Going DEF ReplayLog, Write, Logs, Commits, Quiet, Shape
  <2>5. CASE ReplayBroadcast(o)
    BY <2>5, Replying DEF ReplayBroadcast, Broadcast, Announces, Shape
  <2> QED
    BY <1>5, <2>1, <2>2, <2>3, <2>4, <2>5 DEF Replay
<1> QED
  BY <1>1, <1>2, <1>3, <1>4, <1>5 DEF Step

-----------------------------------------------------------------------------
(* Typing *)

\* What the type of the stored tables says of each of them.
LEMMA Stores ==
  ASSUME TypeOK
  PROVE  /\ endpoints \subseteq EndpointIds /\ requests \subseteq Ingests
         /\ logs \subseteq Replays /\ committed \in Seq(Ops)
         /\ disk.endpoints \subseteq EndpointIds /\ disk.requests \subseteq Ingests
         /\ disk.logs \subseteq Replays /\ disk.committed \in Seq(Ops)
         /\ lost \subseteq Ops
BY DEF TypeOK, TablesOK, Databases, Stored

\* And conversely, after a step.
LEMMA StoresNext ==
  ASSUME endpoints' \subseteq EndpointIds, requests' \subseteq Ingests,
         logs' \subseteq Replays, committed' \in Seq(Ops)
  PROVE  Stored' \in Databases
BY DEF Stored, Databases

\* A step of a handler keeps every variable in its type, and a webhook that is
\* being saved keeps the endpoint that was looked up for it.
LEMMA ShapeTyping ==
  ASSUME TypeOK, NEW o \in Ops, Shape(o)
  PROVE  TypeOK'
<1> USE DEF TypeOK, Moves
<1> DEFINE Wrote == DeletesRow(o) \/ Purges(o) \/ Inserts(o) \/ Saves(o) \/ Logs(o)
           Read  == Quiet(o) \/ Refuses(o) \/ Finds(o) \/ Announces(o)
<1>0. Wrote \/ Read
  BY DEF Shape
<1>1. PICK s \in Stages : Moves(o, s)
  BY <1>0 DEF Quiet, DeletesRow, Purges, Refuses, Finds, Inserts, Saves, Logs,
              Announces, Answers, Accepts, Stages
<1>2. answer' = answer \/ \E code \in Codes : answer' = [answer EXCEPT ![o] = code]
  BY <1>0 DEF Quiet, DeletesRow, Purges, Refuses, Finds, Inserts, Saves, Logs,
              Announces, Answers, Accepts, Codes
<1>3. \/ found' = found
      \/ /\ o \in Deletes \union Clears
         /\ \E e \in EndpointIds \union {All} : Targets(o, e)
      \/ o \in Ingests /\ s = "save" /\ \E e \in EndpointIds : Targets(o, e)
  BY <1>0, <1>1, Stores DEF Quiet, DeletesRow, Purges, Refuses, Finds, Inserts, Saves,
              Logs, Announces, Targets, HandlersOK
<1>4. HandlersOK'
  BY <1>1, <1>2, <1>3 DEF HandlersOK, Targets, Scoped
<1>5. TablesOK'
  <2>1. CASE Read
    BY <2>1 DEF Quiet, Refuses, Finds, Announces, tables, TablesOK, Stored
  <2>2. CASE Wrote
    <3>1. Commit(o) /\ committed' \in Seq(Ops)
      BY <2>2, Stores DEF DeletesRow, Purges, Inserts, Saves, Logs, Commits, Commit
    <3>2. endpoints' \subseteq EndpointIds /\ requests' \subseteq Ingests
          /\ logs' \subseteq Replays
      BY <2>2, Stores DEF DeletesRow, Purges, Inserts, Saves, Logs, EndpointIds,
                  InsertEndpoint, InsertRequest, InsertLog, DeleteEndpointRow, DeleteRows
    <3> QED
      BY <3>1, <3>2, StoresNext DEF Commit, Synced, TablesOK
  <2> QED
    BY <1>0, <2>1, <2>2
<1>6. FoundOK'
  <2> SUFFICES ASSUME NEW i \in Ingests, stage'[i] \in {"save", "broadcast", "forward"}
               PROVE  found'[i] \in EndpointIds
    BY DEF FoundOK
  <2>1. CASE i # o
    BY <1>1, <1>3, <2>1 DEF FoundOK, HandlersOK, Targets, Ops, Scoped
  <2>2. CASE i = o
    <3>1. o \notin Creates \union Deletes \union Clears \union Replays
      BY <2>2, GatewayAssumption
    <3>2. Quiet(o) \/ Finds(o) \/ Saves(o) \/ Announces(o)
      BY <1>0, <3>1 DEF DeletesRow, Purges, Refuses, Inserts, Logs
    <3> QED
      BY <2>2, <3>1, <3>2, Stores
         DEF Quiet, Finds, Saves, Announces, Answers, Accepts, FoundOK, HandlersOK,
             Targets, Ops, Scoped
  <2> QED
    BY <2>1, <2>2
<1>7. ProcessOK'
  BY <1>0 DEF Shape, ProcessOK, Quiet, DeletesRow, Purges, Refuses, Finds, Inserts,
              Saves, Logs, Announces, Commits
<1> QED
  BY <1>4, <1>5, <1>6, <1>7

\* An empty database is well typed.
LEMMA InitTyping == Init => TypeOK
BY GatewayAssumption
   DEF Init, TypeOK, TablesOK, Stored, Databases, HandlersOK, FoundOK, ProcessOK, Stages,
       Ops

\* Starts, kills and every step of a handler keep the types.
LEMMA NextTyping == TypeOK /\ [Next]_vars => TypeOK'
<1> SUFFICES ASSUME TypeOK, [Next]_vars
             PROVE  TypeOK'
  OBVIOUS
<1>1. ASSUME NEW o \in Ops, Step(o)
      PROVE  TypeOK'
  BY <1>1, Shapes, ShapeTyping
<1>2. CASE MigrateCount
  BY <1>2 DEF MigrateCount, TypeOK, TablesOK, Stored, HandlersOK, FoundOK, ProcessOK, tables
<1>3. CASE MigrateSeed
  <2>1. endpoints' \subseteq EndpointIds /\ UNCHANGED <<requests, logs, committed>>
    BY <1>3, Stores DEF MigrateSeed, InsertEndpoint, EndpointIds
  <2>2. TablesOK'
    BY <1>3, <2>1, Stores, StoresNext DEF MigrateSeed, Synced, TypeOK, TablesOK
  <2> QED
    BY <1>3, <2>2 DEF MigrateSeed, TypeOK, HandlersOK, FoundOK, ProcessOK
<1>4. CASE Crash \/ PowerCut \/ Quit
  <2>0. Halt
    BY <1>4 DEF Crash, PowerCut, Quit
  <2>1. stage' \in [Ops -> Stages]
    BY <2>0 DEF Halt, TypeOK, HandlersOK, Stages
  <2>2. FoundOK'
    BY <2>0 DEF Halt, TypeOK, FoundOK, Ops
  <2>3. ProcessOK'
    BY <2>0, GatewayAssumption DEF Halt, TypeOK, ProcessOK
  <2>4. TablesOK'
    <3>1. CASE Crash \/ Quit
      BY <3>1 DEF Crash, Quit, tables, TypeOK, TablesOK, Stored
    <3>2. CASE PowerCut
      <4>1. lost' \subseteq Ops
        BY <3>2, Stores DEF PowerCut, Range
      <4>2. Stored' \in Databases
        BY <3>2, Stores, StoresNext DEF PowerCut, Restored
      <4> QED
        BY <3>2, <4>1, <4>2 DEF PowerCut, TypeOK, TablesOK
    <3> QED
      BY <1>4, <3>1, <3>2
  <2> QED
    BY <2>0, <2>1, <2>2, <2>3, <2>4 DEF Halt, TypeOK, HandlersOK
<1>5. CASE UNCHANGED vars
  BY <1>5 DEF vars, tables, TypeOK, TablesOK, Stored, HandlersOK, FoundOK, ProcessOK
<1> QED
  BY <1>1, <1>2, <1>3, <1>4, <1>5 DEF Next, Terminated

\* Variables keep their types through starts, kills, power cuts and every handler, and a
\* webhook is never saved without the endpoint its slug was looked up for.
THEOREM GatewayTyping == Spec => []TypeOK
BY InitTyping, NextTyping, PTL DEF Spec

-----------------------------------------------------------------------------
(* The tables *)

\* What is stored and what is on the disk both satisfy the constraints.  A row is
\* written by a handler that has left its first stage, so the endpoint looked up
\* for a webhook in either of them does not change any more.
StoreInv ==
  /\ TypeOK
  /\ Consistent(Stored)
  /\ Consistent(disk)
  /\ \A i \in requests \union disk.requests : stage[i] # "start"

\* A step of a handler keeps the endpoint of a webhook that is past its first stage.
LEMMA ShapeFound ==
  ASSUME TypeOK, NEW o \in Ops, Shape(o), NEW x \in Scoped, stage[x] # "start"
  PROVE  found'[x] = found[x] /\ stage'[x] # "start"
<1>a. stage \in [Ops -> Stages] /\ found \in [Scoped -> EndpointIds \union {All, None}]
  BY DEF TypeOK, HandlersOK
<1>b. x \in Ops
  BY DEF Scoped, Ops
<1>1. found'[x] = found[x]
  <2>1. CASE found' = found
    BY <2>1
  <2>2. CASE \E e : o # x /\ Targets(o, e)
    BY <2>2, <1>a DEF Targets
  <2> QED
    BY <2>1, <2>2
       DEF Shape, Quiet, Announces, Refuses, Finds, Inserts, Saves, Logs, Purges, DeletesRow
<1>2. stage'[x] # "start"
  <2>1. stage' = stage \/ \E s \in Stages \ {"start"} : Moves(o, s)
    BY DEF Shape, Quiet, Announces, Refuses, Finds, Inserts, Saves, Logs, Purges,
           DeletesRow, Answers, Accepts, Stages
  <2> QED
    BY <2>1, <1>a, <1>b DEF Moves
<1> QED
  BY <1>1, <1>2

\* No step of a handler breaks a constraint of the schema in the stored tables.
LEMMA ShapeStored ==
  ASSUME StoreInv, NEW o \in Ops, Shape(o)
  PROVE  Consistent(Stored)' /\ \A i \in requests' : stage'[i] # "start"
<1> USE DEF StoreInv, Consistent, Stored
<1>a. requests \subseteq Ingests /\ Ingests \subseteq Ops /\ Ingests \subseteq Scoped
  BY Stores DEF Ops, Scoped
<1>b. \A i \in requests : found'[i] = found[i] /\ stage'[i] # "start"
  BY <1>a, ShapeFound
<1>1. CASE Quiet(o) \/ Announces(o) \/ Refuses(o) \/ Finds(o)
  BY <1>1, <1>b DEF Quiet, Announces, Refuses, Finds, tables
<1>4. CASE Inserts(o)
  BY <1>4, <1>b DEF Inserts, InsertEndpoint, SlugTaken
<1>5. CASE Saves(o)
  <2>1. stage'[o] # "start"
    BY <1>5 DEF Saves, Moves, TypeOK, HandlersOK
  <2> QED
    BY <1>5, <2>1, <1>b DEF Saves, InsertRequest
<1>6. CASE Logs(o)
  BY <1>6, <1>b DEF Logs, InsertLog
<1>7. CASE DeletesRow(o)
  <2>1. PICK e \in EndpointIds : Targets(o, e) /\ DeleteEndpointRow(e)
    BY <1>7 DEF DeletesRow
  <2> QED
    BY <2>1, <1>b DEF DeleteEndpointRow, DeleteRows, RowsOf
<1>8. CASE Purges(o)
  BY <1>8, <1>b DEF Purges, DeleteRows
<1> QED
  BY <1>1, <1>4, <1>5, <1>6, <1>7, <1>8 DEF Shape

\* A handler leaves the disk as it is, or brings it up to date.
LEMMA ShapeDisk ==
  ASSUME NEW o \in Ops, Shape(o)
  PROVE  disk' = disk \/ disk' = Stored'
BY DEF Shape, Quiet, Announces, Refuses, Finds, Inserts, Saves, Logs, Purges, DeletesRow,
       Commits, Commit, Synced, tables

\* However handlers, kills and power cuts interleave, slugs stay unique, no webhook
\* outlives its endpoint and no replay log its webhook.
THEOREM StoreStaysConsistent == Spec => []StoreConsistent
<1>1. Init => StoreInv
  <2>1. Init => TypeOK
    BY InitTyping
  <2> QED
    BY <2>1 DEF Init, StoreInv, Consistent, Stored
<1>2. StoreInv /\ [Next]_vars => StoreInv'
  <2> SUFFICES ASSUME StoreInv, [Next]_vars
               PROVE  StoreInv'
    OBVIOUS
  <2> USE DEF StoreInv
  <2>0. TypeOK'
    BY NextTyping
  <2>a. /\ requests \subseteq Ingests /\ disk.requests \subseteq Ingests
        /\ Ingests \subseteq Ops /\ Ingests \subseteq Scoped
    BY Stores DEF Ops, Scoped
  <2>1. ASSUME NEW o \in Ops, Step(o)
        PROVE  StoreInv'
    <3>1. Shape(o)
      BY <2>1, Shapes
    <3>2. Consistent(Stored)' /\ \A i \in requests' : stage'[i] # "start"
      BY <3>1, ShapeStored
    <3>3. CASE disk' = Stored'
      BY <2>0, <3>2, <3>3 DEF Consistent, Stored
    <3>4. CASE disk' = disk
      <4>1. \A i \in disk.requests : found'[i] = found[i] /\ stage'[i] # "start"
        BY <2>a, <3>1, ShapeFound
      <4> QED
        BY <2>0, <3>2, <3>4, <4>1 DEF Consistent
    <3> QED
      BY <3>1, <3>3, <3>4, ShapeDisk
  <2>2. CASE MigrateCount \/ UNCHANGED vars
    BY <2>0, <2>2 DEF MigrateCount, vars, tables, Consistent, Stored
  <2>3. CASE MigrateSeed
    <3>1. Consistent(Stored)'
      BY <2>3 DEF MigrateSeed, InsertEndpoint, SlugTaken, Consistent, Stored
    <3>2. UNCHANGED <<found, stage, requests>> /\ (disk' = disk \/ disk' = Stored')
      BY <2>3 DEF MigrateSeed, InsertEndpoint, Synced
    <3> QED
      BY <2>0, <3>1, <3>2 DEF Consistent, Stored
  <2>4. CASE Crash \/ PowerCut \/ Quit
    <3>1. UNCHANGED found /\ \A i \in Ingests : stage[i] # "start" => stage'[i] # "start"
      BY <2>4, <2>a DEF Crash, PowerCut, Quit, Halt
    <3>2. {Stored', disk'} \subseteq {Stored, disk}
      BY <2>4, Stores DEF Crash, PowerCut, Quit, Restored, tables, Stored, TypeOK, TablesOK,
                  Databases
    <3>3. requests' = Stored'.requests
      BY DEF Stored
    <3> QED
      BY <2>0, <2>a, <3>1, <3>2, <3>3 DEF Consistent, Stored
  <2> QED
    BY <2>1, <2>2, <2>3, <2>4 DEF Next, Terminated
<1>3. StoreInv => StoreConsistent
  BY DEF StoreInv, StoreConsistent
<1> QED
  BY <1>1, <1>2, <1>3, PTL DEF Spec

\* A table with any endpoint has the default one, whether or not Migrate has
\* got to its end: an empty table is the only one that is seeded.
Seeded(db) == db.endpoints # {} => Default \in db.endpoints

DefaultInv == TypeOK /\ Seeded(Stored) /\ Seeded(disk) /\ DefaultReceives

\* Whenever the server answers, the default endpoint exists, even if the process
\* was killed in the middle of Migrate or its insertion was rolled back.
THEOREM DefaultAlwaysReceives == Spec => []DefaultReceives
<1>1. Init => DefaultInv
  BY InitTyping DEF Init, DefaultInv, DefaultReceives, Seeded, Stored
<1>2. DefaultInv /\ [Next]_vars => DefaultInv'
  <2> SUFFICES ASSUME DefaultInv, [Next]_vars
               PROVE  DefaultInv'
    OBVIOUS
  <2> USE DEF DefaultInv, DefaultReceives, Seeded, Stored
  <2>0. TypeOK'
    BY NextTyping
  <2>1. ASSUME NEW o \in Ops, Step(o)
        PROVE  DefaultInv'
    <3>1. Shape(o)
      BY <2>1, Shapes
    <3>2. Default \in endpoints
      BY <3>1 DEF Shape
    <3>3. Default \in endpoints'
      BY <3>1, <3>2
         DEF Shape, Quiet, Announces, Refuses, Finds, tables, Inserts, InsertEndpoint,
             Saves, InsertRequest, Logs, InsertLog, Purges, DeletesRow, DeleteEndpointRow
    <3> QED
      BY <2>0, <3>1, <3>3, ShapeDisk
  <2>2. CASE MigrateCount \/ UNCHANGED vars
    BY <2>0, <2>2 DEF MigrateCount, NeedsSeed, vars, tables
  <2>3. CASE MigrateSeed
    BY <2>0, <2>3 DEF MigrateSeed, InsertEndpoint, Synced
  <2>4. CASE Crash \/ PowerCut \/ Quit
    BY <2>0, <2>4 DEF Crash, PowerCut, Quit, Halt, Restored, tables
  <2> QED
    BY <2>1, <2>2, <2>3, <2>4 DEF Next, Terminated
<1>3. DefaultInv => DefaultReceives
  BY DEF DefaultInv
<1> QED
  BY <1>1, <1>2, <1>3, PTL DEF Spec

-----------------------------------------------------------------------------
(* What was announced and what was answered *)

\* Appending to the history adds one operation at its end.
LEMMA Appended ==
  ASSUME TypeOK, NEW o \in Ops, Commit(o)
  PROVE  /\ Len(committed') = Len(committed) + 1
         /\ DOMAIN committed' = DOMAIN committed \union {Len(committed) + 1}
         /\ \A k \in DOMAIN committed : committed'[k] = committed[k]
         /\ committed'[Len(committed) + 1] = o
         /\ Range(committed') = Range(committed) \union {o}
<1>0. committed \in Seq(Ops) /\ committed' = Append(committed, o)
  BY Stores DEF Commit
<1>1. /\ Len(committed') = Len(committed) + 1
      /\ DOMAIN committed' = DOMAIN committed \union {Len(committed) + 1}
      /\ \A k \in DOMAIN committed : committed'[k] = committed[k]
      /\ committed'[Len(committed) + 1] = o
  BY <1>0
<1> QED
  BY <1>1 DEF Range

\* A handler that is about to broadcast has committed its write; only a replay
\* goes on when its log could not be saved.  A power cut ends every handler.
EventsInv ==
  /\ TypeOK
  /\ EventsFollowCommits
  /\ \A o \in Ops \ Replays : stage[o] = "broadcast" => o \in Range(committed)

\* No step of a handler announces what is not committed.
LEMMA ShapeEvents ==
  ASSUME EventsInv, TypeOK', NEW o \in Ops, Shape(o)
  PROVE  EventsInv'
<1> USE DEF EventsInv, EventsFollowCommits, Moves
<1>a. stage \in [Ops -> Stages]
  BY DEF TypeOK, HandlersOK
<1>1. CASE Quiet(o) \/ Refuses(o) \/ Finds(o)
  BY <1>1, <1>a DEF Quiet, Refuses, Finds, Answers, Accepts, tables
<1>2. CASE Inserts(o) \/ Saves(o) \/ Logs(o) \/ DeletesRow(o) \/ Purges(o)
  <2>1. Commit(o) /\ UNCHANGED <<events, lost>>
    BY <1>2 DEF Inserts, Saves, Logs, DeletesRow, Purges, Commits, Commit, Synced
  <2>2. Range(committed') = Range(committed) \union {o}
    BY <2>1, Appended
  <2>3. \A p \in Ops : p # o => stage'[p] = stage[p]
    BY <1>2, <1>a DEF Inserts, Saves, Logs, DeletesRow, Purges, Answers
  <2> QED
    BY <2>1, <2>2, <2>3
<1>3. CASE Announces(o)
  BY <1>3, <1>a DEF Announces, Answers, tables
<1> QED
  BY <1>1, <1>2, <1>3 DEF Shape

\* No dashboard hears of a webhook or an endpoint change that is not in the
\* database, unless a power cut took it out again.
THEOREM EventsFollow == Spec => []EventsFollowCommits
<1>1. Init => EventsInv
  BY InitTyping DEF Init, EventsInv, EventsFollowCommits
<1>2. EventsInv /\ [Next]_vars => EventsInv'
  <2> SUFFICES ASSUME EventsInv, [Next]_vars
               PROVE  EventsInv'
    OBVIOUS
  <2>0. TypeOK'
    BY NextTyping DEF EventsInv
  <2>1. ASSUME NEW o \in Ops, Step(o)
        PROVE  EventsInv'
    BY <2>0, <2>1, Shapes, ShapeEvents DEF EventsInv
  <2>2. CASE MigrateCount \/ MigrateSeed \/ UNCHANGED vars
    BY <2>0, <2>2
       DEF MigrateCount, MigrateSeed, Synced, vars, tables, EventsInv, EventsFollowCommits
  <2>3. CASE Crash \/ PowerCut \/ Quit
    <3>1. Range(committed) \union lost \subseteq Range(committed') \union lost'
      BY <2>3 DEF Crash, PowerCut, Quit, tables
    <3>2. UNCHANGED events /\ \A o \in Ops : stage'[o] # "broadcast"
      BY <2>3 DEF Crash, PowerCut, Quit, Halt
    <3> QED
      BY <2>0, <3>1, <3>2 DEF EventsInv, EventsFollowCommits
  <2> QED
    BY <2>1, <2>2, <2>3 DEF Next, Terminated
<1>3. EventsInv => EventsFollowCommits
  BY DEF EventsInv
<1> QED
  BY <1>1, <1>2, <1>3, PTL DEF Spec

\* Until the process ends, what has been written, a purge apart, has been
\* announced or its handler is about to.
AnnouncedInv ==
  /\ TypeOK
  /\ crashes = 0 =>
       \A x \in Range(committed) \ Clears : x \in events \/ stage[x] = "broadcast"

\* When no handler is running and the process never ended, everything written has
\* been announced; purges never are.
THEOREM AnnouncedWhenQuiet == Spec => []AnnouncedWhenIdle
<1>1. Init => AnnouncedInv
  BY InitTyping DEF Init, AnnouncedInv, Range
<1>2. AnnouncedInv /\ [Next]_vars => AnnouncedInv'
  <2> SUFFICES ASSUME AnnouncedInv, [Next]_vars
               PROVE  AnnouncedInv'
    OBVIOUS
  <2> USE DEF AnnouncedInv
  <2>0. TypeOK'
    BY NextTyping
  <2>a. Range(committed) \subseteq Ops /\ stage \in [Ops -> Stages] /\ crashes \in Nat
    BY Stores, GatewayAssumption DEF Range, TypeOK, HandlersOK, ProcessOK
  <2>1. ASSUME NEW o \in Ops, Step(o)
        PROVE  AnnouncedInv'
    <3>1. Shape(o)
      BY <2>1, Shapes
    <3>2. CASE Quiet(o) \/ Refuses(o) \/ Finds(o)
      <4>1. UNCHANGED <<committed, events, crashes>> /\ \E s : Moves(o, s)
        BY <3>1, <3>2 DEF Quiet, Refuses, Finds, Answers, Accepts, tables, Shape
      <4>2. stage[o] # "broadcast" \/ Announces(o)
        BY <3>1, <3>2 DEF Shape
      <4> QED
        BY <2>0, <2>a, <4>1, <4>2 DEF Moves, Announces
    <3>3. CASE Inserts(o) \/ Saves(o) \/ Logs(o) \/ DeletesRow(o) \/ Purges(o)
      <4>1. Range(committed') = Range(committed) \union {o}
        BY <3>3, Appended DEF Inserts, Saves, Logs, DeletesRow, Purges, Commits
      <4>2. UNCHANGED <<events, crashes>> /\ \A x \in Ops : x # o => stage'[x] = stage[x]
        BY <2>a, <3>1, <3>3 DEF Shape, Inserts, Saves, Logs, DeletesRow, Purges, Commits,
                                Answers, Moves
      <4>3. o \in Clears \/ stage'[o] = "broadcast"
        BY <2>a, <3>3 DEF Inserts, Saves, Logs, DeletesRow, Purges, Moves
      <4> QED
        BY <2>0, <2>a, <4>1, <4>2, <4>3
    <3>4. CASE Announces(o)
      BY <2>0, <2>a, <3>1, <3>4 DEF Announces, Answers, Moves, Shape, tables
    <3> QED
      BY <3>1, <3>2, <3>3, <3>4 DEF Shape
  <2>2. CASE MigrateCount \/ MigrateSeed \/ UNCHANGED vars
    BY <2>0, <2>2 DEF MigrateCount, MigrateSeed, vars, tables
  <2>3. CASE Crash \/ PowerCut \/ Quit
    BY <2>0, <2>3, <2>a DEF Crash, PowerCut, Quit, Halt
  <2> QED
    BY <2>1, <2>2, <2>3 DEF Next, Terminated
<1>3. AnnouncedInv => AnnouncedWhenIdle
  BY Stores DEF AnnouncedInv, AnnouncedWhenIdle, Range
<1> QED
  BY <1>1, <1>2, <1>3, PTL DEF Spec

\* Every webhook in the history of db is in it or was removed by a later write.
AllKept(db) ==
  \A i \in Ingests \intersect Range(db.committed) :
    \E k \in DOMAIN db.committed : Kept(db, i, k)

\* The handler of a webhook that has been written has not answered yet, or has
\* answered 202; a webhook that was written is accounted for, in the stored
\* tables as on the disk; whatever has been written is past its first stage, so
\* the endpoint it is about does not change any more.
AcceptedInv ==
  /\ TypeOK
  /\ \A i \in Ingests :
       stage[i] \in {"broadcast", "forward"} \/ answer[i] = 202 =>
         i \in Range(committed) \union lost
  /\ AllKept(Stored)
  /\ AllKept(disk)
  /\ \A x \in Range(committed) \union Range(disk.committed) : stage[x] # "start"

\* What removes a webhook removes it still when the endpoints looked up for the
\* two operations have not changed.
LEMMA RemovesStill ==
  ASSUME NEW x, NEW i, Removes(x, i), found'[i] = found[i],
         x \in Deletes \union Clears => found'[x] = found[x]
  PROVE  Removes(x, i)'
BY DEF Removes

\* A database that does not change, and whose operations are past their first
\* stage, keeps accounting for its webhooks.
LEMMA KeptStill ==
  ASSUME NEW db \in Databases, AllKept(db),
         \A x \in Scoped \intersect Range(db.committed) : found'[x] = found[x]
  PROVE  \A i \in Ingests \intersect Range(db.committed) :
           \E k \in DOMAIN db.committed :
             /\ db.committed[k] = i
             /\ \/ i \in db.requests
                \/ \E l \in k + 1 .. Len(db.committed), x \in Ops :
                     x = db.committed[l] /\ Removes(x, i)'
<1> SUFFICES ASSUME NEW i \in Ingests \intersect Range(db.committed)
             PROVE  \E k \in DOMAIN db.committed :
                      /\ db.committed[k] = i
                      /\ \/ i \in db.requests
                         \/ \E l \in k + 1 .. Len(db.committed), x \in Ops :
                              x = db.committed[l] /\ Removes(x, i)'
  OBVIOUS
<1>1. PICK k \in DOMAIN db.committed : Kept(db, i, k)
  BY DEF AllKept
<1>2. db.committed \in Seq(Ops) /\ k \in Nat
  BY <1>1 DEF Databases
<1>3. ASSUME NEW l \in k + 1 .. Len(db.committed), Removes(db.committed[l], i)
      PROVE  \E x \in Ops : x = db.committed[l] /\ Removes(x, i)'
  <2>1. db.committed[l] \in Range(db.committed) /\ db.committed[l] \in Ops
    BY <1>2 DEF Range
  <2>2. PICK x \in Ops : x = db.committed[l]
    BY <2>1
  <2> QED
    BY <1>3, <2>1, <2>2, RemovesStill DEF Scoped
<1> QED
  BY <1>1, <1>3 DEF Kept

\* No step of a handler breaks the invariant.
LEMMA ShapeAccepted ==
  ASSUME AcceptedInv, TypeOK', NEW o \in Ops, Shape(o)
  PROVE  AcceptedInv'
<1> USE DEF AcceptedInv
<1>a. /\ stage \in [Ops -> Stages] /\ answer \in [Ops -> Codes \union {0}]
      /\ committed \in Seq(Ops) /\ Ingests \subseteq Ops /\ Stored \in Databases
      /\ disk \in Databases /\ Range(committed) \union Range(disk.committed) \subseteq Ops
  BY Stores DEF TypeOK, TablesOK, HandlersOK, Ops, Range
<1>b. Stored.committed = committed /\ Stored.requests = requests
      /\ Stored'.committed = committed' /\ Stored'.requests = requests'
  BY DEF Stored
<1>c. \A x \in Scoped \intersect (Range(committed) \union Range(disk.committed)) :
        found'[x] = found[x]
  BY ShapeFound
<1>d. \/ committed' = committed /\ requests' = requests /\ disk' = disk /\ lost' = lost
      \/ Commit(o)
  BY DEF Shape, Quiet, Announces, Refuses, Finds, Inserts, Saves, Logs, Purges, DeletesRow,
         Commits, tables
<1>e. stage'[o] # "start" /\ \A x \in Ops \ {o} : stage'[x] = stage[x]
                                               /\ answer'[x] = answer[x]
  BY <1>a DEF Shape, Quiet, Announces, Refuses, Finds, Inserts, Saves, Logs, Purges,
              DeletesRow, Answers, Accepts, Moves
<1>1. \A x \in Range(committed') \union Range(disk'.committed) : stage'[x] # "start"
  <2>1. Range(committed') \union Range(disk'.committed)
        \subseteq Range(committed) \union Range(disk.committed) \union {o}
    BY <1>b, <1>d, Appended, ShapeDisk
  <2> QED
    BY <1>a, <1>e, <2>1
<1>2. ASSUME NEW i \in Ingests,
             stage'[i] \in {"broadcast", "forward"} \/ answer'[i] = 202
      PROVE  i \in Range(committed') \union lost'
  <2>1. Range(committed) \union lost \subseteq Range(committed') \union lost'
    BY <1>d, Appended DEF Commit, Synced
  <2>2. CASE i # o
    BY <1>a, <1>e, <1>2, <2>1, <2>2
  <2>3. CASE i = o /\ Commit(o)
    BY <2>3, Appended
  <2>4. CASE i = o /\ ~Commit(o)
    <3>1. i \notin Creates \union Deletes \union Clears \union Replays
      BY GatewayAssumption
    <3> QED
      BY <1>2, <2>1, <2>4, <3>1, <1>a
         DEF Shape, Quiet, Announces, Refuses, Finds, Inserts, Saves, Logs, Purges,
             DeletesRow, Commits, Answers, Accepts, Moves
  <2> QED
    BY <2>2, <2>3, <2>4
<1>3. AllKept(Stored)'
  <2>1. CASE committed' = committed /\ requests' = requests
    BY <1>a, <1>b, <1>c, <2>1, KeptStill DEF AllKept, Kept
  <2>2. CASE Commit(o)
    <3> DEFINE n == Len(committed) + 1
    <3>1. /\ n \in Nat /\ n \in DOMAIN committed' /\ Len(committed') = n
          /\ committed'[n] = o /\ Range(committed') = Range(committed) \union {o}
          /\ \A k \in DOMAIN committed : /\ k \in 1 .. n - 1 /\ k \in DOMAIN committed'
                                         /\ committed'[k] = committed[k]
      BY <1>a, <2>2, Appended
    <3> SUFFICES ASSUME NEW i \in Ingests, i \in Range(committed')
                 PROVE  \E k \in DOMAIN committed' : Kept(Stored, i, k)'
      BY <1>b DEF AllKept
    <3>2. CASE i = o
      <4>1. Saves(o)
        BY <2>2, <3>2, GatewayAssumption
           DEF Shape, Quiet, Announces, Refuses, Finds, Inserts, Logs, Purges, DeletesRow,
               Saves, Commit, tables
      <4>2. i \in requests'
        BY <3>2, <4>1 DEF Saves, InsertRequest
      <4> QED
        BY <1>b, <3>1, <3>2, <4>2 DEF Kept
    <3>3. CASE i # o
      <4>1. i \in Range(committed) /\ i \in Scoped
        BY <3>1, <3>3 DEF Scoped
      <4>2. PICK k \in DOMAIN committed :
              /\ committed[k] = i
              /\ \/ i \in requests
                 \/ \E l \in k + 1 .. Len(committed), x \in Ops :
                      x = committed[l] /\ Removes(x, i)'
        <5>1. PICK db \in Databases : db = Stored
          BY <1>a
        <5>2. db.committed = committed /\ db.requests = requests /\ AllKept(db)
          BY <1>b, <5>1
        <5> QED
          BY <1>c, <4>1, <5>2, KeptStill
      <4>3. k \in DOMAIN committed' /\ committed'[k] = i /\ n \in k + 1 .. n /\ k \in Nat
        BY <1>a, <3>1, <4>2
      <4>4. CASE \E l \in k + 1 .. Len(committed), x \in Ops :
                   x = committed[l] /\ Removes(x, i)'
        <5>1. PICK l \in k + 1 .. Len(committed), x \in Ops :
                x = committed[l] /\ Removes(x, i)'
          BY <4>4
        <5>2. l \in k + 1 .. Len(committed') /\ committed'[l] = committed[l]
          BY <1>a, <3>1, <4>3, <5>1
        <5> QED
          BY <1>b, <4>3, <5>1, <5>2 DEF Kept, Removes
      <4>5. CASE i \in requests /\ i \in requests'
        BY <1>b, <4>3, <4>5 DEF Kept
      <4>6. CASE i \in requests /\ i \notin requests'
        <5>1. found'[i] = found[i]
          BY <1>c, <4>1
        <5>2. found \in [Scoped -> EndpointIds \union {All, None}]
          BY DEF TypeOK, HandlersOK
        <5>3. DeletesRow(o) \/ Purges(o)
          BY <4>6 DEF Shape, Quiet, Announces, Refuses, Finds, Inserts, Saves, Logs, tables,
                      InsertEndpoint, InsertRequest, InsertLog
        <5>4. ASSUME DeletesRow(o) PROVE Removes(o, i)'
          BY <4>6, <5>1, <5>2, <5>4
             DEF DeletesRow, Targets, DeleteEndpointRow, DeleteRows, RowsOf, Removes, Scoped
        <5>5. ASSUME Purges(o) PROVE Removes(o, i)'
          BY <4>6, <5>1, <5>2, <5>5 DEF Purges, Targets, DeleteRows, Removes, Scoped
        <5>6. Removes(o, i)'
          BY <5>3, <5>4, <5>5
        <5> QED
          BY <1>b, <3>1, <4>3, <5>6 DEF Kept, Removes
      <4> QED
        BY <4>2, <4>4, <4>5, <4>6
    <3> QED
      BY <3>2, <3>3
  <2> QED
    BY <1>d, <2>1, <2>2
<1>4. AllKept(disk)'
  <2>1. CASE disk' = disk
    BY <1>a, <1>c, <2>1, KeptStill DEF AllKept, Kept
  <2>2. CASE disk' = Stored'
    BY <1>3, <2>2 DEF AllKept, Kept, Removes
  <2> QED
    BY <2>1, <2>2, ShapeDisk
<1> QED
  BY <1>1, <1>2, <1>3, <1>4

\* A webhook that was answered 202 was stored, and it is still there unless a
\* later deletion of its endpoint or a later purge in its scope took it, or a
\* power cut rolled its commit back: no other handler, no kill, no clean stop
\* and no earlier power cut loses it.
THEOREM AcceptedIsStored == Spec => []AcceptedStays
<1>1. Init => AcceptedInv
  BY InitTyping DEF Init, AcceptedInv, AllKept, Stored, Range, Ops
<1>2. AcceptedInv /\ [Next]_vars => AcceptedInv'
  <2> SUFFICES ASSUME AcceptedInv, [Next]_vars
               PROVE  AcceptedInv'
    OBVIOUS
  <2>0. TypeOK'
    BY NextTyping DEF AcceptedInv
  <2>a. /\ Range(committed) \union Range(disk.committed) \subseteq Ops
        /\ Ingests \subseteq Ops
    BY Stores DEF AcceptedInv, Range, Ops
  <2>1. ASSUME NEW o \in Ops, Step(o)
        PROVE  AcceptedInv'
    BY <2>0, <2>1, Shapes, ShapeAccepted DEF AcceptedInv
  <2>2. CASE MigrateCount \/ MigrateSeed \/ UNCHANGED vars
    <3>1. UNCHANGED <<requests, committed, lost, found, answer, stage>>
      BY <2>2 DEF MigrateCount, MigrateSeed, InsertEndpoint, Synced, vars, tables
    <3>2. disk' = disk \/ disk' = Stored'
      BY <2>2 DEF MigrateCount, MigrateSeed, Synced, vars, tables
    <3>3. AllKept(Stored)'
      BY <3>1 DEF AcceptedInv, AllKept, Kept, Removes, Stored
    <3>4. AllKept(disk)' /\ Range(disk'.committed) \subseteq
                              Range(committed) \union Range(disk.committed)
      BY <3>1, <3>2, <3>3 DEF AcceptedInv, AllKept, Kept, Removes, Stored
    <3> QED
      BY <2>0, <3>1, <3>3, <3>4 DEF AcceptedInv
  <2>3. CASE Crash \/ PowerCut \/ Quit
    <3>1. UNCHANGED <<found, answer>>
          /\ \A o \in Ops : /\ stage'[o] \notin {"broadcast", "forward"}
                            /\ stage[o] # "start" => stage'[o] # "start"
      BY <2>3 DEF Crash, PowerCut, Quit, Halt
    <3>2. \/ UNCHANGED <<requests, committed>>
          \/ requests' = disk.requests /\ committed' = disk.committed
      BY <2>3 DEF Crash, PowerCut, Quit, Restored, tables
    <3>3. disk' = disk \/ disk' = Stored
      BY <2>3 DEF Crash, PowerCut, Quit, tables
    <3>4. Range(committed) \union lost \subseteq Range(committed') \union lost'
      BY <2>3 DEF Crash, PowerCut, Quit, tables
    <3>5. AllKept(Stored)'
      BY <3>1, <3>2 DEF AcceptedInv, AllKept, Kept, Removes, Stored
    <3>6. AllKept(disk)'
      BY <3>1, <3>3 DEF AcceptedInv, AllKept, Kept, Removes, Stored
    <3>7. \A i \in Ingests :
            stage'[i] \in {"broadcast", "forward"} \/ answer'[i] = 202 =>
              i \in Range(committed') \union lost'
      BY <2>a, <3>1, <3>4 DEF AcceptedInv
    <3>8. Range(committed') \union Range(disk'.committed) \subseteq
            Range(committed) \union Range(disk.committed)
      BY <3>2, <3>3 DEF Stored
    <3> QED
      BY <2>0, <2>a, <3>1, <3>5, <3>6, <3>7, <3>8 DEF AcceptedInv
  <2> QED
    BY <2>1, <2>2, <2>3 DEF Next, Terminated
<1>3. AcceptedInv => AcceptedStays
  BY DEF AcceptedInv, AcceptedStays, AllKept, Stored
<1> QED
  BY <1>1, <1>2, <1>3, PTL DEF Spec

=============================================================================
