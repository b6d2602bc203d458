-------------------------- MODULE GatewayProperties --------------------------
(***************************************************************************)
(* What the HTTP side of ZeroDrop is expected to guarantee.                *)
(***************************************************************************)
EXTENDS Gateway

Removes(x, i) ==
  \/ x \in Deletes /\ found[x] = found[i]
  \/ x \in Clears  /\ found[x] \in {All, found[i]}

-----------------------------------------------------------------------------
(* The tables *)

\* However handlers, kills and power cuts interleave, slugs stay unique, no
\* webhook outlives its endpoint and no replay log outlives its webhook
\* (migrations.go:16, 42, 59; db.go:26).
Consistent(db) ==
  /\ \A e, f \in db.endpoints : SlugOf[e] = SlugOf[f] => e = f
  /\ \A i \in db.requests : found[i] \in db.endpoints
  /\ \A p \in db.logs : Replayed[p] \in db.requests

StoreConsistent == Consistent(Stored)

\* Whenever the server answers, the default endpoint exists, even if the process
\* was killed in the middle of Migrate or its insertion was rolled back.
DefaultReceives == server = "up" => Default \in endpoints

-----------------------------------------------------------------------------
(* The answers *)

\* Webhook i was stored by the k-th write of db, and if it is gone a later
\* write removed it.
Kept(db, i, k) ==
  /\ db.committed[k] = i
  /\ \/ i \in db.requests
     \/ \E l \in k + 1 .. Len(db.committed) : Removes(db.committed[l], i)

\* A webhook that was answered 202 was stored, and it is still there unless a
\* later deletion of its endpoint or a later purge in its scope took it, or a
\* power cut rolled its commit back (synchronous(NORMAL), db.go:38).
AcceptedStays ==
  \A i \in Ingests : answer[i] = 202 =>
    i \in lost \/ \E k \in DOMAIN committed : Kept(Stored, i, k)

\* A replay answered 200 is in the history of its webhook, or was until the
\* webhook was removed: the engine saves its log (engine.go:54).
ReplayIsLogged ==
  \A p \in Replays : answer[p] = 200 => p \in Range(committed)

\* The creation of an endpoint whose slug is in use is answered 409
\* (endpoints_handler.go:36, api_test.go:141).
DuplicateIs409 ==
  \A o \in Creates : answer[o] = 500 => ~SlugTaken(SlugOf[o])

-----------------------------------------------------------------------------
(* The events *)

\* No dashboard hears of a webhook or an endpoint change that is not in the
\* database yet (ws_messages.go:5), unless a power cut took it out again.
EventsFollowCommits == events \subseteq Range(committed) \union lost \union Replays

\* When no handler is running and the process never ended, everything
\* written has been announced; purges never are.
AnnouncedWhenIdle ==
  (crashes = 0 /\ \A o \in Ops : stage[o] \in {"start", "done"}) =>
    Range(committed) \ Clears \subseteq events

=============================================================================
