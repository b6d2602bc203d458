------------------------- MODULE DashboardProperties -------------------------
(***************************************************************************)
(* What a page of the dashboard shows.                                     *)
(***************************************************************************)
EXTENDS Dashboard

Selections == (Endpoints \union {All}) \X (Webhooks \union {Nothing})

LoadsOK ==
  \A load \in loads :
    /\ load.no \in 1 .. started
    /\ load.scope \in Endpoints \union {All} /\ load.auto \in BOOLEAN
    /\ load.at \in {"endpoints", "gotEndpoints", "requests", "gotRequests"}
    /\ load.list \in Seq(IF load.at = "gotEndpoints" THEN Endpoints ELSE Webhooks)
    /\ Len(load.list) <= IF load.at = "gotEndpoints" THEN Cardinality(Endpoints) ELSE Limit
    /\ load.seen \subseteq saved

NetOK ==
  /\ line \in [Lines -> {"connecting", "open", "lost", "waiting", "gone"}]
  /\ timer \in Lines \union {NoTimer}
  /\ \A l \in Lines : line[l] \notin {"open", "lost"} => inbox[l] = <<>>
  /\ inbox \in [Lines -> Seq(told \union {Update})]

TypeOK ==
  /\ rows \subseteq saved /\ told \subseteq saved /\ saved \subseteq Webhooks
  /\ known \subseteq Endpoints
  /\ endpoints \in Seq(Endpoints) /\ requests \in Seq(saved)
  /\ {Deps, rendered} \subseteq Selections
  /\ LoadsOK /\ NetOK
  /\ {shown, listed} \subseteq 0 .. started
  /\ refreshes \in Seq(Seq(Endpoints))
  /\ posting \in {"no", "inserted", "answered", "done"}

-----------------------------------------------------------------------------
(* The list *)

\* No webhook is listed twice, though it comes with a list and over as many
\* sockets as the page has (App.tsx:41; the rows are keyed by id).
NoDuplicateRows == IsInjective(requests)

\* No call, no message and no render is under way, and the list shown is the
\* answer to the last loadData: no older answer came in after it, and it did not fail.
Quiet ==
  /\ loads = {} /\ refreshes = <<>> /\ posting \in {"no", "done"} /\ clearing = Nothing
  /\ rendered = Deps
  /\ \A l \in Lines : inbox[l] = <<>>
  /\ shown = started

\* The first Limit webhooks of the list the server had.
FirstPage ==
  LET inScope == {r \in read : InScope(r, selectedEndpointId)}
  IN  {r \in inScope : Cardinality({q \in inScope : q > r}) < Limit}

\* A page at rest shows every stored webhook of the selected endpoint that the answer
\* to its last load was read with, up to the limit it asked for, and every one it has
\* heard of since that answer (App.tsx:19, 38; queries.go:248).  It says nothing of an
\* event that came before the answer and was stored after it was read, of one that
\* came in a frame with others, nor of one missed while the socket was down.
QuietListComplete ==
  Quiet =>
    \A r \in rows : r \in FirstPage \/ (r \in heard /\ InScope(r, selectedEndpointId)) =>
      r \in Range(requests)

\* A page at rest that lists a webhook has a selection: the first list, the first
\* event or the list that follows a purge makes it (App.tsx:26, 45).  The selected
\* webhook need not be listed any more once another endpoint is selected.
SomethingSelected ==
  Quiet /\ selectedRequestId = Nothing => requests = <<>>

\* An endpoint created here is listed, and listed once, when the page is at rest:
\* the event may list it before the answer to the POST does (App.tsx:79), and the
\* lists of loads and refreshes that replace the endpoints may be older than it.
\* Excepted are an endpoint that the user had selected before that answer came, which
\* may be listed twice, and a page on which the endpoints of an older load have
\* replaced those of the last one (App.tsx:22), which may not list it at all.
CreatedListedOnce ==
  /\ Quiet /\ ~twice => IsInjective(endpoints)
  /\ Quiet /\ posting = "done" /\ listed = started => Created \in Range(endpoints)

-----------------------------------------------------------------------------
(* The sockets *)

\* The page always has a socket, or a timer that will open one: no close event
\* is forgotten and onopen never cancels the last timer (useWebSocket.ts:30, 56).
NeverSilent == \E l \in Lines : line[l] # "gone"

=============================================================================
