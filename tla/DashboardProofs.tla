--------------------------- MODULE DashboardProofs ---------------------------
(***************************************************************************)
(* Theorems about a page of the dashboard, for any number of webhooks and  *)
(* endpoints and any bounds.                                               *)
(***************************************************************************)
EXTENDS DashboardProperties, FiniteSetTheorems, SequenceTheorems, WellFoundedInduction, TLAPS

-----------------------------------------------------------------------------
(* Listings *)

\* A set of numbers has a smallest one.
LEMMA Smallest ==
  ASSUME NEW T \in SUBSET Nat, T # {}
  PROVE  \E x \in T : \A y \in T : x <= y
<1> DEFINE R == {ss \in Nat \X Nat : ss[1] < ss[2]}
<1>1. IsWellFoundedOn(R, Nat)
  BY NatLessThanWellFounded DEF OpToRel
<1>2. PICK x \in T : \A y \in T : ~ (<<y, x>> \in R)
  <2> HIDE DEF R
  <2> QED
    BY <1>1, WFMin
<1>3. \A y \in T : ~(y < x)
  BY <1>2
<1> QED
  BY <1>3

\* s lists the numbers of S, the largest first.
Listing(s, S) ==
  /\ s \in [1 .. Cardinality(S) -> S]
  /\ \A i, j \in 1 .. Cardinality(S) : i < j => s[i] > s[j]

\* The smallest number is listed after the others.
LEMMA ListingExtends ==
  ASSUME NEW S \in SUBSET Nat, IsFiniteSet(S), NEW m \in S, \A y \in S : m <= y,
         NEW s, Listing(s, S \ {m})
  PROVE  \E t : Listing(t, S)
<1> DEFINE n == Cardinality(S)
           t == [i \in 1 .. n |-> IF i = n THEN m ELSE s[i]]
<1>1. n \in Nat /\ n # 0 /\ Cardinality(S \ {m}) = n - 1
  <2>1. n \in Nat /\ Cardinality(S \ {m}) = n - 1
    BY FS_CardinalityType, FS_RemoveElement
  <2>2. n # 0
    BY FS_EmptySet
  <2> QED
    BY <2>1, <2>2
<1>2. /\ s \in [1 .. n - 1 -> S \ {m}]
      /\ \A i, j \in 1 .. n - 1 : i < j => s[i] > s[j]
  BY <1>1 DEF Listing
<1> HIDE DEF n
<1>3. \A i \in 1 .. n : i # n => s[i] \in S /\ s[i] > m
  <2>1. \A i \in 1 .. n : i # n => i \in 1 .. n - 1
    BY <1>1
  <2>2. \A x \in S \ {m} : x > m
    OBVIOUS
  <2> QED
    BY <1>2, <2>1, <2>2
<1>4. t \in [1 .. n -> S]
  BY <1>3
<1>5. ASSUME NEW i \in 1 .. n, NEW j \in 1 .. n, i < j PROVE t[i] > t[j]
  <2>1. i \in 1 .. n - 1 /\ i # n
    BY <1>1, <1>5
  <2>2. CASE j = n
    BY <1>3, <2>1, <2>2
  <2>3. CASE j # n
    <3>1. j \in 1 .. n - 1
      BY <1>1, <2>3
    <3> QED
      BY <1>2, <1>5, <2>1, <2>3, <3>1
  <2> QED
    BY <2>2, <2>3
<1>6. Listing(t, S)
  BY <1>4, <1>5 DEF Listing, n
<1> QED
  BY <1>6

\* Any finite set of numbers can be listed: there is no smallest cardinality of
\* one that cannot.
LEMMA ListingExists ==
  ASSUME NEW S \in SUBSET Nat, IsFiniteSet(S)
  PROVE  \E s : Listing(s, S)
<1> DEFINE Bad(n) == \E X \in SUBSET Nat : /\ IsFiniteSet(X) /\ Cardinality(X) = n
                                           /\ ~ \E s : Listing(s, X)
           T == {n \in Nat : Bad(n)}
<1>1. SUFFICES ASSUME T # {} PROVE FALSE
  <2>1. Cardinality(S) \in Nat
    BY FS_CardinalityType
  <2> QED
    BY <2>1
<1>2. PICK n \in T : \A k \in T : n <= k
  <2> HIDE DEF T
  <2>1. T \in SUBSET Nat
    BY DEF T
  <2> QED
    BY <1>1, <2>1, Smallest
<1>3. PICK X \in SUBSET Nat : /\ IsFiniteSet(X) /\ Cardinality(X) = n
                              /\ ~ \E s : Listing(s, X)
  BY <1>2
<1>4. X # {}
  <2>1. ASSUME X = {} PROVE Listing(<<>>, X)
    <3>1. Cardinality(X) = 0 /\ 1 .. 0 = {}
      BY <2>1, FS_EmptySet
    <3>2. <<>> \in [1 .. 0 -> X]
      BY <3>1
    <3> QED
      BY <3>1, <3>2 DEF Listing
  <2> QED
    BY <1>3, <2>1
<1>5. PICK m \in X : \A y \in X : m <= y
  BY <1>4, Smallest
<1>6. IsFiniteSet(X \ {m}) /\ Cardinality(X \ {m}) = n - 1 /\ n \in Nat
  BY <1>2, <1>3, FS_RemoveElement
<1>7. PICK s : Listing(s, X \ {m})
  <2>1. ~ (n <= n - 1)
    BY <1>6
  <2>2. n - 1 \notin T
    BY <1>2, <2>1
  <2>3. n - 1 \in Nat
    <3>1. Cardinality(X \ {m}) \in Nat
      BY <1>6, FS_CardinalityType
    <3> QED
      BY <1>6, <3>1
  <2>4. ~ Bad(n - 1)
    BY <2>2, <2>3
  <2> QED
    BY <1>6, <2>4
<1>8. \E t : Listing(t, X)
  BY <1>3, <1>5, <1>7, ListingExtends
<1> QED
  BY <1>3, <1>8

\* Newest lists the numbers of a set once each, the largest first.
LEMMA NewestLists ==
  ASSUME NEW S \in SUBSET Nat, IsFiniteSet(S)
  PROVE  /\ Listing(Newest(S), S)
         /\ Newest(S) \in Seq(S) /\ Len(Newest(S)) = Cardinality(S)
         /\ IsInjective(Newest(S)) /\ Range(Newest(S)) = S
<1> DEFINE n == Cardinality(S)
           s == Newest(S)
<1>0. n \in Nat
  BY FS_CardinalityType
<1>1. PICK t : Listing(t, S)
  BY ListingExists
<1>2. t \in SetToSeqs(S) /\ \A i, j \in DOMAIN t : i < j => t[i] > t[j]
  <2>1. t \in [1 .. n -> S] /\ \A i, j \in 1 .. n : i < j => t[i] > t[j]
    BY <1>1 DEF Listing
  <2>2. ASSUME NEW i \in 1 .. n, NEW j \in 1 .. n, i # j PROVE t[i] # t[j]
    <3>1. t[i] \in Nat /\ t[j] \in Nat /\ (i < j \/ j < i)
      <4> HIDE DEF n
      <4>1. i < j \/ j < i
        BY <1>0, <2>2
      <4> QED
        BY <2>1, <4>1
    <3>2. t[i] > t[j] \/ t[j] > t[i]
      BY <2>1, <3>1
    <3> QED
      BY <3>1, <3>2
  <2> QED
    BY <2>1, <2>2 DEF SetToSeqs
<1>3. s \in SetToSeqs(S) /\ \A i, j \in DOMAIN s : i < j => s[i] > s[j]
  BY <1>2 DEF Newest
<1> HIDE DEF s
<1>4. s \in [1 .. n -> S] /\ IsInjective(s) /\ DOMAIN s = 1 .. n
  BY <1>3 DEF SetToSeqs, IsInjective
<1>5. Listing(s, S)
  BY <1>3, <1>4 DEF Listing
<1>6. s \in Seq(S) /\ Len(s) = n
  BY <1>0, <1>4, SeqDef, LenProperties
<1>7. Range(s) = S
  <2>1. s \in Injection(1 .. n, S)
    BY <1>4 DEF Injection
  <2>2. Cardinality(1 .. n) = n /\ IsFiniteSet(1 .. n)
    BY <1>0, FS_Interval
  <2>3. s \in Surjection(1 .. n, S)
    BY <2>1, <2>2, FS_Injection
  <2> QED
    BY <1>4, <2>3 DEF Surjection, Range
<1> QED
  BY <1>4, <1>5, <1>6, <1>7 DEF s

-----------------------------------------------------------------------------
(* The inductive invariant *)

\* The webhooks that the answer to a call for scope e holds at least, if the
\* server stored S when it made it.
Page(S, e) ==
  LET inScope == {r \in S : InScope(r, e)}
  IN  {r \in inScope : Cardinality({q \in inScope : q > r}) < Limit}

\* What the server has stored and announced, and how far the form has come.
ServerInv ==
  /\ rows \subseteq saved /\ told \subseteq saved /\ saved \subseteq Webhooks
  /\ IsFiniteSet(rows)
  /\ known \subseteq Endpoints
  /\ posting \in {"no", "inserted", "answered", "done"}
  /\ posting # "no" => Created \in known

\* Loads are numbered as they start; the selections are of what there is.
SelectionInv ==
  /\ selectedEndpointId \in Endpoints \union {All}
  /\ selectedRequestId \in Webhooks \union {Nothing}
  /\ rendered \in Selections
  /\ started \in Nat /\ {shown, listed} \subseteq 0 .. started

LoadRecords ==
  [no : Nat, scope : Endpoints \union {All}, auto : BOOLEAN,
   at : {"endpoints", "gotEndpoints", "requests", "gotRequests"},
   list : Seq(Nat), seen : SUBSET Webhooks]

\* A load brings what the server had when it answered; the last one that was
\* started works for the selection that the effects last ran with.
LoadOK(load) ==
  /\ load \in LoadRecords /\ load.no \in 1 .. started /\ load.seen \subseteq saved
  /\ load.at \in {"endpoints", "requests"} => load.list = <<>>
  /\ load.at = "gotEndpoints" =>
       /\ load.list \in Seq(Endpoints) /\ Len(load.list) <= Cardinality(Endpoints)
       /\ IsInjective(load.list)
  /\ load.at = "gotRequests" =>
       /\ load.list \in Seq(load.seen) /\ Len(load.list) <= Limit
       /\ IsInjective(load.list) /\ Page(load.seen, load.scope) \subseteq Range(load.list)
  /\ load.no = started =>
       load.scope = rendered[1] /\ (load.auto <=> rendered[2] = Nothing)

LoadsInv == \A load \in loads : LoadOK(load)

\* Nothing heard of drops out of the list; once the last load has been applied,
\* its page is in the list, and a list in which nothing is selected is empty.
ListInv ==
  /\ requests \in Seq(saved) /\ IsInjective(requests)
  /\ heard \subseteq Range(requests)
  /\ shown = started => Page(read, rendered[1]) \subseteq Range(requests)
  /\ shown = started /\ selectedRequestId = Nothing /\ rendered[2] = Nothing
       => requests = <<>>

\* An endpoint is listed twice only until the load that its selection causes has
\* brought the endpoints.
Repeated ==
  /\ posting = "done" /\ Created \in known
  /\ \/ selectedEndpointId = Created /\ rendered[1] # Created
     \/ /\ shown # started
        /\ \A load \in loads : load.no = started => load.at \in {"endpoints", "gotEndpoints"}

\* What a refresh brings lists no endpoint twice, and lists the new one: the event
\* that causes it comes after the insertion.
Listings ==
  {list \in Seq(Endpoints) : IsInjective(list) /\ (list = <<>> \/ Created \in Range(list))}

EndpointsInv ==
  /\ endpoints \in Seq(Endpoints)
  /\ refreshes \in Seq(Listings)
  /\ ~twice /\ ~IsInjective(endpoints) => Repeated

\* The page has not heard of the new endpoint, and will not unless it calls again.
Unheard ==
  /\ Created \notin Range(endpoints) /\ Created \notin {selectedEndpointId, rendered[1]}
  /\ \A load \in loads : load.at = "gotEndpoints" => Created \notin Range(load.list)
  /\ refreshes = <<>> /\ \A l \in Lines : inbox[l] \in Seq(Webhooks)

\* So it is until the form is submitted.
BeforeForm == Created \notin known => Unheard

\* The form has succeeded, and the effects have run for the selection it made or
\* one that the user has made since.
Settled == posting = "done" /\ rendered[1] = selectedEndpointId

\* From the first load that works for the new endpoint on, each lists it ...
LastLists ==
  Created \in known /\ (Settled \/ rendered[1] = Created) =>
    \A load \in loads : load.no = started /\ load.at = "gotEndpoints" =>
      Created \in Range(load.list)

\* ... so it is listed unless an older load has replaced the endpoints since.
ListedOnPage == Settled /\ listed = started => Created \in Range(endpoints)

CreatedInv == BeforeForm /\ LastLists /\ ListedOnPage

PageInv ==
  /\ ServerInv /\ SelectionInv /\ LoadsInv /\ ListInv /\ EndpointsInv /\ CreatedInv
  /\ NetOK

-----------------------------------------------------------------------------
(* The server, the selections and the sockets *)

LEMMA ServerStep == ServerInv /\ [Next]_vars => ServerInv'
<1> SUFFICES ASSUME ServerInv, [Next]_vars PROVE ServerInv'
  OBVIOUS
<1> USE DEF ServerInv
<1>1. ASSUME NEW r \in Webhooks, Store(r) PROVE ServerInv'
  <2>1. IsFiniteSet(rows \union {r})
    BY FS_AddElement
  <2> QED
    BY <1>1, <2>1 DEF Store, calls
<1>2. ASSUME NEW r \in Webhooks, Announce(r) PROVE ServerInv'
  BY <1>2 DEF Announce, Unannounced, calls
<1>3. CASE Submit
  BY <1>3, DashboardAssumption DEF Submit
<1>4. CASE ClearExec
  <2>1. rows' \in SUBSET rows
    BY <1>4 DEF ClearExec
  <2>2. IsFiniteSet(rows')
    BY <2>1, FS_Subset
  <2> QED
    BY <1>4, <2>1, <2>2 DEF ClearExec
<1>5. CASE PostAnnounces \/ PostDone \/ PostFails
  BY <1>5 DEF PostAnnounces, PostDone, PostFails, server
<1>6. ASSUME \/ Load \/ Refresh \/ Render \/ SelectEndpoint \/ SelectRequest \/ Clear \/ Cleared
             \/ ClearFails
             \/ \E l \in Lines : Line(l)
             \/ UNCHANGED vars
      PROVE  UNCHANGED <<rows, saved, told, known, posting>>
  BY <1>6 DEF Load, LoadAnswered, EndpointsLoaded, RequestsLoaded, LoadFails, Refresh,
     RefreshAnswered, Refreshed, RefreshFails, Render, SelectEndpoint, SelectRequest, Clear,
     Cleared, ClearFails, Line, Open, Lose, OnClose, Reconnect, Receive, server, calls, vars
<1> QED
  BY <1>1, <1>2, <1>3, <1>4, <1>5, <1>6 DEF Next, Post, AtRest

\* What can be selected: the first webhook of an answer, a webhook announced, or
\* what the page displays.
LEMMA SelectionStep == PageInv /\ [Next]_vars => SelectionInv'
<1> SUFFICES ASSUME PageInv, [Next]_vars PROVE SelectionInv'
  OBVIOUS
<1> USE DEF SelectionInv
<1>0. SelectionInv
  BY DEF PageInv
<1>1. CASE Render
  BY <1>0, <1>1 DEF Render, Deps, Selections
<1>2. ASSUME NEW load \in loads, RequestsLoaded(load) PROVE SelectionInv'
  <2>1. /\ load.no \in 1 .. started /\ load.list \in Seq(load.seen)
        /\ load.seen \subseteq Webhooks
    BY <1>2 DEF RequestsLoaded, PageInv, LoadsInv, LoadOK, ServerInv
  <2>2. load.list # <<>> => Head(load.list) \in Webhooks
    BY <2>1, HeadTailProperties
  <2>3. selectedRequestId' \in Webhooks \union {Nothing}
    BY <1>0, <1>2, <2>2 DEF RequestsLoaded, SelectedBy
  <2> QED
    BY <1>0, <1>2, <2>1, <2>3 DEF RequestsLoaded
<1>3. CASE SelectEndpoint
  <2>1. Range(endpoints) \subseteq Endpoints
    BY DEF PageInv, EndpointsInv, Range
  <2> QED
    BY <1>0, <1>3, <2>1 DEF SelectEndpoint, calls
<1>4. CASE SelectRequest
  <2>1. Range(requests) \subseteq Webhooks
    BY DEF PageInv, ListInv, ServerInv, Range
  <2> QED
    BY <1>0, <1>4, <2>1 DEF SelectRequest, calls
<1>5. CASE PostDone
  BY <1>0, <1>5, DashboardAssumption DEF PostDone, CreatedShown
<1>6. CASE Cleared
  BY <1>0, <1>6 DEF Cleared
<1>7. ASSUME NEW l \in Lines, Receive(l) PROVE SelectionInv'
  <2>1. inbox[l] \in Seq(told \union {Update}) /\ told \subseteq Webhooks
    BY DEF PageInv, NetOK, ServerInv
  <2>2. UNCHANGED <<selectedEndpointId, rendered, started, shown, listed>>
    BY <1>7 DEF Receive
  <2>3. \/ UNCHANGED selectedRequestId
        \/ /\ inbox[l] # <<>> /\ Head(inbox[l]) # Update
           /\ selectedRequestId' \in {selectedRequestId, Head(inbox[l])}
    <3>1. ASSUME NEW n \in 1 .. Len(inbox[l]) PROVE inbox[l] # <<>>
      BY <2>1, <3>1
    <3> QED
      BY <1>7, <3>1 DEF Receive, HandleEndpointUpdate, HandleNewRequest
  <2>4. inbox[l] # <<>> => Head(inbox[l]) \in told \union {Update}
    BY <2>1, HeadTailProperties
  <2> QED
    BY <1>0, <2>1, <2>2, <2>3, <2>4
<1>8. ASSUME \/ \E r \in Webhooks : Store(r) \/ Announce(r)
             \/ \E load \in loads : LoadAnswered(load) \/ LoadFails(load)
             \/ Refresh \/ Submit \/ PostAnnounces \/ PostFails
             \/ Clear \/ ClearExec \/ ClearFails
             \/ \E l \in Lines : Open(l) \/ Lose(l) \/ OnClose(l) \/ Reconnect(l)
             \/ UNCHANGED vars
      PROVE  UNCHANGED <<selectedEndpointId, selectedRequestId, rendered, started, shown, listed>>
  BY <1>8 DEF Store, Announce, LoadAnswered, LoadFails, Refresh, RefreshAnswered, Refreshed,
     RefreshFails, Submit, PostAnnounces, PostFails, Clear, ClearExec, ClearFails, Open, Lose,
     OnClose, Reconnect, page, calls, vars
<1>9. ASSUME UNCHANGED <<selectedEndpointId, selectedRequestId, rendered, started, shown, listed>>
      PROVE  SelectionInv'
  BY <1>0, <1>9
<1>10. ASSUME NEW load \in loads, EndpointsLoaded(load) PROVE SelectionInv'
  <2>1. load.no \in 1 .. started
    BY DEF PageInv, LoadsInv, LoadOK
  <2>2. /\ listed' = load.no
        /\ UNCHANGED <<selectedEndpointId, selectedRequestId, rendered, started, shown>>
    BY <1>10 DEF EndpointsLoaded
  <2> QED
    BY <1>0, <2>1, <2>2
<1> QED
  BY <1>1, <1>2, <1>3, <1>4, <1>5, <1>6, <1>7, <1>8, <1>9, <1>10
  DEF Next, Load, Post, Line, AtRest

\* A message for every open socket.
LEMMA SendKeepsNet ==
  ASSUME NetOK, NEW m \in told' \union {Update}, Send(m), told \subseteq told',
         UNCHANGED <<line, timer>>
  PROVE  NetOK'
<1>1. ASSUME NEW l \in Lines
      PROVE  /\ inbox'[l] \in Seq(told' \union {Update})
             /\ line[l] \notin {"open", "lost"} => inbox'[l] = <<>>
  <2>1. inbox[l] \in Seq(told \union {Update})
    BY DEF NetOK
  <2>2. inbox[l] \in Seq(told' \union {Update})
    BY <2>1
  <2>3. Append(inbox[l], m) \in Seq(told' \union {Update})
    BY <2>2, AppendProperties
  <2>4. inbox'[l] = IF line[l] = "open" THEN Append(inbox[l], m) ELSE inbox[l]
    BY DEF Send
  <2> QED
    BY <2>2, <2>3, <2>4 DEF NetOK
<1>2. DOMAIN inbox' = Lines /\ inbox' = [l \in Lines |-> inbox'[l]]
  BY DEF Send
<1>3. inbox' \in [Lines -> Seq(told' \union {Update})]
  BY <1>1, <1>2
<1> QED
  BY <1>1, <1>3 DEF NetOK

\* Messages are queued only on a socket that is open or whose close event is
\* still to come.
LEMMA NetStep == NetOK /\ [Next]_vars => NetOK'
<1> SUFFICES ASSUME NetOK, [Next]_vars PROVE NetOK'
  OBVIOUS
<1>0. /\ line \in [Lines -> {"connecting", "open", "lost", "waiting", "gone"}]
      /\ timer \in Lines \union {NoTimer}
      /\ \A l \in Lines : line[l] \notin {"open", "lost"} => inbox[l] = <<>>
      /\ inbox \in [Lines -> Seq(told \union {Update})]
  BY DEF NetOK
<1>1. ASSUME NEW r \in Webhooks, Announce(r) PROVE NetOK'
  BY <1>1, SendKeepsNet DEF Announce
<1>2. CASE PostAnnounces
  BY <1>2, SendKeepsNet DEF PostAnnounces, server
<1>3. ASSUME NEW l \in Lines, Open(l) PROVE NetOK'
  <2>1. /\ line'[l] = "open" /\ timer' = NoTimer
        /\ line' \in [Lines -> {"connecting", "open", "lost", "waiting", "gone"}]
        /\ \A k \in Lines : line'[k] \in {line[k], "gone", "open"}
        /\ \A k \in Lines : line'[k] = "gone" => line[k] \in {"gone", "waiting"}
        /\ UNCHANGED <<inbox, told>>
    BY <1>0, <1>3 DEF Open, server
  <2> QED
    BY <1>0, <2>1 DEF NetOK
<1>4. ASSUME NEW l \in Lines, Lose(l) PROVE NetOK'
  <2>1. PICK n \in Nat : inbox' = [inbox EXCEPT ![l] = SubSeq(@, 1, n)]
                         /\ n \in 0 .. Len(inbox[l])
    <3>1. /\ inbox[l] \in Seq(told \union {Update})
          /\ Len(inbox[l]) \in Nat
      BY <1>0, LenProperties
    <3>2. \A n \in 0 .. IF line[l] = "open" THEN Len(inbox[l]) ELSE 0 :
             n \in Nat /\ n \in 0 .. Len(inbox[l])
      BY <3>1
    <3> QED
      BY <1>4, <3>2 DEF Lose
  <2>2. SubSeq(inbox[l], 1, n) \in Seq(told \union {Update})
    BY <1>0, <2>1, SubSeqProperties
  <2> DEFINE q == SubSeq(inbox[l], 1, n)
  <2>3. inbox' = [inbox EXCEPT ![l] = q]
    BY <2>1
  <2> HIDE DEF q
  <2>4. /\ line' = [line EXCEPT ![l] = "lost"] /\ UNCHANGED <<timer, told>>
    BY <1>4 DEF Lose, server
  <2> QED
    BY <1>0, <2>2, <2>3, <2>4 DEF NetOK, q
<1>5. ASSUME NEW l \in Lines, OnClose(l) PROVE NetOK'
  BY <1>0, <1>5 DEF OnClose, Arm, NetOK, server
<1>6. ASSUME NEW l \in Lines, Reconnect(l) PROVE NetOK'
  BY <1>0, <1>6 DEF Reconnect, NetOK, server
<1>7. ASSUME NEW l \in Lines, Receive(l) PROVE NetOK'
  <2>1. PICK n \in 1 .. Len(inbox[l]) :
           inbox' = [inbox EXCEPT ![l] = SubSeq(@, n + 1, Len(@))]
    BY <1>7 DEF Receive
  <2> DEFINE q == SubSeq(inbox[l], n + 1, Len(inbox[l]))
  <2>2. q \in Seq(told \union {Update})
    <3>1. /\ inbox[l] \in Seq(told \union {Update})
          /\ Len(inbox[l]) \in Nat
      BY <1>0, LenProperties
    <3>2. n + 1 \in 1 .. Len(inbox[l]) + 1 /\ Len(inbox[l]) \in n .. Len(inbox[l])
      BY <3>1
    <3> QED
      BY <3>1, <3>2, SubSeqProperties
  <2>3. inbox' = [inbox EXCEPT ![l] = q]
    BY <2>1
  <2> HIDE DEF q
  <2>4. line[l] \in {"open", "lost"} /\ UNCHANGED <<line, timer, told>>
    BY <1>7 DEF Receive, server
  <2> QED
    BY <1>0, <2>2, <2>3, <2>4 DEF NetOK
<1>8. ASSUME \/ \E r \in Webhooks : Store(r)
             \/ Load \/ Refresh \/ Render \/ SelectEndpoint \/ SelectRequest \/ Submit
             \/ PostDone \/ PostFails \/ Clear \/ ClearExec \/ Cleared \/ ClearFails
             \/ UNCHANGED vars
      PROVE  UNCHANGED <<line, timer, inbox, told>>
  BY <1>8 DEF Store, Load, LoadAnswered, EndpointsLoaded, RequestsLoaded, LoadFails, Refresh,
     RefreshAnswered, Refreshed, RefreshFails, Render, SelectEndpoint, SelectRequest, Submit,
     PostDone, PostFails, Clear, ClearExec, Cleared, ClearFails, server, net, vars
<1>9. ASSUME UNCHANGED <<line, timer, inbox, told>> PROVE NetOK'
  BY <1>9 DEF NetOK
<1> QED
  BY <1>1, <1>2, <1>3, <1>4, <1>5, <1>6, <1>7, <1>8, <1>9 DEF Next, Post, Line, AtRest

-----------------------------------------------------------------------------
(* The loads *)

\* The answer to a call for requests is a page of what the server stores.
LEMMA ListRequestsAnswers ==
  ASSUME NEW e, rows \subseteq Webhooks, IsFiniteSet(rows)
  PROVE  /\ ListRequests(e) \in Seq(rows) /\ Len(ListRequests(e)) <= Limit
         /\ IsInjective(ListRequests(e))
         /\ Page(rows, e) \subseteq Range(ListRequests(e))
<1> DEFINE A == {r \in rows : InScope(r, e)}
           all == Newest(A)
           n == Len(all)
           k == IF n < Limit THEN n ELSE Limit
           q == SubSeq(all, 1, k)
<1>1. Limit \in Nat \ {0} /\ Granted(Limit) = Limit
  BY DashboardAssumption, LimitGranted DEF Granted
<1>2. ListRequests(e) = q
  BY <1>1 DEF ListRequests
<1>3. A \in SUBSET Nat /\ IsFiniteSet(A) /\ A \subseteq rows
  BY FS_Subset, DashboardAssumption
<1>4. /\ all \in Seq(A) /\ n = Cardinality(A) /\ n \in Nat
      /\ IsInjective(all) /\ Range(all) = A
      /\ DOMAIN all = 1 .. n
      /\ \A i, j \in 1 .. n : i < j => all[i] > all[j]
  <2> HIDE DEF A
  <2>1. /\ Listing(all, A) /\ all \in Seq(A) /\ n = Cardinality(A)
        /\ IsInjective(all) /\ Range(all) = A
    BY <1>3, NewestLists
  <2>2. n \in Nat /\ DOMAIN all = 1 .. n
    BY <2>1, LenProperties
  <2> QED
    BY <2>1, <2>2 DEF Listing
<1> HIDE DEF all, n
<1>5. k \in 0 .. n /\ k <= Limit /\ k \in Nat
  BY <1>1, <1>4
<1> HIDE DEF k
<1>6. /\ q \in Seq(A) /\ Len(q) = k /\ DOMAIN q = 1 .. k
      /\ \A i \in 1 .. k : i \in 1 .. n /\ q[i] = all[i]
  <2> HIDE DEF A
  <2>1. 1 .. k \subseteq 1 .. n /\ k \in Int /\ 1 \in Int
    BY <1>4, <1>5
  <2>2. \A i \in 1 .. k : all[i] \in A
    BY <1>4, <2>1 DEF Range
  <2>3. /\ q \in Seq(A) /\ Len(q) = (IF 1 <= k THEN k - 1 + 1 ELSE 0)
        /\ \A i \in 1 .. k - 1 + 1 : q[i] = all[1 + i - 1]
    BY <2>1, <2>2, SubSeqProperties
  <2> HIDE DEF q
  <2>4. (IF 1 <= k THEN k - 1 + 1 ELSE 0) = k /\ k - 1 + 1 = k
    BY <1>5
  <2>5. Len(q) = k /\ DOMAIN q = 1 .. k
    BY <2>3, <2>4, LenProperties
  <2>6. \A i \in 1 .. k : 1 + i - 1 = i
    OBVIOUS
  <2> QED
    BY <2>1, <2>3, <2>4, <2>5, <2>6
<1> HIDE DEF q
<1>7. IsInjective(q)
  BY <1>4, <1>6 DEF IsInjective
<1>8. ASSUME NEW r \in Page(rows, e) PROVE r \in Range(q)
  <2> DEFINE above == {x \in A : x > r}
  <2>1. r \in A /\ Cardinality(above) < Limit
    BY <1>8 DEF Page
  <2>2. PICK i \in 1 .. n : r = all[i]
    BY <1>4, <2>1 DEF Range
  <2> DEFINE f == [j \in 1 .. i - 1 |-> all[j]]
  <2>3. \A j \in 1 .. i - 1 : j \in 1 .. n /\ j < i
    BY <1>4
  <2>4. \A j \in 1 .. i - 1 : all[j] \in above
    <3>1. \A j \in 1 .. n : all[j] \in A
      BY <1>4 DEF Range
    <3> HIDE DEF A
    <3> QED
      BY <1>4, <2>2, <2>3, <3>1
  <2>5. f \in Injection(1 .. i - 1, above)
    <3> HIDE DEF above
    <3>1. f \in [1 .. i - 1 -> above]
      BY <2>4
    <3>2. IsInjective(f)
      BY <1>4, <2>3 DEF IsInjective
    <3> QED
      BY <3>1, <3>2 DEF Injection
  <2>6. IsFiniteSet(above) /\ Cardinality(above) \in Nat
    BY <1>3, FS_Subset, FS_CardinalityType
  <2> HIDE DEF f, above
  <2>7. Cardinality(1 .. i - 1) <= Cardinality(above)
    BY <2>5, <2>6, FS_Injection
  <2>8. Cardinality(1 .. i - 1) = i - 1
    <3>1. 1 \in Int /\ i - 1 \in Int /\ i \in Nat /\ i >= 1
      BY <1>4
    <3>2. Cardinality(1 .. i - 1) = IF 1 > i - 1 THEN 0 ELSE i - 1 - 1 + 1
      BY <3>1, FS_Interval
    <3> QED
      BY <3>1, <3>2
  <2>9. i \in 1 .. k
    <3>1. i - 1 < Limit
      BY <1>1, <1>4, <2>1, <2>6, <2>7, <2>8
    <3> QED
      BY <1>1, <1>4, <3>1 DEF k
  <2>10. q[i] = r
    BY <1>6, <2>2, <2>9
  <2> QED
    BY <1>6, <2>9, <2>10 DEF Range
<1>9. q \in Seq(rows)
  BY <1>3, <1>6
<1> QED
  BY <1>2, <1>5, <1>6, <1>7, <1>8, <1>9

\* A sequence of numbers of S is one of numbers of a larger set.
LEMMA SeqWidens ==
  ASSUME NEW S, NEW T, S \subseteq T, NEW s \in Seq(S)
  PROVE  s \in Seq(T)
OBVIOUS

\* A load under way is not disturbed by what is stored meanwhile, nor by other loads.
LEMMA LoadFrame ==
  ASSUME NEW load, LoadOK(load), saved \subseteq saved', UNCHANGED <<started, rendered>>
  PROVE  LoadOK(load)'
BY DEF LoadOK

LEMMA LoadsFrame ==
  ASSUME LoadsInv, saved \subseteq saved', UNCHANGED <<started, rendered>>,
         \A load \in loads' : load \in loads \/ LoadOK(load)'
  PROVE  LoadsInv'
<1>1. ASSUME NEW load \in loads' PROVE LoadOK(load)'
  <2>1. CASE load \in loads
    BY <2>1, LoadFrame DEF LoadsInv
  <2> QED
    BY <1>1, <2>1
<1> QED
  BY <1>1 DEF LoadsInv

\* The server answers a load: with all endpoints, or with a page of requests.
LEMMA LoadAnsweredStep ==
  ASSUME ServerInv, LoadsInv, NEW load \in loads, LoadAnswered(load)
  PROVE  LoadsInv'
<1>1. LoadOK(load) /\ UNCHANGED <<saved, started, rendered>>
  BY DEF LoadsInv, LoadAnswered, server, page
<1>2. /\ load \in LoadRecords /\ load.no \in 1 .. started /\ load.seen \subseteq saved
      /\ load.no = started =>
           load.scope = rendered[1] /\ (load.auto <=> rendered[2] = Nothing)
  BY <1>1 DEF LoadOK
<1>3. CASE load.at = "endpoints"
  <2> PICK q : q = Newest(known)
    OBVIOUS
  <2> PICK next : next = [load EXCEPT !.at = "gotEndpoints", !.list = q]
    OBVIOUS
  <2>1. q \in Seq(known) /\ Len(q) <= Cardinality(Endpoints) /\ IsInjective(q)
    <3>1. known \in SUBSET Nat /\ IsFiniteSet(known) /\ Cardinality(known) <= Cardinality(Endpoints)
      BY DashboardAssumption, FS_Subset DEF ServerInv
    <3>2. q \in Seq(known) /\ Len(q) = Cardinality(known) /\ IsInjective(q)
      BY <3>1, NewestLists
    <3> QED
      BY <3>1, <3>2
  <2>2. q \in Seq(Endpoints) /\ q \in Seq(Nat)
    <3>1. known \subseteq Endpoints /\ known \subseteq Nat
      BY DashboardAssumption DEF ServerInv
    <3> QED
      BY <2>1, <3>1, SeqWidens
  <2>3. /\ next \in LoadRecords /\ next.at = "gotEndpoints" /\ next.list = q
        /\ next.no = load.no /\ next.scope = load.scope /\ next.auto = load.auto
        /\ next.seen = load.seen
    BY <1>2, <2>2 DEF LoadRecords
  <2>4. loads' = (loads \ {load}) \union {next}
    BY <1>3 DEF LoadAnswered, Becomes
  <2>5. LoadOK(next)'
    BY <1>1, <1>2, <2>1, <2>2, <2>3 DEF LoadOK
  <2>6. \A other \in loads' : other \in loads \/ LoadOK(other)'
    BY <2>4, <2>5
  <2> QED
    BY <1>1, <2>6, LoadsFrame
<1>4. CASE load.at = "requests"
  <2> PICK q : q = ListRequests(load.scope)
    OBVIOUS
  <2> PICK next : next = [load EXCEPT !.at = "gotRequests", !.list = q, !.seen = rows]
    OBVIOUS
  <2>1. /\ q \in Seq(rows) /\ Len(q) <= Limit /\ IsInjective(q)
        /\ Page(rows, load.scope) \subseteq Range(q)
    BY ListRequestsAnswers DEF ServerInv
  <2>2. q \in Seq(Nat) /\ rows \in SUBSET Webhooks /\ rows \subseteq saved
    <3>1. rows \subseteq Nat
      BY DashboardAssumption DEF ServerInv
    <3> QED
      BY <2>1, <3>1, SeqWidens DEF ServerInv
  <2>3. /\ next \in LoadRecords /\ next.at = "gotRequests" /\ next.list = q
        /\ next.no = load.no /\ next.scope = load.scope /\ next.auto = load.auto
        /\ next.seen = rows
    BY <1>2, <2>2 DEF LoadRecords
  <2>4. loads' = (loads \ {load}) \union {next}
    BY <1>4 DEF LoadAnswered, Becomes
  <2>5. LoadOK(next)'
    BY <1>1, <1>2, <2>1, <2>2, <2>3 DEF LoadOK
  <2>6. \A other \in loads' : other \in loads \/ LoadOK(other)'
    BY <2>4, <2>5
  <2> QED
    BY <1>1, <2>6, LoadsFrame
<1> QED
  BY <1>3, <1>4 DEF LoadAnswered

LEMMA LoadsStep == PageInv /\ [Next]_vars => LoadsInv'
<1> SUFFICES ASSUME PageInv, [Next]_vars PROVE LoadsInv'
  OBVIOUS
<1>0. LoadsInv /\ ServerInv /\ SelectionInv
  BY DEF PageInv
<1>1. CASE Render
  <2> PICK new : new = [no |-> started + 1, scope |-> selectedEndpointId,
                        auto |-> selectedRequestId = Nothing,
                        at |-> "endpoints", list |-> <<>>, seen |-> {}]
    OBVIOUS
  <2>1. /\ started' = started + 1 /\ loads' = loads \union {new} /\ saved' = saved
        /\ rendered' = <<selectedEndpointId, selectedRequestId>> /\ started \in Nat
    BY <1>0, <1>1 DEF Render, NewLoad, Deps, server, SelectionInv
  <2>2. LoadOK(new)'
    <3>1. /\ <<>> \in Seq(Nat) /\ selectedEndpointId \in Endpoints \union {All}
          /\ {} \in SUBSET Webhooks /\ {} \subseteq saved
      BY <1>0 DEF SelectionInv
    <3>2. /\ started + 1 \in Nat /\ started + 1 \in 1 .. started + 1
          /\ (selectedRequestId = Nothing) \in BOOLEAN
      BY <2>1
    <3>3. /\ new \in LoadRecords /\ new.no = started + 1 /\ new.scope = selectedEndpointId
          /\ new.auto <=> selectedRequestId = Nothing
          /\ new.at = "endpoints" /\ new.list = <<>> /\ new.seen = {}
      BY <3>1, <3>2 DEF LoadRecords
    <3> QED
      BY <2>1, <3>1, <3>2, <3>3 DEF LoadOK
  <2>3. ASSUME NEW load \in loads PROVE LoadOK(load)'
    <3>1. LoadOK(load)
      BY <1>0 DEF LoadsInv
    <3>2. load.no \in 1 .. started + 1 /\ load.no # started + 1
      BY <2>1, <3>1 DEF LoadOK
    <3> QED
      BY <2>1, <3>1, <3>2 DEF LoadOK
  <2> QED
    BY <2>1, <2>2, <2>3 DEF LoadsInv
<1>2. ASSUME NEW load \in loads, LoadAnswered(load) PROVE LoadsInv'
  BY <1>0, <1>2, LoadAnsweredStep
<1>3. ASSUME NEW load \in loads, EndpointsLoaded(load) PROVE LoadsInv'
  <2> PICK next : next = [load EXCEPT !.at = "requests", !.list = <<>>]
    OBVIOUS
  <2>1. LoadOK(load) /\ UNCHANGED <<saved, started, rendered>>
    BY <1>0, <1>3 DEF LoadsInv, EndpointsLoaded, server
  <2>2. /\ load \in LoadRecords /\ load.no \in 1 .. started /\ load.seen \subseteq saved
        /\ load.no = started =>
             load.scope = rendered[1] /\ (load.auto <=> rendered[2] = Nothing)
    BY <2>1 DEF LoadOK
  <2>3. <<>> \in Seq(Nat)
    OBVIOUS
  <2>4. /\ next \in LoadRecords /\ next.at = "requests" /\ next.list = <<>>
        /\ next.no = load.no /\ next.scope = load.scope /\ next.auto = load.auto
        /\ next.seen = load.seen
    BY <2>2, <2>3 DEF LoadRecords
  <2>5. loads' = (loads \ {load}) \union {next}
    BY <1>3 DEF EndpointsLoaded, Becomes
  <2>6. LoadOK(next)'
    BY <2>1, <2>2, <2>4 DEF LoadOK
  <2>7. \A other \in loads' : other \in loads \/ LoadOK(other)'
    BY <2>5, <2>6
  <2> QED
    BY <1>0, <2>1, <2>7, LoadsFrame
<1>4. ASSUME \/ \E load \in loads : RequestsLoaded(load) \/ LoadFails(load)
             \/ \E r \in Webhooks : Store(r) \/ Announce(r)
             \/ Refresh \/ SelectEndpoint \/ SelectRequest \/ Submit \/ Post
             \/ Clear \/ ClearExec \/ Cleared \/ ClearFails
             \/ \E l \in Lines : Line(l)
             \/ UNCHANGED vars
      PROVE  saved \subseteq saved' /\ UNCHANGED <<started, rendered>> /\ loads' \subseteq loads
  BY <1>4 DEF RequestsLoaded, LoadFails, Store, Announce, Refresh, RefreshAnswered, Refreshed,
     RefreshFails, SelectEndpoint, SelectRequest, Submit, Post, PostAnnounces, PostDone,
     PostFails, Clear, ClearExec, Cleared, ClearFails, Line, Open, Lose, OnClose, Reconnect,
     Receive, server, page, calls, vars
<1>5. ASSUME saved \subseteq saved', UNCHANGED <<started, rendered>>, loads' \subseteq loads
      PROVE  LoadsInv'
  BY <1>0, <1>5, LoadsFrame
<1> QED
  BY <1>1, <1>2, <1>3, <1>4, <1>5 DEF Next, Load, AtRest

-----------------------------------------------------------------------------
(* The list *)

\* A new webhook comes first in a list that has none twice.
LEMMA PrependedLists ==
  ASSUME NEW S, NEW r \in S, requests \in Seq(S), IsInjective(requests)
  PROVE  /\ Prepended(r) \in Seq(S) /\ IsInjective(Prepended(r))
         /\ Range(requests) \subseteq Range(Prepended(r)) /\ r \in Range(Prepended(r))
<1>1. CASE r \in Range(requests)
  BY <1>1 DEF Prepended
<1>2. CASE r \notin Range(requests)
  <2> DEFINE n == Len(requests)
             t == <<r>> \o requests
  <2>1. Prepended(r) = t
    BY <1>2 DEF Prepended
  <2>2. /\ n \in Nat /\ DOMAIN requests = 1 .. n
        /\ t \in Seq(S) /\ Len(t) = n + 1 /\ DOMAIN t = 1 .. n + 1
        /\ t[1] = r /\ \A i \in 2 .. n + 1 : i - 1 \in 1 .. n /\ t[i] = requests[i - 1]
    OBVIOUS
  <2> HIDE DEF n, t
  <2>3. \A i \in 1 .. n : i + 1 \in 2 .. n + 1 /\ i + 1 - 1 = i
    BY <2>2
  <2>4. \A i \in 1 .. n : i + 1 \in DOMAIN t /\ t[i + 1] = requests[i]
    BY <2>2, <2>3
  <2>5. 1 \in DOMAIN t
    BY <2>2
  <2>6. Range(requests) \subseteq Range(t) /\ r \in Range(t)
    <3>1. ASSUME NEW x \in Range(requests) PROVE x \in Range(t)
      <4>1. PICK i \in 1 .. n : x = requests[i]
        BY <2>2 DEF Range
      <4>2. i + 1 \in DOMAIN t /\ t[i + 1] = x
        BY <2>4, <4>1
      <4> QED
        BY <4>2 DEF Range
    <3>2. r \in Range(t)
      BY <2>2, <2>5 DEF Range
    <3> QED
      BY <3>1, <3>2
  <2>7. \A i \in 2 .. n + 1 : t[i] # r
    BY <1>2, <2>2 DEF Range
  <2>8. ASSUME NEW i \in 1 .. n + 1, NEW j \in 1 .. n + 1, t[i] = t[j] PROVE i = j
    <3>1. (i = 1 \/ i \in 2 .. n + 1) /\ (j = 1 \/ j \in 2 .. n + 1)
      BY <2>2
    <3>2. CASE i = 1 \/ j = 1
      BY <2>2, <2>7, <2>8, <3>1, <3>2
    <3>3. CASE i \in 2 .. n + 1 /\ j \in 2 .. n + 1
      <4>1. i - 1 = j - 1
        BY <2>2, <2>8, <3>3 DEF IsInjective
      <4> QED
        BY <2>2, <4>1
    <3> QED
      BY <3>1, <3>2, <3>3
  <2>9. IsInjective(t)
    BY <2>2, <2>8 DEF IsInjective
  <2> QED
    BY <2>1, <2>2, <2>6, <2>9
<1> QED
  BY <1>1, <1>2

\* A new webhook: the list grows, and something is selected afterwards.
LEMMA NewRequestLists ==
  ASSUME ServerInv, ListInv, NEW r \in told, HandleNewRequest(r),
         UNCHANGED <<saved, started, shown, rendered, read>>
  PROVE  ListInv'
<1>1. r \in saved /\ r # Nothing
  BY DashboardAssumption DEF ServerInv
<1>2. /\ requests' \in Seq(saved) /\ IsInjective(requests')
      /\ Range(requests) \subseteq Range(requests') /\ r \in Range(requests')
  BY <1>1, PrependedLists DEF HandleNewRequest, ListInv
<1>3. selectedRequestId' # Nothing /\ heard' = heard \union {r}
  BY <1>1 DEF HandleNewRequest
<1> QED
  BY <1>2, <1>3 DEF ListInv

\* A load that arrives replaces the list; only the last one makes the list current.
LEMMA RequestsLoadedStep ==
  ASSUME ServerInv, LoadsInv, NEW load \in loads, RequestsLoaded(load)
  PROVE  ListInv'
<1>1. /\ load.list \in Seq(load.seen) /\ IsInjective(load.list)
      /\ load.seen \subseteq saved
      /\ Page(load.seen, load.scope) \subseteq Range(load.list)
      /\ load.no = started =>
           load.scope = rendered[1] /\ (load.auto <=> rendered[2] = Nothing)
  BY DEF RequestsLoaded, LoadsInv, LoadOK
<1>2. /\ requests' = load.list /\ read' = load.seen /\ heard' = {} /\ shown' = load.no
      /\ selectedRequestId' = SelectedBy(load)
      /\ UNCHANGED <<saved, started, rendered>>
  BY DEF RequestsLoaded, server
<1>3. load.list \in Seq(saved)
  BY <1>1, SeqWidens
<1>4. load.list # <<>> => Head(load.list) # Nothing
  <2>1. load.seen \subseteq Webhooks
    BY <1>1 DEF ServerInv
  <2> QED
    BY <1>1, <2>1, HeadTailProperties, DashboardAssumption
<1>5. load.auto /\ selectedRequestId' = Nothing => load.list = <<>>
  BY <1>2, <1>4 DEF SelectedBy
<1>6. shown' = started' => Page(read', rendered'[1]) \subseteq Range(requests')
  BY <1>1, <1>2
<1>7. shown' = started' /\ selectedRequestId' = Nothing /\ rendered'[2] = Nothing
        => requests' = <<>>
  BY <1>1, <1>2, <1>5
<1>8. requests' \in Seq(saved') /\ IsInjective(requests') /\ heard' \subseteq Range(requests')
  BY <1>1, <1>2, <1>3
<1> HIDE DEF RequestsLoaded
<1> QED
  BY <1>6, <1>7, <1>8 DEF ListInv, Page, InScope

LEMMA ListStep == PageInv /\ [Next]_vars => ListInv'
<1> SUFFICES ASSUME PageInv, [Next]_vars PROVE ListInv'
  OBVIOUS
<1>0. ServerInv /\ SelectionInv /\ LoadsInv /\ ListInv /\ NetOK
  BY DEF PageInv
<1>1. ASSUME saved \subseteq saved',
             UNCHANGED <<requests, selectedRequestId, heard, read, shown, started, rendered>>
      PROVE  ListInv'
  <2>1. requests' \in Seq(saved')
    BY <1>0, <1>1, SeqWidens DEF ListInv
  <2> QED
    BY <1>0, <1>1, <2>1 DEF ListInv, Page, InScope
<1>2. CASE Render
  <2>1. /\ started' # shown'
        /\ UNCHANGED <<saved, requests, heard>>
    BY <1>0, <1>2 DEF Render, SelectionInv, server, history
  <2> QED
    BY <1>0, <2>1 DEF ListInv
<1>3. ASSUME NEW load \in loads, RequestsLoaded(load) PROVE ListInv'
  BY <1>0, <1>3, RequestsLoadedStep
<1>4. CASE SelectRequest
  <2>1. /\ selectedRequestId' \in Range(requests)
        /\ UNCHANGED <<saved, requests, heard, read, shown, started, rendered>>
    BY <1>4 DEF SelectRequest, server, calls, history
  <2>2. selectedRequestId' # Nothing
    <3>1. requests \in Seq(saved) /\ saved \subseteq Webhooks
      BY <1>0 DEF ListInv, ServerInv
    <3>2. Range(requests) \subseteq saved
      BY <3>1 DEF Range
    <3> QED
      BY <2>1, <3>1, <3>2, DashboardAssumption
  <2> QED
    BY <1>0, <2>1, <2>2 DEF ListInv, Page, InScope
<1>5. CASE Cleared
  <2>1. /\ requests' = <<>> /\ heard' = {} /\ read' = {}
        /\ UNCHANGED <<saved, shown, started, rendered>>
    BY <1>5 DEF Cleared, server
  <2>2. requests' \in Seq(saved') /\ IsInjective(requests')
    BY <2>1 DEF IsInjective
  <2>3. Page(read', rendered'[1]) = {}
    BY <2>1 DEF Page
  <2> QED
    BY <2>1, <2>2, <2>3 DEF ListInv, Page, InScope
<1>6. ASSUME NEW l \in Lines, Receive(l) PROVE ListInv'
  <2>1. UNCHANGED <<saved, started, shown, rendered, read>>
    BY <1>6 DEF Receive, server
  <2>2. \/ UNCHANGED <<requests, selectedRequestId, heard>>
        \/ inbox[l] # <<>> /\ Head(inbox[l]) # Update /\ HandleNewRequest(Head(inbox[l]))
    <3>1. inbox[l] \in Seq(told \union {Update})
      BY <1>0 DEF NetOK
    <3>2. (\E n \in 1 .. Len(inbox[l]) : TRUE) => inbox[l] # <<>>
      BY <3>1
    <3> QED
      BY <1>6, <3>2 DEF Receive, HandleEndpointUpdate
  <2>3. CASE UNCHANGED <<requests, selectedRequestId, heard>>
    BY <1>1, <2>1, <2>3
  <2>4. CASE inbox[l] # <<>> /\ Head(inbox[l]) # Update /\ HandleNewRequest(Head(inbox[l]))
    <3>1. Head(inbox[l]) \in told
      BY <1>0, <2>4, HeadTailProperties DEF NetOK
    <3> QED
      BY <1>0, <2>1, <2>4, <3>1, NewRequestLists
  <2> QED
    BY <2>2, <2>3, <2>4
<1>7. ASSUME \/ \E load \in loads : LoadAnswered(load) \/ EndpointsLoaded(load) \/ LoadFails(load)
             \/ \E r \in Webhooks : Store(r) \/ Announce(r)
             \/ Refresh \/ SelectEndpoint \/ Submit \/ Post \/ Clear \/ ClearExec \/ ClearFails
             \/ \E l \in Lines : Open(l) \/ Lose(l) \/ OnClose(l) \/ Reconnect(l)
             \/ UNCHANGED vars
      PROVE  /\ saved \subseteq saved'
             /\ UNCHANGED <<requests, selectedRequestId, heard, read, shown, started, rendered>>
  BY <1>7 DEF LoadAnswered, EndpointsLoaded, LoadFails, Store, Announce, Refresh,
     RefreshAnswered, Refreshed, RefreshFails, SelectEndpoint, Submit, Post, PostAnnounces,
     PostDone, PostFails, Clear, ClearExec, ClearFails, Open, Lose, OnClose, Reconnect, server,
     page, calls, history, vars
<1> QED
  BY <1>1, <1>2, <1>3, <1>4, <1>5, <1>6, <1>7 DEF Next, Load, Line, AtRest

-----------------------------------------------------------------------------
(* The endpoints *)

LEMMA RemoveAtTyping ==
  ASSUME NEW S, NEW s \in Seq(S), NEW i \in DOMAIN s
  PROVE  RemoveAt(s, i) \in Seq(S)
<1>1. Len(s) \in Nat /\ DOMAIN s = 1 .. Len(s) /\ \A k \in 1 .. Len(s) : s[k] \in S
  OBVIOUS
<1>2. SubSeq(s, 1, i - 1) \in Seq(S)
  <2>1. 1 \in Int /\ i - 1 \in Int /\ 1 .. i - 1 \subseteq 1 .. Len(s)
    BY <1>1
  <2> QED
    BY <1>1, <2>1, SubSeqProperties
<1>3. SubSeq(s, i + 1, Len(s)) \in Seq(S)
  <2>1. i + 1 \in Int /\ Len(s) \in Int /\ i + 1 .. Len(s) \subseteq 1 .. Len(s)
    BY <1>1
  <2> QED
    BY <1>1, <2>1, SubSeqProperties
<1> QED
  BY <1>2, <1>3, ConcatProperties DEF RemoveAt

\* All answers to the refreshes under way list an endpoint once, the new one too.
LEMMA RefreshesStep ==
  ServerInv /\ EndpointsInv /\ BeforeForm /\ [Next]_vars => refreshes' \in Seq(Listings)
<1> SUFFICES ASSUME ServerInv, EndpointsInv, BeforeForm, [Next]_vars
             PROVE  refreshes' \in Seq(Listings)
  OBVIOUS
<1>0. refreshes \in Seq(Listings)
  BY DEF EndpointsInv
<1>1. ASSUME NEW i \in DOMAIN refreshes, RefreshAnswered(i) PROVE refreshes' \in Seq(Listings)
  <2> PICK q : q = Newest(known)
    OBVIOUS
  <2>1. q \in Listings
    <3>1. known \in SUBSET Nat /\ IsFiniteSet(known) /\ known \subseteq Endpoints
      BY DashboardAssumption, FS_Subset DEF ServerInv
    <3>2. q \in Seq(known) /\ IsInjective(q) /\ Range(q) = known
      BY <3>1, NewestLists
    <3>3. Created \in known
      BY <1>1 DEF BeforeForm, Unheard
    <3> QED
      BY <3>1, <3>2, <3>3, SeqWidens DEF Listings
  <2>2. refreshes' = [refreshes EXCEPT ![i] = q]
    BY <1>1 DEF RefreshAnswered
  <2> QED
    BY <1>0, <2>1, <2>2
<1>2. ASSUME NEW i \in DOMAIN refreshes, refreshes' = RemoveAt(refreshes, i)
      PROVE  refreshes' \in Seq(Listings)
  BY <1>0, <1>2, RemoveAtTyping
<1>3. CASE HandleEndpointUpdate
  <2>1. <<>> \in Listings
    BY DEF Listings, IsInjective
  <2> QED
    BY <1>0, <1>3, <2>1, AppendProperties DEF HandleEndpointUpdate
<1>4. \/ UNCHANGED refreshes \/ HandleEndpointUpdate
      \/ \E i \in DOMAIN refreshes : \/ RefreshAnswered(i)
                                     \/ refreshes' = RemoveAt(refreshes, i)
  BY DEF Next, AtRest, Store, Announce, Render, Load, LoadAnswered, EndpointsLoaded,
     RequestsLoaded, LoadFails, Refresh, Refreshed, RefreshFails, SelectEndpoint, SelectRequest,
     Submit, Post, PostAnnounces, PostDone, PostFails, Clear, ClearExec, Cleared, ClearFails,
     Line, Open, Lose, OnClose, Reconnect, Receive, HandleNewRequest, calls, vars
<1> QED
  BY <1>0, <1>1, <1>2, <1>3, <1>4

\* Who replaces the endpoints shown.
LEMMA EndpointsFrame ==
  [Next]_vars =>
    \/ UNCHANGED endpoints \/ PostDone
    \/ \E load \in loads : EndpointsLoaded(load)
    \/ \E i \in DOMAIN refreshes : Refreshed(i)
BY DEF Next, AtRest, Store, Announce, Render, Load, LoadAnswered, RequestsLoaded, LoadFails,
   Refresh, RefreshAnswered, RefreshFails, SelectEndpoint, SelectRequest, Submit, Post,
   PostAnnounces, PostFails, Clear, ClearExec, Cleared, ClearFails, Line, Open, Lose, OnClose,
   Reconnect, Receive, page, vars

\* What replaces the endpoints shown lists each once; the answer to the POST adds
\* one in front.
LEMMA EndpointsTypeStep ==
  LoadsInv /\ EndpointsInv /\ [Next]_vars => endpoints' \in Seq(Endpoints)
<1> SUFFICES ASSUME LoadsInv, EndpointsInv, [Next]_vars PROVE endpoints' \in Seq(Endpoints)
  OBVIOUS
<1>0. endpoints \in Seq(Endpoints) /\ refreshes \in Seq(Listings)
  BY DEF EndpointsInv
<1>1. ASSUME NEW load \in loads, EndpointsLoaded(load) PROVE endpoints' \in Seq(Endpoints)
  BY <1>1 DEF EndpointsLoaded, LoadsInv, LoadOK
<1>2. ASSUME NEW i \in DOMAIN refreshes, Refreshed(i) PROVE endpoints' \in Seq(Endpoints)
  <2>1. refreshes[i] \in Listings
    BY <1>0
  <2> QED
    BY <1>2, <2>1 DEF Refreshed, Listings
<1>3. CASE PostDone
  <2>1. <<Created>> \in Seq(Endpoints)
    BY DashboardAssumption
  <2> QED
    BY <1>0, <1>3, <2>1, ConcatProperties DEF PostDone, CreatedShown
<1> QED
  BY <1>0, <1>1, <1>2, <1>3, EndpointsFrame

\* An excuse for an endpoint listed twice ends only with a load that lists the
\* endpoints anew.
LEMMA RepeatedStep ==
  ASSUME PageInv, Next, ~twice', ~IsInjective(endpoints')
  PROVE  Repeated'
<1>0. ServerInv /\ SelectionInv /\ LoadsInv /\ EndpointsInv
  BY DEF PageInv
<1>1. ASSUME UNCHANGED <<endpoints, twice>> PROVE Repeated
  BY <1>0, <1>1 DEF EndpointsInv
<1>2. ASSUME known \subseteq known', loads' \subseteq loads,
             UNCHANGED <<endpoints, twice, posting, selectedEndpointId, rendered, started, shown>>
      PROVE  Repeated'
  BY <1>1, <1>2 DEF Repeated
<1>3. CASE Render
  <2>1. /\ Repeated /\ started \in Nat /\ shown \in 0 .. started
        /\ started' = started + 1 /\ shown' = shown /\ UNCHANGED <<posting, known>>
        /\ loads' = loads \union {NewLoad(started')}
    BY <1>0, <1>1, <1>3 DEF Render, SelectionInv, server, history
  <2>2. NewLoad(started').at = "endpoints"
    BY DEF NewLoad
  <2>3. \A load \in loads : load.no # started'
    <3>1. \A load \in loads : load.no \in 1 .. started
      BY <1>0 DEF LoadsInv, LoadOK
    <3> QED
      BY <2>1, <3>1
  <2>4. shown' # started'
    BY <2>1
  <2>5. \A load \in loads' : load.no = started' => load.at = "endpoints"
    BY <2>1, <2>2, <2>3
  <2> QED
    BY <2>1, <2>4, <2>5 DEF Repeated
<1>4. ASSUME NEW load \in loads, LoadAnswered(load) PROVE Repeated'
  <2>1. /\ Repeated
        /\ UNCHANGED <<known, posting, selectedEndpointId, rendered, started, shown>>
    BY <1>1, <1>4 DEF LoadAnswered, server, page, history
  <2>2. CASE load.at = "endpoints"
    <3> PICK next : next = [load EXCEPT !.at = "gotEndpoints", !.list = Newest(known)]
      OBVIOUS
    <3>1. load \in LoadRecords
      BY <1>0 DEF LoadsInv, LoadOK
    <3>2. next.at = "gotEndpoints"
      BY <3>1 DEF LoadRecords
    <3>3. loads' = (loads \ {load}) \union {next}
      BY <1>4, <2>2 DEF LoadAnswered, Becomes
    <3> QED
      BY <2>1, <3>2, <3>3 DEF Repeated
  <2>3. CASE load.at = "requests"
    <3> PICK next : next = [load EXCEPT !.at = "gotRequests", !.list = ListRequests(load.scope),
                                        !.seen = rows]
      OBVIOUS
    <3>1. load \in LoadRecords
      BY <1>0 DEF LoadsInv, LoadOK
    <3>2. next.no = load.no
      BY <3>1 DEF LoadRecords
    <3>3. loads' = (loads \ {load}) \union {next}
      BY <1>4, <2>3 DEF LoadAnswered, Becomes
    <3> QED
      BY <2>1, <2>3, <3>2, <3>3 DEF Repeated
  <2> QED
    BY <1>4, <2>2, <2>3 DEF LoadAnswered
<1>5. ASSUME NEW load \in loads, EndpointsLoaded(load) PROVE Repeated'
  BY <1>0, <1>5 DEF EndpointsLoaded, LoadsInv, LoadOK
<1>6. ASSUME NEW load \in loads, RequestsLoaded(load) PROVE Repeated'
  <2>1. /\ Repeated /\ load.at = "gotRequests" /\ shown' = load.no /\ loads' \subseteq loads
        /\ UNCHANGED <<known, posting, selectedEndpointId, rendered, started>>
    BY <1>1, <1>6 DEF RequestsLoaded, server
  <2> QED
    BY <2>1 DEF Repeated
<1>7. ASSUME NEW i \in DOMAIN refreshes, Refreshed(i) PROVE Repeated'
  <2>1. refreshes[i] \in Listings
    BY <1>0 DEF EndpointsInv
  <2> QED
    BY <1>7, <2>1 DEF Refreshed, Listings
<1>8. CASE SelectEndpoint
  <2>1. /\ Repeated /\ rendered[1] = selectedEndpointId
        /\ UNCHANGED <<known, posting, rendered, started, shown, loads>>
    BY <1>1, <1>8 DEF SelectEndpoint, Acts, Deps, server, calls, history
  <2> QED
    BY <2>1 DEF Repeated
<1>9. CASE Submit
  <2>1. Repeated /\ Created \notin known
    BY <1>1, <1>9 DEF Submit, page, history
  <2> QED
    BY <2>1 DEF Repeated
<1>10. CASE PostAnnounces
  <2>1. Repeated /\ posting = "inserted"
    BY <1>1, <1>10 DEF PostAnnounces, page, history
  <2> QED
    BY <2>1 DEF Repeated
<1>11. CASE PostDone
  <2>1. /\ posting' = "done" /\ Created \in known' /\ selectedEndpointId' = Created
        /\ rendered' = rendered /\ rendered[1] # Created
    BY <1>0, <1>11 DEF PostDone, CreatedShown, ServerInv, server
  <2> QED
    BY <2>1 DEF Repeated
<1>12. ASSUME \/ AtRest \/ \E r \in Webhooks : Store(r) \/ Announce(r)
              \/ \E load \in loads : LoadFails(load)
              \/ \E i \in DOMAIN refreshes : RefreshAnswered(i) \/ RefreshFails(i)
              \/ SelectRequest \/ Clear \/ ClearExec \/ Cleared \/ ClearFails
              \/ \E l \in Lines : Line(l)
       PROVE  /\ known \subseteq known' /\ loads' \subseteq loads
              /\ UNCHANGED <<endpoints, twice, posting, selectedEndpointId, rendered, started,
                             shown>>
  BY <1>12 DEF AtRest, Store, Announce, LoadFails, RefreshAnswered, RefreshFails, SelectRequest,
     Clear, ClearExec, Cleared, ClearFails, Line, Open, Lose, OnClose, Reconnect, Receive,
     server, page, calls, history, vars
<1>13. CASE PostFails
  <2>1. Repeated /\ posting = "answered"
    BY <1>1, <1>13 DEF PostFails, page, history
  <2> QED
    BY <2>1 DEF Repeated
<1> QED
  BY <1>2, <1>3, <1>4, <1>5, <1>6, <1>7, <1>8, <1>9, <1>10, <1>11, <1>12, <1>13
  DEF Next, Load, Refresh, Post

LEMMA EndpointsStep == PageInv /\ [Next]_vars => EndpointsInv'
<1> SUFFICES ASSUME PageInv, [Next]_vars PROVE EndpointsInv'
  OBVIOUS
<1>1. endpoints' \in Seq(Endpoints) /\ refreshes' \in Seq(Listings)
  BY RefreshesStep, EndpointsTypeStep DEF PageInv, CreatedInv
<1>2. CASE Next
  BY <1>1, <1>2, RepeatedStep DEF EndpointsInv
<1>3. CASE UNCHANGED vars
  BY <1>1, <1>3 DEF PageInv, EndpointsInv, Repeated, vars, server, page, calls, history
<1> QED
  BY <1>2, <1>3

-----------------------------------------------------------------------------
(* The endpoint created *)

\* Who moves the selection, the form and the number of loads.
LEMMA SettledFrame ==
  [Next]_vars =>
    \/ Render \/ SelectEndpoint \/ Submit \/ PostAnnounces \/ PostDone \/ PostFails
    \/ UNCHANGED <<known, posting, selectedEndpointId, rendered, started>>
BY DEF Next, AtRest, Store, Announce, Load, LoadAnswered, EndpointsLoaded, RequestsLoaded,
   LoadFails, Refresh, RefreshAnswered, Refreshed, RefreshFails, SelectRequest, Post, Clear,
   ClearExec, Cleared, ClearFails, Line, Open, Lose, OnClose, Reconnect, Receive, server, page,
   calls, vars

\* A load that holds endpoints held them before, or has them from the server now.
LEMMA LoadsFrameOfEndpoints ==
  ASSUME LoadsInv, [Next]_vars, NEW new \in loads', new.at = "gotEndpoints"
  PROVE  \/ new \in loads
         \/ /\ new.list = Newest(known)
            /\ UNCHANGED <<known, posting, selectedEndpointId, rendered, started>>
<1>1. ASSUME NEW load \in loads, LoadAnswered(load), new \notin loads
      PROVE  /\ new.list = Newest(known)
             /\ UNCHANGED <<known, posting, selectedEndpointId, rendered, started>>
  <2>1. load \in LoadRecords
    BY DEF LoadsInv, LoadOK
  <2>2. CASE load.at = "endpoints"
    <3> PICK q : q = Newest(known)
      OBVIOUS
    <3>1. new = [load EXCEPT !.at = "gotEndpoints", !.list = q]
      BY <1>1, <2>2 DEF LoadAnswered, Becomes
    <3> QED
      BY <1>1, <2>1, <3>1 DEF LoadRecords, LoadAnswered, server, page
  <2>3. CASE load.at = "requests"
    <3> PICK q : q = ListRequests(load.scope)
      OBVIOUS
    <3>1. new = [load EXCEPT !.at = "gotRequests", !.list = q, !.seen = rows]
      BY <1>1, <2>3 DEF LoadAnswered, Becomes
    <3> QED
      BY <2>1, <3>1 DEF LoadRecords
  <2> QED
    BY <1>1, <2>2, <2>3 DEF LoadAnswered
<1>2. ASSUME NEW load \in loads, EndpointsLoaded(load), new \notin loads PROVE FALSE
  <2>1. load \in LoadRecords
    BY DEF LoadsInv, LoadOK
  <2>2. new = [load EXCEPT !.at = "requests", !.list = <<>>]
    BY <1>2 DEF EndpointsLoaded, Becomes
  <2> QED
    BY <2>1, <2>2 DEF LoadRecords
<1>3. ASSUME Render, new \notin loads PROVE FALSE
  BY <1>3 DEF Render, NewLoad
<1>4. \/ Render \/ loads' \subseteq loads
      \/ \E load \in loads : LoadAnswered(load) \/ EndpointsLoaded(load)
  BY DEF Next, AtRest, Store, Announce, Load, RequestsLoaded, LoadFails, Refresh,
     RefreshAnswered, Refreshed, RefreshFails, SelectEndpoint, SelectRequest, Submit, Post,
     PostAnnounces, PostDone, PostFails, Clear, ClearExec, Cleared, ClearFails, Line, Open, Lose,
     OnClose, Reconnect, Receive, calls, vars
<1> QED
  BY <1>1, <1>2, <1>3, <1>4

LEMMA NewestKnown == ServerInv => Range(Newest(known)) = known
<1> SUFFICES ASSUME ServerInv PROVE Range(Newest(known)) = known
  OBVIOUS
<1>1. known \in SUBSET Nat /\ IsFiniteSet(known)
  BY DashboardAssumption, FS_Subset DEF ServerInv
<1> QED
  BY <1>1, NewestLists

\* The part of BeforeForm that is about the messages under way.
LEMMA InboxStep ==
  ASSUME ServerInv, NetOK, [Next]_vars, posting = "no",
         \A l \in Lines : inbox[l] \in Seq(Webhooks)
  PROVE  \A l \in Lines : inbox'[l] \in Seq(Webhooks)
<1>0. DOMAIN inbox = Lines
  BY DEF NetOK
<1>1. ASSUME NEW r \in Webhooks, Announce(r), NEW l \in Lines PROVE inbox'[l] \in Seq(Webhooks)
  <2>1. Append(inbox[l], r) \in Seq(Webhooks)
    BY AppendProperties
  <2>2. inbox'[l] = IF line[l] = "open" THEN Append(inbox[l], r) ELSE inbox[l]
    BY <1>1 DEF Announce, Send
  <2> QED
    BY <2>1, <2>2
<1>2. ASSUME NEW k \in Lines, Lose(k) \/ Receive(k), NEW l \in Lines
      PROVE  inbox'[l] \in Seq(Webhooks)
  <2>1. PICK m, n \in Int : /\ inbox' = [inbox EXCEPT ![k] = SubSeq(@, m, n)]
                            /\ m .. n \subseteq 1 .. Len(inbox[k])
    <3>1. Len(inbox[k]) \in Nat
      BY LenProperties
    <3>2. ASSUME Receive(k)
          PROVE  \E n \in 1 .. Len(inbox[k]) :
                   inbox' = [inbox EXCEPT ![k] = SubSeq(@, n + 1, Len(@))]
      BY <3>2 DEF Receive
    <3>3. ASSUME Lose(k)
          PROVE  \E n \in 0 .. Len(inbox[k]) : inbox' = [inbox EXCEPT ![k] = SubSeq(@, 1, n)]
      <4>1. PICK n \in 0 .. IF line[k] = "open" THEN Len(inbox[k]) ELSE 0 :
              inbox' = [inbox EXCEPT ![k] = SubSeq(@, 1, n)]
        BY <3>3 DEF Lose
      <4>2. n \in 0 .. Len(inbox[k])
        BY <3>1
      <4> QED
        BY <4>1, <4>2
    <3>4. CASE Receive(k)
      <4>1. PICK n \in 1 .. Len(inbox[k]) :
              inbox' = [inbox EXCEPT ![k] = SubSeq(@, n + 1, Len(inbox[k]))]
        BY <1>0, <3>2, <3>4
      <4>2. /\ n + 1 \in Int /\ Len(inbox[k]) \in Int
            /\ n + 1 .. Len(inbox[k]) \subseteq 1 .. Len(inbox[k])
        BY <3>1
      <4> QED
        BY <4>1, <4>2
    <3>5. CASE Lose(k)
      <4>1. PICK n \in 0 .. Len(inbox[k]) : inbox' = [inbox EXCEPT ![k] = SubSeq(@, 1, n)]
        BY <3>3, <3>5
      <4>2. 1 \in Int /\ n \in Int /\ 1 .. n \subseteq 1 .. Len(inbox[k])
        BY <3>1
      <4> QED
        BY <4>1, <4>2
    <3> QED
      BY <1>2, <3>4, <3>5
  <2>2. SubSeq(inbox[k], m, n) \in Seq(Webhooks)
    <3>1. \A i \in m .. n : inbox[k][i] \in Webhooks
      BY <2>1
    <3> QED
      BY <3>1, SubSeqProperties
  <2> PICK q : q = SubSeq(inbox[k], m, n)
    OBVIOUS
  <2>3. inbox' = [inbox EXCEPT ![k] = q]
    BY <2>1
  <2> QED
    BY <1>0, <2>2, <2>3
<1>3. \/ UNCHANGED inbox
      \/ \E r \in Webhooks : Announce(r)
      \/ \E l \in Lines : Lose(l) \/ Receive(l)
  BY DEF Next, AtRest, Store, Render, Load, LoadAnswered, EndpointsLoaded, RequestsLoaded,
     LoadFails, Refresh, RefreshAnswered, Refreshed, RefreshFails, SelectEndpoint, SelectRequest,
     Submit, Post, PostAnnounces, PostDone, PostFails, Clear, ClearExec, Cleared, ClearFails,
     Line, Open, OnClose, Reconnect, net, vars
<1> QED
  BY <1>1, <1>2, <1>3

\* Without the form there is no event, so no refresh.
LEMMA NoRefreshStep ==
  ASSUME [Next]_vars, refreshes = <<>>, \A l \in Lines : inbox[l] \in Seq(Webhooks)
  PROVE  refreshes' = <<>>
<1>1. ASSUME NEW l \in Lines, Receive(l) PROVE UNCHANGED refreshes
  <2>1. (\E n \in 1 .. Len(inbox[l]) : TRUE) => inbox[l] # <<>>
    OBVIOUS
  <2>2. inbox[l] # <<>> => Head(inbox[l]) # Update
    <3>1. inbox[l] # <<>> => Head(inbox[l]) \in Webhooks
      BY HeadTailProperties
    <3> QED
      BY <3>1, DashboardAssumption
  <2> QED
    BY <1>1, <2>1, <2>2 DEF Receive, HandleNewRequest
<1>2. DOMAIN refreshes = {}
  OBVIOUS
<1>3. UNCHANGED refreshes \/ Refresh \/ \E l \in Lines : Receive(l)
  BY DEF Next, AtRest, Store, Announce, Render, Load, LoadAnswered, EndpointsLoaded,
     RequestsLoaded, LoadFails, SelectEndpoint, SelectRequest, Submit, Post, PostAnnounces,
     PostDone, PostFails, Clear, ClearExec, Cleared, ClearFails, Line, Open, Lose, OnClose,
     Reconnect, calls, vars
<1> QED
  BY <1>1, <1>2, <1>3 DEF Refresh

LEMMA BeforeFormStep == PageInv /\ [Next]_vars => BeforeForm'
<1> SUFFICES ASSUME PageInv, [Next]_vars, Created \notin known' PROVE Unheard'
  BY DEF BeforeForm
<1>0. ServerInv /\ LoadsInv /\ NetOK /\ BeforeForm
  BY DEF PageInv, CreatedInv
<1>1. Created \notin known /\ Unheard /\ posting = "no" /\ ~Submit
  <2>1. ~Submit
    BY DEF Submit
  <2>2. Render \/ SelectEndpoint \/ PostAnnounces \/ PostDone \/ PostFails => UNCHANGED known
    BY DEF Render, SelectEndpoint, PostAnnounces, PostDone, PostFails, server
  <2>3. Created \notin known
    BY <2>1, <2>2, SettledFrame
  <2> QED
    BY <1>0, <2>1, <2>3 DEF BeforeForm, ServerInv
<1>2. ~PostDone /\ ~PostAnnounces /\ ~PostFails /\ DOMAIN refreshes = {}
  BY <1>1 DEF PostDone, PostAnnounces, PostFails, Unheard
<1>3. Created \notin Range(endpoints')
  <2>1. ASSUME NEW load \in loads, EndpointsLoaded(load) PROVE Created \notin Range(endpoints')
    BY <1>1, <2>1 DEF EndpointsLoaded, Unheard
  <2> QED
    BY <1>1, <1>2, <2>1, EndpointsFrame DEF Unheard
<1>4. Created \notin {selectedEndpointId', rendered'[1]}
  <2>1. CASE Render
    BY <1>1, <2>1 DEF Render, Deps, Unheard
  <2>2. CASE SelectEndpoint
    BY <1>1, <2>2, DashboardAssumption DEF SelectEndpoint, Unheard
  <2> QED
    BY <1>1, <1>2, <2>1, <2>2, SettledFrame DEF Unheard
<1>5. ASSUME NEW new \in loads', new.at = "gotEndpoints" PROVE Created \notin Range(new.list)
  BY <1>0, <1>1, <1>5, LoadsFrameOfEndpoints, NewestKnown DEF Unheard
<1>6. refreshes' = <<>> /\ \A l \in Lines : inbox'[l] \in Seq(Webhooks)
  BY <1>0, <1>1, NoRefreshStep, InboxStep DEF Unheard
<1> QED
  BY <1>3, <1>4, <1>5, <1>6 DEF Unheard

LEMMA LastListsStep == PageInv /\ [Next]_vars => LastLists'
<1> SUFFICES ASSUME PageInv, [Next]_vars, Created \in known', Settled' \/ rendered'[1] = Created,
                    NEW new \in loads', new.no = started', new.at = "gotEndpoints"
             PROVE  Created \in Range(new.list)
  BY DEF LastLists
<1>0. ServerInv /\ SelectionInv /\ LoadsInv /\ BeforeForm /\ LastLists
  BY DEF PageInv, CreatedInv
<1>1. CASE new \notin loads
  <2>1. new.list = Newest(known) /\ known' = known
    BY <1>0, <1>1, LoadsFrameOfEndpoints
  <2> QED
    BY <1>0, <2>1, NewestKnown
<1>2. CASE new \in loads
  <2>1. ~Render
    <3>1. new.no \in 1 .. started /\ started \in Nat
      BY <1>0, <1>2 DEF LoadsInv, LoadOK, SelectionInv
    <3>2. new.no # started + 1
      BY <3>1
    <3> QED
      BY <3>2 DEF Render
  <2>2. Created \in known /\ (Settled \/ rendered[1] = Created) /\ new.no = started
    <3>1. CASE SelectEndpoint
      BY <3>1 DEF SelectEndpoint, Acts, Deps, Settled, server, calls
    <3>2. CASE Submit
      <4>1. /\ rendered' = rendered /\ selectedEndpointId' = selectedEndpointId
            /\ Created \notin known /\ posting' = "inserted"
        BY <3>2 DEF Submit, page
      <4>2. Created # rendered[1]
        BY <1>0, <4>1 DEF BeforeForm, Unheard
      <4> QED
        BY <4>1, <4>2 DEF Settled
    <3>3. CASE PostAnnounces \/ PostFails
      BY <3>3 DEF PostAnnounces, PostFails, Settled, server, page
    <3>4. CASE PostDone
      BY <3>4 DEF PostDone, CreatedShown, Settled, server
    <3>5. CASE UNCHANGED <<known, posting, selectedEndpointId, rendered, started>>
      BY <3>5 DEF Settled
    <3> QED
      BY <2>1, <3>1, <3>2, <3>3, <3>4, <3>5, SettledFrame
  <2> QED
    BY <1>0, <1>2, <2>2 DEF LastLists
<1> QED
  BY <1>1, <1>2

LEMMA ListedOnPageStep == PageInv /\ [Next]_vars => ListedOnPage'
<1> SUFFICES ASSUME PageInv, [Next]_vars, Settled', listed' = started'
             PROVE  Created \in Range(endpoints')
  BY DEF ListedOnPage
<1>0. /\ ServerInv /\ SelectionInv /\ LoadsInv /\ EndpointsInv /\ LastLists /\ ListedOnPage
  BY DEF PageInv, CreatedInv
<1>1. ASSUME NEW load \in loads, EndpointsLoaded(load) PROVE Created \in Range(endpoints')
  <2>1. /\ endpoints' = load.list /\ load.at = "gotEndpoints" /\ listed' = load.no
        /\ UNCHANGED <<known, posting, selectedEndpointId, rendered, started>>
    BY <1>1 DEF EndpointsLoaded, server
  <2>2. Settled /\ load.no = started
    BY <2>1 DEF Settled
  <2>3. Created \in known
    BY <1>0, <2>2 DEF Settled, ServerInv
  <2> QED
    BY <1>0, <2>1, <2>2, <2>3 DEF LastLists
<1>2. ASSUME NEW i \in DOMAIN refreshes, Refreshed(i) PROVE Created \in Range(endpoints')
  <2>1. refreshes[i] \in Listings
    BY <1>0 DEF EndpointsInv
  <2> QED
    BY <1>2, <2>1 DEF Refreshed, Listings
<1>3. CASE PostDone
  <2>1. endpoints' = <<Created>> \o endpoints /\ endpoints \in Seq(Endpoints)
    BY <1>0, <1>3 DEF PostDone, CreatedShown, EndpointsInv
  <2>2. 1 \in DOMAIN endpoints' /\ endpoints'[1] = Created
    BY <2>1
  <2> QED
    BY <2>2 DEF Range
<1>4. CASE UNCHANGED endpoints /\ ~PostDone /\ ~ \E load \in loads : EndpointsLoaded(load)
  <2>1. UNCHANGED listed
    BY <1>4 DEF Next, AtRest, Store, Announce, Render, Load, LoadAnswered, RequestsLoaded,
       LoadFails, Refresh, RefreshAnswered, Refreshed, RefreshFails, SelectEndpoint,
       SelectRequest, Submit, Post, PostAnnounces, PostFails, Clear, ClearExec, Cleared,
       ClearFails, Line, Open, Lose, OnClose, Reconnect, Receive, calls, vars
  <2>2. ~Render
    BY <1>0, <2>1 DEF Render, SelectionInv
  <2>3. ~SelectEndpoint
    BY DEF SelectEndpoint, Acts, Deps, Settled
  <2>4. ~Submit /\ ~PostAnnounces /\ ~PostFails
    BY DEF Submit, PostAnnounces, PostFails, Settled
  <2>5. UNCHANGED <<posting, selectedEndpointId, rendered, started>>
    BY <1>4, <2>2, <2>3, <2>4, SettledFrame
  <2> QED
    BY <1>0, <1>4, <2>1, <2>5 DEF ListedOnPage, Settled
<1> QED
  BY <1>1, <1>2, <1>3, <1>4, EndpointsFrame

-----------------------------------------------------------------------------
(* The theorems *)

LEMMA PageInitially == Init => PageInv
<1> SUFFICES ASSUME Init PROVE PageInv
  OBVIOUS
<1>0. /\ rows = {} /\ saved = {} /\ told = {} /\ known = Endpoints \ {Created}
      /\ endpoints = <<>> /\ requests = <<>> /\ posting = "no" /\ refreshes = <<>>
      /\ selectedEndpointId = All /\ selectedRequestId = Nothing /\ rendered = <<All, Nothing>>
      /\ started \in {1, 2} /\ shown = 0 /\ listed = 0 /\ read = {} /\ heard = {}
      /\ loads = {NewLoad(n) : n \in 1 .. started}
  BY DEF Init, Deps
<1>1. ServerInv
  BY <1>0, FS_EmptySet DEF ServerInv
<1>2. SelectionInv
  BY <1>0 DEF SelectionInv, Selections
<1>3. LoadsInv
  <2>1. ASSUME NEW n \in 1 .. started PROVE LoadOK(NewLoad(n))
    <3> PICK new : new = [no |-> n, scope |-> All, auto |-> TRUE,
                          at |-> "endpoints", list |-> <<>>, seen |-> {}]
      OBVIOUS
    <3>1. NewLoad(n) = new
      BY <1>0 DEF NewLoad
    <3>2. <<>> \in Seq(Nat) /\ n \in Nat /\ {} \in SUBSET Webhooks
      BY <1>0
    <3>3. /\ new \in LoadRecords /\ new.no = n /\ new.scope = All /\ new.auto = TRUE
          /\ new.at = "endpoints" /\ new.list = <<>> /\ new.seen = {}
      BY <3>2 DEF LoadRecords
    <3>4. LoadOK(new)
      BY <1>0, <3>3 DEF LoadOK
    <3> QED
      BY <3>1, <3>4
  <2> QED
    BY <1>0, <2>1 DEF LoadsInv
<1>4. ListInv
  BY <1>0 DEF ListInv, IsInjective
<1>5. EndpointsInv
  BY <1>0 DEF EndpointsInv, IsInjective
<1>6. NetOK
  <2>1. /\ line \in {<<"connecting", "gone">>, <<"lost", "connecting">>}
        /\ timer = NoTimer /\ inbox = [l \in Lines |-> <<>>]
    BY DEF Init
  <2>2. line \in [Lines -> {"connecting", "open", "lost", "waiting", "gone"}]
    BY <2>1 DEF Lines
  <2> QED
    BY <2>1, <2>2 DEF NetOK
<1>7. CreatedInv
  <2>1. Unheard
    <3>1. Range(<<>>) = {} /\ Created # All
      BY DashboardAssumption DEF Range
    <3>2. \A load \in loads : load.at = "endpoints"
      BY <1>0 DEF NewLoad
    <3>3. \A l \in Lines : inbox[l] = <<>>
      BY DEF Init
    <3>4. refreshes = <<>> /\ Created \notin Range(endpoints)
          /\ Created \notin {selectedEndpointId, rendered[1]}
      BY <1>0, <3>1
    <3>5. \A l \in Lines : inbox[l] \in Seq(Webhooks)
      <4>1. <<>> \in Seq(Webhooks)
        OBVIOUS
      <4> QED
        BY <3>3, <4>1
    <3>6. \A load \in loads : load.at # "gotEndpoints"
      BY <3>2
    <3> QED
      BY <3>4, <3>5, <3>6 DEF Unheard
  <2> QED
    BY <1>0, <2>1 DEF CreatedInv, BeforeForm, LastLists, ListedOnPage, Settled
<1> QED
  BY <1>1, <1>2, <1>3, <1>4, <1>5, <1>6, <1>7 DEF PageInv

\* The inductive invariant of the page: what the server has, the selections, the
\* loads under way, the two lists and the sockets.
THEOREM PageInvariant == Spec => []PageInv
<1>1. PageInv /\ [Next]_vars => PageInv'
  <2>1. PageInv /\ [Next]_vars => ServerInv' /\ NetOK'
    BY ServerStep, NetStep DEF PageInv
  <2>2. PageInv /\ [Next]_vars => CreatedInv'
    BY BeforeFormStep, LastListsStep, ListedOnPageStep DEF CreatedInv
  <2> QED
    BY <2>1, <2>2, SelectionStep, LoadsStep, ListStep, EndpointsStep DEF PageInv
<1> QED
  BY PageInitially, <1>1, PTL DEF Spec

\* Typing: lists are no longer than what was asked for, nothing is announced or
\* listed before it is stored, and no message waits on a line without a socket.
THEOREM Typing == Spec => []TypeOK
<1>1. ASSUME PageInv PROVE TypeOK
  <2>1. LoadsOK
    <3>1. Limit \in Nat \ {0} /\ Cardinality(Endpoints) \in Nat
      BY DashboardAssumption, FS_CardinalityType
    <3>2. ASSUME NEW load \in loads
          PROVE  /\ load.no \in 1 .. started
                 /\ load.scope \in Endpoints \union {All} /\ load.auto \in BOOLEAN
                 /\ load.at \in {"endpoints", "gotEndpoints", "requests", "gotRequests"}
                 /\ load.seen \subseteq saved
      BY <1>1 DEF PageInv, LoadsInv, LoadOK, LoadRecords
    <3>3. ASSUME NEW load \in loads, load.at \in {"endpoints", "requests"}
          PROVE  /\ load.list \in Seq(Webhooks)
                 /\ Len(load.list) <= Limit
      <4>1. load.list = <<>>
        BY <1>1, <3>3 DEF PageInv, LoadsInv, LoadOK
      <4> QED
        BY <3>1, <4>1
    <3>4. ASSUME NEW load \in loads, load.at = "gotEndpoints"
          PROVE  load.list \in Seq(Endpoints) /\ Len(load.list) <= Cardinality(Endpoints)
      BY <1>1, <3>4 DEF PageInv, LoadsInv, LoadOK
    <3>5. ASSUME NEW load \in loads, load.at = "gotRequests"
          PROVE  load.list \in Seq(Webhooks) /\ Len(load.list) <= Limit
      <4>1. load.list \in Seq(load.seen) /\ Len(load.list) <= Limit
        BY <1>1, <3>5 DEF PageInv, LoadsInv, LoadOK
      <4>2. load.seen \subseteq Webhooks
        BY <1>1, <3>2 DEF PageInv, ServerInv
      <4> QED
        BY <4>1, <4>2, SeqWidens
    <3> QED
      BY <3>2, <3>3, <3>4, <3>5 DEF LoadsOK
  <2>2. refreshes \in Seq(Seq(Endpoints))
    <3>1. Listings \subseteq Seq(Endpoints)
      BY DEF Listings
    <3> QED
      BY <1>1, <3>1, SeqWidens DEF PageInv, EndpointsInv
  <2>3. {Deps, rendered} \subseteq Selections
    BY <1>1 DEF PageInv, SelectionInv, Deps, Selections
  <2>4. /\ endpoints \in Seq(Endpoints) /\ requests \in Seq(saved) /\ NetOK
        /\ {shown, listed} \subseteq 0 .. started
    BY <1>1 DEF PageInv, EndpointsInv, ListInv, SelectionInv
  <2>5. /\ rows \subseteq saved /\ told \subseteq saved /\ saved \subseteq Webhooks
        /\ known \subseteq Endpoints /\ posting \in {"no", "inserted", "answered", "done"}
    BY <1>1 DEF PageInv, ServerInv
  <2> QED
    BY <2>1, <2>2, <2>3, <2>4, <2>5 DEF TypeOK
<1> QED
  BY PageInvariant, <1>1, PTL

\* No webhook is listed twice, over however many sockets it comes.
THEOREM RowsAreUnique == Spec => []NoDuplicateRows
<1>1. PageInv => NoDuplicateRows
  BY DEF PageInv, ListInv, NoDuplicateRows
<1> QED
  BY PageInvariant, <1>1, PTL

\* A page at rest, with the answer to its last load, shows the page of requests that
\* this answer was read with and every webhook it has heard of since.
THEOREM QuietListIsComplete == Spec => []QuietListComplete
<1>1. PageInv => QuietListComplete
  <2> SUFFICES ASSUME PageInv, Quiet PROVE FirstPage \union heard \subseteq Range(requests)
    BY DEF QuietListComplete
  <2>1. /\ heard \subseteq Range(requests)
        /\ shown = started => Page(read, rendered[1]) \subseteq Range(requests)
    BY DEF PageInv, ListInv
  <2>2. shown = started /\ rendered[1] = selectedEndpointId
    BY DEF Quiet, Deps
  <2>3. FirstPage = Page(read, selectedEndpointId)
    BY DEF FirstPage, Page
  <2> QED
    BY <2>1, <2>2, <2>3
<1> QED
  BY PageInvariant, <1>1, PTL

\* A page at rest that lists a webhook has a selection.
THEOREM SomethingIsSelected == Spec => []SomethingSelected
<1>1. PageInv => SomethingSelected
  <2> SUFFICES ASSUME PageInv, Quiet, selectedRequestId = Nothing PROVE requests = <<>>
    BY DEF SomethingSelected
  <2>1. shown = started /\ rendered[2] = Nothing
    BY DEF Quiet, Deps
  <2> QED
    BY <2>1 DEF PageInv, ListInv
<1> QED
  BY PageInvariant, <1>1, PTL

\* When the page is at rest, an endpoint created here is listed unless an older load
\* has replaced the endpoints of the last one, and no endpoint is listed twice unless
\* the new one was selected before the answer to the POST came.
THEOREM CreatedIsListedOnce == Spec => []CreatedListedOnce
<1>1. PageInv => CreatedListedOnce
  <2> SUFFICES ASSUME PageInv, Quiet
               PROVE  /\ ~twice => IsInjective(endpoints)
                      /\ posting = "done" /\ listed = started => Created \in Range(endpoints)
    BY DEF CreatedListedOnce
  <2>1. shown = started /\ rendered[1] = selectedEndpointId
    BY DEF Quiet, Deps
  <2>2. ~Repeated
    BY <2>1 DEF Repeated
  <2>3. ~twice => IsInjective(endpoints)
    BY <2>2 DEF PageInv, EndpointsInv
  <2>4. posting = "done" /\ listed = started => Created \in Range(endpoints)
    BY <2>1 DEF PageInv, CreatedInv, ListedOnPage, Settled
  <2> QED
    BY <2>3, <2>4
<1> QED
  BY PageInvariant, <1>1, PTL

\* The page always has a socket, or a timer that will open one.
THEOREM NeverWithoutALine == Spec => []NeverSilent
<1> DEFINE Connected == NeverSilent /\ NetOK
<1>1. Init => Connected
  <2>1. Init => NeverSilent
    BY DEF Init, NeverSilent, Lines
  <2> QED
    BY <2>1, PageInitially DEF PageInv
<1>2. NetOK /\ NeverSilent /\ [Next]_vars => NeverSilent'
  <2> SUFFICES ASSUME NetOK, NeverSilent, [Next]_vars PROVE NeverSilent'
    OBVIOUS
  <2>1. DOMAIN line = Lines
    BY DEF NetOK
  <2>2. ASSUME NEW l \in Lines, Open(l) PROVE NeverSilent'
    <3>1. line'[l] = "open"
      BY <2>2 DEF Open
    <3> QED
      BY <3>1 DEF NeverSilent
  <2>3. ASSUME NEW l \in Lines, Lose(l) \/ OnClose(l) \/ Reconnect(l) PROVE NeverSilent'
    <3>1. line'[l] \in {"lost", "waiting", "connecting"}
      BY <2>1, <2>3 DEF Lose, OnClose, Arm, Reconnect
    <3> QED
      BY <3>1 DEF NeverSilent
  <2>4. ASSUME \/ \E r \in Webhooks : Store(r) \/ Announce(r)
               \/ Load \/ Refresh \/ Render \/ SelectEndpoint \/ SelectRequest \/ Submit
               \/ Post \/ Clear \/ ClearExec \/ Cleared \/ ClearFails
               \/ \E l \in Lines : Receive(l)
               \/ UNCHANGED vars
        PROVE  UNCHANGED line
    BY <2>4 DEF Store, Announce, Load, LoadAnswered, EndpointsLoaded, RequestsLoaded, LoadFails,
       Refresh, RefreshAnswered, Refreshed, RefreshFails, Render, SelectEndpoint, SelectRequest,
       Submit, Post, PostAnnounces, PostDone, PostFails, Clear, ClearExec, Cleared, ClearFails,
       Receive, net, vars
  <2> QED
    BY <2>2, <2>3, <2>4 DEF Next, Line, AtRest, NeverSilent
<1>3. Connected /\ [Next]_vars => Connected'
  BY <1>2, NetStep
<1> QED
  BY <1>1, <1>3, PTL DEF Spec

=============================================================================
