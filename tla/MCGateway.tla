------------------------------ MODULE MCGateway ------------------------------
(***************************************************************************)
(* Two creations of one slug, a deletion of the first, a webhook for that  *)
(* slug, a purge and a replay of the webhook.                              *)
(***************************************************************************)
EXTENDS Intake, TLC

CONSTANTS c1, c2, d1, i1, purge, p1, shop, default, k1, k2

MCSlugOf   == (Default :> default) @@ (c1 :> shop) @@ (c2 :> shop)
MCSlugIn   == i1 :> shop
MCReplayed == p1 :> i1

\* No step tells the two creations apart: one slug, both with a forward URL.
MCSymmetry == Permutations({c1, c2})

\* Once the process has ended MaxCrashes times, no power cut reads disk any more.
MCView ==
  <<endpoints, requests, logs, committed, lost, found, stage, answer, events, server,
    crashes, IF crashes < MaxCrashes THEN disk ELSE Stored>>

\* Two seconds of tolerance, three instants a second; a body of two chunks is cut.
MCBodies   == {<<>>, <<1>>, <<2>>, <<1, 2>>}
MCStamps   == -1 .. 3
MCInstants == 0 .. 9

=============================================================================
