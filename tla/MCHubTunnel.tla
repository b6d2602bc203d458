----------------------------- MODULE MCHubTunnel -----------------------------
(* Agents on one slug and on "*", webhooks of that slug; no dashboards. *)
EXTENDS HubProperties, TLC

CONSTANTS a1, a2, w, shop, star, r1, r2

MCSlugFor == (r1 :> shop) @@ (r2 :> shop)

MCOneAgent == a1 :> shop
MCSameSlug == (a1 :> shop) @@ (a2 :> shop)
MCSlugOf   == MCSameSlug @@ (w :> star)

\* The agents of one slug and the webhooks are interchangeable.
MCSymmetry == Permutations({a1, a2}) \union Permutations({r1, r2})

=============================================================================
