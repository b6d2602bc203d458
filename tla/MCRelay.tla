------------------------------- MODULE MCRelay -------------------------------
(* One agent, its successive connections to one slug, two webhooks. *)
EXTENDS RelayProperties, TLC

CONSTANTS a1, a2, shop, star, r1, r2

MCSlugOf  == [c \in Tunnels |-> shop]
MCSlugFor == [r \in Requests |-> shop]

\* No step tells the connections or the webhooks apart.
MCSymmetry == Permutations({a1, a2}) \union Permutations({r1, r2})

=============================================================================
