----------------------------- MODULE MCDashboard -----------------------------
(* Two webhooks for an endpoint; the page may create a second endpoint. *)
EXTENDS DashboardProperties

MCEndpointOf == [r \in Webhooks |-> 1]

\* What the user does and what fails is there for a page mounted once; both
\* pages lose a connection, the first also while it reconnects.
MCBudget == <<2, 0>>
MCBreaks == <<2, 1>>

=============================================================================
