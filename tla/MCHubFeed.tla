------------------------------ MODULE MCHubFeed ------------------------------
(* Two dashboards, no agents. *)
EXTENDS HubProperties, TLC

CONSTANTS d1, d2, star

MCNoFunction == <<>>

=============================================================================
