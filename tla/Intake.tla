-------------------------------- MODULE Intake --------------------------------
(***************************************************************************)
(* Ingestion as a whole: what is stored with a webhook, whatever delivery  *)
(* it came from and whatever the settings of its endpoint are.  Gateway    *)
(* leaves the delivery open, so a stored webhook may have come from any.   *)
(***************************************************************************)
EXTENDS GatewayProperties, SignatureProperties

Stores == requests # {}

\* A webhook that its provider signed with the endpoint's secret is stored as
\* valid (hmac.go:32, ingest_handler.go:71).
GenuineIsValid == Stores => GenuineVerdict

\* A webhook that is stored as valid was signed with the secret of its endpoint,
\* in the form of its provider, for the body that is stored: not for another one,
\* nor for more than the limit let through (ingest_handler.go:50, 71).
ValidIsSigned == Stores => ValidVerdict

\* The five minutes of Stripe hold to within one second from the sending of a
\* webhook to its ingestion (hmac.go:122).
WindowFromSending == Stores => WindowVerdict

\* A sample that the CLI signed is stored as valid (generator.go:22).
SamplesVerify == Stores => SampleVerdict

=============================================================================
