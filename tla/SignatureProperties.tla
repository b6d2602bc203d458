------------------------- MODULE SignatureProperties -------------------------
(***************************************************************************)
(* What the stored verdict says about a delivery, over bounded inputs.     *)
(***************************************************************************)
EXTENDS Signature

CONSTANTS
  Secrets,       \* shared secrets, none of them empty
  Bodies,        \* bodies as they are sent
  Stamps,        \* time stamps, in seconds
  Instants       \* readings of the clock

ASSUME InputAssumption ==
  /\ NoSecret \notin Secrets
  /\ Bodies \subseteq Seq(Nat)
  /\ Stamps \subseteq Int /\ Instants \subseteq Int

Providers == {"stripe", "Stripe", "github", "shopify", "slack", "custom", "other"}

\* Bodies that are read to their end.
Whole == {body \in Bodies : Len(body) <= MaxBody}

\* Within five minutes of its time stamp, before or after.
Fresh(stamp, now) == now - stamp * Second \in -(Tolerance * Second) .. Tolerance * Second

\* How each provider signs (README.md:160); external.  Stripe signs with
\* both secrets while one of them is being replaced.
StripeHeaders(secrets, body, stamp) ==
  LET t == Digits(stamp)
  IN  Headers("Stripe-Signature",
              [i \in 1 .. Len(secrets) + 1 |->
                 IF i = 1 THEN Part("t", t)
                 ELSE Part("v1", Hex(Mac(secrets[i - 1], "t.body", t, body)))])

SlackHeaders(secret, body, stamp) ==
  [n \in {"X-Slack-Signature", "X-Slack-Request-Timestamp"} |->
     IF n = "X-Slack-Signature"
       THEN <<Part("v0=", Hex(Mac(secret, "v0:t:body", Digits(stamp), body)))>>
       ELSE <<Part("", Digits(stamp))>>]

Delivery(provider, secret, body, stamp) ==
  LET p == ToLower(provider)
  IN  IF p = "stripe" THEN StripeHeaders(<<secret>>, body, stamp)
      ELSE IF p = "github" THEN
        Headers("X-Hub-Signature-256", <<Part("sha256=", Hex(BodyMac(secret, body)))>>)
      ELSE IF p = "shopify" THEN
        Headers("X-Shopify-Hmac-Sha256", <<Part("", Base64(BodyMac(secret, body)))>>)
      ELSE IF p = "slack" THEN SlackHeaders(secret, body, stamp)
      ELSE Headers("X-Webhook-Signature", <<Part("", Hex(BodyMac(secret, body)))>>)

-----------------------------------------------------------------------------

\* What a provider signed with the endpoint's secret is found valid, however the
\* endpoint spells the provider, also while Stripe replaces the secret, if the
\* body is within the limit and a Stripe delivery within the tolerance (hmac.go:32).
GenuineVerdict ==
  \A secret, other \in Secrets, body \in Whole, stamp \in Stamps, now \in Instants :
    Fresh(stamp, now) =>
      /\ \A p \in Providers :
           Verdict(p, secret, body, Delivery(p, secret, body, stamp), now) = "true"
      /\ \A signers \in {<<secret, other>>, <<other, secret>>} :
           Verdict("stripe", secret, body, StripeHeaders(signers, body, stamp), now) = "true"

\* What is found valid was signed with the endpoint's secret, in the form of its
\* provider, for exactly the body that is stored; a Stripe delivery is within the
\* tolerance too (hmac.go:32, ingest_handler.go:71).  What was signed is the body
\* that was sent only if that is within the limit: of a longer one the verdict
\* speaks of the beginning that is stored (ingest_handler.go:50).
ValidVerdict ==
  \A p, q \in Providers, secret, key \in Secrets, body, signed \in Bodies,
     stamp \in Stamps, now \in Instants :
    Verdict(p, secret, body, Delivery(q, key, signed, stamp), now) = "true" =>
      /\ key = secret /\ signed = ReadBody(body)
      /\ body \in Whole => signed = body
      /\ ToLower(q) = ToLower(p) \/ {p, q} = {"custom", "other"}
      /\ ToLower(p) = "stripe" => Fresh(stamp, now)

\* A Stripe delivery that was stamped when it was sent, with the second its sender's
\* clock showed, is valid on arrival if it took at most one second less than the
\* tolerance, and invalid if it took longer than the tolerance, whatever
\* fraction of a second the stamp has lost (hmac.go:122).
WindowVerdict ==
  \A secret \in Secrets, body \in Whole, sent, now \in Instants :
    LET valid == Verdict("stripe", secret, body,
                         StripeHeaders(<<secret>>, body, Unix(sent)), now) = "true"
    IN  sent <= now =>
          /\ now - sent <= (Tolerance - 1) * Second => valid
          /\ now - sent > Tolerance * Second => ~valid

\* A sample that the CLI sends is found valid by an endpoint of that provider
\* with that secret, for the providers the command names (main.go:155), within
\* the tolerance of Stripe (generator.go:22).
SampleVerdict ==
  \A p \in {"stripe", "github", "custom"}, secret \in Secrets, body \in Whole,
     sent, now \in Instants :
    sent <= now /\ now - sent <= (Tolerance - 1) * Second =>
      Verdict(p, secret, body, Sample(p, secret, body, sent), now) = "true"

=============================================================================
