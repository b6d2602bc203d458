------------------------------ MODULE Signature ------------------------------
(***************************************************************************)
(* internal/security/hmac.go, the verdict that ingestion stores, and the   *)
(* samples that the CLI signs (internal/tunnel/generator.go).              *)
(*                                                                         *)
(* A MAC is the record of what went into it, so two MACs are equal when    *)
(* their secrets and texts are.  A header value is a sequence of parts:    *)
(* "t=5,v1=ab" has a part with key "t" and one with key "v1", "sha256=ab"  *)
(* one with key "sha256=", a bare value one with key "".  The empty        *)
(* sequence is a missing header.                                           *)
(***************************************************************************)
EXTENDS Integers, Sequences

CONSTANTS
  Second,        \* instants of the clock in a second
  Tolerance,     \* ToleranceStripe, in seconds: a constant, five minutes
  MaxBody,       \* the limit of the LimitReader, in chunks of a body
  NoSecret       \* the empty secret

ASSUME SignatureAssumption ==
  /\ {Second, Tolerance} \subseteq Nat \ {0}
  /\ MaxBody \in Nat

Part(key, val) == [key |-> key, val |-> val]

Digits(n) == [enc |-> "digits", of |-> n]
Hex(mac) == [enc |-> "hex", of |-> mac]
Base64(mac) == [enc |-> "base64", of |-> mac]
NoStamp == [enc |-> "none", of |-> 0]

\* form: the body alone, or the body after a time stamp.
Mac(secret, form, stamp, body) ==
  [secret |-> secret, form |-> form, stamp |-> stamp, body |-> body]

BodyMac(secret, body) == Mac(secret, "body", NoStamp, body)

\* Names are compared without regard to case: they are in one spelling here.
GetHeader(headers, name) == IF name \in DOMAIN headers THEN headers[name] ELSE <<>>

Else(value, other) == IF value # <<>> THEN value ELSE other

-----------------------------------------------------------------------------
(* The verifiers *)

\* Mutant: seconds and instants are mixed up at the older edge.
InToleranceFloored(stamp, now) ==
  Tolerance > 0 =>
    /\ now \div Second - stamp <= Tolerance
    /\ stamp * Second <= now + Tolerance * Second

\* Neither too old nor too far ahead; now counts instants.
InTolerance(stamp, now) ==
  Tolerance > 0 =>
    /\ now - stamp * Second <= Tolerance * Second
    /\ stamp * Second <= now + Tolerance * Second

\* The last t= counts.
LastStamp(header) ==
  LET stamps == {i \in DOMAIN header : header[i].key = "t"}
  IN  IF stamps = {} THEN NoStamp
      ELSE header[CHOOSE i \in stamps : \A j \in stamps : j <= i].val

\* Mutant: only the last v1= is compared.
SignedLast(header, sig) == header # <<>> /\ header[Len(header)] = Part("v1", sig)

\* Some v1= is the signature.
Signed(header, sig) == \E i \in DOMAIN header : header[i] = Part("v1", sig)

VerifyStripe(header, secret, body, now) ==
  LET stamp == LastStamp(header)
  IN  /\ stamp.enc = "digits" /\ InTolerance(stamp.of, now)
      /\ Signed(header, Hex(Mac(secret, "t.body", stamp, body)))

VerifyGitHub(header, secret, body) ==
  header = <<Part("sha256=", Hex(BodyMac(secret, body)))>>

VerifyShopify(header, secret, body) ==
  header = <<Part("", Base64(BodyMac(secret, body)))>>

\* The time stamp is signed and not otherwise looked at.
VerifySlack(header, timestamp, secret, body) ==
  /\ timestamp # <<>>
  /\ header = <<Part("v0=", Hex(Mac(secret, "v0:t:body", timestamp[1].val, body)))>>

\* Mutant: what bears no signature is let through, as without a secret.
VerifyGenericOrNone(header, secret, body) ==
  header = <<>> \/ header[1].val = Hex(BodyMac(secret, body))

VerifyGeneric(header, secret, body) ==
  \E prefix \in {"", "sha256=", "SHA256=", "sha256=SHA256="} :
    header = <<Part(prefix, Hex(BodyMac(secret, body)))>>

Lowered == [Stripe |-> "stripe", GitHub |-> "github", Shopify |-> "shopify",
            Slack |-> "slack", Custom |-> "custom"]

ToLower(provider) == IF provider \in DOMAIN Lowered THEN Lowered[provider] ELSE provider

GenericHeader(headers) ==
  Else(GetHeader(headers, "X-Signature"),
       Else(GetHeader(headers, "X-Webhook-Signature"), GetHeader(headers, "Signature")))

VerifySignature(provider, body, headers, secret, now) ==
  LET p == ToLower(provider)
      Get(name) == GetHeader(headers, name)
  IN  \/ secret = NoSecret
      \/ p = "stripe" /\ VerifyStripe(Get("Stripe-Signature"), secret, body, now)
      \/ /\ p = "github"
         /\ VerifyGitHub(Else(Get("X-Hub-Signature-256"), Get("X-Hub-Signature")), secret, body)
      \/ p = "shopify" /\ VerifyShopify(Get("X-Shopify-Hmac-Sha256"), secret, body)
      \/ /\ p = "slack"
         /\ VerifySlack(Get("X-Slack-Signature"), Get("X-Slack-Request-Timestamp"), secret, body)
      \/ /\ p \notin {"stripe", "github", "shopify", "slack"}
         /\ VerifyGeneric(GenericHeader(headers), secret, body)

-----------------------------------------------------------------------------
(* Ingestion *)

\* The LimitReader ends the body there, without an error: what is verified and
\* stored of a longer body is its beginning.
ReadBody(body) == IF Len(body) <= MaxBody THEN body ELSE SubSeq(body, 1, MaxBody)

\* signature_valid: null, true or false.
Verdict(provider, secret, body, headers, now) ==
  IF secret = NoSecret THEN "null"
  ELSE IF VerifySignature(provider, ReadBody(body), headers, secret, now) THEN "true"
  ELSE "false"

-----------------------------------------------------------------------------
(* Samples *)

Headers(name, value) == [n \in {name} |-> value]

\* Mutant: milliseconds, or whatever an instant is.
UnixInstants(now) == now

\* time.Now().Unix()
Unix(now) == now \div Second

\* GenerateSamplePayload: the provider is taken as it is spelt.
Sample(provider, secret, body, now) ==
  LET t == Digits(Unix(now))
  IN  IF secret = NoSecret THEN [n \in {} |-> <<>>]
      ELSE IF provider = "stripe" THEN
        Headers("Stripe-Signature",
                <<Part("t", t), Part("v1", Hex(Mac(secret, "t.body", t, body)))>>)
      ELSE IF provider = "github" THEN
        Headers("X-Hub-Signature-256", <<Part("sha256=", Hex(BodyMac(secret, body)))>>)
      ELSE Headers("X-Signature", <<Part("sha256=", Hex(BodyMac(secret, body)))>>)

=============================================================================
