---------------------------- MODULE SignatureProofs ----------------------------
(***************************************************************************)
(* The verdict of ingestion, for every secret, body, time stamp and clock. *)
(***************************************************************************)
EXTENDS Intake, TLAPS

-----------------------------------------------------------------------------
(* Names and headers *)

LEMMA Names ==
  /\ ToLower("stripe") = "stripe" /\ ToLower("Stripe") = "stripe"
  /\ ToLower("github") = "github" /\ ToLower("shopify") = "shopify"
  /\ ToLower("slack") = "slack" /\ ToLower("custom") = "custom"
  /\ ToLower("other") = "other"
BY DEF ToLower, Lowered

LEMMA OnlyHeader ==
  ASSUME NEW name, NEW value, NEW n
  PROVE  GetHeader(Headers(name, value), n) = IF n = name THEN value ELSE <<>>
BY DEF GetHeader, Headers

LEMMA OnlySlackHeaders ==
  ASSUME NEW secret, NEW body, NEW stamp, NEW n
  PROVE  GetHeader(SlackHeaders(secret, body, stamp), n) =
           IF n = "X-Slack-Signature"
             THEN <<Part("v0=", Hex(Mac(secret, "v0:t:body", Digits(stamp), body)))>>
           ELSE IF n = "X-Slack-Request-Timestamp" THEN <<Part("", Digits(stamp))>>
           ELSE <<>>
BY DEF GetHeader, SlackHeaders

\* Equal parts carry the same MAC.
LEMMA SamePart ==
  ASSUME NEW k, NEW l, NEW s, NEW form, NEW t, NEW b, NEW s2, NEW form2, NEW t2, NEW b2,
         Part(k, Hex(Mac(s, form, t, b))) = Part(l, Hex(Mac(s2, form2, t2, b2)))
  PROVE  k = l /\ s = s2 /\ b = b2
BY DEF Part, Hex, Mac

-----------------------------------------------------------------------------
(* Stripe *)

\* The stamp of a header with one t= in front is found.
LEMMA StampInFront ==
  ASSUME NEW header, NEW t, 1 \in DOMAIN header, header[1] = Part("t", t),
         \A i \in DOMAIN header : i # 1 => header[i].key # "t"
  PROVE  LastStamp(header) = t
<1> DEFINE stamps == {i \in DOMAIN header : header[i].key = "t"}
<1>1. stamps = {1}
  BY DEF Part
<1>2. (CHOOSE i \in stamps : \A j \in stamps : j <= i) = 1
  BY <1>1
<1> QED
  BY <1>1, <1>2 DEF LastStamp, Part

\* What VerifyStripe makes of a header that Stripe signed with some secrets.
LEMMA StripeVerdict ==
  ASSUME NEW signers, Len(signers) \in Nat, NEW secret, NEW body, NEW sent,
         NEW stamp, NEW now,
         NEW header, header = GetHeader(StripeHeaders(signers, sent, stamp), "Stripe-Signature")
  PROVE  VerifyStripe(header, secret, body, now) <=>
           /\ InTolerance(stamp, now)
           /\ sent = body /\ \E k \in 1 .. Len(signers) : signers[k] = secret
<1> DEFINE t == Digits(stamp)
           sig == Hex(Mac(secret, "t.body", t, body))
<1>1. header = [i \in 1 .. Len(signers) + 1 |->
                  IF i = 1 THEN Part("t", t)
                  ELSE Part("v1", Hex(Mac(signers[i - 1], "t.body", t, sent)))]
  BY OnlyHeader DEF StripeHeaders
<1>2. LastStamp(header) = t
  <2>1. 1 \in DOMAIN header /\ header[1] = Part("t", t)
    BY <1>1
  <2>2. \A i \in DOMAIN header : i # 1 => header[i].key # "t"
    BY <1>1 DEF Part
  <2> QED
    BY <2>1, <2>2, StampInFront
<1>3. Signed(header, sig) <=> sent = body /\ \E k \in 1 .. Len(signers) : signers[k] = secret
  <2>1. ASSUME NEW i \in DOMAIN header, header[i] = Part("v1", sig)
        PROVE  sent = body /\ \E k \in 1 .. Len(signers) : signers[k] = secret
    <3>1. i # 1
      BY <1>1, <2>1 DEF Part
    <3>2. i - 1 \in 1 .. Len(signers)
      BY <1>1, <3>1
    <3>3. Part("v1", Hex(Mac(signers[i - 1], "t.body", t, sent))) =
            Part("v1", Hex(Mac(secret, "t.body", t, body)))
      BY <1>1, <2>1, <3>1
    <3> QED
      BY <3>2, <3>3, SamePart
  <2>2. ASSUME sent = body, NEW k \in 1 .. Len(signers), signers[k] = secret
        PROVE  k + 1 \in DOMAIN header /\ header[k + 1] = Part("v1", sig)
    BY <1>1, <2>2
  <2> QED
    BY <2>1, <2>2 DEF Signed
<1> QED
  BY <1>2, <1>3 DEF VerifyStripe, Digits

-----------------------------------------------------------------------------
(* The other providers *)

LEMMA SlackVerdict ==
  ASSUME NEW key, NEW sent, NEW stamp, NEW secret, NEW body
  PROVE  VerifySlack(<<Part("v0=", Hex(Mac(key, "v0:t:body", Digits(stamp), sent)))>>,
                     <<Part("", Digits(stamp))>>, secret, body)
           <=> key = secret /\ sent = body
BY DEF VerifySlack, Part, Hex, Mac

LEMMA GenericVerdict ==
  ASSUME NEW key, NEW sent, NEW prefix \in {"", "sha256="}, NEW secret, NEW body
  PROVE  VerifyGeneric(<<Part(prefix, Hex(BodyMac(key, sent)))>>, secret, body)
           <=> key = secret /\ sent = body
<1>1. ASSUME key = secret, sent = body
      PROVE  VerifyGeneric(<<Part(prefix, Hex(BodyMac(key, sent)))>>, secret, body)
  BY <1>1 DEF VerifyGeneric
<1>2. ASSUME NEW k, <<Part(prefix, Hex(BodyMac(key, sent)))>> = <<Part(k, Hex(BodyMac(secret, body)))>>
      PROVE  key = secret /\ sent = body
  BY <1>2 DEF Part, Hex, BodyMac, Mac
<1> QED
  BY <1>1, <1>2 DEF VerifyGeneric

LEMMA GitHubVerdict ==
  ASSUME NEW key, NEW sent, NEW secret, NEW body
  PROVE  VerifyGitHub(<<Part("sha256=", Hex(BodyMac(key, sent)))>>, secret, body)
           <=> key = secret /\ sent = body
BY DEF VerifyGitHub, Part, Hex, BodyMac, Mac

LEMMA ShopifyVerdict ==
  ASSUME NEW key, NEW sent, NEW secret, NEW body
  PROVE  VerifyShopify(<<Part("", Base64(BodyMac(key, sent)))>>, secret, body)
           <=> key = secret /\ sent = body
BY DEF VerifyShopify, Part, Base64, BodyMac, Mac

\* A missing header is invalid.
LEMMA NoHeader ==
  ASSUME NEW secret, NEW body, NEW now
  PROVE  /\ ~VerifyStripe(<<>>, secret, body, now)
         /\ ~VerifyGitHub(<<>>, secret, body)
         /\ ~VerifyShopify(<<>>, secret, body)
         /\ ~VerifySlack(<<>>, <<>>, secret, body)
         /\ ~VerifyGeneric(<<>>, secret, body)
<1>1. \A x : <<x>> # <<>>
  OBVIOUS
<1>2. ~VerifyStripe(<<>>, secret, body, now)
  BY DEF VerifyStripe, LastStamp, NoStamp
<1> QED
  BY <1>1, <1>2 DEF VerifyGitHub, VerifyShopify, VerifySlack, VerifyGeneric

-----------------------------------------------------------------------------
(* Deliveries *)

\* A delivery bears the headers of its own form only.
Form(provider) ==
  IF ToLower(provider) \in {"stripe", "github", "shopify", "slack"}
    THEN ToLower(provider) ELSE "generic"

\* What is looked up in a set with one header.
LEMMA OneHeader ==
  ASSUME NEW d, NEW name, NEW value, value # <<>>, d = Headers(name, value)
  PROVE  /\ GetHeader(d, "Stripe-Signature") = IF name = "Stripe-Signature" THEN value ELSE <<>>
         /\ Else(GetHeader(d, "X-Hub-Signature-256"), GetHeader(d, "X-Hub-Signature")) =
              IF name \in {"X-Hub-Signature-256", "X-Hub-Signature"} THEN value ELSE <<>>
         /\ GetHeader(d, "X-Shopify-Hmac-Sha256") =
              IF name = "X-Shopify-Hmac-Sha256" THEN value ELSE <<>>
         /\ GetHeader(d, "X-Slack-Signature") = IF name = "X-Slack-Signature" THEN value ELSE <<>>
         /\ GetHeader(d, "X-Slack-Request-Timestamp") =
              IF name = "X-Slack-Request-Timestamp" THEN value ELSE <<>>
         /\ GenericHeader(d) =
              IF name \in {"X-Signature", "X-Webhook-Signature", "Signature"} THEN value ELSE <<>>
<1>1. \A n : GetHeader(d, n) = IF n = name THEN value ELSE <<>>
  BY OnlyHeader
<1> HIDE DEF Headers
<1>2. GenericHeader(d) =
        IF name \in {"X-Signature", "X-Webhook-Signature", "Signature"} THEN value ELSE <<>>
  BY <1>1 DEF GenericHeader, Else
<1>3. Else(GetHeader(d, "X-Hub-Signature-256"), GetHeader(d, "X-Hub-Signature")) =
        IF name \in {"X-Hub-Signature-256", "X-Hub-Signature"} THEN value ELSE <<>>
  BY <1>1 DEF Else
<1> QED
  BY <1>1, <1>2, <1>3

\* The headers that bear a signature, by the form of the verifier that reads them.
SignatureHeader(form, d) ==
  IF form = "stripe" THEN GetHeader(d, "Stripe-Signature")
  ELSE IF form = "github"
    THEN Else(GetHeader(d, "X-Hub-Signature-256"), GetHeader(d, "X-Hub-Signature"))
  ELSE IF form = "shopify" THEN GetHeader(d, "X-Shopify-Hmac-Sha256")
  ELSE IF form = "slack" THEN GetHeader(d, "X-Slack-Signature")
  ELSE GenericHeader(d)

LEMMA FormNames ==
  ASSUME NEW q
  PROVE  Form(q) \in {"stripe", "github", "shopify", "slack", "generic"}
BY DEF Form

\* Other verifiers than the one of its own form find no signature in a delivery.
LEMMA OtherForm ==
  ASSUME NEW q, NEW key, NEW sent, NEW stamp,
         NEW form \in {"stripe", "github", "shopify", "slack", "generic"}, form # Form(q)
  PROVE  /\ SignatureHeader(form, Delivery(q, key, sent, stamp)) = <<>>
         /\ form = "slack" =>
              GetHeader(Delivery(q, key, sent, stamp), "X-Slack-Request-Timestamp") = <<>>
<1> DEFINE d == Delivery(q, key, sent, stamp)
<1>1. \A x : <<x>> # <<>>
  OBVIOUS
<1>2. CASE Form(q) = "stripe"
  <2>1. PICK value : d = Headers("Stripe-Signature", value) /\ value # <<>>
    <3>1. d = StripeHeaders(<<key>>, sent, stamp)
      BY <1>2 DEF Delivery, Form
    <3> DEFINE value == [i \in 1 .. Len(<<key>>) + 1 |->
                          IF i = 1 THEN Part("t", Digits(stamp))
                          ELSE Part("v1", Hex(Mac(<<key>>[i - 1], "t.body", Digits(stamp), sent)))]
    <3>2. d = Headers("Stripe-Signature", value)
      BY <3>1 DEF StripeHeaders
    <3>3. 1 \in DOMAIN value
      OBVIOUS
    <3>4. DOMAIN <<>> = {}
      OBVIOUS
    <3>5. value # <<>>
      BY <3>3, <3>4
    <3> QED
      BY <3>2, <3>5
  <2> QED
    BY <1>2, <2>1, OneHeader DEF SignatureHeader
<1>3. CASE Form(q) = "github"
  <2>1. PICK value : d = Headers("X-Hub-Signature-256", value) /\ value # <<>>
    BY <1>1, <1>3 DEF Delivery, Form
  <2> QED
    BY <1>3, <2>1, OneHeader DEF SignatureHeader
<1>4. CASE Form(q) = "shopify"
  <2>1. PICK value : d = Headers("X-Shopify-Hmac-Sha256", value) /\ value # <<>>
    BY <1>1, <1>4 DEF Delivery, Form
  <2> QED
    BY <1>4, <2>1, OneHeader DEF SignatureHeader
<1>5. CASE Form(q) = "slack"
  <2>1. d = SlackHeaders(key, sent, stamp)
    BY <1>5 DEF Delivery, Form
  <2>2. ASSUME NEW n, n \notin {"X-Slack-Signature", "X-Slack-Request-Timestamp"}
        PROVE  GetHeader(d, n) = <<>>
    BY <2>1, <2>2 DEF GetHeader, SlackHeaders
  <2> HIDE DEF d
  <2>3. GenericHeader(d) = <<>>
    BY <2>2 DEF GenericHeader, Else
  <2>4. Else(GetHeader(d, "X-Hub-Signature-256"), GetHeader(d, "X-Hub-Signature")) = <<>>
    BY <2>2 DEF Else
  <2>5. SignatureHeader(form, d) = <<>>
    BY <1>5, <2>2, <2>3, <2>4 DEF SignatureHeader
  <2> QED
    BY <1>5, <2>5 DEF d
<1>6. CASE Form(q) = "generic"
  <2>1. PICK value : d = Headers("X-Webhook-Signature", value) /\ value # <<>>
    BY <1>1, <1>6 DEF Delivery, Form
  <2> QED
    BY <1>6, <2>1, OneHeader DEF SignatureHeader
<1> QED
  BY FormNames, <1>2, <1>3, <1>4, <1>5, <1>6

\* The verifier that the spelling of a provider selects.
Verified(form, headers, secret, body, now) ==
  LET header == SignatureHeader(form, headers)
  IN  IF form = "stripe" THEN VerifyStripe(header, secret, body, now)
      ELSE IF form = "github" THEN VerifyGitHub(header, secret, body)
      ELSE IF form = "shopify" THEN VerifyShopify(header, secret, body)
      ELSE IF form = "slack"
        THEN VerifySlack(header, GetHeader(headers, "X-Slack-Request-Timestamp"), secret, body)
      ELSE VerifyGeneric(header, secret, body)

LEMMA Dispatch ==
  ASSUME NEW p, NEW body, NEW headers, NEW secret, secret # NoSecret, NEW now
  PROVE  VerifySignature(p, body, headers, secret, now) <=>
           Verified(Form(p), headers, secret, body, now)
<1>1. CASE ToLower(p) = "stripe"
  BY <1>1 DEF VerifySignature, Verified, SignatureHeader, Form
<1>2. CASE ToLower(p) = "github"
  BY <1>2 DEF VerifySignature, Verified, SignatureHeader, Form
<1>3. CASE ToLower(p) = "shopify"
  BY <1>3 DEF VerifySignature, Verified, SignatureHeader, Form
<1>4. CASE ToLower(p) = "slack"
  BY <1>4 DEF VerifySignature, Verified, SignatureHeader, Form
<1>5. CASE ToLower(p) \notin {"stripe", "github", "shopify", "slack"}
  BY <1>5 DEF VerifySignature, Verified, SignatureHeader, Form
<1> QED
  BY <1>1, <1>2, <1>3, <1>4, <1>5

\* The verifier of its own form finds in a delivery what was signed.
LEMMA OwnForm ==
  ASSUME NEW q, NEW key, NEW sent, NEW stamp, NEW secret, NEW body, NEW now
  PROVE  Verified(Form(q), Delivery(q, key, sent, stamp), secret, body, now) <=>
           /\ key = secret /\ sent = body
           /\ Form(q) = "stripe" => InTolerance(stamp, now)
<1> DEFINE d == Delivery(q, key, sent, stamp)
           same == key = secret /\ sent = body
<1>0. \A x : <<x>> # <<>>
  OBVIOUS
<1>1. CASE Form(q) = "stripe"
  <2>1. d = StripeHeaders(<<key>>, sent, stamp)
    BY <1>1 DEF Delivery, Form
  <2>2. Len(<<key>>) = 1 /\ \A k \in 1 .. 1 : <<key>>[k] = key
    OBVIOUS
  <2>3. Verified(Form(q), d, secret, body, now) <=>
          VerifyStripe(GetHeader(d, "Stripe-Signature"), secret, body, now)
    BY <1>1 DEF Verified, SignatureHeader
  <2>4. VerifyStripe(GetHeader(StripeHeaders(<<key>>, sent, stamp), "Stripe-Signature"),
                     secret, body, now) <=>
          /\ InTolerance(stamp, now)
          /\ sent = body /\ \E k \in 1 .. Len(<<key>>) : <<key>>[k] = secret
    BY StripeVerdict, <2>2
  <2>5. (\E k \in 1 .. Len(<<key>>) : <<key>>[k] = secret) <=> key = secret
    BY <2>2
  <2> QED
    BY <1>1, <2>1, <2>3, <2>4, <2>5
<1>2. CASE Form(q) = "github"
  <2> DEFINE value == <<Part("sha256=", Hex(BodyMac(key, sent)))>>
  <2>1. d = Headers("X-Hub-Signature-256", value) /\ value # <<>>
    BY <1>0, <1>2 DEF Delivery, Form
  <2>2. VerifyGitHub(value, secret, body) <=> same
    BY GitHubVerdict
  <2> HIDE DEF d, value
  <2>3. SignatureHeader(Form(q), d) = value
    BY <1>2, <2>1, OneHeader DEF SignatureHeader
  <2>4. Verified(Form(q), d, secret, body, now) <=> VerifyGitHub(value, secret, body)
    BY <1>2, <2>3 DEF Verified
  <2> QED
    BY <1>2, <2>2, <2>4 DEF d
<1>3. CASE Form(q) = "shopify"
  <2> DEFINE value == <<Part("", Base64(BodyMac(key, sent)))>>
  <2>1. d = Headers("X-Shopify-Hmac-Sha256", value) /\ value # <<>>
    BY <1>0, <1>3 DEF Delivery, Form
  <2>2. VerifyShopify(value, secret, body) <=> same
    BY ShopifyVerdict
  <2> HIDE DEF d, value
  <2>3. SignatureHeader(Form(q), d) = value
    BY <1>3, <2>1, OneHeader DEF SignatureHeader
  <2>4. Verified(Form(q), d, secret, body, now) <=> VerifyShopify(value, secret, body)
    BY <1>3, <2>3 DEF Verified
  <2> QED
    BY <1>3, <2>2, <2>4 DEF d
<1>4. CASE Form(q) = "slack"
  <2> DEFINE value == <<Part("v0=", Hex(Mac(key, "v0:t:body", Digits(stamp), sent)))>>
             time == <<Part("", Digits(stamp))>>
  <2>1. d = SlackHeaders(key, sent, stamp)
    BY <1>4 DEF Delivery, Form
  <2>2. VerifySlack(value, time, secret, body) <=> same
    BY SlackVerdict
  <2>3. GetHeader(d, "X-Slack-Signature") = value /\ GetHeader(d, "X-Slack-Request-Timestamp") = time
    BY <2>1, OnlySlackHeaders
  <2> HIDE DEF d, value, time
  <2>4. SignatureHeader(Form(q), d) = value
    BY <1>4, <2>3 DEF SignatureHeader
  <2>5. Verified(Form(q), d, secret, body, now) <=> VerifySlack(value, time, secret, body)
    BY <1>4, <2>3, <2>4 DEF Verified
  <2> QED
    BY <1>4, <2>2, <2>5 DEF d
<1>5. CASE Form(q) = "generic"
  <2> DEFINE value == <<Part("", Hex(BodyMac(key, sent)))>>
  <2>1. d = Headers("X-Webhook-Signature", value) /\ value # <<>>
    BY <1>0, <1>5 DEF Delivery, Form
  <2>2. VerifyGeneric(value, secret, body) <=> same
    BY GenericVerdict
  <2> HIDE DEF d, value
  <2>3. SignatureHeader(Form(q), d) = value
    BY <1>5, <2>1, OneHeader DEF SignatureHeader
  <2>4. Verified(Form(q), d, secret, body, now) <=> VerifyGeneric(value, secret, body)
    BY <1>5, <2>3 DEF Verified
  <2> QED
    BY <1>5, <2>2, <2>4 DEF d
<1> QED
  BY FormNames, <1>1, <1>2, <1>3, <1>4, <1>5

LEMMA DeliveryVerdict ==
  ASSUME NEW p, NEW q, NEW secret, secret # NoSecret,
         NEW key, NEW body, NEW sent, NEW stamp, NEW now
  PROVE  VerifySignature(p, body, Delivery(q, key, sent, stamp), secret, now) <=>
           /\ key = secret /\ sent = body /\ Form(p) = Form(q)
           /\ Form(p) = "stripe" => InTolerance(stamp, now)
<1> DEFINE d == Delivery(q, key, sent, stamp)
<1>1. VerifySignature(p, body, d, secret, now) <=> Verified(Form(p), d, secret, body, now)
  BY Dispatch
<1>2. CASE Form(p) = Form(q)
  BY <1>1, <1>2, OwnForm
<1>3. CASE Form(p) # Form(q)
  <2>1. /\ SignatureHeader(Form(p), d) = <<>>
        /\ Form(p) = "slack" => GetHeader(d, "X-Slack-Request-Timestamp") = <<>>
    BY <1>3, FormNames, OtherForm
  <2> HIDE DEF d
  <2>2. ~Verified(Form(p), d, secret, body, now)
    BY <2>1, NoHeader DEF Verified
  <2> QED
    BY <1>1, <1>3, <2>2 DEF d
<1> QED
  BY <1>2, <1>3

-----------------------------------------------------------------------------
(* The window *)

\* A time stamp is behind the clock by less than a second.
LEMMA UnixBehind ==
  ASSUME NEW now \in Int
  PROVE  /\ Unix(now) \in Int
         /\ Unix(now) * Second <= now /\ now < Unix(now) * Second + Second
BY SignatureAssumption DEF Unix

\* The tolerance, counted from the sending.
LEMMA ToleranceFromSending ==
  ASSUME NEW sent \in Int, NEW now \in Int, sent <= now
  PROVE  /\ now - sent <= (Tolerance - 1) * Second => InTolerance(Unix(sent), now)
         /\ now - sent > Tolerance * Second => ~InTolerance(Unix(sent), now)
BY UnixBehind, SignatureAssumption DEF InTolerance

\* Fresh stamps are within the tolerance.
LEMMA FreshInTolerance ==
  ASSUME NEW stamp \in Int, NEW now \in Int
  PROVE  Fresh(stamp, now) <=> InTolerance(stamp, now)
BY SignatureAssumption DEF Fresh, InTolerance

-----------------------------------------------------------------------------
(* The stored verdict *)

LEMMA VerdictOf ==
  ASSUME NEW p, NEW secret \in Secrets, NEW body, NEW headers, NEW now
  PROVE  /\ secret # NoSecret
         /\ Verdict(p, secret, body, headers, now) = "true" <=>
              VerifySignature(p, ReadBody(body), headers, secret, now)
BY InputAssumption DEF Verdict

\* A body within the limit is read as it is.
LEMMA ReadWhole ==
  ASSUME NEW body \in Whole
  PROVE  ReadBody(body) = body
BY DEF Whole, ReadBody

\* What Stripe signed with some secrets.
LEMMA StripeDelivery ==
  ASSUME NEW signers, Len(signers) \in Nat, NEW secret \in Secrets,
         NEW body \in Whole, NEW stamp, NEW now
  PROVE  Verdict("stripe", secret, body, StripeHeaders(signers, body, stamp), now) = "true" <=>
           /\ InTolerance(stamp, now)
           /\ \E k \in 1 .. Len(signers) : signers[k] = secret
<1> DEFINE d == StripeHeaders(signers, body, stamp)
<1>1. Verdict("stripe", secret, body, d, now) = "true" <=>
        secret # NoSecret /\ VerifySignature("stripe", body, d, secret, now)
  BY VerdictOf, ReadWhole
<1>2. Form("stripe") = "stripe"
  BY Names DEF Form
<1>3. secret # NoSecret => (VerifySignature("stripe", body, d, secret, now) <=>
                              VerifyStripe(GetHeader(d, "Stripe-Signature"), secret, body, now))
  BY <1>2, Dispatch DEF Verified, SignatureHeader
<1>4. VerifyStripe(GetHeader(d, "Stripe-Signature"), secret, body, now) <=>
        /\ InTolerance(stamp, now)
        /\ body = body /\ \E k \in 1 .. Len(signers) : signers[k] = secret
  BY StripeVerdict
<1> QED
  BY <1>1, <1>3, <1>4, VerdictOf

\* A delivery of a provider is found valid just if it was signed for it, with its
\* secret, for the body that was read and, by Stripe, within the tolerance.
LEMMA VerdictOfDelivery ==
  ASSUME NEW p, NEW q, NEW secret \in Secrets, NEW key, NEW body, NEW sent,
         NEW stamp, NEW now
  PROVE  Verdict(p, secret, body, Delivery(q, key, sent, stamp), now) = "true" <=>
           /\ key = secret /\ sent = ReadBody(body) /\ Form(p) = Form(q)
           /\ Form(p) = "stripe" => InTolerance(stamp, now)
BY VerdictOf, DeliveryVerdict

LEMMA GenuineAlways == GenuineVerdict
<1> SUFFICES ASSUME NEW secret \in Secrets, NEW other \in Secrets, NEW body \in Whole,
                    NEW stamp \in Stamps, NEW now \in Instants, Fresh(stamp, now)
             PROVE  /\ \A p \in Providers :
                         Verdict(p, secret, body, Delivery(p, secret, body, stamp), now) = "true"
                    /\ \A signers \in {<<secret, other>>, <<other, secret>>} :
                         Verdict("stripe", secret, body,
                                 StripeHeaders(signers, body, stamp), now) = "true"
  BY DEF GenuineVerdict
<1>1. InTolerance(stamp, now)
  BY FreshInTolerance, InputAssumption
<1>2. ASSUME NEW p \in Providers
      PROVE  Verdict(p, secret, body, Delivery(p, secret, body, stamp), now) = "true"
  BY <1>1, ReadWhole, VerdictOfDelivery
<1>3. ASSUME NEW signers \in {<<secret, other>>, <<other, secret>>}
      PROVE  Verdict("stripe", secret, body, StripeHeaders(signers, body, stamp), now) = "true"
  <2>1. Len(signers) = 2
    BY <1>3
  <2>2. signers[1] = secret \/ signers[2] = secret
    BY <1>3
  <2>3. \E k \in 1 .. Len(signers) : signers[k] = secret
    BY <2>1, <2>2
  <2> QED
    BY <1>1, <2>1, <2>3, StripeDelivery
<1> QED
  BY <1>2, <1>3

LEMMA ValidAlways == ValidVerdict
<1> SUFFICES ASSUME NEW p \in Providers, NEW q \in Providers, NEW secret \in Secrets,
                    NEW key \in Secrets, NEW body \in Bodies, NEW signed \in Bodies,
                    NEW stamp \in Stamps, NEW now \in Instants,
                    Verdict(p, secret, body, Delivery(q, key, signed, stamp), now) = "true"
             PROVE  /\ key = secret /\ signed = ReadBody(body)
                    /\ body \in Whole => signed = body
                    /\ ToLower(q) = ToLower(p) \/ {p, q} = {"custom", "other"}
                    /\ ToLower(p) = "stripe" => Fresh(stamp, now)
  BY DEF ValidVerdict
<1>1. /\ key = secret /\ signed = ReadBody(body) /\ Form(p) = Form(q)
      /\ Form(p) = "stripe" => InTolerance(stamp, now)
  BY VerdictOfDelivery
<1>2. Form(p) # "generic" => ToLower(q) = ToLower(p)
  BY <1>1 DEF Form
<1>3. Form(p) = "generic" => p \in {"custom", "other"}
  BY Names DEF Form, Providers
<1>4. Form(q) = "generic" => q \in {"custom", "other"}
  BY Names DEF Form, Providers
<1>5. body \in Whole => ReadBody(body) = body
  BY ReadWhole
<1>6. ToLower(p) = "stripe" => Fresh(stamp, now)
  <2>1. stamp \in Int /\ now \in Int
    BY InputAssumption
  <2> QED
    BY <1>1, <2>1, FreshInTolerance DEF Form
<1> QED
  BY <1>1, <1>2, <1>3, <1>4, <1>5, <1>6

LEMMA WindowAlways == WindowVerdict
<1> SUFFICES ASSUME NEW secret \in Secrets, NEW body \in Whole, NEW sent \in Instants,
                    NEW now \in Instants, sent <= now
             PROVE  LET valid == Verdict("stripe", secret, body,
                                   StripeHeaders(<<secret>>, body, Unix(sent)), now) = "true"
                    IN  /\ now - sent <= (Tolerance - 1) * Second => valid
                        /\ now - sent > Tolerance * Second => ~valid
  BY DEF WindowVerdict
<1>1. sent \in Int /\ now \in Int
  BY InputAssumption
<1>2. Len(<<secret>>) = 1 /\ <<secret>>[1] = secret
  OBVIOUS
<1>3. \E k \in 1 .. Len(<<secret>>) : <<secret>>[k] = secret
  BY <1>2
<1>4. Verdict("stripe", secret, body, StripeHeaders(<<secret>>, body, Unix(sent)), now) = "true"
        <=> InTolerance(Unix(sent), now)
  BY <1>2, <1>3, StripeDelivery
<1> QED
  BY <1>1, <1>4, ToleranceFromSending

LEMMA SamplesAlways == SampleVerdict
<1> SUFFICES ASSUME NEW p \in {"stripe", "github", "custom"}, NEW secret \in Secrets,
                    NEW body \in Whole, NEW sent \in Instants, NEW now \in Instants,
                    sent <= now, now - sent <= (Tolerance - 1) * Second
             PROVE  Verdict(p, secret, body, Sample(p, secret, body, sent), now) = "true"
  BY DEF SampleVerdict
<1> DEFINE d == Sample(p, secret, body, sent)
<1>0. sent \in Int /\ now \in Int /\ secret # NoSecret
  BY InputAssumption
<1>1. Verdict(p, secret, body, d, now) = "true" <=> Verified(Form(p), d, secret, body, now)
  BY VerdictOf, ReadWhole, Dispatch
<1>2. \A x : <<x>> # <<>>
  OBVIOUS
<1>3. CASE p = "stripe"
  <2> DEFINE t == Digits(Unix(sent))
             sig == Part("v1", Hex(Mac(secret, "t.body", t, body)))
             value == <<Part("t", t), sig>>
  <2>1. d = Headers("Stripe-Signature", value)
    BY <1>0, <1>3 DEF Sample
  <2>2. DOMAIN value = {1, 2} /\ value[1] = Part("t", t) /\ value[2] = sig
    OBVIOUS
  <2>3. sig.key # "t"
    BY DEF Part
  <2>4. LastStamp(value) = t
    BY <2>2, <2>3, StampInFront
  <2>5. VerifyStripe(value, secret, body, now)
    BY <1>0, <2>2, <2>4, ToleranceFromSending DEF VerifyStripe, Signed, Digits
  <2> HIDE DEF d, value
  <2>6. Form(p) = "stripe" /\ GetHeader(d, "Stripe-Signature") = value
    BY <1>3, <2>1, Names, OnlyHeader DEF Form
  <2>7. Verified(Form(p), d, secret, body, now)
    BY <2>5, <2>6 DEF Verified, SignatureHeader
  <2> QED
    BY <1>1, <2>7 DEF d
<1>4. CASE p = "github"
  <2> DEFINE value == <<Part("sha256=", Hex(BodyMac(secret, body)))>>
  <2>1. d = Headers("X-Hub-Signature-256", value) /\ value # <<>>
    BY <1>0, <1>2, <1>4 DEF Sample
  <2>2. VerifyGitHub(value, secret, body)
    BY GitHubVerdict
  <2> HIDE DEF d, value
  <2>3. Form(p) = "github"
    BY <1>4, Names DEF Form
  <2>4. SignatureHeader(Form(p), d) = value
    BY <2>1, <2>3, OneHeader DEF SignatureHeader
  <2>5. Verified(Form(p), d, secret, body, now)
    BY <2>2, <2>3, <2>4 DEF Verified
  <2> QED
    BY <1>1, <2>5 DEF d
<1>5. CASE p = "custom"
  <2> DEFINE value == <<Part("sha256=", Hex(BodyMac(secret, body)))>>
  <2>1. d = Headers("X-Signature", value) /\ value # <<>>
    BY <1>0, <1>2, <1>5 DEF Sample
  <2>2. VerifyGeneric(value, secret, body)
    BY GenericVerdict
  <2> HIDE DEF d, value
  <2>3. Form(p) = "generic"
    BY <1>5, Names DEF Form
  <2>4. SignatureHeader(Form(p), d) = value
    BY <2>1, <2>3, OneHeader DEF SignatureHeader
  <2>5. Verified(Form(p), d, secret, body, now)
    BY <2>2, <2>3, <2>4 DEF Verified
  <2> QED
    BY <1>1, <2>5 DEF d
<1> QED
  BY <1>3, <1>4, <1>5

-----------------------------------------------------------------------------

\* What a provider signed is stored as valid.
THEOREM GenuineStoredValid == Spec => []GenuineIsValid
<1>1. GenuineIsValid
  BY GenuineAlways DEF GenuineIsValid
<1> QED
  BY <1>1, PTL DEF Spec

\* What is stored as valid was signed, with the endpoint's secret and in the form
\* of its provider, for the body that is stored.
THEOREM ValidStoredIsSigned == Spec => []ValidIsSigned
<1>1. ValidIsSigned
  BY ValidAlways DEF ValidIsSigned
<1> QED
  BY <1>1, PTL DEF Spec

\* Stripe's five minutes hold from the sending to the ingestion, to a second.
THEOREM WindowHolds == Spec => []WindowFromSending
<1>1. WindowFromSending
  BY WindowAlways DEF WindowFromSending
<1> QED
  BY <1>1, PTL DEF Spec

\* The samples of the CLI are stored as valid.
THEOREM SamplesStoredValid == Spec => []SamplesVerify
<1>1. SamplesVerify
  BY SamplesAlways DEF SamplesVerify
<1> QED
  BY <1>1, PTL DEF Spec

=============================================================================
