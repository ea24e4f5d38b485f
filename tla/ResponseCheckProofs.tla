-------------------------- MODULE ResponseCheckProofs --------------------------
(***************************************************************************)
(* What becomes of a reply, for every width of an integer, every clock,    *)
(* skew and set of times, and however many fields of a reply differ.       *)
(***************************************************************************)
EXTENDS ResponseCheck, TLAPS

\* The outcome is the one the code reaches from the reply as it is: a reply
\* does not change once it is received.
Decided ==
  outcome \in {"none", IF kind = "init" THEN Authenticate(reply)
                                        ELSE Heartbeat(reply)}

KindInv == kind \in {"init", "beat"} /\ Decided

(***************************************************************************)
(* authenticate (client.go:205-238) accepts no unsigned reply at all.      *)
(***************************************************************************)
LEMMA AuthenticateNeedsSignature ==
  ASSUME NEW r, ~r.signed
  PROVE  Authenticate(r) = "error"
BY DEF Authenticate, VerifySignedResponse, HasSignedHeaders

(***************************************************************************)
(* heartbeat (session.go:140-176) makes an unsigned reply an error or a    *)
(* denial, and a denial only when it says that the key is revoked.         *)
(***************************************************************************)
LEMMA HeartbeatUnsigned ==
  ASSUME NEW r, ~r.signed
  PROVE  \/ Heartbeat(r) = "error"
         \/ Heartbeat(r) = "denied" /\ r.code = "KEY_REVOKED"
<1>1. ~VerifySignedResponse(r)
  BY DEF VerifySignedResponse, HasSignedHeaders
<1>2. CASE ParseUnsignedRevocation(r)
  <2>1. r.code = "KEY_REVOKED"
    BY <1>2 DEF ParseUnsignedRevocation
  <2>2. Heartbeat(r) \in {"error", "denied"}
    BY <2>1 DEF Heartbeat
  <2>3. QED  BY <2>1, <2>2
<1>3. CASE ~ParseUnsignedRevocation(r)
  BY <1>1, <1>3 DEF Heartbeat
<1>4. QED  BY <1>2, <1>3

(***************************************************************************)
(* The outcome stays the decision on the reply: nothing on the way alters  *)
(* a reply that was received.                                              *)
(***************************************************************************)
LEMMA DecidedInv == Spec => []KindInv
<1>1. Init => KindInv
  BY DEF Init, KindInv, Decided
<1>2. KindInv /\ [Next]_vars => KindInv'
  <2> SUFFICES ASSUME KindInv, [Next]_vars PROVE KindInv'
    OBVIOUS
  <2>1. CASE Receive
    BY <2>1 DEF Receive, KindInv, Decided
  <2>2. ASSUME NEW f \in DOMAIN Domain, Differ(f) PROVE KindInv'
    BY <2>2 DEF Differ, KindInv, Decided
  <2>3. CASE UNCHANGED vars
    <3>1. kind' = kind /\ reply' = reply /\ outcome' = outcome
      BY <2>3 DEF vars
    <3>2. QED  BY <3>1 DEF KindInv, Decided
  <2>4. QED  BY <2>1, <2>2, <2>3 DEF Next
<1>3. QED  BY <1>1, <1>2, PTL DEF Spec

(***************************************************************************)
(* verify.go:100-102: an unsigned reply never grants access, and is        *)
(* believed only in a heartbeat, when it says that the key is revoked.     *)
(***************************************************************************)
THEOREM UnsignedNeverGrants == Spec => []UnsignedOnlyRevokes
<1>1. KindInv => UnsignedOnlyRevokes
  <2> SUFFICES ASSUME KindInv, ~reply.signed
               PROVE  /\ ~Granted
                      /\ outcome = "denied" =>
                           kind = "beat" /\ reply.code = "KEY_REVOKED"
    BY DEF UnsignedOnlyRevokes
  <2>1. CASE kind = "init"
    <3>1. outcome \in {"none", "error"}
      BY <2>1, AuthenticateNeedsSignature DEF KindInv, Decided
    <3>2. QED  BY <3>1 DEF Granted
  <2>2. CASE kind = "beat"
    <3>1. outcome \in {"none", Heartbeat(reply)}
      BY <2>2 DEF KindInv, Decided
    <3>2. QED  BY <2>2, <3>1, HeartbeatUnsigned DEF Granted
  <2>3. QED  BY <2>1, <2>2 DEF KindInv
<1>2. QED  BY <1>1, DecidedInv, PTL

-----------------------------------------------------------------------------
(***************************************************************************)
(* The arithmetic of the freshness window.                                 *)
(***************************************************************************)

\* A remainder is known by its range and by what it differs by.
LEMMA RemainderIs ==
  ASSUME NEW m \in Nat \ {0}, NEW r \in 0..(m - 1), NEW q \in Int
  PROVE  (r + q * m) % m = r
<1> DEFINE n == r + q * m
           d == n \div m
<1>1. n \in Int /\ d \in Int /\ n % m \in 0..(m - 1) /\ n = m * d + (n % m)
  OBVIOUS
<1>2. r - (n % m) = m * (d - q)
  BY <1>1
<1>3. CASE d - q >= 1
  <2>1. m * (d - q) >= m
    BY <1>1, <1>3
  <2> QED BY <1>1, <1>2, <2>1
<1>4. CASE d - q <= -1
  <2>1. m * (d - q) <= -m
    BY <1>1, <1>4
  <2> QED BY <1>1, <1>2, <2>1
<1>5. CASE d = q
  BY <1>1, <1>2, <1>5
<1> QED BY <1>1, <1>3, <1>4, <1>5

\* What fits is stored as it is.
LEMMA StoredFits ==
  ASSUME NEW x \in -Half..(Half - 1) PROVE Stored(x) = x
<1>1. Half \in Nat \ {0} /\ 2 * Half \in Nat \ {0} /\ x + Half \in 0..(2 * Half - 1)
  BY TimesAssumption
<1>2. (x + Half + 0 * (2 * Half)) % (2 * Half) = x + Half
  BY <1>1, RemainderIs
<1> QED BY <1>1, <1>2 DEF Stored

\* A difference below the range comes out at its other end.
LEMMA StoredBelow ==
  ASSUME NEW x \in (-3 * Half)..(-Half - 1) PROVE Stored(x) = x + 2 * Half
<1>1. Half \in Nat \ {0} /\ 2 * Half \in Nat \ {0} /\ x + 3 * Half \in 0..(2 * Half - 1)
  BY TimesAssumption
<1>2. (x + 3 * Half + (-1) * (2 * Half)) % (2 * Half) = x + 3 * Half
  BY <1>1, RemainderIs
<1>3. x + 3 * Half + (-1) * (2 * Half) = x + Half
  BY <1>1
<1> QED BY <1>1, <1>2, <1>3 DEF Stored

\* What is one too large comes out as the least integer.
LEMMA StoredHalf == Stored(Half) = -Half
<1>1. Half \in Nat \ {0} /\ 2 * Half \in Nat \ {0} /\ 0 \in 0..(2 * Half - 1)
  BY TimesAssumption
<1>2. (0 + 1 * (2 * Half)) % (2 * Half) = 0
  BY <1>1, RemainderIs
<1>3. Half + Half = 0 + 1 * (2 * Half)
  BY <1>1
<1> QED BY <1>1, <1>2, <1>3 DEF Stored

\* The clock is not at the end of its range.
Measurable == Now + Skew < Half

(***************************************************************************)
(* verify.go:249-255: the window the code applies, exactly.  It is the one *)
(* Skew means and one time more, at the distance of the least integer,     *)
(* which is its own negative and so never larger than Skew.                *)
(***************************************************************************)
THEOREM FreshExact ==
  ASSUME Measurable, NEW r, r.time \in Times
  PROVE  Fresh(r) <=> r.time \in (Now - Skew)..(Now + Skew) \cup {Now - Half}
<1> DEFINE x == r.time - Now
<1>1. /\ Half \in Nat \ {0} /\ Now \in Nat /\ Skew \in Nat \ {0} /\ Now + Skew < Half
      /\ r.time \in -Half..(Half - 1) /\ x \in Int
  <2>1. /\ Half \in Nat \ {0} /\ Now \in Nat /\ Skew \in Nat \ {0} /\ Now + Skew < Half
        /\ r.time \in -Half..(Half - 1)
    BY TimesAssumption DEF Measurable
  <2> QED BY <2>1
<1>2. CASE x < -Half
  <2>1. Stored(x) = x + 2 * Half
    BY <1>1, <1>2, StoredBelow
  <2>2. Stored(x) > Skew /\ ~(Stored(x) < 0)
    BY <1>1, <2>1
  <2>3. ~Fresh(r)
    BY <2>2, <1>1, <2>1 DEF Fresh
  <2> QED BY <1>1, <1>2, <2>3
<1>3. CASE x > -Half /\ x < 0
  <2>1. Stored(x) = x /\ Stored(-x) = -x
    BY <1>1, <1>3, StoredFits
  <2>2. Fresh(r) <=> -x <= Skew
    BY <1>1, <1>3, <2>1 DEF Fresh
  <2> QED BY <1>1, <1>3, <2>2
<1>4. CASE x >= 0
  <2>1. Stored(x) = x
    BY <1>1, <1>4, StoredFits
  <2> QED BY <1>1, <1>4, <2>1 DEF Fresh
<1>5. CASE x = -Half
  <2>1. Stored(x) = -Half
    BY <1>1, <1>5, StoredFits
  <2>2. Stored(-Stored(x)) = -Half
    <3>1. -Stored(x) = Half
      BY <1>1, <2>1
    <3> QED BY <3>1, StoredHalf
  <2>3. Fresh(r)
    BY <1>1, <2>1, <2>2 DEF Fresh
  <2> QED BY <1>1, <1>5, <2>3
<1> QED BY <1>1, <1>2, <1>3, <1>4, <1>5

\* A reply dated by the local clock is fresh.
LEMMA NowIsFresh ==
  ASSUME NEW r, r.time = Now PROVE Fresh(r)
<1>1. Half \in Nat \ {0} /\ Now \in Nat /\ Skew \in Nat \ {0} /\ r.time - Now = 0
  BY TimesAssumption
<1>2. Stored(0) = 0
  BY <1>1, StoredFits
<1> QED BY <1>1, <1>2 DEF Fresh

-----------------------------------------------------------------------------
(***************************************************************************)
(* What the decision goes by: a reply keeps the fields it may have, and    *)
(* the answer is one the server gives.                                     *)
(***************************************************************************)
ReplyInv ==
  /\ KindInv
  /\ answer \in Answers(kind)
  /\ reply.time \in Times

\* The fields of the one unsigned answer.
LEMMA RevocationFields ==
  ASSUME NEW a, a = UnsignedRevocation
  PROVE  /\ ~a.signed /\ a.body = "json" /\ a.status = "2xx" /\ a.protocol
         /\ a.json /\ a.version /\ a.code = "KEY_REVOKED" /\ a.authed = FALSE
         /\ a.isError = TRUE /\ a.isFailure = FALSE
         /\ a.system /\ a.challenge /\ a.termination /\ a.time = Now
<1> DEFINE b == SignedAnswer("beat", "KEY_REVOKED", FALSE)
<1>1. /\ b.status = "2xx" /\ b.protocol /\ b.json /\ b.version /\ b.system /\ b.challenge
      /\ b.code = "KEY_REVOKED" /\ b.time = Now
  BY DEF SignedAnswer
<1>2. b.authed = FALSE /\ b.isError = TRUE /\ b.isFailure = FALSE /\ b.termination
  <2>1. /\ expectedAuthenticated("KEY_REVOKED") = FALSE /\ expectedError("KEY_REVOKED") = TRUE
        /\ expectedFailure("KEY_REVOKED") = FALSE
    BY DEF expectedAuthenticated, expectedError, expectedFailure
  <2> QED BY <2>1 DEF SignedAnswer
<1>3. {"signed", "body", "signature", "headerKey", "kid"} \subseteq DOMAIN b
  BY DEF SignedAnswer
<1>4. {"status", "protocol", "json", "version", "code", "authed", "isError", "isFailure",
       "system", "challenge", "termination", "time"} \subseteq DOMAIN b
  BY DEF SignedAnswer
<1>5. a = [b EXCEPT !.signed = FALSE, !.body = "json", !.signature = FALSE,
                    !.headerKey = "none", !.kid = "none"]
  BY DEF UnsignedRevocation
<1> HIDE DEF b
<1> QED BY <1>1, <1>2, <1>3, <1>4, <1>5

\* The server dates its answers by its clock, which is Now.
LEMMA AnswersAreTimely ==
  ASSUME NEW k, NEW a \in Answers(k) PROVE a.time = Now
<1>1. CASE a = UnsignedRevocation
  BY <1>1, RevocationFields
<1>2. CASE a # UnsignedRevocation
  BY <1>2 DEF Answers, SignedAnswer
<1> QED BY <1>1, <1>2

\* Nothing on the way changes the answer, or a date into what is no date.
LEMMA AlwaysReplyInv == Spec => []ReplyInv
<1>1. Init => ReplyInv
  BY AnswersAreTimely, TimesAssumption DEF Init, ReplyInv, KindInv, Decided
<1>2. ReplyInv /\ [Next]_vars => (answer \in Answers(kind) /\ reply.time \in Times)'
  <2> SUFFICES ASSUME ReplyInv, [Next]_vars
               PROVE  answer' \in Answers(kind') /\ reply'.time \in Times
    OBVIOUS
  <2>1. CASE Receive
    BY <2>1 DEF Receive, ReplyInv
  <2>2. ASSUME NEW f \in DOMAIN Domain, Differ(f)
        PROVE  answer' \in Answers(kind') /\ reply'.time \in Times
    <3>1. PICK v \in Domain[f] : reply' = [reply EXCEPT ![f] = v]
      BY <2>2 DEF Differ
    <3>2. reply'.time \in {reply.time} \cup Times
      BY <3>1 DEF Domain
    <3> QED BY <2>2, <3>2 DEF Differ, ReplyInv
  <2>3. CASE UNCHANGED vars
    BY <2>3 DEF vars, ReplyInv
  <2> QED BY <2>1, <2>2, <2>3 DEF Next
<1>3. Spec => [](answer \in Answers(kind) /\ reply.time \in Times)
  <2>1. Init => answer \in Answers(kind) /\ reply.time \in Times
    BY <1>1 DEF ReplyInv
  <2>2. KindInv /\ (answer \in Answers(kind) /\ reply.time \in Times) => ReplyInv
    BY DEF ReplyInv
  <2> QED BY <1>2, <2>1, <2>2, DecidedInv, PTL DEF Spec
<1> QED BY <1>3, DecidedInv, PTL DEF ReplyInv

\* Access is granted by replies that verify.
LEMMA GrantVerifies ==
  ASSUME KindInv, Granted PROVE VerifySignedResponse(reply)
<1>1. CASE kind = "init"
  <2>1. outcome = Authenticate(reply) /\ outcome = "session"
    BY <1>1 DEF KindInv, Decided, Granted, Authenticate
  <2> QED BY <2>1 DEF Authenticate
<1>2. CASE kind = "beat"
  <2>1. outcome = Heartbeat(reply) /\ outcome = "rotated"
    BY <1>2 DEF KindInv, Decided, Granted, Heartbeat
  <2>2. reply.code = "OK"
    BY <2>1 DEF Heartbeat
  <2> QED BY <2>1, <2>2 DEF Heartbeat, ParseUnsignedRevocation
<1> QED BY <1>1, <1>2 DEF KindInv

(***************************************************************************)
(* verify.go:249-255: access is granted only by a reply dated within the   *)
(* allowed skew of the local clock, whatever wraps, or at the one stale    *)
(* date of FreshExact.                                                     *)
(***************************************************************************)
THEOREM GrantsAreFresh == Measurable => (Spec => []GrantIsFresh)
<1> SUFFICES ASSUME Measurable PROVE Spec => []GrantIsFresh
  OBVIOUS
<1>1. ReplyInv => GrantIsFresh
  BY GrantVerifies, FreshExact DEF ReplyInv, GrantIsFresh, VerifySignedResponse, PayloadValid
<1> QED BY <1>1, AlwaysReplyInv, PTL

\* A signed answer verifies, and an unsigned revocation is recognised.
LEMMA AnswerVerifies ==
  ASSUME NEW k, NEW code \in Codes, NEW extras \in BOOLEAN
  PROVE  VerifySignedResponse(SignedAnswer(k, code, extras))
<1> SUFFICES ASSUME NEW a, a = SignedAnswer(k, code, extras) PROVE VerifySignedResponse(a)
  OBVIOUS
<1>1. Fresh(a)
  BY NowIsFresh DEF SignedAnswer
<1>2. /\ HasSignedHeaders(a) /\ a.body = "envelope" /\ a.signature
      /\ a.json /\ a.kid = "mine" /\ a.headerKey = "mine" /\ a.version /\ a.code = code
      /\ a.authed = expectedAuthenticated(code) /\ a.isError = expectedError(code)
      /\ a.isFailure = expectedFailure(code) /\ a.system /\ a.challenge
  BY DEF SignedAnswer, HasSignedHeaders
<1>3. code # "UNKNOWN"
  BY DEF Codes
<1> QED BY <1>1, <1>2, <1>3 DEF VerifySignedResponse, PayloadValid, KeyConsistent

\* The unsigned answer is read as what it is.
LEMMA RevocationIsRead ==
  /\ ~HasSignedHeaders(UnsignedRevocation)
  /\ ParseUnsignedRevocation(UnsignedRevocation)
<1>1. Fresh(UnsignedRevocation)
  BY RevocationFields, NowIsFresh
<1>2. /\ expectedAuthenticated("KEY_REVOKED") = FALSE /\ expectedError("KEY_REVOKED") = TRUE
      /\ expectedFailure("KEY_REVOKED") = FALSE
  BY DEF expectedAuthenticated, expectedError, expectedFailure
<1>3. PayloadValid(UnsignedRevocation, FALSE)
  BY <1>1, <1>2, RevocationFields DEF PayloadValid
<1> QED BY <1>3, RevocationFields DEF HasSignedHeaders, ParseUnsignedRevocation

(***************************************************************************)
(* client.go:221-238, session.go:164-176: what arrives as the server sent  *)
(* it is taken for what the server meant, whichever code it carries.       *)
(***************************************************************************)
THEOREM AnswersTakenRightly == Spec => []AnswersUnderstood
<1>1. ReplyInv => AnswersUnderstood
  <2> SUFFICES ASSUME ReplyInv, outcome # "none", reply = answer
               PROVE  outcome = IF kind = "init"
                                THEN IF ~answer.signed THEN "error"
                                     ELSE IF answer.authed THEN "session" ELSE "denied"
                                ELSE IF answer.code = "OK" THEN "rotated" ELSE "denied"
    BY DEF AnswersUnderstood
  <2>0. /\ kind \in {"init", "beat"}
        /\ outcome = IF kind = "init" THEN Authenticate(answer) ELSE Heartbeat(answer)
    BY DEF ReplyInv, KindInv, Decided
  <2>1. CASE answer = UnsignedRevocation
    <3>1. ~answer.signed /\ answer.code = "KEY_REVOKED" /\ answer.status = "2xx"
      BY <2>1, RevocationFields
    <3>2. Authenticate(answer) = "error"
      BY <3>1, AuthenticateNeedsSignature
    <3>3. Heartbeat(answer) = "denied"
      BY <2>1, <3>1, RevocationIsRead DEF Heartbeat
    <3> QED BY <2>0, <3>1, <3>2, <3>3
  <2>2. ASSUME NEW code \in Codes, NEW extras \in BOOLEAN,
               answer = SignedAnswer(kind, code, extras)
        PROVE  outcome = IF kind = "init"
                         THEN IF ~answer.signed THEN "error"
                              ELSE IF answer.authed THEN "session" ELSE "denied"
                         ELSE IF answer.code = "OK" THEN "rotated" ELSE "denied"
    <3>1. VerifySignedResponse(answer)
      BY <2>2, AnswerVerifies
    <3>2. /\ answer.status = "2xx" /\ answer.signed /\ answer.code = code
          /\ answer.authed = expectedAuthenticated(code)
          /\ answer.identity = expectedAuthenticated(code)
          /\ answer.extras = (extras /\ expectedAuthenticated(code))
          /\ answer.token = IF expectedAuthenticated(code)
                            THEN IF kind = "init" THEN "BRK" ELSE "BRF" ELSE "none"
      BY <2>2 DEF SignedAnswer
    <3>3. CASE kind = "init"
      BY <2>0, <3>1, <3>2, <3>3 DEF Authenticate
    <3>4. CASE kind = "beat"
      BY <2>0, <3>1, <3>2, <3>4 DEF Heartbeat, expectedAuthenticated
    <3> QED BY <2>0, <3>3, <3>4
  <2> QED BY <2>1, <2>2 DEF ReplyInv, Answers
<1> QED BY <1>1, AlwaysReplyInv, PTL
=============================================================================
