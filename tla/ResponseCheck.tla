----------------------------- MODULE ResponseCheck -----------------------------
(***************************************************************************)
(* What becomes of a reply of the Bedrock server: the verification of      *)
(* verify.go and the decisions authenticate (client.go) and heartbeat      *)
(* (session.go) take on its outcome.                                       *)
(*                                                                         *)
(* The server answers in one of the ways it has; on the way, or because a  *)
(* key, a clock or a server is not what it should be, fields of the reply  *)
(* differ from that answer, several at once.  A field is reduced to the    *)
(* values the code tells apart.                                            *)
(***************************************************************************)
EXTENDS Integers, FiniteSets

CONSTANTS
  Half,       \* half the range of server_time, an int64 (2^63)
  Times,      \* values of server_time explored
  Now, Skew,  \* the local clock, MaxServerClockSkew in seconds
  Pinned,     \* Config.SigningKeyID is set
  MaxFaults   \* fields that may differ (a bound for TLC)

ASSUME TimesAssumption ==
  /\ Half \in Nat \ {0} /\ MaxFaults \in Nat /\ Pinned \in BOOLEAN
  /\ Times \subseteq -Half..(Half - 1)
  /\ Now \in Times \cap Nat /\ Skew \in Nat \ {0}

VARIABLES
  kind,    \* the exchange: "init" or "beat"
  answer,  \* the server's answer
  reply,   \* what arrives
  outcome  \* what the client made of it

vars == <<kind, answer, reply, outcome>>

Codes == {"OK", "OUTDATED", "CREDENTIALS", "PAUSED", "KEY_REVOKED"}

\* response.go: the flags each code carries.
expectedAuthenticated(code) == code \in {"OK", "OUTDATED"}
expectedFailure(code) == code = "PAUSED"
expectedError(code) == code # "OK" /\ ~expectedFailure(code)

Domain ==
  [status |-> {"2xx", "none"}, protocol |-> BOOLEAN, signed |-> BOOLEAN,
   body |-> {"envelope", "json", "garbage"}, signature |-> BOOLEAN,
   json |-> BOOLEAN, headerKey |-> {"none", "mine", "other"},
   kid |-> {"none", "mine", "other"},
   version |-> BOOLEAN, code |-> Codes \cup {"UNKNOWN"},
   authed |-> BOOLEAN, isError |-> BOOLEAN, isFailure |-> BOOLEAN,
   system |-> BOOLEAN, challenge |-> BOOLEAN, time |-> Times,
   token |-> {"none", "BRK", "BRF"}, termination |-> BOOLEAN,
   extras |-> BOOLEAN, identity |-> BOOLEAN]

\* The signed answer with a code; extras are variables or a folder token.
SignedAnswer(k, code, extras) ==
  [status |-> "2xx", protocol |-> TRUE, signed |-> TRUE,
   body |-> "envelope", signature |-> TRUE, json |-> TRUE,
   headerKey |-> "mine", kid |-> "mine", version |-> TRUE, code |-> code,
   authed |-> expectedAuthenticated(code), isError |-> expectedError(code),
   isFailure |-> expectedFailure(code), system |-> TRUE, challenge |-> TRUE,
   time |-> Now,
   token |-> IF expectedAuthenticated(code)
             THEN IF k = "init" THEN "BRK" ELSE "BRF" ELSE "none",
   termination |-> ~expectedAuthenticated(code),
   extras |-> extras /\ expectedAuthenticated(code),
   identity |-> expectedAuthenticated(code)]

\* A server whose signing key was revoked answers a beat without a signature.
UnsignedRevocation ==
  [SignedAnswer("beat", "KEY_REVOKED", FALSE) EXCEPT
     !.signed = FALSE, !.body = "json", !.signature = FALSE,
     !.headerKey = "none", !.kid = "none"]

Answers(k) ==
  {SignedAnswer(k, code, extras) : code \in Codes, extras \in BOOLEAN}
    \cup {UnsignedRevocation}

-----------------------------------------------------------------------------
(* verify.go. *)

\* Two's complement: what an int64 holds after an operation.
Stored(x) == ((x + Half) % (2 * Half)) - Half

\* Mutant: only a server behind the client is noticed.
FreshOneSided(r) == Stored(Now - r.time) <= Skew

Fresh(r) ==
  LET difference == Stored(r.time - Now)
      size == IF difference < 0 THEN Stored(-difference) ELSE difference
  IN  size <= Skew

PayloadValid(r, requireKeyID) ==
  /\ r.json /\ (requireKeyID => r.kid # "none")
  /\ r.version /\ r.code # "UNKNOWN"
  /\ r.authed = expectedAuthenticated(r.code)
  /\ r.isError = expectedError(r.code) /\ r.isFailure = expectedFailure(r.code)
  /\ r.system /\ r.challenge
  /\ Fresh(r)

\* Otherwise ErrUnsignedResponse.
HasSignedHeaders(r) == r.protocol /\ r.signed

KeyConsistent(r) ==
  r.kid # "none" /\ r.headerKey = r.kid /\ (Pinned => r.kid = "mine")

VerifySignedResponse(r) ==
  /\ HasSignedHeaders(r)
  /\ r.body = "envelope" /\ r.signature
  /\ PayloadValid(r, TRUE)
  /\ KeyConsistent(r)

\* Mutant: any unsigned denial is believed.
ParseUnsignedDenial(r) ==
  /\ ~r.signed /\ r.protocol /\ r.body = "json"
  /\ PayloadValid(r, FALSE)

ParseUnsignedRevocation(r) ==
  /\ ~r.signed /\ r.protocol /\ r.body = "json"
  /\ PayloadValid(r, FALSE)
  /\ r.code = "KEY_REVOKED" /\ r.termination

-----------------------------------------------------------------------------
(* client.go and session.go. *)

\* Mutant: an outdated client is turned away.
AuthenticateOkOnly(r) ==
  IF r.status # "2xx" \/ ~VerifySignedResponse(r) THEN "error"
  ELSE IF ~r.authed THEN IF r.extras THEN "error" ELSE "denied"
  ELSE IF r.code = "OK" /\ r.token = "BRK" /\ r.identity THEN "session" ELSE "error"

\* "session": one is started; "denied": the response is the caller's to read.
Authenticate(r) ==
  IF r.status # "2xx" \/ ~VerifySignedResponse(r) THEN "error"
  ELSE IF ~r.authed THEN IF r.extras THEN "error" ELSE "denied"
  ELSE IF r.token = "BRK" /\ r.identity THEN "session" ELSE "error"

\* "rotated": the token is replaced; "denied" and "error" end the session,
\* with and without a response for the hook.
Heartbeat(r) ==
  IF r.status # "2xx"
     \/ ~(VerifySignedResponse(r)
          \/ (~HasSignedHeaders(r) /\ ParseUnsignedRevocation(r))) THEN "error"
  ELSE IF r.code # "OK" \/ ~r.authed \/ r.token = "none" THEN "denied"
  ELSE IF r.token = "BRF" THEN "rotated" ELSE "error"

-----------------------------------------------------------------------------
Init ==
  /\ kind \in {"init", "beat"}
  /\ answer \in Answers(kind)
  /\ reply = answer
  /\ outcome = "none"

Faults == {f \in DOMAIN Domain : reply[f] # answer[f]}

Differ(f) ==
  /\ outcome = "none" /\ Cardinality(Faults \cup {f}) <= MaxFaults
  /\ \E v \in Domain[f] : reply' = [reply EXCEPT ![f] = v]
  /\ UNCHANGED <<kind, answer, outcome>>

Receive ==
  /\ outcome = "none"
  /\ outcome' = IF kind = "init" THEN Authenticate(reply) ELSE Heartbeat(reply)
  /\ UNCHANGED <<kind, answer, reply>>

Next == Receive \/ \E f \in DOMAIN Domain : Differ(f)

Spec == Init /\ [][Next]_vars

-----------------------------------------------------------------------------
Granted == outcome \in {"session", "rotated"}

(***************************************************************************)
(* verify.go:100-102 "It is denial-only and never grants access": an       *)
(* unsigned reply is believed in a heartbeat alone, when it says that the  *)
(* signing key is revoked; every other one is a transport-level error.     *)
(***************************************************************************)
UnsignedOnlyRevokes ==
  ~reply.signed =>
    /\ ~Granted
    /\ outcome = "denied" => kind = "beat" /\ reply.code = "KEY_REVOKED"

(***************************************************************************)
(* README.md:65-66, verify.go:249-255: the reply that grants access was    *)
(* made within MaxServerClockSkew of the local clock, before or after,     *)
(* though the difference of two times need not fit an int64: but for one   *)
(* stale time, whose difference is the least int64.  The negation leaves   *)
(* that negative, which passes for a small skew.                           *)
(***************************************************************************)
GrantIsFresh ==
  Granted => reply.time \in (Now - Skew)..(Now + Skew) \cup {Now - Half}

(***************************************************************************)
(* client.go:221-238, session.go:164-176: an answer that arrives as it was *)
(* sent is never an error, but for an unsigned one to authenticate, and it *)
(* is taken for what the server meant.                                     *)
(***************************************************************************)
AnswersUnderstood ==
  outcome # "none" /\ reply = answer =>
    outcome = IF kind = "init"
              THEN IF ~answer.signed THEN "error"
                   ELSE IF answer.authed THEN "session" ELSE "denied"
              ELSE IF answer.code = "OK" THEN "rotated" ELSE "denied"
=============================================================================
