------------------------- MODULE TokenRotationProofs -------------------------
(***************************************************************************)
(* Token rotation is safe whatever the network loses, delays or overtakes. *)
(***************************************************************************)
EXTENDS TokenRotation, TLAPS

\* A request of the current beat carries the current token, and only such a
\* request does; a live session between beats has none left that the server
\* would rotate for.
RequestInv ==
  \A r \in requests :
    /\ r.challenge <= challenge /\ r.token <= token
    /\ attempt > 0 => (r.token = token <=> r.challenge = challenge)
    /\ attempt = 0 /\ life = "alive" => r.token < token

\* A rotation that answers the current beat brings the one token the server
\* issued for it, and a refusal of the current beat means revocation.
ReplyInv ==
  \A p \in replies :
    /\ p.challenge <= challenge
    /\ attempt > 0 /\ p.challenge = challenge =>
         /\ p.verdict = "rotated" => p.token = token + 1 /\ srvToken = token + 1
         /\ p.verdict = "refused" => revoked

RotationInv ==
  /\ TypeOK
  /\ RequestInv
  /\ ReplyInv
  /\ TokenSync
  /\ SurvivesLoss
  /\ srvToken \in {token, token + 1} /\ token = completed + 1

\* Client and server start in step.
LEMMA InitRotationInv == Init => RotationInv
<1> SUFFICES ASSUME Init PROVE RotationInv
  OBVIOUS
<1>1. TypeOK
  <2>1. cached \in Nat \X Nat
    BY DEF Init
  <2>2. requests \subseteq Request /\ replies \subseteq Reply
    BY DEF Init
  <2>3. /\ life \in {"alive", "stopped", "failed"} /\ attempt \in 0..MaxAttempts
        /\ token \in Nat /\ challenge \in Nat /\ completed \in Nat /\ srvToken \in Nat
    BY DEF Init, MaxAttempts
  <2>4. gaveUp \in {"no", "lost", "undrawn", "clock"} /\ revoked \in BOOLEAN
    BY DEF Init
  <2> QED
    BY <2>1, <2>2, <2>3, <2>4 DEF TypeOK
<1>2. RequestInv /\ ReplyInv /\ TokenSync /\ SurvivesLoss
  BY DEF Init, RequestInv, ReplyInv, TokenSync, SurvivesLoss
<1> QED
  BY <1>1, <1>2 DEF Init, RotationInv

\* Every step keeps client and server in step, an answer apart.
LEMMA NextRotationInv == RotationInv /\ [Next]_vars => RotationInv'
<1> SUFFICES ASSUME RotationInv, [Next]_vars PROVE RotationInv'
  OBVIOUS
<1> USE MaxBeatsAssumption
    DEF RotationInv, TypeOK, RequestInv, ReplyInv, TokenSync, SurvivesLoss, MaxAttempts,
        Request, Reply, Verdicts, clientVars, netVars, serverVars
<1>1. CASE Beat
  <2> DEFINE r0 == [token |-> token, challenge |-> challenge + 1, attempt |-> 1]
  <2>1. /\ life = "alive" /\ attempt = 0 /\ attempt' = 1 /\ challenge' = challenge + 1
        /\ requests' = requests \cup {r0}
        /\ UNCHANGED <<life, token, completed, gaveUp, replies, serverVars>>
    BY <1>1 DEF Beat, Post
  <2>2. TypeOK'
    BY <2>1
  <2>3. RequestInv'
    BY <2>1
  <2>4. ReplyInv'
    BY <2>1
  <2> QED
    BY <2>1, <2>2, <2>3, <2>4
<1>2. CASE LostRetry
  BY <1>2 DEF LostRetry, Post
<1>3. CASE LostAgain
  BY <1>3 DEF LostAgain, Fail
<1>4. CASE Stop \/ ClockJump \/ NoChallenge
  BY <1>4 DEF Stop, ClockJump, NoChallenge, Fail
<1>5. ASSUME NEW p \in replies, Accept(p) PROVE RotationInv'
  <2>1. p.token = token + 1 /\ srvToken = token + 1
    BY <1>5 DEF Accept, Answers
  <2> QED
    BY <1>5, <2>1 DEF Accept
<1>6. ASSUME NEW p \in replies, Denied(p) \/ Unusable(p) PROVE RotationInv'
  <2>1. /\ attempt > 0 /\ p.challenge = challenge /\ p.verdict \in {"refused", "denied", "bad"}
        /\ attempt' = 0 /\ life' = (IF life = "alive" THEN "failed" ELSE life)
        /\ UNCHANGED <<token, challenge, completed, gaveUp, netVars, serverVars>>
    BY <1>6 DEF Denied, Unusable, Answers, Fail
  <2>2. SurvivesLoss'
    BY <2>1
  <2> QED
    BY <2>1, <2>2
<1>7. CASE Revoke
  BY <1>7 DEF Revoke
<1>8. ASSUME NEW r \in requests, ServeRotate(r) PROVE RotationInv'
  <2>1. srvToken = token /\ r.token = token /\ ~(attempt = 0 /\ life = "alive")
    BY <1>8 DEF ServeRotate
  <2> DEFINE p0 == [verdict |-> "rotated", token |-> srvToken + 1,
                    challenge |-> r.challenge, attempt |-> r.attempt]
  <2>2. /\ requests' = requests \ {r} /\ replies' = replies \cup {p0}
        /\ srvToken' = srvToken + 1 /\ cached' = <<r.token, r.challenge>>
        /\ UNCHANGED <<clientVars, revoked>>
    BY <1>8 DEF ServeRotate, Respond
  <2>3. TypeOK'
    <3>1. r \in Request
      OBVIOUS
    <3>2. p0 \in Reply
      BY <3>1
    <3>3. cached' \in Nat \X Nat
      BY <2>2, <3>1
    <3> QED
      BY <2>2, <3>2, <3>3
  <2>4. RequestInv'
    BY <2>2
  <2>5. ReplyInv'
    BY <2>1, <2>2
  <2> QED
    BY <2>1, <2>2, <2>3, <2>4, <2>5
<1>9. ASSUME NEW r \in requests, ServeCached(r) PROVE RotationInv'
  <2> DEFINE p0 == [verdict |-> "rotated", token |-> r.token + 1,
                    challenge |-> r.challenge, attempt |-> r.attempt]
  <2>1. /\ requests' = requests \ {r} /\ replies' = replies \cup {p0}
        /\ UNCHANGED <<clientVars, serverVars>>
    BY <1>9 DEF ServeCached, Respond
  <2>2. attempt > 0 /\ r.challenge = challenge => r.token = token /\ srvToken = token + 1
    BY <1>9 DEF ServeCached
  <2>3. TypeOK'
    <3>1. r \in Request
      OBVIOUS
    <3>2. p0 \in Reply
      BY <3>1
    <3> QED
      BY <2>1, <3>2
  <2>4. RequestInv'
    BY <2>1
  <2>5. ReplyInv'
    BY <2>1, <2>2
  <2> QED
    BY <2>1, <2>3, <2>4, <2>5
<1>10. ASSUME NEW r \in requests, ServeRefused(r) PROVE RotationInv'
  <2> DEFINE p0 == [verdict |-> "refused", token |-> 0,
                    challenge |-> r.challenge, attempt |-> r.attempt]
  <2>1. /\ requests' = requests \ {r} /\ replies' = replies \cup {p0}
        /\ UNCHANGED <<clientVars, serverVars>>
    BY <1>10 DEF ServeRefused, Respond
  <2>2. attempt > 0 /\ r.challenge = challenge => revoked
    BY <1>10 DEF ServeRefused
  <2>3. TypeOK'
    <3>1. r \in Request
      OBVIOUS
    <3>2. p0 \in Reply
      BY <3>1
    <3> QED
      BY <2>1, <3>2
  <2>4. RequestInv'
    BY <2>1
  <2>5. ReplyInv'
    BY <2>1, <2>2
  <2> QED
    BY <2>1, <2>3, <2>4, <2>5
<1>11. ASSUME NEW r \in requests, ServeDenied(r) PROVE RotationInv'
  <2> DEFINE p0 == [verdict |-> "denied", token |-> 0,
                    challenge |-> r.challenge, attempt |-> r.attempt]
  <2>1. /\ requests' = requests \ {r} /\ replies' = replies \cup {p0}
        /\ UNCHANGED <<clientVars, serverVars>>
    BY <1>11 DEF ServeDenied, Respond
  <2>2. p0 \in Reply /\ p0.challenge <= challenge
    <3>1. r \in Request
      OBVIOUS
    <3> QED
      BY <3>1
  <2> QED
    BY <2>1, <2>2
<1>12. CASE Spoil
  <2> DEFINE p0 == [verdict |-> "bad", token |-> 0,
                    challenge |-> challenge, attempt |-> attempt]
  <2>1. /\ replies' = replies \cup {p0} /\ p0 \in Reply
        /\ UNCHANGED <<clientVars, requests, serverVars>>
    BY <1>12 DEF Spoil
  <2> QED
    BY <2>1
<1>13. CASE UNCHANGED vars
  BY <1>13 DEF vars
<1> QED
  BY <1>1, <1>2, <1>3, <1>4, <1>5, <1>6, <1>7, <1>8, <1>9, <1>10, <1>11, <1>12, <1>13
  DEF Next, Client, Server

\* The rotation invariant holds always.
LEMMA AlwaysRotationInv == Spec => []RotationInv
  BY InitRotationInv, NextRotationInv, PTL DEF Spec

(***************************************************************************)
(* session.go:102-183: the client never falls out of step with the server. *)
(***************************************************************************)
THEOREM TokensInStep == Spec => []TokenSync
<1>1. RotationInv => TokenSync
  BY DEF RotationInv
<1> QED
  BY <1>1, AlwaysRotationInv, PTL

(***************************************************************************)
(* session.go:133-135: repeating the same token and challenge is enough    *)
(* for the server to know the beat again.                                  *)
(***************************************************************************)
THEOREM RetryNeverRefused == Spec => []NeverRefused
<1>1. RotationInv => NeverRefused
  BY DEF RotationInv, ReplyInv, NeverRefused, Answers, TypeOK, Reply
<1> QED
  BY <1>1, AlwaysRotationInv, PTL

(***************************************************************************)
(* session.go:111-176, 203-213: a session that failed was revoked, lost    *)
(* both attempts of one beat, drew no challenge, saw the clock jump, or    *)
(* was answered in its latest beat by a denial or by what it could not     *)
(* use.  No other loss, delay or overtaking ends it.                       *)
(***************************************************************************)
THEOREM LossSurvived == Spec => []SurvivesLoss
<1>1. RotationInv => SurvivesLoss
  BY DEF RotationInv
<1> QED
  BY <1>1, AlwaysRotationInv, PTL

(***************************************************************************)
(* session.go:181: the count of beats is the server's count of rotations,  *)
(* or one less.                                                            *)
(***************************************************************************)
THEOREM BeatsCounted == Spec => []CountExact
<1>1. RotationInv => CountExact
  BY DEF RotationInv, CountExact, TypeOK
<1> QED
  BY <1>1, AlwaysRotationInv, PTL
=============================================================================
