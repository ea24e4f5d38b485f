---------------------------- MODULE TokenRotation ----------------------------
(***************************************************************************)
(* One session's rotating token: session.heartbeat (session.go), the       *)
(* network between it and Bedrock, and the server's side of the rotation.  *)
(*                                                                         *)
(* requestMutex serializes the beats of a session (BedrockClient), so one  *)
(* exchange is open at a time.  The client gives up on an attempt whenever *)
(* it likes; a request it gave up on stays in the network and may reach    *)
(* the server later, during the retry or during a later beat.              *)
(*                                                                         *)
(* Tokens are numbered in the order the server issues them and challenges  *)
(* in the order the client draws them: all that matters is which is which. *)
(* The server is not part of the repository.  It is what session.go:133-138*)
(* relies on: it takes the beats of a session one at a time, commits a     *)
(* rotation once and answers a repetition of the same token and challenge  *)
(* from its cache.  It may also turn a beat down for reasons of its own    *)
(* (HEARTBEAT_TOO_EARLY, CONCURRENT_HEARTBEAT), and what comes back may be *)
(* no usable answer at all.                                                *)
(***************************************************************************)
EXTENDS Naturals

CONSTANT MaxBeats  \* heartbeats explored (a bound for TLC)

ASSUME MaxBeatsAssumption == MaxBeats \in Nat

MaxAttempts == 2   \* the first POST and one retry

VARIABLES
  life,       \* session.alive: "alive", or what cleared it
  attempt,    \* the attempt in progress, 0 between beats
  token,      \* session.token
  challenge,  \* the challenge of the latest beat
  completed,  \* session.completed
  gaveUp,     \* why the client failed the session by itself (history)
  requests,   \* requests in the network
  replies,    \* replies the client may still read
  srvToken,   \* server: the token it expects next
  cached,     \* server: token and challenge of its last rotation
  revoked     \* server: the session was revoked

clientVars == <<life, attempt, token, challenge, completed, gaveUp>>
netVars    == <<requests, replies>>
serverVars == <<srvToken, cached, revoked>>
vars == <<clientVars, netVars, serverVars>>

\* What comes back for a request: the rotation; a refusal, of a token and
\* challenge the server does not know or of a revoked session; a denial for
\* another reason; a bad status, an unverifiable payload or a malformed token.
Verdicts == {"rotated", "refused", "denied", "bad"}

Request == [token : Nat, challenge : Nat, attempt : 1..MaxAttempts]
Reply   == [verdict : Verdicts, token : Nat, challenge : Nat, attempt : 1..MaxAttempts]

TypeOK ==
  /\ life \in {"alive", "stopped", "failed"}
  /\ attempt \in 0..MaxAttempts
  /\ token \in Nat /\ challenge \in Nat /\ completed \in Nat
  /\ gaveUp \in {"no", "lost", "undrawn", "clock"}
  /\ requests \subseteq Request
  /\ replies \subseteq Reply
  /\ srvToken \in Nat
  /\ cached \in Nat \X Nat
  /\ revoked \in BOOLEAN

Init ==
  /\ life = "alive" /\ attempt = 0
  /\ token = 1 /\ srvToken = 1     \* the BRK_ token of the authentication
  /\ challenge = 0 /\ cached = <<0, 0>>
  /\ completed = 0 /\ gaveUp = "no"
  /\ requests = {} /\ replies = {}
  /\ revoked = FALSE

Post(n, c) ==   \* attempt n: the same fields and headers on every attempt
  /\ attempt' = n
  /\ requests' = requests \cup {[token |-> token, challenge |-> c, attempt |-> n]}

(***************************************************************************)
(* The client.                                                             *)
(***************************************************************************)

Beat ==   \* a beat of a live session: a fresh challenge, the first POST
  /\ life = "alive" /\ attempt = 0
  /\ challenge < MaxBeats
  /\ challenge' = challenge + 1
  /\ Post(1, challenge + 1)
  /\ UNCHANGED <<life, token, completed, gaveUp, replies, serverVars>>

\* fail(): the session fails unless something ended it first.
Fail == life' = IF life = "alive" THEN "failed" ELSE life

NoChallenge ==   \* generateChallenge failed: nothing is sent
  /\ life = "alive" /\ attempt = 0
  /\ Fail
  /\ gaveUp' = "undrawn"
  /\ UNCHANGED <<attempt, token, challenge, completed, netVars, serverVars>>

\* Mutant: the retry draws a challenge of its own.
LostRetryFresh ==
  /\ attempt = 1
  /\ challenge' = challenge + 1
  /\ Post(2, challenge + 1)
  /\ UNCHANGED <<life, token, completed, gaveUp, replies, serverVars>>

LostRetry ==   \* transport error: repeat the exact token and challenge
  /\ attempt = 1
  /\ Post(2, challenge)
  /\ UNCHANGED <<life, token, challenge, completed, gaveUp, replies, serverVars>>

\* Mutant: no retry.
LostAtOnce ==
  /\ attempt > 0
  /\ Fail
  /\ attempt' = 0
  /\ gaveUp' = IF attempt = 2 THEN "lost" ELSE gaveUp
  /\ UNCHANGED <<token, challenge, completed, netVars, serverVars>>

LostAgain ==   \* the retry ended in a transport error too
  /\ attempt = 2
  /\ Fail
  /\ attempt' = 0
  /\ gaveUp' = "lost"
  /\ UNCHANGED <<token, challenge, completed, netVars, serverVars>>

\* Mutant: the challenge of a reply is not compared.
AnswersUnbound(p) == attempt > 0 /\ p.attempt = attempt

\* The reply to the attempt in progress.  A signed response names its challenge
\* (verify.go); which attempt it answers is the HTTP exchange's.
Answers(p) == attempt > 0 /\ p.attempt = attempt /\ p.challenge = challenge

\* Mutant: the rotated token is not installed.
AcceptKeepToken(p) ==
  /\ p \in replies /\ Answers(p) /\ p.verdict = "rotated"
  /\ completed' = completed + 1
  /\ attempt' = 0
  /\ UNCHANGED <<life, token, challenge, gaveUp, netVars, serverVars>>

Accept(p) ==
  /\ p \in replies /\ Answers(p) /\ p.verdict = "rotated"
  /\ token' = p.token
  /\ completed' = completed + 1
  /\ attempt' = 0
  /\ UNCHANGED <<life, challenge, gaveUp, netVars, serverVars>>

Denied(p) ==   \* a verified response that is not an OK with a session token
  /\ p \in replies /\ Answers(p) /\ p.verdict \in {"refused", "denied"}
  /\ Fail
  /\ attempt' = 0
  /\ UNCHANGED <<token, challenge, completed, gaveUp, netVars, serverVars>>

\* A status, a payload or a token that will not do fails the session at either
\* attempt: only a transport error is retried.
Unusable(p) ==
  /\ p \in replies /\ Answers(p) /\ p.verdict = "bad"
  /\ Fail
  /\ attempt' = 0
  /\ UNCHANGED <<token, challenge, completed, gaveUp, netVars, serverVars>>

ClockJump ==   \* the loop's own fail, at any point of another goroutine's beat
  /\ life = "alive"
  /\ Fail
  /\ gaveUp' = "clock"
  /\ UNCHANGED <<attempt, token, challenge, completed, netVars, serverVars>>

Stop ==   \* session.stop, at any point of an exchange
  /\ life = "alive"
  /\ life' = "stopped"
  /\ UNCHANGED <<attempt, token, challenge, completed, gaveUp, netVars, serverVars>>

(***************************************************************************)
(* The server and what lies on the way to it (external).                   *)
(***************************************************************************)

Respond(r, verdict, next) ==
  /\ requests' = requests \ {r}
  /\ replies' = replies \cup {[verdict |-> verdict, token |-> next,
                               challenge |-> r.challenge, attempt |-> r.attempt]}

ServeRotate(r) ==
  /\ r \in requests /\ ~revoked /\ r.token = srvToken
  /\ srvToken' = srvToken + 1
  /\ cached' = <<r.token, r.challenge>>
  /\ Respond(r, "rotated", srvToken + 1)
  /\ UNCHANGED <<clientVars, revoked>>

ServeCached(r) ==
  /\ r \in requests /\ ~revoked /\ r.token # srvToken
  /\ cached = <<r.token, r.challenge>>
  /\ Respond(r, "rotated", r.token + 1)
  /\ UNCHANGED <<clientVars, serverVars>>

ServeRefused(r) ==
  /\ r \in requests
  /\ revoked \/ (r.token # srvToken /\ cached # <<r.token, r.challenge>>)
  /\ Respond(r, "refused", 0)
  /\ UNCHANGED <<clientVars, serverVars>>

ServeDenied(r) ==   \* for a reason of its own: nothing is committed
  /\ r \in requests
  /\ Respond(r, "denied", 0)
  /\ UNCHANGED <<clientVars, serverVars>>

\* The open attempt gets no answer it can use, whether or not its request has
\* reached, or will reach, the server.
Spoil ==
  /\ attempt > 0
  /\ replies' = replies \cup {[verdict |-> "bad", token |-> 0,
                               challenge |-> challenge, attempt |-> attempt]}
  /\ UNCHANGED <<clientVars, requests, serverVars>>

Revoke ==
  /\ ~revoked /\ revoked' = TRUE
  /\ UNCHANGED <<clientVars, netVars, srvToken, cached>>

-----------------------------------------------------------------------------
Client ==
  \/ Beat \/ NoChallenge \/ LostRetry \/ LostAgain \/ ClockJump \/ Stop
  \/ \E p \in replies : Accept(p) \/ Denied(p) \/ Unusable(p)

Server ==
  \/ Revoke \/ Spoil
  \/ \E r \in requests : ServeRotate(r) \/ ServeCached(r) \/ ServeRefused(r) \/ ServeDenied(r)

Next == Client \/ Server

Spec == Init /\ [][Next]_vars

-----------------------------------------------------------------------------
(***************************************************************************)
(* session.go:102-183: however attempts are lost, delayed and overtaken,   *)
(* between beats a live session holds the token the server expects, and    *)
(* during a beat it is at most the rotation this very beat asked for that  *)
(* it has not seen yet, which the server can still repeat.                 *)
(***************************************************************************)
TokenSync ==
  /\ life = "alive" /\ attempt = 0 => token = srvToken
  /\ attempt > 0 => \/ token = srvToken
                    \/ srvToken = token + 1 /\ cached = <<token, challenge>>

(***************************************************************************)
(* session.go:133-135 "Repeat the exact token/challenge once so Bedrock    *)
(* can return its cached signed response": whatever was lost, the server   *)
(* knows the token and challenge of every beat of a session it has not     *)
(* revoked.                                                                *)
(***************************************************************************)
NeverRefused ==
  \A p \in replies : Answers(p) /\ p.verdict = "refused" => revoked

(***************************************************************************)
(* session.go:111-176, 203-213: lost exchanges alone end no session, short *)
(* of both attempts of one beat.  What else ends one is in plain sight: a  *)
(* challenge that cannot be drawn, a clock that jumps, an answer to the    *)
(* latest beat that is a denial or of no use, or revocation.               *)
(***************************************************************************)
SurvivesLoss ==
  life = "failed" =>
    \/ revoked \/ gaveUp # "no"
    \/ \E p \in replies : p.verdict \in {"denied", "bad"} /\ p.challenge = challenge

(***************************************************************************)
(* session.go:181: HeartbeatCount is the number of rotations the server    *)
(* committed for this session, less the one a client that stopped or gave  *)
(* up may never have seen.                                                 *)
(***************************************************************************)
CountExact ==
  srvToken - 1 \in {completed, completed + 1}
=============================================================================
