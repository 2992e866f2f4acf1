----------------------------- MODULE PollRouting -----------------------------
(***************************************************************************)
(* The polling placement cache of the control-plane client                 *)
(* (pkg/controlplane/internal/routing.go) and the only code that drives    *)
(* it, TunnelServiceClient.Poll.                                           *)
(*                                                                         *)
(* A poll snapshots <<generation, token>> before its HTTP request, holds   *)
(* no lock while the request is in flight, and commits what it learned     *)
(* with complete().  Several calls may be in flight at once, so answers    *)
(* are committed in any order.                                             *)
(***************************************************************************)
EXTENDS Integers

CONSTANTS Callers,      \* concurrent calls of Poll
          Tokens,       \* shard tokens the service may hand out
          Revisions,    \* policy revisions the service may quote
          NoToken,      \* the empty string of the code
          MaxGeneration \* bound on completed results (the code's uint64)

ASSUME PollRoutingAssumption ==
    /\ NoToken \notin Tokens
    /\ Revisions \subseteq Nat
    /\ MaxGeneration \in Nat

maxRoutingFailures == 3

VARIABLES \* pollRoutingState
          generation, token, revision, known, acceptedToken, failures, corrections,
          \* the routingAttempt of every call, and the calls between
          \* snapshot() and complete()
          attempt, inFlight,
          \* history: results committed against a cached token since the last
          \* success or tokenless state
          rejections

state    == <<generation, token, revision, known, acceptedToken, failures, corrections>>
accepted == <<revision, known, acceptedToken>>
vars     == <<state, attempt, inFlight, rejections>>

routingAttempt == [generation : 0..MaxGeneration, token : Tokens \cup {NoToken}]

RoutingCorrection == [ShardToken : Tokens, PolicyRevision : Revisions]

Init ==
    /\ generation = 0
    /\ token = NoToken
    /\ revision = 0
    /\ known = FALSE
    /\ acceptedToken = NoToken
    /\ failures = 0
    /\ corrections = 0
    /\ attempt = [c \in Callers |-> [generation |-> 0, token |-> NoToken]]
    /\ inFlight = {}
    /\ rejections = 0

snapshot == [generation |-> generation, token |-> token]

Current(c) == attempt[c].generation = generation
-----------------------------------------------------------------------------
(* complete(): one operator for each arm of its switch. *)

CommitAvailable ==
    /\ failures' = 0
    /\ corrections' = 0
    /\ UNCHANGED <<token, accepted>>

AcceptsRevision(corr) == ~known \/ corr.PolicyRevision > revision

(* An accepted revision brings its token; an equal revision restores the
   accepted token and drops a rival one; an older revision is ignored. *)
CorrectedToken(corr) ==
    IF AcceptsRevision(corr) THEN corr.ShardToken
    ELSE IF corr.PolicyRevision < revision THEN token
    ELSE IF corr.ShardToken = acceptedToken THEN acceptedToken ELSE NoToken

(* Mutant: corrections are not counted. *)
CommitCorrectionUncounted(corr) ==
    /\ failures' = 0
    /\ token' = CorrectedToken(corr)
    /\ known' = TRUE
    /\ revision' = IF AcceptsRevision(corr) THEN corr.PolicyRevision ELSE revision
    /\ acceptedToken' = IF AcceptsRevision(corr) THEN corr.ShardToken ELSE acceptedToken
    /\ UNCHANGED corrections

CommitCorrection(corr) ==
    LET exhausted == corrections + 1 >= maxRoutingFailures
    IN /\ failures' = 0
       /\ corrections' = IF exhausted THEN 0 ELSE corrections + 1
       /\ token' = IF exhausted THEN NoToken ELSE CorrectedToken(corr)
       /\ known' = TRUE
       /\ revision' = IF AcceptsRevision(corr) THEN corr.PolicyRevision ELSE revision
       /\ acceptedToken' = IF AcceptsRevision(corr) THEN corr.ShardToken ELSE acceptedToken

CommitFailure(c) ==
    LET counted   == attempt[c].token # NoToken
        exhausted == counted /\ failures + 1 >= maxRoutingFailures
    IN /\ failures' = IF exhausted THEN 0 ELSE IF counted THEN failures + 1 ELSE failures
       /\ token' = IF exhausted THEN NoToken ELSE token
       /\ UNCHANGED <<corrections, accepted>>

(* Mutant: no fence at all. *)
FencedNot(c, commit) ==
    /\ generation < MaxGeneration
    /\ generation' = generation + 1
    /\ commit

(* The generation fence: a result of an older generation changes nothing. *)
Fenced(c, commit) ==
    \/ /\ Current(c)
       /\ generation < MaxGeneration
       /\ generation' = generation + 1
       /\ commit
    \/ ~Current(c) /\ UNCHANGED state

CountRejection(c) ==
    rejections' = IF ~Current(c) THEN rejections
                  ELSE IF token' = NoToken \/ attempt[c].token = NoToken THEN 0
                  ELSE rejections + 1
-----------------------------------------------------------------------------
(* TunnelServiceClient.Poll: the snapshot, then one action per outcome. *)

PollStart(c) ==
    /\ c \notin inFlight
    /\ attempt' = [attempt EXCEPT ![c] = snapshot]
    /\ inFlight' = inFlight \cup {c}
    /\ UNCHANGED <<state, rejections>>

Return(c) ==
    /\ c \in inFlight
    /\ inFlight' = inFlight \ {c}
    /\ UNCHANGED attempt

(* 204, or 200 with a decodable body. *)
PollAvailable(c) ==
    /\ Return(c)
    /\ Fenced(c, CommitAvailable)
    /\ rejections' = IF Current(c) THEN 0 ELSE rejections

(* 409 wrong_cluster that ParseRoutingCorrection accepts. *)
PollCorrected(c, corr) ==
    /\ Return(c)
    /\ Fenced(c, CommitCorrection(corr))
    /\ CountRejection(c)

(* Transport error other than caller cancellation, interrupted body, 408, 5xx. *)
PollDestinationFailed(c) ==
    /\ Return(c)
    /\ Fenced(c, CommitFailure(c))
    /\ CountRejection(c)

(* Cancellation, malformed JSON or correction, any other status: complete()
   is not called, or returns at once because it was told nothing. *)
PollUninformative(c) ==
    /\ Return(c)
    /\ UNCHANGED <<state, rejections>>

Next ==
    \E c \in Callers :
        \/ PollStart(c)
        \/ PollAvailable(c)
        \/ \E corr \in RoutingCorrection : PollCorrected(c, corr)
        \/ PollDestinationFailed(c)
        \/ PollUninformative(c)

Spec == Init /\ [][Next]_vars
-----------------------------------------------------------------------------
(* The cache stays within its declared shape: in particular both counters
   of pollRoutingState stay below maxRoutingFailures. *)
TypeOK ==
    /\ generation \in 0..MaxGeneration
    /\ token \in Tokens \cup {NoToken}
    /\ revision \in Nat
    /\ known \in BOOLEAN
    /\ acceptedToken \in Tokens \cup {NoToken}
    /\ failures \in 0..(maxRoutingFailures - 1)
    /\ corrections \in 0..(maxRoutingFailures - 1)
    /\ attempt \in [Callers -> routingAttempt]
    /\ inFlight \subseteq Callers
    /\ rejections \in Nat

(* The token a poll sends is the one accepted with the highest revision the
   client has seen, or none: rival and rolled-back tokens are never used. *)
SentTokenIsAccepted == token # NoToken => known /\ token = acceptedToken

(* What complete() relies on when it tests attempt.token instead of the
   state's own token: an attempt of the current generation carries it. *)
FreshAttemptCarriesToken ==
    \A c \in inFlight : Current(c) => attempt[c].token = token

(* Failures are counted against a cached destination only; once the token is
   evicted the count starts afresh. *)
NoFailuresWithoutToken == token = NoToken => failures = 0

(* However corrections and failures alternate, a cached placement survives
   fewer than maxRoutingFailures^2 consecutive rejections: then the client
   bootstraps without a token. *)
BootstrapBound ==
    /\ rejections <= maxRoutingFailures * corrections + failures
    /\ rejections < maxRoutingFailures * maxRoutingFailures

(* The revision watermark never rolls back, and the token accepted for a
   revision is never replaced at that revision, through evictions too. *)
WatermarkStep ==
    known => /\ known'
             /\ revision' >= revision
             /\ revision' = revision => acceptedToken' = acceptedToken

WatermarkMonotone == [][WatermarkStep]_vars

(* Only an answer to a poll that carried the cached token replaces or clears
   it: a late answer to a poll sent elsewhere, or sent before the placement
   moved, never does. *)
OwnAnswerStep ==
    token # NoToken /\ token' # token =>
        \E c \in inFlight \ inFlight' : attempt[c].token = token

OnlyOwnAnswerMovesToken == [][OwnAnswerStep]_vars

(* Answers that come out of order are harmless: they neither roll the policy
   revision back nor move a token they were not an answer to. *)
RoutingIsFenced == WatermarkMonotone /\ OnlyOwnAnswerMovesToken

(* Strengthening that makes the invariants inductive: no attempt is ahead of
   the state it was snapshotted from. *)
AttemptsNotAhead == \A c \in inFlight : attempt[c].generation <= generation

Inv == /\ TypeOK
       /\ SentTokenIsAccepted
       /\ FreshAttemptCarriesToken
       /\ NoFailuresWithoutToken
       /\ BootstrapBound
       /\ AttemptsNotAhead
=============================================================================
