-------------------------- MODULE ResponseDelivery --------------------------
(***************************************************************************)
(* Delivery of command responses to the tunnel-service: PostResponse       *)
(* (pkg/controlplane/internal/tunnel_service_client.go), called by the     *)
(* workers at the same time, and the DeliveryHealth counters they share    *)
(* (pkg/controlplane/health.go).                                           *)
(*                                                                         *)
(* An upload <<c, n>> is the n-th PostResponse of command c: a progress    *)
(* notification ("notify") or the terminal response ("final").  The        *)
(* service is external.  It enqueues every notification it receives for a  *)
(* pending command, takes the first terminal response and answers 404 once *)
(* the command is no longer pending; a request may reach it after the      *)
(* client has given the attempt up, and its answer may be lost.            *)
(***************************************************************************)
EXTENDS Naturals, FiniteSets

CONSTANTS Commands,
          MaxPosts,              \* bound: uploads per command
          responseRetryAttempts,
          Pending, Gone          \* not yet answered; no longer known to the service

ASSUME DeliveryAssumption ==
    /\ MaxPosts \in Nat /\ responseRetryAttempts \in Nat \ {0}
    /\ Pending # Gone /\ {Pending, Gone} \cap (Commands \X (1..MaxPosts)) = {}

Uploads == Commands \X (1..MaxPosts)

VARIABLES
    ctx,        \* of a command: "live", "canceled", "deadline" or "ttl"
    kind,       \* of an upload: "notify" or "final", "none" before it begins
    upload,     \* where PostResponse is: see UploadStates
    attempt,    \* the loop variable
    reply,      \* the status on its way back to the client
    outcome,    \* the disposition Finish records, "none" before it
    \* the service
    late,       \* requests written by attempts the client gave up, still travelling
    enqueued,   \* how often the service has enqueued the notification
    fulfilled,  \* of a command: the upload that answered it, Pending or Gone
    \* DeliveryHealth
    InProgress, Attempts, Retries, Completed, Accepted, TerminalFailures

UploadStates == {"none", "ready", "sending", "written", "answered", "waiting", "done"}
Statuses == {200, 400, 404, 429, 503}

healthVars == <<InProgress, Attempts, Retries, Completed, Accepted, TerminalFailures>>
serviceVars == <<late, enqueued, fulfilled>>
uploadVars == <<kind, upload, attempt, reply, outcome>>
deliveryVars == <<ctx, uploadVars, serviceVars, healthVars>>

InitDelivery ==
    /\ ctx = [c \in Commands |-> "live"]
    /\ kind = [u \in Uploads |-> "none"]
    /\ upload = [u \in Uploads |-> "none"]
    /\ attempt = [u \in Uploads |-> 0]
    /\ reply = [u \in Uploads |-> 0]
    /\ outcome = [u \in Uploads |-> "none"]
    /\ late = [u \in Uploads |-> 0]
    /\ enqueued = [u \in Uploads |-> 0]
    /\ fulfilled = [c \in Commands |-> Pending]
    /\ InProgress = 0 /\ Attempts = 0 /\ Retries = 0
    /\ Completed = 0 /\ Accepted = 0 /\ TerminalFailures = 0

----------------------------------------------------------------------------
(* PostResponse                                                            *)

isNotification(u) == kind[u] = "notify"

\* deliveryHealth.Begin, and the checks that return before any attempt: a response
\* that fails validation is one the attempt loop never sees.
BeginUpload(u, k, valid) ==
    /\ upload[u] = "none"
    /\ kind' = [kind EXCEPT ![u] = k]
    /\ IF valid
       THEN /\ upload' = [upload EXCEPT ![u] = "ready"]
            /\ attempt' = [attempt EXCEPT ![u] = 1]
            /\ InProgress' = InProgress + 1
            /\ UNCHANGED <<outcome, TerminalFailures>>
       ELSE /\ upload' = [upload EXCEPT ![u] = "done"]
            /\ outcome' = [outcome EXCEPT ![u] = "failed"]
            /\ TerminalFailures' = TerminalFailures + 1
            /\ UNCHANGED <<attempt, InProgress>>
    /\ UNCHANGED <<ctx, reply, serviceVars, Attempts, Retries, Completed, Accepted>>

\* deliveryHealth.Attempt and the start of client.Do; WroteRequest has not fired.
StartAttempt(u) ==
    /\ upload[u] = "ready"
    /\ upload' = [upload EXCEPT ![u] = "sending"]
    /\ Attempts' = Attempts + 1
    /\ Retries' = IF attempt[u] > 1 THEN Retries + 1 ELSE Retries
    /\ UNCHANGED <<ctx, kind, attempt, reply, outcome, serviceVars,
                   InProgress, Completed, Accepted, TerminalFailures>>

\* net/http reports the request written.
WroteRequest(u) ==
    /\ upload[u] = "sending" /\ ctx[u[1]] = "live"
    /\ upload' = [upload EXCEPT ![u] = "written"]
    /\ UNCHANGED <<ctx, kind, attempt, reply, outcome, serviceVars, healthVars>>

\* The deferred deliveryHealth.Finish.
FinishAs(u, disposition) ==
    /\ upload' = [upload EXCEPT ![u] = "done"]
    /\ outcome' = [outcome EXCEPT ![u] = disposition]
    /\ InProgress' = IF InProgress > 0 THEN InProgress - 1 ELSE 0
    /\ TerminalFailures' = IF disposition = "failed" THEN TerminalFailures + 1 ELSE TerminalFailures
    /\ Completed' = IF disposition \in {"accepted", "already"} THEN Completed + 1 ELSE Completed
    /\ Accepted' = IF disposition = "accepted" THEN Accepted + 1 ELSE Accepted

\* Another attempt after the back-off.
WaitToRetry(u) ==
    /\ upload' = [upload EXCEPT ![u] = "waiting"]
    /\ UNCHANGED <<outcome, InProgress, Completed, Accepted, TerminalFailures>>

\* An error that is context.Canceled is recorded as a cancellation.
Failure(u) == IF ctx[u[1]] = "canceled" THEN "canceled" ELSE "failed"

\* Mutant: only an answer marks the request as written.
requestAnswered(u) == upload[u] = "answered"

\* requestWritten is set once WroteRequest has fired for this attempt.
requestWritten(u) == upload[u] \in {"written", "answered"}

retriesTransport(u) ==
    attempt[u] # responseRetryAttempts /\ ~(isNotification(u) /\ requestWritten(u))

isRetryableResponseStatus(s) == s \in {429, 503}

retriesStatus(u) ==
    /\ isRetryableResponseStatus(reply[u])
    /\ attempt[u] # responseRetryAttempts
    /\ isNotification(u) => reply[u] = 429

\* client.Do returns an error: the connection broke, the client's timeout fired or
\* ctx ended.  A request already written may still reach the service.
TransportFails(u) ==
    /\ upload[u] \in {"sending", "written", "answered"}
    /\ late' = IF upload[u] = "written" THEN [late EXCEPT ![u] = @ + 1] ELSE late
    /\ reply' = [reply EXCEPT ![u] = 0]
    /\ IF retriesTransport(u) THEN WaitToRetry(u) ELSE FinishAs(u, Failure(u))
    /\ UNCHANGED <<ctx, kind, attempt, enqueued, fulfilled, Attempts, Retries>>

\* client.Do returns a response.
ReplyArrives(u) ==
    /\ upload[u] = "answered"
    /\ reply' = [reply EXCEPT ![u] = 0]
    /\ CASE reply[u] = 200 -> FinishAs(u, "accepted")
         [] reply[u] = 404 -> FinishAs(u, "already")
         [] OTHER -> IF retriesStatus(u) THEN WaitToRetry(u) ELSE FinishAs(u, "failed")
    /\ UNCHANGED <<ctx, kind, attempt, serviceVars, Attempts, Retries>>

\* waitForRetry returns true: the loop goes round.
RetryWaited(u) ==
    /\ upload[u] = "waiting"
    /\ upload' = [upload EXCEPT ![u] = "ready"]
    /\ attempt' = [attempt EXCEPT ![u] = @ + 1]
    /\ UNCHANGED <<ctx, kind, reply, outcome, serviceVars, healthVars>>

\* waitForRetry returns false: ctx ended first.
RetryAborted(u) ==
    /\ upload[u] = "waiting" /\ ctx[u[1]] # "live"
    /\ FinishAs(u, Failure(u))
    /\ UNCHANGED <<ctx, kind, attempt, reply, serviceVars, Attempts, Retries>>

Client(u) == \/ StartAttempt(u) \/ WroteRequest(u) \/ TransportFails(u)
             \/ ReplyArrives(u) \/ RetryWaited(u) \/ RetryAborted(u)

----------------------------------------------------------------------------
(* The tunnel-service                                                      *)

\* What the service does with a request it takes for a pending command.
Take(u) ==
    /\ fulfilled[u[1]] = Pending
    /\ IF isNotification(u)
       THEN /\ enqueued' = [enqueued EXCEPT ![u] = @ + 1]
            /\ UNCHANGED fulfilled
       ELSE /\ fulfilled' = [fulfilled EXCEPT ![u[1]] = u]
            /\ UNCHANGED enqueued

\* 200 is a request it took, 404 a command no longer pending; 400 and 429 refuse the
\* request, and 503 leaves open whether it was taken.
ServiceAnswers(u, s) ==
    /\ upload[u] = "written"
    /\ \/ s \in {200, 503} /\ Take(u)
       \/ s = 404 /\ fulfilled[u[1]] # Pending /\ UNCHANGED <<enqueued, fulfilled>>
       \/ s \in {400, 429, 503} /\ UNCHANGED <<enqueued, fulfilled>>
    /\ upload' = [upload EXCEPT ![u] = "answered"]
    /\ reply' = [reply EXCEPT ![u] = s]
    /\ UNCHANGED <<ctx, kind, attempt, outcome, late, healthVars>>

LateArrival(u) ==
    /\ late[u] > 0
    /\ late' = [late EXCEPT ![u] = @ - 1]
    /\ Take(u) \/ UNCHANGED <<enqueued, fulfilled>>
    /\ UNCHANGED <<ctx, uploadVars, healthVars>>

\* The caller went away, or another client answered.
ServiceForgets(c) ==
    /\ fulfilled[c] = Pending
    /\ fulfilled' = [fulfilled EXCEPT ![c] = Gone]
    /\ UNCHANGED <<ctx, uploadVars, late, enqueued, healthVars>>

Service == \/ \E u \in Uploads : LateArrival(u) \/ \E s \in Statuses : ServiceAnswers(u, s)
           \/ \E c \in Commands : ServiceForgets(c)

\* The process stops or the response deadline passes.
ContextEnds(c, why) ==
    /\ ctx[c] = "live"
    /\ ctx' = [ctx EXCEPT ![c] = why]
    /\ UNCHANGED <<uploadVars, serviceVars, healthVars>>

----------------------------------------------------------------------------
(* The uploads of a command follow one another; the terminal one is last.  *)

DeliveryNext ==
        \/ \E u \in Uploads, k \in {"notify", "final"}, valid \in BOOLEAN :
             /\ \A n \in 1..(u[2] - 1) : upload[<<u[1], n>>] = "done" /\ kind[<<u[1], n>>] = "notify"
             /\ BeginUpload(u, k, valid)
        \/ \E u \in Uploads : Client(u)
        \/ Service
        \/ \E c \in Commands, why \in {"canceled", "deadline", "ttl"} : ContextEnds(c, why)

DeliverySpec == InitDelivery /\ [][DeliveryNext]_deliveryVars

----------------------------------------------------------------------------
(* Properties                                                              *)

(* The types of the state.  attempt never passes responseRetryAttempts and  *)
(* no counter runs ahead of the uploads it counts, for the loop of          *)
(* PostResponse and the deferred Finish.                                    *)
DeliveryTypeOK ==
    /\ ctx \in [Commands -> {"live", "canceled", "deadline", "ttl"}]
    /\ kind \in [Uploads -> {"none", "notify", "final"}]
    /\ upload \in [Uploads -> UploadStates]
    /\ attempt \in [Uploads -> 0..responseRetryAttempts]
    /\ reply \in [Uploads -> Statuses \cup {0}]
    /\ outcome \in [Uploads -> {"none", "accepted", "already", "failed", "canceled"}]
    /\ late \in [Uploads -> Nat] /\ enqueued \in [Uploads -> Nat]
    /\ fulfilled \in [Commands -> Uploads \cup {Pending, Gone}]
    /\ InProgress \in Nat /\ Attempts \in Nat /\ Retries \in Nat
    /\ Completed \in Nat /\ Accepted \in Nat /\ TerminalFailures \in Nat

(* The service enqueues a progress notification at most once, whatever is   *)
(* lost, late or refused: PostResponse replays one only when the request    *)
(* was not written or was refused with 429 (the comment on requestWritten). *)
NotificationAtMostOnce == \A u \in Uploads : enqueued[u] <= 1

\* Every copy of a notification that the service has, or may yet get.
Copies(u) == enqueued[u] + late[u] + (IF upload[u] = "written" THEN 1 ELSE 0)

(* The strengthening: there is never a second copy on its way, and none at  *)
(* all while another attempt may follow.                                    *)
OneCopy ==
    \A u \in Uploads : kind[u] # "final" =>
        /\ Copies(u) <= 1
        /\ upload[u] \in {"none", "ready", "sending", "waiting"} => Copies(u) = 0
        /\ (upload[u] = "answered" /\ reply[u] = 429) => Copies(u) = 0

NoCopiesOfFinal == \A u \in Uploads : kind[u] # "notify" => enqueued[u] = 0

(* The worker is told that its terminal response was accepted only if that  *)
(* very response answered the command, and that the command needs no more   *)
(* answers (404) only if the command is no longer pending.                  *)
AcceptedIsDelivered ==
    \A u \in Uploads :
        /\ (kind[u] = "final" /\ outcome[u] = "accepted") => fulfilled[u[1]] = u
        /\ outcome[u] = "already" => fulfilled[u[1]] # Pending

Ended(d) == Cardinality({u \in Uploads : outcome[u] \in d})

(* The health counters describe the uploads exactly at every moment, with   *)
(* any number of workers in PostResponse: the gauge equals the uploads in   *)
(* the loop, and every finished upload is counted once under its            *)
(* disposition.                                                             *)
HealthIsExact ==
    /\ InProgress = Cardinality({u \in Uploads : upload[u] \notin {"none", "done"}})
    /\ Accepted = Ended({"accepted"})
    /\ Completed = Ended({"accepted", "already"})
    /\ TerminalFailures = Ended({"failed"})
    /\ Attempts - Retries =
         Cardinality({u \in Uploads : attempt[u] > 1 \/ (attempt[u] = 1 /\ upload[u] # "ready")})

(* PostResponse gives a well-formed terminal response up only when the     *)
(* service refused it for good, every attempt was used or the context       *)
(* ended: what keeps a notification from being replayed never costs the     *)
(* command its answer.                                                      *)
GiveUpStep ==
    \A u \in Uploads :
        (/\ kind[u] = "final" /\ outcome[u] = "none"
         /\ outcome'[u] \in {"failed", "canceled"}) =>
            \/ attempt[u] = responseRetryAttempts
            \/ ctx[u[1]] # "live"
            \/ upload[u] = "answered" /\ reply[u] = 400

GivesUpOnlyWhenDue == [][GiveUpStep]_deliveryVars
=============================================================================
