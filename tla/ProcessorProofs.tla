-------------------------- MODULE ProcessorProofs --------------------------
(***************************************************************************)
(* What the processor and the delivery of its responses guarantee for any  *)
(* number of commands, uploads and attempts.  Of the delivery: a progress  *)
(* notification is enqueued at most once, what a worker is told of an      *)
(* upload is true, and the health counters are exact.  Of the processor:   *)
(* it uses the delivery as it must (Spec implements DeliverySpec), each    *)
(* command gets its notifications in order and then one terminal response, *)
(* and the fate of its connection follows the response that was read.      *)
(***************************************************************************)
EXTENDS Processor, TLAPS

-----------------------------------------------------------------------------
(* Copies of a notification.                                               *)

\* The part of DeliveryTypeOK that the argument needs.
Types ==
    /\ kind \in [Uploads -> {"none", "notify", "final"}]
    /\ upload \in [Uploads -> UploadStates]
    /\ reply \in [Uploads -> Statuses \cup {0}]
    /\ late \in [Uploads -> Nat] /\ enqueued \in [Uploads -> Nat]

\* Before an upload begins it has no kind, and the service has not heard of it.
Unbegun == \A u \in Uploads : (upload[u] = "none") <=> (kind[u] = "none")

DeliveryInv == Types /\ Unbegun /\ OneCopy /\ NoCopiesOfFinal

USE DEF Uploads

(* The initial state satisfies the invariant. *)
LEMMA DeliveryInvInit == InitDelivery => DeliveryInv
  BY DEF InitDelivery, DeliveryInv, Types, Unbegun, OneCopy, NoCopiesOfFinal, Copies,
         UploadStates, Statuses

(* A step of PostResponse keeps the invariant: BeginUpload starts without   *)
(* copies, WroteRequest makes the only one, and retriesTransport and        *)
(* retriesStatus let another attempt follow only when there is none.        *)
LEMMA ClientInv ==
  ASSUME DeliveryInv, NEW u \in Uploads, Client(u)
  PROVE  DeliveryInv'
<1> USE DEF DeliveryInv, UploadStates, Statuses
<1>1. CASE StartAttempt(u)
  BY <1>1 DEF StartAttempt, serviceVars, Types, Unbegun, OneCopy, NoCopiesOfFinal, Copies
<1>2. CASE WroteRequest(u)
  BY <1>2 DEF WroteRequest, serviceVars, Types, Unbegun, OneCopy, NoCopiesOfFinal, Copies
<1>3. CASE TransportFails(u)
  BY <1>3 DEF TransportFails, WaitToRetry, FinishAs, retriesTransport, isNotification,
              requestWritten, Types, Unbegun, OneCopy, NoCopiesOfFinal, Copies
<1>4. CASE ReplyArrives(u)
  BY <1>4 DEF ReplyArrives, WaitToRetry, FinishAs, retriesStatus, isNotification,
              isRetryableResponseStatus, serviceVars, Types, Unbegun, OneCopy,
              NoCopiesOfFinal, Copies
<1>5. CASE RetryWaited(u)
  BY <1>5 DEF RetryWaited, serviceVars, Types, Unbegun, OneCopy, NoCopiesOfFinal, Copies
<1>6. CASE RetryAborted(u)
  BY <1>6 DEF RetryAborted, FinishAs, serviceVars, Types, Unbegun, OneCopy,
              NoCopiesOfFinal, Copies
<1> QED BY <1>1, <1>2, <1>3, <1>4, <1>5, <1>6 DEF Client

(* What the service takes is a copy already counted. *)
LEMMA ServiceInv ==
  ASSUME DeliveryInv, Service
  PROVE  DeliveryInv'
<1> USE DEF DeliveryInv, UploadStates, Statuses
<1>1. CASE \E u \in Uploads : LateArrival(u)
  <2>1. PICK u \in Uploads : LateArrival(u) BY <1>1
  <2> QED BY <2>1 DEF LateArrival, Take, isNotification, uploadVars, Types, Unbegun,
                      OneCopy, NoCopiesOfFinal, Copies
<1>2. CASE \E u \in Uploads, s \in Statuses : ServiceAnswers(u, s)
  <2>1. PICK u \in Uploads, s \in Statuses : ServiceAnswers(u, s) BY <1>2
  <2>2. Types' /\ Unbegun' /\ kind' = kind /\ late' = late
    BY <2>1 DEF ServiceAnswers, Take, Types, Unbegun
  <2>3. CASE s \in {200, 503} /\ Take(u)
    <3>1. CASE isNotification(u)
      BY <2>1, <2>2, <2>3, <3>1 DEF ServiceAnswers, Take, isNotification, Types, OneCopy,
                                    NoCopiesOfFinal, Copies
    <3>2. CASE ~isNotification(u)
      BY <2>1, <2>2, <2>3, <3>2 DEF ServiceAnswers, Take, isNotification, Types, OneCopy,
                                    NoCopiesOfFinal, Copies
    <3> QED BY <3>1, <3>2
  <2>4. CASE enqueued' = enqueued
    <3>1. upload' = [upload EXCEPT ![u] = "answered"] /\ reply' = [reply EXCEPT ![u] = s]
      BY <2>1 DEF ServiceAnswers
    <3>2. NoCopiesOfFinal'
      BY <2>2, <2>4 DEF NoCopiesOfFinal
    <3>3. ASSUME NEW v \in Uploads, kind[v] # "final", v # u
          PROVE  Copies(v)' = Copies(v) /\ upload'[v] = upload[v] /\ reply'[v] = reply[v]
      BY <2>2, <2>4, <3>1, <3>3 DEF Types, Copies
    <3>4. kind[u] # "final" => Copies(u)' = 0
      BY <2>1, <2>2, <2>4, <3>1 DEF ServiceAnswers, Types, OneCopy, Copies
    <3>5. OneCopy'
      BY <2>2, <3>1, <3>3, <3>4 DEF OneCopy, Types
    <3> QED BY <2>2, <3>2, <3>5
  <2> QED BY <2>1, <2>3, <2>4 DEF ServiceAnswers
<1>3. CASE \E c \in Commands : ServiceForgets(c)
  BY <1>3 DEF ServiceForgets, uploadVars, Types, Unbegun, OneCopy, NoCopiesOfFinal, Copies
<1> QED BY <1>1, <1>2, <1>3 DEF Service

(* Every step keeps the invariant. *)
LEMMA DeliveryInvStep == DeliveryInv /\ [DeliveryNext]_deliveryVars => DeliveryInv'
<1> SUFFICES ASSUME DeliveryInv, [DeliveryNext]_deliveryVars PROVE DeliveryInv'
  OBVIOUS
<1>1. CASE \E u \in Uploads, k \in {"notify", "final"}, valid \in BOOLEAN : BeginUpload(u, k, valid)
  <2>1. PICK u \in Uploads, k \in {"notify", "final"}, valid \in BOOLEAN : BeginUpload(u, k, valid)
    BY <1>1
  <2> QED BY <2>1 DEF BeginUpload, serviceVars, DeliveryInv, UploadStates, Statuses, Types,
                      Unbegun, OneCopy, NoCopiesOfFinal, Copies
<1>2. CASE \E u \in Uploads : Client(u)
  BY <1>2, ClientInv
<1>3. CASE Service
  BY <1>3, ServiceInv
<1>4. CASE \E c \in Commands, why \in {"canceled", "deadline", "ttl"} : ContextEnds(c, why)
  BY <1>4 DEF ContextEnds, uploadVars, serviceVars, DeliveryInv, Types, Unbegun, OneCopy,
              NoCopiesOfFinal, Copies
<1>5. CASE UNCHANGED deliveryVars
  BY <1>5 DEF deliveryVars, uploadVars, serviceVars, DeliveryInv, Types, Unbegun, OneCopy,
              NoCopiesOfFinal, Copies
<1> QED BY <1>1, <1>2, <1>3, <1>4, <1>5 DEF DeliveryNext

(* The service enqueues every progress notification at most once, for every *)
(* set of commands, number of uploads and number of attempts.               *)
THEOREM NotificationAtMostOnceThm == DeliverySpec => []NotificationAtMostOnce
<1>1. DeliveryInv => NotificationAtMostOnce
  BY DEF DeliveryInv, Types, OneCopy, NoCopiesOfFinal, Copies, NotificationAtMostOnce
<1> QED BY <1>1, DeliveryInvInit, DeliveryInvStep, PTL DEF DeliverySpec

HIDE DEF Uploads

(* An upload is a command and a number. *)
LEMMA UploadParts ==
  /\ \A u \in Uploads : u[1] \in Commands /\ u[2] \in 1..MaxPosts /\ u = <<u[1], u[2]>>
  /\ \A c \in Commands, n \in 1..MaxPosts : <<c, n>> \in Uploads
BY DEF Uploads

-----------------------------------------------------------------------------
(* What a worker is told of an upload.                                     *)

Dispositions == {"none", "accepted", "already", "failed", "canceled"}

(* Finish records a disposition when PostResponse returns, and only then. *)
Outcomes ==
    /\ outcome \in [Uploads -> Dispositions]
    /\ \A u \in Uploads : (outcome[u] = "none") <=> (upload[u] # "done")

(* An answer on its way, or already recorded, is true of the service. *)
Fulfilment ==
    /\ fulfilled \in [Commands -> Uploads \cup {Pending, Gone}]
    /\ \A u \in Uploads :
         /\ upload[u] = "answered" => reply[u] # 0
         /\ (kind[u] = "final" /\ ((upload[u] = "answered" /\ reply[u] = 200)
                                     \/ outcome[u] = "accepted")) => fulfilled[u[1]] = u
         /\ ((upload[u] = "answered" /\ reply[u] = 404) \/ outcome[u] = "already") =>
               fulfilled[u[1]] # Pending

(* No request of a notification is travelling once its delivery is certain. *)
NothingLate ==
    \A u \in Uploads : (kind[u] = "notify" /\ (upload[u] = "answered"
                          \/ outcome[u] \in {"accepted", "already"})) => late[u] = 0

(* What the worker is told is true: the inductive invariant of the dispositions. *)
ToldInv == DeliveryInv /\ Outcomes /\ Fulfilment /\ NothingLate

(* Nothing has been told at the start. *)
LEMMA ToldInit == InitDelivery => ToldInv
<1> SUFFICES ASSUME InitDelivery PROVE ToldInv
  OBVIOUS
<1>1. DeliveryInv
  BY DeliveryInvInit
<1>2. Outcomes
  BY DEF InitDelivery, Outcomes, Dispositions
<1>3. Fulfilment
  BY DEF InitDelivery, Fulfilment
<1>4. NothingLate
  BY DEF InitDelivery, NothingLate
<1> QED
  BY <1>1, <1>2, <1>3, <1>4 DEF ToldInv

(* The service changes a command's fate once. *)
LEMMA FateIsFinal ==
  ASSUME ToldInv, fulfilled' \in [Commands -> Uploads \cup {Pending, Gone}],
         \A c \in Commands : fulfilled[c] # Pending => fulfilled'[c] = fulfilled[c]
  PROVE  \A u \in Uploads : /\ fulfilled[u[1]] = u => fulfilled'[u[1]] = u
                            /\ fulfilled[u[1]] # Pending => fulfilled'[u[1]] # Pending
BY UploadParts, DeliveryAssumption DEF Uploads

(* A step of PostResponse tells the truth. *)
LEMMA ToldByClient ==
  ASSUME ToldInv, NEW u \in Uploads, Client(u)
  PROVE  Outcomes' /\ Fulfilment' /\ NothingLate'
<1> USE DEF ToldInv, DeliveryInv, Types, UploadStates, Statuses, Outcomes, Fulfilment, NothingLate,
            Dispositions
<1>1. CASE StartAttempt(u)
  BY <1>1 DEF StartAttempt, serviceVars
<1>2. CASE WroteRequest(u)
  BY <1>2 DEF WroteRequest, serviceVars
<1>3. CASE TransportFails(u)
  <2>1. CASE retriesTransport(u)
    BY <1>3, <2>1 DEF TransportFails, WaitToRetry
  <2>2. CASE ~retriesTransport(u)
    BY <1>3, <2>2 DEF TransportFails, FinishAs, Failure
  <2> QED BY <2>1, <2>2, ZenonT(30)
<1>4. CASE ReplyArrives(u)
  <2>1. CASE reply[u] \in {200, 404}
    BY <1>4, <2>1 DEF ReplyArrives, FinishAs, serviceVars
  <2>2. CASE reply[u] \notin {200, 404}
    BY <1>4, <2>2 DEF ReplyArrives, WaitToRetry, FinishAs, serviceVars
  <2> QED BY <2>1, <2>2, ZenonT(30)
<1>5. CASE RetryWaited(u)
  BY <1>5 DEF RetryWaited, serviceVars
<1>6. CASE RetryAborted(u)
  BY <1>6 DEF RetryAborted, FinishAs, Failure, serviceVars
<1> QED BY <1>1, <1>2, <1>3, <1>4, <1>5, <1>6, ZenonT(30) DEF Client

(* A request the service takes, refuses or forgets makes no earlier answer *)
(* wrong.                                                                  *)
LEMMA ToldByService ==
  ASSUME ToldInv, Service
  PROVE  Outcomes' /\ Fulfilment' /\ NothingLate'
<1>1. /\ kind' = kind /\ outcome' = outcome
      /\ fulfilled' \in [Commands -> Uploads \cup {Pending, Gone}]
      /\ \A c \in Commands : fulfilled[c] # Pending => fulfilled'[c] = fulfilled[c]
  BY UploadParts DEF Service, LateArrival, ServiceAnswers, ServiceForgets, Take, uploadVars,
                     ToldInv, Fulfilment
<1>2. \A u \in Uploads : /\ fulfilled[u[1]] = u => fulfilled'[u[1]] = u
                         /\ fulfilled[u[1]] # Pending => fulfilled'[u[1]] # Pending
  BY <1>1, FateIsFinal
<1>3. CASE UNCHANGED <<upload, reply>> /\ \A u \in Uploads : late[u] = 0 => late'[u] = 0
  BY <1>1, <1>2, <1>3, ZenonT(60) DEF ToldInv, Outcomes, Fulfilment, NothingLate
<1>4. ASSUME NEW u \in Uploads, LateArrival(u)
      PROVE  UNCHANGED <<upload, reply>> /\ \A v \in Uploads : late[v] = 0 => late'[v] = 0
  BY <1>4 DEF LateArrival, uploadVars, ToldInv, DeliveryInv, Types
<1>5. ASSUME NEW c \in Commands, ServiceForgets(c)
      PROVE  UNCHANGED <<upload, reply, late>>
  BY <1>5 DEF ServiceForgets, uploadVars
<1>6. ASSUME NEW u \in Uploads, NEW s \in Statuses, ServiceAnswers(u, s)
      PROVE  Outcomes' /\ Fulfilment' /\ NothingLate'
  <2>1. /\ upload[u] = "written" /\ late' = late
        /\ upload' = [upload EXCEPT ![u] = "answered"] /\ reply' = [reply EXCEPT ![u] = s]
    BY <1>6 DEF ServiceAnswers
  <2>2. kind[u] \in {"notify", "final"} /\ late[u] \in Nat
    BY <2>1 DEF ToldInv, DeliveryInv, Types, Unbegun
  <2>3. kind[u] = "notify" => late[u] = 0
    BY <2>1, <2>2 DEF ToldInv, DeliveryInv, Types, OneCopy, Copies
  <2>4. s # 0
    BY DEF Statuses
  <2>5. kind[u] = "final" /\ s = 200 => fulfilled'[u[1]] = u
    BY <1>6, UploadParts DEF ServiceAnswers, Take, isNotification, ToldInv, Fulfilment
  <2>6. s = 404 => fulfilled'[u[1]] # Pending
    BY <1>6, <1>2 DEF ServiceAnswers
  <2>7. Outcomes'
    BY <1>1, <2>1 DEF ToldInv, DeliveryInv, Types, Outcomes
  <2>8. Fulfilment'
    BY <1>1, <1>2, <2>1, <2>4, <2>5, <2>6 DEF ToldInv, DeliveryInv, Types, Outcomes, Fulfilment
  <2>9. NothingLate'
    BY <1>1, <2>1, <2>3, Zenon DEF ToldInv, DeliveryInv, Types, NothingLate
  <2> QED BY <2>7, <2>8, <2>9
<1> QED BY <1>3, <1>4, <1>5, <1>6 DEF Service

(* Every step keeps what workers were told true. *)
LEMMA ToldStep == ToldInv /\ [DeliveryNext]_deliveryVars => ToldInv'
<1> SUFFICES ASSUME ToldInv, [DeliveryNext]_deliveryVars PROVE ToldInv'
  OBVIOUS
<1>1. DeliveryInv'
  BY DeliveryInvStep DEF ToldInv
<1> SUFFICES Outcomes' /\ Fulfilment' /\ NothingLate'
  BY <1>1 DEF ToldInv
<1>2. ASSUME NEW u \in Uploads, NEW k \in {"notify", "final"}, NEW valid \in BOOLEAN,
             BeginUpload(u, k, valid)
      PROVE  Outcomes' /\ Fulfilment' /\ NothingLate'
  BY <1>2 DEF BeginUpload, serviceVars, ToldInv, DeliveryInv, Types, UploadStates, Unbegun,
              Outcomes, Fulfilment, NothingLate, Dispositions
<1>3. ASSUME NEW c \in Commands, NEW why \in {"canceled", "deadline", "ttl"}, ContextEnds(c, why)
      PROVE  Outcomes' /\ Fulfilment' /\ NothingLate'
  BY <1>3, ZenonT(30) DEF ContextEnds, uploadVars, serviceVars, ToldInv, Outcomes, Fulfilment, NothingLate
<1>4. CASE UNCHANGED deliveryVars
  BY <1>4, ZenonT(30) DEF deliveryVars, uploadVars, serviceVars, ToldInv, Outcomes, Fulfilment, NothingLate
<1> QED BY <1>2, <1>3, <1>4, ToldByClient, ToldByService, Zenon DEF DeliveryNext

(* A terminal response is reported accepted only if it answered the command, *)
(* and a command is reported as needing no answer only if it is answered or  *)
(* forgotten (the statuses 200 and 404 in PostResponse).                     *)
THEOREM AcceptedIsDeliveredThm == DeliverySpec => []AcceptedIsDelivered
<1>1. ToldInv => AcceptedIsDelivered
  BY Zenon DEF ToldInv, Fulfilment, AcceptedIsDelivered
<1> QED BY <1>1, ToldInit, ToldStep, PTL DEF DeliverySpec

(* PostResponse gives a valid terminal response up only when the attempts  *)
(* are used up, the context ended or the service refused it for good.      *)
THEOREM GivesUpOnlyWhenDueThm == DeliverySpec => GivesUpOnlyWhenDue
<1>1. ToldInv /\ [DeliveryNext]_deliveryVars => [GiveUpStep]_deliveryVars
  <2> SUFFICES ASSUME ToldInv, DeliveryNext, NEW v \in Uploads, kind[v] = "final",
                      outcome[v] = "none", outcome'[v] \in {"failed", "canceled"}
               PROVE  \/ attempt[v] = responseRetryAttempts
                      \/ ctx[v[1]] # "live"
                      \/ upload[v] = "answered" /\ reply[v] = 400
    BY ZenonT(30) DEF GiveUpStep
  <2> USE DEF ToldInv, DeliveryInv, Types, Outcomes
  <2>1. ASSUME NEW u \in Uploads, NEW k \in {"notify", "final"}, NEW valid \in BOOLEAN,
               BeginUpload(u, k, valid)
        PROVE  FALSE
    BY <2>1, Zenon DEF BeginUpload, Unbegun
  <2>2. ASSUME NEW u \in Uploads, Client(u)
        PROVE  \/ attempt[v] = responseRetryAttempts
               \/ ctx[v[1]] # "live"
               \/ upload[v] = "answered" /\ reply[v] = 400
    <3>1. u = v
      BY <2>2, ZenonT(60) DEF Client, StartAttempt, WroteRequest, TransportFails, ReplyArrives,
                  RetryWaited, RetryAborted, WaitToRetry, FinishAs
    <3>2. CASE TransportFails(v)
      BY <3>2, Zenon DEF TransportFails, WaitToRetry, retriesTransport, isNotification
    <3>3. CASE ReplyArrives(v)
      <4>1. upload[v] = "answered" /\ reply[v] \in Statuses
        BY <3>3 DEF ReplyArrives, Fulfilment
      <4>2. reply[v] \notin {200, 404} /\ ~retriesStatus(v)
        BY <3>3, <4>1 DEF ReplyArrives, WaitToRetry, FinishAs
      <4> QED BY <4>1, <4>2, ZenonT(30) DEF retriesStatus, isRetryableResponseStatus, isNotification, Statuses
    <3>4. CASE RetryAborted(v)
      BY <3>4, Zenon DEF RetryAborted
    <3> QED BY <2>2, <3>1, <3>2, <3>3, <3>4, Zenon DEF Client, StartAttempt, WroteRequest, RetryWaited
  <2>3. ~Service /\ \A c \in Commands, why \in {"canceled", "deadline", "ttl"} : ~ContextEnds(c, why)
    BY Zenon DEF Service, LateArrival, ServiceAnswers, ServiceForgets, ContextEnds, uploadVars
  <2> QED BY <2>1, <2>2, <2>3 DEF DeliveryNext
<1> QED BY <1>1, ToldInit, ToldStep, PTL DEF DeliverySpec, GivesUpOnlyWhenDue

-----------------------------------------------------------------------------
(* The worker of a command.                                                *)

\* Where Process has posted nothing.
Unposted == {"start", "connecting", "connected", "writing", "fetching", "terminating"}

Contexts == {"live", "canceled", "deadline", "ttl"}

ProcessorTypes ==
    /\ posts \in [Commands -> 0..MaxPosts] /\ pc \in [Commands -> Places]
    /\ conn \in [Commands -> {"none", "open", "closed", "retired"}]
    /\ ctx \in [Commands -> Contexts] /\ shape \in [Commands -> Shapes]

Booleans ==
    /\ shared \in [Commands -> BOOLEAN] /\ unencodable \in [Commands -> BOOLEAN]
    /\ mcpResponseReceived \in [Commands -> BOOLEAN]
    /\ notificationForwardingEnabled \in [Commands -> BOOLEAN]

(* The posts of a command are numbered without a gap, and all but the last *)
(* are finished notifications.                                             *)
Sequence(c) ==
    /\ \A n \in 1..MaxPosts : (upload[<<c, n>>] = "none") <=> (n > posts[c])
    /\ \A n \in 1..MaxPosts : n < posts[c] => upload[<<c, n>>] = "done" /\ kind[<<c, n>>] = "notify"
    /\ pc[c] \in Unposted => posts[c] = 0
    /\ pc[c] = "reading" =>
         \A n \in 1..MaxPosts : n <= posts[c] => upload[<<c, n>>] = "done" /\ kind[<<c, n>>] = "notify"
    /\ pc[c] = "notifying" => posts[c] > 0 /\ kind[<<c, posts[c]>>] = "notify"
    /\ pc[c] \in {"replying", "ending"} => posts[c] > 0 /\ kind[<<c, posts[c]>>] = "final"

(* A notification is posted only after the delivery of all earlier ones is *)
(* certain.                                                                *)
Order(c) ==
    /\ \A m, n \in 1..MaxPosts : m < n /\ kind[<<c, n>>] = "notify" =>
         outcome[<<c, m>>] \in {"accepted", "already"}
    /\ pc[c] = "reading" /\ notificationForwardingEnabled[c] =>
         \A n \in 1..MaxPosts : n <= posts[c] => outcome[<<c, n>>] \in {"accepted", "already"}

(* The connection is open while it is in use; what is left of it. *)
Link(c) ==
    /\ mcpResponseReceived[c] => pc[c] \in {"replying", "forwarded"}
    /\ pc[c] \in {"connected", "writing", "reading", "notifying", "replying"} => conn[c] = "open"
    /\ pc[c] = "forwarded" /\ ~mcpResponseReceived[c] => conn[c] # "open"
    /\ shared[c] /\ mcpResponseReceived[c] => conn[c] = "open"

(* Why Process may return. *)
Reason(c) ==
    /\ pc[c] = "fetching" => shape[c] = "oauth"
    /\ pc[c] \in {"done", "forwarded"} =>
         \/ ctx[c] # "live"
         \/ shape[c] \in {"unusable", "oauth"}
         \/ unencodable[c]
         \/ posts[c] > 0 /\ kind[<<c, posts[c]>>] = "final"

CommandInv(c) == Sequence(c) /\ Order(c) /\ Link(c) /\ Reason(c)

(* What the service enqueued for a command, it enqueued in order. *)
SeenInv ==
    /\ seen \in [Commands -> Seq(1..MaxPosts)]
    /\ \A c \in Commands : \A i \in 1..Len(seen[c]) : enqueued[<<c, seen[c][i]>>] > 0
    /\ NotificationsInOrder

(* The inductive invariant of the processor: what each worker has posted,  *)
(* the connection it holds, and what the service has seen of its posts.    *)
ProcessorInv ==
    /\ ToldInv /\ ProcessorTypes /\ Booleans
    /\ \A c \in Commands : CommandInv(c)
    /\ SeenInv

(* The workers start with nothing posted. *)
LEMMA ProcessorInit == Init => ProcessorInv
<1> SUFFICES ASSUME Init PROVE ProcessorInv
  OBVIOUS
<1>1. ToldInv
  BY ToldInit DEF Init
<1>2. ProcessorTypes
  BY DeliveryAssumption DEF Init, InitDelivery, ProcessorTypes, Places, Contexts
<1>3. Booleans
  BY DEF Init, Booleans
<1>4. ASSUME NEW c \in Commands PROVE CommandInv(c)
  BY UploadParts, DeliveryAssumption
     DEF Init, InitDelivery, CommandInv, Sequence, Order, Link, Reason, Unposted
<1>5. SeenInv
  BY DEF Init, SeenInv, NotificationsInOrder
<1> QED BY <1>1, <1>2, <1>3, <1>4, <1>5 DEF ProcessorInv

(* An upload goes on; what it was and what became of it stays. *)
Progress(v) ==
    /\ kind'[v] = kind[v] /\ (upload'[v] = "none" <=> upload[v] = "none")
    /\ upload[v] = "done" => upload'[v] = "done"
    /\ outcome[v] # "none" => outcome'[v] = outcome[v]

(* The steps of PostResponse and of the service move uploads onward. *)
LEMMA UploadsProgress ==
  ASSUME ToldInv, (\E u \in Uploads : Client(u)) \/ Service
  PROVE  ctx' = ctx /\ \A v \in Uploads : Progress(v)
<1>1. ASSUME NEW u \in Uploads, Client(u)
      PROVE  ctx' = ctx /\ \A v \in Uploads : Progress(v)
  <2>1. /\ upload \in [Uploads -> UploadStates] /\ outcome \in [Uploads -> Dispositions]
        /\ outcome[u] = "none" <=> upload[u] # "done"
    BY Zenon DEF ToldInv, DeliveryInv, Types, Outcomes
  <2>2. CASE StartAttempt(u) \/ WroteRequest(u) \/ RetryWaited(u)
    BY <2>1, <2>2 DEF StartAttempt, WroteRequest, RetryWaited, Progress
  <2>3. CASE TransportFails(u)
    BY <2>1, <2>3 DEF TransportFails, WaitToRetry, FinishAs, Progress
  <2>4. CASE ReplyArrives(u)
    BY <2>1, <2>4 DEF ReplyArrives, WaitToRetry, FinishAs, Progress
  <2>5. CASE RetryAborted(u)
    BY <2>1, <2>5 DEF RetryAborted, FinishAs, Progress
  <2> QED BY <1>1, <2>2, <2>3, <2>4, <2>5, Zenon DEF Client
<1>2. CASE Service
  BY <1>2 DEF Service, LateArrival, ServiceAnswers, ServiceForgets, uploadVars, Progress,
     ToldInv, DeliveryInv, Types
<1> QED BY <1>1, <1>2

(* The state of one worker, apart from its uploads and its context. *)
WorkerStays(d) ==
    /\ posts'[d] = posts[d] /\ pc'[d] = pc[d] /\ conn'[d] = conn[d]
    /\ shape'[d] = shape[d] /\ shared'[d] = shared[d] /\ unencodable'[d] = unencodable[d]
    /\ mcpResponseReceived'[d] = mcpResponseReceived[d]
    /\ notificationForwardingEnabled'[d] = notificationForwardingEnabled[d]

(* A worker that stays where it is keeps its invariant while its uploads go *)
(* on and its context ends.                                                 *)
LEMMA CommandStays ==
  ASSUME ToldInv, ProcessorTypes, NEW d \in Commands, CommandInv(d), WorkerStays(d),
         \A n \in 1..MaxPosts : Progress(<<d, n>>),
         ctx[d] # "live" => ctx'[d] # "live"
  PROVE  CommandInv(d)'
<1>1. posts[d] \in 0..MaxPosts /\ MaxPosts \in Nat
  BY DeliveryAssumption DEF ProcessorTypes
<1>2. Sequence(d)'
  <2>1. posts[d] > 0 => posts[d] \in 1..MaxPosts
    BY <1>1
  <2>2. posts'[d] = posts[d] /\ pc'[d] = pc[d]
    BY Zenon DEF WorkerStays
  <2>3. ASSUME NEW n \in 1..MaxPosts
        PROVE  /\ kind'[<<d, n>>] = kind[<<d, n>>]
               /\ upload'[<<d, n>>] = "none" <=> upload[<<d, n>>] = "none"
               /\ upload[<<d, n>>] = "done" => upload'[<<d, n>>] = "done"
    BY Zenon DEF Progress
  <2> QED BY <2>1, <2>2, <2>3, Zenon DEF CommandInv, Sequence
<1>3. Order(d)'
  BY <1>1, ZenonT(30) DEF CommandInv, Order, WorkerStays, Progress
<1>4. Link(d)'
  BY ZenonT(30) DEF CommandInv, Link, WorkerStays
<1>5. Reason(d)'
  <2>1. posts[d] > 0 => posts[d] \in 1..MaxPosts
    BY <1>1
  <2>2. posts[d] > 0 => kind'[<<d, posts[d]>>] = kind[<<d, posts[d]>>]
    BY <2>1, Zenon DEF Progress
  <2> QED BY <2>2, Zenon DEF CommandInv, Reason, WorkerStays
<1> QED BY <1>2, <1>3, <1>4, <1>5, Zenon DEF CommandInv

(* A worker posts when all it has posted are finished notifications, and a *)
(* notification only while all of them were delivered for certain.         *)
MayPost(c, k, place) ==
    /\ pc[c] \in Unposted \cup {"reading"}
    /\ \/ k = "final" /\ place \in {"replying", "ending"}
       \/ /\ k = "notify" /\ place = "notifying"
          /\ pc[c] = "reading" /\ notificationForwardingEnabled[c]

(* A post extends the sequence of posts by one. *)
LEMMA PostExtends ==
  ASSUME ToldInv, ProcessorTypes, NEW c \in Commands, CommandInv(c),
         NEW k \in {"notify", "final"}, NEW place, MayPost(c, k, place), Post(c, k, place)
  PROVE  /\ Sequence(c)' /\ Order(c)'
         /\ posts'[c] > 0 /\ kind'[<<c, posts'[c]>>] = k /\ pc'[c] = place
         /\ \A d \in Commands \ {c} : /\ posts'[d] = posts[d] /\ pc'[d] = pc[d]
                                      /\ \A n \in 1..MaxPosts : Progress(<<d, n>>)
         /\ ctx' = ctx
<1> DEFINE p == posts[c] + 1
<1>1. /\ posts[c] \in 0..MaxPosts /\ MaxPosts \in Nat /\ p \in 1..MaxPosts /\ posts[c] \in Nat
      /\ posts' = [posts EXCEPT ![c] = p] /\ pc' = [pc EXCEPT ![c] = place]
  BY DeliveryAssumption DEF Post, Goto, ProcessorTypes
<1>2. PICK valid \in BOOLEAN : BeginUpload(<<c, p>>, k, valid)
  BY DEF Post
<1> HIDE DEF p
<1>3. posts'[c] = p /\ pc'[c] = place /\ \A d \in Commands \ {c} : posts'[d] = posts[d] /\ pc'[d] = pc[d]
  BY <1>1 DEF ProcessorTypes
<1>4. <<c, p>> \in Uploads /\ \A d \in Commands, n \in 1..MaxPosts : <<d, n>> \in Uploads
  BY <1>1, UploadParts
<1>5. /\ kind \in [Uploads -> {"none", "notify", "final"}] /\ upload \in [Uploads -> UploadStates]
      /\ outcome \in [Uploads -> Dispositions]
  BY DEF ToldInv, DeliveryInv, Types, Outcomes
<1>6. /\ kind'[<<c, p>>] = k /\ upload'[<<c, p>>] # "none" /\ ctx' = ctx
      /\ \A v \in Uploads : v # <<c, p>> =>
           kind'[v] = kind[v] /\ upload'[v] = upload[v] /\ outcome'[v] = outcome[v]
  BY <1>2, <1>4, <1>5, Zenon DEF BeginUpload
<1>7. \A n \in 1..MaxPosts : n # p =>
        /\ kind'[<<c, n>>] = kind[<<c, n>>] /\ upload'[<<c, n>>] = upload[<<c, n>>]
        /\ outcome'[<<c, n>>] = outcome[<<c, n>>]
  BY <1>4, <1>6, ZenonT(30)
<1>8. \A n \in 1..MaxPosts : /\ n < p => upload[<<c, n>>] = "done" /\ kind[<<c, n>>] = "notify"
                             /\ n > p => upload[<<c, n>>] = "none" /\ kind[<<c, n>>] = "none"
  BY <1>1, <1>4 DEF p, CommandInv, Sequence, MayPost, ToldInv, DeliveryInv, Unbegun, Unposted
<1>9. Sequence(c)'
  <2>1. place \notin Unposted \cup {"reading"}
    BY Zenon DEF MayPost, Unposted
  <2>2. place = "notifying" => k = "notify"
    BY Zenon DEF MayPost
  <2>3. place \in {"replying", "ending"} => k = "final"
    BY DEF MayPost
  <2>4. p > 0
    BY <1>1
  <2>5. \A n \in 1..MaxPosts : (upload'[<<c, n>>] = "none") <=> (n > p)
    BY <1>1, <1>6, <1>7, <1>8
  <2>6. \A n \in 1..MaxPosts : n < p => upload'[<<c, n>>] = "done" /\ kind'[<<c, n>>] = "notify"
    BY <1>1, <1>7, <1>8, ZenonT(30)
  <2> QED BY <1>3, <1>6, <2>1, <2>2, <2>3, <2>4, <2>5, <2>6, ZenonT(30) DEF Sequence
<1>10. Order(c)'
  <2>1. place # "reading"
    BY Zenon DEF MayPost
  <2>2. ASSUME NEW m \in 1..MaxPosts, NEW n \in 1..MaxPosts, m < n, kind'[<<c, n>>] = "notify"
        PROVE  outcome'[<<c, m>>] \in {"accepted", "already"}
    <3>1. n <= p
      BY <1>1, <1>7, <1>8, <2>2
    <3>2. m # p /\ m < p
      BY <1>1, <2>2, <3>1
    <3>3. CASE n = p
      <4>1. pc[c] = "reading" /\ notificationForwardingEnabled[c]
        BY <1>6, <2>2, <3>3, Zenon DEF MayPost
      <4>2. m <= posts[c]
        BY <1>1, <3>2 DEF p
      <4> QED BY <1>7, <3>2, <4>1, <4>2, ZenonT(30) DEF CommandInv, Order
    <3>4. CASE n # p
      BY <1>7, <2>2, <3>2, <3>4, ZenonT(30) DEF CommandInv, Order
    <3> QED BY <3>3, <3>4, Zenon
  <2> QED BY <1>3, <2>1, <2>2, ZenonT(30) DEF Order
<1>11. \A d \in Commands \ {c} : \A n \in 1..MaxPosts : Progress(<<d, n>>)
  BY <1>4, <1>6, ZenonT(30) DEF Progress
<1> QED BY <1>1, <1>3, <1>6, <1>9, <1>10, <1>11

(* A worker posts only when it may. *)
LEMMA WorkerPosts ==
  ASSUME ProcessorTypes, NEW c \in Commands, Worker(c)
  PROVE  \/ NoPost
         \/ \E k \in {"notify", "final"}, place \in {"notifying", "replying", "ending"} :
              MayPost(c, k, place) /\ Post(c, k, place)
<1>1. ASSUME pc[c] \in Unposted, Post(c, "final", "ending")
      PROVE  \E k \in {"notify", "final"}, place \in {"notifying", "replying", "ending"} :
               MayPost(c, k, place) /\ Post(c, k, place)
  BY <1>1 DEF MayPost
<1>2. ASSUME pc[c] = "reading", Post(c, "final", "replying")
      PROVE  \E k \in {"notify", "final"}, place \in {"notifying", "replying", "ending"} :
               MayPost(c, k, place) /\ Post(c, k, place)
  BY <1>2 DEF MayPost
<1>3. ASSUME pc[c] = "reading", notificationForwardingEnabled[c], Post(c, "notify", "notifying")
      PROVE  \E k \in {"notify", "final"}, place \in {"notifying", "replying", "ending"} :
               MayPost(c, k, place) /\ Post(c, k, place)
  BY <1>3 DEF MayPost
<1> HIDE DEF Post, NoPost, MayPost
<1>4. CASE Start(c)
  BY <1>1, <1>4 DEF Start, Unposted
<1>5. CASE ConnectReturns(c)
  BY <1>1, <1>5, Zenon DEF ConnectReturns, Unposted
<1>6. CASE ContextCheck(c)
  BY <1>6, Zenon DEF ContextCheck
<1>7. CASE WriteReturns(c)
  BY <1>1, <1>7, Zenon DEF WriteReturns, Unposted
<1>8. CASE ReadNotification(c)
  BY <1>3, <1>8, Zenon DEF ReadNotification
<1>9. CASE NotificationPosted(c) \/ ReadCancelled(c) \/ Replied(c) \/ Posted(c)
  BY <1>9, ZenonT(30) DEF NotificationPosted, ReadCancelled, Replied, Posted
<1>10. CASE ReadFails(c) \/ ReadResponse(c)
  BY <1>2, <1>10 DEF ReadFails, ReadResponse
<1>11. CASE FetchReturns(c) \/ TerminateReturns(c)
  BY <1>1, <1>11 DEF FetchReturns, TerminateReturns, Unposted
<1> QED BY <1>4, <1>5, <1>6, <1>7, <1>8, <1>9, <1>10, <1>11, Zenon DEF Worker

(* What a step of a worker may change, it changes for its own command. *)
LEMMA WorkerMoves ==
  ASSUME NEW c \in Commands, Worker(c)
  PROVE  /\ shape' = shape /\ shared' = shared
         /\ \E place \in Places : pc' = [pc EXCEPT ![c] = place]
         /\ conn' = conn \/ \E x \in {"open", "closed", "retired"} : conn' = [conn EXCEPT ![c] = x]
         /\ unencodable' = unencodable \/ unencodable' = [unencodable EXCEPT ![c] = TRUE]
         /\ \/ mcpResponseReceived' = mcpResponseReceived
            \/ mcpResponseReceived' = [mcpResponseReceived EXCEPT ![c] = TRUE]
         /\ \/ notificationForwardingEnabled' = notificationForwardingEnabled
            \/ notificationForwardingEnabled' = [notificationForwardingEnabled EXCEPT ![c] = Delivered(c)]
<1> USE DEF Worker, Start, ConnectReturns, ContextCheck, WriteReturns, ReadNotification,
            NotificationPosted, ReadFails, ReadCancelled, ReadResponse, Replied, FetchReturns,
            TerminateReturns, Posted, streamVars
<1>1. shape' = shape /\ shared' = shared
  OBVIOUS
<1>2. \E place \in Places : pc' = [pc EXCEPT ![c] = place]
  BY Zenon DEF Post, Goto, Places
<1>3. conn' = conn \/ \E x \in {"open", "closed", "retired"} : conn' = [conn EXCEPT ![c] = x]
  BY Zenon DEF RetireOrClose, Cleanup
<1>4. unencodable' = unencodable \/ unencodable' = [unencodable EXCEPT ![c] = TRUE]
  OBVIOUS
<1>5. \/ mcpResponseReceived' = mcpResponseReceived
      \/ mcpResponseReceived' = [mcpResponseReceived EXCEPT ![c] = TRUE]
  OBVIOUS
<1>6. \/ notificationForwardingEnabled' = notificationForwardingEnabled
      \/ notificationForwardingEnabled' = [notificationForwardingEnabled EXCEPT ![c] = Delivered(c)]
  OBVIOUS
<1> QED BY <1>1, <1>2, <1>3, <1>4, <1>5, <1>6, Zenon

(* A worker changes no other worker's state. *)
LEMMA WorkerIsAlone ==
  ASSUME ToldInv, ProcessorTypes, Booleans, NEW c \in Commands, CommandInv(c), Worker(c)
  PROVE  /\ \A d \in Commands \ {c} : WorkerStays(d) /\ \A n \in 1..MaxPosts : Progress(<<d, n>>)
         /\ ctx' = ctx
<1>1. \A d \in Commands \ {c} : posts'[d] = posts[d] /\ \A n \in 1..MaxPosts : Progress(<<d, n>>)
  <2>1. CASE NoPost
    BY <2>1, ZenonT(30) DEF NoPost, deliveryVars, uploadVars, Progress
  <2>2. ASSUME NEW k \in {"notify", "final"}, NEW place, MayPost(c, k, place), Post(c, k, place)
        PROVE  \A d \in Commands \ {c} : posts'[d] = posts[d] /\ \A n \in 1..MaxPosts : Progress(<<d, n>>)
    BY <2>2, PostExtends, Zenon
  <2> QED BY <2>1, <2>2, WorkerPosts, ZenonT(30)
<1>2. ctx' = ctx
  <2>1. CASE NoPost
    BY <2>1 DEF NoPost, deliveryVars
  <2>2. ASSUME NEW k \in {"notify", "final"}, NEW place, MayPost(c, k, place), Post(c, k, place)
        PROVE  ctx' = ctx
    BY <2>2, PostExtends, ZenonT(30)
  <2> QED BY <2>1, <2>2, WorkerPosts
<1> QED BY <1>1, <1>2, WorkerMoves DEF WorkerStays, ProcessorTypes, Booleans

(* The numbers of the posts of a command. *)
LEMMA NoneYet ==
  ASSUME NEW m, NEW i, i = 0
  PROVE  \A n \in 1..m : ~(n <= i)
OBVIOUS

LEMMA SomeAlready ==
  ASSUME NEW m \in Nat, NEW i \in 0..m, i > 0
  PROVE  i \in 1..m
OBVIOUS

(* A step without a post, to a place where no post is pending, keeps the   *)
(* sequence of posts.                                                      *)
LEMMA NoPostKeeps ==
  ASSUME ToldInv, ProcessorTypes, NEW c \in Commands, CommandInv(c), NoPost, NEW place, Goto(c, place),
         \/ pc[c] \in Unposted /\ place \in Unposted \cup {"reading", "done"}
         \/ place \in {"done", "forwarded"}
  PROVE  /\ Sequence(c)' /\ Order(c)' /\ pc'[c] = place /\ UNCHANGED <<posts, kind, ctx, outcome>>
<1>1. /\ pc'[c] = place /\ UNCHANGED <<posts, kind, ctx, outcome, upload>>
      /\ posts[c] \in 0..MaxPosts /\ MaxPosts \in Nat
  BY DeliveryAssumption, ZenonT(30) DEF Goto, ProcessorTypes, NoPost, deliveryVars, uploadVars
<1>2. pc[c] \in Unposted => posts[c] = 0 /\ \A n \in 1..MaxPosts : ~(n <= posts[c])
  <2>1. pc[c] \in Unposted => posts[c] = 0
    BY Zenon DEF CommandInv, Sequence
  <2> QED BY <2>1, NoneYet, Zenon
<1>3. /\ place \notin {"notifying", "replying", "ending"}
      /\ place \in Unposted \cup {"reading"} => pc[c] \in Unposted
  BY Zenon DEF Unposted
<1>4. Sequence(c)'
  BY <1>1, <1>2, <1>3, Zenon DEF CommandInv, Sequence
<1>5. Order(c)'
  BY <1>1, <1>2, <1>3, Zenon DEF CommandInv, Order
<1> QED BY <1>1, <1>4, <1>5, Zenon

(* Process goes on from place to place. *)
LEMMA WorkerKeeps ==
  ASSUME ToldInv, ProcessorTypes, Booleans, NEW c \in Commands, CommandInv(c), Worker(c)
  PROVE  CommandInv(c)'
<1> USE DEF CommandInv
<1>1. /\ pc[c] \in Places /\ conn[c] \in {"none", "open", "closed", "retired"}
      /\ conn \in [Commands -> {"none", "open", "closed", "retired"}]
  BY DEF ProcessorTypes
<1>2. RetireOrClose(c) => conn'[c] \notin {"none", "open"}
  BY <1>1, Zenon DEF RetireOrClose
<1>3. ASSUME NEW place \in {"replying", "ending"}, Post(c, "final", place),
             pc[c] \in Unposted \cup {"reading"}
      PROVE  /\ Sequence(c)' /\ Order(c)' /\ pc'[c] = place
  <2>1. MayPost(c, "final", place)
    BY <1>3, Zenon DEF MayPost
  <2> QED BY <1>3, <2>1, PostExtends, Zenon
<1>4. CASE Start(c)
  <2>1. UNCHANGED <<shape, shared, conn, streamVars>> /\ pc[c] = "start"
    BY <1>4 DEF Start
  <2>2. CASE Post(c, "final", "ending")
    BY <1>3, <2>1, <2>2, ZenonT(30) DEF Link, Reason, Unposted, streamVars
  <2>3. CASE NoPost /\ Goto(c, "done") /\ (shape[c] = "unusable" \/ ctx[c] = "deadline")
    <3>1. /\ Sequence(c)' /\ Order(c)' /\ pc'[c] = "done" /\ UNCHANGED ctx
      BY <2>3, NoPostKeeps, Zenon
    <3> QED BY <2>1, <2>3, <3>1, ZenonT(30) DEF Link, Reason, streamVars
  <2>4. ASSUME NEW place \in {"fetching", "terminating", "connecting"}, NoPost, Goto(c, place),
               place = "fetching" => shape[c] = "oauth"
        PROVE  CommandInv(c)'
    <3>1. /\ Sequence(c)' /\ Order(c)' /\ pc'[c] = place
      BY <2>1, <2>4, NoPostKeeps, ZenonT(30) DEF Unposted
    <3> QED BY <2>1, <2>4, <3>1, ZenonT(30) DEF Link, Reason, streamVars
  <2> QED BY <1>4, <2>2, <2>3, <2>4 DEF Start
<1>5. CASE ConnectReturns(c)
  <2>1. UNCHANGED <<shape, shared, streamVars>> /\ pc[c] = "connecting"
    BY <1>5, ZenonT(30) DEF ConnectReturns
  <2>2. CASE conn' = conn /\ Post(c, "final", "ending")
    BY <1>3, <2>1, <2>2, ZenonT(30) DEF Link, Reason, Unposted, streamVars
  <2>3. CASE conn' = conn /\ NoPost /\ Goto(c, "done") /\ ctx[c] # "live"
    <3>1. /\ Sequence(c)' /\ Order(c)' /\ pc'[c] = "done" /\ UNCHANGED ctx
      BY <2>3, NoPostKeeps, ZenonT(30)
    <3> QED BY <2>1, <2>3, <3>1, ZenonT(30) DEF Link, Reason, streamVars
  <2>4. CASE conn' = [conn EXCEPT ![c] = "open"] /\ NoPost /\ Goto(c, "connected")
    <3>1. /\ Sequence(c)' /\ Order(c)' /\ pc'[c] = "connected"
      BY <2>1, <2>4, NoPostKeeps, ZenonT(30) DEF Unposted
    <3>2. conn'[c] = "open"
      BY <1>1, <2>4
    <3> QED BY <2>1, <3>1, <3>2, ZenonT(30) DEF Link, Reason, streamVars
  <2> QED BY <1>5, <2>2, <2>3, <2>4, ZenonT(30) DEF ConnectReturns
<1>6. CASE ContextCheck(c)
  <2>1. UNCHANGED <<shape, shared, streamVars>> /\ pc[c] = "connected" /\ NoPost
    BY <1>6, Zenon DEF ContextCheck
  <2>2. CASE RetireOrClose(c) /\ Goto(c, "done") /\ ctx[c] # "live"
    <3>1. /\ Sequence(c)' /\ Order(c)' /\ pc'[c] = "done" /\ UNCHANGED ctx
      BY <2>1, <2>2, NoPostKeeps, ZenonT(30)
    <3> QED BY <2>1, <2>2, <3>1, ZenonT(30) DEF Link, Reason, streamVars
  <2>3. CASE conn' = conn /\ Goto(c, "writing")
    <3>1. /\ Sequence(c)' /\ Order(c)' /\ pc'[c] = "writing"
      BY <2>1, <2>3, NoPostKeeps, ZenonT(30) DEF Unposted
    <3> QED BY <2>1, <2>3, <3>1, ZenonT(30) DEF Link, Reason, streamVars
  <2> QED BY <1>6, <2>2, <2>3, ZenonT(30) DEF ContextCheck
<1>7. CASE WriteReturns(c)
  <2>1. UNCHANGED <<shape, shared, streamVars>> /\ pc[c] = "writing"
    BY <1>7, ZenonT(30) DEF WriteReturns
  <2>2. CASE RetireOrClose(c) /\ Goto(c, "done") /\ ctx[c] # "live" /\ NoPost
    <3>1. /\ Sequence(c)' /\ Order(c)' /\ pc'[c] = "done" /\ UNCHANGED ctx
      BY <2>1, <2>2, NoPostKeeps, ZenonT(30)
    <3> QED BY <2>1, <2>2, <3>1, ZenonT(30) DEF Link, Reason, streamVars
  <2>3. CASE conn' = conn /\ Post(c, "final", "ending")
    BY <1>3, <2>1, <2>3, ZenonT(30) DEF Link, Reason, Unposted, streamVars
  <2>4. CASE conn' = conn /\ Goto(c, "reading") /\ NoPost
    <3>1. /\ Sequence(c)' /\ Order(c)' /\ pc'[c] = "reading"
      BY <2>1, <2>4, NoPostKeeps, ZenonT(30) DEF Unposted
    <3> QED BY <2>1, <2>4, <3>1, ZenonT(30) DEF Link, Reason, streamVars
  <2> QED BY <1>7, <2>2, <2>3, <2>4, ZenonT(30) DEF WriteReturns
<1>8. CASE ReadNotification(c)
  <2>1. /\ UNCHANGED <<shape, shared, notificationForwardingEnabled, mcpResponseReceived>>
        /\ pc[c] = "reading" /\ notificationForwardingEnabled[c]
    BY <1>8, ZenonT(30) DEF ReadNotification
  <2>2. CASE Post(c, "notify", "notifying") /\ UNCHANGED <<conn, unencodable>>
    <3>1. MayPost(c, "notify", "notifying")
      BY <2>1, ZenonT(30) DEF MayPost
    <3>2. /\ Sequence(c)' /\ Order(c)' /\ pc'[c] = "notifying"
      BY <2>2, <3>1, PostExtends, ZenonT(30)
    <3> QED BY <2>1, <2>2, <3>2, ZenonT(30) DEF Link, Reason
  <2>3. CASE /\ unencodable' = [unencodable EXCEPT ![c] = TRUE]
             /\ RetireOrClose(c) /\ Goto(c, "forwarded") /\ NoPost
    <3>1. /\ Sequence(c)' /\ Order(c)' /\ pc'[c] = "forwarded"
      BY <2>3, NoPostKeeps, Zenon
    <3>2. unencodable'[c] /\ ~mcpResponseReceived[c] /\ conn'[c] # "open"
      BY <1>2, <2>1, <2>3, ZenonT(30) DEF Booleans, Link
    <3> QED BY <2>1, <3>1, <3>2, ZenonT(30) DEF Link, Reason
  <2> QED BY <1>8, <2>2, <2>3, ZenonT(30) DEF ReadNotification
<1>9. CASE NotificationPosted(c)
  <2>1. /\ UNCHANGED <<shape, shared, conn, mcpResponseReceived, unencodable>>
        /\ pc[c] = "notifying" /\ Goto(c, "reading") /\ NoPost /\ LastOutcome(c) # "none"
        /\ notificationForwardingEnabled' = [notificationForwardingEnabled EXCEPT ![c] = Delivered(c)]
    BY <1>9, Zenon DEF NotificationPosted
  <2>2. /\ pc'[c] = "reading" /\ UNCHANGED <<posts, kind, outcome, upload>>
        /\ posts[c] \in 1..MaxPosts /\ MaxPosts \in Nat /\ kind[<<c, posts[c]>>] = "notify"
    <3>1. pc'[c] = "reading"
      BY <2>1, Zenon DEF Goto, ProcessorTypes
    <3>2. UNCHANGED <<posts, kind, outcome, upload>>
      BY <2>1, Zenon DEF NoPost, deliveryVars, uploadVars
    <3>3. posts[c] \in 0..MaxPosts /\ MaxPosts \in Nat
      BY DeliveryAssumption, Zenon DEF ProcessorTypes
    <3>4. posts[c] > 0 /\ kind[<<c, posts[c]>>] = "notify"
      BY <2>1, ZenonT(30) DEF Sequence
    <3> QED BY <3>1, <3>2, <3>3, <3>4, SomeAlready, Zenon
  <2>3. upload[<<c, posts[c]>>] = "done"
    BY <2>1, <2>2, UploadParts, Zenon DEF LastOutcome, ToldInv, Outcomes
  <2>4. Sequence(c)'
    BY <2>2, <2>3 DEF Sequence, Unposted
  <2>5. notificationForwardingEnabled'[c] => outcome[<<c, posts[c]>>] \in {"accepted", "already"}
    BY <2>1, Zenon DEF Booleans, Delivered, LastOutcome
  <2>6. Order(c)'
    <3>1. ASSUME NEW n \in 1..MaxPosts, n < posts[c]
          PROVE  outcome[<<c, n>>] \in {"accepted", "already"}
      BY <2>2, <3>1, ZenonT(30) DEF Order
    <3>2. notificationForwardingEnabled'[c] => \A n \in 1..MaxPosts : n <= posts[c] =>
             outcome[<<c, n>>] \in {"accepted", "already"}
      BY <2>2, <2>5, <3>1
    <3> QED BY <2>2, <3>2, Zenon DEF Order
  <2> QED BY <2>1, <2>2, <2>4, <2>6, Zenon DEF Link, Reason
<1>10. CASE ReadFails(c)
  <2>1. UNCHANGED <<shape, shared, conn, streamVars>> /\ pc[c] = "reading" /\ Post(c, "final", "replying")
    BY <1>10 DEF ReadFails
  <2> QED BY <1>3, <2>1, ZenonT(30) DEF Link, Reason, streamVars
<1>11. CASE ReadCancelled(c)
  <2>1. /\ UNCHANGED <<shape, shared, streamVars>> /\ pc[c] = "reading" /\ ctx[c] # "live"
        /\ RetireOrClose(c) /\ Goto(c, "forwarded") /\ NoPost
    BY <1>11, ZenonT(30) DEF ReadCancelled
  <2>2. /\ Sequence(c)' /\ Order(c)' /\ pc'[c] = "forwarded" /\ UNCHANGED ctx
    BY <2>1, NoPostKeeps, ZenonT(30)
  <2> QED BY <1>2, <2>1, <2>2, ZenonT(30) DEF Link, Reason, streamVars
<1>12. CASE ReadResponse(c)
  <2>1. /\ UNCHANGED <<shape, shared, conn, notificationForwardingEnabled, unencodable>>
        /\ pc[c] = "reading" /\ Post(c, "final", "replying")
    BY <1>12 DEF ReadResponse
  <2> QED BY <1>3, <2>1, Zenon DEF Link, Reason
<1>13. CASE Replied(c)
  <2>1. /\ UNCHANGED <<shape, shared, streamVars>> /\ pc[c] = "replying"
        /\ Cleanup(c) /\ Goto(c, "forwarded") /\ NoPost
    BY <1>13 DEF Replied
  <2>2. /\ Sequence(c)' /\ Order(c)' /\ pc'[c] = "forwarded" /\ UNCHANGED <<posts, kind>>
    BY <2>1, NoPostKeeps, ZenonT(30)
  <2>3. /\ ~mcpResponseReceived[c] => conn'[c] # "open"
        /\ mcpResponseReceived[c] /\ shared[c] => conn' = conn
    BY <1>2, <2>1, ZenonT(30) DEF Cleanup
  <2>4. posts[c] > 0 /\ kind[<<c, posts[c]>>] = "final"
    BY <2>1, ZenonT(30) DEF Sequence
  <2> QED BY <2>1, <2>2, <2>3, <2>4, ZenonT(30) DEF Link, Reason, streamVars
<1>14. CASE FetchReturns(c)
  <2>1. UNCHANGED <<shape, shared, conn, streamVars>> /\ pc[c] = "fetching"
    BY <1>14 DEF FetchReturns
  <2>2. CASE Post(c, "final", "ending")
    BY <1>3, <2>1, <2>2, ZenonT(30) DEF Link, Reason, Unposted, streamVars
  <2>3. CASE NoPost /\ Goto(c, "done")
    <3>1. /\ Sequence(c)' /\ Order(c)' /\ pc'[c] = "done"
      BY <2>3, NoPostKeeps, ZenonT(30)
    <3> QED BY <2>1, <3>1, ZenonT(30) DEF Link, Reason, streamVars
  <2> QED BY <1>14, <2>2, <2>3 DEF FetchReturns
<1>15. CASE TerminateReturns(c)
  <2>1. /\ UNCHANGED <<shape, shared, conn, streamVars>> /\ pc[c] = "terminating"
        /\ Post(c, "final", "ending")
    BY <1>15 DEF TerminateReturns
  <2> QED BY <1>3, <2>1, ZenonT(30) DEF Link, Reason, Unposted, streamVars
<1>16. CASE Posted(c)
  <2>1. /\ UNCHANGED <<shape, shared, conn, streamVars>> /\ pc[c] = "ending"
        /\ Goto(c, "done") /\ NoPost
    BY <1>16 DEF Posted
  <2>2. /\ Sequence(c)' /\ Order(c)' /\ pc'[c] = "done" /\ UNCHANGED <<posts, kind>>
    BY <2>1, NoPostKeeps, ZenonT(30)
  <2>3. posts[c] > 0 /\ kind[<<c, posts[c]>>] = "final"
    BY <2>1, ZenonT(30) DEF Sequence
  <2> QED BY <2>1, <2>2, <2>3, ZenonT(30) DEF Link, Reason, streamVars
<1> QED BY <1>4, <1>5, <1>6, <1>7, <1>8, <1>9, <1>10, <1>11, <1>12, <1>13, <1>14, <1>15, <1>16, ZenonT(30)
        DEF Worker

(* The processor's variables keep their types. *)
LEMMA WorkerTypes ==
  ASSUME ToldInv, ProcessorTypes, Booleans, NEW c \in Commands, CommandInv(c), Worker(c)
  PROVE  ProcessorTypes' /\ Booleans'
<1>1. posts' \in [Commands -> 0..MaxPosts]
  <2>1. CASE NoPost
    BY <2>1 DEF NoPost, ProcessorTypes
  <2>2. ASSUME NEW k, NEW place, Post(c, k, place)
        PROVE  posts' \in [Commands -> 0..MaxPosts]
    BY <2>2, DeliveryAssumption DEF Post, ProcessorTypes
  <2> QED BY <2>1, <2>2, WorkerPosts
<1>2. ctx' = ctx
  BY WorkerIsAlone
<1>3. ProcessorTypes'
  BY <1>1, <1>2, WorkerMoves, ZenonT(30) DEF ProcessorTypes
<1>4. Delivered(c) \in BOOLEAN
  BY DEF Delivered
<1>5. Booleans'
  BY <1>4, WorkerMoves, ZenonT(30) DEF Booleans
<1> QED BY <1>3, <1>5

-----------------------------------------------------------------------------
(* The processor and the delivery together.                                *)

(* Every step of the processor is a step of the delivery. *)
LEMMA StepDelivers ==
  ASSUME ProcessorInv, [Next]_vars
  PROVE  [DeliveryNext]_deliveryVars
<1>1. ASSUME NEW c \in Commands, Worker(c)
      PROVE  [DeliveryNext]_deliveryVars
  <2>1. CASE NoPost
    BY <2>1 DEF NoPost
  <2>2. ASSUME NEW k \in {"notify", "final"}, NEW place, MayPost(c, k, place), Post(c, k, place)
        PROVE  DeliveryNext
    <3> DEFINE p == posts[c] + 1
    <3>1. posts[c] \in 0..MaxPosts /\ MaxPosts \in Nat /\ p \in 1..MaxPosts
      BY <2>2, DeliveryAssumption DEF Post, ProcessorInv, ProcessorTypes
    <3>2. PICK valid \in BOOLEAN : BeginUpload(<<c, p>>, k, valid)
      BY <2>2 DEF Post
    <3>3. <<c, p>> \in Uploads /\ <<c, p>>[1] = c /\ <<c, p>>[2] = p
      BY <3>1, UploadParts
    <3>4. Sequence(c)
      BY DEF ProcessorInv, CommandInv
    <3>5. \A n \in 1..(p - 1) : upload[<<c, n>>] = "done" /\ kind[<<c, n>>] = "notify"
      BY <2>2, <3>1, <3>4 DEF Sequence, MayPost, Unposted
    <3> HIDE DEF p
    <3> QED BY <3>2, <3>3, <3>5, Zenon DEF DeliveryNext
  <2> QED BY <1>1, <2>1, <2>2, WorkerPosts DEF ProcessorInv
<1>2. ASSUME NEW c \in Commands, ConnectionTTL(c)
      PROVE  DeliveryNext
  BY <1>2, Zenon DEF ConnectionTTL, DeliveryNext
<1>3. CASE Environment
  BY <1>3, Zenon DEF Environment, ResponseDeadline, DeliveryNext
<1>4. CASE UNCHANGED vars
  BY <1>4 DEF vars
<1> QED BY <1>1, <1>2, <1>3, <1>4 DEF Next

(* Every step keeps the invariant of each command. *)
LEMMA CommandsKept ==
  ASSUME ProcessorInv, [Next]_vars
  PROVE  ProcessorTypes' /\ Booleans' /\ \A d \in Commands : CommandInv(d)'
<1>1. ToldInv /\ ProcessorTypes /\ Booleans /\ \A d \in Commands : CommandInv(d)
  BY DEF ProcessorInv
<1>2. ASSUME NEW c \in Commands, Worker(c)
      PROVE  ProcessorTypes' /\ Booleans' /\ \A d \in Commands : CommandInv(d)'
  <2>1. ProcessorTypes' /\ Booleans'
    BY <1>1, <1>2, WorkerTypes
  <2>2. CommandInv(c)'
    BY <1>1, <1>2, WorkerKeeps
  <2>3. ASSUME NEW d \in Commands, d # c PROVE CommandInv(d)'
    <3>1. WorkerStays(d) /\ ctx' = ctx /\ \A n \in 1..MaxPosts : Progress(<<d, n>>)
      BY <1>1, <1>2, <2>3, WorkerIsAlone, Zenon
    <3> QED BY <1>1, <3>1, CommandStays
  <2> QED BY <2>1, <2>2, <2>3
<1>3. ASSUME UNCHANGED processorVars, ctx' \in [Commands -> Contexts],
             \A d \in Commands : ctx[d] # "live" => ctx'[d] # "live",
             \A v \in Uploads : Progress(v)
      PROVE  ProcessorTypes' /\ Booleans' /\ \A d \in Commands : CommandInv(d)'
  <2>1. ProcessorTypes' /\ Booleans'
    BY <1>1, <1>3, Zenon DEF processorVars, ProcessorTypes, Booleans
  <2>2. ASSUME NEW d \in Commands PROVE CommandInv(d)'
    <3>1. WorkerStays(d)
      BY <1>3, ZenonT(30) DEF processorVars, WorkerStays
    <3>2. \A n \in 1..MaxPosts : Progress(<<d, n>>)
      BY <1>3, UploadParts, Zenon
    <3> QED BY <1>1, <1>3, <3>1, <3>2, CommandStays, Zenon
  <2> QED BY <2>1, <2>2
<1>4. ASSUME NEW c \in Commands, NEW why \in {"canceled", "deadline", "ttl"}, ContextEnds(c, why),
             UNCHANGED processorVars
      PROVE  ProcessorTypes' /\ Booleans' /\ \A d \in Commands : CommandInv(d)'
  <2>1. /\ ctx' \in [Commands -> Contexts]
        /\ \A d \in Commands : ctx[d] # "live" => ctx'[d] # "live"
    BY <1>1, <1>4, Zenon DEF ContextEnds, ProcessorTypes, Contexts
  <2>2. \A v \in Uploads : Progress(v)
    BY <1>4, ZenonT(30) DEF ContextEnds, uploadVars, Progress
  <2> QED BY <1>3, <1>4, <2>1, <2>2, Zenon
<1>5. CASE UNCHANGED processorVars /\ ((\E u \in Uploads : Client(u)) \/ Service)
  BY <1>1, <1>3, <1>5, UploadsProgress, Zenon DEF ProcessorTypes
<1>6. CASE UNCHANGED vars
  <2>1. UNCHANGED processorVars /\ ctx' = ctx /\ \A v \in Uploads : Progress(v)
    BY <1>6, ZenonT(30) DEF vars, deliveryVars, uploadVars, Progress
  <2> QED BY <1>1, <1>3, <2>1, Zenon DEF ProcessorTypes
<1> QED BY <1>2, <1>4, <1>5, <1>6, Zenon DEF Next, Environment, ResponseDeadline, ConnectionTTL

(* A step enqueues at most one notification, which was not enqueued before *)
(* and whose delivery was not certain.                                     *)
LEMMA EnqueuesNew ==
  ASSUME ToldInv, [DeliveryNext]_deliveryVars
  PROVE  \/ enqueued' = enqueued
         \/ \E u \in Uploads : /\ enqueued' = [enqueued EXCEPT ![u] = enqueued[u] + 1]
                               /\ enqueued[u] = 0
                               /\ outcome[u] \notin {"accepted", "already"}
<1>1. ASSUME NEW u \in Uploads, upload[u] = "written" \/ late[u] > 0, Take(u), enqueued' # enqueued
      PROVE  /\ enqueued' = [enqueued EXCEPT ![u] = enqueued[u] + 1]
             /\ enqueued[u] = 0 /\ outcome[u] \notin {"accepted", "already"}
  <2>1. kind[u] = "notify" /\ enqueued' = [enqueued EXCEPT ![u] = enqueued[u] + 1]
    BY <1>1, Zenon DEF Take, isNotification
  <2>2. enqueued[u] = 0
    BY <1>1, <2>1 DEF ToldInv, DeliveryInv, Types, OneCopy, Copies
  <2>3. outcome[u] \notin {"accepted", "already"}
    BY <1>1, <2>1 DEF ToldInv, DeliveryInv, Types, Outcomes, NothingLate
  <2> QED BY <2>1, <2>2, <2>3, ZenonT(30)
<1>2. CASE \E u \in Uploads : LateArrival(u)
  BY <1>1, <1>2, ZenonT(30) DEF LateArrival
<1>3. CASE \E u \in Uploads, s \in Statuses : ServiceAnswers(u, s)
  BY <1>1, <1>3, ZenonT(30) DEF ServiceAnswers
<1>4. CASE \E c \in Commands : ServiceForgets(c)
  BY <1>4, Zenon DEF ServiceForgets
<1>5. CASE \E u \in Uploads : Client(u)
  BY <1>5 DEF Client, StartAttempt, WroteRequest, TransportFails, ReplyArrives, RetryWaited,
     RetryAborted, serviceVars
<1>6. ASSUME NEW u \in Uploads, NEW k, NEW valid, BeginUpload(u, k, valid)
      PROVE  enqueued' = enqueued
  BY <1>6, Zenon DEF BeginUpload, serviceVars
<1>7. ASSUME NEW c \in Commands, NEW why, ContextEnds(c, why)
      PROVE  enqueued' = enqueued
  BY <1>7 DEF ContextEnds, serviceVars
<1>8. CASE UNCHANGED deliveryVars
  BY <1>8, Zenon DEF deliveryVars, serviceVars
<1> QED BY <1>2, <1>3, <1>4, <1>5, <1>6, <1>7, <1>8, ZenonT(30) DEF DeliveryNext, Service

(* What the service enqueues comes after all it has enqueued before: a     *)
(* later notification was posted only when the delivery of this one was    *)
(* certain.                                                                *)
LEMMA SeenStep ==
  ASSUME ProcessorInv, [Next]_vars
  PROVE  SeenInv'
<1>1. /\ ToldInv /\ SeenInv /\ [DeliveryNext]_deliveryVars
      /\ \A c \in Commands : Order(c)
  BY StepDelivers DEF ProcessorInv, CommandInv
<1>2. /\ seen \in [Commands -> Seq(1..MaxPosts)] /\ enqueued \in [Uploads -> Nat] /\ MaxPosts \in Nat
      /\ \A c \in Commands : \A i \in 1..Len(seen[c]) :
           seen[c][i] \in 1..MaxPosts /\ <<c, seen[c][i]>> \in Uploads
  BY <1>1, UploadParts, DeliveryAssumption DEF SeenInv, ToldInv, DeliveryInv, Types
<1>3. CASE UNCHANGED <<seen, enqueued>>
  BY <1>1, <1>3, ZenonT(30) DEF SeenInv, NotificationsInOrder
<1>4. CASE enqueued' = enqueued /\ Record
  <2>1. \A c \in Commands : TakenNow(c) = {}
    BY <1>2, <1>4, UploadParts DEF TakenNow
  <2>2. seen' = seen
    BY <1>2, <1>4, <2>1, Zenon DEF Record
  <2> QED BY <1>3, <1>4, <2>2
<1>5. ASSUME NEW u \in Uploads, Record, enqueued' = [enqueued EXCEPT ![u] = enqueued[u] + 1],
             enqueued[u] = 0, outcome[u] \notin {"accepted", "already"}
      PROVE  SeenInv'
  <2> DEFINE c == u[1]
             n == u[2]
  <2>1. c \in Commands /\ n \in 1..MaxPosts /\ u = <<c, n>>
    BY UploadParts
  <2> HIDE DEF c, n
  <2>2. \A d \in Commands, m \in 1..MaxPosts : enqueued'[<<d, m>>] =
            IF d = c /\ m = n THEN 1 ELSE enqueued[<<d, m>>]
    <3>1. ASSUME NEW d \in Commands, NEW m \in 1..MaxPosts
          PROVE  <<d, m>> \in Uploads /\ (<<d, m>> = u <=> d = c /\ m = n)
      BY <2>1, UploadParts, Zenon
    <3>2. enqueued'[u] = 1 /\ \A v \in Uploads : v # u => enqueued'[v] = enqueued[v]
      BY <1>2, <1>5
    <3> QED BY <3>1, <3>2, Zenon
  <2>3. TakenNow(c) = {n} /\ \A d \in Commands \ {c} : TakenNow(d) = {}
    <3>1. ASSUME NEW d \in Commands, NEW m \in 1..MaxPosts
          PROVE  (enqueued'[<<d, m>>] > enqueued[<<d, m>>]) <=> (d = c /\ m = n)
      <4>1. enqueued[<<d, m>>] \in Nat
        BY <1>2, UploadParts, Zenon
      <4>2. CASE d = c /\ m = n
        BY <1>5, <2>1, <2>2, <4>2
      <4>3. CASE ~(d = c /\ m = n)
        BY <2>2, <4>1, <4>3
      <4> QED BY <4>2, <4>3, Zenon
    <3> QED BY <2>1, <3>1, Zenon DEF TakenNow
  <2>4. seen'[c] = Append(seen[c], n) /\ \A d \in Commands \ {c} : seen'[d] = seen[d]
    BY <1>5, <2>1, <2>3, ZenonT(30) DEF Record
  <2>5. seen' \in [Commands -> Seq(1..MaxPosts)]
    <3>b. \A d \in Commands : seen[d] \in Seq(1..MaxPosts)
      BY <1>2, Zenon
    <3>a. Append(seen[c], n) \in Seq(1..MaxPosts)
      BY <2>1, <3>b
    <3>1. \A d \in Commands : seen'[d] \in Seq(1..MaxPosts)
      BY <2>4, <3>a, <3>b, ZenonT(30)
    <3>2. seen' = [d \in Commands |-> seen'[d]]
      BY <1>5 DEF Record
    <3> QED BY <3>1, <3>2
  <2>6. ASSUME NEW i \in 1..Len(seen[c]) PROVE seen[c][i] < n
    <3> DEFINE m == seen[c][i]
    <3>1. m \in 1..MaxPosts /\ <<c, m>> \in Uploads /\ enqueued[<<c, m>>] > 0
      BY <1>1, <1>2, <2>1, Zenon DEF SeenInv
    <3> HIDE DEF m
    <3>2. m # n
      BY <1>5, <2>1, <3>1
    <3>3. kind[<<c, m>>] = "notify"
      BY <3>1 , <1>1 DEF ToldInv, DeliveryInv, NoCopiesOfFinal
    <3>4. ~(n < m)
      BY <1>1, <1>5, <2>1, <3>1, <3>3, Zenon DEF Order
    <3> QED BY <1>2, <2>1, <3>1, <3>2, <3>4 DEF m
  <2>7. /\ Len(seen'[c]) = Len(seen[c]) + 1 /\ Len(seen[c]) \in Nat
        /\ \A i \in 1..Len(seen[c]) : seen'[c][i] = seen[c][i]
        /\ seen'[c][Len(seen[c]) + 1] = n
    BY <1>2, <2>1, <2>4
  <2>8. \A d \in Commands : \A i \in 1..Len(seen'[d]) : enqueued'[<<d, seen'[d][i]>>] > 0
    <3>1. ASSUME NEW d \in Commands, d # c, NEW i \in 1..Len(seen'[d])
          PROVE  enqueued'[<<d, seen'[d][i]>>] > 0
      BY <1>1, <1>2, <2>2, <2>4, <3>1 DEF SeenInv
    <3>2. ASSUME NEW i \in 1..Len(seen'[c]) PROVE enqueued'[<<c, seen'[c][i]>>] > 0
      <4>1. CASE i = Len(seen[c]) + 1
        BY <2>1, <2>2, <2>7, <4>1
      <4>2. CASE i # Len(seen[c]) + 1
        <5>1. i \in 1..Len(seen[c])
          BY <2>7, <4>2
        <5>2. seen'[c][i] = seen[c][i]
          BY <2>7, <5>1, Zenon
        <5>3. seen[c][i] \in 1..MaxPosts /\ enqueued[<<c, seen[c][i]>>] > 0
          BY <1>1, <1>2, <2>1, <5>1, Zenon DEF SeenInv
        <5> QED BY <2>1, <2>2, <5>2, <5>3
      <4> QED BY <4>1, <4>2, Zenon
    <3> QED BY <3>1, <3>2, ZenonT(30)
  <2>9. NotificationsInOrder'
    <3>1. ASSUME NEW d \in Commands, d # c, NEW i \in DOMAIN seen'[d], NEW j \in DOMAIN seen'[d], i < j
          PROVE  seen'[d][i] < seen'[d][j]
      BY <1>1, <2>4, <3>1, ZenonT(30) DEF SeenInv, NotificationsInOrder
    <3>2. ASSUME NEW i \in DOMAIN seen'[c], NEW j \in DOMAIN seen'[c], i < j
          PROVE  seen'[c][i] < seen'[c][j]
      <4>1. i \in 1..Len(seen[c]) /\ j \in 1..(Len(seen[c]) + 1) /\ DOMAIN seen[c] = 1..Len(seen[c])
        BY <1>2, <2>1, <2>5, <2>7, <3>2
      <4>2. CASE j = Len(seen[c]) + 1
        BY <2>6, <2>7, <4>1, <4>2, Zenon
      <4>3. CASE j # Len(seen[c]) + 1
        <5>1. j \in 1..Len(seen[c])
          BY <2>7, <4>1, <4>3
        <5> QED BY <1>1, <2>1, <2>7, <3>2, <4>1, <5>1, ZenonT(30) DEF SeenInv, NotificationsInOrder
      <4> QED BY <4>2, <4>3, Zenon
    <3> QED BY <3>1, <3>2, ZenonT(30) DEF NotificationsInOrder
  <2> QED BY <2>5, <2>8, <2>9, Zenon DEF SeenInv
<1>6. CASE UNCHANGED vars
  BY <1>3, <1>6, Zenon DEF vars, deliveryVars, serviceVars
<1>7. Record \/ UNCHANGED vars
  BY DEF Next
<1> QED BY <1>1, <1>4, <1>5, <1>6, <1>7, EnqueuesNew, ZenonT(30)

(* Every step keeps the invariant of the processor. *)
LEMMA ProcessorStep == ProcessorInv /\ [Next]_vars => ProcessorInv'
<1> SUFFICES ASSUME ProcessorInv, [Next]_vars PROVE ProcessorInv'
  OBVIOUS
<1>1. ToldInv'
  BY StepDelivers, ToldStep DEF ProcessorInv
<1> QED BY <1>1, CommandsKept, SeenStep, Zenon DEF ProcessorInv

(* The invariant of the processor holds for every number of commands, posts *)
(* and attempts.                                                            *)
THEOREM ProcessorInvariant == Spec => []ProcessorInv
BY ProcessorInit, ProcessorStep, PTL DEF Spec

(* The processor uses the delivery as DeliverySpec describes it: the posts *)
(* of a command follow one another, and the terminal one is the last.      *)
THEOREM ProcessorDelivers == Spec => DeliverySpec
<1>1. Init => InitDelivery
  BY Zenon DEF Init
<1>2. ProcessorInv /\ [Next]_vars => [DeliveryNext]_deliveryVars
  BY StepDelivers
<1> QED BY <1>1, <1>2, ProcessorInvariant, PTL DEF Spec, DeliverySpec

(* When forwardResponses returns, the connection is open only if the       *)
(* response was read, and one to the shared child is then left alone.      *)
THEOREM KeptOnlyWhenAnsweredThm == Spec => []KeptOnlyWhenAnswered
<1>1. ProcessorInv => KeptOnlyWhenAnswered
  BY ZenonT(30) DEF ProcessorInv, CommandInv, Link, KeptOnlyWhenAnswered
<1> QED BY <1>1, ProcessorInvariant, PTL

-----------------------------------------------------------------------------
(* The counters of DeliveryHealth.  What is known of finite sets comes in  *)
(* scope only here: all that is in scope weighs on every step of a proof.  *)

INSTANCE FiniteSetTheorems

Begun == {u \in Uploads : upload[u] # "none"}
Active == {u \in Uploads : upload[u] \notin {"none", "done"}}
AcceptedOnes == {u \in Uploads : outcome[u] \in {"accepted"}}
CompletedOnes == {u \in Uploads : outcome[u] \in {"accepted", "already"}}
FailedOnes == {u \in Uploads : outcome[u] \in {"failed"}}
Tried == {u \in Uploads : attempt[u] > 1 \/ (attempt[u] = 1 /\ upload[u] # "ready")}

(* The loop variable counts from one while PostResponse is in its loop. *)
Loop ==
    /\ attempt \in [Uploads -> Nat]
    /\ \A u \in Uploads : /\ upload[u] = "none" => attempt[u] = 0
                          /\ upload[u] \notin {"none", "done"} => attempt[u] > 0

Numbers == /\ InProgress \in Nat /\ Attempts \in Nat /\ Retries \in Nat
           /\ Completed \in Nat /\ Accepted \in Nat /\ TerminalFailures \in Nat

Exact ==
    /\ InProgress = Cardinality(Active)
    /\ Accepted = Cardinality(AcceptedOnes)
    /\ Completed = Cardinality(CompletedOnes)
    /\ TerminalFailures = Cardinality(FailedOnes)
    /\ Attempts - Retries = Cardinality(Tried)

(* The inductive invariant of the counters: finitely many uploads have     *)
(* begun, and the counters are the sizes of the sets they describe.        *)
CountInv == IsFiniteSet(Begun) /\ Loop /\ Numbers /\ Exact

(* One element more. *)
LEMMA Adding ==
  ASSUME NEW S, NEW x, IsFiniteSet(S), x \notin S
  PROVE  Cardinality(S) \in Nat /\ Cardinality(S \cup {x}) = Cardinality(S) + 1
BY FS_AddElement, FS_CardinalityType, Zenon

(* A counter that goes up with the set it counts stays exact. *)
LEMMA CountsUp ==
  ASSUME NEW S, NEW T, NEW x, NEW n \in Nat, NEW m, IsFiniteSet(S), x \notin S,
         n = Cardinality(S), (T = S \cup {x} /\ m = n + 1) \/ (T = S /\ m = n)
  PROVE  m \in Nat /\ m = Cardinality(T)
<1>1. n + 1 \in Nat
  OBVIOUS
<1> QED BY <1>1, Adding, Zenon

(* One element less. *)
LEMMA Removing ==
  ASSUME NEW S, NEW x, IsFiniteSet(S), x \in S
  PROVE  /\ Cardinality(S) \in Nat /\ Cardinality(S) > 0
         /\ Cardinality(S \ {x}) = Cardinality(S) - 1
<1>1. Cardinality(S) \in Nat /\ Cardinality(S \ {x}) = Cardinality(S) - 1
  BY FS_RemoveElement, FS_CardinalityType, Zenon
<1>2. IsFiniteSet(S \ {x}) /\ Cardinality(S \ {x}) \in Nat
  BY FS_RemoveElement, FS_CardinalityType, Zenon
<1> QED BY <1>1, <1>2

(* What the counters count has begun. *)
LEMMA CountedAreFinite ==
  ASSUME ToldInv, CountInv
  PROVE  /\ IsFiniteSet(Active) /\ IsFiniteSet(AcceptedOnes) /\ IsFiniteSet(CompletedOnes)
         /\ IsFiniteSet(FailedOnes) /\ IsFiniteSet(Tried)
<1>1. /\ Active \subseteq Begun /\ AcceptedOnes \subseteq Begun /\ CompletedOnes \subseteq Begun
      /\ FailedOnes \subseteq Begun
  BY Zenon DEF ToldInv, Outcomes, Active, AcceptedOnes, CompletedOnes, FailedOnes, Begun
<1>2. Tried \subseteq Begun
  BY DEF CountInv, Loop, Tried, Begun
<1> QED BY <1>1, <1>2, FS_Subset, Zenon DEF CountInv

(* Nothing is counted at the start. *)
LEMMA CountInit == InitDelivery => CountInv
<1> SUFFICES ASSUME InitDelivery PROVE CountInv
  OBVIOUS
<1>1. /\ Begun = {} /\ Active = {} /\ AcceptedOnes = {} /\ CompletedOnes = {}
      /\ FailedOnes = {} /\ Tried = {}
  BY DEF InitDelivery, Begun, Active, AcceptedOnes, CompletedOnes, FailedOnes, Tried
<1>2. Loop /\ Numbers
  BY Zenon DEF InitDelivery, Loop, Numbers
<1>3. IsFiniteSet({}) /\ Cardinality({}) = 0
  BY FS_EmptySet, Zenon
<1>4. Exact
  BY <1>1, <1>3 DEF InitDelivery, Exact
<1> QED BY <1>1, <1>2, <1>3, <1>4 DEF CountInv

(* A step that begins, ends and tries no upload leaves the counters right. *)
LEMMA CountQuiet ==
  ASSUME ToldInv, CountInv, UNCHANGED <<outcome, healthVars>>,
         Begun' = Begun, Active' = Active, Tried' = Tried, Loop'
  PROVE  CountInv'
<1>1. AcceptedOnes' = AcceptedOnes /\ CompletedOnes' = CompletedOnes /\ FailedOnes' = FailedOnes
  BY Zenon DEF AcceptedOnes, CompletedOnes, FailedOnes
<1> QED BY <1>1, ZenonT(30) DEF CountInv, Numbers, Exact, healthVars

(* The deferred Finish takes an upload from the gauge to its disposition. *)
LEMMA CountFinish ==
  ASSUME ToldInv, CountInv, NEW u \in Uploads, NEW d \in Dispositions \ {"none"},
         upload[u] \notin {"none", "done", "ready"}, FinishAs(u, d),
         UNCHANGED <<attempt, Attempts, Retries>>
  PROVE  CountInv'
<1> USE DEF Dispositions
<1>1. /\ upload \in [Uploads -> UploadStates] /\ outcome \in [Uploads -> Dispositions]
      /\ outcome[u] = "none"
  BY Zenon DEF ToldInv, DeliveryInv, Types, Outcomes
<1>2. /\ upload' = [upload EXCEPT ![u] = "done"] /\ outcome' = [outcome EXCEPT ![u] = d]
  BY Zenon DEF FinishAs
<1>3. Begun' = Begun /\ Active' = Active \ {u} /\ u \in Active
  BY <1>1, <1>2, Zenon DEF Begun, Active
<1>4. Tried' = Tried /\ Loop'
  BY <1>1, <1>2, Zenon DEF Tried, Loop, CountInv
<1>5. /\ AcceptedOnes' = IF d = "accepted" THEN AcceptedOnes \cup {u} ELSE AcceptedOnes
      /\ u \notin AcceptedOnes
  BY <1>1, <1>2, Zenon DEF AcceptedOnes
<1>6. /\ CompletedOnes' = IF d \in {"accepted", "already"} THEN CompletedOnes \cup {u} ELSE CompletedOnes
      /\ u \notin CompletedOnes
  BY <1>1, <1>2, Zenon DEF CompletedOnes
<1>7. /\ FailedOnes' = IF d = "failed" THEN FailedOnes \cup {u} ELSE FailedOnes
      /\ u \notin FailedOnes
  BY <1>1, <1>2, Zenon DEF FailedOnes
<1>8. Numbers /\ Exact
  BY Zenon DEF CountInv
<1>9. InProgress' \in Nat /\ InProgress' = Cardinality(Active')
  <2>1. InProgress \in Nat /\ InProgress = Cardinality(Active) /\ IsFiniteSet(Active)
    BY <1>8, CountedAreFinite, Zenon DEF Exact, Numbers
  <2>2. InProgress' = IF InProgress > 0 THEN InProgress - 1 ELSE 0
    BY Zenon DEF FinishAs
  <2>3. Cardinality(Active') = InProgress - 1 /\ InProgress > 0
    BY <1>3, <2>1, Removing, Zenon
  <2> QED BY <2>1, <2>2, <2>3
<1>10. Accepted' \in Nat /\ Accepted' = Cardinality(AcceptedOnes')
  <2>1. Accepted \in Nat /\ Accepted = Cardinality(AcceptedOnes) /\ IsFiniteSet(AcceptedOnes)
    BY <1>8, CountedAreFinite, Zenon DEF Exact, Numbers
  <2>2. \/ AcceptedOnes' = AcceptedOnes \cup {u} /\ Accepted' = Accepted + 1
        \/ AcceptedOnes' = AcceptedOnes /\ Accepted' = Accepted
    BY <1>5, Zenon DEF FinishAs
  <2> QED BY <1>5, <2>1, <2>2, CountsUp, Zenon
<1>11. Completed' \in Nat /\ Completed' = Cardinality(CompletedOnes')
  <2>1. Completed \in Nat /\ Completed = Cardinality(CompletedOnes) /\ IsFiniteSet(CompletedOnes)
    BY <1>8, CountedAreFinite, Zenon DEF Exact, Numbers
  <2>2. \/ CompletedOnes' = CompletedOnes \cup {u} /\ Completed' = Completed + 1
        \/ CompletedOnes' = CompletedOnes /\ Completed' = Completed
    BY <1>6, Zenon DEF FinishAs
  <2> QED BY <1>6, <2>1, <2>2, CountsUp, Zenon
<1>12. TerminalFailures' \in Nat /\ TerminalFailures' = Cardinality(FailedOnes')
  <2>1. TerminalFailures \in Nat /\ TerminalFailures = Cardinality(FailedOnes) /\ IsFiniteSet(FailedOnes)
    BY <1>8, CountedAreFinite, Zenon DEF Exact, Numbers
  <2>2. \/ FailedOnes' = FailedOnes \cup {u} /\ TerminalFailures' = TerminalFailures + 1
        \/ FailedOnes' = FailedOnes /\ TerminalFailures' = TerminalFailures
    BY <1>7, Zenon DEF FinishAs
  <2> QED BY <1>7, <2>1, <2>2, CountsUp, Zenon
<1>13. Numbers' /\ Exact'
  BY <1>4, <1>8, <1>9, <1>10, <1>11, <1>12, ZenonT(30) DEF Numbers, Exact
<1> QED BY <1>3, <1>4, <1>13, Zenon DEF CountInv

(* Begin puts an upload on the gauge, or counts it as failed. *)
LEMMA CountBegin ==
  ASSUME ToldInv, CountInv, NEW u \in Uploads, NEW k \in {"notify", "final"},
         NEW valid \in BOOLEAN, BeginUpload(u, k, valid)
  PROVE  CountInv'
<1>1. /\ upload \in [Uploads -> UploadStates] /\ outcome \in [Uploads -> Dispositions]
      /\ upload[u] = "none" /\ outcome[u] = "none"
  BY ZenonT(30) DEF BeginUpload, ToldInv, DeliveryInv, Types, Outcomes
<1>2. attempt \in [Uploads -> Nat] /\ attempt[u] = 0 /\ Numbers /\ Exact
  BY <1>1, Zenon DEF CountInv, Loop
<1>3. UNCHANGED <<Attempts, Retries, Completed, Accepted>>
  BY Zenon DEF BeginUpload
<1>4. CASE valid
  <2>1. /\ upload' = [upload EXCEPT ![u] = "ready"] /\ attempt' = [attempt EXCEPT ![u] = 1]
        /\ InProgress' = InProgress + 1 /\ UNCHANGED <<outcome, TerminalFailures>>
    BY <1>4, Zenon DEF BeginUpload
  <2>2. Begun' = Begun \cup {u} /\ Active' = Active \cup {u} /\ u \notin Active
    BY <1>1, <2>1, Zenon DEF Begun, Active
  <2>3. Tried' = Tried /\ Loop'
    BY <1>1, <1>2, <2>1 DEF Tried, Loop, CountInv
  <2>4. /\ AcceptedOnes' = AcceptedOnes /\ CompletedOnes' = CompletedOnes
        /\ FailedOnes' = FailedOnes
    BY <2>1, Zenon DEF AcceptedOnes, CompletedOnes, FailedOnes
  <2>5. InProgress' \in Nat /\ InProgress' = Cardinality(Active')
    BY <1>2, <2>1, <2>2, CountedAreFinite, Adding DEF Exact, Numbers
  <2>6. IsFiniteSet(Begun')
    BY <2>2, FS_AddElement, Zenon DEF CountInv
  <2> QED BY <1>2, <1>3, <2>1, <2>3, <2>4, <2>5, <2>6, ZenonT(30) DEF CountInv, Numbers, Exact
<1>5. CASE ~valid
  <2>1. /\ upload' = [upload EXCEPT ![u] = "done"] /\ outcome' = [outcome EXCEPT ![u] = "failed"]
        /\ TerminalFailures' = TerminalFailures + 1 /\ UNCHANGED <<attempt, InProgress>>
    BY <1>5, Zenon DEF BeginUpload
  <2>2. Begun' = Begun \cup {u} /\ Active' = Active
    BY <1>1, <2>1, Zenon DEF Begun, Active
  <2>3. Tried' = Tried /\ Loop'
    BY <1>1, <1>2, <2>1, ZenonT(30) DEF Tried, Loop, CountInv
  <2>4. /\ AcceptedOnes' = AcceptedOnes /\ CompletedOnes' = CompletedOnes
        /\ FailedOnes' = FailedOnes \cup {u} /\ u \notin FailedOnes
    BY <1>1, <2>1, Zenon DEF AcceptedOnes, CompletedOnes, FailedOnes
  <2>5. TerminalFailures' \in Nat /\ TerminalFailures' = Cardinality(FailedOnes')
    BY <1>2, <2>1, <2>4, CountedAreFinite, Adding DEF Exact, Numbers
  <2>6. IsFiniteSet(Begun')
    BY <2>2, FS_AddElement, Zenon DEF CountInv
  <2> QED BY <1>2, <1>3, <2>1, <2>2, <2>3, <2>4, <2>5, <2>6, ZenonT(30) DEF CountInv, Numbers, Exact
<1> QED BY <1>4, <1>5, Zenon

(* Attempt counts the first attempt of an upload apart from its retries. *)
LEMMA CountAttempt ==
  ASSUME ToldInv, CountInv, NEW u \in Uploads, StartAttempt(u)
  PROVE  CountInv'
<1>1. /\ upload \in [Uploads -> UploadStates] /\ upload[u] = "ready"
      /\ upload' = [upload EXCEPT ![u] = "sending"]
      /\ UNCHANGED <<attempt, outcome, InProgress, Completed, Accepted, TerminalFailures>>
  BY Zenon DEF StartAttempt, ToldInv, DeliveryInv, Types
<1>2. attempt \in [Uploads -> Nat] /\ attempt[u] > 0 /\ Numbers /\ Exact
  BY <1>1, Zenon DEF CountInv, Loop
<1>3. Begun' = Begun /\ Active' = Active /\ Loop'
  BY <1>1, Zenon DEF Begun, Active, Loop, CountInv
<1>4. /\ AcceptedOnes' = AcceptedOnes /\ CompletedOnes' = CompletedOnes
      /\ FailedOnes' = FailedOnes
  BY <1>1, Zenon DEF AcceptedOnes, CompletedOnes, FailedOnes
<1>5. CASE attempt[u] = 1
  <2>1. Tried' = Tried \cup {u} /\ u \notin Tried
    BY <1>1, <1>2, <1>5 DEF Tried
  <2>2. Attempts' = Attempts + 1 /\ Retries' = Retries
    BY <1>5 DEF StartAttempt
  <2>3. Cardinality(Tried') = Cardinality(Tried) + 1 /\ Cardinality(Tried) \in Nat
    BY <2>1, CountedAreFinite, Adding, Zenon
  <2> QED BY <1>1, <1>2, <1>3, <1>4, <2>2, <2>3 DEF CountInv, Numbers, Exact
<1>6. CASE attempt[u] # 1
  <2>1. attempt[u] > 1
    BY <1>2, <1>6
  <2>2. Tried' = Tried
    BY <1>1, <2>1, Zenon DEF Tried
  <2>3. Attempts' = Attempts + 1 /\ Retries' = Retries + 1
    BY <2>1, ZenonT(30) DEF StartAttempt
  <2> QED BY <1>1, <1>2, <1>3, <1>4, <2>2, <2>3 DEF CountInv, Numbers, Exact
<1> QED BY <1>5, <1>6, Zenon

(* Every step of PostResponse keeps the counters right. *)
LEMMA CountClient ==
  ASSUME ToldInv, CountInv, NEW u \in Uploads, Client(u)
  PROVE  CountInv'
<1>1. upload \in [Uploads -> UploadStates] /\ attempt \in [Uploads -> Nat] /\ Loop
  BY Zenon DEF ToldInv, DeliveryInv, Types, CountInv, Loop
<1>2. ASSUME upload[u] \notin {"none", "done", "ready"}, WaitToRetry(u),
             UNCHANGED <<attempt, Attempts, Retries>>
      PROVE  CountInv'
  <2>1. Begun' = Begun /\ Active' = Active /\ Tried' = Tried /\ Loop'
    BY <1>1, <1>2, ZenonT(30) DEF WaitToRetry, Begun, Active, Tried, Loop
  <2> QED BY <1>2, <2>1, CountQuiet, Zenon DEF WaitToRetry, healthVars
<1>3. CASE StartAttempt(u)
  BY <1>3, CountAttempt, Zenon
<1>4. CASE WroteRequest(u)
  <2>1. Begun' = Begun /\ Active' = Active /\ Tried' = Tried /\ Loop'
    BY <1>1, <1>4, ZenonT(30) DEF WroteRequest, Begun, Active, Tried, Loop
  <2> QED BY <1>4, <2>1, CountQuiet, ZenonT(30) DEF WroteRequest
<1>5. CASE TransportFails(u)
  <2>1. /\ upload[u] \notin {"none", "done", "ready"} /\ UNCHANGED <<attempt, Attempts, Retries>>
        /\ WaitToRetry(u) \/ FinishAs(u, Failure(u))
    BY <1>5, Zenon DEF TransportFails
  <2>2. Failure(u) \in Dispositions \ {"none"}
    BY Zenon DEF Failure, Dispositions
  <2> QED BY <1>2, <2>1, <2>2, CountFinish, Zenon
<1>6. CASE ReplyArrives(u)
  <2>1. /\ upload[u] \notin {"none", "done", "ready"} /\ UNCHANGED <<attempt, Attempts, Retries>>
        /\ \/ WaitToRetry(u) \/ FinishAs(u, "accepted") \/ FinishAs(u, "already")
           \/ FinishAs(u, "failed")
    BY <1>6 DEF ReplyArrives
  <2>2. {"accepted", "already", "failed"} \subseteq Dispositions \ {"none"}
    BY Zenon DEF Dispositions
  <2> QED BY <1>2, <2>1, <2>2, CountFinish, Zenon
<1>7. CASE RetryWaited(u)
  <2>1. /\ upload[u] = "waiting" /\ upload' = [upload EXCEPT ![u] = "ready"]
        /\ attempt' = [attempt EXCEPT ![u] = attempt[u] + 1] /\ attempt[u] > 0
    BY <1>1, <1>7, Zenon DEF RetryWaited, Loop
  <2>2. Begun' = Begun /\ Active' = Active /\ Loop'
    BY <1>1, <2>1 DEF Begun, Active, Loop
  <2>3. Tried' = Tried
    BY <1>1, <2>1 DEF Tried
  <2> QED BY <1>7, <2>2, <2>3, CountQuiet, Zenon DEF RetryWaited
<1>8. CASE RetryAborted(u)
  <2>1. Failure(u) \in Dispositions \ {"none"}
    BY Zenon DEF Failure, Dispositions
  <2> QED BY <1>8, <2>1, CountFinish, ZenonT(30) DEF RetryAborted
<1> QED BY <1>3, <1>4, <1>5, <1>6, <1>7, <1>8, ZenonT(30) DEF Client

(* Every step keeps the counters right. *)
LEMMA CountStep == ToldInv /\ CountInv /\ [DeliveryNext]_deliveryVars => CountInv'
<1> SUFFICES ASSUME ToldInv, CountInv, [DeliveryNext]_deliveryVars PROVE CountInv'
  OBVIOUS
<1>1. ASSUME UNCHANGED <<attempt, outcome, healthVars>>, upload' = upload
      PROVE  CountInv'
  <2>1. Begun' = Begun /\ Active' = Active /\ Tried' = Tried /\ Loop'
    BY <1>1, ZenonT(30) DEF Begun, Active, Tried, Loop, CountInv
  <2> QED BY <1>1, <2>1, CountQuiet, Zenon
<1>2. ASSUME NEW u \in Uploads, NEW s \in Statuses, ServiceAnswers(u, s)
      PROVE  CountInv'
  <2>1. /\ upload[u] = "written" /\ upload' = [upload EXCEPT ![u] = "answered"]
        /\ upload \in [Uploads -> UploadStates] /\ UNCHANGED <<attempt, outcome, healthVars>>
    BY <1>2, ZenonT(30) DEF ServiceAnswers, ToldInv, DeliveryInv, Types
  <2>2. Begun' = Begun /\ Active' = Active /\ Tried' = Tried /\ Loop'
    BY <2>1, ZenonT(30) DEF Begun, Active, Tried, Loop, CountInv
  <2> QED BY <2>1, <2>2, CountQuiet, Zenon
<1>3. CASE Service
  BY <1>1, <1>2, <1>3, ZenonT(30) DEF Service, LateArrival, ServiceForgets, uploadVars
<1>4. ASSUME NEW c \in Commands, NEW why \in {"canceled", "deadline", "ttl"}, ContextEnds(c, why)
      PROVE  CountInv'
  BY <1>1, <1>4, Zenon DEF ContextEnds, uploadVars
<1>5. CASE UNCHANGED deliveryVars
  BY <1>1, <1>5, Zenon DEF deliveryVars, uploadVars
<1> QED BY <1>3, <1>4, <1>5, CountBegin, CountClient, ZenonT(30) DEF DeliveryNext

(* The health counters describe the uploads exactly, with any number of    *)
(* workers in PostResponse (Begin, Attempt and Finish of DeliveryHealth).  *)
THEOREM HealthIsExactThm == DeliverySpec => []HealthIsExact
<1>1. CountInv => HealthIsExact
  BY ZenonT(30) DEF CountInv, Exact, HealthIsExact, Ended, Active, AcceptedOnes, CompletedOnes, FailedOnes,
         Tried
<1> QED BY <1>1, ToldInit, ToldStep, CountInit, CountStep, PTL DEF DeliverySpec

(* Every command gets its notifications in the order the server sent them  *)
(* and then one terminal response, none is missing while its context       *)
(* lives, and what the worker and the health counters say of it is true.   *)
THEOREM AnsweredOnceInOrderThm == Spec => []AnsweredOnceInOrder
<1>1. ProcessorInv /\ HealthIsExact => AnsweredOnceInOrder
  <2> SUFFICES ASSUME ProcessorInv, HealthIsExact PROVE AnsweredOnceInOrder
    OBVIOUS
  <2>1. /\ MaxPosts \in Nat /\ \A c \in Commands : posts[c] \in 0..MaxPosts
    BY DeliveryAssumption, Zenon DEF ProcessorInv, ProcessorTypes
  <2>2. \A c \in Commands : Sequence(c) /\ Reason(c)
    BY Zenon DEF ProcessorInv, CommandInv
  <2>3. OneTerminalResponse
    <3>1. ASSUME NEW c \in Commands, NEW n \in 1..posts[c], n # posts[c]
          PROVE  upload[<<c, n>>] = "done" /\ kind[<<c, n>>] = "notify"
      <4>1. n \in 1..MaxPosts /\ n < posts[c]
        BY <2>1, <3>1
      <4> QED BY <2>2, <4>1, Zenon DEF Sequence
    <3>2. \A c \in Commands : Final(c) \subseteq {posts[c]}
      BY <3>1, Zenon DEF Final
    <3>3. ASSUME NEW c \in Commands, NEW n \in 1..(posts[c] - 1)
          PROVE  upload[<<c, n>>] = "done"
      <4>1. n \in 1..posts[c] /\ n # posts[c]
        BY <2>1
      <4> QED BY <3>1, <4>1, Zenon
    <3> QED BY <3>2, <3>3, Zenon DEF OneTerminalResponse
  <2>4. AnsweredWhileLive
    BY <2>1, <2>2 DEF AnsweredWhileLive, Returned, Final, Reason
  <2>5. NotificationsInOrder
    BY ZenonT(30) DEF ProcessorInv, SeenInv
  <2>6. AcceptedIsDelivered
    BY ZenonT(30) DEF ProcessorInv, ToldInv, Fulfilment, AcceptedIsDelivered
  <2> QED BY <2>3, <2>4, <2>5, <2>6 DEF AnsweredOnceInOrder
<1> QED BY <1>1, ProcessorInvariant, ProcessorDelivers, HealthIsExactThm, PTL

=============================================================================
