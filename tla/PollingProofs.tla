--------------------------- MODULE PollingProofs ---------------------------
(***************************************************************************)
(* Proofs about the polls of a control plane: the local proxy that answers *)
(* them (LocalProxy), their routing (PollRouting) and the wait learned     *)
(* behind a proxy (PollTiming), for any number of polls and callers, every *)
(* accepted configuration and every cutoff.                                *)
(***************************************************************************)
EXTENDS PollRouting, PollTiming, LocalProxy, TLAPS

-----------------------------------------------------------------------------
(* LocalProxy.                                                             *)

Posts == {NoPost} \cup [kind : {"notify", "final"}, step : {"lookup", "send", "evict", "resend"}]

ProxyTypes ==
  /\ handler \in [MCPCallers -> {"none", "waiting", "streaming", "returned"}]
  /\ localPending \in Seq(MCPCallers) /\ localInFlight \subseteq MCPCallers /\ answered \subseteq MCPCallers
  /\ responseCh \in [MCPCallers -> Seq({"notify", "final"})]
  /\ post \in [MCPCallers -> Posts] /\ latePost \in [MCPCallers -> Posts]

(* A request is in one place: queued once, in flight, or answered for good. *)
Queued(c) == \E i \in 1..Len(localPending) : localPending[i] = c
OnePlace ==
  /\ \A i, j \in 1..Len(localPending) : localPending[i] = localPending[j] => i = j
  /\ \A c \in MCPCallers :
       /\ Queued(c) => c \notin localInFlight /\ c \notin answered
       /\ c \in localInFlight => c \notin answered
       /\ Queued(c) \/ c \in localInFlight \/ c \in answered => handler[c] # "none"

(* An abandoned POST is of a caller whose POSTs may time out; the others'  *)
(* channel has room when the terminal response is sent again; a channel    *)
(* never holds more than its buffer.                                       *)
PostsInOrder ==
  /\ \A c \in MCPCallers :
       /\ Len(responseCh[c]) <= Buffer
       /\ latePost[c] = NoPost \/ c \in PostTimeouts
  /\ \A c \in MCPCallers \ PostTimeouts :
       post[c].kind = "final" /\ post[c].step = "resend" => Len(responseCh[c]) < Buffer
  /\ \A c \in answered \ PostTimeouts :
       \/ post[c] = NoPost
       \/ post[c].kind = "final" /\ post[c].step \in {"send", "evict", "resend"}

(* The inductive invariant of the local proxy. *)
ProxyInv == ProxyTypes /\ OnePlace /\ PostsInOrder /\ NothingIsLost

LEMMA ProxyStarts == ProxyInit => ProxyInv
<1> SUFFICES ASSUME ProxyInit PROVE ProxyInv
  OBVIOUS
<1> USE DEF ProxyInit, NoPost
<1>1. ProxyTypes
  BY DEF ProxyTypes, Posts
<1>2. OnePlace /\ PostsInOrder
  BY ProxyAssumption DEF OnePlace, PostsInOrder, Queued
<1>3. NothingIsLost
  BY DEF NothingIsLost, TerminalResponseIsKept, PollSeesRequest
<1> QED BY <1>1, <1>2, <1>3 DEF ProxyInv

(* Start and Stop, and a poll that times out. *)
LEMMA StartSteps ==
  ASSUME ProxyInv,
         \/ StartBackend \/ StartClient \/ StartReady \/ StopProxy
         \/ PollTimeout \/ UNCHANGED proxyVars
  PROVE  ProxyInv'
<1>1. UNCHANGED <<handler, localPending, localInFlight, responseCh, notifies, post, latePost, answered>>
  BY DEF StartBackend, StartClient, StartReady, StopProxy, PollTimeout,
     proxyVars, serving
<1>2. ProxyTypes' /\ OnePlace' /\ PostsInOrder' /\ TerminalResponseIsKept'
  BY <1>1 DEF ProxyInv, ProxyTypes, OnePlace, Queued, PostsInOrder, NothingIsLost, TerminalResponseIsKept,
     keptFor, onItsWay
<1>3. PollSeesRequest'
  BY <1>1 DEF ProxyInv, NothingIsLost, PollSeesRequest, StartBackend, StartClient,
     StartReady, StopProxy, PollTimeout, proxyVars, serving
<1> QED BY <1>2, <1>3 DEF ProxyInv, NothingIsLost

(* A request is queued, and taken by a poll. *)
LEMMA EnqueueStep ==
  ASSUME ProxyInv, NEW c \in MCPCallers, Enqueue(c)
  PROVE  ProxyInv'
<1>0. /\ handler[c] = "none" /\ handler' = [handler EXCEPT ![c] = "waiting"]
      /\ localPending' = Append(localPending, c) /\ localPoll' # "waiting"
      /\ UNCHANGED <<startStep, held, localInFlight, responseCh, notifies, post, latePost, answered>>
  BY DEF Enqueue, signalStateChange
<1>1. localPending \in Seq(MCPCallers) /\ ~Queued(c) /\ c \notin localInFlight /\ c \notin answered
  BY <1>0 DEF ProxyInv, ProxyTypes, OnePlace
<1>2. ProxyTypes'
  BY <1>0 DEF ProxyInv, ProxyTypes
<1>3. OnePlace'
  <2>1. \A k \in MCPCallers : Queued(k)' => Queued(k) \/ k = c
    BY <1>0, <1>1 DEF Queued
  <2>2. \A i, j \in 1..Len(localPending') : localPending'[i] = localPending'[j] => i = j
    BY <1>0, <1>1 DEF ProxyInv, OnePlace, Queued
  <2>3. \A k \in MCPCallers : handler[k] # "none" => handler'[k] # "none"
    BY <1>0 DEF ProxyInv, ProxyTypes
  <2>4. handler'[c] # "none"
    BY <1>0 DEF ProxyInv, ProxyTypes
  <2> QED BY <1>0, <1>1, <2>1, <2>2, <2>3, <2>4 DEF ProxyInv, OnePlace
<1>4. PostsInOrder'
  BY <1>0 DEF ProxyInv, PostsInOrder
<1>5. TerminalResponseIsKept'
  BY <1>0, <1>1 DEF ProxyInv, ProxyTypes, NothingIsLost, TerminalResponseIsKept, keptFor, onItsWay
<1>6. PollSeesRequest'
  BY <1>0 DEF ProxyInv, NothingIsLost, PollSeesRequest
<1> QED BY <1>2, <1>3, <1>4, <1>5, <1>6 DEF ProxyInv, NothingIsLost

LEMMA PollLookStep ==
  ASSUME ProxyInv, PollLook
  PROVE  ProxyInv'
<1>0. UNCHANGED <<startStep, held, handler, responseCh, notifies, post, latePost, answered>>
  BY DEF PollLook
<1>1. ProxyTypes' /\ OnePlace'
  <2>1. CASE localPending = << >>
    BY <1>0, <2>1 DEF PollLook, ProxyInv, ProxyTypes, OnePlace, Queued
  <2>2. CASE localPending # << >>
    <3> DEFINE h == localPending[1]
    <3>1. /\ localPending' = Tail(localPending) /\ localInFlight' = localInFlight \cup {h}
          /\ localPending \in Seq(MCPCallers) /\ Len(localPending) > 0 /\ h \in MCPCallers /\ Queued(h)
      BY <2>2 DEF PollLook, ProxyInv, ProxyTypes, Queued
    <3>2. /\ Len(localPending') = Len(localPending) - 1
          /\ \A i \in 1..Len(localPending') : localPending'[i] = localPending[i + 1]
      BY <3>1
    <3>3. \A c \in MCPCallers : Queued(c)' => Queued(c) /\ c # h
      <4> SUFFICES ASSUME NEW c \in MCPCallers, Queued(c)' PROVE Queued(c) /\ c # h
        OBVIOUS
      <4>1. PICK i \in 1..Len(localPending') : localPending'[i] = c
        BY DEF Queued
      <4>2. i + 1 \in 1..Len(localPending) /\ i + 1 # 1 /\ localPending[i + 1] = c
        BY <3>1, <3>2, <4>1
      <4>3. \A m, n \in 1..Len(localPending) : localPending[m] = localPending[n] => m = n
        BY DEF ProxyInv, OnePlace
      <4>4. 1 \in 1..Len(localPending)
        BY <3>1
      <4>5. c # h
        BY <4>2, <4>3, <4>4
      <4> QED BY <4>2, <4>5 DEF Queued
    <3>4. \A i, j \in 1..Len(localPending') : localPending'[i] = localPending'[j] => i = j
      BY <3>1, <3>2 DEF ProxyInv, OnePlace
    <3>5. ProxyTypes'
      BY <1>0, <3>1 DEF ProxyInv, ProxyTypes
    <3> QED BY <1>0, <3>1, <3>3, <3>4, <3>5 DEF ProxyInv, OnePlace
  <2> QED BY <2>1, <2>2
<1>2. PostsInOrder' /\ TerminalResponseIsKept'
  BY <1>0, Zenon DEF ProxyInv, PostsInOrder, NothingIsLost, TerminalResponseIsKept, keptFor, onItsWay
<1>3. PollSeesRequest'
  BY DEF PollLook, PollSeesRequest
<1> QED BY <1>1, <1>2, <1>3 DEF ProxyInv, NothingIsLost

(* Taking the first element leaves any other one in the sequence. *)
LEMMA TailKeeps ==
  ASSUME NEW S, NEW q \in Seq(S), q # << >>, NEW x, Head(q) # x, \E i \in DOMAIN q : q[i] = x
  PROVE  \E i \in DOMAIN Tail(q) : Tail(q)[i] = x
<1>1. PICK i \in 1..Len(q) : q[i] = x
  OBVIOUS
<1>2. i # 1 /\ i - 1 \in 1..(Len(q) - 1)
  BY <1>1
<1>3. Len(Tail(q)) = Len(q) - 1 /\ Tail(q) \in Seq(S) /\ Tail(q)[i - 1] = q[i]
  BY <1>2
<1>4. i - 1 \in DOMAIN Tail(q)
  BY <1>2, <1>3
<1> QED BY <1>1, <1>3, <1>4, Zenon

(* A cancelled request is nowhere, and the others keep their places. *)
LEMMA Cancelled ==
  ASSUME ProxyInv, NEW c \in MCPCallers, cancelRequest(c)
  PROVE  /\ localPending' \in Seq(MCPCallers) /\ localPoll' # "waiting" /\ localInFlight' = localInFlight \ {c}
         /\ \A i, j \in 1..Len(localPending') : localPending'[i] = localPending'[j] => i = j
         /\ \A k \in MCPCallers : Queued(k)' => Queued(k)
<1>0. localPending \in Seq(MCPCallers) /\ localInFlight' = localInFlight \ {c} /\ localPoll' # "waiting"
  BY DEF ProxyInv, ProxyTypes, cancelRequest, signalStateChange
<1>1. CASE UNCHANGED localPending
  BY <1>0, <1>1, Zenon DEF ProxyInv, OnePlace, Queued
<1>2. ASSUME NEW i \in 1..Len(localPending),
             localPending' = [j \in 1..(Len(localPending) - 1) |-> localPending[IF j < i THEN j ELSE j + 1]]
      PROVE  /\ localPending' \in Seq(MCPCallers)
             /\ \A m, n \in 1..Len(localPending') : localPending'[m] = localPending'[n] => m = n
             /\ \A k \in MCPCallers : Queued(k)' => Queued(k)
  <2>1. Len(localPending) - 1 \in Nat
    BY <1>0
  <2>2. \A j \in 1..(Len(localPending) - 1) : (IF j < i THEN j ELSE j + 1) \in 1..Len(localPending)
    BY <1>0
  <2>3. localPending' \in [1..(Len(localPending) - 1) -> MCPCallers]
    BY <1>0, <1>2, <2>2
  <2>4. localPending' \in Seq(MCPCallers) /\ Len(localPending') = Len(localPending) - 1
    BY <2>1, <2>3
  <2>5. \A m, n \in 1..Len(localPending') : localPending'[m] = localPending'[n] => m = n
    BY <1>0, <1>2, <2>2, <2>4 DEF ProxyInv, OnePlace
  <2>6. \A k \in MCPCallers : Queued(k)' => Queued(k)
    BY <1>0, <1>2, <2>2, <2>4 DEF Queued
  <2> QED BY <2>4, <2>5, <2>6
<1>3. DOMAIN localPending = 1..Len(localPending)
  BY <1>0
<1>4. \/ UNCHANGED localPending
      \/ \E i \in 1..Len(localPending) :
           localPending' = [j \in 1..(Len(localPending) - 1) |-> localPending[IF j < i THEN j ELSE j + 1]]
  BY <1>3 DEF cancelRequest
<1>5. CASE UNCHANGED localPending
  BY <1>0, <1>1, <1>5
<1>6. CASE ~UNCHANGED localPending
  BY <1>0, <1>2, <1>4, <1>6
<1> QED BY <1>5, <1>6

(* The caller's handler takes a payload or gives up. *)
LEMMA CallerHandlerSteps ==
  ASSUME ProxyInv, NEW c \in MCPCallers, HandlerReceives(c) \/ HandlerGivesUp(c)
  PROVE  ProxyInv'
<1>0. /\ UNCHANGED <<startStep, held, notifies, post, latePost, answered>>
      /\ handler[c] \in {"waiting", "streaming"}
      /\ \/ /\ responseCh[c] # << >> /\ responseCh' = [responseCh EXCEPT ![c] = Tail(@)]
            /\ \/ /\ handler' = [handler EXCEPT ![c] = "returned"] /\ cancelRequest(c)
               \/ /\ Head(responseCh[c]) # "final"
                  /\ handler' = [handler EXCEPT ![c] = IF c \in StreamCallers THEN "streaming" ELSE @]
                  /\ UNCHANGED <<localPending, localInFlight, localPoll>>
         \/ /\ handler' = [handler EXCEPT ![c] = "returned"] /\ cancelRequest(c)
            /\ UNCHANGED responseCh
  BY DEF HandlerReceives, HandlerGivesUp, isFinalLocalResponse
<1>1. /\ handler' \in [MCPCallers -> {"none", "waiting", "streaming", "returned"}]
      /\ \A k \in MCPCallers : handler'[k] = "none" <=> handler[k] = "none"
      /\ \A k \in MCPCallers \ {c} : handler'[k] = handler[k]
  BY <1>0, Zenon DEF ProxyInv, ProxyTypes
<1>2. /\ localPending' \in Seq(MCPCallers) /\ (localPoll' = "waiting" => UNCHANGED <<localPoll, localPending>>)
      /\ localInFlight' \subseteq localInFlight
      /\ \A i, j \in 1..Len(localPending') : localPending'[i] = localPending'[j] => i = j
      /\ \A k \in MCPCallers : Queued(k)' => Queued(k)
  <2>1. CASE cancelRequest(c)
    BY <2>1, Cancelled
  <2>2. CASE UNCHANGED <<localPending, localInFlight, localPoll>>
    BY <2>2 DEF ProxyInv, ProxyTypes, OnePlace, Queued
  <2> QED BY <1>0, <2>1, <2>2
<1>3. OnePlace'
  BY <1>0, <1>1, <1>2 DEF ProxyInv, OnePlace
<1>4. /\ responseCh' \in [MCPCallers -> Seq({"notify", "final"})]
      /\ \A k \in MCPCallers : Len(responseCh'[k]) <= Len(responseCh[k])
      /\ \A k \in MCPCallers \ {c} : responseCh'[k] = responseCh[k]
  <2>1. responseCh \in [MCPCallers -> Seq({"notify", "final"})]
    BY DEF ProxyInv, ProxyTypes
  <2>2. responseCh[c] # << >> => /\ Tail(responseCh[c]) \in Seq({"notify", "final"})
                                 /\ Len(Tail(responseCh[c])) <= Len(responseCh[c])
    BY <2>1
  <2>3. \A k \in MCPCallers : Len(responseCh[k]) \in Nat /\ Len(responseCh[k]) <= Len(responseCh[k])
    BY <2>1
  <2>4. CASE UNCHANGED responseCh
    BY <2>1, <2>3, <2>4
  <2>5. CASE responseCh[c] # << >> /\ responseCh' = [responseCh EXCEPT ![c] = Tail(@)]
    <3>1. responseCh'[c] = Tail(responseCh[c]) /\ \A k \in MCPCallers \ {c} : responseCh'[k] = responseCh[k]
      BY <2>1, <2>5
    <3>2. responseCh' \in [MCPCallers -> Seq({"notify", "final"})]
      BY <2>1, <2>2, <2>5
    <3> QED BY <2>2, <2>3, <2>5, <3>1, <3>2
  <2> QED BY <1>0, <2>4, <2>5
<1>5. ProxyTypes'
  BY <1>0, <1>1, <1>2, <1>4 DEF ProxyInv, ProxyTypes
<1>6. PostsInOrder'
  <2>1. \A k \in MCPCallers : Len(responseCh[k]) \in Nat /\ Len(responseCh'[k]) \in Nat
    BY <1>4 DEF ProxyInv, ProxyTypes
  <2> QED BY <1>0, <1>4, <2>1, ProxyAssumption DEF ProxyInv, PostsInOrder
<1>7. TerminalResponseIsKept'
  <2> SUFFICES ASSUME NEW k \in answered \ PostTimeouts, handler'[k] \in {"waiting", "streaming"}
               PROVE  onItsWay(k)'
    BY <1>0 DEF TerminalResponseIsKept, keptFor
  <2>0. k \in MCPCallers /\ handler[k] \in {"waiting", "streaming"}
    BY <1>0, <1>1 DEF ProxyInv, ProxyTypes
  <2>1. onItsWay(k)
    BY <2>0 DEF ProxyInv, NothingIsLost, TerminalResponseIsKept, keptFor
  <2>2. CASE k # c
    BY <1>0, <1>4, <2>0, <2>1, <2>2, Zenon DEF onItsWay
  <2>3. CASE k = c
    <3>1. handler' # [handler EXCEPT ![c] = "returned"]
      <4> SUFFICES ASSUME handler' = [handler EXCEPT ![c] = "returned"] PROVE FALSE
        OBVIOUS
      <4>1. handler'[c] = "returned"
        BY DEF ProxyInv, ProxyTypes
      <4> QED BY <2>3, <4>1
    <3>2. /\ responseCh[c] # << >> /\ Head(responseCh[c]) # "final"
          /\ responseCh' = [responseCh EXCEPT ![c] = Tail(@)]
      BY <1>0, <3>1
    <3>3. responseCh[c] \in Seq({"notify", "final"}) /\ responseCh'[c] = Tail(responseCh[c])
      BY <3>2 DEF ProxyInv, ProxyTypes
    <3>4. CASE \E i \in DOMAIN responseCh[c] : responseCh[c][i] = "final"
      <4>1. \E i \in DOMAIN Tail(responseCh[c]) : Tail(responseCh[c])[i] = "final"
        BY <3>2, <3>3, <3>4, TailKeeps, ZenonT(60)
      <4> QED BY <2>3, <3>3, <4>1, Zenon DEF onItsWay
    <3>5. CASE post[c].kind = "final" /\ post[c].step \in {"send", "evict", "resend"}
      BY <1>0, <2>3, <3>5 DEF onItsWay
    <3> QED BY <2>1, <2>3, <3>4, <3>5 DEF onItsWay
  <2> QED BY <2>2, <2>3
<1>8. PollSeesRequest'
  BY <1>0, <1>2 DEF ProxyInv, NothingIsLost, PollSeesRequest
<1> QED BY <1>3, <1>5, <1>6, <1>7, <1>8 DEF ProxyInv, NothingIsLost

(* The tunnel-client posts, and may give up on a POST that is being handled. *)
LEMMA PostSteps ==
  ASSUME ProxyInv, NEW c \in MCPCallers, Post(c) \/ PostAbandoned(c)
  PROVE  ProxyInv'
<1>0. /\ UNCHANGED <<startStep, held, handler, localPending, localInFlight, responseCh, localPoll, answered>>
      /\ \/ /\ c \in localInFlight /\ UNCHANGED latePost
            /\ \E kind \in {"notify", "final"} : post' = [post EXCEPT ![c] = [kind |-> kind, step |-> "lookup"]]
         \/ /\ c \in PostTimeouts /\ latePost' = [latePost EXCEPT ![c] = post[c]]
            /\ \/ post' = [post EXCEPT ![c] = NoPost]
               \/ post' = [post EXCEPT ![c] = [kind |-> "final", step |-> "lookup"]]
  <2>1. CASE Post(c)
    BY <2>1 DEF Post
  <2>2. CASE PostAbandoned(c)
    <3>1. post \in [MCPCallers -> Posts]
      BY DEF ProxyInv, ProxyTypes
    <3>2. post[c].kind = "final" => [post[c] EXCEPT !.step = "lookup"] = [kind |-> "final", step |-> "lookup"]
      BY <3>1 DEF Posts, NoPost
    <3>3. [post EXCEPT ![c].step = "lookup"] = [post EXCEPT ![c] = [post[c] EXCEPT !.step = "lookup"]]
      BY <3>1
    <3> QED BY <2>2, <3>2, <3>3, Zenon DEF PostAbandoned
  <2> QED BY <2>1, <2>2
<1>1. ProxyTypes'
  <2>1. post \in [MCPCallers -> Posts] /\ latePost \in [MCPCallers -> Posts]
    BY DEF ProxyInv, ProxyTypes
  <2>2. NoPost \in Posts /\ \A kind \in {"notify", "final"} : [kind |-> kind, step |-> "lookup"] \in Posts
    BY DEF Posts, NoPost
  <2>3. post' \in [MCPCallers -> Posts] /\ latePost' \in [MCPCallers -> Posts]
    BY <1>0, <2>1, <2>2
  <2> QED BY <1>0, <2>3 DEF ProxyInv, ProxyTypes
<1>2. OnePlace'
  BY <1>0, Zenon DEF ProxyInv, OnePlace, Queued
<1>3. c \notin answered \ PostTimeouts
  BY <1>0 DEF ProxyInv, OnePlace
<1>4. \A k \in MCPCallers \ {c} : post'[k] = post[k] /\ latePost'[k] = latePost[k]
  BY <1>0 DEF ProxyInv, ProxyTypes
<1>5. PostsInOrder'
  <2>1. latePost'[c] = NoPost \/ c \in PostTimeouts
    BY <1>0, Zenon DEF ProxyInv, ProxyTypes, PostsInOrder
  <2>2. post'[c].step # "resend"
    BY <1>0 DEF ProxyInv, ProxyTypes, NoPost
  <2>3. \A k \in MCPCallers :
          /\ Len(responseCh'[k]) <= Buffer
          /\ latePost'[k] = NoPost \/ k \in PostTimeouts
    BY <1>0, <1>4, <2>1 DEF ProxyInv, PostsInOrder
  <2>4. \A k \in MCPCallers \ PostTimeouts :
          post'[k].kind = "final" /\ post'[k].step = "resend" => Len(responseCh'[k]) < Buffer
    BY <1>0, <1>4, <2>2 DEF ProxyInv, PostsInOrder
  <2>5. \A k \in answered' \ PostTimeouts :
          \/ post'[k] = NoPost
          \/ post'[k].kind = "final" /\ post'[k].step \in {"send", "evict", "resend"}
    BY <1>0, <1>3, <1>4, ZenonT(30) DEF ProxyInv, ProxyTypes, PostsInOrder
  <2> QED BY <2>3, <2>4, <2>5, Zenon DEF PostsInOrder, NoPost
<1>6. TerminalResponseIsKept'
  <2>1. answered' = answered /\ \A k \in answered \ PostTimeouts : k \in MCPCallers \ {c}
    BY <1>0, <1>3 DEF ProxyInv, ProxyTypes
  <2>2. UNCHANGED <<handler, responseCh>>
    BY <1>0
  <2> QED BY <1>4, <2>1, <2>2, Zenon DEF ProxyInv, NothingIsLost, TerminalResponseIsKept, keptFor, onItsWay
<1>7. PollSeesRequest'
  BY <1>0 DEF ProxyInv, NothingIsLost, PollSeesRequest
<1> QED BY <1>1, <1>2, <1>5, <1>6, <1>7 DEF ProxyInv, NothingIsLost

(* A POST is handled: looked up, sent, or made room for and sent again. *)
LEMMA HandleResponseStep ==
  ASSUME ProxyInv, NEW c \in MCPCallers, HandleResponse(c)
  PROVE  ProxyInv'
<1> USE DEF isFinalLocalResponse
<1>0. UNCHANGED <<startStep, held, handler, localPending>>
  BY DEF HandleResponse
<1>1. PICK p \in Posts :
        /\ \/ p = post[c] /\ post' = [post EXCEPT ![c] = nextStep(p, c)] /\ UNCHANGED latePost
           \/ /\ p = latePost[c] /\ latePost' = [latePost EXCEPT ![c] = nextStep(p, c)] /\ UNCHANGED post
        /\ lookup(p, c) \/ deliver(p, c)
        /\ p.step # "none"
  <2>1. post[c] \in Posts /\ latePost[c] \in Posts
    BY DEF ProxyInv, ProxyTypes
  <2>2. ASSUME NEW p, lookup(p, c) \/ deliver(p, c)
        PROVE  p.step # "none"
    BY <2>2 DEF lookup, deliver
  <2>3. \/ /\ lookup(post[c], c) \/ deliver(post[c], c)
           /\ post' = [post EXCEPT ![c] = nextStep(post[c], c)] /\ UNCHANGED latePost
        \/ /\ lookup(latePost[c], c) \/ deliver(latePost[c], c)
           /\ latePost' = [latePost EXCEPT ![c] = nextStep(latePost[c], c)] /\ UNCHANGED post
    BY DEF HandleResponse
  <2> QED BY <2>1, <2>2, <2>3, Zenon
<1>2. nextStep(p, c) \in Posts
  BY DEF Posts, nextStep, NoPost
<1>3. /\ localInFlight' \subseteq localInFlight
      /\ (localPoll' = "waiting" => localPoll = "waiting")
      /\ \A k \in MCPCallers : k \in answered' => k \in answered \/ (k \in localInFlight /\ k \notin localInFlight')
      /\ answered' \subseteq answered \cup {c} /\ answered \subseteq answered'
      /\ (c \in answered' /\ c \notin answered => p.kind = "final" /\ p.step = "lookup" /\ c \in localInFlight)
  BY <1>1 DEF lookup, deliver, signalStateChange
<1>4. OnePlace'
  <2>1. \A k \in MCPCallers : Queued(k)' <=> Queued(k)
    BY <1>0 DEF Queued
  <2> QED BY <1>0, <1>3, <2>1 DEF ProxyInv, OnePlace
<1>5. /\ \A k \in MCPCallers \ {c} : /\ responseCh'[k] = responseCh[k] /\ post'[k] = post[k]
                                  /\ latePost'[k] = latePost[k]
      /\ responseCh[c] \in Seq({"notify", "final"}) /\ Len(responseCh[c]) \in Nat /\ Len(responseCh[c]) <= Buffer
  BY <1>1 DEF ProxyInv, ProxyTypes, PostsInOrder, lookup, deliver, evict
<1>6. /\ responseCh' \in [MCPCallers -> Seq({"notify", "final"})]
      /\ Len(responseCh'[c]) <= Buffer /\ (p.step = "evict" => Len(responseCh'[c]) < Buffer)
      /\ p.step \in {"send", "resend"} /\ Len(responseCh[c]) < Buffer => responseCh'[c] = Append(responseCh[c], p.kind)
  <2>0. responseCh \in [MCPCallers -> Seq({"notify", "final"})] /\ Buffer \in Nat \ {0}
    BY ProxyAssumption DEF ProxyInv, ProxyTypes
  <2>1. CASE UNCHANGED responseCh /\ p.step = "lookup"
    BY <2>0, <2>1, <1>5, Zenon
  <2>2. CASE /\ p.step \in {"send", "resend"}
             /\ responseCh' = [responseCh EXCEPT ![c] = IF Len(@) < Buffer THEN Append(@, p.kind) ELSE @]
    <3>1. p.kind \in {"notify", "final"}
      BY <1>1, <2>2 DEF Posts, NoPost
    <3>2. Append(responseCh[c], p.kind) \in Seq({"notify", "final"})
          /\ Len(Append(responseCh[c], p.kind)) = Len(responseCh[c]) + 1
      BY <1>5, <3>1
    <3> QED BY <1>5, <2>0, <2>2, <3>2
  <2>3. CASE /\ p.step = "evict"
             /\ responseCh' = [responseCh EXCEPT ![c] = IF @ = << >> THEN @ ELSE Tail(@)]
    <3>1. responseCh[c] # << >> => /\ Tail(responseCh[c]) \in Seq({"notify", "final"})
                                   /\ Len(Tail(responseCh[c])) = Len(responseCh[c]) - 1
      BY <1>5
    <3>2. responseCh[c] = << >> => Len(responseCh[c]) = 0
      OBVIOUS
    <3> QED BY <1>5, <2>0, <2>3, <3>1, <3>2
  <2> QED BY <1>1, <2>1, <2>2, <2>3, Zenon DEF lookup, deliver, evict
<1>7. ProxyTypes'
  <2>1. post' \in [MCPCallers -> Posts] /\ latePost' \in [MCPCallers -> Posts]
    BY <1>1, <1>2, ZenonT(30) DEF ProxyInv, ProxyTypes
  <2> QED BY <1>0, <1>3, <1>6, <2>1 DEF ProxyInv, ProxyTypes
<1>8. c \notin PostTimeouts =>
        /\ p = post[c] /\ post'[c] = nextStep(p, c) /\ UNCHANGED latePost
        /\ c \in answered' =>
             /\ p.kind = "final"
             /\ p.step \in {"send", "evict", "resend"} \/ (p.step = "lookup" /\ c \in localInFlight)
  <2>1. c \notin PostTimeouts => latePost[c] = NoPost
    BY DEF ProxyInv, PostsInOrder
  <2>2. c \notin PostTimeouts => p = post[c] /\ post'[c] = nextStep(p, c) /\ UNCHANGED latePost
    BY <1>1, <2>1 DEF NoPost, ProxyInv, ProxyTypes
  <2>3. c \in answered /\ c \notin PostTimeouts => p.kind = "final" /\ p.step \in {"send", "evict", "resend"}
    BY <1>1, <2>2 DEF ProxyInv, PostsInOrder, NoPost
  <2> QED BY <1>3, <2>2, <2>3, Zenon
<1>9. \A step \in {"send", "evict", "resend"} :
        [p EXCEPT !.step = step].kind = p.kind /\ [p EXCEPT !.step = step].step = step
  BY <1>1 DEF Posts, NoPost
<1>10. PostsInOrder'
  <2>1. \A k \in MCPCallers : Len(responseCh'[k]) <= Buffer
    BY <1>5, <1>6, Zenon DEF ProxyInv, PostsInOrder
  <2>2. latePost'[c] = NoPost \/ c \in PostTimeouts
    <3>1. CASE UNCHANGED latePost
      BY <3>1, Zenon DEF ProxyInv, PostsInOrder
    <3>2. CASE p = latePost[c]
      BY <1>1, <3>2 DEF ProxyInv, PostsInOrder, NoPost
    <3> QED BY <1>1, <3>1, <3>2
  <2>3. c \notin PostTimeouts /\ post'[c].step = "resend" => Len(responseCh'[c]) < Buffer
    <3>1. nextStep(p, c).step = "resend" => p.step = "evict"
      BY <1>1 DEF nextStep, Posts, NoPost
    <3> QED BY <1>6, <1>8, <3>1, Zenon
  <2>4. c \in answered' /\ c \notin PostTimeouts =>
          \/ post'[c] = NoPost
          \/ post'[c].kind = "final" /\ post'[c].step \in {"send", "evict", "resend"}
    BY <1>1, <1>8, <1>9, Zenon DEF nextStep
  <2>5. \A k \in MCPCallers : latePost'[k] = NoPost \/ k \in PostTimeouts
    BY <1>5, <2>2, ZenonT(60) DEF ProxyInv, PostsInOrder
  <2>6. \A k \in MCPCallers \ PostTimeouts :
          post'[k].kind = "final" /\ post'[k].step = "resend" => Len(responseCh'[k]) < Buffer
    BY <1>5, <2>3, Zenon DEF ProxyInv, PostsInOrder
  <2>7. \A k \in answered' \ PostTimeouts :
          \/ post'[k] = NoPost
          \/ post'[k].kind = "final" /\ post'[k].step \in {"send", "evict", "resend"}
    BY <1>3, <1>5, <2>4 DEF ProxyInv, ProxyTypes, PostsInOrder
  <2> QED BY <2>1, <2>5, <2>6, <2>7, Zenon DEF PostsInOrder, NoPost
<1>11. TerminalResponseIsKept'
  <2> SUFFICES ASSUME NEW k \in answered' \ PostTimeouts, handler[k] \in {"waiting", "streaming"}
               PROVE  onItsWay(k)'
    BY <1>0 DEF TerminalResponseIsKept, keptFor
  <2>1. CASE k # c
    <3>1. k \in answered /\ k \in MCPCallers
      BY <1>3, <2>1, Zenon DEF ProxyInv, ProxyTypes
    <3>2. onItsWay(k)
      BY <3>1 DEF ProxyInv, NothingIsLost, TerminalResponseIsKept, keptFor
    <3> QED BY <1>5, <2>1, <3>1, <3>2, Zenon DEF onItsWay
  <2>2. CASE k = c
    <3>1. CASE p.step = "lookup" \/ p.step = "evict" \/ (p.step = "send" /\ Len(responseCh[c]) = Buffer)
      <4>1. post'[c].kind = "final" /\ post'[c].step \in {"send", "evict", "resend"}
        BY <1>1, <1>8, <1>9, <2>2, <3>1, Zenon DEF nextStep
      <4> QED BY <2>2, <4>1, Zenon DEF onItsWay
    <3>2. CASE p.step \in {"send", "resend"} /\ Len(responseCh[c]) < Buffer
      <4>1. responseCh'[c] = Append(responseCh[c], "final")
        BY <1>6, <1>8, <2>2, <3>2, Zenon
      <4>2. /\ Len(responseCh[c]) + 1 \in DOMAIN Append(responseCh[c], "final")
            /\ Append(responseCh[c], "final")[Len(responseCh[c]) + 1] = "final"
        BY <1>5
      <4> QED BY <2>2, <4>1, <4>2, Zenon DEF onItsWay
    <3>3. p.step = "resend" => Len(responseCh[c]) < Buffer
      BY <1>8, <2>2, Zenon DEF ProxyInv, PostsInOrder
    <3>4. Len(responseCh[c]) < Buffer \/ Len(responseCh[c]) = Buffer
      BY <1>5, ProxyAssumption
    <3> QED BY <1>8, <2>2, <3>1, <3>2, <3>3, <3>4, Zenon
  <2> QED BY <2>1, <2>2
<1>12. PollSeesRequest'
  BY <1>0, <1>3 DEF ProxyInv, NothingIsLost, PollSeesRequest
<1> QED BY <1>4, <1>7, <1>10, <1>11, <1>12 DEF ProxyInv, NothingIsLost

(* Every step of the local proxy keeps its invariant. *)
LEMMA ProxyStep == ProxyInv /\ [ProxyNext]_(proxyVars) => ProxyInv'
BY StartSteps, EnqueueStep, PollLookStep, CallerHandlerSteps, PostSteps, HandleResponseStep DEF ProxyNext

(* For any callers, buffer and notifications: a terminal response that the *)
(* local proxy has taken with 200 is buffered or about to be as long as    *)
(* its caller waits (handleResponse), and a waiting poll has nothing to    *)
(* take (handlePoll).                                                      *)
THEOREM NothingIsLostThm == ProxySpec => []NothingIsLost
<1>1. ProxyInv => NothingIsLost
  BY DEF ProxyInv
<1> QED BY <1>1, ProxyStarts, ProxyStep, PTL DEF ProxySpec

-----------------------------------------------------------------------------
(* PollRouting.                                                            *)

(* A fresh client satisfies the inductive invariant. *)
LEMMA InitInv == Init => Inv
  <1> SUFFICES ASSUME Init PROVE Inv
    OBVIOUS
  <1> USE PollRoutingAssumption DEF Init, maxRoutingFailures
  <1>1. TypeOK
    <2>1. known \in BOOLEAN
      BY Zenon
    <2>2. attempt \in [Callers -> routingAttempt]
      BY DEF routingAttempt
    <2> QED BY <2>1, <2>2 DEF TypeOK
  <1>2. SentTokenIsAccepted /\ NoFailuresWithoutToken /\ BootstrapBound
    BY DEF SentTokenIsAccepted, NoFailuresWithoutToken, BootstrapBound
  <1>3. FreshAttemptCarriesToken /\ AttemptsNotAhead
    BY DEF FreshAttemptCarriesToken, AttemptsNotAhead
  <1> QED BY <1>1, <1>2, <1>3 DEF Inv

(* Every outcome of Poll preserves the inductive invariant. *)
LEMMA NextInv == Inv /\ [Next]_vars => Inv'
  <1> SUFFICES ASSUME Inv, [Next]_vars PROVE Inv'
    OBVIOUS
  <1> USE PollRoutingAssumption
      DEF Inv, TypeOK, routingAttempt, SentTokenIsAccepted,
          FreshAttemptCarriesToken, NoFailuresWithoutToken, BootstrapBound,
          AttemptsNotAhead, maxRoutingFailures, Current, state, accepted
  <1>1. ASSUME NEW c \in Callers, PollStart(c) PROVE Inv'
    BY <1>1 DEF PollStart, snapshot
  <1>2. ASSUME NEW c \in Callers, PollAvailable(c) PROVE Inv'
    BY <1>2 DEF PollAvailable, Return, Fenced, CommitAvailable
  <1>3. ASSUME NEW c \in Callers, NEW corr \in RoutingCorrection, PollCorrected(c, corr)
        PROVE  Inv'
    <2>1. CASE ~Current(c)
      BY <1>3, <2>1 DEF PollCorrected, Return, Fenced, CountRejection
    <2>2. CASE Current(c)
      <3> USE <1>3, <2>2
          DEF PollCorrected, Return, Fenced, CommitCorrection, RoutingCorrection
      <3>1. TypeOK'
        <4>1. known' \in BOOLEAN
          BY Zenon
        <4>2. rejections' \in Nat
          BY DEF CountRejection
        <4>3. token' \in Tokens \cup {NoToken}
          BY Zenon DEF CorrectedToken
        <4>4. /\ revision' \in Nat
              /\ acceptedToken' \in Tokens \cup {NoToken}
          BY ZenonT(30)
        <4>5. /\ generation' \in 0..MaxGeneration
              /\ failures' \in 0..(maxRoutingFailures - 1)
              /\ corrections' \in 0..(maxRoutingFailures - 1)
              /\ attempt' \in [Callers -> routingAttempt]
              /\ inFlight' \subseteq Callers
          OBVIOUS
        <4> QED BY <4>1, <4>2, <4>3, <4>4, <4>5, Zenon
      <3>2. SentTokenIsAccepted'
        <4>1. known'
          BY ZenonT(30)
        <4>2. token' # NoToken => token' = acceptedToken'
          BY Zenon DEF CorrectedToken, AcceptsRevision
        <4> QED BY <4>1, <4>2, Zenon
      <3>3. FreshAttemptCarriesToken' /\ AttemptsNotAhead'
        OBVIOUS
      <3>4. NoFailuresWithoutToken'
        BY Zenon
      <3>5. BootstrapBound'
        BY DEF CountRejection
      <3> QED BY <3>1, <3>2, <3>3, <3>4, <3>5, ZenonT(30)
    <2> QED BY <2>1, <2>2, Zenon
  <1>4. ASSUME NEW c \in Callers, PollDestinationFailed(c) PROVE Inv'
    BY <1>4 DEF PollDestinationFailed, Return, Fenced, CommitFailure, CountRejection
  <1>5. ASSUME NEW c \in Callers, PollUninformative(c) PROVE Inv'
    BY <1>5, Zenon DEF PollUninformative, Return
  <1>6. CASE UNCHANGED vars
    BY <1>6, Zenon DEF vars
  <1> QED BY <1>1, <1>2, <1>3, <1>4, <1>5, <1>6, ZenonT(30) DEF Next

(* The invariant holds in every reachable state. *)
THEOREM RoutingInvariant == Spec => []Inv
  BY InitInv, NextInv, PTL DEF Spec

(* A poll only ever sends the token accepted with the highest revision. *)
THEOREM SentTokenIsAcceptedThm == Spec => []SentTokenIsAccepted
  <1>1. Inv => SentTokenIsAccepted
    BY DEF Inv
  <1> QED BY <1>1, RoutingInvariant, PTL

(* A cached placement survives fewer than nine consecutive rejections. *)
THEOREM BootstrapBoundThm == Spec => []BootstrapBound
  <1>1. Inv => BootstrapBound
    BY DEF Inv
  <1> QED BY <1>1, RoutingInvariant, PTL

(* The revision watermark and the token accepted for it never roll back. *)
THEOREM WatermarkMonotoneThm == Spec => WatermarkMonotone
  <1>1. Inv /\ [Next]_vars => [WatermarkStep]_vars
    <2> SUFFICES ASSUME Inv, Next PROVE WatermarkStep
      OBVIOUS
    <2> USE PollRoutingAssumption DEF Inv, TypeOK, state, accepted, WatermarkStep
    <2>1. ASSUME NEW c \in Callers, NEW corr \in RoutingCorrection, PollCorrected(c, corr)
          PROVE  WatermarkStep
      <3>1. CASE UNCHANGED state
        <4>1. revision' >= revision
          BY <3>1
        <4> QED BY <3>1, <4>1, Zenon
      <3>2. CASE CommitCorrection(corr)
        <4>1. known'
          BY <3>2, Zenon DEF CommitCorrection
        <4>2. known => revision' >= revision
          BY <2>1, <3>2 DEF CommitCorrection, AcceptsRevision, RoutingCorrection
        <4>3. known /\ revision' = revision => acceptedToken' = acceptedToken
          BY <2>1, <3>2 DEF CommitCorrection, AcceptsRevision, RoutingCorrection
        <4> QED BY <4>1, <4>2, <4>3
      <3> QED BY <2>1, <3>1, <3>2, Zenon DEF PollCorrected, Fenced
    <2>2. ASSUME NEW c \in Callers,
                 PollStart(c) \/ PollAvailable(c) \/ PollDestinationFailed(c)
                   \/ PollUninformative(c)
          PROVE  WatermarkStep
      <3>1. revision' = revision /\ known' = known /\ acceptedToken' = acceptedToken
        BY <2>2, Zenon DEF PollStart, PollAvailable, PollDestinationFailed, PollUninformative,
                    Fenced, CommitAvailable, CommitFailure
      <3>2. revision' >= revision
        BY <3>1
      <3> QED BY <3>1, <3>2, ZenonT(30)
    <2> QED BY <2>1, <2>2, Zenon DEF Next
  <1> QED BY <1>1, RoutingInvariant, PTL DEF Spec, WatermarkMonotone

(* Only an answer to a poll that carried the cached token moves it. *)
THEOREM OnlyOwnAnswerMovesTokenThm == Spec => OnlyOwnAnswerMovesToken
  <1>1. Inv /\ [Next]_vars => [OwnAnswerStep]_vars
    <2> SUFFICES ASSUME Inv, Next PROVE OwnAnswerStep
      OBVIOUS
    <2> USE DEF Inv, TypeOK, FreshAttemptCarriesToken, Current, state, OwnAnswerStep
    <2>1. ASSUME NEW c \in Callers, Return(c), Current(c) \/ UNCHANGED state
          PROVE  OwnAnswerStep
      BY <2>1, Zenon DEF Return
    <2>2. ASSUME NEW c \in Callers, PollStart(c) \/ PollUninformative(c)
          PROVE  OwnAnswerStep
      BY <2>2, Zenon DEF PollStart, PollUninformative
    <2> QED
      BY <2>1, <2>2, Zenon DEF Next, PollAvailable, PollCorrected, PollDestinationFailed, Fenced
  <1> QED BY <1>1, RoutingInvariant, PTL DEF Spec, OnlyOwnAnswerMovesToken

(* Answers of concurrent polls that come out of order neither roll the policy
   revision back nor move a token they were not an answer to. *)
THEOREM RoutingIsFencedThm == Spec => RoutingIsFenced
  BY WatermarkMonotoneThm, OnlyOwnAnswerMovesTokenThm DEF RoutingIsFenced

-----------------------------------------------------------------------------
(* PollTiming.                                                             *)

\* What a poll that is about to learn holds is as good as what is learned.
Good(l) == l \in Nat /\ MinTimeout <= l /\ l < cutoff /\ l < cfg.timeout

PollOK(q) ==
    /\ q.at \in {"idle", "waiting", "learning"}
    /\ q.at = "waiting" => q.requested \in Int /\ q.requested <= cfg.timeout
    /\ q.at = "learning" => Good(q.wait) /\ q.wait > 0 /\ q.current \in Nat

TimingInvariant ==
    /\ cfg \in [timeout : Nat, initial : Nat, guardrail : Nat]
    /\ cutoff \in Nat /\ cutoff > MinTimeout
    /\ learned \in Nat /\ (learned # 0 => Good(learned))
    /\ DOMAIN poll = Polls /\ poll = [p \in Polls |-> poll[p]]
    /\ \A p \in Polls : PollOK(poll[p])

----------------------------------------------------------------------------
(* Truncating a duration to milliseconds does not lengthen it. *)
LEMMA TruncateBound ==
    ASSUME NEW d \in Nat, Milli \in Nat \ {0}
    PROVE  Truncate(d) \in Nat /\ Truncate(d) <= d
<1>1. d \div Milli \in Nat /\ d % Milli \in Nat
  BY SMT
<1>2. d = Milli * (d \div Milli) + (d % Milli)
  BY SMT
<1> DEFINE t == Milli * (d \div Milli)
<1>3. t \in Nat
  BY <1>1, SMT
<1> QED
  BY <1>1, <1>2, <1>3 DEF Truncate

(* A wait learned from a disconnect is long enough for the service, and    *)
(* shorter than the cutoff of the proxy that caused the disconnect         *)
(* (learnedProxyPollTimeoutFromDisconnect).                                *)
LEMMA LearnsBelowCutoff ==
    ASSUME NEW e \in Nat, NEW attempted \in Int, NEW guardrail \in Nat, NEW c \in Nat,
           c > MinTimeout, e <= c + Jitter,
           NEW l, l = learnedProxyPollTimeoutFromDisconnect(e, attempted, guardrail), l # 0
    PROVE  l \in Nat /\ l > 0 /\ MinTimeout <= l /\ l < c /\ l < attempted
<1> USE TimingAssumption DEF TimingAssumption
<1> DEFINE margin == min(max(guardrail, MinMargin), e \div 2)
           kept == max(Truncate(e - margin), MinTimeout)
<1>1. e > MinMargin /\ kept < attempted /\ attempted > MinTimeout /\ l = kept
  BY DEF learnedProxyPollTimeoutFromDisconnect, max, min, Truncate
<1>2. e \div 2 \in Nat /\ e \div 2 <= e /\ e \div 2 > Jitter
  BY <1>1
<1>3. margin \in Nat /\ margin <= e /\ margin > Jitter
  BY <1>2 DEF max, min
<1>4. e - margin \in Nat
  BY <1>3
<1>5. Truncate(e - margin) \in Nat /\ Truncate(e - margin) <= e - margin
  BY <1>4, TruncateBound
<1>6. Truncate(e - margin) < c
  BY <1>3, <1>5
<1> HIDE DEF margin
<1> QED
  BY <1>1, <1>5, <1>6 DEF max

----------------------------------------------------------------------------
(* TimingInvariant holds initially and is kept by every step.              *)
THEOREM TimingInvariantThm == TimingSpec => []TimingInvariant
<1>1. TimingInit => TimingInvariant
  <2> SUFFICES ASSUME TimingInit PROVE TimingInvariant
    OBVIOUS
  <2>1. \A p \in Polls : PollOK(poll[p])
    BY Zenon DEF TimingInit, PollOK, Idle
  <2> QED
    BY <2>1, TimingAssumption, ZenonT(30) DEF TimingInit, TimingAssumption, TimingInvariant, Configs
<1>2. TimingInvariant /\ [TimingNext]_timing => TimingInvariant'
  <2> SUFFICES ASSUME TimingInvariant, [TimingNext]_timing PROVE TimingInvariant'
    OBVIOUS
  <2>0. ASSUME NEW p \in Polls, NEW q, PollOK(q)', poll' = [poll EXCEPT ![p] = q],
               UNCHANGED <<cfg, cutoff>>, learned' \in Nat, learned' # 0 => Good(learned')
        PROVE  TimingInvariant'
    <3>1. \A r \in Polls : PollOK(poll[r]) => PollOK(poll[r])'
      BY <2>0, ZenonT(60) DEF PollOK, Good, TimingInvariant
    <3> QED
      BY <2>0, <3>1, Zenon DEF TimingInvariant, Good
  <2>1. ASSUME NEW p \in Polls, Poll(p) PROVE TimingInvariant'
    <3>1. effectivePollTimeout \in Nat /\ effectivePollTimeout <= cfg.timeout
      BY DEF TimingInvariant, effectivePollTimeout, Good
    <3> DEFINE wait == IF started THEN effectivePollTimeout ELSE min(effectivePollTimeout, cfg.initial)
    <3>2. wait \in Int /\ wait <= cfg.timeout
      BY <3>1 DEF min, TimingInvariant
    <3>3. PICK q : q = [at |-> "waiting", requested |-> wait,
                        deadline |-> PollDeadlineTimeoutOrDefault(effectivePollTimeout)]
      BY Zenon
    <3>4. q.at = "waiting" /\ q.requested = wait /\ poll' = [poll EXCEPT ![p] = q]
      BY <2>1, <3>3, Zenon DEF Poll
    <3> HIDE DEF wait
    <3>5. PollOK(q)'
      BY <2>1, <3>2, <3>4, Zenon DEF Poll, PollOK
    <3> QED
      BY <2>0, <2>1, <3>4, <3>5, Zenon DEF Poll, TimingInvariant
  <2>2. ASSUME NEW p \in Polls, Answered(p) PROVE TimingInvariant'
    <3>1. PollOK(Idle)'
      BY Zenon DEF PollOK, Idle
    <3> QED
      BY <2>0, <2>2, <3>1, Zenon DEF Answered, TimingInvariant
  <2>3. ASSUME NEW p \in Polls, Disconnected(p) PROVE TimingInvariant'
    <3>1. PICK e \in Elapsed :
             LET l == learnedProxyPollTimeoutFromDisconnect(e, poll[p].requested, cfg.guardrail)
             IN  /\ e <= cutoff + Jitter
                 /\ poll' = [poll EXCEPT ![p] = IF l <= 0 THEN Idle
                                                ELSE [at |-> "learning", wait |-> l, current |-> learned]]
      BY <2>3, ZenonT(30) DEF Disconnected
    <3> DEFINE l == learnedProxyPollTimeoutFromDisconnect(e, poll[p].requested, cfg.guardrail)
    <3>2. e \in Nat /\ poll[p].requested \in Int /\ poll[p].requested <= cfg.timeout
      BY <2>3, TimingAssumption, Zenon DEF Disconnected, TimingInvariant, PollOK, TimingAssumption
    <3>3. l # 0 => Good(l) /\ l > 0
      BY <3>1, <3>2, LearnsBelowCutoff DEF TimingInvariant, Good
    <3>4. CASE l <= 0
      <4>1. PollOK(Idle)'
        BY Zenon DEF PollOK, Idle
      <4> QED
        BY <2>0, <2>3, <3>1, <3>4, <4>1, Zenon DEF Disconnected, TimingInvariant
    <3>5. CASE ~(l <= 0)
      <4>1. l # 0
        BY <3>5
      <4>2. PICK q : q = [at |-> "learning", wait |-> l, current |-> learned]
        BY Zenon
      <4>3. q.at = "learning" /\ q.wait = l /\ q.current = learned /\ poll' = [poll EXCEPT ![p] = q]
        BY <3>1, <3>5, <4>2, Zenon
      <4> HIDE DEF l
      <4>4. PollOK(q)'
        BY <2>3, <3>3, <4>1, <4>3, Zenon DEF PollOK, Good, Disconnected, TimingInvariant
      <4> QED
        BY <2>0, <2>3, <4>3, <4>4, Zenon DEF Disconnected, TimingInvariant
    <3> QED
      BY <3>4, <3>5
  <2>4. ASSUME NEW p \in Polls, maybeLearnProxyPollTimeout(p) PROVE TimingInvariant'
    <3>1. PollOK(Idle)'
      BY Zenon DEF PollOK, Idle
    <3>2. Good(poll[p].wait) /\ poll[p].at = "learning"
      BY <2>4 DEF maybeLearnProxyPollTimeout, TimingInvariant, PollOK
    <3>3. CASE poll' = [poll EXCEPT ![p] = Idle]
      BY <2>0, <2>4, <3>1, <3>2, <3>3 DEF maybeLearnProxyPollTimeout, TimingInvariant, Good
    <3>4. CASE poll' = [poll EXCEPT ![p].current = learned] /\ UNCHANGED learned
      <4>1. PICK q : q = [poll[p] EXCEPT !.current = learned]
        BY Zenon
      <4>2. poll' = [poll EXCEPT ![p] = q]
        BY <3>4, <4>1 DEF TimingInvariant
      <4>3. q.at = "learning" /\ q.wait = poll[p].wait /\ q.current = learned
        BY <3>2, <4>1
      <4>4. PollOK(q)'
        BY <2>4, <3>2, <4>3 DEF maybeLearnProxyPollTimeout, TimingInvariant, PollOK, Good
      <4> QED
        BY <2>0, <2>4, <3>4, <4>2, <4>4 DEF maybeLearnProxyPollTimeout, TimingInvariant
    <3> QED
      BY <2>4, <3>3, <3>4 DEF maybeLearnProxyPollTimeout
  <2>5. CASE UNCHANGED timing
    BY <2>5, Zenon DEF timing, TimingInvariant, Good, PollOK
  <2> QED
    BY <2>1, <2>2, <2>3, <2>4, <2>5 DEF TimingNext
<1> QED
  BY <1>1, <1>2, PTL DEF TimingSpec

(* LearnedBelowCutoff, for every accepted configuration and every proxy:   *)
(* a learned wait is one the service accepts and the proxy lets through.   *)
THEOREM LearnedBelowCutoffThm == TimingSpec => []LearnedBelowCutoff
<1>1. TimingInvariant => LearnedBelowCutoff
  BY DEF TimingInvariant, LearnedBelowCutoff, Good
<1> QED
  BY <1>1, TimingInvariantThm, PTL

(* LearnedOnlyDecreases: concurrent polls never raise the learned wait.    *)
THEOREM LearnedOnlyDecreasesThm == TimingSpec => LearnedOnlyDecreases
<1>1. TimingInvariant /\ [TimingNext]_timing
         => [learned' = learned \/ learned = 0 \/ learned' < learned]_timing
  <2> SUFFICES ASSUME TimingInvariant, TimingNext
               PROVE  learned' = learned \/ learned = 0 \/ learned' < learned
    OBVIOUS
  <2>1. ASSUME NEW p \in Polls, maybeLearnProxyPollTimeout(p)
        PROVE  learned' = learned \/ learned = 0 \/ learned' < learned
    BY <2>1 DEF maybeLearnProxyPollTimeout, TimingInvariant, PollOK, Good
  <2> QED
    BY <2>1, Zenon DEF TimingNext, Poll, Answered, Disconnected
<1> QED
  BY <1>1, TimingInvariantThm, PTL DEF TimingSpec, LearnedOnlyDecreases
=============================================================================
