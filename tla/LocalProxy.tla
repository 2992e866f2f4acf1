----------------------------- MODULE LocalProxy -----------------------------
(***************************************************************************)
(* The local development proxy (pkg/localproxy/localproxy.go): an          *)
(* in-process control plane that MCP callers POST to, and that the         *)
(* tunnel-client polls and answers.  A request is queued in pending, moves *)
(* to inFlight when a poll takes it, and its answers reach the caller's    *)
(* handler through a buffered channel.  Start starts the backend and then  *)
(* the runtime; a later step that fails stops what the proxy has recorded, *)
(* and a runtime that does not stop in time runs on.  Every section under  *)
(* s.mu is one step.                                                       *)
(***************************************************************************)
EXTENDS Naturals, Sequences, FiniteSets

CONSTANTS MCPCallers,    \* MCP POSTs and OAuth discovery GETs
          StreamCallers, \* those that accept text/event-stream
          Buffer,        \* capacity of responseCh
          MaxNotify,     \* bound: notifications per request
          PostTimeouts   \* callers for which the client's timeout can fire on a POST
                         \* that is still being handled

(* responseCh is buffered. *)
ASSUME ProxyAssumption == Buffer \in Nat \ {0}

VARIABLES
  startStep,  \* Start, then Stop: the step it has reached
  held,       \* what runs: "backend", "app" (the runtime, or part of it)
  handler,    \* each caller's HTTP handler
  localPending, localInFlight, \* s.pending, s.inFlight
  responseCh, \* payloads buffered for each caller
  localPoll,  \* the tunnel-client's poll: "none" so far, "look", "waiting" on the
              \* current state channel
  notifies,   \* notifications the tunnel-client has posted for each request
  post,       \* handleResponse of each request's newest POST, and of an abandoned one
  latePost,
  answered    \* requests whose terminal response was taken with 200

serving == <<handler, localPending, localInFlight, responseCh, localPoll, notifies, post,
             latePost, answered>>
proxyVars == <<startStep, held, serving>>

NoPost == [kind |-> "none", step |-> "none"]
isFinalLocalResponse(kind) == kind = "final"

-----------------------------------------------------------------------------
(* Start: the backend over a socket in a directory of its own or, failing  *)
(* that, over TCP, ...                                                     *)
StartBackend ==
  /\ startStep = "begin"
  /\ \/ startStep' = "failed" /\ held' = {}             \* options, factory or backend
     \/ startStep' = "client" /\ held' = {"backend"}
  /\ UNCHANGED serving

(* Proxy.Stop: the runtime, unless it takes longer than its grace period,  *)
(* and the backend.                                                        *)
release == held' \in {{}, held \cap {"app"}}

(* ... then the configuration and the runtime, ...  The runtime is         *)
(* recorded once it has started: Stop leaves what a start that ran into    *)
(* its timeout had started by then.                                        *)
StartClient ==
  /\ startStep = "client"
  /\ \/ startStep' = "ready" /\ held' = held \cup {"app"}
     \/ startStep' = "failed" /\ held' \in {{}, {"app"}}
  /\ UNCHANGED serving

(* ... the MCP probe, the first poll and the info file, or the deferred    *)
(* Stop on an error.                                                       *)
StartReady ==
  /\ startStep = "ready"
  /\ \/ startStep' = "up" /\ localPoll # "none" /\ UNCHANGED held
     \/ startStep' = "failed" /\ release
  /\ UNCHANGED serving

StopProxy == startStep = "up" /\ startStep' = "stopped" /\ release /\ UNCHANGED serving

backendUp == "backend" \in held
clientUp == {"app", "backend"} \subseteq held

-----------------------------------------------------------------------------
(* signalStateChangeLocked replaces the channel: a poll waiting on the old *)
(* one looks again.                                                        *)
signalStateChange == localPoll' = IF localPoll = "waiting" THEN "look" ELSE localPoll

(* enqueueMCPRequest, enqueueOAuthDiscoveryRequest *)
Enqueue(c) ==
  /\ backendUp /\ handler[c] = "none"
  /\ handler' = [handler EXCEPT ![c] = "waiting"]
  /\ localPending' = Append(localPending, c) /\ signalStateChange
  /\ UNCHANGED <<startStep, held, localInFlight, responseCh, notifies, post, latePost, answered>>

(* cancelRequest, the handler's deferred call: the requests behind the    *)
(* first one that matches move up.                                        *)
queuedAt(c, i) == localPending[i] = c /\ \A j \in 1..(i - 1) : localPending[j] # c
cancelRequest(c) ==
  /\ localInFlight' = localInFlight \ {c}
  /\ \/ UNCHANGED localPending /\ \A i \in DOMAIN localPending : localPending[i] # c
     \/ \E i \in DOMAIN localPending :
          /\ queuedAt(c, i)
          /\ localPending' = [j \in 1..(Len(localPending) - 1) |->
                                localPending[IF j < i THEN j ELSE j + 1]]
  /\ signalStateChange

(* The handler takes one payload: a stream caller is shown progress and    *)
(* goes on as a stream, another skips it, and the terminal one ends it.    *)
HandlerReceives(c) ==
  /\ handler[c] \in {"waiting", "streaming"} /\ responseCh[c] # << >>
  /\ responseCh' = [responseCh EXCEPT ![c] = Tail(@)]
  /\ IF isFinalLocalResponse(Head(responseCh[c]))
       THEN /\ handler' = [handler EXCEPT ![c] = "returned"] /\ cancelRequest(c)
       ELSE /\ handler' = [handler EXCEPT ![c] = IF c \in StreamCallers THEN "streaming" ELSE @]
            /\ UNCHANGED <<localPending, localInFlight, localPoll>>
  /\ UNCHANGED <<startStep, held, notifies, post, latePost, answered>>

(* responseTimeout, or the caller went away. *)
HandlerGivesUp(c) ==
  /\ handler[c] \in {"waiting", "streaming"}
  /\ handler' = [handler EXCEPT ![c] = "returned"]
  /\ cancelRequest(c)
  /\ UNCHANGED <<startStep, held, responseCh, notifies, post, latePost, answered>>

-----------------------------------------------------------------------------
(* handlePoll: one look under the lock takes a command, or the poll waits  *)
(* on the channel that is current at that moment.                          *)
PollLook ==
  /\ clientUp /\ localPoll \in {"none", "look"}
  /\ IF localPending = << >>
       THEN localPoll' = "waiting" /\ UNCHANGED <<localPending, localInFlight>>
       ELSE /\ localPoll' = "look" /\ localPending' = Tail(localPending) \* dequeueLocked
            /\ localInFlight' = localInFlight \cup {Head(localPending)}
  /\ UNCHANGED <<startStep, held, handler, responseCh, notifies, post, latePost, answered>>

PollTimeout ==     \* answered empty; the client polls again
  /\ clientUp /\ localPoll = "waiting" /\ localPoll' = "look"
  /\ UNCHANGED <<startStep, held, handler, localPending, localInFlight, responseCh, notifies,
                 post, latePost, answered>>

-----------------------------------------------------------------------------
(* The tunnel-client posts the responses to a request it took one after    *)
(* another: notifications, then one terminal response.                     *)
Post(c) ==
  /\ clientUp /\ c \in localInFlight /\ post[c] = NoPost
  /\ \/ /\ notifies[c] < MaxNotify /\ notifies' = [notifies EXCEPT ![c] = @ + 1]
        /\ post' = [post EXCEPT ![c] = [kind |-> "notify", step |-> "lookup"]]
     \/ /\ post' = [post EXCEPT ![c] = [kind |-> "final", step |-> "lookup"]]
        /\ UNCHANGED notifies
  /\ UNCHANGED <<startStep, held, handler, localPending, localInFlight, responseCh, localPoll,
                 latePost, answered>>

(* The client's timeout fires while the handler goes on: it posts no more  *)
(* notifications, and a terminal response once more.                       *)
PostAbandoned(c) ==
  /\ c \in PostTimeouts /\ post[c] # NoPost /\ latePost[c] = NoPost
  /\ latePost' = [latePost EXCEPT ![c] = post[c]]
  /\ \/ /\ post[c].kind = "notify" /\ notifies' = [notifies EXCEPT ![c] = MaxNotify]
        /\ post' = [post EXCEPT ![c] = NoPost]
     \/ /\ post[c].kind = "final" /\ UNCHANGED notifies
        /\ post' = [post EXCEPT ![c].step = "lookup"]
  /\ UNCHANGED <<startStep, held, handler, localPending, localInFlight, responseCh, localPoll,
                 answered>>

(* handleResponse: the lookup under the lock, which a terminal response    *)
(* makes the last, ...                                                     *)
lookup(p, c) ==
  /\ p.step = "lookup"
  /\ signalStateChange
  /\ localInFlight' = IF isFinalLocalResponse(p.kind) THEN localInFlight \ {c} ELSE localInFlight
  /\ answered' = IF c \in localInFlight /\ isFinalLocalResponse(p.kind)
                   THEN answered \cup {c} ELSE answered
  /\ UNCHANGED responseCh

nextStep(p, c) == IF p.step = "lookup" /\ c \in localInFlight THEN [p EXCEPT !.step = "send"]
                  ELSE IF p.step = "send" /\ isFinalLocalResponse(p.kind) /\ Len(responseCh[c]) = Buffer
                         THEN [p EXCEPT !.step = "evict"]
                  ELSE IF p.step = "evict" THEN [p EXCEPT !.step = "resend"]
                  ELSE NoPost

evictNothing(p, c) == UNCHANGED responseCh

(* ... and the send without blocking; a terminal response that finds the   *)
(* channel full takes one buffered payload out and tries once more.        *)
evict(p, c) == responseCh' = [responseCh EXCEPT ![c] = IF @ = << >> THEN @ ELSE Tail(@)]

deliver(p, c) ==
  /\ \/ /\ p.step \in {"send", "resend"}
        /\ responseCh' = [responseCh EXCEPT ![c] = IF Len(@) < Buffer THEN Append(@, p.kind) ELSE @]
     \/ p.step = "evict" /\ evict(p, c)
  /\ UNCHANGED <<localInFlight, localPoll, answered>>

HandleResponse(c) ==
  /\ \/ /\ lookup(post[c], c) \/ deliver(post[c], c)
        /\ post' = [post EXCEPT ![c] = nextStep(@, c)] /\ UNCHANGED latePost
     \/ /\ lookup(latePost[c], c) \/ deliver(latePost[c], c)
        /\ latePost' = [latePost EXCEPT ![c] = nextStep(@, c)] /\ UNCHANGED post
  /\ UNCHANGED <<startStep, held, handler, localPending, notifies>>

-----------------------------------------------------------------------------
ProxyInit ==
  /\ startStep = "begin" /\ held = {}
  /\ handler = [c \in MCPCallers |-> "none"] /\ localPending = << >> /\ localInFlight = {}
  /\ responseCh = [c \in MCPCallers |-> << >>] /\ localPoll = "none"
  /\ notifies = [c \in MCPCallers |-> 0] /\ post = [c \in MCPCallers |-> NoPost]
  /\ latePost = [c \in MCPCallers |-> NoPost] /\ answered = {}

ProxyNext ==
  \/ StartBackend \/ StartClient \/ StartReady \/ StopProxy \/ PollLook \/ PollTimeout
  \/ \E c \in MCPCallers : \/ Enqueue(c) \/ HandlerReceives(c) \/ HandlerGivesUp(c)
                           \/ Post(c) \/ PostAbandoned(c) \/ HandleResponse(c)

ProxySpec == ProxyInit /\ [][ProxyNext]_proxyVars

-----------------------------------------------------------------------------
onItsWay(c) == \/ \E i \in DOMAIN responseCh[c] : responseCh[c][i] = "final"
               \/ post[c].kind = "final" /\ post[c].step \in {"send", "evict", "resend"}

keptFor(c) == handler[c] \in {"waiting", "streaming"} => onItsWay(c)

(* A terminal response that was accepted reaches its caller: as long as    *)
(* the caller's handler waits, the response is buffered or about to be,    *)
(* also when notifications have filled the buffer.  It holds where the     *)
(* POSTs for one request do not overlap.                                   *)
TerminalResponseIsKept == \A c \in answered \ PostTimeouts : keptFor(c)

(* A poll never sleeps over a queued request: whatever queued it replaced  *)
(* the channel after the poll had looked.                                  *)
PollSeesRequest == localPoll = "waiting" => localPending = << >>

(* A terminal response that was accepted reaches its caller, and no poll   *)
(* sleeps over a request that is queued.                                   *)
NothingIsLost == TerminalResponseIsKept /\ PollSeesRequest
=============================================================================
