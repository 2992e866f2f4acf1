-------------------------- MODULE HarpoonSessions --------------------------
(***************************************************************************)
(* The in-memory transport between the dispatcher and the Harpoon server   *)
(* (pkg/runtimeharpoon/inmemory_transport.go).  Every Connect makes a pipe *)
(* with a server session of its own; OnStop cancels the root context and a *)
(* goroutine closes the connections that are registered by then.  The      *)
(* request ID a command forwards is published per session, because the SDK *)
(* detaches handlers from the context of Write.  Commands reach this       *)
(* transport one at a time: the serialized forwarding transport            *)
(* (pkg/mcpclient/serialized_forwarding_transport.go) holds a slot for a   *)
(* call until its answer is read, and for a notification until it is       *)
(* written.                                                                *)
(***************************************************************************)
EXTENDS Naturals, FiniteSets

CONSTANTS Conns,     \* connections, one per Connect
          Commands,  \* commands forwarded to Harpoon
          Forwards,  \* the commands that forward their request ID
          Notifications  \* the commands nobody answers

(* "none" stands for the absence of either. *)
ASSUME SessionsAssumption ==
  "none" \notin Conns /\ "none" \notin Commands /\ Notifications \subseteq Commands

VARIABLES
  root,        \* the transport's context: "live" or "cancelled"
  stop,        \* the stop goroutine: "idle", "closing" or "done"
  toClose,     \* connections it still has to close
  connections, \* registered connections
  conn,        \* where each connection is on the client side
  sessionCtx,  \* the session's context: "none", "live", "cancelled"
  session,     \* the server session: "none", "live", "gone"
  requestIDs,  \* the published request ID per session, or "none"
  slot,        \* the command that holds the serialized transport
  command,     \* where each command is
  handler      \* the request ID each command's handler runs with

sessionsVars == <<root, stop, toClose, connections, conn, sessionCtx, session, requestIDs, slot,
                  command, handler>>

-----------------------------------------------------------------------------
cancelledBy(ks) == [k \in Conns |-> IF k \in ks /\ sessionCtx[k] = "live"
                                      THEN "cancelled" ELSE sessionCtx[k]]

live == {k \in Conns : sessionCtx[k] = "live"}

(* Connect up to clientTransport.Connect: the session is registered.  *)
(* A command connects when no connection is open for it.              *)
Connect(k) ==
  /\ root = "live" /\ slot # "none" /\ conn[k] = "none"
  /\ ~\E j \in Conns : conn[j] \in {"connecting", "open"}
  /\ conn' = [conn EXCEPT ![k] = "connecting"]
  /\ session' = [session EXCEPT ![k] = "live"]
  /\ sessionCtx' = [sessionCtx EXCEPT ![k] = "live"]
  /\ UNCHANGED <<root, stop, toClose, connections, requestIDs, slot, command, handler>>

(* register: a connection that arrives after the stop is closed at once. *)
register(k) ==
  IF root = "cancelled" \/ stop # "idle"
    THEN /\ conn' = [conn EXCEPT ![k] = "closed"]
         /\ sessionCtx' = cancelledBy({k})
         /\ UNCHANGED connections
    ELSE /\ connections' = connections \cup {k}
         /\ conn' = [conn EXCEPT ![k] = "open"]
         /\ UNCHANGED sessionCtx

Register(k) ==
  /\ conn[k] = "connecting"
  /\ register(k)
  /\ UNCHANGED <<root, stop, toClose, session, requestIDs, slot, command, handler>>

closing(k) ==
  /\ conn' = [conn EXCEPT ![k] = "closed"]
  /\ sessionCtx' = cancelledBy({k})
  /\ connections' = connections \ {k}

(* The owner closes a connection: its command ran out of time. *)
CloseLate(k) ==
  /\ conn[k] = "open" /\ slot # "none"
  /\ command[slot] \in {"written", "handling"}
  /\ closing(k)
  /\ command' = [command EXCEPT ![slot] = "abandoned"]
  /\ slot' = "none"
  /\ UNCHANGED <<root, stop, toClose, session, requestIDs, handler>>

-----------------------------------------------------------------------------
(* OnStop cancels the root context, and with it every session context. *)
CancelRoot ==
  /\ root = "live"
  /\ root' = "cancelled"
  /\ sessionCtx' = cancelledBy(live)
  /\ UNCHANGED <<stop, toClose, connections, conn, session, requestIDs, slot, command, handler>>

stopCollect ==
  /\ root = "cancelled" /\ stop = "idle"
  /\ stop' = "closing"
  /\ toClose' = connections
  /\ UNCHANGED <<root, connections, conn, sessionCtx, session, requestIDs, slot, command, handler>>

stopClose ==
  /\ stop = "closing"
  /\ \/ \E k \in toClose :
          /\ toClose' = toClose \ {k}
          /\ closing(k)
          /\ UNCHANGED stop
     \/ /\ toClose = {}
        /\ stop' = "done"
        /\ UNCHANGED <<toClose, conn, sessionCtx, connections>>
  /\ UNCHANGED <<root, session, requestIDs, slot, command, handler>>

handlersOf(k) == {c \in Commands : handler[c].conn = k /\ handler[c].at = "running"}

(* wait: the session ends once its pipe is closed and its handlers returned. *)
SessionEnds(k) ==
  /\ session[k] = "live" /\ conn[k] = "closed" /\ handlersOf(k) = {}
  /\ session' = [session EXCEPT ![k] = "gone"]
  /\ sessionCtx' = cancelledBy({k})
  /\ requestIDs' = [requestIDs EXCEPT ![k] = "none"]
  /\ UNCHANGED <<root, stop, toClose, connections, conn, slot, command, handler>>

-----------------------------------------------------------------------------
(* acquireLifecycle: the serialized transport admits one command at a time. *)
Acquire(c) ==
  /\ slot = "none" /\ command[c] = "waiting"
  /\ slot' = c
  /\ command' = [command EXCEPT ![c] = "ready"]
  /\ UNCHANGED <<root, stop, toClose, connections, conn, sessionCtx, session, requestIDs, handler>>

forwardedID(c) == IF c \in Forwards THEN c ELSE "none"

(* setRequestID: an empty ID removes that of the session's last command. *)
publish(k, c) == requestIDs' = [requestIDs EXCEPT ![k] = forwardedID(c)]

(* Write publishes the ID, or clears that of an earlier command, and only *)
(* then hands the request to the pipe.                                    *)
Write(k, c) ==
  /\ slot = c /\ command[c] = "ready" /\ conn[k] = "open"
  /\ publish(k, c)
  /\ command' = [command EXCEPT ![c] = "written"]
  /\ handler' = [handler EXCEPT ![c].conn = k]
  /\ UNCHANGED <<root, stop, toClose, connections, conn, sessionCtx, session, slot>>

(* Mutant: the slot is free as soon as a command is written. *)
ReleaseWritten(c) ==
  /\ slot = c /\ command[c] = "written"
  /\ slot' = "none"
  /\ command' = [command EXCEPT ![c] = "sent"]
  /\ UNCHANGED <<root, stop, toClose, connections, conn, sessionCtx, session, requestIDs, handler>>

(* Write of the serialized connection returns: a notification, which has no *)
(* answer to wait for, gives up the slot and leaves the connection open.    *)
Release(c) ==
  /\ slot = c /\ c \in Notifications /\ command[c] \in {"written", "handling"}
  /\ slot' = "none"
  /\ command' = [command EXCEPT ![c] = "sent"]
  /\ UNCHANGED <<root, stop, toClose, connections, conn, sessionCtx, session, requestIDs, handler>>

(* A command whose connection is closed under it fails. *)
WriteFails(c) ==
  /\ slot = c /\ command[c] \in {"ready", "written", "handling"}
  /\ IF command[c] = "ready"
       THEN root = "cancelled" /\ ~\E k \in Conns : conn[k] \in {"connecting", "open"}
       ELSE conn[handler[c].conn] = "closed"
  /\ command' = [command EXCEPT ![c] = "abandoned"]
  /\ slot' = "none"
  /\ UNCHANGED <<root, stop, toClose, connections, conn, sessionCtx, session, requestIDs, handler>>

(* withSessionCancellation: the handler reads its session's context and ID. *)
Handle(c) ==
  /\ command[c] \in {"written", "sent", "abandoned"} /\ handler[c].at = "none"
  /\ handler[c].conn \in Conns /\ session[handler[c].conn] = "live"
  /\ handler' = [handler EXCEPT ![c].at = "running", ![c].id = requestIDs[handler[c].conn]]
  /\ command' = [command EXCEPT ![c] = IF @ = "written" THEN "handling" ELSE @]
  /\ UNCHANGED <<root, stop, toClose, connections, conn, sessionCtx, session, requestIDs, slot>>

(* The pipe was closed before the session read the request. *)
NeverHandled(c) ==
  /\ command[c] \in {"sent", "abandoned"} /\ handler[c].at = "none"
  /\ handler[c].conn \in Conns
  /\ conn[handler[c].conn] = "closed"
  /\ handler' = [handler EXCEPT ![c].at = "dropped"]
  /\ UNCHANGED <<root, stop, toClose, connections, conn, sessionCtx, session, requestIDs, slot, command>>

(* A handler answers; that of a notification, or of a command whose session *)
(* was cancelled, only returns.                                             *)
HandlerReturns(c) ==
  /\ handler[c].at = "running"
  /\ handler' = [handler EXCEPT ![c].at = "returned"]
  /\ IF slot = c /\ c \notin Notifications /\ conn[handler[c].conn] = "open"
       THEN command' = [command EXCEPT ![c] = "answered"] /\ slot' = "none"
       ELSE UNCHANGED <<command, slot>>
  /\ UNCHANGED <<root, stop, toClose, connections, conn, sessionCtx, session, requestIDs>>

-----------------------------------------------------------------------------
SessionsInit ==
  /\ root = "live" /\ stop = "idle" /\ toClose = {} /\ connections = {}
  /\ conn = [k \in Conns |-> "none"]
  /\ sessionCtx = [k \in Conns |-> "none"]
  /\ session = [k \in Conns |-> "none"]
  /\ requestIDs = [k \in Conns |-> "none"]
  /\ slot = "none"
  /\ command = [c \in Commands |-> "waiting"]
  /\ handler = [c \in Commands |-> [at |-> "none", id |-> "none", conn |-> "none"]]

SessionsNext ==
  \/ CancelRoot \/ stopCollect \/ stopClose
  \/ \E k \in Conns : Connect(k) \/ Register(k) \/ CloseLate(k) \/ SessionEnds(k)
  \/ \E c \in Commands :
       \/ Acquire(c) \/ Release(c) \/ WriteFails(c) \/ Handle(c) \/ NeverHandled(c) \/ HandlerReturns(c)
       \/ \E k \in Conns : Write(k, c)

(* Goroutines that can run do; a handler returns once it is cancelled *)
(* (its context ends the HTTP request it makes).                      *)
Progress ==
  \/ stopCollect \/ stopClose
  \/ \E k \in Conns : Register(k) \/ SessionEnds(k)
  \/ \E c \in Commands :
       handler[c].at = "running" /\ sessionCtx[handler[c].conn] = "cancelled" /\ HandlerReturns(c)

SessionsFairness == WF_sessionsVars(Progress)

SessionsSpec == SessionsInit /\ [][SessionsNext]_sessionsVars /\ SessionsFairness

-----------------------------------------------------------------------------
(* The handler of a call runs with the request ID of that call or, when it *)
(* forwards none, without one: never with the ID of an earlier or a later  *)
(* command of the session.  Nothing is claimed of a notification: its slot *)
(* is free once it is written, so its handler may read what the next       *)
(* command published.  (restartableInMemoryConnection.Write,               *)
(* withSessionCancellation)                                                *)
OwnRequestID ==
  \A c \in Commands \ Notifications :
    handler[c].at \in {"running", "returned"} => handler[c].id = forwardedID(c)

=============================================================================
