----------------------------- MODULE Processor -----------------------------
(***************************************************************************)
(* The processor of polled commands (pkg/dispatcher/internal/processor.go) *)
(* composed with the delivery of its responses (ResponseDelivery).  Every  *)
(* worker runs Process for one command.  PostResponse is synchronous: the  *)
(* worker that called it waits for its outcome, while the uploads of other *)
(* workers, the service and the contexts go on.                            *)
(*                                                                         *)
(* The MCP connection is external here: connect, write and read return     *)
(* what they may return, or never return.  Only a command with a response  *)
(* timeout has a deadline; any other may wait for its MCP server as long   *)
(* as the process runs, until its request is written and the TTL of        *)
(* forwardResponses begins.  A connection to the shared stdio child can be    *)
(* retired at the response deadline and survives a completed response      *)
(* (module SharedStdio models the inside of these); an HTTP connection     *)
(* cannot.                                                                 *)
(***************************************************************************)
EXTENDS ResponseDelivery, Sequences

VARIABLES
    shape,      \* of a command: see Shapes
    shared,     \* of a command: its channel is bound to the shared stdio child
    timed,      \* of a command: the service gave it a response_timeout
    pc,         \* where Process is: see Places
    posts,      \* PostResponse calls made so far
    conn,       \* "none", "open", "closed" or "retired"
    notificationForwardingEnabled,
    mcpResponseReceived,
    unencodable,  \* a notification of the server could not be encoded
    seen        \* history: the notifications the service enqueued, in order

Shapes == {"request", "notification", "oauth", "termination", "unusable"}
Places == {"start", "connecting", "connected", "writing", "reading", "notifying",
           "fetching", "terminating", "replying", "ending", "done", "forwarded"}

processorVars == <<shape, shared, timed, pc, posts, conn, notificationForwardingEnabled,
                   mcpResponseReceived, unencodable>>
vars == <<deliveryVars, processorVars, seen>>

Init ==
    /\ InitDelivery
    /\ shape \in [Commands -> Shapes]
    /\ shared \in [Commands -> BOOLEAN] /\ timed \in [Commands -> BOOLEAN]
    /\ pc = [c \in Commands |-> "start"]
    /\ posts = [c \in Commands |-> 0]
    /\ conn = [c \in Commands |-> "none"]
    /\ notificationForwardingEnabled = [c \in Commands |-> TRUE]
    /\ mcpResponseReceived = [c \in Commands |-> FALSE]
    /\ unencodable = [c \in Commands |-> FALSE]
    /\ seen = [c \in Commands |-> <<>>]

----------------------------------------------------------------------------
(* Steps of a worker                                                       *)

Goto(c, place) == pc' = [pc EXCEPT ![c] = place]

\* Process has returned; "forwarded" when it did so after forwardResponses.
Returned(c) == pc[c] \in {"done", "forwarded"}

streamVars == <<notificationForwardingEnabled, mcpResponseReceived, unencodable>>

\* postTunnelResponse is called; the worker continues at place once it returns.
\* A response of the MCP server may fail PostResponse's validation.
Post(c, k, place) ==
    /\ posts[c] < MaxPosts
    /\ posts' = [posts EXCEPT ![c] = @ + 1]
    /\ \E valid \in BOOLEAN : BeginUpload(<<c, posts[c] + 1>>, k, valid)
    /\ Goto(c, place)

LastOutcome(c) == outcome[<<c, posts[c]>>]
Delivered(c) == LastOutcome(c) \in {"accepted", "already"}

NoPost == UNCHANGED <<deliveryVars, posts>>

\* Process up to its first blocking call.  An unusable command (no shard token, no
\* JSON-RPC request, an unknown type) is an error nobody is told of; a command past its
\* deadline is dropped; a channel that is unknown, unroutable or lacks the feature is
\* rejected with a response.
Start(c) ==
    /\ pc[c] = "start"
    /\ UNCHANGED <<shape, shared, timed, conn, streamVars>>
    /\ \/ /\ shape[c] = "unusable" \/ ctx[c] = "deadline"
          /\ Goto(c, "done") /\ NoPost
       \/ /\ shape[c] # "unusable" /\ ctx[c] # "deadline"
          /\ \/ Post(c, "final", "ending")
             \/ /\ Goto(c, CASE shape[c] = "oauth" -> "fetching"
                             [] shape[c] = "termination" -> "terminating"
                             [] OTHER -> "connecting")
                /\ NoPost

\* retireExpiredResponseConnection, else Close.
RetireOrClose(c) ==
    conn' = [conn EXCEPT ![c] = IF shared[c] /\ ctx[c] = "deadline"
                                THEN "retired" ELSE "closed"]

ConnectReturns(c) ==
    /\ pc[c] = "connecting"
    /\ \/ /\ conn' = [conn EXCEPT ![c] = "open"]
          /\ Goto(c, "connected") /\ NoPost
       \/ /\ UNCHANGED conn
          /\ IF ctx[c] # "live" THEN Goto(c, "done") /\ NoPost
                                ELSE Post(c, "final", "ending")
    /\ UNCHANGED <<shape, shared, timed, streamVars>>

ContextCheck(c) ==
    /\ pc[c] = "connected"
    /\ IF ctx[c] # "live" THEN RetireOrClose(c) /\ Goto(c, "done")
                          ELSE UNCHANGED conn /\ Goto(c, "writing")
    /\ NoPost /\ UNCHANGED <<shape, shared, timed, streamVars>>

\* conn.Write returns.  An error, preserved or built here, answers the command; so does
\* the acknowledgement of a notification; the response to a request is still to come.
WriteReturns(c) ==
    /\ pc[c] = "writing"
    /\ IF ctx[c] # "live"
       THEN RetireOrClose(c) /\ Goto(c, "done") /\ NoPost
       ELSE /\ UNCHANGED conn
            /\ \/ Post(c, "final", "ending")
               \/ shape[c] = "request" /\ Goto(c, "reading") /\ NoPost
    /\ UNCHANGED <<shape, shared, timed, streamVars>>

\* Mutant: a completed connection is kept only if its response was delivered.
CleanupUndelivered(c) ==
    IF mcpResponseReceived[c] /\ (Delivered(c) \/ ctx[c] = "deadline")
    THEN UNCHANGED conn
    ELSE RetireOrClose(c)

\* The deferred cleanup of forwardResponses.
Cleanup(c) ==
    IF mcpResponseReceived[c] /\ (Delivered(c) \/ ctx[c] = "deadline" \/ shared[c])
    THEN UNCHANGED conn
    ELSE RetireOrClose(c)

\* conn.Read returns a notification: forwardNotification posts it unless an earlier one
\* could not be delivered; one that cannot be encoded ends the forwarding.
ReadNotification(c) ==
    /\ pc[c] = "reading" /\ notificationForwardingEnabled[c]
    /\ \/ /\ posts[c] + 1 < MaxPosts
          /\ Post(c, "notify", "notifying")
          /\ UNCHANGED <<conn, unencodable>>
       \/ /\ unencodable' = [unencodable EXCEPT ![c] = TRUE]
          /\ RetireOrClose(c) /\ Goto(c, "forwarded") /\ NoPost
    /\ UNCHANGED <<shape, shared, timed, notificationForwardingEnabled, mcpResponseReceived>>


\* A notification that was not delivered is the last one that is tried.
NotificationPosted(c) ==
    /\ pc[c] = "notifying" /\ LastOutcome(c) # "none"
    /\ notificationForwardingEnabled' = [notificationForwardingEnabled EXCEPT ![c] = Delivered(c)]
    /\ Goto(c, "reading") /\ NoPost
    /\ UNCHANGED <<shape, shared, timed, conn, mcpResponseReceived, unencodable>>

\* Mutant: reading goes on after the terminal error.
ReadFailsGoesOn(c) ==
    /\ pc[c] = "reading"
    /\ Post(c, "final", "notifying")
    /\ UNCHANGED <<shape, shared, timed, conn, streamVars>>

\* The connection ended, or the message is not the response: postTerminalErrorResponse.
ReadFails(c) ==
    /\ pc[c] = "reading"
    /\ Post(c, "final", "replying")
    /\ UNCHANGED <<shape, shared, timed, conn, streamVars>>

\* Read gave up with the context.
ReadCancelled(c) ==
    /\ pc[c] = "reading" /\ ctx[c] # "live"
    /\ RetireOrClose(c) /\ Goto(c, "forwarded") /\ NoPost
    /\ UNCHANGED <<shape, shared, timed, streamVars>>

\* The response with the request's ID.
ReadResponse(c) ==
    /\ pc[c] = "reading"
    /\ mcpResponseReceived' = [mcpResponseReceived EXCEPT ![c] = TRUE]
    /\ Post(c, "final", "replying")
    /\ UNCHANGED <<shape, shared, timed, conn, notificationForwardingEnabled, unencodable>>

\* forwardResponses returns after its terminal post.
Replied(c) ==
    /\ pc[c] = "replying" /\ LastOutcome(c) # "none"
    /\ Cleanup(c)
    /\ Goto(c, "forwarded") /\ NoPost
    /\ UNCHANGED <<shape, shared, timed, streamVars>>

\* processOauthDiscoveryCommand: without metadata nothing is posted.
FetchReturns(c) ==
    /\ pc[c] = "fetching"
    /\ Post(c, "final", "ending") \/ (Goto(c, "done") /\ NoPost)
    /\ UNCHANGED <<shape, shared, timed, conn, streamVars>>

\* processSessionTerminationCommand posts whatever status TerminateSession gave.
TerminateReturns(c) ==
    /\ pc[c] = "terminating"
    /\ Post(c, "final", "ending")
    /\ UNCHANGED <<shape, shared, timed, conn, streamVars>>

\* A post that is the last thing its handler does.
Posted(c) ==
    /\ pc[c] = "ending" /\ LastOutcome(c) # "none"
    /\ Goto(c, "done") /\ NoPost
    /\ UNCHANGED <<shape, shared, timed, conn, streamVars>>

\* connectionMaxTTL, counted from the start of forwardResponses.
ConnectionTTL(c) ==
    /\ pc[c] \in {"reading", "notifying", "replying"}
    /\ ContextEnds(c, "ttl")
    /\ UNCHANGED processorVars

\* The response deadline, which Process sets for a command that has a timeout.
ResponseDeadline(c) == timed[c] /\ ContextEnds(c, "deadline") /\ UNCHANGED processorVars

Worker(c) == \/ Start(c) \/ ConnectReturns(c) \/ ContextCheck(c) \/ WriteReturns(c)
             \/ ReadNotification(c) \/ NotificationPosted(c) \/ ReadFails(c)
             \/ ReadCancelled(c) \/ ReadResponse(c) \/ Replied(c)
             \/ FetchReturns(c) \/ TerminateReturns(c) \/ Posted(c)

Environment ==
    \/ /\ \/ \E u \in Uploads : Client(u)
          \/ Service
          \/ \E c \in Commands : ContextEnds(c, "canceled")
       /\ UNCHANGED processorVars
    \/ \E c \in Commands : ResponseDeadline(c)

\* The history of what the service enqueued for each command.
TakenNow(c) == {n \in 1..MaxPosts : enqueued'[<<c, n>>] > enqueued[<<c, n>>]}

Record ==
    seen' = [c \in Commands |->
        IF TakenNow(c) = {} THEN seen[c]
                            ELSE Append(seen[c], CHOOSE n \in TakenNow(c) : TRUE)]

Next ==
    /\ \/ \E c \in Commands : Worker(c) \/ ConnectionTTL(c)
       \/ Environment
    /\ Record

Spec == Init /\ [][Next]_vars

\* A call that was given an ended context returns, except a write to the shared child:
\* nothing interrupts a write to a pipe the child does not read.
Interruptible(c) == ~(shared[c] /\ pc[c] = "writing")

\* What a worker does by itself, and what it does when the ended context ends its call.
Proceeds(c) == Start(c) \/ ContextCheck(c) \/ NotificationPosted(c) \/ Replied(c) \/ Posted(c)
Interrupted(c) == ctx[c] # "live" /\ Interruptible(c) /\ Worker(c)

\* The workers are scheduled, an ended context ends their calls, the timers fire, and an
\* upload ends as the HTTP client of the service has a timeout.  Nothing is assumed of the
\* MCP server.
Fairness ==
    /\ \A c \in Commands :
          /\ WF_vars(Proceeds(c) /\ Record)
          /\ WF_vars(Interrupted(c) /\ Record)
          /\ WF_vars(ConnectionTTL(c) /\ Record)
          /\ WF_vars(ResponseDeadline(c) /\ Record)
    /\ \A u \in Uploads : WF_vars(Client(u) /\ UNCHANGED processorVars /\ Record)

FairSpec == Spec /\ Fairness

----------------------------------------------------------------------------
(* Properties                                                              *)

(* The types of the processor's state.                                     *)
TypeOK ==
    /\ DeliveryTypeOK
    /\ shape \in [Commands -> Shapes]
    /\ shared \in [Commands -> BOOLEAN] /\ timed \in [Commands -> BOOLEAN]
    /\ pc \in [Commands -> Places]
    /\ posts \in [Commands -> 0..MaxPosts]
    /\ conn \in [Commands -> {"none", "open", "closed", "retired"}]
    /\ notificationForwardingEnabled \in [Commands -> BOOLEAN]
    /\ mcpResponseReceived \in [Commands -> BOOLEAN]
    /\ unencodable \in [Commands -> BOOLEAN]
    /\ \A c \in Commands : seen[c] \in Seq(1..MaxPosts)

Final(c) == {n \in 1..posts[c] : kind[<<c, n>>] = "final"}

(* A command is posted zero or more notifications followed by at most one   *)
(* terminal response, one upload at a time: protocol.md's "zero or more     *)
(* jsonrpc_notify payloads ... followed by one terminal jsonrpc_response".  *)
OneTerminalResponse ==
    \A c \in Commands :
        /\ Final(c) \subseteq {posts[c]}
        /\ \A n \in 1..(posts[c] - 1) : upload[<<c, n>>] = "done"

(* The caller is not left waiting: when Process returns and neither the     *)
(* deadline, the shutdown nor the TTL intervened, a terminal response was   *)
(* posted (forwardResponses: "so product callers do not wait forever").     *)
(* Commands that cannot be answered, metadata that cannot be fetched and    *)
(* notifications that cannot be encoded are the exceptions in the code.     *)
AnsweredWhileLive ==
    \A c \in Commands :
        (/\ Returned(c) /\ ctx[c] = "live"
         /\ shape[c] \notin {"unusable", "oauth"} /\ ~unencodable[c]) => Final(c) # {}

(* The caller sees the notifications of a command in the order the MCP      *)
(* server sent them and none twice, even those that reach the service after *)
(* PostResponse gave them up: a notification that was not delivered for     *)
(* certain is the last one posted.                                          *)
NotificationsInOrder ==
    \A c \in Commands : \A i, j \in DOMAIN seen[c] : i < j => seen[c][i] < seen[c][j]

(* The service gets zero or more notifications of a command, in the order   *)
(* the MCP server sent them, and then one terminal response: no second one  *)
(* ever, and none is missing while the command's context lives.  A worker   *)
(* that is told "accepted" has had its own response accepted, and the       *)
(* delivery counters add up to that.                                        *)
AnsweredOnceInOrder ==
    /\ OneTerminalResponse /\ AnsweredWhileLive /\ NotificationsInOrder
    /\ AcceptedIsDelivered /\ HealthIsExact

(* The fate of the connection follows the response that was read, never the *)
(* one that was delivered.  Unless the matching response was read, the      *)
(* connection of a written request is closed or its ID retired when Process *)
(* returns (the deferred cleanup of forwardResponses), or the shared stdio  *)
(* slot would stay taken; once it was read, a connection to the shared      *)
(* child is left alone, as its slot may already serve the next command.     *)
KeptOnlyWhenAnswered ==
    \A c \in Commands :
        /\ (pc[c] = "forwarded" /\ ~mcpResponseReceived[c]) => conn[c] # "open"
        /\ (shared[c] /\ mcpResponseReceived[c]) => conn[c] = "open"

(* A command leaves its worker whatever the MCP server does: one with a     *)
(* response deadline or whose context was cancelled always, unless it is    *)
(* stuck for ever in a write to the shared child; any other from the moment *)
(* its request is written, by the TTL of forwardResponses.  Before that, a  *)
(* server that never answers the write holds a command without a deadline.  *)
CommandsFinish ==
    \A c \in Commands :
        /\ pc[c] \in {"reading", "notifying", "replying", "ending"} ~> Returned(c)
        /\ \/ (timed[c] \/ ctx[c] # "live") ~> Returned(c)
           \/ <>[](shared[c] /\ pc[c] = "writing")
=============================================================================
