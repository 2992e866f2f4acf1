--------------------------- MODULE MockMCPServer ---------------------------
(***************************************************************************)
(* The scripted MCP server of the integration tests                         *)
(* (testsupport/mockmcpserver): an HTTP front that routes, checks and       *)
(* records every request, a queue of scripted tool calls that concurrent    *)
(* requests take from, and WaitForRequests, which sleeps on a channel that  *)
(* holds a single token.                                                    *)
(*                                                                          *)
(* A request is one of the records of Requests; each is sent at most once.  *)
(* Handlers interleave at the mutex: taking a call, recording it, offering  *)
(* the token and answering are separate steps.                              *)
(***************************************************************************)
EXTENDS Naturals, Sequences, FiniteSets

CONSTANTS
  Requests,       \* request -> [host, method, path, header, auth, body, tool]
  Calls,          \* the scripted calls: a sequence of [tool, outcome]
  HostHandlers,   \* hosts with a handler of their own
  enableOAuth, protectOAuth, wwwAuthProbe,   \* server options
  Wanted          \* the n of WaitForRequests

VARIABLES
  calls,          \* m.calls: the scripted calls not taken yet
  req,            \* request -> [pc, status, call]
  received,       \* m.received: tools whose call was recorded, in order
  httpSeen,       \* m.httpSeen: requests recorded by the front
  token,          \* m.requests holds its token
  waiter,         \* the goroutine in WaitForRequests
  server,         \* "up" or "closed"
  pending         \* calls left when Close looked; failf reports them

vars == <<calls, req, received, httpSeen, token, waiter, server, pending>>

None == [tool |-> "", outcome |-> ""]

Init ==
  /\ calls = Calls
  /\ req = [r \in DOMAIN Requests |-> [pc |-> "idle", status |-> 0, call |-> None]]
  /\ received = <<>> /\ httpSeen = {} /\ token = FALSE
  /\ waiter = "look"
  /\ server = "up" /\ pending = 0

-----------------------------------------------------------------------------
(* checkRequiredHeaders and the bearer check of auth.RequireBearerToken,    *)
(* whose verifier knows one token with both scopes and one that only reads. *)
checkRequiredHeaders(q) == q.header

tokenVerifier(q) == CASE q.auth = "full" -> 200 [] q.auth = "read" -> 403 [] OTHER -> 401

(* The handler built by Start, up to the MCP handler: the status that ends  *)
(* the request there, or 0 when it goes on to the MCP handler.              *)
httpHandler(q) ==
  CASE q.host \in HostHandlers -> 299
    [] q.method # "POST" /\ ~checkRequiredHeaders(q) -> 403
    [] q.path = "metadata" -> IF enableOAuth THEN 200 ELSE 404
    [] q.path = "metadata_below" -> 404
    [] q.method = "POST" /\ ~checkRequiredHeaders(q) -> 403
    [] q.method = "POST" /\ wwwAuthProbe /\ q.auth = "none" /\ q.body = "empty" -> 401
    [] q.method = "POST" /\ q.body = "initialized" -> 204
    [] protectOAuth /\ tokenVerifier(q) # 200 -> tokenVerifier(q)
    [] OTHER -> 0

(* recordHTTPRequest runs for every request except a POST that ends at the  *)
(* metadata paths before its body is read.                                  *)
recordHTTPRequest(q) ==
  q.host \in HostHandlers \/ q.method # "POST" \/ q.path \notin {"metadata", "metadata_below"}

Serve(r) ==
  /\ server = "up" /\ req[r].pc = "idle"
  /\ httpSeen' = IF recordHTTPRequest(Requests[r]) THEN httpSeen \union {r} ELSE httpSeen
  /\ LET status == httpHandler(Requests[r]) IN
     req' = [req EXCEPT ![r] =
               IF status # 0 THEN [@ EXCEPT !.pc = "done", !.status = status]
               ELSE IF Requests[r].body = "call" THEN [@ EXCEPT !.pc = "pop"]
               ELSE [@ EXCEPT !.pc = "done", !.status = 200]]
  /\ UNCHANGED <<calls, received, token, waiter, server, pending>>

-----------------------------------------------------------------------------
(* popCall: the first scripted call of that tool leaves the queue. *)
firstOf(tool) == {i \in 1..Len(calls) : calls[i].tool = tool /\ \A j \in 1..(i - 1) : calls[j].tool # tool}

without(i) == SubSeq(calls, 1, i - 1) \o SubSeq(calls, i + 1, Len(calls))

popCall(r) ==
  /\ req[r].pc = "pop"
  /\ IF firstOf(Requests[r].tool) = {}
       THEN /\ req' = [req EXCEPT ![r] = [@ EXCEPT !.pc = "done", !.status = 500]]
            /\ calls' = calls
       ELSE LET i == CHOOSE i \in firstOf(Requests[r].tool) : TRUE IN
            /\ req' = [req EXCEPT ![r] = [@ EXCEPT !.pc = "record", !.call = calls[i]]]
            /\ calls' = without(i)
  /\ UNCHANGED <<received, httpSeen, token, waiter, server, pending>>

(* recordRequest appends under the mutex and offers the token after it. *)
recordRequest(r) ==
  /\ req[r].pc = "record"
  /\ received' = Append(received, req[r].call.tool)
  /\ req' = [req EXCEPT ![r].pc = "offer"]
  /\ UNCHANGED <<calls, httpSeen, token, waiter, server, pending>>

(* The send on m.requests, whose buffer holds one token. *)
offerToken(r) ==
  /\ req[r].pc = "offer"
  /\ token' = TRUE
  /\ req' = [req EXCEPT ![r].pc = "answer"]
  /\ UNCHANGED <<calls, received, httpSeen, waiter, server, pending>>

(* The rest of toolHandler and buildResult: DynamicResult, the progress     *)
(* notifications, then a result or a tool error.                            *)
buildResult(call) == IF call.outcome = "broken" THEN 500 ELSE 200

answer(r) ==
  /\ req[r].pc = "answer"
  /\ req' = [req EXCEPT ![r] = [@ EXCEPT !.pc = "done", !.status = buildResult(req[r].call)]]
  /\ UNCHANGED <<calls, received, httpSeen, token, waiter, server, pending>>

-----------------------------------------------------------------------------
(* WaitForRequests counts under the mutex, and only then reaches its        *)
(* select, where it takes the token or sleeps for one.                      *)
WaitLook ==
  /\ waiter = "look"
  /\ waiter' = IF Len(received) >= Wanted THEN "ok" ELSE "counted"
  /\ UNCHANGED <<calls, req, received, httpSeen, token, server, pending>>

WaitSelect ==
  /\ waiter = "counted"
  /\ waiter' = "asleep"
  /\ UNCHANGED <<calls, req, received, httpSeen, token, server, pending>>

WaitWakes ==
  /\ waiter = "asleep" /\ token
  /\ token' = FALSE
  /\ waiter' = "look"
  /\ UNCHANGED <<calls, req, received, httpSeen, server, pending>>

(* Close takes the remaining calls away; a handler that has not taken its   *)
(* call finds the queue empty.                                              *)
Close ==
  /\ server = "up"
  /\ server' = "closed"
  /\ pending' = Len(calls)
  /\ calls' = <<>>
  /\ UNCHANGED <<req, received, httpSeen, token, waiter>>

-----------------------------------------------------------------------------
Handler(r) == popCall(r) \/ recordRequest(r) \/ offerToken(r) \/ answer(r)

Next ==
  \/ \E r \in DOMAIN Requests : Serve(r) \/ Handler(r)
  \/ WaitLook \/ WaitSelect \/ WaitWakes \/ Close

(* Handlers and the waiting test run when they can. *)
Fairness ==
  /\ \A r \in DOMAIN Requests : WF_vars(Handler(r))
  /\ WF_vars(WaitLook) /\ WF_vars(WaitSelect) /\ WF_vars(WaitWakes)

Spec == Init /\ [][Next]_vars /\ Fairness

-----------------------------------------------------------------------------
(* Every scripted call is used for at most one request (popCall), and what  *)
(* is neither left over nor reported by Close has been recorded or is on    *)
(* its way to being recorded.                                               *)
CallsUsedOnce ==
  Len(calls) + pending + Len(received) + Cardinality({r \in DOMAIN Requests : req[r].pc = "record"})
    = Len(Calls)

(* WaitForRequests is not lost between its count and its sleep although the *)
(* channel holds one token and the token of an earlier request may be gone. *)
WaitForRequestsReturns == (Len(received) >= Wanted) ~> (waiter = "ok")

=============================================================================
