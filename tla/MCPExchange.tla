---------------------------- MODULE MCPExchange ----------------------------
(***************************************************************************)
(* One JSON-RPC message sent to an HTTP MCP server and what the tunnel     *)
(* answers when that fails: the forwarding and static-header round         *)
(* trippers, the redirect policy and the response capture                  *)
(* (pkg/mcpclient), and the provenance of a synthesized failure            *)
(* (pkg/dispatcher/internal/tunnel_failure.go).  net/http and the MCP SDK  *)
(* are external: they follow redirects the policy allows, may carry        *)
(* headers of one hop to the next, and may flatten an error.               *)
(***************************************************************************)
EXTENDS Naturals, Sequences, FiniteSets, FiniteSetsExt

CONSTANTS
  Server,       \* the configured URL: origin, spelling of its host, path
  Locations,    \* URLs a redirect may name
  MaxRedirects, \* ten in the code
  Errors        \* sets of marks a failed call's error chain may carry

VARIABLES
  pc,
  call,       \* the message is a request, not a notification
  discovery,  \* the context is marked as MCP discovery
  url, via,   \* the next hop, and the hops before it
  sent,       \* tunnel headers on the last hop
  stray,      \* history: tunnel headers left the configured origin
  received,   \* history: the target answered some hop
  carrier,    \* HeaderCarrier: status (0: none), captured body ("": none), last: what was sent last
  err,        \* the error of Write, or of Read
  posted      \* what the processor posts

vars == <<pc, call, discovery, url, via, sent, stray, received, carrier, err, posted>>

Nil == [set |-> FALSE, marks |-> {}, body |-> ""]
Error(marks) == [set |-> TRUE, marks |-> marks, body |-> ""]
NonProtocol(kind) == [set |-> TRUE, marks |-> {"nonProtocol"}, body |-> kind]
Nothing == [type |-> "nothing", source |-> "", kind |-> "", upstream |-> 0, code |-> 0]

success(s) == s \in 200..299
httpError(s) == s \in 400..599

-----------------------------------------------------------------------------
(* The redirect policy compares scheme, host and effective port; the round *)
(* trippers compare the spelled authority, so one IP address written in    *)
(* two ways is one origin to the first and two to the second.              *)
sameURLOrigin(u) == u.origin = Server.origin
originKey(u) == <<u.origin, u.spelling>>

(* withRuntimeMCPRedirectPolicy *)
allowsRedirect(u, hops) == sameURLOrigin(u) /\ hops < MaxRedirects

(* StaticHeadersRoundTripper.applies *)
applies(u) == originKey(u) = originKey(Server) /\ (discovery \/ u.path = Server.path)

static(u) == IF applies(u) THEN {"static"} \cup (IF discovery THEN {"discovery"} ELSE {}) ELSE {}

(* ApplyRequestHeaders at the configured origin, RemoveRequestHeaders       *)
(* elsewhere.                                                               *)
forwarded(u, hs) == IF originKey(u) = originKey(Server) THEN hs \cup {"forwarded"}
                                                        ELSE hs \ {"forwarded"}

RoundTrip ==
  /\ pc = "send" /\ pc' = "answer"
  /\ \E carried \in {{}, sent} : sent' = forwarded(url, carried \cup static(url))
  /\ stray' = (stray \/ (url.origin # Server.origin /\ sent' # {}))
  /\ UNCHANGED <<call, discovery, url, via, received, carrier, err, posted>>

-----------------------------------------------------------------------------
captureFirst(c, status, body) ==
  [status |-> status, last |-> body,
   body |-> IF success(status) \/ c.body # "" THEN c.body ELSE body]

(* StoreResponse for every response, captureNonSuccessResponseBody unless   *)
(* it is a success: the body of an earlier hop then stays in the carrier.   *)
capture(c, status, body) ==
  [status |-> status, last |-> body, body |-> IF success(status) THEN c.body ELSE body]

Bodies == {"missing", "unreadable", "too_large", "malformed", "invalid", "otherID", "mcpError"}

(* The target answers: a redirect the policy allows starts the next hop,    *)
(* one it refuses fails the call, any other status is the SDK's to judge.   *)
Answered ==
  /\ pc = "answer"
  /\ \E status \in {200, 304, 307, 404}, body \in Bodies :
       /\ status = 304 => body = "missing"
       /\ carrier' = capture(carrier, status, body) /\ received' = TRUE
       /\ \/ /\ status = 307
             /\ \E u \in Locations :
                  IF allowsRedirect(u, via + 1)
                    THEN pc' = "send" /\ url' = u /\ via' = via + 1 /\ UNCHANGED err
                    ELSE pc' = "write" /\ err' = Error({}) /\ UNCHANGED <<url, via>>
          \/ /\ status # 307 /\ pc' = "write" /\ UNCHANGED <<url, via>>
             /\ err' \in {Nil, Error({})}
  /\ UNCHANGED <<call, discovery, sent, stray, posted>>

(* RoundTrip fails; the SDK may keep the error chain or only its text. *)
TransportFails ==
  /\ pc = "answer" /\ pc' = "write"
  /\ \E marks \in Errors : err' \in {Error(marks), Error({})}
  /\ UNCHANGED <<call, discovery, url, via, sent, stray, received, carrier, posted>>

-----------------------------------------------------------------------------
(* preservedMCPError: which captured body is a recognized JSON-RPC error    *)
(* of this request, and why any other is not.                               *)
recognized(body) == call /\ body = "mcpError"

nonProtocolKind(body) ==
  CASE ~call -> "invalid_mcp_error"
    [] call /\ body \in {"", "missing"} -> "response_body_missing"
    [] call /\ body = "unreadable" -> "response_body_unreadable"
    [] call /\ body = "too_large" -> "response_body_too_large"
    [] call /\ body = "malformed" -> "malformed_json"
    [] OTHER -> "invalid_mcp_error"

(* forwardingConnection.Write: the judgement of a non-success response      *)
(* takes the place of the error of the call.                                *)
judged == carrier.status # 0 /\ ~success(carrier.status)
writeError == IF judged /\ ~recognized(carrier.body) THEN NonProtocol(nonProtocolKind(carrier.body))
              ELSE IF judged THEN Nil ELSE err

normalizeTransportStatusCode(status, e) ==
  IF status # 0 THEN status ELSE IF e.set THEN 502 ELSE 200

-----------------------------------------------------------------------------
closedMarks == {"closedPipe", "eof", "unexpectedEOF", "connClosed", "reset", "aborted"}

(* classifyTunnelFailure: the first rule whose marks the chain carries. *)
sourceRules ==
  << <<{"nonProtocol", "protocol"}, "protocol">>, <<closedMarks, "transport_closed">>,
     <<{"dns"}, "dns">>, <<{"tls"}, "tls">>, <<{"deadline", "timeout"}, "timeout">>,
     <<{"dial", "refused", "netUnreachable", "hostUnreachable"}, "connect">> >>

(* classifyTransportErrorKind, below the status and the non-protocol kinds. *)
kindRules ==
  << <<{"protocol"}, "invalid_protocol_response">>, <<{"closedPipe"}, "closed_pipe">>,
     <<{"eof"}, "eof">>, <<{"unexpectedEOF"}, "unexpected_eof">>,
     <<{"connClosed"}, "connection_closed">>, <<{"reset"}, "connection_reset">>,
     <<{"aborted"}, "connection_aborted">>, <<{"dns"}, "dns">>, <<{"tls"}, "tls">>,
     <<{"deadline", "timeout"}, "timeout">>, <<{"refused"}, "connection_refused">>,
     <<{"netUnreachable"}, "network_unreachable">>, <<{"hostUnreachable"}, "host_unreachable">>,
     <<{"dial"}, "dial">>, <<{"canceled"}, "canceled">> >>

firstRule(rules, marks, default) ==
  LET hits == {i \in DOMAIN rules : rules[i][1] \cap marks # {}}
  IN  IF hits = {} THEN default ELSE rules[Min(hits)][2]

classifyTransportErrorKind(status, e) ==
  IF "nonProtocol" \in e.marks THEN e.body
  ELSE IF httpError(status) THEN "http_status"
  ELSE firstRule(kindRules, e.marks, "unknown")

classifyTunnelFailure(status, e) ==
  LET kind == classifyTransportErrorKind(status, e)
  IN  [type |-> "failure",
       kind |-> IF kind = "canceled" THEN "" ELSE kind,
       source |-> IF httpError(status) THEN "target_http"
                  ELSE firstRule(sourceRules, e.marks, "client_internal"),
       upstream |-> IF httpError(status) THEN status ELSE 0,
       code |-> normalizeTransportStatusCode(status, e)]

(* processJsonRpcCommand after conn.Write: a preserved error is posted as   *)
(* it is, a failure gets its provenance, a notification its                 *)
(* acknowledgement, and the response to a request is read.                  *)
WriteReturns ==
  /\ pc = "write"
  /\ LET e == writeError
         code == normalizeTransportStatusCode(carrier.status, e)
     IN  IF judged /\ recognized(carrier.body)
           THEN posted' = [Nothing EXCEPT !.type = "preserved", !.code = code] /\ pc' = "done"
         ELSE IF e.set \/ code >= 400
           THEN posted' = classifyTunnelFailure(carrier.status, e) /\ pc' = "done"
         ELSE IF call THEN pc' = "read" /\ UNCHANGED posted
         ELSE posted' = [Nothing EXCEPT !.type = "ack", !.code = code] /\ pc' = "done"
  /\ UNCHANGED <<call, discovery, url, via, sent, stray, received, carrier, err>>

(* forwardResponses reads the response, an ill-formed message, or an error; *)
(* a closed connection is reported before a cancelled context is looked for.*)
ReadReturns ==
  /\ pc = "read" /\ pc' = "done"
  /\ \/ posted' = [Nothing EXCEPT !.type = "response", !.code = carrier.status]
     \/ \E marks \in Errors \cup {{"protocol"}} :
          posted' = IF marks \cap {"connClosed", "eof"} = {} /\ marks \cap {"deadline", "canceled"} # {}
                      THEN Nothing
                      ELSE [classifyTunnelFailure(0, Error(marks)) EXCEPT !.code = 502]
  /\ UNCHANGED <<call, discovery, url, via, sent, stray, received, carrier, err>>

Init ==
  /\ pc = "send" /\ call \in BOOLEAN /\ discovery \in BOOLEAN
  /\ url = Server /\ via = 0 /\ sent = {} /\ stray = FALSE /\ received = FALSE
  /\ carrier = [status |-> 0, body |-> "", last |-> ""] /\ err = Nil /\ posted = Nothing

Next == RoundTrip \/ Answered \/ TransportFails \/ WriteReturns \/ ReadReturns

Spec == Init /\ [][Next]_vars

-----------------------------------------------------------------------------
(* "a cross-origin 3xx response cannot re-send request headers": whatever   *)
(* the server redirects to and whatever net/http carries over, the          *)
(* forwarded and the operator's headers reach the configured origin only.   *)
HeadersStayAtServer == ~stray

(* protocol.md: a recognized target error is preserved exactly, and only    *)
(* when none was recovered is one synthesized: an error is preserved        *)
(* exactly when the last response of the exchange is one, never because an  *)
(* earlier hop's body is still in the carrier.                              *)
PreservedIsLast ==
  pc = "done" =>
    (posted.type = "preserved" <=>
       call /\ carrier.status # 0 /\ ~success(carrier.status) /\ carrier.last = "mcpError")

(* The two classifiers of one failure blame the same cause, however many    *)
(* causes its error chain carries: outside an HTTP error of the target the  *)
(* kind is one of its source's, and cancellation stays out of the envelope. *)
KindsOf ==
  [protocol |-> {"response_body_missing", "response_body_unreadable", "response_body_too_large",
                 "malformed_json", "invalid_mcp_error", "invalid_protocol_response"},
   transport_closed |-> {"closed_pipe", "eof", "unexpected_eof", "connection_closed",
                         "connection_reset", "connection_aborted"},
   dns |-> {"dns"}, tls |-> {"tls"}, timeout |-> {"timeout"},
   connect |-> {"connection_refused", "network_unreachable", "host_unreachable", "dial"},
   client_internal |-> {"unknown", ""}]

AgreeOnCause ==
  posted.type = "failure" =>
    IF posted.source = "target_http" THEN httpError(posted.upstream)
                                     ELSE posted.upstream = 0 /\ posted.kind \in KindsOf[posted.source]

=============================================================================
