---------------------------- MODULE MCProcessor ----------------------------
(***************************************************************************)
(* The way of an answer, for TLC: the processor and its uploads to the     *)
(* service (Processor), the forwarding of one message to an HTTP MCP       *)
(* server and what becomes of its failure (MCPExchange), and the discovery *)
(* of the server's OAuth metadata (OAuthDiscovery).  The processor calls   *)
(* the other two and waits for what they return; a behaviour is one of     *)
(* the three.                                                              *)
(***************************************************************************)
EXTENDS Processor

VARIABLES
  which,
  place, call, discovery, url, via, sent, stray, received, carrier, err, posted,
  phase, method, probeURL, candidates, at, backoff, try, attempts, failures, failureType,
  lastErr, source, issuer, meta, result, bundle, cancelled, recovered, strayed, visited

(* The configured server; redirects to another path of it, to its host     *)
(* spelled otherwise, and to another origin.                               *)
Location(o, s, p) == [origin |-> o, spelling |-> s, path |-> p]
server == Location("s", 0, "m")
locations == {Location("s", 0, "n"), Location("s", 1, "m"), Location("t", 0, "m")}
marks == {"dns", "tls", "deadline", "timeout", "refused", "netUnreachable", "hostUnreachable",
          "dial", "canceled", "closedPipe", "eof", "unexpectedEOF", "connClosed", "reset",
          "aborted"}
errors == {{}} \cup {{m, n} : m, n \in marks}
Exchange == INSTANCE MCPExchange WITH
              Server <- server, Locations <- locations, MaxRedirects <- 2, Errors <- errors,
              pc <- place

(* Documents on the server's origin, on a trusted one and on another.      *)
URL(o, p) == [origin |-> o, path |-> p]
documents == {URL("s", <<"a", "">>), URL("t", <<>>), URL("u", <<"a">>)}
OAuth == INSTANCE OAuthDiscovery WITH
           Server <- URL("s", <<"mcp">>), TrustedOrigins <- {"t"}, Advertised <- documents,
           UnixSocket <- TRUE, RetryCount <- 2, seen <- visited

exchange == <<place, call, discovery, url, via, sent, stray, received, carrier, err, posted>>
oauth == <<phase, method, probeURL, candidates, at, backoff, try, attempts, failures,
           failureType, lastErr, source, issuer, meta, result, bundle, cancelled, recovered,
           strayed, visited>>
allVars == <<which, vars, exchange, oauth>>

MCInit ==
  /\ which \in {"processor", "exchange", "oauth"}
  /\ Init /\ Exchange!Init /\ OAuth!Init
  /\ which # "processor" => \A c \in Commands : shape[c] = "request" /\ ~shared[c] /\ ~timed[c]
  /\ which # "exchange" => call /\ ~discovery

ofProcessor == which = "processor" /\ UNCHANGED <<which, exchange, oauth>>
ofExchange == which = "exchange" /\ UNCHANGED <<which, vars, oauth>>
ofOAuth == which = "oauth" /\ UNCHANGED <<which, vars, exchange>>

MCNext == \/ ofProcessor /\ Next
          \/ ofExchange /\ Exchange!Next
          \/ ofOAuth /\ OAuth!Next

(* The fairness of Processor.                                              *)
MCFairness ==
  /\ \A c \in Commands :
        /\ WF_allVars(ofProcessor /\ Proceeds(c) /\ Record)
        /\ WF_allVars(ofProcessor /\ Interrupted(c) /\ Record)
        /\ WF_allVars(ofProcessor /\ ConnectionTTL(c) /\ Record)
        /\ WF_allVars(ofProcessor /\ ResponseDeadline(c) /\ Record)
  /\ \A u \in Uploads : WF_allVars(ofProcessor /\ Client(u) /\ UNCHANGED processorVars /\ Record)

MCSpec == MCInit /\ [][MCNext]_allVars /\ MCFairness

-----------------------------------------------------------------------------

(* MCPExchange: an error of the target is handed on only if it is the one  *)
(* of the last hop, a failure names a cause that goes with its source, and *)
(* the caller's headers stay at the configured server.                     *)
ExchangeIsFaithful ==
    Exchange!PreservedIsLast /\ Exchange!AgreeOnCause /\ Exchange!HeadersStayAtServer

(* OAuthDiscovery: a cycle that failed only for reasons that may pass is   *)
(* tried again; requests reach trusted origins only; the Unix socket is    *)
(* used for the server's origin and no other.                              *)
DiscoveryIsSound ==
    OAuth!TransientIsRetried /\ OAuth!OnlyTrustedOrigins /\ OAuth!SocketFollowsServer
=============================================================================
