----------------------------- MODULE MCStandIns -----------------------------
(***************************************************************************)
(* Those that others wait for, for TLC: the health endpoint a supervisor   *)
(* finds through its files (HealthEndpoint), the local proxy that plays    *)
(* the control plane (LocalProxy), and the scripted service and MCP server *)
(* the end-to-end tests wait on (MockTunnelService, MockMCPServer).  None  *)
(* shares state with another; a behaviour is one of the four.              *)
(***************************************************************************)
EXTENDS Integers, LocalProxy

VARIABLES
  which,
  \* HealthEndpoint
  pc, listening, socket, met, temp, urlFile, asked, answer,
  \* MockTunnelService
  script, opened, poll, polled, testWaiter, posting, responses, session, carried, pollStatus,
  pollFailures, failed, service,
  \* MockMCPServer
  calls, req, received, httpSeen, token, waiter, server, pending

(* Two processes with the same paths; details that fit and that do not.    *)
names == <<"a", "b", "c">>
Health == INSTANCE HealthEndpoint WITH
            Processes <- {"p", "q"}, Names <- names, Sizes <- {2, 5}, BareSize <- 1,
            maxComponentBytes <- 4, maxAggregateBytes <- 6

(* A gated command without an answer, after a handshake or after a command *)
(* whose answer may name any; a test that waits for one thing.             *)
Entry(n, gated, named) == [answers |-> n, gated |-> gated, named |-> named, assert |-> "any"]
options == {[phase |-> "session", commands |-> <<Entry(0, TRUE, TRUE)>>],
            [phase |-> "none", commands |-> <<Entry(1, FALSE, FALSE), Entry(0, TRUE, TRUE)>>]}
tests == {"t"}
result(s) == [kind |-> "jsonrpc", code |-> 200, body |-> "result", session |-> s]
answers == {result(TRUE),
            [kind |-> "notify_ack", code |-> 202, body |-> "none", session |-> FALSE]}
Service == INSTANCE MockTunnelService WITH
             Options <- options, Propagate <- TRUE,
             Polls <- {"p1", "p2"}, Waiters <- tests, allowPending <- FALSE,
             Answers <- answers, MaxPosts <- 2, MaxPolls <- 3,
             waiter <- testWaiter, received <- responses, server <- service

(* Calls of two tools, one of them with a token that may only read, and    *)
(* a request to a host with a handler of its own.                          *)
Request(host, meth, path, auth, body, tool) ==
  [host |-> host, method |-> meth, path |-> path, header |-> TRUE, auth |-> auth,
   body |-> body, tool |-> tool]
requests == <<Request("d", "POST", "mcp", "full", "call", "x"),
              Request("d", "POST", "mcp", "full", "call", "x"),
              Request("d", "POST", "mcp", "full", "call", "y"),
              Request("h", "GET", "metadata", "none", "", ""),
              Request("d", "POST", "mcp", "read", "call", "x")>>
scriptedCalls == <<[tool |-> "x", outcome |-> "ok"], [tool |-> "y", outcome |-> "ok"],
                   [tool |-> "x", outcome |-> "broken"]>>
Server == INSTANCE MockMCPServer WITH
            Requests <- requests, Calls <- scriptedCalls, HostHandlers <- {"h"},
            enableOAuth <- TRUE, protectOAuth <- TRUE, wwwAuthProbe <- TRUE, Wanted <- 2

health == <<pc, listening, socket, met, temp, urlFile, asked, answer>>
tunnel == <<script, opened, poll, polled, testWaiter, posting, responses, session, carried, pollStatus,
            pollFailures, failed, service>>
mcp == <<calls, req, received, httpSeen, token, waiter, server, pending>>
allVars == <<which, health, proxyVars, tunnel, mcp>>

MCInit ==
  /\ which \in {"health", "proxy", "service", "server"}
  /\ Health!Init /\ ProxyInit /\ Service!Init /\ Server!Init
  /\ which # "health" => socket = Health!None
  /\ which # "service" => testWaiter["t"].what = "idle" /\ Len(script) = 3

ofHealth == which = "health" /\ UNCHANGED <<which, proxyVars, tunnel, mcp>>
ofProxy == which = "proxy" /\ UNCHANGED <<which, health, tunnel, mcp>>
ofService == which = "service" /\ UNCHANGED <<which, health, proxyVars, mcp>>
ofServer == which = "server" /\ UNCHANGED <<which, health, proxyVars, tunnel>>

MCNext == \/ ofHealth /\ Health!Next
          \/ ofProxy /\ ProxyNext
          \/ ofService /\ Service!Next
          \/ ofServer /\ Server!Next

(* A process that starts goes on until it listens; handlers and the        *)
(* waiting test run when they can.                                         *)
MCFairness ==
  /\ \A p \in {"p", "q"} : WF_allVars(ofHealth /\ Health!Proceed(p))
  /\ \A r \in DOMAIN requests : WF_allVars(ofServer /\ Server!Handler(r))
  /\ WF_allVars(ofServer /\ (Server!WaitLook \/ Server!WaitSelect \/ Server!WaitWakes))

MCSpec == MCInit /\ [][MCNext]_allVars /\ MCFairness

-----------------------------------------------------------------------------
(* HealthEndpoint: a crashed process never keeps the next from listening   *)
(* and never leaves part of a URL to read, a start takes the socket of no  *)
(* process that was listening when it began, and an answer fits its limit. *)
HealthEndpointIsRobust ==
  /\ which = "health" => Health!CrashDoesNotBlockRestart
  /\ [](which = "health" => Health!URLFileIsWhole /\ Health!AnswerFits)
  /\ Health!TakesNoLiveSocket

(* MockTunnelService, MockMCPServer: a waiting test misses no wake-up: of  *)
(* the service when what it waits for holds, except a WaitForResponses     *)
(* after an answer that failed the test; of the server when enough         *)
(* requests came.  And no test passes by accident: commands are handed out *)
(* one at a time, under the session they belong to, "idle" means that all  *)
(* are answered, and a scripted call is used once.                         *)
StandInsAreReliable ==
  /\ which = "server" => Server!WaitForRequestsReturns
  /\ [](which = "service" => Service!WaitersAreWoken /\ Service!OneCommandAtATime /\ Service!SessionFollowsInitialize)
  /\ Service!IdleMeansDone
  /\ [](which = "server" => Server!CallsUsedOnce)
=============================================================================
