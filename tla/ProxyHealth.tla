---------------------------- MODULE ProxyHealth ----------------------------
(***************************************************************************)
(* Outbound proxy routes and their health (pkg/proxy, pkg/proxyhealth).     *)
(* A route is resolved once, at construction, from an explicit proxy or     *)
(* the environment; a loop then checks every proxied route with a TCP dial  *)
(* and a CONNECT; and the health component reports one status from three    *)
(* counters that are kept up to date incrementally, plus a bounded sample   *)
(* of the routes.                                                           *)
(*                                                                          *)
(* A route is named by its position, which stands for its unique key        *)
(* (kind and name); keys are ordered.  Times are check counts.              *)
(***************************************************************************)
EXTENDS Naturals, Sequences, SequencesExt, FiniteSets

CONSTANTS
  RouteConfigs,     \* the routes of one client: sequences of
                    \* [scheme, host, port, loopback, unix, template, explicit];
                    \* a host is its labels from the top, port 0 is not given
  Environments,     \* [HTTPS_PROXY, https_proxy, HTTP_PROXY, http_proxy, NO_PROXY];
                    \* NO_PROXY is a set of entries [all, dot, host, port]
  maxHealthRoutes,  \* routes the component lists
  maxHistoryEntries,
  MaxChecks         \* bound: checks made

VARIABLES
  env, config,      \* what the client was started with
  status,           \* route -> [state, lastCheck, lastSuccess, history]
  proxied, pending, failed,   \* healthProxied, healthPending, healthFailed
  keys,             \* componentHealth.keys: the sampled routes
  started, cancelled,
  at,               \* the route runOnce is at, 0 between rounds
  checking,         \* a check of that route is on the wire
  checks            \* checks made, the clock of this model

vars == <<env, config, status, proxied, pending, failed, keys, started,
          cancelled, at, checking, checks>>

Routes == 1..Len(config)

-----------------------------------------------------------------------------
(* envProxyValue: an https target falls back to the http variables. *)
firstSet(values) ==
  LET set == {i \in 1..Len(values) : values[i] # ""}
  IN  IF set = {} THEN "" ELSE values[CHOOSE i \in set : \A j \in set : i <= j]

envProxyValue(scheme, e) ==
  IF scheme = "https"
    THEN firstSet(<<e.HTTPS_PROXY, e.https_proxy, e.HTTP_PROXY, e.http_proxy>>)
    ELSE firstSet(<<e.HTTP_PROXY, e.http_proxy>>)

(* proxyBypassHost and hostPortMatch: an entry with a port names one host   *)
(* and the port as written in the URL; one without names a host and the     *)
(* hosts below it, or only those below it when it starts with a dot.        *)
proxyBypassHost(r, e) ==
  \E entry \in e.NO_PROXY :
    \/ entry.all
    \/ entry.port # 0 /\ entry.host = r.host /\ entry.port = r.port
    \/ entry.port = 0 /\ IsPrefix(entry.host, r.host) /\ (entry.dot => entry.host # r.host)

(* envProxyForURL: no target, an entry of NO_PROXY that matches, or a value *)
(* that does not parse leave the route direct.                              *)
envProxyForURL(r, e) ==
  IF r.scheme = "none" \/ proxyBypassHost(r, e) \/ envProxyValue(r.scheme, e) = "bad"
    THEN "" ELSE envProxyValue(r.scheme, e)

(* ResolveRoute: the proxy a route is reported to use, "" when direct. *)
ResolveRoute(r, e) == IF r.explicit # "" THEN r.explicit ELSE envProxyForURL(r, e)

(* buildRoutes: a loopback http template is always direct. *)
buildRoutes(r, e) == IF r.template /\ r.loopback THEN "" ELSE ResolveRoute(r, e)

(* What the transport of pkg/transport does with the same request: an       *)
(* explicit proxy is fixed, a unix socket is dialled directly, and          *)
(* otherwise net/http's ProxyFromEnvironment decides: one pair of variables *)
(* per scheme, never a proxy for loopback hosts, and NO_PROXY entries whose *)
(* port is compared with the scheme's default when the URL gives none.      *)
urlPort(r) == IF r.port # 0 THEN r.port ELSE IF r.scheme = "https" THEN 443 ELSE 80

exempt(r, e) ==
  \E entry \in e.NO_PROXY :
    entry.all \/ (/\ entry.port \in {0, urlPort(r)}
                  /\ IsPrefix(entry.host, r.host) /\ (entry.dot => entry.host # r.host))

ProxyFromEnvironment(r, e) ==
  IF r.scheme = "none" \/ r.loopback \/ exempt(r, e) THEN ""
  ELSE IF r.scheme = "https" THEN firstSet(<<e.HTTPS_PROXY, e.https_proxy>>)
  ELSE firstSet(<<e.HTTP_PROXY, e.http_proxy>>)

transportProxy(r, e) ==
  CASE r.template /\ r.loopback -> ""
    [] r.explicit # "" -> r.explicit
    [] r.unix -> ""
    [] OTHER -> ProxyFromEnvironment(r, e)

-----------------------------------------------------------------------------
(* initialHealthState. *)
initialHealthState(r, e) == IF buildRoutes(r, e) = "" THEN "direct" ELSE "unhealthy"

(* One step of attachComponentHealth's insertion into the bounded sample:   *)
(* the map is walked in any order, the sample is kept sorted.               *)
insertKey(sample, key) ==
  LET index == Cardinality({i \in 1..Len(sample) : sample[i] < key})
      grown == IF Len(sample) < maxHealthRoutes THEN Append(sample, 0) ELSE sample
  IN  IF index >= maxHealthRoutes THEN sample
      ELSE [i \in 1..Len(grown) |-> IF i <= index THEN grown[i]
                                    ELSE IF i = index + 1 THEN key ELSE grown[i - 1]]

orders(n) == {p \in [1..n -> 1..n] : \A i, j \in 1..n : p[i] = p[j] => i = j}

(* newChecker, then attachComponentHealth before the checker starts. *)
Init ==
  /\ env \in Environments /\ config \in RouteConfigs
  /\ status = [r \in Routes |-> [state |-> initialHealthState(config[r], env),
                                 lastCheck |-> 0, lastSuccess |-> 0, history |-> <<>>]]
  /\ proxied = Cardinality({r \in Routes : status[r].state # "direct"})
  /\ pending = proxied /\ failed = 0
  /\ \E order \in orders(Len(config)) : keys = FoldLeft(insertKey, <<>>, order)
  /\ started = FALSE /\ cancelled = FALSE
  /\ at = 0 /\ checking = FALSE /\ checks = 0

-----------------------------------------------------------------------------
(* Start: once, and run begins with a round at once. *)
Start ==
  /\ ~started /\ ~cancelled
  /\ started' = TRUE /\ at' = 1
  /\ UNCHANGED <<env, config, status, proxied, pending, failed, keys, cancelled, checking, checks>>

(* Stop cancels the loop's context; it does not wait for a check on the wire. *)
Stop ==
  /\ started /\ ~cancelled
  /\ cancelled' = TRUE
  /\ UNCHANGED <<env, config, status, proxied, pending, failed, keys, started, at, checking, checks>>

(* The ticker starts the next round; a done context ends the loop here. *)
Tick ==
  /\ started /\ ~cancelled /\ at = 0 /\ checks < MaxChecks
  /\ at' = 1
  /\ UNCHANGED <<env, config, status, proxied, pending, failed, keys, started, cancelled, checking, checks>>

advance == IF at = Len(config) THEN 0 ELSE at + 1

(* recordDirect *)
recordDirect ==
  /\ at # 0 /\ ~checking /\ buildRoutes(config[at], env) = ""
  /\ status' = [status EXCEPT ![at].state = "direct"]
  /\ at' = advance
  /\ UNCHANGED <<env, config, proxied, pending, failed, keys, started, cancelled, checking, checks>>

(* checkProxyRoute: the check takes its timestamp and goes on the wire. *)
BeginCheck ==
  /\ at # 0 /\ ~checking /\ buildRoutes(config[at], env) # "" /\ checks < MaxChecks
  /\ checking' = TRUE
  /\ checks' = checks + 1
  /\ UNCHANGED <<env, config, status, proxied, pending, failed, keys, started, cancelled, at>>

(* Without a target the CONNECT has no destination; otherwise the dial, the *)
(* proxy's TLS handshake or the CONNECT may fail.  A cancelled dial fails   *)
(* and is recorded like any other.                                          *)
outcomes(r) ==
  IF r.scheme = "none" THEN {"connect"} ELSE {"ok", "tcp", "tls", "connect"}

(* A mutant: a route that failed before stays counted when it fails again   *)
(* or recovers.                                                             *)
countFailedSticky(s, success) == failed + (IF success THEN 0 ELSE 1)

(* recordResult's incremental counters. *)
countFailed(s, success) ==
  (IF s.lastCheck # 0 /\ s.state = "unhealthy" THEN failed - 1 ELSE failed)
    + (IF success THEN 0 ELSE 1)

lastEntries(history) ==
  SubSeq(history, IF Len(history) > maxHistoryEntries THEN Len(history) - maxHistoryEntries + 1 ELSE 1,
         Len(history))

recordResult(outcome) ==
  LET s == status[at]
      success == outcome = "ok"
  IN  /\ checking /\ outcome \in outcomes(config[at])
      /\ pending' = IF s.lastCheck = 0 THEN pending - 1 ELSE pending
      /\ failed' = countFailed(s, success)
      /\ status' = [status EXCEPT ![at] =
           [state       |-> IF success THEN "healthy" ELSE "unhealthy",
            lastCheck   |-> checks,
            lastSuccess |-> IF success THEN checks ELSE s.lastSuccess,
            history     |-> lastEntries(Append(s.history, outcome))]]
      /\ checking' = FALSE
      /\ at' = advance
      /\ UNCHANGED <<env, config, proxied, keys, started, cancelled, checks>>

Next ==
  \/ Start \/ Stop \/ Tick \/ recordDirect \/ BeginCheck
  \/ \E outcome \in {"ok", "tcp", "tls", "connect"} : recordResult(outcome)

Spec == Init /\ [][Next]_vars

-----------------------------------------------------------------------------
(* componentHealth.Snapshot: the status comes from the counters, the listed *)
(* routes from the sample.                                                  *)
SnapshotStatus ==
  IF failed > 0 THEN "degraded"
  ELSE IF pending > 0 THEN "unknown"
  ELSE IF proxied = 0 THEN "disabled" ELSE "ok"

-----------------------------------------------------------------------------
(* The component's status (Snapshot) says of all routes, listed or not,     *)
(* what their own records say: degraded exactly when some proxied route's   *)
(* latest check failed, ok only when every one's latest check succeeded.    *)
StatusIsHonest ==
  LET via    == {r \in Routes : buildRoutes(config[r], env) # ""}
      broken == {r \in via : status[r].lastCheck # 0 /\ status[r].lastCheck # status[r].lastSuccess}
      unseen == {r \in via : status[r].lastCheck = 0}
  IN  /\ SnapshotStatus = "degraded" <=> broken # {}
      /\ SnapshotStatus = "ok" <=> via # {} /\ broken = {} /\ unseen = {}

(* The sample the component lists is the same whatever order the route map  *)
(* is walked in: the first routes by key, sorted.                           *)
SampleIsFirstKeys ==
  /\ Len(keys) = (IF Len(config) < maxHealthRoutes THEN Len(config) ELSE maxHealthRoutes)
  /\ \A i \in 1..Len(keys) : keys[i] = i

(* ResolveRoute's comment, and docs/deployment/overview.md on proxies: the  *)
(* route reported and checked is the one requests really take.              *)
ReportedRouteIsEffective ==
  \A r \in Routes : buildRoutes(config[r], env) = transportProxy(config[r], env)
=============================================================================
