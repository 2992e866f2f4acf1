--------------------------- MODULE OAuthDiscovery ---------------------------
(***************************************************************************)
(* OAuth discovery at startup (pkg/oauth).  One goroutine probes the MCP   *)
(* server for a WWW-Authenticate challenge, builds the ordered metadata    *)
(* candidates, fetches protected-resource metadata in one or two passes,   *)
(* enriches it with authorization-server metadata in one or two passes,    *)
(* and settles DiscoveryState; a transient failure anywhere starts the     *)
(* whole cycle again after a backoff.                                      *)
(*                                                                         *)
(* A URL is its origin and its path, the path being the sequence of the    *)
(* segments between slashes: "" is <<>>, "/" is <<"">>, "/a/" is           *)
(* <<"a", "">>.  What an HTTP server answers is the environment's choice.  *)
(***************************************************************************)
EXTENDS Integers, Sequences, FiniteSets, SequencesExt

CONSTANTS Server,          \* the main channel's URL
          TrustedOrigins,  \* --mcp.oauth-trusted-origin
          Advertised,      \* URLs a challenge or a document may name
          UnixSocket,      \* whether the main channel uses a Unix socket
          RetryCount       \* oauthMetadataRequestRetryCount

VARIABLES phase, method, probeURL, candidates, at, backoff, try, attempts,
          failures, failureType, lastErr, source, issuer, meta, result, bundle,
          cancelled, recovered, strayed, seen

vars == << phase, method, probeURL, candidates, at, backoff, try, attempts,
           failures, failureType, lastErr, source, issuer, meta, result, bundle,
           cancelled, recovered, strayed, seen >>

pass == << candidates, at, backoff, try, attempts, failures, failureType,
           lastErr, seen >>
document == << source, issuer, meta >>

NoURL == [origin |-> "", path |-> <<>>]
PRM == << "wk", "prm" >>
authServerWellKnownPathSpecs == << << "wk", "oas" >>, << "wk", "oidc" >> >>

(***************************************************************************)
(* Paths.                                                                  *)
(***************************************************************************)
TrimLeft(p) ==
  LET kept == { i \in DOMAIN p : p[i] # "" }
  IN IF kept = {} THEN <<>> ELSE SubSeq(p, Min(kept), Len(p))

TrimRight(p) ==
  LET kept == { i \in DOMAIN p : p[i] # "" }
  IN IF kept = {} THEN <<>> ELSE SubSeq(p, 1, Max(kept))

Trim(p) == TrimLeft(TrimRight(p))

\* "/.well-known/x" before the path; a path of slashes leaves one behind.
prependToPath(u, spec) ==
  LET rest == IF u.path = <<>> THEN <<>>
              ELSE IF TrimLeft(u.path) = <<>> THEN << "" >> ELSE TrimLeft(u.path)
  IN [u EXCEPT !.path = spec \o rest]

appendToPath(u, spec) == [u EXCEPT !.path = TrimRight(u.path) \o spec]

\* Keep the first of equal URLs.
dedupeCandidates(s) ==
  FoldLeft(LAMBDA kept, c : IF \E i \in DOMAIN kept : kept[i].url = c.url
                            THEN kept ELSE Append(kept, c), <<>>, s)

Candidate(u, trusted) == [url |-> u, trusted |-> trusted]

buildWellKnownCandidates ==
  LET suffix == Trim(Server.path)
      root == [origin |-> Server.origin, path |-> PRM]
      withPath == [root EXCEPT !.path = IF IsPrefix(PRM, suffix) THEN suffix
                                        ELSE PRM \o SelectSeq(suffix, LAMBDA x : x # "")]
  IN (IF suffix = <<>> THEN <<>> ELSE << Candidate(withPath, {Server.origin}) >>)
     \o << Candidate(root, {Server.origin}) >>

BuildOAuthDiscoveryCandidates(probed) ==
  dedupeCandidates(
    (IF probed = NoURL THEN <<>>
     ELSE << Candidate(probed, {Server.origin} \cup TrustedOrigins) >>)
    \o buildWellKnownCandidates)

\* A pathful issuer is tried appended first, a root issuer prepended first.
buildAuthServerMetadataCandidateURLs(iss) ==
  LET trusted == {Server.origin} \cup TrustedOrigins
      of(spec) == IF Trim(iss.path) = <<>>
                  THEN << prependToPath(iss, spec), appendToPath(iss, spec) >>
                  ELSE << appendToPath(iss, spec), prependToPath(iss, spec) >>
      all == of(authServerWellKnownPathSpecs[1]) \o of(authServerWellKnownPathSpecs[2])
  IN dedupeCandidates([ i \in DOMAIN all |-> Candidate(all[i], trusted) ])

\* The candidate lists of every URL that may be met, worked out once.
ResourceCandidates ==
  [ u \in Advertised \cup {NoURL} |-> BuildOAuthDiscoveryCandidates(u) ]

AuthServerCandidates ==
  [ u \in Advertised |-> buildAuthServerMetadataCandidateURLs(u) ]

sameOrChildURLPath(u, base) ==
  \/ TrimRight(base.path) = <<>>
  \/ IsPrefix(TrimRight(base.path), u.path)

isAuthServerMetadataURLFor(u, iss) ==
  LET p == TrimRight(u.path)
      q == Trim(iss.path)
  IN \E k \in DOMAIN authServerWellKnownPathSpecs :
       LET wk == authServerWellKnownPathSpecs[k]
       IN \/ p = wk /\ q = <<>>
          \/ q # <<>> /\ (p = wk \o q \/ p = q \o wk)

(***************************************************************************)
(* Failure classification (discovery_retry_policy.go).                     *)
(***************************************************************************)
isRetryableDiscoveryResponseStatus(s) == s = 429 \/ (500 <= s /\ s <= 599)

NoFailures == [retryable |-> FALSE, permanent |-> FALSE, timeout |-> FALSE]

record(f, s, timedOut, invalidBody) ==
  IF timedOut THEN [f EXCEPT !.timeout = TRUE]
  ELSE IF s = 404 THEN f
  ELSE IF isRetryableDiscoveryResponseStatus(s) \/ (invalidBody /\ s \in 200..299)
       THEN [f EXCEPT !.retryable = TRUE]
  ELSE [f EXCEPT !.permanent = TRUE]

classifyFallbackFirst(f, fallback) ==
  IF f.permanent \/ fallback = "non_timeout" THEN "non_timeout"
  ELSE IF f.retryable THEN "retryable"
  ELSE IF f.timeout THEN "timeout_only"
  ELSE fallback

classify(f, fallback) ==
  IF f.permanent THEN "non_timeout"
  ELSE IF f.retryable THEN "retryable"
  ELSE IF f.timeout THEN "timeout_only"
  ELSE fallback

withDiscoveryFailureType(t) == IF t = "not_applicable" THEN "non_timeout" ELSE t

transient(t) == t \in {"timeout_only", "retryable"}

(***************************************************************************)
(* HTTP: a request leaves only for an origin the candidate trusts, and a   *)
(* redirect stays on the origin of the request.                            *)
(***************************************************************************)
Transport(k) == [kind |-> k, status |-> 0, body |-> "none"]
Response(s, b) == [kind |-> "response", status |-> s, body |-> b]

Statuses == {200, 401, 404, 429, 503}
ResourceBodies == {"valid", "invalid", "empty", "big", "read_error", "read_timeout"}
AuthBodies == {"match", "mismatch", "invalid", "read_error", "read_timeout"}

withTrustedDiscoveryOrigins(c) == c.url.origin \in c.trusted

\* Once `recovered`, the servers answer at once and for good: a document or
\* a definite refusal.  In the backoff pass the request's context is cancelled
\* before its body is read, so the body of any response may be lost.
Answers(bodies, good) ==
  IF ~withTrustedDiscoveryOrigins(candidates[at]) \/ cancelled
  THEN { Transport("error") }
  ELSE LET cut == IF backoff THEN { Response(s, "read_error") : s \in Statuses } ELSE {}
       IN IF recovered
          THEN { Response(200, b) : b \in good } \cup { Response(404, "invalid"),
                 Response(401, "invalid") } \cup { a \in cut : a.status \in {200, 401, 404} }
          ELSE { Transport("timeout"), Transport("error") }
               \cup { Response(s, b) : s \in Statuses, b \in bodies } \cup cut

\* A redirect stays on the origin of the request; ten of them are an error.
withSameOriginRedirects(u, from) == u.origin = from.origin

\* The origins a request may visit, redirects included.
VisitedByProbe ==
  {Server.origin} \cup { u.origin : u \in { v \in Advertised : withSameOriginRedirects(v, Server) } }

Visited(c) ==
  { u.origin : u \in { v \in Advertised \cup {c.url} :
                         /\ withTrustedDiscoveryOrigins(c)
                         /\ v = c.url \/ withSameOriginRedirects(v, c.url)
                         /\ withTrustedDiscoveryOrigins([c EXCEPT !.url = v]) } }

Sends(origins) ==
  strayed' = (strayed \/ ~(cancelled \/ origins \subseteq {Server.origin} \cup TrustedOrigins))

(***************************************************************************)
(* The cycle: probe, fetch, auth, build, then settled or waiting.          *)
(***************************************************************************)
Segments == [scheme : {"", "basic", "bearer"}, value : Advertised \cup {NoURL}]
Challenges == { <<>> } \cup { << s >> : s \in Segments }
              \cup { << s, t >> : s \in Segments, t \in Segments }

\* The first resource_metadata parameter that belongs to a Bearer challenge.
bearerResourceMetadataValue(h) ==
  LET named(i) == { j \in 1..i : h[j].scheme # "" }
      hits == { i \in DOMAIN h : /\ named(i) # {}
                                 /\ h[Max(named(i))].scheme = "bearer"
                                 /\ h[i].value # NoURL }
  IN IF hits = {} THEN NoURL ELSE h[Min(hits)].value

\* A challenge URL must be absolute.
parseResourceMetadataFromWWWAuthenticate(h) ==
  LET v == bearerResourceMetadataValue(h)
  IN IF v.origin = "" THEN NoURL ELSE v

ChallengeURLs == { parseResourceMetadataFromWWWAuthenticate(h) : h \in Challenges }

StartPass(cs, mode) ==
  /\ candidates' = cs
  /\ at' = 1
  /\ backoff' = mode
  /\ try' = 0
  /\ attempts' = [ i \in DOMAIN cs |-> IF mode THEN attempts[i] ELSE "untried" ]
  /\ failures' = NoFailures
  /\ failureType' = "timeout_only"
  /\ lastErr' = "other"
  /\ seen' = {}

\* A pass that is over leaves its verdict only.
ClearPass ==
  /\ candidates' = <<>> /\ at' = 0 /\ backoff' = FALSE /\ try' = 0
  /\ attempts' = <<>> /\ failures' = NoFailures /\ lastErr' = "other" /\ seen' = {}

Init ==
  /\ phase = "probe" /\ method = "POST" /\ probeURL = NoURL
  /\ candidates = <<>> /\ at = 0 /\ backoff = FALSE /\ try = 0
  /\ attempts = <<>> /\ failures = NoFailures /\ failureType = "timeout_only"
  /\ lastErr = "other" /\ seen = {}
  /\ source = NoURL /\ issuer = NoURL /\ meta = NoURL
  /\ result = "pending" /\ bundle = {}
  /\ cancelled = FALSE /\ recovered = FALSE /\ strayed = FALSE

\* POST, then GET; the first usable challenge wins, no challenge is no error.
probeWWWAuthenticateResourceMetadata ==
  /\ phase = "probe"
  /\ Sends(VisitedByProbe)
  /\ \E u \in (IF cancelled THEN {NoURL} ELSE ChallengeURLs) :
          IF u = NoURL /\ method = "POST"
          THEN method' = "GET" /\ UNCHANGED << phase, probeURL, pass >>
          ELSE /\ phase' = "fetch"
               /\ probeURL' = u
               /\ StartPass(ResourceCandidates[u], FALSE)
               /\ UNCHANGED method
  /\ UNCHANGED << document, result, bundle, cancelled, recovered >>

\* What a pass saw, told apart as an operator would: worth another try or not.
ClassOf(a) ==
  IF a.kind = "timeout" \/ a.body = "read_timeout" THEN "transient"
  ELSE IF a.kind = "error" THEN "permanent"
  ELSE IF a.status = 404 THEN "missing"
  ELSE IF a.status \in {429, 503} THEN "transient"
  ELSE IF a.status = 200 /\ a.body \in {"invalid", "empty", "read_error"} THEN "transient"
  ELSE "permanent"

\* The attempts list and what was seen are kept for the resource metadata.
Attempted(a) ==
  IF phase = "auth" THEN attempts
  ELSE [attempts EXCEPT ![at] = IF a.status = 404 THEN "404" ELSE "other"]

Saw(a) == IF phase = "auth" THEN seen ELSE seen \cup {ClassOf(a)}

\* doWithRetryForTimeout: the backoff pass repeats a request that timed out.
RetriesRequest(a) == backoff /\ a.kind = "timeout" /\ try + 1 < RetryCount

RetryRequest ==
  /\ try' = try + 1
  /\ UNCHANGED << phase, candidates, at, backoff, attempts, failures,
                  failureType, lastErr, seen >>

\* A candidate failed with failures f: the next one, the second pass, or `end`.
CandidateFails(f, t, a, goesOn, end) ==
  LET verdict == classify(f, t)
      err == IF a.kind = "error" /\ cancelled THEN "canceled" ELSE "other"
  IN IF goesOn /\ at < Len(candidates)
     THEN /\ at' = at + 1 /\ try' = 0
          /\ attempts' = Attempted(a)
          /\ failures' = f /\ failureType' = t /\ lastErr' = err
          /\ seen' = Saw(a)
          /\ UNCHANGED << phase, candidates, backoff >>
     ELSE IF verdict = "timeout_only" /\ ~backoff
     THEN StartPass(candidates, TRUE) /\ UNCHANGED phase
     ELSE /\ phase' = end /\ at' = 0 /\ try' = 0
          /\ attempts' = Attempted(a)
          /\ failures' = f /\ failureType' = verdict /\ lastErr' = err
          /\ seen' = Saw(a)
          /\ UNCHANGED << candidates, backoff >>

\* 404 and 5xx answers fall through to the next candidate.
fallbackEligible(a) == a.status = 404 \/ a.status >= 500

\* runOAuthMetadataDiscoveryPass, one candidate.  A valid document ends the
\* pass whatever its status, unless the status is one to fall through on.
runOAuthMetadataDiscoveryPass ==
  /\ phase = "fetch"
  /\ \E a \in Answers(ResourceBodies, {"valid"}) :
       LET more == at < Len(candidates)
           fell == fallbackEligible(a) /\ more
           lost == a.body \in {"read_error", "read_timeout"}
           f == record(failures, a.status, a.kind = "timeout" \/ a.body = "read_timeout",
                       IF a.kind # "response" \/ a.body = "big" THEN FALSE
                       ELSE lost \/ a.body = "empty" \/ ~fell)
           t == IF a.kind = "timeout" \/ a.body = "read_timeout" THEN failureType
                ELSE "non_timeout"
       IN IF RetriesRequest(a) THEN RetryRequest /\ UNCHANGED document
          ELSE IF a.kind = "response" /\ a.body = "valid" /\ ~fell
          THEN /\ issuer' \in Advertised \cup {NoURL}
               /\ source' = candidates[at].url
               /\ phase' = IF isRetryableDiscoveryResponseStatus(a.status)
                           THEN "waiting" ELSE "fetched"
               /\ ClearPass
               /\ UNCHANGED << failureType, meta >>
          ELSE /\ CandidateFails(f, IF lost \/ a.kind # "response" \/ fell THEN t ELSE "not_applicable",
                                 a, a.kind # "response" \/ fell, "failed")
               /\ UNCHANGED document
  /\ Sends(Visited(candidates[at]))
  /\ UNCHANGED << method, probeURL, result, bundle, cancelled, recovered >>

\* IsOptionalDiscoveryFailure: every candidate was tried and answered 404.
IsOptionalDiscoveryFailure ==
  /\ probeURL = NoURL
  /\ \A i \in DOMAIN attempts : attempts[i] = "404"

\* DiscoveryState.Set: the first result stays.
Set(r) == result' = IF result = "pending" THEN r ELSE result

FetchFails ==
  /\ phase = "failed"
  /\ phase' = CASE cancelled /\ lastErr = "canceled" -> "stopped"
                [] transient(withDiscoveryFailureType(failureType)) -> "waiting"
                [] OTHER -> "settled"
  /\ IF phase' # "settled" THEN UNCHANGED result
     ELSE Set(IF IsOptionalDiscoveryFailure THEN "not_advertised" ELSE "failed")
  /\ UNCHANGED << method, probeURL, pass, document, bundle, cancelled, recovered, strayed >>

\* Only the first authorization server is enriched; one that is no URL is not.
FetchAuthServerMetadataWithResult ==
  /\ phase = "fetched"
  /\ IF issuer = NoURL
     THEN phase' = "build" /\ failureType' = "not_applicable" /\ ClearPass
     ELSE phase' = "auth" /\ StartPass(AuthServerCandidates[issuer], FALSE)
  /\ meta' = NoURL
  /\ UNCHANGED << method, probeURL, source, issuer, result, bundle,
                  cancelled, recovered, strayed >>

\* One candidate: a matching issuer wins at once, the first mismatched one is
\* kept as the fallback should none match.
runFetchAuthServerMetadataPass ==
  /\ phase = "auth"
  /\ \E a \in Answers(AuthBodies, {"match", "mismatch"}) :
       LET ok == a.kind = "response" /\ a.status = 200 /\ a.body \in {"match", "mismatch"}
           timedOut == a.kind = "timeout" \/ a.body = "read_timeout"
           kept == IF ok /\ meta = NoURL THEN candidates[at].url ELSE meta
       IN IF RetriesRequest(a) THEN RetryRequest /\ UNCHANGED meta
          ELSE IF (ok /\ a.body = "match") \/ (kept # NoURL /\ at = Len(candidates))
          THEN /\ phase' = "build"
               /\ meta' = IF ok /\ a.body = "match" THEN candidates[at].url ELSE kept
               /\ failureType' = "not_applicable"
               /\ ClearPass
          ELSE IF ok
          THEN /\ meta' = kept /\ at' = at + 1 /\ try' = 0
               /\ UNCHANGED << phase, candidates, backoff, attempts, failures,
                               failureType, lastErr, seen >>
          ELSE /\ CandidateFails(record(failures, a.status, timedOut, TRUE),
                                 IF timedOut THEN failureType ELSE "non_timeout",
                                 a, TRUE, "build")
               /\ meta' = kept
  /\ Sends(Visited(candidates[at]))
  /\ UNCHANGED << method, probeURL, source, issuer, result, bundle, cancelled, recovered >>

(***************************************************************************)
(* The host-registration bundle (hostbundle.go).                           *)
(***************************************************************************)
sameURLOrigin(u, v) == u.origin # "" /\ u.origin = v.origin

\* apply: the Unix socket carries what is on the server's own origin.
apply(u) == UnixSocket /\ sameURLOrigin(u, Server)

applyAuthServerMetadata(u, iss) ==
  /\ UnixSocket /\ sameURLOrigin(u, Server) /\ sameURLOrigin(u, iss)
  /\ sameOrChildURLPath(u, iss) \/ isAuthServerMetadataURLFor(u, iss)

Record(role, u, socket, private) ==
  [role |-> role, url |-> u, socket |-> socket, private |-> private]

\* DisallowPrivateHostRegistration is the negation of `private`.
PRMDRecord(role, u) == Record(role, u, apply(u), sameURLOrigin(u, Server))

appendAuthServerMetadataRecord(role, u) ==
  Record(role, u, applyAuthServerMetadata(u, issuer),
         sameURLOrigin(issuer, Server) /\ sameURLOrigin(u, issuer))

\* One URL stands for those the metadata names: its issuer and its endpoints.
buildAuthServerMetadataURLRecords(endpoint) ==
  IF meta = NoURL THEN {}
  ELSE { appendAuthServerMetadataRecord("metadata", meta),
         appendAuthServerMetadataRecord("endpoint", endpoint) }

\* What does not parse as an absolute http(s) URL is left out.
filterURLRecords(records) == { r \in records : r.url.origin # "" }

buildURLBundle(resource, endpoint) ==
  filterURLRecords({ PRMDRecord("resource", resource), PRMDRecord("auth_server", issuer),
                     PRMDRecord("source", source) }
                   \cup buildAuthServerMetadataURLRecords(endpoint))

BuildBundle ==
  /\ phase = "build"
  /\ IF transient(failureType)
     THEN phase' = "waiting" /\ UNCHANGED << result, bundle >>
     ELSE \E r \in Advertised \cup {NoURL}, e \in Advertised :
            /\ bundle' = buildURLBundle(r, e)
            /\ Set(IF bundle' = {} THEN "failed" ELSE "complete")
            /\ phase' = "settled"
  /\ UNCHANGED << method, probeURL, pass, document, cancelled, recovered, strayed >>

\* waitForOAuthDiscoveryRetry, then the whole cycle from the probe.
waitForOAuthDiscoveryRetry ==
  /\ phase = "waiting"
  /\ \/ cancelled /\ phase' = "stopped" /\ UNCHANGED method
     \/ phase' = "probe" /\ method' = "POST"
  /\ probeURL' = NoURL
  /\ ClearPass /\ failureType' = "timeout_only"
  /\ source' = NoURL /\ issuer' = NoURL /\ meta' = NoURL
  /\ UNCHANGED << result, bundle, cancelled, recovered, strayed >>

Cancel ==
  /\ ~cancelled /\ cancelled' = TRUE
  /\ UNCHANGED << phase, method, probeURL, pass, document, result, bundle, recovered, strayed >>

\* The environment: from now on the servers answer definitely.
Recover ==
  /\ ~recovered /\ recovered' = TRUE
  /\ UNCHANGED << phase, method, probeURL, pass, document, result, bundle, cancelled, strayed >>

Step ==
  \/ probeWWWAuthenticateResourceMetadata
  \/ runOAuthMetadataDiscoveryPass
  \/ FetchFails
  \/ FetchAuthServerMetadataWithResult
  \/ runFetchAuthServerMetadataPass
  \/ BuildBundle
  \/ waitForOAuthDiscoveryRetry

Next == Step \/ Cancel \/ Recover

Spec == Init /\ [][Next]_vars /\ WF_vars(Step)

(***************************************************************************)
(* Properties.                                                             *)
(***************************************************************************)
\* Metadata requests reach only the configured server and the origins the
\* operator trusts, whatever challenges, documents and redirects name.
OnlyTrustedOrigins == ~strayed

\* A cycle that failed only for reasons that may pass (timeouts, 429, 5xx, a
\* damaged body, next to absent fallback URLs) is tried again; it never settles
\* readiness as a failure.
TransientIsRetried ==
  result = "failed" => "permanent" \in seen \/ seen = {"missing"}

\* The Unix socket is used exactly for the server's origin: for nothing else,
\* and for every metadata URL derived from an issuer on it.
SocketFollowsServer ==
  \A r \in bundle :
    /\ r.socket \/ r.private => r.url.origin = Server.origin
    /\ UnixSocket /\ r.role # "endpoint" /\ r.url.origin = Server.origin => r.socket

=============================================================================
