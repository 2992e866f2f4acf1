---------------------------- MODULE HarpoonCalls ----------------------------
(***************************************************************************)
(* The call_target tool of the Harpoon server (pkg/runtimeharpoon/         *)
(* server.go, transform.go, request_id.go) and the receipts of the full    *)
(* client (pkg/harpoon).  Calls run concurrently with one another and with *)
(* registrations.  The upstream server is external: it answers a request,  *)
(* redirects it or fails.                                                  *)
(***************************************************************************)
EXTENDS HarpoonRegistry

CONSTANTS Calls,          \* calls of call_target
          Arguments,      \* argument objects the callers send
          Urls,           \* URLs that redirects name
          Links,          \* [key, url] members of answered JSON bodies
          MaxRedirects,   \* cfg.MaxRedirects
          CallBufferSize  \* callBufferSize

ASSUME CallsAssumption == MaxRedirects \in Nat

VARIABLES
  call,          \* the state of each call
  unixBySocket,  \* sockets with a cached transport
  entries, next, count,  \* CallBuffer
  recorded       \* every receipt so far (only for the properties)

bufferVars == <<entries, next, count, recorded>>
vars == <<registryVars, cacheVars, waiters, call, unixBySocket, bufferVars>>

-----------------------------------------------------------------------------
NoURL == [scheme |-> "", host |-> "", path |-> [name |-> "", slashes |-> 0], query |-> ""]

NoReceipt == [call |-> "none", label |-> "none", url |-> NoURL, outcome |-> "none"]

Idle == [at |-> "idle", args |-> [label |-> "none"], url |-> NoURL, max |-> 0, origin |-> << >>,
         sent |-> << >>, outcome |-> "none", told |-> NoExplanation,
         truth |-> NoExplanation, link |-> [key |-> "", url |-> NoURL], rewritten |-> "none"]

isTemplateCall(args) ==
  \/ args.label \in labels /\ Lookup(args.label).template
  \/ args.parameters

requestOrigin(u) == <<u.scheme, u.host>>

(* Without following no redirect counts; a larger wish is an error. *)
normalizeRedirects(args) ==
  IF ~args.follow THEN [ok |-> TRUE, max |-> 0]
  ELSE IF ~args.limits THEN [ok |-> TRUE, max |-> MaxRedirects]
  ELSE [ok |-> args.max \in 0..MaxRedirects, max |-> args.max]

Finished(c, outcome) == [call[c] EXCEPT !.at = "done", !.outcome = outcome]

-----------------------------------------------------------------------------
(* RecordCall overwrites the oldest entry of the ring. *)
RecordCall(entry) ==
  /\ entries' = [entries EXCEPT ![next] = entry]
  /\ next' = (next + 1) % CallBufferSize
  /\ count' = IF count < CallBufferSize THEN count + 1 ELSE count
  /\ recorded' = Append(recorded, entry)

Receipt(c, url, outcome) ==
  [call |-> c, label |-> call[c].args.label, url |-> url, outcome |-> outcome]

(* Snapshot walks the ring backwards from the newest entry. *)
Snapshot(limit, label) ==
  LET wanted == IF limit <= 0 \/ limit > CallBufferSize THEN CallBufferSize ELSE limit
      ring == [i \in 1..count |-> entries[(next - i + CallBufferSize) % CallBufferSize]]
      matching == SelectSeq(ring, LAMBDA e : label = "" \/ e.label = label)
  IN SubSeq(matching, 1, Lesser(Lesser(wanted, count), Len(matching)))

-----------------------------------------------------------------------------
(* callRawTargetHandler: the exact schema is only applied to exact calls. *)
CallRaw(c, args) ==
  /\ call[c].at = "idle"
  /\ call' = [call EXCEPT ![c] = [Idle EXCEPT !.args = args,
                !.at = IF isTemplateCall(args) \/ args.schema THEN "unified" ELSE "done",
                !.outcome = IF isTemplateCall(args) \/ args.schema THEN "none" ELSE "invalid"]]
  /\ UNCHANGED <<unixBySocket, bufferVars>>

(* callUnifiedTargetHandler routes on a second look at the registry. *)
CallUnified(c) ==
  /\ call[c].at = "unified"
  /\ call' = [call EXCEPT ![c].at = IF isTemplateCall(call[c].args) THEN "template" ELSE "exact"]
  /\ UNCHANGED <<unixBySocket, bufferVars>>

(* callTemplateHandler: one request past the registry, and no receipt. *)
CallTemplate(c) ==
  /\ call[c].at = "template"
  /\ \E outcome \in {"ok", "invalid", "request failed"} :
       /\ outcome # "invalid" => call[c].args.label \in labels /\ Lookup(call[c].args.label).template
       /\ call' = [call EXCEPT ![c] = Finished(c, outcome)]
  /\ UNCHANGED <<unixBySocket, bufferVars>>

(* callTarget up to the request. *)
CallTarget(c) ==
  LET args == call[c].args
      redirects == normalizeRedirects(args)
      url == Lookup(args.label).url
  IN /\ call[c].at = "exact"
     /\ IF Resolve(args.label) /\ args.valid /\ redirects.ok
          THEN call' = [call EXCEPT ![c].at = "send", ![c].url = url, ![c].max = redirects.max,
                          ![c].origin = IF args.requestID THEN requestOrigin(url) ELSE << >>]
          ELSE call' = [call EXCEPT ![c] = Finished(c, "invalid")]
     /\ UNCHANGED <<unixBySocket, bufferVars>>

(* The forwarded request ID stays with the origin of the first request. *)
applyAutoRequestID(c) == call[c].origin # << >> /\ requestOrigin(call[c].url) = call[c].origin

(* targetRoundTripper: the URL is looked up again for its transport.  Some *)
(* target always has it, because none is ever removed.                     *)
RoundTrip(c) ==
  /\ call[c].at = "send"
  /\ \E t \in TargetForURL(call[c].url) :
       /\ call' = [call EXCEPT ![c].at = "answer",
             ![c].sent = Append(@, [url |-> call[c].url, socket |-> t.socket,
                                    id |-> applyAutoRequestID(c)])]
       /\ unixBySocket' = unixBySocket \cup ({t.socket} \ {"none"})
  /\ UNCHANGED bufferVars

RequestFails(c) ==
  /\ call[c].at = "answer"
  /\ call' = [call EXCEPT ![c] = Finished(c, "request failed")]
  /\ RecordCall(Receipt(c, call[c].sent[1].url, "request failed"))
  /\ UNCHANGED unixBySocket

tooManyRedirects(c) == Len(call[c].sent) > call[c].max

Redirected(c, u) ==
  /\ call[c].at = "answer" /\ call[c].args.follow
  /\ CASE tooManyRedirects(c) ->
            /\ call' = [call EXCEPT ![c] = Finished(c, "redirect limit exceeded")]
            /\ RecordCall(Receipt(c, call[c].sent[1].url, "redirect limit exceeded"))
       [] ~tooManyRedirects(c) /\ AllowsURL(u) ->
            /\ call' = [call EXCEPT ![c].at = "send", ![c].url = u]
            /\ UNCHANGED bufferVars
       [] OTHER ->
            /\ call' = [call EXCEPT ![c].at = "explain", ![c].url = u]
            /\ UNCHANGED bufferVars
  /\ UNCHANGED unixBySocket

BlockedEarly(u) == u.scheme = "" \/ hasTraversal(u)

(* ExplainBlockedRedirect up to the unlock. *)
ExplainBlockedRedirect(c) ==
  LET u == call[c].url
      read == IF BlockedEarly(u)
                THEN [result |-> [kind |-> "not_allowlisted_other", expected |-> "none"],
                      store |-> FALSE]
                ELSE explainRead(u)
      truth == IF BlockedEarly(u) THEN read.result ELSE currentExplanation(u)
  IN /\ call[c].at = "explain"
     /\ call' = [call EXCEPT ![c].at = IF read.store THEN "store" ELSE "blocked",
                             ![c].told = read.result, ![c].truth = truth]
     /\ UNCHANGED <<unixBySocket, bufferVars, cacheVars>>

StoreExplanation(c) ==
  /\ call[c].at = "store"
  /\ storeRedirectExplanation(call[c].url, call[c].told)
  /\ call' = [call EXCEPT ![c].at = "blocked"]
  /\ UNCHANGED <<unixBySocket, bufferVars>>

(* newRedirectBlockedError and the failure path of callTarget. *)
Blocked(c) ==
  /\ call[c].at = "blocked"
  /\ call' = [call EXCEPT ![c] = Finished(c, "redirect blocked")]
  /\ RecordCall(Receipt(c, call[c].sent[1].url, "redirect blocked"))
  /\ UNCHANGED unixBySocket

-----------------------------------------------------------------------------
(* The tag a JSON member prefers among targets with the same URL. *)
preferredOAuthTagByJSONKey ==
  [authorization_servers |-> "authorization-server",
   introspection_endpoint |-> "introspection-endpoint",
   issuer |-> "issuer", jwks_uri |-> "jwks-uri",
   registration_endpoint |-> "registration-endpoint",
   revocation_endpoint |-> "revocation-endpoint",
   token_endpoint |-> "token-endpoint"]

(* rewriteURLStringWithHint: the label a URL of the body becomes. *)
rewriteURLString(link) ==
  LET candidates == SelectSeq(ordered, LAMBDA t : ~t.template /\ t.url = link.url)
      preferred == SelectSeq(candidates, LAMBDA t :
                     /\ link.key \in DOMAIN preferredOAuthTagByJSONKey
                     /\ preferredOAuthTagByJSONKey[link.key] \in t.tags)
      isResource == link.key = "resource"
                      /\ \E t \in Range(candidates) :
                           {"protected-resource-metadata", "resource"} \subseteq t.tags
  IN CASE candidates = << >> \/ isResource -> "kept"
       [] candidates # << >> /\ ~isResource /\ preferred # << >> -> Head(preferred).label
       [] OTHER -> Head(candidates).label

(* An answer whose body fits, is too large, or cannot be read. *)
Answered(c, link) ==
  /\ call[c].at = "answer"
  /\ \E outcome \in {"ok", "too large", "read failed"} :
       /\ call' = [call EXCEPT ![c] =
             [Finished(c, outcome) EXCEPT !.link = IF outcome = "ok" THEN link ELSE @,
                !.rewritten = IF outcome = "ok" THEN rewriteURLString(link) ELSE @]]
       /\ RecordCall(Receipt(c, call[c].url, outcome))
  /\ UNCHANGED unixBySocket

-----------------------------------------------------------------------------
Init ==
  /\ RegistryInit
  /\ call = [c \in Calls |-> Idle]
  /\ unixBySocket = {}
  /\ entries = [i \in 0..CallBufferSize - 1 |-> NoReceipt] /\ next = 0 /\ count = 0
  /\ recorded = << >>

callUnchanged == UNCHANGED <<call, unixBySocket, bufferVars>>

Next ==
  \/ \E t \in Offered : RegisterTarget(t) /\ callUnchanged
  \/ \E w \in Waiters :
       /\ \/ \E t \in Offered : WaitStart(w, t.label)
          \/ WaitLook(w)
          \/ WaitWake(w)
          \/ WaitGiveUp(w)
       /\ callUnchanged /\ UNCHANGED <<registryVars, cacheVars>>
  \/ \E c \in Calls :
       /\ \/ \E args \in Arguments : CallRaw(c, args)
          \/ CallUnified(c)
          \/ CallTemplate(c)
          \/ CallTarget(c)
          \/ RoundTrip(c)
          \/ RequestFails(c)
          \/ \E u \in Urls : Redirected(c, u)
          \/ Blocked(c)
          \/ \E link \in Links : Answered(c, link)
          \/ ExplainBlockedRedirect(c)
       /\ UNCHANGED <<registryVars, cacheVars, waiters>>
  \/ \E c \in Calls : StoreExplanation(c) /\ UNCHANGED <<registryVars, waiters>>

(* Runnable goroutines run: a waiter that may return does. *)
Fairness == \A w \in Waiters : WF_vars((WaitLook(w) \/ WaitWake(w)) /\ callUnchanged
                                          /\ UNCHANGED <<registryVars, cacheVars>>)

Spec == Init /\ [][Next]_vars /\ Fairness

-----------------------------------------------------------------------------
(* Every request of an exact call goes to a registered URL, over the       *)
(* transport every registration of that URL names, whatever is registered  *)
(* later; a call sends at most one request more than the redirects it may  *)
(* follow; the forwarded request ID never reaches another origin.          *)
(* (transportForURL, redirectPolicy, hasDifferentTransportForURLLocked)    *)
OutboundIsAllowed ==
  \A c \in Calls : \A i \in 1..Len(call[c].sent) :
    LET s == call[c].sent[i]
    IN /\ {t.socket : t \in {r \in exactTargets : r.url = s.url}} = {s.socket}
       /\ AllowPlaintext \/ isHTTPS(s.url)
       /\ i <= call[c].max + 1
       /\ s.id => requestOrigin(s.url) = requestOrigin(call[c].sent[1].url)

(* The receipts the admin UI shows are the last ones recorded, newest      *)
(* first, for every limit and label; a template call, also one whose label *)
(* is registered while it is routed, leaves none.                          *)
(* (CallBuffer, and "Template values and credentials must never enter ...  *)
(* the optional full-client payload observers" of callTargetTemplate)      *)
ReceiptsAreRecent ==
  /\ \A limit \in 0..CallBufferSize + 1, label \in {t.label : t \in Offered} \cup {""} :
       LET kept == Lesser(CallBufferSize, Len(recorded))
           recent == [i \in 1..kept |-> recorded[Len(recorded) - i + 1]]
           matching == SelectSeq(recent, LAMBDA e : label = "" \/ e.label = label)
           n == IF limit = 0 THEN CallBufferSize ELSE limit
       IN Snapshot(limit, label) = SubSeq(matching, 1, Lesser(n, Len(matching)))
  /\ \A i \in 1..Len(recorded) :
       recorded[i].label \in labels => ~Lookup(recorded[i].label).template

(* The label an answer was given in place of a URL leads to that URL, over *)
(* the transport that a redirect to the URL would take, whatever has been  *)
(* registered since the answer.  (callTarget's rewriter, Registry.Resolve, *)
(* hasDifferentTransportForURLLocked)                                      *)
RewritesResolve ==
  \A c \in Calls :
    call[c].outcome = "ok" /\ call[c].rewritten \notin {"none", "kept"} =>
      LET target == Lookup(call[c].rewritten)
      IN /\ Resolve(call[c].rewritten) /\ target.url = call[c].link.url
         /\ \A t \in TargetForURL(call[c].link.url) : t.socket = target.socket

(* The classification a blocked redirect is reported with is the one the   *)
(* registry gives when it is asked: registering a target invalidates every *)
(* older explanation.  (TestRegistryExplainBlockedRedirectCacheInvalidatesOnRegister) *)
ExplanationIsCurrent == \A c \in Calls : call[c].told = call[c].truth
=============================================================================
