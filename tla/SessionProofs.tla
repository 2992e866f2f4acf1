--------------------------- MODULE SessionProofs ---------------------------
(***************************************************************************)
(* Proofs about the sessions in which a client's handlers use another      *)
(* server: where the calls of Harpoon go (HarpoonRegistry, HarpoonCalls),  *)
(* whose request ID its handlers run with (HarpoonSessions), and what the  *)
(* admin UI is told of the Codex app-server's logins, threads and events   *)
(* (AppServerSession), for any targets, calls, redirects, connections,     *)
(* commands, handlers and event streams.                                   *)
(***************************************************************************)
EXTENDS HarpoonCalls, HarpoonSessions, AppServerSession, TLAPS

-----------------------------------------------------------------------------
(* HarpoonCalls.                                                           *)

(* What a registered target has been checked for, and what the check       *)
(* against the others leaves: one transport for each URL.                  *)
Targets ==
  /\ ordered \in Seq(Offered)
  /\ \A t \in exactTargets : (AllowPlaintext \/ isHTTPS(t.url)) /\ ~hasTraversal(t.url)
  /\ \A r, t \in exactTargets : r.url = t.url => r.socket = t.socket

Requests == [url : {t.url : t \in Offered}, socket : {t.socket : t \in Offered}, id : BOOLEAN]

(* The requests that may have been sent by a call whose request ID belongs *)
(* to origin.  There are never fewer of them.                              *)
Allowed(origin) ==
  {s \in Requests : /\ AllowPlaintext \/ isHTTPS(s.url)
                    /\ \E t \in exactTargets : t.url = s.url /\ t.socket = s.socket
                    /\ s.id => requestOrigin(s.url) = origin}

IsCall(k) ==
  k = [at |-> k.at, args |-> k.args, url |-> k.url, max |-> k.max, origin |-> k.origin,
       sent |-> k.sent, outcome |-> k.outcome, told |-> k.told, truth |-> k.truth,
       link |-> k.link, rewritten |-> k.rewritten]

(* What a call has sent, and what it may send next. *)
CallOK(k) ==
  /\ IsCall(k)
  /\ k.sent \in Seq(Allowed(k.origin))
  /\ k.max \in Nat /\ Len(k.sent) <= k.max + 1
  /\ k.at \in {"idle", "unified", "exact"} => k.sent = << >>
  /\ k.at = "answer" => k.sent # << >>
  /\ k.sent # << >> => k.origin \in {<< >>, requestOrigin(k.sent[1].url)}
  /\ k.at = "send" => AllowsURL(k.url) /\ Len(k.sent) <= k.max
  /\ k.at = "send" /\ k.sent = << >> => k.origin \in {<< >>, requestOrigin(k.url)}

(* The inductive invariant of the calls. *)
CallsInv ==
  /\ Targets
  /\ call = [c \in Calls |-> call[c]]
  /\ \A c \in Calls : CallOK(call[c])

(* A registration adds one target and takes none away. *)
LEMMA Registers ==
  ASSUME ordered \in Seq(Offered), NEW t \in Offered, ordered' = Append(ordered, t)
  PROVE  registered' = registered \cup {t} /\ ordered' \in Seq(Offered)
<1>1. ordered' \in Seq(Offered) /\ DOMAIN ordered' = 1..(Len(ordered) + 1)
      /\ DOMAIN ordered = 1..Len(ordered)
  OBVIOUS
<1>2. \A i \in 1..Len(ordered) : ordered'[i] = ordered[i]
  OBVIOUS
<1>3. ordered'[Len(ordered) + 1] = t
  OBVIOUS
<1>4. Len(ordered) \in Nat
  OBVIOUS
<1> QED BY <1>1, <1>2, <1>3, <1>4 DEF registered, Range

(* With the registry as it was or larger, a call stays as good. *)
LEMMA CallStays ==
  ASSUME exactTargets \subseteq exactTargets', NEW k, CallOK(k)
  PROVE  CallOK(k)'
<1>1. Allowed(k.origin) \subseteq Allowed(k.origin)'
  BY DEF Allowed, Requests
<1>2. k.sent \in Seq(Allowed(k.origin)')
  BY <1>1 DEF CallOK
<1>3. AllowsURL(k.url) => AllowsURL(k.url)'
  BY DEF AllowsURL, targetURLKeys
<1> QED BY <1>2, <1>3 DEF CallOK, IsCall

LEMMA RegisterStep ==
  ASSUME CallsInv, NEW t \in Offered, RegisterTarget(t), callUnchanged
  PROVE  CallsInv'
<1>1. registered' = registered \cup {t} /\ ordered' \in Seq(Offered)
  BY Registers DEF CallsInv, Targets, RegisterTarget
<1>2. exactTargets \subseteq exactTargets'
  BY <1>1 DEF exactTargets
<1>3. \A r \in exactTargets' : r \in exactTargets \/ (r = t /\ ~t.template)
  BY <1>1 DEF exactTargets
<1>4. ~t.template => wellFormed(t) /\ ~hasDifferentTransportForURL(t)
  BY DEF RegisterTarget, accepts
<1>5. Targets'
  BY <1>1, <1>3, <1>4 DEF CallsInv, Targets, wellFormed, hasDifferentTransportForURL
<1>6. call' = call
  BY DEF callUnchanged
<1>7. \A c \in Calls : CallOK(call[c])'
  BY <1>2, <1>6, CallStays DEF CallsInv
<1> QED BY <1>5, <1>6, <1>7 DEF CallsInv

(* A step of one call that leaves the registry as it is. *)
LEMMA OneCall ==
  ASSUME CallsInv, UNCHANGED ordered, NEW c \in Calls, NEW k,
         call' = [call EXCEPT ![c] = k], CallOK(k)
  PROVE  CallsInv'
<1>1. exactTargets' = exactTargets
  BY DEF exactTargets, registered
<1>2. Targets'
  BY <1>1 DEF CallsInv, Targets
<1>3. CallOK(k)' /\ \A d \in Calls : CallOK(call[d])'
  <2>1. CallOK(k)'
    BY <1>1, CallStays
  <2>2. ASSUME NEW d \in Calls PROVE CallOK(call[d])'
    <3>1. PICK j : j = call'[d]
      OBVIOUS
    <3>2. j = k \/ j = call[d]
      BY <3>1 DEF CallsInv
    <3>3. CallOK(j)
      BY <3>2 DEF CallsInv
    <3>4. CallOK(j)'
      BY <1>1, <3>3, CallStays
    <3> QED BY <3>1, <3>4
  <2> QED BY <2>1, <2>2
<1>4. call' = [d \in Calls |-> call'[d]]
  BY DEF CallsInv
<1> QED BY <1>2, <1>3, <1>4 DEF CallsInv

(* A step that neither sends nor starts the call again.  Only a redirect   *)
(* to an allowed URL brings it back to sending.                            *)
LEMMA Proceeds ==
  ASSUME CallsInv, UNCHANGED ordered, NEW c \in Calls, NEW k,
         call' = [call EXCEPT ![c] = k], IsCall(k),
         k.sent = call[c].sent, k.max = call[c].max, k.origin = call[c].origin,
         k.at \in {"idle", "unified", "exact"} => call[c].sent = << >>, k.at # "answer",
         k.at = "send" => AllowsURL(k.url) /\ Len(k.sent) <= k.max /\ k.sent # << >>
  PROVE  CallsInv'
<1>1. CallOK(k)
  BY DEF CallsInv, CallOK
<1> QED BY <1>1, OneCall, Zenon

LEMMA FinishedStays ==
  ASSUME CallsInv, UNCHANGED ordered, NEW c \in Calls, NEW outcome,
         call' = [call EXCEPT ![c] = Finished(c, outcome)]
  PROVE  CallsInv'
<1>1. PICK k : k = Finished(c, outcome)
  OBVIOUS
<1>2. IsCall(call[c])
  BY DEF CallsInv, CallOK
<1>3. /\ IsCall(k) /\ k.at = "done" /\ k.sent = call[c].sent
      /\ k.max = call[c].max /\ k.origin = call[c].origin
  BY <1>1, <1>2, Zenon DEF IsCall, Finished
<1> QED BY <1>1, <1>3, Proceeds, Zenon

LEMMA CallRawStep ==
  ASSUME CallsInv, UNCHANGED ordered, NEW c \in Calls, NEW args, CallRaw(c, args)
  PROVE  CallsInv'
<1>1. PICK k : k = [Idle EXCEPT !.args = args,
                !.at = IF isTemplateCall(args) \/ args.schema THEN "unified" ELSE "done",
                !.outcome = IF isTemplateCall(args) \/ args.schema THEN "none" ELSE "invalid"]
  OBVIOUS
<1>2. /\ IsCall(k) /\ k.at \in {"unified", "done"}
      /\ k.sent = << >> /\ k.max = 0 /\ k.origin = << >>
  BY <1>1, Zenon DEF IsCall, Idle
<1>3. CallOK(k)
  BY <1>2 DEF CallOK
<1>4. call' = [call EXCEPT ![c] = k]
  BY <1>1 DEF CallRaw
<1> QED BY <1>3, <1>4, OneCall, Zenon

LEMMA CallUnifiedStep ==
  ASSUME CallsInv, UNCHANGED ordered, NEW c \in Calls, CallUnified(c)
  PROVE  CallsInv'
<1>1. PICK k : k = [call[c] EXCEPT
                      !.at = IF isTemplateCall(call[c].args) THEN "template" ELSE "exact"]
  BY Zenon
<1>2. IsCall(call[c]) /\ call[c].sent = << >>
  BY DEF CallsInv, CallOK, CallUnified
<1>3. /\ IsCall(k) /\ k.at \in {"template", "exact"} /\ k.sent = call[c].sent
      /\ k.max = call[c].max /\ k.origin = call[c].origin
  BY <1>1, <1>2 DEF IsCall
<1>4. call' = [call EXCEPT ![c] = k]
  BY <1>1 DEF CallUnified
<1> QED BY <1>2, <1>3, <1>4, Proceeds, Zenon

(* The first request goes to the URL of a registered target. *)
LEMMA ResolvedIsAllowed ==
  ASSUME Targets, NEW label, Resolve(label)
  PROVE  AllowsURL(Lookup(label).url)
<1>1. Lookup(label) \in registered
  BY DEF Resolve, labels, Lookup
<1>2. Lookup(label) \in exactTargets
  BY <1>1 DEF Resolve, exactTargets
<1> QED BY <1>2 DEF Targets, AllowsURL, targetURLKeys

LEMMA CallTargetStep ==
  ASSUME CallsInv, UNCHANGED ordered, NEW c \in Calls, CallTarget(c)
  PROVE  CallsInv'
<1> DEFINE args == call[c].args
           redirects == normalizeRedirects(args)
           url == Lookup(args.label).url
           origin == IF args.requestID THEN requestOrigin(url) ELSE << >>
<1>1. IsCall(call[c]) /\ call[c].sent = << >>
  BY DEF CallsInv, CallOK, CallTarget
<1>2. CASE Resolve(args.label) /\ args.valid /\ redirects.ok
  <2>1. PICK k : k = [call[c] EXCEPT !.at = "send", !.url = url, !.max = redirects.max,
                                     !.origin = origin]
    OBVIOUS
  <2>2. call' = [call EXCEPT ![c] = k]
    <3>1. call' = [call EXCEPT ![c].at = "send", ![c].url = url, ![c].max = redirects.max,
                               ![c].origin = origin]
      BY <1>2, Zenon DEF CallTarget
    <3>2. PICK u, m, o : u = url /\ m = redirects.max /\ o = origin
      OBVIOUS
    <3>3. call' = [call EXCEPT ![c].at = "send", ![c].url = u, ![c].max = m, ![c].origin = o]
      BY <3>1, <3>2, Zenon
    <3>4. k = [call[c] EXCEPT !.at = "send", !.url = u, !.max = m, !.origin = o]
      BY <2>1, <3>2
    <3>5. call = [d \in Calls |-> call[d]]
      BY DEF CallsInv
    <3> HIDE DEF args, redirects, url, origin
    <3> QED BY <3>3, <3>4, <3>5, Zenon
  <2>3. /\ IsCall(k) /\ k.at = "send" /\ k.sent = << >> /\ k.url = url
        /\ k.max = redirects.max /\ k.origin = origin
    BY <1>1, <2>1, Zenon DEF IsCall
  <2>4. k.max \in Nat
    <3>1. CASE ~args.follow
      BY <2>3, <3>1 DEF normalizeRedirects
    <3>2. CASE args.follow /\ ~args.limits
      BY <2>3, <3>2, CallsAssumption, Zenon DEF normalizeRedirects
    <3>3. CASE args.follow /\ args.limits
      <4>1. PICK wish : wish = args.max
        OBVIOUS
      <4>2. wish \in 0..MaxRedirects
        BY <1>2, <3>3, <4>1, Zenon DEF normalizeRedirects
      <4>3. redirects.max = wish
        BY <3>3, <4>1 DEF normalizeRedirects
      <4> HIDE DEF redirects
      <4> QED BY <2>3, <4>2, <4>3, CallsAssumption
    <3> QED BY <3>1, <3>2, <3>3
  <2>5. AllowsURL(k.url)
    BY <1>2, <2>3, ResolvedIsAllowed DEF CallsInv
  <2>6. k.origin \in {<< >>, requestOrigin(k.url)}
    BY <2>3, Zenon
  <2>7. CallOK(k)
    BY <2>3, <2>4, <2>5, <2>6 DEF CallOK
  <2> QED BY <2>2, <2>7, OneCall, Zenon
<1>3. CASE ~(Resolve(args.label) /\ args.valid /\ redirects.ok)
  <2>1. call' = [call EXCEPT ![c] = Finished(c, "invalid")]
    BY <1>3, Zenon DEF CallTarget
  <2> QED BY <2>1, FinishedStays, Zenon
<1> QED BY <1>2, <1>3

LEMMA RoundTripStep ==
  ASSUME CallsInv, UNCHANGED ordered, NEW c \in Calls, RoundTrip(c)
  PROVE  CallsInv'
<1>1. PICK t \in TargetForURL(call[c].url) :
        call' = [call EXCEPT ![c].at = "answer",
             ![c].sent = Append(@, [url |-> call[c].url, socket |-> t.socket,
                                    id |-> applyAutoRequestID(c)])]
  BY Zenon DEF RoundTrip
<1>2. PICK s : s = [url |-> call[c].url, socket |-> t.socket, id |-> applyAutoRequestID(c)]
  BY Zenon
<1>3. PICK k : k = [call[c] EXCEPT !.at = "answer", !.sent = Append(@, s)]
  OBVIOUS
<1>4. call' = [call EXCEPT ![c] = k]
  BY <1>1, <1>2, <1>3, Zenon DEF CallsInv
<1>5. CallOK(call[c]) /\ call[c].at = "send"
  BY DEF CallsInv, RoundTrip
<1>6. /\ IsCall(k) /\ k.at = "answer" /\ k.max = call[c].max /\ k.origin = call[c].origin
      /\ k.sent = Append(call[c].sent, s)
  BY <1>3, <1>5, Zenon DEF IsCall, CallOK
<1>7. t \in exactTargets /\ t \in Offered /\ t.url = call[c].url
  <2>1. registered \subseteq Offered
    BY DEF CallsInv, Targets, registered, Range
  <2> QED BY <2>1 DEF TargetForURL, exactTargets
<1>8. s \in Allowed(call[c].origin)
  <2>1. s.url = call[c].url /\ s.socket = t.socket /\ s.id = applyAutoRequestID(c)
    BY <1>2
  <2>2. s \in Requests
    BY <1>2, <1>7, Zenon DEF Requests, applyAutoRequestID
  <2>3. s.id => requestOrigin(s.url) = call[c].origin
    BY <2>1, Zenon DEF applyAutoRequestID
  <2>4. AllowPlaintext \/ isHTTPS(s.url)
    BY <1>7, <2>1 DEF CallsInv, Targets
  <2> QED BY <1>7, <2>1, <2>2, <2>3, <2>4 DEF Allowed
<1>9. k.sent \in Seq(Allowed(k.origin)) /\ k.max \in Nat /\ Len(k.sent) <= k.max + 1
      /\ k.sent # << >>
  BY <1>5, <1>6, <1>8 DEF CallOK
<1>10. k.origin \in {<< >>, requestOrigin(k.sent[1].url)}
  <2>1. CASE call[c].sent = << >>
    <3>1. k.sent[1] = s /\ s.url = call[c].url
      BY <1>2, <1>6, <2>1
    <3> QED BY <1>5, <1>6, <2>1, <3>1, Zenon DEF CallOK
  <2>2. CASE call[c].sent # << >>
    <3>1. k.sent[1] = call[c].sent[1]
      BY <1>5, <1>6, <1>8, <2>2 DEF CallOK
    <3> QED BY <1>5, <1>6, <2>2, <3>1, Zenon DEF CallOK
  <2> QED BY <2>1, <2>2, Zenon
<1>11. CallOK(k)
  BY <1>6, <1>9, <1>10, Zenon DEF CallOK
<1> QED BY <1>4, <1>11, OneCall, Zenon

LEMMA RedirectedStep ==
  ASSUME CallsInv, UNCHANGED ordered, NEW c \in Calls, NEW u, Redirected(c, u)
  PROVE  CallsInv'
<1>1. CallOK(call[c]) /\ call[c].at = "answer"
  BY Zenon DEF CallsInv, Redirected
<1>2. CASE tooManyRedirects(c)
  <2>1. call' = [call EXCEPT ![c] = Finished(c, "redirect limit exceeded")]
    BY <1>2, Zenon DEF Redirected
  <2> QED BY <2>1, FinishedStays, Zenon
<1>3. CASE ~tooManyRedirects(c)
  <2>1. PICK k : k = [call[c] EXCEPT !.at = IF AllowsURL(u) THEN "send" ELSE "explain", !.url = u]
    OBVIOUS
  <2>2. call' = [call EXCEPT ![c].at = IF AllowsURL(u) THEN "send" ELSE "explain", ![c].url = u]
    BY <1>3 DEF Redirected
  <2>3. call' = [call EXCEPT ![c] = k]
    BY <2>1, <2>2, Zenon DEF CallsInv
  <2>4. /\ IsCall(k) /\ k.sent = call[c].sent /\ k.max = call[c].max
        /\ k.origin = call[c].origin /\ k.url = u
        /\ k.at \in {"send", "explain"} /\ (k.at = "send" => AllowsURL(u))
    BY <1>1, <2>1, Zenon DEF IsCall, CallOK
  <2>5. Len(k.sent) <= k.max /\ k.sent # << >>
    BY <1>1, <1>3, <2>4 DEF CallOK, tooManyRedirects
  <2> QED BY <2>3, <2>4, <2>5, Proceeds, Zenon
<1> QED BY <1>2, <1>3

LEMMA ExplainStep ==
  ASSUME CallsInv, UNCHANGED ordered, NEW c \in Calls, ExplainBlockedRedirect(c)
  PROVE  CallsInv'
<1> DEFINE u == call[c].url
           other == [kind |-> "not_allowlisted_other", expected |-> "none"]
           read == IF BlockedEarly(u) THEN [result |-> other, store |-> FALSE] ELSE explainRead(u)
           now == IF BlockedEarly(u) THEN read.result ELSE currentExplanation(u)
           step == IF read.store THEN "store" ELSE "blocked"
<1>1. PICK at, told, truth : at = step /\ told = read.result /\ truth = now
  BY Zenon
<1>2. at \in {"store", "blocked"}
  BY <1>1, Zenon
<1>3. call' = [call EXCEPT ![c].at = at, ![c].told = told, ![c].truth = truth]
  BY <1>1, Zenon DEF ExplainBlockedRedirect
<1> HIDE DEF step, now, read, other, u
<1>4. PICK k : k = [call[c] EXCEPT !.at = at, !.told = told, !.truth = truth]
  OBVIOUS
<1>5. call' = [call EXCEPT ![c] = k]
  BY <1>3, <1>4, Zenon DEF CallsInv
<1>6. IsCall(call[c])
  BY DEF CallsInv, CallOK
<1>7. /\ IsCall(k) /\ k.sent = call[c].sent /\ k.max = call[c].max
      /\ k.origin = call[c].origin /\ k.at \in {"store", "blocked"}
  BY <1>2, <1>4, <1>6, Zenon DEF IsCall
<1> QED BY <1>5, <1>7, Proceeds, Zenon

LEMMA StoreStep ==
  ASSUME CallsInv, UNCHANGED ordered, NEW c \in Calls, StoreExplanation(c)
  PROVE  CallsInv'
<1>1. PICK k : k = [call[c] EXCEPT !.at = "blocked"]
  BY Zenon
<1>2. call' = [call EXCEPT ![c] = k]
  <2>1. call' = [call EXCEPT ![c].at = "blocked"]
    BY DEF StoreExplanation
  <2> QED BY <1>1, <2>1 DEF CallsInv
<1>3. /\ IsCall(k) /\ k.sent = call[c].sent /\ k.max = call[c].max
      /\ k.origin = call[c].origin /\ k.at = "blocked"
  BY <1>1 DEF CallsInv, CallOK, IsCall
<1> QED BY <1>2, <1>3, Proceeds, Zenon

LEMMA AnsweredStep ==
  ASSUME CallsInv, UNCHANGED ordered, NEW c \in Calls, NEW link, Answered(c, link)
  PROVE  CallsInv'
<1>1. PICK outcome :
        call' = [call EXCEPT ![c] =
             [Finished(c, outcome) EXCEPT !.link = IF outcome = "ok" THEN link ELSE @,
                !.rewritten = IF outcome = "ok" THEN rewriteURLString(link) ELSE @]]
  BY Zenon DEF Answered
<1>2. PICK f : f = Finished(c, outcome)
  OBVIOUS
<1>3. PICK shown, rewritten :
        /\ shown = (IF outcome = "ok" THEN link ELSE f.link)
        /\ rewritten = (IF outcome = "ok" THEN rewriteURLString(link) ELSE f.rewritten)
  OBVIOUS
<1>4. PICK k : k = [f EXCEPT !.link = shown, !.rewritten = rewritten]
  OBVIOUS
<1>5. call' = [call EXCEPT ![c] = k]
  BY <1>1, <1>2, <1>3, <1>4
<1>6. /\ IsCall(f) /\ f.sent = call[c].sent /\ f.max = call[c].max
      /\ f.origin = call[c].origin /\ f.at = "done"
  <2>1. IsCall(call[c])
    BY Zenon DEF CallsInv, CallOK
  <2> QED BY <1>2, <2>1, Zenon DEF IsCall, Finished
<1>7. /\ IsCall(k) /\ k.sent = call[c].sent /\ k.max = call[c].max
      /\ k.origin = call[c].origin /\ k.at = "done"
  BY <1>4, <1>6, Zenon DEF IsCall
<1> QED BY <1>5, <1>7, Proceeds, Zenon

LEMMA CallStep ==
  ASSUME CallsInv, UNCHANGED ordered, NEW c \in Calls,
         \/ \E args \in Arguments : CallRaw(c, args)
         \/ CallUnified(c) \/ CallTemplate(c) \/ CallTarget(c) \/ RoundTrip(c)
         \/ RequestFails(c) \/ Blocked(c)
         \/ \E u \in Urls : Redirected(c, u)
         \/ \E link \in Links : Answered(c, link)
         \/ ExplainBlockedRedirect(c) \/ StoreExplanation(c)
  PROVE  CallsInv'
<1>1. CASE CallTemplate(c) \/ RequestFails(c) \/ Blocked(c)
  <2>1. PICK outcome : call' = [call EXCEPT ![c] = Finished(c, outcome)]
    BY <1>1, Zenon DEF CallTemplate, RequestFails, Blocked
  <2> QED BY <2>1, FinishedStays, Zenon
<1> QED BY <1>1, CallRawStep, CallUnifiedStep, CallTargetStep, RoundTripStep, RedirectedStep,
           AnsweredStep, ExplainStep, StoreStep, Zenon

(* The invariant of the calls holds in every reachable state. *)
LEMMA CallsInvariant == Spec => []CallsInv
<1>1. Init => CallsInv
  <2> SUFFICES ASSUME Init PROVE CallsInv
    OBVIOUS
  <2>1. exactTargets = {} /\ ordered \in Seq(Offered)
    BY DEF Init, RegistryInit, exactTargets, registered, Range
  <2>2. CallOK(Idle)
    BY DEF CallOK, IsCall, Idle
  <2> QED BY <2>1, <2>2 DEF CallsInv, Targets, Init
<1>2. CallsInv /\ [Next]_vars => CallsInv'
  <2> SUFFICES ASSUME CallsInv, [Next]_vars PROVE CallsInv'
    OBVIOUS
  <2>1. ASSUME NEW t \in Offered, RegisterTarget(t), callUnchanged PROVE CallsInv'
    BY <2>1, RegisterStep
  <2>2. ASSUME UNCHANGED <<ordered, call>> PROVE CallsInv'
    BY <2>2, ZenonT(30) DEF CallsInv, CallOK, IsCall, Targets, Allowed, AllowsURL, targetURLKeys,
                exactTargets, registered
  <2>3. ASSUME NEW w \in Waiters, callUnchanged, UNCHANGED <<registryVars, cacheVars>>
        PROVE CallsInv'
    BY <2>2, <2>3 DEF callUnchanged, registryVars
  <2>4. ASSUME UNCHANGED vars PROVE CallsInv'
    BY <2>2, <2>4 DEF vars, registryVars
  <2>5. UNCHANGED registryVars => UNCHANGED ordered
    BY DEF registryVars
  <2> QED BY <2>1, <2>3, <2>4, <2>5, CallStep, Zenon DEF Next
<1> QED BY <1>1, <1>2, PTL DEF Spec

(* However targets are registered while calls run, every request of an     *)
(* exact call goes to a registered URL over the one transport its          *)
(* registrations name, within the redirects the call may follow, and the   *)
(* forwarded request ID stays with the origin of the first request.        *)
(* (transportForURL, redirectPolicy, hasDifferentTransportForURLLocked)    *)
THEOREM OutboundIsAllowedThm == Spec => []OutboundIsAllowed
<1>1. CallsInv => OutboundIsAllowed
  <2> SUFFICES ASSUME CallsInv, NEW c \in Calls, NEW i \in 1..Len(call[c].sent),
                      NEW s, s = call[c].sent[i]
               PROVE  /\ {t.socket : t \in {r \in exactTargets : r.url = s.url}} = {s.socket}
                      /\ AllowPlaintext \/ isHTTPS(s.url)
                      /\ i <= call[c].max + 1
                      /\ s.id => requestOrigin(s.url) = requestOrigin(call[c].sent[1].url)
    BY Zenon DEF OutboundIsAllowed
  <2>1. CallOK(call[c])
    BY DEF CallsInv
  <2>2. /\ s \in Allowed(call[c].origin) /\ i <= call[c].max + 1 /\ call[c].sent # << >>
    BY <2>1 DEF CallOK
  <2>3. PICK t \in exactTargets : t.url = s.url /\ t.socket = s.socket
    BY <2>2, Zenon DEF Allowed
  <2>4. \A r \in exactTargets : r.url = s.url => r.socket = s.socket
    BY <2>3 DEF CallsInv, Targets
  <2>5. call[c].origin \in {<< >>, requestOrigin(call[c].sent[1].url)}
    BY <2>1, <2>2, Zenon DEF CallOK
  <2>6. s.id => requestOrigin(s.url) = requestOrigin(call[c].sent[1].url)
    <3>1. requestOrigin(s.url) # << >>
      BY DEF requestOrigin
    <3> QED BY <2>2, <2>5, <3>1, Zenon DEF Allowed
  <2>7. {t1.socket : t1 \in {r \in exactTargets : r.url = s.url}} = {s.socket}
    BY <2>3, <2>4, Zenon
  <2> QED BY <2>2, <2>6, <2>7, Zenon DEF Allowed
<1> QED BY <1>1, CallsInvariant, PTL

-----------------------------------------------------------------------------
(* HarpoonSessions.                                                        *)

HandlerRecords == [at : {"none", "running", "returned", "dropped"},
             id : Commands \cup {"none"}, conn : Conns \cup {"none"}]

SessionsType ==
  /\ conn \in [Conns -> {"none", "connecting", "open", "closed"}]
  /\ session \in [Conns -> {"none", "live", "gone"}]
  /\ requestIDs \in [Conns -> Commands \cup {"none"}]
  /\ slot \in Commands \cup {"none"}
  /\ command \in [Commands -> {"waiting", "ready", "written", "handling", "sent", "answered",
                           "abandoned"}]
  /\ handler \in [Commands -> HandlerRecords]

(* A call that no handler has read yet is the last command written to its  *)
(* session: its connection is open and its command holds the transport, or *)
(* nothing more can be written.  So the published ID is that of its command. *)
Unread(c) ==
  LET k == handler[c].conn
  IN handler[c].at = "none" /\ k \in Conns =>
       /\ conn[k] = "closed" \/ (conn[k] = "open" /\ slot = c /\ command[c] = "written")
       /\ session[k] = "live" => requestIDs[k] = forwardedID(c)

(* The inductive invariant of the sessions. *)
SessionsInv ==
  /\ SessionsType
  /\ \A j, k \in Conns : {conn[j], conn[k]} \subseteq {"connecting", "open"} => j = k
  /\ \A c \in Commands \ Notifications : Unread(c)
  /\ OwnRequestID

LEMMA SessionsInvariant == SessionsSpec => []SessionsInv
<1>1. SessionsInit => SessionsInv
  BY SessionsAssumption DEF SessionsInit, SessionsInv, SessionsType, HandlerRecords, Unread, OwnRequestID
<1>2. SessionsInv /\ [SessionsNext]_sessionsVars => SessionsInv'
  <2> SUFFICES ASSUME SessionsInv, [SessionsNext]_sessionsVars PROVE SessionsInv'
    OBVIOUS
  <2> USE DEF SessionsInv, SessionsType
  <2>1. CASE CancelRoot \/ stopCollect \/ UNCHANGED sessionsVars
    BY <2>1 DEF CancelRoot, stopCollect, sessionsVars, Unread, OwnRequestID
  <2>2. CASE stopClose
    <3>1. UNCHANGED <<session, requestIDs, slot, command, handler>>
      BY <2>2, Zenon DEF stopClose
    <3>2. CASE UNCHANGED conn
      BY <3>1, <3>2 DEF Unread, OwnRequestID
    <3>3. ASSUME NEW k, conn' = [conn EXCEPT ![k] = "closed"] PROVE SessionsInv'
      <4>1. CASE k \in Conns
        BY <3>1, <3>3, <4>1 DEF Unread, OwnRequestID
      <4>2. CASE k \notin Conns
        BY <3>2, <3>3, <4>2, Zenon
      <4> QED BY <4>1, <4>2, Zenon
    <3> QED BY <2>2, <3>2, <3>3, Zenon DEF stopClose, closing
  <2>3. ASSUME NEW k \in Conns, Connect(k) PROVE SessionsInv'
    BY <2>3 DEF Connect, Unread, OwnRequestID
  <2>4. ASSUME NEW k \in Conns, Register(k) PROVE SessionsInv'
    BY <2>4 DEF Register, register, Unread, OwnRequestID
  <2>5. ASSUME NEW k \in Conns, CloseLate(k) PROVE SessionsInv'
    BY <2>5 DEF CloseLate, closing, Unread, OwnRequestID
  <2>6. ASSUME NEW k \in Conns, SessionEnds(k) PROVE SessionsInv'
    BY <2>6 DEF SessionEnds, Unread, OwnRequestID
  <2>7. ASSUME NEW c \in Commands, Acquire(c) PROVE SessionsInv'
    BY <2>7, SessionsAssumption DEF Acquire, Unread, OwnRequestID
  <2>8. ASSUME NEW c \in Commands, WriteFails(c) PROVE SessionsInv'
    BY <2>8, ZenonT(30) DEF WriteFails, Unread, OwnRequestID
  <2>9. ASSUME NEW c \in Commands, Handle(c) PROVE SessionsInv'
    <3>1. PICK id, h : /\ id = requestIDs[handler[c].conn]
                       /\ h = [handler[c] EXCEPT !.at = "running", !.id = id]
      BY Zenon
    <3>2. handler' = [handler EXCEPT ![c] = h]
      <4>1. handler' = [handler EXCEPT ![c].at = "running", ![c].id = id]
        BY <2>9, <3>1 DEF Handle
      <4> QED BY <3>1, <4>1, Zenon
    <3>3. /\ h \in HandlerRecords /\ h.at = "running" /\ h.conn = handler[c].conn
          /\ c \notin Notifications => h.id = forwardedID(c)
      <4>1. /\ handler[c].at = "none" /\ handler[c].conn \in Conns
            /\ session[handler[c].conn] = "live"
        BY <2>9 DEF Handle
      <4>2. c \notin Notifications => id = forwardedID(c)
        BY <3>1, <4>1 DEF Unread
      <4>4. id \in Commands \cup {"none"}
        BY <3>1, <4>1
      <4>3. handler[c] \in HandlerRecords
        BY Zenon
      <4> QED BY <3>1, <4>2, <4>3, <4>4, Zenon DEF HandlerRecords
    <3>4. /\ command' = [command EXCEPT ![c] = IF @ = "written" THEN "handling" ELSE @]
          /\ UNCHANGED <<conn, session, requestIDs, slot>>
      BY <2>9 DEF Handle
    <3>5. SessionsType'
      BY <3>2, <3>3, <3>4, Zenon
    <3>6. OwnRequestID'
      BY <3>2, <3>3, Zenon DEF OwnRequestID
    <3>7. \A d \in Commands \ Notifications : Unread(d)'
      BY <3>2, <3>3, <3>4 DEF Unread
    <3> QED BY <3>4, <3>5, <3>6, <3>7
  <2>10. ASSUME NEW c \in Commands, NeverHandled(c) PROVE SessionsInv'
    BY <2>10 DEF NeverHandled, HandlerRecords, Unread, OwnRequestID
  <2>11. ASSUME NEW c \in Commands, HandlerReturns(c) PROVE SessionsInv'
    BY <2>11 DEF HandlerReturns, HandlerRecords, Unread, OwnRequestID
  <2>12. ASSUME NEW c \in Commands, NEW k \in Conns, Write(k, c) PROVE SessionsInv'
    BY <2>12 DEF Write, publish, forwardedID, HandlerRecords, Unread, OwnRequestID
  <2>13. ASSUME NEW c \in Commands, Release(c) PROVE SessionsInv'
    <3>1. /\ slot = c /\ c \in Notifications /\ slot' = "none"
          /\ command' = [command EXCEPT ![c] = "sent"]
          /\ UNCHANGED <<conn, session, requestIDs, handler>>
      BY <2>13, Zenon DEF Release
    <3>2. \A d \in Commands \ Notifications : Unread(d)'
      BY <3>1 DEF Unread
    <3> QED BY <3>1, <3>2 DEF OwnRequestID
  <2> QED BY <2>1, <2>2, <2>3, <2>4, <2>5, <2>6, <2>7, <2>8, <2>9, <2>10, <2>11, <2>12, <2>13,
             ZenonT(60) DEF SessionsNext
<1> QED BY <1>1, <1>2, PTL DEF SessionsSpec

(* However connections are closed, commands abandoned and notifications    *)
(* sent between them, the handler of a call runs with that call's request  *)
(* ID or, when it forwards none, without one.                              *)
(* (restartableInMemoryConnection.Write, withSessionCancellation)          *)
THEOREM OwnRequestIDThm == SessionsSpec => []OwnRequestID
<1>1. SessionsInv => OwnRequestID
  BY DEF SessionsInv
<1> QED BY <1>1, SessionsInvariant, PTL

-----------------------------------------------------------------------------
(* AppServerSession.                                                       *)

Named == Handlers \cup {"none"}
Kinds == {"result", "error", "login/completed", "thread/started", "turn/started", "turn/completed"}
Lines == [kind : Kinds, id : Named, thread : Named]
Methods == {"login", "cancel", "thread", "inject", "turn"}
Stages == Methods \cup {"begin", "done", "failed"}
Asks == [handler : Handlers, method : Methods, about : Named]

(* The app-server has had this login, and it is over, or it was shown when *)
(* a completion that names none was read.                                  *)
Ended(id) == id \in Handlers /\ logins[id] = "ended"
Over(id) == Ended(id) \/ id \in nameless

(* What the app-server writes is true when it is read: a completion names  *)
(* a login that has ended, an answer belongs to a handler that has asked,  *)
(* and a cancellation is granted once the login it names has ended.        *)
TrueLines ==
  {m \in Lines :
     /\ m.kind = "login/completed" => Ended(m.id) \/ m.id = "none"
     /\ m.kind # "login/completed" => m.id \in Handlers
     /\ m.kind \in {"result", "error"} => place[m.id] # "begin"
     /\ m.kind = "result" /\ place[m.id] = "cancel" => Ended(arg[m.id])}

(* A request that the app-server has not handled: of a handler that waits  *)
(* for it, or has given up; a login it asks for does not exist yet.        *)
TrueAsks ==
  {r \in Asks :
     /\ place[r.handler] # "begin"
     /\ r.method = "login" => r.about = "none" /\ logins[r.handler] = "none"
     /\ r.method = "cancel" => r.about \in Handlers
     /\ place[r.handler] = "cancel" => r.method = "cancel" /\ r.about = arg[r.handler]}

SessionTypes ==
  /\ op \in [Handlers -> {"login", "cancel", "thread", "turn"}]
  /\ place \in [Handlers -> Stages] /\ arg \in [Handlers -> Named]
  /\ answer \in [Handlers -> {"none", "result", "error"}]
  /\ logins \in [Named -> {"none", "pending", "ended"}]
  /\ login \in [id : Named, pending : BOOLEAN] /\ thread.id \in Named
  /\ asked \subseteq TrueAsks /\ out \in Seq(TrueLines)

(* What is known of the logins. *)
LoginsAreTrue ==
  /\ \A h \in Handlers : /\ place[h] = "begin" => logins[h] = "none"
                         /\ place[h] = "cancel" /\ answer[h] = "result" => Ended(arg[h])
  /\ login.id # "none" /\ ~login.pending => Over(login.id)

(* A stream's channel is closed only once it has left the subscribers. *)
StreamsAreTrue ==
  /\ ~panicked /\ subscribers \subseteq Streams
  /\ chan = [s \in Streams |-> chan[s]] /\ stream = [s \in Streams |-> stream[s]]
  /\ \A s \in Streams : /\ DOMAIN chan[s] = {"items", "closed"}
                        /\ s \in subscribers \/ stream[s] = "idle" => ~chan[s].closed

SessionInv == SessionTypes /\ LoginsAreTrue /\ StreamsAreTrue

LEMMA SeqOfMore ==
  ASSUME NEW S, NEW T, S \subseteq T, NEW s \in Seq(S)
  PROVE  s \in Seq(T)
OBVIOUS

LEMMA SessionStarts == SessionInit => SessionInv
<1> SUFFICES ASSUME SessionInit PROVE SessionInv
  OBVIOUS
<1>1. SessionTypes
  BY SessionAssumption DEF SessionInit, SessionTypes, Named, Stages, None, NoLogin
<1>2. LoginsAreTrue /\ StreamsAreTrue
  BY SessionAssumption, ZenonT(30) DEF SessionInit, LoginsAreTrue, StreamsAreTrue, None, NoLogin
<1> QED BY <1>1, <1>2 DEF SessionInv

(* A step that leaves the handlers, the logins and the lines alone. *)
LEMMA SessionQuiet ==
  ASSUME SessionInv, UNCHANGED <<op, place, arg, answer, logins, login, thread, nameless, asked, out>>
  PROVE  SessionTypes' /\ LoginsAreTrue'
BY DEF SessionInv, SessionTypes, LoginsAreTrue, TrueLines, TrueAsks, Ended, Over

(* What was true of the lines and of the requests stays true when handlers *)
(* go on, but for the request of a login that has begun.                   *)
LEMMA StillTrue ==
  ASSUME \A h \in Handlers :
           /\ place'[h] = "begin" => place[h] = "begin"
           /\ place'[h] = "cancel" /\ place[h] # "begin" => place[h] = "cancel" /\ arg'[h] = arg[h]
           /\ logins[h] = "ended" => logins'[h] = "ended"
  PROVE  /\ TrueLines \subseteq TrueLines'
         /\ \A r \in TrueAsks : r \in TrueAsks' \/ (r.method = "login" /\ logins'[r.handler] # "none")
BY ZenonT(30) DEF TrueLines, TrueAsks, Lines, Asks, Ended

(* A handler goes on: it asks the app-server for something, or it is done. *)
GoesOn(h, stage, about) ==
  /\ UNCHANGED <<op, logins, out, nameless>>
  /\ place' = [place EXCEPT ![h] = stage] /\ answer' = [answer EXCEPT ![h] = "none"]
  /\ \/ stage \in {"done", "failed"} /\ UNCHANGED <<arg, asked>>
     \/ /\ arg' = [arg EXCEPT ![h] = about]
        /\ asked' = asked \cup {[handler |-> h, method |-> stage, about |-> about]}
        /\ \/ place[h] = "begin" /\ stage = "login" /\ about = "none"
           \/ place[h] = "begin" /\ stage = "cancel" /\ about \in Handlers
           \/ stage \in {"thread", "inject", "turn"}
  /\ login' \in [id : Named, pending : BOOLEAN] /\ thread'.id \in Named
  /\ login'.id # "none" /\ ~login'.pending => Over(login'.id)

LEMMA HandlerGoesOn ==
  ASSUME SessionInv, NEW h \in Handlers, NEW stage, NEW about \in Named, GoesOn(h, stage, about)
  PROVE  SessionTypes' /\ LoginsAreTrue'
<1> USE DEF GoesOn, Stages, Methods
<1>0. stage \in Stages \ {"begin"}
  BY Zenon
<1>1. /\ TrueLines \subseteq TrueLines'
      /\ \A r \in TrueAsks : r \in TrueAsks' \/ (r.method = "login" /\ logins'[r.handler] # "none")
  <2>1. \A k \in Handlers :
           /\ place'[k] = "begin" => place[k] = "begin"
           /\ place'[k] = "cancel" /\ place[k] # "begin" => place[k] = "cancel" /\ arg'[k] = arg[k]
           /\ logins[k] = "ended" => logins'[k] = "ended"
    BY ZenonT(30) DEF SessionInv, SessionTypes
  <2> QED BY <2>1, StillTrue, Zenon
<1>2. TrueAsks \subseteq TrueAsks'
  BY <1>1, Zenon DEF TrueAsks
<1>3. asked' \subseteq TrueAsks'
  <2>1. CASE UNCHANGED asked
    BY <2>1, <1>2, Zenon DEF SessionInv, SessionTypes
  <2>2. CASE asked' # asked
    <3>1. [handler |-> h, method |-> stage, about |-> about] \in TrueAsks'
      BY <2>2, ZenonT(30) DEF TrueAsks, Asks, SessionInv, SessionTypes, LoginsAreTrue
    <3> QED BY <2>2, <1>2, <3>1 DEF SessionInv, SessionTypes
  <2> QED BY <2>1, <2>2, Zenon
<1>4. out' \in Seq(TrueLines')
  BY <1>1, SeqOfMore, Zenon DEF SessionInv, SessionTypes
<1>5. SessionTypes'
  <2>1. place' \in [Handlers -> Stages] /\ answer' \in [Handlers -> {"none", "result", "error"}]
    BY <1>0, Zenon DEF SessionInv, SessionTypes
  <2>2. arg' \in [Handlers -> Named]
    BY ZenonT(30) DEF SessionInv, SessionTypes
  <2> QED BY <1>3, <1>4, <2>1, <2>2, Zenon DEF SessionInv, SessionTypes
<1>6. LoginsAreTrue'
  <2>1. ASSUME NEW k \in Handlers
        PROVE  /\ place'[k] = "begin" => logins'[k] = "none"
               /\ place'[k] = "cancel" /\ answer'[k] = "result" => Ended(arg[k])'
    <3>1. CASE k = h
      BY <1>0, <3>1, Zenon DEF SessionInv, SessionTypes
    <3>2. CASE k # h
      <4>1. place'[k] = place[k] /\ answer'[k] = answer[k] /\ arg'[k] = arg[k] /\ logins' = logins
        BY <3>2, ZenonT(30) DEF SessionInv, SessionTypes
      <4> QED BY <4>1 DEF SessionInv, LoginsAreTrue, Ended
    <3> QED BY <3>1, <3>2, Zenon
  <2>2. (login.id # "none" /\ ~login.pending => Over(login.id))'
    BY ZenonT(30) DEF Ended, Over
  <2> QED BY <2>1, <2>2, ZenonT(30) DEF LoginsAreTrue
<1> QED BY <1>5, <1>6, Zenon

(* The handlers' own steps. *)
LEMMA HandlerSteps ==
  ASSUME SessionInv, NEW h \in Handlers,
         \/ BeginHandler(h) \/ Expires(h) \/ LoginAnswered(h) \/ CancelAnswered(h)
         \/ ThreadAnswered(h) \/ InjectAnswered(h) \/ TurnAnswered(h)
         \/ Refused(h)
  PROVE  SessionTypes' /\ LoginsAreTrue'
<1> USE DEF request, ends, fails, None, server, bridge
<1>0. /\ op \in [Handlers -> {"login", "cancel", "thread", "turn"}] /\ arg \in [Handlers -> Named]
      /\ login \in [id : Named, pending : BOOLEAN] /\ thread.id \in Named
      /\ login.id # "none" /\ ~login.pending => Over(login.id)
      /\ h \in Named /\ "none" \in Named /\ Named \ {"none"} \subseteq Handlers
  BY Zenon DEF SessionInv, SessionTypes, LoginsAreTrue, Named
<1>1. CASE BeginHandler(h)
  <2>1. UNCHANGED <<op, logins, out, login, thread, nameless>> /\ place[h] = "begin"
    BY <1>1, Zenon DEF BeginHandler
  <2>2. CASE op[h] = "login"
    <3>1. GoesOn(h, "login", "none")
      BY <1>0, <1>1, <2>1, <2>2, Zenon DEF BeginHandler, GoesOn
    <3> QED BY <1>0, <3>1, HandlerGoesOn, Zenon
  <2>3. CASE op[h] = "cancel"
    <3>1. GoesOn(h, "failed", "none") \/ GoesOn(h, "cancel", login.id)
      BY <1>0, <1>1, <2>1, <2>3, Zenon DEF BeginHandler, GoesOn
    <3> QED BY <1>0, <3>1, HandlerGoesOn, Zenon
  <2>4. CASE op[h] = "thread"
    <3>1. GoesOn(h, "thread", "none")
      BY <1>0, <1>1, <2>1, <2>4, Zenon DEF BeginHandler, GoesOn
    <3> QED BY <1>0, <3>1, HandlerGoesOn, Zenon
  <2>5. CASE op[h] = "turn"
    <3>1. \/ GoesOn(h, "failed", "none")
          \/ GoesOn(h, "inject", thread.id) \/ GoesOn(h, "turn", thread.id)
      BY <1>0, <1>1, <2>1, <2>5, Zenon DEF BeginHandler, GoesOn
    <3> QED BY <1>0, <3>1, HandlerGoesOn, Zenon
  <2> QED BY <1>0, <2>2, <2>3, <2>4, <2>5, Zenon
<1>2. CASE Expires(h) \/ Refused(h) \/ TurnAnswered(h)
  <2>1. GoesOn(h, "failed", "none") \/ GoesOn(h, "done", "none")
    BY <1>0, <1>2, Zenon DEF Expires, Refused, TurnAnswered, GoesOn
  <2> QED BY <1>0, <2>1, HandlerGoesOn, Zenon
<1>3. CASE LoginAnswered(h)
  <2>1. GoesOn(h, "done", "none")
    BY <1>0, <1>3, Zenon DEF LoginAnswered, GoesOn
  <2> QED BY <1>0, <2>1, HandlerGoesOn, Zenon
<1>4. CASE CancelAnswered(h)
  <2>1. Ended(arg[h])
    BY <1>4, Zenon DEF CancelAnswered, SessionInv, LoginsAreTrue
  <2>2. /\ login' \in [id : Named, pending : BOOLEAN]
        /\ login'.id # "none" /\ ~login'.pending => Over(login'.id)
    BY <1>0, <1>4, <2>1, ZenonT(30) DEF CancelAnswered, cancels, Over
  <2>3. GoesOn(h, "done", "none")
    BY <1>0, <1>4, <2>2, Zenon DEF CancelAnswered, GoesOn
  <2> QED BY <1>0, <2>3, HandlerGoesOn, Zenon
<1>5. CASE ThreadAnswered(h)
  <2>1. GoesOn(h, "inject", h) \/ GoesOn(h, "done", "none")
    BY <1>0, <1>5, Zenon DEF ThreadAnswered, GoesOn
  <2> QED BY <1>0, <2>1, HandlerGoesOn, Zenon
<1>6. CASE InjectAnswered(h)
  <2>1. GoesOn(h, "turn", arg[h]) \/ GoesOn(h, "done", "none")
    BY <1>0, <1>6, ZenonT(30) DEF InjectAnswered, GoesOn
  <2> QED BY <1>0, <2>1, HandlerGoesOn, Zenon
<1> QED BY <1>1, <1>2, <1>3, <1>4, <1>5, <1>6, Zenon

(* The reader of the child's stdout: an answer reaches its handler, a      *)
(* notification changes what the bridge shows.                             *)
LEMMA ReadLineStep ==
  ASSUME SessionInv, ReadLine
  PROVE  SessionInv'
<1> DEFINE m == Head(out)
<1>0. /\ out # << >> /\ out' = Tail(out) /\ UNCHANGED <<op, place, arg, asked, logins>>
      /\ \/ /\ m.kind \in {"result", "error"}
            /\ answer' = IF place[m.id] \in {"done", "failed"} THEN answer ELSE [answer EXCEPT ![m.id] = m.kind]
            /\ UNCHANGED <<bridge, events>>
         \/ m.kind \notin {"result", "error"} /\ notified(m) /\ publishLocked /\ UNCHANGED answer
  BY Zenon DEF ReadLine
<1>1. out \in Seq(TrueLines) /\ m \in TrueLines
  BY <1>0 DEF SessionInv, SessionTypes
<1>2. m \in Lines /\ TrueLines' = TrueLines /\ TrueAsks' = TrueAsks
  BY <1>0, <1>1, Zenon DEF TrueLines, TrueAsks, Ended
<1>3. out' \in Seq(TrueLines') /\ asked' \subseteq TrueAsks'
  <2>1. asked \subseteq TrueAsks
    BY DEF SessionInv, SessionTypes
  <2>2. out # << >> /\ out' = Tail(out) /\ asked' = asked
    BY <1>0, Zenon
  <2> HIDE DEF m
  <2> QED BY <1>1, <1>2, <2>1, <2>2
<1>4. /\ login' \in [id : Named, pending : BOOLEAN] /\ thread'.id \in Named
      /\ login'.id # "none" /\ ~login'.pending => Over(login.id)'
  <2>1. /\ login \in [id : Named, pending : BOOLEAN] /\ thread.id \in Named
        /\ login.id # "none" /\ ~login.pending => Over(login.id)
    BY Zenon DEF SessionInv, SessionTypes, LoginsAreTrue
  <2>2. CASE m.kind = "login/completed"
    <3>1. Ended(m.id) \/ m.id = "none"
      BY <1>1, <2>2, Zenon DEF TrueLines
    <3>2. notified(m)
      BY <1>0, <2>2, Zenon
    <3>3. /\ login' = IF login.id # "none" /\ m.id \in {"none", login.id}
                       THEN [login EXCEPT !.pending = FALSE] ELSE login
          /\ nameless' = IF m.id = "none" THEN nameless \cup {login.id} ELSE nameless
          /\ UNCHANGED <<thread, logins>>
      BY <1>0, <2>2, <3>2, Zenon DEF notified, completes, None
    <3> HIDE DEF m
    <3>4. login'.id = login.id /\ login' \in [id : Named, pending : BOOLEAN]
      BY <2>1, <3>3, Zenon
    <3>5. ASSUME login'.id # "none", ~login'.pending PROVE Over(login.id)'
      <4>1. CASE m.id = "none" \/ Over(login.id)
        BY <3>3, <3>4, <4>1, Zenon DEF Over, Ended
      <4>2. CASE m.id # "none" /\ ~Over(login.id)
        <5>1. login.id = m.id
          BY <2>1, <3>3, <3>5, <4>2, Zenon
        <5> QED BY <3>1, <3>3, <3>4, <4>2, <5>1, Zenon DEF Over, Ended
      <4> QED BY <4>1, <4>2
    <3> QED BY <2>1, <3>3, <3>4, <3>5, Zenon
  <2>3. CASE m.kind = "thread/started"
    <3>1. notified(m)
      BY <1>0, <2>3, Zenon
    <3>2. thread' = [id |-> m.id, settings |-> FALSE] /\ UNCHANGED <<login, nameless, logins>>
      BY <1>0, <2>3, <3>1, Zenon DEF notified
    <3> QED BY <1>2, <2>1, <3>2, Zenon DEF Lines, Over, Ended
  <2>4. CASE m.kind \in {"turn/started", "turn/completed", "result", "error"}
    <3>1. UNCHANGED <<login, thread, nameless, logins>>
      BY <1>0, <2>4, ZenonT(30) DEF notified, bridge
    <3> QED BY <2>1, <3>1, Zenon DEF Over, Ended
  <2> QED BY <1>2, <2>2, <2>3, <2>4, Zenon DEF Lines, Kinds
<1>5. /\ answer' \in [Handlers -> {"none", "result", "error"}]
      /\ \A h \in Handlers : place[h] = "cancel" /\ answer'[h] = "result" => Ended(arg[h])
  <2>1. /\ answer \in [Handlers -> {"none", "result", "error"}]
        /\ \A h \in Handlers : place[h] = "cancel" /\ answer[h] = "result" => Ended(arg[h])
    BY Zenon DEF SessionInv, SessionTypes, LoginsAreTrue
  <2>2. /\ m.kind \in {"result", "error"} => m.id \in Handlers
        /\ (m.kind = "result" /\ place[m.id] = "cancel" => Ended(arg[m.id]))
    BY <1>1, <1>2, Zenon DEF TrueLines, Lines
  <2> HIDE DEF m
  <2> QED BY <1>0, <2>1, <2>2, Zenon
<1>6. SessionTypes' /\ LoginsAreTrue'
  BY <1>0, <1>3, <1>4, <1>5, Zenon DEF SessionInv, SessionTypes, LoginsAreTrue, Ended
<1>7. StreamsAreTrue'
  <2>1. CASE UNCHANGED events
    BY <2>1, Zenon DEF events, SessionInv, StreamsAreTrue
  <2>2. CASE publishLocked
    BY <2>2, Zenon DEF publishLocked, SessionInv, StreamsAreTrue
  <2> QED BY <1>0, <2>1, <2>2, Zenon
<1> QED BY <1>6, <1>7 DEF SessionInv

(* The event streams. *)
LEMMA StreamSteps ==
  ASSUME SessionInv, NEW s \in Streams,
         Subscribe(s) \/ Unsubscribe(s) \/ StreamGone(s) \/ StreamStep(s)
  PROVE  SessionInv'
<1>1. SessionTypes' /\ LoginsAreTrue'
  BY SessionQuiet, Zenon DEF Subscribe, Unsubscribe, StreamGone, StreamStep,
     handlers, bridge, server
<1>2. StreamsAreTrue'
  <2>1. CASE Subscribe(s)
    BY <2>1, Zenon DEF Subscribe, SessionInv, StreamsAreTrue
  <2>2. CASE Unsubscribe(s)
    BY <2>2, Zenon DEF Unsubscribe, leave, SessionInv, StreamsAreTrue
  <2>3. CASE StreamGone(s)
    BY <2>3, Zenon DEF StreamGone, SessionInv, StreamsAreTrue
  <2>4. CASE StreamStep(s)
    BY <2>4, Zenon DEF StreamStep, SessionInv, StreamsAreTrue
  <2> QED BY <2>1, <2>2, <2>3, <2>4
<1> QED BY <1>1, <1>2 DEF SessionInv

(* The app-server handles a request. *)
LEMMA ServeStep ==
  ASSUME SessionInv, NEW r \in asked, Serve(r)
  PROVE  SessionTypes' /\ LoginsAreTrue'
<1> DEFINE h == r.handler
           L(kind, id, th) == [kind |-> kind, id |-> id, thread |-> th]
<1>0. /\ UNCHANGED <<op, place, arg, answer, login, thread, nameless>> /\ asked' = asked \ {r}
      /\ r \in TrueAsks /\ r \in Asks /\ h \in Handlers /\ place[h] # "begin" /\ out \in Seq(TrueLines)
      /\ r.about \in Named
  BY Zenon DEF Serve, handlers, bridge, SessionInv, SessionTypes, TrueAsks, Asks
<1>1. \/ UNCHANGED logins
      \/ r.method = "login" /\ logins' = [logins EXCEPT ![h] = "pending"]
      \/ /\ r.method = "cancel" /\ logins[r.about] = "pending"
         /\ logins' = [logins EXCEPT ![r.about] = "ended"]
  BY ZenonT(30) DEF Serve
<1>2. /\ logins' \in [Named -> {"none", "pending", "ended"}]
      /\ \A k \in Handlers : /\ logins[k] = "ended" => logins'[k] = "ended"
                             /\ place[k] = "begin" => logins'[k] = "none"
                             /\ logins[k] = "none" /\ logins'[k] # "none" => k = h /\ r.method = "login"
  <2>1. /\ logins \in [Named -> {"none", "pending", "ended"}]
        /\ \A k \in Handlers : place[k] = "begin" => logins[k] = "none"
    BY Zenon DEF SessionInv, SessionTypes, LoginsAreTrue
  <2>2. r.method = "login" => logins[h] = "none"
    BY <1>0, Zenon DEF TrueAsks
  <2>3. h \in Named /\ \A k \in Handlers : k \in Named
    BY <1>0, Zenon DEF Named
  <2> HIDE DEF h
  <2>4. logins' \in [Named -> {"none", "pending", "ended"}]
    BY <1>0, <1>1, <2>1, ZenonT(30)
  <2>5. ASSUME NEW k \in Handlers
        PROVE  /\ logins[k] = "ended" => logins'[k] = "ended"
               /\ place[k] = "begin" => logins'[k] = "none"
               /\ logins[k] = "none" /\ logins'[k] # "none" => k = h /\ r.method = "login"
    BY <1>0, <1>1, <2>1, <2>2, <2>3, ZenonT(30)
  <2> QED BY <2>4, <2>5, Zenon
<1>3. /\ TrueLines \subseteq TrueLines'
      /\ \A q \in TrueAsks : q \in TrueAsks' \/ (q.method = "login" /\ logins'[q.handler] # "none")
  BY <1>0, <1>2, StillTrue, ZenonT(30)
<1>4. asked' \subseteq TrueAsks'
  <2>1. ASSUME NEW q \in asked, q \notin TrueAsks' PROVE q = r
    <3>1. q \in TrueAsks /\ q \in Asks
      BY Zenon DEF SessionInv, SessionTypes, TrueAsks
    <3>2. q.method = "login" /\ q.about = "none" /\ q.handler \in Handlers /\ logins[q.handler] = "none"
      BY <1>3, <2>1, <3>1, Zenon DEF TrueAsks, Asks
    <3>3. q.handler = h /\ r.method = "login" /\ r.about = "none"
      BY <1>0, <1>2, <1>3, <2>1, <3>1, <3>2, Zenon DEF TrueAsks
    <3> QED BY <1>0, <3>1, <3>2, <3>3 DEF Asks
  <2> QED BY <1>0, <2>1, ZenonT(30)
<1>5. out' \in Seq(TrueLines')
  <2>1. out \in Seq(TrueLines')
    BY <1>0, <1>3, SeqOfMore, Zenon
  <2>2. /\ L("error", h, "none") \in TrueLines'
        /\ L("thread/started", h, "none") \in TrueLines'
        /\ L("turn/started", h, r.about) \in TrueLines'
        /\ L("turn/completed", h, r.about) \in TrueLines'
    BY <1>0, Zenon DEF TrueLines, Lines, Kinds, Named
  <2>3. r.method # "cancel" => L("result", h, "none") \in TrueLines'
    BY <1>0, ZenonT(30) DEF TrueLines, TrueAsks, Lines, Kinds, Named
  <2>4. ASSUME r.method = "cancel", logins' = [logins EXCEPT ![r.about] = "ended"]
        PROVE  L("login/completed", r.about, "none") \in TrueLines' /\ L("result", h, "none") \in TrueLines'
    <3>1. r.about \in Handlers /\ (place[h] = "cancel" => arg[h] = r.about)
      BY <1>0, <2>4, Zenon DEF TrueAsks
    <3>2. logins'[r.about] = "ended"
      BY <1>0, <2>4, ZenonT(30) DEF SessionInv, SessionTypes
    <3>3. Ended(r.about)' /\ (place'[h] = "cancel" => Ended(arg[h])') /\ place'[h] # "begin"
      BY <1>0, <3>1, <3>2, Zenon DEF Ended
    <3> QED BY <1>0, <3>1, <3>3, Zenon DEF TrueLines, Lines, Kinds, Named
  <2>5. \/ out' = Append(out, L("error", h, "none"))
        \/ r.method # "cancel" /\ out' = Append(out, L("result", h, "none"))
        \/ /\ r.method = "cancel" /\ logins' = [logins EXCEPT ![r.about] = "ended"]
           /\ out' = out \o << L("login/completed", r.about, "none"), L("result", h, "none") >>
        \/ /\ r.method # "cancel"
           /\ out' = out \o << L("result", h, "none"), L("thread/started", h, "none") >>
        \/ /\ r.method # "cancel"
           /\ out' = out \o << L("result", h, "none"), L("turn/started", h, r.about),
                               L("turn/completed", h, r.about) >>
    BY Zenon DEF Serve, line, result, None
  <2>6. \A a \in TrueLines' : Append(out, a) \in Seq(TrueLines')
    BY <2>1
  <2>7. \A a, b \in TrueLines' : out \o << a, b >> \in Seq(TrueLines')
    BY <2>1
  <2>8. \A a, b, c \in TrueLines' : out \o << a, b, c >> \in Seq(TrueLines')
    BY <2>1
  <2> HIDE DEF L, h
  <2> QED BY <2>2, <2>3, <2>4, <2>5, <2>6, <2>7, <2>8, ZenonT(30)
<1>6. \A id : (Ended(id) => Ended(id)') /\ (Over(id) => Over(id)')
  BY <1>0, <1>2, Zenon DEF Ended, Over
<1>7. SessionTypes'
  BY <1>0, <1>2, <1>4, <1>5, Zenon DEF SessionInv, SessionTypes
<1>8. LoginsAreTrue'
  BY <1>0, <1>2, <1>6, Zenon DEF SessionInv, LoginsAreTrue
<1> QED BY <1>7, <1>8

(* A login ends by itself. *)
LEMMA LoginEndsStep ==
  ASSUME SessionInv, NEW id \in Named, LoginEnds(id)
  PROVE  SessionTypes' /\ LoginsAreTrue'
<1>0. /\ UNCHANGED <<op, place, arg, answer, login, thread, nameless, asked>>
      /\ logins[id] = "pending" /\ logins' = [logins EXCEPT ![id] = "ended"]
  BY Zenon DEF LoginEnds, handlers, bridge
<1>1. /\ logins \in [Named -> {"none", "pending", "ended"}]
      /\ logins' \in [Named -> {"none", "pending", "ended"}]
      /\ \A h \in Handlers : /\ logins[h] = "ended" => logins'[h] = "ended"
                             /\ logins[h] = "none" => logins'[h] = "none"
  BY <1>0, ZenonT(30) DEF SessionInv, SessionTypes, Named
<1>2. TrueLines \subseteq TrueLines' /\ TrueAsks \subseteq TrueAsks'
  BY <1>0, <1>1, StillTrue, Zenon DEF TrueAsks, Asks
<1>3. out' \in Seq(TrueLines')
  <2>1. out \in Seq(TrueLines')
    BY <1>2, SeqOfMore, Zenon DEF SessionInv, SessionTypes
  <2>2. out' = Append(out, [kind |-> "login/completed", id |-> id, thread |-> "none"])
    BY Zenon DEF LoginEnds, line, None
  <2>3. [kind |-> "login/completed", id |-> id, thread |-> "none"] \in TrueLines'
    BY <1>0, <1>1, Zenon DEF TrueLines, Lines, Kinds, Named, Ended
  <2> QED BY <2>1, <2>2, <2>3
<1>4. SessionTypes'
  BY <1>0, <1>1, <1>2, <1>3, Zenon DEF SessionInv, SessionTypes
<1>5. LoginsAreTrue'
  BY <1>0, <1>1, Zenon DEF SessionInv, SessionTypes, LoginsAreTrue, Ended, Over
<1> QED BY <1>4, <1>5

(* Every step of a session keeps its invariant. *)
LEMMA SessionStep == SessionInv /\ [SessionNext]_(sessionVars) => SessionInv'
<1> SUFFICES ASSUME SessionInv, [SessionNext]_(sessionVars) PROVE SessionInv'
  OBVIOUS
<1>1. CASE UNCHANGED events /\ SessionTypes' /\ LoginsAreTrue'
  BY <1>1, Zenon DEF events, SessionInv, StreamsAreTrue
<1>2. ASSUME NEW h \in Handlers,
             \/ BeginHandler(h) \/ Expires(h) \/ LoginAnswered(h) \/ CancelAnswered(h)
             \/ ThreadAnswered(h) \/ InjectAnswered(h) \/ TurnAnswered(h)
             \/ Refused(h)
      PROVE  SessionInv'
  <2>1. UNCHANGED events
    BY <1>2, Zenon DEF BeginHandler, Expires, LoginAnswered, CancelAnswered,
       ThreadAnswered, InjectAnswered, TurnAnswered, Refused
  <2> QED BY <1>1, <1>2, <2>1, HandlerSteps, Zenon
<1>3. ASSUME NEW id \in Handlers \cup {None}, LoginEnds(id) PROVE SessionInv'
  BY <1>1, <1>3, LoginEndsStep, Zenon DEF LoginEnds, Named, None
<1>4. ASSUME NEW r \in asked, Serve(r) PROVE SessionInv'
  BY <1>1, <1>4, ServeStep, Zenon DEF Serve
<1>5. CASE UNCHANGED sessionVars
  BY <1>1, <1>5, SessionQuiet, Zenon DEF sessionVars, handlers, bridge, server
<1> QED BY <1>2, <1>3, <1>4, <1>5, ReadLineStep, StreamSteps, Zenon DEF SessionNext

(* For any handlers, streams and event bounds: the login that the admin UI *)
(* shows as over is one that the app-server has ended, or that was shown   *)
(* when it announced a completion without naming a login (CancelLogin and  *)
(* account/login/completed in bridge.go), and publishing never sends on a  *)
(* closed channel (Subscribe and publishLocked).                           *)
THEOREM SessionIsSoundThm == SessionSpec => []SessionIsSound
<1>1. SessionInv => SessionIsSound
  BY Zenon DEF SessionInv, LoginsAreTrue, StreamsAreTrue, Ended, Over, SessionIsSound, LoginOutcomeIsOwn,
     NeverSendsOnClosed, None
<1> QED BY <1>1, SessionStarts, SessionStep, PTL DEF SessionSpec
=============================================================================
