-------------------------- MODULE HarpoonTemplates --------------------------
(***************************************************************************)
(* Operator-configured templates of the Harpoon server                     *)
(* (pkg/runtimeharpoon/template.go, template_body.go, header_rules.go,     *)
(* policy_binding.go and template_server.go).  A template is compiled once,*)
(* published as an input schema with an example, and executed: a call is   *)
(* checked, rendered into a request, and the request is checked again at   *)
(* the outbound boundary.  The module is a function of the configuration   *)
(* and the arguments, evaluated in three steps.                            *)
(*                                                                         *)
(* Identifier and header values are records [word, upper, len, ident]:     *)
(* two values differing in "upper" only are equal under case folding, and  *)
(* "ident" says that the characters are those of an identifier.  Patterns  *)
(* and enums are the sets of values they admit.                            *)
(***************************************************************************)
EXTENDS Naturals, Sequences, SequencesExt, FiniteSets, FiniteSetsExt

CONSTANTS Configs,       \* HarpoonTargetTemplate values
          CallArguments, \* callTargetTemplateRequest values
          HeaderBytes,   \* maxTemplateHeaderBytes
          HeaderCount,   \* maxTemplateHeaders
          ValueBytes,    \* maxTemplateValueBytes
          BodyBytes,     \* maxTemplateBodyBytes
          AgentBytes     \* bytes of the managed User-Agent header

VARIABLES template,  \* the compiled template, or "none"
          args,      \* the arguments of the call
          outcome,   \* how the call ended
          request    \* the request handed to the transport

vars == <<template, args, outcome, request>>

None == [word |-> "none"]

folded(v) == v.word

-----------------------------------------------------------------------------
(* compileTemplateParameter and compiledTemplateParameter.validate *)
validParameter(p, v) ==
  /\ v.len \in p.min..p.max
  /\ v.ident
  /\ \A r \in p.reserved : folded(v) # folded(r)
  /\ p.hasPattern => v \in p.pattern
  /\ p.enum # << >> => v \in Range(p.enum)

compilesParameter(p) ==
  /\ 1 <= p.min /\ p.min <= p.max /\ p.max <= ValueBytes
  /\ p.hasPattern \/ p.enum # << >>
  /\ \A r \in p.reserved : r.ident /\ r.len <= ValueBytes
  /\ \A v \in Range(p.enum) \cup Range(p.examples) : validParameter(p, v)
  /\ IsInjective(p.enum) /\ IsInjective(p.examples)

(* compiledTemplateBodyPolicy.validate; a GET has no policy. *)
validBody(t, body, type) ==
  IF ~t.writes THEN body = None /\ type = "none"
  ELSE \/ body = None /\ type = "none" /\ ~t.body.required
       \/ /\ body # None /\ type # "none"
          /\ type \in Range(t.body.types)
          /\ body.len <= t.body.max
          /\ t.body.required => body.len > 0
          /\ t.body.json => body.json
          /\ t.body.hasPattern => body \in t.body.pattern
          /\ t.body.enum # << >> => body \in Range(t.body.enum)

compilesBody(t) ==
  t.writes =>
    /\ t.body.max \in 1..BodyBytes
    /\ t.body.types # << >> /\ IsInjective(t.body.types)
    /\ t.body.json \/ t.body.hasPattern \/ t.body.enum # << >>
    /\ "application/json" \in Range(t.body.types) => t.body.json
    /\ \A b \in Range(t.body.enum) : validBody(t, b, t.body.types[1])
    /\ IsInjective(t.body.enum)

-----------------------------------------------------------------------------
(* Headers are functions from names to values; a name counts one byte. *)
validRule(rule, v) ==
  /\ v.len <= HeaderBytes
  /\ v.len \in rule.min..rule.max
  /\ rule.hasPattern => v \in rule.pattern
  /\ rule.enum # << >> => v \in Range(rule.enum)

compilesRule(t, rule) ==
  /\ {rule.name, rule.forwardAs} \cap DOMAIN t.fixed = {}
  /\ t.writes => {rule.name, rule.forwardAs} \cap {"Content-Type"} = {}
  /\ rule.min <= rule.max /\ rule.max <= HeaderBytes
  /\ \A v \in Range(rule.enum) : validRule(rule, v)
  /\ IsInjective(rule.enum)
  /\ rule.credential => rule.enum = << >> /\ rule.hasPattern /\ rule.min > 0

(* compileHeaderRules: names are unique and no rename hits another source. *)
compilesRules(t) ==
  /\ \A r \in t.rules : compilesRule(t, r)
  /\ \A r, s \in t.rules : r # s =>
       r.name # s.name /\ r.forwardAs # s.forwardAs /\ r.forwardAs # s.name

headerSize(headers) ==
  LET managed == IF "User-Agent" \in DOMAIN headers THEN 0 ELSE AgentBytes
      one(h) == 1 + headers[h].len
  IN FoldSet(LAMBDA h, n : n + one(h), managed, DOMAIN headers)

(* validateTemplateHeaderSize allows for the managed User-Agent. *)
fitsHeaders(headers) ==
  Cardinality(DOMAIN headers) <= HeaderCount + 1 /\ headerSize(headers) <= HeaderBytes

merged(f, g) == [h \in DOMAIN f \cup DOMAIN g |-> IF h \in DOMAIN g THEN g[h] ELSE f[h]]

NoHeaders == [h \in {} |-> None]

HasRichHeaderRules(t) == \E r \in t.rules : ~r.legacy

(* CompileTargetTemplate *)
compiles(t) ==
  /\ ~t.followRedirects
  /\ t.parameters # << >> /\ \A n \in DOMAIN t.parameters : compilesParameter(t.parameters[n])
  /\ t.placeholders = DOMAIN t.parameters
  /\ compilesBody(t)
  /\ Cardinality(DOMAIN t.fixed) + Cardinality(t.rules) + (IF t.writes THEN 1 ELSE 0) <= HeaderCount
  /\ t.writes => "Content-Type" \notin DOMAIN t.fixed
  /\ compilesRules(t)
  /\ fitsHeaders(t.fixed)

-----------------------------------------------------------------------------
(* The caller copies the label of the published invocation: rich templates *)
(* have one bound to their policy and credentials, others their own label. *)
invocationLabel(t) == IF HasRichHeaderRules(t) THEN "bound" ELSE "plain"

operationToken(t) == IF t.writes THEN "token" ELSE "none"

(* The input schema of templateInvocationForLabel, as a predicate. *)
schemaAdmits(t, a) ==
  /\ a.label = invocationLabel(t)
  /\ a.operation = operationToken(t)
  /\ DOMAIN a.parameters = DOMAIN t.parameters
  /\ \A n \in DOMAIN a.parameters :
       LET p == t.parameters[n] v == a.parameters[n]
       IN v.len \in p.min..p.max /\ v.ident
            /\ (p.hasPattern => v \in p.pattern)
            /\ (p.enum # << >> => v \in Range(p.enum))
            /\ \A r \in p.reserved : folded(v) # folded(r)
  /\ (a.body = None) = (a.type = "none")
  /\ IF ~t.writes THEN a.body = None
     ELSE /\ t.body.required => a.body # None /\ a.body.len >= 1
          /\ a.body # None =>
               /\ a.type \in Range(t.body.types) /\ a.body.len <= t.body.max
               /\ t.body.json => a.body.json
               /\ t.body.hasPattern => a.body \in t.body.pattern
               /\ t.body.enum # << >> => a.body \in Range(t.body.enum)
  /\ \A h \in DOMAIN a.headers : \E r \in t.rules :
       r.name = h /\ a.headers[h].len \in r.min..r.max
         /\ (r.hasPattern => a.headers[h] \in r.pattern)
         /\ (r.enum # << >> => a.headers[h] \in Range(r.enum))
  /\ \A r \in t.rules : r.required => r.name \in DOMAIN a.headers

(* The published example, when there is one. *)
hasExample(t) ==
  /\ ~\E r \in t.rules : r.required
  /\ \A n \in DOMAIN t.parameters :
       t.parameters[n].examples # << >> \/ t.parameters[n].enum # << >>
  /\ t.writes => ~t.body.required \/ t.body.enum # << >>

example(t) ==
  [label |-> invocationLabel(t), operation |-> operationToken(t),
   parameters |-> [n \in DOMAIN t.parameters |->
     IF t.parameters[n].examples # << >> THEN t.parameters[n].examples[1]
                                        ELSE t.parameters[n].enum[1]],
   body |-> IF t.writes /\ t.body.enum # << >> THEN t.body.enum[1] ELSE None,
   type |-> IF t.writes /\ t.body.enum # << >> THEN t.body.types[1] ELSE "none",
   headers |-> NoHeaders]

-----------------------------------------------------------------------------
(* ValidateCallerHeaders: every header has a rule, every required one is   *)
(* there, and both spellings fit the budget.  The result has their         *)
(* outgoing names.                                                         *)
ruleFor(t, h) == CHOOSE r \in t.rules : r.name = h

forwarded(t, headers) ==
  [d \in {ruleFor(t, h).forwardAs : h \in DOMAIN headers} |->
     headers[CHOOSE h \in DOMAIN headers : ruleFor(t, h).forwardAs = d]]

validCallerHeaders(t, headers) ==
  /\ Cardinality(DOMAIN headers) <= HeaderCount
  /\ \A h \in DOMAIN headers : \E r \in t.rules : r.name = h /\ validRule(r, headers[h])
  /\ \A r \in t.rules : r.required => r.name \in DOMAIN headers
  /\ fitsHeaders(merged(t.fixed, headers))
  /\ fitsHeaders(merged(t.fixed, forwarded(t, headers)))

Agent == [word |-> "agent", len |-> AgentBytes - 1]

outboundHeadersUnrenamed(t, a) ==
  LET named == merged(a.headers, t.fixed)
      agent == merged(named, [h \in {"User-Agent"} |-> Agent])
  IN IF a.type = "none" THEN agent
     ELSE merged(agent, [h \in {"Content-Type"} |-> [word |-> a.type, len |-> 2]])

(* The headers callTargetTemplate assembles. *)
outboundHeaders(t, a) ==
  LET named == merged(forwarded(t, a.headers), t.fixed)
      agent == merged(named, [h \in {"User-Agent"} |-> Agent])
  IN IF a.type = "none" THEN agent
     ELSE merged(agent, [h \in {"Content-Type"} |-> [word |-> a.type, len |-> 2]])

(* lookupTemplateInvocation accepts only the current invocation label. *)
lookupTemplateInvocation(t, label) == label = invocationLabel(t)

(* callTargetTemplate up to the request. *)
frontChecks(t, a) ==
  IF ~lookupTemplateInvocation(t, a.label) THEN "unknown template target"
  ELSE IF a.operation # operationToken(t) THEN "operation mismatch"
  ELSE IF ~validBody(t, a.body, a.type) THEN "body refused"
  ELSE IF ~(DOMAIN a.parameters = DOMAIN t.parameters
            /\ \A n \in DOMAIN a.parameters : validParameter(t.parameters[n], a.parameters[n]))
         THEN "parameters refused"
  ELSE IF ~validCallerHeaders(t, a.headers) THEN "headers refused"
  ELSE "accepted"

(* validateRequest at the outbound boundary. *)
validHeader(t, a, req, h) ==
  LET v == req.headers[h]
      destination == {r \in t.rules : r.forwardAs = h}
  IN \/ h = "User-Agent" /\ v = Agent
     \/ t.writes /\ h = "Content-Type" /\ v.word = a.type
     \/ h \in DOMAIN t.fixed /\ v = t.fixed[h]
     \/ h \notin DOMAIN t.fixed /\ \E r \in destination : validRule(r, v)

validateRequest(t, a, req) ==
  /\ req.parameters = a.parameters
  /\ req.body = a.body /\ validBody(t, a.body, a.type)
  /\ (a.type = "none") = ("Content-Type" \notin DOMAIN req.headers \/ ~t.writes)
  /\ \A h \in DOMAIN req.headers : validHeader(t, a, req, h)
  /\ DOMAIN t.fixed \subseteq DOMAIN req.headers
  /\ \A r \in t.rules : r.required => r.forwardAs \in DOMAIN req.headers
  /\ fitsHeaders(req.headers)

(* The forwarded request ID is only added when it still fits. *)
applyAutoRequestID(headers) ==
  LET candidate == merged(headers, [h \in {"X-Request-Id"} |-> [word |-> "id", len |-> 1]])
  IN IF "X-Request-Id" \notin DOMAIN headers /\ fitsHeaders(candidate) THEN candidate ELSE headers

-----------------------------------------------------------------------------
NoTemplate == [writes |-> FALSE]

NoArguments == [label |-> "none"]

NoRequest == [parameters |-> << >>, body |-> None, headers |-> NoHeaders]

Init == template = NoTemplate /\ args = NoArguments /\ outcome = "none" /\ request = NoRequest

Compile(t) ==
  /\ outcome = "none"
  /\ IF compiles(t) THEN template' = t /\ outcome' = "compiled"
                    ELSE template' = NoTemplate /\ outcome' = "template refused"
  /\ UNCHANGED <<args, request>>

CallTargetTemplate(a) ==
  /\ outcome = "compiled"
  /\ args' = a
  /\ outcome' = frontChecks(template, a)
  /\ request' = IF outcome' = "accepted"
                  THEN [parameters |-> a.parameters, body |-> a.body,
                        headers |-> outboundHeaders(template, a)]
                  ELSE NoRequest
  /\ UNCHANGED template

RoundTrip ==
  /\ outcome = "accepted"
  /\ IF validateRequest(template, args, request)
       THEN outcome' = "sent" /\ request' = [request EXCEPT !.headers = applyAutoRequestID(@)]
       ELSE outcome' = "boundary refused" /\ UNCHANGED request
  /\ UNCHANGED <<template, args>>

Next ==
  \/ \E t \in Configs : Compile(t)
  \/ \E a \in CallArguments \cup (IF outcome = "compiled" /\ hasExample(template)
                                    THEN {example(template)} ELSE {}) : CallTargetTemplate(a)
  \/ RoundTrip

Spec == Init /\ [][Next]_vars

-----------------------------------------------------------------------------
(* The budget of all headers; that of the Content-Type is only seen by the *)
(* outbound check.                                                         *)
overBudget == ~fitsHeaders(merged(template.fixed, args.headers))
                \/ ~fitsHeaders(outboundHeaders(template, args))

(* Arguments that the published input schema admits, and the published     *)
(* example, are executed: the checks of the call and those of the outbound *)
(* boundary let them pass, unless the headers exceed the total budget,     *)
(* which the schema names but cannot express.                              *)
(* (templateInvocationForLabel against callTargetTemplate)                 *)
DiscoveryIsTruthful ==
  /\ outcome \notin {"none", "compiled", "template refused", "accepted"} =>
       (schemaAdmits(template, args) =>
          outcome = "sent" \/ overBudget)
  /\ outcome = "compiled" /\ hasExample(template) => schemaAdmits(template, example(template))

(* The second look at the request never refuses what the first let pass,   *)
(* except for the bytes of the Content-Type: the two are written           *)
(* independently.  (ValidateCallerHeaders against validateRequest)         *)
BoundaryAgrees == outcome = "boundary refused" => overBudget /\ template.writes

(* What is sent carries the operator's headers unmodified, each other      *)
(* header under the outgoing name of a rule that admits its value, and     *)
(* stays within the byte budget with the request ID included.              *)
(* (validateRequest, applyAutoRequestID)                                   *)
SentIsPolicy ==
  outcome = "sent" =>
    /\ \A h \in DOMAIN template.fixed : request.headers[h] = template.fixed[h]
    /\ \A h \in DOMAIN request.headers :
         h \in DOMAIN template.fixed \cup {"User-Agent", "Content-Type", "X-Request-Id"}
           \/ \E r \in template.rules : r.forwardAs = h /\ validRule(r, request.headers[h])
    /\ headerSize(request.headers) <= HeaderBytes
=============================================================================
