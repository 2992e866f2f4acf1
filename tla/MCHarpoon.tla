----------------------------- MODULE MCHarpoon -----------------------------
(***************************************************************************)
(* Harpoon for TLC.  A behaviour is one of five: calls against a registry  *)
(* that still grows (HarpoonCalls), waiters for its targets (the same      *)
(* module, without calls), more receipts than the ring holds, commands     *)
(* over the in-memory sessions (HarpoonSessions), or one call of a target  *)
(* template (HarpoonTemplates).                                            *)
(* A session hands a command's arguments to the handlers unchanged, and    *)
(* a template is a fixed target of the registry, so they meet only there.  *)
(***************************************************************************)
EXTENDS HarpoonCalls, HarpoonSessions, TLC

VARIABLES which,
          template, args, outcome, request

Url(scheme, host, slashes, query) ==
  [scheme |-> scheme, host |-> host, path |-> [name |-> "p", slashes |-> slashes],
   query |-> query]

Target(label, url, socket, tags) ==
  [label |-> label, url |-> url, socket |-> socket, tags |-> tags, bytes |-> 1,
   template |-> FALSE, rich |-> FALSE, loopback |-> FALSE]

Template(label, bytes) ==
  [Target(label, Url("https", "h2", 0, ""), "none", {}) EXCEPT
     !.template = TRUE, !.rich = TRUE, !.bytes = bytes]

One == Url("https", "h1", 0, "")
Two == Url("http", "h1", 0, "")
Other == Url("https", "h3", 0, "")

MCOffered == {Target("a", One, "none", {}),
              Target("d", Url("https", "h4", 0, ""), "none", {}),
              Target("b", Two, "none", {"token-endpoint"}),
              Target("c", One, "sock", {"token-endpoint"}),
              Template("t", 2)}

Arg(label) ==
  [label |-> label, parameters |-> FALSE, schema |-> TRUE, valid |-> TRUE,
   follow |-> TRUE, limits |-> FALSE, max |-> 0, requestID |-> TRUE]

MCArguments == {Arg("a"), Arg("t"), [Arg("a") EXCEPT !.limits = TRUE],
                [Arg("c") EXCEPT !.follow = FALSE], [Arg("t") EXCEPT !.schema = FALSE],
                [Arg("a") EXCEPT !.valid = FALSE, !.parameters = TRUE]}

MCUrls == {One, Two, Other}

MCLinks == {[key |-> "token_endpoint", url |-> One], [key |-> "resource", url |-> Two]}

Symmetry == Permutations(Calls)

-----------------------------------------------------------------------------
(* Inputs of HarpoonTemplates: templates, and the arguments of calls. *)

None == [word |-> "none"]
NoHeaders == [h \in {} |-> None]

Value(word, upper, len) == [word |-> word, upper |-> upper, len |-> len, ident |-> TRUE]
A == Value("a", FALSE, 1)
CapA == Value("a", TRUE, 1)
BB == Value("b", FALSE, 2)
Values == {A, CapA, BB, [A EXCEPT !.word = "/", !.ident = FALSE]}

Parameter == [min |-> 1, max |-> 2, reserved |-> {}, hasPattern |-> TRUE, pattern |-> Values,
              enum |-> << >>, examples |-> << >>]
Parameters == {Parameter,
               [Parameter EXCEPT !.enum = <<A, BB>>, !.hasPattern = FALSE],
               [Parameter EXCEPT !.reserved = {A}, !.examples = <<BB>>],
               [Parameter EXCEPT !.max = 1, !.examples = <<BB>>]}

Body(word, len, json) == [word |-> word, len |-> len, json |-> json]
Bodies == {Body("e", 0, FALSE), Body("j", 1, TRUE), Body("x", 1, FALSE), Body("l", 3, TRUE)}

Policy == [required |-> TRUE, json |-> TRUE, hasPattern |-> FALSE, pattern |-> {},
           enum |-> << >>, types |-> <<"application/json">>, max |-> 2]
Policies == {Policy, [Policy EXCEPT !.required = FALSE],
             [Policy EXCEPT !.enum = <<Body("j", 1, TRUE)>>],
             [Policy EXCEPT !.types = <<"text/plain", "text/csv">>, !.json = FALSE,
                !.hasPattern = TRUE, !.pattern = {Body("e", 0, FALSE), Body("x", 1, FALSE)},
                !.required = FALSE]}

Rule(name, forwardAs) ==
  [name |-> name, forwardAs |-> forwardAs, required |-> FALSE, credential |-> FALSE,
   legacy |-> FALSE, min |-> 0, max |-> 2, hasPattern |-> FALSE, pattern |-> {},
   enum |-> << >>]
RuleSets == {{}, {[Rule("X-App", "X-App") EXCEPT !.legacy = TRUE]},
             {Rule("X-App", "X-Private")},
             {[Rule("X-App", "X-Private") EXCEPT !.required = TRUE], Rule("X-Two", "X-Two")},
             {Rule("X-App", "X-Two"), Rule("X-Two", "X-Three")}}

Fixed == {NoHeaders, [h \in {"X-Fixed"} |-> BB]}

Config(w, b, p, f, rs) ==
  [writes |-> w, body |-> b, followRedirects |-> FALSE, placeholders |-> {"p"},
   parameters |-> [n \in {"p"} |-> p], fixed |-> f, rules |-> rs]

(* Parameters are checked apart from bodies and headers, so they vary apart. *)
MCConfigs ==
  {Config(FALSE, Policy, p, NoHeaders, {}) : p \in Parameters}
    \cup {Config(w, Policy, Parameter, f, rs) : w \in BOOLEAN, f \in Fixed, rs \in RuleSets}
    \cup {Config(TRUE, b, [Parameter EXCEPT !.examples = <<A>>], f, {}) : b \in Policies, f \in Fixed}

HeaderArguments ==
  {NoHeaders} \cup UNION {[H -> {A, BB}] : H \in {{"X-App"}, {"X-App", "X-Two"}, {"X-Private"}}}

Args(l, o, v, b, ty, hs) ==
  [label |-> l, operation |-> o, parameters |-> [n \in {"p"} |-> v], body |-> b,
   type |-> ty, headers |-> hs]

MCCallArguments ==
  {Args("plain", "none", v, None, "none", NoHeaders) : v \in Values}
    \cup {Args(l, o, A, b, ty, hs) :
            l \in {"plain", "bound"}, o \in {"none", "token"},
            b \in {None, Body("j", 1, TRUE)}, ty \in {"none", "application/json"},
            hs \in HeaderArguments}
    \cup {Args("plain", "token", A, b, ty, NoHeaders) :
            b \in Bodies \cup {None}, ty \in {"none", "application/json", "text/csv"}}

Templates == INSTANCE HarpoonTemplates WITH
               Configs <- MCConfigs, CallArguments <- MCCallArguments,
               HeaderBytes <- 11, HeaderCount <- 3, ValueBytes <- 2, BodyBytes <- 3, AgentBytes <- 3

-----------------------------------------------------------------------------
templates == <<template, args, outcome, request>>
allVars == <<which, vars, sessionsVars, templates>>

MCInit ==
  /\ which \in {"calls", "waits", "receipts", "sessions", "templates"}
  /\ Init /\ SessionsInit /\ Templates!Init

(* Receipts that calls of two targets left, until the ring went round twice. *)
MaxReceipts == 2 * CallBufferSize + 1
Receipts ==
  /\ Len(recorded) < MaxReceipts
  /\ \E label \in {"a", "d"} :
       RecordCall([NoReceipt EXCEPT !.call = Len(recorded), !.label = label])
  /\ UNCHANGED <<registryVars, cacheVars, waiters, call, unixBySocket>>

MCNext ==
  /\ UNCHANGED which
  /\ \/ which = "calls" /\ UNCHANGED <<waiters, sessionsVars, templates>> /\ Next
     \/ which = "waits" /\ UNCHANGED <<call, sessionsVars, templates>> /\ Next
     \/ which = "receipts" /\ UNCHANGED <<sessionsVars, templates>> /\ Receipts
     \/ which = "sessions" /\ UNCHANGED <<vars, templates>> /\ SessionsNext
     \/ which = "templates" /\ UNCHANGED <<vars, sessionsVars>> /\ Templates!Next

MCSpec == MCInit /\ [][MCNext]_allVars

-----------------------------------------------------------------------------
(* What Harpoon tells its callers and the operator is true: a template     *)
(* sends the headers its published rules admit, judged alike twice, its    *)
(* schema admits what is executed, a label put in place of a URL goes on   *)
(* leading to it over the same transport, and the receipts are the latest  *)
(* calls, also after the ring has overwritten older ones.                  *)
ReportsAreTruthful ==
  /\ Templates!SentIsPolicy /\ Templates!BoundaryAgrees /\ Templates!DiscoveryIsTruthful
  /\ RewritesResolve /\ ReceiptsAreRecent
============================================================================
