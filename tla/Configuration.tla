--------------------------- MODULE Configuration ---------------------------
(***************************************************************************)
(* pkg/runtimeconfig (and its full-client adapter pkg/config): how flags,  *)
(* environment, YAML and defaults become one configuration, or an error.   *)
(*                                                                         *)
(* An input gives every setting three layers, a flag, an environment       *)
(* variable and a YAML value, each unset, set to the empty string, or a    *)
(* value.  Settings that are read the same way are represented by one of   *)
(* them: listenAddr stands for the texts with a default, pollTimeout for   *)
(* the typed values, origins for the lists that travel through one         *)
(* environment string, and so on.  Which message an error carries is left  *)
(* out, so the checks of one function are a conjunction.                   *)
(***************************************************************************)
EXTENDS Naturals, Sequences, FiniteSets, SequencesExt

CONSTANT Inputs         \* a sequence of sets of inputs the loader is tried on

VARIABLES input,        \* flags, environment and file of one process
          flavor,       \* the binary that loads them
          loaded        \* what the loader returned

vars == <<input, flavor, loaded>>

Flavors == {"runtime", "runtimeCloudflared", "full"}

Unset == [is |-> "unset"]
Empty == [is |-> "empty"]
Value(v) == [is |-> "value", v |-> v]

\* An input lists the settings that are given at all.
given(i, n) ==
    IF n \in DOMAIN i.settings THEN i.settings[n] ELSE [flag |-> Unset, env |-> Unset, file |-> Unset]

\* References of a YAML value: env: or file: that resolves, or does not.
Ref == [is |-> "ref"]
BadRef == [is |-> "badref"]

EagerReferences == {"baseURL", "apiKey", "listenAddr"}
OverriddenUnread == {"forwardRequestID", "extraHeaders", "origins", "targets"}
FullOnly == {"logBuffer", "capturePayloads"}
Cloudflared == {"cfToken", "cfManaged"}

Default ==
    [tunnelID |-> "", maxInFlight |-> 20, pollTimeout |-> 30, guardrail |-> 5,
     listenAddr |-> "127.0.0.1:8080", forwardRequestID |-> "mcp", extraHeaders |-> "",
     failurePolicy |-> "restart", origins |-> << >>, targets |-> << >>, logFile |-> "",
     logBuffer |-> 2000, capturePayloads |-> FALSE]

(***************************************************************************)
(* Where the file comes from, and when it is read at all.                  *)
(***************************************************************************)
SourceNames == {"config", "profile", "profileFile"}
chosen(i, layer) == {n \in SourceNames : given(i, n)[layer].is = "value"}

\* Flags are mutually exclusive and come before the variables, which are
\* mutually exclusive too; an empty flag is an error, an empty variable none.
sourceFails(i) ==
    \/ \E n \in SourceNames : given(i, n).flag = Empty
    \/ Cardinality(chosen(i, "flag")) > 1
    \/ chosen(i, "flag") = {} /\ Cardinality(chosen(i, "env")) > 1
ResolveConfigSource(i) == chosen(i, "flag") # {} \/ chosen(i, "env") # {}

configValueOverridden(s) == s.flag # Unset \/ s.env # Unset

fileTargets(i) == IF given(i, "targets").file.is = "value" THEN given(i, "targets").file.v ELSE << >>

parseFails(i, allowCloudflared, allowFullOnly) ==
    \/ i.version \notin {0, 1, 2}
    \/ i.version = 2 /\ i.documents > 1
    \/ i.version # 2 /\ \E k \in DOMAIN fileTargets(i) : fileTargets(i)[k].template
    \/ ~allowCloudflared /\ \E n \in Cloudflared : given(i, n).file # Unset
    \/ ~allowFullOnly /\ \E n \in FullOnly :
          given(i, n).file.is = "value" /\ given(i, n).file.v # Default[n]

\* What the file says of a setting once overridden settings are dropped.
selected(i, n) ==
    IF \/ ~ResolveConfigSource(i)
       \/ n \in OverriddenUnread /\ configValueOverridden(given(i, n))
    THEN Unset
    ELSE given(i, n).file

validOrigin(element) == Len(element) = 1 /\ element[1] # "bad"
validFileOAuthOrigins(origins) == \A k \in DOMAIN origins : validOrigin(origins[k])

Surfaces == {"mcp", "harpoon", "none"}

\* References are resolved for every YAML value of these settings, also for
\* one that a flag or a variable will replace.
toEnvFails(i) ==
    \/ \E n \in EagerReferences : selected(i, n) \in {BadRef, Empty}
    \/ \E n \in {"servers", "commands"} : /\ selected(i, n).is = "value"
                                          /\ \E k \in DOMAIN given(i, n).file.v : given(i, n).file.v[k].to = "badref"
    \/ selected(i, "origins").is = "value" /\ ~validFileOAuthOrigins(given(i, "origins").file.v)
    \/ /\ selected(i, "forwardRequestID") # Unset
       /\ ~(given(i, "forwardRequestID").file.is = "value" /\ given(i, "forwardRequestID").file.v \in Surfaces)
    \/ selected(i, "extraHeaders") = Value("conflict")

\* A YAML list becomes one string whose separators no longer tell an element
\* from a piece of one.
joined(i, n) ==
    LET v == selected(i, n).v IN Value([k \in DOMAIN FlattenSeq(v) |-> <<FlattenSeq(v)[k]>>])

fileEnv(i, n) ==
    CASE n \in EagerReferences /\ selected(i, n) = Ref -> Value("resolved")
      [] n = "origins" /\ selected(i, n).is = "value"  -> joined(i, n)
      [] n = "targets"                                 -> Unset
      [] OTHER                                         -> selected(i, n)

lookupEnv(i, n) == IF given(i, n).env # Unset THEN given(i, n).env ELSE fileEnv(i, n)

(***************************************************************************)
(* The ways a setting is read.                                             *)
(***************************************************************************)
envOrDefault(i, n, d) == IF lookupEnv(i, n).is = "value" THEN lookupEnv(i, n).v ELSE d

\* firstSet(getValue, envOrDefault): an empty flag counts as no flag.
text(i, n, d) == IF given(i, n).flag.is = "value" THEN given(i, n).flag.v ELSE envOrDefault(i, n, d)

\* flag.Changed first: an empty path or list clears what lies below.
changed(i, n, d) == IF given(i, n).flag = Empty THEN d ELSE text(i, n, d)

\* Settings whose empty flag, or empty variable or YAML value, is an error.
flagRequired == {"tunnelID", "forwardRequestID", "pollChannels", "proxy", "mcpProxy"}
lookupRequired == {"tunnelID", "maxInFlight", "apiKey", "forwardRequestID", "pollChannels"}
emptyFails(i) ==
    \/ \E n \in flagRequired : given(i, n).flag = Empty
    \/ \E n \in lookupRequired : given(i, n).flag.is \in {"unset", "empty"} /\ lookupEnv(i, n) = Empty

(***************************************************************************)
(* The control plane: address, credential, timing.                         *)
(***************************************************************************)
PublicBaseURL == "https://api.openai.com"
controlPlaneBaseURLRaw(i) ==
    LET raw == text(i, "baseURL", PublicBaseURL)
    IN  IF text(i, "clientCert", "") # "" /\ raw = PublicBaseURL THEN "https://mtls.api.openai.com" ELSE raw

\* The flag must be a reference; CONTROL_PLANE_API_KEY hides OPENAI_API_KEY.
getControlPlaneAPIKey(i) ==
    CASE given(i, "apiKey").flag = Ref             -> "resolved"
      [] given(i, "apiKey").flag = BadRef          -> "error"
      [] lookupEnv(i, "apiKey") = Empty     -> "error"
      [] lookupEnv(i, "apiKey").is = "value" -> lookupEnv(i, "apiKey").v
      [] given(i, "openaiKey").env = Empty         -> "error"
      [] given(i, "openaiKey").env.is = "value"    -> given(i, "openaiKey").env.v
      [] OTHER                              -> ""

\* An API key, or the workload identity against the public address: not both.
controlPlaneTokenProviderFails(i) ==
    LET key == getControlPlaneAPIKey(i)
    IN  \/ key = "error"
        \/ text(i, "awsIdentity", "") = "" /\ key = ""
        \/ text(i, "awsIdentity", "") # "" /\ (key # "" \/ controlPlaneBaseURLRaw(i) # PublicBaseURL)

pollTimeout(i) == changed(i, "pollTimeout", Default["pollTimeout"])
pollDeadlineGuardrail(i) == changed(i, "guardrail", Default["guardrail"])
maxInFlight(i) == changed(i, "maxInFlight", Default["maxInFlight"])

controlPlaneFails(i) ==
    \/ changed(i, "tunnelID", "") \in {"", "bad"}
    \/ maxInFlight(i) \notin 1..10000
    \/ pollTimeout(i) = 0 \/ pollDeadlineGuardrail(i) = 0
    \/ pollDeadlineGuardrail(i) >= 60
    \/ pollTimeout(i) + pollDeadlineGuardrail(i) > 600
    \/ controlPlaneTokenProviderFails(i)
    \/ changed(i, "extraHeaders", "") \in {"conflict", "reserved"}

pollChannelsConfigured(i) == given(i, "pollChannels").flag # Unset \/ lookupEnv(i, "pollChannels") # Unset
pollChannels(i) == changed(i, "pollChannels", << >>)
pollChannelsFail(i) ==
    LET cs == pollChannels(i)
    IN  pollChannelsConfigured(i) /\ (\/ ~IsInjective(cs)
                                      \/ \E k \in DOMAIN cs : cs[k] \in {"", "MAIN"})

(***************************************************************************)
(* MCP bindings and their proxies.                                         *)
(***************************************************************************)
normalizeChannel(c) == IF c = "" THEN "main" ELSE c
bindingOf(kind, e) ==
    [channel |-> normalizeChannel(e.channel), kind |-> kind, unix |-> e.unix, proxy |-> e.proxy, to |-> e.to]

\* Server entries first; a flag replaces the entries of its own kind only.
parsedBindings(i) ==
    LET of(kind, es) == [k \in DOMAIN es |-> bindingOf(kind, es[k])]
    IN  of("http", changed(i, "servers", << >>)) \o of("stdio", changed(i, "commands", << >>))

addBindingFails(bs) ==
    \/ \E k \in DOMAIN bs : bs[k].channel = "harpoon"
    \/ \E j, k \in DOMAIN bs : j < k /\ bs[j].channel = bs[k].channel

\* A process-owned server takes the place of the main binding, or is added.
withMainServer(i, bs) ==
    LET own == bindingOf("http", [channel |-> "main", unix |-> FALSE, proxy |-> "", to |-> "own"])
    IN  CASE ~i.mainServer -> bs
          [] \E k \in DOMAIN bs : bs[k].channel = "main" ->
                [k \in DOMAIN bs |-> IF bs[k].channel = "main" THEN own ELSE bs[k]]
          [] OTHER -> Append(bs, own)

bindings(i) == withMainServer(i, parsedBindings(i))

globalProxy(i) == text(i, "proxy", "")
bindingProxy(i, b) ==
    CASE b.kind = "stdio" \/ b.unix           -> "ignored"
      [] b.proxy # ""                         -> b.proxy
      [] text(i, "mcpProxy", "") # ""         -> text(i, "mcpProxy", "")
      [] globalProxy(i) # ""                  -> globalProxy(i)
      [] OTHER                                -> "none"

mcpFails(i) ==
    \/ addBindingFails(parsedBindings(i))
    \/ \E k \in DOMAIN parsedBindings(i) : parsedBindings(i)[k].unix /\ parsedBindings(i)[k].proxy # ""
    \/ changed(i, "failurePolicy", "restart") \notin {"restart", "exit"}
    \/ text(i, "mcpCert", "") # "" /\ \A k \in DOMAIN bindings(i) : bindings(i)[k].kind # "http"
    \/ \E k \in DOMAIN changed(i, "origins", << >>) : ~validOrigin(changed(i, "origins", << >>)[k])

(***************************************************************************)
(* Logging, Harpoon targets, poll channels against handlers.               *)
(***************************************************************************)
logFormat(i) ==
    CASE text(i, "logFormat", "") # ""   -> text(i, "logFormat", "")
      [] changed(i, "logFile", "") # ""  -> "struct-text"
      [] OTHER                           -> "unset"
loggingFails(i) == logFormat(i) = "unset" /\ text(i, "logLevel", "info") # "info"

harpoonTargets(i) ==
    IF selected(i, "targets").is = "value" THEN selected(i, "targets").v ELSE changed(i, "targets", << >>)
harpoonFails(i) ==
    \E k \in DOMAIN harpoonTargets(i) :
        LET t == harpoonTargets(i)[k] IN t.to = "badref" \/ (t.to = "http" /\ ~i.allowPlaintext)
suppressRawHTTPLogging(i) == \E k \in DOMAIN harpoonTargets(i) : harpoonTargets(i)[k].rich

handled(i, c) == \E k \in DOMAIN bindings(i) : bindings(i)[k].channel = c
polls(i, c) == \E k \in DOMAIN pollChannels(i) : pollChannels(i)[k] = c
validateConfiguredPollChannelsFails(i) ==
    IF ~pollChannelsConfigured(i) THEN ~handled(i, "main")
    ELSE \E k \in DOMAIN pollChannels(i) :
            IF pollChannels(i)[k] = "harpoon"
            THEN harpoonTargets(i) = << >> /\ ~polls(i, "main")
            ELSE ~handled(i, pollChannels(i)[k])

allowNoMain(i) == pollChannelsConfigured(i) /\ ~polls(i, "main")

(***************************************************************************)
(* The flavors.                                                            *)
(***************************************************************************)
\* Flags and variables a runtime binary refuses before it reads the file.
ignoresFullOnlyVariables(i, allowCloudflared) ==
    \/ \E n \in FullOnly : given(i, n).flag # Unset
    \/ ~allowCloudflared /\ \E n \in Cloudflared : given(i, n).flag # Unset \/ given(i, n).env # Unset
rejectUnsupportedRuntimeSettings(i, allowCloudflared) ==
    \/ \E n \in FullOnly : \/ given(i, n).flag # Unset
                           \/ given(i, n).env.is = "value" /\ given(i, n).env.v # Default[n]
    \/ given(i, "logBuffer").env = Empty
    \/ ~allowCloudflared /\ \E n \in Cloudflared : given(i, n).flag # Unset \/ given(i, n).env # Unset

\* The file's token stays a reference until flag and variable are both unset.
cloudflaredToken(i) ==
    LET resolved(layer) == IF layer = Ref THEN "resolved" ELSE "error"
    IN  CASE given(i, "cfToken").flag \in {Ref, BadRef} -> resolved(given(i, "cfToken").flag)
          [] given(i, "cfToken").env = Empty          -> "error"
          [] given(i, "cfToken").env.is = "value"     -> given(i, "cfToken").env.v
          [] selected(i, "cfToken") # Unset    -> resolved(selected(i, "cfToken"))
          [] OTHER                             -> ""

fullOnlyFails(i) == \/ lookupEnv(i, "logBuffer") = Empty
                    \/ changed(i, "logBuffer", 2000) \notin 1..100000

loadRuntimeFails(i, f) ==
    LET allowCloudflared == f # "runtime" IN
    \/ f # "full" /\ rejectUnsupportedRuntimeSettings(i, allowCloudflared)
    \/ sourceFails(i)
    \/ ResolveConfigSource(i) /\ (parseFails(i, allowCloudflared, f = "full") \/ toEnvFails(i))
    \/ emptyFails(i)
    \/ changed(i, "forwardRequestID", "mcp") \notin Surfaces
    \/ controlPlaneFails(i) \/ pollChannelsFail(i)
    \/ mcpFails(i) \/ loggingFails(i) \/ harpoonFails(i)
    \/ validateConfiguredPollChannelsFails(i)

NotLoaded == [is |-> "notLoaded"]
Failed == [is |-> "failed"]

Shared(i) ==
    [baseURL |-> controlPlaneBaseURLRaw(i), tunnelID |-> changed(i, "tunnelID", ""),
     apiKey |-> getControlPlaneAPIKey(i), maxInFlight |-> maxInFlight(i),
     pollTimeout |-> pollTimeout(i), guardrail |-> pollDeadlineGuardrail(i),
     listenAddr |-> text(i, "listenAddr", Default["listenAddr"]),
     forwardRequestID |-> changed(i, "forwardRequestID", "mcp"),
     extraHeaders |-> changed(i, "extraHeaders", ""),
     failurePolicy |-> changed(i, "failurePolicy", "restart"),
     origins |-> changed(i, "origins", << >>),
     logFile |-> changed(i, "logFile", ""), logFormat |-> logFormat(i),
     targets |-> harpoonTargets(i), suppressRaw |-> suppressRawHTTPLogging(i),
     bindings |-> [k \in DOMAIN bindings(i) |->
                      [bindings(i)[k] EXCEPT !.proxy = bindingProxy(i, bindings(i)[k])]],
     pollChannels |-> pollChannels(i), allowNoMain |-> allowNoMain(i)]

LoadFor(i, f) ==
    IF \/ loadRuntimeFails(i, f)
       \/ f # "runtime" /\ cloudflaredToken(i) = "error"
       \/ f = "full" /\ fullOnlyFails(i)
    THEN Failed
    ELSE [is |-> "loaded", shared |-> Shared(i),
          cfToken |-> IF f = "runtime" THEN "" ELSE cloudflaredToken(i),
          cfManaged |-> f # "runtime" /\ changed(i, "cfManaged", FALSE),
          logBuffer |-> IF f = "full" THEN changed(i, "logBuffer", 2000) ELSE 2000,
          capturePayloads |-> f = "full" /\ changed(i, "capturePayloads", FALSE)]

\* Only the full client can own the main MCP server.
Init == /\ \E k \in DOMAIN Inputs : input \in Inputs[k]
        /\ flavor \in Flavors /\ loaded = NotLoaded
        /\ input.mainServer => flavor = "full"

Load == loaded = NotLoaded /\ loaded' = LoadFor(input, flavor) /\ UNCHANGED <<input, flavor>>

Next == Load

Spec == Init /\ [][Next]_vars

----------------------------------------------------------------------------
Simple == {"tunnelID", "maxInFlight", "pollTimeout", "guardrail", "listenAddr", "forwardRequestID",
           "extraHeaders", "failurePolicy", "origins", "targets", "logFile"}

(***************************************************************************)
(* Load promises that flags take precedence over the environment, the      *)
(* environment over YAML, and defaults apply last.  In a configuration     *)
(* that loads, a setting has the value of its highest layer whenever no    *)
(* layer above is set at all: nothing below shows through, no list element *)
(* is split or merged on its way through the environment string, and an    *)
(* unselected file contributes nothing.                                    *)
(***************************************************************************)
Precedence ==
    loaded.is = "loaded" =>
        \A n \in Simple :
            LET s == given(input, n)
                file == IF ResolveConfigSource(input) THEN s.file ELSE Unset
                got == loaded.shared[n]
            IN  CASE s.flag.is = "value" -> got = s.flag.v
                  [] s.flag = Unset /\ s.env.is = "value" -> got = s.env.v
                  [] s.flag = Unset /\ s.env = Unset /\ file.is = "value" -> got = file.v
                  [] s.flag = Unset /\ s.env = Unset /\ file = Ref -> got = "resolved"
                  [] OTHER -> s.env = Empty \/ s.flag = Empty \/ got = Default[n]

(***************************************************************************)
(* Every channel a loaded configuration polls has exactly one local        *)
(* handler: one MCP binding, or for harpoon a target or a polled main      *)
(* channel that can discover one; no binding claims the reserved channel,  *)
(* and main is bound unless the configuration says it may be missing.      *)
(***************************************************************************)
RoutableChannels ==
    loaded.is = "loaded" =>
        LET c == loaded.shared
            bound(ch) == Cardinality({k \in DOMAIN c.bindings : c.bindings[k].channel = ch})
        IN  /\ \A k \in DOMAIN c.bindings : bound(c.bindings[k].channel) = 1
            /\ bound("harpoon") = 0
            /\ c.allowNoMain \/ bound("main") = 1
            /\ \A k \in DOMAIN c.pollChannels :
                  IF c.pollChannels[k] = "harpoon" THEN c.targets # << >> \/ bound("main") = 1
                                                   ELSE bound(c.pollChannels[k]) = 1

(***************************************************************************)
(* The smaller binaries may only refuse more: what a runtime flavor loads, *)
(* the full client loads too, to the same configuration, and the settings  *)
(* only the full client has are then at their defaults, so that no setting *)
(* an operator gave is silently without effect.                            *)
(***************************************************************************)
FlavorsAgree ==
    loaded.is = "loaded" =>
        \A f \in Flavors : (flavor = "runtime" \/ f = "full") => LoadFor(input, f) = loaded
=============================================================================
