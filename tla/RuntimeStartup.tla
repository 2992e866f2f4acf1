--------------------------- MODULE RuntimeStartup ---------------------------
(***************************************************************************)
(* The start and the stop of the runtime: the goroutines that the fx hooks *)
(* of pkg/controlplane/fx, pkg/mcpclient, pkg/oauth and pkg/runtimeharpoon *)
(* start, and the gates through which they wait for one another.           *)
(*                                                                         *)
(*   poller     waits for the MCP probe (when the operator asked for it),  *)
(*              then for the startup catalog, then polls                   *)
(*   probe      connects to the main MCP server, retrying unavailability   *)
(*   oauth      discovers the OAuth metadata and publishes its URLs        *)
(*   registrar  registers published URLs as Harpoon targets                *)
(*                                                                         *)
(* URL bundles travel over a bounded host bus.  The bundle of the startup  *)
(* discovery is acknowledged once its targets are registered; the bundles  *)
(* of later OAuth commands are fire-and-forget.                            *)
(***************************************************************************)
EXTENDS Naturals, Sequences

CONSTANTS Later,        \* bundles published by OAuth commands
          BusCapacity   \* slots of the subscriber channel

ASSUME BusCapacityAssumption == BusCapacity \in Nat \ {0}

(* The names of the startup bundle are not those of later bundles. *)
ASSUME LaterAssumption == {"startup", "empty"} \cap Later = {}

VARIABLES
  config,          \* the configuration the runtime starts with
  started,         \* OnStart hooks run so far
  stopped,         \* OnStop hooks run so far
  probe,           \* where the probe loop is
  dial,            \* the goroutine of the current connect attempt
  sessions,        \* MCP sessions the probe opened and did not close
  probeState,      \* ProbeState
  oauth,           \* where the discovery goroutine is
  oauthState,      \* DiscoveryState
  catalog,         \* StartupCatalogState
  bus,             \* the subscriber channel
  closed,          \* the bus was closed
  ack,             \* the acknowledgement of the startup publication
  registrar,       \* where the registrar is, and the bundle it handles
  startupPending,  \* the registrar still waits for the startup bundle
  pending,         \* bundles it holds back until then
  registry,        \* bundles whose targets are registered
  digest,          \* startupCatalogDigestState
  poller,          \* where the poller goroutine is
  later            \* where the publisher of each later bundle is

probeVars == <<probe, dial, sessions, probeState>>
registrarVars == <<registrar, startupPending, pending, registry, digest>>
busVars == <<bus, closed, ack>>
vars == <<config, started, stopped, probeVars, oauth, oauthState, catalog, busVars,
          registrarVars, poller, later>>

-----------------------------------------------------------------------------
(* Hooks start in this order and stop in the reverse order. *)
Hooks == <<"poller", "probe", "oauth", "registrar">>

(* The context of a component is cancelled by its OnStop hook. *)
cancelled(h) == \E i \in 1..Len(Hooks) : Hooks[i] = h /\ i > Len(Hooks) - stopped

(* The first result of a one-shot state wins. *)
Once(state, result) == IF state = "pending" THEN result ELSE state

requiresStartupCatalog == config.acknowledges /\ ~config.scoped

Bundle(name, acked) == [name |-> name, acked |-> acked]

NoBundle == Bundle("none", FALSE)

(* The scope of the polls only matters on a bus that acknowledges. *)
Configs ==
  {c \in [main : {"none", "stdio", "http"},  \* the main channel
          waits : BOOLEAN,                   \* StartupWaitTimeout > 0
          scoped : BOOLEAN,                  \* poll channels without harpoon
          acknowledges : BOOLEAN] :          \* the bus acknowledges
     c.scoped => c.acknowledges}

Init ==
  /\ config \in Configs
  /\ started = 0 /\ stopped = 0
  /\ probe = "off" /\ dial = "none" /\ sessions = 0
  /\ probeState = (IF config.main = "http" THEN "pending" ELSE "ok")
  /\ oauth = "off" /\ oauthState = "pending" /\ catalog = "pending"
  /\ bus = <<>> /\ closed = FALSE /\ ack = "none"
  /\ registrar = [at |-> "off", bundle |-> NoBundle, capture |-> FALSE]
  /\ startupPending = TRUE /\ pending = <<>> /\ registry = {}
  /\ digest = [captured |-> FALSE, failed |-> FALSE, of |-> {}]
  /\ poller = "off"
  /\ later = [b \in Later |-> "idle"]

-----------------------------------------------------------------------------
(* OnStart hooks. *)
StartPoller ==
  /\ poller' = "waitProbe"
  /\ UNCHANGED <<probeVars, oauth, oauthState, catalog, registrarVars>>

StartProbe ==
  /\ probe' = (IF config.main = "http" THEN "loop" ELSE "done")
  /\ UNCHANGED <<dial, sessions, probeState, oauth, oauthState, catalog, registrarVars, poller>>

(* Without an HTTP main channel there is nothing to discover: the empty *)
(* catalog is published from a goroutine of its own. A bus that cannot  *)
(* acknowledge settles the startup catalog with a failure.              *)
StartOAuth ==
  /\ catalog' = (IF config.acknowledges THEN catalog ELSE Once(catalog, "failed"))
  /\ IF config.main = "http"
     THEN oauth' = "waitProbe" /\ UNCHANGED oauthState
     ELSE /\ oauthState' = (IF config.main = "none" THEN "ok" ELSE "optional")
          /\ oauth' = (IF config.acknowledges THEN "publishEmpty" ELSE "done")
  /\ UNCHANGED <<probeVars, registrarVars, poller>>

StartRegistrar ==
  /\ registrar' = [registrar EXCEPT !.at = "loop"]
  /\ UNCHANGED <<probeVars, oauth, oauthState, catalog, startupPending, pending, registry,
                 digest, poller>>

Start ==
  /\ started < Len(Hooks) /\ stopped = 0
  /\ started' = started + 1
  /\ \/ Hooks[started'] = "poller" /\ StartPoller
     \/ Hooks[started'] = "probe" /\ StartProbe
     \/ Hooks[started'] = "oauth" /\ StartOAuth
     \/ Hooks[started'] = "registrar" /\ StartRegistrar
  /\ UNCHANGED <<config, stopped, busVars, later>>

(* An OnStop hook cancels its context; the registrar's also closes the bus. *)
Stop ==
  /\ started = Len(Hooks) /\ stopped < Len(Hooks)
  /\ stopped' = stopped + 1
  /\ closed' = (closed \/ Hooks[Len(Hooks) - stopped] = "registrar")
  /\ UNCHANGED <<config, started, probeVars, oauth, oauthState, catalog, bus, ack,
                 registrarVars, poller, later>>

-----------------------------------------------------------------------------
(* The startup probe. An attempt has its own goroutine, which hands its    *)
(* result over or, when nobody waits for it any more, closes the session.  *)
retryableProbe(result) ==
  result = "unavailable" \/ (result = "refused" /\ config.waits)

notProbe == <<config, started, stopped, oauth, oauthState, catalog, busVars, registrarVars, poller, later>>

(* The top of the retry loop. *)
ProbeAttempt ==
  /\ probe = "loop" /\ dial = "none"
  /\ ~cancelled("probe")
  /\ probe' = "attempt" /\ dial' = "dialing"
  /\ UNCHANGED <<sessions, probeState, notProbe>>

(* Cancellation ends the loop without a result, at its top, in an attempt *)
(* or in the wait before the next one.                                    *)
ProbeCancelled ==
  /\ probe \in {"loop", "attempt", "backoff"}
  /\ cancelled("probe")
  /\ probe' = "done"
  /\ UNCHANGED <<dial, sessions, probeState, notProbe>>

(* recordStartupWaitTimeout: the absolute deadline of the opt-in wait. *)
StartupWaitExpires ==
  /\ config.waits
  /\ probe \in {"loop", "attempt", "backoff"}
  /\ probeState' = Once(probeState, "waitTimeout")
  /\ probe' = "done"
  /\ UNCHANGED <<dial, sessions, notProbe>>

ProbeTimesOut ==
  /\ probe = "attempt"
  /\ ~cancelled("probe")
  /\ probeState' = Once(probeState, "timeout")
  /\ probe' = "done"
  /\ UNCHANGED <<dial, sessions, notProbe>>

(* The server's answer to the connect attempt (external). *)
Connect ==
  /\ dial = "dialing"
  /\ \E result \in {"ok", "auth", "unavailable", "refused", "failed"} :
       /\ dial' = result
       /\ sessions' = (IF result = "ok" THEN sessions + 1 ELSE sessions)
  /\ UNCHANGED <<probe, probeState, notProbe>>

(* The loop receives the result: it records it, or waits for another try. *)
ProbeResult ==
  /\ probe = "attempt"
  /\ dial \notin {"none", "dialing"}
  /\ dial' = "none"
  /\ IF retryableProbe(dial)
     THEN probe' = "backoff" /\ UNCHANGED probeState
     ELSE /\ probeState' = Once(probeState, IF dial \in {"ok", "auth"} THEN dial ELSE "failed")
          /\ probe' = (IF dial = "ok" THEN "closing" ELSE "done")
  /\ UNCHANGED <<sessions, notProbe>>

ProbeBackoff ==
  /\ probe = "backoff"
  /\ probe' = "loop"
  /\ UNCHANGED <<dial, sessions, probeState, notProbe>>

ProbeCloses ==
  /\ probe = "closing"
  /\ sessions' = sessions - 1
  /\ probe' = "done"
  /\ UNCHANGED <<dial, probeState, notProbe>>

(* Mutant: the late session is dropped without being closed. *)
DeliverLateUnclosed ==
  /\ probe = "done"
  /\ dial \notin {"none", "dialing"}
  /\ dial' = "none"
  /\ UNCHANGED <<sessions, probe, probeState, notProbe>>

(* deliverStartupProbeResult after the attempt was given up. *)
DeliverLate ==
  /\ probe = "done"
  /\ dial \notin {"none", "dialing"}
  /\ sessions' = (IF dial = "ok" THEN sessions - 1 ELSE sessions)
  /\ dial' = "none"
  /\ UNCHANGED <<probe, probeState, notProbe>>

ProbeSteps == ProbeAttempt \/ ProbeCancelled \/ StartupWaitExpires \/ ProbeTimesOut
              \/ ProbeResult \/ ProbeBackoff \/ ProbeCloses
DialSteps == Connect \/ DeliverLate

-----------------------------------------------------------------------------
(* OAuth discovery. The results of its HTTP requests are external. *)
CandidateOutcomes == {"found", "error"}
MetadataOutcomes == {"fetched", "retryable", "optional", "error"}
BundleOutcomes == {"built", "retryable", "error"}

notOAuth == <<config, started, stopped, probeVars, registrarVars, poller, later>>

Return == oauth' = "done" /\ UNCHANGED <<oauthState, catalog, busVars, notOAuth>>

OAuthWaitsForProbe ==
  /\ oauth = "waitProbe"
  /\ \/ /\ ~config.waits \/ probeState # "pending"
        /\ oauth' = "fetch"
        /\ UNCHANGED <<oauthState, catalog, busVars, notOAuth>>
     \/ config.waits /\ cancelled("oauth") /\ Return

(* A cancelled fetch returns and leaves both states pending. *)
FetchCancelled == oauth \in {"fetch", "retry"} /\ cancelled("oauth") /\ Return

(* One discovery sequence. It settles the discovery state before it *)
(* publishes or settles the catalog.                                *)
Discover ==
  /\ oauth = "fetch"
  /\ \E candidates \in CandidateOutcomes, metadata \in MetadataOutcomes,
        bundle \in BundleOutcomes :
       \/ /\ candidates = "error" \/ metadata = "error"
             \/ (metadata = "fetched" /\ bundle = "error")
          /\ oauthState' = Once(oauthState, "failed") /\ oauth' = "fail"
       \/ /\ candidates = "found" /\ metadata = "optional"
          /\ oauthState' = Once(oauthState, "optional")
          /\ oauth' = (IF config.acknowledges THEN "publishEmpty" ELSE "done")
       \/ /\ candidates = "found" /\ metadata = "fetched" /\ bundle = "built"
          /\ oauthState' = Once(oauthState, "ok") /\ oauth' = "publishStartup"
       \/ /\ candidates = "found"
          /\ metadata = "retryable" \/ (metadata = "fetched" /\ bundle = "retryable")
          /\ oauth' = "retry" /\ UNCHANGED oauthState
  /\ UNCHANGED <<catalog, busVars, notOAuth>>

(* A wait that loses the race with the cancellation fetches once more, and *)
(* that fetch is cancelled.                                                *)
RetryDiscovery ==
  /\ oauth = "retry" /\ ~cancelled("oauth")
  /\ oauth' = "fetch"
  /\ UNCHANGED <<oauthState, catalog, busVars, notOAuth>>

CompleteCatalog(result) ==
  /\ catalog' = Once(catalog, result)
  /\ oauth' = "done"
  /\ UNCHANGED <<oauthState, busVars, notOAuth>>

DiscoveryFails == oauth = "fail" /\ CompleteCatalog("failed")

(* Mutant: the catalog is complete once its bundle is delivered. *)
PublishWithoutWaiting ==
  /\ oauth \in {"publishEmpty", "publishStartup"}
  /\ Len(bus) < BusCapacity
  /\ bus' = Append(bus, Bundle(IF oauth = "publishEmpty" THEN "empty" ELSE "startup",
                               config.acknowledges))
  /\ oauth' = "done" /\ catalog' = Once(catalog, "ok")
  /\ UNCHANGED <<oauthState, closed, ack, notOAuth>>

(* publish: the select over the closed bus, the context and the channel. *)
PublishStartup ==
  /\ oauth \in {"publishEmpty", "publishStartup"}
  /\ Len(bus) < BusCapacity
  /\ bus' = Append(bus, Bundle(IF oauth = "publishEmpty" THEN "empty" ELSE "startup",
                               config.acknowledges))
  /\ IF config.acknowledges
     THEN oauth' = "await" /\ UNCHANGED catalog
     ELSE oauth' = "done" /\ catalog' = Once(catalog, "ok")
  /\ UNCHANGED <<oauthState, closed, ack, notOAuth>>

(* Without an acknowledging bus the publication has a timeout of its own. *)
PublishFails ==
  /\ oauth \in {"publishEmpty", "publishStartup"}
  /\ closed \/ cancelled("oauth") \/ ~config.acknowledges
  /\ CompleteCatalog("failed")

(* PublishAndWait prefers an acknowledgement to the end of its context. *)
AwaitAck ==
  /\ oauth = "await"
  /\ \/ ack # "none" /\ CompleteCatalog(IF ack = "ok" THEN "ok" ELSE "failed")
     \/ ack = "none" /\ (closed \/ cancelled("oauth")) /\ CompleteCatalog("failed")

OAuthSteps == OAuthWaitsForProbe \/ FetchCancelled \/ Discover \/ RetryDiscovery
              \/ DiscoveryFails \/ PublishStartup \/ PublishFails \/ AwaitAck

-----------------------------------------------------------------------------
(* The registrar, the only consumer of the bus. *)
notRegistrar == <<config, started, stopped, probeVars, oauth, oauthState, catalog, closed, poller, later>>

flushing == ~startupPending /\ pending # <<>>

Acknowledge(bundle, result) == ack' = (IF bundle.acked THEN result ELSE ack)

RegistrarReturns ==
  /\ registrar.at = "loop" /\ ~flushing
  /\ cancelled("registrar")
  /\ registrar' = [registrar EXCEPT !.at = "done"]
  /\ UNCHANGED <<startupPending, pending, registry, digest, bus, ack, notRegistrar>>

(* startupDone: a hard startup failure publishes no bundle. *)
StartupSettled ==
  /\ registrar.at = "loop" /\ startupPending
  /\ catalog # "pending" /\ ~cancelled("registrar")
  /\ startupPending' = FALSE
  /\ UNCHANGED <<registrar, pending, registry, digest, bus, ack, notRegistrar>>

(* Mutant: ordinary bundles are not held back. *)
ReceiveInOrder ==
  /\ registrar.at = "loop" /\ ~flushing /\ ~cancelled("registrar")
  /\ bus # <<>>
  /\ registrar' = [at |-> "process", bundle |-> Head(bus), capture |-> startupPending /\ Head(bus).acked]
  /\ bus' = Tail(bus)
  /\ UNCHANGED <<pending, ack, startupPending, registry, digest, notRegistrar>>

(* An ordinary bundle that overtakes the startup bundle is held back. *)
ReceiveBundle ==
  /\ registrar.at = "loop" /\ ~flushing
  /\ bus # <<>>
  /\ LET bundle == Head(bus)
     IN  \/ /\ cancelled("registrar")
            /\ Acknowledge(bundle, "err")
            /\ registrar' = [registrar EXCEPT !.at = "done"]
            /\ UNCHANGED pending
         \/ /\ ~cancelled("registrar") /\ startupPending /\ ~bundle.acked
            /\ pending' = Append(pending, bundle)
            /\ UNCHANGED <<registrar, ack>>
         \/ /\ ~cancelled("registrar") /\ (startupPending => bundle.acked)
            /\ registrar' = [at |-> "process", bundle |-> bundle, capture |-> startupPending]
            /\ UNCHANGED <<pending, ack>>
  /\ bus' = Tail(bus)
  /\ UNCHANGED <<startupPending, registry, digest, notRegistrar>>

FlushPending ==
  /\ registrar.at = "loop" /\ flushing
  /\ registrar' = [at |-> "process", bundle |-> Head(pending), capture |-> FALSE]
  /\ pending' = Tail(pending)
  /\ UNCHANGED <<startupPending, registry, digest, bus, ack, notRegistrar>>

(* registerHostBundle: records it cannot register are skipped. *)
RegisterBundle ==
  /\ registrar.at = "process"
  /\ ~cancelled("registrar")
  /\ registry' = registry \cup ({registrar.bundle.name} \ {"empty"})
  /\ registrar' = [registrar EXCEPT !.at = "ack"]
  /\ UNCHANGED <<startupPending, pending, digest, bus, ack, notRegistrar>>

(* processBundle is done with a bundle. *)
NextBundle ==
  /\ registrar' = [at |-> "loop", bundle |-> NoBundle, capture |-> FALSE]
  /\ startupPending' = (startupPending /\ ~registrar.capture)
  /\ UNCHANGED <<pending, registry, bus, notRegistrar>>

(* Capture computes the digest of the registry, once; it may fail. *)
AcknowledgeBundle ==
  /\ registrar.at = "ack"
  /\ ~cancelled("registrar")
  /\ IF registrar.capture
     THEN \E failed \in BOOLEAN :
            /\ digest' = [captured |-> TRUE, failed |-> failed, of |-> registry]
            /\ Acknowledge(registrar.bundle, IF failed THEN "err" ELSE "ok")
     ELSE Acknowledge(registrar.bundle, "ok") /\ UNCHANGED digest
  /\ NextBundle

(* A cancelled registrar acknowledges with the context's error. *)
AbandonBundle ==
  /\ registrar.at \in {"process", "ack"}
  /\ cancelled("registrar")
  /\ Acknowledge(registrar.bundle, "err")
  /\ UNCHANGED digest
  /\ NextBundle

RegistrarSteps == RegistrarReturns \/ StartupSettled \/ ReceiveBundle \/ FlushPending
                  \/ RegisterBundle \/ AcknowledgeBundle \/ AbandonBundle

-----------------------------------------------------------------------------
(* The poller. *)
PollerMoves(to) ==
  /\ poller' = to
  /\ UNCHANGED <<config, started, stopped, probeVars, oauth, oauthState, catalog, busVars,
                 registrarVars, later>>

(* Mutant: polling needs a probe that succeeded. *)
waitForSuccessfulProbe ==
  /\ poller = "waitProbe"
  /\ \/ ~config.waits /\ PollerMoves("waitCatalog")
     \/ config.waits /\ probeState # "pending"
        /\ PollerMoves(IF probeState = "ok" THEN "waitCatalog" ELSE "done")
     \/ config.waits /\ cancelled("poller") /\ PollerMoves("done")

(* Fail-open: whatever the probe recorded, polling may start. *)
waitForMCPStartupBeforePolling ==
  /\ poller = "waitProbe"
  /\ \/ (~config.waits \/ probeState # "pending") /\ PollerMoves("waitCatalog")
     \/ config.waits /\ cancelled("poller") /\ PollerMoves("done")

(* Fail-closed: a failed catalog disables polling for good. *)
waitForStartupCatalogBeforePolling ==
  /\ poller = "waitCatalog"
  /\ requiresStartupCatalog => catalog # "pending" \/ cancelled("poller")
  /\ PollerMoves(IF cancelled("poller") \/ (requiresStartupCatalog /\ catalog # "ok")
                 THEN "done" ELSE "polling")

PollerReturns == poller = "polling" /\ cancelled("poller") /\ PollerMoves("done")

PollerSteps == waitForMCPStartupBeforePolling \/ waitForStartupCatalogBeforePolling
               \/ PollerReturns

(* An OAuth command that was polled publishes its bundle. *)
notLater == <<config, started, stopped, probeVars, oauth, oauthState, catalog, closed, ack,
              registrarVars, poller>>

OAuthCommand(b) ==
  /\ poller = "polling" /\ later[b] = "idle"
  /\ later' = [later EXCEPT ![b] = "publishing"]
  /\ UNCHANGED <<bus, notLater>>

Publish(b) ==
  /\ later[b] = "publishing"
  /\ Len(bus) < BusCapacity
  /\ bus' = Append(bus, Bundle(b, FALSE))
  /\ later' = [later EXCEPT ![b] = "published"]
  /\ UNCHANGED notLater

(* The bus was closed, or the context of the command ended. *)
PublishGivesUp(b) ==
  /\ later[b] = "publishing"
  /\ later' = [later EXCEPT ![b] = "given up"]
  /\ UNCHANGED <<bus, notLater>>

LaterSteps == \E b \in Later : OAuthCommand(b) \/ Publish(b) \/ PublishGivesUp(b)

Next == Start \/ Stop \/ ProbeSteps \/ DialSteps \/ OAuthSteps \/ RegistrarSteps \/ PollerSteps \/ LaterSteps

Spec == Init /\ [][Next]_vars

(* Goroutines are scheduled, requests and waits have timeouts, and a stop *)
(* that began goes on. Nothing forces a stop or an OAuth command, and the *)
(* server may answer every probe or fetch with unavailability.            *)
Fairness ==
  /\ WF_vars(Start) /\ WF_vars(stopped > 0 /\ Stop)
  /\ WF_vars(ProbeSteps) /\ WF_vars(DialSteps)
  /\ WF_vars(OAuthSteps) /\ WF_vars(RegistrarSteps)
  /\ WF_vars(PollerSteps)
  /\ \A b \in Later : WF_vars(Publish(b) \/ PublishGivesUp(b))

FairSpec == Spec /\ Fairness
-----------------------------------------------------------------------------
(* What readinessStatus and the startup catalog gate report. *)
Ready ==
  /\ requiresStartupCatalog => catalog = "ok"
  /\ oauthState \in {"ok", "optional"}
  /\ probeState \in {"ok", "auth", "timeout"}

(* Types of the startup state: every field holds a value the code gives it *)
(* and the startup publication is the only acknowledged bundle.            *)
TypeOK ==
  /\ config \in Configs
  /\ started \in 0..Len(Hooks) /\ stopped \in 0..Len(Hooks)
  /\ probe \in {"off", "loop", "attempt", "backoff", "closing", "done"}
  /\ dial \in {"none", "dialing", "ok", "auth", "unavailable", "refused", "failed"}
  /\ sessions \in 0..1
  /\ probeState \in {"pending", "ok", "auth", "timeout", "waitTimeout", "failed"}
  /\ oauthState \in {"pending", "ok", "optional", "failed"}
  /\ catalog \in {"pending", "ok", "failed"}
  /\ Len(bus) <= BusCapacity /\ closed \in BOOLEAN
  /\ ack \in {"none", "ok", "err"}
  /\ registry \subseteq Later \cup {"startup"}

(* The first poll of a runtime that must wait for its catalog starts with  *)
(* every discovered target registered and the digest of the catalog        *)
(* captured (waitForStartupCatalogBeforePolling): the polled Harpoon work  *)
(* never meets a registry that is still being filled.                      *)
FirstPollSeesCatalog ==
  (poller = "polling" /\ requiresStartupCatalog) =>
     /\ oauthState = "ok" /\ config.main = "http" => "startup" \in registry
     /\ digest.captured /\ ~digest.failed

(* The digest covers the startup catalog only: a bundle of an OAuth command *)
(* that overtook discovery on the bus is never in it, and what discovery    *)
(* published always is (pending and captureStartup in StartHostRegistration).*)
DigestIsStartupCatalog ==
  /\ digest.of \cap Later = {}
  /\ catalog = "ok" /\ oauthState = "ok" /\ config.main = "http" => digest.of = {"startup"}

(* A runtime that reports ready polls, unless it is stopped first: the     *)
(* readiness of the health endpoint and the gates of the poller agree.     *)
ReadyIsServed == Ready ~> (poller = "polling" \/ stopped > 0)

(* Once the startup catalog is settled, each bundle an OAuth command       *)
(* published is registered, whether it was held back before or came later. *)
LaterBundlesRegistered ==
  \A b \in Later : (later[b] = "published" /\ catalog # "pending")
                     ~> (b \in registry \/ stopped > 0)

(* A stop ends every goroutine, whatever it waits for, and leaves no MCP   *)
(* session of the probe open: no publisher hangs on a registrar that has   *)
(* gone, no connect result is stranded.                                    *)
StopReleasesAll ==
  (stopped > 0) ~> /\ probe = "done" /\ dial = "none" /\ sessions = 0
                   /\ oauth = "done" /\ registrar.at = "done"
                   /\ poller = "done"
                   /\ \A b \in Later : later[b] # "publishing"

(* A runtime without discovery (no main channel, or a stdio one) becomes   *)
(* ready without a request: its empty catalog is published and registered, *)
(* unless the digest cannot be computed or the runtime is stopped.         *)
StaticCatalogSettles ==
  config.main # "http" ~> (Ready \/ digest.failed \/ stopped > 0)

(* A start comes to its end: a static catalog settles without a request, a *)
(* runtime that reports ready polls, and bundles published later are       *)
(* registered.                                                             *)
StartupCompletes == StaticCatalogSettles /\ ReadyIsServed /\ LaterBundlesRegistered
=============================================================================
