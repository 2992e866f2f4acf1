------------------------ MODULE RuntimeStartupProofs ------------------------
(***************************************************************************)
(* Proofs about RuntimeStartup: what the first poll finds in the registry, *)
(* and what the digest of the startup catalog covers, for any number of    *)
(* later bundles and any capacity of the bus.                              *)
(*                                                                         *)
(* Both follow the one acknowledged bundle.  It is published at most once, *)
(* it is on the bus, or with the registrar, or acknowledged, and while the *)
(* registrar waits for it nothing else is registered.                      *)
(***************************************************************************)
EXTENDS RuntimeStartup, TLAPS

(* What discovery has to publish, once it has settled. *)
StartupName == IF oauthState = "ok" /\ config.main = "http" THEN "startup" ELSE "empty"

Targets(name) == {name} \ {"empty"}

Bundles == [name : Later \cup {"startup", "empty", "none"}, acked : BOOLEAN]

Places == {"off", "loop", "process", "ack", "done"}

Shapes ==
  /\ config \in Configs
  /\ bus \in Seq(Bundles) /\ pending \in Seq(Bundles)
  /\ registrar \in [at : Places, bundle : Bundles, capture : BOOLEAN]
  /\ startupPending \in BOOLEAN
  /\ digest \in [captured : BOOLEAN, failed : BOOLEAN,
                 of : SUBSET (Later \cup {"startup", "empty", "none"})]

(* The discovery goroutine: what each of its places says of the results. *)
Discovery ==
  /\ started \in Nat /\ (started < 3 <=> oauth = "off")
  /\ oauth = "off" => catalog = "pending" /\ oauthState = "pending"
  /\ oauth \in {"waitProbe", "fetch", "retry"} => config.main = "http" /\ oauthState = "pending"
  /\ oauth = "publishStartup" => StartupName = "startup"
  /\ oauth = "publishEmpty" => StartupName = "empty"
  /\ oauth = "await" => config.acknowledges
  /\ config.acknowledges /\ oauth # "done" => catalog = "pending"
  /\ ~config.acknowledges /\ oauth # "off" => catalog = "failed"

Published == oauth \in {"await", "done"}

(* The acknowledged bundle is neither on the bus nor with the registrar. *)
NoneOut == ~registrar.bundle.acked /\ \A i \in 1..Len(bus) : ~bus[i].acked

(* The acknowledged bundle, from its publication to its acknowledgement. *)
Acknowledged ==
  /\ \A i \in 1..Len(bus) : bus[i].acked => bus[i].name = StartupName
  /\ registrar.bundle.acked => registrar.bundle.name = StartupName
  /\ \A i, j \in 1..Len(bus) : bus[i].acked /\ bus[j].acked => i = j
  /\ registrar.bundle.acked => \A i \in 1..Len(bus) : ~bus[i].acked
  /\ \A i \in 1..Len(pending) : ~pending[i].acked
  /\ ~Published => NoneOut /\ ack = "none" /\ (config.acknowledges => startupPending)
  /\ ack # "none" => NoneOut
  /\ ~startupPending /\ catalog = "pending" => NoneOut

(* The registrar: while it waits for the startup bundle, that is the only *)
(* one it registers.                                                      *)
Registration ==
  /\ registrar.at \in {"off", "loop", "done"} => registrar.bundle = NoBundle /\ ~registrar.capture
  /\ registrar.at = "off" <=> started < 4
  /\ registrar.capture => registrar.bundle.acked /\ startupPending
  /\ registrar.at \in {"process", "ack"} /\ startupPending => registrar.capture
  /\ startupPending => registry = (IF registrar.at = "ack" THEN Targets(registrar.bundle.name) ELSE {})

(* The digest, and who may rely on it. *)
Captured ==
  /\ ~digest.captured => digest.of = {}
  /\ digest.captured => /\ ~startupPending /\ Published
                        /\ digest.of = Targets(StartupName) /\ digest.of \subseteq registry
  /\ ack = "ok" /\ catalog = "pending" => digest.captured /\ ~digest.failed
  /\ catalog = "ok" => digest.captured /\ ~digest.failed
  /\ poller = "polling" /\ requiresStartupCatalog => catalog = "ok"

(* The inductive invariant of the startup: where the acknowledged bundle of *)
(* the startup discovery is, and what has been registered when it arrives   *)
(* (StartHostRegistration, PublishAndWait, completeStartupCatalog).         *)
StartupInv == Shapes /\ Discovery /\ Acknowledged /\ Registration /\ Captured

relevant == <<config, started, oauth, oauthState, catalog, bus, ack, registrarVars, poller>>

LEMMA StartupInit == Init => StartupInv
<1>. SUFFICES ASSUME Init PROVE StartupInv
  OBVIOUS
<1>1. bus = <<>> /\ pending = <<>> /\ <<>> \in Seq(Bundles) /\ Len(<<>>) = 0
  BY DEF Init
<1>2. NoBundle \in Bundles /\ ~NoBundle.acked
  BY DEF NoBundle, Bundle, Bundles
<1>3. Shapes
  BY <1>1, <1>2 DEF Init, Shapes, Places
<1>4. Discovery
  BY DEF Init, Discovery
<1>5. NoneOut
  BY <1>1, <1>2 DEF Init, NoneOut
<1>6. Acknowledged
  BY <1>1, <1>2, <1>5 DEF Init, Acknowledged, Published
<1>7. Registration
  BY DEF Init, Registration
<1>8. Captured
  BY DEF Init, Captured
<1>. QED
  BY <1>3, <1>4, <1>6, <1>7, <1>8 DEF StartupInv

(* Steps of the probe, of the stop hooks and stuttering steps. *)
LEMMA StartupIrrelevant ==
  ASSUME StartupInv, UNCHANGED relevant
  PROVE  StartupInv'
BY DEF StartupInv, Shapes, Discovery, Acknowledged, Registration, Captured, relevant,
   registrarVars, StartupName, Published, NoneOut, requiresStartupCatalog

(* Hooks[started'] in Start names the hook by its number. *)
LEMMA HookNumbers ==
  /\ Len(Hooks) = 4
  /\ Hooks[1] = "poller" /\ Hooks[2] = "probe" /\ Hooks[3] = "oauth" /\ Hooks[4] = "registrar"
BY DEF Hooks

LEMMA StartupStart ==
  ASSUME StartupInv, Start
  PROVE  StartupInv'
<1>. USE DEF StartupInv
<1>1. started \in 0..3 /\ started' = started + 1 /\ UNCHANGED <<config, bus, ack>>
  BY HookNumbers DEF Start, Discovery, busVars
<1>2. CASE Hooks[started'] = "poller" /\ StartPoller
  <2>1. started' = 1
    BY <1>1, <1>2, HookNumbers
  <2>2. /\ UNCHANGED <<config, oauth, oauthState, catalog, bus, ack, registrarVars>>
        /\ poller' = "waitProbe"
    BY <1>1, <1>2 DEF StartPoller
  <2>. QED
    BY <1>1, <2>1, <2>2 DEF Shapes, Discovery, Acknowledged, Registration, Captured,
       registrarVars, StartupName, Published, NoneOut, requiresStartupCatalog
<1>3. CASE Hooks[started'] = "probe" /\ StartProbe
  <2>1. started' = 2
    BY <1>1, <1>3, HookNumbers
  <2>2. UNCHANGED <<config, oauth, oauthState, catalog, bus, ack, registrarVars, poller>>
    BY <1>1, <1>3 DEF StartProbe
  <2>. QED
    BY <1>1, <2>1, <2>2 DEF Shapes, Discovery, Acknowledged, Registration, Captured,
       registrarVars, StartupName, Published, NoneOut, requiresStartupCatalog
<1>4. CASE Hooks[started'] = "oauth" /\ StartOAuth
  <2>1. started = 2 /\ started' = 3
    BY <1>1, <1>4, HookNumbers
  <2>2. /\ UNCHANGED <<config, bus, ack, registrarVars, poller>>
        /\ oauth = "off" /\ catalog = "pending" /\ oauthState = "pending"
        /\ config.acknowledges \in BOOLEAN
    BY <1>1, <1>4, <2>1 DEF StartOAuth, Discovery, Shapes, Configs
  <2>3. /\ config.acknowledges => catalog' = "pending"
        /\ ~config.acknowledges => catalog' = "failed"
        /\ oauth' \in {"waitProbe", "publishEmpty", "done"}
        /\ oauth' = "waitProbe" => config.main = "http" /\ oauthState' = "pending"
        /\ oauth' = "publishEmpty" => config.acknowledges /\ config.main # "http"
        /\ oauth' = "done" => ~config.acknowledges
    BY <1>4, <2>2 DEF StartOAuth, Once
  <2>4. NoneOut /\ ack = "none" /\ ~digest.captured
    BY <2>2 DEF Acknowledged, Captured, Published
  <2>5. NoneOut' /\ ack' = "none" /\ ~digest'.captured
    BY <2>2, <2>4 DEF NoneOut, registrarVars
  <2>6. Shapes' /\ Registration'
    BY <1>1, <2>1, <2>2 DEF Shapes, Registration, registrarVars
  <2>7. Discovery'
    BY <2>1, <2>2, <2>3 DEF Discovery, StartupName
  <2>8. Acknowledged'
    BY <2>2, <2>3, <2>5 DEF Acknowledged, NoneOut, Published, registrarVars
  <2>9. Captured'
    BY <2>2, <2>3, <2>5 DEF Captured, registrarVars, requiresStartupCatalog
  <2>. QED
    BY <2>6, <2>7, <2>8, <2>9
<1>5. CASE Hooks[started'] = "registrar" /\ StartRegistrar
  <2>1. started = 3 /\ started' = 4
    BY <1>1, <1>5, HookNumbers
  <2>2. /\ UNCHANGED <<config, oauth, oauthState, catalog, bus, ack, startupPending, pending,
                       registry, digest, poller>>
        /\ registrar' = [registrar EXCEPT !.at = "loop"]
    BY <1>1, <1>5 DEF StartRegistrar
  <2>3. /\ registrar.at = "off" /\ registrar'.at = "loop"
        /\ registrar'.bundle = registrar.bundle /\ registrar'.capture = registrar.capture
        /\ registrar' \in [at : Places, bundle : Bundles, capture : BOOLEAN]
    <3>1. registrar.at = "off" /\ registrar \in [at : Places, bundle : Bundles, capture : BOOLEAN]
      BY <2>1 DEF Registration, Shapes
    <3>2. "loop" \in Places
      BY Zenon DEF Places
    <3> HIDE DEF StartupInv
    <3> QED BY <2>2, <3>1, <3>2
  <2>4. Shapes' /\ Discovery'
    BY <1>1, <2>1, <2>2, <2>3 DEF Shapes, Discovery, StartupName
  <2>5. Acknowledged'
    BY <2>2, <2>3 DEF Acknowledged, NoneOut, Published, StartupName
  <2>6. Registration'
    BY <2>1, <2>2, <2>3 DEF Registration
  <2>7. Captured'
    BY <2>2 DEF Captured, StartupName, Published, requiresStartupCatalog
  <2>. QED
    BY <2>4, <2>5, <2>6, <2>7
<1>. QED
  BY <1>2, <1>3, <1>4, <1>5 DEF Start

(* Discovery steps other than the publication: results settle before it,  *)
(* and the catalog only by an acknowledgement that captured the digest.   *)
LEMMA StartupDiscovers ==
  ASSUME StartupInv, OAuthSteps, ~PublishStartup
  PROVE  StartupInv'
<1>. USE DEF StartupInv
<1>1. /\ UNCHANGED <<config, started, bus, ack, registrarVars, poller>>
      /\ oauth # "off" /\ oauth' # "off"
  BY DEF OAuthSteps, OAuthWaitsForProbe, FetchCancelled, Discover, RetryDiscovery,
     DiscoveryFails, PublishFails, AwaitAck, Return, CompleteCatalog, notOAuth, busVars
<1>2. config.acknowledges \in BOOLEAN
  BY DEF Shapes, Configs
<1>3. Published => oauth' = "done" /\ UNCHANGED oauthState
  BY DEF OAuthSteps, OAuthWaitsForProbe, FetchCancelled, Discover, RetryDiscovery,
     DiscoveryFails, PublishFails, AwaitAck, Return, CompleteCatalog, Published
<1>4. oauth' # "await"
  BY DEF OAuthSteps, OAuthWaitsForProbe, FetchCancelled, Discover, RetryDiscovery,
     DiscoveryFails, PublishFails, AwaitAck, Return, CompleteCatalog
<1>5. /\ oauth' \in {"waitProbe", "fetch", "retry"} => config.main = "http" /\ oauthState' = "pending"
      /\ oauth' = "publishStartup" => oauthState' = "ok" /\ config.main = "http"
      /\ oauth' = "publishEmpty" => oauthState' = "optional"
  BY DEF OAuthSteps, OAuthWaitsForProbe, FetchCancelled, Discover, RetryDiscovery,
     DiscoveryFails, PublishFails, AwaitAck, Return, CompleteCatalog, Discovery, Once
<1>6. \/ UNCHANGED catalog
      \/ oauth' = "done" /\ catalog' = Once(catalog, "failed")
      \/ oauth = "await" /\ oauth' = "done" /\ ack = "ok" /\ catalog' = Once(catalog, "ok")
  BY DEF OAuthSteps, OAuthWaitsForProbe, FetchCancelled, Discover, RetryDiscovery,
     DiscoveryFails, PublishFails, AwaitAck, Return, CompleteCatalog
<1>7. Shapes' /\ Registration'
  BY <1>1 DEF Shapes, Registration, registrarVars
<1>8. Discovery'
  <2>1. /\ config.acknowledges /\ oauth' # "done" => catalog' = "pending"
        /\ ~config.acknowledges => catalog' = "failed"
    BY <1>1, <1>2, <1>3, <1>6 DEF Discovery, Once, Published
  <2>. QED
    BY <1>1, <1>4, <1>5, <2>1 DEF Discovery, StartupName
<1>9. catalog = "pending" \/ UNCHANGED catalog
  BY <1>6 DEF Once
<1>10. NoneOut => NoneOut'
  BY <1>1 DEF NoneOut, registrarVars
<1>11. Acknowledged'
  <2>1. CASE ~Published
    <3>1. NoneOut' /\ ack' = "none" /\ (config.acknowledges => startupPending')
      BY <1>1, <1>10, <2>1 DEF Acknowledged, registrarVars
    <3>. QED
      BY <1>1, <3>1 DEF Acknowledged, NoneOut, registrarVars
  <2>2. CASE Published
    BY <1>1, <1>3, <1>9, <1>10, <2>2, Zenon DEF Acknowledged, Published, StartupName, registrarVars
  <2>. QED
    BY <2>1, <2>2
<1>12. Captured'
  <2>1. digest.captured => Published' /\ StartupName' = StartupName
    BY <1>1, <1>3 DEF Captured, Published, StartupName
  <2>2. ack = "ok" /\ catalog' = "pending" => catalog = "pending"
    BY <1>9
  <2>3. catalog' = "ok" => digest.captured /\ ~digest.failed
    BY <1>6 DEF Captured, Once
  <2>4. catalog = "ok" => catalog' = "ok"
    BY <1>6 DEF Once
  <2>. QED
    BY <1>1, <2>1, <2>2, <2>3, <2>4 DEF Captured, registrarVars, requiresStartupCatalog
<1>. QED
  BY <1>7, <1>8, <1>11, <1>12

(* A bundle that is put on the bus takes its end. *)
LEMMA Appended ==
  ASSUME NEW s \in Seq(Bundles), NEW b \in Bundles
  PROVE  /\ Append(s, b) \in Seq(Bundles)
         /\ Len(Append(s, b)) = Len(s) + 1
         /\ \A i \in 1..Len(s) : Append(s, b)[i] = s[i]
         /\ Append(s, b)[Len(s) + 1] = b
         /\ Len(s) \in Nat
  OBVIOUS

(* A bundle that is taken from a queue is its first. *)
LEMMA Taken ==
  ASSUME NEW s \in Seq(Bundles), s # <<>>
  PROVE  /\ Tail(s) \in Seq(Bundles) /\ Head(s) \in Bundles
         /\ Len(s) \in Nat /\ Len(s) >= 1 /\ Head(s) = s[1]
         /\ Len(Tail(s)) = Len(s) - 1
         /\ \A i \in 1..Len(Tail(s)) : Tail(s)[i] = s[i + 1]
  OBVIOUS

(* publish: the startup bundle is the first and only acknowledged one. *)
LEMMA StartupPublishes ==
  ASSUME StartupInv, PublishStartup
  PROVE  StartupInv'
<1>. USE DEF StartupInv
<1>. DEFINE b == Bundle(IF oauth = "publishEmpty" THEN "empty" ELSE "startup", config.acknowledges)
<1>1. /\ UNCHANGED <<config, started, oauthState, ack, registrarVars, poller>>
      /\ oauth \in {"publishEmpty", "publishStartup"}
      /\ bus' = Append(bus, b)
      /\ IF config.acknowledges
         THEN oauth' = "await" /\ UNCHANGED catalog
         ELSE oauth' = "done" /\ catalog' = Once(catalog, "ok")
  BY DEF PublishStartup, notOAuth
<1>2. config.acknowledges \in BOOLEAN /\ bus \in Seq(Bundles)
  BY DEF Shapes, Configs
<1>3. b \in Bundles /\ b.acked = config.acknowledges /\ b.name = StartupName
  BY <1>1, <1>2 DEF Bundle, Bundles, Discovery
<1>. HIDE DEF b
<1>4. UNCHANGED catalog
  BY <1>1, <1>2 DEF Discovery, Once
<1>5. NoneOut /\ ack = "none" /\ (config.acknowledges => startupPending)
  BY <1>1 DEF Acknowledged, Published
<1>6. StartupName' = StartupName
  BY <1>1 DEF StartupName
<1>7. \A i \in 1..Len(bus') : bus'[i].acked => i = Len(bus) + 1 /\ config.acknowledges
                                           /\ bus'[i].name = StartupName
  <2>. SUFFICES ASSUME NEW i \in 1..Len(bus'), bus'[i].acked
                PROVE  i = Len(bus) + 1 /\ config.acknowledges /\ bus'[i].name = StartupName
    OBVIOUS
  <2>1. i \in 1..Len(bus) \/ i = Len(bus) + 1
    BY <1>1, <1>2, <1>3, Appended
  <2>2. i \notin 1..Len(bus)
    <3>. SUFFICES ASSUME i \in 1..Len(bus) PROVE FALSE
      OBVIOUS
    <3>1. bus'[i] = bus[i]
      BY <1>1, <1>2, <1>3, Appended
    <3>. QED
      BY <1>5, <3>1 DEF NoneOut
  <2>3. bus'[Len(bus) + 1] = b
    BY <1>1, <1>2, <1>3, Appended
  <2>. QED
    BY <1>3, <2>1, <2>2, <2>3
<1>9. Shapes'
  BY <1>1, <1>2, <1>3, Appended DEF Shapes, registrarVars
<1>10. Discovery'
  BY <1>1, <1>4, <1>6 DEF Discovery
<1>11. Published'
  BY <1>1, <1>2 DEF Published
<1>12. ~registrar'.bundle.acked
  BY <1>1, <1>5 DEF NoneOut, registrarVars
<1>13. ~config.acknowledges => NoneOut'
  BY <1>7, <1>12 DEF NoneOut
<1>14. Acknowledged'
  <2>1. ~startupPending' /\ catalog' = "pending" => NoneOut'
    BY <1>1, <1>5, <1>13 DEF registrarVars
  <2>. QED
    BY <1>1, <1>5, <1>6, <1>7, <1>11, <1>12, <2>1, ZenonT(30) DEF Acknowledged, registrarVars
<1>15. Registration'
  BY <1>1 DEF Registration, registrarVars
<1>16. Captured'
  BY <1>1, <1>4, <1>6, <1>11 DEF Captured, registrarVars, requiresStartupCatalog
<1>. QED
  BY <1>9, <1>10, <1>14, <1>15, <1>16

(* A later bundle on the bus asks for no acknowledgement. *)
LEMMA StartupLater ==
  ASSUME StartupInv, LaterSteps
  PROVE  StartupInv'
<1>. USE DEF StartupInv
<1>1. PICK b \in Later : OAuthCommand(b) \/ Publish(b) \/ PublishGivesUp(b)
  BY DEF LaterSteps
<1>2. CASE OAuthCommand(b) \/ PublishGivesUp(b)
  BY <1>2, StartupIrrelevant, Zenon DEF OAuthCommand, PublishGivesUp, notLater, relevant
<1>3. CASE Publish(b)
  <2>1. /\ UNCHANGED <<config, started, oauth, oauthState, catalog, ack, registrarVars, poller>>
        /\ bus' = Append(bus, Bundle(b, FALSE)) /\ bus \in Seq(Bundles)
    BY <1>3 DEF Publish, notLater, Shapes
  <2>2. Bundle(b, FALSE) \in Bundles /\ ~Bundle(b, FALSE).acked
    BY DEF Bundle, Bundles
  <2>3. \A i \in 1..Len(bus') : bus'[i].acked => i \in 1..Len(bus) /\ bus[i].acked /\ bus'[i] = bus[i]
    <3>. SUFFICES ASSUME NEW i \in 1..Len(bus'), bus'[i].acked
                  PROVE  i \in 1..Len(bus) /\ bus[i].acked /\ bus'[i] = bus[i]
      OBVIOUS
    <3>1. i \in 1..Len(bus) \/ i = Len(bus) + 1
      BY <2>1, <2>2, Appended
    <3>2. CASE i \in 1..Len(bus)
      <4>1. bus'[i] = bus[i]
        BY <2>1, <2>2, <3>2, Appended
      <4>. QED
        BY <3>2, <4>1
    <3>3. CASE i = Len(bus) + 1
      <4>1. bus'[i] = Bundle(b, FALSE)
        BY <2>1, <2>2, <3>3, Appended, Zenon
      <4>. QED
        BY <2>2, <4>1, Zenon
    <3>. QED
      BY <3>1, <3>2, <3>3
  <2>4. StartupName' = StartupName /\ Published' = Published /\ (NoneOut => NoneOut')
    BY <2>1, <2>3, Zenon DEF StartupName, Published, NoneOut, registrarVars
  <2>5. Shapes'
    BY <2>1, <2>2, Appended, Zenon DEF Shapes, registrarVars
  <2>6. Discovery' /\ Registration'
    BY <2>1, <2>4, Zenon DEF Discovery, Registration, registrarVars
  <2>7. Acknowledged'
    BY <2>1, <2>3, <2>4, ZenonT(30) DEF Acknowledged, registrarVars
  <2>8. Captured'
    BY <2>1, <2>4, Zenon DEF Captured, registrarVars, requiresStartupCatalog
  <2>. QED
    BY <2>5, <2>6, <2>7, <2>8
<1>. QED
  BY <1>1, <1>2, <1>3

notRelevant == <<config, started, oauth, oauthState, catalog, poller>>

(* What every step of the registrar leaves alone. *)
LEMMA RegistrarFrame ==
  ASSUME StartupInv, UNCHANGED notRelevant
  PROVE  /\ Discovery' /\ StartupName' = StartupName /\ Published' = Published
         /\ requiresStartupCatalog' = requiresStartupCatalog
BY DEF StartupInv, Discovery, StartupName, Published, requiresStartupCatalog, notRelevant

(* startupDone, and the return of a cancelled registrar. *)
LEMMA StartupSettles ==
  ASSUME StartupInv, RegistrarReturns \/ StartupSettled
  PROVE  StartupInv'
<1>. USE DEF StartupInv
<1>1. UNCHANGED <<notRelevant, pending, registry, digest, bus, ack>> /\ registrar.at = "loop"
  BY DEF RegistrarReturns, StartupSettled, notRelevant, notRegistrar
<1>2. Discovery' /\ StartupName' = StartupName /\ Published' = Published
      /\ requiresStartupCatalog' = requiresStartupCatalog
  BY <1>1, RegistrarFrame
<1>3. /\ registrar'.bundle = registrar.bundle /\ registrar'.capture = registrar.capture
      /\ registrar'.at \in {"loop", "done"}
      /\ registrar' \in [at : Places, bundle : Bundles, capture : BOOLEAN]
  BY <1>1 DEF RegistrarReturns, StartupSettled, Shapes, Places
<1>4. startupPending' = startupPending \/ (startupPending' = FALSE /\ catalog # "pending")
  BY DEF RegistrarReturns, StartupSettled
<1>5. startupPending' \in BOOLEAN /\ (startupPending' => startupPending)
  <2>1. startupPending \in BOOLEAN
    BY DEF Shapes
  <2>2. CASE startupPending' = startupPending
    BY <2>1, <2>2
  <2>3. CASE startupPending' = FALSE
    BY <2>3, Zenon
  <2>. QED
    BY <1>4, <2>2, <2>3, Zenon
<1>6. NoneOut' = NoneOut
  BY <1>1, <1>3 DEF NoneOut
<1>7. Shapes'
  BY <1>1, <1>3, <1>5 DEF Shapes, notRelevant
<1>8. Acknowledged'
  <2>1. ~Published /\ config.acknowledges => startupPending'
    BY <1>4, Zenon DEF Acknowledged, Discovery, Published
  <2>2. ~startupPending' /\ catalog = "pending" => NoneOut
    BY <1>4 DEF Acknowledged
  <2>. QED
    BY <1>1, <1>2, <1>3, <1>6, <2>1, <2>2 DEF Acknowledged, notRelevant
<1>9. Registration'
  BY <1>1, <1>3, <1>5 DEF Registration, notRelevant
<1>10. Captured'
  BY <1>1, <1>2, <1>5 DEF Captured, notRelevant
<1>. QED
  BY <1>2, <1>7, <1>8, <1>9, <1>10

(* The registrar takes the first bundle off the bus. *)
LEMMA BusTaken ==
  ASSUME StartupInv, bus # <<>>, bus' = Tail(bus)
  PROVE  /\ bus' \in Seq(Bundles) /\ Head(bus) \in Bundles
         /\ \A i \in 1..Len(bus') : /\ i + 1 \in 1..Len(bus) /\ bus'[i] = bus[i + 1]
                                    /\ bus'[i].acked <=> bus[i + 1].acked
         /\ 1 \in 1..Len(bus) /\ bus[1] = Head(bus) /\ (bus[1].acked <=> Head(bus).acked)
<1>1. bus \in Seq(Bundles)
  BY DEF StartupInv, Shapes
<1>2. /\ bus' \in Seq(Bundles) /\ Head(bus) \in Bundles
      /\ 1 \in 1..Len(bus) /\ bus[1] = Head(bus)
      /\ \A i \in 1..Len(bus') : i \in Nat /\ i + 1 \in 1..Len(bus) /\ bus'[i] = bus[i + 1]
  BY <1>1, Taken
<1>. QED
  BY <1>2

LEMMA StartupReceives ==
  ASSUME StartupInv, ReceiveBundle
  PROVE  StartupInv'
<1>. USE DEF StartupInv
<1>. DEFINE b == Head(bus)
<1>1. /\ UNCHANGED <<notRelevant, startupPending, registry, digest>>
      /\ registrar.at = "loop" /\ bus # <<>> /\ bus' = Tail(bus)
  BY DEF ReceiveBundle, notRelevant, notRegistrar
<1>2. Discovery' /\ StartupName' = StartupName /\ Published' = Published
      /\ requiresStartupCatalog' = requiresStartupCatalog
  BY <1>1, RegistrarFrame
<1>3. /\ bus' \in Seq(Bundles) /\ b \in Bundles
      /\ \A i \in 1..Len(bus') : /\ i + 1 \in 1..Len(bus) /\ bus'[i] = bus[i + 1]
                                 /\ bus'[i].acked <=> bus[i + 1].acked
      /\ 1 \in 1..Len(bus) /\ bus[1] = b /\ (bus[1].acked <=> b.acked)
  BY <1>1, BusTaken
<1>4. /\ registrar.bundle = NoBundle /\ ~registrar.capture /\ ~NoBundle.acked
      /\ startupPending => registry = {}
  BY <1>1 DEF Registration, NoBundle, Bundle
<1>5. ASSUME NEW i \in 1..Len(bus'), bus'[i].acked
      PROVE  /\ bus[i + 1].acked /\ i + 1 \in 1..Len(bus)
             /\ bus'[i].name = StartupName /\ ~b.acked /\ ~NoneOut
  <2>1. bus[i + 1].acked /\ i + 1 \in 1..Len(bus) /\ bus'[i] = bus[i + 1] /\ i + 1 # 1
    <3>1. i + 1 # 1
      BY <1>3
    <3>2. bus[i + 1].acked /\ i + 1 \in 1..Len(bus) /\ bus'[i] = bus[i + 1]
      BY <1>3, <1>5
    <3>. QED
      BY <3>1, <3>2
  <2>2. bus[i + 1].name = StartupName
    BY <2>1 DEF Acknowledged
  <2>3. ~bus[1].acked
    BY <1>3, <2>1 DEF Acknowledged
  <2>. QED
    BY <1>3, <2>1, <2>2, <2>3 DEF NoneOut
<1>6. /\ \A i \in 1..Len(bus') : bus'[i].acked => bus'[i].name = StartupName
      /\ \A i, j \in 1..Len(bus') : bus'[i].acked /\ bus'[j].acked => i = j
  <2>1. ASSUME NEW i \in 1..Len(bus'), NEW j \in 1..Len(bus'), bus'[i].acked, bus'[j].acked
        PROVE  i = j
    <3>1. /\ bus[i + 1].acked /\ i + 1 \in 1..Len(bus)
          /\ bus[j + 1].acked /\ j + 1 \in 1..Len(bus)
      BY <1>5, <2>1
    <3>2. i + 1 = j + 1
      BY <3>1 DEF Acknowledged
    <3>. QED
      BY <3>2
  <2>. QED
    BY <1>5, <2>1
<1>7. /\ b.acked => b.name = StartupName
      /\ b.acked => \A i \in 1..Len(bus') : ~bus'[i].acked
      /\ NoneOut => ~b.acked
      /\ NoneOut => \A i \in 1..Len(bus') : ~bus'[i].acked
  <2>1. b.acked => b.name = StartupName
    BY <1>3 DEF Acknowledged
  <2>2. NoneOut => ~b.acked
    BY <1>3 DEF NoneOut
  <2>. QED
    BY <1>5, <2>1, <2>2
<1>. HIDE DEF b
<1>8. CASE /\ cancelled("registrar")
           /\ Acknowledge(b, "err")
           /\ registrar' = [registrar EXCEPT !.at = "done"]
           /\ UNCHANGED pending
  <2>1. /\ registrar'.bundle = registrar.bundle /\ registrar'.capture = registrar.capture
        /\ registrar'.at = "done"
        /\ registrar' \in [at : Places, bundle : Bundles, capture : BOOLEAN]
    BY <1>8 DEF Shapes, Places
  <2>2. /\ b.acked => ack' = "err"
        /\ ~b.acked => ack' = ack
    BY <1>8 DEF Acknowledge
  <2>3. NoneOut \/ b.acked => NoneOut'
    BY <1>4, <1>7, <2>1 DEF NoneOut
  <2>4. Shapes'
    BY <1>1, <1>3, <1>8, <2>1 DEF Shapes, notRelevant
  <2>5. Acknowledged'
    BY <1>1, <1>2, <1>4, <1>6, <1>7, <1>8, <2>1, <2>2, <2>3 DEF Acknowledged, notRelevant
  <2>6. Registration'
    BY <1>1, <2>1 DEF Registration, notRelevant
  <2>7. Captured'
    BY <1>1, <1>2, <2>2, Zenon DEF Captured, notRelevant
  <2>. QED
    BY <1>2, <2>4, <2>5, <2>6, <2>7
<1>9. CASE /\ ~cancelled("registrar") /\ startupPending /\ ~b.acked
           /\ pending' = Append(pending, b)
           /\ UNCHANGED <<registrar, ack>>
  <2>1. NoneOut => NoneOut'
    BY <1>7, <1>9 DEF NoneOut
  <2>2. pending' \in Seq(Bundles) /\ \A i \in 1..Len(pending') : ~pending'[i].acked
    <3>1. pending \in Seq(Bundles)
      BY DEF Shapes
    <3>2. ASSUME NEW i \in 1..Len(pending')
          PROVE  ~pending'[i].acked
      <4>1. i \in 1..Len(pending) \/ i = Len(pending) + 1
        BY <1>3, <1>9, <3>1, Appended
      <4>2. CASE i \in 1..Len(pending)
        <5>1. pending'[i] = pending[i]
          BY <1>3, <1>9, <3>1, <4>2, Appended
        <5>. QED
          BY <4>2, <5>1 DEF Acknowledged
      <4>3. CASE i = Len(pending) + 1
        <5>1. pending'[i] = b
          BY <1>3, <1>9, <3>1, <4>3, Appended
        <5>. QED
          BY <1>9, <5>1
      <4>. QED
        BY <4>1, <4>2, <4>3
    <3>. QED
      BY <1>3, <1>9, <3>1, <3>2, Appended
  <2>3. Shapes'
    BY <1>1, <1>3, <1>9, <2>2 DEF Shapes, notRelevant
  <2>4. Acknowledged'
    BY <1>1, <1>2, <1>4, <1>6, <1>9, <2>1, <2>2, Zenon DEF Acknowledged, notRelevant
  <2>5. Registration'
    BY <1>1, <1>9 DEF Registration, notRelevant
  <2>6. Captured'
    BY <1>1, <1>2, <1>9, Zenon DEF Captured, notRelevant
  <2>. QED
    BY <1>2, <2>3, <2>4, <2>5, <2>6
<1>10. CASE /\ ~cancelled("registrar") /\ (startupPending => b.acked)
            /\ registrar' = [at |-> "process", bundle |-> b, capture |-> startupPending]
            /\ UNCHANGED <<pending, ack>>
  <2>1. /\ registrar'.at = "process" /\ registrar'.bundle = b
        /\ registrar'.capture = startupPending
        /\ registrar' \in [at : Places, bundle : Bundles, capture : BOOLEAN]
    BY <1>3, <1>10 DEF Shapes, Places
  <2>2. NoneOut => NoneOut'
    BY <1>7, <2>1 DEF NoneOut
  <2>3. Shapes'
    BY <1>1, <1>3, <1>10, <2>1, Zenon DEF Shapes, notRelevant
  <2>4. Acknowledged'
    BY <1>1, <1>2, <1>6, <1>7, <1>10, <2>1, <2>2, Zenon DEF Acknowledged, notRelevant
  <2>5. started' = started /\ ~(started < 4)
    BY <1>1 DEF Registration, notRelevant
  <2>6. Registration'
    BY <1>1, <1>4, <1>10, <2>1, <2>5, Zenon DEF Registration
  <2>7. Captured'
    BY <1>1, <1>2, <1>10, Zenon DEF Captured, notRelevant
  <2>. QED
    BY <1>2, <2>3, <2>4, <2>6, <2>7
<1>. QED
  BY <1>8, <1>9, <1>10 DEF ReceiveBundle, b

(* A bundle that was held back was never acknowledged. *)
LEMMA StartupFlushes ==
  ASSUME StartupInv, FlushPending
  PROVE  StartupInv'
<1>. USE DEF StartupInv
<1>. DEFINE b == Head(pending)
<1>1. /\ UNCHANGED <<notRelevant, startupPending, registry, digest, bus, ack>>
      /\ registrar.at = "loop" /\ ~startupPending /\ pending # <<>>
      /\ registrar' = [at |-> "process", bundle |-> b, capture |-> FALSE]
      /\ pending' = Tail(pending) /\ pending \in Seq(Bundles)
  BY Zenon DEF FlushPending, flushing, notRelevant, notRegistrar, Shapes
<1>2. Discovery' /\ StartupName' = StartupName /\ Published' = Published
      /\ requiresStartupCatalog' = requiresStartupCatalog
  BY <1>1, RegistrarFrame
<1>3. /\ pending' \in Seq(Bundles) /\ b \in Bundles /\ b = pending[1]
      /\ 1 \in 1..Len(pending)
      /\ \A i \in 1..Len(pending') : i + 1 \in 1..Len(pending) /\ pending'[i] = pending[i + 1]
  BY <1>1, Taken
<1>4. ~b.acked /\ \A i \in 1..Len(pending') : ~pending'[i].acked
  BY <1>3, Zenon DEF Acknowledged
<1>. HIDE DEF b
<1>5. /\ registrar'.at = "process" /\ registrar'.bundle = b /\ ~registrar'.capture
      /\ registrar' \in [at : Places, bundle : Bundles, capture : BOOLEAN]
  BY <1>1, <1>3 DEF Places
<1>6. NoneOut => NoneOut'
  BY <1>1, <1>4, <1>5, Zenon DEF NoneOut
<1>7. Shapes'
  BY <1>1, <1>3, <1>5, Zenon DEF Shapes, notRelevant
<1>8. Acknowledged'
  BY <1>1, <1>2, <1>4, <1>5, <1>6, Zenon DEF Acknowledged, notRelevant
<1>9. started' = started /\ ~(started < 4)
  BY <1>1 DEF Registration, notRelevant
<1>10. Registration'
  BY <1>1, <1>5, <1>9, Zenon DEF Registration
<1>11. Captured'
  BY <1>1, <1>2, Zenon DEF Captured, notRelevant
<1>. QED
  BY <1>2, <1>7, <1>8, <1>10, <1>11

(* registerHostBundle adds to the registry; while the startup bundle is *)
(* outstanding, it is the first to do so.                               *)
LEMMA StartupRegisters ==
  ASSUME StartupInv, RegisterBundle
  PROVE  StartupInv'
<1>. USE DEF StartupInv
<1>1. /\ UNCHANGED <<notRelevant, startupPending, pending, digest, bus, ack>>
      /\ registrar.at = "process"
      /\ registrar' = [registrar EXCEPT !.at = "ack"]
      /\ registry' = registry \cup Targets(registrar.bundle.name)
  BY DEF RegisterBundle, Targets, notRelevant, notRegistrar
<1>2. Discovery' /\ StartupName' = StartupName /\ Published' = Published
      /\ requiresStartupCatalog' = requiresStartupCatalog
  BY <1>1, RegistrarFrame
<1>3. /\ registrar'.at = "ack" /\ registrar'.bundle = registrar.bundle
      /\ registrar'.capture = registrar.capture
      /\ registrar' \in [at : Places, bundle : Bundles, capture : BOOLEAN]
  BY <1>1 DEF Shapes, Places
<1>4. NoneOut' = NoneOut
  BY <1>1, <1>3 DEF NoneOut
<1>5. Shapes'
  BY <1>1, <1>3 DEF Shapes, notRelevant
<1>6. Acknowledged'
  BY <1>1, <1>2, <1>3, <1>4 DEF Acknowledged, notRelevant
<1>7. started' = started /\ ~(started < 4)
  BY <1>1 DEF Registration, notRelevant
<1>8. startupPending => registry' = Targets(registrar.bundle.name)
  BY <1>1 DEF Registration
<1>9. Registration'
  BY <1>1, <1>3, <1>7, <1>8 DEF Registration
<1>10. Captured'
  BY <1>1, <1>2 DEF Captured, notRelevant
<1>. QED
  BY <1>2, <1>5, <1>6, <1>9, <1>10

(* processBundle ends: with the digest captured when the bundle was the    *)
(* startup bundle, and with an acknowledgement when it asked for one.      *)
LEMMA StartupAcknowledges ==
  ASSUME StartupInv, AcknowledgeBundle \/ AbandonBundle
  PROVE  StartupInv'
<1>. USE DEF StartupInv
<1>. DEFINE b == registrar.bundle
<1>1. /\ UNCHANGED <<notRelevant, pending, registry, bus>>
      /\ registrar.at \in {"process", "ack"}
      /\ registrar' = [at |-> "loop", bundle |-> NoBundle, capture |-> FALSE]
      /\ startupPending' = (startupPending /\ ~registrar.capture)
  BY Zenon DEF AcknowledgeBundle, AbandonBundle, NextBundle, notRelevant, notRegistrar
<1>2. Discovery' /\ StartupName' = StartupName /\ Published' = Published
      /\ requiresStartupCatalog' = requiresStartupCatalog
  BY <1>1, RegistrarFrame
<1>3. /\ NoBundle \in Bundles /\ ~NoBundle.acked
      /\ registrar'.at = "loop" /\ registrar'.bundle = NoBundle /\ ~registrar'.capture
      /\ registrar' \in [at : Places, bundle : Bundles, capture : BOOLEAN]
  BY <1>1, Zenon DEF NoBundle, Bundle, Bundles, Places
<1>4. startupPending \in BOOLEAN /\ registrar.capture \in BOOLEAN /\ b.acked \in BOOLEAN
  BY DEF Shapes, Bundles
<1>5. startupPending => registrar.capture
  BY <1>1, Zenon DEF Registration
<1>6. startupPending' = FALSE
  BY <1>1, <1>4, <1>5, Zenon
<1>7. b.acked \/ NoneOut => NoneOut'
  BY <1>1, <1>3, Zenon DEF NoneOut, Acknowledged
<1>8. registrar.capture => b.acked /\ startupPending
  BY DEF Registration
<1>9. ~Published => ~b.acked
  BY Zenon DEF Acknowledged, NoneOut
<1>10. /\ b.acked => ack' \in {"ok", "err"}
       /\ ~b.acked => ack' = ack
  <2>1. CASE AcknowledgeBundle
    BY <1>4, <1>8, <2>1, Zenon DEF AcknowledgeBundle, Acknowledge
  <2>2. CASE AbandonBundle
    BY <1>4, <2>2 DEF AbandonBundle, Acknowledge
  <2>. QED
    BY <2>1, <2>2
<1>11. \/ UNCHANGED digest
       \/ /\ registrar.capture /\ registrar.at = "ack"
          /\ digest' \in [captured : {TRUE}, failed : BOOLEAN, of : {registry}]
          /\ ack' = "ok" => ~digest'.failed
  <2>1. CASE AcknowledgeBundle /\ registrar.capture
    <3>1. PICK failed \in BOOLEAN :
            /\ digest' = [captured |-> TRUE, failed |-> failed, of |-> registry]
            /\ Acknowledge(b, IF failed THEN "err" ELSE "ok")
      BY <2>1 DEF AcknowledgeBundle
    <3>2. ack' = (IF failed THEN "err" ELSE "ok")
      BY <1>8, <2>1, <3>1 DEF Acknowledge
    <3>3. registrar.at = "ack"
      BY <2>1 DEF AcknowledgeBundle
    <3>. QED
      BY <2>1, <3>1, <3>2, <3>3
  <2>2. CASE AbandonBundle \/ ~registrar.capture
    BY <2>2, ZenonT(30) DEF AcknowledgeBundle, AbandonBundle
  <2>. QED
    BY <2>1, <2>2, Zenon
<1>12. registrar.capture /\ registrar.at = "ack" => registry = Targets(StartupName)
  BY <1>8, Zenon DEF Registration, Acknowledged
<1>13. digest' \in [captured : BOOLEAN, failed : BOOLEAN,
                    of : SUBSET (Later \cup {"startup", "empty", "none"})]
  <2>1. Targets(StartupName) \in SUBSET (Later \cup {"startup", "empty", "none"})
    BY DEF Targets, StartupName
  <2>2. CASE UNCHANGED digest
    BY <2>2 DEF Shapes
  <2>3. CASE ~UNCHANGED digest
    BY <1>11, <1>12, <2>1, <2>3, ZenonT(30)
  <2>. QED
    BY <2>2, <2>3
<1>14. Shapes'
  BY <1>1, <1>3, <1>6, <1>13, Zenon DEF Shapes, notRelevant
<1>15. Acknowledged'
  <2>1. ack' # "none" => NoneOut'
    BY <1>7, <1>10, Zenon DEF Acknowledged
  <2>2. catalog = "pending" => NoneOut'
    BY <1>5, <1>7, <1>8, Zenon DEF Acknowledged
  <2>3. ~Published => NoneOut' /\ ack' = "none" /\ ~config.acknowledges
    BY <1>5, <1>7, <1>8, <1>9, <1>10, Zenon DEF Acknowledged
  <2>. QED
    BY <1>1, <1>2, <1>3, <2>1, <2>2, <2>3, Zenon DEF Acknowledged, notRelevant
<1>16. Registration'
  BY <1>1, <1>3, <1>6, Zenon DEF Registration, notRelevant
<1>17. Captured'
  <2>1. CASE UNCHANGED digest
    <3>1. ack' = "ok" /\ catalog = "pending" => digest.captured /\ ~digest.failed
      <4>1. CASE ~b.acked
        BY <1>10, <4>1, Zenon DEF Captured
      <4>2. CASE b.acked /\ ~registrar.capture
        BY <1>5, <4>2, Zenon DEF Acknowledged, NoneOut
      <4>3. CASE b.acked /\ registrar.capture
        <5>1. ~digest.captured
          BY <1>8, <4>3 DEF Captured
        <5>2. CASE AcknowledgeBundle
          <6>1. digest'.captured
            BY <4>3, <5>2 DEF AcknowledgeBundle
          <6>. QED
            BY <2>1, <5>1, <6>1
        <5>3. CASE AbandonBundle
          <6>1. ack' = "err"
            BY <4>3, <5>3 DEF AbandonBundle, Acknowledge
          <6>. QED
            BY <6>1
        <5>. QED
          BY <5>2, <5>3
      <4>. QED
        BY <1>4, <4>1, <4>2, <4>3
    <3>. QED
      BY <1>1, <1>2, <1>6, <2>1, <3>1, Zenon DEF Captured, notRelevant
  <2>2. CASE ~UNCHANGED digest
    <3>1. /\ digest'.captured /\ digest'.of = registry /\ registry = Targets(StartupName)
          /\ ack' = "ok" => ~digest'.failed
          /\ startupPending /\ b.acked /\ Published
      BY <1>8, <1>9, <1>11, <1>12, <2>2, ZenonT(30)
    <3>2. catalog # "ok"
      BY <3>1 DEF Captured
    <3>. QED
      BY <1>1, <1>2, <1>6, <3>1, <3>2, Zenon DEF Captured, notRelevant
  <2>. QED
    BY <2>1, <2>2
<1>. QED
  BY <1>2, <1>14, <1>15, <1>16, <1>17

(* The poller polls only past the catalog gate. *)
LEMMA StartupPolls ==
  ASSUME StartupInv, PollerSteps
  PROVE  StartupInv'
<1>. USE DEF StartupInv
<1>0. \E to : PollerMoves(to) /\ (to = "polling" => (requiresStartupCatalog => catalog = "ok"))
  <2>0. "done" # "polling" /\ "waitCatalog" # "polling"
    OBVIOUS
  <2>1. CASE waitForMCPStartupBeforePolling \/ PollerReturns
    BY <2>0, <2>1, Zenon DEF waitForMCPStartupBeforePolling, PollerReturns
  <2>2. CASE waitForStartupCatalogBeforePolling
    <3>1. CASE cancelled("poller") \/ (requiresStartupCatalog /\ catalog # "ok")
      BY <2>0, <2>2, <3>1, Zenon DEF waitForStartupCatalogBeforePolling
    <3>2. CASE ~(cancelled("poller") \/ (requiresStartupCatalog /\ catalog # "ok"))
      BY <2>2, <3>2, Zenon DEF waitForStartupCatalogBeforePolling
    <3>. QED
      BY <3>1, <3>2, Zenon
  <2>. QED
    BY <2>1, <2>2, Zenon DEF PollerSteps
<1>1. UNCHANGED <<config, started, oauth, oauthState, catalog, bus, ack, registrarVars>>
  BY <1>0, Zenon DEF PollerMoves, busVars
<1>2. poller' = "polling" => (requiresStartupCatalog => catalog = "ok")
  BY <1>0, Zenon DEF PollerMoves
<1>3. Shapes' /\ Discovery' /\ Acknowledged' /\ Registration'
  <2>1. Shapes'
    BY <1>1 DEF Shapes, registrarVars
  <2>2. Discovery'
    BY <1>1, Zenon DEF Discovery, StartupName
  <2>3. Acknowledged'
    BY <1>1, Zenon DEF Acknowledged, registrarVars, StartupName, Published, NoneOut
  <2>4. Registration'
    BY <1>1, Zenon DEF Registration, registrarVars
  <2>. QED
    BY <2>1, <2>2, <2>3, <2>4
<1>4. Captured'
  BY <1>1, <1>2, Zenon DEF Captured, registrarVars, StartupName, Published, requiresStartupCatalog
<1>. QED
  BY <1>3, <1>4

LEMMA StartupStep == StartupInv /\ [Next]_vars => StartupInv'
<1>. SUFFICES ASSUME StartupInv, [Next]_vars PROVE StartupInv'
  OBVIOUS
<1>1. CASE Start
  BY <1>1, StartupStart
<1>2. CASE Stop
  BY <1>2, StartupIrrelevant DEF Stop, relevant
<1>3. CASE ProbeSteps \/ DialSteps
  <2>1. UNCHANGED notProbe
    BY <1>3, Zenon DEF ProbeSteps, DialSteps, ProbeAttempt, ProbeCancelled, StartupWaitExpires,
       ProbeTimesOut, Connect, ProbeResult, ProbeBackoff, ProbeCloses, DeliverLate
  <2>. QED
    BY <2>1, StartupIrrelevant DEF notProbe, relevant, busVars
<1>4. CASE OAuthSteps
  BY <1>4, StartupDiscovers, StartupPublishes
<1>5. CASE RegistrarSteps
  BY <1>5, StartupSettles, StartupReceives, StartupFlushes, StartupRegisters,
     StartupAcknowledges DEF RegistrarSteps
<1>6. CASE PollerSteps
  BY <1>6, StartupPolls
<1>7. CASE LaterSteps
  BY <1>7, StartupLater
<1>8. CASE UNCHANGED vars
  BY <1>8, StartupIrrelevant DEF vars, relevant, busVars
<1>. QED
  BY <1>1, <1>2, <1>3, <1>4, <1>5, <1>6, <1>7, <1>8 DEF Next

(* Where the acknowledged bundle of the startup discovery is and what was  *)
(* registered before it holds throughout a run of the runtime.             *)
THEOREM StartupInvariant == Spec => []StartupInv
BY StartupInit, StartupStep, PTL DEF Spec

(* The first poll of a runtime that waits for its catalog finds every      *)
(* discovered target registered and the digest captured, for any number of *)
(* OAuth commands and any capacity of the bus.                             *)
THEOREM FirstPollSeesCatalogThm == Spec => []FirstPollSeesCatalog
<1>1. StartupInv => FirstPollSeesCatalog
  <2>. SUFFICES ASSUME StartupInv, poller = "polling", requiresStartupCatalog
                PROVE  /\ oauthState = "ok" /\ config.main = "http" => "startup" \in registry
                       /\ digest.captured /\ ~digest.failed
    BY DEF FirstPollSeesCatalog
  <2>1. digest.captured /\ ~digest.failed /\ Targets(StartupName) \subseteq registry
    BY DEF StartupInv, Captured
  <2>. QED
    BY <2>1 DEF Targets, StartupName
<1>. QED
  BY <1>1, StartupInvariant, PTL

(* The digest covers what discovery published and nothing that an OAuth   *)
(* command published, however their bundles overtake one another.         *)
THEOREM DigestIsStartupCatalogThm == Spec => []DigestIsStartupCatalog
<1>1. StartupInv => DigestIsStartupCatalog
  <2>. SUFFICES ASSUME StartupInv PROVE DigestIsStartupCatalog
    OBVIOUS
  <2>1. digest.of = {} \/ digest.of = Targets(StartupName)
    BY Zenon DEF StartupInv, Captured
  <2>2. digest.of \cap Later = {}
    BY <2>1, LaterAssumption DEF Targets, StartupName
  <2>3. catalog = "ok" => digest.of = Targets(StartupName)
    BY DEF StartupInv, Captured
  <2>. QED
    BY <2>2, <2>3 DEF DigestIsStartupCatalog, Targets, StartupName
<1>. QED
  BY <1>1, StartupInvariant, PTL

(* The digest is computed once: no step changes or forgets a digest that   *)
(* was captured, so the digest that is reported is that of the startup     *)
(* (startupCatalogDigestState).                                            *)
DigestIsFinal == [][digest.captured => UNCHANGED digest]_vars

(* A captured digest stays: by the invariant, the registrar is past the    *)
(* startup bundle then, and Capture is called for no other.                *)
THEOREM DigestIsFinalThm == Spec => DigestIsFinal
<1>1. StartupInv /\ [Next]_vars => [digest.captured => UNCHANGED digest]_vars
  <2>. SUFFICES ASSUME StartupInv, Next, digest.captured PROVE UNCHANGED digest
    BY DEF vars
  <2>1. ~registrar.capture
    BY Zenon DEF StartupInv, Captured, Registration
  <2>2. CASE RegistrarSteps
    BY <2>1, <2>2 DEF RegistrarSteps, RegistrarReturns, StartupSettled, ReceiveBundle,
       FlushPending, RegisterBundle, AcknowledgeBundle, AbandonBundle
  <2>3. CASE Start
    BY <2>3 DEF Start, StartPoller, StartProbe, StartOAuth, StartRegistrar, registrarVars
  <2>4. CASE Stop
    BY <2>4 DEF Stop, registrarVars
  <2>5. CASE ProbeSteps \/ DialSteps
    BY <2>5, Zenon DEF ProbeSteps, DialSteps, ProbeAttempt, ProbeCancelled, StartupWaitExpires,
       ProbeTimesOut, Connect, ProbeResult, ProbeBackoff, ProbeCloses, DeliverLate,
       notProbe, registrarVars
  <2>6. CASE OAuthSteps
    BY <2>6, Zenon DEF OAuthSteps, OAuthWaitsForProbe, FetchCancelled, Discover, RetryDiscovery,
       DiscoveryFails, PublishStartup, PublishFails, AwaitAck, Return, CompleteCatalog,
       notOAuth, registrarVars
  <2>7. CASE PollerSteps
    BY <2>7 DEF PollerSteps, waitForMCPStartupBeforePolling,
       waitForStartupCatalogBeforePolling, PollerReturns, PollerMoves, registrarVars
  <2>8. CASE LaterSteps
    BY <2>8, Zenon DEF LaterSteps, OAuthCommand, Publish, PublishGivesUp, notLater, registrarVars
  <2>. QED
    BY <2>2, <2>3, <2>4, <2>5, <2>6, <2>7, <2>8 DEF Next
<1>. QED
  BY <1>1, StartupInvariant, PTL DEF Spec, DigestIsFinal
=============================================================================
