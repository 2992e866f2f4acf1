--------------------------- MODULE HarpoonRegistry ---------------------------
(***************************************************************************)
(* The Harpoon target registry (pkg/runtimeharpoon/registry.go): targets   *)
(* are registered while calls already read it, goroutines wait for a label *)
(* to appear, and the explanation of a blocked redirect is cached.  Every  *)
(* method is one critical section of r.mu, except ExplainBlockedRedirect,  *)
(* which scans under the read lock and stores under the write lock.        *)
(***************************************************************************)
EXTENDS Integers, Sequences, Functions, FiniteSets

CONSTANTS Offered,           \* targets that somebody registers
          Waiters,           \* goroutines in WaitForTarget
          Limit,             \* Registry.limit
          CatalogBudget,     \* maxTemplateCatalogBytes
          ExplainCacheLimit, \* explainCacheLimit
          AllowPlaintext     \* allowPlaintext

VARIABLES
  ordered,          \* registered targets in registration order
  discoveryBytes,   \* saturating size of the public catalog
  hasRichTemplates, \* some target has structured header rules
  stateCh,          \* which wake-up channel is current; older ones are closed
  explainCache,     \* URL -> cached explanation
  explainOrder,     \* keys of explainCache, oldest first
  waiters           \* where each waiter is

registryVars == <<ordered, discoveryBytes, hasRichTemplates, stateCh>>
cacheVars == <<explainCache, explainOrder>>

-----------------------------------------------------------------------------
(* A URL is a record [scheme, host, path, query] whose spelling of scheme  *)
(* and host is already lower case; a path is a name and its trailing       *)
(* slashes.  The record is the normalized URL key.                         *)
isHTTPS(u) == u.scheme = "https"

hasTraversal(u) == u.path.name = ".."

(* An empty path reads as "/". *)
exactPath(u) ==
  IF u.path = [name |-> "", slashes |-> 0] THEN [u.path EXCEPT !.slashes = 1] ELSE u.path

comparablePath(u) == u.path.name

registered == Range(ordered)

exactTargets == {t \in registered : ~t.template}

targetURLKeys == {t.url : t \in exactTargets}

labels == {t.label : t \in registered}

Lookup(label) == CHOOSE t \in registered : t.label = label

Resolve(label) == label \in labels /\ ~Lookup(label).template

(* A URL is allowed only when it is exactly that of a non-template target. *)
AllowsURL(u) ==
  /\ AllowPlaintext \/ isHTTPS(u)
  /\ ~hasTraversal(u)
  /\ u \in targetURLKeys

(* Go ranges over a map: any of the matching targets may be returned. *)
TargetForURL(u) == {t \in exactTargets : AllowsURL(u) /\ t.url = u}

-----------------------------------------------------------------------------
(* What is wrong with a target whatever the registry holds. *)
wellFormed(t) ==
  /\ ~(t.template /\ t.socket # "none")
  /\ AllowPlaintext \/ isHTTPS(t.url) \/ (t.template /\ t.loopback)
  /\ ~hasTraversal(t.url)

hasDifferentTransportForURL(t) ==
  \E r \in exactTargets : r.url = t.url /\ r.socket # t.socket

Lesser(a, b) == IF a < b THEN a ELSE b

(* targetDiscoveryBytes saturates one past the budget. *)
targetDiscoveryBytes(t) == Lesser(CatalogBudget + 1, t.bytes)

acceptsAnyTransport(t) ==
  /\ wellFormed(t)
  /\ t.label \notin labels
  /\ Len(ordered) < Limit
  /\ (hasRichTemplates \/ (t.template /\ t.rich)) =>
       targetDiscoveryBytes(t) <= CatalogBudget - discoveryBytes

(* What a registration is checked against, all under the lock. *)
accepts(t) ==
  /\ wellFormed(t)
  /\ t.label \notin labels
  /\ t.template \/ ~hasDifferentTransportForURL(t)
  /\ Len(ordered) < Limit
  /\ (hasRichTemplates \/ (t.template /\ t.rich)) =>
       targetDiscoveryBytes(t) <= CatalogBudget - discoveryBytes

(* signalStateChangeLocked closes the channel and makes a new one. *)
signalStateChange == stateCh' = stateCh + 1

(* A refused target leaves the registry as it was. *)
RegisterTarget(t) ==
  /\ accepts(t)
  /\ discoveryBytes' = Lesser(CatalogBudget + 1, discoveryBytes + targetDiscoveryBytes(t))
  /\ hasRichTemplates' = (hasRichTemplates \/ (t.template /\ t.rich))
  /\ ordered' = Append(ordered, t)
  /\ explainCache' = << >> /\ explainOrder' = << >>
  /\ signalStateChange
  /\ UNCHANGED waiters

-----------------------------------------------------------------------------
(* WaitForTarget: look once, remember the channel, wait for its closing. *)
WaiterIdle == [at |-> "idle", label |-> "none", ch |-> 0]

WaitStart(w, label) ==
  /\ waiters[w].at = "idle"
  /\ waiters' = [waiters EXCEPT ![w] = [at |-> "look", label |-> label, ch |-> 0]]

WaitLook(w) ==
  /\ waiters[w].at = "look"
  /\ waiters' = [waiters EXCEPT ![w].at = IF waiters[w].label \in labels
                                            THEN "found" ELSE "blocked",
                                ![w].ch = stateCh]

WaitWake(w) ==
  /\ waiters[w].at = "blocked" /\ waiters[w].ch # stateCh
  /\ waiters' = [waiters EXCEPT ![w].at = "look"]

WaitGiveUp(w) ==
  /\ waiters[w].at = "blocked"
  /\ waiters' = [waiters EXCEPT ![w].at = "ctx done"]

-----------------------------------------------------------------------------
schemeMismatchKind(expected, actual) ==
  CASE expected = "http" /\ actual = "https" -> "scheme_mismatch_http_to_https"
    [] expected = "https" /\ actual = "http" -> "scheme_mismatch_https_to_http"
    [] OTHER -> "not_allowlisted_other"

NoExplanation == [kind |-> "none", expected |-> "none"]

(* The scan of ExplainBlockedRedirect over the targets in order. *)
explain(u) ==
  LET exact == SelectSeq(ordered, LAMBDA t : ~t.template)
      same(t, host, scheme, path, query) ==
        /\ (t.url.host = u.host) = host
        /\ (t.url.scheme = u.scheme) = scheme
        /\ path
        /\ (t.url.query = u.query) = query
      comparable(t) == comparablePath(t.url) = comparablePath(u)
      schemes == SelectSeq(exact, LAMBDA t : same(t, TRUE, FALSE, comparable(t), TRUE))
      paths == SelectSeq(exact, LAMBDA t : same(t, TRUE, TRUE, exactPath(t.url) # exactPath(u), TRUE))
      queries == SelectSeq(exact, LAMBDA t : same(t, TRUE, TRUE, comparable(t), FALSE))
      hosts == SelectSeq(exact, LAMBDA t : same(t, FALSE, TRUE, comparable(t), TRUE))
      found(kind, ts) == [kind |-> kind, expected |-> Head(ts).label]
  IN CASE schemes # << >> -> found(schemeMismatchKind(Head(schemes).url.scheme, u.scheme), schemes)
       [] schemes = << >> /\ paths # << >> -> found("path_mismatch", paths)
       [] schemes = << >> /\ paths = << >> /\ queries # << >> -> found("query_mismatch", queries)
       [] schemes = << >> /\ paths = << >> /\ queries = << >> /\ Len(hosts) = 1 ->
            found("host_mismatch", hosts)
       [] OTHER -> [kind |-> "not_allowlisted_other", expected |-> "none"]

(* What the registry says of a URL now: nil for a registered one. *)
currentExplanation(u) == IF u \in targetURLKeys THEN NoExplanation ELSE explain(u)

(* The first critical section: what is found, and whether it must be stored. *)
explainRead(u) ==
  IF u \notin targetURLKeys /\ u \in DOMAIN explainCache
    THEN [result |-> explainCache[u], store |-> FALSE]
    ELSE [result |-> currentExplanation(u), store |-> TRUE]

(* The second one: a new key goes last and the oldest keys are evicted. *)
storeRedirectExplanation(u, result) ==
  LET appended == IF u \in DOMAIN explainCache THEN explainOrder ELSE Append(explainOrder, u)
      kept == IF Len(appended) > ExplainCacheLimit THEN Tail(appended) ELSE appended
  IN /\ explainOrder' = kept
     /\ explainCache' = [k \in Range(kept) |-> IF k = u THEN result ELSE explainCache[k]]

RegistryInit ==
  /\ ordered = << >> /\ discoveryBytes = 0 /\ hasRichTemplates = FALSE
  /\ stateCh = 0
  /\ explainCache = << >> /\ explainOrder = << >>
  /\ waiters = [w \in Waiters |-> WaiterIdle]
=============================================================================
