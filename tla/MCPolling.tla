------------------------------ MODULE MCPolling ------------------------------
(***************************************************************************)
(* What decides how the client polls, for TLC: the routing of polls        *)
(* (PollRouting), their timing (PollTiming), the configuration both start  *)
(* from (Configuration) and the health of the proxies on the way           *)
(* (ProxyHealth).  They share no state, so a behaviour is one of the four, *)
(* chosen at the start, and the state spaces add up.                       *)
(***************************************************************************)
EXTENDS PollRouting, PollTiming, TLC

CONSTANTS maxHealthRoutes, maxHistoryEntries, MaxChecks

VARIABLES which, input, flavor, loaded,
          env, config, status, proxied, pending, failed, keys, running, cancelled, at,
          checking, checks

Cases == INSTANCE MCConfiguration WITH Inputs <- << >>
Loading == INSTANCE Configuration WITH Inputs <- Cases!MCInputs
ProxyCases == INSTANCE MCProxyHealth WITH RouteConfigs <- {}, Environments <- {}, started <- running
Proxies == INSTANCE ProxyHealth WITH
    RouteConfigs <- ProxyCases!MCRouteConfigs, Environments <- ProxyCases!MCEnvironments,
    started <- running

loading == <<input, flavor, loaded>>
proxies == <<env, config, status, proxied, pending, failed, keys, running, cancelled, at,
             checking, checks>>
allVars == <<which, vars, timing, loading, proxies>>

NoTiming == cfg = "none" /\ cutoff = 0 /\ learned = 0 /\ started = FALSE /\ poll = << >>
NoLoading == input = "none" /\ flavor = "none" /\ loaded = "none"
NoProxies ==
  /\ env = "none" /\ config = << >> /\ status = << >> /\ keys = << >>
  /\ proxied = 0 /\ pending = 0 /\ failed = 0 /\ at = 0 /\ checks = 0
  /\ running = FALSE /\ cancelled = FALSE /\ checking = FALSE

MCInit ==
  \/ which = "routing" /\ Init /\ NoTiming /\ NoLoading /\ NoProxies
  \/ which = "timing" /\ Init /\ TimingInit /\ NoLoading /\ NoProxies
  \/ which = "loading" /\ Init /\ NoTiming /\ Loading!Init /\ NoProxies
  \/ which = "proxies" /\ Init /\ NoTiming /\ NoLoading /\ Proxies!Init

MCNext ==
  \/ which = "routing" /\ UNCHANGED <<which, timing, loading, proxies>> /\ Next
  \/ which = "timing" /\ UNCHANGED <<which, vars, loading, proxies>> /\ TimingNext
  \/ which = "loading" /\ UNCHANGED <<which, vars, timing, proxies>> /\ Loading!Next
  \/ which = "proxies" /\ UNCHANGED <<which, vars, timing, loading>> /\ Proxies!Next

MCSpec == MCInit /\ [][MCNext]_allVars

Symmetry == Permutations(Callers) \cup Permutations(Tokens)

-----------------------------------------------------------------------------
(* Configuration: the three binaries read the settings they share alike,   *)
(* each setting from its highest layer, and every channel that is polled   *)
(* has one handler.                                                        *)
LoadingIsFaithful ==
  which = "loading" => Loading!FlavorsAgree /\ Loading!Precedence /\ Loading!RoutableChannels

(* ProxyHealth: the status, kept in counters, says of all routes what      *)
(* their own records say, and the sample shown does not depend on the      *)
(* order the route map is walked in.                                       *)
ProxyStatusIsHonest == which = "proxies" => Proxies!StatusIsHonest /\ Proxies!SampleIsFirstKeys
=============================================================================
