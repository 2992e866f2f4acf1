----------------------------- MODULE PollTiming -----------------------------
(***************************************************************************)
(* How long a poll of the control plane waits                              *)
(* (pkg/controlplane/internal/tunnel_service_client.go): the wait the      *)
(* client requests of the service, its own deadline, and the shorter wait  *)
(* it learns when a proxy on the way keeps closing idle long polls.        *)
(*                                                                         *)
(* Durations are natural numbers of one small unit.  The configuration is  *)
(* any that pkg/runtimeconfig accepts; the proxy is one that closes a poll *)
(* once it has been idle for cutoff, observed up to Jitter later.          *)
(***************************************************************************)
EXTENDS Integers

CONSTANTS Polls,              \* concurrent calls of Poll
          Durations,          \* configured durations
          Cutoffs,            \* idle cutoffs of the proxy
          Elapsed,            \* times after which a connection may break
          Jitter,             \* how late a cutoff may be observed
          MinTimeout,         \* minimumAdaptiveProxyPollTimeout
          MinMargin,          \* minimumAdaptiveProxyPollMargin
          Milli,              \* a millisecond
          MaxDeadline,        \* maxControlPlanePollDeadline
          MaxGuardrail        \* maxControlPlanePollDeadlineGuardrail

\* The margin kept must outlast the jitter.
ASSUME TimingAssumption ==
    /\ Durations \subseteq Nat /\ Cutoffs \subseteq Nat /\ Elapsed \subseteq Nat
    /\ Jitter \in Nat /\ MinTimeout \in Nat /\ MinMargin \in Nat /\ Milli \in Nat \ {0}
    /\ 2 * Jitter < MinMargin

VARIABLES cfg,                \* pollTimeout, initialPollTimeout, pollGuardrail
          cutoff,
          learned,            \* learnedProxyPollTimeout, 0: nothing learned
          started,            \* initialPollStarted
          poll                \* the calls in flight

timing == <<cfg, cutoff, learned, started, poll>>

min(a, b) == IF a < b THEN a ELSE b
max(a, b) == IF a > b THEN a ELSE b

validateControlPlanePollTiming(c) ==
    c.guardrail < MaxGuardrail /\ c.timeout <= MaxDeadline - c.guardrail

Configs == {c \in [timeout : Durations, initial : Durations, guardrail : Durations] :
               validateControlPlanePollTiming(c)}

PollDeadlineTimeoutOrDefault(timeout) ==
    IF timeout > MaxDeadline - cfg.guardrail THEN MaxDeadline ELSE timeout + cfg.guardrail

effectivePollTimeout == IF learned > 0 /\ learned < cfg.timeout THEN learned ELSE cfg.timeout

Truncate(d) == Milli * (d \div Milli)

learnedAtCutoff(elapsed, attempted, guardrail) ==
    LET kept == max(Truncate(elapsed), MinTimeout)
    IN  IF elapsed <= MinMargin \/ elapsed >= attempted + guardrail \/ attempted <= MinTimeout \/ kept >= attempted
        THEN 0 ELSE kept

learnedProxyPollTimeoutFromDisconnect(elapsed, attempted, guardrail) ==
    LET margin == min(max(guardrail, MinMargin), elapsed \div 2)
        kept == max(Truncate(elapsed - margin), MinTimeout)
    IN  IF elapsed <= MinMargin \/ elapsed >= attempted + guardrail \/ attempted <= MinTimeout \/ kept >= attempted
        THEN 0 ELSE kept

----------------------------------------------------------------------------
Idle == [at |-> "idle"]

\* Nothing shorter than the smallest wait can be helped.
TimingInit ==
    /\ cfg \in Configs /\ cutoff \in Cutoffs /\ cutoff > MinTimeout
    /\ learned = 0 /\ started = FALSE /\ poll = [p \in Polls |-> Idle]

\* The first poll asks for less, but keeps the full deadline.
Poll(p) ==
    /\ poll[p].at = "idle"
    /\ poll' = [poll EXCEPT ![p] =
                  [at |-> "waiting",
                   requested |-> IF started THEN effectivePollTimeout ELSE min(effectivePollTimeout, cfg.initial),
                   deadline |-> PollDeadlineTimeoutOrDefault(effectivePollTimeout)]]
    /\ started' = TRUE
    /\ UNCHANGED <<cfg, cutoff, learned>>

\* An answer, the deadline, a cancellation, or an error after the headers.
Answered(p) ==
    /\ poll[p].at = "waiting" /\ poll' = [poll EXCEPT ![p] = Idle]
    /\ UNCHANGED <<cfg, cutoff, learned, started>>

\* The connection ends before any header and before the deadline.
Disconnected(p) ==
    /\ poll[p].at = "waiting"
    /\ \E e \in Elapsed :
          LET l == learnedProxyPollTimeoutFromDisconnect(e, poll[p].requested, cfg.guardrail)
          IN  /\ e < poll[p].deadline /\ e <= cutoff + Jitter
              /\ poll' = [poll EXCEPT ![p] = IF l <= 0 THEN Idle
                                             ELSE [at |-> "learning", wait |-> l, current |-> learned]]
    /\ UNCHANGED <<cfg, cutoff, learned, started>>

\* The compare-and-swap loop of maybeLearnProxyPollTimeout.
maybeLearnProxyPollTimeout(p) ==
    /\ poll[p].at = "learning"
    /\ LET l == poll[p].wait
           current == poll[p].current
       IN  \/ /\ current > 0 /\ current <= l
              /\ poll' = [poll EXCEPT ![p] = Idle] /\ UNCHANGED learned
           \/ /\ ~(current > 0 /\ current <= l) /\ learned = current
              /\ learned' = l /\ poll' = [poll EXCEPT ![p] = Idle]
           \/ /\ ~(current > 0 /\ current <= l) /\ learned # current
              /\ poll' = [poll EXCEPT ![p].current = learned] /\ UNCHANGED learned
    /\ UNCHANGED <<cfg, cutoff, started>>

TimingNext == \E p \in Polls :
            Poll(p) \/ Answered(p) \/ Disconnected(p) \/ maybeLearnProxyPollTimeout(p)

TimingSpec == TimingInit /\ [][TimingNext]_timing

----------------------------------------------------------------------------
(***************************************************************************)
(* What the client has learned is a wait the service accepts and the proxy *)
(* lets through: at least the smallest wait, and shorter than the proxy's  *)
(* cutoff, so that from then on no poll the service answers in time is cut *)
(* off, whichever poll it was learned from, the shortened first one        *)
(* included.                                                               *)
(***************************************************************************)
LearnedBelowCutoff ==
    learned # 0 => MinTimeout <= learned /\ learned < cutoff /\ learned < cfg.timeout

(***************************************************************************)
(* The learned value only ever decreases, also when two polls that were    *)
(* cut off learn at the same time.                                         *)
(***************************************************************************)
LearnedOnlyDecreases == [][learned' = learned \/ learned = 0 \/ learned' < learned]_timing
=============================================================================
