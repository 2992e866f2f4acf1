----------------------------- MODULE StdioChild -----------------------------
(***************************************************************************)
(* The supervisor of the stdio MCP child (pkg/mcpclient/stdio_command.go). *)
(* Its goroutines: waitForExit of every child, readers and writers that    *)
(* report a broken pipe, the recovery goroutine of a lost child, the       *)
(* forwarder of parent signals and the fx OnStop hook.  A critical section *)
(* under mu is one action; what happens between two of them is another.    *)
(*                                                                         *)
(* A child is named by the generation it was started under.  Losing it     *)
(* advances the generation, starting its replacement advances it again.    *)
(***************************************************************************)
EXTENDS Naturals, FiniteSets

CONSTANTS InitialDelay,   \* stdioRestartInitialDelay
          MaxDelay,       \* stdioRestartMaxDelay
          MaxGen,         \* bound: generations
          MaxSignals      \* bound: parent signals

ASSUME ChildAssumption ==
    /\ InitialDelay \in Nat \ {0} /\ MaxDelay \in Nat /\ InitialDelay <= MaxDelay
    /\ MaxGen \in Nat /\ MaxSignals \in Nat

VARIABLES
    policy,           \* "restart" or "exit"
    started, stopping, active, recovering, generation, restartDelay, signalForwarded,
    shutdown,         \* what was asked of fx: "none", "fail" (exit code 1) or "clean"
    \* processes
    alive,            \* the children whose process runs
    waitDone,         \* those whose waitDone channel is closed
    reported,         \* those whose waitForExit has reported the loss
    \* childLost, after it released mu
    losing,           \* the child it works for, 0 for none
    lossIsFinal,      \* it will request a shutdown rather than a restart
    invalidated,      \* the last child whose connections were invalidated
    \* the recovery goroutine; a recovery is named by the child it replaces
    recovery,         \* the one recoveryCancel and recoveryDone belong to
    recoveryPc, delay,
    cancelled,        \* recoveries whose context is cancelled
    recoveryDone,     \* recoveries whose done channel is closed
    \* forwardSignal and stop, after they released mu
    signals, signalPc, signalCancels,
    stopPc, stopChild, stopRecovery

lossVars == <<losing, lossIsFinal, invalidated>>
recoveryVars == <<recovery, recoveryPc, delay>>
signalVars == <<signals, signalPc, signalCancels>>
stopVars == <<stopPc, stopChild, stopRecovery>>
processVars == <<alive, waitDone, reported>>
vars == <<policy, started, stopping, active, recovering, generation, restartDelay,
          signalForwarded, shutdown, processVars, lossVars, recoveryVars, cancelled,
          recoveryDone, signalVars, stopVars>>

Init ==
    /\ policy \in {"restart", "exit"}
    /\ started = FALSE /\ stopping = FALSE /\ active = FALSE /\ recovering = FALSE
    /\ generation = 1 /\ restartDelay = 0 /\ signalForwarded = FALSE /\ shutdown = "none"
    /\ alive = {} /\ waitDone = {} /\ reported = {}
    /\ losing = 0 /\ lossIsFinal = FALSE /\ invalidated = 0
    /\ recovery = 0 /\ recoveryPc = "none" /\ delay = 0
    /\ cancelled = {} /\ recoveryDone = {}
    /\ signals = 0 /\ signalPc = "none" /\ signalCancels = 0
    /\ stopPc = "none" /\ stopChild = 0 /\ stopRecovery = 0

(* t.cmd: the last child started; children have the odd generations.       *)
Odd(g) == g % 2 = 1
cmd == IF Odd(generation) THEN generation ELSE generation - 1

Double(d) == IF 2 * d > MaxDelay THEN MaxDelay ELSE 2 * d

start ==
    /\ ~started /\ ~stopping
    /\ started' = TRUE /\ active' = TRUE
    /\ alive' = {generation}
    /\ UNCHANGED <<policy, stopping, recovering, generation, restartDelay, signalForwarded,
                   shutdown, waitDone, reported, lossVars, recoveryVars, cancelled,
                   recoveryDone, signalVars, stopVars>>

----------------------------------------------------------------------------
(* The end of a child. *)

(* A process may exit at any time, on its own, on a signal or killed. *)
ProcessExits(g) ==
    /\ g \in alive
    /\ alive' = alive \ {g}
    /\ UNCHANGED <<policy, started, stopping, active, recovering, generation, restartDelay,
                   signalForwarded, shutdown, waitDone, reported, lossVars, recoveryVars,
                   cancelled, recoveryDone, signalVars, stopVars>>

(* waitForExit: cmd.Wait returns and waitDone is closed. *)
WaitReturns(g) ==
    /\ started /\ g \in 1..cmd /\ Odd(g)
    /\ g \notin alive /\ g \notin waitDone
    /\ waitDone' = waitDone \cup {g}
    /\ UNCHANGED <<policy, started, stopping, active, recovering, generation, restartDelay,
                   signalForwarded, shutdown, alive, reported, lossVars, recoveryVars,
                   cancelled, recoveryDone, signalVars, stopVars>>

(* childLost acts on the first report against the active child only. *)
LossCounts(g) == ~stopping /\ active /\ generation = g

(* The critical section of childLost.  The child has been up for long      *)
(* enough to be stable, or not.                                            *)
LoseChild(g, stable) ==
    /\ active' = FALSE /\ recovering' = TRUE /\ generation' = generation + 1
    /\ restartDelay' = IF restartDelay = 0 \/ stable THEN InitialDelay
                                                     ELSE Double(restartDelay)
    /\ losing' = g
    /\ lossIsFinal' = (signalForwarded \/ policy = "exit")
    /\ recovery' = IF lossIsFinal' THEN recovery ELSE g

(* waitForExit reports; a report that does not count is dropped. *)
ReportExit(g, stable) ==
    /\ g \in waitDone \ reported
    /\ reported' = reported \cup {g}
    /\ IF LossCounts(g)
       THEN generation < MaxGen /\ LoseChild(g, stable)
       ELSE UNCHANGED <<active, recovering, generation, restartDelay, losing, lossIsFinal,
                        recovery>>
    /\ UNCHANGED <<policy, started, stopping, signalForwarded, shutdown, alive, waitDone,
                   invalidated, recoveryPc, delay, cancelled, recoveryDone, signalVars, stopVars>>

(* stdout reaches EOF or a write to stdin fails: the process may live on.  *)
ReportPipe(g, stable) ==
    /\ LossCounts(g) /\ generation < MaxGen
    /\ LoseChild(g, stable)
    /\ UNCHANGED <<policy, started, stopping, signalForwarded, shutdown, processVars,
                   invalidated, recoveryPc, delay, cancelled, recoveryDone, signalVars, stopVars>>

(* requestShutdown: once, and not while stopping. *)
requestShutdown ==
    shutdown' = IF stopping \/ shutdown # "none" THEN shutdown
                ELSE IF signalForwarded THEN "clean" ELSE "fail"

(* childLost, continued: the callback invalidates the shared connection    *)
(* before the recovery can make a new child visible.                       *)
Invalidate ==
    /\ losing # 0
    /\ invalidated' = losing /\ losing' = 0
    /\ IF lossIsFinal
       THEN requestShutdown /\ UNCHANGED <<recoveryPc, delay>>
       ELSE /\ recoveryPc' = "retire" /\ delay' = restartDelay
            /\ UNCHANGED shutdown
    /\ UNCHANGED <<policy, started, stopping, active, recovering, generation, restartDelay,
                   signalForwarded, processVars, lossIsFinal, recovery, cancelled, recoveryDone,
                   signalVars, stopVars>>
----------------------------------------------------------------------------
(* restartChild. *)

Recovering(from) ==
    /\ recoveryPc = from
    /\ UNCHANGED <<policy, started, stopping, signalForwarded, shutdown, waitDone, reported,
                   lossVars, recovery, cancelled, signalVars, stopVars>>

keepChild == UNCHANGED <<active, recovering, generation, restartDelay, alive>>

(* The recovery goroutine returns. *)
RecoveryReturns == recoveryPc' = "none" /\ recoveryDone' = recoveryDone \cup {recovery}

(* retireChild: the old process is terminated, killed after a grace period *)
(* or a cancellation, and waited for.                                      *)
KillOld ==
    /\ Recovering("retire") /\ keepChild
    /\ recoveryPc' = "killed"
    /\ UNCHANGED <<delay, recoveryDone>>

\* mutant: the replacement does not wait for the old process
OldReapedEarly ==
    /\ \E from \in {"retire", "killed"} : Recovering(from)
    /\ keepChild
    /\ recoveryPc' = "delay"
    /\ UNCHANGED <<delay, recoveryDone>>

OldReaped ==
    /\ \E from \in {"retire", "killed"} : Recovering(from)
    /\ recovery \in waitDone /\ keepChild
    /\ recoveryPc' = "delay"
    /\ UNCHANGED <<delay, recoveryDone>>

DelayElapses ==
    /\ Recovering("delay") /\ keepChild
    /\ recoveryPc' = "prepare"
    /\ UNCHANGED <<delay, recoveryDone>>

(* Both ways out of the loop: the wait and the check under mu. *)
RecoveryStops ==
    /\ \/ Recovering("delay") /\ recovery \in cancelled
       \/ Recovering("prepare") /\ (stopping \/ recovery \in cancelled)
    /\ RecoveryReturns /\ keepChild
    /\ UNCHANGED delay

ChildRestarts ==
    /\ Recovering("prepare") /\ ~stopping /\ recovery \notin cancelled
    /\ generation < MaxGen
    /\ generation' = generation + 1 /\ alive' = alive \cup {generation'}
    /\ active' = TRUE /\ recovering' = FALSE /\ restartDelay' = delay
    /\ RecoveryReturns
    /\ UNCHANGED delay

\* mutant: a failed start is not tried again
RestartGivesUp ==
    /\ Recovering("prepare") /\ recovery \notin cancelled
    /\ RecoveryReturns /\ keepChild
    /\ UNCHANGED delay

(* prepareChild or Start fails. *)
RestartFails ==
    /\ Recovering("prepare") /\ recovery \notin cancelled
    /\ recoveryPc' = "delay" /\ delay' = Double(delay) /\ keepChild
    /\ UNCHANGED recoveryDone

----------------------------------------------------------------------------
(* forwardSignal. *)

(* With no child to signal the recovery is cancelled; otherwise the child  *)
(* is signalled, which fails once it has been waited for.                  *)
ForwardSignal(failed) ==
    /\ signals < MaxSignals /\ signalPc = "none" /\ started /\ ~stopping
    /\ signals' = signals + 1 /\ signalForwarded' = TRUE
    /\ IF recovering \/ ~active
       THEN ~failed /\ signalPc' = "cancel" /\ signalCancels' = recovery
       ELSE /\ failed => cmd \notin alive
            /\ cmd \in waitDone => failed
            /\ signalPc' = IF failed THEN "shutdown" ELSE "none"
            /\ UNCHANGED signalCancels
    /\ UNCHANGED <<policy, started, stopping, active, recovering, generation, restartDelay,
                   shutdown, processVars, lossVars, recoveryVars, cancelled, recoveryDone,
                   stopVars>>

SignalCancels ==
    /\ signalPc = "cancel"
    /\ cancelled' = cancelled \cup ({signalCancels} \ {0})
    /\ signalPc' = "shutdown"
    /\ UNCHANGED <<policy, started, stopping, active, recovering, generation, restartDelay,
                   signalForwarded, shutdown, processVars, lossVars, recoveryVars,
                   recoveryDone, signals, signalCancels, stopVars>>

SignalShutdown ==
    /\ signalPc = "shutdown"
    /\ requestShutdown /\ signalPc' = "none"
    /\ UNCHANGED <<policy, started, stopping, active, recovering, generation, restartDelay,
                   signalForwarded, processVars, lossVars, recoveryVars, cancelled,
                   recoveryDone, signals, signalCancels, stopVars>>

----------------------------------------------------------------------------
(* stop, the OnStop hook. *)

BeginStop ==
    /\ started /\ stopPc = "none"
    /\ stopping' = TRUE /\ active' = FALSE
    /\ stopPc' = "cancel" /\ stopChild' = cmd /\ stopRecovery' = recovery
    /\ UNCHANGED <<policy, started, recovering, generation, restartDelay, signalForwarded,
                   shutdown, processVars, lossVars, recoveryVars, cancelled, recoveryDone,
                   signalVars>>

Stopping(from, to) ==
    /\ stopPc = from /\ stopPc' = to
    /\ UNCHANGED <<policy, started, stopping, active, recovering, generation, restartDelay,
                   signalForwarded, shutdown, processVars, lossVars, recoveryVars,
                   recoveryDone, signalVars, stopChild, stopRecovery>>

(* The recovery is cancelled, the pipes closed and the child terminated.   *)
StopCancels ==
    /\ Stopping("cancel", "waiting")
    /\ cancelled' = cancelled \cup ({stopRecovery} \ {0})

StopReaps == Stopping("waiting", "draining") /\ stopChild \in waitDone /\ UNCHANGED cancelled

\* mutant: stop does not wait for the recovery goroutine
StopReturnsEarly == Stopping("draining", "returned") /\ UNCHANGED cancelled

StopReturns ==
    /\ Stopping("draining", "returned")
    /\ stopRecovery \in recoveryDone \cup {0}
    /\ UNCHANGED cancelled

(* The context of the hook ends first. *)
StopTimesOut ==
    /\ \E from \in {"waiting", "draining"} : Stopping(from, "timedOut")
    /\ UNCHANGED cancelled

Stopped == stopPc \in {"returned", "timedOut"} /\ UNCHANGED vars
Recovery ==
    \/ KillOld \/ OldReaped \/ DelayElapses \/ RecoveryStops \/ ChildRestarts \/ RestartFails

Stop == StopCancels \/ StopReaps \/ StopReturns \/ StopTimesOut

Next ==
    \/ start
    \/ \E g \in alive : ProcessExits(g)
    \/ \E g \in 1..generation : WaitReturns(g)
    \/ \E g \in waitDone, stable \in BOOLEAN : ReportExit(g, stable)
    \/ \E g \in 1..generation, stable \in BOOLEAN : ReportPipe(g, stable)
    \/ Invalidate
    \/ Recovery
    \/ \E failed \in BOOLEAN : ForwardSignal(failed)
    \/ SignalCancels \/ SignalShutdown
    \/ BeginStop \/ Stop \/ Stopped

(* Goroutines run, timers fire and a killed process exits.  A start that   *)
(* is tried again and again succeeds in the end.                           *)
Fairness ==
    /\ WF_vars(\E g \in 1..generation : WaitReturns(g))
    /\ WF_vars(\E g \in waitDone, stable \in BOOLEAN : ReportExit(g, stable))
    /\ WF_vars(Invalidate)
    /\ WF_vars(Recovery) /\ SF_vars(ChildRestarts)
    /\ WF_vars(recoveryPc = "killed" /\ ProcessExits(recovery))
    /\ WF_vars(SignalCancels \/ SignalShutdown)
    /\ WF_vars(Stop)

Spec == Init /\ [][Next]_vars
FairSpec == Spec /\ Fairness

----------------------------------------------------------------------------
Generations == 0..MaxGen
Delays == {0} \cup InitialDelay..MaxDelay

(* Type invariant; the restart delay stays within its bounds.              *)
TypeOK ==
    /\ policy \in {"restart", "exit"}
    /\ {started, stopping, active, recovering, signalForwarded, lossIsFinal} \subseteq BOOLEAN
    /\ generation \in 1..MaxGen /\ restartDelay \in Delays /\ delay \in Delays
    /\ shutdown \in {"none", "fail", "clean"}
    /\ alive \subseteq Generations /\ waitDone \subseteq Generations
    /\ reported \subseteq Generations
    /\ losing \in Generations /\ invalidated \in Generations /\ recovery \in Generations
    /\ recoveryPc \in {"none", "retire", "killed", "delay", "prepare"}
    /\ cancelled \subseteq Generations /\ recoveryDone \subseteq Generations
    /\ signals \in 0..MaxSignals /\ signalPc \in {"none", "cancel", "shutdown"}
    /\ signalCancels \in Generations
    /\ stopPc \in {"none", "cancel", "waiting", "draining", "returned", "timedOut"}
    /\ stopChild \in Generations /\ stopRecovery \in Generations

(* Two child processes never run at once: restartChild starts a            *)
(* replacement only after the old process has been waited for, also when   *)
(* it was lost by a broken pipe and is still running, and a late exit      *)
(* report of an old child is not taken for the loss of the new one.        *)
OneChildProcess == Cardinality(alive) <= 1

(* A child is made active only after the connections of the one it         *)
(* replaces have been invalidated by the loss callback.                    *)
InvalidatedBeforeReplacement == active /\ generation > 1 => invalidated = generation - 2

(* Once stop has returned without an error no child process runs and no    *)
(* recovery goroutine is left, whatever it was doing when stop began.      *)
StopLeavesNothing == stopPc = "returned" => alive = {} /\ recoveryPc = "none"

(* A lost child is replaced, unless the client stops or is to shut down.   *)
LostChildIsReplaced == recovering ~> active \/ stopping \/ shutdown # "none"

(* A parent signal that finds no child to forward it to ends the client.   *)
SignalIsHonoured == signalForwarded /\ ~active ~> shutdown # "none" \/ stopping

(* The client exits nonzero only for a loss nobody asked for: under the    *)
(* exit policy, and not after a parent signal even if the child's exit     *)
(* wins the race.                                                          *)
FailingExitStep ==
    shutdown = "none" /\ shutdown' = "fail" => policy = "exit" /\ signals = 0

FailsOnlyUnasked == [][FailingExitStep]_vars
=============================================================================
