----------------------- MODULE CloudflaredSupervisor -----------------------
(***************************************************************************)
(* The supervisor of the bundled cloudflared companion                     *)
(* (pkg/cloudflared/runtime/supervisor.go, state.go): Start fetches the    *)
(* token, spawns the child and waits for its readiness endpoint; a monitor *)
(* goroutine probes it every second; waitForExit publishes its end; Stop   *)
(* interrupts it and kills it after a grace period.  Each section under    *)
(* s.mu, and each call on State, is one step.                              *)
(***************************************************************************)
EXTENDS Naturals

CONSTANT managedCloudflareRetryAttempts

VARIABLES
  attempt,        \* of FetchManagedCloudflareTunnel, 0 outside of it
  companionStart, \* Start: where it is, or its result
  stop,           \* Stop: where it is, or its result
  process,        \* the child: "none", "live", "dead"
  signalled,      \* the interrupt reached a live child (it may take its time)
  exitedDone,     \* set by waitForExit under s.mu
  waiter,         \* waitForExit: "none", "wait", "expected", "unexpected", "closed"
  companionStopping,
  companionReady, \* State.ready
  probe,          \* the monitor: "off", "sleep", and the answer a probe brought
  failures        \* errors sent on Failures()

companionVars == <<attempt, companionStart, stop, process, signalled, exitedDone, waiter,
                   companionStopping, companionReady, probe, failures>>

exited == waiter = "closed"

-----------------------------------------------------------------------------
(* runtimeToken: the configured token, none, or the managed one; a request *)
(* for it that fails or has a retryable status is repeated after a wait.   *)
childVars == <<stop, process, signalled, exitedDone, waiter, companionStopping, probe, failures>>

RuntimeToken ==
  /\ companionStart = "begin"
  /\ \/ companionStart' = "launch" /\ UNCHANGED attempt
     \/ companionStart' = "fetch" /\ attempt' = 1
  /\ UNCHANGED <<companionReady, childVars>>

FetchAnswered ==
  /\ companionStart = "fetch"
  /\ \E answer \in {"good", "retryable", "final"} :
       /\ companionStart' =
            CASE answer = "good" -> "launch"
              [] answer = "retryable" /\ attempt < managedCloudflareRetryAttempts -> "backoff"
              [] OTHER -> "failed"
       /\ attempt' = IF companionStart' = "backoff" THEN attempt ELSE 0
  /\ companionReady' = FALSE /\ UNCHANGED childVars

WaitForRetry ==   \* or the start context ends during the wait
  /\ companionStart = "backoff"
  /\ \/ companionStart' = "fetch" /\ attempt' = attempt + 1
     \/ companionStart' = "failed" /\ attempt' = 0
  /\ companionReady' = FALSE /\ UNCHANGED childVars

(* resolveExecutablePath, reserveLoopbackAddr, the pipes and cmd.Start: any *)
(* of them fails Start with the state not ready.                            *)
Launch ==
  /\ companionStart = "launch"
  /\ \/ /\ companionStart' = "waitReady" /\ process' = "live" /\ waiter' = "wait"
        /\ UNCHANGED companionReady
     \/ /\ companionStart' = "failed" /\ companionReady' = FALSE /\ UNCHANGED <<process, waiter>>
  /\ UNCHANGED <<attempt, stop, signalled, exitedDone, companionStopping, probe, failures>>

setStopping == companionStopping' = TRUE

(* waitUntilReady: a probe answered 200, or the child exited or the time    *)
(* is up, and Start stops the child again.                                  *)
StartProbed ==
  /\ companionStart = "waitReady" /\ process = "live" /\ companionStart' = "mark"
  /\ UNCHANGED <<attempt, stop, process, signalled, exitedDone, waiter,
                 companionStopping, companionReady, probe, failures>>

StartGivesUp ==
  /\ companionStart = "waitReady" /\ companionStart' = "stopping"
  /\ setStopping /\ stop' = "signal"
  /\ UNCHANGED <<attempt, process, signalled, exitedDone, waiter, companionReady, probe, failures>>

(* markReadyIfRunning asks exitedDone under s.mu. *)
mayMarkReady == ~exitedDone

(* The end of Start: ready is set only while the child runs; then the *)
(* monitor begins.                                                    *)
MarkReady ==
  /\ companionStart = "mark"
  /\ IF mayMarkReady
       THEN companionReady' = TRUE /\ companionStart' = "started" /\ probe' = "sleep"
       ELSE companionStart' = "failed" /\ UNCHANGED <<companionReady, probe>>
  /\ UNCHANGED <<attempt, stop, process, signalled, exitedDone, waiter,
                 companionStopping, failures>>

-----------------------------------------------------------------------------
(* monitorReadiness: a probe is answered while the monitor is neither      *)
(* cancelled nor told of the exit; the answer is applied in a later step.  *)
Probe ==
  /\ probe = "sleep" /\ ~exited /\ stop = "none"
  /\ probe' \in (IF process = "live" THEN {"good", "bad"} ELSE {"bad"})
  /\ UNCHANGED <<attempt, companionStart, stop, process, signalled, exitedDone, waiter,
                 companionStopping, companionReady, failures>>

ProbeApplied ==
  /\ probe \in {"good", "bad"} /\ probe' = "sleep"
  /\ companionReady' = IF probe = "good" THEN mayMarkReady \/ companionReady ELSE FALSE
  /\ UNCHANGED <<attempt, companionStart, stop, process, signalled, exitedDone, waiter,
                 companionStopping, failures>>

MonitorEnds ==
  /\ probe = "sleep" /\ (exited \/ stop # "none") /\ probe' = "off"
  /\ UNCHANGED <<attempt, companionStart, stop, process, signalled, exitedDone, waiter,
                 companionStopping, companionReady, failures>>

-----------------------------------------------------------------------------
CompanionExits ==   \* by itself, or for the interrupt
  /\ process = "live" /\ process' = "dead"
  /\ UNCHANGED <<attempt, companionStart, stop, signalled, exitedDone, waiter,
                 companionStopping, companionReady, probe, failures>>

(* waitForExit: under s.mu it sets exitedDone and reads stopping, ...     *)
ExitSeen ==
  /\ waiter = "wait" /\ process = "dead"
  /\ exitedDone' = TRUE /\ waiter' = IF companionStopping THEN "expected" ELSE "unexpected"
  /\ UNCHANGED <<attempt, companionStart, stop, process, signalled, companionStopping,
                 companionReady, probe, failures>>

(* ... then it publishes the state and, for an exit nobody asked for, the *)
(* failure, and only then closes exited.                                  *)
ExitPublished ==
  /\ waiter \in {"expected", "unexpected"}
  /\ waiter' = "closed" /\ companionReady' = FALSE
  /\ failures' = IF waiter = "unexpected" THEN failures + 1 ELSE failures
  /\ UNCHANGED <<attempt, companionStart, stop, process, signalled, exitedDone,
                 companionStopping, probe>>

-----------------------------------------------------------------------------
(* Stop is an OnStop hook: it runs once Start has returned nil. *)
StopBegins ==
  /\ companionStart = "started" /\ stop = "none" /\ setStopping /\ stop' = "signal"
  /\ UNCHANGED <<attempt, companionStart, process, signalled, exitedDone, waiter,
                 companionReady, probe, failures>>

InterruptCompanion ==
  /\ stop = "signal" /\ stop' = "grace" /\ signalled' = (process = "live")
  /\ UNCHANGED <<attempt, companionStart, process, exitedDone, waiter, companionStopping,
                 companionReady, probe, failures>>

CompanionStopped ==
  /\ stop \in {"grace", "killed"} /\ exited /\ stop' = "done"
  /\ companionStart' = IF companionStart = "stopping" THEN "failed" ELSE companionStart
  /\ UNCHANGED <<attempt, process, signalled, exitedDone, waiter, companionStopping,
                 companionReady, probe, failures>>

keepProcess == UNCHANGED process

kill == process' = "dead"

GraceOver ==
  /\ stop = "grace" /\ ~exited /\ kill /\ stop' = "killed"
  /\ UNCHANGED <<attempt, companionStart, signalled, exitedDone, waiter,
                 companionStopping, companionReady, probe, failures>>

(* The stop context ends first: the child is killed and not waited for. *)
StopContextEnds ==
  /\ \/ stop = "grace" /\ kill
     \/ stop = "killed" /\ UNCHANGED process
  /\ stop' = "expired"
  /\ companionStart' = IF companionStart = "stopping" THEN "failed" ELSE companionStart
  /\ UNCHANGED <<attempt, signalled, exitedDone, waiter, companionStopping,
                 companionReady, probe, failures>>

CompanionInit ==
  /\ attempt = 0 /\ companionStart = "begin" /\ stop = "none" /\ process = "none"
  /\ signalled = FALSE /\ exitedDone = FALSE /\ waiter = "none" /\ companionStopping = FALSE
  /\ companionReady = FALSE /\ probe = "off" /\ failures = 0

CompanionProgress ==
  \/ RuntimeToken \/ FetchAnswered \/ WaitForRetry \/ Launch \/ MarkReady
  \/ ProbeApplied \/ MonitorEnds
  \/ ExitSeen \/ ExitPublished \/ InterruptCompanion \/ CompanionStopped \/ GraceOver

CompanionNext ==
  \/ CompanionProgress \/ StartProbed \/ StartGivesUp \/ Probe \/ CompanionExits
  \/ StopBegins \/ StopContextEnds

CompanionSpec ==
  CompanionInit /\ [][CompanionNext]_companionVars /\ WF_companionVars(CompanionProgress)

-----------------------------------------------------------------------------
(* Once exited is closed the companion is not ready and never becomes      *)
(* ready again: a probe answered before the exit and applied after it does *)
(* not bring the readiness back.                                           *)
ExitedIsNotReady == exited => ~companionReady

(* Whatever the child does with the interrupt, a Stop leaves no child. *)
StopEndsChild == (stop # "none") ~> (process = "dead")

(* Failures() "never receives during a normal tunnel-client shutdown": a   *)
(* child that was told to stop before it exited is not reported.           *)
OnlyUnexpectedExitsFail == [][failures' # failures => ~signalled]_companionVars
=============================================================================
