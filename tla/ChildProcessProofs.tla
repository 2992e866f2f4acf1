------------------------- MODULE ChildProcessProofs -------------------------
(***************************************************************************)
(* Proofs about the child processes the client supervises: the stdio MCP   *)
(* server (StdioChild), for any delays and any number of generations and   *)
(* signals, the Codex app-server behind the admin UI (AppServerBridge),    *)
(* for any number of callers and restarts, and the cloudflared companion   *)
(* (CloudflaredSupervisor).                                                *)
(***************************************************************************)
EXTENDS StdioChild, AppServerBridge, CloudflaredSupervisor, FiniteSetTheorems, TLAPS

-----------------------------------------------------------------------------
(* StdioChild: one child process at a time, connections that are           *)
(* invalidated before a replacement is seen, a stop that leaves nothing    *)
(* behind and an exit code that is honest.                                 *)

(* A loss that childLost has still to hand to a recovery. *)
Restarts == losing # 0 /\ ~lossIsFinal

Flags ==
    /\ started \in BOOLEAN /\ active \in BOOLEAN /\ stopping \in BOOLEAN
    /\ lossIsFinal \in BOOLEAN /\ signalForwarded \in BOOLEAN

(* The processes: only the last child may run, one that was waited for     *)
(* does not, and a replacement has a generation nobody was waited for.     *)
Processes ==
    /\ generation \in Nat \ {0}
    /\ ~started => generation = 1 /\ ~active /\ alive = {} /\ waitDone = {} /\ ~stopping
    /\ alive \subseteq {cmd}
    /\ waitDone \subseteq 1..cmd
    /\ waitDone \cap alive = {}

(* The loss of a child and the recovery from it: they follow each other, and *)
(* both are about the child of the generation before.                        *)
Losses ==
    /\ active => Odd(generation) /\ losing = 0 /\ recoveryPc = "none"
    /\ losing # 0 => ~Odd(generation) /\ losing = generation - 1 /\ recoveryPc = "none"
    /\ recoveryPc # "none" => ~Odd(generation) /\ losing = 0 /\ invalidated = recovery
    /\ recoveryPc # "none" \/ Restarts => recovery = generation - 1
    /\ recoveryPc \in {"delay", "prepare"} => recovery \in waitDone
    /\ active /\ generation > 1 => invalidated = generation - 2

(* The done channel of a recovery is closed when its goroutine returns. *)
Recoveries ==
    /\ \A r \in recoveryDone : r \in Nat /\ r < generation
    /\ recovery = 0 \/ recovery \in recoveryDone => recoveryPc = "none" /\ ~Restarts

(* A stop holds on to the child and the recovery it found. *)
Stops ==
    /\ stopping <=> stopPc # "none"
    /\ stopping => ~active /\ stopChild = cmd /\ stopRecovery = recovery
    /\ stopPc \in {"draining", "returned"} => stopChild \in waitDone
    /\ stopPc = "returned" => stopRecovery \in recoveryDone \cup {0}

(* Who may ask for a shutdown. *)
ShutdownRequests ==
    /\ signals \in Nat /\ (signalForwarded <=> signals > 0)
    /\ signalPc # "none" => signalForwarded
    /\ lossIsFinal => signalForwarded \/ policy = "exit"

(* The inductive invariant of the supervisor: what the goroutines of one   *)
(* child may assume between two critical sections (childLost, restartChild *)
(* and stop in stdio_command.go).                                          *)
ChildInv == Flags /\ Processes /\ Losses /\ Recoveries /\ Stops /\ ShutdownRequests

relevant == <<policy, started, stopping, active, generation, signalForwarded, alive, waitDone,
              lossVars, recovery, recoveryPc, recoveryDone, signals, signalPc, stopVars>>

LEMMA Parity ==
  ASSUME NEW n \in Nat
  PROVE  Odd(n) <=> ~Odd(n + 1)
BY DEF Odd

LEMMA ChildInit == Init => ChildInv
<1>. SUFFICES ASSUME Init PROVE ChildInv
  OBVIOUS
<1>1. Flags
  BY Zenon DEF Init, Flags
<1>p. Processes
  BY DEF Init, Processes
<1>2. Losses /\ Recoveries
  BY DEF Init, Losses, Recoveries, Restarts
<1>3. Stops /\ ShutdownRequests
  BY DEF Init, Stops, ShutdownRequests
<1>. QED
  BY <1>1, <1>p, <1>2, <1>3 DEF ChildInv

LEMMA ChildIrrelevant ==
  ASSUME ChildInv, UNCHANGED relevant
  PROVE  ChildInv'
BY DEF ChildInv, Flags, Processes, Losses, Recoveries, Stops, ShutdownRequests, Restarts, cmd, relevant,
   lossVars, stopVars

LEMMA ChildStarts ==
  ASSUME ChildInv, start
  PROVE  ChildInv'
<1>. USE DEF ChildInv
<1>1. /\ generation = 1 /\ generation' = 1 /\ alive' = {1} /\ waitDone' = {} /\ started' = TRUE
      /\ active' = TRUE /\ ~stopping /\ stopPc = "none"
      /\ UNCHANGED <<policy, stopping, signalForwarded, lossVars, recovery, recoveryPc,
                     recoveryDone, signals, signalPc, stopVars>>
  BY DEF start, Processes, Stops, recoveryVars, signalVars
<1>2. Odd(1) /\ cmd = 1 /\ cmd' = 1
  BY <1>1 DEF cmd, Odd
<1>3. recoveryPc = "none" /\ losing = 0
  BY <1>1, <1>2 DEF Losses
<1>4. Flags' /\ Processes'
  BY <1>1, <1>2 DEF Flags, Processes, lossVars
<1>5. Losses'
  BY <1>1, <1>2, <1>3 DEF Losses, Restarts, lossVars
<1>6. Recoveries'
  BY <1>1 DEF Recoveries, Restarts, lossVars
<1>7. Stops' /\ ShutdownRequests'
  BY <1>1 DEF Stops, ShutdownRequests, lossVars, stopVars
<1>. QED
  BY <1>4, <1>5, <1>6, <1>7

(* A process ends, and is waited for. *)
LEMMA ChildEnds ==
  ASSUME ChildInv, NEW g, ProcessExits(g) \/ WaitReturns(g)
  PROVE  ChildInv'
<1>. USE DEF ChildInv
<1>1. /\ UNCHANGED <<policy, started, stopping, active, generation, signalForwarded, lossVars,
                     recovery, recoveryPc, recoveryDone, signals, signalPc, stopVars>>
      /\ alive' \subseteq alive /\ waitDone \subseteq waitDone'
      /\ waitDone' \subseteq waitDone \cup (1..cmd \ alive)
      /\ ~started => UNCHANGED waitDone
  BY DEF ProcessExits, WaitReturns, recoveryVars, signalVars
<1>2. cmd' = cmd
  BY <1>1 DEF cmd
<1>3. waitDone' \subseteq 1..cmd /\ waitDone' \cap alive' = {}
  BY <1>1, Zenon DEF Processes
<1>4. Flags' /\ Processes'
  BY <1>1, <1>2, <1>3 DEF Flags, Processes, lossVars
<1>5. Losses' /\ Recoveries'
  BY <1>1 DEF Losses, Recoveries, Restarts, lossVars
<1>6. Stops' /\ ShutdownRequests'
  BY <1>1, <1>2 DEF Stops, ShutdownRequests, lossVars, stopVars
<1>. QED
  BY <1>4, <1>5, <1>6

(* The critical section of childLost: only the active child is lost, so no *)
(* other loss and no recovery is under way.                                *)
LEMMA ChildIsLost ==
  ASSUME ChildInv, NEW g, NEW stable, LossCounts(g), LoseChild(g, stable),
         UNCHANGED <<policy, started, stopping, signalForwarded, alive, waitDone, invalidated,
                     recoveryPc, recoveryDone, signals, signalPc, stopVars>>
  PROVE  ChildInv'
<1>. USE DEF ChildInv
<1>1. /\ ~stopping /\ active /\ generation = g /\ generation \in Nat \ {0}
      /\ Odd(generation) /\ recoveryPc = "none" /\ losing = 0 /\ started /\ stopPc = "none"
  BY DEF LossCounts, Losses, Processes, Stops
<1>2. /\ active' = FALSE /\ generation' = generation + 1 /\ losing' = g
      /\ lossIsFinal' = (signalForwarded \/ policy = "exit")
      /\ recovery' = IF lossIsFinal' THEN recovery ELSE g
  BY DEF LoseChild
<1>3. ~Odd(generation')
  BY <1>1, <1>2, Parity
<1>4. cmd = generation /\ cmd' = generation
  BY <1>1, <1>2, <1>3 DEF cmd
<1>5. Processes'
  BY <1>1, <1>2, <1>4 DEF Processes
<1>f. Flags'
  BY <1>2, Zenon DEF Flags
<1>6. Restarts' => recovery' = g
  BY <1>2 DEF Restarts
<1>7. Losses'
  BY <1>1, <1>2, <1>3, <1>6 DEF Losses
<1>8. Recoveries'
  <2>1. \A r \in recoveryDone : r \in Nat /\ r < generation
    BY DEF Recoveries
  <2>2. g # 0 /\ g \notin recoveryDone
    BY <1>1, <2>1
  <2>3. Restarts' => recovery' # 0 /\ recovery' \notin recoveryDone'
    BY <1>6, <2>2
  <2>4. \A r \in recoveryDone' : r \in Nat /\ r < generation'
    BY <1>1, <1>2, <2>1
  <2>. QED
    BY <1>1, <2>3, <2>4 DEF Recoveries
<1>9. Stops' /\ ShutdownRequests'
  BY <1>1, <1>2, Zenon DEF Stops, ShutdownRequests, stopVars
<1>. QED
  BY <1>5, <1>f, <1>7, <1>8, <1>9

LEMMA ChildInvalidates ==
  ASSUME ChildInv, Invalidate
  PROVE  ChildInv'
<1>. USE DEF ChildInv
<1>1. /\ UNCHANGED <<policy, started, stopping, active, generation, signalForwarded, alive,
                     waitDone, lossIsFinal, recovery, recoveryDone, signals, signalPc, stopVars>>
      /\ losing # 0 /\ invalidated' = losing /\ losing' = 0
      /\ lossIsFinal => UNCHANGED recoveryPc
      /\ ~lossIsFinal => recoveryPc' = "retire"
  BY DEF Invalidate, processVars, signalVars
<1>2. ~Odd(generation) /\ losing = generation - 1 /\ recoveryPc = "none" /\ ~active
  BY <1>1 DEF Losses
<1>3. Flags' /\ Processes' /\ ShutdownRequests'
  BY <1>1 DEF Flags, Processes, ShutdownRequests, cmd
<1>4. ~lossIsFinal => recovery = losing
  BY <1>1, <1>2 DEF Losses, Restarts
<1>5. recoveryPc' = "none" \/ (recoveryPc' = "retire" /\ ~lossIsFinal)
  BY <1>1, <1>2, Zenon
<1>6. Losses'
  BY <1>1, <1>2, <1>4, <1>5 DEF Losses, Restarts
<1>7. Recoveries'
  BY <1>1, <1>5 DEF Recoveries, Restarts
<1>8. Stops'
  BY <1>1 DEF Stops, cmd, stopVars
<1>. QED
  BY <1>3, <1>6, <1>7, <1>8

(* restartChild on its way to the next start. *)
LEMMA RecoveryGoesOn ==
  ASSUME ChildInv, KillOld \/ OldReaped \/ DelayElapses \/ RestartFails
  PROVE  ChildInv'
<1>. USE DEF ChildInv
<1>1. /\ UNCHANGED <<policy, started, stopping, active, generation, signalForwarded, alive,
                     waitDone, lossVars, recovery, recoveryDone, signals, signalPc, stopVars>>
      /\ recoveryPc # "none" /\ recoveryPc' # "none"
      /\ recoveryPc' \in {"delay", "prepare"} =>
            recoveryPc \in {"delay", "prepare"} \/ recovery \in waitDone
  BY Zenon DEF KillOld, OldReaped, DelayElapses, RestartFails, Recovering, keepChild, signalVars
<1>2. Flags' /\ Processes' /\ ShutdownRequests'
  BY <1>1 DEF Flags, Processes, ShutdownRequests, cmd, lossVars
<1>3. Losses' /\ Recoveries'
  BY <1>1 DEF Losses, Recoveries, Restarts, lossVars
<1>4. Stops'
  BY <1>1 DEF Stops, cmd, stopVars
<1>. QED
  BY <1>2, <1>3, <1>4

(* restartChild returns: cancelled, or because the client stops. *)
LEMMA RecoveryGivesUp ==
  ASSUME ChildInv, RecoveryStops
  PROVE  ChildInv'
<1>. USE DEF ChildInv
<1>1. /\ UNCHANGED <<policy, started, stopping, active, generation, signalForwarded, alive,
                     waitDone, lossVars, recovery, signals, signalPc, stopVars>>
      /\ recoveryPc # "none" /\ recoveryPc' = "none"
      /\ recoveryDone' = recoveryDone \cup {recovery}
  BY DEF RecoveryStops, RecoveryReturns, Recovering, keepChild, signalVars
<1>2. Flags' /\ Processes' /\ ShutdownRequests'
  BY <1>1 DEF Flags, Processes, ShutdownRequests, cmd, lossVars
<1>3. losing = 0 /\ recovery = generation - 1
  BY <1>1 DEF Losses
<1>4. Losses'
  BY <1>1, <1>3 DEF Losses, Restarts, lossVars
<1>5. Recoveries'
  BY <1>1, <1>3 DEF Recoveries, Restarts, Processes, lossVars
<1>6. Stops'
  BY <1>1 DEF Stops, cmd, stopVars
<1>. QED
  BY <1>2, <1>4, <1>5, <1>6

(* The replacement starts: the old process has been waited for, so it is  *)
(* the only one, and the old connections are invalid.                     *)
LEMMA ChildIsReplaced ==
  ASSUME ChildInv, ChildRestarts
  PROVE  ChildInv'
<1>. USE DEF ChildInv
<1>1. /\ UNCHANGED <<policy, started, stopping, signalForwarded, waitDone, lossVars, recovery,
                     signals, signalPc, stopVars>>
      /\ recoveryPc = "prepare" /\ recoveryPc' = "none" /\ ~stopping
      /\ generation' = generation + 1 /\ alive' = alive \cup {generation'} /\ active' = TRUE
      /\ recoveryDone' = recoveryDone \cup {recovery}
  BY DEF ChildRestarts, RecoveryReturns, Recovering, signalVars
<1>2. /\ ~Odd(generation) /\ losing = 0 /\ invalidated = recovery
      /\ recovery = generation - 1 /\ recovery \in waitDone
      /\ generation \in Nat \ {0} /\ started
  BY <1>1 DEF Losses, Processes
<1>3. Odd(generation') /\ cmd = generation - 1 /\ cmd' = generation'
  BY <1>1, <1>2, Parity DEF cmd
<1>4. alive = {}
  BY <1>2, <1>3 DEF Processes
<1>5. waitDone \subseteq 1..(generation - 1)
  BY <1>3 DEF Processes
<1>6. Processes'
  BY <1>1, <1>2, <1>3, <1>4, <1>5 DEF Processes
<1>7. Flags' /\ ShutdownRequests'
  BY <1>1 DEF Flags, ShutdownRequests, lossVars
<1>8. Losses'
  BY <1>1, <1>2, <1>3 DEF Losses, Restarts, lossVars
<1>9. Recoveries'
  <2>1. \A r \in recoveryDone' : r \in Nat /\ r < generation'
    BY <1>1, <1>2 DEF Recoveries
  <2>. QED
    BY <1>1, <1>2, <2>1 DEF Recoveries, Restarts, lossVars
<1>10. Stops'
  BY <1>1 DEF Stops, stopVars
<1>. QED
  BY <1>6, <1>7, <1>8, <1>9, <1>10

LEMMA ChildSignals ==
  ASSUME ChildInv, (\E failed \in BOOLEAN : ForwardSignal(failed)) \/ SignalCancels \/ SignalShutdown
  PROVE  ChildInv'
<1>. USE DEF ChildInv
<1>1. UNCHANGED <<policy, started, stopping, active, generation, alive, waitDone, lossVars,
                  recovery, recoveryPc, recoveryDone, stopVars>>
  BY Zenon DEF ForwardSignal, SignalCancels, SignalShutdown, processVars, recoveryVars
<1>2. \/ signals' = signals + 1 /\ signalForwarded' = TRUE
      \/ UNCHANGED <<signals, signalForwarded>> /\ signalPc # "none"
  BY Zenon DEF ForwardSignal, SignalCancels, SignalShutdown
<1>3. Processes' /\ Losses' /\ Recoveries'
  BY <1>1, Zenon DEF Processes, Losses, Recoveries, Restarts, cmd, lossVars
<1>4. Stops'
  BY <1>1 DEF Stops, cmd, stopVars
<1>5. signalForwarded' = TRUE
  BY <1>2 DEF ShutdownRequests, Flags
<1>6. Flags'
  BY <1>1, <1>5 DEF Flags, lossVars
<1>7. ShutdownRequests'
  <2>1. signals \in Nat /\ signals' \in Nat /\ signals' > 0
    BY <1>2 DEF ShutdownRequests
  <2>. QED
    BY <1>5, <2>1 DEF ShutdownRequests
<1>. QED
  BY <1>3, <1>4, <1>6, <1>7

(* stop: no child is started and none is lost once it has begun. *)
LEMMA ChildStops ==
  ASSUME ChildInv, BeginStop \/ Stop
  PROVE  ChildInv'
<1>. USE DEF ChildInv
<1>1. UNCHANGED <<policy, started, generation, signalForwarded, alive, waitDone, lossVars,
                  recovery, recoveryPc, recoveryDone, signals, signalPc>>
  BY Zenon DEF BeginStop, Stop, StopCancels, StopReaps, StopReturns, StopTimesOut, Stopping,
     processVars, recoveryVars, signalVars
<1>2. cmd' = cmd
  BY <1>1 DEF cmd
<1>3. CASE BeginStop
  <2>1. /\ stopping' = TRUE /\ active' = FALSE /\ started /\ stopPc' = "cancel"
        /\ stopChild' = cmd /\ stopRecovery' = recovery
    BY <1>3 DEF BeginStop
  <2>2. Flags' /\ Processes' /\ ShutdownRequests'
    BY <1>1, <1>2, <2>1, ZenonT(30) DEF Flags, Processes, ShutdownRequests, lossVars
  <2>3. Losses' /\ Recoveries'
    BY <1>1, <2>1, Zenon DEF Losses, Recoveries, Restarts, lossVars
  <2>4. Stops'
    BY <1>1, <1>2, <2>1, Zenon DEF Stops
  <2>. QED
    BY <2>2, <2>3, <2>4
<1>4. CASE Stop
  <2>1. /\ UNCHANGED <<stopping, active, stopChild, stopRecovery>>
        /\ stopPc # "none" /\ stopPc' # "none"
        /\ stopPc' = "draining" => stopChild \in waitDone
        /\ stopPc' = "returned" => stopPc = "draining" /\ stopRecovery \in recoveryDone \cup {0}
    BY <1>4, ZenonT(30) DEF Stop, StopCancels, StopReaps, StopReturns, StopTimesOut, Stopping
  <2>2. Flags' /\ Processes' /\ ShutdownRequests'
    BY <1>1, <1>2, <2>1, Zenon DEF Flags, Processes, ShutdownRequests, lossVars
  <2>3. Losses' /\ Recoveries'
    BY <1>1, <2>1, Zenon DEF Losses, Recoveries, Restarts, lossVars
  <2>4. Stops'
    BY <1>1, <1>2, <2>1 DEF Stops
  <2>. QED
    BY <2>2, <2>3, <2>4
<1>. QED
  BY <1>3, <1>4

LEMMA ChildStep == ChildInv /\ [Next]_vars => ChildInv'
<1>. SUFFICES ASSUME ChildInv, [Next]_vars PROVE ChildInv'
  OBVIOUS
<1>1. CASE start
  BY <1>1, ChildStarts
<1>2. CASE \E g \in alive : ProcessExits(g)
  BY <1>2, ChildEnds
<1>3. CASE \E g \in 1..generation : WaitReturns(g)
  BY <1>3, ChildEnds
<1>4. CASE \E g \in waitDone, stable \in BOOLEAN : ReportExit(g, stable)
  <2>1. PICK g \in waitDone, stable \in BOOLEAN : ReportExit(g, stable)
    BY <1>4
  <2>2. CASE LossCounts(g)
    BY <2>1, <2>2, ChildIsLost, Zenon DEF ReportExit, signalVars
  <2>3. CASE ~LossCounts(g)
    BY <2>1, <2>3, ChildIrrelevant, Zenon DEF ReportExit, relevant, lossVars, signalVars
  <2>. QED
    BY <2>2, <2>3
<1>5. CASE \E g \in 1..generation, stable \in BOOLEAN : ReportPipe(g, stable)
  BY <1>5, ChildIsLost DEF ReportPipe, processVars, signalVars
<1>6. CASE Invalidate
  BY <1>6, ChildInvalidates
<1>7. CASE Recovery
  BY <1>7, RecoveryGoesOn, RecoveryGivesUp, ChildIsReplaced DEF Recovery
<1>8. CASE (\E failed \in BOOLEAN : ForwardSignal(failed)) \/ SignalCancels \/ SignalShutdown
  BY <1>8, ChildSignals
<1>9. CASE BeginStop \/ Stop
  BY <1>9, ChildStops
<1>10. CASE Stopped \/ UNCHANGED vars
  BY <1>10, ChildIrrelevant, Zenon DEF Stopped, vars, relevant, processVars, recoveryVars, signalVars
<1>. QED
  BY <1>1, <1>2, <1>3, <1>4, <1>5, <1>6, <1>7, <1>8, <1>9, <1>10 DEF Next

(* The supervisor keeps its invariant, whatever children, pipes, signals   *)
(* and a stop do to it.                                                    *)
THEOREM ChildInvariant == Spec => []ChildInv
BY ChildInit, ChildStep, PTL DEF Spec

(* Two child processes never run at once (restartChild waits for the old   *)
(* one), through any number of losses.                                     *)
THEOREM OneChildProcessThm == Spec => []OneChildProcess
<1>1. ChildInv => OneChildProcess
  <2>. SUFFICES ASSUME ChildInv PROVE Cardinality(alive) <= 1
    BY DEF OneChildProcess
  <2>1. alive = {} \/ alive = {cmd}
    BY DEF ChildInv, Processes
  <2>2. Cardinality({}) = 0 /\ Cardinality({cmd}) = 1
    BY FS_EmptySet, FS_Singleton, Zenon
  <2>. QED
    BY <2>1, <2>2
<1>. QED
  BY <1>1, ChildInvariant, PTL

(* A replacement becomes active only after the connections to the child it *)
(* replaces were invalidated (the loss callback of childLost).             *)
THEOREM InvalidatedBeforeReplacementThm == Spec => []InvalidatedBeforeReplacement
<1>1. ChildInv => InvalidatedBeforeReplacement
  BY DEF ChildInv, Losses, InvalidatedBeforeReplacement
<1>. QED
  BY <1>1, ChildInvariant, PTL

(* A stop that returns without an error leaves neither a child process nor *)
(* a recovery goroutine, wherever the recovery was when it began.          *)
THEOREM StopLeavesNothingThm == Spec => []StopLeavesNothing
<1>1. ChildInv => StopLeavesNothing
  <2>. SUFFICES ASSUME ChildInv, stopPc = "returned" PROVE alive = {} /\ recoveryPc = "none"
    BY DEF StopLeavesNothing
  <2>1. stopChild = cmd /\ stopRecovery = recovery /\ cmd \in waitDone
        /\ recovery \in recoveryDone \cup {0}
    BY DEF ChildInv, Stops
  <2>2. alive = {}
    BY <2>1 DEF ChildInv, Processes
  <2>3. recoveryPc = "none"
    BY <2>1 DEF ChildInv, Recoveries
  <2>. QED
    BY <2>2, <2>3
<1>. QED
  BY <1>1, ChildInvariant, PTL

(* The client is told to exit with a failure only under the exit policy    *)
(* and before any parent signal (requestShutdown).                         *)
THEOREM FailsOnlyUnaskedThm == Spec => FailsOnlyUnasked
<1>1. ChildInv /\ [Next]_vars => [FailingExitStep]_vars
  <2>. SUFFICES ASSUME ChildInv, Next, shutdown = "none", shutdown' = "fail"
                PROVE  policy = "exit" /\ signals = 0
    BY DEF FailingExitStep
  <2>1. ((Invalidate /\ lossIsFinal) \/ SignalShutdown) /\ requestShutdown
    BY Zenon DEF Next, start, ProcessExits, WaitReturns, ReportExit, ReportPipe, Invalidate, Recovery,
       KillOld, OldReaped, DelayElapses, RecoveryStops, ChildRestarts, RestartFails, Recovering,
       ForwardSignal, SignalCancels, SignalShutdown, BeginStop, Stop, StopCancels, StopReaps,
       StopReturns, StopTimesOut, Stopping, Stopped, vars
  <2>2. ~signalForwarded
    BY <2>1 DEF requestShutdown
  <2>3. signals = 0 /\ ~SignalShutdown
    BY <2>2 DEF ChildInv, ShutdownRequests, SignalShutdown
  <2>4. policy = "exit"
    BY <2>1, <2>2, <2>3 DEF ChildInv, ShutdownRequests
  <2>. QED
    BY <2>3, <2>4
<1>. QED
  BY <1>1, ChildInvariant, PTL DEF Spec, FailsOnlyUnasked

-----------------------------------------------------------------------------
(* AppServerBridge.                                                        *)

BridgeTypes ==
  /\ running \in BOOLEAN /\ shuttingDown \in BOOLEAN
  /\ pending \subseteq Requests
  /\ ch = [r \in Requests |-> ch[r]] /\ callerPc = [c \in Callers |-> callerPc[c]]

(* A request that waits is in the pending map, or its answer has arrived. *)
Awaited ==
  \A r \in Requests :
    (r = "starter" /\ starter = "waiting") \/ (r # "starter" /\ callerPc[r] = "waiting")
      => r \in pending \/ ch[r] # "none"

(* The inductive invariant of the bridge: b.running is true of the child,  *)
(* requests are pending only then, and Stop leaves shuttingDown set before *)
(* it looks at the child.                                                  *)
BridgeInv ==
  /\ BridgeTypes /\ Awaited
  /\ running <=> child # "none"
  /\ pending # {} => running
  /\ stopper # "idle" => shuttingDown
  /\ stopper = "done" => child = "none"

LEMMA BridgeStarts == BridgeInit => BridgeInv
BY ZenonT(30) DEF BridgeInit, BridgeInv, BridgeTypes, Awaited, Requests, Starter

(* The callers' steps. *)
LEMMA CallerSteps ==
  ASSUME BridgeInv, NEW c \in Callers,
         EnsureStarted(c) \/ Request(c) \/ Answered(c) \/ CallerExpires(c)
  PROVE  BridgeInv'
<1>1. c \in Requests /\ c # "starter" /\ Callers \subseteq Requests
  BY BridgeAssumption DEF Requests
<1>2. CASE EnsureStarted(c)
  BY <1>1, <1>2, Zenon DEF EnsureStarted, pipes, BridgeInv, BridgeTypes, Awaited, Requests,
     Starter
<1>3. CASE Request(c)
  BY <1>1, <1>3, Zenon DEF Request, write, sent, flags, BridgeInv, BridgeTypes,
     Awaited, Requests, Starter
<1>4. CASE Answered(c)
  BY <1>1, <1>4, Zenon DEF Answered, flags, pipes, BridgeInv, BridgeTypes,
     Awaited, Requests, Starter
<1>5. CASE CallerExpires(c)
  BY <1>1, <1>5 DEF CallerExpires, flags, pipes, BridgeInv, BridgeTypes,
     Awaited, Requests, Starter
<1> QED BY <1>2, <1>3, <1>4, <1>5

(* The goroutine that starts the child. *)
LEMMA StarterSteps ==
  ASSUME BridgeInv,
         \/ Spawn \/ Initialize \/ Initialized \/ InitializeTimeout
         \/ Kill \/ KillWaited \/ StartFailed \/ StartFinished
         \/ Delay
  PROVE  BridgeInv'
<1>1. "starter" \in Requests /\ Callers \subseteq Requests /\ "starter" \notin Callers
  BY BridgeAssumption DEF Requests, Starter
<1>2. CASE Spawn
  <2>1. /\ UNCHANGED <<shuttingDown, stopper, callerPc, pending, ch>> /\ starter' # "waiting"
        /\ \/ ~shuttingDown /\ child' = "live" /\ running' = TRUE
           \/ UNCHANGED <<child, running>>
    BY <1>2, Zenon DEF Spawn, maySpawn
  <2>2. BridgeTypes' /\ Awaited'
    BY <2>1, ZenonT(30) DEF BridgeInv, BridgeTypes, Awaited
  <2>3. /\ running' <=> child' # "none"
        /\ pending' # {} => running'
        /\ stopper' # "idle" => shuttingDown'
        /\ stopper' = "done" => child' = "none"
    BY <2>1 DEF BridgeInv
  <2> QED BY <2>2, <2>3 DEF BridgeInv
<1>3. CASE Initialize
  BY <1>1, <1>3, Zenon DEF Initialize, write, sent, flags, BridgeInv, BridgeTypes,
     Awaited, Starter
<1>4. CASE Initialized
  BY <1>1, <1>4, Zenon DEF Initialized, flags, pipes, BridgeInv, BridgeTypes, Awaited,
     Starter
<1>5. CASE InitializeTimeout
  BY <1>1, <1>5, Zenon DEF InitializeTimeout, flags, pipes, BridgeInv, BridgeTypes, Awaited,
     Starter
<1>6. CASE Kill \/ KillWaited
  BY <1>6 DEF Kill, KillWaited, flags, pipes, BridgeInv, BridgeTypes, Awaited
<1>7. CASE StartFailed \/ StartFinished \/ Delay
  <2>1. /\ UNCHANGED <<shuttingDown, running, child, stopper, callerPc, pending, ch>>
        /\ starter' = "waiting" => starter = "waiting"
    BY <1>7, Zenon DEF StartFailed, StartFinished, Delay
  <2> QED BY <2>1, Zenon DEF BridgeInv, BridgeTypes, Awaited
<1> QED BY <1>2, <1>3, <1>4, <1>5, <1>6, <1>7

(* The child, the goroutines that read it and wait for it, and Stop. *)
LEMMA ChildSteps ==
  ASSUME BridgeInv,
         \/ waitForExit \/ readStdout \/ ChildAnswers \/ ChildExits
         \/ StopBridge \/ StopSignals \/ StopBridgeReturns
  PROVE  BridgeInv'
<1>1. CASE waitForExit
  BY <1>1, ZenonT(30) DEF waitForExit, drain, BridgeInv, BridgeTypes, Awaited
<1>2. CASE readStdout
  <2>1. \/ UNCHANGED <<ch, pending>>
        \/ \E r : /\ ch' = IF r \in pending THEN [ch EXCEPT ![r] = "result"] ELSE ch
                  /\ pending' = pending \ {r}
    BY <1>2, Zenon DEF readStdout
  <2>2. UNCHANGED <<running, shuttingDown, child, starter, stopper, callerPc>>
    BY <1>2, Zenon DEF readStdout, flags
  <2> QED BY <2>1, <2>2, Zenon DEF BridgeInv, BridgeTypes, Awaited
<1>3. CASE ChildAnswers \/ ChildExits
  BY <1>3, Zenon DEF ChildAnswers, ChildExits, flags, pipes, BridgeInv,
     BridgeTypes, Awaited
<1>4. CASE StopBridge \/ StopSignals \/ StopBridgeReturns
  <2>1. /\ UNCHANGED <<running, starter, callerPc, pending, ch>>
        /\ \/ shuttingDown' = TRUE /\ stopper' = (IF running THEN "signal" ELSE "done") /\ child' = child
           \/ /\ stopper = "signal" /\ stopper' = "wait" /\ UNCHANGED shuttingDown
              /\ child' = child \/ (child = "live" /\ child' \in {"live", "exited"})
           \/ /\ stopper = "wait" /\ UNCHANGED <<child, shuttingDown>>
              /\ (child = "none" /\ stopper' = "done") \/ stopper' = "expired"
    BY <1>4, Zenon DEF StopBridge, StopSignals, StopBridgeReturns, flags
  <2>2. BridgeTypes' /\ Awaited'
    BY <2>1, Zenon DEF BridgeInv, BridgeTypes, Awaited
  <2>3. /\ running' <=> child' # "none"
        /\ pending' # {} => running'
        /\ stopper' # "idle" => shuttingDown'
        /\ stopper' = "done" => child' = "none"
    BY <2>1, Zenon DEF BridgeInv
  <2> QED BY <2>2, <2>3 DEF BridgeInv
<1> QED BY <1>1, <1>2, <1>3, <1>4

(* Every step of the bridge keeps its invariant. *)
LEMMA BridgeStep == BridgeInv /\ [BridgeNext]_(bridgeVars) => BridgeInv'
<1> SUFFICES ASSUME BridgeInv, [BridgeNext]_(bridgeVars) PROVE BridgeInv'
  OBVIOUS
<1>1. CASE UNCHANGED bridgeVars
  BY <1>1, Zenon DEF bridgeVars, BridgeInv, BridgeTypes, Awaited
<1> QED BY <1>1, CallerSteps, StarterSteps, ChildSteps DEF BridgeNext, Progress

(* For any number of callers and restarts, a request that waits for the    *)
(* app-server has an answer coming whenever the child exits, and a Stop at *)
(* any point of a start that returns nil leaves no child, even if the      *)
(* child is slow to heed the signal (EnsureStarted, startProcess,          *)
(* waitForExit and Stop in bridge.go).                                     *)
THEOREM BridgeLeavesNobodyThm == BridgeSpec => []BridgeLeavesNobody
<1>1. BridgeInv => BridgeLeavesNobody
  BY DEF BridgeInv, Awaited, BridgeLeavesNobody, AnswerComing, StopLeavesNoChild,
     Starter
<1> QED BY <1>1, BridgeStarts, BridgeStep, PTL DEF BridgeSpec

-----------------------------------------------------------------------------
(* CloudflaredSupervisor.                                                  *)

(* The inductive invariant of the companion: waitForExit has seen the      *)
(* child dead and marked it so before it publishes the exit, only a Stop   *)
(* that announced itself interrupts the child, and an exit is taken for    *)
(* unexpected only when nobody had interrupted the child.                  *)
CompanionInv ==
  /\ waiter \in {"expected", "unexpected", "closed"} => exitedDone /\ process = "dead"
  /\ waiter = "closed" => ~companionReady
  /\ signalled \in BOOLEAN /\ (signalled => companionStopping)
  /\ stop # "none" => companionStopping
  /\ waiter = "unexpected" => ~signalled

LEMMA CompanionInvariant == CompanionSpec => []CompanionInv
<1>1. CompanionInit => CompanionInv
  BY ZenonT(30) DEF CompanionInit, CompanionInv
<1>2. CompanionInv /\ [CompanionNext]_companionVars => CompanionInv'
  <2> SUFFICES ASSUME CompanionInv, [CompanionNext]_companionVars PROVE CompanionInv'
    OBVIOUS
  <2> USE DEF CompanionInv
  <2>1. CASE UNCHANGED companionVars
    BY <2>1, Zenon DEF companionVars
  <2>2. CASE RuntimeToken \/ FetchAnswered \/ WaitForRetry
    BY <2>2 DEF RuntimeToken, FetchAnswered, WaitForRetry, childVars
  <2>3. CASE Launch
    BY <2>3, Zenon DEF Launch
  <2>4. CASE StartProbed \/ StartGivesUp \/ StopBegins
    BY <2>4 DEF StartProbed, StartGivesUp, StopBegins, setStopping
  <2>5. CASE MarkReady \/ ProbeApplied
    <3>1. UNCHANGED <<stop, process, signalled, exitedDone, waiter, companionStopping>>
      BY <2>5, Zenon DEF MarkReady, ProbeApplied
    <3>2. exitedDone => companionReady' = companionReady \/ ~companionReady'
      BY <2>5, Zenon DEF MarkReady, ProbeApplied, mayMarkReady
    <3> QED BY <3>1, <3>2
  <2>6. CASE Probe \/ MonitorEnds
    BY <2>6 DEF Probe, MonitorEnds
  <2>7. CASE CompanionExits \/ ExitSeen \/ ExitPublished
    BY <2>7 DEF CompanionExits, ExitSeen, ExitPublished
  <2>8. CASE CompanionStopped
    BY <2>8, Zenon DEF CompanionStopped
  <2>10. CASE InterruptCompanion
    <3>1. /\ stop = "signal" /\ signalled' = (process = "live")
          /\ UNCHANGED <<process, exitedDone, waiter, companionStopping, companionReady>>
      BY <2>10, Zenon DEF InterruptCompanion
    <3>2. waiter = "unexpected" => ~signalled'
      BY <3>1
    <3>3. signalled' \in BOOLEAN
      BY <3>1
    <3> QED BY <3>1, <3>2, <3>3, Zenon
  <2>9. CASE GraceOver \/ StopContextEnds
    BY <2>9 DEF GraceOver, StopContextEnds, kill
  <2> QED BY <2>1, <2>2, <2>3, <2>4, <2>5, <2>6, <2>7, <2>8, <2>9, <2>10, ZenonT(30)
          DEF CompanionNext, CompanionProgress
<1> QED BY <1>1, <1>2, PTL DEF CompanionSpec

(* Once the companion's exit is published it is not ready, however late a  *)
(* probe that was answered before the exit is applied (waitForExit,        *)
(* markReadyIfRunning in supervisor.go).                                   *)
THEOREM ExitedIsNotReadyThm == CompanionSpec => []ExitedIsNotReady
<1>1. CompanionInv => ExitedIsNotReady
  BY DEF CompanionInv, ExitedIsNotReady, exited
<1> QED BY <1>1, CompanionInvariant, PTL

(* A child that was interrupted before it exited is never reported on      *)
(* Failures() (waitForExit and Stop in supervisor.go).                     *)
THEOREM OnlyUnexpectedExitsFailThm == CompanionSpec => OnlyUnexpectedExitsFail
<1>1. CompanionInv /\ [CompanionNext]_companionVars
        => [failures' # failures => ~signalled]_companionVars
  <2> SUFFICES ASSUME CompanionInv, CompanionNext, failures' # failures PROVE ~signalled
    BY Zenon DEF companionVars
  <2>1. ExitPublished
    BY Zenon DEF CompanionNext, CompanionProgress, RuntimeToken, FetchAnswered, WaitForRetry, childVars,
           Launch, StartProbed, StartGivesUp, StopBegins, MarkReady, ProbeApplied, Probe,
           MonitorEnds, CompanionExits, ExitSeen, InterruptCompanion, CompanionStopped,
           GraceOver, StopContextEnds
  <2>2. waiter = "unexpected"
    BY <2>1 DEF ExitPublished
  <2> QED BY <2>2 DEF CompanionInv
<1> QED BY <1>1, CompanionInvariant, PTL DEF CompanionSpec, OnlyUnexpectedExitsFail
=============================================================================
