---------------------------- MODULE CodexRuntime ----------------------------
(***************************************************************************)
(* `tunnel-client runtimes create | connect | stop | rm | cleanup`:        *)
(* commands of separate operating-system processes that manage background  *)
(* runtimes through two whole-map state files, aliases.yaml and            *)
(* processes.yaml, under one file lock (pkg/codexplugin/manager.go,        *)
(* session/session.go, session/process_identity*.go, state/).              *)
(* A runtime is a detached process; it outlives the command, may die at    *)
(* any time, and its PID may be given to another process.  A command may   *)
(* be killed between any two steps, which releases its lock.               *)
(***************************************************************************)
EXTENDS Naturals, FiniteSets

CONSTANTS Aliases, Commands,
          TunnelsOf,    \* the tunnels an alias may be moved to
          Pids,         \* process IDs the operating system hands out
          Births,       \* start times: a process gets one that nothing refers to
          LegacyAliases \* aliases that an older version left in tmux mode

(* Process ID 0 and start time 0 stand for none, and every alias has a     *)
(* tunnel it may be moved to.                                              *)
ASSUME RuntimeAssumption ==
  /\ "none" \notin Commands /\ "none" \notin Aliases /\ "stranger" \notin Aliases
  /\ 0 \notin Pids /\ Births \subseteq Nat \ {0}
  /\ \A a \in Aliases : TunnelsOf[a] # {}

VARIABLES
  lock,       \* the command that holds locks/state.lock
  cmd,        \* the running commands: position, alias, what they hold
  aliases,    \* aliases.yaml: the tunnel, and whether a profile was generated
  processes,  \* processes.yaml
  os,         \* the process behind each PID
  tmux,       \* where the legacy tmux session of an alias runs, or "none"
  abandoned   \* ghost: births a command lost without recording or stopping them

vars == <<lock, cmd, aliases, processes, os, tmux, abandoned>>

-----------------------------------------------------------------------------
NoAlias == [tunnel |-> "none", profile |-> FALSE]
NoRecord == [mode |-> "none", tunnel |-> "none", pid |-> 0, birth |-> 0, socket |-> "none"]
Nobody == [owner |-> "none", tunnel |-> "none", birth |-> 0, dying |-> FALSE]
Idle == [pc |-> "idle", op |-> "none", alias |-> "none", previous |-> "none",
         tunnel |-> "none", replace |-> FALSE, launch |-> NoRecord, launched |-> FALSE]

at(c, pc) == cmd[c].pc = pc
goto(c, pc) == cmd' = [cmd EXCEPT ![c].pc = pc]
here(c) == cmd[c].alias

(* Every return runs the deferred unlock. *)
Return(c) == /\ cmd' = [cmd EXCEPT ![c] = Idle]
             /\ lock' = IF lock = c THEN "none" ELSE lock

PIDIsRunning(p) == p # 0 /\ os[p] # Nobody

(* ProcessIdentityMatches: the start time decides (every process here runs *)
(* the same executable); identity errors of a live PID are a separate      *)
(* outcome of each caller.                                                 *)
ProcessIdentityMatches(r) == PIDIsRunning(r.pid) /\ r.birth # 0 /\ os[r.pid].birth = r.birth

unused == Births \ ({os[p].birth : p \in Pids} \cup {processes[a].birth : a \in Aliases}
                      \cup {cmd[c].launch.birth : c \in Commands} \cup abandoned)

-----------------------------------------------------------------------------
(* AcquireStateLock: an exclusive flock on a file that is never removed. *)
acquire(c) == lock = "none" /\ lock' = c

(* A command, up to LoadAliases under the lock. *)
Begin(c, op, a) ==
  /\ at(c, "idle") /\ acquire(c)
  /\ cmd' = [cmd EXCEPT ![c] = [Idle EXCEPT !.op = op, !.alias = a,
              !.previous = IF op = "connect" THEN aliases[a].tunnel ELSE "none",
              !.pc = IF op \in {"create", "connect"} THEN "resolve" ELSE op]]
  /\ UNCHANGED <<aliases, processes, os, tmux, abandoned>>

resolved(c, t) == cmd' = [cmd EXCEPT ![c].pc = "persist", ![c].tunnel = t]

(* Connect with --tunnel-id: whatever the remote lookup answers, the *)
(* command goes on with that tunnel.                                 *)
ProvidedTunnel(c) ==
  /\ at(c, "resolve") /\ cmd[c].op = "connect"
  /\ \E t \in TunnelsOf[here(c)] : resolved(c, t)
  /\ UNCHANGED <<lock, aliases, processes, os, tmux, abandoned>>

(* resolveTunnel, the alias's own tunnel: found, or 404, which deletes the *)
(* alias from aliases.yaml and goes on.                                    *)
ResolveAlias(c) ==
  /\ at(c, "resolve")
  /\ \/ aliases[here(c)].tunnel # "none" /\ resolved(c, aliases[here(c)].tunnel)
          /\ UNCHANGED aliases
     \/ /\ aliases' = [aliases EXCEPT ![here(c)] = NoAlias]
        /\ goto(c, "scope")
  /\ UNCHANGED <<lock, processes, os, tmux, abandoned>>

(* The scoped list by name, or the create, answers a tunnel; a create that *)
(* answers 404 makes Connect fall back to the alias it read at the start.  *)
ResolveScope(c) ==
  /\ at(c, "scope")
  /\ \/ \E t \in TunnelsOf[here(c)] : resolved(c, t)
     \/ cmd[c].previous # "none" /\ resolved(c, cmd[c].previous)
  /\ UNCHANGED <<lock, aliases, processes, os, tmux, abandoned>>

(* An error before anything is stopped or launched: the admin profile, a *)
(* lookup, a missing scope, a file that cannot be read, saved or removed; *)
(* stop and rm of an unknown alias, rm of one that has a runtime.         *)
EarlyError(c) ==
  /\ cmd[c].pc \in {"resolve", "scope", "persist", "existing", "cleanup", "stop", "rm"}
  /\ Return(c)
  /\ UNCHANGED <<aliases, processes, os, tmux, abandoned>>

(* Create: the alias record is replaced, with no profile. *)
SaveCreated(c) ==
  /\ at(c, "persist") /\ cmd[c].op = "create"
  /\ aliases' = [aliases EXCEPT ![here(c)] = [tunnel |-> cmd[c].tunnel, profile |-> FALSE]]
  /\ Return(c)
  /\ UNCHANGED <<processes, os, tmux, abandoned>>

(* Connect: WriteRuntimeProfile, SaveAliases, LoadProcesses. *)
SaveConnected(c) ==
  /\ at(c, "persist") /\ cmd[c].op = "connect"
  /\ aliases' = [aliases EXCEPT ![here(c)] = [tunnel |-> cmd[c].tunnel, profile |-> TRUE]]
  /\ cmd' = [cmd EXCEPT ![c].pc = "existing", ![c].previous = "none",
                ![c].replace = cmd[c].previous \notin {"none", cmd[c].tunnel},
                ![c].launch = processes[here(c)]]
  /\ UNCHANGED <<lock, processes, os, tmux, abandoned>>

-----------------------------------------------------------------------------
(* findOwnedLegacyTmuxSession: a recorded socket decides; without one only *)
(* the ambient and the default socket are searched, and a session on       *)
(* neither is an error, never taken for absent.                            *)
findOwnedLegacyTmuxSession(a, r) ==
  CASE r.socket # "none" -> IF tmux[a] = r.socket THEN "running" ELSE "absent"
    [] r.socket = "none" /\ tmux[a] = "default" -> "running"
    [] OTHER -> "error"

next(c) == IF cmd[c].op = "stop" THEN "stopped" ELSE "start"
record(c) == IF cmd[c].op = "stop" THEN processes[here(c)] ELSE cmd[c].launch
readyToStop(c) == at(c, "existing") \/ (at(c, "stop") /\ aliases[here(c)] # NoAlias)

(* The legacy tmux session: killed, known absent, or the command fails *)
(* (tmux missing or refusing, session not found).                      *)
StopTmux(c) ==
  /\ readyToStop(c) /\ record(c).mode = "tmux"
  /\ LET found == findOwnedLegacyTmuxSession(here(c), record(c)) IN
     \/ /\ found = "running"
        /\ tmux' = [tmux EXCEPT ![here(c)] = "none"]
        /\ goto(c, next(c)) /\ UNCHANGED lock
     \/ found = "absent" /\ goto(c, next(c)) /\ UNCHANGED <<tmux, lock>>
     \/ Return(c) /\ UNCHANGED tmux
  /\ UNCHANGED <<aliases, processes, os, abandoned>>

(* startOrReuseWithExistingRuntime and Stop on a recorded process: no live *)
(* match goes on, a match is reused (connect to the same tunnel) or        *)
(* signalled; an incomplete identity or a failed inspection is an error.   *)
CheckExisting(c) ==
  /\ readyToStop(c) /\ record(c).mode # "tmux"
  /\ LET r == record(c) IN
     \/ /\ ~PIDIsRunning(r.pid) \/ (r.birth # 0 /\ ~ProcessIdentityMatches(r))
        /\ goto(c, next(c)) /\ UNCHANGED lock
     \/ /\ ProcessIdentityMatches(r) /\ (cmd[c].op = "stop" \/ cmd[c].replace)
        /\ cmd' = [cmd EXCEPT ![c].pc = "signal", ![c].launch = r] /\ UNCHANGED lock
     \/ /\ ProcessIdentityMatches(r) /\ cmd[c].op = "connect" /\ ~cmd[c].replace
        /\ goto(c, "record") /\ UNCHANGED lock
     \/ PIDIsRunning(r.pid) /\ Return(c)
  /\ UNCHANGED <<aliases, processes, os, tmux, abandoned>>

(* TerminateProcess: SIGTERM to the bare PID, whoever has it by now. *)
Signal(c) ==
  /\ cmd[c].pc \in {"signal", "cleanupSignal"}
  /\ LET p == cmd[c].launch.pid IN
     IF os[p] = Nobody THEN UNCHANGED os ELSE os' = [os EXCEPT ![p].dying = TRUE]
  /\ goto(c, IF at(c, "signal") THEN "await" ELSE "cleanupAwait")
  /\ UNCHANGED <<lock, aliases, processes, tmux, abandoned>>

AwaitNothing(c) ==
  /\ at(c, "await") /\ goto(c, next(c))
  /\ UNCHANGED <<lock, aliases, processes, os, tmux, abandoned>>

(* WaitForProcessIdentityExit: a reused PID counts as exited; on a timeout *)
(* the command fails and the records stay as they are.                     *)
AwaitExit(c) ==
  /\ at(c, "await")
  /\ \/ ~ProcessIdentityMatches(cmd[c].launch) /\ goto(c, next(c)) /\ UNCHANGED lock
     \/ ProcessIdentityMatches(cmd[c].launch) /\ Return(c)
  /\ UNCHANGED <<aliases, processes, os, tmux, abandoned>>

(* The detached start: the runtime reads the profile just generated. *)
Start(c, p) ==
  /\ at(c, "start")
  /\ \/ \E b \in unused :
          /\ os[p] = Nobody
          /\ \A x \in unused : b <= x
          /\ os' = [os EXCEPT ![p] = [owner |-> here(c), tunnel |-> cmd[c].tunnel,
                                      birth |-> b, dying |-> FALSE]]
          /\ cmd' = [cmd EXCEPT ![c].pc = "settle", ![c].launched = TRUE,
                       ![c].launch = [NoRecord EXCEPT !.pid = p, !.birth = b]]
          /\ UNCHANGED lock
     \/ Return(c) /\ UNCHANGED os
  /\ UNCHANGED <<aliases, processes, tmux, abandoned>>

(* exitCodeAfterLaunch and inspectProcess: an early exit is recorded with   *)
(* no PID; without an identity the child is aborted through its own handle. *)
Settle(c) ==
  /\ at(c, "settle")
  /\ LET r == cmd[c].launch IN
     \/ /\ ~ProcessIdentityMatches(r)
        /\ cmd' = [cmd EXCEPT ![c].pc = "record", ![c].launch = NoRecord]
        /\ UNCHANGED <<lock, os>>
     \/ goto(c, "record") /\ UNCHANGED <<lock, os>>
     \/ /\ ProcessIdentityMatches(r)
        /\ os' = [os EXCEPT ![r.pid] = Nobody]
        /\ Return(c)
  /\ UNCHANGED <<aliases, processes, tmux, abandoned>>

(* SaveProcesses after a launch or a reuse; when it fails a process this  *)
(* command launched is terminated again, a reused one is left alone.      *)
Record(c) ==
  /\ at(c, "record")
  /\ LET r == cmd[c].launch IN
     \/ /\ processes' = [processes EXCEPT ![here(c)] =
                            [r EXCEPT !.mode = "process", !.tunnel = cmd[c].tunnel]]
        /\ Return(c)
     \/ /\ cmd[c].launched /\ ProcessIdentityMatches(r)
        /\ goto(c, "cleanupSignal") /\ UNCHANGED <<processes, lock>>
     \/ /\ ~(cmd[c].launched /\ ProcessIdentityMatches(r))
        /\ Return(c) /\ UNCHANGED processes
  /\ UNCHANGED <<aliases, os, tmux, abandoned>>

holds(c) == cmd[c].launched /\ cmd[c].pc \in {"settle", "record", "cleanupSignal", "cleanupAwait"}
lose(c) == abandoned' = IF holds(c) /\ ProcessIdentityMatches(cmd[c].launch)
                          THEN abandoned \cup {cmd[c].launch.birth} ELSE abandoned

(* The clean-up ends with the process gone, or with an error that names it. *)
CleanupAwait(c) ==
  /\ at(c, "cleanupAwait") /\ lose(c) /\ Return(c)
  /\ UNCHANGED <<aliases, processes, os, tmux>>

(* Stop, once nothing runs: a record is rewritten as stopped; the save may *)
(* fail.                                                                   *)
SaveStopped(c) ==
  /\ at(c, "stopped")
  /\ \/ /\ processes[here(c)] # NoRecord
        /\ processes' = [processes EXCEPT ![here(c)] =
                           [NoRecord EXCEPT !.mode = "stopped", !.tunnel = processes[here(c)].tunnel]]
     \/ UNCHANGED processes
  /\ Return(c)
  /\ UNCHANGED <<aliases, os, tmux, abandoned>>

-----------------------------------------------------------------------------
(* localRuntimeDetails, as far as the inventory reads it.  findLiveAdminUI *)
(* scans the health files of the state root for another runtime that       *)
(* serves the tunnel; whether one answers in time is left open.            *)
processRunning(a) == \/ ProcessIdentityMatches(processes[a])
                     \/ /\ processes[a].mode = "tmux"
                        /\ findOwnedLegacyTmuxSession(a, processes[a]) = "running"
profilePath(a) == aliases[a].profile \/ processes[a].mode # "none"

(* inventoryClassification = "stale_alias": no live runtime, and neither *)
(* record ever had a profile path or name.                               *)
stale(a, found) == ~found /\ ~processRunning(a) /\ ~profilePath(a)

(* CleanupInventory --apply: both maps are rewritten, aliases first; the *)
(* second save may fail.                                                 *)
Cleanup(c) ==
  /\ at(c, "cleanup")
  /\ \E found \in [Aliases -> BOOLEAN] :
     LET drop == {a \in Aliases : stale(a, found[a])} IN
     /\ aliases' = [a \in Aliases |-> IF a \in drop THEN NoAlias ELSE aliases[a]]
     /\ \/ processes' = [a \in Aliases |-> IF a \in drop THEN NoRecord ELSE processes[a]]
        \/ UNCHANGED processes
  /\ Return(c)
  /\ UNCHANGED <<os, tmux, abandoned>>

(* Remove: refused while a runtime is recorded (EarlyError); the files go, *)
(* then the alias, then the record, whose save may fail.                   *)
Remove(c) ==
  /\ at(c, "rm")
  /\ ~(aliases[here(c)] = NoAlias /\ processes[here(c)] = NoRecord)
  /\ processes[here(c)].mode \in {"none", "stopped"}
  /\ aliases' = [aliases EXCEPT ![here(c)] = NoAlias]
  /\ \/ processes' = [processes EXCEPT ![here(c)] = NoRecord]
     \/ UNCHANGED processes
  /\ Return(c)
  /\ UNCHANGED <<os, tmux, abandoned>>

(* The command is killed: the kernel releases its lock.  *)
Killed(c) ==
  /\ ~at(c, "idle") /\ lose(c) /\ Return(c)
  /\ UNCHANGED <<aliases, processes, os, tmux>>

(* A process exits: of itself, or because of SIGTERM. *)
Exits(p) ==
  /\ os[p] # Nobody /\ os' = [os EXCEPT ![p] = Nobody]
  /\ abandoned' = abandoned \ {os[p].birth}
  /\ UNCHANGED <<lock, cmd, aliases, processes, tmux>>

(* The PID goes to a process that is not a managed runtime. *)
Stranger(p) ==
  /\ os[p] = Nobody
  /\ os' = [os EXCEPT ![p] = [Nobody EXCEPT !.owner = "stranger"]]
  /\ UNCHANGED <<lock, cmd, aliases, processes, tmux, abandoned>>


legacyTunnel(a) == CHOOSE t \in TunnelsOf[a] : TRUE

Init ==
  /\ lock = "none" /\ cmd = [c \in Commands |-> Idle]
  /\ aliases = [a \in Aliases |-> IF a \in LegacyAliases
                  THEN [tunnel |-> legacyTunnel(a), profile |-> TRUE] ELSE NoAlias]
  /\ \E where, socket \in {"none", "default", "custom"} :
     /\ processes = [a \in Aliases |-> IF a \in LegacyAliases
                       THEN [NoRecord EXCEPT !.mode = "tmux", !.tunnel = legacyTunnel(a), !.socket = socket]
                       ELSE NoRecord]
     /\ tmux = [a \in Aliases |-> IF a \in LegacyAliases THEN where ELSE "none"]
     /\ where # "none" /\ socket # "none" => where = socket
  /\ os = [p \in Pids |-> Nobody] /\ abandoned = {}

Step(c) ==
  \/ \E a \in Aliases, op \in {"create", "connect", "stop", "rm", "cleanup"} : Begin(c, op, a)
  \/ ProvidedTunnel(c)
  \/ ResolveAlias(c) \/ ResolveScope(c) \/ EarlyError(c)
  \/ SaveCreated(c) \/ SaveConnected(c)
  \/ StopTmux(c) \/ CheckExisting(c) \/ Signal(c) \/ AwaitExit(c)
  \/ \E p \in Pids : Start(c, p)
  \/ Settle(c) \/ Record(c) \/ CleanupAwait(c)
  \/ SaveStopped(c) \/ Cleanup(c) \/ Remove(c) \/ Killed(c)

Next == \/ \E c \in Commands : Step(c)
        \/ \E p \in Pids : Exits(p) \/ Stranger(p)

Spec == Init /\ [][Next]_vars

-----------------------------------------------------------------------------
(* Every managed runtime that is up, unless a command lost it before it    *)
(* could record it (killed in the launch, or its clean-up timed out), is   *)
(* the one its alias's record names by PID and start time, or is in the    *)
(* hands of a running connect.  So an alias has at most one such runtime,  *)
(* and stop, rm and cleanup never drop the record of a live one.           *)
inHand(b) == \E c \in Commands : holds(c) /\ cmd[c].launch.birth = b
Accounted ==
  \A p \in Pids : os[p].owner \in Aliases /\ os[p].birth \notin abandoned =>
    \/ processes[os[p].owner].pid = p /\ processes[os[p].owner].birth = os[p].birth
    \/ inHand(os[p].birth)

=============================================================================
