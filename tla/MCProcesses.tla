---------------------------- MODULE MCProcesses ----------------------------
(***************************************************************************)
(* The child processes of the client and those who wait for them, for TLC: *)
(* the supervisor of the stdio MCP child (StdioChild), the commands that   *)
(* share its pipes (SharedStdio, with the initialized-notification shim    *)
(* and a child that may send anything) and the cloudflared companion       *)
(* (CloudflaredSupervisor).  Each meets the others only through what its   *)
(* own module lets the environment do, so a behaviour is one of the three. *)
(***************************************************************************)
EXTENDS StdioChild, CloudflaredSupervisor

VARIABLES
  which,
  lifecycleSlot, transportGeneration, retiredResponseIDs, nextAliasedID, initializeSucceeded,
  initializationReady, initializedNotification, gen, childActive, pipes, incoming, outstanding,
  handshake, chatter, pc, lockHeld, physicalGeneration, expectedID, writeCompleted,
  deadlineRetirable, callerID, expired, answer, early, notified

commands == {"i", "n", "p"}
Shared == INSTANCE SharedStdio WITH
            Commands <- commands, Initializes <- {"i"}, Notices <- {"n"}, Modern <- {"p"},
            IDs <- {1}, NoCommand <- "none", EnsureInitialized <- TRUE,
            maxRetiredResponseIDs <- 1, StrayResponses <- TRUE, MaxGen <- 2, MaxChatter <- 1,
            generation <- transportGeneration, active <- childActive

shared == <<lifecycleSlot, transportGeneration, retiredResponseIDs, nextAliasedID,
            initializeSucceeded, initializationReady, initializedNotification, gen, childActive,
            pipes, incoming, outstanding, handshake, chatter, pc, lockHeld, physicalGeneration,
            expectedID, writeCompleted, deadlineRetirable, callerID, expired, answer,
            early, notified>>
allVars == <<which, vars, shared, companionVars>>

MCInit ==
  /\ which \in {"child", "shared", "companion"}
  /\ Init /\ Shared!Init /\ CompanionInit
  /\ which # "child" => policy = "restart"

MCNext ==
  \/ which = "child" /\ Next /\ UNCHANGED <<which, shared, companionVars>>
  \/ which = "shared" /\ Shared!Next /\ UNCHANGED <<which, vars, companionVars>>
  \/ which = "companion" /\ CompanionNext /\ UNCHANGED <<which, vars, shared>>

(* The fairness of each module; nothing of StdioChild's is enabled before  *)
(* its child was started.                                                  *)
MCFairness ==
  /\ Fairness
  /\ \A c \in commands : /\ WF_allVars(which = "shared" /\ Shared!Command(c) /\ UNCHANGED <<which, vars, companionVars>>)
                         /\ WF_allVars(which = "shared" /\ Shared!DeadlinePasses(c) /\ UNCHANGED <<which, vars, companionVars>>)
  /\ WF_allVars(which = "companion" /\ CompanionProgress /\ UNCHANGED <<which, vars, shared>>)

MCSpec == MCInit /\ [][MCNext]_allVars /\ MCFairness

-----------------------------------------------------------------------------
(* Only the live child counts.  A replacement starts when the child it     *)
(* replaces has been waited for, and becomes active when the connections   *)
(* to that child have been invalidated (StdioChild); it is told once that  *)
(* it is initialized (SharedStdio); and a companion that has exited is not *)
(* shown as ready by a late probe (CloudflaredSupervisor).                 *)
OnlyTheLiveChildCounts ==
  /\ OneChildProcess /\ InvalidatedBeforeReplacement
  /\ which = "shared" => Shared!AtMostOneInitialized
  /\ ExitedIsNotReady

(* StdioChild: a lost child is replaced, a signal for a child that is gone *)
(* ends the client, and the client fails only when nobody asked it to end. *)
ChildEventsAreHandled ==
  /\ which = "child" => LostChildIsReplaced /\ SignalIsHonoured
  /\ FailsOnlyUnasked

(* SharedStdio: every command leaves the transport, whatever the child     *)
(* sends or withholds.                                                     *)
SharedCommandsFinish == which = "shared" => Shared!CommandsFinish

(* CloudflaredSupervisor: a Stop leaves no companion process behind, and   *)
(* the exit it causes is not reported as a failure.                        *)
StopEndsCompanion ==
  /\ which = "companion" => StopEndsChild
  /\ OnlyUnexpectedExitsFail
=============================================================================
