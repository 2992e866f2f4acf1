-------------------------- MODULE AppServerBridge --------------------------
(***************************************************************************)
(* The bridge between the admin UI and the Codex app-server child process  *)
(* (pkg/codexappserver/bridge.go): a child that is started on demand and   *)
(* restarted after a delay, JSON-RPC requests matched to their callers     *)
(* through the pending map, notifications that update the current turn,    *)
(* and a Stop that may come at any moment.  Every section under b.mu is    *)
(* one step.  The child answers what it reads, in order, may exit at any   *)
(* point and may ignore SIGTERM; it is assumed to go on reading its stdin. *)
(***************************************************************************)
EXTENDS Naturals, Sequences, FiniteSets

CONSTANTS Callers,     \* admin UI requests, one turn each
          MaxStarts    \* bound: child processes started

(* The starter's request is told from the callers'. *)
ASSUME BridgeAssumption == "starter" \notin Callers

Starter == "starter"   \* the goroutine of startProcess
Requests == Callers \cup {Starter}

VARIABLES
  shuttingDown, starting, ready,
  running,   \* b.running: cmd, pid, stdin and waitDone are set with it
  backoff,   \* retryAfter lies in the future
  child,     \* the process: "none", "live", "exited" (not yet waited for)
  starts,    \* children started so far
  starter,   \* startProcess: where it is
  stopper,   \* Stop: where it is
  callerPc,  \* each caller
  pending,   \* requests in the pending map
  ch,        \* the answer in each request's channel
  inbox,     \* requests in the child's stdin
  stdout,    \* messages in its stdout, not yet read
  bridgeTurn \* b.turn

bridgeVars == <<shuttingDown, starting, ready, running, backoff, child, starts, starter, stopper,
                callerPc, pending, ch, inbox, stdout, bridgeTurn>>
flags == <<shuttingDown, starting, ready, running, backoff>>
pipes == <<inbox, stdout>>

NoBridgeTurn == [id |-> "none", status |-> "none"]
isTerminalTurnStatus(s) == s = "completed"

-----------------------------------------------------------------------------
(* EnsureStarted: ready goes on, shutting down fails; nobody starting and  *)
(* no delay left starts the child; otherwise the caller waits and looks    *)
(* again (the next try of this action).                                    *)
EnsureStarted(c) ==
  /\ callerPc[c] = "ensure"
  /\ \/ /\ shuttingDown
        /\ callerPc' = [callerPc EXCEPT ![c] = "failed"] /\ UNCHANGED <<starting, starter>>
     \/ /\ ~shuttingDown /\ ready
        /\ callerPc' = [callerPc EXCEPT ![c] = "request"] /\ UNCHANGED <<starting, starter>>
     \/ /\ ~shuttingDown /\ ~ready /\ ~starting /\ ~backoff
        /\ starting' = TRUE /\ starter' = "spawn" /\ UNCHANGED callerPc
  /\ UNCHANGED <<shuttingDown, ready, running, backoff, child, starts, stopper, pending, ch,
                 pipes, bridgeTurn>>

(* The caller's context ends while it waits for a start or an answer; a *)
(* waiting request leaves the pending map.                              *)
CallerExpires(c) ==
  /\ callerPc[c] \in {"ensure", "waiting"}
  /\ callerPc' = [callerPc EXCEPT ![c] = "failed"]
  /\ pending' = pending \ {c}
  /\ UNCHANGED <<flags, child, starts, starter, stopper, ch, pipes, bridgeTurn>>

(* Stop has closed the child's stdin and signalled it. *)
stdinClosed == stopper \in {"wait", "expired"}

(* requestNoEnsure: registered and written in one section; without a child *)
(* it fails, and a failed write takes the entry out again.                 *)
write(r) ==
  IF ~running \/ stdinClosed THEN UNCHANGED <<pending, inbox>>
  ELSE \/ pending' = pending \cup {r} /\ inbox' = Append(inbox, r)
       \/ child # "live" /\ UNCHANGED <<pending, inbox>>
sent(r) == r \in pending'

Request(c) ==
  /\ callerPc[c] = "request" /\ write(c)
  /\ callerPc' = [callerPc EXCEPT ![c] = IF sent(c) THEN "waiting" ELSE "failed"]
  /\ UNCHANGED <<flags, child, starts, starter, stopper, ch, stdout, bridgeTurn>>

(* StartTurn, once answered: the turn is published, unless a notification *)
(* read in between has already finished that very turn.                   *)
setTurn(c) == bridgeTurn' = IF bridgeTurn.id = c /\ isTerminalTurnStatus(bridgeTurn.status)
                              THEN bridgeTurn ELSE [id |-> c, status |-> "inProgress"]

Answered(c) ==
  /\ callerPc[c] = "waiting" /\ ch[c] # "none"
  /\ IF ch[c] = "result"
       THEN setTurn(c) /\ callerPc' = [callerPc EXCEPT ![c] = "done"]
       ELSE callerPc' = [callerPc EXCEPT ![c] = "failed"] /\ UNCHANGED bridgeTurn
  /\ UNCHANGED <<flags, child, starts, starter, stopper, pending, ch, pipes>>

-----------------------------------------------------------------------------
(* startProcessLocked looks at shuttingDown again, under the lock. *)
maySpawn == ~shuttingDown

Spawn ==
  /\ starter = "spawn"
  /\ \/ /\ maySpawn /\ starts < MaxStarts
        /\ child' = "live" /\ running' = TRUE /\ starts' = starts + 1
        /\ starter' = "initialize"
     \/ /\ starter' = "error"      \* shutting down, pipes or exec failed
        /\ UNCHANGED <<child, running, starts>>
  /\ UNCHANGED <<shuttingDown, starting, ready, backoff, stopper, callerPc, pending, ch, pipes,
                 bridgeTurn>>

(* initializeProcess and refreshAccountState, as one request. *)
Initialize ==
  /\ starter = "initialize" /\ write(Starter)
  /\ starter' = IF sent(Starter) THEN "waiting" ELSE "kill"
  /\ UNCHANGED <<flags, child, starts, stopper, callerPc, ch, stdout, bridgeTurn>>

Initialized ==
  /\ starter = "waiting" /\ ch[Starter] # "none"
  /\ starter' = IF ch[Starter] = "result" THEN "finish" ELSE "kill"
  /\ ch' = [ch EXCEPT ![Starter] = "none"]
  /\ UNCHANGED <<flags, child, starts, stopper, callerPc, pending, pipes, bridgeTurn>>

InitializeTimeout ==
  /\ starter = "waiting"
  /\ starter' = "kill" /\ pending' = pending \ {Starter} /\ ch' = [ch EXCEPT ![Starter] = "none"]
  /\ UNCHANGED <<flags, child, starts, stopper, callerPc, pipes, bridgeTurn>>

(* The child is killed; startProcess waits for waitForExit. *)
Kill ==
  /\ starter = "kill"
  /\ starter' = "killed" /\ child' = IF child = "live" THEN "exited" ELSE child
  /\ UNCHANGED <<flags, starts, stopper, callerPc, pending, ch, pipes, bridgeTurn>>

KillWaited ==
  /\ starter = "killed" /\ child = "none" /\ starter' = "error"
  /\ UNCHANGED <<flags, child, starts, stopper, callerPc, pending, ch, pipes, bridgeTurn>>

StartFailed ==
  /\ starter = "error"
  /\ starting' = FALSE /\ ready' = FALSE /\ backoff' = TRUE /\ starter' = "idle"
  /\ UNCHANGED <<shuttingDown, running, child, starts, stopper, callerPc, pending, ch, pipes,
                 bridgeTurn>>

(* finishProcessStartLocked *)
StartFinished ==
  /\ starter = "finish"
  /\ starting' = FALSE /\ ready' = (running /\ ~shuttingDown) /\ starter' = "idle"
  /\ backoff' = IF ready' THEN FALSE ELSE backoff \/ ~shuttingDown
  /\ UNCHANGED <<shuttingDown, running, child, starts, stopper, callerPc, pending, ch, pipes,
                 bridgeTurn>>

Delay ==   \* startupRetryDelay passes
  /\ backoff /\ backoff' = FALSE
  /\ UNCHANGED <<shuttingDown, starting, ready, running, child, starts, starter, stopper,
                 callerPc, pending, ch, pipes, bridgeTurn>>

-----------------------------------------------------------------------------
drainNothing == UNCHANGED <<pending, ch>>

(* waitForExit fails every request that is still pending. *)
drain == /\ ch' = [r \in Requests |-> IF r \in pending THEN "error" ELSE ch[r]]
         /\ pending' = {}

waitForExit ==
  /\ child = "exited" /\ running
  /\ drain
  /\ child' = "none" /\ running' = FALSE /\ ready' = FALSE /\ inbox' = << >>
  /\ stdout' \in {<< >>, SelectSeq(stdout, LAMBDA m : m.id # Starter)} \* Wait closes the pipe:
                              \* lines the reader has not buffered are lost
  /\ backoff' = (backoff \/ ~shuttingDown)
  /\ UNCHANGED <<shuttingDown, starting, starts, starter, stopper, callerPc, bridgeTurn>>

(* readStdout: an answer goes to its channel, anything else to handleEnvelope. *)
readStdout ==
  /\ stdout # << >> /\ stdout' = Tail(stdout)
  /\ LET m == Head(stdout) IN
     IF m.kind = "response"
       THEN /\ ch' = IF m.id \in pending THEN [ch EXCEPT ![m.id] = "result"] ELSE ch
            /\ pending' = pending \ {m.id} /\ UNCHANGED bridgeTurn
       ELSE /\ bridgeTurn' = [id |-> m.id,
                              status |-> IF m.kind = "started" THEN "inProgress" ELSE "completed"]
            /\ UNCHANGED <<ch, pending>>
  /\ UNCHANGED <<flags, child, starts, starter, stopper, callerPc, inbox>>

(* The app-server: an answer, then what happens to the turn. *)
message(kind, r) == [kind |-> kind, id |-> r]
ChildAnswers ==
  /\ child = "live" /\ inbox # << >> /\ inbox' = Tail(inbox)
  /\ LET r == Head(inbox) IN
     stdout' = stdout \o (IF r = Starter THEN << message("response", r) >>
                          ELSE << message("response", r), message("started", r),
                                  message("completed", r) >>)
  /\ UNCHANGED <<flags, child, starts, starter, stopper, callerPc, pending, ch, bridgeTurn>>

ChildExits ==
  /\ child = "live" /\ child' = "exited"
  /\ UNCHANGED <<flags, starts, starter, stopper, callerPc, pending, ch, pipes, bridgeTurn>>

-----------------------------------------------------------------------------
(* Stop: shuttingDown, then stdin is closed and the child that was there *)
(* at that moment is signalled and waited for.                           *)
StopBridge ==
  /\ stopper = "idle" /\ shuttingDown' = TRUE
  /\ stopper' = IF running THEN "signal" ELSE "done"
  /\ UNCHANGED <<starting, ready, running, backoff, child, starts, starter, callerPc, pending,
                 ch, pipes, bridgeTurn>>

StopSignals ==
  /\ stopper = "signal" /\ stopper' = "wait"
  /\ child' \in IF child = "live" THEN {"live", "exited"} ELSE {child}
  /\ UNCHANGED <<flags, starts, starter, callerPc, pending, ch, pipes, bridgeTurn>>

(* Stop returns nil when the child is gone, and an error when its context ends. *)
StopBridgeReturns ==
  /\ stopper = "wait"
  /\ (child = "none" /\ stopper' = "done") \/ stopper' = "expired"
  /\ UNCHANGED <<flags, child, starts, starter, callerPc, pending, ch, pipes, bridgeTurn>>

BridgeInit ==
  /\ shuttingDown = FALSE /\ starting = FALSE /\ ready = FALSE /\ running = FALSE /\ backoff = FALSE
  /\ child = "none" /\ starts = 0 /\ starter = "idle" /\ stopper = "idle"
  /\ callerPc = [c \in Callers |-> "ensure"] /\ pending = {}
  /\ ch = [r \in Requests |-> "none"] /\ inbox = << >>
  /\ stdout = << >> /\ bridgeTurn = NoBridgeTurn

Progress == \/ \E c \in Callers : EnsureStarted(c) \/ Request(c) \/ Answered(c)
            \/ Spawn \/ Initialize \/ Initialized \/ InitializeTimeout \/ Kill \/ KillWaited
            \/ StartFailed \/ StartFinished \/ Delay
            \/ waitForExit \/ readStdout \/ ChildAnswers
            \/ StopBridge \/ StopSignals \/ StopBridgeReturns

BridgeNext == Progress \/ ChildExits \/ \E c \in Callers : CallerExpires(c)

BridgeSpec == BridgeInit /\ [][BridgeNext]_bridgeVars

-----------------------------------------------------------------------------
(* A request that waits has an answer coming: it is in the pending map of  *)
(* a child that runs, so readStdout or waitForExit will answer it, or the  *)
(* answer is already in its channel.  No exit of the child loses a caller. *)
AnswerComing ==
  \A r \in Requests :
    (r = Starter /\ starter = "waiting") \/ (r # Starter /\ callerPc[r] = "waiting")
      => (r \in pending /\ running) \/ ch[r] # "none"

(* Once Stop has returned nil there is no child and none will be started,  *)
(* also when Stop came between EnsureStarted's decision and the spawn.     *)
(* Only a Stop that returns its context's error may leave the child alive. *)
StopLeavesNoChild == stopper = "done" => child = "none"

(* A request that waits for the app-server has an answer coming, and no    *)
(* child outlives a Stop that reports success.                             *)
BridgeLeavesNobody == AnswerComing /\ StopLeavesNoChild
=============================================================================
