-------------------------- MODULE CommandPipeline --------------------------
(***************************************************************************)
(* The path of a command inside the client, from the poll that leases it   *)
(* to the worker that runs it, with the shutdown of both loops:            *)
(*   poller         controlplane/internal/poller.go                        *)
(*   bounded queue  the PolledCommandQueue channel, queueAdapter.Enqueue   *)
(*   listener       dispatcher/internal/queue_listener.go                  *)
(*   worker pool    an ants pool behind the workerPool interface           *)
(*   lifecycle      the fx OnStop hooks of runPoller, startQueueListener   *)
(* A command is an atom: what a worker does with it is Processor's part.   *)
(* tunnel-service leases a command at most once ("will not re-deliver").   *)
(***************************************************************************)
EXTENDS Naturals, Sequences, FiniteSets, Functions

CONSTANTS
    Commands,          \* the commands tunnel-service may lease to this client
    Backlog,           \* the order in which it leases them
    Untyped,           \* those of a type this client does not know
    NoCommand,         \* the listener holds nothing
    QueueCapacity,     \* cap(queue): MaxInFlightRequests
    MaxConcurrent,     \* mcp.max-concurrent-requests, the size of the pool
    maxPollBatchSize,  \* 25 in the code
    SlotLimit,         \* 1024 in the code: start-time slots of ActivityHealth
    Overflow           \* commands by which the service may exceed the limit

ASSUME PipelineAssumption ==
    /\ IsFiniteSet(Commands)
    /\ Backlog \in Seq(Commands) /\ IsInjective(Backlog) /\ Range(Backlog) = Commands
    /\ Untyped \subseteq Commands
    /\ NoCommand \notin Commands
    /\ QueueCapacity \in Nat \ {0}
    /\ MaxConcurrent \in Nat \ {0}
    /\ maxPollBatchSize \in Nat \ {0}
    /\ SlotLimit \in Nat \ {0}
    /\ Overflow \in Nat

VARIABLES
    remote,        \* commands tunnel-service has not leased yet, in order
    pollerPC,      \* where poller.Run stands
    limit,         \* the limit of the poll in flight
    batch,         \* polled commands not enqueued yet, in order
    queue,         \* the channel
    enqueued,      \* QueueHealth.enqueued
    dequeued,      \* QueueHealth.dequeued
    listenerPC,    \* where QueueListener.run stands
    held,          \* the command the listener received last
    pool,          \* submitted to the worker pool and not finished
    running,       \* inside processObserved, on a worker or inline
    starts,        \* ActivityHealth.starts: slot -> the operation it times
    active,        \* ActivityHealth.details.Active
    limited,       \* ActivityHealth.limited
    lifecycle,     \* "running", "stopPoller", "stopListener" or "exited"
    taken,         \* history: commands in the order the listener took them
    dropped,       \* history: typed commands dropped on shutdown
    processed      \* history: commands whose processing has finished

pollerVars == <<remote, pollerPC, limit, batch>>
listenerVars == <<listenerPC, held>>
activityVars == <<running, starts, active, limited>>
historyVars == <<taken, dropped, processed>>
vars == <<pollerVars, queue, enqueued, dequeued, listenerVars, pool,
          activityVars, lifecycle, historyVars>>

Typed(c) == c \notin Untyped

\* The extra slot covers the inline fallback of the listener.
Slots == 1 .. (IF MaxConcurrent < SlotLimit THEN MaxConcurrent + 1 ELSE SlotLimit)

\* The context of a loop is cancelled by its own OnStop hook; fx runs the
\* hooks in reverse order of registration: the poller's, then the listener's.
PollerCancelled == lifecycle # "running"
ListenerCancelled == lifecycle = "stopListener"

Init ==
    /\ remote = Backlog
    /\ pollerPC = "top" /\ limit = 0 /\ batch = <<>>
    /\ queue = <<>> /\ enqueued = 0 /\ dequeued = 0
    /\ listenerPC = "select" /\ held = NoCommand
    /\ pool = {} /\ running = {}
    /\ starts = [s \in Slots |-> NoCommand]
    /\ active = 0
    /\ limited = (MaxConcurrent >= SlotLimit)
    /\ lifecycle = "running"
    /\ taken = <<>> /\ dropped = {} /\ processed = {}

-----------------------------------------------------------------------------
(* poller.Run *)

availableSlots == QueueCapacity - Len(queue)

pollLimit(available) == IF available > maxPollBatchSize THEN maxPollBatchSize ELSE available

PollerOnly == UNCHANGED <<enqueued, dequeued, listenerVars, pool, activityVars, lifecycle>>

\* The top of the loop: a cancelled poller returns.
PollerStop ==
    /\ pollerPC = "top" /\ PollerCancelled
    /\ pollerPC' = "stopped"
    /\ PollerOnly /\ UNCHANGED <<remote, limit, batch, queue, historyVars>>

\* A full queue pauses polling: waitForQueue, 100 ms or cancellation.
QueueFull ==
    /\ pollerPC = "top" /\ ~PollerCancelled
    /\ availableSlots <= 0
    /\ pollerPC' = "waitForQueue"
    /\ PollerOnly /\ UNCHANGED <<remote, limit, batch, queue, historyVars>>

StartPoll ==
    /\ pollerPC = "top" /\ ~PollerCancelled
    /\ availableSlots > 0
    /\ limit' = pollLimit(availableSlots)
    /\ pollerPC' = "polling"
    /\ PollerOnly /\ UNCHANGED <<remote, batch, queue, historyVars>>

\* mutant: the wait has no timer
WaitEndsOnCancel ==
    /\ pollerPC \in {"waitForQueue", "waitForRetry"}
    /\ PollerCancelled /\ pollerPC' = "stopped"
    /\ PollerOnly /\ UNCHANGED <<remote, limit, batch, queue, historyVars>>

\* waitForQueue and waitForRetry end by their timer or, if the poller is
\* cancelled, by its context; in the latter case Run returns.
WaitEnds ==
    /\ pollerPC \in {"waitForQueue", "waitForRetry"}
    /\ \/ pollerPC' = "top"
       \/ PollerCancelled /\ pollerPC' = "stopped"
    /\ PollerOnly /\ UNCHANGED <<remote, limit, batch, queue, historyVars>>

\* Poll leases the next n commands. An empty answer goes back to the top. More
\* commands than asked for are logged, not refused.
PollReturns(n) ==
    /\ pollerPC = "polling"
    /\ n <= limit + Overflow
    /\ batch' = SubSeq(remote, 1, n)
    /\ remote' = SubSeq(remote, n + 1, Len(remote))
    /\ pollerPC' = IF n = 0 THEN "top" ELSE "enqueue"
    /\ limit' = 0
    /\ PollerOnly /\ UNCHANGED <<queue, historyVars>>

\* A failed poll backs off; a poll cancelled by shutdown ends the loop.
PollFails ==
    /\ pollerPC = "polling"
    /\ \/ pollerPC' = "waitForRetry"
       \/ PollerCancelled /\ pollerPC' = "stopped"
    /\ limit' = 0
    /\ PollerOnly /\ UNCHANGED <<remote, batch, queue, historyVars>>

\* mutant: only the command being enqueued is dropped, the rest forgotten
DropBatchHeadOnly ==
    /\ dropped' = dropped \cup {Head(batch)}
    /\ batch' = <<>>
    /\ pollerPC' = "top"
    /\ PollerOnly /\ UNCHANGED <<remote, limit, queue, taken, processed>>

\* The rest of the batch is counted as dropped, and the loop is at its top.
DropBatch ==
    /\ dropped' = dropped \cup {c \in Range(batch) : Typed(c)}
    /\ batch' = <<>>
    /\ pollerPC' = "top"
    /\ PollerOnly /\ UNCHANGED <<remote, limit, queue, taken, processed>>

SkipUntyped ==
    /\ pollerPC = "enqueue" /\ ~Typed(Head(batch))
    /\ batch' = Tail(batch)
    /\ pollerPC' = IF Tail(batch) = <<>> THEN "top" ELSE "enqueue"
    /\ PollerOnly /\ UNCHANGED <<remote, limit, queue, historyVars>>

\* enqueueWithBackpressure looks at the context before it tries to send ...
BeginEnqueue ==
    /\ pollerPC = "enqueue" /\ Typed(Head(batch))
    /\ ~PollerCancelled
    /\ pollerPC' = "send"
    /\ PollerOnly /\ UNCHANGED <<remote, limit, batch, queue, historyVars>>

RefuseEnqueue ==
    /\ pollerPC = "enqueue" /\ Typed(Head(batch))
    /\ PollerCancelled
    /\ DropBatch

\* ... and Enqueue selects between the send and the cancellation.
Send ==
    /\ pollerPC = "send"
    /\ Len(queue) < QueueCapacity
    /\ queue' = Append(queue, Head(batch))
    /\ batch' = Tail(batch)
    /\ pollerPC' = "countEnqueued"
    /\ PollerOnly /\ UNCHANGED <<remote, limit, historyVars>>

SendCancelled ==
    /\ pollerPC = "send" /\ PollerCancelled
    /\ DropBatch

\* QueueHealth.Enqueued, after the command is already in the channel.
CountEnqueued ==
    /\ pollerPC = "countEnqueued"
    /\ enqueued' = enqueued + 1
    /\ pollerPC' = IF batch = <<>> THEN "top" ELSE "enqueue"
    /\ UNCHANGED <<remote, limit, batch, queue, dequeued, listenerVars, pool,
                   activityVars, lifecycle, historyVars>>

Poller ==
    \/ PollerStop \/ QueueFull \/ StartPoll \/ WaitEnds \/ PollFails
    \/ \E n \in 0..Len(remote) : PollReturns(n)
    \/ SkipUntyped \/ BeginEnqueue \/ RefuseEnqueue
    \/ Send \/ SendCancelled \/ CountEnqueued

-----------------------------------------------------------------------------
(* QueueListener.run and the worker pool *)

ListenerOnly == UNCHANGED <<pollerVars, enqueued, lifecycle>>

\* select picks at random between a queued command and the cancellation.
Receive ==
    /\ listenerPC = "select" /\ queue # <<>>
    /\ held' = Head(queue)
    /\ queue' = Tail(queue)
    /\ taken' = Append(taken, Head(queue))
    /\ listenerPC' = "countDequeued"
    /\ ListenerOnly
    /\ UNCHANGED <<dequeued, pool, activityVars, dropped, processed>>

CountDequeued ==
    /\ listenerPC = "countDequeued"
    /\ dequeued' = dequeued + 1
    /\ listenerPC' = "submit"
    /\ ListenerOnly
    /\ UNCHANGED <<queue, held, pool, activityVars, historyVars>>

\* mutant: Submit does not wait for a worker
SubmitUnbounded ==
    /\ listenerPC = "submit"
    /\ pool' = pool \cup {held}
    /\ held' = NoCommand
    /\ listenerPC' = "select"
    /\ ListenerOnly
    /\ UNCHANGED <<queue, dequeued, activityVars, historyVars>>

\* Submit blocks while every worker is busy: the listener keeps the command.
Submit ==
    /\ listenerPC = "submit"
    /\ Cardinality(pool) < MaxConcurrent
    /\ pool' = pool \cup {held}
    /\ held' = NoCommand
    /\ listenerPC' = "select"
    /\ ListenerOnly
    /\ UNCHANGED <<queue, dequeued, activityVars, historyVars>>

\* mutant: a refused command is logged and forgotten
SubmitFailsDrops ==
    /\ listenerPC = "submit"
    /\ listenerPC' = "select"
    /\ held' = NoCommand
    /\ ListenerOnly
    /\ UNCHANGED <<queue, dequeued, pool, activityVars, historyVars>>

\* The pool refuses the task: the listener processes the command itself.
SubmitFails ==
    /\ listenerPC = "submit"
    /\ listenerPC' = "inline"
    /\ ListenerOnly
    /\ UNCHANGED <<queue, dequeued, held, pool, activityVars, historyVars>>

\* mutant: the cancellation is looked at only when a command is there
ListenerStopBusy ==
    /\ listenerPC = "select" /\ ListenerCancelled /\ queue # <<>>
    /\ listenerPC' = "releasing"
    /\ ListenerOnly
    /\ UNCHANGED <<queue, dequeued, held, pool, activityVars, historyVars>>

ListenerStop ==
    /\ listenerPC = "select" /\ ListenerCancelled
    /\ listenerPC' = "releasing"
    /\ ListenerOnly
    /\ UNCHANGED <<queue, dequeued, held, pool, activityVars, historyVars>>

\* ReleaseTimeout: the pool is empty, or ten seconds are over.
ReleasePool ==
    /\ listenerPC = "releasing"
    /\ listenerPC' = "stopped"
    /\ ListenerOnly
    /\ UNCHANGED <<queue, dequeued, held, pool, activityVars, historyVars>>

Listener ==
    \/ Receive \/ CountDequeued \/ Submit \/ SubmitFails
    \/ ListenerStop \/ ReleasePool

\* The commands a worker, or the listener itself, has to process.
Assigned == pool \cup (IF listenerPC = "inline" THEN {held} ELSE {})

FreeSlots == {s \in Slots : starts[s] = NoCommand}

\* ActivityHealth.begin: the first free slot times the operation, if any.
begin(c) ==
    /\ active' = active + 1
    /\ running' = running \cup {c}
    /\ IF FreeSlots = {}
       THEN limited' = TRUE /\ UNCHANGED starts
       ELSE /\ starts' = [starts EXCEPT ![CHOOSE s \in FreeSlots : \A t \in FreeSlots : s <= t] = c]
            /\ UNCHANGED limited

\* ActivityHealth.finish
finish(c) ==
    /\ active' = IF active > 0 THEN active - 1 ELSE active
    /\ running' = running \ {c}
    /\ starts' = [s \in Slots |-> IF starts[s] = c THEN NoCommand ELSE starts[s]]
    /\ UNCHANGED limited

BeginProcess(c) ==
    /\ c \in Assigned \ running
    /\ begin(c)
    /\ UNCHANGED <<pollerVars, queue, enqueued, dequeued, listenerVars, pool,
                   lifecycle, historyVars>>

EndProcess(c) ==
    /\ c \in running
    /\ finish(c)
    /\ processed' = processed \cup {c}
    /\ pool' = pool \ {c}
    /\ IF c \in pool
       THEN UNCHANGED listenerVars
       ELSE listenerPC' = "select" /\ held' = NoCommand
    /\ UNCHANGED <<pollerVars, queue, enqueued, dequeued, lifecycle, taken, dropped>>

-----------------------------------------------------------------------------
(* The fx lifecycle: OnStop of the poller, then OnStop of the listener *)

BeginStop ==
    /\ lifecycle = "running"
    /\ lifecycle' = "stopPoller"
    /\ UNCHANGED <<pollerVars, queue, enqueued, dequeued, listenerVars, pool,
                   activityVars, historyVars>>

\* A hook has returned; or the stop budget is over and the process leaves.
StopHookReturns ==
    /\ \/ lifecycle = "stopPoller" /\ pollerPC = "stopped" /\ lifecycle' = "stopListener"
       \/ lifecycle = "stopListener" /\ listenerPC = "stopped" /\ lifecycle' = "exited"
    /\ UNCHANGED <<pollerVars, queue, enqueued, dequeued, listenerVars, pool,
                   activityVars, historyVars>>

StopBudgetExpires ==
    /\ lifecycle \in {"stopPoller", "stopListener"}
    /\ lifecycle' = "exited"
    /\ UNCHANGED <<pollerVars, queue, enqueued, dequeued, listenerVars, pool,
                   activityVars, historyVars>>

Exited == lifecycle = "exited" /\ UNCHANGED vars

Alive == lifecycle # "exited"

Next ==
    \/ Alive /\ Poller
    \/ Alive /\ Listener
    \/ \E c \in Commands : Alive /\ (BeginProcess(c) \/ EndProcess(c))
    \/ BeginStop \/ StopHookReturns \/ StopBudgetExpires
    \/ Exited

\* Each loop is a goroutine the runtime keeps scheduling: polls have a
\* deadline and waits have timers.  That the processing of a command ends is
\* assumed here: the processor guarantees it for a command with a response
\* timeout, and for others as far as the MCP server lets a call return or a
\* shutdown cancels it.  Nothing forces a shutdown.
Fairness ==
    /\ WF_vars(Alive /\ Poller)
    /\ WF_vars(Alive /\ Listener)
    /\ \A c \in Commands : WF_vars(Alive /\ BeginProcess(c)) /\ WF_vars(Alive /\ EndProcess(c))
    /\ WF_vars(StopHookReturns)

Spec == Init /\ [][Next]_vars

FairSpec == Spec /\ Fairness

-----------------------------------------------------------------------------
(* Properties *)

(* The state of the pipeline has its types, the poller enters its enqueue
   steps with a command in hand, and the listener holds a command exactly
   between its receive and the end of its submit. *)
TypeOK ==
    /\ remote \in Seq(Commands)
    /\ pollerPC \in {"top", "waitForQueue", "waitForRetry", "polling", "enqueue",
                     "send", "countEnqueued", "stopped"}
    /\ limit \in Nat /\ enqueued \in Nat /\ dequeued \in Nat /\ active \in Nat
    /\ batch \in Seq(Commands) /\ queue \in Seq(Commands)
    /\ pollerPC \in {"enqueue", "send"} => batch # <<>>
    /\ listenerPC \in {"select", "countDequeued", "submit", "inline", "releasing", "stopped"}
    /\ held \in Commands \cup {NoCommand}
    /\ held = NoCommand <=> listenerPC \in {"select", "releasing", "stopped"}
    /\ pool \subseteq Commands /\ running \subseteq Commands
    /\ starts \in [Slots -> Commands \cup {NoCommand}]
    /\ limited \in BOOLEAN
    /\ lifecycle \in {"running", "stopPoller", "stopListener", "exited"}
    /\ taken \in Seq(Commands) /\ dropped \subseteq Commands
    /\ processed \subseteq Commands

HeldCount == IF held = NoCommand THEN 0 ELSE 1

Resident == Len(batch) + Len(queue) + HeldCount + Cardinality(pool)

(* The commands that live in the client are bounded by the worker limit, plus
   the capacity of the queue, plus one command the dispatcher holds; a service
   that exceeds the limit it was given adds its excess. A batch is only asked
   for when it will fit. (poller.availableSlots, pollLimit, pool.Submit) *)
ResidentBound == Resident <= MaxConcurrent + QueueCapacity + 1 + Overflow

(* The room the poller saw when it chose the limit is still there after the
   poll: it waits to enqueue only for what the service sent in excess, and
   never if the service honours the limit. (poller.enqueueWithBackpressure) *)
SendNeverBlocks ==
    pollerPC = "send" /\ Len(queue) = QueueCapacity => Len(batch) <= Overflow

\* The inductive invariant behind the two: the batch in hand, or the one asked
\* for, fits into the room the queue has left.
ResidentInv ==
    /\ remote \in Seq(Commands) /\ pool \subseteq Commands
    /\ batch \in Seq(Commands) /\ queue \in Seq(Commands) /\ limit \in Nat
    /\ pollerPC \in {"enqueue", "send"} => batch # <<>>
    /\ listenerPC \in {"countDequeued", "submit", "inline"} => held \in Commands
    /\ Len(batch) + Len(queue) <= QueueCapacity + Overflow
    /\ pollerPC = "polling" => limit + Len(queue) <= QueueCapacity
    /\ Cardinality(pool) <= MaxConcurrent

\* The place of a command in the order of the service.
Position(c) == CHOOSE i \in DOMAIN Backlog : Backlog[i] = c

InOrder(s) == \A i, j \in DOMAIN s : i < j => Position(s[i]) < Position(s[j])

\* From the hands of the listener back to the service.
Path == taken \o queue \o batch \o remote

(* No leased command is lost, duplicated or reordered on its way to the
   listener: what it took, what is queued, the batch in hand and what the
   service still has are one ordered sequence, in which no command is twice.
   A command of a known type is in it or was dropped by the shutdown, and one
   of an unknown type gets no further than the batch. *)
ConservedInOrder ==
    /\ InOrder(Path)
    /\ \A c \in Commands : Typed(c) => (c \in Range(Path) <=> c \notin dropped)
    /\ \A c \in Range(taken) \cup Range(queue) : Typed(c)

(* The health snapshot tells the truth: the queue counters differ from the
   channel's length by at most the two observations in progress, and the
   dispatcher reports exactly the operations that run, also when their number
   exceeds the start-time slots. (QueueHealth, ActivityHealth) *)
HealthIsExact ==
    /\ enqueued + (IF pollerPC = "countEnqueued" THEN 1 ELSE 0)
           = dequeued + (IF listenerPC = "countDequeued" THEN 1 ELSE 0) + Len(queue)
    /\ active = Cardinality(running)

(* No command that was polled is lost, duplicated or overtaken inside the
   client, and the health counters of queue and pool say what is there. *)
ConservedAndCounted == ConservedInOrder /\ HealthIsExact

(* A shutdown comes to its end without the help of its time budget. *)
ShutdownCompletes == PollerCancelled ~> lifecycle = "exited"

(* Backpressure ends: a poller that waits for room polls again, or stops. *)
BackpressureEnds ==
    pollerPC = "waitForQueue" ~> pollerPC \in {"polling", "stopped"} \/ ~Alive

-----------------------------------------------------------------------------
(* The pipeline implements CommandLeases. *)

PhaseOf(c) ==
    IF c \in Range(remote) THEN "remote"
    ELSE IF c \in processed THEN "processed"
    ELSE IF c \in Range(batch) \cup Range(queue) \cup {held} \cup pool THEN "resident"
    ELSE "discarded"

Leases == INSTANCE CommandLeases WITH
    Bound <- MaxConcurrent + QueueCapacity + 1 + Overflow,
    phase <- [c \in Commands |-> PhaseOf(c)],
    stopping <- PollerCancelled

(* Every behaviour of the pipeline is one of CommandLeases: each command is
   settled once, in the end, and only an untyped one is discarded before a
   shutdown; the inline fallback of the listener loses none. *)
LeasesSpec == Leases!Spec

(* Once the listener has left its loop, no command enters the queue any
   more: nothing is accepted that nobody will take. *)
QuietQueueStep ==
    listenerPC \in {"releasing", "stopped"} => Len(queue') <= Len(queue)

NothingQueuedBehindListener == [][QuietQueueStep]_vars

(* A stop ends every goroutine, and nothing enters the queue once the
   listener has left it. *)
ShutdownIsClean == ShutdownCompletes /\ NothingQueuedBehindListener

(* The backlog TLC checks. *)
MCBacklog == <<1, 2, 3, 4, 5, 6>>
=============================================================================
