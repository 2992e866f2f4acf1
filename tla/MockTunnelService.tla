------------------------- MODULE MockTunnelService -------------------------
(***************************************************************************)
(* The scripted control plane the integration tests run the client against  *)
(* (testsupport/mocktunnelservice): it hands out a script of commands one   *)
(* at a time over GET /poll, matches POST /response to the command that     *)
(* waits for it, and lets the test wait for what has been observed.         *)
(*                                                                          *)
(* Everything under m.mu is one step.  A handler or a waiter that has to    *)
(* wait takes the current stateCh under the same lock and parks on it; the  *)
(* channel is closed and replaced by signalStateChangeLocked, which here    *)
(* sets `woken` for everyone parked.  A poll held back by DeliverAfter      *)
(* parks on that channel instead.                                           *)
(***************************************************************************)
EXTENDS Naturals, Sequences, FiniteSets, FiniteSetsExt

CONSTANTS
  Options,       \* the options of a test: [phase, commands]: the initialization phase,
                 \* "none", "session" or "plain" (WithoutSessionHeaders), and the
                 \* scripted CommandResponses, a sequence of
                 \* [answers, gated, named, assert]: how many ExpectedResponses,
                 \* whether DeliverAfter is set, whether they have a RequestID, and
                 \* what the answers must be: "any", "initialize",
                 \* "initialize_plain" or "initialized"
  Propagate,     \* WithSessionHeaderPropagation is among the options
  Polls,         \* the client's concurrent GET /poll requests
  Waiters,       \* the test's goroutines in a WaitFor function
  allowPending,  \* WithAllowPendingCommands
  Answers,       \* what the client posts: [kind, code, body, session]
  MaxPosts,      \* bound: POST /response requests
  MaxPolls       \* bound: GET /poll requests

VARIABLES
  script,        \* sequence of scriptedCommand
  opened,        \* the DeliverAfter channels have been closed
  poll,          \* poll -> its handler
  polled,        \* GET /poll requests made so far
  waiter,        \* waiter -> the test goroutine and what it waits for, see satisfied
  posting,       \* the commands whose POST /response is recorded and not yet handled
  received,      \* for each answer, the slot it counted for, or 0
  session,       \* the shared storage holds an Mcp-Session-Id
  carried,       \* history: delivered command -> it carried the session header
  pollStatus, pollFailures,
  failed,        \* failf: the test has failed
  server         \* "up", "closing" (server.Close waits for handlers), "closed"

vars == <<script, opened, poll, polled, waiter, posting, received, session, carried,
          pollStatus, pollFailures, failed, server>>

-----------------------------------------------------------------------------
(* initializationPhaseCommandResponses: initialize, then the notification. *)
initializationPhaseCommandResponses(requireSessionHeader) ==
  << [answers |-> 1, gated |-> FALSE, named |-> TRUE,
      assert |-> IF requireSessionHeader THEN "initialize" ELSE "initialize_plain"],
     [answers |-> 1, gated |-> FALSE, named |-> TRUE, assert |-> "initialized"] >>

(* WithInitializationPhaseCommands and its variant without session headers  *)
(* move their two commands in front of the rest of the script.              *)
Entries(o) ==
  IF o.phase = "none" THEN o.commands
  ELSE initializationPhaseCommandResponses(o.phase = "session") \o o.commands

(* The assertions of the initialization phase. *)
succeeded(r) == r.code \in 200..299
assertInitializationResponseWithoutSessionHeader(r) ==
  r.kind = "jsonrpc" /\ succeeded(r) /\ r.body = "result"
assertInitializationResponse(r) ==
  assertInitializationResponseWithoutSessionHeader(r) /\ r.session
assertInitializedNotificationResponse(r) ==
  r.kind = "notify_ack" /\ succeeded(r) /\ r.body = "none"

accepted(assert, r) ==
  /\ assert = "initialize" => assertInitializationResponse(r)
  /\ assert = "initialize_plain" => assertInitializationResponseWithoutSessionHeader(r)
  /\ assert = "initialized" => assertInitializedNotificationResponse(r)

(* appendCommandResponses: NoResponseExpected is an entry with no answers.  *)
slotOf(entry) == [answers |-> entry.answers, gated |-> entry.gated,
                  named |-> entry.named, assert |-> entry.assert,
                  index |-> 0, delivered |-> FALSE, completed |-> FALSE]

(* What a test can wait for.                                                *)
Awaitable == {"idle", "response", "request", "active", "quiet", "failure"}

Quiet == [pc |-> "idle", on |-> "state", woken |-> FALSE, got |-> 0]

Init ==
  /\ \E o \in Options : script = [i \in 1..Len(Entries(o)) |-> slotOf(Entries(o)[i])]
  /\ opened = FALSE
  /\ poll = [p \in Polls |-> Quiet]
  /\ polled = 0
  /\ waiter \in [Waiters -> [pc : {"look"}, woken : {FALSE}, what : Awaitable]]
  /\ posting = {} /\ received = <<>>
  /\ session = FALSE /\ carried = [i \in 1..Len(script) |-> FALSE]
  /\ pollStatus = 0 /\ pollFailures = 0
  /\ failed = FALSE /\ server = "up"

(* A mutant: the channel is replaced without being closed. *)
signalNobody == waiter' = waiter

(* signalStateChangeLocked: everyone parked on the channel being closed. *)
wakePolls(ps) == [p \in Polls |-> [ps[p] EXCEPT !.woken = @ \/ (ps[p].pc = "parked" /\ ps[p].on = "state")]]

signalStateChangeLocked == waiter' = [w \in Waiters |-> [waiter[w] EXCEPT !.woken = @ \/ waiter[w].pc = "parked"]]

remainingResponses(slot) ==
  IF slot.completed \/ slot.index >= slot.answers THEN 0 ELSE slot.answers - slot.index

-----------------------------------------------------------------------------
(* handleTunnel: the poll is active from beginActivePoll, which signals, to *)
(* finishPoll, which signals again.  recordHTTPRequest follows and signals  *)
(* too: one step with beginActivePoll, nothing being read between them.     *)
BeginPoll(p) ==
  /\ server = "up" /\ poll[p].pc = "idle" /\ polled < MaxPolls
  /\ polled' = polled + 1
  /\ poll' = wakePolls([poll EXCEPT ![p] = [Quiet EXCEPT !.pc = "begun"]])
  /\ signalStateChangeLocked
  /\ UNCHANGED <<script, opened, posting, received, session, carried, pollStatus, pollFailures, failed, server>>

(* handlePoll's injected outage is read once, before the queue. *)
CheckStatus(p) ==
  /\ poll[p].pc = "begun"
  /\ IF pollStatus # 0
       THEN /\ pollFailures' = pollFailures + 1
            /\ poll' = wakePolls([poll EXCEPT ![p].pc = "finish"])
            /\ signalStateChangeLocked
       ELSE /\ poll' = [poll EXCEPT ![p].pc = "look"]
            /\ UNCHANGED <<pollFailures, waiter>>
  /\ UNCHANGED <<script, opened, polled, posting, received, session, carried, pollStatus, failed, server>>

(* nextCommandLocked looks only at the first slot that is not completed: a  *)
(* delivered one holds everything behind it back.                           *)
firstOpen == {i \in 1..Len(script) : ~script[i].completed /\ \A j \in 1..(i - 1) : script[j].completed}

deliverable(i) == ~script[i].delivered /\ (script[i].gated => opened)

blockedOnGate == \E i \in firstOpen : ~script[i].delivered /\ script[i].gated /\ ~opened

(* defaultSessionCommandMutator sets the header only when storage has one.  *)
defaultSessionCommandMutator == Propagate /\ session

Look(p) ==
  /\ poll[p].pc = "look"
  /\ IF \E i \in firstOpen : deliverable(i)
       THEN LET i == CHOOSE i \in firstOpen : deliverable(i) IN
            /\ script' = [script EXCEPT ![i].delivered = TRUE, ![i].completed = (script[i].answers = 0)]
            /\ carried' = [carried EXCEPT ![i] = defaultSessionCommandMutator]
            /\ poll' = wakePolls([poll EXCEPT ![p] = [@ EXCEPT !.pc = "finish", !.got = i]])
            /\ signalStateChangeLocked
       ELSE /\ poll' = [poll EXCEPT ![p] = [@ EXCEPT !.pc = "parked", !.woken = FALSE,
                           !.on = IF blockedOnGate THEN "gate" ELSE "state"]]
            /\ UNCHANGED <<script, carried, waiter>>
  /\ UNCHANGED <<opened, polled, posting, received, session, pollStatus, pollFailures, failed, server>>

(* The select of handlePoll: woken, out of time (an empty envelope), or the *)
(* client has gone.                                                         *)
PollWakes(p) ==
  /\ poll[p].pc = "parked" /\ poll[p].woken
  /\ poll' = [poll EXCEPT ![p].pc = "look", ![p].woken = FALSE, ![p].on = "state"]
  /\ UNCHANGED <<script, opened, polled, waiter, posting, received, session, carried, pollStatus, pollFailures, failed, server>>

PollExpires(p) ==
  /\ poll[p].pc = "parked"
  /\ poll' = [poll EXCEPT ![p] = [Quiet EXCEPT !.pc = "finish"]]
  /\ UNCHANGED <<script, opened, polled, waiter, posting, received, session, carried, pollStatus, pollFailures, failed, server>>

(* The deferred finishPoll; the client now holds the delivered command. *)
FinishPoll(p) ==
  /\ poll[p].pc = "finish"
  /\ poll' = wakePolls([poll EXCEPT ![p] = Quiet])
  /\ signalStateChangeLocked
  /\ UNCHANGED <<script, opened, polled, posting, received, session, carried, pollStatus, pollFailures, failed, server>>

-----------------------------------------------------------------------------
(* nextResponseSlotLocked: completes on its way every slot that expects     *)
(* nothing, delivered or not; the first other open slot takes the response  *)
(* when it has been delivered.                                              *)
expecting(i) == ~script[i].completed /\ remainingResponses(script[i]) > 0

nextResponseSlotLocked ==
  {i \in 1..Len(script) : expecting(i) /\ script[i].delivered /\ \A j \in 1..(i - 1) : ~expecting(j)}

skipped ==
  {i \in 1..Len(script) : ~script[i].completed /\ remainingResponses(script[i]) = 0
     /\ \A j \in 1..(i - 1) : ~expecting(j)}

(* defaultSessionPostProcessor keeps the session header of an answer; the   *)
(* initialize command always has it, the others when sessions propagate.    *)
defaultSessionPostProcessor(slot, r) ==
  session \/ (r.session /\ (Propagate \/ slot.assert \in {"initialize", "initialize_plain"}))

answer(slot) == [slot EXCEPT !.index = @ + 1, !.completed = slot.index + 1 >= slot.answers]

(* recordHTTPRequest of a POST /response, which signals before the answer   *)
(* is looked at.  The client may post an answer again when its first        *)
(* delivery was not acknowledged.                                           *)
PostArrives(c) ==
  /\ server = "up" /\ Len(received) + Cardinality(posting) < MaxPosts
  /\ script[c].delivered /\ c \notin posting
  /\ posting' = posting \cup {c}
  /\ poll' = wakePolls(poll)
  /\ signalStateChangeLocked
  /\ UNCHANGED <<script, opened, polled, received, session, carried, pollStatus, pollFailures, failed, server>>

(* handleResponse: the answer r to command c.  An answer to another command *)
(* than the one an expectation names, or one that fails its assertion,      *)
(* fails the test: failf ends the handler before the slot moves on and      *)
(* before anyone is woken, but after the answer was recorded.               *)
handleResponse(c, r) ==
  /\ c \in posting /\ posting' = posting \ {c}
  /\ LET slot == nextResponseSlotLocked
         wrong == \E i \in slot : (script[i].named /\ i # c) \/ ~accepted(script[i].assert, r)
     IN  /\ received' = Append(received, IF wrong THEN 0 ELSE Max({0} \cup slot))
         /\ failed' = (failed \/ wrong)
         /\ script' = [i \in 1..Len(script) |->
                         IF i \in slot /\ ~wrong THEN answer(script[i])
                         ELSE IF i \in skipped THEN [script[i] EXCEPT !.completed = TRUE]
                         ELSE script[i]]
         /\ session' = IF slot = {} \/ wrong THEN session
                        ELSE defaultSessionPostProcessor(script[CHOOSE i \in slot : TRUE], r)
         /\ IF wrong THEN UNCHANGED <<poll, waiter>>
                     ELSE poll' = wakePolls(poll) /\ signalStateChangeLocked
  /\ UNCHANGED <<opened, polled, carried, pollStatus, pollFailures, server>>

-----------------------------------------------------------------------------
(* The test: opens the DeliverAfter channels, injects and ends an outage.   *)
OpenGates ==
  /\ ~opened /\ opened' = TRUE
  /\ poll' = [p \in Polls |-> [poll[p] EXCEPT !.woken = @ \/ (poll[p].pc = "parked" /\ poll[p].on = "gate")]]
  /\ UNCHANGED <<script, polled, waiter, posting, received, session, carried, pollStatus, pollFailures, failed, server>>

SetPollStatus(status) ==
  /\ status # pollStatus
  /\ pollStatus' = status
  /\ poll' = wakePolls(poll)
  /\ signalStateChangeLocked
  /\ UNCHANGED <<script, opened, polled, posting, received, session, carried, pollFailures, failed, server>>

active == {p \in Polls : poll[p].pc # "idle"}

(* pendingWorkLocked: what WaitUntilIdle waits for. *)
pendingWorkLocked ==
  {i \in 1..Len(script) : ~script[i].delivered \/ remainingResponses(script[i]) > 0}

(* The requests recordHTTPRequest has recorded. *)
httpSeen == polled + Len(received) + Cardinality(posting)

(* The conditions of the WaitFor functions. *)
satisfied(what) ==
  \/ what = "idle" /\ pendingWorkLocked = {}
  \/ what = "response" /\ Len(received) >= 1
  \/ what = "request" /\ httpSeen >= 1
  \/ what = "active" /\ active # {}
  \/ what = "quiet" /\ active = {}
  \/ what = "failure" /\ pollFailures >= 1

(* One look of a WaitFor loop: the condition and stateCh under one lock. *)
WaitLook(w) ==
  /\ waiter[w].pc = "look"
  /\ waiter' = [waiter EXCEPT ![w].pc = IF satisfied(waiter[w].what) THEN "ok" ELSE "parked"]
  /\ UNCHANGED <<script, opened, poll, polled, posting, received, session, carried, pollStatus, pollFailures, failed, server>>

WaitWakes(w) ==
  /\ waiter[w].pc = "parked" /\ waiter[w].woken
  /\ waiter' = [waiter EXCEPT ![w].pc = "look", ![w].woken = FALSE]
  /\ UNCHANGED <<script, opened, poll, polled, posting, received, session, carried, pollStatus, pollFailures, failed, server>>

-----------------------------------------------------------------------------
(* Close: counts what is left, forgets the script, then server.Close waits  *)
(* for the handlers.                                                        *)
Close ==
  /\ server = "up"
  /\ server' = "closing"
  /\ failed' = (failed \/ (~allowPending /\
       (\E i \in 1..Len(script) : ~script[i].delivered \/ remainingResponses(script[i]) > 0)))
  /\ script' = <<>>
  /\ UNCHANGED <<opened, poll, polled, waiter, posting, received, session, carried, pollStatus, pollFailures>>

Closed ==
  /\ server = "closing" /\ active = {} /\ posting = {}
  /\ server' = "closed"
  /\ UNCHANGED <<script, opened, poll, polled, waiter, posting, received, session, carried, pollStatus, pollFailures, failed>>

-----------------------------------------------------------------------------
PollStep(p) == CheckStatus(p) \/ Look(p) \/ PollWakes(p) \/ PollExpires(p) \/ FinishPoll(p)

Next ==
  \/ \E p \in Polls : BeginPoll(p) \/ PollStep(p)
  \/ \E c \in 1..Len(script) : PostArrives(c)
  \/ \E c \in posting, r \in Answers : handleResponse(c, r)
  \/ \E w \in Waiters : WaitLook(w) \/ WaitWakes(w)
  \/ OpenGates \/ (\E status \in {0, 1} : SetPollStatus(status))
  \/ Close \/ Closed

Spec == Init /\ [][Next]_vars

-----------------------------------------------------------------------------
(* The script is serial (nextCommandLocked): while a command waits for an   *)
(* answer no later one has been handed out, whichever polls, repeated       *)
(* answers and outages come between.                                        *)
OneCommandAtATime ==
  \A i, j \in 1..Len(script) :
    (i < j /\ script[i].delivered /\ remainingResponses(script[i]) > 0) => ~script[j].delivered

(* A WaitFor call never misses its wake-up: whatever comes between its look *)
(* and its parking, a call does not sleep on once what it waits for holds.  *)
(* WaitForResponses has an exception: an answer that fails the test is      *)
(* counted, and failf ends its handler before it signals, so a call that    *)
(* waits for it may stay until its context ends.                            *)
WaitersAreWoken ==
  \A w \in Waiters :
    (/\ server = "up" /\ waiter[w].pc = "parked" /\ satisfied(waiter[w].what)
     /\ waiter[w].what = "response" => ~failed) => waiter[w].woken

(* With session propagation, every command handed out after the initialize  *)
(* command carries the session header its answer brought.                   *)
SessionFollowsInitialize ==
  (Propagate /\ Len(script) > 0 /\ script[1].assert = "initialize") =>
     \A i \in 2..Len(script) : script[i].delivered => carried[i]

(* WaitUntilIdle succeeds only after every command of the script has been   *)
(* handed out and each has had all the answers it expects: an answer that   *)
(* failed the test, or one that nothing expected, counts for none.          *)
IdleMeansDone ==
  [][\A w \in Waiters :
       (waiter[w].what = "idle" /\ waiter[w].pc # "ok" /\ waiter'[w].pc = "ok") =>
          \A i \in 1..Len(script) : script[i].delivered /\
             Cardinality({k \in 1..Len(received) : received[k] = i}) >= script[i].answers]_vars
=============================================================================
