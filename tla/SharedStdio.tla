---------------------------- MODULE SharedStdio ----------------------------
(***************************************************************************)
(* The shared stdio binding (pkg/mcpclient): the workers of the dispatcher *)
(* forward their commands, one logical connection each, over the pipes of  *)
(* one MCP child process.  serialized_forwarding_transport.go lets one     *)
(* request lifecycle at a time own the pipes, shared_connection_transport  *)
(* hands every logical connection the same physical one, and processor.go  *)
(* drives a connection: Connect, Write, Read until the response, clean up. *)
(*                                                                         *)
(* A deadline that passes does not close the pipes: the request's JSON-RPC *)
(* ID is retired and its late response dropped when it arrives, and a      *)
(* later caller of the same ID is given an alias on the wire.  The child   *)
(* may be lost and replaced at any time; gen is the supervisor's           *)
(* generation, and everything remembered about a child is fenced by it.    *)
(***************************************************************************)
EXTENDS Naturals, Sequences, FiniteSets, FiniteSetsExt

CONSTANTS Commands,              \* the commands the workers process
          Initializes,           \* those that are an initialize request
          Notices,               \* those that are notifications/initialized
          Modern,                \* self-contained requests, exempt from the guard
          IDs,                   \* the JSON-RPC IDs callers use
          NoCommand,
          EnsureInitialized,     \* SendInitializedNotification, the shim
          maxRetiredResponseIDs,
          StrayResponses,        \* the child may send a response that answers nothing
          MaxGen,                \* bound: child generations
          MaxChatter             \* bound: unsolicited messages of the child

(* Caller IDs may lie in the alias space, the code only compares IDs. *)
AliasBase == 100
Alias(n) == AliasBase + n

NoID == 0

ASSUME StdioAssumption ==
    /\ Initializes \subseteq Commands /\ Notices \subseteq Commands
    /\ Modern \subseteq Commands
    /\ Initializes \cap Notices = {} /\ Modern \cap (Initializes \cup Notices) = {}
    /\ IDs \subseteq Nat \ {NoID}
    /\ NoCommand \notin Commands
    /\ EnsureInitialized \in BOOLEAN /\ StrayResponses \in BOOLEAN
    /\ maxRetiredResponseIDs \in Nat \ {0} /\ MaxGen \in Nat /\ MaxChatter \in Nat

VARIABLES
    \* serializedForwardingTransport
    lifecycleSlot,           \* the one-element channel is full
    generation,              \* the generation the transport has adopted
    retiredResponseIDs,
    nextAliasedID,
    initializeSucceeded, initializationReady,
    initializedNotification, \* the shim has sent notifications/initialized
    \* the child and its pipes
    gen,                     \* Generation() of the supervisor
    active,                  \* a child runs under gen
    pipes,                   \* its pipes are open at the client's end
    incoming,                \* messages the child has sent, not yet read
    outstanding,             \* requests it has received, not yet answered
    handshake,               \* the MCP handshake as the child sees it
    chatter,
    \* per command: the processor's place and its serializedForwardingConnection
    pc,
    lockHeld, physicalGeneration, expectedID, writeCompleted, deadlineRetirable,
    callerID,
    expired,                 \* the command's response deadline has passed
    \* history
    answer,                  \* whose response was delivered as the command's
    early,                   \* legacy requests the child got before it was ready
    notified                 \* notifications/initialized since the last initialize

tableVars == <<retiredResponseIDs, nextAliasedID>>
handshakeVars == <<initializeSucceeded, initializationReady, initializedNotification>>
childVars == <<gen, active, pipes, incoming, outstanding, handshake, chatter>>
holdVars == <<lifecycleSlot, lockHeld, expectedID, writeCompleted>>
inputVars == <<callerID, expired>>
connectionVars == <<holdVars, generation, tableVars, handshakeVars, pc,
                    physicalGeneration, deadlineRetirable, inputVars>>
historyVars == <<answer, early, notified>>
vars == <<connectionVars, childVars, historyVars>>

Requests == Commands \ Notices
Legacy == Requests \ (Initializes \cup Modern)

Init ==
    /\ lifecycleSlot = FALSE /\ generation = 0
    /\ retiredResponseIDs = {} /\ nextAliasedID = 0
    /\ initializeSucceeded = FALSE /\ initializationReady = FALSE
    /\ initializedNotification = FALSE
    /\ gen = 1 /\ active = TRUE /\ pipes = TRUE
    /\ incoming = <<>> /\ outstanding = {} /\ handshake = "none" /\ chatter = 0
    /\ pc = [c \in Commands |-> "polled"]
    /\ lockHeld = [c \in Commands |-> FALSE]
    /\ physicalGeneration = [c \in Commands |-> 0]
    /\ expectedID = [c \in Commands |-> NoID]
    /\ writeCompleted = [c \in Commands |-> FALSE]
    /\ deadlineRetirable = [c \in Commands |-> FALSE]
    /\ callerID \in [Commands -> IDs]
    /\ expired = [c \in Commands |-> FALSE]
    /\ answer = [c \in Commands |-> NoCommand]
    /\ early = {} /\ notified = 0

Goto(c, place) == pc' = [pc EXCEPT ![c] = place]

(* currentGeneration / withCurrentGeneration of a logical connection. *)
currentGeneration(c) == physicalGeneration[c] = generation

(* currentBase of the shared connection: nil once the child has been       *)
(* replaced or the connection detached.                                    *)
Usable(c) == physicalGeneration[c] = gen /\ pipes

----------------------------------------------------------------------------
(* The child process. *)

Response(r, ok) == [type |-> "response", id |-> r.id, from |-> r.from, ok |-> ok]
Unsolicited ==
    [type : {"notification", "request"} \cup (IF StrayResponses THEN {"response"} ELSE {}),
     id : {NoID}, from : {NoCommand}, ok : {FALSE}]

(* Everything that was on the pipes is lost with them. *)
DrainPipes == incoming' = <<>> /\ outstanding' = {}

(* childLost: the child exits, closes stdout or fails a write; only the    *)
(* first report of a generation counts.                                    *)
LoseChild ==
    /\ gen' = gen + 1
    /\ active' = FALSE
    /\ pipes' = FALSE
    /\ handshake' = "none"
    /\ DrainPipes

ChildLost ==
    /\ active /\ gen < MaxGen
    /\ LoseChild
    /\ UNCHANGED <<connectionVars, chatter, historyVars>>

(* restartChild: the replacement is a generation of its own. *)
ChildRestarted ==
    /\ ~active /\ gen < MaxGen
    /\ gen' = gen + 1 /\ active' = TRUE /\ pipes' = TRUE /\ notified' = 0
    /\ UNCHANGED <<connectionVars, incoming, outstanding, handshake, chatter,
                   answer, early>>

(* The child answers any request it holds, in any order, however late.     *)
(* Only of an initialize does it matter whether the answer is an error.    *)
ChildAnswers(r, ok) ==
    /\ pipes /\ r \in outstanding
    /\ ok \/ r.from \in Initializes
    /\ outstanding' = outstanding \ {r}
    /\ incoming' = Append(incoming, Response(r, ok))
    /\ handshake' = IF r.from \in Initializes /\ ok THEN "answered" ELSE handshake
    /\ UNCHANGED <<connectionVars, gen, active, pipes, chatter, historyVars>>

(* It may also send a notification, a request of its own or, against the   *)
(* protocol, a response that answers nothing.                              *)
ChildSpeaks(m) ==
    /\ pipes /\ chatter < MaxChatter
    /\ chatter' = chatter + 1
    /\ incoming' = Append(incoming, m)
    /\ UNCHANGED <<connectionVars, gen, active, pipes, outstanding, handshake,
                   historyVars>>

----------------------------------------------------------------------------
(* The serialized transport. *)

(* retireResponseID; FALSE when the table is full. *)
CanRetire(id) ==
    \/ id \in retiredResponseIDs
    \/ Cardinality(retiredResponseIDs) < maxRetiredResponseIDs

resetInitialization == initializeSucceeded' = FALSE /\ initializationReady' = FALSE
resetInitializedNotification ==
    initializedNotification' = (initializedNotification /\ ~EnsureInitialized)

(* Both resets, when the connection is of the adopted generation. *)
ResetHandshake(c) ==
    IF currentGeneration(c)
    THEN resetInitialization /\ resetInitializedNotification
    ELSE UNCHANGED handshakeVars

(* markReleased and clearLifecycleStateLocked, then releaseLifecycle: the  *)
(* slot is given back only by a connection that holds it.                  *)
release(c) ==
    /\ lifecycleSlot' = (lifecycleSlot /\ ~lockHeld[c])
    /\ lockHeld' = [lockHeld EXCEPT ![c] = FALSE]
    /\ expectedID' = [expectedID EXCEPT ![c] = NoID]
    /\ writeCompleted' = [writeCompleted EXCEPT ![c] = FALSE]

(* sharedConnection.Close: detach, then close the pipes of its own child.  *)
ClosePipes(c) ==
    IF Usable(c)
    THEN pipes' = FALSE /\ DrainPipes
    ELSE UNCHANGED <<pipes, incoming, outstanding>>

\* mutant: a retired ID is reused on the wire
wireResponseIDVerbatim(id) == [id |-> id, next |-> nextAliasedID]

(* wireResponseID: the caller's ID unless it is retired, else the first    *)
(* alias past nextAliasedID that is neither retired nor the caller's.      *)
wireResponseID(id) ==
    IF id \notin retiredResponseIDs
    THEN [id |-> id, next |-> nextAliasedID]
    ELSE LET beyond == nextAliasedID + Max(retiredResponseIDs) + 1
             free == {n \in (nextAliasedID + 1)..beyond :
                        Alias(n) # id /\ Alias(n) \notin retiredResponseIDs}
         IN [id |-> Alias(Min(free)), next |-> Min(free)]

----------------------------------------------------------------------------
(* A command, as the processor drives it through its connection. *)

(* A command whose deadline passes before it gets the slot is dropped.     *)
GiveUp(c) ==
    /\ pc[c] = "polled" /\ expired[c]
    /\ Goto(c, "done")
    /\ UNCHANGED <<holdVars, generation, tableVars, handshakeVars, childVars,
                   physicalGeneration, deadlineRetirable, inputVars, historyVars>>

(* Connect: acquireLifecycle. *)
AcquireSlot(c) ==
    /\ pc[c] = "polled" /\ ~expired[c] /\ ~lifecycleSlot
    /\ lifecycleSlot' = TRUE
    /\ Goto(c, "connecting")
    /\ UNCHANGED <<lockHeld, expectedID, writeCompleted, generation, tableVars,
                   handshakeVars, childVars, physicalGeneration, deadlineRetirable,
                   inputVars, historyVars>>

(* Connect never waits for a replacement child. *)
ConnectFails(c) ==
    /\ pc[c] = "connecting" /\ ~active
    /\ resetInitialization
    /\ lifecycleSlot' = FALSE
    /\ Goto(c, "done")
    /\ UNCHANGED <<lockHeld, expectedID, writeCompleted, generation, tableVars,
                   initializedNotification, childVars, physicalGeneration,
                   deadlineRetirable, inputVars, answer, early, notified>>

(* An expired context gives the slot back and leaves the pipes open. *)
BaseConnect(c) ==
    /\ pc[c] = "connecting" /\ active
    /\ lifecycleSlot' = ~expired[c]
    /\ physicalGeneration' = [physicalGeneration EXCEPT ![c] = gen]
    /\ Goto(c, IF expired[c] THEN "done" ELSE "adopting")
    /\ UNCHANGED <<lockHeld, expectedID, writeCompleted, generation, tableVars,
                   handshakeVars, childVars, deadlineRetirable, inputVars, historyVars>>

\* mutant: a new child inherits the readiness of the old one
AdoptKeepsReadiness(c) ==
    /\ pc[c] = "adopting"
    /\ generation' = physicalGeneration[c]
    /\ IF currentGeneration(c)
       THEN UNCHANGED tableVars
       ELSE retiredResponseIDs' = {} /\ nextAliasedID' = 0
    /\ lockHeld' = [lockHeld EXCEPT ![c] = TRUE]
    /\ Goto(c, "connected")
    /\ UNCHANGED <<lifecycleSlot, expectedID, writeCompleted, handshakeVars, childVars,
                   physicalGeneration, deadlineRetirable, inputVars, historyVars>>

(* transitionGeneration: nothing remembered of an earlier child survives.  *)
Adopt(c) ==
    /\ pc[c] = "adopting"
    /\ generation' = physicalGeneration[c]
    /\ IF currentGeneration(c)
       THEN UNCHANGED <<tableVars, handshakeVars>>
       ELSE /\ retiredResponseIDs' = {} /\ nextAliasedID' = 0
            /\ resetInitialization /\ initializedNotification' = FALSE
    /\ lockHeld' = [lockHeld EXCEPT ![c] = TRUE]
    /\ Goto(c, "connected")
    /\ UNCHANGED <<lifecycleSlot, expectedID, writeCompleted, childVars,
                   physicalGeneration, deadlineRetirable, inputVars, historyVars>>

rejectBeforeInitialization(c) == c \in Legacy /\ ~initializationReady
shouldSuppress(c) == c \in Notices /\ EnsureInitialized /\ initializedNotification

(* Write answers locally: no bytes reach the child. *)
WriteLocally(c) ==
    /\ pc[c] = "connected" /\ ~expired[c]
    /\ rejectBeforeInitialization(c) \/ shouldSuppress(c)
    /\ deadlineRetirable' = [deadlineRetirable EXCEPT ![c] = TRUE]
    /\ release(c) /\ Goto(c, "returned")
    /\ UNCHANGED <<generation, tableVars, handshakeVars, childVars,
                   physicalGeneration, inputVars, historyVars>>

(* acquire: the held slot is reused and the wire ID chosen. *)
BeginWrite(c) ==
    /\ pc[c] = "connected" /\ ~expired[c]
    /\ ~rejectBeforeInitialization(c) /\ ~shouldSuppress(c)
    /\ IF c \in Requests
       THEN LET wire == wireResponseID(callerID[c]) IN
                /\ expectedID' = [expectedID EXCEPT ![c] = wire.id]
                /\ nextAliasedID' = wire.next
       ELSE UNCHANGED <<expectedID, nextAliasedID>>
    /\ Goto(c, "writing")
    /\ UNCHANGED <<lifecycleSlot, lockHeld, writeCompleted, generation,
                   retiredResponseIDs, handshakeVars, childVars, physicalGeneration,
                   deadlineRetirable, inputVars, historyVars>>

(* A context that ends before the bytes are written, or while the response *)
(* is awaited, leaves the slot to the processor's cleanup.                 *)
DeadlineEnds(c) ==
    /\ pc[c] \in {"connected", "writing", "reading"} /\ expired[c]
    /\ Goto(c, "failing")
    /\ UNCHANGED <<holdVars, generation, tableVars, handshakeVars, childVars,
                   physicalGeneration, deadlineRetirable, inputVars, historyVars>>

(* The pipes were closed or the child replaced since Connect. *)
WriteFails(c) ==
    /\ pc[c] = "writing" /\ ~Usable(c)
    /\ ResetHandshake(c) /\ release(c)
    /\ Goto(c, "returned")
    /\ UNCHANGED <<generation, tableVars, childVars, physicalGeneration,
                   deadlineRetirable, inputVars, answer, early, notified>>

(* The child has a request: it now owes a response under the wire ID.      *)
WriteRequest(c) ==
    /\ pc[c] = "writing" /\ c \in Requests /\ Usable(c) /\ ~expired[c]
    /\ outstanding' = outstanding \cup {[from |-> c, id |-> expectedID[c]]}
    /\ writeCompleted' = [writeCompleted EXCEPT ![c] = TRUE]
    /\ IF c \in Initializes
       THEN ResetHandshake(c) /\ handshake' = "none" /\ notified' = 0
       ELSE UNCHANGED <<handshakeVars, handshake, notified>>
    /\ early' = IF c \in Legacy /\ handshake # "ready" THEN early \cup {c} ELSE early
    /\ Goto(c, "reading")
    /\ UNCHANGED <<lifecycleSlot, lockHeld, expectedID, generation, tableVars, gen, active,
                   pipes, incoming, chatter, physicalGeneration, deadlineRetirable,
                   inputVars, answer>>

(* notifications/initialized reaches the child. *)
ChildInitialized ==
    /\ handshake' = IF handshake = "answered" THEN "ready" ELSE handshake
    /\ notified' = notified + 1
    /\ initializationReady' = initializeSucceeded

WriteNotice(c) ==
    /\ pc[c] = "writing" /\ c \in Notices /\ Usable(c) /\ ~expired[c]
    /\ ChildInitialized
    /\ deadlineRetirable' = [deadlineRetirable EXCEPT ![c] = TRUE]
    /\ release(c) /\ Goto(c, "returned")
    /\ UNCHANGED <<generation, tableVars, initializeSucceeded, initializedNotification,
                   gen, active, pipes, incoming, outstanding, chatter,
                   physicalGeneration, inputVars, answer, early>>

----------------------------------------------------------------------------
(* Read, and what the processor does with the message. *)

(* shouldDropRetiredMessage: the late response of a retired request, and,  *)
(* while one may still come, what the child says of its own accord.        *)
DropRetired(c) ==
    LET m == Head(incoming) IN
    /\ pc[c] = "reading" /\ Usable(c) /\ incoming # <<>>
    /\ IF m.type = "response" THEN m.id \in retiredResponseIDs ELSE retiredResponseIDs # {}
    /\ incoming' = Tail(incoming)
    /\ retiredResponseIDs' = retiredResponseIDs \ {m.id}
    /\ UNCHANGED <<holdVars, generation, nextAliasedID, handshakeVars, pc, gen, active,
                   pipes, outstanding, handshake, chatter, physicalGeneration,
                   deadlineRetirable, inputVars, historyVars>>

(* A message that is passed on to the processor. *)
Receives(c, m) ==
    /\ pc[c] = "reading" /\ Usable(c) /\ incoming # <<>> /\ m = Head(incoming)
    /\ IF m.type = "response" THEN m.id \notin retiredResponseIDs ELSE retiredResponseIDs = {}
    /\ incoming' = Tail(incoming)
    /\ UNCHANGED <<generation, tableVars, gen, active, pipes, outstanding, handshake,
                   chatter, physicalGeneration, deadlineRetirable, inputVars, early, notified>>

ForwardNotification(c) == \E m \in Range(incoming) :
    /\ m.type = "notification" /\ Receives(c, m)
    /\ UNCHANGED <<holdVars, handshakeVars, pc, answer>>

(* The response of the command: an initialize that succeeded is remembered *)
(* and, with the shim, completed before the slot is given back.            *)
ReadResponse(c) == \E m \in Range(incoming) :
    /\ m.type = "response" /\ m.id = expectedID[c] /\ Receives(c, m)
    /\ answer' = [answer EXCEPT ![c] = m.from]
    /\ initializeSucceeded' = (initializeSucceeded \/ (c \in Initializes /\ m.ok))
    /\ IF EnsureInitialized /\ c \in Initializes /\ m.ok
       THEN UNCHANGED holdVars /\ Goto(c, "ensuring")
       ELSE release(c) /\ Goto(c, "done")
    /\ UNCHANGED <<initializationReady, initializedNotification>>

(* A response to nothing gives the slot back, a request of the child does  *)
(* not; the processor reports a protocol failure and closes.               *)
ProtocolFailure(c) == \E m \in Range(incoming) :
    /\ m.type = "request" \/ (m.type = "response" /\ m.id # expectedID[c])
    /\ Receives(c, m)
    /\ IF m.type = "response" THEN release(c) ELSE UNCHANGED holdVars
    /\ Goto(c, "failing")
    /\ UNCHANGED <<handshakeVars, answer>>

ReadFails(c) ==
    /\ pc[c] = "reading" /\ ~Usable(c)
    /\ IF currentGeneration(c)
       THEN resetInitialization /\ UNCHANGED initializedNotification
       ELSE UNCHANGED handshakeVars
    /\ release(c)
    /\ Goto(c, "failing")
    /\ UNCHANGED <<generation, tableVars, childVars, physicalGeneration,
                   deadlineRetirable, inputVars, answer, early, notified>>

(* The connection's TTL, unlike the deadline, is not retired but closed.   *)
ConnectionTTL(c) ==
    /\ pc[c] = "reading"
    /\ Goto(c, "closing")
    /\ UNCHANGED <<holdVars, generation, tableVars, handshakeVars, childVars,
                   physicalGeneration, deadlineRetirable, inputVars, answer, early, notified>>

(* writeInitializedNotification, detached from the command's deadline.     *)
EnsureNotified(c) ==
    /\ pc[c] = "ensuring" /\ Usable(c)
    /\ ChildInitialized
    /\ initializedNotification' = TRUE
    /\ release(c) /\ Goto(c, "done")
    /\ UNCHANGED <<generation, tableVars, initializeSucceeded, gen, active, pipes, incoming,
                   outstanding, chatter, physicalGeneration, deadlineRetirable, inputVars,
                   answer, early>>

EnsureFails(c) ==
    /\ pc[c] = "ensuring" /\ ~Usable(c)
    /\ resetInitialization
    /\ release(c)
    /\ answer' = [answer EXCEPT ![c] = NoCommand]
    /\ Goto(c, "failing")
    /\ UNCHANGED <<generation, tableVars, initializedNotification, childVars,
                   physicalGeneration, deadlineRetirable, inputVars, early, notified>>

----------------------------------------------------------------------------
(* Cleanup. *)

(* beginDeadlineRetirement and retireResponseID succeed. *)
Retirable(c) ==
    /\ expired[c] /\ currentGeneration(c)
    /\ IF lockHeld[c]
       THEN writeCompleted[c] => c \notin Initializes /\ CanRetire(expectedID[c])
       ELSE deadlineRetirable[c]

NeedsCleanup(c) == pc[c] = "failing" \/ (pc[c] = "returned" /\ expired[c])

\* mutant: the ID is recorded and the slot never released
RetireKeepsSlot(c) ==
    /\ NeedsCleanup(c) /\ Retirable(c)
    /\ retiredResponseIDs' = IF writeCompleted[c]
                             THEN retiredResponseIDs \cup {expectedID[c]}
                             ELSE retiredResponseIDs
    /\ Goto(c, "done")
    /\ UNCHANGED <<holdVars, generation, nextAliasedID, handshakeVars, childVars,
                   physicalGeneration, deadlineRetirable, inputVars, historyVars>>

(* RetireResponseDeadline: the ID is recorded before the slot is released. *)
RetireResponseDeadline(c) ==
    /\ NeedsCleanup(c) /\ Retirable(c)
    /\ retiredResponseIDs' = IF writeCompleted[c]
                             THEN retiredResponseIDs \cup {expectedID[c]}
                             ELSE retiredResponseIDs
    /\ release(c) /\ Goto(c, "done")
    /\ UNCHANGED <<generation, nextAliasedID, handshakeVars, childVars,
                   physicalGeneration, deadlineRetirable, inputVars, historyVars>>

Close(c) ==
    /\ (NeedsCleanup(c) /\ ~Retirable(c)) \/ pc[c] = "closing"
    /\ ResetHandshake(c) /\ ClosePipes(c) /\ release(c)
    /\ Goto(c, "done")
    /\ UNCHANGED <<generation, tableVars, gen, active, handshake, chatter,
                   physicalGeneration, deadlineRetirable, inputVars, historyVars>>

(* Write's result is posted: nothing to clean up. *)
Return(c) ==
    /\ pc[c] = "returned" /\ ~expired[c]
    /\ Goto(c, "done")
    /\ UNCHANGED <<holdVars, generation, tableVars, handshakeVars, childVars,
                   physicalGeneration, deadlineRetirable, inputVars, historyVars>>

DeadlinePasses(c) ==
    /\ pc[c] # "done" /\ ~expired[c]
    /\ expired' = [expired EXCEPT ![c] = TRUE]
    /\ UNCHANGED <<holdVars, generation, tableVars, handshakeVars, pc, childVars,
                   physicalGeneration, deadlineRetirable, callerID, historyVars>>

(* The command set is finite here; the binding itself never stops.         *)
Quiet == (\A c \in Commands : pc[c] = "done") /\ UNCHANGED vars

Child ==
    \/ ChildLost
    \/ ChildRestarted
    \/ \E r \in outstanding, ok \in BOOLEAN : ChildAnswers(r, ok)
    \/ \E m \in Unsolicited : ChildSpeaks(m)

Command(c) ==
    \/ GiveUp(c) \/ AcquireSlot(c) \/ ConnectFails(c) \/ BaseConnect(c) \/ Adopt(c)
    \/ WriteLocally(c) \/ BeginWrite(c) \/ WriteFails(c) \/ WriteRequest(c) \/ WriteNotice(c)
    \/ DropRetired(c) \/ ForwardNotification(c) \/ ReadResponse(c) \/ ProtocolFailure(c)
    \/ ReadFails(c) \/ DeadlineEnds(c) \/ EnsureNotified(c) \/ EnsureFails(c)
    \/ RetireResponseDeadline(c) \/ Close(c) \/ Return(c)

Next ==
    \/ Child
    \/ \E c \in Commands : Command(c) \/ ConnectionTTL(c) \/ DeadlinePasses(c)
    \/ Quiet

(* A worker goroutine that can move does move, and a clock reaches every   *)
(* deadline.  Nothing is assumed of the child: it may never answer.        *)
Fairness == \A c \in Commands : WF_vars(Command(c)) /\ WF_vars(DeadlinePasses(c))

Spec == Init /\ [][Next]_vars
FairSpec == Spec /\ Fairness

----------------------------------------------------------------------------
Places == {"polled", "connecting", "adopting", "connected", "writing", "reading",
           "ensuring", "returned", "failing", "closing", "done"}
Messages == [type : {"response", "notification", "request"}, id : Nat,
             from : Commands \cup {NoCommand}, ok : BOOLEAN]

(* Type invariant; the table of retired IDs never passes its limit.        *)
TypeOK ==
    /\ lifecycleSlot \in BOOLEAN /\ generation \in 0..MaxGen
    /\ retiredResponseIDs \subseteq Nat
    /\ Cardinality(retiredResponseIDs) <= maxRetiredResponseIDs
    /\ nextAliasedID \in Nat
    /\ initializeSucceeded \in BOOLEAN /\ initializationReady \in BOOLEAN
    /\ initializedNotification \in BOOLEAN
    /\ gen \in 1..MaxGen /\ active \in BOOLEAN /\ pipes \in BOOLEAN
    /\ incoming \in Seq(Messages) /\ outstanding \subseteq [from : Requests, id : Nat]
    /\ handshake \in {"none", "answered", "ready"} /\ chatter \in 0..MaxChatter
    /\ pc \in [Commands -> Places] /\ lockHeld \in [Commands -> BOOLEAN]
    /\ physicalGeneration \in [Commands -> 0..MaxGen] /\ expectedID \in [Commands -> Nat]
    /\ writeCompleted \in [Commands -> BOOLEAN]
    /\ deadlineRetirable \in [Commands -> BOOLEAN]
    /\ callerID \in [Commands -> IDs] /\ expired \in [Commands -> BOOLEAN]
    /\ answer \in [Commands -> Commands \cup {NoCommand}]
    /\ early \subseteq Commands /\ notified \in Nat

(* The commands there are. *)
Everyone == DOMAIN pc

(* Who owns the request lifecycle: a connection whose lockHeld is set, or  *)
(* a Connect between acquireLifecycle and the connection it returns.       *)
Holds(c) == lockHeld[c] \/ pc[c] \in {"connecting", "adopting"}

(* Exactly the owner keeps the slot full: two lifecycles never overlap,    *)
(* and release never empties a slot that another connection filled, or     *)
(* blocks on an empty one.  While it owns the slot a connection is of the  *)
(* generation the transport has adopted.                                   *)
OneLifecycle ==
    /\ lifecycleSlot <=> \E c \in Everyone : Holds(c)
    /\ \A c, d \in Everyone : Holds(c) /\ Holds(d) => c = d
    /\ \A c \in Everyone : lockHeld[c] => currentGeneration(c)

(* The response the processor posts for a command is the child's answer to *)
(* that command's own request, whatever IDs other callers used, however    *)
(* late earlier answers come, and across child replacements.               *)
OwnResponse == \A c \in Everyone : answer[c] \in {c, NoCommand}

(* The response IDs that may still arrive on the open pipes. *)
Owed == outstanding \cup {[from |-> m.from, id |-> m.id] :
                             m \in {m \in Range(incoming) : m.from # NoCommand}}

(* Why OwnResponse holds: on the adopted child every response that can     *)
(* still arrive is either the lifecycle owner's, or is retired; no two of  *)
(* them share an ID; and every retired ID still has its response to come,  *)
(* so the child's own messages are not dropped longer than needed.         *)
OwedIsExpectedOrRetired ==
    generation = gen /\ pipes =>
        /\ \A r \in Owed : \/ r.id \in retiredResponseIDs
                           \/ /\ lockHeld[r.from] /\ writeCompleted[r.from]
                              /\ expectedID[r.from] = r.id
        /\ \A q, r \in Owed : q.id = r.id => q = r
        /\ \A id \in retiredResponseIDs : \E r \in Owed : r.id = id
        /\ \A c \in Everyone : lockHeld[c] => expectedID[c] \notin retiredResponseIDs

(* A command that is answered is answered by the child's response to its   *)
(* own request: lifecycles do not overlap, and every response still to     *)
(* come is either the owner's or retired.                                  *)
AnswerIsOwn == OwnResponse /\ OneLifecycle /\ OwedIsExpectedOrRetired

(* A legacy operational request reaches the child only after that child    *)
(* answered initialize and received notifications/initialized: readiness   *)
(* is never carried over from a child that was replaced, a handshake that  *)
(* was restarted or one that failed.                                       *)
GuardedUntilReady == early = {}

(* With the shim, the child gets notifications/initialized at most once    *)
(* per initialize, whether or not the caller sends its own.                *)
AtMostOneInitialized == EnsureInitialized => notified <= 1

(* Every command leaves the binding, and so the slot is free again, even   *)
(* if the child never answers anyone.                                      *)
CommandsFinish == <>[](\A c \in Commands : pc[c] = "done" /\ ~lifecycleSlot)
============================================================================
