-------------------------- MODULE AppServerSession --------------------------
(***************************************************************************)
(* What the admin UI does with a running Codex app-server (pkg/adminui/    *)
(* codex.go over pkg/codexappserver/bridge.go): device-code logins and     *)
(* their cancellation, threads, turns with injected context, the ring of   *)
(* recent events and the event streams.  AppServerBridge has the child's   *)
(* lifecycle; here it is ready.  The account that notifications refresh is *)
(* left out: it is a field of its own, which none of these reads.          *)
(*                                                                         *)
(* A handler's request is answered through its channel by the goroutine    *)
(* that reads the child's stdout, which also applies the notifications in  *)
(* the order they are written; the handler applies its own answer when it  *)
(* next runs.  Logins, threads and turns are named by the handler that     *)
(* asked for them; "none" is also a login of the app-server's own (with an *)
(* API key, say), whose completion names no login.                         *)
(***************************************************************************)
EXTENDS Integers, Sequences, FiniteSets

CONSTANTS
  Handlers,    \* requests to the admin UI
  Scenarios,   \* what they may be: handler -> "login", "cancel", "thread" or "turn"
  Injects,     \* handlers whose request has inject_context
  Streams,     \* requests to the event stream
  HistorySize, \* len(b.eventHistory)
  SubBuffer,   \* the capacity of a subscriber's channel
  MaxEvents    \* bound: events published

(* No login is named "none", and a handler is for one of four operations. *)
ASSUME SessionAssumption ==
  "none" \notin Handlers /\ Scenarios \subseteq [Handlers -> {"login", "cancel", "thread", "turn"}]

None == "none"
NoLogin == [id |-> None, pending |-> FALSE]
NoTurn == [id |-> None, thread |-> None, status |-> None]

VARIABLES
  op,          \* handler -> its operation
  place,       \* handler -> where it is
  arg,         \* handler -> the login or thread id it sends
  answer,      \* handler -> its channel: "none", "result", "error"
  login, thread, turn,          \* of the Bridge; thread has its settings or not
  nameless,    \* history: logins shown when a completion that names none was read
  eventSeq, eventHistory, eventNext, eventCount,
  subscribers, \* streams in b.subscribers
  chan,        \* stream -> [items, closed]
  stream,      \* stream -> "idle", "open", "gone" (its context has ended), "done"
  panicked,    \* a send on a closed channel
  asked,       \* the app-server: requests it has not handled
  out,         \* lines it has written
  logins       \* its logins: id -> "none", "pending", "ended"; that of None has no id

bridge == <<login, thread, turn, nameless>>
events == <<eventSeq, eventHistory, eventNext, eventCount, subscribers, chan, stream, panicked>>
handlers == <<op, place, arg, answer>>
server == <<asked, out, logins>>
sessionVars == <<handlers, bridge, events, server>>

-----------------------------------------------------------------------------
(* publishLocked: the event takes the next number, a slot of the ring, and *)
(* a place in every subscriber's channel that has room.                    *)
publishLocked ==
  /\ eventSeq < MaxEvents
  /\ eventSeq' = eventSeq + 1
  /\ eventHistory' = [eventHistory EXCEPT ![eventNext] = eventSeq']
  /\ eventNext' = (eventNext + 1) % HistorySize
  /\ eventCount' = IF eventCount < HistorySize THEN eventCount + 1 ELSE eventCount
  /\ chan' = [s \in Streams |->
       IF s \in subscribers /\ ~chan[s].closed /\ Len(chan[s].items) < SubBuffer
         THEN [chan[s] EXCEPT !.items = Append(@, eventSeq')] ELSE chan[s]]
  /\ panicked' = (panicked \/ \E s \in subscribers : chan[s].closed)
  /\ UNCHANGED <<subscribers, stream>>

RecentEvents(limit) ==
  LET n == IF limit <= 0 \/ limit > eventCount THEN eventCount ELSE limit
      first == eventCount - n
  IN [i \in 1..n |-> eventHistory[(eventNext - eventCount + (first + i - 1) + HistorySize) % HistorySize]]

-----------------------------------------------------------------------------
(* request: written to the child; the answer comes through the channel. *)
request(h, stage, about) ==
  /\ place' = [place EXCEPT ![h] = stage] /\ arg' = [arg EXCEPT ![h] = about]
  /\ answer' = [answer EXCEPT ![h] = None]
  /\ asked' = asked \cup {[handler |-> h, method |-> stage, about |-> about]}
ends(h, how) == place' = [place EXCEPT ![h] = how] /\ answer' = [answer EXCEPT ![h] = None]
fails(h) == ends(h, "failed") /\ UNCHANGED <<arg, asked>>

(* handleCodexLoginDevice, handleCodexLoginCancel (without a body: the     *)
(* login shown now, or an error), handleCodexThreadStart and               *)
(* handleCodexTurnStart (without a thread id: the thread shown now), up to *)
(* their first request.                                                    *)
BeginHandler(h) ==
  /\ place[h] = "begin"
  /\ CASE op[h] = "login"  -> request(h, "login", None)
       [] op[h] = "cancel" -> IF login.id = None THEN fails(h)
                              ELSE request(h, "cancel", login.id)
       [] op[h] = "thread" -> request(h, "thread", None)
       [] op[h] = "turn"   -> IF thread.id = None THEN fails(h)
                              ELSE request(h, IF h \in Injects THEN "inject" ELSE "turn", thread.id)
  /\ UNCHANGED <<op, bridge, events, out, logins>>

(* The handler's context ends while it waits: the app-server may still do *)
(* what it was asked to.                                                  *)
Expires(h) ==
  /\ place[h] \in {"login", "cancel", "thread", "inject", "turn"}
  /\ ends(h, "failed")
  /\ UNCHANGED <<op, arg, bridge, events, server>>

(* StartDeviceCodeLogin stores the login it was given. *)
LoginAnswered(h) ==
  /\ place[h] = "login" /\ answer[h] = "result"
  /\ login' = [id |-> h, pending |-> TRUE] /\ ends(h, "done")
  /\ UNCHANGED <<op, arg, thread, turn, nameless, events, server>>

cancelsShown(id) == login' = [login EXCEPT !.pending = FALSE]

(* CancelLogin: the login shown may be another one by now. *)
cancels(id) == login' = IF login.id = id THEN [login EXCEPT !.pending = FALSE] ELSE login

CancelAnswered(h) ==
  /\ place[h] = "cancel" /\ answer[h] = "result"
  /\ cancels(arg[h]) /\ ends(h, "done")
  /\ UNCHANGED <<op, arg, thread, turn, nameless, events, server>>

(* StartThread stores the thread with the settings it runs under and drops *)
(* the turn; the handler then injects the tunnel's context if asked to.    *)
ThreadAnswered(h) ==
  /\ place[h] = "thread" /\ answer[h] = "result"
  /\ thread' = [id |-> h, settings |-> TRUE] /\ turn' = NoTurn
  /\ IF h \in Injects THEN request(h, "inject", h)
     ELSE ends(h, "done") /\ UNCHANGED <<arg, asked>>
  /\ UNCHANGED <<op, login, nameless, events, out, logins>>

(* InjectThreadItems answered: a thread handler is done, a turn handler goes on. *)
InjectAnswered(h) ==
  /\ place[h] = "inject" /\ answer[h] = "result"
  /\ IF op[h] = "turn" THEN request(h, "turn", arg[h])
     ELSE ends(h, "done") /\ UNCHANGED <<arg, asked>>
  /\ UNCHANGED <<op, bridge, events, out, logins>>

TurnAnswered(h) ==
  /\ place[h] = "turn" /\ answer[h] = "result"
  /\ turn' = IF turn.id = h /\ turn.status = "completed" THEN turn
             ELSE [id |-> h, thread |-> arg[h], status |-> "inProgress"]
  /\ ends(h, "done")
  /\ UNCHANGED <<op, arg, login, thread, nameless, events, server>>

Refused(h) ==   \* an error answer
  /\ answer[h] = "error" /\ ends(h, "failed")
  /\ UNCHANGED <<op, arg, bridge, events, server>>

-----------------------------------------------------------------------------
(* account/login/completed clears the login it names or, when it names *)
(* none, the one shown.                                                *)
completes(id) ==
  login' = IF login.id # None /\ id \in {None, login.id} THEN [login EXCEPT !.pending = FALSE]
           ELSE login

(* handleEnvelope: the notification changes what the bridge shows and is   *)
(* published as an event.                                                  *)
notified(m) ==
  CASE m.kind = "login/completed" ->
         /\ completes(m.id) /\ UNCHANGED <<thread, turn>>
         /\ nameless' = IF m.id = None THEN nameless \cup {login.id} ELSE nameless
    [] m.kind = "thread/started" ->
         /\ thread' = [id |-> m.id, settings |-> FALSE] /\ turn' = NoTurn
         /\ UNCHANGED <<login, nameless>>
    [] m.kind \in {"turn/started", "turn/completed"} ->
         /\ turn' = [id |-> m.id, thread |-> m.thread,
                     status |-> IF m.kind = "turn/started" THEN "inProgress" ELSE "completed"]
         /\ UNCHANGED <<login, thread, nameless>>

ReadLine ==
  /\ out # << >> /\ out' = Tail(out)
  /\ LET m == Head(out) IN
     IF m.kind \in {"result", "error"}
       THEN /\ answer' = IF place[m.id] \in {"done", "failed"} THEN answer
                         ELSE [answer EXCEPT ![m.id] = m.kind]
            /\ UNCHANGED <<bridge, events>>
       ELSE notified(m) /\ publishLocked /\ UNCHANGED answer
  /\ UNCHANGED <<op, place, arg, asked, logins>>

-----------------------------------------------------------------------------
(* handleCodexEventsStream and Subscribe. *)
Subscribe(s) ==
  /\ stream[s] = "idle" /\ stream' = [stream EXCEPT ![s] = "open"]
  /\ subscribers' = subscribers \cup {s}
  /\ UNCHANGED <<handlers, bridge, eventSeq, eventHistory, eventNext, eventCount,
                 chan, panicked, server>>

leave(s) == subscribers' = subscribers \ {s}

(* The goroutine that Subscribe leaves behind: once the context has ended *)
(* the stream is taken out and its channel closed under one lock.         *)
Unsubscribe(s) ==
  /\ stream[s] \in {"gone", "done"} /\ ~chan[s].closed
  /\ leave(s) /\ chan' = [chan EXCEPT ![s].closed = TRUE]
  /\ UNCHANGED <<handlers, bridge, eventSeq, eventHistory, eventNext, eventCount,
                 stream, panicked, server>>

(* The client goes, or the server shuts down: the merged context ends. *)
StreamGone(s) ==
  /\ stream[s] = "open" /\ stream' = [stream EXCEPT ![s] = "gone"]
  /\ UNCHANGED <<handlers, bridge, eventSeq, eventHistory, eventNext, eventCount,
                 subscribers, chan, panicked, server>>

(* The handler's select: an event is written out, or the context has ended. *)
StreamStep(s) ==
  /\ \/ /\ stream[s] \in {"open", "gone"} /\ chan[s].items # << >>
        /\ chan' = [chan EXCEPT ![s].items = Tail(@)] /\ UNCHANGED stream
     \/ /\ stream[s] = "gone" /\ stream' = [stream EXCEPT ![s] = "done"] /\ UNCHANGED chan
  /\ UNCHANGED <<handlers, bridge, eventSeq, eventHistory, eventNext, eventCount,
                 subscribers, panicked, server>>

-----------------------------------------------------------------------------
(* The app-server takes a request, answers it, and says what follows. *)
line(kind, id, th) == [kind |-> kind, id |-> id, thread |-> th]
result(h) == line("result", h, None)
Serve(r) ==
  /\ asked' = asked \ {r}
  /\ LET h == r.handler IN
     \/ /\ out' = Append(out, line("error", h, None)) /\ UNCHANGED logins
     \/ /\ r.method = "login"
        /\ logins' = [logins EXCEPT ![h] = "pending"] /\ out' = Append(out, result(h))
     \/ /\ r.method = "cancel" /\ logins[r.about] = "pending"
        /\ logins' = [logins EXCEPT ![r.about] = "ended"]
        /\ out' = out \o << line("login/completed", r.about, None), result(h) >>
     \/ /\ r.method = "thread" /\ UNCHANGED logins
        /\ out' = out \o << result(h), line("thread/started", h, None) >>
     \/ /\ r.method = "inject" /\ UNCHANGED logins /\ out' = Append(out, result(h))
     \/ /\ r.method = "turn" /\ UNCHANGED logins
        /\ out' = out \o << result(h), line("turn/started", h, r.about),
                            line("turn/completed", h, r.about) >>
  /\ UNCHANGED <<handlers, bridge, events>>

(* The user finishes a login, or it runs out; the app-server says which, *)
(* unless it has no id.                                                  *)
LoginEnds(id) ==
  /\ logins[id] = "pending" /\ logins' = [logins EXCEPT ![id] = "ended"]
  /\ out' = Append(out, line("login/completed", id, None))
  /\ UNCHANGED <<handlers, bridge, events, asked>>

-----------------------------------------------------------------------------
SessionInit ==
  /\ op \in Scenarios /\ place = [h \in Handlers |-> "begin"] /\ arg = [h \in Handlers |-> None]
  /\ answer = [h \in Handlers |-> None]
  /\ login = NoLogin /\ thread = [id |-> None, settings |-> FALSE] /\ turn = NoTurn
  /\ nameless = {}
  /\ eventSeq = 0 /\ eventHistory = [i \in 0..(HistorySize - 1) |-> 0]
  /\ eventNext = 0 /\ eventCount = 0
  /\ subscribers = {} /\ chan = [s \in Streams |-> [items |-> << >>, closed |-> FALSE]]
  /\ stream = [s \in Streams |-> "idle"] /\ panicked = FALSE
  /\ asked = {} /\ out = << >>
  /\ logins = [id \in Handlers \cup {None} |-> IF id = None THEN "pending" ELSE None]

SessionNext ==
  \/ \E h \in Handlers : \/ BeginHandler(h) \/ Expires(h) \/ LoginAnswered(h) \/ CancelAnswered(h)
                         \/ ThreadAnswered(h) \/ InjectAnswered(h) \/ TurnAnswered(h) \/ Refused(h)
  \/ \E id \in Handlers \cup {None} : LoginEnds(id)
  \/ \E r \in asked : Serve(r)
  \/ \E s \in Streams : Subscribe(s) \/ Unsubscribe(s) \/ StreamGone(s) \/ StreamStep(s)
  \/ ReadLine

SessionSpec == SessionInit /\ [][SessionNext]_sessionVars

-----------------------------------------------------------------------------
(* A login is shown as over only when the app-server has ended that very   *)
(* login, or has announced a completion that names none while it was       *)
(* shown: neither the named completion of another one, nor a cancellation  *)
(* that was sent before a newer login replaced the one it names, ends it   *)
(* in the admin UI.                                                        *)
LoginOutcomeIsOwn ==
  login.id # None /\ ~login.pending => logins[login.id] = "ended" \/ login.id \in nameless

(* Publishing never sends on a closed channel, which would bring the whole *)
(* client down: a stream is taken out of the subscribers before, or as,    *)
(* its channel is closed, whenever its client goes.                        *)
NeverSendsOnClosed == ~panicked

(* RecentEvents answers with the latest events, oldest first and without a *)
(* gap, at every fill of the ring and for every limit.                     *)
RecentEventsAreLatest ==
  \A limit \in 0..(HistorySize + 1) :
    LET r == RecentEvents(limit) IN \A i \in DOMAIN r : r[i] = eventSeq - Len(r) + i

(* A login is shown as over only once the app-server has ended that very   *)
(* login, or announced a completion without naming one while it was shown, *)
(* and no event is sent on a stream's closed channel, which would end the  *)
(* client.                                                                 *)
SessionIsSound == LoginOutcomeIsOwn /\ NeverSendsOnClosed
=============================================================================
