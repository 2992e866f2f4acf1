------------------------------ MODULE AdminLogs ------------------------------
(***************************************************************************)
(* The in-memory log buffer behind the admin UI (pkg/adminui): a fixed ring *)
(* that every logger writes to, live streams that are fed without ever      *)
(* blocking a logger, and the export that freezes a time window of the ring *)
(* into an archive.                                                         *)
(*                                                                          *)
(* A record's sequence number is drawn before the buffer's mutex is taken,  *)
(* so a writer is two steps: Draw and Append.  Everything under the mutex   *)
(* is one step.  Time is an abstract clock that moves between steps.        *)
(***************************************************************************)
EXTENDS Naturals, Sequences, SequencesExt, FiniteSets

CONSTANTS
  Writers,     \* goroutines that log
  Streams,     \* requests to /api/logs/stream
  capacity,    \* events the ring holds
  StreamBuf,   \* defaultSubscriberBuf
  MaxLog,      \* bound: records logged in one behaviour
  MaxClock,    \* bound: clock ticks
  Window       \* the export window, in ticks

VARIABLES
  clock,       \* time.Now()
  nextSeq,     \* LogBuffer.nextSeq
  writer,      \* writer -> the event it holds outside the mutex, or Idle
  ring, start, size,
  subs,        \* streams registered in LogBuffer.subs
  chan,        \* stream -> its buffered channel
  stream,      \* stream -> "idle", "open", "done"; a request that ended is "gone"
  shutdown,    \* the OnStop hook has cancelled streamCtx
  export,      \* the export in progress; at: what was logged when it read the ring
  logged       \* history: every event in the order it was appended

vars == <<clock, nextSeq, writer, ring, start, size, subs, chan, stream,
          shutdown, export, logged>>

Idle == [seq |-> 0, time |-> 0]

(* NewLogBufferWithCapacity, newConfiguredLogBuffer: an empty ring. *)
Init ==
  /\ clock = 1 /\ nextSeq = 0
  /\ writer = [w \in Writers |-> Idle]
  /\ ring = [i \in 0..(capacity - 1) |-> Idle]
  /\ start = 0 /\ size = 0
  /\ subs = {}
  /\ chan = [s \in Streams |-> <<>>]
  /\ stream = [s \in Streams |-> "idle"]
  /\ shutdown = FALSE
  /\ export = [step |-> "idle", events |-> <<>>, now |-> 0, at |-> 0, files |-> {}, count |-> 0]
  /\ logged = <<>>

-----------------------------------------------------------------------------
(* Handle, before the mutex: the record already carries its time. *)
Draw(w) ==
  /\ writer[w] = Idle /\ nextSeq < MaxLog
  /\ nextSeq' = nextSeq + 1
  /\ writer' = [writer EXCEPT ![w] = [seq |-> nextSeq + 1, time |-> clock]]
  /\ UNCHANGED <<clock, ring, start, size, subs, chan, stream, shutdown, export, logged>>

appendLockedInPlace(ev) ==
  IF size < capacity
    THEN /\ ring' = [ring EXCEPT ![(start + size) % capacity] = ev]
         /\ size' = size + 1
         /\ start' = start
    ELSE ring' = [ring EXCEPT ![start] = ev] /\ UNCHANGED <<start, size>>

(* appendLocked: fill a free slot, or overwrite the oldest and move start. *)
appendLocked(ev) ==
  IF size < capacity
    THEN /\ ring' = [ring EXCEPT ![(start + size) % capacity] = ev]
         /\ size' = size + 1
         /\ start' = start
    ELSE /\ ring' = [ring EXCEPT ![start] = ev]
         /\ start' = (start + 1) % capacity
         /\ size' = size

(* The non-blocking send to each subscriber: a full channel loses the event. *)
broadcast(ev) ==
  [s \in Streams |-> IF s \in subs /\ Len(chan[s]) < StreamBuf
                       THEN Append(chan[s], ev) ELSE chan[s]]

(* Handle, under the mutex. *)
Handle(w) ==
  /\ writer[w] # Idle
  /\ appendLocked(writer[w])
  /\ chan' = broadcast(writer[w])
  /\ logged' = Append(logged, writer[w])
  /\ writer' = [writer EXCEPT ![w] = Idle]
  /\ UNCHANGED <<clock, nextSeq, subs, stream, shutdown, export>>

-----------------------------------------------------------------------------
(* Recent: the newest `limit` events, oldest first; a limit of 0 or less is *)
(* replaced by a default no smaller than this model's capacity.             *)
Recent(limit) ==
  LET asked == IF limit <= 0 \/ limit > capacity THEN capacity ELSE limit
      n     == IF asked > size THEN size ELSE asked
      first == (start + size - n) % capacity
  IN  [i \in 1..n |-> ring[(first + i - 1) % capacity]]

(* Since: drops events older than the window from the whole ring; a record *)
(* whose clock is unset (time 0) never reaches an export.                   *)
Since(since, limit) ==
  SelectSeq(Recent(limit), LAMBDA ev : ev.time # 0 /\ ev.time >= since)

-----------------------------------------------------------------------------
(* handleLogsStream: registers its channel, then loops. *)
Subscribe(s) ==
  /\ stream[s] = "idle"
  /\ stream' = [stream EXCEPT ![s] = "open"]
  /\ subs' = subs \union {s}
  /\ UNCHANGED <<clock, nextSeq, writer, ring, start, size, chan, shutdown, export, logged>>

(* The browser goes away: the request's context is cancelled. *)
Disconnect(s) ==
  /\ stream[s] = "open"
  /\ stream' = [stream EXCEPT ![s] = "gone"]
  /\ UNCHANGED <<clock, nextSeq, writer, ring, start, size, subs, chan, shutdown, export, logged>>

(* MergeContexts: the stream ends with its request or with the admin UI. *)
cancelled(s) == stream[s] = "gone" \/ shutdown

(* The goroutine of Subscribe: unregisters and closes under the mutex. *)
Unsubscribe(s) ==
  /\ s \in subs /\ cancelled(s)
  /\ subs' = subs \ {s}
  /\ UNCHANGED <<clock, nextSeq, writer, ring, start, size, chan, stream, shutdown, export, logged>>

(* One turn of the handler's select: with both ready either may win, so a  *)
(* cancelled stream may still write what is buffered.                       *)
StreamEvent(s) ==
  /\ stream[s] \in {"open", "gone"} /\ chan[s] # <<>>
  /\ chan' = [chan EXCEPT ![s] = Tail(@)]
  /\ UNCHANGED <<clock, nextSeq, writer, ring, start, size, subs, stream, shutdown, export, logged>>

(* The handler returns: its context is done, or the closed channel is empty. *)
StreamReturn(s) ==
  /\ stream[s] \in {"open", "gone"}
  /\ cancelled(s) \/ (s \notin subs /\ chan[s] = <<>>)
  /\ stream' = [stream EXCEPT ![s] = "done"]
  /\ UNCHANGED <<clock, nextSeq, writer, ring, start, size, subs, chan, shutdown, export, logged>>

(* registerRoutes' OnStop hook. *)
OnStop ==
  /\ ~shutdown /\ shutdown' = TRUE
  /\ UNCHANGED <<clock, nextSeq, writer, ring, start, size, subs, chan, stream, export, logged>>

-----------------------------------------------------------------------------
(* handleLogsExport fixes its window, reads the ring, then scrapes the      *)
(* metrics, then builds the archive from what it read.  A failed scrape     *)
(* fails the export.                                                        *)
ExportBegin ==
  /\ export.step = "idle" /\ export' = [export EXCEPT !.step = "begun", !.now = clock]
  /\ UNCHANGED <<clock, nextSeq, writer, ring, start, size, subs, chan, stream, shutdown, logged>>

ExportRead ==
  /\ export.step = "begun"
  /\ export' = [export EXCEPT !.step = "read", !.at = Len(logged),
       !.events = Since(IF export.now > Window THEN export.now - Window ELSE 0, capacity)]
  /\ UNCHANGED <<clock, nextSeq, writer, ring, start, size, subs, chan, stream, shutdown, logged>>

(* callMetricsSnapshot: no exporter, a snapshot, or a status that is not OK. *)
ExportMetrics(outcome) ==
  /\ export.step = "read"
  /\ export' = IF outcome = "error"
                 THEN [export EXCEPT !.step = "failed"]
                 ELSE [export EXCEPT !.step = "scraped",
                         !.files = IF outcome = "body" THEN {"metrics"} ELSE {}]
  /\ UNCHANGED <<clock, nextSeq, writer, ring, start, size, subs, chan, stream, shutdown, logged>>

(* buildLogsArchive: the manifest counts the events the archive holds and   *)
(* lists the metrics file only when there is one.                           *)
buildLogsArchive ==
  /\ export.step = "scraped"
  /\ export' = [export EXCEPT !.step = "built", !.count = Len(export.events),
                  !.files = @ \union {"manifest", "readme", "runtime", "logs", "admin"}]
  /\ UNCHANGED <<clock, nextSeq, writer, ring, start, size, subs, chan, stream, shutdown, logged>>

Tick ==
  /\ clock < MaxClock /\ clock' = clock + 1
  /\ UNCHANGED <<nextSeq, writer, ring, start, size, subs, chan, stream, shutdown, export, logged>>

-----------------------------------------------------------------------------
StreamStep(s) == Unsubscribe(s) \/ StreamEvent(s) \/ StreamReturn(s)

Next ==
  \/ \E w \in Writers : Draw(w) \/ Handle(w)
  \/ \E s \in Streams : Subscribe(s) \/ Disconnect(s) \/ StreamStep(s)
  \/ ExportBegin \/ ExportRead \/ buildLogsArchive
  \/ \E outcome \in {"none", "body", "error"} : ExportMetrics(outcome)
  \/ OnStop \/ Tick

Spec == Init /\ [][Next]_vars

-----------------------------------------------------------------------------
(* Whatever the number of events logged and whoever logged them, the ring   *)
(* read at any limit (Recent, behind /api/logs and the export) is exactly   *)
(* the newest events in the order they were appended.                       *)
RecentIsNewest ==
  \A limit \in 0..(capacity + 1) :
    LET n    == IF limit = 0 THEN capacity ELSE limit
        held == IF n > capacity THEN capacity ELSE n
        k    == IF Len(logged) < held THEN Len(logged) ELSE held
    IN  Recent(limit) = SubSeq(logged, Len(logged) - k + 1, Len(logged))

(* An archive holds exactly the events of its window that were among the    *)
(* newest the ring could hold when the export read it, in the order they    *)
(* were appended, whatever loggers overwrite while metrics are scraped.     *)
(* The window has no upper end: an event made after the end the manifest    *)
(* states, and logged before the ring was read, is exported too.            *)
ExportIsConsistent ==
  export.step = "built" =>
    LET gone == IF export.at > capacity THEN export.at - capacity ELSE 0 IN
    /\ export.count = Len(export.events)
    /\ export.events = SelectSeq(SubSeq(logged, gone + 1, export.at),
                                 LAMBDA ev : ev.time + Window >= export.now)

(* Numbers are drawn before the mutex is taken, so events are not appended  *)
(* in their order; but every number drawn is appended once or on its way,   *)
(* and the events that come after one they were numbered before are fewer   *)
(* than the writers.                                                        *)
NumbersAreKept ==
  /\ \A n \in 1..nextSeq :
       Cardinality({i \in DOMAIN logged : logged[i].seq = n})
         + Cardinality({w \in Writers : writer[w].seq = n}) = 1
  /\ \A i \in DOMAIN logged :
       Cardinality({j \in (i + 1)..Len(logged) : logged[j].seq < logged[i].seq}) < Cardinality(Writers)

=============================================================================
