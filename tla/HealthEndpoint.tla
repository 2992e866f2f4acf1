--------------------------- MODULE HealthEndpoint ---------------------------
(***************************************************************************)
(* The health listener of a runtime (pkg/runtimehealth): processes that    *)
(* share one Unix-socket path and one URL file start, crash and stop, and  *)
(* a serving process answers GET /health.  Every system call on the shared *)
(* paths is a step of its own; a process is one run of the program.        *)
(***************************************************************************)
EXTENDS Integers, Sequences, FiniteSets, FiniteSetsExt

CONSTANTS Processes,
          Names,         \* health components, in name order
          Sizes,         \* encoded sizes a component's details may have
          BareSize,      \* encoded size of a component without its details
          maxComponentBytes, maxAggregateBytes

VARIABLES pc,          \* pc[p]: the next system call of process p
          listening,   \* processes with an open listener
          socket,      \* what is at the socket path
          met,         \* history: met[p] was listening when p looked at the path
          temp,        \* temp[p]: p's temporary URL file
          urlFile,     \* the URL file
          asked,       \* the sizes of the last aggregate request
          answer       \* and its answer

vars == << pc, listening, socket, met, temp, urlFile, asked, answer >>
files == << socket, urlFile >>
http == << asked, answer >>

None == [kind |-> "none", owner |-> "none"]
File == [kind |-> "file", owner |-> "none"]
Bound(p) == [kind |-> "socket", owner |-> p]
NoURL == [owner |-> "none", whole |-> TRUE]
NoAnswer == [status |-> 0, kept |-> {}, size |-> 0]

Init ==
  /\ pc = [p \in Processes |-> "idle"]
  /\ listening = {}
  /\ socket \in {None, File}
  /\ met = [p \in Processes |-> {}]
  /\ temp = [p \in Processes |-> "none"]
  /\ urlFile = NoURL
  /\ asked = [n \in DOMAIN Names |-> 0] /\ answer = NoAnswer

Goto(p, to) == pc' = [pc EXCEPT ![p] = to]

Start(p) ==
  /\ pc[p] = "idle"
  /\ Goto(p, "stat")
  /\ UNCHANGED << listening, met, temp, files, http >>

(***************************************************************************)
(* removeStaleUnixSocket and listenHealth.                                 *)
(***************************************************************************)
Stat(p) ==
  /\ pc[p] = "stat"
  /\ Goto(p, CASE socket.kind = "none" -> "bind"
               [] socket.kind = "file" -> "failed"
               [] OTHER -> "dial")
  /\ met' = [met EXCEPT ![p] = listening]
  /\ UNCHANGED << listening, temp, files, http >>

\* A dial succeeds while the owner's listener is open; refused or absent
\* means stale.  Any other error ends the start and leaves the socket.
accepting == socket.kind = "socket" /\ socket.owner \in listening

Dial(p) ==
  /\ pc[p] = "dial"
  /\ IF accepting THEN Goto(p, "failed") ELSE Goto(p, "remove") \/ Goto(p, "dial_failed")
  /\ UNCHANGED << listening, met, temp, files, http >>

RemoveStaleLeaves(p) ==
  /\ pc[p] = "remove"
  /\ Goto(p, "bind")
  /\ UNCHANGED << listening, met, temp, files, http >>

RemoveStale(p) ==
  /\ pc[p] = "remove"
  /\ socket' = None
  /\ Goto(p, "bind")
  /\ UNCHANGED << listening, met, temp, urlFile, http >>

\* net.Listen: bind(2) fails on a path that exists, and listen(2) follows.
Bind(p) ==
  /\ pc[p] = "bind"
  /\ IF socket = None THEN socket' = Bound(p) /\ Goto(p, "listen")
                      ELSE UNCHANGED socket /\ Goto(p, "failed")
  /\ UNCHANGED << listening, met, temp, urlFile, http >>

Listen(p) ==
  /\ pc[p] = "listen"
  /\ listening' = listening \cup {p}
  /\ Goto(p, "create_temp")
  /\ UNCHANGED << met, temp, files, http >>

(***************************************************************************)
(* writePrivateURLFile: temporary file, write, rename.  A failure closes   *)
(* the listener and removes the socket.                                    *)
(***************************************************************************)
CreateTemp(p) ==
  /\ pc[p] = "create_temp"
  /\ temp' = [temp EXCEPT ![p] = "empty"]
  /\ Goto(p, "write_temp")
  /\ UNCHANGED << listening, met, files, http >>

WriteTemp(p) ==
  /\ pc[p] = "write_temp"
  /\ temp' = [temp EXCEPT ![p] = "whole"]
  /\ Goto(p, "rename")
  /\ UNCHANGED << listening, met, files, http >>

Rename(p) ==
  /\ pc[p] = "rename"
  /\ urlFile' = [owner |-> p, whole |-> temp[p] = "whole"]
  /\ temp' = [temp EXCEPT ![p] = "none"]
  /\ Goto(p, "serving")
  /\ UNCHANGED << listening, met, socket, http >>

\* Closing a Unix listener unlinks its path, and removeSocket removes what
\* is at the path then: together, whatever is there.
URLFileFails(p) ==
  /\ pc[p] \in {"create_temp", "write_temp", "rename"}
  /\ temp' = [temp EXCEPT ![p] = "none"]
  /\ listening' = listening \ {p}
  /\ socket' = None
  /\ Goto(p, "failed")
  /\ UNCHANGED << met, urlFile, http >>

(***************************************************************************)
(* OnStop: Shutdown, removeURLFile, removeSocket.                          *)
(***************************************************************************)
Shutdown(p) ==
  /\ pc[p] = "serving"
  /\ listening' = listening \ {p}
  /\ socket' = None
  /\ Goto(p, "remove_url")
  /\ UNCHANGED << met, temp, urlFile, http >>

removeURLFile(p) ==
  /\ pc[p] = "remove_url"
  /\ urlFile' = NoURL
  /\ Goto(p, "remove_socket")
  /\ UNCHANGED << listening, met, temp, socket, http >>

removeSocket(p) ==
  /\ pc[p] = "remove_socket"
  /\ socket' = None
  /\ Goto(p, "stopped")
  /\ UNCHANGED << listening, met, temp, urlFile, http >>

Down(p) == pc[p] \in {"idle", "failed", "dial_failed", "stopped", "crashed"}

\* The kernel closes the listener of a process that dies; its files stay.
Crash(p) ==
  /\ ~Down(p)
  /\ listening' = listening \ {p}
  /\ Goto(p, "crashed")
  /\ UNCHANGED << met, temp, files, http >>

(***************************************************************************)
(* GET /health with details.                                               *)
(***************************************************************************)
\* boundedComponent: a snapshot that is too large loses its details.
boundedComponent(size) ==
  IF BareSize + size > maxComponentBytes THEN BareSize ELSE BareSize + size

Total(sizes) == FoldSet(LAMBDA n, sum : sum + sizes[n], 0, DOMAIN sizes)

\* Details are dropped in name order until the whole answer fits.
without(sizes, k) == [n \in DOMAIN sizes |-> IF n <= k THEN BareSize ELSE sizes[n]]

truncated(sizes) ==
  LET fits == { k \in 0..Len(Names) : Total(without(sizes, k)) <= maxAggregateBytes }
  IN IF fits = {} THEN Len(Names) ELSE Min(fits)

ServeHTTP(p) ==
  /\ pc[p] = "serving"
  /\ asked' \in [DOMAIN Names -> Sizes]
  /\ LET sizes == [n \in DOMAIN Names |-> boundedComponent(asked'[n])]
         k == truncated(sizes)
         size == Total(without(sizes, k))
     IN answer' = IF size > maxAggregateBytes
                  THEN [status |-> 500, kept |-> {}, size |-> 0]
                  ELSE [status |-> 200, size |-> size,
                        kept |-> { n \in DOMAIN Names : n > k /\ sizes[n] > BareSize }]
  /\ UNCHANGED << pc, listening, met, temp, files >>

Proceed(p) ==
  \/ Stat(p) \/ Dial(p) \/ RemoveStale(p) \/ Bind(p) \/ Listen(p)
  \/ CreateTemp(p) \/ WriteTemp(p) \/ Rename(p)
  \/ removeURLFile(p) \/ removeSocket(p)

Next ==
  \E p \in Processes :
    \/ Start(p) \/ Proceed(p) \/ URLFileFails(p) \/ Shutdown(p) \/ Crash(p)
    \/ ServeHTTP(p)

Spec == Init /\ [][Next]_vars /\ \A p \in Processes : WF_vars(Proceed(p))

(***************************************************************************)
(* Properties.                                                             *)
(***************************************************************************)
\* A reader of the URL file finds a whole URL or no file, wherever a writer
\* crashed: writePrivateURLFile renames a finished file into place.
URLFileIsWhole == urlFile.whole

\* A socket left by a crash does not keep a later run from serving: a start
\* that nobody disturbs ends up serving, unless a plain file is in the way or
\* the dial fails otherwise than a stale socket makes it fail.
CrashDoesNotBlockRestart ==
  \A p \in Processes :
    (pc[p] = "stat" /\ socket.kind # "file" /\ \A q \in Processes \ {p} : Down(q))
      ~> \/ pc[p] \in {"serving", "crashed", "dial_failed"}
         \/ \E q \in Processes \ {p} : ~Down(q)
         \/ pc[p] = "failed" /\ socket = None

\* An aggregate answer fits its limit, details are dropped only when the answer
\* with one component more would not fit, and /health fails only when even the
\* bare components do not fit.
AnswerFits ==
  /\ answer.status = 500 => Len(Names) * BareSize > maxAggregateBytes
  /\ answer.status = 200 =>
    /\ answer.size <= maxAggregateBytes
    /\ \A n \in DOMAIN Names \ answer.kept :
         \/ BareSize + asked[n] > maxComponentBytes
         \/ asked[n] = 0
         \/ answer.size + asked[n] > maxAggregateBytes
         \/ \E m \in DOMAIN Names : m > n /\ m \notin answer.kept

\* A start takes the path from no process that was listening when it began:
\* removeStaleUnixSocket then finds it accepting, however the starts, stops and
\* crashes of the two interleave.  It says nothing of a process that only bound
\* the path or began to listen in between, nor of what a stop removes.
TakesNoLiveSocket ==
  [][\A p \in Processes :
       pc[p] = "remove" /\ socket' # socket /\ pc'[p] # "remove"
         => socket.owner \notin met[p] \cap listening]_vars
=============================================================================
