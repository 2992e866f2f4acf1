------------------------ MODULE ProtocolObservation ------------------------
(***************************************************************************)
(* pkg/mcpclient/protocol_observation.go: what GET /health/mcp says of the *)
(* main stdio child.  The forwarding path of the shared stdio binding      *)
(* (serialized_forwarding_transport.go) tells the observation of every     *)
(* request it has written and every message it has read; the supervisor    *)
(* (stdio_command.go) tells it when a child begins and when it is lost.    *)
(* Nothing is ever asked of the child for the observation's sake, so it    *)
(* can only be as good as the order in which it hears of things.           *)
(*                                                                         *)
(* The observation is the record o.  The child serves a tool catalog of    *)
(* several pages that it replaces now and then, announcing each change     *)
(* with notifications/tools/list_changed; catalogs are numbered, across    *)
(* children, in the order they come into force.  Times and reason codes    *)
(* are left out.                                                           *)
(***************************************************************************)
EXTENDS Naturals, FiniteSets, Sequences

CONSTANTS Catalogs,      \* the catalogs in force one after the other, each a sequence of pages
          MaxEpoch, MaxRevision, \* math.MaxUint64, for the epochs and for the catalog revision
          maxObservationPages,
          maxObservationToolNames,
          MaxGen,        \* bound: children started
          MaxRetired     \* bound: requests whose answer is overdue

VARIABLES o,             \* ProtocolObservation
          alive,         \* the child of generation o.gen runs
          catalog,       \* the catalog it serves
          firstCatalog,  \* the catalog it started with
          wire,          \* what it has sent and nobody has read
          asked,         \* requests it has received and not answered
          conn,          \* the logical connection that holds the lifecycle slot
          retired,       \* retiredResponseIDs
          missed         \* a list_changed was dropped unobserved since the last change of child

vars == <<o, alive, catalog, firstCatalog, wire, asked, conn, retired, missed>>

callerIDs == 1..(MaxRetired + 1)
NoInitialize == [ok |-> FALSE, limited |-> FALSE, of |-> 0]
NoDiscover == [ok |-> FALSE, limited |-> FALSE, of |-> 0, requested |-> 0]
NoTools == [ok |-> FALSE, names |-> {}, complete |-> FALSE, partial |-> FALSE, limited |-> FALSE]
NoToken == [gen |-> 0]
NoConn == [at |-> "none"]

----------------------------------------------------------------------------
(* The observation's methods, each as what it makes of the record. *)

resetCatalog(p) ==
    [p EXCEPT !.tools = NoTools, !.active = FALSE, !.version = 0, !.pages = 0, !.next = 0, !.seen = {}]

invalidateCatalog(p, limited) ==
    [p EXCEPT !.active = FALSE, !.next = 0, !.tools.complete = FALSE, !.tools.partial = TRUE,
              !.tools.limited = @ \/ limited]

canAdvance(p) == ~p.catalogLimited /\ p.revision # MaxRevision
advanceCatalog(p) ==
    IF canAdvance(p) THEN [p EXCEPT !.revision = @ + 1]
                     ELSE invalidateCatalog([p EXCEPT !.catalogLimited = TRUE], TRUE)

restoreProtocolState(p) ==
    [p EXCEPT !.state = CASE p.discover.ok   -> "server_discovered"
                          [] ~p.discover.ok /\ p.initialize.ok -> "initialized"
                          [] OTHER           -> "not_observed"]

Fresh(gen, child) ==
    [gen |-> gen, child |-> child, epoch |-> 0, discoverEpoch |-> 0, initialize |-> NoInitialize,
     discover |-> NoDiscover, tools |-> NoTools, state |-> "not_observed", revision |-> 0,
     epochLimited |-> FALSE, discoverLimited |-> FALSE, catalogLimited |-> FALSE,
     active |-> FALSE, version |-> 0, pages |-> 0, next |-> 0, seen |-> {}]

beginChild(p) == Fresh(p.gen + 1, "starting")
childStarted(p, g) == IF g = p.gen /\ p.child = "starting" THEN [p EXCEPT !.child = "running"] ELSE p

childClosed(p, g) ==
    IF g # p.gen \/ p.child = "closed" THEN p
    ELSE [resetCatalog(p) EXCEPT !.child = "closed", !.initialize = NoInitialize,
                                 !.discover = NoDiscover, !.state = "closed"]

(* requestWritten: the observation and the token the request is given. *)
Token(p, g, r, accept) ==
    [gen |-> g, epoch |-> p.epoch, discoverEpoch |-> p.discoverEpoch, revision |-> p.revision,
     method |-> r.method, version |-> r.version, accept |-> accept]
Untracked(p) == [o |-> p, token |-> NoToken]

initializeWritten(p, g, r) ==
    IF p.epoch = MaxEpoch
    THEN Untracked([resetCatalog(p) EXCEPT !.epochLimited = TRUE, !.state = "not_observed",
                                           !.initialize = [NoInitialize EXCEPT !.limited = TRUE]])
    ELSE LET q == [resetCatalog(p) EXCEPT !.epoch = @ + 1, !.initialize = NoInitialize,
                                          !.discover = NoDiscover, !.state = "not_observed"]
         IN  [o |-> q, token |-> Token(q, g, r, FALSE)]

discoverWritten(p, g, r) ==
    LET limited == [NoDiscover EXCEPT !.limited = TRUE]
        q == [p EXCEPT !.discoverEpoch = @ + 1, !.discover = NoDiscover]
        s == restoreProtocolState(resetCatalog(advanceCatalog(q)))
    IN  CASE r.version = 0 \/ p.discoverLimited -> Untracked(p)
          [] p.discoverEpoch = MaxEpoch ->
                Untracked(restoreProtocolState(resetCatalog([p EXCEPT !.discoverLimited = TRUE, !.discover = limited])))
          [] ~canAdvance(q) -> Untracked(advanceCatalog(q))
          [] r.large        -> Untracked([s EXCEPT !.discover = limited])
          [] OTHER          -> [o |-> s, token |-> Token(s, g, r, FALSE)]

\* A first page starts a new traversal; any other must continue the current one.
toolsWritten(p, g, r) ==
    LET first == r.cursor = 0 /\ r.valid
        q == IF first THEN [restoreProtocolState(resetCatalog(advanceCatalog(p))) EXCEPT !.version = r.version] ELSE p
        s == IF first THEN [q EXCEPT !.active = TRUE] ELSE q
        continues == r.version = p.version /\ p.active /\ p.next # 0 /\ r.cursor = p.next
        refused(limited) == [o |-> advanceCatalog(invalidateCatalog(s, limited)), token |-> Token(q, g, r, FALSE)]
    IN  CASE (~p.initialize.ok /\ r.version = 0) \/ p.catalogLimited -> Untracked(p)
          [] first /\ ~canAdvance(p) -> Untracked(advanceCatalog(p))
          [] ~r.valid                -> refused(r.large)
          [] ~first /\ ~continues    -> refused(FALSE)
          [] s.pages >= maxObservationPages -> refused(TRUE)
          [] OTHER                   -> [o |-> s, token |-> Token(q, g, r, TRUE)]

requestWritten(p, g, r) ==
    IF g # p.gen \/ p.child # "running" \/ p.epochLimited THEN Untracked(p)
    ELSE CASE r.method = "initialize"      -> initializeWritten(p, g, r)
           [] r.method = "server/discover" -> discoverWritten(p, g, r)
           [] r.method = "tools/list"      -> toolsWritten(p, g, r)
           [] OTHER                        -> Untracked(p)

tokenMatches(p, t) ==
    /\ t # NoToken /\ t.gen = p.gen /\ p.child = "running" /\ t.epoch = p.epoch /\ ~p.epochLimited
    /\ t.method # "initialize" =>
          /\ t.discoverEpoch = p.discoverEpoch /\ ~p.discoverLimited
          /\ t.revision = p.revision /\ ~p.catalogLimited

(* failed: a limit only withdraws the receipt, any other failure shows. *)
failed(p, t, limited) ==
    LET q == CASE t.method = "tools/list"      -> invalidateCatalog(p, limited)
               [] t.method = "server/discover" -> resetCatalog([p EXCEPT !.discover = [NoDiscover EXCEPT !.limited = limited]])
               [] OTHER                        -> [p EXCEPT !.initialize = [NoInitialize EXCEPT !.limited = limited]]
        s == IF t.method = "initialize" THEN q ELSE advanceCatalog(q)
    IN  CASE ~tokenMatches(p, t) -> p
          [] t.method # "initialize" /\ ~canAdvance(q) -> s
          [] OTHER -> IF limited THEN restoreProtocolState(s) ELSE [s EXCEPT !.state = "failed"]

publishInitialize(p, t) ==
    IF ~tokenMatches(p, t) THEN p
    ELSE [p EXCEPT !.initialize = [ok |-> TRUE, limited |-> FALSE, of |-> t.gen], !.state = "initialized"]

publishServerDiscover(p, t) ==
    IF ~tokenMatches(p, t) THEN p
    ELSE [p EXCEPT !.discover = [ok |-> TRUE, limited |-> FALSE, of |-> t.gen, requested |-> t.version],
                   !.state = "server_discovered"]

\* boundedObservationNames: sorted, without duplicates, the first so many.
boundedObservationNames(names) ==
    {n \in names : Cardinality({m \in names : m < n}) < maxObservationToolNames}

publishTools(p, t, page) ==
    LET all == p.tools.names \cup page.names
        limited == p.tools.limited \/ page.limited \/ Cardinality(all) > maxObservationToolNames
        q == [p EXCEPT !.tools = [@ EXCEPT !.ok = TRUE, !.names = boundedObservationNames(all), !.limited = limited],
                       !.pages = @ + 1, !.next = page.next, !.state = "discovered"]
        complete == page.next = 0 /\ ~limited
    IN  CASE ~tokenMatches(p, t) \/ ~t.accept \/ ~p.active -> p
          [] page.next # 0 /\ page.next \in p.seen -> invalidateCatalog(q, FALSE)
          [] OTHER -> [q EXCEPT !.seen = @ \cup ({page.next} \ {0}), !.tools.complete = complete,
                                !.tools.partial = ~complete, !.active = page.next # 0]

\* An error, or a result that does not parse, fails; so does one too large.
response(p, t, m) ==
    CASE t = NoToken        -> p
      [] m.result = "error" -> failed(p, t, FALSE)
      [] m.result = "large" -> failed(p, t, TRUE)
      [] OTHER -> CASE t.method = "initialize"      -> publishInitialize(p, t)
                    [] t.method = "server/discover" -> publishServerDiscover(p, t)
                    [] OTHER                        -> publishTools(p, t, m.page)

listChangedOfInitialized(p, g) ==
    IF g # p.gen \/ p.child # "running" \/ ~p.initialize.ok THEN p
    ELSE IF canAdvance(p)
         THEN restoreProtocolState([resetCatalog(advanceCatalog(p)) EXCEPT !.tools.partial = TRUE])
         ELSE advanceCatalog(p)

listChanged(p, g) ==
    IF \/ g # p.gen \/ p.child # "running"
       \/ ~p.initialize.ok /\ ~p.discover.ok /\ ~p.tools.ok /\ ~p.active
    THEN p
    ELSE IF canAdvance(p)
         THEN restoreProtocolState([resetCatalog(advanceCatalog(p)) EXCEPT !.tools.partial = TRUE])
         ELSE advanceCatalog(p)

\* Snapshot: the status a state is reported with.
Status(p) == CASE p.state \in {"initialized", "server_discovered", "discovered"} -> "ok"
               [] p.state \in {"failed", "closed"} -> "degraded"
               [] OTHER -> "unknown"

----------------------------------------------------------------------------
(* The child. *)

Changed == [type |-> "changed"]
Pages == Catalogs[catalog]
NoPage == [names |-> {}, next |-> 0, limited |-> FALSE]
Results == {"result", "error", "large"}

Call == [method |-> "tools/call", version |-> 0, cursor |-> 0, valid |-> TRUE, large |-> FALSE]
Requests ==
    {[method |-> "initialize", version |-> 0, cursor |-> 0, valid |-> TRUE, large |-> FALSE],
     [method |-> "server/discover", version |-> 0, cursor |-> 0, valid |-> TRUE, large |-> FALSE], Call}
    \cup [method : {"server/discover"}, version : {1}, cursor : {0}, valid : {TRUE}, large : BOOLEAN]
    \cup [method : {"tools/list"}, version : {0, 1}, cursor : {0, 1}, valid : {TRUE}, large : {FALSE}]
    \cup [method : {"tools/list"}, version : {0}, cursor : {0}, valid : {FALSE}, large : BOOLEAN]

Init ==
    /\ o = Fresh(0, "not_started") /\ alive = FALSE /\ catalog = 0 /\ firstCatalog = 0
    /\ wire = << >> /\ asked = {} /\ conn = NoConn /\ retired = {} /\ missed = FALSE

\* Start and restart: the pipes are new, the observation begins anew, and the
\* first connection to them forgets what was retired on the old ones.
StartChild ==
    /\ ~alive /\ o.gen < MaxGen /\ catalog < Len(Catalogs)
    /\ alive' = TRUE /\ catalog' = catalog + 1 /\ firstCatalog' = catalog + 1
    /\ o' = childStarted(beginChild(o), o.gen + 1)
    /\ wire' = << >> /\ asked' = {} /\ retired' = {} /\ missed' = FALSE
    /\ UNCHANGED conn

\* The supervisor notices that its child is lost, or stops it.
LoseChild ==
    /\ alive /\ alive' = FALSE /\ o' = childClosed(o, o.gen)
    /\ wire' = << >> /\ asked' = {} /\ retired' = {}
    /\ UNCHANGED <<catalog, firstCatalog, conn, missed>>

ChangeTools ==
    /\ alive /\ catalog < Len(Catalogs)
    /\ catalog' = catalog + 1 /\ wire' = Append(wire, Changed)
    /\ UNCHANGED <<o, alive, firstCatalog, asked, conn, retired, missed>>

\* It answers in any order; a cursor it does not know is an error.  What the
\* answer to an overdue or an untracked request says makes no difference.
Answer ==
    /\ alive
    /\ \E q \in asked, result \in Results :
          LET known == q.r.cursor < Len(Pages)
          IN  /\ q.r.method = "tools/call" => result = "result"
              /\ result = "result" => known
              /\ asked' = asked \ {q}
              /\ wire' = Append(wire, [type |-> "response", id |-> q.id, result |-> result,
                                       page |-> IF q.r.method = "tools/list" /\ result = "result"
                                                THEN Pages[q.r.cursor + 1] ELSE NoPage])
    /\ UNCHANGED <<o, alive, catalog, firstCatalog, conn, retired, missed>>

----------------------------------------------------------------------------
(* One logical connection at a time. *)

\* Connect: the pipes first, then the generation the observation is at.
ConnectPipes ==
    /\ conn = NoConn /\ alive /\ conn' = [at |-> "pipes", phys |-> o.gen]
    /\ UNCHANGED <<o, alive, catalog, firstCatalog, wire, asked, retired, missed>>
ConnectObservation ==
    /\ conn.at = "pipes" /\ conn' = [at |-> "ready", phys |-> conn.phys, gen |-> o.gen]
    /\ UNCHANGED <<o, alive, catalog, firstCatalog, wire, asked, retired, missed>>

Usable == alive /\ conn.phys = o.gen

Write ==
    /\ conn.at = "ready" /\ Usable
    /\ \E r \in Requests :
          LET id == CHOOSE i \in callerIDs : i \notin retired
              w == requestWritten(o, conn.gen, r)
          IN  /\ o' = w.o
              /\ asked' = asked \cup {[id |-> id, r |-> IF w.token = NoToken THEN Call ELSE r]}
              /\ conn' = [at |-> "reading", phys |-> conn.phys, gen |-> conn.gen, id |-> id, method |-> r.method,
                          token |-> w.token, hand |-> Changed]
    /\ UNCHANGED <<alive, catalog, firstCatalog, wire, retired, missed>>

\* The message is off the pipe, the observation has not heard of it yet.
TakeMessage ==
    /\ conn.at = "reading" /\ Usable /\ wire # << >>
    /\ LET m == Head(wire)
           dropped == IF m = Changed THEN retired # {} ELSE m.id \in retired
       IN  /\ conn' = IF dropped THEN conn ELSE [conn EXCEPT !.at = "hand", !.hand = m]
           /\ retired' = IF m = Changed THEN retired ELSE retired \ {m.id}
           /\ missed' = (missed \/ (m = Changed /\ dropped))
    /\ wire' = Tail(wire)
    /\ UNCHANGED <<o, alive, catalog, firstCatalog, asked>>

observeRead ==
    /\ conn.at = "hand"
    /\ IF conn.hand = Changed
       THEN o' = listChanged(o, conn.gen) /\ conn' = [conn EXCEPT !.at = "reading"]
       ELSE o' = response(o, conn.token, conn.hand) /\ conn' = NoConn
    /\ UNCHANGED <<alive, catalog, firstCatalog, wire, asked, retired, missed>>

\* RetireResponseDeadline: the pipes stay open, an overdue page fails.
RetireResponseDeadline ==
    /\ conn.at = "reading" /\ Usable /\ conn.method # "initialize" /\ Cardinality(retired) < MaxRetired
    /\ retired' = retired \cup {conn.id}
    /\ asked' = {IF q.id = conn.id THEN [q EXCEPT !.r = Call] ELSE q : q \in asked}
    /\ o' = IF conn.token # NoToken /\ conn.token.method \in {"server/discover", "tools/list"}
            THEN failed(o, conn.token, FALSE) ELSE o
    /\ conn' = NoConn
    /\ UNCHANGED <<alive, catalog, firstCatalog, wire, missed>>

\* An error on the pipes, or Close: the child of these pipes is of no more use.
ConnectionFails ==
    /\ conn.at \in {"ready", "reading"} /\ ~Usable
    /\ o' = childClosed(o, conn.gen) /\ conn' = NoConn
    /\ UNCHANGED <<alive, catalog, firstCatalog, wire, asked, retired, missed>>
ConnectionCloses ==
    /\ conn.at = "reading" /\ Usable
    /\ o' = childClosed(o, conn.gen) /\ conn' = NoConn /\ alive' = FALSE
    /\ wire' = << >> /\ asked' = {} /\ retired' = {}
    /\ UNCHANGED <<catalog, firstCatalog, missed>>

Next == \/ StartChild \/ LoseChild \/ ChangeTools \/ Answer
        \/ ConnectPipes \/ ConnectObservation \/ Write \/ TakeMessage \/ observeRead
        \/ RetireResponseDeadline \/ ConnectionFails \/ ConnectionCloses

Spec == Init /\ [][Next]_vars

----------------------------------------------------------------------------
AllNames(c) == UNION {Catalogs[c][k].names : k \in DOMAIN Catalogs[c]}
Unread == Len(SelectSeq(wire, LAMBDA m : m = Changed))
          + (IF conn.at = "hand" /\ conn.hand = Changed /\ conn.gen = o.gen THEN 1 ELSE 0)

\* The catalog the health report calls complete is, name for name, one the
\* running child has served: every change after it is still unread.
CompleteAndCurrent ==
    /\ catalog - Unread \in firstCatalog..catalog
    /\ o.tools.names = AllNames(catalog - Unread)

(***************************************************************************)
(* tools_list.complete means a first-to-last traversal without omissions:  *)
(* the names are exactly one catalog of the child that runs, never pages   *)
(* of two catalogs or of two children, and every change since is announced *)
(* by a notification that no reader has taken off the pipe yet.  Requests  *)
(* of other callers, overdue pages, cursors that loop, limits and child    *)
(* replacements in between do not matter.  A change whose notification the *)
(* transport dropped before the observation could see it (missed) is not   *)
(* covered: the report may then be complete and out of date.               *)
(***************************************************************************)
CompleteIsOneTraversal == alive /\ o.tools.complete /\ ~missed => CompleteAndCurrent

(***************************************************************************)
(* A health status of ok rests on a receipt of the current child: each     *)
(* receipt shown was answered by the child generation reported, the state  *)
(* names a receipt that is there, and a lost child shows none.             *)
(***************************************************************************)
EvidenceIsSameChild ==
    /\ o.initialize.ok => o.initialize.of = o.gen
    /\ o.discover.ok => o.discover.of = o.gen /\ o.discover.requested # 0
    /\ ~alive => Status(o) # "ok" /\ ~o.initialize.ok /\ ~o.discover.ok /\ ~o.tools.ok
    /\ ~o.catalogLimited =>
          /\ o.state = "initialized" => o.initialize.ok
          /\ o.state = "server_discovered" => o.discover.ok
          /\ o.state = "discovered" => o.tools.ok

=============================================================================
