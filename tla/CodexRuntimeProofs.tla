------------------------- MODULE CodexRuntimeProofs -------------------------
(***************************************************************************)
(* What the `codex` commands leave behind.  Every managed runtime that is  *)
(* up is accounted for, for any number of commands, aliases, process IDs   *)
(* and start times, with commands that are killed and processes that die   *)
(* at any point (CodexRuntime).  The active admin profile exists, and so   *)
(* do the ones that records name (AdminProfiles).                          *)
(***************************************************************************)
EXTENDS CodexRuntime, AdminProfiles, TLAPS

Tunnels == (UNION {TunnelsOf[a] : a \in Aliases}) \cup {"none"}
AliasRecords == [tunnel : Tunnels, profile : BOOLEAN]
ProcessRecords == [mode : {"none", "tmux", "process", "stopped"}, tunnel : Tunnels,
                   pid : Pids \cup {0}, birth : Births \cup {0},
                   socket : {"none", "default", "custom"}]
OSProcesses == [owner : Aliases \cup {"none", "stranger"}, tunnel : Tunnels,
                birth : Births \cup {0}, dying : BOOLEAN]
Launching == {"settle", "record", "cleanupSignal", "cleanupAwait"}
Places == {"idle", "resolve", "scope", "persist", "existing", "stop", "rm", "cleanup", "signal",
           "await", "start", "stopped"} \cup Launching
RuntimeCommands ==
  [pc : Places, op : {"none", "create", "connect", "stop", "rm", "cleanup"},
   alias : Aliases \cup {"none"}, previous : Tunnels, tunnel : Tunnels, replace : BOOLEAN,
   launch : ProcessRecords, launched : BOOLEAN]

RuntimeTypes ==
  /\ cmd \in [Commands -> RuntimeCommands] /\ aliases \in [Aliases -> AliasRecords]
  /\ processes \in [Aliases -> ProcessRecords] /\ os \in [Pids -> OSProcesses]

(* A command that is under way holds the lock and has an alias. *)
Locked ==
  \A c \in Commands : cmd[c].pc # "idle" => lock = c /\ cmd[c].alias \in Aliases

(* Only a record in process mode names a process. *)
Recorded == \A a \in Aliases : processes[a].mode # "process" => processes[a].pid = 0

(* A managed runtime has a start time, and no two that are up share one. *)
Born ==
  /\ \A p \in Pids : os[p].owner \in Aliases <=> os[p].birth # 0
  /\ \A p, q \in Pids :
       os[p].owner \in Aliases /\ os[q].owner \in Aliases /\ os[p].birth = os[q].birth => p = q

(* A runtime of an alias that is up and that no command has lost. *)
Up(p, a) == os[p].owner = a /\ os[p].birth \notin abandoned

(* What a command knows of the runtimes of its alias: the one it signalled *)
(* or launched is the only one, and there is none when it starts another   *)
(* or writes the record off.                                               *)
Knows(c) ==
  LET k == cmd[c] IN
  /\ k.pc = "stop" => k.op = "stop"
  /\ k.pc = "existing" => k.launch = processes[k.alias] /\ k.op = "connect"
  /\ k.pc \in {"start", "stopped"} => \A p \in Pids : ~Up(p, k.alias)
  /\ k.pc \in {"signal", "await"} \cup Launching =>
       \A p \in Pids : Up(p, k.alias) => k.launch.pid = p /\ k.launch.birth = os[p].birth
  /\ k.launched => k.pc \in Launching
  /\ k.launched => \A p \in Pids : os[p].owner \in Aliases /\ os[p].birth = k.launch.birth =>
                     p = k.launch.pid /\ os[p].owner = k.alias

(* The inductive invariant of the managed runtimes. *)
RuntimeInv ==
  /\ RuntimeTypes /\ Locked /\ Recorded /\ Born
  /\ \A c \in Commands : Knows(c)
  /\ Accounted
-----------------------------------------------------------------------------
LEMMA IdleTypes ==
  /\ Idle \in RuntimeCommands /\ NoRecord \in ProcessRecords
  /\ NoAlias \in AliasRecords /\ Nobody \in OSProcesses
BY DEF Idle, NoRecord, NoAlias, Nobody, RuntimeCommands,
       ProcessRecords, AliasRecords, OSProcesses, Tunnels, Places

(* The first state of the managed runtimes satisfies the invariant. *)
LEMMA RuntimeStarts == Init => RuntimeInv
<1> SUFFICES ASSUME Init PROVE RuntimeInv
  OBVIOUS
<1>1. \A a \in Aliases : legacyTunnel(a) \in Tunnels
  BY RuntimeAssumption DEF legacyTunnel, Tunnels
<1>2. PICK where, socket \in {"none", "default", "custom"} :
        processes = [a \in Aliases |-> IF a \in LegacyAliases
                       THEN [NoRecord EXCEPT !.mode = "tmux", !.tunnel = legacyTunnel(a),
                                                     !.socket = socket]
                       ELSE NoRecord]
  BY ZenonT(30) DEF Init
<1>3. processes \in [Aliases -> ProcessRecords] /\ Recorded
  BY <1>1, <1>2, IdleTypes, ZenonT(30) DEF NoRecord, ProcessRecords, Recorded
<1>4. aliases \in [Aliases -> AliasRecords]
  BY <1>1, IdleTypes, ZenonT(30) DEF Init, AliasRecords
<1>5. os = [p \in Pids |-> Nobody] /\ cmd = [c \in Commands |-> Idle]
  BY Zenon DEF Init
<1>6. \A p \in Pids : os[p].owner \notin Aliases /\ os[p].birth = 0
  BY <1>5, RuntimeAssumption DEF Nobody
<1>7. \A c \in Commands : cmd[c].pc = "idle" /\ cmd[c].launched = FALSE
  BY <1>5 DEF Idle
<1>8. RuntimeTypes
  BY <1>3, <1>4, <1>5, IdleTypes DEF RuntimeTypes
<1>9. Locked /\ Born
  BY <1>6, <1>7 DEF Locked, Born
<1>10. \A c \in Commands : Knows(c)
  BY <1>7 DEF Knows, Launching
<1>11. Accounted
  BY <1>6 DEF Accounted
<1> QED BY <1>3, <1>8, <1>9, <1>10, <1>11 DEF RuntimeInv

(* While a command is under way the others are idle. *)
LEMMA Alone ==
  ASSUME RuntimeInv, NEW c \in Commands, cmd[c].pc # "idle"
  PROVE  \A d \in Commands \ {c} : cmd[d].pc = "idle"
BY DEF RuntimeInv, Locked

(* What the record of an alias says of a runtime that is up. *)
IsRecorded(p) == /\ processes[os[p].owner].pid = p
                 /\ processes[os[p].owner].birth = os[p].birth
IsHeld(c, p) == holds(c) /\ cmd[c].launch.birth = os[p].birth
AccountedBy(c) ==
  \A p \in Pids : os[p].owner \in Aliases /\ os[p].birth \notin abandoned =>
    IsRecorded(p) \/ IsHeld(c, p)

(* A runtime that is up is recorded, or in the hands of the one command    *)
(* that is under way.                                                      *)
LEMMA ByTheHolder ==
  ASSUME RuntimeInv, NEW c \in Commands,
         \A d \in Commands \ {c} : cmd[d].pc = "idle"
  PROVE  AccountedBy(c)
BY DEF RuntimeInv, Accounted, inHand, holds, AccountedBy,
       IsRecorded, IsHeld

(* A step of the command under way keeps the invariant if it keeps its own *)
(* part of it.                                                             *)
LEMMA OwnStep ==
  ASSUME RuntimeInv, NEW c \in Commands,
         \A d \in Commands \ {c} : cmd[d].pc = "idle" /\ cmd'[d] = cmd[d],
         RuntimeTypes', Recorded', Born', Knows(c)', AccountedBy(c)',
         cmd'[c].pc # "idle" => lock' = c /\ cmd'[c].alias \in Aliases
  PROVE  RuntimeInv'
<1>1. Locked'
  BY DEF Locked
<1>2. ASSUME NEW d \in Commands PROVE Knows(d)'
  <2>1. CASE d = c
    BY <2>1
  <2>2. CASE d # c
    <3>1. cmd'[d].pc = "idle" /\ ~cmd'[d].launched
      BY <2>2, ZenonT(30) DEF RuntimeInv, Knows, Launching
    <3> QED BY <3>1 DEF Knows, Launching
  <2> QED BY <2>1, <2>2
<1>3. Accounted'
  BY DEF AccountedBy, Accounted, inHand, IsRecorded, IsHeld
<1> QED BY <1>1, <1>2, <1>3 DEF RuntimeInv
(* The command returns or is killed, with nothing in its hands. *)
LEMMA ReturnStep ==
  ASSUME RuntimeInv, NEW c \in Commands, cmd[c].pc # "idle", Return(c),
         aliases' \in [Aliases -> AliasRecords], UNCHANGED os,
         RuntimeTypes /\ processes' \in [Aliases -> ProcessRecords], Recorded',
         \A p \in Pids : os[p].owner \in Aliases /\ os[p].birth \notin abandoned' => IsRecorded(p)',
         abandoned \subseteq abandoned'
  PROVE  RuntimeInv'
<1>1. \A d \in Commands \ {c} : cmd[d].pc = "idle" /\ cmd'[d] = cmd[d]
  BY Alone DEF Return, RuntimeTypes
<1>2. cmd'[c] = Idle /\ cmd' \in [Commands -> RuntimeCommands]
  BY IdleTypes DEF Return, RuntimeTypes
<1>3. RuntimeTypes'
  BY <1>2 DEF RuntimeTypes
<1>4. Born'
  BY DEF Born, RuntimeInv
<1>5. Knows(c)' /\ cmd'[c].pc = "idle"
  BY <1>2 DEF Knows, Idle, Launching
<1>6. AccountedBy(c)'
  BY DEF AccountedBy
<1> QED BY <1>1, <1>3, <1>4, <1>5, <1>6, OwnStep

(* The command goes on, and no file that the runtimes are recorded in nor  *)
(* any process changes.                                                    *)
LEMMA QuietStep ==
  ASSUME RuntimeInv, NEW c \in Commands, NEW k \in RuntimeCommands,
         \A d \in Commands \ {c} : cmd[d].pc = "idle",
         cmd' = [cmd EXCEPT ![c] = k], lock' = c, k.alias \in Aliases,
         aliases' \in [Aliases -> AliasRecords], UNCHANGED <<processes, os, abandoned>>,
         Knows(c)', AccountedBy(c)'
  PROVE  RuntimeInv'
<1>1. \A d \in Commands \ {c} : cmd[d].pc = "idle" /\ cmd'[d] = cmd[d]
  BY DEF RuntimeInv, RuntimeTypes
<1>2. cmd' \in [Commands -> RuntimeCommands] /\ cmd'[c] = k
  BY DEF RuntimeInv, RuntimeTypes
<1>3. RuntimeTypes' /\ Recorded' /\ Born'
  BY <1>2 DEF RuntimeTypes, RuntimeInv, Recorded, Born
<1> QED BY <1>1, <1>2, <1>3, OwnStep

(* A command up to its records: nothing is in its hands. *)
LEMMA EarlySteps ==
  ASSUME RuntimeInv, NEW c \in Commands,
         \/ \E a \in Aliases, o \in {"create", "connect", "stop", "rm", "cleanup"} :
              Begin(c, o, a)
         \/ ProvidedTunnel(c) \/ ResolveAlias(c) \/ ResolveScope(c)
         \/ EarlyError(c) \/ SaveCreated(c) \/ SaveConnected(c)
  PROVE  RuntimeInv'
<1> DEFINE Others == \A d \in Commands \ {c} : cmd[d].pc = "idle"
           Early == {"resolve", "scope", "persist", "existing", "stop", "rm", "cleanup"}
<1>1. RuntimeTypes /\ cmd[c] \in RuntimeCommands
  BY DEF RuntimeInv, RuntimeTypes
<1>2. ASSUME NEW k \in RuntimeCommands, Others, cmd' = [cmd EXCEPT ![c] = k], lock' = c,
             k.alias \in Aliases, aliases' \in [Aliases -> AliasRecords],
             UNCHANGED <<processes, os, abandoned>>,
             cmd[c].pc \notin Launching,
             k.pc \in Early, ~k.launched, k.pc = "stop" => k.op = "stop",
             k.pc = "existing" => k.launch = processes[k.alias] /\ k.op = "connect"
      PROVE  RuntimeInv'
  <2>1. cmd'[c] = k
    BY <1>1, <1>2 DEF RuntimeTypes
  <2>2. Knows(c)'
    BY <1>2, <2>1, Zenon DEF Knows, Launching
  <2>3. AccountedBy(c)
    BY <1>2, ByTheHolder
  <2>4. AccountedBy(c)'
    BY <1>2, <2>3, Zenon DEF AccountedBy, IsRecorded, IsHeld, holds, Launching
  <2> QED BY <1>2, <2>2, <2>4, QuietStep, Zenon
<1>3. ASSUME NEW a \in Aliases, NEW o \in {"create", "connect", "stop", "rm", "cleanup"},
             Begin(c, o, a)
      PROVE  RuntimeInv'
  <2> DEFINE k == [Idle EXCEPT !.op = o, !.alias = a,
              !.previous = IF o = "connect" THEN aliases[a].tunnel ELSE "none",
              !.pc = IF o \in {"create", "connect"} THEN "resolve" ELSE o]
  <2>1. aliases[a].tunnel \in Tunnels /\ "none" \in Tunnels
    BY <1>1, Zenon DEF RuntimeTypes, AliasRecords, Tunnels
  <2>2. k \in RuntimeCommands /\ k.alias = a /\ ~k.launched /\ k.op = o
        /\ k.pc = IF o \in {"create", "connect"} THEN "resolve" ELSE o
    BY <2>1, IdleTypes, ZenonT(30) DEF RuntimeCommands, Idle, Places
  <2>3. lock = "none" /\ lock' = c /\ cmd[c].pc = "idle" /\ cmd' = [cmd EXCEPT ![c] = k]
        /\ UNCHANGED <<aliases, processes, os, abandoned>>
    BY <1>3, Zenon DEF Begin, acquire, at
  <2>4. Others
    BY <2>3, RuntimeAssumption DEF RuntimeInv, Locked
  <2> HIDE DEF k
  <2> QED BY <1>1, <1>2, <2>2, <2>3, <2>4, Zenon DEF RuntimeTypes, Launching
<1>4. ASSUME cmd[c].pc \in {"resolve", "scope", "persist", "existing", "cleanup", "stop", "rm"},
             Return(c), UNCHANGED <<processes, os, abandoned>>,
             aliases' \in [Aliases -> AliasRecords]
      PROVE  RuntimeInv'
  <2>1. AccountedBy(c)
    BY <1>4, Alone, ByTheHolder
  <2>2. \A p \in Pids : os[p].owner \in Aliases /\ os[p].birth \notin abandoned => IsRecorded(p)'
    BY <1>4, <2>1, Zenon DEF AccountedBy, IsHeld, IsRecorded, holds
  <2>3. Recorded'
    BY <1>4 DEF RuntimeInv, Recorded
  <2> QED BY <1>1, <1>4, <2>2, <2>3, ReturnStep DEF RuntimeTypes
<1>5. CASE EarlyError(c)
  BY <1>1, <1>4, <1>5 DEF EarlyError, RuntimeTypes
<1>6. CASE SaveCreated(c)
  <2>1. aliases' \in [Aliases -> AliasRecords]
    BY <1>1, <1>6, Zenon DEF SaveCreated, RuntimeTypes, AliasRecords, RuntimeCommands
  <2> QED BY <1>4, <1>6, <2>1, Zenon DEF SaveCreated, at
<1>7. ASSUME cmd[c].pc \in {"resolve", "scope"}, NEW t \in Tunnels, resolved(c, t),
             UNCHANGED <<lock, aliases, processes, os, abandoned>>
      PROVE  RuntimeInv'
  <2> DEFINE k == [cmd[c] EXCEPT !.pc = "persist", !.tunnel = t]
  <2>1. cmd' = [cmd EXCEPT ![c] = k]
    BY <1>7, Zenon DEF resolved
  <2>2. k \in RuntimeCommands /\ k.alias = cmd[c].alias /\ k.launched = cmd[c].launched /\ k.pc = "persist"
    BY <1>1, Zenon DEF RuntimeCommands, Places
  <2>3. Others /\ lock = c /\ cmd[c].alias \in Aliases /\ ~cmd[c].launched
    BY <1>7, Alone, Zenon DEF RuntimeInv, Locked, Knows, Launching
  <2> HIDE DEF k
  <2> QED BY <1>1, <1>2, <1>7, <2>1, <2>2, <2>3, Zenon DEF RuntimeTypes, Launching
<1>8. \A a \in Aliases : \A t \in TunnelsOf[a] : t \in Tunnels
  BY Zenon DEF Tunnels
<1>9. cmd[c].pc # "idle" => cmd[c].alias \in Aliases
  BY DEF RuntimeInv, Locked
<1>10. CASE ProvidedTunnel(c) \/ ResolveScope(c)
  <2>1. cmd[c].previous \in Tunnels
    BY <1>1 DEF RuntimeCommands
  <2> QED BY <1>7, <1>8, <1>9, <1>10, <2>1, Zenon DEF ProvidedTunnel, ResolveScope, at, here
<1>11. CASE ResolveAlias(c)
  <2>1. cmd[c].pc = "resolve" /\ Others /\ lock = c /\ cmd[c].alias \in Aliases /\ ~cmd[c].launched
    BY <1>11, Alone, Zenon DEF RuntimeInv, Locked, Knows, Launching, ResolveAlias, at
  <2>2. aliases[cmd[c].alias].tunnel \in Tunnels
    BY <1>1, <2>1 DEF RuntimeTypes, AliasRecords
  <2>3. CASE resolved(c, aliases[cmd[c].alias].tunnel) /\ UNCHANGED aliases
    BY <1>7, <1>11, <2>1, <2>2, <2>3, Zenon DEF ResolveAlias
  <2>4. CASE /\ aliases' = [aliases EXCEPT ![cmd[c].alias] = NoAlias]
             /\ goto(c, "scope")
    <3> DEFINE k == [cmd[c] EXCEPT !.pc = "scope"]
    <3>1. cmd' = [cmd EXCEPT ![c] = k]
      BY <2>4 DEF goto
    <3>2. k \in RuntimeCommands /\ k.alias = cmd[c].alias /\ k.launched = cmd[c].launched /\ k.pc = "scope"
      BY <1>1 DEF RuntimeCommands, Places
    <3>3. aliases' \in [Aliases -> AliasRecords]
      BY <1>1, <2>4, IdleTypes, Zenon DEF RuntimeTypes
    <3>4. UNCHANGED <<lock, processes, os, abandoned>>
      BY <1>11, Zenon DEF ResolveAlias
    <3> HIDE DEF k
    <3> QED BY <1>2, <2>1, <3>1, <3>2, <3>3, <3>4, Zenon DEF Launching
  <2> QED BY <1>11, <2>3, <2>4, Zenon DEF ResolveAlias, here
<1>12. CASE SaveConnected(c)
  <2> DEFINE k == [cmd[c] EXCEPT !.pc = "existing", !.previous = "none",
                     !.replace = cmd[c].previous \notin {"none", cmd[c].tunnel},
                     !.launch = processes[cmd[c].alias]]
  <2>1. cmd[c].pc = "persist" /\ Others /\ lock = c /\ cmd[c].alias \in Aliases /\ ~cmd[c].launched
        /\ cmd[c].op = "connect"
    BY <1>12, Alone, Zenon DEF RuntimeInv, Locked, Knows, Launching, SaveConnected, at
  <2>2. cmd' = [cmd EXCEPT ![c] = k]
    BY <1>12, Zenon DEF SaveConnected, here
  <2>3. processes[cmd[c].alias] \in ProcessRecords /\ "none" \in Tunnels
    BY <1>1, <2>1, Zenon DEF RuntimeTypes, Tunnels
  <2>4. k \in RuntimeCommands
    BY <1>1, <2>3, Zenon DEF RuntimeCommands, Places
  <2>5. k.alias = cmd[c].alias /\ k.launched = cmd[c].launched /\ k.pc = "existing"
        /\ k.op = cmd[c].op /\ k.launch = processes[cmd[c].alias]
    BY <1>1 DEF RuntimeCommands
  <2>6. aliases' \in [Aliases -> AliasRecords]
    BY <1>1, <1>12, Zenon DEF SaveConnected, RuntimeTypes, AliasRecords, RuntimeCommands
  <2>7. UNCHANGED <<lock, processes, os, abandoned>>
    BY <1>12 DEF SaveConnected
  <2> HIDE DEF k
  <2> QED BY <1>2, <2>1, <2>2, <2>4, <2>5, <2>6, <2>7, Zenon DEF Launching
<1> QED BY <1>3, <1>5, <1>6, <1>10, <1>11, <1>12

(* What a command that is under way may rely on. *)
LEMMA UnderWay ==
  ASSUME RuntimeInv, NEW c \in Commands, cmd[c].pc # "idle"
  PROVE  /\ RuntimeTypes /\ cmd[c] \in RuntimeCommands
         /\ \A d \in Commands \ {c} : cmd[d].pc = "idle"
         /\ lock = c /\ cmd[c].alias \in Aliases
         /\ AccountedBy(c) /\ Knows(c) /\ Recorded /\ Born
BY Alone, ByTheHolder DEF RuntimeInv, RuntimeTypes, Locked

(* The identity check tells whether a runtime of the alias is up. *)
LEMMA MatchesUp ==
  ASSUME RuntimeInv, NEW r, NEW p \in Pids, os[p].owner \in Aliases,
         r.pid = p, r.birth = os[p].birth
  PROVE  PIDIsRunning(r.pid) /\ ProcessIdentityMatches(r) /\ r.birth # 0
BY RuntimeAssumption DEF RuntimeInv, Born, PIDIsRunning, ProcessIdentityMatches,
   Nobody

(* A step of a command that leaves the records and the processes alone and *)
(* has nothing in its hands, before or after.                              *)
LEMMA EmptyHanded ==
  ASSUME RuntimeInv, NEW c \in Commands, cmd[c].pc # "idle", ~cmd[c].launched,
         NEW k \in RuntimeCommands, cmd' = [cmd EXCEPT ![c] = k], k.alias = cmd[c].alias,
         ~k.launched, k.op = cmd[c].op,
         UNCHANGED <<lock, aliases, processes, os, abandoned>>, k.pc \in Places,
         k.pc \notin {"stop", "existing"},
         k.pc \in {"start", "stopped"} => \A p \in Pids : ~Up(p, k.alias),
         k.pc \in {"signal", "await"} \cup Launching =>
           \A p \in Pids : Up(p, k.alias) => k.launch.pid = p /\ k.launch.birth = os[p].birth
  PROVE  RuntimeInv'
<1>1. cmd'[c] = k
  BY UnderWay, Zenon DEF RuntimeTypes
<1>2. Knows(c)'
  BY <1>1, Zenon DEF Knows, Up
<1>3. AccountedBy(c)'
  BY UnderWay, Zenon DEF AccountedBy, IsHeld, IsRecorded, holds
<1> QED BY <1>2, <1>3, QuietStep, UnderWay, Zenon DEF RuntimeTypes

(* The runtime of the alias before it is stopped or reused: it is the one  *)
(* the record names, if it is up.                                          *)
LEMMA RecordIsTrue ==
  ASSUME RuntimeInv, NEW c \in Commands, readyToStop(c)
  PROVE  /\ cmd[c].pc \in {"existing", "stop"} /\ ~cmd[c].launched
         /\ record(c) = processes[cmd[c].alias]
         /\ record(c) \in ProcessRecords
         /\ \A p \in Pids : Up(p, cmd[c].alias) =>
              record(c).pid = p /\ record(c).birth = os[p].birth
<1>1. cmd[c].pc \in {"existing", "stop"}
  BY DEF readyToStop, at
<1>2. ~cmd[c].launched /\ record(c) = processes[cmd[c].alias]
  BY <1>1, UnderWay, Zenon DEF Knows, Launching, record, here
<1>3. \A p \in Pids : Up(p, cmd[c].alias) => IsRecorded(p)
  BY <1>1, UnderWay, Zenon DEF Up, AccountedBy, IsHeld, holds
<1>4. processes[cmd[c].alias] \in ProcessRecords
  BY <1>1, UnderWay DEF RuntimeTypes
<1> QED BY <1>1, <1>2, <1>3, <1>4, ZenonT(60) DEF IsRecorded, Up

(* The steps that look for a runtime, stop it and wait for its end. *)
LEMMA StopSteps ==
  ASSUME RuntimeInv, NEW c \in Commands,
         StopTmux(c) \/ CheckExisting(c) \/ AwaitExit(c)
  PROVE  RuntimeInv'
<1> DEFINE r == record(c)
<1>1. cmd[c].pc \in {"existing", "stop", "await"} /\ ~cmd[c].launched
  BY RecordIsTrue, UnderWay, Zenon
     DEF StopTmux, CheckExisting, AwaitExit, at, Knows, Launching
<1>2. RuntimeTypes /\ cmd[c] \in RuntimeCommands /\ AccountedBy(c)
  BY <1>1, UnderWay
<1>3. UNCHANGED <<aliases, processes, os, abandoned>>
  BY DEF StopTmux, CheckExisting, AwaitExit
<1>4. ASSUME Return(c) PROVE RuntimeInv'
  <2>1. \A p \in Pids : os[p].owner \in Aliases /\ os[p].birth \notin abandoned => IsRecorded(p)'
    BY <1>1, <1>2, <1>3, Zenon DEF AccountedBy, IsHeld, IsRecorded, holds
  <2>2. Recorded'
    BY <1>3 DEF RuntimeInv, Recorded
  <2> QED BY <1>1, <1>2, <1>3, <1>4, <2>1, <2>2, ReturnStep, Zenon DEF RuntimeTypes
<1>5. ASSUME NEW to \in {"start", "stopped", "record"}, goto(c, to), UNCHANGED lock,
             to # "record" => \A p \in Pids : ~Up(p, cmd[c].alias),
             \A p \in Pids : Up(p, cmd[c].alias) =>
               cmd[c].launch.pid = p /\ cmd[c].launch.birth = os[p].birth
      PROVE  RuntimeInv'
  <2> DEFINE k == [cmd[c] EXCEPT !.pc = to]
  <2>1. cmd' = [cmd EXCEPT ![c] = k]
    BY <1>5 DEF goto
  <2>2. k \in RuntimeCommands /\ k.alias = cmd[c].alias /\ k.launched = cmd[c].launched /\ k.pc = to
        /\ k.op = cmd[c].op /\ k.launch = cmd[c].launch /\ k.pc \in Places
    BY <1>2 DEF RuntimeCommands, Places, Launching
  <2> HIDE DEF k
  <2> QED BY <1>1, <1>3, <1>5, <2>1, <2>2, EmptyHanded, ZenonT(30)
<1>6. next(c) \in {"start", "stopped"}
  BY DEF next
<1>7. CASE StopTmux(c)
  <2>1. readyToStop(c) /\ r.mode = "tmux"
    BY <1>7 DEF StopTmux
  <2>2. \A p \in Pids : ~Up(p, cmd[c].alias)
    BY <2>1, RecordIsTrue, UnderWay, RuntimeAssumption DEF Recorded
  <2> QED BY <1>4, <1>5, <1>6, <1>7, <2>2, Zenon DEF StopTmux
<1>8. CASE CheckExisting(c)
  <2>1. readyToStop(c)
    BY <1>8 DEF CheckExisting
  <2>2. \A p \in Pids : Up(p, cmd[c].alias) =>
          /\ r.pid = p /\ r.birth = os[p].birth
          /\ PIDIsRunning(r.pid) /\ ProcessIdentityMatches(r) /\ r.birth # 0
    <3> SUFFICES ASSUME NEW p \in Pids, Up(p, cmd[c].alias)
                 PROVE  /\ r.pid = p /\ r.birth = os[p].birth
                        /\ PIDIsRunning(r.pid) /\ ProcessIdentityMatches(r) /\ r.birth # 0
      BY Zenon
    <3>1. r.pid = p /\ r.birth = os[p].birth
      BY <1>1, <2>1, RecordIsTrue, Zenon
    <3>2. os[p].owner \in Aliases
      BY <1>1, UnderWay, Zenon DEF Up
    <3> HIDE DEF r
    <3> QED BY <3>1, <3>2, MatchesUp, Zenon
  <2>3. CASE /\ ~PIDIsRunning(r.pid) \/ (r.birth # 0 /\ ~ProcessIdentityMatches(r))
             /\ goto(c, next(c)) /\ UNCHANGED lock
    BY <1>5, <1>6, <2>2, <2>3, Zenon
  <2>4. CASE cmd' = [cmd EXCEPT ![c].pc = "signal", ![c].launch = r] /\ UNCHANGED lock
    <3> DEFINE k == [cmd[c] EXCEPT !.pc = "signal", !.launch = r]
    <3>1. cmd' = [cmd EXCEPT ![c] = k] /\ r \in ProcessRecords
      BY <2>1, <2>4, RecordIsTrue, ZenonT(30)
    <3>2. k \in RuntimeCommands /\ k.alias = cmd[c].alias /\ k.launched = cmd[c].launched /\ k.pc = "signal"
          /\ k.op = cmd[c].op /\ k.launch = r /\ k.pc \in Places
      BY <1>2, <3>1, Zenon DEF RuntimeCommands, Places
    <3> HIDE DEF k, r
    <3> QED BY <1>1, <1>3, <2>2, <2>4, <3>1, <3>2, EmptyHanded, ZenonT(30)
  <2>5. CASE cmd[c].op = "connect" /\ goto(c, "record") /\ UNCHANGED lock
    <3>1. r = cmd[c].launch
      BY <2>5 DEF record
    <3> QED BY <1>5, <2>2, <2>5, <3>1, Zenon
  <2> QED BY <1>4, <1>8, <2>3, <2>4, <2>5, Zenon DEF CheckExisting
<1>9. CASE AwaitExit(c)
  <2>1. \A p \in Pids : Up(p, cmd[c].alias) =>
          /\ cmd[c].launch.pid = p /\ cmd[c].launch.birth = os[p].birth
          /\ ProcessIdentityMatches(cmd[c].launch)
    <3>1. cmd[c].pc = "await" /\ cmd[c].alias \in Aliases
      BY <1>9, UnderWay, Zenon DEF AwaitExit, at
    <3>2. \A p \in Pids : Up(p, cmd[c].alias) =>
            cmd[c].launch.pid = p /\ cmd[c].launch.birth = os[p].birth
      BY <3>1, UnderWay, Zenon DEF Knows
    <3> QED BY <3>1, <3>2, MatchesUp, Zenon DEF Up
  <2> QED BY <1>4, <1>5, <1>6, <1>9, <2>1, Zenon DEF AwaitExit
<1> QED BY <1>7, <1>8, <1>9

(* TerminateProcess changes neither the owner nor the start time of a process. *)
LEMMA SignalStep ==
  ASSUME RuntimeInv, NEW c \in Commands, Signal(c)
  PROVE  RuntimeInv'
<1> DEFINE to == IF cmd[c].pc = "signal" THEN "await" ELSE "cleanupAwait"
           k == [cmd[c] EXCEPT !.pc = to]
<1>1. cmd[c].pc \in {"signal", "cleanupSignal"} /\ cmd' = [cmd EXCEPT ![c] = k]
      /\ UNCHANGED <<lock, aliases, processes, abandoned>>
  BY DEF Signal, goto, at
<1>2. RuntimeTypes /\ cmd[c] \in RuntimeCommands /\ AccountedBy(c) /\ Knows(c)
      /\ Recorded /\ Born /\ lock = c /\ cmd[c].alias \in Aliases
      /\ \A d \in Commands \ {c} : cmd[d].pc = "idle"
  BY <1>1, UnderWay
<1>3. k \in RuntimeCommands /\ k.alias = cmd[c].alias /\ k.launched = cmd[c].launched /\ k.pc = to
      /\ k.launch = cmd[c].launch
  BY <1>2 DEF RuntimeCommands, Places, Launching
<1>4. os' = os \/ os' = [os EXCEPT ![cmd[c].launch.pid].dying = TRUE]
  BY DEF Signal
<1>5. os' \in [Pids -> OSProcesses]
      /\ \A p \in Pids : os'[p].owner = os[p].owner /\ os'[p].birth = os[p].birth
  <2>1. \A p \in Pids : os[p] \in OSProcesses
    BY <1>2 DEF RuntimeTypes
  <2>2. \A o \in OSProcesses : /\ [o EXCEPT !.dying = TRUE] \in OSProcesses
                               /\ [o EXCEPT !.dying = TRUE].owner = o.owner
                               /\ [o EXCEPT !.dying = TRUE].birth = o.birth
    BY Zenon DEF OSProcesses
  <2>3. os' = [p \in Pids |-> os'[p]]
        /\ \A p \in Pids : os'[p] = os[p] \/ os'[p] = [os[p] EXCEPT !.dying = TRUE]
    BY <1>2, <1>4, Zenon DEF RuntimeTypes
  <2>4. \A p \in Pids : os'[p] \in OSProcesses /\ os'[p].owner = os[p].owner
                         /\ os'[p].birth = os[p].birth
    BY <2>1, <2>2, <2>3, Zenon
  <2> QED BY <2>3, <2>4
<1> HIDE DEF k
<1>6. cmd' \in [Commands -> RuntimeCommands] /\ cmd'[c] = k
      /\ \A d \in Commands \ {c} : cmd'[d] = cmd[d]
  BY <1>1, <1>2, <1>3 DEF RuntimeTypes
<1>7. RuntimeTypes' /\ Recorded'
  BY <1>1, <1>2, <1>5, <1>6, Zenon DEF RuntimeTypes, Recorded
<1>8. Born'
  BY <1>2, <1>5, Zenon DEF Born
<1>9. Knows(c)'
  BY <1>1, <1>2, <1>3, <1>5, <1>6 DEF Knows, Up, Launching
<1>10. AccountedBy(c)'
  BY <1>1, <1>2, <1>3, <1>5, <1>6, ZenonT(60) DEF AccountedBy, IsRecorded, IsHeld, holds
<1> QED BY <1>1, <1>2, <1>3, <1>6, <1>7, <1>8, <1>9, <1>10, OwnStep, Zenon

(* The start of a runtime when none of the alias is up: its start time is  *)
(* no other's.                                                             *)
LEMMA StartStep ==
  ASSUME RuntimeInv, NEW c \in Commands, NEW p \in Pids, Start(c, p)
  PROVE  RuntimeInv'
<1>1. cmd[c].pc = "start" /\ UNCHANGED <<aliases, processes, abandoned>>
  BY Zenon DEF Start, at
<1>2. RuntimeTypes /\ cmd[c] \in RuntimeCommands /\ AccountedBy(c) /\ Knows(c)
      /\ Recorded /\ Born /\ lock = c /\ cmd[c].alias \in Aliases
      /\ \A d \in Commands \ {c} : cmd[d].pc = "idle"
  BY <1>1, UnderWay, Zenon
<1>3. \A q \in Pids : os[q].owner \in Aliases /\ os[q].birth \notin abandoned => IsRecorded(q)
  BY <1>1, <1>2, Zenon DEF AccountedBy, IsHeld, holds
<1>4. CASE Return(c) /\ UNCHANGED os
  <2>1. \A q \in Pids : os[q].owner \in Aliases /\ os[q].birth \notin abandoned => IsRecorded(q)'
    BY <1>1, <1>3, <1>4, Zenon DEF IsRecorded
  <2>2. Recorded'
    BY <1>1, <1>2, Zenon DEF Recorded
  <2> QED BY <1>1, <1>2, <1>4, <2>1, <2>2, ReturnStep, Zenon DEF RuntimeTypes
<1>5. ASSUME NEW b \in unused, os[p] = Nobody, UNCHANGED lock,
             os' = [os EXCEPT ![p] = [owner |-> cmd[c].alias, tunnel |-> cmd[c].tunnel,
                                      birth |-> b, dying |-> FALSE]],
             cmd' = [cmd EXCEPT ![c].pc = "settle", ![c].launched = TRUE,
                       ![c].launch = [NoRecord EXCEPT !.pid = p, !.birth = b]]
      PROVE  RuntimeInv'
  <2> DEFINE l == [NoRecord EXCEPT !.pid = p, !.birth = b]
             k == [cmd[c] EXCEPT !.pc = "settle", !.launched = TRUE, !.launch = l]
             o == [owner |-> cmd[c].alias, tunnel |-> cmd[c].tunnel, birth |-> b, dying |-> FALSE]
  <2>1. b \in Births /\ b # 0 /\ b \notin abandoned /\ \A q \in Pids : os[q].birth # b
    BY <1>5, RuntimeAssumption DEF unused
  <2>2. l \in ProcessRecords /\ l.pid = p /\ l.birth = b
    BY <2>1, IdleTypes, Zenon DEF ProcessRecords, NoRecord
  <2>3. o \in OSProcesses /\ o.owner = cmd[c].alias /\ o.birth = b
    BY <1>2, <2>1, Zenon DEF OSProcesses, RuntimeCommands
  <2> HIDE DEF l, o
  <2>4. k \in RuntimeCommands /\ k.alias = cmd[c].alias /\ k.launched /\ k.pc = "settle" /\ k.launch = l
    BY <1>2, <2>2, Zenon DEF RuntimeCommands, Places, Launching
  <2>5. cmd' = [cmd EXCEPT ![c] = k] /\ os' = [os EXCEPT ![p] = o]
    BY <1>5, Zenon DEF l, o
  <2> HIDE DEF k
  <2>6. cmd' \in [Commands -> RuntimeCommands] /\ cmd'[c] = k
        /\ \A d \in Commands \ {c} : cmd'[d] = cmd[d]
    BY <1>2, <2>4, <2>5, Zenon DEF RuntimeTypes
  <2>7. os' \in [Pids -> OSProcesses] /\ os'[p] = o /\ \A q \in Pids \ {p} : os'[q] = os[q]
    BY <1>2, <2>3, <2>5, Zenon DEF RuntimeTypes
  <2>8. RuntimeTypes' /\ Recorded'
    BY <1>1, <1>2, <2>6, <2>7, Zenon DEF RuntimeTypes, Recorded
  <2>9. Born'
    <3>1. \A q \in Pids \ {p} : os'[q].birth # b
      BY <2>1, <2>7, Zenon
    <3>2. os'[p].owner \in Aliases /\ os'[p].birth = b /\ b # 0
      BY <1>2, <2>1, <2>3, <2>7, Zenon
    <3> QED BY <1>2, <2>7, <3>1, <3>2, Zenon DEF Born
  <2>10. Knows(c)'
    <3>1. \A q \in Pids \ {p} :
            (os'[q].owner = cmd[c].alias => os'[q].birth \in abandoned') /\ os'[q].birth # b
      BY <1>1, <1>2, <2>1, <2>7, Zenon DEF Up, Knows
    <3>2. \A q \in Pids : os'[q].owner = cmd[c].alias /\ os'[q].birth \notin abandoned' =>
                           l.pid = q /\ l.birth = os'[q].birth
      BY <2>2, <2>3, <2>7, <3>1, Zenon
    <3>3. ASSUME NEW q \in Pids, os'[q].birth = l.birth
          PROVE  q = l.pid /\ os'[q].owner = cmd[c].alias
      <4>1. q = p
        BY <2>2, <3>1, <3>3, Zenon
      <4> QED BY <2>2, <2>3, <2>7, <4>1, Zenon
    <3> QED BY <2>4, <2>6, <3>2, <3>3, ZenonT(30) DEF Knows, Launching, Up
  <2>11. AccountedBy(c)'
    <3>1. ASSUME NEW q \in Pids \ {p}, os'[q].owner \in Aliases, os'[q].birth \notin abandoned'
          PROVE  IsRecorded(q)'
      BY <1>1, <1>3, <2>7, <3>1, Zenon DEF IsRecorded
    <3>2. IsHeld(c, p)'
      BY <2>2, <2>3, <2>4, <2>6, <2>7, Zenon DEF IsHeld, holds
    <3> QED BY <3>1, <3>2 DEF AccountedBy
  <2> QED BY <1>2, <1>5, <2>4, <2>6, <2>8, <2>9, <2>10, <2>11, OwnStep
<1> QED BY <1>4, <1>5, ZenonT(30) DEF Start, here

(* A command that holds a launch that is up under its birth holds this one. *)
LEMMA HeldIsUp ==
  ASSUME RuntimeInv, NEW c \in Commands, cmd[c].pc # "idle", NEW p \in Pids,
         os[p].owner \in Aliases, IsHeld(c, p)
  PROVE  /\ cmd[c].launched /\ p = cmd[c].launch.pid /\ os[p].owner = cmd[c].alias
         /\ ProcessIdentityMatches(cmd[c].launch)
<1>1. cmd[c].launched /\ p = cmd[c].launch.pid /\ os[p].owner = cmd[c].alias
      /\ cmd[c].launch.birth = os[p].birth
  BY UnderWay, Zenon DEF IsHeld, holds, Knows
<1> QED BY <1>1, MatchesUp, Zenon

(* The launch settles: its early exit, its identity, or its abortion. *)
LEMMA SettleStep ==
  ASSUME RuntimeInv, NEW c \in Commands, Settle(c)
  PROVE  RuntimeInv'
<1> DEFINE r == cmd[c].launch
<1>1. cmd[c].pc = "settle" /\ UNCHANGED <<aliases, processes, abandoned>>
  BY DEF Settle, at
<1>2. RuntimeTypes /\ cmd[c] \in RuntimeCommands /\ AccountedBy(c) /\ Knows(c)
      /\ Recorded /\ Born /\ lock = c /\ cmd[c].alias \in Aliases
      /\ \A d \in Commands \ {c} : cmd[d].pc = "idle"
  BY <1>1, UnderWay, Zenon
<1>3. r \in ProcessRecords
  BY <1>2, Zenon DEF RuntimeCommands
<1>4. CASE /\ ~ProcessIdentityMatches(r)
           /\ cmd' = [cmd EXCEPT ![c].pc = "record", ![c].launch = NoRecord]
           /\ UNCHANGED <<lock, os>>
  <2> DEFINE k == [cmd[c] EXCEPT !.pc = "record", !.launch = NoRecord]
  <2>1. k \in RuntimeCommands /\ k.alias = cmd[c].alias /\ k.launched = cmd[c].launched
        /\ k.pc = "record" /\ k.launch = NoRecord
    BY <1>2, IdleTypes, Zenon DEF RuntimeCommands, Places, Launching
  <2>2. cmd' = [cmd EXCEPT ![c] = k]
    BY <1>4, Zenon
  <2> HIDE DEF k
  <2>3. cmd'[c] = k
    BY <1>2, <2>2 DEF RuntimeTypes
  <2>4. \A p \in Pids : ~Up(p, cmd[c].alias)
    BY <1>1, <1>2, <1>4, MatchesUp DEF Knows, Launching, Up
  <2>5. \A p \in Pids : os[p].owner \in Aliases => ~IsHeld(c, p) /\ os[p].birth # NoRecord.birth
    BY <1>1, <1>2, <1>4, HeldIsUp DEF Born, NoRecord
  <2>6. Knows(c)'
    BY <1>1, <1>4, <2>1, <2>3, <2>4, <2>5, Zenon DEF Knows, Launching, Up
  <2>7. AccountedBy(c)'
    BY <1>1, <1>2, <1>4, <2>5 DEF AccountedBy, IsRecorded
  <2> QED BY <1>1, <1>2, <1>4, <2>1, <2>2, <2>6, <2>7, QuietStep, Zenon DEF RuntimeTypes
<1>5. CASE goto(c, "record") /\ UNCHANGED <<lock, os>>
  <2> DEFINE k == [cmd[c] EXCEPT !.pc = "record"]
  <2>1. k \in RuntimeCommands /\ k.alias = cmd[c].alias /\ k.launched = cmd[c].launched
        /\ k.pc = "record" /\ k.launch = cmd[c].launch
    BY <1>2 DEF RuntimeCommands, Places, Launching
  <2>2. cmd' = [cmd EXCEPT ![c] = k]
    BY <1>5 DEF goto
  <2> HIDE DEF k
  <2>3. cmd'[c] = k
    BY <1>2, <2>2 DEF RuntimeTypes
  <2>4. Knows(c)'
    BY <1>1, <1>2, <1>5, <2>1, <2>3, ZenonT(30) DEF Knows, Launching, Up
  <2>5. AccountedBy(c)'
    BY <1>1, <1>2, <1>5, <2>1, <2>3, Zenon DEF AccountedBy, IsRecorded, IsHeld, holds
  <2> QED BY <1>1, <1>2, <1>5, <2>1, <2>2, <2>4, <2>5, QuietStep, Zenon DEF RuntimeTypes
<1>6. CASE /\ ProcessIdentityMatches(r) /\ os' = [os EXCEPT ![r.pid] = Nobody]
           /\ Return(c)
  <2>1. cmd' \in [Commands -> RuntimeCommands] /\ cmd'[c] = Idle
        /\ \A d \in Commands \ {c} : cmd'[d] = cmd[d]
    BY <1>2, <1>6, IdleTypes, Zenon DEF RuntimeTypes, Return
  <2>2. os' \in [Pids -> OSProcesses]
        /\ \A p \in Pids : os'[p] = IF p = r.pid THEN Nobody ELSE os[p]
    BY <1>2, <1>6, IdleTypes, Zenon DEF RuntimeTypes
  <2>3. Nobody.owner \notin Aliases /\ Nobody.birth = 0
    BY RuntimeAssumption, Zenon DEF Nobody
  <2>4. RuntimeTypes' /\ Recorded'
    BY <1>1, <1>2, <2>1, <2>2, Zenon DEF RuntimeTypes, Recorded
  <2>5. Born'
    BY <1>2, <2>2, <2>3, Zenon DEF Born
  <2>6. Knows(c)' /\ cmd'[c].pc = "idle"
    <3>1. Idle.pc = "idle" /\ Idle.launched = FALSE
      BY Zenon DEF Idle
    <3>2. cmd'[c].pc = "idle" /\ cmd'[c].launched = FALSE
      BY <2>1, <3>1, Zenon
    <3> QED BY <3>2, Zenon DEF Knows, Launching
  <2>7. AccountedBy(c)'
    <3>1. ASSUME NEW p \in Pids, os'[p].owner \in Aliases, os'[p].birth \notin abandoned'
          PROVE  IsRecorded(p)'
      <4>1. p # r.pid /\ os'[p] = os[p]
        BY <2>2, <2>3, <3>1, Zenon
      <4>2. ~IsHeld(c, p)
        BY <1>1, <3>1, <4>1, HeldIsUp, Zenon
      <4>3. IsRecorded(p)
        BY <1>1, <1>2, <3>1, <4>1, <4>2, Zenon DEF AccountedBy
      <4> QED BY <1>1, <4>1, <4>3, Zenon DEF IsRecorded
    <3> QED BY <3>1 DEF AccountedBy
  <2> QED BY <1>2, <2>1, <2>4, <2>5, <2>6, <2>7, OwnStep, Zenon
<1> QED BY <1>4, <1>5, <1>6 DEF Settle

(* The record of a launch or of a reuse, and the way out when the save fails. *)
LEMMA RecordStep ==
  ASSUME RuntimeInv, NEW c \in Commands, Record(c)
  PROVE  RuntimeInv'
<1> DEFINE r == cmd[c].launch
           n == [r EXCEPT !.mode = "process", !.tunnel = cmd[c].tunnel]
<1>1. cmd[c].pc = "record" /\ UNCHANGED <<aliases, os, abandoned>>
  BY DEF Record, at
<1>2. RuntimeTypes /\ cmd[c] \in RuntimeCommands /\ AccountedBy(c) /\ Knows(c)
      /\ Recorded /\ Born /\ lock = c /\ cmd[c].alias \in Aliases
      /\ \A d \in Commands \ {c} : cmd[d].pc = "idle"
  BY <1>1, UnderWay, Zenon
<1>3. CASE processes' = [processes EXCEPT ![cmd[c].alias] = n] /\ Return(c)
  <2>1. r \in ProcessRecords /\ cmd[c].tunnel \in Tunnels
    BY <1>2, Zenon DEF RuntimeCommands
  <2>2. n \in ProcessRecords /\ n.mode = "process" /\ n.pid = r.pid /\ n.birth = r.birth
    BY <2>1, Zenon DEF ProcessRecords
  <2> HIDE DEF n
  <2>3. processes' \in [Aliases -> ProcessRecords]
        /\ \A a \in Aliases : processes'[a] = IF a = cmd[c].alias THEN n ELSE processes[a]
    BY <1>2, <1>3, <2>2, Zenon DEF RuntimeTypes
  <2>4. Recorded'
    BY <1>2, <2>2, <2>3, Zenon DEF Recorded
  <2>5. ASSUME NEW p \in Pids, os[p].owner \in Aliases, os[p].birth \notin abandoned
        PROVE  IsRecorded(p)'
    <3>1. CASE os[p].owner = cmd[c].alias
      <4>1. r.pid = p /\ r.birth = os[p].birth
        BY <1>1, <1>2, <2>5, <3>1, Zenon DEF Knows, Launching, Up
      <4> QED BY <1>1, <2>2, <2>3, <2>5, <3>1, <4>1, Zenon DEF IsRecorded
    <3>2. CASE os[p].owner # cmd[c].alias
      <4>1. ~IsHeld(c, p)
        BY <1>1, <2>5, <3>2, HeldIsUp, Zenon
      <4> QED BY <1>1, <1>2, <2>3, <2>5, <3>2, <4>1, Zenon DEF AccountedBy, IsRecorded
    <3> QED BY <3>1, <3>2
  <2> QED BY <1>1, <1>2, <1>3, <2>3, <2>4, <2>5, ReturnStep, Zenon DEF RuntimeTypes
<1>4. CASE goto(c, "cleanupSignal") /\ UNCHANGED <<processes, lock>>
  <2> DEFINE k == [cmd[c] EXCEPT !.pc = "cleanupSignal"]
  <2>1. k \in RuntimeCommands /\ k.alias = cmd[c].alias /\ k.launched = cmd[c].launched
        /\ k.pc = "cleanupSignal" /\ k.launch = r
    BY <1>2 DEF RuntimeCommands, Places, Launching
  <2>2. cmd' = [cmd EXCEPT ![c] = k]
    BY <1>4 DEF goto
  <2> HIDE DEF k
  <2>3. cmd'[c] = k
    BY <1>2, <2>2 DEF RuntimeTypes
  <2>4. Knows(c)'
    BY <1>1, <1>2, <2>1, <2>3, ZenonT(30) DEF Knows, Launching, Up
  <2>5. AccountedBy(c)'
    BY <1>1, <1>2, <1>4, <2>1, <2>3, ZenonT(30) DEF AccountedBy, IsRecorded, IsHeld, holds
  <2> QED BY <1>1, <1>2, <1>4, <2>1, <2>2, <2>4, <2>5, QuietStep, Zenon DEF RuntimeTypes
<1>5. CASE /\ ~(cmd[c].launched /\ ProcessIdentityMatches(r))
           /\ Return(c) /\ UNCHANGED processes
  <2>1. \A p \in Pids : os[p].owner \in Aliases => ~IsHeld(c, p)
    BY <1>1, <1>5, HeldIsUp, Zenon
  <2>2. \A p \in Pids : os[p].owner \in Aliases /\ os[p].birth \notin abandoned => IsRecorded(p)'
    BY <1>1, <1>2, <1>5, <2>1, Zenon DEF AccountedBy, IsRecorded
  <2>3. Recorded'
    BY <1>2, <1>5, Zenon DEF Recorded
  <2> QED BY <1>1, <1>2, <1>5, <2>2, <2>3, ReturnStep, Zenon DEF RuntimeTypes
<1> QED BY <1>3, <1>4, <1>5 DEF Record, here

(* A command that is killed, or whose clean-up gives up, loses what it     *)
(* holds: it is named as abandoned.                                        *)
LEMMA LostStep ==
  ASSUME RuntimeInv, NEW c \in Commands, CleanupAwait(c) \/ Killed(c)
  PROVE  RuntimeInv'
<1>1. cmd[c].pc # "idle" /\ lose(c) /\ Return(c) /\ UNCHANGED <<aliases, processes, os>>
  BY Zenon DEF CleanupAwait, Killed, at
<1>2. RuntimeTypes /\ AccountedBy(c) /\ Recorded
  BY <1>1, UnderWay, Zenon
<1>3. abandoned \subseteq abandoned'
  BY <1>1, Zenon DEF lose
<1>4. ASSUME NEW p \in Pids, os[p].owner \in Aliases, os[p].birth \notin abandoned'
      PROVE  IsRecorded(p)'
  <2>1. ~IsHeld(c, p)
    <3>1. SUFFICES ASSUME IsHeld(c, p) PROVE FALSE
      OBVIOUS
    <3>2. holds(c) /\ ProcessIdentityMatches(cmd[c].launch)
          /\ cmd[c].launch.birth = os[p].birth
      BY <1>1, <1>4, <3>1, HeldIsUp, Zenon DEF IsHeld
    <3> QED BY <1>1, <1>4, <3>2, Zenon DEF lose
  <2> QED BY <1>1, <1>2, <1>3, <1>4, <2>1, Zenon DEF AccountedBy, IsRecorded
<1>5. Recorded'
  BY <1>1, <1>2, Zenon DEF Recorded
<1> QED BY <1>1, <1>2, <1>3, <1>4, <1>5, ReturnStep, Zenon DEF RuntimeTypes

(* The steps that write records off. *)
LEMMA DropSteps ==
  ASSUME RuntimeInv, NEW c \in Commands,
         SaveStopped(c) \/ Cleanup(c) \/ Remove(c)
  PROVE  RuntimeInv'
<1>1. cmd[c].pc \in {"stopped", "cleanup", "rm"} /\ Return(c) /\ UNCHANGED <<os, abandoned>>
  BY DEF SaveStopped, Cleanup, Remove, at
<1>2. RuntimeTypes /\ AccountedBy(c) /\ Recorded /\ Knows(c) /\ cmd[c].alias \in Aliases
  BY <1>1, UnderWay, Zenon
<1>3. \A p \in Pids : os[p].owner \in Aliases /\ os[p].birth \notin abandoned => IsRecorded(p)
  BY <1>1, <1>2, Zenon DEF AccountedBy, IsHeld, holds
<1>4. ASSUME aliases' \in [Aliases -> AliasRecords], processes' \in [Aliases -> ProcessRecords],
             \A a \in Aliases :
               \/ processes'[a] = processes[a]
               \/ processes'[a].pid = 0 /\ \A p \in Pids : ~Up(p, a)
      PROVE  RuntimeInv'
  <2>1. Recorded'
    BY <1>2, <1>4, Zenon DEF Recorded
  <2>2. \A p \in Pids : os[p].owner \in Aliases /\ os[p].birth \notin abandoned => IsRecorded(p)'
    BY <1>1, <1>3, <1>4, Zenon DEF IsRecorded, Up
  <2> QED BY <1>1, <1>2, <1>4, <2>1, <2>2, ReturnStep, Zenon
<1>5. \A a \in Aliases : processes[a].mode # "process" => \A p \in Pids : ~Up(p, a)
  <2> SUFFICES ASSUME NEW a \in Aliases, processes[a].mode # "process", NEW p \in Pids, Up(p, a)
               PROVE  FALSE
    BY Zenon
  <2>1. processes[a].pid = 0 /\ processes[a].pid = p
    BY <1>2, <1>3, Zenon DEF IsRecorded, Up, Recorded
  <2> QED BY <2>1, RuntimeAssumption, Zenon
<1>6. CASE SaveStopped(c)
  <2> DEFINE n == [NoRecord EXCEPT !.mode = "stopped", !.tunnel = processes[cmd[c].alias].tunnel]
  <2>1. n \in ProcessRecords /\ n.pid = 0
    BY <1>2, IdleTypes, Zenon DEF RuntimeTypes, ProcessRecords, NoRecord
  <2>2. processes' = [processes EXCEPT ![cmd[c].alias] = n] \/ UNCHANGED processes
    BY <1>6 DEF SaveStopped, here
  <2>3. \A p \in Pids : ~Up(p, cmd[c].alias)
    BY <1>2, <1>6 DEF SaveStopped, at, Knows
  <2>4. UNCHANGED aliases
    BY <1>6 DEF SaveStopped
  <2> HIDE DEF n
  <2> QED BY <1>2, <1>4, <2>1, <2>2, <2>3, <2>4 DEF RuntimeTypes
<1>7. CASE Cleanup(c)
  <2>1. PICK found \in [Aliases -> BOOLEAN] :
          LET drop == {a \in Aliases : stale(a, found[a])} IN
          /\ aliases' = [a \in Aliases |-> IF a \in drop THEN NoAlias ELSE aliases[a]]
          /\ \/ processes' = [a \in Aliases |-> IF a \in drop THEN NoRecord ELSE processes[a]]
             \/ UNCHANGED processes
    BY <1>7, Zenon DEF Cleanup
  <2> DEFINE drop == {a \in Aliases : stale(a, found[a])}
  <2>2. \A a \in drop : processes[a].mode # "process"
    BY Zenon DEF stale, profilePath
  <2> HIDE DEF drop
  <2>3. aliases' \in [Aliases -> AliasRecords] /\ processes' \in [Aliases -> ProcessRecords]
    BY <1>2, <2>1, IdleTypes, Zenon DEF RuntimeTypes, drop
  <2>4. \A a \in Aliases : processes'[a] = processes[a] \/ (a \in drop /\ processes'[a] = NoRecord)
    BY <2>1 DEF drop
  <2>5. NoRecord.pid = 0 /\ drop \subseteq Aliases
    BY Zenon DEF NoRecord, drop
  <2> QED BY <1>4, <1>5, <2>2, <2>3, <2>4, <2>5, Zenon
<1>8. CASE Remove(c)
  <2>1. processes[cmd[c].alias].mode # "process"
    BY <1>8, Zenon DEF Remove, here
  <2>2. processes' = [processes EXCEPT ![cmd[c].alias] = NoRecord] \/ UNCHANGED processes
    BY <1>8, Zenon DEF Remove, here
  <2>3. aliases' = [aliases EXCEPT ![cmd[c].alias] = NoAlias]
    BY <1>8, Zenon DEF Remove, here
  <2>4. aliases' \in [Aliases -> AliasRecords] /\ processes' \in [Aliases -> ProcessRecords]
    BY <1>2, <2>2, <2>3, IdleTypes DEF RuntimeTypes
  <2>5. \A a \in Aliases : processes'[a] = processes[a]
                           \/ (a = cmd[c].alias /\ processes'[a] = NoRecord)
    BY <1>2, <2>2 DEF RuntimeTypes
  <2>6. NoRecord.pid = 0
    BY DEF NoRecord
  <2> QED BY <1>2, <1>4, <1>5, <2>1, <2>4, <2>5, <2>6, Zenon
<1> QED BY <1>6, <1>7, <1>8

(* A process exits, or its PID goes to a process that is not managed. *)
LEMMA ProcessSteps ==
  ASSUME RuntimeInv, NEW p \in Pids, Exits(p) \/ Stranger(p)
  PROVE  RuntimeInv'
<1>1. UNCHANGED <<lock, cmd, aliases, processes>>
  BY DEF Exits, Stranger
<1>2. RuntimeTypes /\ Locked /\ Recorded /\ Born /\ (\A c \in Commands : Knows(c)) /\ Accounted
  BY DEF RuntimeInv
<1> DEFINE o == [Nobody EXCEPT !.owner = "stranger"]
<1>3. o \in OSProcesses /\ o.owner \notin Aliases /\ o.birth = 0
      /\ Nobody \in OSProcesses /\ Nobody.owner \notin Aliases
      /\ Nobody.birth = 0
  BY IdleTypes, RuntimeAssumption, Zenon DEF OSProcesses, Nobody
<1>4. os' = [os EXCEPT ![p] = Nobody] \/ os' = [os EXCEPT ![p] = o]
  BY DEF Exits, Stranger
<1> HIDE DEF o
<1>5. os' \in [Pids -> OSProcesses] /\ os'[p].owner \notin Aliases /\ os'[p].birth = 0
      /\ \A q \in Pids \ {p} : os'[q] = os[q]
  BY <1>2, <1>3, <1>4, Zenon DEF RuntimeTypes
<1>6. ASSUME NEW q \in Pids, os'[q].owner \in Aliases, os'[q].birth \notin abandoned'
      PROVE  q # p /\ os'[q] = os[q] /\ os[q].birth \notin abandoned
  <2>1. q # p /\ os'[q] = os[q]
    BY <1>5, <1>6
  <2>2. CASE Stranger(p)
    BY <1>6, <2>1, <2>2 DEF Stranger
  <2>3. CASE Exits(p)
    <3>1. abandoned' = abandoned \ {os[p].birth} /\ os[p] # Nobody
      BY <2>3 DEF Exits
    <3>2. os[q].birth # os[p].birth
      BY <1>2, <1>6, <2>1, Zenon DEF Born
    <3> QED BY <1>6, <2>1, <3>1, <3>2, Zenon
  <2> QED BY <2>1, <2>2, <2>3, Zenon
<1>7. RuntimeTypes' /\ Locked' /\ Recorded'
  BY <1>1, <1>2, <1>5, Zenon DEF RuntimeTypes, Locked, Recorded
<1>8. Born'
  BY <1>2, <1>5, Zenon DEF Born
<1>9. ASSUME NEW c \in Commands PROVE Knows(c)'
  <2>1. \A q \in Pids : cmd[c].alias \in Aliases /\ os'[q].owner = cmd[c].alias
          /\ os'[q].birth \notin abandoned' => Up(q, cmd[c].alias) /\ os'[q] = os[q]
    BY <1>6, Zenon DEF Up
  <2>2. \A q \in Pids : os'[q].owner \in Aliases => os'[q] = os[q]
    BY <1>5, Zenon
  <2>3. cmd[c].pc # "idle" => cmd[c].alias \in Aliases
    BY <1>2 DEF Locked
  <2>4. cmd[c].pc \in {"start", "stopped", "signal", "await"} \cup Launching => cmd[c].pc # "idle"
    BY Zenon DEF Launching
  <2>5. cmd[c].pc # "idle" => \A q \in Pids : Up(q, cmd[c].alias)' =>
          Up(q, cmd[c].alias) /\ os'[q] = os[q]
    BY <1>1, <2>1, <2>3, Zenon DEF Up
  <2>6. Knows(c) /\ cmd'[c] = cmd[c] /\ processes' = processes
    BY <1>1, <1>2, Zenon
  <2>7. cmd[c].pc \in {"start", "stopped"} => \A q \in Pids : ~Up(q, cmd[c].alias)'
    BY <2>4, <2>5, <2>6, Zenon DEF Knows
  <2>8. cmd[c].pc \in {"signal", "await"} \cup Launching => \A q \in Pids :
          Up(q, cmd[c].alias)' => cmd[c].launch.pid = q /\ cmd[c].launch.birth = os'[q].birth
    <3>1. cmd[c].pc \in {"signal", "await"} \cup Launching => \A q \in Pids :
            Up(q, cmd[c].alias) => cmd[c].launch.pid = q /\ cmd[c].launch.birth = os[q].birth
      BY <2>6, Zenon DEF Knows
    <3>2. cmd[c].pc \in {"signal", "await"} \cup Launching => cmd[c].pc # "idle"
      BY <2>4, Zenon
    <3> QED BY <2>5, <3>1, <3>2, Zenon
  <2>9. cmd[c].launched => \A q \in Pids :
          os'[q].owner \in Aliases /\ os'[q].birth = cmd[c].launch.birth =>
            q = cmd[c].launch.pid /\ os'[q].owner = cmd[c].alias
    <3>1. cmd[c].launched => \A q \in Pids :
            os[q].owner \in Aliases /\ os[q].birth = cmd[c].launch.birth =>
              q = cmd[c].launch.pid /\ os[q].owner = cmd[c].alias
      BY <2>6, Zenon DEF Knows
    <3>2. ASSUME NEW q \in Pids, os'[q].owner \in Aliases PROVE os'[q] = os[q]
      BY <2>2, <3>2, Zenon
    <3> QED BY <3>1, <3>2, Zenon
  <2> QED BY <2>6, <2>7, <2>8, <2>9, ZenonT(60) DEF Knows, Up
<1>10. Accounted'
  BY <1>1, <1>2, <1>6, ZenonT(60) DEF Accounted, inHand, holds
<1> QED BY <1>7, <1>8, <1>9, <1>10 DEF RuntimeInv

(* Every step of a command, of the operating system and of the processes   *)
(* keeps the invariant.                                                    *)
LEMMA RuntimeStep == RuntimeInv /\ [Next]_vars => RuntimeInv'
<1> SUFFICES ASSUME RuntimeInv, [Next]_vars PROVE RuntimeInv'
  OBVIOUS
<1>1. ASSUME NEW c \in Commands, Step(c) PROVE RuntimeInv'
  BY <1>1, EarlySteps, StopSteps, SignalStep, StartStep, SettleStep, RecordStep, LostStep, DropSteps, Zenon
     DEF Step
<1>2. CASE UNCHANGED vars
  <2>1. UNCHANGED <<lock, cmd, aliases, processes, os, abandoned>>
    BY <1>2 DEF vars
  <2>2. RuntimeTypes' /\ Locked' /\ Recorded' /\ Born'
    BY <2>1, Zenon DEF RuntimeInv, RuntimeTypes, Locked, Recorded, Born
  <2>3. \A c \in Commands : Knows(c)'
    BY <2>1, ZenonT(30) DEF RuntimeInv, Knows, Up
  <2>4. Accounted'
    BY <2>1, Zenon DEF RuntimeInv, Accounted, inHand, holds
  <2> QED BY <2>2, <2>3, <2>4 DEF RuntimeInv
<1> QED BY <1>1, <1>2, ProcessSteps DEF Next

(* Every behaviour of the commands and processes keeps the invariant. *)
THEOREM RuntimeInvariant == Spec => []RuntimeInv
  BY RuntimeStarts, RuntimeStep, PTL DEF Spec

(* For any commands, aliases, process IDs and start times, every managed   *)
(* runtime that is up is the one the record of its alias names, or in the  *)
(* hands of a running connect, unless a command lost it: the lock, the     *)
(* start times and the order of the saves in manager.go.                   *)
THEOREM AccountedThm == Spec => []Accounted
<1>1. RuntimeInv => Accounted
  BY DEF RuntimeInv
<1> QED BY <1>1, RuntimeInvariant, PTL

-----------------------------------------------------------------------------
(* AdminProfiles.                                                          *)

(* A document as a command saves it: the active profile is one of those it *)
(* holds, and there is one as soon as it holds any.                        *)
Doc(d) ==
  /\ d = [active |-> d.active, profiles |-> d.profiles]
  /\ DOMAIN d.profiles \subseteq Nat \ {0}
  /\ d.active = 0 <=> DOMAIN d.profiles = {}
  /\ d.active # 0 => d.active \in DOMAIN d.profiles

(* What a file holds, and what a command does. *)
IsFile(d) == Doc(d) \/ ~whole(d)
HasFields(k) ==
  k = [pc |-> k.pc, op |-> k.op, name |-> k.name, alias |-> k.alias, given |-> k.given,
       doc |-> k.doc, at |-> k.at]
IsCommand(k) ==
  /\ HasFields(k) /\ Doc(k.doc) /\ (TakesLock(k.op) => k.alias \in ProfileAliases)
  /\ k.name \in Nat /\ (k.pc = "load" => k.name # 0)

Saved ==
  /\ IsFile(file) /\ IsFile(tmp)
  /\ adminCmd = [c \in ProfileCommands |-> adminCmd[c]]
  /\ \A c \in ProfileCommands : IsCommand(adminCmd[c])
  /\ aliasProfile \in [ProfileAliases -> Nat] /\ processProfile \in [ProfileAliases -> Nat]

(* A document that holds every profile a record names, and the profile     *)
(* that a connect or stop is going to name.                                *)
Covers(d) ==
  \A a \in ProfileAliases : {aliasProfile[a], processProfile[a]} \ {0} \subseteq DOMAIN d.profiles
Keeps(k, d) == Doc(d) /\ Covers(d) /\ (TakesLock(k.op) => k.name \in DOMAIN d.profiles)

(* What a command that runs alone knows at each of its steps. *)
Turn(k) ==
  /\ k.pc = "check" => k.doc = file /\ k.op = "delete"
  /\ k.pc \in {"open", "write"} => Keeps(k, k.doc)
  /\ k.pc = "write" => k.at = "tmp" /\ tmp = Empty
  /\ k.pc = "rename" => tmp # Absent /\ Keeps(k, tmp)
  /\ k.pc \in {"record", "recordProcess"} => k.name \in DOMAIN file.profiles

(* Only c is under way. *)
RunsAlone(c) == \A d \in ProfileCommands \ {c} : adminCmd[d] = IdleCommand

OneByOne ==
  /\ Doc(file) /\ Covers(file)
  /\ \A c \in ProfileCommands : adminCmd[c] # IdleCommand => RunsAlone(c) /\ Turn(adminCmd[c])

(* The inductive invariant of the admin profiles. *)
ProfilesInv == Saved /\ overlapped \in BOOLEAN /\ (~overlapped => OneByOne)

(* That < is well-founded on the naturals is needed from here on. *)
INSTANCE WellFoundedInduction

(* A set of names has a first one. *)
LEMMA FirstName ==
  ASSUME NEW S, S \subseteq Nat, S # {}
  PROVE  Min(S) \in S
<1> DEFINE R == OpToRel(<, Nat)
<1>1. PICK x \in S : \A y \in S : ~(<<y, x>> \in R)
  <2>1. IsWellFoundedOn(R, Nat)
    BY NatLessThanWellFounded, Zenon
  <2> HIDE DEF R
  <2> QED BY <2>1, WFMin, Zenon
<1>2. \A y \in S : x <= y
  <2> SUFFICES ASSUME NEW y \in S PROVE x <= y
    OBVIOUS
  <2>1. x \in Nat /\ y \in Nat
    OBVIOUS
  <2>2. y < x => <<y, x>> \in R
    BY <2>1, Zenon DEF OpToRel
  <2>3. ~(y < x)
    BY <1>1, <2>2, Zenon
  <2> QED BY <2>1, <2>3
<1> QED BY <1>2, Zenon DEF Min

LEMMA MakesDoc ==
  ASSUME NEW x, NEW r, DOMAIN r \subseteq Nat \ {0}, x = 0 <=> DOMAIN r = {},
         x # 0 => x \in DOMAIN r
  PROVE  Doc([active |-> x, profiles |-> r]) /\ [active |-> x, profiles |-> r].profiles = r
<1>1. PICK d : d = [active |-> x, profiles |-> r]
  BY Zenon
<1>2. d.active = x /\ d.profiles = r
  BY <1>1, Zenon
<1>3. d = [active |-> d.active, profiles |-> d.profiles]
  BY <1>1, <1>2, Zenon
<1>4. Doc(d)
  BY <1>2, <1>3, Zenon DEF Doc
<1> QED BY <1>1, <1>2, <1>4, Zenon

(* What the commands save are documents. *)
LEMMA SetIsDoc ==
  ASSUME NEW d, Doc(d), NEW n \in Nat \ {0}, NEW given, NEW activate \in BOOLEAN
  PROVE  /\ Doc(SetAdminProfile(d, n, given, activate))
         /\ DOMAIN SetAdminProfile(d, n, given, activate).profiles = DOMAIN d.profiles \cup {n}
<1> DEFINE r == withProfile(d, n, resolvedSettings(d, n, given))
<1>1. DOMAIN r = DOMAIN d.profiles \cup {n}
  BY Zenon DEF withProfile
<1> HIDE DEF r
<1>2. PICK x : x = IF activate \/ d.active = 0 THEN n ELSE d.active
  OBVIOUS
<1>3. SetAdminProfile(d, n, given, activate) = [active |-> x, profiles |-> r]
  BY <1>2, Zenon DEF SetAdminProfile, r
<1>4. x \in DOMAIN r /\ x # 0 /\ DOMAIN r \subseteq Nat \ {0}
  BY <1>1, <1>2, Zenon DEF Doc
<1> QED BY <1>1, <1>3, <1>4, MakesDoc, ZenonT(30)

LEMMA ResolveIsDoc ==
  ASSUME NEW d, Doc(d), NEW n \in Nat \ {0}, NEW given
  PROVE  /\ Doc(resolveAdminProfile(d, n, given))
         /\ DOMAIN resolveAdminProfile(d, n, given).profiles = DOMAIN d.profiles \cup {n}
<1> DEFINE r == withProfile(d, n, resolvedSettings(d, n, given))
<1>1. DOMAIN r = DOMAIN d.profiles \cup {n}
  BY Zenon DEF withProfile
<1> HIDE DEF r
<1>2. resolveAdminProfile(d, n, given) = [active |-> n, profiles |-> r]
  BY DEF resolveAdminProfile, r
<1>3. n \in DOMAIN r /\ n # 0 /\ DOMAIN r \subseteq Nat \ {0}
  BY <1>1, Zenon DEF Doc
<1> QED BY <1>1, <1>2, <1>3, MakesDoc, ZenonT(30)

LEMMA DeleteIsDoc ==
  ASSUME NEW d, Doc(d), NEW n
  PROVE  /\ Doc(DeleteAdminProfile(d, n))
         /\ DOMAIN DeleteAdminProfile(d, n).profiles = DOMAIN d.profiles \ {n}
<1> DEFINE r == Restrict(d.profiles, DOMAIN d.profiles \ {n})
<1>1. DOMAIN r = DOMAIN d.profiles \ {n}
  BY DEF Restrict
<1> HIDE DEF r
<1>2. PICK x : x = IF d.active = n THEN firstProfileName(r) ELSE d.active
  OBVIOUS
<1>3. DeleteAdminProfile(d, n) = [active |-> x, profiles |-> r]
  BY <1>2, Zenon DEF DeleteAdminProfile, r
<1>4. DOMAIN r \subseteq Nat \ {0}
  BY <1>1 DEF Doc
<1>5. (x = 0 <=> DOMAIN r = {}) /\ (x # 0 => x \in DOMAIN r)
  <2>1. CASE d.active = n
    <3>1. DOMAIN r # {} => firstProfileName(r) \in DOMAIN r
      BY <1>4, FirstName DEF firstProfileName
    <3> QED BY <1>2, <1>4, <2>1, <3>1, Zenon DEF firstProfileName
  <2>2. CASE d.active # n
    BY <1>1, <1>2, <2>2, Zenon DEF Doc
  <2> QED BY <2>1, <2>2
<1> QED BY <1>1, <1>3, <1>4, <1>5, MakesDoc, Zenon

LEMMA NothingIsDoc == Doc(NoDoc) /\ IsCommand(IdleCommand) /\ DOMAIN NoDoc.profiles = {}
<1>1. Doc(NoDoc) /\ DOMAIN NoDoc.profiles = {}
  BY DEF Doc, NoDoc
<1>2. ~TakesLock(IdleCommand.op)
  BY Zenon DEF IdleCommand, TakesLock
<1> QED BY <1>1, <1>2, Zenon DEF IsCommand, HasFields, IdleCommand

(* A command goes on as k while the others stay as they are, or follow the *)
(* inode that it moves.                                                    *)
LEMMA CommandGoesOn ==
  ASSUME ProfilesInv, NEW c \in ProfileCommands, NEW k, IsCommand(k),
         adminCmd' = [d \in ProfileCommands |-> adminCmd'[d]], adminCmd'[c] = k,
         \A d \in ProfileCommands \ {c} :
           IsCommand(adminCmd'[d]) /\ (adminCmd[d] = IdleCommand => adminCmd'[d] = IdleCommand),
         IsFile(file'), IsFile(tmp'),
         aliasProfile' \in [ProfileAliases -> Nat], processProfile' \in [ProfileAliases -> Nat],
         overlapped' \in BOOLEAN,
         ~overlapped' => RunsAlone(c) /\ Doc(file') /\ Covers(file)' /\ (k # IdleCommand => Turn(k)')
  PROVE  ProfilesInv'
<1>1. Saved'
  <2>1. \A d \in ProfileCommands : IsCommand(adminCmd'[d])
    OBVIOUS
  <2> QED BY <2>1, Zenon DEF Saved, IsFile, whole, Absent, Empty, Torn, Unreadable, Doc, IsCommand, HasFields
<1>2. ASSUME ~overlapped' PROVE OneByOne'
  <2>1. \A d \in ProfileCommands \ {c} : adminCmd'[d] = IdleCommand
    BY <1>2, Zenon DEF RunsAlone
  <2>2. RunsAlone(c)'
    BY <2>1, Zenon DEF RunsAlone
  <2>3. \A d \in ProfileCommands : adminCmd'[d] # IdleCommand => d = c
    BY <2>1, Zenon
  <2>4. adminCmd'[c] # IdleCommand => Turn(adminCmd[c])'
    BY <1>2, Zenon DEF Turn, Keeps, Covers
  <2> QED BY <1>2, <2>2, <2>3, <2>4, Zenon DEF OneByOne
<1> QED BY <1>1, <1>2, Zenon DEF ProfilesInv

(* The same for a command that changes only its own entry. *)
LEMMA CommandStays ==
  ASSUME ProfilesInv, NEW c \in ProfileCommands, NEW k, IsCommand(k),
         adminCmd' = [adminCmd EXCEPT ![c] = k]
  PROVE  /\ adminCmd' = [d \in ProfileCommands |-> adminCmd'[d]] /\ adminCmd'[c] = k
         /\ \A d \in ProfileCommands \ {c} :
              /\ IsCommand(adminCmd'[d])
              /\ adminCmd[d] = IdleCommand => adminCmd'[d] = IdleCommand
<1>1. /\ adminCmd = [d \in ProfileCommands |-> adminCmd[d]]
      /\ \A d \in ProfileCommands : IsCommand(adminCmd[d])
  BY DEF ProfilesInv, Saved
<1>2. adminCmd' = [d \in ProfileCommands |-> IF d = c THEN k ELSE adminCmd[d]]
  BY <1>1
<1>3. adminCmd'[c] = k /\ \A d \in ProfileCommands \ {c} : adminCmd'[d] = adminCmd[d]
  BY <1>2
<1>4. adminCmd' = [d \in ProfileCommands |-> adminCmd'[d]]
  BY <1>2, Zenon
<1> QED BY <1>1, <1>3, <1>4, Zenon

(* A command under way runs alone as long as none has overlapped. *)
LEMMA ItsTurn ==
  ASSUME ProfilesInv, NEW c \in ProfileCommands, adminCmd[c].pc # "idle"
  PROVE  /\ IsCommand(adminCmd[c])
         /\ ~overlapped => RunsAlone(c) /\ Turn(adminCmd[c]) /\ Doc(file) /\ Covers(file)
<1>1. IdleCommand.pc = "idle"
  BY Zenon DEF IdleCommand
<1>2. adminCmd[c] # IdleCommand
  BY <1>1
<1> QED BY <1>2, Zenon DEF ProfilesInv, Saved, OneByOne

(* What none of the steps before the recording touches. *)
LEMMA RecordsStay ==
  ASSUME ProfilesInv, UNCHANGED <<aliasProfile, processProfile>>
  PROVE  /\ aliasProfile' \in [ProfileAliases -> Nat] /\ processProfile' \in [ProfileAliases -> Nat]
         /\ \A d : Covers(d) => Covers(d)'
BY Zenon DEF ProfilesInv, Saved, Covers

(* A document is no missing file. *)
LEMMA DocIsThere ==
  ASSUME NEW d, Doc(d)
  PROVE  d # Absent
<1>1. DOMAIN [active |-> d.active, profiles |-> d.profiles] = {"active", "profiles"}
  BY Zenon
<1>2. DOMAIN Absent = {"active", "profiles", "bad"}
  BY Zenon DEF Absent, Unreadable
<1>3. {"active", "profiles"} # {"active", "profiles", "bad"}
  OBVIOUS
<1>4. DOMAIN d = {"active", "profiles"}
  BY <1>1, Zenon DEF Doc
<1> QED BY <1>2, <1>3, <1>4

LEMMA IdleStays == IdleCommand.at = "" /\ [IdleCommand EXCEPT !.at = ""] = IdleCommand
<1>1. IdleCommand.at = ""
  BY Zenon DEF IdleCommand
<1>2. ASSUME NEW p, NEW o, NEW n, NEW a, NEW g, NEW d, NEW t
      PROVE  [[pc |-> p, op |-> o, name |-> n, alias |-> a, given |-> g, doc |-> d, at |-> t]
                EXCEPT !.at = t]
               = [pc |-> p, op |-> o, name |-> n, alias |-> a, given |-> g, doc |-> d, at |-> t]
  OBVIOUS
<1> QED BY <1>1, <1>2, Zenon DEF IdleCommand

(* A command ends. *)
LEMMA FinishStep ==
  ASSUME ProfilesInv, NEW c \in ProfileCommands, adminCmd[c].pc # "idle", Finish(c),
         UNCHANGED <<tmp, overlapped, file>>,
         aliasProfile' \in [ProfileAliases -> Nat], processProfile' \in [ProfileAliases -> Nat],
         ~overlapped => Covers(file)'
  PROVE  ProfilesInv'
<1>1. PICK k : k = IdleCommand
  BY Zenon
<1>2. IsCommand(k) /\ adminCmd' = [adminCmd EXCEPT ![c] = k]
  BY <1>1, NothingIsDoc, Zenon DEF Finish
<1>3. IsFile(file') /\ IsFile(tmp') /\ overlapped' \in BOOLEAN
  BY DEF ProfilesInv, Saved
<1>4. ~overlapped' => RunsAlone(c) /\ Doc(file') /\ Covers(file)'
  BY ItsTurn, Zenon
<1> QED BY <1>1, <1>2, <1>3, <1>4, CommandStays, CommandGoesOn, Zenon

(* A command starts; the others that are under way make it overlap. *)
LEMMA BeginStep ==
  ASSUME ProfilesInv, NEW c \in ProfileCommands, BeginCommand(c)
  PROVE  ProfilesInv'
<1>1. PICK op \in {"set", "setActive", "activate", "delete", "connect", "stop", "list"},
           n \in Profiles \cup {0}, a \in ProfileAliases, g \in Settings \cup {""} :
        adminCmd' = [adminCmd EXCEPT ![c] =
            [IdleCommand EXCEPT
               !.pc = "load", !.op = op, !.given = g,
               !.alias = IF TakesLock(op) THEN a ELSE "",
               !.name = IF n # 0 THEN n
                        ELSE IF TakesLock(op) /\ aliasProfile[a] # 0 THEN aliasProfile[a]
                        ELSE Default]]
  BY ZenonT(60) DEF BeginCommand
<1>2. PICK alias : alias = IF TakesLock(op) THEN a ELSE ""
  BY Zenon
<1>3. PICK name : name = IF n # 0 THEN n
                         ELSE IF TakesLock(op) /\ aliasProfile[a] # 0 THEN aliasProfile[a]
                         ELSE Default
  BY Zenon
<1>4. name \in Nat \ {0}
  BY <1>3, ProfilesAssumption, Zenon DEF ProfilesInv, Saved
<1>5. PICK k : k = [IdleCommand EXCEPT !.pc = "load", !.op = op, !.given = g, !.alias = alias,
                                       !.name = name]
  BY Zenon
<1>6. adminCmd' = [adminCmd EXCEPT ![c] = k]
  BY <1>1, <1>2, <1>3, <1>5, Zenon
<1>7. IsCommand(k) /\ k.pc = "load"
  <2>1. /\ HasFields(k) /\ k.pc = "load" /\ k.name = name /\ k.doc = NoDoc /\ k.op = op
        /\ k.alias = alias
    BY <1>5, Zenon DEF HasFields, IdleCommand
  <2> QED BY <1>2, <1>4, <2>1, NothingIsDoc, Zenon DEF IsCommand
<1>8. UNCHANGED <<file, tmp, aliasProfile, processProfile>>
  BY Zenon DEF BeginCommand
<1>9. IsFile(file') /\ IsFile(tmp') /\ overlapped' \in BOOLEAN
  BY <1>8, Zenon DEF ProfilesInv, Saved, BeginCommand
<1>10. ~overlapped' => ~overlapped /\ RunsAlone(c)
  BY Zenon DEF BeginCommand, RunsAlone
<1>11. ~overlapped' => Doc(file') /\ Covers(file)'
  BY <1>8, <1>10, RecordsStay, Zenon DEF ProfilesInv, OneByOne, Covers
<1>12. Turn(k)'
  BY <1>7, Zenon DEF Turn
<1> QED BY <1>6, <1>7, <1>8, <1>9, <1>10, <1>11, <1>12, RecordsStay, CommandStays, CommandGoesOn, Zenon

(* Remove and CleanupInventory take references away. *)
LEMMA ForgetStep ==
  ASSUME ProfilesInv, NEW c \in ProfileCommands, NEW a \in ProfileAliases, Forget(c, a)
  PROVE  ProfilesInv'
<1>1. /\ aliasProfile' = [aliasProfile EXCEPT ![a] = 0]
      /\ processProfile' = [processProfile EXCEPT ![a] = 0]
      /\ UNCHANGED <<file, tmp, adminCmd>> /\ adminCmd[c] = IdleCommand
      /\ overlapped' = (overlapped \/ \E d \in ProfileCommands \ {c} : adminCmd[d] # IdleCommand)
  BY Zenon DEF Forget
<1>2. aliasProfile \in [ProfileAliases -> Nat] /\ processProfile \in [ProfileAliases -> Nat]
  BY DEF ProfilesInv, Saved
<1>3. aliasProfile' \in [ProfileAliases -> Nat] /\ processProfile' \in [ProfileAliases -> Nat]
  BY <1>1, <1>2, Zenon
<1>4. \A d : Covers(d) => Covers(d)'
  BY <1>1, <1>2, Zenon DEF Covers
<1>5. Saved'
  BY <1>1, <1>3, Zenon DEF ProfilesInv, Saved
<1>6. ASSUME ~overlapped' PROVE OneByOne'
  <2>1. ~overlapped /\ \A d \in ProfileCommands : adminCmd'[d] = IdleCommand
    BY <1>1, <1>6, Zenon
  <2>2. Doc(file') /\ Covers(file)'
    BY <1>1, <1>4, <2>1, Zenon DEF ProfilesInv, OneByOne, Covers
  <2> QED BY <2>1, <2>2 DEF OneByOne
<1>7. overlapped' \in BOOLEAN
  BY <1>1, Zenon DEF ProfilesInv
<1> QED BY <1>5, <1>6, <1>7 DEF ProfilesInv

(* A command that saves keeps what it still needs. *)
LEMMA SavingIsCommand ==
  ASSUME NEW k, IsCommand(k), NEW d, Doc(d)
  PROVE  /\ IsCommand(saving(k, d)) /\ saving(k, d).pc = "open" /\ saving(k, d).doc = d
         /\ TakesLock(saving(k, d).op) => TakesLock(k.op) /\ saving(k, d).name = k.name
<1>1. PICK s : s = saving(k, d)
  OBVIOUS
<1>2. CASE TakesLock(k.op)
  <2>1. s = [k EXCEPT !.pc = "open", !.doc = d, !.given = ""]
    BY <1>1, <1>2 DEF saving
  <2>2. HasFields(k)
    BY DEF IsCommand
  <2>3. /\ HasFields(s) /\ s.pc = "open" /\ s.doc = d /\ s.name = k.name /\ s.op = k.op
        /\ s.alias = k.alias
    BY <2>1, <2>2, Zenon DEF HasFields
  <2>4. IsCommand(s)
    BY <2>3, Zenon DEF IsCommand
  <2> QED BY <1>1, <1>2, <2>3, <2>4, Zenon
<1>3. CASE ~TakesLock(k.op)
  <2>1. s = [IdleCommand EXCEPT !.pc = "open", !.doc = d]
    BY <1>1, <1>3 DEF saving
  <2>2. HasFields(s) /\ s.pc = "open" /\ s.doc = d /\ s.name = 0 /\ s.op = ""
    BY <2>1, Zenon DEF HasFields, IdleCommand
  <2>3. ~TakesLock(s.op)
    BY <2>2, Zenon DEF TakesLock
  <2>4. IsCommand(s)
    <3>1. s.name \in Nat
      <4>1. 0 \in Nat
        OBVIOUS
      <4> QED BY <2>2, <4>1, Zenon
    <3>2. s.pc # "load"
      BY <2>2, Zenon
    <3> QED BY <2>2, <2>3, <3>1, <3>2, Zenon DEF IsCommand
  <2> QED BY <1>1, <2>2, <2>3, <2>4, Zenon
<1> QED BY <1>2, <1>3, Zenon

(* A command goes on from what it has loaded to saving d. *)
LEMMA SaveStep ==
  ASSUME ProfilesInv, NEW c \in ProfileCommands, adminCmd[c].pc # "idle", NEW d, Doc(d),
         NEW j, IsCommand(j), adminCmd' = [adminCmd EXCEPT ![c] = saving(j, d)],
         UNCHANGED <<file, tmp, aliasProfile, processProfile, overlapped>>,
         ~overlapped => Keeps(j, d)
  PROVE  ProfilesInv'
<1>1. PICK k : k = saving(j, d)
  BY Zenon
<1>2. /\ IsCommand(k) /\ k.pc = "open" /\ k.doc = d
      /\ TakesLock(k.op) => TakesLock(j.op) /\ k.name = j.name
  BY <1>1, SavingIsCommand, ZenonT(30)
<1>3. IsFile(file') /\ IsFile(tmp') /\ overlapped' \in BOOLEAN
  BY Zenon DEF ProfilesInv, Saved
<1>4. ~overlapped' => RunsAlone(c) /\ Doc(file') /\ Covers(file)'
  BY ItsTurn, RecordsStay, Zenon DEF Covers
<1>5. ~overlapped' => Turn(k)'
  <2>1. ~overlapped => Keeps(k, d)
    BY <1>2, Zenon DEF Keeps
  <2>2. ~overlapped => Keeps(k, d)'
    BY <2>1, RecordsStay, Zenon DEF Keeps
  <2> QED BY <1>2, <2>2, Zenon DEF Turn
<1>6. adminCmd' = [adminCmd EXCEPT ![c] = k]
  BY <1>1, Zenon
<1> QED BY <1>2, <1>3, <1>4, <1>5, <1>6, RecordsStay, CommandStays, CommandGoesOn, Zenon

(* A command changes where it is, and the records stay. *)
LEMMA MoveStep ==
  ASSUME ProfilesInv, NEW c \in ProfileCommands, adminCmd[c].pc # "idle", NEW k, IsCommand(k),
         adminCmd' = [adminCmd EXCEPT ![c] = k],
         UNCHANGED <<aliasProfile, processProfile, overlapped>>,
         IsFile(file'), IsFile(tmp'),
         ~overlapped => file' = file /\ Turn(k)'
  PROVE  ProfilesInv'
<1>1. overlapped' \in BOOLEAN
  BY Zenon DEF ProfilesInv
<1>2. ~overlapped' => RunsAlone(c) /\ Doc(file') /\ Covers(file)'
  BY ItsTurn, RecordsStay, Zenon DEF Covers
<1> QED BY <1>1, <1>2, RecordsStay, CommandStays, CommandGoesOn, Zenon

(* LoadAdminProfiles, and what a command makes of the document. *)
LEMMA LoadStep ==
  ASSUME ProfilesInv, NEW c \in ProfileCommands, Load(c)
  PROVE  ProfilesInv'
<1> DEFINE k == adminCmd[c]
<1>1. /\ k.pc = "load" /\ k.pc # "idle"
      /\ UNCHANGED <<file, tmp, aliasProfile, processProfile, overlapped>>
  BY Zenon DEF Load
<1>2. IsCommand(k) /\ k.name \in Nat \ {0}
  BY <1>1, ItsTurn, Zenon DEF IsCommand
<1>3. CASE Finish(c)
  <2>1. ~overlapped => Covers(file)'
    BY <1>1, ItsTurn, RecordsStay, Zenon DEF Covers
  <2> QED BY <1>1, <1>3, <2>1, RecordsStay, FinishStep, Zenon
<1>4. ASSUME ~Finish(c) PROVE whole(file) /\ Doc(file)
  <2>1. whole(file)
    BY <1>4, Zenon DEF Load
  <2> QED BY <2>1 DEF ProfilesInv, Saved, IsFile
<1>5. ASSUME NEW d, Doc(d), ~overlapped => Keeps(k, d),
             adminCmd' = [adminCmd EXCEPT ![c] = saving(k, d)]
      PROVE  ProfilesInv'
  BY <1>1, <1>2, <1>5, SaveStep, Zenon
<1>6. ASSUME NEW d, Doc(d), DOMAIN d.profiles = DOMAIN file.profiles \cup {k.name}
      PROVE  ~overlapped => Keeps(k, d)
  BY <1>1, <1>6, ItsTurn, Zenon DEF Keeps, Covers
<1>7. CASE ~Finish(c) /\ k.op \in {"set", "setActive"}
  <2>1. PICK d : d = SetAdminProfile(file, k.name, k.given, k.op = "setActive")
    BY Zenon
  <2>2. adminCmd' = [adminCmd EXCEPT ![c] = saving(k, d)]
    BY <1>4, <1>7, <2>1, Zenon DEF Load
  <2>3. Doc(d) /\ DOMAIN d.profiles = DOMAIN file.profiles \cup {k.name}
    BY <1>2, <1>4, <1>7, <2>1, SetIsDoc, Zenon
  <2> QED BY <1>5, <1>6, <2>2, <2>3, Zenon
<1>8. CASE ~Finish(c) /\ k.op = "activate"
  <2>1. k.name \in DOMAIN file.profiles
    BY <1>4, <1>8 DEF Load
  <2>2. PICK d : d = [active |-> k.name, profiles |-> file.profiles]
    BY Zenon
  <2>3. [file EXCEPT !.active = k.name] = d
    <3>1. file = [active |-> file.active, profiles |-> file.profiles]
      BY <1>4, <1>8, Zenon DEF Doc
    <3>2. PICK x, r, n : x = file.active /\ r = file.profiles /\ n = k.name
      OBVIOUS
    <3>3. [[active |-> x, profiles |-> r] EXCEPT !.active = n] = [active |-> n, profiles |-> r]
      OBVIOUS
    <3>4. file = [active |-> x, profiles |-> r]
      BY <3>1, <3>2, Zenon
    <3> HIDE DEF k
    <3> QED BY <2>2, <3>2, <3>3, <3>4, Zenon
  <2>4. adminCmd' = [adminCmd EXCEPT ![c] = saving(k, d)]
    BY <1>4, <1>8, <2>1, <2>3 DEF Load
  <2>5. Doc(d) /\ d.profiles = file.profiles
    <3>1. DOMAIN file.profiles \subseteq Nat \ {0} /\ k.name # 0 /\ DOMAIN file.profiles # {}
      BY <1>2, <1>4, <1>8, <2>1, Zenon DEF Doc
    <3> HIDE DEF k
    <3> QED BY <2>1, <2>2, <3>1, MakesDoc, Zenon
  <2> QED BY <1>5, <1>6, <2>1, <2>4, <2>5, Zenon
<1>9. CASE ~Finish(c) /\ k.op = "delete"
  <2>1. adminCmd' = [adminCmd EXCEPT ![c].pc = "check", ![c].doc = file]
    BY <1>4, <1>9 DEF Load
  <2>2. PICK s : s = [k EXCEPT !.pc = "check", !.doc = file]
    OBVIOUS
  <2>3. adminCmd' = [adminCmd EXCEPT ![c] = s]
    <3>1. adminCmd = [d \in ProfileCommands |-> adminCmd[d]]
      BY DEF ProfilesInv, Saved
    <3> QED BY <2>1, <2>2, <3>1, Zenon
  <2>4. HasFields(k)
    BY <1>2, Zenon DEF IsCommand
  <2>5. /\ HasFields(s) /\ s.pc = "check" /\ s.doc = file /\ s.name = k.name /\ s.op = k.op
        /\ s.alias = k.alias
    BY <2>2, <2>4, Zenon DEF HasFields
  <2>6. IsCommand(s) /\ Turn(s)'
    BY <1>1, <1>2, <1>4, <1>9, <2>5, Zenon DEF IsCommand, Turn
  <2>7. IsFile(file') /\ IsFile(tmp')
    BY <1>1, Zenon DEF ProfilesInv, Saved
  <2> QED BY <1>1, <2>3, <2>6, <2>7, MoveStep, Zenon
<1>10. CASE ~Finish(c) /\ k.op \notin {"set", "setActive", "activate", "delete"}
  <2>1. CASE resolveChanges(file, k.name, k.given)
    <3>1. PICK d : d = resolveAdminProfile(file, k.name, k.given)
      OBVIOUS
    <3>2. adminCmd' = [adminCmd EXCEPT ![c] = saving(k, d)]
      BY <1>4, <1>10, <2>1, <3>1 DEF Load
    <3>3. Doc(d) /\ DOMAIN d.profiles = DOMAIN file.profiles \cup {k.name}
      BY <1>2, <1>4, <1>10, <3>1, ResolveIsDoc, ZenonT(60)
    <3> QED BY <1>5, <1>6, <3>2, <3>3, Zenon
  <2>2. CASE ~resolveChanges(file, k.name, k.given)
    <3>1. adminCmd' = [adminCmd EXCEPT ![c].pc = "record", ![c].given = ""]
      BY <1>4, <1>10, <2>2, Zenon DEF Load
    <3>2. PICK s : s = [k EXCEPT !.pc = "record", !.given = ""]
      OBVIOUS
    <3>3. adminCmd' = [adminCmd EXCEPT ![c] = s]
      <4>1. adminCmd = [d \in ProfileCommands |-> adminCmd[d]]
        BY Zenon DEF ProfilesInv, Saved
      <4> QED BY <3>1, <3>2, <4>1, Zenon
    <3>4. HasFields(k)
      BY <1>2, Zenon DEF IsCommand
    <3>5. /\ HasFields(s) /\ s.pc = "record" /\ s.doc = k.doc /\ s.name = k.name
          /\ s.op = k.op /\ s.alias = k.alias
      BY <3>2, <3>4, Zenon DEF HasFields
    <3>6. k.name \in DOMAIN file.profiles
      BY <2>2, Zenon DEF resolveChanges
    <3>7. IsCommand(s) /\ Turn(s)'
      BY <1>1, <1>2, <3>5, <3>6, Zenon DEF IsCommand, Turn
    <3>8. IsFile(file') /\ IsFile(tmp')
      BY <1>1, Zenon DEF ProfilesInv, Saved
    <3> QED BY <1>1, <3>3, <3>7, <3>8, MoveStep, Zenon
  <2> QED BY <2>1, <2>2, Zenon
<1> QED BY <1>3, <1>7, <1>8, <1>9, <1>10, Zenon

(* DeleteAdminProfile looks at the records before it saves. *)
LEMMA DeleteChecksStep ==
  ASSUME ProfilesInv, NEW c \in ProfileCommands, DeleteChecks(c)
  PROVE  ProfilesInv'
<1> DEFINE k == adminCmd[c]
<1>1. /\ k.pc = "check" /\ k.pc # "idle"
      /\ UNCHANGED <<file, tmp, aliasProfile, processProfile, overlapped>>
  BY Zenon DEF DeleteChecks
<1>2. CASE referenced(k.name)
  <2>1. Finish(c)
    BY <1>2, Zenon DEF DeleteChecks
  <2>2. ~overlapped => Covers(file)'
    BY <1>1, ItsTurn, RecordsStay, Zenon DEF Covers
  <2> QED BY <1>1, <2>1, <2>2, RecordsStay, FinishStep, Zenon
<1>3. CASE ~referenced(k.name)
  <2>1. PICK d : d = DeleteAdminProfile(k.doc, k.name)
    OBVIOUS
  <2>2. adminCmd' = [adminCmd EXCEPT ![c] = saving(k, d)]
    BY <1>3, <2>1, Zenon DEF DeleteChecks
  <2>3. Doc(k.doc)
    BY <1>1, ItsTurn, Zenon DEF IsCommand
  <2>4. Doc(d) /\ DOMAIN d.profiles = DOMAIN k.doc.profiles \ {k.name}
    BY <2>1, <2>3, DeleteIsDoc, Zenon
  <2>5. ~overlapped => k.doc = file /\ k.op = "delete" /\ Covers(file)
    BY <1>1, ItsTurn, Zenon DEF Turn
  <2>6. ~overlapped => Keeps(k, d)
    <3>1. ~overlapped => Covers(d)
      BY <1>3, <2>4, <2>5, Zenon DEF Covers, referenced
    <3>2. ~overlapped => ~TakesLock(k.op)
      BY <2>5, Zenon DEF TakesLock
    <3> QED BY <2>4, <3>1, <3>2, Zenon DEF Keeps
  <2>7. IsCommand(k)
    BY <1>1, ItsTurn, Zenon
  <2> QED BY <1>1, <2>2, <2>4, <2>6, <2>7, SaveStep, Zenon
<1> QED BY <1>2, <1>3

(* os.WriteFile opens the temporary file, *)
LEMMA TruncateStep ==
  ASSUME ProfilesInv, NEW c \in ProfileCommands, Truncate(c)
  PROVE  ProfilesInv'
<1> DEFINE k == adminCmd[c]
<1>1. /\ k.pc = "open" /\ k.pc # "idle" /\ tmp' = Empty
      /\ adminCmd' = [adminCmd EXCEPT ![c].pc = "write", ![c].at = "tmp"]
      /\ UNCHANGED <<file, aliasProfile, processProfile, overlapped>>
  BY DEF Truncate
<1>2. PICK s : s = [k EXCEPT !.pc = "write", !.at = "tmp"]
  OBVIOUS
<1>3. adminCmd' = [adminCmd EXCEPT ![c] = s]
  <2>1. adminCmd = [d \in ProfileCommands |-> adminCmd[d]]
    BY DEF ProfilesInv, Saved
  <2> QED BY <1>1, <1>2, <2>1, Zenon
<1>4. HasFields(k) /\ IsCommand(k)
  BY <1>1, ItsTurn DEF IsCommand
<1>5. /\ HasFields(s) /\ s.pc = "write" /\ s.at = "tmp" /\ s.doc = k.doc /\ s.name = k.name
      /\ s.op = k.op /\ s.alias = k.alias
  BY <1>2, <1>4, Zenon DEF HasFields
<1>6. IsCommand(s)
  BY <1>4, <1>5, Zenon DEF IsCommand
<1>7. ~overlapped => Turn(s)'
  <2>1. ~overlapped => Keeps(s, s.doc)
    BY <1>1, <1>5, ItsTurn DEF Turn, Keeps
  <2>2. ~overlapped => Keeps(s, s.doc)'
    BY <1>1, <2>1, RecordsStay DEF Keeps
  <2> QED BY <1>1, <1>5, <2>2 DEF Turn
<1>8. IsFile(file') /\ IsFile(tmp')
  BY <1>1 DEF ProfilesInv, Saved, IsFile, whole
<1> QED BY <1>1, <1>3, <1>6, <1>7, <1>8, MoveStep, Zenon

(* and writes it; where another save came between, the document ends in    *)
(* the other inode or over the other's bytes.                              *)
LEMMA WriteStep ==
  ASSUME ProfilesInv, NEW c \in ProfileCommands, Write(c)
  PROVE  ProfilesInv'
<1> DEFINE k == adminCmd[c]
<1>1. /\ k.pc = "write" /\ k.pc # "idle"
      /\ adminCmd' = [adminCmd EXCEPT ![c].pc = "rename", ![c].doc = NoDoc]
      /\ UNCHANGED <<aliasProfile, processProfile, overlapped>>
  BY DEF Write
<1>2. PICK s : s = [k EXCEPT !.pc = "rename", !.doc = NoDoc]
  OBVIOUS
<1>3. adminCmd' = [adminCmd EXCEPT ![c] = s]
  <2>1. adminCmd = [d \in ProfileCommands |-> adminCmd[d]]
    BY Zenon DEF ProfilesInv, Saved
  <2> QED BY <1>1, <1>2, <2>1, Zenon
<1>4. HasFields(k) /\ IsCommand(k) /\ Doc(k.doc)
  BY <1>1, ItsTurn DEF IsCommand
<1>5. /\ HasFields(s) /\ s.pc = "rename" /\ s.doc = NoDoc /\ s.name = k.name /\ s.op = k.op
      /\ s.alias = k.alias
  BY <1>2, <1>4, Zenon DEF HasFields
<1>6. IsCommand(s)
  BY <1>4, <1>5, NothingIsDoc, Zenon DEF IsCommand
<1>7. IsFile(file') /\ IsFile(tmp')
  <2>1. IsFile(file) /\ IsFile(tmp)
    BY DEF ProfilesInv, Saved
  <2>2. file' \in {file, k.doc, Torn} /\ tmp' \in {tmp, k.doc, Torn}
    BY DEF Write, overwrite
  <2>3. IsFile(Torn) /\ IsFile(k.doc)
    BY <1>4, Zenon DEF IsFile, whole
  <2> QED BY <2>1, <2>2, <2>3
<1>8. ~overlapped => file' = file /\ Turn(s)'
  <2> SUFFICES ASSUME ~overlapped PROVE file' = file /\ Turn(s)'
    OBVIOUS
  <2>1. k.at = "tmp" /\ tmp = Empty /\ Keeps(k, k.doc)
    BY <1>1, ItsTurn DEF Turn
  <2>2. file' = file /\ tmp' = k.doc
    BY <2>1 DEF Write, overwrite
  <2>3. Keeps(s, k.doc)
    BY <1>5, <2>1, Zenon DEF Keeps
  <2>4. Keeps(s, tmp)'
    BY <1>1, <2>2, <2>3 DEF Keeps, Covers
  <2>5. tmp' # Absent
    BY <1>4, <2>2, DocIsThere, Zenon
  <2> QED BY <1>5, <2>2, <2>4, <2>5, Zenon DEF Turn
<1> QED BY <1>1, <1>3, <1>6, <1>7, <1>8, MoveStep, Zenon

(* The rename: whatever the temporary file holds is the state file now. *)
LEMMA RenameStep ==
  ASSUME ProfilesInv, NEW c \in ProfileCommands, Rename(c)
  PROVE  ProfilesInv'
<1> DEFINE k == adminCmd[c]
<1>1. /\ k.pc = "rename" /\ k.pc # "idle"
      /\ UNCHANGED <<aliasProfile, processProfile, overlapped>>
  BY DEF Rename
<1>2. CASE tmp = Absent
  <2>1. Finish(c) /\ UNCHANGED <<file, tmp>>
    BY <1>2 DEF Rename
  <2>2. ~overlapped => Covers(file)'
    BY <1>1, <2>1, ItsTurn, RecordsStay, Zenon DEF Covers
  <2> QED BY <1>1, <2>1, <2>2, RecordsStay, FinishStep, Zenon
<1>3. CASE tmp # Absent
  <2> DEFINE moved(d) == IF adminCmd[d].at = "tmp" THEN "file"
                         ELSE IF adminCmd[d].at = "file" THEN "gone" ELSE adminCmd[d].at
             stays(d) == [adminCmd[d] EXCEPT !.at = moved(d)]
  <2>1. PICK s : s = IF TakesLock(k.op)
                       THEN [IdleCommand EXCEPT !.pc = "record", !.op = k.op,
                                                !.name = k.name, !.alias = k.alias]
                       ELSE IdleCommand
    OBVIOUS
  <2>2. /\ file' = tmp /\ tmp' = Absent
        /\ adminCmd' = [d \in ProfileCommands |-> IF d = c THEN s ELSE stays(d)]
    BY <1>3, <2>1, Zenon DEF Rename
  <2>3. IsCommand(k)
    BY <1>1, ItsTurn, Zenon
  <2>4. IsCommand(s) /\ (s = IdleCommand \/ (s.pc = "record" /\ s.name = k.name /\ TakesLock(k.op)))
    <3>1. CASE TakesLock(k.op)
      <4>1. s = [IdleCommand EXCEPT !.pc = "record", !.op = k.op, !.name = k.name, !.alias = k.alias]
        BY <2>1, <3>1
      <4>2. /\ HasFields(s) /\ s.pc = "record" /\ s.name = k.name /\ s.doc = NoDoc
            /\ s.op = k.op /\ s.alias = k.alias
        BY <4>1, Zenon DEF HasFields, IdleCommand
      <4>3. IsCommand(s)
        BY <2>3, <4>2, NothingIsDoc, Zenon DEF IsCommand
      <4> QED BY <3>1, <4>2, <4>3, Zenon
    <3>2. CASE ~TakesLock(k.op)
      BY <2>1, <3>2, NothingIsDoc
    <3> QED BY <3>1, <3>2, Zenon
  <2>5. ASSUME NEW d \in ProfileCommands \ {c}
        PROVE  IsCommand(stays(d)) /\ (adminCmd[d] = IdleCommand => stays(d) = IdleCommand)
    <3>1. IsCommand(adminCmd[d]) /\ HasFields(adminCmd[d])
      BY <2>5, Zenon DEF ProfilesInv, Saved, IsCommand
    <3>2. PICK m : m = moved(d)
      BY Zenon
    <3>3. PICK e : e = [adminCmd[d] EXCEPT !.at = m]
      BY Zenon
    <3>4. /\ HasFields(e) /\ e.pc = adminCmd[d].pc /\ e.name = adminCmd[d].name
          /\ e.doc = adminCmd[d].doc /\ e.op = adminCmd[d].op /\ e.alias = adminCmd[d].alias
      BY <3>1, <3>3, Zenon DEF HasFields
    <3>5. IsCommand(e)
      BY <3>1, <3>4, Zenon DEF IsCommand
    <3>6. adminCmd[d] = IdleCommand => e = IdleCommand
      <4> SUFFICES ASSUME adminCmd[d] = IdleCommand PROVE e = IdleCommand
        OBVIOUS
      <4>1. m = ""
        BY <3>2, IdleStays, Zenon
      <4> QED BY <3>3, <4>1, IdleStays, Zenon
    <3> QED BY <3>2, <3>3, <3>5, <3>6
  <2>6. /\ adminCmd'[c] = s /\ adminCmd' = [d \in ProfileCommands |-> adminCmd'[d]]
        /\ \A d \in ProfileCommands \ {c} : adminCmd'[d] = stays(d)
    <3> HIDE DEF stays
    <3> QED BY <2>2, Zenon
  <2>7. IsFile(file') /\ IsFile(tmp') /\ overlapped' \in BOOLEAN
    BY <1>1, <2>2 DEF ProfilesInv, Saved, IsFile, whole
  <2>8. ~overlapped => RunsAlone(c) /\ Keeps(k, tmp)
    BY <1>1, ItsTurn, Zenon DEF Turn
  <2>9. ~overlapped' => RunsAlone(c) /\ Doc(file') /\ Covers(file)'
    BY <1>1, <2>2, <2>8 DEF Keeps, Covers
  <2>10. ~overlapped' => (s # IdleCommand => Turn(s)')
    BY <1>1, <2>2, <2>4, <2>8 DEF Turn, Keeps
  <2> HIDE DEF stays
  <2>11. \A d \in ProfileCommands \ {c} :
           IsCommand(adminCmd'[d]) /\ (adminCmd[d] = IdleCommand => adminCmd'[d] = IdleCommand)
    BY <2>5, <2>6, Zenon
  <2> QED BY <1>1, <2>4, <2>6, <2>7, <2>9, <2>10, <2>11, RecordsStay, CommandGoesOn, Zenon
<1> QED BY <1>2, <1>3

(* resolveTunnel may save the profile of the alias record again. *)
LEMMA ResolveTunnelStep ==
  ASSUME ProfilesInv, NEW c \in ProfileCommands, ResolveTunnel(c)
  PROVE  ProfilesInv'
<1>1. PICK k : k = [adminCmd[c] EXCEPT !.op = "tunnelled"]
  BY Zenon
<1>2. /\ adminCmd[c].pc = "record" /\ adminCmd[c].pc # "idle"
      /\ UNCHANGED <<file, tmp, aliasProfile, processProfile, overlapped>>
  BY Zenon DEF ResolveTunnel
<1>3. HasFields(adminCmd[c]) /\ IsCommand(adminCmd[c])
  BY <1>2, ItsTurn, Zenon DEF IsCommand
<1>4. /\ HasFields(k) /\ k.pc = "record" /\ k.name = adminCmd[c].name /\ k.doc = adminCmd[c].doc
      /\ k.alias = adminCmd[c].alias
  BY <1>1, <1>2, <1>3, Zenon DEF HasFields
<1>5. IsCommand(k) /\ k.alias \in ProfileAliases
  <2>1. TakesLock(adminCmd[c].op)
    BY Zenon DEF ResolveTunnel, TakesLock
  <2> QED BY <1>3, <1>4, <2>1, Zenon DEF IsCommand
<1>6. ~overlapped => RunsAlone(c) /\ Doc(file) /\ Covers(file) /\ k.name \in DOMAIN file.profiles
  BY <1>2, <1>4, ItsTurn, Zenon DEF Turn
<1>7. ~overlapped => Covers(file)' /\ Doc(file')
  BY <1>2, <1>6, RecordsStay, Zenon DEF Covers
<1>8. IsFile(file') /\ IsFile(tmp') /\ overlapped' \in BOOLEAN
  BY <1>2, Zenon DEF ProfilesInv, Saved
<1>9. CASE Finish(c)
  BY <1>2, <1>7, <1>9, RecordsStay, FinishStep, Zenon
<1>10. CASE adminCmd' = [adminCmd EXCEPT ![c] = k]
  <2>1. ~overlapped => Turn(k)'
    BY <1>2, <1>4, <1>6, Zenon DEF Turn
  <2> QED BY <1>2, <1>5, <1>8, <1>10, <2>1, MoveStep, Zenon
<1>11. ASSUME NEW n, n = aliasProfile[k.alias], n # 0, whole(file),
              adminCmd' = [adminCmd EXCEPT ![c] = saving(k, resolveAdminProfile(file, n, ""))]
       PROVE  ProfilesInv'
  <2>1. PICK d : d = resolveAdminProfile(file, n, "")
    BY Zenon
  <2>2. Doc(file)
    BY <1>11, Zenon DEF ProfilesInv, Saved, IsFile
  <2>3. n \in Nat \ {0}
    BY <1>5, <1>11, Zenon DEF ProfilesInv, Saved
  <2>4. Doc(d) /\ DOMAIN d.profiles = DOMAIN file.profiles \cup {n}
    BY <2>1, <2>2, <2>3, ResolveIsDoc, ZenonT(60)
  <2>5. ~overlapped => Keeps(k, d)
    BY <1>6, <2>4, Zenon DEF Keeps, Covers
  <2> QED BY <1>2, <1>5, <1>11, <2>1, <2>4, <2>5, SaveStep, Zenon
<1> QED BY <1>1, <1>9, <1>10, <1>11, Zenon DEF ResolveTunnel

(* The profile is in the file when a record names it. *)
LEMMA RecordSteps ==
  ASSUME ProfilesInv, NEW c \in ProfileCommands, RecordAlias(c) \/ RecordProcess(c)
  PROVE  ProfilesInv'
<1> DEFINE k == adminCmd[c]
<1>1. k.pc \in {"record", "recordProcess"} /\ k.pc # "idle" /\ UNCHANGED <<file, tmp, overlapped>>
  BY Zenon DEF RecordAlias, RecordProcess
<1>2. /\ aliasProfile \in [ProfileAliases -> Nat] /\ processProfile \in [ProfileAliases -> Nat]
      /\ IsCommand(k) /\ k.name \in Nat
  BY <1>1, ItsTurn, Zenon DEF ProfilesInv, Saved, IsCommand
<1>3. ~overlapped => Covers(file) /\ k.name \in DOMAIN file.profiles
  BY <1>1, ItsTurn, Zenon DEF Turn
<1>4. /\ \/ UNCHANGED aliasProfile \/ aliasProfile' = [aliasProfile EXCEPT ![k.alias] = k.name]
         \/ aliasProfile' = [aliasProfile EXCEPT ![k.alias] = 0]
      /\ \/ UNCHANGED processProfile \/ processProfile' = [processProfile EXCEPT ![k.alias] = k.name]
         \/ processProfile' = [processProfile EXCEPT ![k.alias] = 0]
  BY Zenon DEF RecordAlias, RecordProcess
<1>5. PICK alias, name : alias = k.alias /\ name = k.name
  OBVIOUS
<1>6. /\ aliasProfile' \in [ProfileAliases -> Nat] /\ processProfile' \in [ProfileAliases -> Nat]
      /\ \A a \in ProfileAliases : /\ aliasProfile'[a] \in {aliasProfile[a], name, 0}
                                   /\ processProfile'[a] \in {processProfile[a], name, 0}
  <2>1. /\ \/ UNCHANGED aliasProfile \/ aliasProfile' = [aliasProfile EXCEPT ![alias] = name]
           \/ aliasProfile' = [aliasProfile EXCEPT ![alias] = 0]
        /\ \/ UNCHANGED processProfile \/ processProfile' = [processProfile EXCEPT ![alias] = name]
           \/ processProfile' = [processProfile EXCEPT ![alias] = 0]
    BY <1>4, <1>5, Zenon
  <2>2. name \in Nat
    BY <1>2, <1>5, Zenon
  <2> HIDE DEF k
  <2> QED BY <1>2, <2>1, <2>2
<1>7. ~overlapped => Covers(file)'
  BY <1>1, <1>3, <1>5, <1>6, Zenon DEF Covers
<1>8. CASE Finish(c)
  BY <1>1, <1>6, <1>7, <1>8, FinishStep, Zenon
<1>9. CASE Do(c, "recordProcess")
  <2>1. PICK s : s = [k EXCEPT !.pc = "recordProcess"]
    BY Zenon
  <2>2. adminCmd' = [adminCmd EXCEPT ![c] = s]
    <3>1. adminCmd = [d \in ProfileCommands |-> adminCmd[d]]
      BY Zenon DEF ProfilesInv, Saved
    <3> QED BY <1>9, <2>1, <3>1, Zenon DEF Do
  <2>3. HasFields(k)
    BY <1>2, Zenon DEF IsCommand
  <2>4. /\ HasFields(s) /\ s.pc = "recordProcess" /\ s.name = k.name /\ s.doc = k.doc
        /\ s.op = k.op /\ s.alias = k.alias
    BY <2>1, <2>3, Zenon DEF HasFields
  <2>5. IsCommand(s)
    BY <1>2, <2>4, Zenon DEF IsCommand
  <2>6. ~overlapped => Turn(s)'
    BY <1>1, <1>3, <2>4, Zenon DEF Turn
  <2>7. IsFile(file') /\ IsFile(tmp') /\ overlapped' \in BOOLEAN
    BY <1>1, Zenon DEF ProfilesInv, Saved
  <2>8. ~overlapped' => RunsAlone(c) /\ Doc(file') /\ Covers(file)' /\ Turn(s)'
    BY <1>1, <1>7, <2>6, ItsTurn, Zenon
  <2> QED BY <1>6, <2>2, <2>5, <2>7, <2>8, CommandStays, CommandGoesOn, Zenon
<1>10. CASE UNCHANGED adminCmd
  <2>1. PICK s : s = k
    BY Zenon
  <2>2. adminCmd' = [adminCmd EXCEPT ![c] = s]
    <3>1. adminCmd = [d \in ProfileCommands |-> adminCmd[d]]
      BY Zenon DEF ProfilesInv, Saved
    <3> QED BY <1>10, <2>1, <3>1
  <2>3. IsCommand(s) /\ s.pc \in {"record", "recordProcess"} /\ s.name = k.name
    BY <1>1, <1>2, <2>1, Zenon
  <2>4. ~overlapped => Turn(s)'
    BY <1>1, <1>3, <2>3, Zenon DEF Turn
  <2>5. IsFile(file') /\ IsFile(tmp') /\ overlapped' \in BOOLEAN
    BY <1>1, Zenon DEF ProfilesInv, Saved
  <2>6. ~overlapped' => RunsAlone(c) /\ Doc(file') /\ Covers(file)' /\ Turn(s)'
    BY <1>1, <1>7, <2>4, ItsTurn, Zenon
  <2> QED BY <1>6, <2>2, <2>3, <2>5, <2>6, CommandStays, CommandGoesOn, Zenon
<1> QED BY <1>8, <1>9, <1>10, Zenon DEF RecordAlias, RecordProcess

LEMMA ProfilesStep == ProfilesInv /\ [ProfilesNext]_profileVars => ProfilesInv'
<1> SUFFICES ASSUME ProfilesInv, [ProfilesNext]_profileVars PROVE ProfilesInv'
  OBVIOUS
<1>1. CASE UNCHANGED profileVars
  BY <1>1, Zenon DEF profileVars, ProfilesInv, Saved, OneByOne, RunsAlone, Turn, Keeps, Covers
<1> QED BY <1>1, BeginStep, LoadStep, DeleteChecksStep, TruncateStep, WriteStep, RenameStep,
           ResolveTunnelStep, RecordSteps, ForgetStep, Zenon DEF ProfilesNext

(* For any number of commands, profiles and aliases: however the saves of  *)
(* commands without a lock interleave, a state file that can be read names *)
(* an active profile that it holds, and as long as commands ran one after  *)
(* the other, every profile that a record names is in the file (manager.go *)
(* and state.go: resolveAdminProfile, DeleteAdminProfile, saveJSONMap).    *)
THEOREM ReferencedExistsThm == ProfilesSpec => []ReferencedExists
<1>1. ProfilesInit => ProfilesInv
  <2> SUFFICES ASSUME ProfilesInit PROVE ProfilesInv
    OBVIOUS
  <2>1. Saved
    BY NothingIsDoc, Zenon DEF ProfilesInit, Saved, IsFile, whole
  <2>2. OneByOne
    BY NothingIsDoc, Zenon DEF ProfilesInit, OneByOne, Covers
  <2> QED BY <2>1, <2>2, Zenon DEF ProfilesInit, ProfilesInv
<1>2. ProfilesInv => ReferencedExists
  BY Zenon DEF ProfilesInv, Saved, IsFile, Doc, OneByOne, Covers, ReferencedExists, ReferencesExist,
     ActiveExists
<1> QED BY <1>1, <1>2, ProfilesStep, PTL DEF ProfilesSpec
=============================================================================
