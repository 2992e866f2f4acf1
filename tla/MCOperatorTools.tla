-------------------------- MODULE MCOperatorTools --------------------------
(***************************************************************************)
(* What an operator runs around the client, for TLC: the managed runtimes  *)
(* of the `codex` commands (CodexRuntime), the plugin they install         *)
(* (CodexPlugin), the admin profiles they keep (AdminProfiles), the        *)
(* app-server behind the admin UI, its process (AppServerBridge) and its   *)
(* use (AppServerSession), and the admin UI's log buffer (AdminLogs).  The *)
(* commands share a directory, but each part has its own files in it, and  *)
(* the bridge's requests reach a session only while its child lives; a     *)
(* behaviour is one of the six.                                            *)
(***************************************************************************)
EXTENDS CodexRuntime, AdminProfiles, AppServerBridge, AppServerSession, TLC

VARIABLES
  which,
  \* CodexPlugin
  cache, config, clock, pc, target, loaded,
  \* AdminLogs
  logClock, nextSeq, writer, ring, start, size, subs, logChan, logStream, shutdown, export,
  logged

(* Two aliases that may be moved between tunnels, one of them with a       *)
(* legacy tmux session, and one process ID that is handed out again.       *)
tunnelsOf == [a |-> {"t1", "t2"}, b |-> {"t1"}]

(* Two logins and a cancel; a thread, a turn and a cancel. *)
scenarios == {[a |-> "login", b |-> "login", c |-> "cancel"],
              [a |-> "thread", b |-> "turn", c |-> "cancel"]}

(* Releases with and without prereleases, and the directory "local".       *)
Id(n) == [num |-> n, word |-> 0]
Word(w) == [num |-> -1, word |-> w]
Version(core, pre) == [semver |-> TRUE, core |-> core, pre |-> pre]
versionNames == <<Version(<<0, 10, 0>>, << >>), Version(<<0, 10, 0>>, <<Word(1), Id(10)>>),
                  Version(<<0, 10, 0>>, <<Word(1), Id(2)>>), Version(<<0, 9, 0>>, << >>),
                  [semver |-> FALSE, core |-> <<0, 0, 0>>, pre |-> << >>]>>
Plugin == INSTANCE CodexPlugin WITH
            Commands <- {"c"}, Marketplaces <- {"debug", "other"}, defaultMarketplace <- "debug",
            VersionNames <- versionNames, defaultVersion <- 5, UserSections <- {"user"},
            MaxTime <- 3

(* More records than the ring holds.                                       *)
Logs == INSTANCE AdminLogs WITH
          Writers <- {"w1", "w2"}, Streams <- {"s1"}, capacity <- 2, StreamBuf <- 1,
          MaxLog <- 3, MaxClock <- 2, Window <- 1,
          clock <- logClock, chan <- logChan, stream <- logStream

plugin == <<cache, config, clock, pc, target, loaded>>
logs == <<logClock, nextSeq, writer, ring, start, size, subs, logChan, logStream, shutdown,
          export, logged>>
allVars == <<which, vars, plugin, profileVars, bridgeVars, sessionVars, logs>>

MCInit ==
  /\ which \in {"runtime", "plugin", "profiles", "bridge", "session", "logs"}
  /\ Init /\ Plugin!Init /\ ProfilesInit /\ BridgeInit /\ SessionInit /\ Logs!Init
  /\ which # "runtime" => tmux["b"] = "none" /\ processes["b"].socket = "none"
  /\ which # "session" => op["a"] = "login"

MCNext ==
  /\ UNCHANGED which
  /\ \/ /\ which = "runtime" /\ Next
        /\ UNCHANGED <<plugin, profileVars, bridgeVars, sessionVars, logs>>
     \/ /\ which = "plugin" /\ Plugin!Next
        /\ UNCHANGED <<vars, profileVars, bridgeVars, sessionVars, logs>>
     \/ /\ which = "profiles" /\ ProfilesNext
        /\ UNCHANGED <<vars, plugin, bridgeVars, sessionVars, logs>>
     \/ /\ which = "bridge" /\ BridgeNext
        /\ UNCHANGED <<vars, plugin, profileVars, sessionVars, logs>>
     \/ /\ which = "session" /\ SessionNext
        /\ UNCHANGED <<vars, plugin, profileVars, bridgeVars, logs>>
     \/ /\ which = "logs" /\ Logs!Next
        /\ UNCHANGED <<vars, plugin, profileVars, bridgeVars, sessionVars>>

MCSpec == MCInit /\ [][MCNext]_allVars

Symmetry == Permutations(Commands)

-----------------------------------------------------------------------------
(* CodexPlugin: the installed version reported is the highest one, and an  *)
(* install that succeeded is enabled and in place.                         *)
InstallIsReported ==
  which = "plugin" => Plugin!ReportsHighestVersion /\ Plugin!InstallEnables

(* AdminLogs and AppServerSession: a ring, read at any fill and limit, is  *)
(* the newest events in order, an export holds all of its window that was  *)
(* in the ring when it was read, and no number of an event is lost or far  *)
(* out of order although it is drawn before the mutex is taken.            *)
RecentIsNewest ==
  /\ which = "logs" => Logs!RecentIsNewest /\ Logs!ExportIsConsistent /\ Logs!NumbersAreKept
  /\ which = "session" => RecentEventsAreLatest
=============================================================================
