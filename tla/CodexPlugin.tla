---------------------------- MODULE CodexPlugin ----------------------------
(***************************************************************************)
(* The Codex plugin bundle (pkg/codexplugin): `codex plugin install` and   *)
(* `uninstall` change the plugin cache and config.toml in several steps,   *)
(* next to Codex itself, which adds marketplace versions and edits its own *)
(* sections; Detect reads both and picks the version to report.            *)
(*                                                                         *)
(* A version directory is an index of VersionNames, which is in the name   *)
(* order os.ReadDir returns.  config.toml is the sequence of its section   *)
(* names: a marketplace stands for its enabled plugin section.             *)
(***************************************************************************)
EXTENDS Integers, Sequences, FiniteSets, FiniteSetsExt, SequencesExt

CONSTANTS Commands,
          Marketplaces,
          defaultMarketplace,
          VersionNames,     \* [semver, core, pre] of each directory name
          defaultVersion,   \* the index of "local"
          UserSections,     \* sections of config.toml that are Codex's own
          MaxTime           \* directory changes that are told apart by time

VARIABLES cache, config, clock, pc, target, loaded

vars == << cache, config, clock, pc, target, loaded >>

Versions == DOMAIN VersionNames
Absent == [manifest |-> FALSE, hint |-> FALSE, time |-> 0]

Init ==
  /\ cache = [m \in Marketplaces |-> [v \in Versions |-> Absent]]
  /\ config = <<>>
  /\ clock = 0
  /\ pc = [c \in Commands |-> "idle"]
  /\ target = [c \in Commands |-> defaultMarketplace]
  /\ loaded = [c \in Commands |-> <<>>]

(***************************************************************************)
(* Versions.                                                               *)
(***************************************************************************)
compareInts(a, b) == IF a < b THEN -1 ELSE IF a > b THEN 1 ELSE 0

\* The first comparison that is not a tie.
FirstDifference(s) ==
  LET d == { i \in DOMAIN s : s[i] # 0 }
  IN IF d = {} THEN 0 ELSE s[Min(d)]

\* An identifier is [num, word]: num >= 0 for a number, else a word by rank.
compareSemverPrereleaseIdentifier(a, b) ==
  CASE a.num >= 0 /\ b.num >= 0 -> compareInts(a.num, b.num)
    [] a.num >= 0 /\ b.num < 0  -> -1
    [] a.num < 0  /\ b.num >= 0 -> 1
    [] OTHER                    -> compareInts(a.word, b.word)

compareSemverPrerelease(a, b) ==
  LET limit == IF Len(a) < Len(b) THEN Len(a) ELSE Len(b)
      first == FirstDifference([ i \in 1..limit |->
                                   compareSemverPrereleaseIdentifier(a[i], b[i]) ])
  IN IF first # 0 THEN first ELSE compareInts(Len(a), Len(b))

\* A prerelease that outranks its release.
comparePrereleaseLast(a, b) ==
  LET core == FirstDifference([ i \in 1..3 |-> compareInts(a.core[i], b.core[i]) ])
  IN IF core # 0 THEN core ELSE compareSemverPrerelease(a.pre, b.pre)

compare(a, b) ==
  LET core == FirstDifference([ i \in 1..3 |-> compareInts(a.core[i], b.core[i]) ])
  IN CASE core # 0 -> core
       [] a.pre = <<>> /\ b.pre = <<>> -> 0
       [] a.pre = <<>> /\ b.pre # <<>> -> 1
       [] a.pre # <<>> /\ b.pre = <<>> -> -1
       [] OTHER -> compareSemverPrerelease(a.pre, b.pre)

\* Semantic versions by precedence, anything else by time, then by name.
compareInstalledPluginVersion(m, v, w) ==
  LET a == VersionNames[v]
      b == VersionNames[w]
      byVersion == IF a.semver /\ b.semver THEN compare(a, b) ELSE 0
      byTime == compareInts(cache[m][v].time, cache[m][w].time)
  IN FirstDifference(<< byVersion, byTime, compareInts(v, w) >>)

\* The directories with a manifest, in name order; the last best one wins.
installedPluginVersionDir(m) ==
  FoldLeft(LAMBDA best, v :
             IF ~cache[m][v].manifest THEN best
             ELSE IF best = 0 THEN v
             ELSE IF compareInstalledPluginVersion(m, best, v) < 0 THEN v ELSE best,
           0, [ v \in Versions |-> v ])

pluginInstallationFor(m) ==
  LET best == installedPluginVersionDir(m)
      v == IF best = 0 THEN defaultVersion ELSE best
  IN [marketplace |-> m, version |-> v,
      installed |-> cache[m][v].manifest, hint |-> cache[m][v].hint]

enabledPluginConfigKeys == SelectSeq(config, LAMBDA s : s \in Marketplaces)

\* The last installed marketplace other than the default one, or the default.
Detect ==
  LET keys == enabledPluginConfigKeys
      none == [pluginInstallationFor(defaultMarketplace) EXCEPT !.installed = FALSE,
                                                                !.hint = FALSE]
  IN IF keys = <<>> THEN pluginInstallationFor(defaultMarketplace)
     ELSE FoldLeft(LAMBDA found, m :
                     LET here == pluginInstallationFor(m)
                     IN IF here.installed /\ (~found.installed \/ m # defaultMarketplace)
                        THEN here ELSE found,
                   none, keys)

(***************************************************************************)
(* Install and uninstall.                                                  *)
(***************************************************************************)
Goto(c, to) == pc' = [pc EXCEPT ![c] = to]

Install(c, m) ==
  /\ pc[c] \in {"idle", "done", "failed"}
  /\ Goto(c, "remove")
  /\ target' = [target EXCEPT ![c] = m]
  /\ UNCHANGED << cache, config, clock, loaded >>

Uninstall(c) ==
  /\ pc[c] \in {"idle", "done", "failed"}
  /\ Goto(c, "un_remove")
  /\ target' = [target EXCEPT ![c] = defaultMarketplace]
  /\ UNCHANGED << cache, config, clock, loaded >>

RemoveTarget(c) ==
  /\ pc[c] \in {"remove", "un_remove"}
  /\ cache' = [cache EXCEPT ![target[c]][defaultVersion] = Absent]
  /\ Goto(c, IF pc[c] = "remove" THEN "export" ELSE "un_load")
  /\ UNCHANGED << config, clock, target, loaded >>

\* plugin.json is the first file of the bundle to be written.
ExportBundle(c) ==
  /\ pc[c] = "export"
  /\ clock < MaxTime
  /\ clock' = clock + 1
  /\ cache' = [cache EXCEPT ![target[c]][defaultVersion] =
                 [@ EXCEPT !.manifest = TRUE, !.time = clock']]
  /\ \/ Goto(c, "hint")
     \/ Goto(c, "failed")
  /\ UNCHANGED << config, target, loaded >>

\* An empty binary path writes no hint; an unusable one is an error.
writeBinaryHint(c) ==
  /\ pc[c] = "hint"
  /\ \/ /\ cache' = [cache EXCEPT ![target[c]][defaultVersion].hint = TRUE]
        /\ Goto(c, "load")
     \/ Goto(c, "load") /\ UNCHANGED cache
     \/ Goto(c, "failed") /\ UNCHANGED cache
  /\ UNCHANGED << config, clock, target, loaded >>

loadConfigSections(c) ==
  /\ pc[c] \in {"load", "un_load"}
  /\ loaded' = [loaded EXCEPT ![c] = config]
  /\ Goto(c, IF pc[c] = "load" THEN "write" ELSE "un_write")
  /\ UNCHANGED << cache, config, clock, target >>

removeSection(sections, m) == SelectSeq(sections, LAMBDA s : s # m)

updateConfig(c) ==
  /\ pc[c] = "write"
  /\ config' = Append(removeSection(loaded[c], target[c]), target[c])
  /\ loaded' = [loaded EXCEPT ![c] = <<>>]
  /\ Goto(c, "detect")
  /\ UNCHANGED << cache, clock, target >>

removeConfigSection(c) ==
  /\ pc[c] = "un_write"
  /\ config' = IF target[c] \in Range(loaded[c])
               THEN removeSection(loaded[c], target[c]) ELSE config
  /\ loaded' = [loaded EXCEPT ![c] = <<>>]
  /\ Goto(c, "done")
  /\ UNCHANGED << cache, clock, target >>

InstallDetects(c) ==
  /\ pc[c] = "detect"
  /\ Goto(c, IF Detect.hint THEN "installed" ELSE "failed")
  /\ UNCHANGED << cache, config, clock, target, loaded >>

InstallReturns(c) ==
  /\ pc[c] = "installed"
  /\ Goto(c, "done")
  /\ UNCHANGED << cache, config, clock, target, loaded >>

(***************************************************************************)
(* Codex itself: marketplace versions and its own sections.                *)
(***************************************************************************)
SyncVersion(m, v) ==
  /\ v # defaultVersion /\ ~cache[m][v].manifest
  /\ clock < MaxTime
  /\ clock' = clock + 1
  /\ cache' = [cache EXCEPT ![m][v] = [manifest |-> TRUE, hint |-> FALSE, time |-> clock']]
  /\ UNCHANGED << config, pc, target, loaded >>

EditConfig(s) ==
  /\ config' = IF s \in Range(config) THEN removeSection(config, s) ELSE Append(config, s)
  /\ UNCHANGED << cache, clock, pc, target, loaded >>

CommandStep(c) ==
  \/ Uninstall(c) \/ RemoveTarget(c) \/ ExportBundle(c) \/ writeBinaryHint(c)
  \/ loadConfigSections(c) \/ updateConfig(c) \/ removeConfigSection(c)
  \/ InstallDetects(c) \/ InstallReturns(c)
  \/ \E m \in Marketplaces : Install(c, m)

Next ==
  \/ \E c \in Commands : CommandStep(c)
  \/ \E m \in Marketplaces, v \in Versions : SyncVersion(m, v)
  \/ \E s \in UserSections : EditConfig(s)

Spec == Init /\ [][Next]_vars

(***************************************************************************)
(* Properties.                                                             *)
(***************************************************************************)
\* Precedence as Semantic Versioning defines it, by the first place that differs.
Below(a, b) ==
  \/ \E i \in 1..3 : a.core[i] < b.core[i] /\ \A j \in 1..(i-1) : a.core[j] = b.core[j]
  \/ /\ a.core = b.core /\ a.pre # <<>>
     /\ \/ b.pre = <<>>
        \/ IsStrictPrefix(a.pre, b.pre)
        \/ \E i \in DOMAIN a.pre \cap DOMAIN b.pre :
             LET x == a.pre[i]
                 y == b.pre[i]
             IN /\ \A j \in 1..(i-1) : a.pre[j] = b.pre[j]
                /\ \/ x.num >= 0 /\ (y.num < 0 \/ x.num < y.num)
                   \/ x.num < 0 /\ y.num < 0 /\ x.word < y.word

\* Of a marketplace that holds only semantic versions, Detect reports one that
\* no other precedes, whatever the order of names and directory times.
ReportsHighestVersion ==
  \A m \in Marketplaces :
    LET here == { v \in Versions : cache[m][v].manifest }
        best == installedPluginVersionDir(m)
    IN here # {} /\ (\A v \in here : VersionNames[v].semver) =>
         /\ best \in here
         /\ \A v \in here : ~Below(VersionNames[best], VersionNames[v])

\* An install that reports success has its own section enabled and its bundle
\* in place, also when another marketplace is the one Detect reports.
InstallEnables ==
  \A c \in Commands :
    pc[c] = "installed" =>
      /\ target[c] \in Range(config)
      /\ cache[target[c]][defaultVersion].manifest
=============================================================================
