--------------------------- MODULE AdminProfiles ---------------------------
(***************************************************************************)
(* The saved admin profiles of the runtimes commands                       *)
(* (pkg/codexplugin/manager.go, state/state.go): admin-profiles set,       *)
(* activate and delete load the whole file, change it and save it, and so  *)
(* does resolveAdminProfile inside create, connect, status, stop and list. *)
(* Only create, connect and stop hold the state lock.  A save truncates    *)
(* and writes one shared temporary file and renames it over the state      *)
(* file, so each of these is a step of its own.                            *)
(* Profile names are numbers in sort order; 0 is the empty name.           *)
(***************************************************************************)
EXTENDS Naturals, FiniteSets, Functions, FiniteSetsExt

CONSTANTS
  ProfileCommands,  \* tunnel-client processes running a command
  Profiles,         \* names a command may ask for
  Default,          \* TUNNEL_MCP_ADMIN_PROFILE, or "default"
  Settings,         \* base URL, path and key of a profile, as one value
  FromEnv,          \* the settings the environment and the defaults give
  ProfileAliases

ASSUME ProfilesAssumption == Profiles \subseteq Nat \ {0} /\ Default \in Nat \ {0}

VARIABLES
  file,            \* admin_profiles: a document, or Torn
  tmp,             \* its temporary file: Absent, Empty, Torn or a document
  aliasProfile,    \* the profile each alias record names, 0 without a record
  processProfile,  \* the profile each process record that is not stopped names, or 0
  profileLock,     \* commands holding the state lock
  adminCmd,        \* what each command does
  overlapped       \* history: two commands have been under way at once

profileVars == <<file, tmp, aliasProfile, processProfile, profileLock, adminCmd, overlapped>>

Unreadable(k) == [active |-> 0, profiles |-> <<>>, bad |-> k]
Absent == Unreadable("absent")
Empty  == Unreadable("empty")
Torn   == Unreadable("torn")
NoDoc  == [active |-> 0, profiles |-> <<>>]
whole(d) == d \notin {Absent, Empty, Torn}

IdleCommand ==
  [pc |-> "idle", op |-> "", name |-> 0, alias |-> "", given |-> "", doc |-> NoDoc, at |-> ""]

Do(c, pc) == adminCmd' = [adminCmd EXCEPT ![c].pc = pc]
Finish(c) == adminCmd' = [adminCmd EXCEPT ![c] = IdleCommand] /\ profileLock' = profileLock \ {c}
TakesLock(op) == op \in {"connect", "tunnelled", "stop"}

(* A command about to save document d; it keeps what it still needs. *)
saving(k, d) == IF TakesLock(k.op)
                  THEN [k EXCEPT !.pc = "open", !.doc = d, !.given = ""]
                  ELSE [IdleCommand EXCEPT !.pc = "open", !.doc = d]

-----------------------------------------------------------------------------
(* The document after a command; "" as given settings means the flag was   *)
(* left out, and the existing profile or the environment fills it in.      *)
resolvedSettings(d, n, given) ==
  IF given # "" THEN given ELSE IF n \in DOMAIN d.profiles THEN d.profiles[n] ELSE FromEnv

withProfile(d, n, s) == [k \in DOMAIN d.profiles \cup {n} |-> IF k = n THEN s ELSE d.profiles[k]]

SetAdminProfile(d, n, given, activate) ==
  [active |-> IF activate \/ d.active = 0 THEN n ELSE d.active,
   profiles |-> withProfile(d, n, resolvedSettings(d, n, given))]

firstProfileName(ps) == IF DOMAIN ps = {} THEN 0 ELSE Min(DOMAIN ps)

DeleteAdminProfile(d, n) ==
  LET rest == Restrict(d.profiles, DOMAIN d.profiles \ {n})
  IN  [active |-> IF d.active = n THEN firstProfileName(rest) ELSE d.active, profiles |-> rest]

resolveAdminProfile(d, n, given) ==
  [active |-> n, profiles |-> withProfile(d, n, resolvedSettings(d, n, given))]

resolveChanges(d, n, given) ==
  n \in DOMAIN d.profiles => d.profiles[n] # resolvedSettings(d, n, given)

-----------------------------------------------------------------------------
(* A command starts.  connect, stop and list name the profile by flag, by  *)
(* the alias record, or by the environment; stop needs an alias record.    *)
BeginCommand(c) ==
  /\ adminCmd[c] = IdleCommand
  /\ \E op \in {"set", "setActive", "activate", "delete", "connect", "stop", "list"},
        n \in Profiles \cup {0}, a \in ProfileAliases, g \in Settings \cup {""} :
       /\ op \in {"set", "setActive", "activate", "delete"} => n # 0
       /\ op \in {"activate", "delete"} => g = ""
       /\ op = "stop" => aliasProfile[a] # 0
       /\ TakesLock(op) => profileLock = {}
       /\ profileLock' = IF TakesLock(op) THEN profileLock \cup {c} ELSE profileLock
       /\ adminCmd' = [adminCmd EXCEPT ![c] =
            [IdleCommand EXCEPT
               !.pc = "load", !.op = op, !.given = g,
               !.alias = IF TakesLock(op) THEN a ELSE "",
               !.name = IF n # 0 THEN n
                        ELSE IF TakesLock(op) /\ aliasProfile[a] # 0 THEN aliasProfile[a]
                        ELSE Default]]
  /\ overlapped' = (overlapped \/ \E d \in ProfileCommands \ {c} : adminCmd[d] # IdleCommand)
  /\ UNCHANGED <<file, tmp, aliasProfile, processProfile>>

referencedByNobody(n) == FALSE

(* DeleteAdminProfile reads the alias and the process records after the    *)
(* profiles, and refuses a profile one of them names.                      *)
referenced(n) == \/ \E a \in ProfileAliases : aliasProfile[a] = n
                 \/ \E a \in ProfileAliases : processProfile[a] = n

(* LoadAdminProfiles and what the command makes of the document: an error  *)
(* ends the command, a resolve that changes nothing saves nothing.         *)
Load(c) ==
  /\ adminCmd[c].pc = "load"
  /\ LET k == adminCmd[c]
         save(d) == adminCmd' = [adminCmd EXCEPT ![c] = saving(k, d)] /\ UNCHANGED profileLock
     IN  CASE ~whole(file) -> Finish(c)
           [] whole(file) /\ k.op \in {"set", "setActive"} ->
                save(SetAdminProfile(file, k.name, k.given, k.op = "setActive"))
           [] whole(file) /\ k.op = "activate" ->
                IF k.name \in DOMAIN file.profiles
                  THEN save([file EXCEPT !.active = k.name]) ELSE Finish(c)
           [] whole(file) /\ k.op = "delete" ->
                IF k.name \in DOMAIN file.profiles
                  THEN /\ adminCmd' = [adminCmd EXCEPT ![c].pc = "check", ![c].doc = file]
                       /\ UNCHANGED profileLock
                  ELSE Finish(c)
           [] OTHER ->
                IF resolveChanges(file, k.name, k.given)
                  THEN save(resolveAdminProfile(file, k.name, k.given))
                  ELSE IF k.op = "list" THEN Finish(c)
                  ELSE /\ adminCmd' = [adminCmd EXCEPT ![c].pc = "record", ![c].given = ""]
                       /\ UNCHANGED profileLock
  /\ UNCHANGED <<file, tmp, aliasProfile, processProfile, overlapped>>

DeleteChecks(c) ==
  /\ adminCmd[c].pc = "check"
  /\ IF referenced(adminCmd[c].name)
       THEN Finish(c)
       ELSE /\ adminCmd' = [adminCmd EXCEPT ![c] = saving(@, DeleteAdminProfile(@.doc, @.name))]
            /\ UNCHANGED profileLock
  /\ UNCHANGED <<file, tmp, aliasProfile, processProfile, overlapped>>

-----------------------------------------------------------------------------
(* saveJSONMap: os.WriteFile opens with O_CREATE|O_TRUNC, so two saves     *)
(* share one inode; its descriptor follows the inode through a rename.     *)
Truncate(c) ==
  /\ adminCmd[c].pc = "open" /\ tmp' = Empty
  /\ adminCmd' = [adminCmd EXCEPT ![c].pc = "write", ![c].at = "tmp"]
  /\ UNCHANGED <<file, aliasProfile, processProfile, profileLock, overlapped>>

(* Over another save's bytes the result is torn unless it covers them. *)
overwrite(old, d) == IF old = Empty THEN {d} ELSE {d, Torn}

Write(c) ==
  /\ adminCmd[c].pc = "write"
  /\ adminCmd' = [adminCmd EXCEPT ![c].pc = "rename", ![c].doc = NoDoc]
  /\ CASE adminCmd[c].at = "tmp"  -> tmp' \in overwrite(tmp, adminCmd[c].doc) /\ UNCHANGED file
       [] adminCmd[c].at = "file" -> file' \in overwrite(file, adminCmd[c].doc) /\ UNCHANGED tmp
       [] OTHER -> UNCHANGED <<file, tmp>>
  /\ UNCHANGED <<aliasProfile, processProfile, profileLock, overlapped>>

(* The rename moves whatever the temporary file holds; the second of two   *)
(* fails for want of the file, and its command with it.                    *)
Rename(c) ==
  /\ adminCmd[c].pc = "rename"
  /\ IF tmp = Absent
       THEN Finish(c) /\ UNCHANGED <<file, tmp>>
       ELSE /\ file' = tmp /\ tmp' = Absent
            /\ LET moved(d) == IF adminCmd[d].at = "tmp" THEN "file"
                               ELSE IF adminCmd[d].at = "file" THEN "gone" ELSE adminCmd[d].at
                   stays(d) == [adminCmd[d] EXCEPT !.at = moved(d)]
                   k == adminCmd[c]
                   done == IF TakesLock(k.op)
                             THEN [IdleCommand EXCEPT !.pc = "record", !.op = k.op,
                                                      !.name = k.name, !.alias = k.alias]
                             ELSE IdleCommand
               IN  /\ adminCmd' = [d \in ProfileCommands |-> IF d = c THEN done ELSE stays(d)]
                   /\ profileLock' = IF done = IdleCommand THEN profileLock \ {c} ELSE profileLock
  /\ UNCHANGED <<aliasProfile, processProfile, overlapped>>

(* resolveTunnel of create and connect: unless the tunnel is given by its  *)
(* ID, an alias record that exists has its own profile resolved as well,   *)
(* which saves it again if it is gone.  The command is "tunnelled" then.   *)
ResolveTunnel(c) ==
  /\ adminCmd[c].pc = "record" /\ adminCmd[c].op = "connect"
  /\ LET k == [adminCmd[c] EXCEPT !.op = "tunnelled"]
         n == aliasProfile[k.alias]
     IN  \/ /\ adminCmd' = [adminCmd EXCEPT ![c] = k]
            /\ UNCHANGED profileLock
         \/ /\ n # 0 /\ ~whole(file) /\ Finish(c)
         \/ /\ n # 0 /\ whole(file) /\ resolveChanges(file, n, "")
            /\ adminCmd' = [adminCmd EXCEPT ![c] = saving(k, resolveAdminProfile(file, n, ""))]
            /\ UNCHANGED profileLock
  /\ UNCHANGED <<file, tmp, aliasProfile, processProfile, overlapped>>

(* A connect that finds its tunnel gone drops the alias record first.      *)
(* create and connect record the profile in the alias record, connect then *)
(* in the process record; stop marks the process record stopped.  Each may *)
(* fail before that, in its remote calls.                                  *)
RecordAlias(c) ==
  /\ adminCmd[c].pc = "record"
  /\ LET k == adminCmd[c]
         record(n) == aliasProfile' = [aliasProfile EXCEPT ![k.alias] = n]
     IN  \/ /\ k.op = "tunnelled" /\ aliasProfile[k.alias] # 0 /\ record(0)
            /\ UNCHANGED <<processProfile, profileLock, adminCmd>>
         \/ /\ k.op = "tunnelled" /\ record(k.name)
            /\ UNCHANGED <<processProfile, profileLock>> /\ Do(c, "recordProcess")
         \/ /\ k.op = "tunnelled" /\ UNCHANGED <<aliasProfile, processProfile>> /\ Finish(c)
         \/ /\ k.op = "stop"
            /\ processProfile' \in {processProfile, [processProfile EXCEPT ![k.alias] = 0]}
            /\ UNCHANGED aliasProfile /\ Finish(c)
  /\ UNCHANGED <<file, tmp, overlapped>>

RecordProcess(c) ==
  /\ adminCmd[c].pc = "recordProcess" /\ Finish(c)
  /\ LET k == adminCmd[c]
     IN  processProfile' \in {processProfile, [processProfile EXCEPT ![k.alias] = k.name]}
  /\ UNCHANGED <<file, tmp, aliasProfile, overlapped>>

(* Remove, of an alias whose runtime is stopped, and CleanupInventory, of  *)
(* one it finds stale: both under the lock and without a profile.          *)
Forget(c, a) ==
  /\ adminCmd[c] = IdleCommand /\ profileLock = {}
  /\ aliasProfile' = [aliasProfile EXCEPT ![a] = 0]
  /\ processProfile' = [processProfile EXCEPT ![a] = 0]
  /\ overlapped' = (overlapped \/ \E d \in ProfileCommands \ {c} : adminCmd[d] # IdleCommand)
  /\ UNCHANGED <<file, tmp, profileLock, adminCmd>>

ProfilesInit ==
  /\ file = NoDoc /\ tmp = Absent
  /\ aliasProfile = [a \in ProfileAliases |-> 0] /\ processProfile = [a \in ProfileAliases |-> 0]
  /\ profileLock = {} /\ adminCmd = [c \in ProfileCommands |-> IdleCommand] /\ overlapped = FALSE

ProfilesNext == \E c \in ProfileCommands :
  \/ BeginCommand(c) \/ Load(c) \/ DeleteChecks(c)
  \/ Truncate(c) \/ Write(c) \/ Rename(c)
  \/ ResolveTunnel(c) \/ RecordAlias(c) \/ RecordProcess(c) \/ \E a \in ProfileAliases : Forget(c, a)

ProfilesSpec == ProfilesInit /\ [][ProfilesNext]_profileVars

-----------------------------------------------------------------------------
(* However the unlocked load-change-save cycles of several commands        *)
(* interleave, and whichever save reaches the shared temporary file first, *)
(* a readable state file names an active profile exactly when it has       *)
(* profiles, and one it has.                                               *)
ActiveExists ==
  whole(file) => /\ file.active = 0 <=> DOMAIN file.profiles = {}
                 /\ file.active # 0 => file.active \in DOMAIN file.profiles

(* "admin profile %s is still referenced": as long as commands have run    *)
(* one after the other, the profile an alias or a runtime that was not     *)
(* stopped names is in the file, so a later command finds the settings the *)
(* alias was made with and not the environment's.                          *)
ReferencesExist ==
  ~overlapped =>
    \A a \in ProfileAliases :
      {aliasProfile[a], processProfile[a]} \ {0} \subseteq DOMAIN file.profiles

(* The active profile exists whatever overlaps, and the ones referred to   *)
(* exist where nothing has.                                                *)
ReferencedExists == ReferencesExist /\ ActiveExists
=============================================================================
