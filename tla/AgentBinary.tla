---------------------------- MODULE AgentBinary ----------------------------
(***************************************************************************)
(* The agent's own program on a host: the binary and its _internal          *)
(* directory under /opt/logstash-agent/bin, their backups, and the          *)
(* processes that replace them.  An agent whose server wants another        *)
(* version spawns `upgrade`, which re-launches itself in a transient unit    *)
(* (or, when systemd-run fails, stays in the agent's own cgroup), and an     *)
(* administrator's `install` replaces an older binary in the same way.       *)
(* None of them takes a lock.  systemd starts agents from whatever files     *)
(* there are, and starts them again ten seconds after they failed.           *)
(*                                                                           *)
(* Every step of a replacement is one action, and may be cut short.          *)
(***************************************************************************)
EXTENDS Naturals

CONSTANTS
    Agents,       \* the agent services of the host
    Packaged,     \* the one of them that is logstash-agent.service
    Upgraders,    \* processes of `logstash-agent upgrade`
    Installer,    \* the process of `logstash-agent install`
    NoAgent,      \* of a process that is in no agent's cgroup
    NoState,      \* no state.json, or none in memory
    MaxVersion,   \* versions are 1 .. MaxVersion
    MaxFaults     \* processes killed, steps failed, services restarted by hand

ASSUME HostAssumption ==
    /\ Packaged \in Agents
    /\ NoAgent \notin Agents
    /\ Installer \notin Upgraders
    /\ MaxVersion \in Nat \ {0}
    /\ MaxFaults \in Nat

Versions == 1 .. MaxVersion
Missing  == 0
Torn     == MaxVersion + 1
Content  == Missing .. Torn          \* of a file, or of a directory tree
Writers  == Upgraders \cup {Installer}

(* state.json, which is HostInstall's subject: agent_id, and the connection enrolled
   ("mixed": the one's connection_id and the other's api_key).
   A process loses with its memory what it has loaded of it. *)
Ids         == 1 .. 2
Connections == {"none", "mixed", "packaged", "instance"}
States      == [id : Ids, conn : Connections]

ASSUME StateAssumption == NoState \notin States

VARIABLES
    files,     \* binary, _internal and the backup of each
    cache,     \* the downloaded tarball of each version
    good,      \* the versions whose program works: is active two seconds after its start
    svc,       \* the agent services
    desired,   \* the agent version that the server asks for
    job,       \* what each process that replaces the binary is doing
    regVersion,\* the package version in install-registry.json
    faults,
    risk       \* history: see Recoverable

binVars == <<files, cache, good, svc, desired, job, regVersion, faults, risk>>

Places == {"idle", "fetch", "download", "bakBin", "bakLib", "bin", "dropLib", "lib", "restart",
           "verify", "rbStop", "rbBin", "rbLib", "rbStart", "rbGivesUp", "cleanBin", "cleanLib",
           "decide", "restartAll", "installed", "refused"}

(* Every variable has its type. *)
BinTypeOK ==
    /\ files \in [bin : Content, lib : Content, bakBin : Content, bakLib : Content]
    /\ cache \in [Versions -> {"none", "part", "whole"}]
    /\ good \in SUBSET Versions
    /\ svc \in [Agents -> [st : {"absent", "stopped", "failing", "up"},
                           version : Content, asked : BOOLEAN, current : BOOLEAN,
                           copy : States \cup {NoState}]]
    /\ desired \in Versions
    /\ job \in [Writers -> [at : Places, version : Versions \cup {Missing}, within : Agents \cup {NoAgent}]]
    /\ regVersion \in Versions \cup {Missing}
    /\ faults \in 0 .. MaxFaults
    /\ risk \in BOOLEAN

-----------------------------------------------------------------------------
(* Files and services *)

Whole(v, bin, lib) == bin = v /\ lib = v

Installed(v) == Whole(v, files.bin, files.lib)
BackedUp(v)  == Whole(v, files.bakBin, files.bakLib)

(* A binary without its own libraries does not start; with those of another
   version it may. *)
MayRun ==
    LET known == files.bin \in Versions /\ files.lib \in Versions
    IN  IF known /\ files.bin = files.lib THEN {files.bin \in good}
        ELSE IF known THEN BOOLEAN ELSE {FALSE}

(* A (re)start of services: their processes are new, with a new session, and run
   what the files hold (current: the very file that is installed).  The version an
   agent reports is in _internal. *)
StartedFrom(ran) == [st      |-> IF ran THEN "up" ELSE "failing",
                     version |-> files.lib,
                     asked   |-> FALSE,
                     current |-> ran,
                     copy    |-> NoState]

Idle == [at |-> "idle", version |-> Missing, within |-> NoAgent]

(* What was spawned inside the service's cgroup ends with it. *)
KilledWith(as, jobs) ==
    [w \in Writers |-> IF jobs[w].within \in as THEN Idle ELSE jobs[w]]

Starts(as) ==
    \E ran \in MayRun :
        /\ svc' = [a \in Agents |-> IF a \in as THEN StartedFrom(ran) ELSE svc[a]]
        /\ risk' = (risk \/ (as # {} /\ ran /\ files.bin # files.lib))

NoStart == UNCHANGED <<svc, risk>>

Fault == faults < MaxFaults /\ faults' = faults + 1

-----------------------------------------------------------------------------
(* The controller's check-in asks for an upgrade, once in a session. *)

Asks(a, u, within) ==
    /\ svc[a].st = "up"
    /\ ~svc[a].asked
    /\ desired # svc[a].version
    /\ job[u].at = "idle"
    /\ svc' = [svc EXCEPT ![a].asked = TRUE]
    /\ job' = [job EXCEPT ![u] = [at |-> "fetch", version |-> desired, within |-> within]]
    /\ UNCHANGED <<files, cache, good, desired, regVersion, risk>>

Ask(a, u) == u \in Upgraders /\ Asks(a, u, NoAgent) /\ UNCHANGED faults

(* systemd-run fails: the upgrade goes on in the process that was spawned. *)
AskAttached(a, u) == u \in Upgraders /\ Asks(a, u, a) /\ Fault

(* systemd-run times out: the process leaves and nothing is upgraded. *)
AskLost(a) ==
    /\ svc[a].st = "up" /\ ~svc[a].asked /\ desired # svc[a].version
    /\ svc' = [svc EXCEPT ![a].asked = TRUE]
    /\ Fault
    /\ UNCHANGED <<files, cache, good, desired, job, regVersion, risk>>

-----------------------------------------------------------------------------
(* Steps of a replacement *)

At(w, place) == job[w].at = place

Goes(w, place) == job' = [job EXCEPT ![w].at = place]

Leaves(w) == job' = [job EXCEPT ![w] = Idle]

Writes(w, file, content, next) ==
    /\ files' = [files EXCEPT ![file] = content]
    /\ Goes(w, next)
    /\ UNCHANGED <<cache, good, svc, desired, regVersion, faults>>

(* A tarball in the cache is used as it is, whoever put it there. *)
Fetch(u) ==
    /\ At(u, "fetch")
    /\ \/ /\ cache[job[u].version] = "whole"
          /\ Goes(u, "bakBin")
          /\ UNCHANGED cache
       \/ /\ cache[job[u].version] = "part"           \* it does not unpack
          /\ Leaves(u)
          /\ UNCHANGED cache
       \/ /\ cache[job[u].version] = "none"
          /\ cache' = [cache EXCEPT ![job[u].version] = "part"]
          /\ Goes(u, "download")
    /\ UNCHANGED <<files, good, svc, desired, regVersion, faults, risk>>

Download(u) ==
    /\ At(u, "download")
    /\ cache' = [cache EXCEPT ![job[u].version] = "whole"]
    /\ Goes(u, "bakBin")
    /\ UNCHANGED <<files, good, svc, desired, regVersion, faults, risk>>

Replacing(w) == job[w].at \in {"bakLib", "bin", "dropLib", "lib", "restart", "verify", "rbStop",
                               "rbBin", "rbLib", "rbStart", "rbGivesUp", "restartAll",
                               "cleanBin", "cleanLib"}

(* A backup of an installation that is not whole or does not work, or one made
   beside another process at work on the same files. *)
Unsound(w) == \/ ~(\E v \in good : Installed(v))
              \/ \E x \in Writers \ {w} : Replacing(x)

BackupBinary(w) ==
    /\ At(w, "bakBin")
    /\ files.bin # Missing
    /\ Writes(w, "bakBin", files.bin, "bakLib")
    /\ risk' = (risk \/ Unsound(w))

(* Without an _internal the backup of an earlier one stays. *)
BackupLibraries(w) ==
    /\ At(w, "bakLib")
    /\ Writes(w, "bakLib", IF files.lib = Missing THEN files.bakLib ELSE files.lib, "bin")
    /\ UNCHANGED risk

(* A rename: who runs the old file goes on running it. *)
ReplaceBinary(w) ==
    /\ At(w, "bin")
    /\ files' = [files EXCEPT !.bin = job[w].version]
    /\ svc' = [a \in Agents |-> [svc[a] EXCEPT !.current = FALSE]]
    /\ Goes(w, "dropLib")
    /\ UNCHANGED <<cache, good, desired, regVersion, faults, risk>>

DropLibraries(w) ==
    /\ At(w, "dropLib")
    /\ Writes(w, "lib", Missing, "lib")
    /\ UNCHANGED risk

(* On a first install the installer's next steps find nothing to restart or remove. *)
CopyLibraries(w) ==
    /\ At(w, "lib")
    /\ Writes(w, "lib", job[w].version, IF w = Installer THEN "restartAll" ELSE "restart")
    /\ UNCHANGED risk

(* Only the packaged agent's service is restarted, and only if it has a unit. *)
Restart(u) ==
    /\ At(u, "restart")
    /\ IF svc[Packaged].st = "absent"
       THEN Goes(u, "cleanBin") /\ NoStart
       ELSE /\ Starts({Packaged})
            /\ job' = KilledWith({Packaged}, [job EXCEPT ![u].at = "verify"])
    /\ UNCHANGED <<files, cache, good, desired, regVersion, faults>>

(* The command fails or times out, with or without the restart. *)
RestartFails(u) ==
    /\ At(u, "restart")
    /\ svc[Packaged].st # "absent"
    /\ \/ Starts({Packaged}) /\ job' = KilledWith({Packaged}, [job EXCEPT ![u].at = "rbStop"])
       \/ NoStart /\ Goes(u, "rbStop")
    /\ Fault
    /\ UNCHANGED <<files, cache, good, desired, regVersion>>

\* Mutant: the service is not looked at after the restart.
TrustRestart(u) ==
    /\ At(u, "verify")
    /\ Goes(u, "cleanBin")
    /\ UNCHANGED <<files, cache, good, svc, desired, regVersion, faults, risk>>

(* systemctl is-active, two seconds after the restart.  The unit is Type=simple, active
   as long as its process: what works, for this module, is a program that is up at
   that look.  One that exits later is not told from one that an operator stops. *)
Verify(u) ==
    /\ At(u, "verify")
    /\ Goes(u, IF svc[Packaged].st = "up" THEN "cleanBin" ELSE "rbStop")
    /\ UNCHANGED <<files, cache, good, svc, desired, regVersion, faults, risk>>

-----------------------------------------------------------------------------
(* Rollback: every step of it tolerates its own failure *)

StopFailed(u) ==
    /\ At(u, "rbStop")
    /\ svc' = [svc EXCEPT ![Packaged] = [@ EXCEPT !.st = "stopped", !.current = FALSE, !.copy = NoState]]
    /\ job' = KilledWith({Packaged}, [job EXCEPT ![u].at = "rbBin"])
    /\ UNCHANGED <<files, cache, good, desired, regVersion, faults, risk>>

(* The backup is copied onto the binary itself, which fails while an agent runs it. *)
Busy == \E a \in Agents : svc[a].current

RestoreBinary(u) ==
    /\ At(u, "rbBin")
    /\ IF files.bakBin = Missing \/ Busy
       THEN /\ Goes(u, "rbGivesUp")
            /\ UNCHANGED <<files, cache, good, svc, desired, regVersion, faults>>
       ELSE Writes(u, "bin", files.bakBin, "rbLib")
    /\ UNCHANGED risk

RestoreLibraries(u) ==
    /\ job[u].at \in {"rbLib", "rbGivesUp"}
    /\ files' = [files EXCEPT !.lib = IF files.bakLib = Missing THEN @ ELSE files.bakLib]
    /\ IF At(u, "rbLib") THEN Goes(u, "rbStart") ELSE Leaves(u)
    /\ UNCHANGED <<cache, good, svc, desired, regVersion, faults, risk>>

\* Mutant: the restored program is not started.
LeaveStopped(u) ==
    /\ At(u, "rbStart")
    /\ Leaves(u)
    /\ UNCHANGED <<files, cache, good, svc, desired, regVersion, faults, risk>>

StartRestored(u) ==
    /\ At(u, "rbStart")
    /\ IF svc[Packaged].st = "up" THEN NoStart ELSE Starts({Packaged})
    /\ Leaves(u)
    /\ UNCHANGED <<files, cache, good, desired, regVersion, faults>>

-----------------------------------------------------------------------------
(* Clean-up.  An upgrade gets here having seen the packaged service run, if the
   host has one; the installer has not looked. *)

RemoveBinaryBackup(w) ==
    /\ At(w, "cleanBin")
    /\ Writes(w, "bakBin", Missing, "cleanLib")
    /\ risk' = (risk \/ /\ w = Installer \/ svc[Packaged].st = "absent"
                        /\ ~(\E v \in good : Installed(v)))

RemoveLibrariesBackup(w) ==
    /\ At(w, "cleanLib")
    /\ files' = [files EXCEPT !.bakLib = Missing]
    /\ IF w = Installer THEN Goes(w, "installed") ELSE Leaves(w)
    /\ UNCHANGED <<cache, good, svc, desired, regVersion, faults, risk>>

-----------------------------------------------------------------------------
(* The installer's part: what it installs is its own program *)

InstallBegins(source) ==
    /\ At(Installer, "idle")
    /\ job' = [job EXCEPT ![Installer] = [at |-> "decide", version |-> source, within |-> NoAgent]]
    /\ UNCHANGED <<files, cache, good, svc, desired, regVersion, faults, risk>>

(* What is installed: the registry says it, or else `--version` does. *)
SeenVersion ==
    IF regVersion # Missing THEN {regVersion}
    ELSE {IF ran THEN files.lib ELSE Missing : ran \in MayRun}

InstallDecides ==
    /\ At(Installer, "decide")
    /\ \/ files.bin = Missing /\ Goes(Installer, "bin")
       \/ files.bin = job[Installer].version /\ Goes(Installer, "installed")    \* same file
       \/ /\ files.bin # Missing
          /\ \E seen \in SeenVersion :
                \/ seen = Missing /\ Goes(Installer, "refused")
                \/ seen \in Versions /\ seen >= job[Installer].version /\ Goes(Installer, "installed")
                \/ /\ seen \in Versions /\ seen < job[Installer].version
                   /\ \/ Goes(Installer, "bakBin")
                      \/ Goes(Installer, "installed")                          \* declined
    /\ UNCHANGED <<files, cache, good, svc, desired, regVersion, faults, risk>>

(* Every agent service that is active, and no look at what became of it. *)
RestartAll ==
    /\ At(Installer, "restartAll")
    /\ LET active == {a \in Agents : svc[a].st = "up"}
       IN  /\ Starts(active)
           /\ job' = KilledWith(active, [job EXCEPT ![Installer].at = "cleanBin"])
    /\ UNCHANGED <<files, cache, good, desired, regVersion, faults>>

-----------------------------------------------------------------------------
(* What may go wrong, and what else happens on the host *)

(* What a step that is cut short leaves of the file it writes or removes. *)
CutShort(w) ==
    LET at == job[w].at
        cut(file, contents) == {[files EXCEPT ![file] = c] : c \in contents}
    IN  {files} \cup
        CASE at = "bakBin"                -> cut("bakBin", {Missing, Torn})
          [] at = "bakLib"                -> IF files.lib = Missing THEN {} ELSE cut("bakLib", {Missing, Torn})
          [] at \in {"dropLib", "lib"}    -> cut("lib", {Torn})
          [] at = "rbBin"                 -> IF files.bakBin = Missing \/ Busy THEN {} ELSE cut("bin", {Torn})
          [] at \in {"rbLib", "rbGivesUp"} -> IF files.bakLib = Missing THEN {} ELSE cut("lib", {Missing, Torn})
          [] at = "cleanLib"              -> cut("bakLib", {Torn})
          [] OTHER                        -> {}

(* The process is killed; or, before the restart, it raises: nothing is undone. *)
Killed(w) ==
    /\ job[w].at \notin {"idle", "installed", "refused"}
    /\ files' \in CutShort(w)
    /\ IF w = Installer THEN Goes(w, "refused") ELSE Leaves(w)
    /\ risk' = (risk \/ (At(w, "bakBin") /\ Unsound(w)))
    /\ Fault
    /\ UNCHANGED <<cache, good, svc, desired, regVersion>>

(* A download that fails before anything came leaves no file. *)
DownloadFails(u) ==
    /\ At(u, "fetch") /\ cache[job[u].version] = "none"
    /\ Leaves(u)
    /\ Fault
    /\ UNCHANGED <<files, cache, good, svc, desired, regVersion, risk>>

RollbackStepFails(u) ==
    /\ \/ At(u, "rbStop") /\ UNCHANGED files /\ Goes(u, "rbBin")
       \/ At(u, "rbBin")  /\ files' \in CutShort(u) /\ Goes(u, "rbGivesUp")
       \/ At(u, "rbLib")  /\ files' \in CutShort(u) /\ Goes(u, "rbStart")
       \/ At(u, "rbStart") /\ UNCHANGED files /\ Leaves(u)
    /\ Fault
    /\ UNCHANGED <<cache, good, svc, desired, regVersion, risk>>

(* systemd starts a service again that failed (Restart=always). *)
Retry(a) ==
    /\ svc[a].st = "failing"
    /\ Starts({a})
    /\ UNCHANGED <<files, cache, good, desired, job, regVersion, faults>>

(* An agent ends, and is started again: a crash, or an operator. *)
AgentRestarts(a) ==
    /\ svc[a].st = "up"
    /\ Starts({a})
    /\ job' = KilledWith({a}, job)
    /\ Fault
    /\ UNCHANGED <<files, cache, good, desired, regVersion>>

(* The server asks for another version. *)
Desires(v) ==
    /\ v # desired
    /\ desired' = v
    /\ Fault
    /\ UNCHANGED <<files, cache, good, svc, job, regVersion, risk>>

-----------------------------------------------------------------------------
Service(st, version) ==
    [st |-> st, version |-> version, asked |-> FALSE, current |-> st = "up", copy |-> NoState]

(* Either an agent of version 1 is installed, some of its services with a unit,
   or nothing is. *)
BinInit ==
    /\ \/ /\ files = [bin |-> 1, lib |-> 1, bakBin |-> Missing, bakLib |-> Missing]
          /\ \E units \in SUBSET Agents :
                svc = [a \in Agents |-> IF a \in units THEN Service("up", 1) ELSE Service("absent", Missing)]
          /\ regVersion \in {1, Missing}
          /\ risk = FALSE
       \/ /\ files = [bin |-> Missing, lib |-> Missing, bakBin |-> Missing, bakLib |-> Missing]
          /\ svc = [a \in Agents |-> Service("absent", Missing)]
          /\ regVersion = Missing
          /\ risk = TRUE
    /\ good \in {g \in SUBSET Versions : 1 \in g}
    /\ cache = [v \in Versions |-> "none"]
    /\ desired \in Versions
    /\ job = [w \in Writers |-> Idle]
    /\ faults = 0

WriterStep(w) ==
    \/ BackupBinary(w) \/ BackupLibraries(w) \/ ReplaceBinary(w) \/ DropLibraries(w)
    \/ CopyLibraries(w) \/ RemoveBinaryBackup(w) \/ RemoveLibrariesBackup(w)

UpgradeStep(u) ==
    \/ Fetch(u) \/ Download(u) \/ Restart(u) \/ Verify(u)
    \/ StopFailed(u) \/ RestoreBinary(u) \/ RestoreLibraries(u) \/ StartRestored(u)

InstallStep == InstallDecides \/ RestartAll

BinNext ==
    \/ \E a \in Agents : \/ \E u \in Upgraders : Ask(a, u) \/ AskAttached(a, u)
                         \/ AskLost(a) \/ Retry(a) \/ AgentRestarts(a)
    \/ \E w \in Writers : WriterStep(w) \/ Killed(w)
    \/ \E u \in Upgraders : \/ UpgradeStep(u)
                            \/ RestartFails(u) \/ DownloadFails(u) \/ RollbackStepFails(u)
    \/ InstallStep
    \/ \E v \in Versions : Desires(v)

-----------------------------------------------------------------------------
(* Properties *)

(* perform_upgrade (installer.py 3994-4010, 4100-4180): whatever is cut short, and
   wherever, a whole program that works is still installed or in the backup, so
   that the rollback, or the manual steps it prints, have something to restore.
   Outside it (risk): a backup begun over an installation that is not whole or
   does not work, or while another process replaces the same files, a backup
   dropped without a look at the service, and a service that happens to run on
   the binary of one version and the libraries of another. *)
Recoverable ==
    ~risk => \E v \in good : Installed(v) \/ BackedUp(v)

(* perform_upgrade, steps 9 and 10: a release that does not work never takes the
   packaged agent away for good, as long as nothing else goes wrong. *)
ServiceReturns ==
    []<>((faults = 0 /\ ~risk /\ svc[Packaged].st # "absent") => svc[Packaged].st = "up")
=============================================================================
