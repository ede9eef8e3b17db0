---------------------------- MODULE HostInstall ----------------------------
(***************************************************************************)
(* `logstash-agent install` on a host that may have a packaged agent, beside *)
(* the agents and upgrades of AgentBinary.  The enrollment of every role     *)
(* writes the packaged agent's state.json; for a managed or simulate         *)
(* instance that file is copied into the instance's tree afterwards and put  *)
(* back as it was.  Agents read, change and replace their state file under    *)
(* a lock of their own process only, whatever the installer does meanwhile.  *)
(***************************************************************************)
EXTENDS AgentBinary

CONSTANT Instance   \* the agent service of the managed or simulate instance

ASSUME InstanceAssumption == Agents = {Packaged, Instance} /\ Packaged # Instance

VARIABLES
    state,      \* state.json of each agent
    registered, \* the roles in install-registry.json
    place, role, saved, hadPackaged,   \* perform_installation
    spoilt      \* history: see IdentitiesApart

hostVars == <<state, registered, place, role, saved, hadPackaged, spoilt>>
allVars  == <<binVars, hostVars>>

InstallPlaces == {"idle", "binary", "enroll", "enrolling", "setup", "config", "relocate", "restore",
                  "verify", "enable", "register", "done", "failed"}

(* While the packaged agent's state.json is being enrolled, or is the new instance's. *)
Window == {"enrolling", "setup", "config", "relocate", "restore"}

(* Every variable has its type; of ids no more are ever made than there are roles. *)
HostTypeOK ==
    /\ BinTypeOK
    /\ state \in [Agents -> States \cup {NoState}]
    /\ registered \in SUBSET Agents
    /\ place \in InstallPlaces
    /\ role \in Agents
    /\ saved \in States \cup {NoState}
    /\ hadPackaged \in BOOLEAN
    /\ spoilt \in BOOLEAN

-----------------------------------------------------------------------------
\* Mutant: an id is generated whenever one is asked for.
NextId(s) == IF s = NoState THEN [id |-> 1, conn |-> "none"] ELSE [s EXCEPT !.id = @ + 1]

(* get_or_create_agent_id: an id is only generated where the file has none. *)
WithId(s) == IF s = NoState
             THEN [id |-> IF \A a \in Agents : state[a] = NoState THEN 1 ELSE 2, conn |-> "none"]
             ELSE s

Begin(r, source) ==
    /\ place = "idle"
    /\ InstallBegins(source)
    /\ state' = [state EXCEPT ![Packaged] = WithId(@)]
    /\ role' = r
    /\ place' = "binary"
    /\ UNCHANGED <<registered, saved, hadPackaged, spoilt>>

Refused ==
    /\ place = "binary" /\ At(Installer, "refused")
    /\ place' = "failed"
    /\ UNCHANGED <<binVars, state, registered, role, saved, hadPackaged, spoilt>>

(* The packaged agent's state is kept aside before the enrollment writes it. *)
Snapshot ==
    /\ place = "binary" /\ At(Installer, "installed")
    /\ hadPackaged' = (Packaged \in registered)
    /\ saved' = IF Packaged \in registered THEN state[Packaged] ELSE NoState
    /\ place' = "enroll"
    /\ UNCHANGED <<binVars, state, registered, role, spoilt>>

(* The registry cannot be read, now or ever after, or the state cannot: the installer
   goes on as on a host without a packaged agent. *)
SnapshotFails ==
    /\ place = "binary" /\ At(Installer, "installed")
    /\ registered' \in {registered, {}}
    /\ spoilt' = (spoilt \/ (role = Instance /\ Packaged \in registered))
    /\ place' = "enroll"
    /\ Fault
    /\ UNCHANGED <<files, cache, good, svc, desired, job, regVersion, risk,
                   state, role, saved, hadPackaged>>

ConnectionOf(r) == IF r = Packaged THEN "packaged" ELSE "instance"

(* save_enrollment_config: every update merges into what the file holds.  From the
   first of them to the last, the file is of both connections. *)
EnrollBegins ==
    /\ place = "enroll"
    /\ state' = [state EXCEPT ![Packaged] = [WithId(@) EXCEPT !.conn = "mixed"]]
    /\ place' = "enrolling"
    /\ UNCHANGED <<binVars, registered, role, saved, hadPackaged, spoilt>>

Enroll ==
    /\ place = "enrolling"
    /\ state' = [state EXCEPT ![Packaged] = [WithId(@) EXCEPT !.conn = ConnectionOf(role)]]
    /\ place' = IF role = Packaged THEN "enable" ELSE "setup"
    /\ UNCHANGED <<binVars, registered, role, saved, hadPackaged, spoilt>>

(* register_package and register_instance: the package's version is the installer's. *)
Records(r) ==
    /\ registered' = registered \cup {r}
    /\ regVersion' = job[Installer].version

EnableNow(a) == IF svc[a].st \in {"up", "failing"} THEN NoStart ELSE Starts({a})

(* ensure_simulate_setup, as root, starts the instance's service at once; what
   fails in it leaves the set-up pending. *)
Setup ==
    /\ place = "setup"
    /\ EnableNow(Instance)
    /\ IF svc'[Instance].st = "up" THEN Records(Instance) ELSE UNCHANGED <<registered, regVersion>>
    /\ place' = "config"
    /\ UNCHANGED <<files, cache, good, desired, job, faults,
                   state, role, saved, hadPackaged, spoilt>>

SetupPends ==
    /\ place = "setup"
    /\ place' = "config"
    /\ Fault
    /\ UNCHANGED <<files, cache, good, svc, desired, job, regVersion, risk,
                   state, registered, role, saved, hadPackaged, spoilt>>

(* The configuration is written, and the set-up done once more without a start. *)
Configure ==
    /\ place = "config"
    /\ Records(Instance)
    /\ place' = "relocate"
    /\ UNCHANGED <<files, cache, good, svc, desired, job, faults, risk,
                   state, role, saved, hadPackaged, spoilt>>

Relocate ==
    /\ place = "relocate"
    /\ state' = [state EXCEPT ![Instance] = state[Packaged]]
    /\ place' = "restore"
    /\ UNCHANGED <<binVars, registered, role, saved, hadPackaged, spoilt>>

(* What both ways out of the window have in common: its locals end. *)
Checks == place' = "verify" /\ saved' = NoState /\ hadPackaged' = FALSE

\* Mutant: without a packaged role the transient copy is left.
RestoreKept ==
    /\ place = "restore"
    /\ state' = [state EXCEPT ![Packaged] = IF saved # NoState THEN saved ELSE @]
    /\ Checks
    /\ UNCHANGED <<binVars, registered, role, spoilt>>

Restore ==
    /\ place = "restore"
    /\ state' = [state EXCEPT ![Packaged] = IF saved # NoState THEN saved
                                             ELSE IF hadPackaged THEN @ ELSE NoState]
    /\ Checks
    /\ UNCHANGED <<binVars, registered, role, spoilt>>

(* An exception between the two is only logged. *)
RelocationFails ==
    /\ place \in {"relocate", "restore"}
    /\ Checks
    /\ spoilt' = TRUE
    /\ Fault
    /\ UNCHANGED <<files, cache, good, svc, desired, job, regVersion, risk,
                   state, registered, role>>

(* It is enrolled, whichever connection it names. *)
Verified ==
    /\ place = "verify"
    /\ place' = IF state[Instance] # NoState /\ state[Instance].conn # "none" THEN "enable" ELSE "failed"
    /\ UNCHANGED <<binVars, state, registered, role, saved, hadPackaged, spoilt>>

(* enable --now leaves a service that already runs as it is. *)
Enable ==
    /\ place = "enable"
    /\ EnableNow(role)
    /\ place' = IF role = Instance /\ svc'[Instance].st # "up" THEN "failed" ELSE "register"
    /\ UNCHANGED <<files, cache, good, desired, job, regVersion, faults,
                   state, registered, role, saved, hadPackaged, spoilt>>

Register ==
    /\ place = "register"
    /\ Records(role)
    /\ place' = "done"
    /\ UNCHANGED <<files, cache, good, svc, desired, job, faults, risk,
                   state, role, saved, hadPackaged, spoilt>>

(* The installer is killed, or raises: nothing is put back. *)
InstallFails ==
    /\ place \in Window \cup {"enroll", "verify", "enable", "register"}
    /\ place' = "failed" /\ saved' = NoState /\ hadPackaged' = FALSE
    /\ spoilt' = (spoilt \/ place \in Window)
    /\ Fault
    /\ UNCHANGED <<files, cache, good, svc, desired, job, regVersion, risk,
                   state, registered, role>>

-----------------------------------------------------------------------------
(* update_state of a running agent: load ... replace *)

UpdateLoads(a) ==
    /\ svc[a].st = "up" /\ svc[a].copy = NoState
    /\ svc' = [svc EXCEPT ![a].copy = WithId(state[a])]
    /\ UNCHANGED <<files, cache, good, desired, job, regVersion, faults, risk, hostVars>>

UpdateReplaces(a) ==
    /\ svc[a].copy # NoState
    /\ state' = [state EXCEPT ![a] = svc[a].copy]
    /\ svc' = [svc EXCEPT ![a].copy = NoState]
    /\ spoilt' = (spoilt \/ (state[a] # NoState /\ svc[a].copy.conn # state[a].conn))
    /\ UNCHANGED <<files, cache, good, desired, job, regVersion, faults, risk,
                   registered, place, role, saved, hadPackaged>>

-----------------------------------------------------------------------------
HostInit ==
    /\ BinInit
    /\ svc[Instance].st = "absent"
    /\ regVersion = files.bin
    /\ registered = {a \in Agents : svc[a].st # "absent"}
    /\ state = [a \in Agents |-> IF a \in registered THEN [id |-> 1, conn |-> "packaged"] ELSE NoState]
    /\ place = "idle" /\ role = Packaged
    /\ saved = NoState /\ hadPackaged = FALSE
    /\ spoilt = FALSE

InstallerStep ==
    \/ Refused \/ Snapshot \/ EnrollBegins \/ Enroll \/ Setup \/ Configure \/ Relocate \/ Restore
    \/ Verified \/ Enable \/ Register

HostNext ==
    \/ BinNext /\ UNCHANGED hostVars
    \/ \E r \in Agents, v \in Versions : Begin(r, v)
    \/ InstallerStep \/ SnapshotFails \/ SetupPends \/ RelocationFails \/ InstallFails
    \/ \E a \in Agents : UpdateLoads(a) \/ UpdateReplaces(a)

HostFairness ==
    /\ \A w \in Writers : WF_allVars(WriterStep(w) /\ UNCHANGED hostVars)
    /\ \A u \in Upgraders : WF_allVars(UpgradeStep(u) /\ UNCHANGED hostVars)
    /\ \A a \in Agents : WF_allVars(Retry(a) /\ UNCHANGED hostVars)

HostSpec == HostInit /\ [][HostNext]_allVars
HostFairSpec == HostSpec /\ HostFairness

(* Properties *)

Names(a, connection) == state[a] # NoState /\ state[a].conn = connection

Apart ==
    place \notin Window =>
        /\ svc[Packaged].st # "absent" => Names(Packaged, "packaged")
        /\ ~Names(Packaged, "instance")
        /\ (place = "done" /\ role = Instance) => Names(Instance, "instance")

(* perform_installation (installer.py 2967-2996, 3030-3060): once the installer is past
   its window, an installed packaged agent has its state, and it names its own
   connection; no instance's identity is left there; and an instance that was
   installed has its own.  Outside it (spoilt): an installer that fails or dies
   within the window, which puts nothing back; one that could not read the registry or
   the state, and removes that state instead; and an update_state of an agent that
   loaded one identity and replaces the other. *)
IdentitiesApart == ~spoilt => Apart
=============================================================================
