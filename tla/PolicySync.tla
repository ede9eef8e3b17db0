----------------------------- MODULE PolicySync -----------------------------
(***************************************************************************)
(* The controller thread of a managed or simulate agent: every check-in    *)
(* recovers a runtime upgrade that was cut short, asks the server whether  *)
(* anything is dirty, fetches the delta, writes the configuration files,   *)
(* the keystore and the pipelines, flips LOGSTASH_BINARY, restarts         *)
(* Logstash once, and acknowledges the policy revision.  A change of the   *)
(* Logstash runtime is journalled: a snapshot directory is written first,  *)
(* and either the new process answers and the pin is committed, or the     *)
(* snapshot is restored.  (controller.py, logstash_download.py)            *)
(*                                                                         *)
(* The process may be killed between any two writes (its own upgrade does  *)
(* so), and every write, request, restart and download may fail.  The      *)
(* contents of a policy part are the numbers 0 and 1; a configuration file *)
(* of the policy may also be empty, and is then never written.             *)
(***************************************************************************)
EXTENDS Integers, Sequences, SequencesExt

CONSTANTS Files,        \* the configuration files, in the order of the rollout
          MaxRevision,  \* bound on the revisions the operator publishes
          MaxFaults,    \* bound on crashes and failed operations
          Nothing       \* no file, no snapshot, no hash

ASSUME PolicySyncAssumption ==
    /\ Files \in Seq(STRING) /\ Len(Files) >= 1 /\ IsInjective(Files)
    /\ Range(Files) \cap {"keystore", "pipelines", "runtime"} = {}
    /\ MaxRevision \in Nat \ {0} /\ MaxFaults \in Nat

VARIABLES policy,    \* at the server: revision, content of every part, runtime
          disk,      \* content of every part in the settings directory
          state,     \* state.json: revision, pin, hashes of keystore and pipelines
          env,       \* LOGSTASH_BINARY in the instance's env file
          snap,      \* the .runtime-snapshot directory
          tree,      \* the extracted VERSION tree, and the thread that makes it
          loaded,    \* what the running Logstash was started with
          answered,  \* history: runtimes whose process answered its API
          pc, cycle, \* the controller thread: its place and its local variables
          faults     \* crashes and failures so far

vars == <<policy, disk, state, env, snap, tree, loaded, answered, pc, cycle, faults>>

ConfigFiles == Range(Files)
Parts       == ConfigFiles \cup {"keystore", "pipelines"}
AtStart     == ConfigFiles \cup {"keystore"}   \* read when Logstash starts
Empty       == 3
Contents    == {0, 1, Empty}
Torn        == 2                               \* truncated by a failed write
Runtimes    == {"SYSTEM", "VERSION"}

(* The fetched delta holds a part when the hash the agent reported differs. *)
NoCycle == [want |-> Nothing, delta |-> {}, next |-> 1, changed |-> FALSE, aborted |-> FALSE,
            failed |-> FALSE, updated |-> FALSE, restart |-> FALSE, mode |-> "none"]

Init ==
    /\ policy = [revision |-> 1, part |-> [p \in Parts |-> 0], runtime |-> "SYSTEM"]
    /\ \E missing \in SUBSET Parts :
          /\ ~ ConfigFiles \subseteq missing
          /\ disk = [p \in Parts |-> IF p \in missing THEN Nothing ELSE 0]
    /\ state = [revision |-> 0, version |-> "SYSTEM", binary |-> "SYSTEM",
                hash |-> [p \in {"keystore", "pipelines"} |-> disk[p]]]
    /\ env = "SYSTEM" /\ snap = Nothing /\ tree = "missing"
    /\ loaded = [part |-> [p \in AtStart |-> disk[p]], binary |-> "SYSTEM"]
    /\ answered = {"SYSTEM"}
    /\ pc = "idle" /\ cycle = NoCycle /\ faults = 0

Fault == faults < MaxFaults /\ faults' = faults + 1
Fine  == UNCHANGED faults

(* What the agent reports of a part: files are hashed, the others are remembered. *)
Reported(p) == IF p \in ConfigFiles THEN disk[p] ELSE state.hash[p]
Delta       == {p \in Parts : Reported(p) # policy.part[p]}
               \cup (IF state.version # policy.runtime THEN {"runtime"} ELSE {})
Dirty       == state.revision # policy.revision \/ state.version # policy.runtime

Go(place, c) == pc' = place /\ cycle' = c
Abort(c)     == Go("decide", [c EXCEPT !.aborted = TRUE])
AbortFailed(c) == Abort([c EXCEPT !.failed = TRUE])
Rollback(mode) == Go("restore", [cycle EXCEPT !.mode = mode, !.failed = TRUE])
AfterRollback  == IF cycle.mode = "recover" THEN Go("report", NoCycle) ELSE Go("ack", cycle)

(***************************************************************************)
(* The operator, the process, the download thread                          *)
(***************************************************************************)
EditPart == \E p \in Parts, content \in Contents :
    /\ policy.revision < MaxRevision
    /\ content # policy.part[p] /\ (content = Empty => p \in ConfigFiles)
    /\ policy' = [policy EXCEPT !.revision = @ + 1, !.part[p] = content]
    /\ UNCHANGED <<disk, state, env, snap, tree, loaded, answered, pc, cycle, faults>>

EditRuntime ==
    /\ policy.revision < MaxRevision
    /\ \E r \in Runtimes \ {policy.runtime} :
          policy' = [policy EXCEPT !.revision = @ + 1, !.runtime = r]
    /\ UNCHANGED <<disk, state, env, snap, tree, loaded, answered, pc, cycle, faults>>

(* A thread dies with its process; what it had extracted stays. *)
Killed(t) == CASE t = "running" -> "missing" [] t = "extracting" -> "broken" [] OTHER -> t

RestoreOrder == Files \o <<"keystore", "pipelines">>
RestoredTo(n) ==
    LET back == {RestoreOrder[i] : i \in 1 .. n}
    IN  [p \in Parts |-> IF p \in back /\ snap.disk[p] # Nothing THEN snap.disk[p] ELSE disk[p]]

(* `if content`: a file that the delta brings, and that is not empty. *)
Brought(f) == f \in cycle.delta /\ cycle.want.part[f] # Empty

(* A write cut short truncates its file; the keystore is replaced atomically. *)
(* A restore cut short has put back some parts, in its order, and torn one.   *)
TornAt(p) == disk' = [disk EXCEPT ![p] = Torn] /\ UNCHANGED env
CutShort ==
    \/ UNCHANGED <<disk, env>>
    \/ /\ pc = "write" /\ cycle.next <= Len(Files) /\ Brought(Files[cycle.next])
       /\ TornAt(Files[cycle.next])
    \/ pc = "pipelines" /\ "pipelines" \in cycle.delta /\ TornAt("pipelines")
    \/ pc = "flip" /\ UNCHANGED disk /\ env' = "torn"
    \/ /\ pc = "restore"
       /\ \E n \in 0 .. Len(RestoreOrder) :
             \/ disk' = RestoredTo(n) /\ UNCHANGED env
             \/ /\ n < Len(RestoreOrder) /\ snap.disk[RestoreOrder[n + 1]] # Nothing
                /\ disk' = [RestoredTo(n) EXCEPT ![RestoreOrder[n + 1]] = Torn] /\ UNCHANGED env
             \/ n = Len(RestoreOrder) /\ disk' = RestoredTo(n) /\ env' = "torn"

Crash ==
    /\ Fault /\ CutShort /\ Go("idle", NoCycle) /\ tree' = Killed(tree)
    /\ UNCHANGED <<policy, state, snap, loaded, answered>>

DownloadProgress ==
    /\ \/ tree = "running" /\ tree' = "extracting"
       \/ tree = "extracting" /\ tree' = "ready"
    /\ Fine /\ UNCHANGED <<policy, disk, state, env, snap, loaded, answered, pc, cycle>>

DownloadFails ==
    /\ tree \in {"running", "extracting"} /\ tree' = Killed(tree)
    /\ Fault /\ UNCHANGED <<policy, disk, state, env, snap, loaded, answered, pc, cycle>>

(***************************************************************************)
(* Restarting the unit, and restoring a snapshot                           *)
(***************************************************************************)
Starts == loaded' = [part |-> [p \in AtStart |-> disk[p]], binary |-> env]
(* A restart that times out may have happened or not. *)
StartFails == Fault /\ (Starts \/ UNCHANGED loaded)

(* A process with a torn file, an unreadable env or a broken tree does not come up. *)
CanAnswer == /\ loaded.binary \in Runtimes
             /\ loaded.binary = "VERSION" => tree = "ready"
             /\ \A p \in AtStart : loaded.part[p] # Torn

RestoreSnapshot ==
    /\ pc = "restore"
    /\ disk' = RestoredTo(Len(RestoreOrder)) /\ env' = snap.env
    /\ Go(IF cycle.mode = "quiet" THEN "forget" ELSE "rerun", cycle)
    /\ Fine /\ UNCHANGED <<policy, state, snap, tree, loaded, answered>>

\* Mutant: the snapshot is dropped although the restore failed.
ForgetAnyway ==
    /\ pc = "restore" /\ Fault /\ CutShort /\ Go("forget", cycle)
    /\ UNCHANGED <<policy, state, snap, tree, loaded, answered>>

RestoreFails ==
    /\ pc = "restore" /\ Fault /\ CutShort /\ AfterRollback
    /\ UNCHANGED <<policy, state, snap, tree, loaded, answered>>

RestartRestored ==
    /\ pc = "rerun"
    /\ \/ Fine /\ Starts /\ Go("forget", cycle)
       \/ StartFails /\ AfterRollback
    /\ UNCHANGED <<policy, disk, state, env, snap, tree, answered>>

ForgetSnapshot ==
    /\ pc = "forget" /\ snap' = Nothing /\ AfterRollback
    /\ Fine /\ UNCHANGED <<policy, disk, state, env, tree, loaded, answered>>

(***************************************************************************)
(* A check-in: recovery, the two requests, the preparation                 *)
(***************************************************************************)
CheckIn ==
    /\ pc = "idle" /\ Go("recover", NoCycle)
    /\ Fine /\ UNCHANGED <<policy, disk, state, env, snap, tree, loaded, answered>>

Committed == state.version = snap.want /\ state.binary = snap.want

\* Mutant: a snapshot without readable metadata is left where it is.
RecoverReadable ==
    /\ pc = "recover"
    /\ IF snap = Nothing THEN Go("report", NoCycle) /\ UNCHANGED snap
       ELSE IF ~ snap.meta THEN Go("report", NoCycle) /\ UNCHANGED snap
       ELSE IF Committed THEN snap' = Nothing /\ Go("report", NoCycle)
       ELSE Rollback("recover") /\ UNCHANGED snap
    /\ Fine /\ UNCHANGED <<policy, disk, state, env, tree, loaded, answered>>

Recover ==
    /\ pc = "recover"
    /\ \/ snap = Nothing /\ Go("report", NoCycle) /\ UNCHANGED snap
       \/ /\ snap # Nothing /\ (~ snap.meta \/ Committed)
          /\ snap' = Nothing /\ Go("report", NoCycle)
       \/ /\ snap # Nothing /\ snap.meta /\ ~ Committed
          /\ Rollback("recover") /\ UNCHANGED snap
    /\ Fine /\ UNCHANGED <<policy, disk, state, env, tree, loaded, answered>>

Report ==
    /\ pc = "report"
    /\ \/ Fine /\ Go(IF Dirty THEN "fetch" ELSE "idle", NoCycle)
       \/ Fault /\ Go("idle", NoCycle)
    /\ UNCHANGED <<policy, disk, state, env, snap, tree, loaded, answered>>

GetConfigChanges ==
    /\ pc = "fetch"
    /\ \/ /\ Fine /\ \E f \in ConfigFiles : disk[f] # Nothing
          /\ Go("prepare", [NoCycle EXCEPT !.want = policy, !.delta = Delta])
       \/ (Fault \/ (Fine /\ \A f \in ConfigFiles : disk[f] = Nothing)) /\ Go("idle", NoCycle)
    /\ UNCHANGED <<policy, disk, state, env, snap, tree, loaded, answered>>

(* The tree is there and nobody is making it. *)
Present == tree \in {"broken", "ready"}

PrepareNothing ==
    /\ pc = "prepare" /\ "runtime" \notin cycle.delta /\ Go("write", cycle)
    /\ Fine /\ UNCHANGED <<policy, disk, state, env, snap, tree, loaded, answered>>

HoldForDownload ==
    /\ pc = "prepare" /\ "runtime" \in cycle.delta
    /\ cycle.want.runtime = "VERSION" /\ ~ Present
    /\ tree' = IF tree = "missing" THEN "running" ELSE tree
    /\ Abort(cycle)
    /\ Fine /\ UNCHANGED <<policy, disk, state, env, snap, loaded, answered>>

PrepareSnapshot ==
    /\ pc = "prepare" /\ "runtime" \in cycle.delta
    /\ cycle.want.runtime = "VERSION" => Present
    /\ IF snap = Nothing
       THEN /\ snap' = [meta |-> FALSE, disk |-> disk, env |-> env, want |-> cycle.want.runtime]
            /\ Go("snapshot", cycle)
       ELSE UNCHANGED snap /\ AbortFailed(cycle)    \* refusing to overwrite
    /\ Fine /\ UNCHANGED <<policy, disk, state, env, tree, loaded, answered>>

\* Mutant: the upgrade goes on without a complete snapshot.
SnapshotIfPossible ==
    /\ pc = "snapshot"
    /\ \/ Fine /\ snap' = [snap EXCEPT !.meta = TRUE]
       \/ Fault /\ UNCHANGED snap
    /\ Go("write", [cycle EXCEPT !.changed = TRUE, !.updated = TRUE, !.restart = TRUE])
    /\ UNCHANGED <<policy, disk, state, env, tree, loaded, answered>>

WriteSnapshot ==
    /\ pc = "snapshot"
    /\ \/ /\ Fine /\ snap' = [snap EXCEPT !.meta = TRUE]
          /\ Go("write", [cycle EXCEPT !.changed = TRUE, !.updated = TRUE, !.restart = TRUE])
       \/ Fault /\ snap' = Nothing /\ AbortFailed(cycle)
    /\ UNCHANGED <<policy, disk, state, env, tree, loaded, answered>>

(***************************************************************************)
(* The rollout: files, keystore, pipelines                                 *)
(***************************************************************************)
WriteFile ==
    /\ pc = "write" /\ cycle.next <= Len(Files)
    /\ LET f == Files[cycle.next]
           c == [cycle EXCEPT !.next = @ + 1]
       IN  \/ /\ ~ Brought(f) /\ Fine
              /\ UNCHANGED <<disk, env>> /\ Go("write", c)
           \/ /\ Brought(f) /\ Fine
              /\ disk' = [disk EXCEPT ![f] = cycle.want.part[f]] /\ UNCHANGED env
              /\ Go("write", [c EXCEPT !.updated = TRUE, !.restart = TRUE])
           \/ /\ Brought(f) /\ Fault
              /\ CutShort /\ AbortFailed(c)
    /\ UNCHANGED <<policy, state, snap, tree, loaded, answered>>

FilesWritten ==
    /\ pc = "write" /\ cycle.next > Len(Files)
    /\ Go("keystore", [cycle EXCEPT !.updated = @ \/ cycle.delta \cap {"keystore", "pipelines"} # {},
                                    !.restart = @ \/ "keystore" \in cycle.delta])
    /\ Fine /\ UNCHANGED <<policy, disk, state, env, snap, tree, loaded, answered>>

Then(place) == CASE place = "keystore" -> "pipelines" [] place = "pipelines" -> "decide"

(* Write the part, then remember its hash. *)
ApplyPart(p) ==
    /\ pc = p
    /\ \/ /\ p \notin cycle.delta /\ Fine
          /\ UNCHANGED <<disk, env>> /\ Go(Then(p), cycle)
       \/ /\ p \in cycle.delta /\ Fine
          /\ disk' = [disk EXCEPT ![p] = cycle.want.part[p]] /\ UNCHANGED env
          /\ Go("remember", [cycle EXCEPT !.mode = p])
       \/ /\ p \in cycle.delta /\ Fault
          /\ CutShort /\ Go(Then(p), [cycle EXCEPT !.failed = TRUE])
    /\ UNCHANGED <<policy, state, snap, tree, loaded, answered>>

UpdateKeystore  == ApplyPart("keystore")
UpdatePipelines == ApplyPart("pipelines")

RememberHash ==
    /\ pc = "remember"
    /\ state' = [state EXCEPT !.hash[cycle.mode] = cycle.want.part[cycle.mode]]
    /\ Go(Then(cycle.mode), [cycle EXCEPT !.mode = "none"])
    /\ Fine /\ UNCHANGED <<policy, disk, env, snap, tree, loaded, answered>>

(***************************************************************************)
(* One restart, and what the answer of the new process decides             *)
(***************************************************************************)
Good == ~ cycle.aborted /\ ~ cycle.failed

Decide ==
    /\ pc = "decide"
    /\ \/ cycle.changed /\ ~ Good /\ Rollback("quiet")
       \/ cycle.changed /\ Good /\ Go("flip", cycle)
       \/ ~ cycle.changed /\ cycle.restart /\ Good /\ Go("restart", cycle)
       \/ ~ cycle.changed /\ ~ (cycle.restart /\ Good) /\ Go("ack", cycle)
    /\ Fine /\ UNCHANGED <<policy, disk, state, env, snap, tree, loaded, answered>>

FlipRuntimeEnv ==
    /\ pc = "flip"
    /\ \/ Fine /\ env' = cycle.want.runtime /\ UNCHANGED disk /\ Go("restart", cycle)
       \/ Fault /\ CutShort /\ Rollback("quiet")
    /\ UNCHANGED <<policy, state, snap, tree, loaded, answered>>

RestartLogstash ==
    /\ pc = "restart"
    /\ \/ Fine /\ Starts /\ Go(IF cycle.changed THEN "wait" ELSE "ack", cycle)
       \/ /\ StartFails
          /\ IF cycle.changed THEN Rollback("restart")
                              ELSE Go("ack", [cycle EXCEPT !.failed = TRUE])
    /\ UNCHANGED <<policy, disk, state, env, snap, tree, answered>>

\* Mutant: a restart that succeeded is answer enough.
FinalizeAtOnce ==
    /\ pc = "wait" /\ Go("commit", cycle)
    /\ answered' = IF CanAnswer THEN answered \cup {loaded.binary} ELSE answered
    /\ Fine /\ UNCHANGED <<policy, disk, state, env, snap, tree, loaded>>

Finalize ==
    /\ pc = "wait"
    /\ \/ /\ CanAnswer /\ Fine
          /\ answered' = answered \cup {loaded.binary} /\ Go("commit", cycle)
       \/ /\ (IF CanAnswer THEN Fault ELSE Fine)
          /\ UNCHANGED answered /\ Rollback("restart")
    /\ UNCHANGED <<policy, disk, state, env, snap, tree, loaded>>

(* Every key of the pin is an update of state.json of its own. *)
CommitVersion ==
    /\ pc = "commit" /\ state' = [state EXCEPT !.version = cycle.want.runtime]
    /\ Go("commit binary", cycle)
    /\ Fine /\ UNCHANGED <<policy, disk, env, snap, tree, loaded, answered>>

CommitBinary ==
    /\ pc = "commit binary" /\ state' = [state EXCEPT !.binary = cycle.want.runtime]
    /\ Go("forget", cycle)
    /\ Fine /\ UNCHANGED <<policy, disk, env, snap, tree, loaded, answered>>

\* Mutant: an abort is not held against the revision.
AcknowledgeAnyway ==
    /\ pc = "ack"
    /\ state' = [state EXCEPT !.revision = cycle.want.revision]
    /\ Go("idle", NoCycle)
    /\ Fine /\ UNCHANGED <<policy, disk, env, snap, tree, loaded, answered>>

Acknowledge ==
    /\ pc = "ack"
    /\ state' = IF ~ cycle.aborted /\ ~ (cycle.updated /\ cycle.failed)
                THEN [state EXCEPT !.revision = cycle.want.revision] ELSE state
    /\ Go("idle", NoCycle)
    /\ Fine /\ UNCHANGED <<policy, disk, env, snap, tree, loaded, answered>>

Cycle == \/ CheckIn \/ Recover \/ Report \/ GetConfigChanges
         \/ PrepareNothing \/ HoldForDownload \/ PrepareSnapshot \/ WriteSnapshot
         \/ WriteFile \/ FilesWritten \/ UpdateKeystore \/ UpdatePipelines \/ RememberHash
         \/ Decide \/ FlipRuntimeEnv \/ RestartLogstash \/ Finalize
         \/ CommitVersion \/ CommitBinary \/ Acknowledge
         \/ RestoreSnapshot \/ RestoreFails \/ RestartRestored \/ ForgetSnapshot

Next == EditPart \/ EditRuntime \/ Crash \/ DownloadProgress \/ DownloadFails \/ Cycle

Spec == Init /\ [][Next]_vars

(* The thread runs on, and a download ends. *)
FairSpec == Spec /\ WF_vars(Cycle) /\ WF_vars(DownloadProgress)

(***************************************************************************)
(* Properties                                                              *)
(***************************************************************************)
Places == {"idle", "recover", "report", "fetch", "prepare", "snapshot", "write", "keystore",
           "pipelines", "remember", "decide", "flip", "restart", "wait", "commit",
           "commit binary", "restore", "rerun", "forget", "ack"}
OnDisk == Contents \cup {Torn, Nothing}

PolicyType == [revision : 1 .. MaxRevision, part : [Parts -> Contents], runtime : Runtimes]
SnapType   == [meta : BOOLEAN, disk : [Parts -> OnDisk], env : Runtimes, want : Runtimes]
CycleType  == [want : PolicyType \cup {Nothing}, delta : SUBSET (Parts \cup {"runtime"}),
               next : 1 .. Len(Files) + 1, changed : BOOLEAN, aborted : BOOLEAN,
               failed : BOOLEAN, updated : BOOLEAN, restart : BOOLEAN,
               mode : {"none", "keystore", "pipelines", "recover", "quiet", "restart"}]

ASSUME NothingAssumption == Nothing \notin SnapType

(* Every variable keeps its shape. *)
TypeOK ==
    /\ policy \in PolicyType
    /\ disk \in [Parts -> OnDisk]
    /\ state \in [revision : 0 .. MaxRevision, version : Runtimes, binary : Runtimes,
                  hash : [{"keystore", "pipelines"} -> Contents \cup {Nothing}]]
    /\ env \in Runtimes \cup {"torn"}
    /\ snap \in SnapType \cup {Nothing}
    /\ tree \in {"missing", "running", "extracting", "broken", "ready"}
    /\ loaded \in [part : [AtStart -> OnDisk], binary : Runtimes \cup {"torn"}]
    /\ answered \subseteq Runtimes
    /\ pc \in Places /\ cycle \in CycleType /\ faults \in 0 .. MaxFaults

(* Whenever the env file names another binary than the one state.json holds as *)
(* good (or is torn), a readable snapshot with the good one is there: a crash  *)
(* at any point leaves something to roll back to (flip_runtime_env, commit).   *)
BinaryRecoverable ==
    env # state.binary => /\ snap # Nothing
                          /\ snap.meta
                          /\ snap.env = state.binary

(* No runtime is committed as the agent's binary unless a process of it has   *)
(* answered the API after a restart (finalize_runtime_upgrade).               *)
PinHasAnswered == state.binary \in answered

(* A readable snapshot of an upgrade that is not committed goes away only     *)
(* when every part it holds, and the env file, are back as they were -        *)
(* however many restores were cut short before (rollback, recover).           *)
RollbackRestores ==
    [][(snap # Nothing /\ snap.meta /\ snap' = Nothing /\ ~ Committed)
         => /\ env' = snap.env
            /\ \A p \in Parts : snap.disk[p] # Nothing => disk'[p] = snap.disk[p]]_vars

(* The content of a file is the one that was fetched, unless that is empty.    *)
Follows(f) == cycle.want.part[f] \in {disk[f], Empty}

(* A revision is acknowledged only when every configuration file on disk      *)
(* follows it, whatever was rolled back or torn on the way: a file that the   *)
(* policy empties is the only one left as it was (_apply_merged_plan,         *)
(* revision bump).                                                            *)
AckedFilesAreOnDisk ==
    [][state'.revision # state.revision => \A f \in ConfigFiles : Follows(f)]_vars

(* Faults and edits having ended, the agent acknowledges the last revision    *)
(* for good - unless a download was cut off while extracting: that tree       *)
(* counts as present for ever (version_is_present), and its upgrade is tried  *)
(* and rolled back at every check-in; and so it is beside a torn file that    *)
(* the policy empties, which no rollout writes again.                         *)
CatchesUp ==
    <>[](\/ state.revision = policy.revision \/ tree = "broken"
         \/ \E f \in ConfigFiles : disk[f] = Torn /\ policy.part[f] = Empty)

(* A revision is acknowledged only when the running Logstash was started with *)
(* the files of that revision: "fail-fast", no revision increment without the *)
(* restart (get_config_changes).  It does not hold: see the README.           *)
AckedIsRunning ==
    [][state'.revision # state.revision
         => \A f \in ConfigFiles : loaded.part[f] = disk[f]]_vars
=============================================================================
