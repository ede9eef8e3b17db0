------------------------- MODULE PolicySync_proofs -------------------------
(***************************************************************************)
(* A runtime upgrade can always be taken back, for any configuration files *)
(* and any number of revisions, crashes and failures: whenever the env     *)
(* file does not name the committed binary, a readable snapshot with it is *)
(* there; and what is committed has answered.                              *)
(***************************************************************************)
EXTENDS PolicySync, TLAPS

USE PolicySyncAssumption, NothingAssumption

\* A snapshot that a rollback can use.
Restorable == snap # Nothing /\ snap.meta

\* The places of a cycle that has fetched; those where its snapshot is complete.
Rolling == {"write", "keystore", "pipelines", "remember", "decide", "flip", "restart", "wait",
            "commit"}
Fetched == Rolling \cup {"prepare", "snapshot", "commit binary", "ack"}

\* The thread's local variables fit its place.
CycleFits ==
    /\ pc \in Fetched => cycle.want \in PolicyType
    /\ pc \in {"restore", "rerun", "forget"} /\ cycle.mode # "recover" => cycle.want \in PolicyType
    /\ pc = "remember" => cycle.mode \in {"keystore", "pipelines"}
    /\ pc \in {"prepare", "snapshot"} => ~ cycle.changed
    /\ pc \in {"flip", "wait", "commit", "commit binary"} => cycle.changed

\* The runtime being rolled out is not the one state.json reports, up to the commit.
UpgradeIsNew ==
    /\ pc = "prepare" /\ "runtime" \in cycle.delta => state.version # cycle.want.runtime
    /\ pc = "snapshot" => /\ snap # Nothing /\ ~ snap.meta
                          /\ env = state.binary /\ snap.env = state.binary
                          /\ snap.want = cycle.want.runtime /\ state.version # snap.want

\* A cycle that changes the runtime has a snapshot of the committed binary.
UpgradeIsCovered ==
    /\ pc \in Rolling /\ cycle.changed =>
          /\ Restorable /\ snap.env = state.binary
          /\ snap.want = cycle.want.runtime /\ state.version # snap.want
    /\ pc = "commit binary" =>
          /\ Restorable /\ snap.env = state.binary
          /\ snap.want = cycle.want.runtime /\ state.version = snap.want

\* From the restart on, the env file names the new binary; it is committed once it answered.
UpgradeIsRun ==
    /\ pc \in {"restart", "wait", "commit", "commit binary"} /\ cycle.changed =>
          env = cycle.want.runtime
    /\ pc = "wait" => loaded.binary = cycle.want.runtime
    /\ pc \in {"commit", "commit binary"} => cycle.want.runtime \in answered

\* A snapshot found at a check-in is either committed, and of no use, or brings the
\* committed binary back.
SnapshotIsSound ==
    /\ Restorable => Committed \/ snap.env = state.binary
    /\ Restorable /\ Committed => env = state.binary
    /\ pc = "restore" => Restorable /\ snap.env = state.binary /\ ~ Committed
    /\ pc \in {"rerun", "forget"} => env = state.binary

BinaryInv == /\ CycleFits /\ UpgradeIsNew /\ UpgradeIsCovered /\ UpgradeIsRun /\ SnapshotIsSound
             /\ BinaryRecoverable /\ PinHasAnswered

IInv == TypeOK /\ BinaryInv

-----------------------------------------------------------------------------
\* Types.

\* What a write or a restore that was cut short leaves behind.
LEMMA CutShortTypes ==
    ASSUME IInv, CutShort
    PROVE  /\ disk' \in [Parts -> OnDisk] /\ env' \in {env, "torn"}
           /\ pc \notin {"flip", "restore"} => env' = env
<1>1. disk \in [Parts -> OnDisk] /\ Torn \in OnDisk  BY DEF IInv, TypeOK, OnDisk
<1>2. ASSUME pc = "restore", NEW n \in 0 .. Len(RestoreOrder)
      PROVE  RestoredTo(n) \in [Parts -> OnDisk]
  <2>1. snap \in SnapType
        BY <1>2 DEF IInv, BinaryInv, SnapshotIsSound, Restorable, TypeOK
  <2>2. snap.disk \in [Parts -> OnDisk]  BY <2>1 DEF SnapType
  <2>3. QED  BY <1>1, <2>2 DEF RestoredTo
<1>3. CASE pc = "restore"
  <2>1. disk' \in [Parts -> OnDisk]  BY <1>1, <1>2, <1>3 DEF CutShort, TornAt
  <2>2. env' \in {env, "torn"}  BY <1>3 DEF CutShort, TornAt
  <2>3. QED  BY <1>3, <2>1, <2>2
<1>4. CASE pc # "restore"
  BY <1>1, <1>4 DEF CutShort, TornAt
<1>5. QED  BY <1>3, <1>4

LEMMA InitInv == Init => IInv
<1> SUFFICES ASSUME Init  PROVE IInv  OBVIOUS
<1>1. TypeOK
  <2>1. PICK missing \in SUBSET Parts :
            disk = [p \in Parts |-> IF p \in missing THEN Nothing ELSE 0]
        BY DEF Init
  <2>2. disk \in [Parts -> Contents \cup {Nothing}]  BY <2>1 DEF Contents
  <2>3. disk \in [Parts -> OnDisk] /\ loaded \in [part : [AtStart -> OnDisk], binary : Runtimes]
        BY <2>2 DEF Init, OnDisk, AtStart, Parts, Runtimes
  <2>4. state \in [revision : 0 .. MaxRevision, version : Runtimes, binary : Runtimes,
                   hash : [{"keystore", "pipelines"} -> Contents \cup {Nothing}]]
        BY <2>2 DEF Init, Parts, Runtimes
  <2>5. policy \in PolicyType  BY DEF Init, PolicyType, Contents, Runtimes
  <2>6. cycle \in CycleType  BY DEF Init, NoCycle, CycleType
  <2>7. QED  BY <2>3, <2>4, <2>5, <2>6 DEF Init, TypeOK, Places, Runtimes
<1>2. BinaryInv
  BY DEF Init, BinaryInv, CycleFits, UpgradeIsNew, UpgradeIsCovered, UpgradeIsRun, SnapshotIsSound,
         BinaryRecoverable, PinHasAnswered, Fetched, Rolling, Restorable
<1>3. QED  BY <1>1, <1>2 DEF IInv

\* Setting the flags of a cycle keeps its type.
LEMMA FlagsKeepType ==
    ASSUME NEW c \in CycleType
    PROVE  /\ [c EXCEPT !.failed = TRUE] \in CycleType
           /\ [c EXCEPT !.aborted = TRUE] \in CycleType
           /\ [[c EXCEPT !.failed = TRUE] EXCEPT !.aborted = TRUE] \in CycleType
           /\ [c EXCEPT !.changed = TRUE, !.updated = TRUE, !.restart = TRUE] \in CycleType
           /\ [c EXCEPT !.updated = TRUE, !.restart = TRUE] \in CycleType
           /\ \A m \in {"recover", "quiet", "restart"} :
                 [c EXCEPT !.mode = m, !.failed = TRUE] \in CycleType
           /\ \A m \in {"none", "keystore", "pipelines"} : [c EXCEPT !.mode = m] \in CycleType
           /\ \A u, s \in BOOLEAN : [c EXCEPT !.updated = u, !.restart = s] \in CycleType
<1>1. [c EXCEPT !.failed = TRUE] \in CycleType  BY DEF CycleType
<1>2. [c EXCEPT !.aborted = TRUE] \in CycleType  BY DEF CycleType
<1>3. \A d \in CycleType : [d EXCEPT !.aborted = TRUE] \in CycleType  BY DEF CycleType
<1>4. [c EXCEPT !.updated = TRUE, !.restart = TRUE] \in CycleType  BY DEF CycleType
<1>5. [c EXCEPT !.changed = TRUE, !.updated = TRUE, !.restart = TRUE] \in CycleType
      BY DEF CycleType
<1>6. \A m \in {"recover", "quiet", "restart"} :
          [c EXCEPT !.mode = m, !.failed = TRUE] \in CycleType
      BY DEF CycleType
<1>7. \A m \in {"none", "keystore", "pipelines"} : [c EXCEPT !.mode = m] \in CycleType
      BY DEF CycleType
<1>8. \A u, s \in BOOLEAN : [c EXCEPT !.updated = u, !.restart = s] \in CycleType
      BY DEF CycleType
<1>9. QED  BY <1>1, <1>2, <1>3, <1>4, <1>5, <1>6, <1>7, <1>8

\* An abort changes neither what was fetched nor whether the runtime changes.
LEMMA AbortKeepsWant ==
    ASSUME NEW c \in CycleType, AbortFailed(c)
    PROVE  /\ pc' = "decide" /\ cycle'.want = c.want /\ cycle'.changed = c.changed
           /\ cycle'.updated = c.updated /\ cycle'.aborted
<1> DEFINE d == [c EXCEPT !.failed = TRUE]
<1>1. /\ d \in CycleType /\ d.want = c.want /\ d.changed = c.changed /\ d.updated = c.updated
      BY DEF CycleType
<1>2. \A e \in CycleType :
          /\ [e EXCEPT !.aborted = TRUE].want = e.want
          /\ [e EXCEPT !.aborted = TRUE].changed = e.changed
          /\ [e EXCEPT !.aborted = TRUE].updated = e.updated
          /\ [e EXCEPT !.aborted = TRUE].aborted
      BY DEF CycleType
<1>3. QED  BY <1>1, <1>2 DEF AbortFailed, Abort, Go

\* Every variable keeps its type.
LEMMA TypeStep == IInv /\ [Next]_vars => TypeOK'
<1> SUFFICES ASSUME IInv, [Next]_vars  PROVE TypeOK'  OBVIOUS
<1>0. TypeOK /\ CycleFits  BY DEF IInv, BinaryInv
<1> USE <1>0 DEF TypeOK
<1>a. NoCycle \in CycleType  BY DEF NoCycle, CycleType
<1>b. Starts => loaded' \in [part : [AtStart -> OnDisk], binary : Runtimes \cup {"torn"}]
  BY DEF Starts, AtStart, Parts
<1>c. Fault \/ Fine => faults' \in 0 .. MaxFaults
  BY DEF Fault, Fine
<1>1. CASE EditPart \/ EditRuntime
  <2>1. CASE EditPart
    <3>1. PICK p \in Parts, content \in Contents : policy.revision < MaxRevision
                /\ policy' = [policy EXCEPT !.revision = @ + 1, !.part[p] = content]
          BY <2>1 DEF EditPart
    <3>2. policy.revision + 1 \in 1 .. MaxRevision  BY <3>1 DEF PolicyType
    <3>3. [policy.part EXCEPT ![p] = content] \in [Parts -> Contents]  BY DEF PolicyType
    <3>4. policy' \in PolicyType  BY <3>1, <3>2, <3>3 DEF PolicyType
    <3>5. QED  BY <2>1, <3>4 DEF EditPart
  <2>2. CASE EditRuntime
    <3>1. PICK r \in Runtimes : policy.revision < MaxRevision
                /\ policy' = [policy EXCEPT !.revision = @ + 1, !.runtime = r]
          BY <2>2 DEF EditRuntime
    <3>2. policy.revision + 1 \in 1 .. MaxRevision  BY <3>1 DEF PolicyType
    <3>3. policy' \in PolicyType  BY <3>1, <3>2 DEF PolicyType
    <3>4. QED  BY <2>2, <3>3 DEF EditRuntime
  <2>3. QED  BY <1>1, <2>1, <2>2
<1>2. CASE Crash
  BY <1>2, <1>a, <1>c, CutShortTypes DEF Crash, Go, Killed, Places
<1>3. CASE DownloadProgress \/ DownloadFails
  BY <1>3, <1>c DEF DownloadProgress, DownloadFails, Killed
<1>4. CASE CheckIn \/ Recover \/ Report
  <2>1. pc' \in Places /\ cycle' \in CycleType
    <3>1. CASE CheckIn  BY <3>1, <1>a DEF CheckIn, Go, Places
    <3>2. CASE Recover  BY <3>2, <1>a, FlagsKeepType DEF Recover, Go, Rollback, Places
    <3>3. CASE Report   BY <3>3, <1>a DEF Report, Go, Places
    <3>4. QED  BY <1>4, <3>1, <3>2, <3>3
  <2>2. QED  BY <1>4, <1>c, <2>1 DEF CheckIn, Recover, Report
<1>5. CASE GetConfigChanges
  <2>1. Delta \in SUBSET (Parts \cup {"runtime"})  BY DEF Delta
  <2>2. [NoCycle EXCEPT !.want = policy, !.delta = Delta] \in CycleType
        BY <2>1, <1>a DEF CycleType
  <2>3. pc' \in Places /\ cycle' \in CycleType
        BY <1>5, <1>a, <2>2 DEF GetConfigChanges, Go, Places
  <2>4. QED  BY <1>5, <1>c, <2>3 DEF GetConfigChanges
<1>6. CASE PrepareNothing \/ HoldForDownload
  <2>1. pc' \in Places /\ cycle' \in CycleType
        BY <1>6, FlagsKeepType DEF PrepareNothing, HoldForDownload, Abort, Go, Places
  <2>2. QED  BY <1>6, <1>c, <2>1 DEF PrepareNothing, HoldForDownload
<1>7. CASE PrepareSnapshot
  <2>1. cycle.want \in PolicyType  BY <1>7 DEF PrepareSnapshot, CycleFits, Fetched
  <2>2. snap = Nothing => env \in Runtimes
        BY DEF IInv, BinaryInv, BinaryRecoverable
  <2>3. snap = Nothing => [meta |-> FALSE, disk |-> disk, env |-> env, want |-> cycle.want.runtime]
                              \in SnapType
        BY <2>1, <2>2 DEF SnapType, PolicyType
  <2>4. snap' \in SnapType \cup {Nothing}  BY <1>7, <2>3 DEF PrepareSnapshot
  <2>5. pc' \in Places /\ cycle' \in CycleType
        BY <1>7, FlagsKeepType DEF PrepareSnapshot, AbortFailed, Abort, Go, Places
  <2>6. QED  BY <1>7, <1>c, <2>4, <2>5 DEF PrepareSnapshot
<1>8. CASE WriteSnapshot
  <2>1. snap \in SnapType  BY <1>8 DEF WriteSnapshot, IInv, BinaryInv, UpgradeIsNew
  <2>2. snap' \in SnapType \cup {Nothing}  BY <1>8, <2>1 DEF WriteSnapshot, SnapType
  <2>3. pc' \in Places /\ cycle' \in CycleType
        BY <1>8, FlagsKeepType DEF WriteSnapshot, AbortFailed, Abort, Go, Places
  <2>4. QED  BY <1>8, <1>c, <2>2, <2>3 DEF WriteSnapshot
<1>9. CASE WriteFile
  <2>1. cycle.want.part \in [Parts -> Contents] /\ Contents \subseteq OnDisk
        BY <1>9 DEF WriteFile, CycleFits, Fetched, Rolling, PolicyType, OnDisk
  <2>2. Files[cycle.next] \in Parts
        BY <1>9 DEF WriteFile, Parts, ConfigFiles, Range, CycleType
  <2>3. disk' \in [Parts -> OnDisk] /\ env' = env
        BY <1>9, <2>1, <2>2, CutShortTypes DEF WriteFile
  <2>4. cycle.next \in 1 .. Len(Files)  BY <1>9 DEF WriteFile, CycleType
  <2>5. cycle.next + 1 \in 1 .. Len(Files) + 1  BY <2>4
  <2>6. [cycle EXCEPT !.next = @ + 1] \in CycleType  BY <2>5 DEF CycleType
  <2>7. pc' \in Places /\ cycle' \in CycleType
        BY <1>9, <2>6, FlagsKeepType DEF WriteFile, AbortFailed, Abort, Go, Places
  <2>8. QED  BY <1>9, <1>c, <2>3, <2>7 DEF WriteFile
<1>10. CASE FilesWritten
  <2>1. (cycle.updated \/ cycle.delta \cap {"keystore", "pipelines"} # {}) \in BOOLEAN
        /\ (cycle.restart \/ "keystore" \in cycle.delta) \in BOOLEAN
        OBVIOUS
  <2>2. pc' = "keystore" /\ cycle' \in CycleType
        BY <1>10, <2>1, FlagsKeepType DEF FilesWritten, Go
  <2>3. QED  BY <1>10, <1>c, <2>2 DEF FilesWritten, Places
<1>11. ASSUME NEW p \in {"keystore", "pipelines"}, ApplyPart(p)  PROVE TypeOK'
  <2>1. cycle.want.part \in [Parts -> Contents] /\ Contents \subseteq OnDisk /\ p \in Parts
        BY <1>11 DEF ApplyPart, CycleFits, Fetched, Rolling, PolicyType, OnDisk, Parts
  <2>2. disk' \in [Parts -> OnDisk] /\ env' = env
        BY <1>11, <2>1, CutShortTypes DEF ApplyPart
  <2>3. pc' \in Places /\ cycle' \in CycleType
    <3>1. Then(p) \in Places /\ "remember" \in Places  BY DEF Then, Places
    <3>2. /\ [cycle EXCEPT !.mode = p] \in CycleType
          /\ [cycle EXCEPT !.failed = TRUE] \in CycleType
          BY FlagsKeepType
    <3>3. QED  BY <1>11, <3>1, <3>2 DEF ApplyPart, Go
  <2>4. QED  BY <1>11, <1>c, <2>2, <2>3 DEF ApplyPart
<1>12. CASE RememberHash
  <2>1. cycle.want.part \in [Parts -> Contents] /\ cycle.mode \in {"keystore", "pipelines"}
        BY <1>12 DEF RememberHash, CycleFits, Fetched, Rolling, PolicyType
  <2>2. cycle.want.part[cycle.mode] \in Contents  BY <2>1 DEF Parts
  <2>3. state'.hash \in [{"keystore", "pipelines"} -> Contents \cup {Nothing}]
        BY <1>12, <2>1, <2>2 DEF RememberHash
  <2>4. pc' \in Places /\ cycle' \in CycleType
        BY <1>12, <2>1, FlagsKeepType DEF RememberHash, Then, Go, Places
  <2>5. QED  BY <1>12, <1>c, <2>3, <2>4 DEF RememberHash
<1>13. CASE Decide
  <2>1. pc' \in Places /\ cycle' \in CycleType
        BY <1>13, FlagsKeepType DEF Decide, Rollback, Go, Places
  <2>2. QED  BY <1>13, <1>c, <2>1 DEF Decide
<1>14. CASE FlipRuntimeEnv
  <2>1. cycle.want.runtime \in Runtimes
        BY <1>14 DEF FlipRuntimeEnv, CycleFits, Fetched, Rolling, PolicyType
  <2>2. disk' \in [Parts -> OnDisk] /\ env' \in Runtimes \cup {"torn"}
        BY <1>14, <2>1, CutShortTypes DEF FlipRuntimeEnv
  <2>3. pc' \in Places /\ cycle' \in CycleType
        BY <1>14, FlagsKeepType DEF FlipRuntimeEnv, Rollback, Go, Places
  <2>4. QED  BY <1>14, <1>c, <2>2, <2>3 DEF FlipRuntimeEnv
<1>15. CASE RestartLogstash
  <2>1. loaded' \in [part : [AtStart -> OnDisk], binary : Runtimes \cup {"torn"}]
        BY <1>15, <1>b DEF RestartLogstash, StartFails
  <2>2. pc' \in Places /\ cycle' \in CycleType
        BY <1>15, FlagsKeepType DEF RestartLogstash, Rollback, Go, Places
  <2>3. faults' \in 0 .. MaxFaults  BY <1>15, <1>c DEF RestartLogstash, StartFails
  <2>4. QED  BY <1>15, <2>1, <2>2, <2>3 DEF RestartLogstash
<1>16. CASE Finalize
  <2>1. answered' \subseteq Runtimes  BY <1>16 DEF Finalize, CanAnswer
  <2>2. pc' \in Places /\ cycle' \in CycleType
        BY <1>16, FlagsKeepType DEF Finalize, Rollback, Go, Places
  <2>3. QED  BY <1>16, <1>c, <2>1, <2>2 DEF Finalize
<1>17. CASE CommitVersion \/ CommitBinary
  <2>1. cycle.want.runtime \in Runtimes
        BY <1>17 DEF CommitVersion, CommitBinary, CycleFits, Fetched, Rolling, PolicyType
  <2>2. CASE CommitVersion  BY <1>c, <2>1, <2>2 DEF CommitVersion, Go, Places
  <2>3. CASE CommitBinary   BY <1>c, <2>1, <2>3 DEF CommitBinary, Go, Places
  <2>4. QED  BY <1>17, <2>2, <2>3
<1>18. CASE Acknowledge
  <2>1. cycle.want.revision \in 0 .. MaxRevision
        BY <1>18 DEF Acknowledge, CycleFits, Fetched, PolicyType
  <2>2. QED  BY <1>18, <1>a, <1>c, <2>1 DEF Acknowledge, Go, Places
<1>19. CASE RestoreSnapshot
  <2>1. snap \in SnapType
        BY <1>19 DEF RestoreSnapshot, IInv, BinaryInv, SnapshotIsSound, Restorable
  <2>2. RestoredTo(Len(RestoreOrder)) \in [Parts -> OnDisk] /\ snap.env \in Runtimes
        BY <2>1 DEF RestoredTo, SnapType
  <2>3. QED  BY <1>19, <1>c, <2>2 DEF RestoreSnapshot, Go, Places
<1>20. CASE RestoreFails
  BY <1>20, <1>a, <1>c, CutShortTypes DEF RestoreFails, AfterRollback, Go, Places
<1>21. CASE RestartRestored
  BY <1>21, <1>a, <1>b, <1>c DEF RestartRestored, StartFails, AfterRollback, Go, Places
<1>22. CASE ForgetSnapshot
  BY <1>22, <1>a, <1>c DEF ForgetSnapshot, AfterRollback, Go, Places
<1>23. CASE UNCHANGED vars
  BY <1>23 DEF vars
<1>24. QED
  BY <1>1, <1>2, <1>3, <1>4, <1>5, <1>6, <1>7, <1>8, <1>9, <1>10, <1>11, <1>12, <1>13, <1>14,
     <1>15, <1>16, <1>17, <1>18, <1>19, <1>20, <1>21, <1>22, <1>23
  DEF Next, Cycle, UpdateKeystore, UpdatePipelines

-----------------------------------------------------------------------------
\* Snapshot, env file and pin.

\* Neither the history nor any durable part of an upgrade changes, and the thread
\* goes on to a place where nothing is claimed of its upgrade.
LEMMA NothingAtStake ==
    ASSUME BinaryInv, UNCHANGED <<state, env, snap, answered>>,
           pc' \in {"idle", "recover", "report", "fetch"} \/
           (pc' = "ack" /\ cycle'.want \in PolicyType)
    PROVE  BinaryInv'
<1>1. CycleFits' /\ UpgradeIsNew' /\ UpgradeIsCovered' /\ UpgradeIsRun'
      BY DEF CycleFits, UpgradeIsNew, UpgradeIsCovered, UpgradeIsRun, Fetched, Rolling
<1>2. SnapshotIsSound' /\ BinaryRecoverable' /\ PinHasAnswered'
      BY DEF BinaryInv, SnapshotIsSound, BinaryRecoverable, PinHasAnswered, Restorable, Committed
<1>3. QED  BY <1>1, <1>2 DEF BinaryInv

\* A crash or a failed restore touches the env file only where a snapshot covers it.
LEMMA CutShortIsCovered ==
    ASSUME IInv, CutShort, UNCHANGED <<state, snap, answered>>
    PROVE  /\ BinaryRecoverable' /\ PinHasAnswered'
           /\ Restorable' => Committed' \/ snap'.env = state'.binary
           /\ Restorable' /\ Committed' => env' = state'.binary
<1>1. env' \in {env, "torn"} /\ (pc \notin {"flip", "restore"} => env' = env)
      BY CutShortTypes
<1>2. pc \in {"flip", "restore"} => Restorable /\ snap.env = state.binary /\ ~ Committed
  BY DEF IInv, BinaryInv, CycleFits, UpgradeIsCovered, SnapshotIsSound, Rolling, Committed
<1>3. BinaryRecoverable' /\ PinHasAnswered'
  BY <1>1, <1>2 DEF IInv, BinaryInv, BinaryRecoverable, PinHasAnswered, Restorable
<1>4. QED
  BY <1>1, <1>2, <1>3 DEF IInv, BinaryInv, SnapshotIsSound, Restorable, Committed

\* A rollback starts from a snapshot of the committed binary.
LEMMA RollbackIsSound ==
    ASSUME IInv, NEW m \in {"quiet", "restart"}, Rollback(m), pc \in Rolling, cycle.changed,
           UNCHANGED <<state, snap, answered>>, CutShort \/ UNCHANGED env
    PROVE  BinaryInv'
<1>0. cycle \in CycleType  BY DEF IInv, TypeOK
<1>1. pc' = "restore" /\ cycle'.want = cycle.want /\ cycle'.mode = m
      BY <1>0 DEF Rollback, Go, CycleType
<1>2. cycle.want \in PolicyType  BY DEF IInv, BinaryInv, CycleFits, Fetched
<1>3. CycleFits' /\ UpgradeIsNew' /\ UpgradeIsCovered' /\ UpgradeIsRun'
      BY <1>1, <1>2 DEF CycleFits, UpgradeIsNew, UpgradeIsCovered, UpgradeIsRun, Fetched, Rolling
<1>4. Restorable /\ snap.env = state.binary /\ ~ Committed
      BY DEF IInv, BinaryInv, UpgradeIsCovered, Committed
<1>5. BinaryRecoverable' /\ PinHasAnswered'
      BY <1>4 DEF IInv, BinaryInv, BinaryRecoverable, PinHasAnswered, Restorable
<1>6. SnapshotIsSound'
      BY <1>1, <1>4 DEF SnapshotIsSound, Restorable, Committed
<1>7. QED  BY <1>3, <1>5, <1>6 DEF BinaryInv

\* A step of the rollout that leaves state, env and snapshot alone keeps the invariant
\* up to the restart.
LEMMA RollsOn ==
    ASSUME IInv, UNCHANGED <<state, env, snap, answered>>,
           pc \in {"write", "keystore", "pipelines", "decide"},
           cycle'.want = cycle.want, cycle'.changed = cycle.changed,
           \/ pc' \in {"write", "keystore", "pipelines", "decide"}
           \/ pc' = "remember" /\ cycle'.mode \in {"keystore", "pipelines"}
           \/ pc' = "flip" /\ cycle.changed
           \/ pc' \in {"restart", "ack"} /\ ~ cycle.changed
    PROVE  BinaryInv'
<1>1. pc \in Rolling /\ pc' \in Rolling \cup {"ack"}  BY DEF Rolling
<1>2. cycle.want \in PolicyType  BY <1>1 DEF IInv, BinaryInv, CycleFits, Fetched
<1>3. CycleFits'  BY <1>2 DEF CycleFits
<1>4. UpgradeIsNew' /\ UpgradeIsRun'  BY DEF UpgradeIsNew, UpgradeIsRun
<1>5. UpgradeIsCovered'
      BY <1>1 DEF IInv, BinaryInv, UpgradeIsCovered, Restorable
<1>6. SnapshotIsSound' /\ BinaryRecoverable' /\ PinHasAnswered'
      BY DEF IInv, BinaryInv, SnapshotIsSound, BinaryRecoverable, PinHasAnswered, Restorable,
             Committed
<1>7. QED  BY <1>3, <1>4, <1>5, <1>6 DEF BinaryInv

\* Every step keeps the upgrade recoverable.
LEMMA BinaryStep == IInv /\ [Next]_vars => BinaryInv'
<1> SUFFICES ASSUME IInv, [Next]_vars  PROVE BinaryInv'  OBVIOUS
<1>0. TypeOK /\ BinaryInv /\ cycle \in CycleType  BY DEF IInv, TypeOK
<1> DEFINE Facts == /\ CycleFits /\ UpgradeIsNew /\ UpgradeIsCovered /\ UpgradeIsRun
                    /\ SnapshotIsSound /\ BinaryRecoverable /\ PinHasAnswered
<1>a. Facts  BY <1>0 DEF BinaryInv
<1>1. CASE EditPart \/ EditRuntime \/ DownloadProgress \/ DownloadFails \/ UNCHANGED vars
  <2>1. UNCHANGED <<state, env, snap, loaded, answered, pc, cycle>>
        BY <1>1 DEF EditPart, EditRuntime, DownloadProgress, DownloadFails, vars
  <2>2. CycleFits' /\ UpgradeIsNew'
        BY <1>a, <2>1 DEF CycleFits, UpgradeIsNew
  <2>3. UpgradeIsCovered' /\ UpgradeIsRun'
        BY <1>a, <2>1 DEF UpgradeIsCovered, UpgradeIsRun, Restorable
  <2>4. SnapshotIsSound'
        BY <1>a, <2>1 DEF SnapshotIsSound, Restorable, Committed
  <2>5. BinaryRecoverable' /\ PinHasAnswered'
        BY <1>a, <2>1 DEF BinaryRecoverable, PinHasAnswered
  <2>6. QED  BY <2>2, <2>3, <2>4, <2>5 DEF BinaryInv
<1>2. CASE Crash
  <2>1. pc' = "idle" /\ CutShort /\ UNCHANGED <<state, snap, answered>>
        BY <1>2 DEF Crash, Go
  <2>2. CycleFits' /\ UpgradeIsNew' /\ UpgradeIsCovered' /\ UpgradeIsRun'
        BY <2>1 DEF CycleFits, UpgradeIsNew, UpgradeIsCovered, UpgradeIsRun, Fetched, Rolling
  <2>3. QED  BY <2>1, <2>2, CutShortIsCovered DEF BinaryInv, SnapshotIsSound
<1>3. CASE CheckIn
  <2>1. pc' = "recover" /\ UNCHANGED <<state, env, snap, answered>>  BY <1>3 DEF CheckIn, Go
  <2>2. QED  BY <1>0, <2>1, NothingAtStake
<1>4. CASE Recover
  <2>1. UNCHANGED <<state, env, answered>>  BY <1>4 DEF Recover
  <2>2. CASE snap = Nothing /\ Go("report", NoCycle) /\ UNCHANGED snap
    BY <1>0, <2>1, <2>2, NothingAtStake DEF Go
  <2>3. CASE (~ snap.meta \/ Committed) /\ snap' = Nothing /\ Go("report", NoCycle)
    <3>1. env = state.binary
          BY <1>a, <2>3 DEF BinaryRecoverable, SnapshotIsSound, Restorable
    <3>2. CycleFits' /\ UpgradeIsNew' /\ UpgradeIsCovered' /\ UpgradeIsRun'
          BY <2>3 DEF Go, CycleFits, UpgradeIsNew, UpgradeIsCovered, UpgradeIsRun, Fetched, Rolling
    <3>3. SnapshotIsSound' /\ BinaryRecoverable' /\ PinHasAnswered'
          BY <1>a, <2>1, <2>3, <3>1
          DEF Go, SnapshotIsSound, BinaryRecoverable, PinHasAnswered, Restorable
    <3>4. QED  BY <3>2, <3>3 DEF BinaryInv
  <2>4. CASE Restorable /\ ~ Committed /\ Rollback("recover") /\ UNCHANGED snap
    <3>1. pc' = "restore" /\ cycle'.mode = "recover"
          BY <1>0, <2>4 DEF Rollback, Go, CycleType
    <3>2. CycleFits' /\ UpgradeIsNew' /\ UpgradeIsCovered' /\ UpgradeIsRun'
          BY <3>1 DEF CycleFits, UpgradeIsNew, UpgradeIsCovered, UpgradeIsRun, Fetched, Rolling
    <3>3. SnapshotIsSound' /\ BinaryRecoverable' /\ PinHasAnswered'
          BY <1>a, <2>1, <2>4, <3>1
          DEF SnapshotIsSound, BinaryRecoverable, PinHasAnswered, Restorable, Committed
    <3>4. QED  BY <3>2, <3>3 DEF BinaryInv
  <2>5. QED  BY <1>4, <2>2, <2>3, <2>4 DEF Recover, Restorable
<1>5. CASE Report
  <2>1. pc' \in {"idle", "fetch"} /\ UNCHANGED <<state, env, snap, answered>>
        BY <1>5 DEF Report, Go
  <2>2. QED  BY <1>0, <2>1, NothingAtStake
<1>6. CASE GetConfigChanges
  <2>0. UNCHANGED <<state, env, snap, answered>>  BY <1>6 DEF GetConfigChanges
  <2>1. CASE pc' = "idle"
    BY <1>0, <2>0, <2>1, NothingAtStake
  <2>2. CASE Go("prepare", [NoCycle EXCEPT !.want = policy, !.delta = Delta])
    <3>1. cycle'.want = policy /\ cycle'.delta = Delta /\ cycle'.changed = FALSE /\ pc' = "prepare"
          BY <2>2 DEF Go, NoCycle
    <3>2. CycleFits'  BY <1>0, <3>1 DEF CycleFits, TypeOK
    <3>3. "runtime" \in Delta => state.version # policy.runtime
          BY DEF Delta, Parts, ConfigFiles
    <3>4. UpgradeIsNew' /\ UpgradeIsCovered' /\ UpgradeIsRun'
          BY <2>0, <3>1, <3>3 DEF UpgradeIsNew, UpgradeIsCovered, UpgradeIsRun, Rolling
    <3>5. SnapshotIsSound' /\ BinaryRecoverable' /\ PinHasAnswered'
          BY <1>a, <2>0, <3>1
          DEF SnapshotIsSound, BinaryRecoverable, PinHasAnswered, Restorable, Committed
    <3>6. QED  BY <3>2, <3>4, <3>5 DEF BinaryInv
  <2>3. QED  BY <1>6, <2>1, <2>2 DEF GetConfigChanges, Go
<1>7. CASE PrepareNothing \/ HoldForDownload
  <2>1. /\ pc' \in {"write", "decide"} /\ cycle'.want = cycle.want /\ ~ cycle'.changed
        /\ cycle.want \in PolicyType /\ UNCHANGED <<state, env, snap, answered>>
        BY <1>0, <1>7, <1>a
        DEF PrepareNothing, HoldForDownload, Abort, Go, CycleType, CycleFits, Fetched
  <2>2. CycleFits' /\ UpgradeIsNew' /\ UpgradeIsCovered' /\ UpgradeIsRun'
        BY <2>1 DEF CycleFits, UpgradeIsNew, UpgradeIsCovered, UpgradeIsRun
  <2>3. SnapshotIsSound' /\ BinaryRecoverable' /\ PinHasAnswered'
        BY <1>a, <2>1 DEF SnapshotIsSound, BinaryRecoverable, PinHasAnswered, Restorable, Committed
  <2>4. QED  BY <2>2, <2>3 DEF BinaryInv
<1>8. CASE PrepareSnapshot
  <2>0. /\ cycle.want \in PolicyType /\ ~ cycle.changed /\ state.version # cycle.want.runtime
        /\ UNCHANGED <<state, env, answered>>
        BY <1>8, <1>a DEF PrepareSnapshot, CycleFits, Fetched, UpgradeIsNew
  <2>1. CASE snap = Nothing
    <3>1. /\ snap' = [meta |-> FALSE, disk |-> disk, env |-> env, want |-> cycle.want.runtime]
          /\ pc' = "snapshot" /\ cycle' = cycle
          BY <1>8, <2>1 DEF PrepareSnapshot, Go
    <3>2. env = state.binary  BY <1>a, <2>1 DEF BinaryRecoverable
    <3>3. disk \in [Parts -> OnDisk] /\ env \in Runtimes /\ cycle.want.runtime \in Runtimes
          BY <1>0, <2>0, <3>2 DEF TypeOK, PolicyType
    <3>4. snap' \in SnapType  BY <3>1, <3>3 DEF SnapType
    <3>5. snap' # Nothing  BY <3>4
    <3>6. CycleFits' /\ UpgradeIsNew' /\ UpgradeIsCovered' /\ UpgradeIsRun'
          BY <2>0, <3>1, <3>2, <3>5
          DEF CycleFits, UpgradeIsNew, UpgradeIsCovered, UpgradeIsRun, Rolling
    <3>7. SnapshotIsSound' /\ BinaryRecoverable' /\ PinHasAnswered'
          BY <1>a, <2>0, <3>1, <3>2 DEF SnapshotIsSound, BinaryRecoverable, PinHasAnswered, Restorable
    <3>8. QED  BY <3>6, <3>7 DEF BinaryInv
  <2>2. CASE snap # Nothing
    <3>1. /\ pc' = "decide" /\ cycle'.want = cycle.want /\ cycle'.changed = cycle.changed
          /\ UNCHANGED snap
          BY <1>0, <1>8, <2>2, AbortKeepsWant DEF PrepareSnapshot
    <3>2. CycleFits' /\ UpgradeIsNew' /\ UpgradeIsCovered' /\ UpgradeIsRun'
          BY <2>0, <3>1 DEF CycleFits, UpgradeIsNew, UpgradeIsCovered, UpgradeIsRun
    <3>3. SnapshotIsSound' /\ BinaryRecoverable' /\ PinHasAnswered'
          BY <1>a, <2>0, <3>1
          DEF SnapshotIsSound, BinaryRecoverable, PinHasAnswered, Restorable, Committed
    <3>4. QED  BY <3>2, <3>3 DEF BinaryInv
  <2>3. QED  BY <2>1, <2>2

<1>9. CASE WriteSnapshot
  <2>0. /\ cycle.want \in PolicyType /\ ~ cycle.changed /\ snap # Nothing /\ ~ snap.meta
        /\ env = state.binary /\ snap.env = state.binary
        /\ snap.want = cycle.want.runtime /\ state.version # snap.want
        /\ UNCHANGED <<state, env, answered>>
        BY <1>9, <1>a DEF WriteSnapshot, CycleFits, Fetched, UpgradeIsNew
  <2>a. snap \in SnapType  BY <1>0, <2>0 DEF TypeOK
  <2>1. CASE snap' = [snap EXCEPT !.meta = TRUE]
    <3>1. snap' \in SnapType  BY <2>1, <2>a DEF SnapType
    <3>2. snap'.meta /\ snap'.env = snap.env /\ snap'.want = snap.want /\ snap' # Nothing
          BY <2>1, <2>a, <3>1 DEF SnapType
    <3>3. /\ pc' = "write" /\ cycle'.want = cycle.want
          BY <1>0, <1>9, <2>1, <2>a, <3>2 DEF WriteSnapshot, AbortFailed, Abort, Go, CycleType
    <3>4. CycleFits' /\ UpgradeIsNew' /\ UpgradeIsCovered' /\ UpgradeIsRun'
          BY <2>0, <3>2, <3>3
          DEF CycleFits, UpgradeIsNew, UpgradeIsCovered, UpgradeIsRun, Restorable
    <3>5. SnapshotIsSound' /\ BinaryRecoverable' /\ PinHasAnswered'
          BY <1>a, <2>0, <3>2, <3>3
          DEF SnapshotIsSound, BinaryRecoverable, PinHasAnswered, Restorable, Committed
    <3>6. QED  BY <3>4, <3>5 DEF BinaryInv
  <2>2. CASE snap' = Nothing /\ AbortFailed(cycle)
    <3>1. pc' = "decide" /\ cycle'.want = cycle.want /\ cycle'.changed = cycle.changed
          BY <1>0, <2>2, AbortKeepsWant
    <3>2. CycleFits' /\ UpgradeIsNew' /\ UpgradeIsCovered' /\ UpgradeIsRun'
          BY <2>0, <3>1 DEF CycleFits, UpgradeIsNew, UpgradeIsCovered, UpgradeIsRun
    <3>3. SnapshotIsSound' /\ BinaryRecoverable' /\ PinHasAnswered'
          BY <1>a, <2>0, <2>2, <3>1
          DEF SnapshotIsSound, BinaryRecoverable, PinHasAnswered, Restorable
    <3>4. QED  BY <3>2, <3>3 DEF BinaryInv
  <2>3. QED  BY <1>9, <2>1, <2>2 DEF WriteSnapshot
<1>10. CASE WriteFile
  <2>1. /\ pc = "write" /\ pc' \in {"write", "decide"}
        /\ cycle'.want = cycle.want /\ cycle'.changed = cycle.changed
    <3>1. [cycle EXCEPT !.next = @ + 1] \in CycleType
      <4>1. cycle.next \in 1 .. Len(Files)  BY <1>0, <1>10 DEF WriteFile, CycleType
      <4>2. cycle.next + 1 \in 1 .. Len(Files) + 1  BY <4>1
      <4>3. QED  BY <1>0, <4>2 DEF CycleType
    <3>2. \A d \in CycleType : /\ [d EXCEPT !.updated = TRUE, !.restart = TRUE].want = d.want
                               /\ [d EXCEPT !.updated = TRUE, !.restart = TRUE].changed = d.changed
          BY DEF CycleType
    <3>3. /\ [cycle EXCEPT !.next = @ + 1].want = cycle.want
          /\ [cycle EXCEPT !.next = @ + 1].changed = cycle.changed
          BY <1>0 DEF CycleType
    <3>4. QED  BY <1>10, <3>1, <3>2, <3>3, AbortKeepsWant DEF WriteFile, Go
  <2>2. UNCHANGED <<state, env, snap, answered>>
        BY <1>10, CutShortTypes DEF WriteFile
  <2>3. QED  BY <2>1, <2>2, RollsOn
<1>11. CASE FilesWritten
  <2>1. /\ pc = "write" /\ pc' = "keystore" /\ UNCHANGED <<state, env, snap, answered>>
        /\ cycle'.want = cycle.want /\ cycle'.changed = cycle.changed
        BY <1>0, <1>11 DEF FilesWritten, Go, CycleType
  <2>2. QED  BY <2>1, RollsOn
<1>12. ASSUME NEW p \in {"keystore", "pipelines"}, ApplyPart(p)  PROVE BinaryInv'
  <2>1. /\ pc = p /\ (pc' \in {"pipelines", "decide"} \/ (pc' = "remember" /\ cycle'.mode = p))
        /\ cycle'.want = cycle.want /\ cycle'.changed = cycle.changed
        BY <1>0, <1>12 DEF ApplyPart, Then, Go, CycleType
  <2>2. UNCHANGED <<state, env, snap, answered>>
        BY <1>12, CutShortTypes DEF ApplyPart
  <2>3. QED  BY <2>1, <2>2, RollsOn
<1>13. CASE RememberHash
  <2>1. state'.version = state.version /\ state'.binary = state.binary
        BY <1>0, <1>13 DEF RememberHash, TypeOK
  <2>2. /\ pc = "remember" /\ pc' \in {"pipelines", "decide"} /\ UNCHANGED <<env, snap, answered>>
        /\ cycle'.want = cycle.want /\ cycle'.changed = cycle.changed
        /\ cycle.want \in PolicyType
        BY <1>0, <1>a, <1>13
        DEF RememberHash, Then, Go, CycleType, CycleFits, Fetched, Rolling
  <2>3. CycleFits' /\ UpgradeIsNew' /\ UpgradeIsRun'
        BY <2>2 DEF CycleFits, UpgradeIsNew, UpgradeIsRun
  <2>4. UpgradeIsCovered'
        BY <1>a, <2>1, <2>2 DEF UpgradeIsCovered, Rolling, Restorable
  <2>5. SnapshotIsSound' /\ BinaryRecoverable' /\ PinHasAnswered'
        BY <1>a, <2>1, <2>2
        DEF SnapshotIsSound, BinaryRecoverable, PinHasAnswered, Restorable, Committed
  <2>6. QED  BY <2>3, <2>4, <2>5 DEF BinaryInv
<1>14. CASE Decide
  <2>0. pc = "decide" /\ UNCHANGED <<state, env, snap, answered>>  BY <1>14 DEF Decide
  <2>1. CASE cycle.changed /\ Rollback("quiet")
    BY <2>0, <2>1, RollbackIsSound DEF Rolling
  <2>2. CASE ~ (cycle.changed /\ Rollback("quiet"))
    <3>1. /\ cycle' = cycle
          /\ (pc' = "flip" /\ cycle.changed) \/ (pc' \in {"restart", "ack"} /\ ~ cycle.changed)
          BY <1>14, <2>2 DEF Decide, Go
    <3>2. QED  BY <2>0, <3>1, RollsOn
  <2>3. QED  BY <2>1, <2>2
<1>15. CASE FlipRuntimeEnv
  <2>0. /\ pc = "flip" /\ cycle.changed /\ UNCHANGED <<state, snap, answered>>
        /\ cycle.want \in PolicyType
        BY <1>a, <1>15 DEF FlipRuntimeEnv, CycleFits, Fetched, Rolling
  <2>1. CASE CutShort /\ Rollback("quiet")
    BY <2>0, <2>1, RollbackIsSound DEF Rolling
  <2>2. CASE env' = cycle.want.runtime /\ Go("restart", cycle)
    <3>1. pc' = "restart" /\ cycle' = cycle  BY <2>2 DEF Go
    <3>2. Restorable /\ snap.env = state.binary /\ ~ Committed
          BY <1>a, <2>0 DEF UpgradeIsCovered, Rolling, Committed
    <3>3. CycleFits' /\ UpgradeIsNew' /\ UpgradeIsRun'
          BY <2>0, <2>2, <3>1 DEF CycleFits, UpgradeIsNew, UpgradeIsRun
    <3>4. UpgradeIsCovered'
          BY <1>a, <2>0, <3>1 DEF UpgradeIsCovered, Rolling, Restorable
    <3>5. SnapshotIsSound' /\ BinaryRecoverable' /\ PinHasAnswered'
          BY <1>a, <2>0, <3>1, <3>2
          DEF SnapshotIsSound, BinaryRecoverable, PinHasAnswered, Restorable, Committed
    <3>6. QED  BY <3>3, <3>4, <3>5 DEF BinaryInv
  <2>3. QED  BY <1>15, <2>1, <2>2 DEF FlipRuntimeEnv
<1>16. CASE RestartLogstash
  <2>0. pc = "restart" /\ UNCHANGED <<state, env, snap, answered>> /\ cycle.want \in PolicyType
        BY <1>a, <1>16 DEF RestartLogstash, CycleFits, Fetched, Rolling
  <2>1. CASE cycle.changed /\ Rollback("restart")
    BY <2>0, <2>1, RollbackIsSound DEF Rolling
  <2>2. CASE cycle.changed /\ Starts /\ Go("wait", cycle)
    <3>1. pc' = "wait" /\ cycle' = cycle /\ loaded'.binary = cycle.want.runtime
          BY <1>a, <2>0, <2>2 DEF Go, Starts, UpgradeIsRun
    <3>2. CycleFits' /\ UpgradeIsNew' /\ UpgradeIsRun'
          BY <1>a, <2>0, <2>2, <3>1 DEF CycleFits, UpgradeIsNew, UpgradeIsRun
    <3>3. UpgradeIsCovered'
          BY <1>a, <2>0, <3>1 DEF UpgradeIsCovered, Rolling, Restorable
    <3>4. SnapshotIsSound' /\ BinaryRecoverable' /\ PinHasAnswered'
          BY <1>a, <2>0, <3>1
          DEF SnapshotIsSound, BinaryRecoverable, PinHasAnswered, Restorable, Committed
    <3>5. QED  BY <3>2, <3>3, <3>4 DEF BinaryInv
  <2>3. CASE ~ cycle.changed
    <3>1. pc' = "ack" /\ cycle'.want = cycle.want
          BY <1>0, <1>16, <2>3 DEF RestartLogstash, Go, CycleType
    <3>2. QED  BY <1>0, <2>0, <3>1, NothingAtStake
  <2>4. QED  BY <1>16, <2>1, <2>2, <2>3 DEF RestartLogstash
<1>17. CASE Finalize
  <2>0. /\ pc = "wait" /\ cycle.changed /\ UNCHANGED <<state, env, snap>>
        /\ cycle.want \in PolicyType /\ loaded.binary = cycle.want.runtime
        BY <1>a, <1>17 DEF Finalize, CycleFits, UpgradeIsRun, Fetched, Rolling
  <2>1. CASE UNCHANGED answered /\ Rollback("restart")
    BY <2>0, <2>1, RollbackIsSound DEF Rolling
  <2>2. CASE answered' = answered \cup {loaded.binary} /\ Go("commit", cycle)
    <3>1. pc' = "commit" /\ cycle' = cycle  BY <2>2 DEF Go
    <3>2. CycleFits' /\ UpgradeIsNew' /\ UpgradeIsRun'
          BY <1>a, <2>0, <2>2, <3>1 DEF CycleFits, UpgradeIsNew, UpgradeIsRun
    <3>3. UpgradeIsCovered'
          BY <1>a, <2>0, <3>1 DEF UpgradeIsCovered, Rolling, Restorable
    <3>4. SnapshotIsSound' /\ BinaryRecoverable' /\ PinHasAnswered'
          BY <1>a, <2>0, <2>2, <3>1
          DEF SnapshotIsSound, BinaryRecoverable, PinHasAnswered, Restorable, Committed
    <3>5. QED  BY <3>2, <3>3, <3>4 DEF BinaryInv
  <2>3. QED  BY <1>17, <2>1, <2>2 DEF Finalize
<1>18. CASE CommitVersion
  <2>0. /\ pc = "commit" /\ pc' = "commit binary" /\ cycle' = cycle
        /\ cycle.changed /\ cycle.want \in PolicyType
        /\ UNCHANGED <<env, snap, answered>>
        BY <1>a, <1>18 DEF CommitVersion, Go, CycleFits, Fetched, Rolling
  <2>1. state'.version = cycle.want.runtime /\ state'.binary = state.binary
        BY <1>0, <1>18 DEF CommitVersion, TypeOK
  <2>2. /\ Restorable /\ snap.env = state.binary /\ snap.want = cycle.want.runtime
        /\ env = cycle.want.runtime
        BY <1>a, <2>0 DEF UpgradeIsCovered, UpgradeIsRun, Rolling
  <2>3. CycleFits' /\ UpgradeIsNew' /\ UpgradeIsRun'
        BY <1>a, <2>0 DEF CycleFits, UpgradeIsNew, UpgradeIsRun
  <2>4. UpgradeIsCovered'
        BY <2>0, <2>1, <2>2 DEF UpgradeIsCovered, Rolling, Restorable
  <2>5. SnapshotIsSound' /\ BinaryRecoverable' /\ PinHasAnswered'
        BY <1>a, <2>0, <2>1, <2>2
        DEF SnapshotIsSound, BinaryRecoverable, PinHasAnswered, Restorable, Committed
  <2>6. QED  BY <2>3, <2>4, <2>5 DEF BinaryInv
<1>19. CASE CommitBinary
  <2>0. /\ pc = "commit binary" /\ pc' = "forget" /\ cycle' = cycle
        /\ cycle.want \in PolicyType /\ UNCHANGED <<env, snap, answered>>
        BY <1>a, <1>19 DEF CommitBinary, Go, CycleFits, Fetched
  <2>1. state'.binary = cycle.want.runtime /\ state'.version = state.version
        BY <1>0, <1>19 DEF CommitBinary, TypeOK
  <2>2. /\ Restorable /\ snap.want = cycle.want.runtime /\ state.version = snap.want
        /\ env = cycle.want.runtime /\ cycle.want.runtime \in answered
        BY <1>a, <2>0 DEF UpgradeIsCovered, UpgradeIsRun, CycleFits
  <2>3. CycleFits' /\ UpgradeIsNew' /\ UpgradeIsCovered' /\ UpgradeIsRun'
        BY <2>0 DEF CycleFits, UpgradeIsNew, UpgradeIsCovered, UpgradeIsRun, Fetched, Rolling
  <2>4. SnapshotIsSound' /\ BinaryRecoverable' /\ PinHasAnswered'
        BY <2>0, <2>1, <2>2
        DEF SnapshotIsSound, BinaryRecoverable, PinHasAnswered, Restorable, Committed
  <2>5. QED  BY <2>3, <2>4 DEF BinaryInv
<1>20. CASE Acknowledge
  <2>1. pc' = "idle" /\ UNCHANGED <<env, snap, answered>>  BY <1>20 DEF Acknowledge, Go
  <2>2. state'.version = state.version /\ state'.binary = state.binary
        BY <1>0, <1>20 DEF Acknowledge, TypeOK
  <2>3. CycleFits' /\ UpgradeIsNew' /\ UpgradeIsCovered' /\ UpgradeIsRun'
        BY <2>1 DEF CycleFits, UpgradeIsNew, UpgradeIsCovered, UpgradeIsRun, Fetched, Rolling
  <2>4. SnapshotIsSound' /\ BinaryRecoverable' /\ PinHasAnswered'
        BY <1>a, <2>1, <2>2
        DEF SnapshotIsSound, BinaryRecoverable, PinHasAnswered, Restorable, Committed
  <2>5. QED  BY <2>3, <2>4 DEF BinaryInv
<1>21. CASE RestoreSnapshot
  <2>1. /\ pc = "restore" /\ pc' \in {"forget", "rerun"} /\ cycle' = cycle /\ env' = snap.env
        /\ UNCHANGED <<state, snap, answered>>
        BY <1>21 DEF RestoreSnapshot, Go
  <2>2. Restorable /\ snap.env = state.binary  BY <1>a, <2>1 DEF SnapshotIsSound
  <2>3. CycleFits' /\ UpgradeIsNew' /\ UpgradeIsCovered' /\ UpgradeIsRun'
        BY <1>a, <2>1 DEF CycleFits, UpgradeIsNew, UpgradeIsCovered, UpgradeIsRun, Fetched, Rolling
  <2>4. SnapshotIsSound' /\ BinaryRecoverable' /\ PinHasAnswered'
        BY <1>a, <2>1, <2>2
        DEF SnapshotIsSound, BinaryRecoverable, PinHasAnswered, Restorable, Committed
  <2>5. QED  BY <2>3, <2>4 DEF BinaryInv
<1>22. CASE RestoreFails
  <2>1. /\ pc = "restore" /\ CutShort /\ UNCHANGED <<state, snap, answered>>
        /\ pc' = "report" \/ (pc' = "ack" /\ cycle' = cycle /\ cycle.mode # "recover")
        BY <1>22 DEF RestoreFails, AfterRollback, Go
  <2>2. CycleFits' /\ UpgradeIsNew' /\ UpgradeIsCovered' /\ UpgradeIsRun'
        BY <1>a, <2>1 DEF CycleFits, UpgradeIsNew, UpgradeIsCovered, UpgradeIsRun, Fetched, Rolling
  <2>3. SnapshotIsSound' /\ BinaryRecoverable' /\ PinHasAnswered'
        BY <2>1, CutShortIsCovered DEF SnapshotIsSound
  <2>4. QED  BY <2>2, <2>3 DEF BinaryInv
<1>23. CASE RestartRestored
  <2>1. /\ pc = "rerun" /\ UNCHANGED <<state, env, snap, answered>>
        /\ \/ pc' = "forget" /\ cycle' = cycle
           \/ pc' = "report"
           \/ pc' = "ack" /\ cycle' = cycle /\ cycle.mode # "recover"
        BY <1>23 DEF RestartRestored, AfterRollback, Go
  <2>2. CycleFits' /\ UpgradeIsNew' /\ UpgradeIsCovered' /\ UpgradeIsRun'
        BY <1>a, <2>1 DEF CycleFits, UpgradeIsNew, UpgradeIsCovered, UpgradeIsRun, Fetched, Rolling
  <2>3. SnapshotIsSound' /\ BinaryRecoverable' /\ PinHasAnswered'
        BY <1>a, <2>1 DEF SnapshotIsSound, BinaryRecoverable, PinHasAnswered, Restorable, Committed
  <2>4. QED  BY <2>2, <2>3 DEF BinaryInv
<1>24. CASE ForgetSnapshot
  <2>1. /\ pc = "forget" /\ snap' = Nothing /\ UNCHANGED <<state, env, answered>>
        /\ pc' = "report" \/ (pc' = "ack" /\ cycle' = cycle /\ cycle.mode # "recover")
        BY <1>24 DEF ForgetSnapshot, AfterRollback, Go
  <2>2. env = state.binary  BY <1>a, <2>1 DEF SnapshotIsSound
  <2>3. CycleFits' /\ UpgradeIsNew' /\ UpgradeIsCovered' /\ UpgradeIsRun'
        BY <1>a, <2>1 DEF CycleFits, UpgradeIsNew, UpgradeIsCovered, UpgradeIsRun, Fetched, Rolling
  <2>4. SnapshotIsSound' /\ BinaryRecoverable' /\ PinHasAnswered'
        BY <1>a, <2>1, <2>2 DEF SnapshotIsSound, BinaryRecoverable, PinHasAnswered, Restorable
  <2>5. QED  BY <2>3, <2>4 DEF BinaryInv
<1>25. QED
  BY <1>1, <1>2, <1>3, <1>4, <1>5, <1>6, <1>7, <1>8, <1>9, <1>10, <1>11, <1>12, <1>13, <1>14,
     <1>15, <1>16, <1>17, <1>18, <1>19, <1>20, <1>21, <1>22, <1>23, <1>24
  DEF Next, Cycle, UpdateKeystore, UpdatePipelines

-----------------------------------------------------------------------------
\* Every reachable state satisfies the inductive invariant.
THEOREM Invariance == Spec => []IInv
<1>1. IInv /\ [Next]_vars => IInv'  BY TypeStep, BinaryStep DEF IInv
<1>2. QED  BY InitInv, <1>1, PTL DEF Spec

\* Every variable keeps its type.
THEOREM TypeCorrect == Spec => []TypeOK
<1>1. IInv => TypeOK  BY DEF IInv
<1>2. QED  BY Invariance, <1>1, PTL

\* Whenever the env file does not name the committed binary, a readable snapshot
\* with it is there: flip_runtime_env, commit and rollback can be cut anywhere.
THEOREM UpgradeIsRecoverable == Spec => []BinaryRecoverable
<1>1. IInv => BinaryRecoverable  BY DEF IInv, BinaryInv
<1>2. QED  BY Invariance, <1>1, PTL

\* The committed binary has answered its API.
THEOREM PinIsProven == Spec => []PinHasAnswered
<1>1. IInv => PinHasAnswered  BY DEF IInv, BinaryInv
<1>2. QED  BY Invariance, <1>1, PTL

-----------------------------------------------------------------------------
\* Rollback and acknowledgement.

\* Every part of the snapshot, and the env file, are back.
Back == env = snap.env /\ \A p \in Parts : snap.disk[p] # Nothing => disk[p] = snap.disk[p]

\* A snapshot is dropped after a restore that ended, or after the commit.
RestoreInv ==
    /\ pc = "rerun" => Back
    /\ pc = "forget" => Back \/ Committed

\* Every configuration file follows what was fetched.
FilesOnDisk == \A f \in ConfigFiles : Follows(f)

\* A file that differs is one the rollout has still to write.
StillToWrite(f) ==
    /\ Brought(f)
    /\ \/ pc \in {"prepare", "snapshot"}
       \/ pc = "write" /\ \E i \in cycle.next .. Len(Files) : Files[i] = f

\* The flags keep account of what was not written, or was taken back.
RolloutInv ==
    /\ pc \in {"prepare", "snapshot"} => cycle.next = 1
    /\ pc \in Fetched \ {"ack"} /\ cycle.changed => cycle.updated
    /\ pc \in Fetched \ {"ack"} /\ ~ cycle.aborted =>
          \A f \in ConfigFiles : Follows(f) \/ StillToWrite(f)
    /\ pc \in {"restore", "rerun"} /\ cycle.mode # "recover" => cycle.updated /\ cycle.failed
    /\ (/\ pc = "ack" \/ (pc = "forget" /\ cycle.mode # "recover")
        /\ ~ cycle.aborted /\ ~ (cycle.updated /\ cycle.failed)) => FilesOnDisk

\* A restore that ends has put back every part of the settings directory.
LEMMA RestoresAll == {RestoreOrder[i] : i \in 1 .. Len(RestoreOrder)} = Parts
<1>1. Files \in Seq(STRING) /\ Len(Files) \in Nat  OBVIOUS
<1>2. /\ Len(RestoreOrder) = Len(Files) + 2
      /\ \A i \in 1 .. Len(Files) : RestoreOrder[i] = Files[i]
      /\ RestoreOrder[Len(Files) + 1] = "keystore" /\ RestoreOrder[Len(Files) + 2] = "pipelines"
      BY <1>1 DEF RestoreOrder
<1>3. ConfigFiles = {Files[i] : i \in 1 .. Len(Files)}  BY <1>1 DEF ConfigFiles, Range
<1>4. ASSUME NEW i \in 1 .. Len(RestoreOrder)  PROVE RestoreOrder[i] \in Parts
  <2>1. i \in 1 .. Len(Files) \/ i = Len(Files) + 1 \/ i = Len(Files) + 2  BY <1>1, <1>2
  <2>2. QED  BY <1>2, <1>3, <2>1 DEF Parts
<1>5. ASSUME NEW p \in Parts  PROVE \E i \in 1 .. Len(RestoreOrder) : RestoreOrder[i] = p
  <2>1. CASE p \in ConfigFiles
    <3>1. PICK i \in 1 .. Len(Files) : Files[i] = p  BY <1>3, <2>1
    <3>2. i \in 1 .. Len(RestoreOrder) /\ RestoreOrder[i] = p  BY <1>1, <1>2, <3>1
    <3>3. QED  BY <3>2
  <2>2. CASE p = "keystore"
    <3>1. Len(Files) + 1 \in 1 .. Len(RestoreOrder)  BY <1>1, <1>2
    <3>2. QED  BY <1>2, <2>2, <3>1
  <2>3. CASE p = "pipelines"
    <3>1. Len(Files) + 2 \in 1 .. Len(RestoreOrder)  BY <1>1, <1>2
    <3>2. QED  BY <1>2, <2>3, <3>1
  <2>4. QED  BY <2>1, <2>2, <2>3 DEF Parts
<1>6. QED  BY <1>4, <1>5

\* Only a restore that ended and the commit lead to where the snapshot is dropped.
LEMMA RestoreStep == IInv /\ RestoreInv /\ [Next]_vars => RestoreInv'
<1> SUFFICES ASSUME IInv, RestoreInv, [Next]_vars  PROVE RestoreInv'  OBVIOUS
<1>1. CASE EditPart \/ EditRuntime \/ DownloadProgress \/ DownloadFails \/ UNCHANGED vars
  BY <1>1 DEF EditPart, EditRuntime, DownloadProgress, DownloadFails, vars,
              RestoreInv, Back, Committed
<1>2. CASE RestoreSnapshot
  <2>1. /\ disk' = RestoredTo(Len(RestoreOrder)) /\ env' = snap.env /\ UNCHANGED snap
        BY <1>2 DEF RestoreSnapshot
  <2>2. Back'  BY <2>1, RestoresAll DEF RestoredTo, Back
  <2>3. QED  BY <2>2 DEF RestoreInv
<1>3. CASE RestartRestored
  <2>1. pc = "rerun" /\ UNCHANGED <<disk, env, snap>> /\ pc' \in {"forget", "report", "ack"}
        BY <1>3 DEF RestartRestored, AfterRollback, Go
  <2>2. Back'  BY <2>1 DEF RestoreInv, Back
  <2>3. QED  BY <2>1, <2>2 DEF RestoreInv
<1>4. CASE CommitBinary
  <2>1. /\ pc = "commit binary" /\ pc' = "forget" /\ UNCHANGED snap
        /\ state' = [state EXCEPT !.binary = cycle.want.runtime]
        BY <1>4 DEF CommitBinary, Go
  <2>2. snap.want = cycle.want.runtime /\ state.version = snap.want
        BY <2>1 DEF IInv, BinaryInv, UpgradeIsCovered
  <2>3. Committed'  BY <2>1, <2>2 DEF Committed, IInv, TypeOK
  <2>4. QED  BY <2>1, <2>3 DEF RestoreInv
<1>5. CASE Crash \/ CheckIn \/ Recover \/ Report \/ GetConfigChanges \/ PrepareNothing
           \/ HoldForDownload \/ PrepareSnapshot \/ WriteSnapshot \/ WriteFile \/ FilesWritten
  <2>1. pc' \notin {"rerun", "forget"}
        BY <1>5 DEF Crash, CheckIn, Recover, Report, GetConfigChanges, PrepareNothing,
                    HoldForDownload, PrepareSnapshot, WriteSnapshot, WriteFile, FilesWritten,
                    Rollback, AbortFailed, Abort, Go
  <2>2. QED  BY <2>1 DEF RestoreInv
<1>6. CASE UpdateKeystore \/ UpdatePipelines \/ RememberHash \/ Decide \/ FlipRuntimeEnv
           \/ RestartLogstash \/ Finalize \/ CommitVersion \/ Acknowledge \/ RestoreFails
           \/ ForgetSnapshot
  <2>1. pc = "remember" => cycle.mode \in {"keystore", "pipelines"}
        BY DEF IInv, BinaryInv, CycleFits
  <2>2. pc' \notin {"rerun", "forget"}
        BY <1>6, <2>1 DEF UpdateKeystore, UpdatePipelines, ApplyPart, Then, RememberHash, Decide,
                    FlipRuntimeEnv, RestartLogstash, Finalize, CommitVersion, Acknowledge,
                    RestoreFails, ForgetSnapshot, AfterRollback, Rollback, Go
  <2>3. QED  BY <2>2 DEF RestoreInv
<1>7. QED  BY <1>1, <1>2, <1>3, <1>4, <1>5, <1>6 DEF Next, Cycle

\* A readable snapshot of an upgrade that is not committed is dropped only where
\* everything is back.
LEMMA DropStep ==
    IInv /\ RestoreInv /\ [Next]_vars =>
        (Restorable /\ snap' = Nothing /\ ~ Committed =>
            env' = snap.env /\ \A p \in Parts : snap.disk[p] # Nothing => disk'[p] = snap.disk[p])
<1> SUFFICES ASSUME IInv, RestoreInv, [Next]_vars, Restorable, snap' = Nothing, ~ Committed
             PROVE  env' = snap.env
                    /\ \A p \in Parts : snap.disk[p] # Nothing => disk'[p] = snap.disk[p]
  OBVIOUS
<1>1. snap' # snap  BY DEF Restorable
<1>2. ForgetSnapshot
  <2>1. ~ Recover  BY <1>1 DEF Recover, Restorable
  <2>2. ~ PrepareSnapshot  BY <1>1 DEF PrepareSnapshot, Restorable
  <2>3. ~ WriteSnapshot
        BY DEF WriteSnapshot, IInv, BinaryInv, UpgradeIsNew, Restorable
  <2>4. QED
    BY <1>1, <2>1, <2>2, <2>3
    DEF Next, Cycle, vars, EditPart, EditRuntime, DownloadProgress, DownloadFails, Crash, CheckIn,
        Report, GetConfigChanges, PrepareNothing, HoldForDownload, WriteFile, FilesWritten,
        UpdateKeystore, UpdatePipelines, ApplyPart, RememberHash, Decide, FlipRuntimeEnv,
        RestartLogstash, Finalize, CommitVersion, CommitBinary, Acknowledge, RestoreSnapshot,
        RestoreFails, RestartRestored
<1>3. Back /\ UNCHANGED <<disk, env>>  BY <1>2 DEF ForgetSnapshot, RestoreInv
<1>4. QED  BY <1>3 DEF Back

\* Rollback brings back every part of the snapshot before it drops it.
THEOREM RollbackIsComplete == Spec => RollbackRestores
<1>1. Init => RestoreInv  BY DEF Init, RestoreInv
<1>2. Spec => []RestoreInv
  <2>1. IInv /\ RestoreInv /\ [Next]_vars => RestoreInv'  BY RestoreStep
  <2>2. QED  BY <1>1, <2>1, Invariance, PTL DEF Spec
<1>3. IInv /\ RestoreInv /\ [Next]_vars =>
          [(snap # Nothing /\ snap.meta /\ snap' = Nothing /\ ~ Committed)
             => /\ env' = snap.env
                /\ \A p \in Parts : snap.disk[p] # Nothing => disk'[p] = snap.disk[p]]_vars
  BY DropStep DEF Restorable
<1>4. QED  BY <1>2, <1>3, Invariance, PTL DEF Spec, RollbackRestores

\* Keystore and pipelines are no configuration files.
LEMMA OtherParts ==
    ASSUME IInv, CutShort, pc \in {"flip", "keystore", "pipelines"}, NEW f \in ConfigFiles
    PROVE  disk'[f] = disk[f]
<1>1. f \in Parts /\ f # "pipelines" /\ disk \in [Parts -> OnDisk]
      BY DEF Parts, ConfigFiles, IInv, TypeOK
<1>2. QED  BY <1>1 DEF CutShort, TornAt

\* A step of the rollout keeps account of what is written.
LEMMA AccountKept ==
    ASSUME RolloutInv, pc \in {"keystore", "pipelines", "remember", "decide", "flip", "restart",
                               "wait", "commit"},
           cycle'.want = cycle.want, cycle'.changed = cycle.changed,
           cycle'.updated = cycle.updated, cycle'.aborted = cycle.aborted,
           \A f \in ConfigFiles : disk'[f] = disk[f],
           pc' \in (Rolling \ {"write"}) \cup {"commit binary", "ack"}
    PROVE  RolloutInv'
<1>1. ~ cycle.aborted => FilesOnDisk
      BY DEF RolloutInv, Fetched, Rolling, StillToWrite, FilesOnDisk
<1>2. cycle.changed => cycle.updated  BY DEF RolloutInv, Fetched, Rolling
<1>3. QED  BY <1>1, <1>2 DEF RolloutInv, Fetched, Rolling, FilesOnDisk, Follows

\* A rollback is held against the revision.
LEMMA RollbackIsHeld ==
    ASSUME IInv, RolloutInv, NEW m \in {"quiet", "restart"}, Rollback(m), pc \in Rolling, cycle.changed
    PROVE  RolloutInv'
<1>1. /\ pc' = "restore" /\ cycle'.failed /\ cycle'.updated = cycle.updated
      /\ cycle'.changed = cycle.changed
      BY DEF Rollback, Go, IInv, TypeOK, CycleType
<1>2. cycle.updated  BY DEF RolloutInv, Fetched, Rolling
<1>3. QED  BY <1>1, <1>2 DEF RolloutInv, Fetched, Rolling

\* Before the first file is written, all are still to come.
LEMMA FilesFromFirst ==
    \A f \in ConfigFiles : \E i \in 1 .. Len(Files) : Files[i] = f
BY DEF ConfigFiles, Range

\* Every step keeps that account.
LEMMA RolloutStep == IInv /\ RolloutInv /\ [Next]_vars => RolloutInv'
<1> SUFFICES ASSUME IInv, RolloutInv, [Next]_vars  PROVE RolloutInv'  OBVIOUS
<1>0. TypeOK /\ CycleFits /\ cycle \in CycleType  BY DEF IInv, BinaryInv, TypeOK
<1>1. CASE EditPart \/ EditRuntime \/ DownloadProgress \/ DownloadFails \/ UNCHANGED vars
  <2>1. UNCHANGED <<disk, pc, cycle>>
        BY <1>1 DEF EditPart, EditRuntime, DownloadProgress, DownloadFails, vars
  <2>2. QED  BY <2>1 DEF RolloutInv, StillToWrite, FilesOnDisk, Follows, Brought
<1>2. CASE Crash \/ CheckIn \/ Report \/ Acknowledge
  <2>1. pc' \in {"idle", "recover", "fetch"} /\ cycle' = NoCycle
        BY <1>2 DEF Crash, CheckIn, Report, Acknowledge, Go
  <2>2. QED  BY <2>1 DEF RolloutInv, NoCycle, Fetched, Rolling
<1>3. CASE Recover
  <2>1. (pc' = "report" /\ cycle' = NoCycle)
        \/ (pc' = "restore" /\ cycle'.mode = "recover")
        BY <1>0, <1>3 DEF Recover, Rollback, Go, CycleType
  <2>2. QED  BY <2>1 DEF RolloutInv, NoCycle, Fetched, Rolling
<1>4. CASE GetConfigChanges
  <2>1. CASE pc' = "idle"
    BY <2>1 DEF RolloutInv, Fetched, Rolling
  <2>2. CASE Go("prepare", [NoCycle EXCEPT !.want = policy, !.delta = Delta])
    <3>1. /\ pc' = "prepare" /\ cycle'.want = policy /\ cycle'.delta = Delta
          /\ ~ cycle'.changed /\ cycle'.next = 1 /\ UNCHANGED disk
          BY <1>4, <2>2 DEF GetConfigChanges, Go, NoCycle
    <3>2. \A f \in ConfigFiles : f \in Delta \/ disk[f] = policy.part[f]
          BY DEF Delta, Reported, Parts
    <3>3. QED  BY <3>1, <3>2 DEF RolloutInv, StillToWrite, Follows, Brought
  <2>3. QED  BY <1>4, <2>1, <2>2 DEF GetConfigChanges, Go

<1>5. CASE PrepareNothing
  <2>1. /\ pc = "prepare" /\ pc' = "write" /\ cycle' = cycle /\ UNCHANGED disk
        /\ ~ cycle.changed /\ cycle.next = 1
        BY <1>0, <1>5 DEF PrepareNothing, Go, CycleFits, RolloutInv
  <2>2. QED  BY <2>1, FilesFromFirst DEF RolloutInv, StillToWrite, Fetched, Rolling, Follows, Brought
<1>6. CASE HoldForDownload
  <2>1. pc' = "decide" /\ cycle'.aborted /\ ~ cycle'.changed
        BY <1>0, <1>6 DEF HoldForDownload, Abort, Go, CycleFits, CycleType
  <2>2. QED  BY <2>1 DEF RolloutInv, Fetched, Rolling
<1>7. CASE PrepareSnapshot
  <2>0. pc = "prepare" /\ UNCHANGED disk /\ ~ cycle.changed
        BY <1>0, <1>7 DEF PrepareSnapshot, CycleFits
  <2>1. CASE Go("snapshot", cycle)
    BY <2>0, <2>1 DEF Go, RolloutInv, StillToWrite, Fetched, Rolling, Follows, Brought
  <2>2. CASE AbortFailed(cycle)
    BY <1>0, <2>0, <2>2, AbortKeepsWant DEF RolloutInv, Fetched, Rolling
  <2>3. QED  BY <1>7, <2>1, <2>2 DEF PrepareSnapshot
<1>8. CASE WriteSnapshot
  <2>0. pc = "snapshot" /\ UNCHANGED disk /\ ~ cycle.changed /\ cycle.next = 1
        BY <1>0, <1>8 DEF WriteSnapshot, CycleFits, RolloutInv
  <2>1. CASE Go("write", [cycle EXCEPT !.changed = TRUE, !.updated = TRUE, !.restart = TRUE])
    <3>1. /\ pc' = "write" /\ cycle'.updated /\ cycle'.want = cycle.want
          /\ cycle'.delta = cycle.delta /\ cycle'.next = 1 /\ cycle'.aborted = cycle.aborted
          BY <1>0, <2>0, <2>1 DEF Go, CycleType
    <3>2. QED  BY <2>0, <3>1, FilesFromFirst DEF RolloutInv, StillToWrite, Fetched, Rolling, Follows, Brought
  <2>2. CASE AbortFailed(cycle)
    BY <1>0, <2>0, <2>2, AbortKeepsWant DEF RolloutInv, Fetched, Rolling
  <2>3. QED  BY <1>8, <2>1, <2>2 DEF WriteSnapshot
<1>9. CASE WriteFile
  <2> DEFINE f == Files[cycle.next]
             c == [cycle EXCEPT !.next = @ + 1]
  <2>0. /\ pc = "write" /\ cycle.next \in 1 .. Len(Files) /\ disk \in [Parts -> OnDisk]
        /\ f \in ConfigFiles /\ ConfigFiles \subseteq Parts
        BY <1>0, <1>9 DEF WriteFile, CycleType, TypeOK, ConfigFiles, Range, Parts
  <2>1. /\ c \in CycleType /\ c.next = cycle.next + 1 /\ c.want = cycle.want
        /\ c.delta = cycle.delta /\ c.aborted = cycle.aborted /\ c.changed = cycle.changed
        /\ c.updated = cycle.updated
    <3>1. cycle.next + 1 \in 1 .. Len(Files) + 1  BY <2>0
    <3>2. QED  BY <1>0, <3>1 DEF CycleType
  <2>2. ASSUME NEW g \in ConfigFiles, g # f, Follows(g) \/ StillToWrite(g)
        PROVE  Follows(g) \/ (Brought(g) /\ \E i \in c.next .. Len(Files) : Files[i] = g)
    BY <2>0, <2>1, <2>2 DEF StillToWrite
  <2>3. CASE ~ Brought(f) /\ UNCHANGED disk /\ Go("write", c)
    <3>1. pc' = "write" /\ cycle' = c  BY <2>3 DEF Go
    <3>2. ~ cycle.aborted => Follows(f)
          BY <2>0, <2>3 DEF RolloutInv, StillToWrite, Fetched, Rolling
    <3>3. QED
      BY <2>0, <2>1, <2>2, <2>3, <3>1, <3>2 DEF RolloutInv, StillToWrite, Fetched, Rolling, Follows, Brought
  <2>4. CASE /\ disk' = [disk EXCEPT ![f] = cycle.want.part[f]]
             /\ Go("write", [c EXCEPT !.updated = TRUE, !.restart = TRUE])
    <3>1. /\ pc' = "write" /\ cycle'.updated /\ cycle'.want = cycle.want
          /\ cycle'.delta = cycle.delta /\ cycle'.next = c.next /\ cycle'.aborted = cycle.aborted
          BY <2>1, <2>4 DEF Go, CycleType
    <3>2. disk'[f] = cycle.want.part[f] /\ \A g \in ConfigFiles \ {f} : disk'[g] = disk[g]
          BY <2>0, <2>4
    <3>3. QED
      BY <2>0, <2>2, <3>1, <3>2 DEF RolloutInv, StillToWrite, Fetched, Rolling, Follows, Brought
  <2>5. CASE AbortFailed(c)
    <3>1. /\ pc' = "decide" /\ cycle'.changed = cycle.changed /\ cycle'.aborted
          /\ cycle'.updated = cycle.updated
          BY <2>1, <2>5, AbortKeepsWant
    <3>2. QED  BY <2>0, <3>1 DEF RolloutInv, Fetched, Rolling
  <2>6. QED  BY <1>9, <2>3, <2>4, <2>5 DEF WriteFile
<1>10. CASE FilesWritten
  <2>1. /\ pc = "write" /\ cycle.next > Len(Files) /\ pc' = "keystore" /\ UNCHANGED disk
        /\ cycle'.want = cycle.want /\ cycle'.changed = cycle.changed
        /\ cycle'.aborted = cycle.aborted /\ (cycle.updated => cycle'.updated)
        BY <1>0, <1>10 DEF FilesWritten, Go, CycleType
  <2>2. ~ cycle.aborted => FilesOnDisk
        BY <1>0, <2>1 DEF RolloutInv, StillToWrite, FilesOnDisk, Fetched, Rolling, CycleType
  <2>3. QED  BY <2>1, <2>2 DEF RolloutInv, FilesOnDisk, Fetched, Rolling, Follows
<1>11. ASSUME NEW p \in {"keystore", "pipelines"}, ApplyPart(p)  PROVE RolloutInv'
  <2>1. /\ pc = p /\ pc' \in {"pipelines", "remember", "decide"}
        /\ cycle'.want = cycle.want /\ cycle'.changed = cycle.changed
        /\ cycle'.updated = cycle.updated /\ cycle'.aborted = cycle.aborted
        BY <1>0, <1>11 DEF ApplyPart, Then, Go, CycleType
  <2>2. \A f \in ConfigFiles : disk'[f] = disk[f]
    <3>1. \A f \in ConfigFiles : f \in Parts /\ f # p  BY DEF Parts, ConfigFiles
    <3>2. QED  BY <1>0, <1>11, <2>1, <3>1, OtherParts DEF ApplyPart, TypeOK
  <2>3. QED  BY <2>1, <2>2, AccountKept DEF Rolling
<1>12. CASE RememberHash \/ (Finalize /\ pc' = "commit") \/ CommitVersion
  <2>1. /\ pc \in {"remember", "wait", "commit"} /\ UNCHANGED disk
        /\ pc' \in {"pipelines", "decide", "commit", "commit binary"}
        /\ cycle'.want = cycle.want /\ cycle'.changed = cycle.changed
        /\ cycle'.updated = cycle.updated /\ cycle'.aborted = cycle.aborted
        BY <1>0, <1>12
        DEF RememberHash, Finalize, Rollback, CommitVersion, Then, Go, CycleType, CycleFits
  <2>2. QED  BY <2>1, AccountKept DEF Rolling
<1>13. CASE CommitBinary
  <2>1. pc = "commit binary" /\ pc' = "forget" /\ cycle' = cycle /\ UNCHANGED disk
        BY <1>13 DEF CommitBinary, Go
  <2>2. QED  BY <2>1 DEF RolloutInv, StillToWrite, FilesOnDisk, Fetched, Rolling, Follows, Brought
<1>14. CASE Decide
  <2>0. pc = "decide" /\ UNCHANGED disk  BY <1>14 DEF Decide
  <2>1. CASE cycle.changed /\ Rollback("quiet")
    BY <2>0, <2>1, RollbackIsHeld DEF Rolling
  <2>2. CASE pc' \in {"flip", "restart", "ack"} /\ cycle' = cycle
    BY <2>0, <2>2, AccountKept DEF Rolling
  <2>3. QED  BY <1>14, <2>1, <2>2 DEF Decide, Go
<1>15. CASE FlipRuntimeEnv
  <2>0. pc = "flip" /\ cycle.changed  BY <1>0, <1>15 DEF FlipRuntimeEnv, CycleFits
  <2>1. CASE Rollback("quiet")
    BY <2>0, <2>1, RollbackIsHeld DEF Rolling
  <2>2. CASE Go("restart", cycle) /\ UNCHANGED disk
    BY <2>0, <2>2, AccountKept DEF Rolling, Go
  <2>3. QED  BY <1>15, <2>1, <2>2 DEF FlipRuntimeEnv
<1>16. CASE RestartLogstash
  <2>0. pc = "restart" /\ UNCHANGED disk  BY <1>16 DEF RestartLogstash
  <2>1. CASE cycle.changed /\ Rollback("restart")
    BY <2>0, <2>1, RollbackIsHeld DEF Rolling
  <2>2. CASE pc' \in {"wait", "ack"} /\ cycle' = cycle
    BY <2>0, <2>2, AccountKept DEF Rolling
  <2>3. CASE pc' = "ack" /\ cycle' = [cycle EXCEPT !.failed = TRUE]
    <3>1. /\ cycle'.want = cycle.want /\ cycle'.changed = cycle.changed
          /\ cycle'.updated = cycle.updated /\ cycle'.aborted = cycle.aborted
          BY <1>0, <2>3 DEF CycleType
    <3>2. QED  BY <2>0, <2>3, <3>1, AccountKept
  <2>4. QED  BY <1>16, <2>1, <2>2, <2>3 DEF RestartLogstash, Go
<1>17. CASE Finalize /\ pc' # "commit"
  <2>1. pc = "wait" /\ cycle.changed /\ Rollback("restart")
        BY <1>0, <1>17 DEF Finalize, Go, CycleFits
  <2>2. QED  BY <2>1, RollbackIsHeld DEF Rolling
<1>18. CASE RestoreSnapshot
  <2>1. /\ pc = "restore" /\ cycle' = cycle
        /\ pc' = IF cycle.mode = "quiet" THEN "forget" ELSE "rerun"
        BY <1>18 DEF RestoreSnapshot, Go
  <2>2. QED  BY <2>1 DEF RolloutInv, Fetched, Rolling
<1>19. CASE RestoreFails \/ RestartRestored
  <2>1. /\ pc \in {"restore", "rerun"}
        /\ \/ pc' = "forget" /\ cycle' = cycle
           \/ pc' = "report"
           \/ pc' = "ack" /\ cycle' = cycle /\ cycle.mode # "recover"
        BY <1>19 DEF RestoreFails, RestartRestored, AfterRollback, Go
  <2>2. QED  BY <2>1 DEF RolloutInv, Fetched, Rolling
<1>20. CASE ForgetSnapshot
  <2>1. /\ pc = "forget" /\ UNCHANGED disk
        /\ pc' = "report" \/ (pc' = "ack" /\ cycle' = cycle /\ cycle.mode # "recover")
        BY <1>20 DEF ForgetSnapshot, AfterRollback, Go
  <2>2. QED  BY <2>1 DEF RolloutInv, FilesOnDisk, Fetched, Rolling, Follows
<1>21. QED
  BY <1>1, <1>2, <1>3, <1>4, <1>5, <1>6, <1>7, <1>8, <1>9, <1>10, <1>11, <1>12, <1>13, <1>14,
     <1>15, <1>16, <1>17, <1>18, <1>19, <1>20
  DEF Next, Cycle, UpdateKeystore, UpdatePipelines

\* A revision is acknowledged only over the files fetched with it.
THEOREM AcknowledgedIsWritten == Spec => AckedFilesAreOnDisk
<1>1. Init => RolloutInv  BY DEF Init, RolloutInv, Fetched, Rolling
<1>2. Spec => []RolloutInv
  <2>1. IInv /\ RolloutInv /\ [Next]_vars => RolloutInv'  BY RolloutStep
  <2>2. QED  BY <1>1, <2>1, Invariance, PTL DEF Spec
<1>3. IInv /\ RolloutInv /\ [Next]_vars =>
          [state'.revision # state.revision
             => \A f \in ConfigFiles : Follows(f)]_vars
  <2>1. SUFFICES ASSUME IInv, RolloutInv, [Next]_vars, state'.revision # state.revision
                 PROVE  FilesOnDisk
        BY DEF FilesOnDisk
  <2>2. Acknowledge \/ RememberHash \/ CommitVersion \/ CommitBinary
    BY <2>1
    DEF Next, Cycle, vars, EditPart, EditRuntime, DownloadProgress, DownloadFails, Crash, CheckIn,
        Recover, Report, GetConfigChanges, PrepareNothing, HoldForDownload, PrepareSnapshot,
        WriteSnapshot, WriteFile, FilesWritten, UpdateKeystore, UpdatePipelines, ApplyPart, Decide,
        FlipRuntimeEnv, RestartLogstash, Finalize, RestoreSnapshot, RestoreFails, RestartRestored,
        ForgetSnapshot
  <2>3. Acknowledge
    BY <2>1, <2>2 DEF RememberHash, CommitVersion, CommitBinary, IInv, TypeOK
  <2>4. QED  BY <2>1, <2>3 DEF Acknowledge, RolloutInv
<1>4. QED  BY <1>2, <1>3, Invariance, PTL DEF Spec, AckedFilesAreOnDisk
=============================================================================
