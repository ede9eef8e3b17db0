------------------------- MODULE HostInstall_proofs -------------------------
(***************************************************************************)
(* The program of a host and the identities of its agents, for every       *)
(* number of upgrades, versions and faults. Recoverable speaks of one      *)
(* moment; the invariant says what each step of a replacement relies on:   *)
(* that nobody else is replacing, and that the backup is whole until the   *)
(* service was seen.                                                       *)
(***************************************************************************)
EXTENDS HostInstall, TLAPS

USE HostAssumption, StateAssumption, InstanceAssumption

-----------------------------------------------------------------------------
(* Types *)

FilesType   == [bin : Content, lib : Content, bakBin : Content, bakLib : Content]
ServiceType == [st : {"absent", "stopped", "failing", "up"}, version : Content,
                asked : BOOLEAN, current : BOOLEAN, copy : States \cup {NoState}]
JobType     == [at : Places, version : Versions \cup {Missing}, within : Agents \cup {NoAgent}]

LEMMA Numbers ==
    /\ Missing \in Content /\ Torn \in Content /\ Versions \subseteq Content
    /\ Missing \notin Versions /\ Torn \notin Versions /\ Missing # Torn
BY DEF Missing, Torn, Content, Versions

LEMMA BinTypes ==
    BinTypeOK <=> /\ files \in FilesType
                  /\ cache \in [Versions -> {"none", "part", "whole"}]
                  /\ good \in SUBSET Versions
                  /\ svc \in [Agents -> ServiceType]
                  /\ desired \in Versions
                  /\ job \in [Writers -> JobType]
                  /\ regVersion \in Versions \cup {Missing}
                  /\ faults \in 0 .. MaxFaults
                  /\ risk \in BOOLEAN
BY DEF BinTypeOK, FilesType, ServiceType, JobType

LEMMA BinTypesAfter ==
    ASSUME files' \in FilesType, cache' \in [Versions -> {"none", "part", "whole"}],
           good' \in SUBSET Versions, svc' \in [Agents -> ServiceType], desired' \in Versions,
           job' \in [Writers -> JobType], regVersion' \in Versions \cup {Missing},
           faults' \in 0 .. MaxFaults, risk' \in BOOLEAN
    PROVE  BinTypeOK'
BY DEF BinTypeOK, FilesType, ServiceType, JobType

LEMMA ServiceUpdates ==
    ASSUME NEW s \in ServiceType
    PROVE  /\ [s EXCEPT !.asked = TRUE] \in ServiceType
           /\ [s EXCEPT !.current = FALSE] \in ServiceType
           /\ [s EXCEPT !.st = "stopped", !.current = FALSE, !.copy = NoState] \in ServiceType
<1>1. [s EXCEPT !.asked = TRUE] \in ServiceType  BY DEF ServiceType
<1>2. [s EXCEPT !.current = FALSE] \in ServiceType  BY DEF ServiceType
<1>3. [s EXCEPT !.st = "stopped", !.current = FALSE, !.copy = NoState] \in ServiceType
      BY DEF ServiceType
<1>4. QED  BY <1>1, <1>2, <1>3

LEMMA IdleType == Idle \in JobType
BY DEF Idle, JobType, Places

LEMMA PlaceNames ==
    /\ {"idle", "bakBin", "download", "cleanBin", "verify", "installed", "refused"} \subseteq Places
    /\ {"rbStop", "rbBin", "rbLib", "rbStart", "rbGivesUp", "bin"} \subseteq Places
BY DEF Places

\* What a service runs from; and the variables that no start changes.
LEMMA RanIsBoolean == ASSUME NEW ran \in MayRun  PROVE ran \in BOOLEAN
<1>1. CASE /\ files.bin \in Versions /\ files.lib \in Versions
           /\ files.bin = files.lib
  <2>1. MayRun = {files.bin \in good}  BY <1>1, Zenon DEF MayRun
  <2>2. ran = (files.bin \in good)  BY <2>1, Zenon
  <2>3. QED  BY <2>2
<1>2. CASE ~(/\ files.bin \in Versions /\ files.lib \in Versions
             /\ files.bin = files.lib)
      BY <1>2 DEF MayRun
<1>3. QED  BY <1>1, <1>2

\* A start gives every service it starts a record of its type, with nothing loaded.
LEMMA StartTypes ==
    ASSUME BinTypeOK, NEW as \in SUBSET Agents, Starts(as)
    PROVE  /\ svc' \in [Agents -> ServiceType] /\ risk' \in BOOLEAN
           /\ \A a \in as : svc'[a].st \in {"up", "failing"} /\ svc'[a].copy = NoState
           /\ \A a \in Agents \ as : svc'[a] = svc[a]
<1>1. PICK ran \in MayRun : svc' = [a \in Agents |-> IF a \in as THEN StartedFrom(ran) ELSE svc[a]]
                            /\ risk' = (risk \/ (as # {} /\ ran /\ files.bin # files.lib))
      BY DEF Starts
<1>2. ran \in BOOLEAN  BY <1>1, RanIsBoolean
<1>3. files.lib \in Content /\ svc \in [Agents -> ServiceType] /\ risk \in BOOLEAN
      BY BinTypes DEF FilesType
<1>4. StartedFrom(ran) \in ServiceType  BY <1>2, <1>3 DEF StartedFrom, ServiceType
<1>5. StartedFrom(ran).st \in {"up", "failing"} /\ StartedFrom(ran).copy = NoState
      BY DEF StartedFrom
<1>6. QED  BY <1>1, <1>2, <1>3, <1>4, <1>5

LEMMA JobTypes ==
    ASSUME NEW jobs \in [Writers -> JobType], NEW as \in SUBSET Agents
    PROVE  /\ Idle \in JobType
           /\ KilledWith(as, jobs) \in [Writers -> JobType]
           /\ \A w \in Writers : KilledWith(as, jobs)[w] \in {jobs[w], Idle}
BY DEF KilledWith, Idle, JobType, Places

LEMMA JobMoves ==
    ASSUME BinTypeOK, NEW w \in Writers
    PROVE  /\ \A p \in Places : [job EXCEPT ![w].at = p] \in [Writers -> JobType]
           /\ [job EXCEPT ![w] = Idle] \in [Writers -> JobType]
<1>1. job \in [Writers -> JobType]  BY BinTypes
<1>2. \A p \in Places : [job[w] EXCEPT !.at = p] \in JobType  BY <1>1 DEF JobType
<1>3. QED  BY <1>1, <1>2, IdleType

\* A step that is cut short damages the file that it writes, and no other.
LEMMA CutFrame ==
    ASSUME BinTypeOK, NEW w \in Writers, files' \in CutShort(w)
    PROVE  /\ files' \in FilesType
           /\ files'.bin # files.bin => At(w, "rbBin") /\ files'.bin # Missing
           /\ files'.lib # files.lib => job[w].at \in {"dropLib", "lib", "rbLib", "rbGivesUp"}
           /\ files'.bakBin # files.bakBin => At(w, "bakBin")
           /\ files'.bakLib # files.bakLib => job[w].at \in {"bakLib", "cleanLib"}
<1>0. files \in FilesType  BY BinTypes
<1>1. CASE files' = files  BY <1>0, <1>1
<1>2. CASE At(w, "bakBin") /\ \E c \in {Missing, Torn} : files' = [files EXCEPT !.bakBin = c]
      BY <1>0, <1>2, Numbers DEF FilesType
<1>3. CASE job[w].at \in {"bakLib", "cleanLib"} /\ \E c \in {Missing, Torn} : files' = [files EXCEPT !.bakLib = c]
      BY <1>0, <1>3, Numbers DEF FilesType
<1>4. CASE job[w].at \in {"dropLib", "lib", "rbLib", "rbGivesUp"} /\ \E c \in {Missing, Torn} : files' = [files EXCEPT !.lib = c]
      BY <1>0, <1>4, Numbers DEF FilesType
<1>5. CASE At(w, "rbBin") /\ files' = [files EXCEPT !.bin = Torn]
      BY <1>0, <1>5, Numbers DEF FilesType
<1>6. QED  BY <1>1, <1>2, <1>3, <1>4, <1>5 DEF CutShort, At

-----------------------------------------------------------------------------
LEMMA WriterTypes ==
    ASSUME BinTypeOK, NEW w \in Writers, WriterStep(w)
    PROVE  BinTypeOK'
<1> USE DEF At, Goes, Leaves, Writes
<1>0. files \in FilesType /\ job \in [Writers -> JobType] /\ risk \in BOOLEAN
      BY BinTypes
<1>p. \A p \in Places : [job EXCEPT ![w].at = p] \in [Writers -> JobType]  BY JobMoves
<1>i. [job EXCEPT ![w] = Idle] \in [Writers -> JobType]  BY JobMoves
<1>v. job[w].version \in Content  BY <1>0, Numbers DEF JobType
<1>1. files' \in FilesType
  <2>1. CASE BackupBinary(w) \/ BackupLibraries(w) \/ RemoveBinaryBackup(w) \/ RemoveLibrariesBackup(w)
        BY <1>0, <2>1, Numbers DEF BackupBinary, BackupLibraries, RemoveBinaryBackup,
           RemoveLibrariesBackup, FilesType
  <2>2. CASE ReplaceBinary(w) \/ DropLibraries(w) \/ CopyLibraries(w)
        BY <1>0, <1>v, <2>2, Numbers DEF ReplaceBinary, DropLibraries, CopyLibraries, FilesType
  <2>3. QED  BY <2>1, <2>2 DEF WriterStep
<1>2. job' \in [Writers -> JobType]
      BY <1>p, <1>i DEF WriterStep, BackupBinary, BackupLibraries, ReplaceBinary,
         DropLibraries, CopyLibraries, RemoveBinaryBackup, RemoveLibrariesBackup, Places
<1>3. risk' \in BOOLEAN
      BY <1>0 DEF WriterStep, BackupBinary, BackupLibraries, ReplaceBinary, Unsound,
         DropLibraries, CopyLibraries, RemoveBinaryBackup, RemoveLibrariesBackup
<1>4. svc' \in [Agents -> ServiceType]
  <2>1. svc \in [Agents -> ServiceType]  BY BinTypes
  <2>2. CASE ReplaceBinary(w)
    <3>1. \A a \in Agents : [svc[a] EXCEPT !.current = FALSE] \in ServiceType
          BY <2>1, ServiceUpdates
    <3>2. QED  BY <2>2, <3>1 DEF ReplaceBinary
  <2>3. CASE svc' = svc  BY <2>1, <2>3
  <2>4. QED  BY <2>2, <2>3 DEF WriterStep, BackupBinary, BackupLibraries,
             DropLibraries, CopyLibraries, RemoveBinaryBackup, RemoveLibrariesBackup
<1>5. UNCHANGED <<cache, good, desired, regVersion, faults>>
      BY DEF WriterStep, BackupBinary, BackupLibraries, ReplaceBinary,
         DropLibraries, CopyLibraries, RemoveBinaryBackup, RemoveLibrariesBackup
<1>6. QED  BY <1>1, <1>2, <1>3, <1>4, <1>5, BinTypes, BinTypesAfter

LEMMA UpgradeTypes ==
    ASSUME BinTypeOK, NEW u \in Upgraders, UpgradeStep(u)
    PROVE  BinTypeOK'
<1> USE DEF At, Goes, Leaves, Writes, NoStart
<1>0. /\ files \in FilesType /\ job \in [Writers -> JobType] /\ risk \in BOOLEAN
      /\ svc \in [Agents -> ServiceType] /\ cache \in [Versions -> {"none", "part", "whole"}]
      /\ u \in Writers /\ Packaged \in Agents
      BY BinTypes DEF Writers
<1>p. \A p \in Places : [job EXCEPT ![u].at = p] \in [Writers -> JobType]  BY <1>0, JobMoves
<1>i. [job EXCEPT ![u] = Idle] \in [Writers -> JobType]  BY <1>0, JobMoves
<1>k. \A p \in Places : KilledWith({Packaged}, [job EXCEPT ![u].at = p]) \in [Writers -> JobType]
      BY <1>0, <1>p, JobTypes
<1>1. files' \in FilesType
      BY <1>0, Numbers DEF UpgradeStep, Fetch, Download, Restart, Verify, StopFailed,
         RestoreBinary, RestoreLibraries, StartRestored, FilesType
<1>2. job' \in [Writers -> JobType]
  <2>0. "bakBin" \in Places /\ "download" \in Places  BY PlaceNames
  <2>1. CASE Fetch(u)  BY <1>p, <1>i, <2>0, <2>1 DEF Fetch
  <2>2. CASE Download(u)  BY <1>p, <2>2 DEF Download, Places
  <2>3. CASE Restart(u)
    <3>1. [job EXCEPT ![u].at = "cleanBin"] \in [Writers -> JobType]  BY <1>p, PlaceNames
    <3>2. KilledWith({Packaged}, [job EXCEPT ![u].at = "verify"]) \in [Writers -> JobType]
          BY <1>k, PlaceNames
    <3>3. QED  BY <2>3, <3>1, <3>2 DEF Restart
  <2>4. CASE Verify(u)  BY <1>p, <2>4 DEF Verify, Places
  <2>5. CASE StopFailed(u)  BY <1>k, <2>5 DEF StopFailed, Places
  <2>6. CASE RestoreBinary(u)  BY <1>p, <2>6 DEF RestoreBinary, Places
  <2>7. CASE RestoreLibraries(u)  BY <1>p, <1>i, <2>7 DEF RestoreLibraries, Places
  <2>8. CASE StartRestored(u)  BY <1>i, <2>8 DEF StartRestored
  <2>9. QED  BY <2>1, <2>2, <2>3, <2>4, <2>5, <2>6, <2>7, <2>8 DEF UpgradeStep
<1>3. svc' \in [Agents -> ServiceType] /\ risk' \in BOOLEAN
  <2>1. CASE Starts({Packaged})  BY <1>0, <2>1, StartTypes
  <2>2. CASE UNCHANGED <<svc, risk>>  BY <1>0, <2>2
  <2>3. CASE StopFailed(u)
    <3>1. [svc[Packaged] EXCEPT !.st = "stopped", !.current = FALSE, !.copy = NoState] \in ServiceType
          BY <1>0, ServiceUpdates
    <3>2. QED  BY <1>0, <2>3, <3>1 DEF StopFailed
  <2>4. QED  BY <2>1, <2>2, <2>3 DEF UpgradeStep, Fetch, Download, Restart, Verify,
             RestoreBinary, RestoreLibraries, StartRestored
<1>4. cache' \in [Versions -> {"none", "part", "whole"}]
      BY <1>0 DEF UpgradeStep, Fetch, Download, Restart, Verify, StopFailed,
         RestoreBinary, RestoreLibraries, StartRestored
<1>5. UNCHANGED <<good, desired, regVersion, faults>>
      BY DEF UpgradeStep, Fetch, Download, Restart, Verify, StopFailed,
         RestoreBinary, RestoreLibraries, StartRestored
<1>6. QED  BY <1>1, <1>2, <1>3, <1>4, <1>5, BinTypes, BinTypesAfter

\* What may go wrong in a replacement, and what else happens on the host.
LEMMA OtherTypes ==
    ASSUME BinTypeOK
    PROVE  /\ \A u \in Upgraders : RestartFails(u) \/ DownloadFails(u) \/ RollbackStepFails(u) => BinTypeOK'
           /\ \A w \in Writers : Killed(w) => BinTypeOK'
           /\ InstallStep => BinTypeOK'
           /\ \A a \in Agents, u \in Upgraders : Ask(a, u) \/ AskAttached(a, u) => BinTypeOK'
           /\ \A a \in Agents : AskLost(a) \/ Retry(a) \/ AgentRestarts(a) => BinTypeOK'
           /\ \A v \in Versions : Desires(v) => BinTypeOK'
<1> USE DEF At, Goes, Leaves, NoStart
<1>0. /\ files \in FilesType /\ job \in [Writers -> JobType] /\ risk \in BOOLEAN
      /\ svc \in [Agents -> ServiceType] /\ cache \in [Versions -> {"none", "part", "whole"}]
      /\ desired \in Versions /\ good \in SUBSET Versions
      /\ regVersion \in Versions \cup {Missing} /\ faults \in 0 .. MaxFaults
      BY BinTypes
<1>f. Fault => faults' \in 0 .. MaxFaults  BY <1>0 DEF Fault
<1>p. ASSUME NEW w \in Writers
      PROVE  /\ \A p \in Places : [job EXCEPT ![w].at = p] \in [Writers -> JobType]
             /\ [job EXCEPT ![w] = Idle] \in [Writers -> JobType]
      BY JobMoves
<1>k. ASSUME NEW w \in Writers, NEW as \in SUBSET Agents
      PROVE  \A p \in Places : KilledWith(as, [job EXCEPT ![w].at = p]) \in [Writers -> JobType]
      BY <1>0, <1>p, JobTypes
<1>w. Upgraders \subseteq Writers /\ Installer \in Writers /\ {Packaged} \in SUBSET Agents
      BY DEF Writers
<1>s. \A as \in SUBSET Agents : Starts(as) => svc' \in [Agents -> ServiceType] /\ risk' \in BOOLEAN
      BY StartTypes
<1>1. ASSUME NEW u \in Upgraders, RestartFails(u)  PROVE BinTypeOK'
  <2>0. "rbStop" \in Places  BY PlaceNames
  <2>p. [job EXCEPT ![u].at = "rbStop"] \in [Writers -> JobType]  BY <1>p, <1>w, <2>0
  <2>k. KilledWith({Packaged}, [job EXCEPT ![u].at = "rbStop"]) \in [Writers -> JobType]
        BY <1>w, <2>p, JobTypes
  <2>3. job' \in [Writers -> JobType]  BY <1>1, <2>p, <2>k DEF RestartFails
  <2>4. svc' \in [Agents -> ServiceType] /\ risk' \in BOOLEAN
        BY <1>0, <1>s, <1>w, <1>1 DEF RestartFails
  <2>5. QED  BY <1>0, <1>f, <1>1, <2>3, <2>4, BinTypesAfter DEF RestartFails
<1>2. ASSUME NEW u \in Upgraders, DownloadFails(u)  PROVE BinTypeOK'
  <2>1. job' \in [Writers -> JobType]  BY <1>p, <1>w, <1>2 DEF DownloadFails, Places
  <2>2. QED  BY <1>0, <1>f, <1>2, <2>1, BinTypesAfter DEF DownloadFails
<1>3. ASSUME NEW u \in Upgraders, RollbackStepFails(u)  PROVE BinTypeOK'
  <2>0. "rbBin" \in Places /\ "rbGivesUp" \in Places /\ "rbStart" \in Places  BY PlaceNames
  <2>p. /\ \A p \in Places : [job EXCEPT ![u].at = p] \in [Writers -> JobType]
        /\ [job EXCEPT ![u] = Idle] \in [Writers -> JobType]
        BY <1>p, <1>w
  <2>1. job' \in [Writers -> JobType]  BY <1>3, <2>0, <2>p DEF RollbackStepFails
  <2>2. files' \in FilesType  BY <1>0, <1>w, <1>3, CutFrame DEF RollbackStepFails
  <2>3. QED  BY <1>0, <1>f, <1>3, <2>1, <2>2, BinTypesAfter DEF RollbackStepFails
<1>4. ASSUME NEW w \in Writers, Killed(w)  PROVE BinTypeOK'
  <2>0. "refused" \in Places  BY PlaceNames
  <2>p. /\ \A p \in Places : [job EXCEPT ![w].at = p] \in [Writers -> JobType]
        /\ [job EXCEPT ![w] = Idle] \in [Writers -> JobType]
        BY <1>p
  <2>1. job' \in [Writers -> JobType]  BY <1>4, <2>0, <2>p DEF Killed
  <2>2. files' \in FilesType  BY <1>4, CutFrame DEF Killed
  <2>3. risk' \in BOOLEAN  BY <1>0, <1>4 DEF Killed
  <2>4. QED  BY <1>0, <1>f, <1>4, <2>1, <2>2, <2>3, BinTypesAfter DEF Killed
<1>5. ASSUME InstallStep  PROVE BinTypeOK'
  <2>1. CASE InstallDecides
    <3>0. {"bin", "installed", "refused", "bakBin"} \subseteq Places  BY PlaceNames
    <3>p. \A p \in Places : [job EXCEPT ![Installer].at = p] \in [Writers -> JobType]
          BY <1>p, <1>w
    <3>1. job' \in [Writers -> JobType]  BY <2>1, <3>0, <3>p DEF InstallDecides
    <3>2. QED  BY <1>0, <2>1, <3>1, BinTypesAfter DEF InstallDecides
  <2>2. CASE RestartAll
    <3> DEFINE active == {a \in Agents : svc[a].st = "up"}
    <3>1. Starts(active) /\ job' = KilledWith(active, [job EXCEPT ![Installer].at = "cleanBin"])
          BY <2>2 DEF RestartAll
    <3>2. active \in SUBSET Agents /\ "cleanBin" \in Places  BY DEF Places
    <3>3. job' \in [Writers -> JobType]  BY <1>k, <1>w, <3>1, <3>2
    <3>4. svc' \in [Agents -> ServiceType] /\ risk' \in BOOLEAN  BY <1>s, <3>1, <3>2
    <3>5. QED  BY <1>0, <2>2, <3>3, <3>4, BinTypesAfter DEF RestartAll
  <2>3. QED  BY <1>5, <2>1, <2>2 DEF InstallStep
<1>6. ASSUME NEW a \in Agents, NEW u \in Upgraders, Ask(a, u) \/ AskAttached(a, u)  PROVE BinTypeOK'
  <2>1. /\ svc' = [svc EXCEPT ![a].asked = TRUE]
        /\ \E n \in Agents \cup {NoAgent} :
              job' = [job EXCEPT ![u] = [at |-> "fetch", version |-> desired, within |-> n]]
        BY <1>6 DEF Ask, AskAttached, Asks
  <2>0. [svc[a] EXCEPT !.asked = TRUE] \in ServiceType  BY <1>0, ServiceUpdates
  <2>2. svc' \in [Agents -> ServiceType]  BY <1>0, <2>0, <2>1
  <2>3. job' \in [Writers -> JobType]  BY <1>0, <1>w, <2>1 DEF JobType, Places
  <2>4. faults' \in 0 .. MaxFaults  BY <1>0, <1>f, <1>6 DEF Ask, AskAttached
  <2>5. UNCHANGED <<files, cache, good, desired, regVersion, risk>>  BY <1>6 DEF Ask, AskAttached, Asks
  <2>6. QED  BY <1>0, <2>2, <2>3, <2>4, <2>5, BinTypesAfter
<1>7. ASSUME NEW a \in Agents, AskLost(a)  PROVE BinTypeOK'
  <2>0. [svc[a] EXCEPT !.asked = TRUE] \in ServiceType  BY <1>0, ServiceUpdates
  <2>1. svc' \in [Agents -> ServiceType]  BY <1>0, <1>7, <2>0 DEF AskLost
  <2>2. QED  BY <1>0, <1>f, <1>7, <2>1, BinTypesAfter DEF AskLost
<1>8. ASSUME NEW a \in Agents, Retry(a) \/ AgentRestarts(a)  PROVE BinTypeOK'
  <2>1. Starts({a}) /\ {a} \in SUBSET Agents  BY <1>8 DEF Retry, AgentRestarts
  <2>2. job' = job \/ job' = KilledWith({a}, job)  BY <1>8 DEF Retry, AgentRestarts
  <2>3. job' \in [Writers -> JobType]  BY <1>0, <2>1, <2>2, JobTypes
  <2>4. faults' \in 0 .. MaxFaults  BY <1>0, <1>f, <1>8 DEF Retry, AgentRestarts
  <2>5. UNCHANGED <<files, cache, good, desired, regVersion>>  BY <1>8 DEF Retry, AgentRestarts
  <2>6. QED  BY <1>0, <1>s, <2>1, <2>3, <2>4, <2>5, BinTypesAfter
<1>9. ASSUME NEW v \in Versions, Desires(v)  PROVE BinTypeOK'
      BY <1>0, <1>f, <1>9, BinTypesAfter DEF Desires
<1>10. QED  BY <1>1, <1>2, <1>3, <1>4, <1>5, <1>6, <1>7, <1>8, <1>9

LEMMA BinNextTypes == ASSUME BinTypeOK, BinNext  PROVE BinTypeOK'
BY WriterTypes, UpgradeTypes, OtherTypes DEF BinNext

-----------------------------------------------------------------------------
(* The installer and the state files *)

LEMMA WithIdType ==
    ASSUME HostTypeOK, NEW s \in States \cup {NoState}
    PROVE  WithId(s) \in States
BY DEF WithId, States, Ids, Connections, HostTypeOK

LEMMA HostTypesAfter ==
    ASSUME BinTypeOK', state' \in [Agents -> States \cup {NoState}], registered' \in SUBSET Agents,
           place' \in InstallPlaces, role' \in Agents, saved' \in States \cup {NoState},
           hadPackaged' \in BOOLEAN, spoilt' \in BOOLEAN
    PROVE  HostTypeOK'
BY DEF HostTypeOK

\* A service that is enabled is started, or left as it is.
LEMMA EnableTypes ==
    ASSUME BinTypeOK, NEW a \in Agents, EnableNow(a)
    PROVE  svc' \in [Agents -> ServiceType] /\ risk' \in BOOLEAN
<1>1. svc \in [Agents -> ServiceType] /\ risk \in BOOLEAN  BY BinTypes
<1>2. CASE NoStart  BY <1>1, <1>2 DEF NoStart
<1>3. CASE Starts({a})  BY <1>3, StartTypes
<1>4. QED  BY <1>2, <1>3 DEF EnableNow

LEMMA InstallerTypes ==
    ASSUME HostTypeOK, InstallerStep
    PROVE  HostTypeOK'
<1>0. /\ BinTypeOK /\ state \in [Agents -> States \cup {NoState}] /\ registered \in SUBSET Agents
      /\ place \in InstallPlaces /\ role \in Agents /\ saved \in States \cup {NoState}
      /\ hadPackaged \in BOOLEAN /\ spoilt \in BOOLEAN
      BY DEF HostTypeOK
<1>b. /\ files \in FilesType /\ cache \in [Versions -> {"none", "part", "whole"}]
      /\ good \in SUBSET Versions /\ svc \in [Agents -> ServiceType] /\ desired \in Versions
      /\ job \in [Writers -> JobType] /\ regVersion \in Versions \cup {Missing}
      /\ faults \in 0 .. MaxFaults /\ risk \in BOOLEAN
      BY <1>0, BinTypes
<1>s. UNCHANGED binVars => BinTypeOK'
  <2> SUFFICES ASSUME UNCHANGED binVars PROVE BinTypeOK'  OBVIOUS
  <2>1. QED  BY <1>b, BinTypesAfter DEF binVars
<1>v. job[Installer].version \in Versions \cup {Missing}
      BY <1>b DEF JobType, Writers
<1>r. \A r \in Agents : Records(r) => /\ registered' \in SUBSET Agents
                                      /\ regVersion' \in Versions \cup {Missing}
      BY <1>0, <1>v DEF Records
<1>i. Instance \in Agents /\ Packaged \in Agents  OBVIOUS
<1>1. CASE Refused
      BY <1>0, <1>1, <1>s, HostTypesAfter DEF Refused, InstallPlaces
<1>2. CASE Snapshot
  <2>1. saved' \in States \cup {NoState}  BY <1>0, <1>i, <1>2 DEF Snapshot
  <2>2. QED  BY <1>0, <1>2, <1>s, <2>1, HostTypesAfter DEF Snapshot, InstallPlaces
<1>3. CASE EnrollBegins \/ Enroll
  <2>1. WithId(state[Packaged]) \in States  BY <1>0, <1>i, WithIdType
  <2>2. \A c \in {"mixed", ConnectionOf(role)} : [WithId(state[Packaged]) EXCEPT !.conn = c] \in States
        BY <2>1 DEF States, ConnectionOf, Connections
  <2>3. state' \in [Agents -> States \cup {NoState}]  BY <1>0, <1>3, <2>2 DEF EnrollBegins, Enroll
  <2>4. QED  BY <1>0, <1>3, <1>s, <2>3, HostTypesAfter DEF EnrollBegins, Enroll, InstallPlaces
<1>4. CASE Setup
  <2>1. svc' \in [Agents -> ServiceType] /\ risk' \in BOOLEAN
        BY <1>0, <1>i, <1>4, EnableTypes DEF Setup
  <2>2. registered' \in SUBSET Agents /\ regVersion' \in Versions \cup {Missing}
        BY <1>0, <1>b, <1>r, <1>i, <1>4 DEF Setup
  <2>3. BinTypeOK'  BY <1>b, <1>4, <2>1, <2>2, BinTypesAfter DEF Setup
  <2>4. QED  BY <1>0, <1>4, <2>2, <2>3, HostTypesAfter DEF Setup, InstallPlaces
<1>5. CASE Configure
  <2>1. BinTypeOK'  BY <1>b, <1>r, <1>i, <1>5, BinTypesAfter DEF Configure
  <2>2. QED  BY <1>0, <1>r, <1>i, <1>5, <2>1, HostTypesAfter DEF Configure, InstallPlaces
<1>6. CASE Relocate
      BY <1>0, <1>i, <1>6, <1>s, HostTypesAfter DEF Relocate, InstallPlaces
<1>7. CASE Restore
  <2>1. state' \in [Agents -> States \cup {NoState}]  BY <1>0, <1>7 DEF Restore
  <2>2. QED  BY <1>0, <1>7, <1>s, <2>1, HostTypesAfter DEF Restore, Checks, InstallPlaces
<1>8. CASE Verified
      BY <1>0, <1>8, <1>s, HostTypesAfter DEF Verified, InstallPlaces
<1>9. CASE Enable
  <2>1. svc' \in [Agents -> ServiceType] /\ risk' \in BOOLEAN
        BY <1>0, <1>9, EnableTypes DEF Enable
  <2>2. BinTypeOK'  BY <1>b, <1>9, <2>1, BinTypesAfter DEF Enable
  <2>3. QED  BY <1>0, <1>9, <2>2, HostTypesAfter DEF Enable, InstallPlaces
<1>10. CASE Register
  <2>1. BinTypeOK'  BY <1>0, <1>b, <1>r, <1>10, BinTypesAfter DEF Register
  <2>2. QED  BY <1>0, <1>r, <1>10, <2>1, HostTypesAfter DEF Register, InstallPlaces
<1>11. QED  BY <1>1, <1>2, <1>3, <1>4, <1>5, <1>6, <1>7, <1>8, <1>9, <1>10 DEF InstallerStep

LEMMA HostTypesInit == HostInit => HostTypeOK
<1> SUFFICES ASSUME HostInit PROVE HostTypeOK  OBVIOUS
<1>1. /\ files \in FilesType /\ regVersion \in Versions \cup {Missing} /\ risk \in BOOLEAN
  <2>1. 1 \in Versions /\ 1 \in Content /\ Missing \in Content  BY Numbers DEF Versions
  <2>2. \/ /\ files = [bin |-> 1, lib |-> 1, bakBin |-> Missing, bakLib |-> Missing]
           /\ regVersion \in {1, Missing} /\ risk = FALSE
        \/ /\ files = [bin |-> Missing, lib |-> Missing, bakBin |-> Missing, bakLib |-> Missing]
           /\ regVersion = Missing /\ risk = TRUE
        BY DEF HostInit, BinInit
  <2>3. files \in FilesType  BY <2>1, <2>2 DEF FilesType
  <2>4. QED  BY <2>1, <2>2, <2>3
<1>2. Idle \in JobType  BY DEF Idle, JobType, Places
<1>3. Service("up", 1) \in ServiceType /\ Service("absent", Missing) \in ServiceType
      BY Numbers DEF Service, ServiceType, Versions
<1>4. svc \in [Agents -> ServiceType]
  <2>1. \/ \E units \in SUBSET Agents :
              svc = [a \in Agents |-> IF a \in units THEN Service("up", 1) ELSE Service("absent", Missing)]
        \/ svc = [a \in Agents |-> Service("absent", Missing)]
        BY DEF HostInit, BinInit
  <2>2. QED  BY <1>3, <2>1
<1>5. job \in [Writers -> JobType] /\ cache \in [Versions -> {"none", "part", "whole"}]
      BY <1>2 DEF HostInit, BinInit
<1>6. good \in SUBSET Versions /\ desired \in Versions /\ faults \in 0 .. MaxFaults
      BY DEF HostInit, BinInit
<1>7. BinTypeOK  BY <1>1, <1>4, <1>5, <1>6, BinTypes
<1>8. [id |-> 1, conn |-> "packaged"] \in States  BY DEF States, Ids, Connections
<1>9. state \in [Agents -> States \cup {NoState}]  BY <1>8 DEF HostInit
<1>10. QED  BY <1>7, <1>9 DEF HostInit, HostTypeOK, InstallPlaces

LEMMA HostNextTypes == ASSUME HostTypeOK, [HostNext]_allVars  PROVE HostTypeOK'
<1>0. /\ BinTypeOK /\ state \in [Agents -> States \cup {NoState}] /\ registered \in SUBSET Agents
      /\ place \in InstallPlaces /\ role \in Agents /\ saved \in States \cup {NoState}
      /\ hadPackaged \in BOOLEAN /\ spoilt \in BOOLEAN
      BY DEF HostTypeOK
<1>b. /\ files \in FilesType /\ cache \in [Versions -> {"none", "part", "whole"}]
      /\ good \in SUBSET Versions /\ svc \in [Agents -> ServiceType] /\ desired \in Versions
      /\ job \in [Writers -> JobType] /\ regVersion \in Versions \cup {Missing}
      /\ faults \in 0 .. MaxFaults /\ risk \in BOOLEAN
      BY <1>0, BinTypes
<1>f. Fault => faults' \in 0 .. MaxFaults  BY <1>b DEF Fault
<1>i. Instance \in Agents /\ Packaged \in Agents  OBVIOUS
<1>1. CASE BinNext /\ UNCHANGED hostVars
      BY <1>0, <1>1, BinNextTypes, HostTypesAfter DEF hostVars
<1>2. ASSUME NEW r \in Agents, NEW v \in Versions, Begin(r, v)  PROVE HostTypeOK'
  <2>1. WithId(state[Packaged]) \in States  BY <1>0, <1>i, WithIdType
  <2>2. state' \in [Agents -> States \cup {NoState}]  BY <1>0, <1>2, <2>1 DEF Begin
  <2>3. [at |-> "decide", version |-> v, within |-> NoAgent] \in JobType  BY DEF JobType, Places
  <2>4. job' \in [Writers -> JobType]  BY <1>b, <1>2, <2>3 DEF Begin, InstallBegins
  <2>5. BinTypeOK'  BY <1>b, <1>2, <2>4, BinTypesAfter DEF Begin, InstallBegins
  <2>6. QED  BY <1>0, <1>2, <2>2, <2>5, HostTypesAfter DEF Begin, InstallPlaces
<1>3. CASE InstallerStep  BY <1>3, InstallerTypes
<1>4. CASE SnapshotFails \/ SetupPends \/ RelocationFails \/ InstallFails
  <2>1. BinTypeOK'
        BY <1>b, <1>f, <1>4, BinTypesAfter DEF SnapshotFails, SetupPends, RelocationFails, InstallFails
  <2>2. QED  BY <1>0, <1>4, <2>1, HostTypesAfter
             DEF SnapshotFails, SetupPends, RelocationFails, InstallFails, Checks, InstallPlaces
<1>5. ASSUME NEW a \in Agents, UpdateLoads(a)  PROVE HostTypeOK'
  <2>1. WithId(state[a]) \in States  BY <1>0, WithIdType
  <2>2. svc' \in [Agents -> ServiceType]  BY <1>b, <1>5, <2>1 DEF UpdateLoads, ServiceType
  <2>3. BinTypeOK'  BY <1>b, <1>5, <2>2, BinTypesAfter DEF UpdateLoads
  <2>4. QED  BY <1>0, <1>5, <2>3, HostTypesAfter DEF UpdateLoads, hostVars
<1>6. ASSUME NEW a \in Agents, UpdateReplaces(a)  PROVE HostTypeOK'
  <2>1. svc[a].copy \in States \cup {NoState}  BY <1>b DEF ServiceType
  <2>2. svc' \in [Agents -> ServiceType]  BY <1>b, <1>6 DEF UpdateReplaces, ServiceType
  <2>3. BinTypeOK'  BY <1>b, <1>6, <2>2, BinTypesAfter DEF UpdateReplaces
  <2>4. state' \in [Agents -> States \cup {NoState}] /\ spoilt' \in BOOLEAN
        BY <1>0, <1>6, <2>1 DEF UpdateReplaces
  <2>5. QED  BY <1>0, <1>6, <2>3, <2>4, HostTypesAfter DEF UpdateReplaces
<1>7. CASE UNCHANGED allVars
  <2>1. BinTypeOK'  BY <1>b, <1>7, BinTypesAfter DEF allVars, binVars
  <2>2. QED  BY <1>0, <1>7, <2>1, HostTypesAfter DEF allVars, hostVars
<1>8. QED  BY <1>1, <1>2, <1>3, <1>4, <1>5, <1>6, <1>7 DEF HostNext

(* HostInstall's type invariant, for any number of upgrades, versions and
   faults: no process leaves a file, a service or a state file outside the
   values that the other processes expect (installer.py 3936-4232). *)
THEOREM HostTypes == HostSpec => []HostTypeOK
<1>1. HostInit => HostTypeOK  BY HostTypesInit
<1>2. HostTypeOK /\ [HostNext]_allVars => HostTypeOK'  BY HostNextTypes
<1>3. QED  BY <1>1, <1>2, PTL DEF HostSpec

-----------------------------------------------------------------------------
(* What a replacement relies on *)

GoodInstalled == \E v \in good : Installed(v)
GoodBackup    == \E v \in good : BackedUp(v)

(* From the replaced binary to the last look at the service, only the backup is
   known to be whole. *)
Covered == {"bin", "dropLib", "lib", "restart", "verify", "rbStop", "rbBin", "rbLib",
            "rbStart", "rbGivesUp", "restartAll"}

Sound(w) ==
    /\ At(w, "bakLib") => \E v \in good : Installed(v) /\ files.bakBin = v
    /\ job[w].at \in Covered => GoodBackup
    /\ (At(w, "verify") /\ svc[Packaged].st = "up") => GoodInstalled
    /\ (At(w, "cleanBin") /\ w # Installer /\ svc[Packaged].st # "absent") => GoodInstalled
    /\ At(w, "cleanLib") => GoodInstalled

Solo(w) == \A x \in Writers \ {w} : ~Replacing(x)

RecInv ==
    ~risk => /\ files.bin # Missing
             /\ GoodInstalled \/ GoodBackup
             /\ \A w \in Writers : Replacing(w) => Solo(w) /\ Sound(w)

JobsInv == \A w \in Writers : job[w].at # "idle" => job[w].version \in Versions

\* A step of w, with no one beside it; others' processes may end with a service.
LEMMA OwnStep ==
    ASSUME NEW w \in Writers, Solo(w), good' = good,
           \A x \in Writers \ {w} : job'[x].at \in {job[x].at, "idle"},
           files'.bin # Missing, GoodInstalled' \/ GoodBackup',
           Replacing(w)' => Sound(w)'
    PROVE  RecInv'
<1>1. \A x \in Writers \ {w} : ~Replacing(x)'  BY DEF Solo, Replacing
<1>2. Replacing(w)' => Solo(w)'  BY <1>1 DEF Solo
<1>3. QED  BY <1>1, <1>2 DEF RecInv

\* A step beside the replacements: of a service, or of a process not yet replacing.
LEMMA Beside ==
    ASSUME RecInv, ~risk, UNCHANGED <<files, good>>,
           \A x \in Writers : job'[x].at = job[x].at \/ ~Replacing(x)',
           \/ svc'[Packaged].st = svc[Packaged].st
           \/ /\ svc'[Packaged].st = "up" => GoodInstalled
              /\ svc[Packaged].st = "absent" => \A u \in Upgraders : job[u].at = "idle"
    PROVE  RecInv'
<1>1. /\ files.bin # Missing
      /\ GoodInstalled \/ GoodBackup
      /\ \A w \in Writers : Replacing(w) => Solo(w) /\ Sound(w)
      BY DEF RecInv
<1>2. /\ GoodInstalled' <=> GoodInstalled
      /\ GoodBackup' <=> GoodBackup
      /\ (\E v \in good : Installed(v) /\ files.bakBin = v)'
         <=> (\E v \in good : Installed(v) /\ files.bakBin = v)
      BY DEF GoodInstalled, GoodBackup, Installed, BackedUp
<1>3. ASSUME NEW w \in Writers, Replacing(w)'  PROVE Solo(w)' /\ Sound(w)'
  <2>1. job'[w].at = job[w].at /\ Replacing(w)  BY <1>3 DEF Replacing
  <2>2. Solo(w) /\ Sound(w)  BY <1>1, <2>1
  <2>3. Solo(w)'  BY <2>2 DEF Solo, Replacing
  <2>4. At(w, "cleanBin") /\ w # Installer => w \in Upgraders /\ job[w].at # "idle"
        BY DEF At, Writers
  <2>5. Sound(w)'  BY <1>2, <2>1, <2>2, <2>4 DEF Sound, At
  <2>6. QED  BY <2>3, <2>5
<1>4. QED  BY <1>1, <1>2, <1>3 DEF RecInv

\* A service that comes up on whole files shows that the program works.
LEMMA StartShows ==
    ASSUME NEW as \in SUBSET Agents, NEW a \in as, Starts(as), ~risk', svc'[a].st = "up"
    PROVE  GoodInstalled
<1>1. PICK ran \in MayRun : svc' = [b \in Agents |-> IF b \in as THEN StartedFrom(ran) ELSE svc[b]]
                            /\ risk' = (risk \/ (as # {} /\ ran /\ files.bin # files.lib))
      BY DEF Starts
<1>2. svc'[a] = StartedFrom(ran)  BY <1>1
<1>3. ran  BY <1>2 DEF StartedFrom
<1>4. files.bin = files.lib  BY <1>1, <1>3
<1>5. files.bin \in Versions /\ files.bin \in good
  <2>1. CASE files.bin \in Versions
    <3>1. MayRun = {files.bin \in good}  BY <1>4, <2>1, Zenon DEF MayRun
    <3>2. QED  BY <1>1, <1>3, <2>1, <3>1
  <2>2. CASE files.bin \notin Versions
    <3>1. MayRun = {FALSE}  BY <2>2, Zenon DEF MayRun
    <3>2. QED  BY <1>3, <3>1
  <2>3. QED  BY <2>1, <2>2
<1>6. QED  BY <1>4, <1>5 DEF GoodInstalled, Installed, Whole

\* risk is history: no step takes it back.
LEMMA StartRisk == ASSUME NEW as \in SUBSET Agents, Starts(as), risk  PROVE risk'
BY DEF Starts

\* A process goes to its next place, or leaves; the others are where they were.
LEMMA MovesOnly ==
    ASSUME BinTypeOK, NEW w \in Writers
    PROVE  /\ \A p : Goes(w, p) => job'[w].at = p /\ \A x \in Writers \ {w} : job'[x].at = job[x].at
           /\ Leaves(w) => job'[w].at = "idle" /\ \A x \in Writers \ {w} : job'[x].at = job[x].at
BY BinTypes DEF Goes, Leaves, Idle, JobType

LEMMA WriterRec ==
    ASSUME BinTypeOK, JobsInv, RecInv, NEW w \in Writers, WriterStep(w)
    PROVE  RecInv'
<1> SUFFICES ASSUME ~risk'  PROVE RecInv'  BY DEF RecInv
<1>0. /\ files \in FilesType /\ job \in [Writers -> JobType] /\ good \in SUBSET Versions
      /\ svc \in [Agents -> ServiceType] /\ Packaged \in Agents
      BY BinTypes
<1>1. (risk => risk') /\ good' = good
  <2>1. CASE BackupBinary(w)  BY <2>1, Zenon DEF BackupBinary, Writes
  <2>2. CASE RemoveBinaryBackup(w)  BY <2>2, Zenon DEF RemoveBinaryBackup, Writes
  <2>3. CASE \/ BackupLibraries(w) \/ ReplaceBinary(w) \/ DropLibraries(w)
             \/ CopyLibraries(w) \/ RemoveLibrariesBackup(w)
        BY <2>3 DEF BackupLibraries, ReplaceBinary, DropLibraries,
           CopyLibraries, RemoveLibrariesBackup, Writes
  <2>4. QED  BY <2>1, <2>2, <2>3 DEF WriterStep
<1>2. /\ ~risk /\ files.bin # Missing
      /\ GoodInstalled \/ GoodBackup
      /\ Replacing(w) => Solo(w) /\ Sound(w)
      BY <1>1 DEF RecInv
<1>m. /\ \A p : Goes(w, p) => job'[w].at = p /\ \A x \in Writers \ {w} : job'[x].at = job[x].at
      /\ Leaves(w) => job'[w].at = "idle" /\ \A x \in Writers \ {w} : job'[x].at = job[x].at
      BY MovesOnly
<1> USE DEF At, Writes, Installed, BackedUp, Whole, GoodInstalled, GoodBackup
<1>3. CASE BackupBinary(w)
  <2>1. ~Unsound(w)  BY <1>3 DEF BackupBinary
  <2>2. GoodInstalled /\ Solo(w)  BY <2>1 DEF Unsound, Solo
  <2>3. /\ files'.bin = files.bin /\ files'.lib = files.lib /\ files'.bakBin = files.bin
        /\ job'[w].at = "bakLib" /\ \A x \in Writers \ {w} : job'[x].at = job[x].at
        BY <1>0, <1>m, <1>3 DEF BackupBinary, FilesType
  <2>4. Sound(w)'  BY <1>1, <2>2, <2>3 DEF Sound, Covered
  <2>5. QED  BY <1>1, <1>2, <2>2, <2>3, <2>4, OwnStep
<1>4. CASE BackupLibraries(w)
  <2>1. Solo(w) /\ \E v \in good : Installed(v) /\ files.bakBin = v
        BY <1>2, <1>4 DEF BackupLibraries, Replacing, Sound
  <2>2. files.lib # Missing  BY <1>0, <2>1, Numbers
  <2>3. /\ files'.bin = files.bin /\ files'.lib = files.lib /\ files'.bakBin = files.bakBin
        /\ files'.bakLib = files.lib
        /\ job'[w].at = "bin" /\ \A x \in Writers \ {w} : job'[x].at = job[x].at
        BY <1>0, <1>m, <1>4, <2>2 DEF BackupLibraries, FilesType
  <2>4. GoodBackup'  BY <1>1, <2>1, <2>3
  <2>5. Sound(w)'  BY <2>3, <2>4 DEF Sound
  <2>6. QED  BY <1>1, <1>2, <2>1, <2>3, <2>4, <2>5, OwnStep
<1>5. CASE ReplaceBinary(w) \/ DropLibraries(w) \/ CopyLibraries(w)
  <2>1. Solo(w) /\ GoodBackup
        BY <1>2, <1>5 DEF ReplaceBinary, DropLibraries, CopyLibraries, Replacing, Sound, Covered
  <2>2. job[w].version \in Versions
        BY <1>5 DEF JobsInv, ReplaceBinary, DropLibraries, CopyLibraries
  <2>3. files'.bakBin = files.bakBin /\ files'.bakLib = files.bakLib /\ files'.bin # Missing
        BY <1>0, <1>2, <1>5, <2>2, Numbers DEF ReplaceBinary, DropLibraries, CopyLibraries, FilesType
  <2>4. /\ job'[w].at \in {"dropLib", "lib", "restart", "restartAll"}
        /\ \A x \in Writers \ {w} : job'[x].at = job[x].at
        BY <1>m, <1>5 DEF ReplaceBinary, DropLibraries, CopyLibraries
  <2>5. GoodBackup'  BY <1>1, <2>1, <2>3
  <2>6. Sound(w)'  BY <2>4, <2>5 DEF Sound
  <2>7. QED  BY <1>1, <2>1, <2>3, <2>4, <2>5, <2>6, OwnStep
<1>6. CASE RemoveBinaryBackup(w)
  <2>1. Solo(w) /\ Sound(w)  BY <1>2, <1>6 DEF RemoveBinaryBackup, Replacing
  <2>2. GoodInstalled
    <3>1. CASE w = Installer \/ svc[Packaged].st = "absent"  BY <1>6, <3>1 DEF RemoveBinaryBackup
    <3>2. CASE ~(w = Installer \/ svc[Packaged].st = "absent")
          BY <1>6, <2>1, <3>2 DEF RemoveBinaryBackup, Sound
    <3>3. QED  BY <3>1, <3>2
  <2>3. /\ files'.bin = files.bin /\ files'.lib = files.lib
        /\ job'[w].at = "cleanLib" /\ \A x \in Writers \ {w} : job'[x].at = job[x].at
        BY <1>0, <1>m, <1>6 DEF RemoveBinaryBackup, FilesType
  <2>4. GoodInstalled'  BY <1>1, <2>2, <2>3
  <2>5. Sound(w)'  BY <2>3, <2>4 DEF Sound, Covered
  <2>6. QED  BY <1>1, <1>2, <2>1, <2>3, <2>4, <2>5, OwnStep
<1>7. CASE RemoveLibrariesBackup(w)
  <2>1. Solo(w) /\ GoodInstalled  BY <1>2, <1>7 DEF RemoveLibrariesBackup, Replacing, Sound
  <2>2. /\ files'.bin = files.bin /\ files'.lib = files.lib
        /\ job'[w].at \in {"installed", "idle"} /\ \A x \in Writers \ {w} : job'[x].at = job[x].at
        BY <1>0, <1>m, <1>7 DEF RemoveLibrariesBackup, FilesType
  <2>3. GoodInstalled' /\ ~Replacing(w)'  BY <1>1, <2>1, <2>2 DEF Replacing
  <2>4. QED  BY <1>1, <1>2, <2>1, <2>2, <2>3, OwnStep
<1>8. QED  BY <1>3, <1>4, <1>5, <1>6, <1>7 DEF WriterStep

\* The steps of an upgrade after its backups, cut short or not, leave those alone.
LEMMA CoveredStep ==
    ASSUME BinTypeOK, RecInv, ~risk, NEW u \in Upgraders, job[u].at \in Covered,
           good' = good, files' \in FilesType, files'.bin # Missing,
           files'.bakBin = files.bakBin, files'.bakLib = files.bakLib,
           \A x \in Writers \ {u} : job'[x].at \in {job[x].at, "idle"},
           job'[u].at \in (Covered \ {"verify"}) \cup {"idle"}
    PROVE  RecInv'
<1>1. u \in Writers  BY DEF Writers
<1>2. Solo(u) /\ Sound(u)  BY <1>1 DEF RecInv, Covered, Replacing
<1>3. GoodBackup'  BY <1>2 DEF Sound, GoodBackup, BackedUp, Whole
<1>4. Replacing(u)' => Sound(u)'  BY <1>3 DEF Replacing, Sound, Covered, At
<1>5. QED  BY <1>1, <1>2, <1>3, <1>4, OwnStep

LEMMA UpgradeRec ==
    ASSUME BinTypeOK, RecInv, NEW u \in Upgraders, UpgradeStep(u) \/ RestartFails(u)
    PROVE  RecInv'
<1> SUFFICES ASSUME ~risk'  PROVE RecInv'  BY DEF RecInv
<1>0. /\ files \in FilesType /\ job \in [Writers -> JobType] /\ good \in SUBSET Versions
      /\ svc \in [Agents -> ServiceType] /\ Packaged \in Agents /\ u \in Writers
      /\ {Packaged} \in SUBSET Agents
      BY BinTypes DEF Writers
<1>m. /\ \A p : Goes(u, p) => job'[u].at = p /\ \A x \in Writers \ {u} : job'[x].at = job[x].at
      /\ Leaves(u) => job'[u].at = "idle" /\ \A x \in Writers \ {u} : job'[x].at = job[x].at
      BY <1>0, MovesOnly
<1>k. ASSUME NEW p \in Places, job' = KilledWith({Packaged}, [job EXCEPT ![u].at = p])
      PROVE  job'[u].at \in {p, "idle"} /\ \A x \in Writers \ {u} : job'[x].at \in {job[x].at, "idle"}
      BY <1>0, <1>k DEF KilledWith, Idle, JobType
<1>1. ~risk /\ good' = good /\ files' \in FilesType
  <2>1. BinTypeOK'  BY UpgradeTypes, OtherTypes
  <2>2. files' \in FilesType  BY <2>1 DEF BinTypeOK, FilesType
  <2>3. good' = good
        BY DEF UpgradeStep, Fetch, Download, Restart, Verify, StopFailed,
           RestoreBinary, RestoreLibraries, StartRestored, RestartFails, Writes
  <2>4. CASE Starts({Packaged})  BY <1>0, <2>2, <2>3, <2>4, StartRisk
  <2>5. CASE UNCHANGED risk  BY <2>2, <2>3, <2>5
  <2>6. QED  BY <2>4, <2>5 DEF UpgradeStep, Fetch, Download, Restart, Verify, StopFailed,
             RestoreBinary, RestoreLibraries, StartRestored, RestartFails, NoStart
<1>2. /\ files.bin # Missing
      /\ GoodInstalled \/ GoodBackup
      /\ Replacing(u) => Solo(u) /\ Sound(u)
      BY <1>0, <1>1 DEF RecInv
<1> USE DEF At
<1>3. CASE Fetch(u) \/ Download(u)
  <2>1. /\ job'[u].at \in {"bakBin", "download", "idle"}
        /\ \A x \in Writers \ {u} : job'[x].at = job[x].at
        BY <1>m, <1>3 DEF Fetch, Download
  <2>2. UNCHANGED <<files, good, svc>>  BY <1>3 DEF Fetch, Download
  <2>3. \A x \in Writers : job'[x].at = job[x].at \/ ~Replacing(x)'  BY <2>1 DEF Replacing
  <2>4. QED  BY <1>1, <2>2, <2>3, Beside
<1>4. CASE Restart(u)
  <2>0. /\ At(u, "restart") /\ UNCHANGED files  BY <1>4 DEF Restart
  <2>1. Solo(u) /\ GoodBackup  BY <1>2, <2>0 DEF Replacing, Sound, Covered
  <2>2. GoodBackup' /\ files'.bin # Missing
        BY <1>1, <1>2, <2>0, <2>1 DEF GoodBackup, BackedUp, Whole
  <2>3. CASE svc[Packaged].st = "absent"
    <3>1. Goes(u, "cleanBin") /\ UNCHANGED svc  BY <1>4, <2>3 DEF Restart, NoStart
    <3>2. Sound(u)'  BY <1>m, <2>3, <3>1 DEF Sound, Covered
    <3>3. QED  BY <1>0, <1>1, <1>m, <2>1, <2>2, <3>1, <3>2, OwnStep
  <2>4. CASE svc[Packaged].st # "absent"
    <3>1. Starts({Packaged}) /\ job' = KilledWith({Packaged}, [job EXCEPT ![u].at = "verify"])
          BY <1>4, <2>4 DEF Restart
    <3>2. svc'[Packaged].st = "up" => GoodInstalled  BY <1>0, <3>1, StartShows
    <3>3. GoodInstalled => GoodInstalled'  BY <1>1, <2>0 DEF GoodInstalled, Installed
    <3>4. /\ job'[u].at \in {"verify", "idle"}
          /\ \A x \in Writers \ {u} : job'[x].at \in {job[x].at, "idle"}
          BY <1>k, <3>1, PlaceNames
    <3>5. Replacing(u)' => Sound(u)'  BY <2>2, <3>2, <3>3, <3>4 DEF Sound, Replacing
    <3>6. QED  BY <1>0, <1>1, <2>1, <2>2, <3>4, <3>5, OwnStep
  <2>5. QED  BY <2>3, <2>4
<1>5. CASE RestartFails(u)
  <2>1. job[u].at \in Covered /\ UNCHANGED files  BY <1>5 DEF RestartFails, Covered
  <2>2. /\ job'[u].at \in {"rbStop", "idle"}
        /\ \A x \in Writers \ {u} : job'[x].at \in {job[x].at, "idle"}
        BY <1>m, <1>k, <1>5, PlaceNames DEF RestartFails
  <2>3. QED  BY <1>1, <1>2, <2>1, <2>2, CoveredStep DEF Covered
<1>6. CASE Verify(u)
  <2>0. job[u].at \in Covered /\ UNCHANGED <<files, svc>>  BY <1>6 DEF Verify, Covered
  <2>1. CASE svc[Packaged].st = "up"
    <3>1. Goes(u, "cleanBin")  BY <1>6, <2>1 DEF Verify
    <3>2. Solo(u) /\ GoodInstalled  BY <1>2, <1>6, <2>1 DEF Verify, Replacing, Sound
    <3>3. GoodInstalled'  BY <1>1, <2>0, <3>2 DEF GoodInstalled, Installed
    <3>4. Sound(u)'  BY <1>m, <3>1, <3>3 DEF Sound, Covered
    <3>5. QED  BY <1>0, <1>1, <1>2, <1>m, <2>0, <3>1, <3>2, <3>3, <3>4, OwnStep
  <2>2. CASE svc[Packaged].st # "up"
    <3>1. Goes(u, "rbStop")  BY <1>6, <2>2 DEF Verify
    <3>2. job'[u].at = "rbStop" /\ \A x \in Writers \ {u} : job'[x].at = job[x].at
          BY <1>m, <3>1
    <3>3. QED  BY <1>1, <1>2, <2>0, <3>2, CoveredStep DEF Covered
  <2>3. QED  BY <2>1, <2>2
<1>7. CASE StopFailed(u)
  <2>1. job[u].at \in Covered /\ UNCHANGED files  BY <1>7 DEF StopFailed, Covered
  <2>2. /\ job'[u].at \in {"rbBin", "idle"}
        /\ \A x \in Writers \ {u} : job'[x].at \in {job[x].at, "idle"}
        BY <1>k, <1>7, PlaceNames DEF StopFailed
  <2>3. QED  BY <1>1, <1>2, <2>1, <2>2, CoveredStep DEF Covered
<1>8. CASE RestoreBinary(u)
  <2>1. job[u].at \in Covered  BY <1>8 DEF RestoreBinary, Covered
  <2>2. /\ job'[u].at \in {"rbGivesUp", "rbLib"}
        /\ \A x \in Writers \ {u} : job'[x].at = job[x].at
        BY <1>m, <1>8 DEF RestoreBinary, Writes
  <2>3. /\ files'.bin # Missing
        /\ files'.bakBin = files.bakBin /\ files'.bakLib = files.bakLib
        BY <1>0, <1>2, <1>8 DEF RestoreBinary, Writes, FilesType
  <2>4. QED  BY <1>1, <2>1, <2>2, <2>3, CoveredStep DEF Covered
<1>9. CASE RestoreLibraries(u)
  <2>1. job[u].at \in Covered  BY <1>9 DEF RestoreLibraries, Covered
  <2>2. /\ job'[u].at \in {"rbStart", "idle"}
        /\ \A x \in Writers \ {u} : job'[x].at = job[x].at
        BY <1>m, <1>9 DEF RestoreLibraries
  <2>3. /\ files'.bin # Missing
        /\ files'.bakBin = files.bakBin /\ files'.bakLib = files.bakLib
        BY <1>0, <1>2, <1>9 DEF RestoreLibraries, FilesType
  <2>4. QED  BY <1>1, <2>1, <2>2, <2>3, CoveredStep DEF Covered
<1>10. CASE StartRestored(u)
  <2>1. job[u].at \in Covered /\ UNCHANGED files  BY <1>10 DEF StartRestored, Covered
  <2>2. job'[u].at = "idle" /\ \A x \in Writers \ {u} : job'[x].at = job[x].at
        BY <1>m, <1>10 DEF StartRestored
  <2>3. QED  BY <1>1, <1>2, <2>1, <2>2, CoveredStep DEF Covered
<1>11. QED  BY <1>3, <1>4, <1>5, <1>6, <1>7, <1>8, <1>9, <1>10 DEF UpgradeStep

LEMMA KilledRec ==
    ASSUME BinTypeOK, RecInv, NEW w \in Writers, Killed(w)
    PROVE  RecInv'
<1> SUFFICES ASSUME ~risk'  PROVE RecInv'  BY DEF RecInv
<1>0. /\ files \in FilesType /\ job \in [Writers -> JobType] /\ good \in SUBSET Versions
      BY BinTypes
<1>1. good' = good /\ svc' = svc /\ files' \in CutShort(w)  BY DEF Killed
<1>r. risk' = (risk \/ (At(w, "bakBin") /\ Unsound(w)))  BY DEF Killed
<1>2. ~risk /\ (At(w, "bakBin") => ~Unsound(w))  BY <1>r, Zenon
<1>3. /\ files.bin # Missing
      /\ GoodInstalled \/ GoodBackup
      /\ Replacing(w) => Solo(w) /\ Sound(w)
      BY <1>2 DEF RecInv
<1>4. /\ job'[w].at \in {"idle", "refused"}
      /\ \A x \in Writers \ {w} : job'[x].at = job[x].at
  <2>1. Goes(w, "refused") \/ Leaves(w)  BY DEF Killed
  <2>2. QED  BY <2>1, MovesOnly
<1>5. ~Replacing(w)'  BY <1>4 DEF Replacing
<1>c. /\ files'.bin # files.bin => At(w, "rbBin") /\ files'.bin # Missing
      /\ files'.lib # files.lib => job[w].at \in {"dropLib", "lib", "rbLib", "rbGivesUp"}
      /\ files'.bakBin # files.bakBin => At(w, "bakBin")
      /\ files'.bakLib # files.bakLib => job[w].at \in {"bakLib", "cleanLib"}
      BY <1>1, CutFrame
<1>k. files'.bin # Missing  BY <1>3, <1>c
<1> USE DEF At
<1>6. CASE Replacing(w)
  <2>1. Solo(w) /\ Sound(w)  BY <1>3, <1>6
  <2>2. CASE job[w].at \in Covered
    <3>1. GoodBackup  BY <2>1, <2>2 DEF Sound
    <3>2. files'.bakBin = files.bakBin /\ files'.bakLib = files.bakLib  BY <1>c, <2>2 DEF Covered
    <3>3. GoodBackup'  BY <1>1, <3>1, <3>2 DEF GoodBackup, BackedUp, Whole
    <3>4. QED  BY <1>1, <1>4, <1>5, <1>k, <2>1, <3>3, OwnStep
  <2>3. CASE job[w].at \in {"bakLib", "cleanLib"}
    <3>1. GoodInstalled  BY <2>1, <2>3 DEF Sound, GoodInstalled
    <3>2. files'.bin = files.bin /\ files'.lib = files.lib  BY <1>c, <2>3
    <3>3. GoodInstalled'  BY <1>1, <3>1, <3>2 DEF GoodInstalled, Installed, Whole
    <3>4. QED  BY <1>1, <1>4, <1>5, <1>k, <2>1, <3>3, OwnStep
  <2>4. CASE job[w].at = "cleanBin"
    <3>1. files' = files  BY <1>1, <2>4 DEF CutShort
    <3>2. GoodInstalled' \/ GoodBackup'
          BY <1>1, <1>3, <3>1 DEF GoodInstalled, GoodBackup, Installed, BackedUp
    <3>3. QED  BY <1>1, <1>4, <1>5, <1>k, <2>1, <3>2, OwnStep
  <2>5. QED  BY <1>6, <2>2, <2>3, <2>4 DEF Replacing, Covered
<1>7. CASE job[w].at = "bakBin"
  <2>1. GoodInstalled /\ Solo(w)  BY <1>2, <1>7 DEF Unsound, Solo, GoodInstalled
  <2>2. files'.bin = files.bin /\ files'.lib = files.lib  BY <1>c, <1>7
  <2>3. GoodInstalled'  BY <1>1, <2>1, <2>2 DEF GoodInstalled, Installed, Whole
  <2>4. QED  BY <1>1, <1>4, <1>5, <1>k, <2>1, <2>3, OwnStep
<1>8. CASE ~Replacing(w) /\ job[w].at # "bakBin"
  <2>1. files' = files
        BY <1>1, <1>8, Zenon DEF CutShort, Replacing
  <2>2. QED  BY <1>1, <1>2, <1>4, <1>5, <2>1, Beside
<1>9. QED  BY <1>6, <1>7, <1>8

LEMMA RollbackFailsRec ==
    ASSUME BinTypeOK, RecInv, NEW u \in Upgraders, RollbackStepFails(u)
    PROVE  RecInv'
<1> SUFFICES ASSUME ~risk'  PROVE RecInv'  BY DEF RecInv
<1>0. files \in FilesType /\ u \in Writers  BY BinTypes DEF Writers
<1>1. ~risk /\ good' = good  BY DEF RollbackStepFails
<1>2. job[u].at \in {"rbStop", "rbBin", "rbLib", "rbStart"}  BY DEF RollbackStepFails, At
<1>3. files' \in CutShort(u) \/ files' = files  BY DEF RollbackStepFails
<1>4. /\ files' \in FilesType
      /\ files'.bin # files.bin => files'.bin # Missing
      /\ files'.bakBin = files.bakBin /\ files'.bakLib = files.bakLib
  <2>1. CASE files' = files  BY <1>0, <2>1
  <2>2. CASE files' \in CutShort(u)  BY <1>0, <1>2, <2>2, CutFrame DEF At
  <2>3. QED  BY <1>3, <2>1, <2>2
<1>5. files'.bin # Missing  BY <1>1, <1>4 DEF RecInv
<1>6. /\ job'[u].at \in {"rbBin", "rbGivesUp", "rbStart", "idle"}
      /\ \A x \in Writers \ {u} : job'[x].at = job[x].at
  <2>1. Goes(u, "rbBin") \/ Goes(u, "rbGivesUp") \/ Goes(u, "rbStart") \/ Leaves(u)
        BY DEF RollbackStepFails
  <2>2. QED  BY <1>0, <2>1, MovesOnly
<1>7. QED  BY <1>1, <1>2, <1>4, <1>5, <1>6, CoveredStep DEF Covered

\* What agents, servers and installers do beside the replacements.
LEMMA OthersRec ==
    ASSUME BinTypeOK, RecInv
    PROVE  /\ \A a \in Agents, u \in Upgraders : Ask(a, u) \/ AskAttached(a, u) => RecInv'
           /\ \A a \in Agents : AskLost(a) \/ Retry(a) \/ AgentRestarts(a) => RecInv'
           /\ \A u \in Upgraders : DownloadFails(u) => RecInv'
           /\ InstallStep => RecInv'
           /\ \A v \in Versions : Desires(v) => RecInv'
<1>0. /\ job \in [Writers -> JobType] /\ svc \in [Agents -> ServiceType] /\ Packaged \in Agents
      /\ Upgraders \subseteq Writers /\ Installer \in Writers
      BY BinTypes DEF Writers
<1>1. ASSUME NEW a \in Agents, NEW u \in Upgraders, Ask(a, u) \/ AskAttached(a, u)
      PROVE  RecInv'
  <2>1. /\ svc' = [svc EXCEPT ![a].asked = TRUE] /\ UNCHANGED <<files, good, risk>>
        /\ \E n \in Agents \cup {NoAgent} :
              job' = [job EXCEPT ![u] = [at |-> "fetch", version |-> desired, within |-> n]]
        BY <1>1 DEF Ask, AskAttached, Asks
  <2>2. svc'[Packaged].st = svc[Packaged].st  BY <1>0, <2>1 DEF ServiceType
  <2>3. \A x \in Writers : job'[x].at = job[x].at \/ ~Replacing(x)'
        BY <1>0, <2>1 DEF Replacing, JobType
  <2>4. CASE risk  BY <2>1, <2>4 DEF RecInv
  <2>5. CASE ~risk  BY <2>1, <2>2, <2>3, <2>5, Beside
  <2>6. QED  BY <2>4, <2>5
<1>2. ASSUME NEW a \in Agents, AskLost(a)  PROVE RecInv'
  <2>1. svc'[Packaged].st = svc[Packaged].st /\ UNCHANGED <<files, good, job, risk>>
        BY <1>0, <1>2 DEF AskLost, ServiceType
  <2>2. CASE risk  BY <2>1, <2>2 DEF RecInv
  <2>3. CASE ~risk  BY <2>1, <2>3, Beside
  <2>4. QED  BY <2>2, <2>3
<1>3. ASSUME NEW a \in Agents, Retry(a) \/ AgentRestarts(a)  PROVE RecInv'
  <2> SUFFICES ASSUME ~risk'  PROVE RecInv'  BY DEF RecInv
  <2>1. Starts({a}) /\ svc[a].st # "absent" /\ UNCHANGED <<files, good>>
        BY <1>3 DEF Retry, AgentRestarts
  <2>2. ~risk  BY <2>1, StartRisk
  <2>3. \/ svc'[Packaged].st = svc[Packaged].st
        \/ (svc'[Packaged].st = "up" => GoodInstalled) /\ svc[Packaged].st # "absent"
    <3>1. CASE a = Packaged  BY <2>1, <3>1, StartShows
    <3>2. CASE a # Packaged  BY <1>0, <2>1, <3>2, StartTypes
    <3>3. QED  BY <3>1, <3>2
  <2>4. \A x \in Writers : job'[x].at = job[x].at \/ ~Replacing(x)'
        BY <1>0, <1>3, JobTypes DEF Retry, AgentRestarts, Replacing, KilledWith, Idle
  <2>5. QED  BY <2>1, <2>2, <2>3, <2>4, Beside
<1>4. ASSUME NEW u \in Upgraders, DownloadFails(u)  PROVE RecInv'
  <2>1. Leaves(u) /\ UNCHANGED <<files, good, svc, risk>>  BY <1>4 DEF DownloadFails
  <2>2. \A x \in Writers : job'[x].at = job[x].at \/ ~Replacing(x)'
        BY <1>0, <2>1, MovesOnly DEF Replacing
  <2>3. CASE risk  BY <2>1, <2>3 DEF RecInv
  <2>4. CASE ~risk  BY <2>1, <2>2, <2>4, Beside
  <2>5. QED  BY <2>3, <2>4
<1>5. CASE InstallDecides
  <2> SUFFICES ASSUME ~risk'  PROVE RecInv'  BY DEF RecInv
  <2>1. UNCHANGED <<files, good, svc, risk>>  BY <1>5 DEF InstallDecides
  <2>2. files.bin # Missing  BY <2>1 DEF RecInv
  <2>3. Goes(Installer, "installed") \/ Goes(Installer, "refused") \/ Goes(Installer, "bakBin")
        BY <1>5, <2>2 DEF InstallDecides
  <2>4. \A x \in Writers : job'[x].at = job[x].at \/ ~Replacing(x)'
        BY <1>0, <2>3, MovesOnly DEF Replacing
  <2>5. QED  BY <2>1, <2>4, Beside
<1>6. CASE RestartAll
  <2> SUFFICES ASSUME ~risk'  PROVE RecInv'  BY DEF RecInv
  <2> DEFINE active == {a \in Agents : svc[a].st = "up"}
  <2>1. /\ At(Installer, "restartAll") /\ Starts(active) /\ UNCHANGED <<files, good>>
        /\ job' = KilledWith(active, [job EXCEPT ![Installer].at = "cleanBin"])
        BY <1>6 DEF RestartAll
  <2>2. ~risk  BY <2>1, StartRisk
  <2>3. Solo(Installer) /\ GoodBackup /\ files.bin # Missing
        BY <1>0, <2>1, <2>2 DEF RecInv, Replacing, Sound, Covered, At
  <2>4. GoodBackup' /\ files'.bin # Missing  BY <2>1, <2>3 DEF GoodBackup, BackedUp
  <2>5. /\ job'[Installer].at \in {"cleanBin", "idle"}
        /\ \A x \in Writers \ {Installer} : job'[x].at \in {job[x].at, "idle"}
        BY <1>0, <2>1 DEF KilledWith, Idle, JobType
  <2>6. Replacing(Installer)' => Sound(Installer)'
        BY <2>5 DEF Replacing, Sound, At, Covered
  <2>7. QED  BY <1>0, <2>1, <2>3, <2>4, <2>5, <2>6, OwnStep
<1>7. ASSUME NEW v \in Versions, Desires(v)  PROVE RecInv'
  <2>1. UNCHANGED <<files, good, svc, job, risk>>  BY <1>7 DEF Desires
  <2>2. CASE risk  BY <2>1, <2>2 DEF RecInv
  <2>3. CASE ~risk  BY <2>1, <2>3, Beside
  <2>4. QED  BY <2>2, <2>3
<1>8. QED  BY <1>1, <1>2, <1>3, <1>4, <1>5, <1>6, <1>7 DEF InstallStep

LEMMA BinRec == ASSUME BinTypeOK, JobsInv, RecInv, BinNext  PROVE RecInv'
BY WriterRec, UpgradeRec, KilledRec, RollbackFailsRec, OthersRec DEF BinNext

\* A process at work has the version it was asked for.
LEMMA BinJobs == ASSUME BinTypeOK, JobsInv, BinNext  PROVE JobsInv'
<1>0. /\ job \in [Writers -> JobType] /\ desired \in Versions
      /\ Upgraders \subseteq Writers /\ Installer \in Writers
      BY BinTypes DEF Writers
<1>1. ASSUME NEW w \in Writers, NEW p, job[w].at # "idle",
             \/ Goes(w, p) \/ Leaves(w)
             \/ \E as : job' = KilledWith(as, [job EXCEPT ![w].at = p])
      PROVE  JobsInv'
      BY <1>0, <1>1 DEF JobsInv, Goes, Leaves, KilledWith, Idle, JobType
<1>2. ASSUME NEW w \in Writers, WriterStep(w) \/ Killed(w)  PROVE JobsInv'
  <2>1. job[w].at # "idle" /\ (Leaves(w) \/ \E p : Goes(w, p))
    <3>1. CASE Killed(w)  BY <3>1 DEF Killed
    <3>2. CASE BackupBinary(w) \/ BackupLibraries(w) \/ ReplaceBinary(w) \/ DropLibraries(w)
          BY <3>2 DEF BackupBinary, BackupLibraries, ReplaceBinary, DropLibraries, Writes, At
    <3>3. CASE CopyLibraries(w) \/ RemoveBinaryBackup(w) \/ RemoveLibrariesBackup(w)
          BY <3>3 DEF CopyLibraries, RemoveBinaryBackup, RemoveLibrariesBackup, Writes, At
    <3>4. QED  BY <1>2, <3>1, <3>2, <3>3 DEF WriterStep
  <2>2. QED  BY <1>1, <2>1
<1>3. ASSUME NEW u \in Upgraders,
             UpgradeStep(u) \/ RestartFails(u) \/ DownloadFails(u) \/ RollbackStepFails(u)
      PROVE  JobsInv'
  <2>1. /\ job[u].at # "idle"
        /\ \/ Leaves(u) \/ \E p : Goes(u, p)
           \/ \E p : job' = KilledWith({Packaged}, [job EXCEPT ![u].at = p])
    <3>1. CASE Fetch(u) \/ Download(u) \/ DownloadFails(u) \/ Verify(u)
          BY <3>1 DEF Fetch, Download, DownloadFails, Verify, At
    <3>2. CASE Restart(u) \/ RestartFails(u) \/ StopFailed(u)
          BY <3>2 DEF Restart, RestartFails, StopFailed, At
    <3>3. CASE RestoreBinary(u) \/ RestoreLibraries(u) \/ StartRestored(u)
          BY <3>3 DEF RestoreBinary, RestoreLibraries, StartRestored, At, Writes
    <3>4. CASE RollbackStepFails(u)  BY <3>4 DEF RollbackStepFails, At
    <3>5. QED  BY <1>3, <3>1, <3>2, <3>3, <3>4 DEF UpgradeStep
  <2>2. QED  BY <1>0, <1>1, <2>1
<1>4. CASE InstallStep
  <2>1. job[Installer].at # "idle"  BY <1>4 DEF InstallStep, InstallDecides, RestartAll, At
  <2>2. CASE InstallDecides
    <3>1. \E p : Goes(Installer, p)  BY <2>2 DEF InstallDecides
    <3>2. QED  BY <1>0, <1>1, <2>1, <3>1
  <2>3. CASE RestartAll
    <3>1. \E as : job' = KilledWith(as, [job EXCEPT ![Installer].at = "cleanBin"])
          BY <2>3 DEF RestartAll
    <3>2. QED  BY <1>0, <1>1, <2>1, <3>1
  <2>4. QED  BY <1>4, <2>2, <2>3 DEF InstallStep
<1>5. ASSUME NEW a \in Agents, NEW u \in Upgraders, Ask(a, u) \/ AskAttached(a, u)  PROVE JobsInv'
      BY <1>0, <1>5 DEF Ask, AskAttached, Asks, JobsInv
<1>6. ASSUME NEW a \in Agents, AskLost(a) \/ Retry(a) \/ AgentRestarts(a)  PROVE JobsInv'
      BY <1>0, <1>6 DEF AskLost, Retry, AgentRestarts, KilledWith, Idle, JobsInv
<1>7. ASSUME NEW v \in Versions, Desires(v)  PROVE JobsInv'
      BY <1>7 DEF Desires, JobsInv
<1>8. QED  BY <1>2, <1>3, <1>4, <1>5, <1>6, <1>7 DEF BinNext

-----------------------------------------------------------------------------
(* Which services have a unit, and what that says of the installer and of upgrades *)

AfterRestart == {"verify", "rbStop", "rbBin", "rbLib", "rbStart", "rbGivesUp"}

UnitsInv ==
    /\ svc[Instance].st # "absent" => role = Instance
    /\ role = Instance => place # "idle"
    /\ place \in (Window \ {"enrolling"}) \cup {"verify"} => role = Instance
    /\ \A u \in Upgraders : job[u].at # "idle" => svc[Packaged].st # "absent" \/ role = Instance
    /\ \A u \in Upgraders : job[u].at \in AfterRestart => svc[Packaged].st # "absent"

\* Of a step of AgentBinary: no unit comes or goes, and what a process has loaded stays or is lost.
Steady ==
    \A a \in Agents : /\ svc'[a].st = "absent" <=> svc[a].st = "absent"
                      /\ svc'[a].copy # NoState => /\ svc'[a].copy = svc[a].copy
                                                   /\ svc'[a].st = svc[a].st

LEMMA StartSteady ==
    ASSUME BinTypeOK, NEW as \in SUBSET Agents, \A a \in as : svc[a].st # "absent", Starts(as)
    PROVE  Steady
<1>1. /\ \A a \in as : svc'[a].st \in {"up", "failing"} /\ svc'[a].copy = NoState
      /\ \A a \in Agents \ as : svc'[a] = svc[a]
      BY StartTypes
<1>2. QED  BY <1>1 DEF Steady

LEMMA BinSteady == ASSUME BinTypeOK, UnitsInv, BinNext  PROVE Steady
<1>0. svc \in [Agents -> ServiceType] /\ Packaged \in Agents  BY BinTypes
<1>u. UNCHANGED svc => Steady  BY DEF Steady
<1>1. ASSUME NEW w \in Writers, WriterStep(w) \/ Killed(w)  PROVE Steady
  <2>1. CASE ReplaceBinary(w)  BY <1>0, <2>1 DEF ReplaceBinary, Steady, ServiceType
  <2>2. CASE ~ReplaceBinary(w)
        BY <1>u, <1>1, <2>2 DEF WriterStep, BackupBinary, BackupLibraries, DropLibraries,
           CopyLibraries, RemoveBinaryBackup, RemoveLibrariesBackup, Killed, Writes
  <2>3. QED  BY <2>1, <2>2
<1>2. ASSUME NEW u \in Upgraders,
             UpgradeStep(u) \/ RestartFails(u) \/ DownloadFails(u) \/ RollbackStepFails(u)
      PROVE  Steady
  <2>1. CASE StopFailed(u)
    <3>1. svc[Packaged].st # "absent"  BY <2>1 DEF StopFailed, UnitsInv, AfterRestart, At
    <3>2. /\ svc'[Packaged].st = "stopped" /\ svc'[Packaged].copy = NoState
          /\ \A a \in Agents \ {Packaged} : svc'[a] = svc[a]
          BY <1>0, <2>1 DEF StopFailed, ServiceType
    <3>3. QED  BY <3>1, <3>2 DEF Steady
  <2>2. CASE Restart(u) \/ RestartFails(u) \/ StartRestored(u)
    <3>1. UNCHANGED svc \/ (Starts({Packaged}) /\ svc[Packaged].st # "absent")
      <4>1. CASE Restart(u)  BY <4>1 DEF Restart, NoStart
      <4>2. CASE RestartFails(u)  BY <4>2 DEF RestartFails, NoStart
      <4>3. CASE StartRestored(u)
            BY <4>3 DEF StartRestored, NoStart, UnitsInv, AfterRestart, At
      <4>4. QED  BY <2>2, <4>1, <4>2, <4>3
    <3>2. QED  BY <1>0, <1>u, <3>1, StartSteady
  <2>3. CASE ~(StopFailed(u) \/ Restart(u) \/ RestartFails(u) \/ StartRestored(u))
        BY <1>u, <1>2, <2>3 DEF UpgradeStep, Fetch, Download, Verify, RestoreBinary,
           RestoreLibraries, DownloadFails, RollbackStepFails, Writes
  <2>4. QED  BY <2>1, <2>2, <2>3
<1>3. CASE InstallStep
  <2>1. CASE InstallDecides  BY <1>u, <2>1 DEF InstallDecides
  <2>2. CASE RestartAll
    <3> DEFINE active == {a \in Agents : svc[a].st = "up"}
    <3>1. Starts(active)  BY <2>2 DEF RestartAll
    <3>2. QED  BY <3>1, StartSteady
  <2>3. QED  BY <1>3, <2>1, <2>2 DEF InstallStep
<1>4. ASSUME NEW a \in Agents, NEW u \in Upgraders, Ask(a, u) \/ AskAttached(a, u)  PROVE Steady
      BY <1>0, <1>4 DEF Ask, AskAttached, Asks, Steady, ServiceType
<1>5. ASSUME NEW a \in Agents, AskLost(a)  PROVE Steady
      BY <1>0, <1>5 DEF AskLost, Steady, ServiceType
<1>6. ASSUME NEW a \in Agents, Retry(a) \/ AgentRestarts(a)  PROVE Steady
  <2>1. Starts({a}) /\ svc[a].st # "absent"  BY <1>6 DEF Retry, AgentRestarts
  <2>2. QED  BY <2>1, StartSteady
<1>7. ASSUME NEW v \in Versions, Desires(v)  PROVE Steady
      BY <1>u, <1>7 DEF Desires
<1>8. QED  BY <1>1, <1>2, <1>3, <1>4, <1>5, <1>6, <1>7 DEF BinNext

\* An upgrade is asked for by a running agent, and looks at a service that has a unit.
Asked ==
    \A x \in Upgraders :
        /\ job'[x].at # "idle" => job[x].at # "idle" \/ \E a \in Agents : svc[a].st # "absent"
        /\ job'[x].at \in AfterRestart => job[x].at \in AfterRestart \/ svc[Packaged].st # "absent"

LEMMA BinAsked == ASSUME BinTypeOK, BinNext  PROVE Asked
<1>0. /\ job \in [Writers -> JobType] /\ Packaged \in Agents
      /\ Upgraders \subseteq Writers /\ Installer \in Writers \ Upgraders
      BY BinTypes DEF Writers
<1>1. ASSUME NEW w \in Writers, NEW p, job[w].at # "idle",
             Goes(w, p) \/ Leaves(w) \/ \E as : job' = KilledWith(as, [job EXCEPT ![w].at = p]),
             p \in AfterRestart => \/ w = Installer \/ job[w].at \in AfterRestart
                                   \/ svc[Packaged].st # "absent"
      PROVE  Asked
      BY <1>0, <1>1 DEF Goes, Leaves, KilledWith, Idle, JobType, AfterRestart, Asked
<1>u. (\A x \in Writers : job'[x].at \in {job[x].at, "idle"}) => Asked
      BY <1>0 DEF Asked, AfterRestart
<1> USE DEF At, AfterRestart
<1>2. ASSUME NEW w \in Writers, WriterStep(w) \/ Killed(w)  PROVE Asked
  <2>1. job[w].at # "idle" /\ (Leaves(w) \/ \E p : Goes(w, p) /\ p \notin AfterRestart)
    <3>1. CASE Killed(w)  BY <3>1 DEF Killed
    <3>2. CASE BackupBinary(w) \/ BackupLibraries(w) \/ ReplaceBinary(w) \/ DropLibraries(w)
          BY <3>2 DEF BackupBinary, BackupLibraries, ReplaceBinary, DropLibraries, Writes
    <3>3. CASE CopyLibraries(w) \/ RemoveBinaryBackup(w) \/ RemoveLibrariesBackup(w)
          BY <3>3 DEF CopyLibraries, RemoveBinaryBackup, RemoveLibrariesBackup, Writes
    <3>4. QED  BY <1>2, <3>1, <3>2, <3>3 DEF WriterStep
  <2>2. QED  BY <1>1, <2>1
<1>3. ASSUME NEW u \in Upgraders,
             UpgradeStep(u) \/ RestartFails(u) \/ DownloadFails(u) \/ RollbackStepFails(u)
      PROVE  Asked
  <2>1. /\ job[u].at # "idle"
        /\ \E p : /\ Goes(u, p) \/ Leaves(u) \/ job' = KilledWith({Packaged}, [job EXCEPT ![u].at = p])
                  /\ p \in AfterRestart => job[u].at \in AfterRestart \/ svc[Packaged].st # "absent"
    <3>1. CASE Fetch(u) \/ Download(u) \/ DownloadFails(u) \/ Verify(u)
          BY <3>1 DEF Fetch, Download, DownloadFails, Verify
    <3>2. CASE Restart(u)
      <4>1. CASE svc[Packaged].st = "absent"
            BY <3>2, <4>1 DEF Restart
      <4>2. CASE svc[Packaged].st # "absent"
            BY <3>2, <4>2 DEF Restart
      <4>3. QED  BY <4>1, <4>2
    <3>3. CASE RestartFails(u)  BY <3>3 DEF RestartFails
    <3>4. CASE StopFailed(u)  BY <3>4 DEF StopFailed
    <3>5. CASE RestoreBinary(u) \/ RestoreLibraries(u) \/ StartRestored(u)
          BY <3>5 DEF RestoreBinary, RestoreLibraries, StartRestored, Writes
    <3>6. CASE RollbackStepFails(u)  BY <3>6 DEF RollbackStepFails
    <3>7. QED  BY <1>3, <3>1, <3>2, <3>3, <3>4, <3>5, <3>6 DEF UpgradeStep
  <2>2. QED  BY <1>0, <1>1, <2>1
<1>4. CASE InstallStep
  <2>1. CASE InstallDecides
    <3>1. \E p : Goes(Installer, p) /\ job[Installer].at # "idle"  BY <2>1 DEF InstallDecides
    <3>2. QED  BY <1>0, <1>1, <3>1
  <2>2. CASE RestartAll
    <3>1. \E as : job' = KilledWith(as, [job EXCEPT ![Installer].at = "cleanBin"])
          BY <2>2 DEF RestartAll
    <3>2. QED  BY <1>0, <1>1, <2>2, <3>1 DEF RestartAll
  <2>3. QED  BY <1>4, <2>1, <2>2 DEF InstallStep
<1>5. ASSUME NEW a \in Agents, NEW u \in Upgraders, Ask(a, u) \/ AskAttached(a, u)  PROVE Asked
  <2>1. /\ svc[a].st # "absent" /\ job'[u].at = "fetch"
        /\ \A x \in Writers \ {u} : job'[x] = job[x]
        BY <1>0, <1>5 DEF Ask, AskAttached, Asks
  <2>2. QED  BY <1>0, <2>1 DEF Asked
<1>6. ASSUME NEW a \in Agents, AskLost(a) \/ Retry(a) \/ AgentRestarts(a)  PROVE Asked
  <2>1. \A x \in Writers : job'[x].at \in {job[x].at, "idle"}
        BY <1>6 DEF AskLost, Retry, AgentRestarts, KilledWith, Idle
  <2>2. QED  BY <1>u, <2>1
<1>7. ASSUME NEW v \in Versions, Desires(v)  PROVE Asked
      BY <1>u, <1>7 DEF Desires
<1>8. QED  BY <1>2, <1>3, <1>4, <1>5, <1>6, <1>7 DEF BinNext

LEMMA BinUnits ==
    ASSUME BinTypeOK, UnitsInv, BinNext, UNCHANGED hostVars
    PROVE  UnitsInv'
<1>1. \A a \in Agents : svc'[a].st = "absent" <=> svc[a].st = "absent"
      BY BinSteady DEF Steady
<1>2. UNCHANGED <<role, place>>  BY DEF hostVars
<1>3. \A x \in Upgraders :
        /\ job'[x].at # "idle" => svc[Packaged].st # "absent" \/ role = Instance
        /\ job'[x].at \in AfterRestart => svc[Packaged].st # "absent"
      BY BinAsked DEF Asked, UnitsInv
<1>4. QED  BY <1>1, <1>2, <1>3 DEF UnitsInv

-----------------------------------------------------------------------------
(* The installation beside them: which identity is in which state file *)

(* Up to the snapshot a packaged agent has its registry entry, so that the installer of
   an instance keeps its file aside; what an agent has loaded ends with its process. *)
PackagedState ==
    /\ \A a \in Agents : svc[a].copy # NoState => svc[a].st = "up"
    /\ place \in {"idle", "binary"} => /\ svc[Packaged].st # "absent" => Packaged \in registered
                                      /\ ~hadPackaged /\ saved = NoState
    /\ place \in Window \cup {"binary", "enroll"} => state[Packaged] # NoState
    /\ place \in Window \cup {"enroll"} => (hadPackaged => saved # NoState)

(* Which identity is in which file, at every place of the installer; for an instance,
   what was kept aside is the packaged agent's. *)
IdInv ==
    ~spoilt =>
        /\ Apart
        /\ place \in {"setup", "config", "relocate"} => Names(Packaged, "instance")
        /\ (place \in Window \cup {"enroll"} /\ saved # NoState) => saved.conn # "instance"
        /\ (role = Instance /\ place \in Window \cup {"enroll"} /\ svc[Packaged].st # "absent") =>
              saved # NoState /\ saved.conn = "packaged"
        /\ (role = Instance /\ place \in {"restore", "verify", "enable", "register", "done"}) =>
              Names(Instance, "instance")
        /\ (role = Packaged /\ place = "enable") => Names(Packaged, "packaged")

HInv == HostTypeOK /\ JobsInv /\ RecInv /\ UnitsInv /\ PackagedState /\ IdInv

\* Steps that leave the program, the services and the processes alone.
LEMMA QuietRec ==
    ASSUME RecInv, JobsInv, UNCHANGED <<files, good, svc, job, risk>>
    PROVE  RecInv' /\ JobsInv'
<1>1. JobsInv'  BY DEF JobsInv
<1>2. CASE risk  BY <1>1, <1>2 DEF RecInv
<1>3. CASE ~risk  BY <1>1, <1>3, Beside
<1>4. QED  BY <1>2, <1>3

\* A packaged agent that gets its first start finds no upgrade under way.
LEMMA EnableRec ==
    ASSUME BinTypeOK, RecInv, UnitsInv, NEW a \in Agents, EnableNow(a),
           a = Packaged => role = Packaged, UNCHANGED <<files, good, job>>
    PROVE  RecInv'
<1> SUFFICES ASSUME ~risk'  PROVE RecInv'  BY DEF RecInv
<1>0. svc \in [Agents -> ServiceType] /\ Packaged \in Agents  BY BinTypes
<1>1. CASE NoStart
  <2>1. UNCHANGED svc /\ ~risk  BY <1>1 DEF NoStart
  <2>2. QED  BY <2>1, Beside
<1>2. CASE Starts({a})
  <2>1. ~risk  BY <1>2, StartRisk
  <2>2. \/ svc'[Packaged].st = svc[Packaged].st
        \/ /\ svc'[Packaged].st = "up" => GoodInstalled
           /\ svc[Packaged].st = "absent" => \A u \in Upgraders : job[u].at = "idle"
    <3>1. CASE a = Packaged  BY <1>2, <3>1, StartShows DEF UnitsInv
    <3>2. CASE a # Packaged  BY <1>0, <1>2, <3>2, StartTypes
    <3>3. QED  BY <3>1, <3>2
  <2>3. QED  BY <2>1, <2>2, Beside
<1>3. QED  BY <1>1, <1>2 DEF EnableNow

\* Only a step of the installer gives a service its unit; it loads nothing.
LEMMA EnableSteady ==
    ASSUME BinTypeOK, NEW a \in Agents, EnableNow(a)
    PROVE  /\ \A b \in Agents \ {a} : svc'[b] = svc[b]
           /\ svc'[a].st = "absent" => svc[a].st = "absent"
           /\ svc'[a].copy # NoState => svc'[a] = svc[a]
<1>1. CASE NoStart  BY <1>1 DEF NoStart
<1>2. CASE Starts({a})
  <2>1. /\ svc'[a].st \in {"up", "failing"} /\ svc'[a].copy = NoState
        /\ \A b \in Agents \ {a} : svc'[b] = svc[b]
        BY <1>2, StartTypes
  <2>2. QED  BY <2>1
<1>3. QED  BY <1>1, <1>2 DEF EnableNow

-----------------------------------------------------------------------------
\* The steps of AgentBinary.
LEMMA BinHInv == ASSUME HInv, BinNext, UNCHANGED hostVars  PROVE HInv'
<1>0. /\ BinTypeOK /\ JobsInv /\ RecInv /\ UnitsInv /\ PackagedState /\ IdInv
      BY DEF HInv, HostTypeOK
<1>1. HostTypeOK'
  <2>1. HostNext  BY DEF HostNext
  <2>2. QED  BY <2>1, HostNextTypes DEF HInv
<1>2. JobsInv' /\ RecInv' /\ UnitsInv'  BY <1>0, BinJobs, BinRec, BinUnits
<1>3. \A a \in Agents : /\ svc'[a].st = "absent" <=> svc[a].st = "absent"
                        /\ svc'[a].copy # NoState => /\ svc'[a].copy = svc[a].copy
                                                     /\ svc'[a].st = svc[a].st
      BY <1>0, BinSteady DEF Steady
<1>4. PackagedState' /\ IdInv'  BY <1>0, <1>3 DEF hostVars, PackagedState, IdInv, Apart, Names
<1>5. QED  BY <1>1, <1>2, <1>4 DEF HInv

\* The installation starts: the packaged agent's file gets an id, if it had none.
LEMMA BeginHInv == ASSUME HInv, NEW r \in Agents, NEW v \in Versions, Begin(r, v)  PROVE HInv'
<1>0. /\ HostTypeOK /\ BinTypeOK /\ JobsInv /\ RecInv /\ UnitsInv /\ PackagedState /\ IdInv
      /\ Packaged \in Agents /\ Instance \in Agents
      /\ state \in [Agents -> States \cup {NoState}] /\ job \in [Writers -> JobType]
      BY BinTypes DEF HInv, HostTypeOK
<1>1. HostTypeOK'
  <2>1. HostNext  BY DEF HostNext
  <2>2. QED  BY <1>0, <2>1, HostNextTypes
<1>b. /\ place = "idle" /\ place' = "binary" /\ role' = r
      /\ UNCHANGED <<files, good, svc, risk, registered, saved, hadPackaged, spoilt>>
      /\ job' = [job EXCEPT ![Installer] = [at |-> "decide", version |-> v, within |-> NoAgent]]
      BY DEF Begin, InstallBegins
<1>2. JobsInv'  BY <1>0, <1>b DEF JobsInv
<1>3. RecInv'
  <2>1. \A x \in Writers : job'[x].at = job[x].at \/ ~Replacing(x)'
        BY <1>0, <1>b DEF Replacing
  <2>2. CASE risk  BY <1>b, <2>2 DEF RecInv
  <2>3. CASE ~risk  BY <1>0, <1>b, <2>1, <2>3, Beside
  <2>4. QED  BY <2>2, <2>3
<1>4. UnitsInv'
  <2>1. \A u \in Upgraders : job'[u] = job[u]  BY <1>0, <1>b DEF Writers
  <2>2. QED  BY <1>0, <1>b, <2>1 DEF UnitsInv, Window
<1>5. /\ state'[Packaged] = WithId(state[Packaged]) /\ state'[Packaged] # NoState
      /\ state'[Packaged].conn = IF state[Packaged] = NoState THEN "none" ELSE state[Packaged].conn
  <2>1. state'[Packaged] = WithId(state[Packaged])  BY <1>0 DEF Begin
  <2>2. WithId(state[Packaged]) \in States  BY <1>0, WithIdType
  <2>3. QED  BY <2>1, <2>2 DEF WithId
<1>6. PackagedState'  BY <1>0, <1>b, <1>5 DEF PackagedState, Window
<1>7. IdInv'  BY <1>0, <1>b, <1>5 DEF IdInv, Apart, Names, Window
<1>8. QED  BY <1>1, <1>2, <1>3, <1>4, <1>6, <1>7 DEF HInv

\* The installer's own steps, and its failures.
LEMMA InstallerHInv ==
    ASSUME HInv, InstallerStep \/ SnapshotFails \/ SetupPends \/ RelocationFails \/ InstallFails
    PROVE  HInv'
<1>0. /\ HostTypeOK /\ BinTypeOK /\ JobsInv /\ RecInv /\ UnitsInv /\ PackagedState /\ IdInv
      /\ Packaged \in Agents /\ Instance \in Agents /\ Packaged # Instance
      /\ state \in [Agents -> States \cup {NoState}] /\ role \in Agents
      BY DEF HInv, HostTypeOK
<1>1. HostTypeOK'
  <2>1. HostNext  BY DEF HostNext
  <2>2. QED  BY <1>0, <2>1, HostNextTypes
<1> DEFINE Own == PackagedState' /\ IdInv' /\ UnitsInv'
<1>q. ASSUME UNCHANGED <<files, good, svc, job, risk>>, Own  PROVE HInv'
      BY <1>0, <1>1, <1>q, QuietRec DEF HInv
<1>u. UNCHANGED binVars => UNCHANGED <<files, good, svc, job, risk>>  BY DEF binVars
<1>2. CASE Refused
      BY <1>0, <1>2, <1>q, <1>u DEF Refused, binVars, PackagedState, IdInv, Apart, Names, UnitsInv, Window
<1>3. CASE Snapshot
      BY <1>0, <1>3, <1>q, <1>u DEF Snapshot, binVars, PackagedState, IdInv, Apart, Names, UnitsInv, Window
<1>16. CASE SnapshotFails
  <2>1. /\ place = "binary" /\ place' = "enroll"
        /\ UNCHANGED <<files, good, svc, job, risk, state, role, saved, hadPackaged>>
        BY <1>16 DEF SnapshotFails
  <2>2. ~spoilt' => ~spoilt /\ (role = Instance => svc[Packaged].st = "absent")
    <3>1. spoilt' = (spoilt \/ (role = Instance /\ Packaged \in registered))  BY <1>16 DEF SnapshotFails
    <3>2. ~spoilt' => ~spoilt /\ ~(role = Instance /\ Packaged \in registered)  BY <3>1, Zenon
    <3>3. QED  BY <1>0, <2>1, <3>2 DEF PackagedState
  <2>3. Own  BY <1>0, <2>1, <2>2 DEF PackagedState, IdInv, Apart, Names, UnitsInv, Window
  <2>4. QED  BY <1>q, <2>1, <2>3
<1>17. CASE EnrollBegins
  <2>1. WithId(state[Packaged]) \in States  BY <1>0, WithIdType
  <2>2. /\ state'[Packaged] \in States
        /\ \A a \in Agents \ {Packaged} : state'[a] = state[a]
        BY <1>0, <1>17, <2>1 DEF EnrollBegins, States, Connections
  <2>3. /\ place = "enroll" /\ place' = "enrolling"
        /\ UNCHANGED <<files, good, svc, job, risk, registered, role, saved, hadPackaged, spoilt>>
        BY <1>17 DEF EnrollBegins, binVars
  <2>4. Own  BY <1>0, <2>2, <2>3 DEF PackagedState, IdInv, Apart, Names, UnitsInv, Window
  <2>5. QED  BY <1>q, <2>3, <2>4
<1>4. CASE Enroll
  <2>1. WithId(state[Packaged]) \in States  BY <1>0, WithIdType
  <2>2. /\ state'[Packaged] \in States /\ state'[Packaged].conn = ConnectionOf(role)
        /\ \A a \in Agents \ {Packaged} : state'[a] = state[a]
        BY <1>0, <1>4, <2>1 DEF Enroll, States, ConnectionOf, Connections
  <2>3. /\ place = "enrolling" /\ place' = IF role = Packaged THEN "enable" ELSE "setup"
        /\ UNCHANGED <<files, good, svc, job, risk, registered, role, saved, hadPackaged, spoilt>>
        BY <1>4 DEF Enroll, binVars
  <2>4. UnitsInv'  BY <1>0, <2>3 DEF UnitsInv, Window
  <2>5. PackagedState'  BY <1>0, <2>2, <2>3 DEF PackagedState, Window
  <2>6. IdInv'  BY <1>0, <2>2, <2>3 DEF IdInv, Apart, Names, ConnectionOf, Window
  <2>7. QED  BY <1>q, <2>3, <2>4, <2>5, <2>6
<1>5. CASE Setup
  <2>1. /\ EnableNow(Instance) /\ place = "setup" /\ place' = "config"
        /\ UNCHANGED <<files, good, job, state, role, saved, hadPackaged, spoilt>>
        BY <1>5 DEF Setup
  <2>2. registered' \in {registered, registered \cup {Instance}}
        BY <1>5 DEF Setup, Records
  <2>3. role = Instance  BY <1>0, <2>1 DEF UnitsInv, Window
  <2>4. /\ \A b \in Agents \ {Instance} : svc'[b] = svc[b]
        /\ svc'[Instance].copy # NoState => svc'[Instance] = svc[Instance]
        BY <1>0, <2>1, EnableSteady
  <2>5. RecInv'  BY <1>0, <2>1, EnableRec
  <2>6. JobsInv'  BY <1>0, <2>1 DEF JobsInv
  <2>7. UnitsInv'  BY <1>0, <2>1, <2>3, <2>4 DEF UnitsInv, Window
  <2>8. PackagedState'  BY <1>0, <2>1, <2>2, <2>3, <2>4 DEF PackagedState, Window
  <2>9. IdInv'  BY <1>0, <2>1, <2>3, <2>4 DEF IdInv, Apart, Names, Window
  <2>10. QED  BY <1>1, <2>5, <2>6, <2>7, <2>8, <2>9 DEF HInv
<1>6. CASE Configure
  <2>1. /\ place = "config" /\ place' = "relocate" /\ registered' = registered \cup {Instance}
        /\ UNCHANGED <<files, good, svc, job, risk, state, role, saved, hadPackaged, spoilt>>
        BY <1>6 DEF Configure, Records
  <2>2. Own  BY <1>0, <2>1 DEF PackagedState, IdInv, Apart, Names, UnitsInv, Window
  <2>3. QED  BY <1>q, <2>1, <2>2
<1>7. CASE Relocate
  <2>1. /\ place = "relocate" /\ place' = "restore"
        /\ state'[Packaged] = state[Packaged] /\ state'[Instance] = state[Packaged]
        /\ UNCHANGED <<files, good, svc, job, risk, registered, role, saved, hadPackaged, spoilt>>
        BY <1>0, <1>7 DEF Relocate, binVars
  <2>2. role = Instance  BY <1>0, <2>1 DEF UnitsInv, Window
  <2>3. Own  BY <1>0, <2>1, <2>2 DEF PackagedState, IdInv, Apart, Names, UnitsInv, Window
  <2>4. QED  BY <1>q, <2>1, <2>3
<1>8. CASE Restore
  <2>1. /\ place = "restore" /\ place' = "verify" /\ saved' = NoState /\ hadPackaged' = FALSE
        /\ UNCHANGED <<files, good, svc, job, risk, registered, role, spoilt>>
        BY <1>8 DEF Restore, Checks, binVars
  <2>2. role = Instance  BY <1>0, <2>1 DEF UnitsInv, Window
  <2>3. state'[Packaged] = IF saved # NoState THEN saved
                           ELSE IF hadPackaged THEN state[Packaged] ELSE NoState
        BY <1>0, <1>8 DEF Restore
  <2>4. state'[Instance] = state[Instance]  BY <1>0, <1>8 DEF Restore
  <2>5. hadPackaged => saved # NoState  BY <1>0, <2>1 DEF PackagedState, Window
  <2>6. UnitsInv'  BY <1>0, <2>1, <2>2 DEF UnitsInv, Window
  <2>7. PackagedState'  BY <1>0, <2>1, <2>2, <2>3, <2>4, <2>5 DEF PackagedState, Window
  <2>8. IdInv'  BY <1>0, <2>1, <2>2, <2>3, <2>4, <2>5 DEF IdInv, Apart, Names, Window
  <2>9. QED  BY <1>q, <2>1, <2>6, <2>7, <2>8
<1>9. CASE Verified
  <2>1. /\ place = "verify"
        /\ \/ place' = "failed"
           \/ place' = "enable"
        /\ UNCHANGED <<files, good, svc, job, risk, state, registered, role, saved, hadPackaged, spoilt>>
        BY <1>9 DEF Verified, binVars
  <2>2. role = Instance  BY <1>0, <2>1 DEF UnitsInv
  <2>3. Own  BY <1>0, <2>1, <2>2 DEF PackagedState, IdInv, Apart, Names, UnitsInv, Window
  <2>4. QED  BY <1>q, <2>1, <2>3
<1>10. CASE Enable
  <2>1. /\ EnableNow(role) /\ place = "enable" /\ place' \in {"failed", "register"}
        /\ UNCHANGED <<files, good, job, state, registered, role, saved, hadPackaged, spoilt>>
        BY <1>10 DEF Enable
  <2>4. /\ \A b \in Agents \ {role} : svc'[b] = svc[b]
        /\ svc'[role].st = "absent" => svc[role].st = "absent"
        /\ svc'[role].copy # NoState => svc'[role] = svc[role]
        BY <1>0, <2>1, EnableSteady
  <2>5. RecInv'  BY <1>0, <2>1, EnableRec
  <2>6. JobsInv'  BY <1>0, <2>1 DEF JobsInv
  <2>7. UnitsInv'  BY <1>0, <2>1, <2>4 DEF UnitsInv, Window
  <2>8. PackagedState'  BY <1>0, <2>1, <2>4 DEF PackagedState, Window
  <2>9. IdInv'  BY <1>0, <2>1, <2>4 DEF IdInv, Apart, Names, Window
  <2>10. QED  BY <1>1, <2>5, <2>6, <2>7, <2>8, <2>9 DEF HInv
<1>11. CASE Register
  <2>1. /\ place = "register" /\ place' = "done" /\ registered' = registered \cup {role}
        /\ UNCHANGED <<files, good, svc, job, risk, state, role, saved, hadPackaged, spoilt>>
        BY <1>11 DEF Register, Records
  <2>2. Own  BY <1>0, <2>1 DEF PackagedState, IdInv, Apart, Names, UnitsInv, Window
  <2>3. QED  BY <1>q, <2>1, <2>2
<1>12. CASE SetupPends
  <2>1. /\ place = "setup" /\ place' = "config"
        /\ UNCHANGED <<files, good, svc, job, risk, state, registered, role, saved, hadPackaged, spoilt>>
        BY <1>12 DEF SetupPends
  <2>2. Own  BY <1>0, <2>1 DEF PackagedState, IdInv, Apart, Names, UnitsInv, Window
  <2>3. QED  BY <1>q, <2>1, <2>2
<1>13. CASE RelocationFails
  <2>1. /\ place \in {"relocate", "restore"} /\ place' = "verify" /\ spoilt' = TRUE
        /\ UNCHANGED <<files, good, svc, job, risk, state, registered, role>>
        BY <1>13 DEF RelocationFails, Checks
  <2>2. Own  BY <1>0, <2>1 DEF PackagedState, IdInv, Apart, Names, UnitsInv, Window
  <2>3. QED  BY <1>q, <2>1, <2>2
<1>14. CASE InstallFails
  <2>1. /\ place \notin {"idle", "binary"} /\ place' = "failed"
        /\ UNCHANGED <<files, good, svc, job, risk, state, registered, role>>
        BY <1>14 DEF InstallFails, Window
  <2>2. ~spoilt' => ~spoilt /\ place \notin Window
    <3>1. spoilt' = (spoilt \/ place \in Window)  BY <1>14 DEF InstallFails
    <3>2. QED  BY <3>1, Zenon
  <2>3. Own  BY <1>0, <2>1, <2>2 DEF PackagedState, IdInv, Apart, Names, UnitsInv, Window
  <2>4. QED  BY <1>q, <2>1, <2>3
<1>15. QED  BY <1>2, <1>3, <1>4, <1>5, <1>6, <1>7, <1>8, <1>9, <1>10, <1>11, <1>12, <1>13, <1>14,
            <1>16, <1>17 DEF InstallerStep

\* update_state: what an agent puts in place has the connection the file had, or spoils it.
LEMMA UpdateHInv ==
    ASSUME HInv, NEW a \in Agents, UpdateLoads(a) \/ UpdateReplaces(a)
    PROVE  HInv'
<1>0. /\ HostTypeOK /\ BinTypeOK /\ JobsInv /\ RecInv /\ UnitsInv /\ PackagedState /\ IdInv
      /\ Packaged \in Agents /\ Instance \in Agents /\ svc \in [Agents -> ServiceType]
      /\ state \in [Agents -> States \cup {NoState}]
      BY BinTypes DEF HInv, HostTypeOK
<1>1. HostTypeOK'
  <2>1. HostNext  BY DEF HostNext
  <2>2. QED  BY <1>0, <2>1, HostNextTypes
<1>2. /\ UNCHANGED <<files, good, job, risk, registered, place, role, saved, hadPackaged>>
      /\ svc[a].st = "up"
      BY <1>0 DEF UpdateLoads, UpdateReplaces, hostVars, PackagedState
<1>3. /\ \A b \in Agents : svc'[b].st = svc[b].st
      /\ \A b \in Agents \ {a} : svc'[b] = svc[b]
      BY <1>0 DEF UpdateLoads, UpdateReplaces, ServiceType
<1>4. JobsInv'  BY <1>0, <1>2 DEF JobsInv
<1>5. RecInv'
  <2>1. CASE risk  BY <1>2, <2>1 DEF RecInv
  <2>2. CASE ~risk  BY <1>0, <1>2, <1>3, <2>2, Beside
  <2>3. QED  BY <2>1, <2>2
<1>6. UnitsInv'  BY <1>0, <1>2, <1>3 DEF UnitsInv
<1>7. PackagedState' /\ IdInv'
  <2>1. CASE UpdateLoads(a)
    <3>1. UNCHANGED <<state, spoilt>>  BY <2>1 DEF UpdateLoads, hostVars
    <3>2. QED  BY <1>0, <1>2, <1>3, <3>1 DEF PackagedState, IdInv, Apart, Names
  <2>2. CASE UpdateReplaces(a)
    <3>1. /\ svc[a].copy # NoState /\ state' = [state EXCEPT ![a] = svc[a].copy]
          /\ spoilt' = (spoilt \/ (state[a] # NoState /\ svc[a].copy.conn # state[a].conn))
          BY <2>2 DEF UpdateReplaces
    <3>2. ~spoilt' => ~spoilt /\ ~(state[a] # NoState /\ svc[a].copy.conn # state[a].conn)
          BY <3>1, Zenon
    <3>3. /\ state'[a] # NoState /\ \A b \in Agents \ {a} : state'[b] = state[b]
          /\ ~spoilt' => state[a] = NoState \/ state'[a].conn = state[a].conn
          BY <1>0, <3>1, <3>2
    <3>4. PackagedState'  BY <1>0, <1>2, <1>3, <3>3 DEF PackagedState
    <3>5. ~spoilt /\ a = Packaged => state[a] # NoState
          BY <1>0, <1>2 DEF PackagedState, IdInv, Apart, Names
    <3>6. IdInv'  BY <1>0, <1>2, <1>3, <3>2, <3>3, <3>5 DEF IdInv, Apart, Names, Window
    <3>7. QED  BY <3>4, <3>6
  <2>3. QED  BY <2>1, <2>2
<1>8. QED  BY <1>1, <1>4, <1>5, <1>6, <1>7 DEF HInv

LEMMA HostInitInv == HostInit => HInv
<1> SUFFICES ASSUME HostInit PROVE HInv  OBVIOUS
<1>1. HostTypeOK  BY HostTypesInit
<1>2. \A w \in Writers : job[w] = Idle  BY DEF HostInit, BinInit
<1>3. JobsInv  BY <1>2 DEF JobsInv, Idle
<1>4. RecInv
  <2>1. \A w \in Writers : ~Replacing(w)  BY <1>2 DEF Replacing, Idle
  <2>2. CASE risk  BY <2>2 DEF RecInv
  <2>3. CASE ~risk
    <3>1. files = [bin |-> 1, lib |-> 1, bakBin |-> Missing, bakLib |-> Missing] /\ 1 \in good
          BY <2>3 DEF HostInit, BinInit
    <3>2. files.bin = 1 /\ files.lib = 1  BY <3>1
    <3>3. files.bin # Missing  BY <3>2 DEF Missing
    <3>4. GoodInstalled  BY <3>1, <3>2 DEF GoodInstalled, Installed, Whole
    <3>5. QED  BY <2>1, <3>3, <3>4 DEF RecInv
  <2>4. QED  BY <2>2, <2>3
<1>5. /\ svc[Instance].st = "absent" /\ role = Packaged /\ place = "idle" /\ Packaged # Instance
      /\ saved = NoState /\ hadPackaged = FALSE
      /\ registered = {a \in Agents : svc[a].st # "absent"}
      /\ state = [a \in Agents |-> IF a \in registered THEN [id |-> 1, conn |-> "packaged"] ELSE NoState]
      /\ Packaged \in Agents
      BY DEF HostInit
<1>6. UnitsInv  BY <1>2, <1>5 DEF UnitsInv, Idle, Window, AfterRestart, Writers
<1>7. \A a \in Agents : svc[a].copy = NoState
  <2>1. \/ \E units \in SUBSET Agents :
              svc = [a \in Agents |-> IF a \in units THEN Service("up", 1) ELSE Service("absent", Missing)]
        \/ svc = [a \in Agents |-> Service("absent", Missing)]
        BY DEF HostInit, BinInit
  <2>2. Service("up", 1).copy = NoState /\ Service("absent", Missing).copy = NoState  BY DEF Service
  <2>3. QED  BY <2>1, <2>2
<1>8. [id |-> 1, conn |-> "packaged"] # NoState
      BY DEF States, Ids, Connections
<1>9. PackagedState  BY <1>5, <1>7, <1>8 DEF PackagedState, Window
<1>10. IdInv  BY <1>5, <1>8 DEF IdInv, Apart, Names, Window
<1>11. QED  BY <1>1, <1>3, <1>4, <1>6, <1>9, <1>10 DEF HInv

LEMMA HostInductive == HInv /\ [HostNext]_allVars => HInv'
<1> SUFFICES ASSUME HInv, [HostNext]_allVars PROVE HInv'  OBVIOUS
<1>1. CASE UNCHANGED allVars
  <2>1. HostTypeOK'  BY HostNextTypes DEF HInv
  <2>2. RecInv' /\ JobsInv'  BY <1>1, QuietRec DEF HInv, allVars, binVars
  <2>3. UnitsInv' /\ PackagedState' /\ IdInv'
        BY <1>1 DEF HInv, UnitsInv, PackagedState, IdInv, Apart, Names, allVars, binVars, hostVars
  <2>4. QED  BY <2>1, <2>2, <2>3 DEF HInv
<1>2. CASE BinNext /\ UNCHANGED hostVars  BY <1>2, BinHInv
<1>3. CASE \E r \in Agents, v \in Versions : Begin(r, v)  BY <1>3, BeginHInv
<1>4. CASE InstallerStep \/ SnapshotFails \/ SetupPends \/ RelocationFails \/ InstallFails  BY <1>4, InstallerHInv
<1>5. CASE \E a \in Agents : UpdateLoads(a) \/ UpdateReplaces(a)  BY <1>5, UpdateHInv
<1>6. QED  BY <1>1, <1>2, <1>3, <1>4, <1>5 DEF HostNext

LEMMA HostInvariant == HostSpec => []HInv
<1>1. HostInit => HInv  BY HostInitInv
<1>2. HInv /\ [HostNext]_allVars => HInv'  BY HostInductive
<1>3. QED  BY <1>1, <1>2, PTL DEF HostSpec

(* perform_upgrade (installer.py 3994-4010, 4100-4180), for any number of upgrades
   beside each other and of faults: wherever they are cut short, a whole program
   that works is installed or in the backup, but for the hazards that risk names. *)
THEOREM AlwaysRecoverable == HostSpec => []Recoverable
<1>1. HInv => Recoverable
      BY DEF HInv, RecInv, Recoverable, GoodInstalled, GoodBackup
<1>2. QED  BY <1>1, HostInvariant, PTL

(* perform_installation (installer.py 2967-2996, 3030-3060), beside any number of
   upgrades and state updates: past the installer's window an installed packaged agent
   has its own state, and an installed instance has its own, but for the hazards that
   spoilt names. *)
THEOREM IdentitiesStayApart == HostSpec => []IdentitiesApart
<1>1. HInv => IdentitiesApart
      BY DEF HInv, IdInv, IdentitiesApart
<1>2. QED  BY <1>1, HostInvariant, PTL
=============================================================================
