------------------------ MODULE VersionTrees_proofs ------------------------
(***************************************************************************)
(* Proofs about the shared version trees, for any number of agents,        *)
(* versions, edits, faults and prunes.                                     *)
(***************************************************************************)
EXTENDS VersionTrees, TLAPS

USE DEF Binaries, Parts, Threads, Sync, Nobody, Registries, NoRegistry, Installed, NoPrune

Places == {"idle", "lock", "held", "extract", "register", "record",
           "flip", "answer", "load", "stamp"}

LEMMA SpendType ==
    ASSUME left \in [edits : 0 .. MaxEdits, faults : 0 .. MaxFaults, prunes : 0 .. MaxPrunes],
           NEW what \in {"edits", "faults", "prunes"}, Spend(what)
    PROVE  left' \in [edits : 0 .. MaxEdits, faults : 0 .. MaxFaults, prunes : 0 .. MaxPrunes]
  BY VersionTreesAssumption DEF Spend

(* The version a thread works on. *)
LEMMA VersionType ==
    ASSUME job \in [Agents -> Binaries], NEW t \in Threads
    PROVE  /\ Version(t) \in Binaries
           /\ t[2] # "sync" => Version(t) \in Versions
  BY DEF Version

(* Who is between the lock and its release holds the lock of a real version. *)
Holders == \A t \in Threads : pc[t] \in {"held", "extract"} =>
               Version(t) \in Versions /\ lock[Version(t)] = t

(* A controller that resolves or records has a version to do it for. *)
Jobs == \A a \in Agents : pc[Sync(a)] \in {"lock", "register", "record"} => job[a] \in Versions

TypeInv == TypeOK /\ Holders /\ Jobs

(* What an agent may change in a registry, and what a torn one counts as. *)
LEMMA RegistryType ==
    /\ NoRegistry \in Registries /\ Installed \in Registries
    /\ \A r \in Registries, v \in Versions : [r EXCEPT !.versions = @ \cup {v}] \in Registries
    /\ \A r \in Registries, a \in Agents, b \in Binaries :
          [r EXCEPT !.instance[a] = b] \in Registries
  OBVIOUS

PruneType == [at : {"idle", "env", "list", "next"} \cup Versions, unread : SUBSET Agents,
              keep : SUBSET Binaries, victims : SUBSET Versions, rest : SUBSET Parts]

(* A step of the pruner on its own variables. *)
LEMMA PruneStep ==
    ASSUME TypeInv, PruneGoes(prune') \/ (UNCHANGED <<pins, pc, job, registers, cut>>
                                           /\ UNCHANGED <<lock, todo>>),
           prune' \in PruneType, tree' \in [Versions -> SUBSET Parts],
           hit' \subseteq Versions, moved' \subseteq Agents,
           left' \in [edits : 0 .. MaxEdits, faults : 0 .. MaxFaults, prunes : 0 .. MaxPrunes]
    PROVE  TypeInv'
  BY DEF TypeInv, TypeOK, Holders, Jobs, Version, PruneGoes, PruneType, pins, disk, registers

LEMMA SyncIsThread == ASSUME NEW a \in Agents PROVE Sync(a) \in Threads
  OBVIOUS

LEMMA SyncVersion == ASSUME NEW a \in Agents PROVE Version(Sync(a)) = job[a]
  BY DEF Version

-----------------------------------------------------------------------------
LEMMA TypeInit == Init => TypeInv
  BY VersionTreesAssumption DEF Init, TypeInv, TypeOK, Holders, Jobs

(* The steps inside ensure_logstash_version. *)
LEMMA TypeEnsure ==
    ASSUME TypeInv, NEW t \in Threads, Ensure(t) \/ EnsureFails(t)
    PROVE  TypeInv'
<1> USE DEF TypeInv, Go, pins, registers, history
<1>1. CASE Acquire(t)
  <2>1. Version(t) \in Versions
    BY <1>1, VersionType DEF Acquire, TypeOK, Jobs, Version
  <2> QED
    BY <1>1, <2>1 DEF Acquire, TypeOK, Holders, Jobs, Version
<1>2. CASE FindPresent(t)
  BY <1>2 DEF FindPresent, TypeOK, Holders, Jobs, Version, Resolved, Release
<1>3. CASE BeginExtract(t)
  BY <1>3 DEF BeginExtract, TypeOK, Holders, Jobs, Version
<1>4. CASE ExtractPart(t)
  BY <1>4 DEF ExtractPart, TypeOK, Holders, Jobs, Version
<1>5. CASE EndExtract(t)
  <2>1. /\ pc' \in [Threads -> Places] /\ pc'[t] \in {"idle", "register"}
        /\ \A u \in Threads \ {t} : pc'[u] = pc[u]
    <3>1. \/ pc' = [pc EXCEPT ![t] = "idle"]
          \/ pc' = [pc EXCEPT ![t] = "register"]
      BY <1>5 DEF EndExtract, Resolved
    <3>2. CASE pc' = [pc EXCEPT ![t] = "idle"]
      BY <3>2 DEF TypeOK, Places
    <3>3. CASE pc' = [pc EXCEPT ![t] = "register"]
      BY <3>3 DEF TypeOK, Places
    <3> QED
      BY <3>1, <3>2, <3>3
  <2>2. Version(t) \in Versions
    BY <1>5 DEF EndExtract, Holders
  <2>3. lock' = [lock EXCEPT ![Version(t)] = Nobody]
    BY <1>5 DEF EndExtract, Resolved, Release
  <2>4. UNCHANGED <<target, env, pin, tree, job, todo, registry, copy, prune, cut, hit, moved, left>>
    BY <1>5 DEF EndExtract
  <2>5. TypeOK'
    <3>1. lock' \in [Versions -> Threads \cup {Nobody}]
      BY <2>3 DEF TypeOK
    <3> QED
      BY <2>1, <2>4, <3>1 DEF TypeOK, Places
  <2>6. Holders'
    <3> SUFFICES ASSUME NEW u \in Threads, pc'[u] \in {"held", "extract"}
                 PROVE  Version(u)' \in Versions /\ lock'[Version(u)'] = u
      BY DEF Holders
    <3>1. u # t /\ pc'[u] = pc[u]
      BY <2>1 DEF TypeOK
    <3>2. Version(u) \in Versions /\ lock[Version(u)] = u /\ Version(u)' = Version(u)
      BY <2>4, <3>1 DEF Holders, Version
    <3>3. lock[Version(t)] = t
      BY <1>5 DEF EndExtract, Holders
    <3> QED
      BY <2>2, <2>3, <3>1, <3>2, <3>3 DEF TypeOK
  <2>7. Jobs'
    <3> SUFFICES ASSUME NEW a \in Agents, pc'[Sync(a)] \in {"lock", "register", "record"}
                 PROVE  job'[a] \in Versions
      BY DEF Jobs
    <3>1. CASE t = Sync(a)
      BY <2>2, <2>4, <3>1 DEF Version
    <3>2. CASE t # Sync(a)
      BY <2>1, <2>4, <3>2, SyncIsThread DEF TypeOK, Jobs
    <3> QED
      BY <3>1, <3>2
  <2> QED
    BY <2>5, <2>6, <2>7
<1>6. CASE EnsureFails(t)
  <2>1. left' \in [edits : 0 .. MaxEdits, faults : 0 .. MaxFaults, prunes : 0 .. MaxPrunes]
    BY <1>6, SpendType DEF EnsureFails, TypeOK
  <2>2. Version(t) \in Versions
    BY <1>6 DEF EnsureFails, Holders
  <2> QED
    BY <1>6, <2>1, <2>2 DEF EnsureFails, TypeOK, Holders, Jobs, Version, Release
<1> QED
  BY <1>1, <1>2, <1>3, <1>4, <1>5, <1>6 DEF Ensure

(* The steps of a controller. *)
LEMMA TypeRollout ==
    ASSUME TypeInv, NEW a \in Agents, Hold(a) \/ Rollout(a)
    PROVE  TypeInv'
<1> USE SyncIsThread DEF TypeInv, Go, pins, disk, history
<1>1. CASE Hold(a)
  <2> DEFINE worker == <<a, target[a]>>
  <2>1. worker \in Threads /\ worker[2] # "sync" /\ pc' = [pc EXCEPT ![worker] = "lock"]
    BY <1>1, VersionTreesAssumption DEF Hold, TypeOK
  <2>2. UNCHANGED <<target, env, pin, tree, lock, job, todo, registry, copy, prune, cut, hit, moved, left>>
    BY <1>1 DEF Hold, registers
  <2> HIDE DEF worker
  <2>3. TypeOK'
    BY <2>1, <2>2 DEF TypeOK
  <2>4. Holders'
    BY <2>1, <2>2 DEF TypeOK, Holders, Version
  <2>5. Jobs'
    BY <2>1, <2>2 DEF TypeOK, Jobs
  <2> QED
    BY <2>3, <2>4, <2>5
<1>2. CASE Prepare(a)
  <2>0. PICK place \in {"lock", "flip"} : pc' = [pc EXCEPT ![Sync(a)] = place]
    BY <1>2 DEF Prepare
  <2>1. TypeOK'
    <3>1. pc' \in [Threads -> Places]
      BY <2>0 DEF TypeOK, Places
    <3>2. job' \in [Agents -> Binaries]
      BY <1>2 DEF Prepare, TypeOK
    <3> QED
      BY <1>2, <3>1, <3>2 DEF Prepare, TypeOK, Places, registers
  <2>2. ASSUME NEW b \in Agents, pc'[Sync(b)] \in {"lock", "register", "record"}
        PROVE  job'[b] \in Versions
    <3>1. CASE b = a
      BY <1>2, <2>2, <3>1 DEF Prepare, TypeOK
    <3>2. CASE b # a
      BY <1>2, <2>2, <3>2 DEF Prepare, TypeOK, Jobs
    <3> QED
      BY <3>1, <3>2
  <2>3. ASSUME NEW t \in Threads, pc'[t] \in {"held", "extract"}
        PROVE  Version(t)' \in Versions /\ lock'[Version(t)'] = t
    <3>1. t # Sync(a) /\ pc'[t] = pc[t]
      BY <2>0, <2>3 DEF TypeOK
    <3>2. Version(t)' = Version(t)
      BY <1>2, <3>1 DEF Prepare, Version, TypeOK
    <3> QED
      BY <1>2, <2>3, <3>1, <3>2 DEF Prepare, Holders
  <2> QED
    BY <2>1, <2>2, <2>3 DEF Holders, Jobs
<1>3. CASE LoadRegistry(a)
  <2>1. PICK place \in {"record", "stamp"} :
            pc' = [pc EXCEPT ![Sync(a)] = place] /\ (place = "record" => pc[Sync(a)] = "register")
    BY <1>3 DEF LoadRegistry
  <2>2. TypeOK'
    BY <1>3, <2>1 DEF LoadRegistry, TypeOK
  <2>3. Holders'
    BY <1>3, <2>1 DEF LoadRegistry, TypeOK, Holders, Version
  <2>4. Jobs'
    BY <1>3, <2>1 DEF LoadRegistry, TypeOK, Jobs
  <2> QED
    BY <2>2, <2>3, <2>4
<1>4. CASE RecordVersion(a)
  <2>1. registry' \in Registries
    <3>1. copy[a] \in Registries /\ job[a] \in Versions
      BY <1>4 DEF RecordVersion, TypeOK, Jobs
    <3>2. registry' \in {NoRegistry, [copy[a] EXCEPT !.versions = @ \cup {job[a]}]}
      BY <1>4 DEF RecordVersion, Save
    <3> QED
      BY <3>1, <3>2, RegistryType
  <2> QED
    BY <1>4, <2>1 DEF RecordVersion, TypeOK, Holders, Jobs, Version
<1>5. CASE Flip(a)
  BY <1>5 DEF Flip, SetEnv, TypeOK, Holders, Jobs, Version, registers
<1>6. CASE Commit(a)
  BY <1>6 DEF Commit, TypeOK, Holders, Jobs, Version, registers
<1>7. CASE RollBack(a)
  <2>1. left' \in [edits : 0 .. MaxEdits, faults : 0 .. MaxFaults, prunes : 0 .. MaxPrunes]
    BY <1>7, SpendType DEF RollBack, TypeOK
  <2> QED
    BY <1>7, <2>1 DEF RollBack, SetEnv, TypeOK, Holders, Jobs, Version, registers
<1>8. CASE StampInstance(a)
  <2>1. registry' \in Registries
    <3>1. copy[a] \in Registries /\ job[a] \in Binaries
      BY <1>8 DEF StampInstance, TypeOK
    <3>2. registry' \in {registry, NoRegistry, [copy[a] EXCEPT !.instance[a] = job[a]]}
      BY <1>8 DEF StampInstance, Save
    <3>3. registry \in Registries
      BY DEF TypeOK
    <3> QED
      BY <3>1, <3>2, <3>3, RegistryType
  <2> QED
    BY <1>8, <2>1 DEF StampInstance, TypeOK, Holders, Jobs, Version
<1>9. CASE Recover(a)
  BY <1>9 DEF Recover, SetEnv, TypeOK, Holders, Jobs, Version, registers
<1> QED
  BY <1>1, <1>2, <1>3, <1>4, <1>5, <1>6, <1>7, <1>8, <1>9 DEF Rollout

(* Edits, failures and deaths. *)
LEMMA TypeOthers ==
    ASSUME TypeInv, NEW a \in Agents, EditPolicy(a) \/ Abort(a) \/ Crash(a)
    PROVE  TypeInv'
<1> USE SyncIsThread DEF TypeInv, pins, disk, registers, history
<1>1. left' \in [edits : 0 .. MaxEdits, faults : 0 .. MaxFaults, prunes : 0 .. MaxPrunes]
  BY SpendType DEF EditPolicy, Abort, Crash, TypeOK
<1>2. CASE EditPolicy(a)
  BY <1>1, <1>2 DEF EditPolicy, TypeOK, Holders, Jobs, Version
<1>3. CASE Abort(a)
  BY <1>1, <1>3 DEF Abort, Go, TypeOK, Holders, Jobs, Version
<1>4. CASE Crash(a)
  <2>1. cut' \subseteq Versions
    BY <1>4 DEF Crash, Own, TypeOK, Holders
  <2>2. TypeOK'
    BY <1>1, <1>4, <2>1 DEF Crash, Own, TypeOK
  <2>3. Holders'
    BY <1>4 DEF Crash, Own, TypeOK, Holders, Version
  <2> QED
    BY <1>4, <2>2, <2>3 DEF Crash, Own, TypeOK, Jobs
<1> QED
  BY <1>2, <1>3, <1>4

(* The steps of prune-versions. *)
LEMMA TypePrune ==
    ASSUME TypeInv, Prune \/ KillPrune \/ RemoveFails
    PROVE  TypeInv'
<1>1. /\ PruneGoes(prune') \/ (UNCHANGED <<pins, pc, job, registers, cut>> /\ UNCHANGED <<lock, todo>>)
      /\ left' \in [edits : 0 .. MaxEdits, faults : 0 .. MaxFaults, prunes : 0 .. MaxPrunes]
  <2>1. TypeOK
    BY DEF TypeInv
  <2>2. left' = left \/ Spend("prunes") \/ Spend("faults")
    BY DEF Prune, CollectRegistry, CollectEnv, ListInstalled, RemoveTree, RemovePart,
           RemovedTree, EndPrune, KillPrune, RemoveFails
  <2>3. left' \in [edits : 0 .. MaxEdits, faults : 0 .. MaxFaults, prunes : 0 .. MaxPrunes]
    BY <2>1, <2>2, SpendType DEF TypeOK
  <2> QED
    BY <2>3 DEF Prune, CollectRegistry, CollectEnv, ListInstalled, RemoveTree, RemovePart,
           RemovedTree, EndPrune, KillPrune, RemoveFails, PruneGoes, history
<1>2. TypeOK /\ prune \in PruneType
  BY DEF TypeInv, TypeOK, PruneType
<1>3. tree' \in [Versions -> SUBSET Parts]
  <2>1. CASE RemovePart
    BY <1>2, <2>1 DEF RemovePart, TypeOK
  <2>2. CASE ~ RemovePart
    BY <1>2, <2>2 DEF Prune, CollectRegistry, CollectEnv, ListInstalled, RemoveTree,
                      RemovedTree, EndPrune, KillPrune, RemoveFails, PruneGoes, disk, TypeOK
  <2> QED
    BY <2>1, <2>2
<1>4. hit' \subseteq Versions /\ moved' \subseteq Agents
  BY <1>2 DEF Prune, CollectRegistry, CollectEnv, ListInstalled, RemoveTree, RemovePart,
              RemovedTree, EndPrune, KillPrune, RemoveFails, history, TypeOK
<1>5. prune' \in PruneType
  <2>1. CASE CollectRegistry
    <3>1. registry.versions \cup ({registry.instance[a] : a \in Agents} \cap Binaries) \subseteq Binaries
      BY <1>2 DEF TypeOK
    <3> QED
      BY <2>1, <3>1 DEF CollectRegistry, PruneGoes, PruneType
  <2>2. CASE \E a \in Agents : CollectEnv(a)
    <3>1. PICK a \in Agents : CollectEnv(a)
      BY <2>2
    <3>2. EnvRead(a) \in PruneType /\ env[a] \in Binaries
      BY <1>2 DEF EnvRead, PruneType, TypeOK
    <3>3. [EnvRead(a) EXCEPT !.keep = @ \cup {env[a]}] \in PruneType
      BY <3>2 DEF PruneType
    <3> QED
      BY <3>1, <3>2, <3>3 DEF CollectEnv, PruneGoes
  <2>3. CASE ListInstalled
    BY <1>2, <2>3 DEF ListInstalled, PruneGoes, PruneType
  <2>4. CASE RemoveTree
    <3>1. PICK v \in prune.victims :
              prune' = [prune EXCEPT !.at = v, !.rest = tree[v], !.victims = @ \ {v}]
      BY <2>4 DEF RemoveTree, PruneGoes
    <3>2. v \in Versions /\ tree[v] \subseteq Parts
      BY <1>2, <3>1 DEF TypeOK, PruneType
    <3> QED
      BY <1>2, <3>1, <3>2 DEF PruneType
  <2>5. CASE RemovePart
    BY <1>2, <2>5 DEF RemovePart, PruneType
  <2>6. CASE RemovedTree \/ RemoveFails
    BY <1>2, <2>6 DEF RemovedTree, RemoveFails, PruneGoes, PruneType
  <2>7. CASE EndPrune \/ KillPrune
    BY <2>7 DEF EndPrune, KillPrune, PruneGoes, PruneType
  <2> QED
    BY <2>1, <2>2, <2>3, <2>4, <2>5, <2>6, <2>7 DEF Prune
<1> QED
  BY <1>1, <1>3, <1>4, <1>5, PruneStep

LEMMA TypeNext == TypeInv /\ [Next]_vars => TypeInv'
<1> SUFFICES ASSUME TypeInv, [Next]_vars PROVE TypeInv'
  OBVIOUS
<1>1. CASE UNCHANGED vars
  BY <1>1 DEF vars, TypeInv, TypeOK, Holders, Jobs, Version
<1> QED
  BY <1>1, TypeEnsure, TypeRollout, TypeOthers, TypePrune DEF Next

(* Every variable keeps its shape: locks are held by threads, what is saved is *)
(* a registry, a prune has only versions to remove.                            *)
THEOREM TypeCorrect == Spec => []TypeOK
<1>1. TypeInv => TypeOK
  BY DEF TypeInv
<1> QED
  BY <1>1, TypeInit, TypeNext, PTL DEF Spec

-----------------------------------------------------------------------------
(* Before the pruner lists what is installed it has nothing to remove, and     *)
(* when it does it has read every env file that was not written meanwhile.     *)
NothingYet == prune.at \in {"idle", "env", "list"} => prune.victims = {}
EnvsRead ==
    /\ prune.at \in {"env", "list"} =>
          \A a \in Agents : env[a] \in prune.keep \/ a \in moved \cup prune.unread
    /\ prune.at # "env" => prune.unread = {}
PruneInv   == NothingYet /\ EnvsRead /\ PruneSparesUsed

(* No place of the pruner but the removal of a tree is the name of a binary. *)
LEMMA PlaceIsNoBinary ==
    ASSUME TypeOK, NEW a \in Agents, prune.at \in {"idle", "env", "list", "next"}
    PROVE  env[a] # prune.at
  BY VersionTreesAssumption DEF TypeOK

LEMMA PruneInit == Init => PruneInv
  BY VersionTreesAssumption DEF Init, PruneInv, NothingYet, EnvsRead, PruneSparesUsed

(* An agent that is given another binary during a prune is remembered. *)
LEMMA PruneSetEnv ==
    ASSUME TypeOK, TypeOK', PruneInv, UNCHANGED prune,
           UNCHANGED <<env, moved>> \/ \E a \in Agents, b \in Binaries : SetEnv(a, b)
    PROVE  PruneInv'
<1>1. CASE UNCHANGED <<env, moved>>
  BY <1>1 DEF PruneInv, NothingYet, EnvsRead, PruneSparesUsed
<1>2. CASE \E a \in Agents, b \in Binaries : SetEnv(a, b)
  <2>1. PICK a \in Agents, b \in Binaries : SetEnv(a, b)
    BY <1>2
  <2>2. \A c \in Agents \ {a} : env'[c] = env[c]
    BY <2>1 DEF SetEnv, TypeOK
  <2>3. CASE prune.at = "idle" \/ a \in prune.unread
    <3>0. prune.at \in {"idle", "env"}
      BY <2>3 DEF PruneInv, EnvsRead
    <3>1. moved' = moved /\ prune.victims = {}
      BY <2>1, <2>3, <3>0 DEF SetEnv, PruneInv, NothingYet
    <3>2. \A c \in Agents : env'[c] # prune'.at
      BY <3>0, VersionTreesAssumption DEF TypeOK
    <3> QED
      BY <2>2, <2>3, <3>0, <3>1, <3>2 DEF PruneInv, NothingYet, EnvsRead, PruneSparesUsed
  <2>4. CASE ~ (prune.at = "idle" \/ a \in prune.unread)
    <3>1. moved' = moved \cup {a}
      BY <2>1, <2>4 DEF SetEnv
    <3> QED
      BY <2>2, <3>1 DEF PruneInv, NothingYet, EnvsRead, PruneSparesUsed
  <2> QED
    BY <2>3, <2>4
<1> QED
  BY <1>1, <1>2

LEMMA PrunePrune ==
    ASSUME TypeOK, PruneInv, Prune \/ KillPrune \/ RemoveFails
    PROVE  PruneInv'
<1> USE DEF PruneInv, NothingYet, EnvsRead, PruneSparesUsed, PruneGoes, pins, history
<1> DEFINE Elsewhere == prune'.at \in {"idle", "env", "list", "next"}
<1>0. Elsewhere /\ env' = env => \A a \in Agents : env'[a] # prune'.at
  BY VersionTreesAssumption DEF TypeOK
<1>1. CASE CollectRegistry
  <2>1. env' = env /\ prune'.at = "env" /\ prune'.victims = {} /\ prune'.unread = Agents
    BY <1>1 DEF CollectRegistry
  <2> QED
    BY <1>0, <2>1
<1>2. CASE \E a \in Agents : CollectEnv(a)
  <2>0. PICK a \in Agents : CollectEnv(a)
    BY <1>2
  <2>1. /\ env' = env /\ prune'.at \in {"env", "list"} /\ prune.at = "env"
        /\ prune'.victims = {} /\ prune'.unread = prune.unread \ {a}
        /\ prune'.at = "list" => prune.unread = {a}
    BY <2>0 DEF CollectEnv, EnvRead, TypeOK
  <2>2. /\ prune.keep \subseteq prune'.keep /\ moved \subseteq moved'
        /\ env[a] \in prune'.keep \/ a \in moved'
    <3>1. /\ EnvRead(a).keep = prune.keep
          /\ [EnvRead(a) EXCEPT !.keep = @ \cup {env[a]}].keep = prune.keep \cup {env[a]}
      BY DEF EnvRead, TypeOK
    <3> QED
      BY <2>0, <3>1 DEF CollectEnv
  <2> QED
    BY <1>0, <2>1, <2>2
<1>3. CASE ListInstalled
  <2>1. env' = env /\ moved' = moved /\ prune'.at = "next" /\ prune'.unread = prune.unread
    BY <1>3 DEF ListInstalled, TypeOK
  <2>2. prune'.victims \cap prune.keep = {} /\ prune.at = "list"
    BY <1>3 DEF ListInstalled, TypeOK
  <2> QED
    BY <1>0, <2>1, <2>2
<1>4. CASE RemoveTree
  <2>1. PICK v \in prune.victims :
            prune' = [prune EXCEPT !.at = v, !.rest = tree[v], !.victims = @ \ {v}]
    BY <1>4 DEF RemoveTree
  <2>2. prune'.at = v /\ prune'.victims = prune.victims \ {v}
    BY <2>1 DEF TypeOK
  <2>3. v \in Versions
    BY <2>1 DEF TypeOK
  <2> QED
    BY <1>4, <2>2, <2>3, VersionTreesAssumption DEF RemoveTree
<1>5. CASE RemovePart
  <2>1. prune'.at = prune.at /\ prune'.victims = prune.victims /\ prune'.keep = prune.keep
    BY <1>5 DEF RemovePart, TypeOK
  <2> QED
    BY <1>5, <2>1 DEF RemovePart
<1>6. CASE RemovedTree \/ RemoveFails
  <2>1. /\ env' = env /\ moved' = moved /\ prune'.at = "next" /\ prune'.victims = prune.victims
        /\ prune'.unread = prune.unread /\ prune.at # "env"
    BY <1>6, VersionTreesAssumption DEF RemovedTree, RemoveFails, TypeOK
  <2> QED
    BY <1>0, <2>1
<1>7. CASE EndPrune \/ KillPrune
  <2>1. env' = env /\ prune'.at = "idle" /\ prune'.victims = {} /\ prune'.unread = {}
    BY <1>7 DEF EndPrune, KillPrune
  <2> QED
    BY <1>0, <2>1
<1> QED
  BY <1>1, <1>2, <1>3, <1>4, <1>5, <1>6, <1>7 DEF Prune

LEMMA PruneNext ==
    ASSUME TypeInv, PruneInv, [Next]_vars
    PROVE  PruneInv'
<1>1. TypeOK /\ TypeOK'
  BY TypeNext DEF TypeInv
<1>2. CASE UNCHANGED vars
  BY <1>1, <1>2, PruneSetEnv DEF vars
<1>3. ASSUME NEW t \in Threads, Ensure(t) \/ EnsureFails(t)
      PROVE  UNCHANGED <<prune, env, moved>>
  BY <1>3 DEF Ensure, EnsureFails, Acquire, FindPresent, BeginExtract, ExtractPart,
              EndExtract, pins, history
<1>4. ASSUME NEW a \in Agents, EditPolicy(a) \/ Hold(a) \/ Abort(a) \/ Crash(a)
      PROVE  UNCHANGED <<prune, env, moved>>
  BY <1>4 DEF EditPolicy, Hold, Abort, Crash, pins, history
<1>5. ASSUME NEW a \in Agents, Rollout(a)
      PROVE  /\ UNCHANGED prune
             /\ UNCHANGED <<env, moved>> \/ \E b \in Binaries : SetEnv(a, b)
  <2>1. pin[a] \in Binaries /\ job[a] \in Binaries
    BY <1>1 DEF TypeOK
  <2>2. CASE Flip(a) \/ RollBack(a) \/ Recover(a)
    BY <2>1, <2>2 DEF Flip, RollBack, Recover
  <2>3. CASE ~ (Flip(a) \/ RollBack(a) \/ Recover(a))
    BY <1>5, <2>3 DEF Rollout, Prepare, LoadRegistry, RecordVersion, Commit, StampInstance,
                      pins, history
  <2> QED
    BY <2>2, <2>3
<1>6. CASE \E t \in Threads : Ensure(t) \/ EnsureFails(t)
  BY <1>1, <1>3, <1>6, PruneSetEnv
<1>7. CASE \E a \in Agents : EditPolicy(a) \/ Hold(a) \/ Rollout(a) \/ Abort(a) \/ Crash(a)
  BY <1>1, <1>4, <1>5, <1>7, PruneSetEnv
<1>8. CASE Prune \/ KillPrune \/ RemoveFails
  BY <1>1, <1>8, PrunePrune
<1> QED
  BY <1>2, <1>6, <1>7, <1>8 DEF Next

(* What a prune removes is no agent's binary unless that agent's env file      *)
(* changed after the prune read it, whatever concurrent saves lost from the    *)
(* registry.                                                                   *)
THEOREM UsedAreSpared == Spec => []PruneSparesUsed
<1>1. TypeInv /\ PruneInv /\ [Next]_vars => (TypeInv /\ PruneInv)'
  BY TypeNext, PruneNext
<1>2. PruneInv => PruneSparesUsed
  BY DEF PruneInv
<1> QED
  BY <1>1, <1>2, TypeInit, PruneInit, PTL DEF Spec

-----------------------------------------------------------------------------
(* What excuses a tree that is used and not whole. *)
Settled(b) == Whole(b) \/ b \in cut \cup hit

(* An extraction still has to write what its tree lacks. *)
Extracting == \A t \in Threads :
    pc[t] = "extract" /\ Version(t) \notin hit => tree[Version(t)] \cup todo[t] = Parts
(* A tree that is present is settled, unless a thread extracts it. *)
Finished == \A v \in Versions :
    Present(v) => Settled(v) \/ \E t \in Threads : pc[t] = "extract" /\ Version(t) = v
(* A controller goes on only with a settled tree. *)
Chosen == \A a \in Agents : pc[Sync(a)] \in {"register", "record", "flip"} => Settled(job[a])
Removing == prune.at \in Versions => prune.at \in hit
TreeInv == Extracting /\ Finished /\ Chosen /\ Removing

LEMMA TreeInit == Init => TreeInv
  BY VersionTreesAssumption DEF Init, TreeInv, Extracting, Finished, Chosen, Removing, Present

(* Only an extraction adds to a tree, and only the pruner takes from one. *)
LEMMA TreeSteps ==
    ASSUME [Next]_vars
    PROVE  /\ cut \subseteq cut' /\ hit \subseteq hit'
           /\ tree' = tree \/ RemovePart \/ \E t \in Threads : ExtractPart(t)
<1>1. CASE UNCHANGED vars
  BY <1>1 DEF vars
<1>2. CASE \E t \in Threads : Ensure(t) \/ EnsureFails(t)
  BY <1>2 DEF Ensure, EnsureFails, Acquire, FindPresent, BeginExtract, ExtractPart, EndExtract,
              history
<1>3. CASE \E a \in Agents : EditPolicy(a) \/ Hold(a) \/ Abort(a) \/ Crash(a)
  BY <1>3 DEF EditPolicy, Hold, Abort, Crash, disk, history
<1>4. CASE \E a \in Agents : Rollout(a)
  BY <1>4 DEF Rollout, Prepare, LoadRegistry, RecordVersion, Flip, Commit, RollBack,
              StampInstance, Recover, disk, history
<1>5. CASE Prune \/ KillPrune \/ RemoveFails
  BY <1>5 DEF Prune, CollectRegistry, CollectEnv, ListInstalled, RemoveTree, RemovePart,
              RemovedTree, EndPrune, KillPrune, RemoveFails, PruneGoes, disk, history
<1> QED
  BY <1>1, <1>2, <1>3, <1>4, <1>5 DEF Next

(* A tree that is settled stays so. *)
LEMMA SettledStays ==
    ASSUME TypeInv, Removing, [Next]_vars, NEW b \in Binaries, Settled(b)
    PROVE  Settled(b)'
<1>1. cut \subseteq cut' /\ hit \subseteq hit'
  BY TreeSteps
<1>2. CASE tree' = tree
  BY <1>1, <1>2 DEF Settled, Whole
<1>3. CASE RemovePart
  <2>1. prune.at \in hit /\ \A v \in Versions \ {prune.at} : tree'[v] = tree[v]
    BY <1>3 DEF RemovePart, Removing, TypeInv, TypeOK
  <2> QED
    BY <1>1, <2>1 DEF Settled, Whole
<1>4. ASSUME NEW t \in Threads, ExtractPart(t)
      PROVE  Settled(b)'
  <2>1. \A v \in Versions : tree[v] \subseteq tree'[v] /\ tree'[v] \subseteq Parts
    BY <1>4 DEF ExtractPart, TypeInv, TypeOK
  <2> QED
    BY <1>1, <2>1 DEF Settled, Whole
<1> QED
  BY <1>2, <1>3, <1>4, TreeSteps

(* A step that lets trees and extractions alone. *)
LEMMA Bystander ==
    ASSUME TypeInv, TreeInv, [Next]_vars, UNCHANGED <<tree, todo>>,
           \A t \in Threads : /\ pc'[t] = "extract" <=> pc[t] = "extract"
                              /\ pc[t] = "extract" => Version(t)' = Version(t)
    PROVE  Extracting' /\ Finished'
<1>1. Extracting'
  BY TreeSteps DEF TreeInv, Extracting
<1>2. ASSUME NEW v \in Versions, Present(v)'
      PROVE  Settled(v)' \/ \E t \in Threads : pc'[t] = "extract" /\ Version(t)' = v
  <2>1. Settled(v) \/ \E t \in Threads : pc[t] = "extract" /\ Version(t) = v
    BY <1>2 DEF TreeInv, Finished, Present
  <2> QED
    BY <2>1, SettledStays DEF TreeInv
<1> QED
  BY <1>1, <1>2 DEF Finished

(* A controller that was at its tree, or comes to it when it is settled. *)
LEMMA ChosenStays ==
    ASSUME TypeInv, TreeInv, [Next]_vars,
           \A a \in Agents : pc'[Sync(a)] \in {"register", "record", "flip"} =>
               \/ pc[Sync(a)] \in {"register", "record", "flip"} /\ job'[a] = job[a]
               \/ job'[a] \in Binaries /\ Settled(job'[a])
    PROVE  Chosen'
<1> SUFFICES ASSUME NEW a \in Agents, pc'[Sync(a)] \in {"register", "record", "flip"}
             PROVE  Settled(job[a])'
  BY DEF Chosen
<1>1. PICK b \in Binaries : b = job'[a] /\ Settled(b)
  BY DEF TreeInv, Chosen, TypeInv, TypeOK
<1>2. Settled(b)'
  BY <1>1, SettledStays DEF TreeInv
<1> QED
  BY <1>1, <1>2 DEF Settled, Whole

(* A thread gives back the lock of a tree that is absent or settled. *)
LEMMA Released ==
    ASSUME TypeInv, TreeInv, [Next]_vars,
           NEW t \in Threads, NEW v \in Versions, v = Version(t),
           UNCHANGED <<tree, job>>, pc'[t] # "extract",
           \A u \in Threads \ {t} : pc'[u] = pc[u] /\ todo'[u] = todo[u],
           Present(v) => Settled(v)'
    PROVE  Extracting' /\ Finished'
<1>1. \A u \in Threads : Version(u)' = Version(u)
  BY DEF Version
<1>2. Extracting'
  BY <1>1, TreeSteps DEF TreeInv, Extracting
<1>3. ASSUME NEW w \in Versions, Present(w)'
      PROVE  Settled(w)' \/ \E u \in Threads : pc'[u] = "extract" /\ Version(u)' = w
  <2>1. CASE w = v
    BY <1>3, <2>1 DEF Present
  <2>2. CASE w # v
    <3>1. Settled(w) \/ \E u \in Threads : pc[u] = "extract" /\ Version(u) = w
      BY <1>3 DEF TreeInv, Finished, Present
    <3>2. CASE Settled(w)
      BY <3>2, SettledStays DEF TreeInv
    <3>3. ASSUME NEW u \in Threads, pc[u] = "extract", Version(u) = w
          PROVE  pc'[u] = "extract" /\ Version(u)' = w
      BY <1>1, <2>2, <3>3
    <3> QED
      BY <3>1, <3>2, <3>3
  <2> QED
    BY <2>1, <2>2
<1> QED
  BY <1>2, <1>3 DEF Finished

(* The holder of a lock is the only one to extract that tree. *)
LEMMA HolderIsAlone ==
    ASSUME TypeInv, NEW t \in Threads, pc[t] \in {"held", "extract"},
           NEW u \in Threads, pc[u] = "extract", Version(u) = Version(t)
    PROVE  u = t
  BY DEF TypeInv, Holders

LEMMA TreeEnsure ==
    ASSUME TypeInv, TreeInv, [Next]_vars, NEW t \in Threads, Ensure(t) \/ EnsureFails(t)
    PROVE  Extracting' /\ Finished' /\ Chosen'
<1> USE DEF Go, pins, registers, history
<1>1. UNCHANGED job /\ \A u \in Threads : Version(u)' = Version(u)
  BY DEF Ensure, EnsureFails, Acquire, FindPresent, BeginExtract, ExtractPart, EndExtract, Version
<1>2. pc \in [Threads -> Places] /\ job \in [Agents -> Binaries]
  BY DEF TypeInv, TypeOK, Places
<1>3. (\A u \in Threads \ {t} : pc'[u] = pc[u]) /\ (pc'[t] = "register" => t[2] = "sync")
      /\ pc'[t] \in {"held", "extract", "idle", "register"}
  BY <1>2 DEF Ensure, EnsureFails, Acquire, FindPresent, BeginExtract, ExtractPart, EndExtract,
              Resolved
<1>4. ASSUME pc'[t] = "register" => Settled(Version(t))
      PROVE  Chosen'
  <2>1. ASSUME NEW a \in Agents, pc'[Sync(a)] \in {"register", "record", "flip"}
        PROVE  \/ pc[Sync(a)] \in {"register", "record", "flip"} /\ job'[a] = job[a]
               \/ job'[a] \in Binaries /\ Settled(job'[a])
    <3>1. CASE Sync(a) = t
      <4>1. pc'[t] = "register" /\ Version(t) = job[a]
        BY <1>3, <2>1, <3>1, SyncVersion
      <4> QED
        BY <1>1, <1>2, <1>4, <4>1
    <3>2. CASE Sync(a) # t
      BY <1>1, <1>3, <2>1, <3>2, SyncIsThread
    <3> QED
      BY <3>1, <3>2
  <2> QED
    BY <2>1, ChosenStays
<1>5. CASE Acquire(t)
  <2>1. UNCHANGED <<tree, todo>> /\ pc[t] = "lock" /\ pc'[t] = "held"
    BY <1>2, <1>5 DEF Acquire
  <2> QED
    BY <1>1, <1>3, <1>4, <2>1, Bystander
<1>6. CASE FindPresent(t)
  <2>1. PICK v \in Versions : v = Version(t)
    BY <1>6 DEF FindPresent, TypeInv, Holders
  <2>2. Settled(v)
    <3>1. ~ \E u \in Threads : pc[u] = "extract" /\ Version(u) = v
      BY <1>6, <2>1, HolderIsAlone DEF FindPresent
    <3> QED
      BY <1>6, <2>1, <3>1 DEF FindPresent, TreeInv, Finished
  <2>3. Settled(v)'
    BY <2>2, SettledStays DEF TreeInv
  <2>4. UNCHANGED <<tree, job, todo>>
    BY <1>6 DEF FindPresent
  <2>5. pc'[t] # "extract"
    BY <1>2, <1>6 DEF FindPresent, Resolved
  <2> QED
    BY <1>3, <1>4, <2>1, <2>2, <2>3, <2>4, <2>5, Released
<1>7. CASE BeginExtract(t)
  <2>1. UNCHANGED tree /\ pc'[t] = "extract" /\ todo'[t] = Parts /\ pc[t] = "held"
        /\ \A u \in Threads \ {t} : todo'[u] = todo[u]
    BY <1>2, <1>7 DEF BeginExtract, TypeInv, TypeOK
  <2>2. Extracting'
    <3> SUFFICES ASSUME NEW u \in Threads, pc'[u] = "extract", Version(u)' \notin hit'
                 PROVE  tree'[Version(u)'] \cup todo'[u] = Parts
      BY DEF Extracting
    <3>1. CASE u = t
      <4>1. tree[Version(t)] \subseteq Parts
        BY <1>7 DEF BeginExtract, TypeInv, TypeOK, Holders
      <4> QED
        BY <1>1, <2>1, <3>1, <4>1
    <3>2. CASE u # t
      BY <1>1, <1>3, <2>1, <3>2, TreeSteps DEF TreeInv, Extracting
    <3> QED
      BY <3>1, <3>2
  <2>3. ASSUME NEW w \in Versions, Present(w)'
        PROVE  Settled(w)' \/ \E u \in Threads : pc'[u] = "extract" /\ Version(u)' = w
    <3>1. Settled(w) \/ \E u \in Threads : pc[u] = "extract" /\ Version(u) = w
      BY <2>1, <2>3 DEF TreeInv, Finished, Present
    <3>2. Settled(w) => Settled(w)'
      BY SettledStays DEF TreeInv
    <3> QED
      BY <1>1, <1>3, <2>1, <3>1, <3>2
  <2> QED
    BY <1>4, <2>1, <2>2, <2>3 DEF Finished
<1>8. CASE ExtractPart(t)
  <2>1. PICK part \in todo[t] : /\ tree' = [tree EXCEPT ![Version(t)] = @ \cup {part}]
                                /\ todo' = [todo EXCEPT ![t] = @ \ {part}]
    BY <1>8 DEF ExtractPart
  <2>2. Version(t) \in Versions /\ pc' = pc /\ pc[t] = "extract"
    BY <1>8 DEF ExtractPart, TypeInv, Holders
  <2>3. Extracting'
    <3> SUFFICES ASSUME NEW u \in Threads, pc[u] = "extract", Version(u) \notin hit
                 PROVE  tree'[Version(u)] \cup todo'[u] = Parts
      BY <1>1, <2>2, TreeSteps DEF Extracting
    <3>1. tree[Version(u)] \cup todo[u] = Parts
      BY DEF TreeInv, Extracting
    <3>2. CASE u = t
      <4>1. tree'[Version(t)] = tree[Version(t)] \cup {part} /\ todo'[t] = todo[t] \ {part}
        BY <2>1, <2>2 DEF TypeInv, TypeOK
      <4> QED
        BY <2>1, <3>1, <3>2, <4>1
    <3>3. CASE u # t
      <4>1. Version(u) # Version(t) /\ Version(u) \in Versions
        BY <2>2, <3>3, HolderIsAlone DEF TypeInv, Holders
      <4> QED
        BY <2>1, <3>1, <3>3, <4>1 DEF TypeInv, TypeOK
    <3> QED
      BY <3>2, <3>3
  <2>4. ASSUME NEW w \in Versions, Present(w)'
        PROVE  Settled(w)' \/ \E u \in Threads : pc'[u] = "extract" /\ Version(u)' = w
    <3>1. CASE w = Version(t)
      BY <1>1, <2>2, <3>1
    <3>2. CASE w # Version(t)
      <4>1. Settled(w) \/ \E u \in Threads : pc[u] = "extract" /\ Version(u) = w
        BY <2>1, <2>4, <3>2 DEF TreeInv, TypeInv, TypeOK, Finished, Present
      <4>2. Settled(w) => Settled(w)'
        BY SettledStays DEF TreeInv
      <4> QED
        BY <1>1, <2>2, <4>1, <4>2
    <3> QED
      BY <3>1, <3>2
  <2> QED
    BY <1>4, <2>2, <2>3, <2>4 DEF Finished
<1>9. CASE EndExtract(t)
  <2>1. PICK v \in Versions : v = Version(t)
    BY <1>9 DEF EndExtract, TypeInv, Holders
  <2>2. Settled(v)
    <3>1. v \in hit \/ tree[v] \cup todo[t] = Parts
      BY <1>9, <2>1 DEF EndExtract, TreeInv, Extracting
    <3> QED
      BY <1>9, <3>1 DEF EndExtract, Settled, Whole
  <2>3. Settled(v)'
    BY <2>2, SettledStays DEF TreeInv
  <2>4. UNCHANGED <<tree, job, todo>>
    BY <1>9 DEF EndExtract
  <2>5. pc'[t] # "extract"
    BY <1>2, <1>9 DEF EndExtract, Resolved
  <2> QED
    BY <1>3, <1>4, <2>1, <2>2, <2>3, <2>4, <2>5, Released
<1>10. CASE EnsureFails(t)
  <2>1. PICK v \in Versions : v = Version(t)
    BY <1>10 DEF EnsureFails, TypeInv, Holders
  <2>2. UNCHANGED <<tree, job>> /\ \A u \in Threads \ {t} : todo'[u] = todo[u]
    BY <1>10 DEF EnsureFails, TypeInv, TypeOK
  <2>3. pc'[t] = "idle" /\ pc[t] \in {"held", "extract"}
    BY <1>2, <1>10 DEF EnsureFails
  <2>4. Present(v) => Settled(v)'
    <3>1. CASE pc[t] = "extract"
      BY <1>10, <2>1, <3>1 DEF EnsureFails, Settled
    <3>2. CASE pc[t] = "held" /\ Present(v)
      <4>1. ~ \E u \in Threads : pc[u] = "extract" /\ Version(u) = v
        BY <2>1, <3>2, HolderIsAlone
      <4>2. Settled(v)
        BY <3>2, <4>1 DEF TreeInv, Finished
      <4> QED
        BY <4>2, SettledStays DEF TreeInv
    <3> QED
      BY <2>3, <3>1, <3>2
  <2>5. Extracting' /\ Finished'
    BY <1>3, <2>1, <2>2, <2>3, <2>4, Released
  <2> QED
    BY <1>4, <2>3, <2>5
<1> QED
  BY <1>5, <1>6, <1>7, <1>8, <1>9, <1>10 DEF Ensure

LEMMA TreeRollout ==
    ASSUME TypeInv, TreeInv, [Next]_vars, NEW a \in Agents, Hold(a) \/ Rollout(a)
    PROVE  Extracting' /\ Finished' /\ Chosen'
<1> USE SyncIsThread DEF Go
<1>1. pc \in [Threads -> Places] /\ job \in [Agents -> Binaries] /\ target \in [Agents -> Binaries]
  BY DEF TypeInv, TypeOK, Places
<1>2. UNCHANGED <<tree, todo>>
  BY DEF Hold, Rollout, Prepare, LoadRegistry, RecordVersion, Flip, Commit, RollBack,
         StampInstance, Recover, disk
<1>3. CASE Hold(a)
  <2> DEFINE worker == <<a, target[a]>>
  <2>1. /\ worker \in Threads /\ worker[2] # "sync" /\ pc[worker] = "idle"
        /\ pc' = [pc EXCEPT ![worker] = "lock"] /\ job' = job
    BY <1>1, <1>3, VersionTreesAssumption DEF Hold
  <2> HIDE DEF worker
  <2>2. \A t \in Threads : (pc'[t] = "extract" <=> pc[t] = "extract") /\ Version(t)' = Version(t)
    BY <1>1, <2>1 DEF Version
  <2>3. \A b \in Agents : pc'[Sync(b)] = pc[Sync(b)]
    BY <1>1, <2>1
  <2> QED
    BY <1>2, <2>1, <2>2, <2>3, Bystander, ChosenStays
<1>4. CASE Rollout(a)
  <2>1. \A t \in Threads \ {Sync(a)} : pc'[t] = pc[t]
    BY <1>1, <1>4 DEF Rollout, Prepare, LoadRegistry, RecordVersion, Flip, Commit, RollBack,
                      StampInstance, Recover
  <2>2. pc[Sync(a)] # "extract" /\ pc'[Sync(a)] # "extract"
    BY <1>1, <1>4 DEF Rollout, Prepare, LoadRegistry, RecordVersion, Flip, Commit, RollBack,
                      StampInstance, Recover
  <2>3. \A t \in Threads \ {Sync(a)} : Version(t)' = Version(t)
    BY <1>1, <1>4 DEF Version, Rollout, Prepare, LoadRegistry, RecordVersion, Flip, Commit,
                      RollBack, StampInstance, Recover
  <2>4. Extracting' /\ Finished'
    BY <1>2, <2>1, <2>2, <2>3, Bystander
  <2>5. ASSUME NEW b \in Agents, pc'[Sync(b)] \in {"register", "record", "flip"}
        PROVE  \/ pc[Sync(b)] \in {"register", "record", "flip"} /\ job'[b] = job[b]
               \/ job'[b] \in Binaries /\ Settled(job'[b])
    <3>1. CASE b # a
      <4>1. pc'[Sync(b)] = pc[Sync(b)]
        BY <2>1, <3>1
      <4>2. job'[b] = job[b]
        BY <1>1, <1>4, <3>1 DEF Rollout, Prepare, LoadRegistry, RecordVersion, Flip, Commit,
                                RollBack, StampInstance, Recover
      <4> QED
        BY <2>5, <4>1, <4>2
    <3>2. CASE b = a /\ Prepare(a)
      BY <1>1, <2>5, <3>2 DEF Prepare, Settled, Whole
    <3>3. CASE b = a /\ ~ Prepare(a)
      BY <1>1, <1>4, <2>5, <3>3 DEF Rollout, LoadRegistry, RecordVersion, Flip, Commit,
                                    RollBack, StampInstance, Recover
    <3> QED
      BY <3>1, <3>2, <3>3
  <2> QED
    BY <2>4, <2>5, ChosenStays
<1> QED
  BY <1>3, <1>4

LEMMA TreeOthers ==
    ASSUME TypeInv, TreeInv, [Next]_vars, NEW a \in Agents, EditPolicy(a) \/ Abort(a) \/ Crash(a)
    PROVE  Extracting' /\ Finished' /\ Chosen'
<1>1. pc \in [Threads -> Places]
  BY DEF TypeInv, TypeOK, Places
<1>2. CASE EditPolicy(a) \/ Abort(a)
  <2>1. UNCHANGED <<tree, todo, job>>
    BY <1>2 DEF EditPolicy, Abort, disk
  <2>2. \A t \in Threads : pc'[t] = pc[t] \/ (pc[t] = "flip" /\ pc'[t] = "idle")
    <3>1. CASE EditPolicy(a)
      BY <3>1 DEF EditPolicy
    <3>2. CASE Abort(a)
      <4>1. Sync(a) \in Threads /\ pc[Sync(a)] = "flip"
        BY <3>2, SyncIsThread DEF Abort
      <4>2. pc' = [pc EXCEPT ![Sync(a)] = "idle"]
        BY <3>2 DEF Abort, Go
      <4> QED
        BY <1>1, <4>1, <4>2
    <3> QED
      BY <1>2, <3>1, <3>2
  <2>3. \A t \in Threads : Version(t)' = Version(t)
    BY <2>1 DEF Version
  <2> QED
    BY <2>1, <2>2, <2>3, SyncIsThread, Bystander, ChosenStays
<1>3. CASE Crash(a)
  <2>1. UNCHANGED <<tree, job>> /\ \A t \in Threads : Version(t)' = Version(t)
    BY <1>3 DEF Crash, Version
  <2>2. \A t \in Threads : /\ t \in Own(a) => pc'[t] = "idle"
                           /\ t \notin Own(a) => pc'[t] = pc[t] /\ todo'[t] = todo[t]
    BY <1>3 DEF Crash
  <2>3. Extracting'
    BY <2>1, <2>2, TreeSteps DEF TreeInv, Extracting
  <2>4. ASSUME NEW w \in Versions, Present(w)'
        PROVE  Settled(w)' \/ \E u \in Threads : pc'[u] = "extract" /\ Version(u)' = w
    <3>1. Settled(w) \/ \E u \in Threads : pc[u] = "extract" /\ Version(u) = w
      BY <2>1, <2>4 DEF TreeInv, Finished, Present
    <3>2. Settled(w) => Settled(w)'
      BY SettledStays DEF TreeInv
    <3>3. ASSUME NEW u \in Threads, pc[u] = "extract", Version(u) = w, u \in Own(a)
          PROVE  Settled(w)'
      BY <1>3, <3>3 DEF Crash, Settled
    <3> QED
      BY <2>1, <2>2, <3>1, <3>2, <3>3
  <2> QED
    BY <2>1, <2>2, <2>3, <2>4, SyncIsThread, ChosenStays DEF Finished
<1> QED
  BY <1>2, <1>3

LEMMA TreePrune ==
    ASSUME TypeInv, TreeInv, [Next]_vars, Prune \/ KillPrune \/ RemoveFails
    PROVE  Extracting' /\ Finished' /\ Chosen'
<1>1. UNCHANGED <<pc, job, todo>> /\ \A t \in Threads : Version(t)' = Version(t)
  BY DEF Prune, CollectRegistry, CollectEnv, ListInstalled, RemoveTree, RemovePart,
         RemovedTree, EndPrune, KillPrune, RemoveFails, PruneGoes, disk, Version
<1>2. Chosen'
  BY <1>1, ChosenStays
<1>3. CASE tree' = tree
  BY <1>1, <1>2, <1>3, Bystander
<1>4. CASE RemovePart
  <2>1. prune.at \in hit' /\ \A v \in Versions \ {prune.at} : tree'[v] = tree[v]
    BY <1>4, TreeSteps DEF RemovePart, TreeInv, Removing, TypeInv, TypeOK
  <2>2. Extracting'
    BY <1>1, <2>1, TreeSteps DEF TreeInv, Extracting, TypeInv, Holders
  <2>3. ASSUME NEW w \in Versions, Present(w)'
        PROVE  Settled(w)' \/ \E u \in Threads : pc'[u] = "extract" /\ Version(u)' = w
    <3>1. CASE w = prune.at
      BY <2>1, <3>1 DEF Settled
    <3>2. CASE w # prune.at
      <4>1. Settled(w) \/ \E u \in Threads : pc[u] = "extract" /\ Version(u) = w
        BY <2>1, <2>3, <3>2 DEF TreeInv, Finished, Present
      <4>2. Settled(w) => Settled(w)'
        BY SettledStays DEF TreeInv
      <4> QED
        BY <1>1, <4>1, <4>2
    <3> QED
      BY <3>1, <3>2
  <2> QED
    BY <1>2, <2>2, <2>3 DEF Finished
<1>5. tree' = tree \/ RemovePart
  BY DEF Prune, CollectRegistry, CollectEnv, ListInstalled, RemoveTree,
         RemovedTree, EndPrune, KillPrune, RemoveFails, PruneGoes, disk
<1> QED
  BY <1>3, <1>4, <1>5

(* The pruner says which tree it removes before it removes a part of it. *)
LEMMA RemovingNext ==
    ASSUME TypeInv, TreeInv, [Next]_vars
    PROVE  Removing'
<1>1. CASE UNCHANGED prune
  BY <1>1, TreeSteps DEF TreeInv, Removing
<1>2. CASE Prune \/ KillPrune \/ RemoveFails
  <2>1. prune'.at \in {"idle", "env", "list", "next", prune.at} \/ prune'.at \in hit'
    <3>1. CASE CollectRegistry
      BY <3>1 DEF CollectRegistry, PruneGoes
    <3>7. CASE EndPrune \/ KillPrune
      BY <3>7 DEF EndPrune, KillPrune, PruneGoes
    <3>2. CASE \E a \in Agents : CollectEnv(a)
      BY <3>2 DEF CollectEnv, EnvRead, PruneGoes, TypeInv, TypeOK
    <3>3. CASE ListInstalled
      BY <3>3 DEF ListInstalled, PruneGoes, TypeInv, TypeOK
    <3>4. CASE RemoveTree
      BY <3>4 DEF RemoveTree, PruneGoes, TypeInv, TypeOK
    <3>5. CASE RemovePart
      BY <3>5 DEF RemovePart, TypeInv, TypeOK
    <3>6. CASE RemovedTree \/ RemoveFails
      BY <3>6 DEF RemovedTree, RemoveFails, PruneGoes, TypeInv, TypeOK
    <3> QED
      BY <1>2, <3>1, <3>2, <3>3, <3>4, <3>5, <3>6, <3>7 DEF Prune
  <2> QED
    BY <2>1, TreeSteps, VersionTreesAssumption DEF TreeInv, Removing
<1>3. UNCHANGED prune \/ Prune \/ KillPrune \/ RemoveFails
  <2>1. CASE UNCHANGED vars
    BY <2>1 DEF vars
  <2>2. CASE \E t \in Threads : Ensure(t) \/ EnsureFails(t)
    BY <2>2 DEF Ensure, EnsureFails, Acquire, FindPresent, BeginExtract, ExtractPart, EndExtract
  <2>3. CASE \E a \in Agents : EditPolicy(a) \/ Hold(a) \/ Abort(a) \/ Crash(a)
    BY <2>3 DEF EditPolicy, Hold, Abort, Crash
  <2>4. CASE \E a \in Agents : Rollout(a)
    BY <2>4 DEF Rollout, Prepare, LoadRegistry, RecordVersion, Flip, Commit, RollBack,
                StampInstance, Recover
  <2> QED
    BY <2>1, <2>2, <2>3, <2>4 DEF Next
<1> QED
  BY <1>1, <1>2, <1>3

LEMMA TreeNext ==
    ASSUME TypeInv, TreeInv, [Next]_vars
    PROVE  TreeInv'
<1>1. CASE UNCHANGED vars
  BY <1>1 DEF vars, TreeInv, Extracting, Finished, Chosen, Removing, Settled, Whole, Present,
              Version
<1> QED
  BY <1>1, TreeEnsure, TreeRollout, TreeOthers, TreePrune, RemovingNext DEF Next, TreeInv

(* A flip happens only where a controller chose its tree. *)
THEOREM FlipsAreWhole == Spec => FlipsToWhole
<1>1. TypeInv /\ TreeInv /\ [Next]_vars => (TypeInv /\ TreeInv)'
  BY TypeNext, TreeNext
<1>2. TreeInv => \A a \in Agents : pc[Sync(a)] = "flip" => Whole(job[a]) \/ job[a] \in cut \cup hit
  BY DEF TreeInv, Chosen, Settled
<1>3. TreeInv => [\A a \in Agents : pc[Sync(a)] = "flip" /\ pc'[Sync(a)] = "answer"
                      => Whole(job[a]) \/ job[a] \in cut \cup hit]_vars
  BY <1>2
<1> QED
  BY <1>1, <1>3, TypeInit, TreeInit, PTL DEF Spec, FlipsToWhole

=============================================================================
