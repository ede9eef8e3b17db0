---------------------------- MODULE VersionTrees ----------------------------
(***************************************************************************)
(* The Logstash trees under logstash-versions, shared by the agents of one *)
(* host: downloaded and extracted under a flock per version, found by      *)
(* looking for bin/logstash, switched to by LOGSTASH_BINARY in an agent's  *)
(* env file, recorded in a registry that is rewritten without a lock, and  *)
(* removed by `prune-versions`.  (logstash_download.py, controller.py,     *)
(* install_registry.py, main.py)                                           *)
(*                                                                         *)
(* What a check-in does besides is PolicySync's subject; here a rollout is *)
(* resolve, register, flip, and commit or roll back.  A tree is the set of *)
(* its parts: "bin" is bin/logstash, "lib" all the rest.  Extraction adds  *)
(* them, and a removal drops them, in any order.                           *)
(***************************************************************************)
EXTENDS Naturals

CONSTANTS Agents, Versions,
          MaxEdits,   \* bound on changes of the policies
          MaxFaults,  \* bound on deaths, failures and torn reads
          MaxPrunes,  \* bound on runs of prune-versions
          System      \* the distribution's own Logstash

ASSUME VersionTreesAssumption ==
    /\ System \notin Versions
    /\ (Versions \cup {System}) \cap {"sync", "idle", "env", "list", "next", "none"} = {}
    /\ MaxEdits \in Nat /\ MaxFaults \in Nat /\ MaxPrunes \in Nat

VARIABLES
    target,    \* the Logstash each agent's policy asks for
    env, pin,  \* LOGSTASH_BINARY, and state.json's committed binary
    tree,      \* the parts of each version that are on disk
    lock,      \* who holds .lock-logstash-<version>
    pc,        \* where every thread is
    job,       \* the version a controller rolls out
    todo,      \* the parts an extracting thread has still to write
    registry,  \* install-registry.json: versions recorded, instances' pins
    copy,      \* what an agent loaded of it
    prune,     \* the pruner: place, env files to read, versions to keep, to remove, parts to remove
    cut, hit,  \* history: versions with an extraction cut short; hit by a prune
    moved,     \* history: agents whose env file was written while or since the pruner read it
    left       \* what is left of the three bounds

vars == <<target, env, pin, tree, lock, pc, job, todo, registry, copy, prune,
          cut, hit, moved, left>>

Binaries == Versions \cup {System}
Parts    == {"bin", "lib"}
Threads  == Agents \X ({"sync"} \cup Versions)   \* controllers, download workers
Sync(a)  == <<a, "sync">>
Nobody   == <<>>

(* load_registry takes a registry that cannot be read for an empty one. *)
Unregistered == "none"
NoRegistry == [versions |-> {}, instance |-> [a \in Agents |-> Unregistered]]
Installed  == [versions |-> {}, instance |-> [a \in Agents |-> System]]
NoPrune    == [at |-> "idle", unread |-> {}, keep |-> {}, victims |-> {}, rest |-> {}]

Init ==
    /\ target \in [Agents -> Binaries]
    /\ env = [a \in Agents |-> System] /\ pin = env
    /\ tree = [v \in Versions |-> {}] /\ lock = [v \in Versions |-> Nobody]
    /\ pc = [t \in Threads |-> "idle"] /\ job = env /\ todo = [t \in Threads |-> {}]
    /\ registry = Installed /\ copy = [a \in Agents |-> NoRegistry] /\ prune = NoPrune
    /\ cut = {} /\ hit = {} /\ moved = {}
    /\ left = [edits |-> MaxEdits, faults |-> MaxFaults, prunes |-> MaxPrunes]

Spend(what) == left[what] > 0 /\ left' = [left EXCEPT ![what] = @ - 1]
Go(t, place) == pc' = [pc EXCEPT ![t] = place]

history   == <<cut, hit, moved>>
disk      == <<tree, lock, todo>>
registers == <<registry, copy>>
pins      == <<target, env, pin>>

(* version_is_present: any file bin/logstash will do. *)
Present(v) == "bin" \in tree[v]
Whole(b)   == b \in {System} \cup {v \in Versions : tree[v] = Parts}
Version(t) == IF t[2] = "sync" THEN job[t[1]] ELSE t[2]

EditPolicy(a) ==
    /\ Spend("edits")
    /\ \E b \in Binaries \ {target[a]} : target' = [target EXCEPT ![a] = b]
    /\ UNCHANGED <<env, pin, disk, pc, job, registers, prune, history>>

(***************************************************************************)
(* ensure_logstash_version, by a controller or a download worker           *)
(***************************************************************************)
Acquire(t) ==
    /\ pc[t] = "lock" /\ lock[Version(t)] = Nobody
    /\ lock' = [lock EXCEPT ![Version(t)] = t] /\ Go(t, "held")
    /\ UNCHANGED <<pins, tree, job, todo, registers, prune, history, left>>

Release(t) == lock' = [lock EXCEPT ![Version(t)] = Nobody]
Resolved(t) == Release(t) /\ Go(t, IF t[2] = "sync" THEN "register" ELSE "idle")

FindPresent(t) ==
    /\ pc[t] = "held" /\ Present(Version(t)) /\ Resolved(t)
    /\ UNCHANGED <<pins, tree, job, todo, registers, prune, history, left>>

(* Downloaded and verified; a tarball holds every part. *)
BeginExtract(t) ==
    /\ pc[t] = "held" /\ ~ Present(Version(t))
    /\ todo' = [todo EXCEPT ![t] = Parts] /\ Go(t, "extract")
    /\ UNCHANGED <<pins, tree, lock, job, registers, prune, history, left>>

ExtractPart(t) ==
    /\ pc[t] = "extract"
    /\ \E part \in todo[t] :
          /\ tree' = [tree EXCEPT ![Version(t)] = @ \cup {part}]
          /\ todo' = [todo EXCEPT ![t] = @ \ {part}]
    /\ UNCHANGED <<pins, lock, pc, job, registers, prune, history, left>>

(* The binary is looked for again: a prune may have taken it. *)
EndExtract(t) ==
    /\ pc[t] = "extract" /\ todo[t] = {}
    /\ IF Present(Version(t)) THEN Resolved(t) ELSE Release(t) /\ Go(t, "idle")
    /\ UNCHANGED <<pins, tree, job, todo, registers, prune, history, left>>

(* The download, the checksum or the extraction fails. *)
EnsureFails(t) ==
    /\ pc[t] \in {"held", "extract"} /\ Spend("faults")
    /\ Release(t) /\ Go(t, "idle")
    /\ cut' = IF pc[t] = "extract" THEN cut \cup {Version(t)} ELSE cut
    /\ todo' = [todo EXCEPT ![t] = {}]
    /\ UNCHANGED <<pins, tree, job, registers, prune, hit, moved>>

Ensure(t) == Acquire(t) \/ FindPresent(t) \/ BeginExtract(t) \/ ExtractPart(t) \/ EndExtract(t)

(***************************************************************************)
(* A controller's rollout of another Logstash                              *)
(***************************************************************************)
\* Mutant: the worker is announced and not started.
HoldPending(a) ==
    LET worker == <<a, target[a]>> IN
    /\ pc[Sync(a)] = "idle" /\ env[a] = pin[a] /\ target[a] # pin[a]
    /\ target[a] # System /\ ~ Present(target[a]) /\ pc[worker] = "idle" /\ Go(worker, "pending")
    /\ UNCHANGED <<pins, disk, job, registers, prune, history, left>>

(* A worker makes a missing tree, and the revision is held meanwhile. *)
Hold(a) ==
    LET worker == <<a, target[a]>> IN
    /\ pc[Sync(a)] = "idle" /\ env[a] = pin[a] /\ target[a] # pin[a]
    /\ target[a] # System /\ ~ Present(target[a]) /\ pc[worker] = "idle" /\ Go(worker, "lock")
    /\ UNCHANGED <<pins, disk, job, registers, prune, history, left>>

\* Mutant: a tree that is present is not resolved under its lock.
PrepareUnlocked(a) ==
    /\ pc[Sync(a)] = "idle" /\ env[a] = pin[a] /\ target[a] # pin[a]
    /\ job' = [job EXCEPT ![a] = target[a]]
    /\ IF target[a] = System THEN Go(Sync(a), "flip")
       ELSE Present(target[a]) /\ pc[<<a, target[a]>>] = "idle" /\ Go(Sync(a), "register")
    /\ UNCHANGED <<pins, disk, registers, prune, history, left>>

Prepare(a) ==
    /\ pc[Sync(a)] = "idle" /\ env[a] = pin[a] /\ target[a] # pin[a]
    /\ job' = [job EXCEPT ![a] = target[a]]
    /\ IF target[a] = System THEN Go(Sync(a), "flip")
       ELSE Present(target[a]) /\ pc[<<a, target[a]>>] = "idle" /\ Go(Sync(a), "lock")
    /\ UNCHANGED <<pins, disk, registers, prune, history, left>>

(* Load the registry, change it, replace it; both save through one .tmp file. *)
LoadRegistry(a) ==
    /\ \/ pc[Sync(a)] = "register" /\ Go(Sync(a), "record")
       \/ pc[Sync(a)] = "load" /\ Go(Sync(a), "stamp")
    /\ copy' = [copy EXCEPT ![a] = registry]
    /\ UNCHANGED <<pins, disk, job, registry, prune, history, left>>

Stamps(a) == pc[Sync(a)] = "stamp" /\ copy[a].instance[a] # Unregistered
Saves(a)  == pc[Sync(a)] = "record" \/ Stamps(a)
Save(a, new) ==
    \/ registry' = new
    \/ (\E b \in Agents \ {a} : Saves(b)) /\ registry' = NoRegistry

RecordVersion(a) ==
    /\ pc[Sync(a)] = "record" /\ Go(Sync(a), "flip")
    /\ Save(a, [copy[a] EXCEPT !.versions = @ \cup {job[a]}])
    /\ copy' = [copy EXCEPT ![a] = NoRegistry]
    /\ UNCHANGED <<pins, disk, job, prune, history, left>>

SetEnv(a, b) ==
    /\ env' = [env EXCEPT ![a] = b]
    /\ moved' = IF prune.at = "idle" \/ a \in prune.unread THEN moved ELSE moved \cup {a}

Flip(a) ==
    /\ pc[Sync(a)] = "flip" /\ SetEnv(a, job[a]) /\ Go(Sync(a), "answer")
    /\ UNCHANGED <<target, pin, disk, job, registers, prune, cut, hit, left>>

(* The process of a whole tree answers. *)
Commit(a) ==
    /\ pc[Sync(a)] = "answer" /\ Whole(job[a])
    /\ pin' = [pin EXCEPT ![a] = job[a]] /\ Go(Sync(a), "load")
    /\ UNCHANGED <<target, env, disk, job, registers, prune, history, left>>

RollBack(a) ==
    /\ pc[Sync(a)] = "answer"
    /\ IF Whole(job[a]) THEN Spend("faults") ELSE UNCHANGED left
    /\ SetEnv(a, pin[a]) /\ Go(Sync(a), "idle")
    /\ UNCHANGED <<target, pin, disk, job, registers, prune, cut, hit>>

(* An instance that the registry has lost is not entered again. *)
StampInstance(a) ==
    /\ pc[Sync(a)] = "stamp" /\ Go(Sync(a), "idle")
    /\ \/ Stamps(a) /\ Save(a, [copy[a] EXCEPT !.instance[a] = job[a]])
       \/ ~ Stamps(a) /\ UNCHANGED registry
    /\ copy' = [copy EXCEPT ![a] = NoRegistry]
    /\ UNCHANGED <<pins, disk, job, prune, history, left>>

(* A flip that was never committed is undone by the next check-in. *)
Recover(a) ==
    /\ pc[Sync(a)] = "idle" /\ env[a] # pin[a] /\ SetEnv(a, pin[a])
    /\ UNCHANGED <<target, pin, disk, pc, job, registers, prune, cut, hit, left>>

(* A step of the rollout that is not about the tree fails. *)
Abort(a) ==
    /\ pc[Sync(a)] = "flip" /\ Spend("faults") /\ Go(Sync(a), "idle")
    /\ UNCHANGED <<pins, disk, job, registers, prune, history>>

Rollout(a) == \/ Prepare(a) \/ LoadRegistry(a) \/ RecordVersion(a) \/ Flip(a)
              \/ Commit(a) \/ RollBack(a) \/ StampInstance(a) \/ Recover(a)

(* The process dies, with its workers; the kernel drops its locks. *)
Own(a) == {t \in Threads : t[1] = a}

\* Mutant: a lock outlives its process, as a lock file without flock would.
CrashKeepsLocks(a) ==
    /\ Spend("faults") /\ \E t \in Own(a) : pc[t] # "idle"
    /\ pc' = [t \in Threads |-> IF t \in Own(a) THEN "idle" ELSE pc[t]]
    /\ todo' = [t \in Threads |-> IF t \in Own(a) THEN {} ELSE todo[t]]
    /\ cut' = cut \cup {Version(t) : t \in {u \in Own(a) : pc[u] = "extract"}}
    /\ copy' = [copy EXCEPT ![a] = NoRegistry]
    /\ UNCHANGED <<pins, lock, tree, job, registry, prune, hit, moved>>

Crash(a) ==
    /\ Spend("faults") /\ \E t \in Own(a) : pc[t] # "idle"
    /\ pc' = [t \in Threads |-> IF t \in Own(a) THEN "idle" ELSE pc[t]]
    /\ todo' = [t \in Threads |-> IF t \in Own(a) THEN {} ELSE todo[t]]
    /\ lock' = [v \in Versions |-> IF lock[v] \in Own(a) THEN Nobody ELSE lock[v]]
    /\ cut' = cut \cup {Version(t) : t \in {u \in Own(a) : pc[u] = "extract"}}
    /\ copy' = [copy EXCEPT ![a] = NoRegistry]
    /\ UNCHANGED <<pins, tree, job, registry, prune, hit, moved>>

(***************************************************************************)
(* prune-versions                                                          *)
(***************************************************************************)
PruneGoes(p) == prune' = p /\ UNCHANGED <<pins, disk, pc, job, registers, cut>>

CollectRegistry ==
    /\ prune.at = "idle" /\ Spend("prunes")
    /\ PruneGoes([NoPrune EXCEPT !.at = "env", !.unread = Agents,
           !.keep = registry.versions \cup ({registry.instance[a] : a \in Agents} \cap Binaries)])
    /\ UNCHANGED <<hit, moved>>

EnvRead(a) == [prune EXCEPT !.unread = @ \ {a},
                            !.at = IF prune.unread = {a} THEN "list" ELSE "env"]

\* Mutant: the env files are not looked at.
CollectNothing(a) ==
    /\ prune.at = "env" /\ a \in prune.unread
    /\ PruneGoes(EnvRead(a)) /\ UNCHANGED <<hit, moved, left>>

(* The env files are read one after the other.  One that its agent is writing, *)
(* this variable or another, is truncated first and names no binary.           *)
CollectEnv(a) ==
    /\ prune.at = "env" /\ a \in prune.unread
    /\ \/ /\ PruneGoes([EnvRead(a) EXCEPT !.keep = @ \cup {env[a]}])
          /\ UNCHANGED <<moved, left>>
       \/ /\ PruneGoes(EnvRead(a)) /\ Spend("faults")
          /\ moved' = moved \cup {a}
    /\ UNCHANGED hit

ListInstalled ==
    /\ prune.at = "list"
    /\ PruneGoes([prune EXCEPT !.at = "next",
                               !.victims = {v \in Versions : Present(v)} \ prune.keep])
    /\ UNCHANGED <<hit, moved, left>>

(* rmtree removes what it lists; what appears meanwhile may stay. *)
RemoveTree ==
    /\ prune.at = "next"
    /\ \E v \in prune.victims :
          /\ PruneGoes([prune EXCEPT !.at = v, !.rest = tree[v], !.victims = @ \ {v}])
          /\ hit' = hit \cup {v}
    /\ UNCHANGED <<moved, left>>

RemovePart ==
    /\ prune.at \in Versions
    /\ \E part \in prune.rest :
          /\ tree' = [tree EXCEPT ![prune.at] = @ \ {part}]
          /\ prune' = [prune EXCEPT !.rest = @ \ {part}]
    /\ UNCHANGED <<pins, lock, pc, job, todo, registers, history, left>>

RemovedTree ==
    /\ prune.at \in Versions /\ prune.rest = {}
    /\ PruneGoes([prune EXCEPT !.at = "next"]) /\ UNCHANGED <<hit, moved, left>>

EndPrune ==
    /\ prune.at = "next" /\ prune.victims = {} /\ PruneGoes(NoPrune)
    /\ moved' = {} /\ UNCHANGED <<hit, left>>

KillPrune ==
    /\ prune.at # "idle" /\ Spend("faults") /\ PruneGoes(NoPrune)
    /\ moved' = {} /\ UNCHANGED hit

(* An error ends the removal of one tree; the next one is tried. *)
RemoveFails ==
    /\ prune.at \in Versions /\ Spend("faults")
    /\ PruneGoes([prune EXCEPT !.at = "next", !.rest = {}]) /\ UNCHANGED <<hit, moved>>

Prune == \/ CollectRegistry \/ (\E a \in Agents : CollectEnv(a)) \/ ListInstalled \/ RemoveTree
         \/ RemovePart \/ RemovedTree \/ EndPrune

Next == \/ \E t \in Threads : Ensure(t) \/ EnsureFails(t)
        \/ \E a \in Agents : EditPolicy(a) \/ Hold(a) \/ Rollout(a) \/ Abort(a) \/ Crash(a)
        \/ Prune \/ KillPrune \/ RemoveFails

Spec == Init /\ [][Next]_vars

(* Threads run on. *)
FairSpec == /\ Spec
            /\ \A t \in Threads : WF_vars(Ensure(t))
            /\ \A a \in Agents : WF_vars(Hold(a)) /\ WF_vars(Rollout(a))

-----------------------------------------------------------------------------
Registries == [versions : SUBSET Versions, instance : [Agents -> Binaries \cup {Unregistered}]]

(* Every variable keeps its shape. *)
TypeOK ==
    /\ target \in [Agents -> Binaries] /\ env \in [Agents -> Binaries]
    /\ pin \in [Agents -> Binaries] /\ job \in [Agents -> Binaries]
    /\ tree \in [Versions -> SUBSET Parts]
    /\ lock \in [Versions -> Threads \cup {Nobody}]
    /\ pc \in [Threads -> {"idle", "lock", "held", "extract", "register", "record",
                           "flip", "answer", "load", "stamp"}]
    /\ todo \in [Threads -> SUBSET Parts]
    /\ registry \in Registries /\ copy \in [Agents -> Registries]
    /\ prune \in [at : {"idle", "env", "list", "next"} \cup Versions, unread : SUBSET Agents,
                  keep : SUBSET Binaries, victims : SUBSET Versions, rest : SUBSET Parts]
    /\ cut \subseteq Versions /\ hit \subseteq Versions /\ moved \subseteq Agents
    /\ left \in [edits : 0 .. MaxEdits, faults : 0 .. MaxFaults, prunes : 0 .. MaxPrunes]

(* What a prune removes is no agent's binary unless that agent's env file was *)
(* written while or after the prune read it: recorded versions may be lost    *)
(* from the registry by concurrent saves, and the env files make up for it    *)
(* (collect_in_use_versions).                                                 *)
PruneSparesUsed ==
    \A a \in Agents :
        env[a] \in prune.victims \cup {prune.at} => a \in moved

(* An agent switches to a tree only when all of it is there, unless a prune    *)
(* took parts of it or an extraction of it was cut short: a tree that another  *)
(* process is still extracting is present, but resolving it waits for the lock *)
(* (prepare_runtime_upgrade).                                                  *)
FlipsToWhole ==
    [][\A a \in Agents : pc[Sync(a)] = "flip" /\ pc'[Sync(a)] = "answer"
          => Whole(job[a]) \/ job[a] \in cut \cup hit]_vars

(* Every agent gets the Logstash its policy asks for, whoever dies with the     *)
(* lock, unless its tree is there but not whole, which nobody repairs.         *)
Broken(b) == b # System /\ Present(b) /\ ~ Whole(b)
AgentsCatchUp == \A a \in Agents : <>[](env[a] = target[a] \/ Broken(target[a]))

=============================================================================
