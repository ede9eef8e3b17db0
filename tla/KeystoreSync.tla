---------------------------- MODULE KeystoreSync ----------------------------
(***************************************************************************)
(* The keystore part of a check-in: the password of the policy, then the     *)
(* keys of the policy and of the SNMP channel in one batch.  Three files     *)
(* are replaced one after the other, the keystore, state.json and the        *)
(* environment file that Logstash reads its password from, and the agent     *)
(* may end between any two of them.  The server computes what it sends from  *)
(* what the agent remembers in state.json, never from the keystore.          *)
(* Operators edit the keystore with Logstash's own tool meanwhile.           *)
(*                                                                           *)
(* Values of keys are left out, and so are the other files of a policy       *)
(* (PolicySync).  A keystore's secrets are checked against a password only   *)
(* by decrypting them: without any, every password opens it.                 *)
(***************************************************************************)
EXTENDS Naturals

CONSTANTS
    PolicyKeys, SnmpKeys,   \* names of the keys of either channel
    Passwords,
    None,                   \* no password; of a keystore: it embeds its own
    Keep,                   \* the server's `false`: the password stays
    NoFile,
    MaxEdits, MaxFaults

ASSUME KeystoreAssumption ==
    /\ PolicyKeys \cap SnmpKeys = {}
    /\ {None, Keep} \cap Passwords = {} /\ None # Keep
    /\ MaxEdits \in Nat /\ MaxFaults \in Nat

Keys  == PolicyKeys \cup SnmpKeys
Locks == Passwords \cup {None}

Keystores == [lock : Locks, keys : SUBSET Keys]

ASSUME FileAssumption == NoFile \notin Keystores

VARIABLES
    want,    \* the server's policy, its revision, and its SNMP keys
    ks,      \* logstash.keystore
    mem,     \* state.json: the password, its hash, the remembered keys, the revision
    env,     \* LOGSTASH_KEYSTORE_PASS
    job,     \* the check-in under way
    edits, faults,
    torn,    \* history: a password change ended before its last file
    lost,    \* history: the keystore has no password that the agent could open it with
    gone     \* history: keys that went without being asked for, not sent since

vars == <<want, ks, mem, env, job, edits, faults, torn, lost, gone>>

Places == {"idle", "password", "migrate", "recreate", "stPassword", "stHash", "stSnmp", "env",
           "keys", "replace", "delete", "deleted", "set", "written", "stKeys", "count",
           "restart", "stSnmpKeys", "ack"}

Resting == [at |-> "idle", rev |-> 0, change |-> Keep, set |-> {}, del |-> {}, seen |-> {},
            dirty |-> FALSE, files |-> FALSE, failed |-> FALSE, wiped |-> FALSE]

(* Every variable has its type; an SNMP key is remembered as one of that channel. *)
KTypeOK ==
    /\ want \in [pw : Locks, pol : SUBSET PolicyKeys, snmp : SUBSET SnmpKeys, rev : 1 .. MaxEdits + 1]
    /\ ks \in Keystores \cup {NoFile}
    /\ mem \in [pw : Locks, hash : Locks, keys : SUBSET Keys, snmp : SUBSET SnmpKeys, rev : 0 .. MaxEdits + 1]
    /\ env \in Locks
    /\ job \in [at : Places, rev : 0 .. MaxEdits + 1, change : Locks \cup {Keep},
                set : SUBSET Keys, del : SUBSET Keys, seen : SUBSET Keys,
                dirty : BOOLEAN, files : BOOLEAN, failed : BOOLEAN, wiped : BOOLEAN]
    /\ edits \in 0 .. MaxEdits /\ faults \in 0 .. MaxFaults
    /\ torn \in BOOLEAN /\ lost \in BOOLEAN
    /\ gone \in SUBSET Keys

-----------------------------------------------------------------------------
Stored == IF ks = NoFile THEN {} ELSE ks.keys

(* load: with the password of state.json, or with the keystore's own. *)
OpensWith(pw) ==
    /\ ks # NoFile
    /\ ks.lock = pw \/ (pw # None /\ ks.keys = {})

At(place) == job.at = place
Goes(place) == job' = [job EXCEPT !.at = place]

Ends == job' = Resting

(* An aborted rollout applies nothing more, acknowledges nothing. *)
Aborts == Ends

Fault == faults < MaxFaults /\ faults' = faults + 1

Server == <<want, edits>>
History == <<torn, lost, gone>>

(* What is left after the password: the keys, or the restart and the records. *)
AfterPassword == IF job.set \cup job.del # {} THEN "keys" ELSE "restart"

-----------------------------------------------------------------------------
(* The check-in: what is dirty, and the server's delta *)

Dirty == mem.rev # want.rev \/ mem.snmp # want.snmp

Delta ==
    [at     |-> "password",
     rev    |-> want.rev,
     change |-> IF want.pw = mem.hash THEN Keep ELSE want.pw,
     set    |-> (want.pol \ mem.keys) \cup (want.snmp \ mem.snmp),
     del    |-> ((mem.keys \cap PolicyKeys) \ want.pol) \cup (mem.snmp \ want.snmp),
     seen   |-> {},
     dirty  |-> mem.rev # want.rev,
     files  |-> want.pol # mem.keys \cap PolicyKeys,
     failed |-> FALSE,
     wiped  |-> FALSE]

Fetch ==
    /\ At("idle") /\ Dirty
    /\ job' = Delta
    /\ UNCHANGED <<Server, ks, mem, env, faults, History>>

-----------------------------------------------------------------------------
(* apply_keystore_password_change *)

KeepPassword ==
    /\ At("password") /\ job.change = Keep
    /\ Goes(AfterPassword)
    /\ UNCHANGED <<Server, ks, mem, env, faults, History>>

(* The keystore is deleted, and the rest of the rollout goes on. *)
DecryptFails ==
    /\ At("password") /\ job.change \in Passwords
    /\ ks' = NoFile
    /\ gone' = gone \cup Stored
    /\ lost' = TRUE
    /\ job' = [job EXCEPT !.at = AfterPassword, !.failed = TRUE]
    /\ Fault
    /\ UNCHANGED <<Server, mem, env, torn>>

(* The secrets that migrate will write again. *)
Open ==
    /\ At("password") /\ job.change # Keep
    /\ OpensWith(mem.pw)
    /\ ~(job.change = None /\ mem.pw = None)
    /\ job' = [job EXCEPT !.at = "migrate", !.seen = ks.keys]
    /\ UNCHANGED <<Server, ks, mem, env, faults, History>>

(* Cleared already: only the state is written. *)
AlreadyCleared ==
    /\ At("password") /\ job.change = None
    /\ mem.pw = None /\ OpensWith(None)
    /\ Goes("stPassword")
    /\ UNCHANGED <<Server, ks, mem, env, faults, History>>

(* A keystore that does not open is deleted for a new password, never to clear one. *)
CannotOpen ==
    /\ At("password") /\ job.change # Keep
    /\ ks # NoFile /\ ~OpensWith(mem.pw)
    /\ IF job.change = None
       THEN Aborts /\ UNCHANGED <<ks, gone>>
       ELSE /\ ks' = NoFile
            /\ gone' = gone \cup Stored
            /\ job' = [job EXCEPT !.at = "recreate", !.wiped = TRUE]
    /\ UNCHANGED <<Server, mem, env, faults, torn, lost>>

NoKeystore ==
    /\ At("password") /\ job.change # Keep
    /\ ks = NoFile
    /\ Goes("recreate")
    /\ UNCHANGED <<Server, ks, mem, env, faults, History>>

Migrate ==
    /\ At("migrate")
    /\ ks' = [lock |-> job.change, keys |-> job.seen]
    /\ Goes("stPassword")
    /\ UNCHANGED <<Server, mem, env, faults, History>>

(* Whatever fails in the migration to a new password deletes the keystore. *)
MigrateFails ==
    /\ At("migrate")
    /\ IF job.change = None
       THEN Aborts /\ UNCHANGED <<ks, gone>>
       ELSE /\ ks' = NoFile
            /\ gone' = gone \cup Stored
            /\ job' = [job EXCEPT !.at = "recreate", !.wiped = TRUE]
    /\ Fault
    /\ UNCHANGED <<Server, mem, env, torn, lost>>

Recreate ==
    /\ At("recreate")
    /\ ks' = [lock |-> job.change, keys |-> {}]
    /\ Goes("stPassword")
    /\ UNCHANGED <<Server, mem, env, faults, History>>

StorePassword ==
    /\ At("stPassword")
    /\ mem' = [mem EXCEPT !.pw = job.change]
    /\ lost' = FALSE
    /\ Goes("stHash")
    /\ UNCHANGED <<Server, ks, env, faults, torn, gone>>

StoreHash ==
    /\ At("stHash")
    /\ mem' = [mem EXCEPT !.hash = job.change]
    /\ Goes(IF job.wiped /\ mem.snmp # {} THEN "stSnmp" ELSE "env")
    /\ UNCHANGED <<Server, ks, env, faults, History>>

\* Mutant: the remembered SNMP keys outlive the keystore.
RememberSnmp ==
    /\ At("stSnmp")
    /\ gone' = gone \ SnmpKeys
    /\ Goes("env")
    /\ UNCHANGED <<Server, ks, mem, env, faults, torn, lost>>

(* The SNMP keys are forgotten, to be sent again; the policy's are not. *)
ForgetSnmp ==
    /\ At("stSnmp")
    /\ mem' = [mem EXCEPT !.snmp = {}]
    /\ gone' = gone \ SnmpKeys
    /\ Goes("env")
    /\ UNCHANGED <<Server, ks, env, faults, torn, lost>>

\* Mutant: a password that was cleared stays in the environment file.
WriteEnvIfSet ==
    /\ At("env")
    /\ env' = IF job.change = None THEN env ELSE job.change
    /\ torn' = FALSE
    /\ job' = [job EXCEPT !.at = AfterPassword, !.files = TRUE]
    /\ UNCHANGED <<Server, ks, mem, faults, lost, gone>>

WriteEnv ==
    /\ At("env")
    /\ env' = job.change
    /\ torn' = FALSE
    /\ job' = [job EXCEPT !.at = AfterPassword, !.files = TRUE]
    /\ UNCHANGED <<Server, ks, mem, faults, lost, gone>>

(* An environment file that cannot be written is only logged. *)
EnvFails ==
    /\ At("env")
    /\ torn' = TRUE
    /\ job' = [job EXCEPT !.at = AfterPassword, !.files = TRUE]
    /\ Fault
    /\ UNCHANGED <<Server, ks, mem, env, lost, gone>>

-----------------------------------------------------------------------------
(* update_keystore *)

(* Neither a restart nor the SNMP record follows.  What was deleted before the
   failure stays remembered. *)
Unrecorded == (job.del \cap (mem.keys \cup mem.snmp)) \ Stored

KeysFail ==
    /\ job' = [job EXCEPT !.at = "ack", !.failed = TRUE]
    /\ gone' = gone \cup Unrecorded

Load ==
    /\ At("keys")
    /\ \/ /\ OpensWith(mem.pw)
          /\ job' = [job EXCEPT !.at = "delete", !.seen = ks.keys]
          /\ UNCHANGED <<ks, gone>>
       \/ /\ ks = NoFile
          /\ Goes("replace")
          /\ UNCHANGED <<ks, gone>>
       \/ /\ ks # NoFile /\ mem.pw # None /\ ~OpensWith(mem.pw)     \* incorrect password
          /\ ks' = NoFile
          /\ gone' = gone \cup Stored
          /\ Goes("replace")
       \/ /\ ks # NoFile /\ mem.pw = None /\ ~OpensWith(None)       \* no password at all
          /\ KeysFail
          /\ UNCHANGED ks
    /\ UNCHANGED <<Server, mem, env, faults, torn, lost>>

Replace ==
    /\ At("replace")
    /\ ks' = [lock |-> mem.pw, keys |-> {}]
    /\ job' = [job EXCEPT !.at = "delete", !.seen = {}]
    /\ UNCHANGED <<Server, mem, env, faults, History>>

(* _check_timestamp: keys that were added meanwhile are taken over, keys that
   were removed end the batch.  What is read here is what is written next. *)
Checks(place) ==
    IF job.seen \subseteq Stored
    THEN job' = [job EXCEPT !.at = place, !.seen = Stored] /\ UNCHANGED gone
    ELSE KeysFail

PrepareDelete ==
    /\ At("delete")
    /\ Checks(IF job.del \cap job.seen # {} THEN "deleted" ELSE "set")
    /\ UNCHANGED <<Server, ks, mem, env, faults, torn, lost>>

WriteTo(keys) == ks' = [lock |-> mem.pw, keys |-> keys]

Delete ==
    /\ At("deleted")
    /\ WriteTo(job.seen \ job.del)
    /\ job' = [job EXCEPT !.at = "set", !.seen = @ \ job.del]
    /\ UNCHANGED <<Server, mem, env, faults, History>>

PrepareSet ==
    /\ At("set")
    /\ IF job.set = {} THEN Goes("stKeys") /\ UNCHANGED gone ELSE Checks("written")
    /\ UNCHANGED <<Server, ks, mem, env, faults, torn, lost>>

Set ==
    /\ At("written")
    /\ WriteTo(job.seen \cup job.set)
    /\ gone' = gone \ job.set
    /\ job' = [job EXCEPT !.at = "stKeys", !.seen = @ \cup job.set]
    /\ UNCHANGED <<Server, mem, env, faults, torn, lost>>

(* A value that cannot be decrypted, or a file that cannot be written. *)
KeystoreFails ==
    /\ job.at \in {"replace", "deleted", "set", "written"}
    /\ At("set") => job.set # {}
    /\ KeysFail
    /\ Fault
    /\ UNCHANGED <<Server, ks, mem, env, torn, lost>>

(* Remembered is what the keystore holds; unless it changed again, or the record
   fails, which does not count as a failure. *)
StoreKeys ==
    /\ At("stKeys")
    /\ IF job.seen \subseteq Stored
       THEN /\ mem' = [mem EXCEPT !.keys = Stored]
            /\ job' = [job EXCEPT !.at = "count", !.seen = Stored]
            /\ UNCHANGED gone
       ELSE /\ gone' = gone \cup Unrecorded
            /\ Goes("count")
            /\ UNCHANGED mem
    /\ UNCHANGED <<Server, ks, env, faults, torn, lost>>

StoreKeysFails ==
    /\ At("stKeys")
    /\ gone' = gone \cup Unrecorded
    /\ Goes("count")
    /\ Fault
    /\ UNCHANGED <<Server, ks, mem, env, torn, lost>>

(* The last line logs how many keys there are, and fails where that read does. *)
Count ==
    /\ At("count")
    /\ Checks("restart")
    /\ UNCHANGED <<Server, ks, mem, env, faults, torn, lost>>

-----------------------------------------------------------------------------
(* _apply_merged_plan, after the writes *)

Restart ==
    /\ At("restart")
    /\ Goes("stSnmpKeys")
    /\ UNCHANGED <<Server, ks, mem, env, faults, History>>

RestartFails ==
    /\ At("restart")
    /\ job.set # {} \/ (job.change # Keep /\ ~job.failed)
    /\ job' = [job EXCEPT !.at = "stSnmpKeys", !.failed = TRUE]
    /\ Fault
    /\ UNCHANGED <<Server, ks, mem, env, History>>

(* An SNMP key counts as applied once its hash is among the remembered ones. *)
StoreSnmp ==
    /\ At("stSnmpKeys")
    /\ mem' = [mem EXCEPT !.snmp = (@ \ job.del) \cup (job.set \cap SnmpKeys \cap mem.keys)]
    /\ Goes("ack")
    /\ UNCHANGED <<Server, ks, env, faults, History>>

\* Mutant: the revision is taken over whatever failed.
AckAlways ==
    /\ At("ack")
    /\ mem' = [mem EXCEPT !.rev = job.rev]
    /\ Ends
    /\ UNCHANGED <<Server, ks, env, faults, History>>

Ack ==
    /\ At("ack")
    /\ mem' = IF (job.dirty \/ job.files) /\ ~(job.files /\ job.failed)
              THEN [mem EXCEPT !.rev = job.rev] ELSE mem
    /\ Ends
    /\ UNCHANGED <<Server, ks, env, faults, History>>

-----------------------------------------------------------------------------
(* What may go wrong, and what else happens *)

(* Between the keystore's new password and the last file that has it. *)
Changing == job.at \in {"stPassword", "stHash", "stSnmp", "env"}

(* The agent dies; or a record in state.json cannot be written, which ends the
   check-in there.  Beyond repair are a password that was to be cleared, and one
   that is no longer the policy's: the next change is tried with the old one. *)
Dies ==
    /\ ~At("idle")
    /\ Ends
    /\ torn' = (torn \/ Changing)
    /\ lost' = (lost \/ (At("stPassword") /\ job.change = None) \/ (Changing /\ job.change # want.pw))
    /\ gone' = gone \cup Unrecorded
    /\ Fault
    /\ UNCHANGED <<Server, ks, mem, env>>

(* create fails: there is no keystore. *)
RecreateFails ==
    /\ At("recreate")
    /\ Aborts
    /\ Fault
    /\ UNCHANGED <<Server, ks, mem, env, History>>

(* logstash-keystore, run by an operator. *)
OperatorAdds(k) ==
    /\ ks # NoFile /\ k \notin ks.keys
    /\ ks' = [ks EXCEPT !.keys = @ \cup {k}]
    /\ Fault
    /\ UNCHANGED <<Server, mem, env, job, History>>

OperatorRemoves(k) ==
    /\ k \in Stored
    /\ ks' = [ks EXCEPT !.keys = @ \ {k}]
    /\ gone' = gone \cup {k}
    /\ Fault
    /\ UNCHANGED <<Server, mem, env, job, torn, lost>>

Edit == edits < MaxEdits /\ edits' = edits + 1

(* A password that changes again before a torn change was repaired is beyond repair. *)
PolicyChanges(pw, pol) ==
    /\ <<pw, pol>> # <<want.pw, want.pol>>
    /\ want' = [want EXCEPT !.pw = pw, !.pol = pol, !.rev = @ + 1]
    /\ lost' = (lost \/ (torn /\ pw # want.pw))
    /\ Edit
    /\ UNCHANGED <<ks, mem, env, job, faults, torn, gone>>

SnmpChanges(snmp) ==
    /\ snmp # want.snmp
    /\ want' = [want EXCEPT !.snmp = snmp]
    /\ Edit
    /\ UNCHANGED <<ks, mem, env, job, faults, History>>

-----------------------------------------------------------------------------
(* Either the agent is new, or it is in step with its policy. *)
Init ==
    /\ want \in [pw : Locks, pol : SUBSET PolicyKeys, snmp : SUBSET SnmpKeys, rev : {1}]
    /\ \/ /\ ks = NoFile
          /\ mem = [pw |-> None, hash |-> None, keys |-> {}, snmp |-> {}, rev |-> 0]
          /\ env = None
       \/ /\ ks = [lock |-> want.pw, keys |-> want.pol \cup want.snmp]
          /\ mem = [pw |-> want.pw, hash |-> want.pw, keys |-> ks.keys, snmp |-> want.snmp, rev |-> 1]
          /\ env = want.pw
    /\ job = Resting
    /\ edits = 0 /\ faults = 0
    /\ torn = FALSE /\ lost = FALSE /\ gone = {}

ApplyPassword ==
    \/ KeepPassword \/ Open \/ AlreadyCleared \/ CannotOpen \/ NoKeystore
    \/ Migrate \/ Recreate \/ StorePassword \/ StoreHash \/ ForgetSnmp \/ WriteEnv

UpdateKeystore ==
    \/ Load \/ Replace \/ PrepareDelete \/ Delete \/ PrepareSet \/ Set \/ StoreKeys
    \/ Count

CheckIn == Fetch \/ ApplyPassword \/ UpdateKeystore \/ Restart \/ StoreSnmp \/ Ack

Fails ==
    \/ DecryptFails \/ MigrateFails \/ RecreateFails \/ EnvFails
    \/ KeystoreFails \/ StoreKeysFails \/ RestartFails \/ Dies

Next ==
    \/ CheckIn \/ Fails
    \/ \E k \in Keys : OperatorAdds(k) \/ OperatorRemoves(k)
    \/ \E pw \in Locks, pol \in SUBSET PolicyKeys : PolicyChanges(pw, pol)
    \/ \E snmp \in SUBSET SnmpKeys : SnmpChanges(snmp)

Spec == Init /\ [][Next]_vars

(* The controller's loop goes on, and systemd starts the agent again. *)
FairSpec == Spec /\ WF_vars(CheckIn)

-----------------------------------------------------------------------------
(* Properties *)

(* set_keystore_password and clear_keystore_password (controller.py 244-401): while
   no password change is under way, the keystore, state.json and the environment
   file have the same password.  Outside it (torn): a change that ended before
   its last file, until the next one is through. *)
PasswordsAgree ==
    (~torn /\ ~Changing) =>
        /\ ks # NoFile => ks.lock = mem.pw
        /\ mem.hash = mem.pw
        /\ env = mem.pw

(* _apply_merged_plan (controller.py 2157-2169, 2254-2261): of a revision that is
   acknowledged the keystore holds every key, the remembered hashes being all
   that the server sees of it.  Outside it (gone): keys that went with a deleted
   keystore, were removed by an operator, or were deleted without a record of it,
   and were not sent again since. *)
AckedKeysStored ==
    (At("idle") /\ mem.rev = want.rev) => want.pol \subseteq Stored \cup gone

(* Every failure and death but the ones in "lost" is repaired by later check-ins:
   the password becomes the policy's, and the SNMP keys, those of a keystore
   that was wiped for it included ("SNMP keys will be re-provisioned on next
   check-in", controller.py 315-318), are stored. *)
KeystoreConverges ==
    []<>(lost \/ (/\ mem.pw = want.pw
                  /\ ks # NoFile => ks.lock = want.pw
                  /\ want.snmp \subseteq Stored \cup gone))
=============================================================================
