------------------------ MODULE KeystoreSync_proofs ------------------------
(***************************************************************************)
(* Two properties of the keystore for every set of keys and passwords.     *)
(* PasswordsAgree speaks of the times between two changes of the password, *)
(* and AckedKeysStored of those between two check-ins; the invariants say  *)
(* what a change or a check-in under way has done so far, by the place     *)
(* that it has reached.                                                    *)
(***************************************************************************)
EXTENDS KeystoreSync, TLAPS

\* The history of torn changes apart, what each place of a change relies on.
Halfway ==
    /\ job.at \in {"migrate", "recreate", "stPassword", "stHash", "stSnmp", "env"} => job.change # Keep
    /\ job.at \in {"stPassword", "stHash", "stSnmp", "env"} => (ks # NoFile => ks.lock = job.change)
    /\ job.at \in {"stHash", "stSnmp", "env"} => mem.pw = job.change
    /\ job.at \in {"stSnmp", "env"} => mem.hash = job.change

\* The inductive invariant.
KInv == KTypeOK /\ want.rev <= edits + 1 /\ Halfway /\ PasswordsAgree

USE KeystoreAssumption, FileAssumption

-----------------------------------------------------------------------------
LEMMA StoredKeys == ASSUME KTypeOK  PROVE Stored \in SUBSET Keys
BY DEF KTypeOK, Stored, Keystores

\* A check-in that ends in the middle.
LEMMA Ended ==
    ASSUME KInv, Ends, UNCHANGED <<want, edits, mem, env>>,
           ks' \in {ks, NoFile}, faults' \in {faults, faults + 1}, faults' <= MaxFaults,
           torn' \in BOOLEAN, lost' \in BOOLEAN, gone' \in SUBSET Keys,
           torn' = (torn \/ Changing)
    PROVE  KInv'
<1>1. KTypeOK'  BY DEF KInv, KTypeOK, Ends, Resting, Places
<1>2. Halfway'  BY DEF Halfway, Ends, Resting
<1>3. PasswordsAgree'  BY DEF KInv, PasswordsAgree, Ends, Resting, Changing
<1>4. QED  BY <1>1, <1>2, <1>3 DEF KInv

LEMMA KInvInit == Init => KInv
<1> SUFFICES ASSUME Init  PROVE KInv  OBVIOUS
<1>1. job = Resting /\ ~Changing  BY DEF Init, Resting, Changing
<1>2. KTypeOK
  <2>1. want \in [pw : Locks, pol : SUBSET PolicyKeys, snmp : SUBSET SnmpKeys, rev : {1}]
        BY DEF Init
  <2>2. want \in [pw : Locks, pol : SUBSET PolicyKeys, snmp : SUBSET SnmpKeys, rev : 1 .. MaxEdits + 1]
        BY <2>1
  <2>3. /\ ks \in Keystores \cup {NoFile} /\ env \in Locks
        /\ mem \in [pw : Locks, hash : Locks, keys : SUBSET Keys, snmp : SUBSET SnmpKeys, rev : 0 .. MaxEdits + 1]
    <3>0. [lock |-> want.pw, keys |-> want.pol \cup want.snmp] \in Keystores
          BY <2>1 DEF Keystores, Keys
    <3>1. CASE ks = NoFile  BY <3>0, <3>1 DEF Init, Locks
    <3>2. CASE ks # NoFile
      <4>1. ks = [lock |-> want.pw, keys |-> want.pol \cup want.snmp]  BY <3>2 DEF Init
      <4>2. ks.keys \in SUBSET Keys  BY <2>1, <4>1 DEF Keys
      <4>3. QED  BY <2>1, <3>0, <3>2, <4>1, <4>2 DEF Init
    <3>3. QED  BY <3>1, <3>2
  <2>4. job \in [at : Places, rev : 0 .. MaxEdits + 1, change : Locks \cup {Keep},
                 set : SUBSET Keys, del : SUBSET Keys, seen : SUBSET Keys,
                 dirty : BOOLEAN, files : BOOLEAN, failed : BOOLEAN, wiped : BOOLEAN]
        BY <1>1 DEF Resting, Places
  <2>5. edits = 0 /\ faults = 0 /\ torn = FALSE /\ lost = FALSE /\ gone = {}  BY DEF Init
  <2>6. edits \in 0 .. MaxEdits /\ faults \in 0 .. MaxFaults  BY <2>5
  <2>7. torn \in BOOLEAN /\ lost \in BOOLEAN /\ gone \in SUBSET Keys  BY <2>5
  <2>8. QED  BY <2>2, <2>3, <2>4, <2>6, <2>7, Zenon DEF KTypeOK
<1>3. want.rev <= edits + 1  BY DEF Init
<1>4. Halfway  BY <1>1 DEF Halfway, Resting
<1>5. PasswordsAgree  BY DEF Init, PasswordsAgree
<1>6. QED  BY <1>2, <1>3, <1>4, <1>5 DEF KInv

LEMMA KInvFetch == ASSUME KInv, Fetch  PROVE KInv'
<1> USE DEF KInv
<1>1. KTypeOK'  BY DEF Fetch, Delta, Server, History, KTypeOK, Places, Locks, Keys
<1>2. (want.rev <= edits + 1)'  BY DEF Fetch, Server
<1>3. Halfway'  BY DEF Fetch, Delta, Halfway
<1>4. PasswordsAgree'  BY DEF Fetch, Delta, PasswordsAgree, Changing, Server, History, At
<1>5. QED  BY <1>1, <1>2, <1>3, <1>4

LEMMA KInvApply == ASSUME KInv, ApplyPassword  PROVE KInv'
<1> USE DEF KInv
<1>t. job \in [at : Places, rev : 0 .. MaxEdits + 1, change : Locks \cup {Keep},
                set : SUBSET Keys, del : SUBSET Keys, seen : SUBSET Keys,
                dirty : BOOLEAN, files : BOOLEAN, failed : BOOLEAN, wiped : BOOLEAN]
      BY DEF KTypeOK
<1>1. CASE KeepPassword
  <2>1. KTypeOK'  BY <1>1 DEF KeepPassword, Goes, AfterPassword, Server, History, KTypeOK, Places
  <2>2. QED  BY <1>1, <1>t, <2>1 DEF KeepPassword, Goes, At, AfterPassword, Server, History, Halfway, PasswordsAgree, Changing
<1>2. CASE Open
  <2>1. KTypeOK'  BY <1>2 DEF Open, OpensWith, Server, History, KTypeOK, Places, Keystores
  <2>2. QED  BY <1>2, <1>t, <2>1 DEF Open, At, Server, History, Halfway, PasswordsAgree, Changing
<1>3. CASE AlreadyCleared
  <2>1. KTypeOK'  BY <1>3 DEF AlreadyCleared, Goes, Server, History, KTypeOK, Places
  <2>2. QED  BY <1>3, <1>t, <2>1 DEF AlreadyCleared, OpensWith, Goes, At, Server, History, Halfway, PasswordsAgree, Changing
<1>4. CASE CannotOpen
  <2>1. CASE job.change = None
        BY <1>4, <2>1, Ended DEF CannotOpen, Aborts, At, Changing, Server, KTypeOK
  <2>2. CASE job.change # None
    <3>0. /\ ks' = NoFile /\ gone' \in SUBSET Keys
          /\ job' = [job EXCEPT !.at = "recreate", !.wiped = TRUE]
          BY <1>4, <2>2, StoredKeys DEF CannotOpen, KTypeOK
    <3>1. KTypeOK'  BY <1>4, <3>0 DEF CannotOpen, Server, KTypeOK, Places
    <3>2. QED  BY <1>4, <1>t, <2>2, <3>1 DEF CannotOpen, At, Server, Halfway, PasswordsAgree, Changing
  <2>3. QED  BY <2>1, <2>2
<1>5. CASE NoKeystore
  <2>1. KTypeOK'  BY <1>5 DEF NoKeystore, Goes, Server, History, KTypeOK, Places
  <2>2. QED  BY <1>5, <1>t, <2>1 DEF NoKeystore, Goes, At, Server, History, Halfway, PasswordsAgree, Changing
<1>6. CASE Migrate
  <2>1. KTypeOK'  BY <1>6 DEF Migrate, Goes, At, Halfway, Server, History, KTypeOK, Places, Keystores
  <2>2. QED  BY <1>6, <1>t, <2>1 DEF Migrate, Goes, At, Server, History, Halfway, PasswordsAgree, Changing
<1>7. CASE Recreate
  <2>1. KTypeOK'  BY <1>7 DEF Recreate, Goes, At, Halfway, Server, History, KTypeOK, Places, Keystores
  <2>2. QED  BY <1>7, <1>t, <2>1 DEF Recreate, Goes, At, Server, History, Halfway, PasswordsAgree, Changing
<1>8. CASE StorePassword
  <2>1. KTypeOK'  BY <1>8 DEF StorePassword, Goes, At, Halfway, Server, KTypeOK, Places
  <2>2. QED  BY <1>8, <1>t, <2>1 DEF StorePassword, Goes, At, Server, Halfway, PasswordsAgree, Changing, KTypeOK
<1>9. CASE StoreHash
  <2>1. KTypeOK'  BY <1>9 DEF StoreHash, Goes, At, Halfway, Server, History, KTypeOK, Places
  <2>2. QED  BY <1>9, <1>t, <2>1 DEF StoreHash, Goes, At, Server, History, Halfway, PasswordsAgree, Changing, KTypeOK
<1>10. CASE ForgetSnmp
  <2>1. KTypeOK'  BY <1>10 DEF ForgetSnmp, Goes, Server, KTypeOK, Places
  <2>2. QED  BY <1>10, <1>t, <2>1 DEF ForgetSnmp, Goes, At, Server, Halfway, PasswordsAgree, Changing, KTypeOK
<1>11. CASE WriteEnv
  <2>1. KTypeOK'  BY <1>11 DEF WriteEnv, AfterPassword, At, Halfway, Server, KTypeOK, Places
  <2>2. QED  BY <1>11, <1>t, <2>1 DEF WriteEnv, AfterPassword, At, Server, Halfway, PasswordsAgree, Changing
<1>12. QED  BY <1>1, <1>2, <1>3, <1>4, <1>5, <1>6, <1>7, <1>8, <1>9, <1>10, <1>11 DEF ApplyPassword

-----------------------------------------------------------------------------
\* Outside a change, a step that leaves the passwords of all three files alone.
LEMMA Elsewhere ==
    ASSUME KInv, ~Changing, job'.at \notin {"migrate", "recreate", "stPassword", "stHash", "stSnmp", "env"},
           KTypeOK', (want.rev <= edits + 1)',
           UNCHANGED <<mem.pw, mem.hash, env, torn>>,
           ks' = ks \/ ks' = NoFile \/ ks'.lock = mem.pw \/ (ks # NoFile /\ ks'.lock = ks.lock)
    PROVE  KInv'
<1>1. Halfway'  BY DEF Halfway
<1>2. PasswordsAgree'  BY DEF KInv, PasswordsAgree, Changing
<1>3. QED  BY <1>1, <1>2 DEF KInv

LEMMA FailsType ==
    ASSUME KTypeOK  PROVE Unrecorded \in SUBSET Keys /\ (gone \cup Unrecorded) \in SUBSET Keys
BY DEF KTypeOK, Unrecorded, Keys

LEMMA KInvUpdate == ASSUME KInv, UpdateKeystore  PROVE KInv'
<1> USE DEF KInv
<1>a. Stored \in SUBSET Keys /\ gone \cup Unrecorded \in SUBSET Keys  BY StoredKeys, FailsType
<1>b. job \in [at : Places, rev : 0 .. MaxEdits + 1, change : Locks \cup {Keep},
                set : SUBSET Keys, del : SUBSET Keys, seen : SUBSET Keys,
                dirty : BOOLEAN, files : BOOLEAN, failed : BOOLEAN, wiped : BOOLEAN]
      BY DEF KTypeOK
<1>c. mem.pw \in Locks  BY DEF KTypeOK
<1>1. CASE Load
  <2>0. /\ job' \in [at : Places, rev : 0 .. MaxEdits + 1, change : Locks \cup {Keep},
                     set : SUBSET Keys, del : SUBSET Keys, seen : SUBSET Keys,
                     dirty : BOOLEAN, files : BOOLEAN, failed : BOOLEAN, wiped : BOOLEAN]
        /\ ks' \in Keystores \cup {NoFile}
        /\ gone' \in SUBSET Keys
    <3>0. ks \in Keystores \cup {NoFile} /\ gone \in SUBSET Keys /\ gone \cup Stored \in SUBSET Keys
          BY <1>a DEF KTypeOK
    <3>1. CASE /\ OpensWith(mem.pw)
               /\ job' = [job EXCEPT !.at = "delete", !.seen = ks.keys]
               /\ UNCHANGED <<ks, gone>>
      <4>1. ks.keys \in SUBSET Keys  BY <3>0, <3>1 DEF OpensWith, Keystores
      <4>2. QED  BY <1>b, <3>0, <3>1, <4>1 DEF Places
    <3>2. CASE Goes("replace") /\ UNCHANGED <<ks, gone>>
          BY <1>b, <3>0, <3>2 DEF Goes, Places
    <3>3. CASE ks' = NoFile /\ gone' = gone \cup Stored /\ Goes("replace")
          BY <1>b, <3>0, <3>3 DEF Goes, Places
    <3>4. CASE KeysFail /\ UNCHANGED ks
          BY <1>a, <1>b, <3>0, <3>4 DEF KeysFail, Places
    <3>5. QED  BY <1>1, <3>1, <3>2, <3>3, <3>4 DEF Load
  <2>u. UNCHANGED <<want, edits, mem, env, faults, torn, lost>>  BY <1>1 DEF Load, Server
  <2>1. KTypeOK'  BY <2>0, <2>u DEF KTypeOK
  <2>2. QED  BY <1>1, <1>b, <2>1, Elsewhere DEF Load, KeysFail, Goes, At, Server, Changing
<1>2. CASE Replace
  <2>1. KTypeOK'  BY <1>2, <1>a DEF Replace, Server, History, KTypeOK, Places, Keystores
  <2>2. QED  BY <1>2, <1>b, <2>1, Elsewhere DEF Replace, At, Server, History, Changing
<1>3. CASE PrepareDelete
  <2>0. /\ gone' \in SUBSET Keys
        /\ \E p \in Places : \/ job' = [job EXCEPT !.at = p, !.seen = Stored]
                            \/ job' = [job EXCEPT !.at = p, !.failed = TRUE]
                            \/ job' = [job EXCEPT !.at = p]
        BY <1>3, <1>a DEF PrepareDelete, Checks, KeysFail, KTypeOK, Places
  <2>j. job' \in [at : Places, rev : 0 .. MaxEdits + 1, change : Locks \cup {Keep},
                   set : SUBSET Keys, del : SUBSET Keys, seen : SUBSET Keys,
                   dirty : BOOLEAN, files : BOOLEAN, failed : BOOLEAN, wiped : BOOLEAN]
        BY <1>a, <1>b, <2>0
  <2>u. UNCHANGED <<want, edits, ks, mem, env, faults, torn, lost>>  BY <1>3 DEF PrepareDelete, Server
  <2>1. KTypeOK'  BY <2>0, <2>j, <2>u DEF KTypeOK
  <2>2. ~Changing  BY <1>3 DEF PrepareDelete, At, Changing
  <2>3. job'.at \in {"deleted", "set", "ack"}
        BY <1>3, <1>b DEF PrepareDelete, Checks, KeysFail
  <2>4. QED  BY <2>u, <2>1, <2>2, <2>3, Elsewhere
<1>4. CASE Delete
  <2>1. KTypeOK'  BY <1>4, <1>b, <1>c DEF Delete, WriteTo, Server, History, KTypeOK, Places, Keystores
  <2>2. QED  BY <1>4, <1>b, <2>1, Elsewhere DEF Delete, WriteTo, At, Server, History, Changing
<1>5. CASE PrepareSet
  <2>0. /\ gone' \in SUBSET Keys
        /\ \E p \in Places : \/ job' = [job EXCEPT !.at = p, !.seen = Stored]
                            \/ job' = [job EXCEPT !.at = p, !.failed = TRUE]
                            \/ job' = [job EXCEPT !.at = p]
        BY <1>5, <1>a DEF PrepareSet, Checks, KeysFail, Goes, KTypeOK, Places
  <2>j. job' \in [at : Places, rev : 0 .. MaxEdits + 1, change : Locks \cup {Keep},
                   set : SUBSET Keys, del : SUBSET Keys, seen : SUBSET Keys,
                   dirty : BOOLEAN, files : BOOLEAN, failed : BOOLEAN, wiped : BOOLEAN]
        BY <1>a, <1>b, <2>0
  <2>u. UNCHANGED <<want, edits, ks, mem, env, faults, torn, lost>>  BY <1>5 DEF PrepareSet, Server
  <2>1. KTypeOK'  BY <2>0, <2>j, <2>u DEF KTypeOK
  <2>2. ~Changing  BY <1>5 DEF PrepareSet, At, Changing
  <2>3. job'.at \in {"stKeys", "written", "ack"}
        BY <1>5, <1>b DEF PrepareSet, Checks, KeysFail, Goes
  <2>4. QED  BY <2>u, <2>1, <2>2, <2>3, Elsewhere
<1>6. CASE Set
  <2>1. KTypeOK'  BY <1>6, <1>b, <1>c DEF Set, WriteTo, Server, KTypeOK, Places, Keystores
  <2>2. QED  BY <1>6, <1>b, <2>1, Elsewhere DEF Set, WriteTo, At, Server, Changing
<1>7. CASE StoreKeys
  <2>0. /\ gone' \in SUBSET Keys
        /\ \/ job' = [job EXCEPT !.at = "count", !.seen = Stored]
           \/ job' = [job EXCEPT !.at = "count"]
        BY <1>7, <1>a DEF StoreKeys, Goes, KTypeOK
  <2>j. job' \in [at : Places, rev : 0 .. MaxEdits + 1, change : Locks \cup {Keep},
                   set : SUBSET Keys, del : SUBSET Keys, seen : SUBSET Keys,
                   dirty : BOOLEAN, files : BOOLEAN, failed : BOOLEAN, wiped : BOOLEAN]
        BY <1>a, <1>b, <2>0 DEF Places
  <2>m. mem' \in [pw : Locks, hash : Locks, keys : SUBSET Keys, snmp : SUBSET SnmpKeys,
                   rev : 0 .. MaxEdits + 1]
        BY <1>7, <1>a DEF StoreKeys, KTypeOK
  <2>1. KTypeOK'  BY <1>7, <2>0, <2>j, <2>m DEF StoreKeys, Server, KTypeOK
  <2>2. mem'.pw = mem.pw /\ mem'.hash = mem.hash  BY <1>7 DEF StoreKeys, KTypeOK
  <2>3. QED  BY <1>7, <1>b, <2>1, <2>2, Elsewhere DEF StoreKeys, Goes, At, Server, Changing
<1>8. CASE Count
  <2>0. /\ gone' \in SUBSET Keys
        /\ \/ job' = [job EXCEPT !.at = "restart", !.seen = Stored]
           \/ job' = [job EXCEPT !.at = "ack", !.failed = TRUE]
        BY <1>8, <1>a DEF Count, Checks, KeysFail, KTypeOK
  <2>1. KTypeOK'  BY <1>8, <1>a, <2>0 DEF Count, Server, KTypeOK, Places
  <2>2. job'.at \in {"restart", "ack"} /\ job.at = "count"  BY <1>8, <1>b, <2>0 DEF Count, At
  <2>3. QED  BY <1>8, <2>1, <2>2, Elsewhere DEF Count, Server, Changing
<1>9. QED  BY <1>1, <1>2, <1>3, <1>4, <1>5, <1>6, <1>7, <1>8 DEF UpdateKeystore

LEMMA KInvRecords == ASSUME KInv, Restart \/ StoreSnmp \/ Ack  PROVE KInv'
<1> USE DEF KInv
<1>b. job \in [at : Places, rev : 0 .. MaxEdits + 1, change : Locks \cup {Keep},
                set : SUBSET Keys, del : SUBSET Keys, seen : SUBSET Keys,
                dirty : BOOLEAN, files : BOOLEAN, failed : BOOLEAN, wiped : BOOLEAN]
      BY DEF KTypeOK
<1>1. CASE Restart
  <2>1. KTypeOK'  BY <1>1 DEF Restart, Goes, Server, History, KTypeOK, Places
  <2>2. QED  BY <1>1, <1>b, <2>1, Elsewhere DEF Restart, Goes, At, Server, History, Changing
<1>2. CASE StoreSnmp
  <2>1. KTypeOK'  BY <1>2 DEF StoreSnmp, Goes, Server, History, KTypeOK, Places
  <2>2. mem'.pw = mem.pw /\ mem'.hash = mem.hash  BY <1>2 DEF StoreSnmp, KTypeOK
  <2>3. QED  BY <1>2, <1>b, <2>1, <2>2, Elsewhere DEF StoreSnmp, Goes, At, Server, History, Changing
<1>3. CASE Ack
  <2>1. KTypeOK'  BY <1>3 DEF Ack, Ends, Resting, Server, History, KTypeOK, Places
  <2>2. mem'.pw = mem.pw /\ mem'.hash = mem.hash  BY <1>3 DEF Ack, KTypeOK
  <2>3. job'.at = "idle"  BY <1>3 DEF Ack, Ends, Resting
  <2>4. QED  BY <1>3, <2>1, <2>2, <2>3, Elsewhere DEF Ack, At, Server, History, Changing
<1>4. QED  BY <1>1, <1>2, <1>3

-----------------------------------------------------------------------------
LEMMA FaultCounts == ASSUME KTypeOK, Fault  PROVE faults' \in 0 .. MaxFaults
BY DEF Fault, KTypeOK

LEMMA KInvFails == ASSUME KInv, Fails  PROVE KInv'
<1> USE DEF KInv
<1>a. Stored \in SUBSET Keys /\ gone \cup Unrecorded \in SUBSET Keys  BY StoredKeys, FailsType
<1>b. job \in [at : Places, rev : 0 .. MaxEdits + 1, change : Locks \cup {Keep},
                set : SUBSET Keys, del : SUBSET Keys, seen : SUBSET Keys,
                dirty : BOOLEAN, files : BOOLEAN, failed : BOOLEAN, wiped : BOOLEAN]
      BY DEF KTypeOK
<1>c. Fault => faults' \in 0 .. MaxFaults  BY FaultCounts
<1>1. CASE DecryptFails
  <2>1. KTypeOK'  BY <1>1, <1>a, <1>c DEF DecryptFails, AfterPassword, Server, KTypeOK, Places
  <2>2. QED  BY <1>1, <1>b, <2>1, Elsewhere DEF DecryptFails, AfterPassword, At, Server, Changing
<1>2. CASE MigrateFails
  <2>1. CASE job.change = None
        BY <1>2, <1>c, <2>1, Ended DEF MigrateFails, Aborts, At, Changing, Server, KTypeOK, Fault
  <2>2. CASE job.change # None
    <3>0. /\ ks' = NoFile /\ gone' \in SUBSET Keys
          /\ job' = [job EXCEPT !.at = "recreate", !.wiped = TRUE]
          BY <1>2, <2>2, <1>a DEF MigrateFails, KTypeOK
    <3>1. KTypeOK'  BY <1>2, <1>c, <3>0 DEF MigrateFails, Server, KTypeOK, Places
    <3>2. QED  BY <1>2, <1>b, <2>2, <3>1 DEF MigrateFails, At, Server, Halfway, PasswordsAgree, Changing
  <2>3. QED  BY <2>1, <2>2
<1>3. CASE RecreateFails
      BY <1>3, <1>c, Ended DEF RecreateFails, Aborts, At, Changing, Server, History, KTypeOK, Fault
<1>4. CASE EnvFails
  <2>1. KTypeOK'  BY <1>4, <1>c DEF EnvFails, AfterPassword, Server, KTypeOK, Places
  <2>2. QED  BY <1>4, <1>b, <2>1 DEF EnvFails, AfterPassword, At, Server, Halfway, PasswordsAgree
<1>5. CASE KeystoreFails
  <2>1. KTypeOK'  BY <1>5, <1>a, <1>c DEF KeystoreFails, KeysFail, Server, KTypeOK, Places
  <2>2. QED  BY <1>5, <1>b, <2>1, Elsewhere DEF KeystoreFails, KeysFail, Server, Changing
<1>6. CASE StoreKeysFails
  <2>1. KTypeOK'  BY <1>6, <1>a, <1>c DEF StoreKeysFails, Goes, Server, KTypeOK, Places
  <2>2. QED  BY <1>6, <1>b, <2>1, Elsewhere DEF StoreKeysFails, Goes, At, Server, Changing
<1>7. CASE RestartFails
  <2>1. KTypeOK'  BY <1>7, <1>c DEF RestartFails, Server, History, KTypeOK, Places
  <2>2. QED  BY <1>7, <1>b, <2>1, Elsewhere DEF RestartFails, At, Server, History, Changing
<1>8. CASE Dies
  <2>1. lost' \in BOOLEAN /\ torn' \in BOOLEAN  BY <1>8 DEF Dies, KTypeOK, At, Changing
  <2>2. QED  BY <1>8, <1>a, <1>c, <2>1, Ended DEF Dies, Server, Fault, KTypeOK
<1>9. QED  BY <1>1, <1>2, <1>3, <1>4, <1>5, <1>6, <1>7, <1>8 DEF Fails

LEMMA KInvOperator == ASSUME KInv, NEW k \in Keys, OperatorAdds(k) \/ OperatorRemoves(k)  PROVE KInv'
<1> USE DEF KInv
<1>c. Fault => faults' \in 0 .. MaxFaults  BY FaultCounts
<1>0. ks # NoFile /\ ks \in Keystores  BY DEF OperatorAdds, OperatorRemoves, Stored, KTypeOK
<1>1. ks'.lock = ks.lock /\ ks' \in Keystores  BY <1>0 DEF OperatorAdds, OperatorRemoves, Keystores
<1>2. KTypeOK'  BY <1>c, <1>1 DEF OperatorAdds, OperatorRemoves, Server, History, KTypeOK
<1>3. UNCHANGED <<want, mem, env, job, edits, torn>>  BY DEF OperatorAdds, OperatorRemoves, Server, History
<1>4. QED  BY <1>0, <1>1, <1>2, <1>3 DEF Halfway, PasswordsAgree, Changing

LEMMA KInvServer ==
    ASSUME KInv,
           \/ \E pw \in Locks, pol \in SUBSET PolicyKeys : PolicyChanges(pw, pol)
           \/ \E snmp \in SUBSET SnmpKeys : SnmpChanges(snmp)
    PROVE  KInv'
<1> USE DEF KInv
<1>0. edits \in 0 .. MaxEdits /\ edits < MaxEdits /\ edits' = edits + 1
      BY DEF PolicyChanges, SnmpChanges, Edit, KTypeOK
<1>1. want' \in [pw : Locks, pol : SUBSET PolicyKeys, snmp : SUBSET SnmpKeys, rev : 1 .. MaxEdits + 1]
      /\ want'.rev <= want.rev + 1
  <2>1. want \in [pw : Locks, pol : SUBSET PolicyKeys, snmp : SUBSET SnmpKeys, rev : 1 .. MaxEdits + 1]
        BY DEF KTypeOK
  <2>2. want.rev + 1 \in 1 .. MaxEdits + 1  BY <1>0, <2>1
  <2>3. ASSUME NEW pw \in Locks, NEW pol \in SUBSET PolicyKeys, PolicyChanges(pw, pol)
        PROVE  <1>1!1 /\ <1>1!2
    <3>1. want' = [want EXCEPT !.pw = pw, !.pol = pol, !.rev = @ + 1]  BY <2>3 DEF PolicyChanges
    <3>2. want' = [pw |-> pw, pol |-> pol, snmp |-> want.snmp, rev |-> want.rev + 1]  BY <2>1, <3>1
    <3>3. QED  BY <2>1, <2>2, <3>2
  <2>4. ASSUME NEW snmp \in SUBSET SnmpKeys, SnmpChanges(snmp)  PROVE <1>1!1 /\ <1>1!2
        BY <2>1, <2>4 DEF SnmpChanges
  <2>5. QED  BY <2>3, <2>4
<1>2. lost' \in BOOLEAN  BY DEF PolicyChanges, SnmpChanges, History, KTypeOK
<1>3. UNCHANGED <<ks, mem, env, job, faults, torn, gone>>  BY DEF PolicyChanges, SnmpChanges, History
<1>4. KTypeOK'  BY <1>0, <1>1, <1>2, <1>3 DEF KTypeOK
<1>5. want.rev \in Nat  BY DEF KTypeOK
<1>6. QED  BY <1>0, <1>1, <1>3, <1>4, <1>5 DEF KTypeOK, Halfway, PasswordsAgree, Changing

LEMMA KInvNext == ASSUME KInv, [Next]_vars  PROVE KInv'
<1>1. CASE CheckIn  BY <1>1, KInvFetch, KInvApply, KInvUpdate, KInvRecords DEF CheckIn
<1>2. CASE Fails  BY <1>2, KInvFails
<1>3. CASE \E k \in Keys : OperatorAdds(k) \/ OperatorRemoves(k)  BY <1>3, KInvOperator
<1>4. CASE \/ \E pw \in Locks, pol \in SUBSET PolicyKeys : PolicyChanges(pw, pol)
           \/ \E snmp \in SUBSET SnmpKeys : SnmpChanges(snmp)
      BY <1>4, KInvServer
<1>5. CASE UNCHANGED vars
      BY <1>5 DEF vars, KInv, KTypeOK, Halfway, PasswordsAgree, Changing
<1>6. QED  BY <1>1, <1>2, <1>3, <1>4, <1>5 DEF Next

-----------------------------------------------------------------------------
(* The variables of KeystoreSync keep their types (controller.py 218-501,
   1478-1699, 2108-2281). *)
THEOREM KeystoreTyped == Spec => []KTypeOK
<1>1. KInv => KTypeOK  BY DEF KInv
<1>2. QED  BY <1>1, KInvInit, KInvNext, PTL DEF Spec

(* set_keystore_password, clear_keystore_password and update_keystore: whatever
   fails, dies or is edited meanwhile, outside a change and after one that was
   not torn, the keystore opens with what state.json and the environment file
   hold. *)
THEOREM KeystorePasswords == Spec => []PasswordsAgree
<1>1. KInv => PasswordsAgree  BY DEF KInv
<1>2. QED  BY <1>1, KInvInit, KInvNext, PTL DEF Spec
-----------------------------------------------------------------------------
\* What is acknowledged.  mem.keys is all that the next check-in goes by, so beside
\* the keys of an acknowledged revision the invariant follows those it remembers, and
\* what a check-in under way may still rely on.

\* Keys deleted from the keystore, or about to be, whose record comes later.
Deleting == job.at \in {"set", "written", "stKeys"}

\* The policy keys that have to be there: remembered ones, and those acknowledged.
Owed ==
    ((mem.keys \cap PolicyKeys) \ (IF Deleting THEN job.del ELSE {}))
      \cup (IF mem.rev = want.rev THEN want.pol ELSE {})

\* They are; and what was read of the keystore to be written again has them.
OwedKept ==
    /\ Owed \subseteq Stored \cup gone
    /\ job.at \in {"migrate", "deleted", "written"} => Owed \subseteq job.seen \cup gone

Revisions ==
    /\ mem.rev <= want.rev
    /\ ~At("idle") => mem.rev <= job.rev /\ job.rev <= want.rev

NothingFiled == job.at \in {"recreate", "replace"} => ks = NoFile

\* A check-in for the revision that still is the server's: what it has not set yet
\* is remembered, and at the end only a failure it knows of leaves a key out.
Applied == {"stKeys", "count", "restart", "stSnmpKeys", "ack"}
Towards ==
    (~At("idle") /\ job.rev = want.rev) =>
        /\ job.del \cap want.pol = {}
        /\ job.at \notin Applied =>
             /\ want.pol \subseteq job.set \cup mem.keys
             /\ ~job.files => want.pol \subseteq mem.keys
        /\ job.at \in Applied => (job.failed /\ job.files) \/ want.pol \subseteq Stored \cup gone

\* The inductive invariant.
AInv == KInv /\ OwedKept /\ Revisions /\ NothingFiled /\ Towards

\* The batch of the check-in under way, and the record of earlier ones, stay.
SameBatch ==
    /\ job'.rev = job.rev /\ job'.set = job.set /\ job'.del = job.del
    /\ job'.files \in {job.files, TRUE}
SameRecord ==
    /\ mem'.keys = mem.keys /\ mem'.rev = mem.rev
    /\ want'.pol = want.pol /\ want'.rev = want.rev

\* No policy key goes without being among those gone.
NoneGoes == (Stored \cup gone) \cap PolicyKeys \subseteq Stored' \cup gone'

-----------------------------------------------------------------------------
LEMMA JobType ==
    ASSUME KInv
    PROVE  /\ job \in [at : Places, rev : 0 .. MaxEdits + 1, change : Locks \cup {Keep},
                       set : SUBSET Keys, del : SUBSET Keys, seen : SUBSET Keys,
                       dirty : BOOLEAN, files : BOOLEAN, failed : BOOLEAN, wiped : BOOLEAN]
           /\ mem \in [pw : Locks, hash : Locks, keys : SUBSET Keys, snmp : SUBSET SnmpKeys,
                       rev : 0 .. MaxEdits + 1]
           /\ want.pol \in SUBSET PolicyKeys /\ want.rev \in Nat /\ mem.rev \in Nat /\ job.rev \in Nat
           /\ Stored \in SUBSET Keys
<1>1. KTypeOK  BY DEF KInv
<1>2. Stored \in SUBSET Keys  BY <1>1, StoredKeys
<1>3. QED  BY <1>1, <1>2 DEF KTypeOK

LEMMA Filed ==
    ASSUME NEW l \in Locks, NEW s \in SUBSET Keys, ks' = [lock |-> l, keys |-> s]
    PROVE  Stored' = s
<1>1. ks' \in Keystores /\ ks' # NoFile  BY DEF Keystores
<1>2. QED  BY <1>1 DEF Stored

\* A step that loses no policy key; one that reads the keystore reads all of it, and one
\* that breaks a batch off counts what it leaves unrecorded.
LEMMA KeepsOwed ==
    ASSUME AInv, SameRecord, NoneGoes, Deleting' => job'.del = job.del,
           Deleting /\ ~Deleting' => ks' = ks /\ Unrecorded \subseteq gone',
           job'.at \in {"migrate", "deleted", "written"} =>
                job'.seen = Stored' \/ (job'.at = job.at /\ job'.seen = job.seen /\ gone \subseteq gone')
    PROVE  OwedKept'
<1>0. want.pol \in SUBSET PolicyKeys  BY JobType DEF AInv
<1>1. Owed' \subseteq Stored' \cup gone'
  <2> SUFFICES ASSUME NEW k \in Owed'  PROVE k \in Stored' \cup gone'  OBVIOUS
  <2>1. k \in PolicyKeys  BY <1>0 DEF Owed, SameRecord
  <2>2. CASE k \in Owed  BY <2>1, <2>2 DEF AInv, OwedKept, NoneGoes
  <2>3. CASE k \notin Owed
    <3>1. Deleting /\ ~Deleting' /\ k \in mem.keys /\ k \in job.del
          BY <2>1, <2>3 DEF Owed, SameRecord
    <3>2. ks' = ks /\ Unrecorded \subseteq gone'  BY <3>1
    <3>3. QED  BY <3>1, <3>2 DEF Unrecorded, Stored
  <2>4. QED  BY <2>2, <2>3
<1>2. ASSUME job'.at \in {"migrate", "deleted", "written"}
      PROVE  Owed' \subseteq job'.seen \cup gone'
  <2>1. CASE job'.seen = Stored'  BY <1>1, <2>1
  <2>2. CASE job'.at = job.at /\ job'.seen = job.seen /\ gone \subseteq gone'
    <3>1. Owed' = Owed
          BY <1>2, <2>2 DEF Owed, SameRecord, Deleting
    <3>2. QED  BY <1>2, <2>2, <3>1 DEF AInv, OwedKept
  <2>3. QED  BY <1>2, <2>1, <2>2
<1>3. QED  BY <1>1, <1>2 DEF OwedKept

\* A step of a check-in that has not come to its records.
LEMMA Onward ==
    ASSUME AInv, SameRecord, SameBatch, OwedKept', ~At("idle"), ~At("idle")', job.at \notin Applied,
           job'.at \in Applied => job'.failed \/ job.set = {} \/ job.set \subseteq Stored'
    PROVE  Revisions' /\ Towards'
<1>1. Revisions'  BY DEF AInv, Revisions, SameRecord, SameBatch
<1>2. Towards'
  <2> SUFFICES ASSUME job.rev = want.rev  PROVE Towards'  BY DEF Towards, SameRecord, SameBatch
  <2>1. /\ job.del \cap want.pol = {} /\ want.pol \subseteq job.set \cup mem.keys
        /\ ~job.files => want.pol \subseteq mem.keys
        BY DEF AInv, Towards
  <2>2. CASE job'.at \notin Applied  BY <2>1, <2>2, JobType DEF AInv, Towards, SameRecord, SameBatch
  <2>3. CASE job'.at \in Applied
    <3>1. want.pol \in SUBSET PolicyKeys  BY JobType DEF AInv
    <3>2. want.pol \cap mem.keys \subseteq Owed'
          BY <2>1, <3>1 DEF Owed, SameRecord, SameBatch
    <3>3. want.pol \cap mem.keys \subseteq Stored' \cup gone'  BY <3>2 DEF OwedKept
    <3>4. (job'.failed /\ job'.files) \/ want.pol \subseteq Stored' \cup gone'
      <4>1. CASE job'.failed
        <5>1. job.files \in BOOLEAN  BY JobType DEF AInv
        <5>2. job'.files \/ ~job.files  BY <5>1 DEF SameBatch
        <5>3. QED  BY <2>1, <3>3, <4>1, <5>2
      <4>2. CASE job.set = {} \/ job.set \subseteq Stored'  BY <2>1, <3>3, <4>2
      <4>3. QED  BY <2>3, <4>1, <4>2
    <3>5. QED  BY <2>1, <2>3, <3>4 DEF Towards, SameRecord, SameBatch
  <2>4. QED  BY <2>2, <2>3
<1>3. QED  BY <1>1, <1>2

\* A step among the records.
LEMMA AmongRecords ==
    ASSUME AInv, job.at \in Applied, job'.at \in Applied, SameBatch, NoneGoes,
           mem'.rev = mem.rev, want'.pol = want.pol, want'.rev = want.rev,
           job'.failed \in {job.failed, TRUE}
    PROVE  Revisions' /\ Towards'
<1>1. ~At("idle") /\ ~At("idle")'  BY DEF At, Applied
<1>2. Revisions'  BY <1>1 DEF AInv, Revisions, SameBatch
<1>3. Towards'
  <2> SUFFICES ASSUME job.rev = want.rev  PROVE Towards'  BY DEF Towards, SameBatch
  <2>1. job.del \cap want.pol = {} /\ ((job.failed /\ job.files) \/ want.pol \subseteq Stored \cup gone)
        BY <1>1 DEF AInv, Towards
  <2>2. want.pol \in SUBSET PolicyKeys  BY JobType DEF AInv
  <2>3. (job'.failed /\ job'.files) \/ want.pol \subseteq Stored' \cup gone'
        BY <2>1, <2>2 DEF NoneGoes, SameBatch
  <2>4. QED  BY <2>1, <2>3 DEF Towards, SameBatch
<1>4. QED  BY <1>2, <1>3

\* A check-in that ends.
LEMMA Over ==
    ASSUME AInv, Ends, mem'.rev <= want'.rev
    PROVE  Revisions' /\ NothingFiled' /\ Towards'
BY DEF Ends, Resting, Revisions, NothingFiled, Towards, At

LEMMA AInvInit == ASSUME Init  PROVE AInv
<1>1. KInv  BY KInvInit
<1>2. /\ job.at = "idle" /\ gone = {} /\ job.del = {} /\ want.rev = 1
      BY DEF Init, Resting
<1>3. OwedKept
  <2>1. CASE ks = NoFile
        BY <1>2, <2>1, JobType, <1>1 DEF Init, OwedKept, Owed, Deleting, Stored, Keystores, Locks
  <2>2. CASE ks # NoFile
        BY <1>2, <2>2, JobType, <1>1 DEF Init, OwedKept, Owed, Deleting, Stored
  <2>3. QED  BY <2>1, <2>2
<1>4. mem.rev <= want.rev  BY <1>2 DEF Init
<1>5. QED  BY <1>1, <1>2, <1>3, <1>4 DEF AInv, Revisions, NothingFiled, Towards, At

LEMMA AInvFetch == ASSUME AInv, Fetch  PROVE AInv'
<1> USE JobType DEF AInv
<1>1. KInv'  BY KInvNext DEF Next, CheckIn
<1>2. job' = Delta /\ UNCHANGED <<want, ks, mem, gone>> /\ At("idle")
      BY DEF Fetch, Server, History
<1>3. job'.at = "password" /\ job'.rev = want.rev  BY <1>2 DEF Delta
<1>4. OwedKept'
  <2>1. Owed' = Owed  BY <1>2, <1>3 DEF Owed, Deleting, At
  <2>2. QED  BY <1>2, <1>3, <2>1 DEF OwedKept, Stored
<1>5. Revisions'  BY <1>2, <1>3 DEF Revisions
<1>6. NothingFiled'  BY <1>3 DEF NothingFiled
<1>7. Towards'
  <2>1. want \in [pw : Locks, pol : SUBSET PolicyKeys, snmp : SUBSET SnmpKeys, rev : 1 .. MaxEdits + 1]
        /\ mem.snmp \in SUBSET SnmpKeys
        BY DEF KInv, KTypeOK
  <2>2. job'.del \cap want.pol = {}  BY <1>2, <2>1 DEF Delta
  <2>3. want.pol \subseteq job'.set \cup mem.keys  BY <1>2, <2>1 DEF Delta
  <2>4. ~job'.files => want.pol \subseteq mem.keys  BY <1>2, <2>1 DEF Delta
  <2>5. QED  BY <1>2, <1>3, <2>2, <2>3, <2>4 DEF Towards, Applied
<1>8. QED  BY <1>1, <1>4, <1>5, <1>6, <1>7

\* The password's part: its steps, and those that fail, before any key is written.
LEMMA AInvPassword ==
    ASSUME AInv, ApplyPassword \/ DecryptFails \/ MigrateFails \/ EnvFails
    PROVE  AInv'
<1>a. job \in [at : Places, rev : 0 .. MaxEdits + 1, change : Locks \cup {Keep},
               set : SUBSET Keys, del : SUBSET Keys, seen : SUBSET Keys,
               dirty : BOOLEAN, files : BOOLEAN, failed : BOOLEAN, wiped : BOOLEAN]
      /\ mem \in [pw : Locks, hash : Locks, keys : SUBSET Keys, snmp : SUBSET SnmpKeys,
                  rev : 0 .. MaxEdits + 1]
      BY JobType DEF AInv
<1>k. KInv'  BY KInvNext DEF AInv, Next, CheckIn, Fails
<1>b. gone \in SUBSET Keys /\ Keys \ SnmpKeys = PolicyKeys
      BY DEF AInv, KInv, KTypeOK, Keys
\* What is left to show of a step that goes on.
<1>c. ASSUME SameRecord, SameBatch, NoneGoes,
             job.at \in {"password", "migrate", "recreate", "stPassword", "stHash", "stSnmp", "env"},
             job'.at \in {"migrate", "recreate", "stPassword", "stHash", "stSnmp", "env", "keys", "restart"},
             job'.at = "migrate" => job'.seen = Stored',
             job'.at = "recreate" => ks' = NoFile,
             job'.at = "restart" => job.set = {}
      PROVE  AInv'
  <2>1. ~Deleting /\ ~Deleting'  BY <1>c DEF Deleting
  <2>2. OwedKept'  BY <1>c, <2>1, KeepsOwed
  <2>3. Revisions' /\ Towards'  BY <1>c, <2>2, Onward DEF At, Applied
  <2>4. NothingFiled'  BY <1>c DEF NothingFiled
  <2>5. QED  BY <1>k, <2>2, <2>3, <2>4 DEF AInv
\* And of one that ends it.
<1>d. ASSUME job.at \in {"password", "migrate"}, Ends, UNCHANGED <<want, ks, mem, gone>>
      PROVE  AInv'
  <2>1. ~Deleting /\ ~Deleting' /\ job'.at = "idle"  BY <1>d DEF Deleting, Ends, Resting
  <2>2. OwedKept'  BY <1>d, <2>1, KeepsOwed DEF SameRecord, NoneGoes, Stored
  <2>3. mem'.rev <= want'.rev  BY <1>d DEF AInv, Revisions
  <2>4. QED  BY <1>d, <1>k, <2>2, <2>3, Over DEF AInv
<1>1. CASE KeepPassword
      BY <1>1, <1>a, <1>c DEF KeepPassword, Goes, At, AfterPassword, Server, History, SameRecord, SameBatch, NoneGoes, Stored
<1>2. CASE Open
  <2>1. job'.seen = Stored'  BY <1>2, <1>a DEF Open, OpensWith, Stored
  <2>2. QED  BY <1>2, <1>a, <1>c, <2>1 DEF Open, At, Server, History, SameRecord, SameBatch, NoneGoes, Stored
<1>3. CASE AlreadyCleared
      BY <1>3, <1>a, <1>c DEF AlreadyCleared, Goes, At, Server, History, SameRecord, SameBatch, NoneGoes, Stored
<1>4. CASE CannotOpen
  <2>1. CASE job.change = None  BY <1>4, <1>d, <2>1 DEF CannotOpen, Aborts, At, Server
  <2>2. CASE job.change # None
    <3>1. gone' = gone \cup Stored /\ ks' = NoFile
          /\ job' = [job EXCEPT !.at = "recreate", !.wiped = TRUE] /\ At("password")
          BY <1>4, <2>2 DEF CannotOpen
    <3>2. NoneGoes  BY <3>1 DEF NoneGoes
    <3>3. QED  BY <1>4, <1>a, <1>c, <3>1, <3>2 DEF CannotOpen, At, Server, SameRecord, SameBatch
  <2>3. QED  BY <2>1, <2>2
<1>5. CASE NoKeystore
      BY <1>5, <1>a, <1>c DEF NoKeystore, Goes, At, Server, History, SameRecord, SameBatch, NoneGoes, Stored
<1>6. CASE Recreate
  <2>1. Stored = {}  BY <1>6 DEF Recreate, At, AInv, NothingFiled, Stored
  <2>2. QED  BY <1>6, <1>a, <1>c, <2>1 DEF Recreate, Goes, At, Server, History, SameRecord, SameBatch, NoneGoes
<1>7. CASE StorePassword
      BY <1>7, <1>a, <1>c DEF StorePassword, Goes, At, Server, SameRecord, SameBatch, NoneGoes, Stored
<1>8. CASE StoreHash
      BY <1>8, <1>a, <1>c DEF StoreHash, Goes, At, Server, History, SameRecord, SameBatch, NoneGoes, Stored
<1>9. CASE ForgetSnmp
  <2>1. NoneGoes  BY <1>9, <1>b DEF ForgetSnmp, Server, NoneGoes, Stored
  <2>2. QED  BY <1>9, <1>a, <1>c, <2>1 DEF ForgetSnmp, Goes, At, Server, SameRecord, SameBatch
<1>10. CASE WriteEnv
       BY <1>10, <1>a, <1>c DEF WriteEnv, At, AfterPassword, Server, SameRecord, SameBatch, NoneGoes, Stored
<1>11. CASE EnvFails
       BY <1>11, <1>a, <1>c DEF EnvFails, At, AfterPassword, Server, SameRecord, SameBatch, NoneGoes, Stored
<1>12. CASE DecryptFails
  <2>1. NoneGoes  BY <1>12 DEF DecryptFails, NoneGoes
  <2>2. QED  BY <1>12, <1>a, <1>c, <2>1 DEF DecryptFails, At, AfterPassword, Server, SameRecord, SameBatch
<1>13. CASE MigrateFails
  <2>1. CASE job.change = None  BY <1>13, <1>d, <2>1 DEF MigrateFails, Aborts, At, Server
  <2>2. CASE job.change # None
    <3>1. gone' = gone \cup Stored /\ ks' = NoFile
          /\ job' = [job EXCEPT !.at = "recreate", !.wiped = TRUE] /\ At("migrate")
          BY <1>13, <2>2 DEF MigrateFails
    <3>2. NoneGoes  BY <3>1 DEF NoneGoes
    <3>3. QED  BY <1>13, <1>a, <1>c, <3>1, <3>2 DEF MigrateFails, At, Server, SameRecord, SameBatch
  <2>3. QED  BY <2>1, <2>2
\* The secrets that were read are written again: keys added since go, but none owed.
<1>14. CASE Migrate
  <2>1. job.change \in Locks
        BY <1>14, <1>a DEF Migrate, At, AInv, KInv, Halfway
  <2>2. /\ Stored' = job.seen /\ gone' = gone /\ SameRecord /\ SameBatch
        /\ job'.at = "stPassword" /\ job.at = "migrate"
        BY <1>14, <1>a, <2>1, Filed DEF Migrate, Goes, At, Server, History, SameRecord, SameBatch
  <2>3. Owed' = Owed  BY <2>2 DEF Owed, Deleting, SameRecord
  <2>4. OwedKept'  BY <2>2, <2>3 DEF AInv, OwedKept
  <2>5. Revisions' /\ Towards'  BY <2>2, <2>4, Onward DEF At, Applied
  <2>6. QED  BY <1>k, <2>2, <2>4, <2>5 DEF AInv, NothingFiled
<1>15. QED  BY <1>1, <1>2, <1>3, <1>4, <1>5, <1>6, <1>7, <1>8, <1>9, <1>10, <1>11, <1>12, <1>13, <1>14
       DEF ApplyPassword

\* The keys' part.
LEMMA AInvKeys ==
    ASSUME AInv, UpdateKeystore \/ KeystoreFails \/ StoreKeysFails
    PROVE  AInv'
<1>a. job \in [at : Places, rev : 0 .. MaxEdits + 1, change : Locks \cup {Keep},
               set : SUBSET Keys, del : SUBSET Keys, seen : SUBSET Keys,
               dirty : BOOLEAN, files : BOOLEAN, failed : BOOLEAN, wiped : BOOLEAN]
      /\ mem \in [pw : Locks, hash : Locks, keys : SUBSET Keys, snmp : SUBSET SnmpKeys,
                  rev : 0 .. MaxEdits + 1]
      /\ mem.pw \in Locks
      BY JobType DEF AInv
<1>k. KInv'  BY KInvNext DEF AInv, Next, CheckIn, Fails
\* What is left to show of a step on the way to the records,
<1>c. ASSUME SameRecord, SameBatch, OwedKept',
             job.at \in {"keys", "replace", "delete", "deleted", "set", "written"},
             job'.at \in {"replace", "delete", "deleted", "set", "written", "stKeys", "ack"},
             job'.at = "replace" => ks' = NoFile,
             job'.at \in {"stKeys", "ack"} => job'.failed \/ job.set = {} \/ job.set \subseteq Stored'
      PROVE  AInv'
  <2>1. Revisions' /\ Towards'  BY <1>c, Onward DEF At, Applied
  <2>2. NothingFiled'  BY <1>c DEF NothingFiled
  <2>3. QED  BY <1>c, <1>k, <2>1, <2>2 DEF AInv
\* of one that fails there,
<1>f. ASSUME KeysFail, UNCHANGED <<want, ks, mem>>,
             job.at \in {"keys", "replace", "delete", "deleted", "set", "written"}
      PROVE  AInv'
  <2>1. SameRecord /\ SameBatch /\ NoneGoes /\ job'.at = "ack" /\ job'.failed = TRUE
        /\ Unrecorded \subseteq gone'
        BY <1>f, <1>a DEF KeysFail, SameRecord, SameBatch, NoneGoes, Stored
  <2>2. OwedKept'  BY <1>f, <2>1, KeepsOwed DEF Deleting
  <2>3. QED  BY <1>c, <1>f, <2>1, <2>2
\* and of one that checks the file's time and reads it again.
<1>g. ASSUME NEW place \in {"deleted", "set", "written"}, Checks(place), UNCHANGED <<want, ks, mem>>,
             job.at \in {"delete", "set"}, job.at = "set" => place = "written"
      PROVE  AInv'
  <2>1. CASE job.seen \subseteq Stored
    <3>0. job' = [job EXCEPT !.at = place, !.seen = Stored] /\ gone' = gone /\ Stored' = Stored
          BY <1>g, <2>1 DEF Checks, Stored
    <3>1. SameRecord /\ SameBatch /\ NoneGoes /\ job'.at = place /\ job'.seen = Stored'
          BY <1>g, <1>a, <3>0 DEF SameRecord, SameBatch, NoneGoes
    <3>2. OwedKept'  BY <1>g, <3>1, KeepsOwed DEF Deleting, SameBatch
    <3>3. QED  BY <1>c, <1>g, <3>1, <3>2
  <2>2. CASE ~(job.seen \subseteq Stored)
        BY <1>f, <1>g, <2>2 DEF Checks
  <2>3. QED  BY <2>1, <2>2
<1>1. CASE Load
  <2>u. UNCHANGED <<want, mem>> /\ job.at = "keys"  BY <1>1 DEF Load, Server, At
  <2>1. CASE OpensWith(mem.pw) /\ job' = [job EXCEPT !.at = "delete", !.seen = ks.keys] /\ UNCHANGED <<ks, gone>>
    <3>1. SameRecord /\ SameBatch /\ NoneGoes /\ job'.at = "delete"
          BY <1>a, <2>u, <2>1 DEF SameRecord, SameBatch, NoneGoes, Stored
    <3>2. OwedKept'  BY <2>u, <3>1, KeepsOwed DEF Deleting
    <3>3. QED  BY <1>c, <2>u, <3>1, <3>2
  <2>2. CASE ks' = NoFile /\ Goes("replace") /\ gone \cup Stored = gone'
    <3>1. SameRecord /\ SameBatch /\ NoneGoes /\ job'.at = "replace"
          BY <1>a, <2>u, <2>2 DEF Goes, SameRecord, SameBatch, NoneGoes
    <3>2. OwedKept'  BY <2>u, <3>1, KeepsOwed DEF Deleting
    <3>3. QED  BY <1>c, <2>u, <2>2, <3>1, <3>2
  <2>3. CASE KeysFail /\ UNCHANGED ks  BY <1>f, <2>u, <2>3
  <2>4. ks = NoFile => Stored = {}  BY DEF Stored
  <2>5. QED  BY <1>1, <2>1, <2>2, <2>3, <2>4 DEF Load
<1>2. CASE Replace
  <2>1. Stored = {} /\ job.at = "replace"  BY <1>2 DEF Replace, At, AInv, NothingFiled, Stored
  <2>2. SameRecord /\ SameBatch /\ NoneGoes /\ job'.at = "delete"
        BY <1>2, <1>a, <2>1 DEF Replace, Server, History, SameRecord, SameBatch, NoneGoes
  <2>3. OwedKept'  BY <2>1, <2>2, KeepsOwed DEF Deleting
  <2>4. QED  BY <1>c, <2>1, <2>2, <2>3
<1>3. CASE PrepareDelete
  <2>1. job.at = "delete" /\ UNCHANGED <<want, ks, mem>>  BY <1>3 DEF PrepareDelete, At, Server
  <2>2. CASE Checks("deleted")  BY <1>g, <2>1, <2>2
  <2>3. CASE Checks("set")  BY <1>g, <2>1, <2>3
  <2>4. QED  BY <1>3, <2>2, <2>3 DEF PrepareDelete
<1>4. CASE Delete
  <2>1. /\ Stored' = job.seen \ job.del /\ gone' = gone /\ SameRecord /\ SameBatch
        /\ job.at = "deleted" /\ job'.at = "set"
        BY <1>4, <1>a, Filed DEF Delete, WriteTo, At, Server, History, SameRecord, SameBatch
  <2>2. Owed \subseteq job.seen \cup gone  BY <2>1 DEF AInv, OwedKept
  <2>3. mem.rev = want.rev => job.del \cap want.pol = {}
        BY <2>1, JobType DEF AInv, Revisions, Towards, At
  <2>4. Owed' \subseteq Stored' \cup gone'
        BY <2>1, <2>2, <2>3 DEF Owed, Deleting, SameRecord, SameBatch
  <2>5. OwedKept'  BY <2>1, <2>4 DEF OwedKept
  <2>6. QED  BY <1>c, <2>1, <2>5
<1>5. CASE PrepareSet
  <2>1. job.at = "set" /\ UNCHANGED <<want, ks, mem>>  BY <1>5 DEF PrepareSet, At, Server
  <2>2. CASE job.set = {}
    <3>1. SameRecord /\ SameBatch /\ NoneGoes /\ job'.at = "stKeys"
          BY <1>5, <1>a, <2>1, <2>2 DEF PrepareSet, Goes, SameRecord, SameBatch, NoneGoes, Stored
    <3>2. OwedKept'  BY <2>1, <3>1, KeepsOwed DEF Deleting, SameBatch
    <3>3. QED  BY <1>c, <2>1, <2>2, <3>1, <3>2
  <2>3. CASE job.set # {}  BY <1>5, <1>g, <2>1, <2>3 DEF PrepareSet
  <2>4. QED  BY <2>2, <2>3
<1>6. CASE Set
  <2>1. /\ Stored' = job.seen \cup job.set /\ gone' = gone \ job.set /\ SameRecord /\ SameBatch
        /\ job.at = "written" /\ job'.at = "stKeys"
        BY <1>6, <1>a, Filed DEF Set, WriteTo, At, Server, SameRecord, SameBatch
  <2>2. Owed \subseteq job.seen \cup gone  BY <2>1 DEF AInv, OwedKept
  <2>3. Owed' = Owed  BY <2>1 DEF Owed, Deleting, SameRecord, SameBatch
  <2>4. OwedKept'  BY <2>1, <2>2, <2>3 DEF OwedKept
  <2>5. QED  BY <1>c, <2>1, <2>4
<1>7. CASE KeystoreFails
      BY <1>7, <1>f DEF KeystoreFails, Server
\* The record: what the keystore holds, or nothing, and then what was deleted is gone.
<1>8. CASE StoreKeys \/ StoreKeysFails
  <2>1. /\ job.at = "stKeys"
        /\ \/ job' = [job EXCEPT !.at = "count"]
           \/ job' = [job EXCEPT !.at = "count", !.seen = Stored]
        /\ UNCHANGED <<want, ks>> /\ mem'.rev = mem.rev
        BY <1>8, <1>a DEF StoreKeys, StoreKeysFails, At, Goes, Server
  <2>2. SameBatch /\ job'.at = "count" /\ job'.failed = job.failed  BY <1>a, <2>1 DEF SameBatch
  <2>3. CASE mem'.keys = Stored /\ gone' = gone
    <3>1. mem.rev = want.rev => want.pol \subseteq Stored \cup gone
          BY DEF AInv, OwedKept, Owed
    <3>2. OwedKept'  BY <2>1, <2>2, <2>3, <3>1 DEF OwedKept, Owed, Deleting, Stored
    <3>3. NoneGoes  BY <2>1, <2>3 DEF NoneGoes, Stored
    <3>4. Revisions' /\ Towards'  BY <2>1, <2>2, <3>3, AmongRecords DEF Applied
    <3>5. QED  BY <1>k, <2>2, <3>2, <3>4 DEF AInv, NothingFiled
  <2>4. CASE mem' = mem /\ gone' = gone \cup Unrecorded
    <3>1. SameRecord /\ NoneGoes  BY <2>1, <2>4 DEF SameRecord, NoneGoes, Stored
    <3>2. OwedKept'  BY <2>1, <2>2, <2>4, <3>1, KeepsOwed DEF Deleting
    <3>3. Revisions' /\ Towards'  BY <2>1, <2>2, <3>1, AmongRecords DEF Applied
    <3>4. QED  BY <1>k, <2>2, <3>2, <3>3 DEF AInv, NothingFiled
  <2>5. QED  BY <1>8, <1>a, <2>3, <2>4 DEF StoreKeys, StoreKeysFails
\* The last read: a failure it ends in is known, and nothing else changes.
<1>9. CASE Count
  <2>0. UNCHANGED <<want, ks, mem>> /\ job.at = "count"  BY <1>9 DEF Count, Server, At
  <2>1. /\ job'.at \in {"restart", "ack"} /\ job'.failed \in {job.failed, TRUE}
        /\ gone \subseteq gone' /\ SameBatch
        BY <1>9, <1>a DEF Count, Checks, KeysFail, SameBatch
  <2>2. SameRecord /\ NoneGoes  BY <2>0, <2>1 DEF SameRecord, NoneGoes, Stored
  <2>3. OwedKept'  BY <2>0, <2>1, <2>2, KeepsOwed DEF Deleting
  <2>4. Revisions' /\ Towards'  BY <2>0, <2>1, <2>2, AmongRecords DEF Applied, SameRecord
  <2>5. QED  BY <1>k, <2>1, <2>3, <2>4 DEF AInv, NothingFiled
<1>10. QED  BY <1>1, <1>2, <1>3, <1>4, <1>5, <1>6, <1>7, <1>8, <1>9 DEF UpdateKeystore

\* The end of a check-in.
LEMMA AInvEnds ==
    ASSUME AInv, Restart \/ StoreSnmp \/ Ack \/ RestartFails \/ RecreateFails \/ Dies
    PROVE  AInv'
<1>a. job \in [at : Places, rev : 0 .. MaxEdits + 1, change : Locks \cup {Keep},
               set : SUBSET Keys, del : SUBSET Keys, seen : SUBSET Keys,
               dirty : BOOLEAN, files : BOOLEAN, failed : BOOLEAN, wiped : BOOLEAN]
      /\ mem \in [pw : Locks, hash : Locks, keys : SUBSET Keys, snmp : SUBSET SnmpKeys,
                  rev : 0 .. MaxEdits + 1]
      BY JobType DEF AInv
<1>k. KInv'  BY KInvNext DEF AInv, Next, CheckIn, Fails
<1>u. UNCHANGED <<want, ks>>
      BY DEF Restart, StoreSnmp, Ack, RestartFails, RecreateFails, Dies, Server
<1>1. CASE Restart \/ StoreSnmp \/ RestartFails
  <2>0. /\ mem'.keys = mem.keys /\ mem'.rev = mem.rev /\ gone' = gone
        /\ job.at \in {"restart", "stSnmpKeys"}
        /\ \E p \in {"stSnmpKeys", "ack"} :
              job' = [job EXCEPT !.at = p] \/ job' = [job EXCEPT !.at = p, !.failed = TRUE]
        BY <1>1, <1>a DEF Restart, StoreSnmp, RestartFails, Goes, At, History
  <2>1. /\ SameRecord /\ SameBatch /\ gone' = gone /\ job'.failed \in {job.failed, TRUE}
        /\ job.at \in {"restart", "stSnmpKeys"} /\ job'.at \in {"stSnmpKeys", "ack"}
        BY <1>a, <1>u, <2>0 DEF SameRecord, SameBatch
  <2>2. NoneGoes  BY <1>u, <2>1 DEF NoneGoes, Stored
  <2>3. OwedKept'  BY <2>1, <2>2, KeepsOwed DEF Deleting
  <2>4. Revisions' /\ Towards'  BY <2>1, <2>2, AmongRecords DEF Applied, SameRecord
  <2>5. QED  BY <1>k, <2>1, <2>3, <2>4 DEF AInv, NothingFiled
<1>2. CASE RecreateFails \/ Dies
  <2>1. SameRecord /\ NoneGoes /\ Ends /\ job'.at = "idle" /\ ~Deleting'
        BY <1>2, <1>u
        DEF RecreateFails, Dies, Aborts, Ends, Resting, History, SameRecord, NoneGoes, Stored, Deleting
  <2>2. Deleting => Unrecorded \subseteq gone'
        BY <1>2 DEF RecreateFails, Dies, Deleting, At
  <2>3. OwedKept'  BY <1>u, <2>1, <2>2, KeepsOwed
  <2>4. mem'.rev <= want'.rev  BY <2>1 DEF AInv, Revisions, SameRecord
  <2>5. QED  BY <1>k, <2>1, <2>3, <2>4, Over DEF AInv
<1>3. CASE Ack
  <2>1. /\ At("ack") /\ Ends /\ UNCHANGED gone /\ mem'.keys = mem.keys
        /\ mem'.rev \in {mem.rev, job.rev}
        /\ mem'.rev # mem.rev => ~(job.files /\ job.failed)
        BY <1>3, <1>a DEF Ack, History
  <2>2. job'.at = "idle" /\ ~Deleting /\ ~Deleting'  BY <2>1 DEF Ends, Resting, Deleting, At
  <2>3. mem'.rev <= want'.rev  BY <1>u, <2>1, JobType DEF AInv, Revisions, At
  <2>4. OwedKept'
    <3>1. (mem.keys \cap PolicyKeys) \subseteq Stored \cup gone
          BY <2>2 DEF AInv, OwedKept, Owed
    <3>2. mem'.rev = want.rev => want.pol \subseteq Stored \cup gone
      <4>1. CASE mem'.rev = mem.rev  BY <4>1 DEF AInv, OwedKept, Owed
      <4>2. CASE mem'.rev # mem.rev
            BY <2>1, <4>2 DEF AInv, Towards, Applied, At
      <4>3. QED  BY <4>1, <4>2
    <3>3. QED  BY <1>u, <2>1, <2>2, <3>1, <3>2 DEF OwedKept, Owed, Stored
  <2>5. QED  BY <1>k, <2>1, <2>3, <2>4, Over DEF AInv
<1>4. QED  BY <1>1, <1>2, <1>3

\* Operators, and the server.
LEMMA AInvOperator == ASSUME AInv, NEW k \in Keys, OperatorAdds(k) \/ OperatorRemoves(k)  PROVE AInv'
<1>k. KInv'  BY KInvNext DEF AInv, Next
<1>1. UNCHANGED <<want, mem, job>> /\ ks # NoFile /\ ks \in Keystores
      BY DEF OperatorAdds, OperatorRemoves, Server, History, Stored, AInv, KInv, KTypeOK
<1>2. gone \subseteq gone' /\ NoneGoes
  <2>1. ks' \in Keystores  BY <1>1 DEF OperatorAdds, OperatorRemoves, Keystores
  <2>2. Stored' = ks'.keys /\ Stored = ks.keys  BY <1>1, <2>1 DEF Stored
  <2>3. CASE OperatorAdds(k)
    <3>1. ks'.keys = ks.keys \cup {k} /\ gone' = gone
          BY <1>1, <2>3 DEF OperatorAdds, Keystores, History
    <3>2. QED  BY <2>2, <3>1 DEF NoneGoes
  <2>4. CASE OperatorRemoves(k)
    <3>1. ks'.keys = ks.keys \ {k} /\ gone' = gone \cup {k}
          BY <1>1, <2>4 DEF OperatorRemoves, Keystores
    <3>2. QED  BY <2>2, <3>1 DEF NoneGoes
  <2>5. QED  BY <2>3, <2>4
<1>3. SameRecord /\ SameBatch /\ (Deleting' <=> Deleting)  BY <1>1 DEF SameRecord, SameBatch, Deleting
<1>4. OwedKept'  BY <1>1, <1>2, <1>3, KeepsOwed
<1>5. Revisions' /\ NothingFiled'  BY <1>1 DEF AInv, Revisions, NothingFiled, At
<1>6. Towards'
  <2>1. want.pol \in SUBSET PolicyKeys  BY JobType DEF AInv
  <2>2. want.pol \subseteq Stored \cup gone => want.pol \subseteq Stored' \cup gone'
        BY <1>2, <2>1 DEF NoneGoes
  <2>3. QED  BY <1>1, <2>2 DEF AInv, Towards, At
<1>7. QED  BY <1>k, <1>4, <1>5, <1>6 DEF AInv

LEMMA AInvServer ==
    ASSUME AInv,
           \/ \E pw \in Locks, pol \in SUBSET PolicyKeys : PolicyChanges(pw, pol)
           \/ \E snmp \in SUBSET SnmpKeys : SnmpChanges(snmp)
    PROVE  AInv'
<1>k. KInv'  BY KInvNext DEF AInv, Next
<1>0. want \in [pw : Locks, pol : SUBSET PolicyKeys, snmp : SUBSET SnmpKeys, rev : 1 .. MaxEdits + 1]
      BY DEF AInv, KInv, KTypeOK
<1>1. UNCHANGED <<ks, mem, job, gone>>  BY DEF PolicyChanges, SnmpChanges, History
<1>2. want'.rev = want.rev + 1 \/ (want'.rev = want.rev /\ want'.pol = want.pol)
  <2>1. ASSUME NEW pw \in Locks, NEW pol \in SUBSET PolicyKeys, PolicyChanges(pw, pol)
        PROVE  want'.rev = want.rev + 1
        BY <1>0, <2>1 DEF PolicyChanges
  <2>2. ASSUME NEW snmp \in SUBSET SnmpKeys, SnmpChanges(snmp)
        PROVE  want'.rev = want.rev /\ want'.pol = want.pol
        BY <1>0, <2>2 DEF SnmpChanges
  <2>3. QED  BY <2>1, <2>2
\* A revision that is new is neither acknowledged nor under way.
<1>3. CASE want'.rev = want.rev + 1
  <2>1. /\ mem.rev # want'.rev /\ (~At("idle") => job.rev # want'.rev)
        /\ Revisions'
        BY <1>1, <1>3, JobType DEF AInv, Revisions, At
  <2>2. OwedKept'  BY <1>1, <2>1 DEF AInv, OwedKept, Owed, Deleting, Stored
  <2>3. Towards'  BY <1>1, <2>1 DEF Towards, At
  <2>4. QED  BY <1>k, <1>1, <2>1, <2>2, <2>3 DEF AInv, NothingFiled
<1>4. CASE want'.rev = want.rev /\ want'.pol = want.pol
      BY <1>k, <1>1, <1>4
      DEF AInv, OwedKept, Owed, Deleting, Stored, Revisions, NothingFiled, Towards, At
<1>5. QED  BY <1>2, <1>3, <1>4

LEMMA AInvNext == ASSUME AInv, [Next]_vars  PROVE AInv'
<1>1. CASE CheckIn  BY <1>1, AInvFetch, AInvPassword, AInvKeys, AInvEnds DEF CheckIn
<1>2. CASE Fails  BY <1>2, AInvPassword, AInvKeys, AInvEnds DEF Fails
<1>3. CASE \E k \in Keys : OperatorAdds(k) \/ OperatorRemoves(k)  BY <1>3, AInvOperator
<1>4. CASE \/ \E pw \in Locks, pol \in SUBSET PolicyKeys : PolicyChanges(pw, pol)
           \/ \E snmp \in SUBSET SnmpKeys : SnmpChanges(snmp)
      BY <1>4, AInvServer
<1>5. CASE UNCHANGED vars
  <2>1. KInv'  BY <1>5, KInvNext DEF AInv
  <2>2. QED
        BY <1>5, <2>1
        DEF vars, AInv, OwedKept, Owed, Deleting, Stored, Revisions, NothingFiled, Towards, At
<1>6. QED  BY <1>1, <1>2, <1>3, <1>4, <1>5 DEF Next

(* _apply_merged_plan's acknowledgement (controller.py 2157-2169, 2254-2261), for
   every set of keys and passwords and any number of edits and faults: of an
   acknowledged revision the keystore holds every key but those counted as gone,
   whatever failed, died or was edited between the batch and its record. *)
THEOREM AcknowledgedKeys == Spec => []AckedKeysStored
<1>1. AInv => AckedKeysStored  BY DEF AInv, OwedKept, Owed, AckedKeysStored
<1>2. QED  BY <1>1, AInvInit, AInvNext, PTL DEF Spec
=============================================================================
