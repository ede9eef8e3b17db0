------------------------ MODULE SlotRecovery_proofs ------------------------
(***************************************************************************)
(* Proofs about SlotAllocation, then about SlotRecovery, which extends it, *)
(* and of both that the slot table is the pool of SlotPool: for every      *)
(* table size, set of contents, number of concurrent requests and number   *)
(* of recoveries.                                                          *)
(***************************************************************************)
EXTENDS SlotRecovery, FiniteSetTheorems, TLAPS

USE SlotsAssumption, AttemptsAssumption, NoneAssumption

\* Each helper that rewrites the table keeps its type.
LEMMA TableTypes ==
    ASSUME TypeOK, NEW s \in Slots, NEW S \in SUBSET Slots
    PROVE  /\ Youngest(s) \in [Slots -> Slots]
           /\ Unbooked(S) \in [Slots -> Hashes \cup {None}]
           /\ AgeReset(S) \in [Slots -> Ages]
           /\ Touched(s) \in [Slots -> Ages]
  <1>1. Youngest(s) \in [Slots -> Slots]
    <2>1. ASSUME NEW r \in Slots PROVE Youngest(s)[r] \in Slots
      <3>1. rank[r] \in 1..NumSlots /\ rank[s] \in 1..NumSlots /\ NumSlots \in Nat \ {0}
        BY <2>1, SlotsAssumption DEF TypeOK, Slots
      <3>2. Youngest(s)[r] = IF r = s THEN NumSlots
                             ELSE IF rank[r] > rank[s] THEN rank[r] - 1 ELSE rank[r]
        BY <2>1 DEF Youngest
      <3> QED BY <3>1, <3>2 DEF Slots
    <2> QED BY <2>1 DEF Youngest
  <1>2. Unbooked(S) \in [Slots -> Hashes \cup {None}]
    BY DEF Unbooked, TypeOK
  <1>3. AgeReset(S) \in [Slots -> Ages] /\ Touched(s) \in [Slots -> Ages]
    BY DEF AgeReset, Touched, TypeOK, Ages
  <1> QED BY <1>1, <1>2, <1>3

\* What the ends of a flight assign is well typed.
FlightTypes ==
    /\ flights' \in [Hashes -> Tasks \cup {None}]
    /\ pc' \in [Tasks -> PCs]
    /\ hash' \in [Tasks -> Hashes \cup {None}]
    /\ slot' \in [Tasks -> Slots \cup {None}]
    /\ reused' \in [Tasks -> BOOLEAN]
    /\ att' \in [Tasks -> 0..(Attempts - 1)]
    /\ waits' \in [Tasks -> Tasks \cup {None}]

\* Serving a flight keeps the types.
LEMMA ServeTypes ==
    ASSUME TypeOK, NEW t \in Tasks, ServeFlight(t)
    PROVE  FlightTypes
  <1>1. flights' \in [Hashes -> Tasks \cup {None}]
    BY DEF ServeFlight, EndFlight, TypeOK
  <1>2. /\ pc' \in [Tasks -> PCs]
        /\ waits' \in [Tasks -> Tasks \cup {None}]
        /\ hash' \in [Tasks -> Hashes \cup {None}]
        /\ slot' \in [Tasks -> Slots \cup {None}]
        /\ reused' \in [Tasks -> BOOLEAN]
    BY DEF ServeFlight, Answer, TypeOK, PCs, Idle
  <1>3. att' \in [Tasks -> 0..(Attempts - 1)]
    BY AttemptsAssumption DEF ServeFlight, TypeOK
  <1> QED BY <1>1, <1>2, <1>3 DEF FlightTypes

\* Failing a flight keeps the types: a request goes round while it has attempts.
LEMMA FailTypes ==
    ASSUME TypeOK, NEW t \in Tasks, FailFlight(t)
    PROVE  FlightTypes
  <1>1. flights' \in [Hashes -> Tasks \cup {None}]
    BY DEF FailFlight, EndFlight, TypeOK
  <1>2. /\ pc' \in [Tasks -> PCs]
        /\ waits' \in [Tasks -> Tasks \cup {None}]
        /\ hash' \in [Tasks -> Hashes \cup {None}]
        /\ slot' \in [Tasks -> Slots \cup {None}]
        /\ reused' \in [Tasks -> BOOLEAN]
    BY DEF FailFlight, Answer, TypeOK, PCs, Idle
  <1>3. att' \in [Tasks -> 0..(Attempts - 1)]
    BY AttemptsAssumption DEF FailFlight, TypeOK
  <1> QED BY <1>1, <1>2, <1>3 DEF FlightTypes

-----------------------------------------------------------------------------
\* The inductive invariant.

\* A request in the flight loop knows its content; one with a booking its slot.
Informed ==
    /\ \A t \in Tasks : pc[t] \notin Idle => hash[t] \in Hashes
    /\ \A t \in Tasks : Working(t) => slot[t] \in Slots

\* _allocate_flights and the requests agree: a leader is registered under its
\* content, what is registered is a leader of that content, and a joined request
\* waits on what is registered.
FlightsAgree ==
    /\ \A t \in Tasks : pc[t] \in Leading => flights[hash[t]] = t
    /\ \A h \in Hashes : flights[h] # None =>
          pc[flights[h]] \in Leading /\ hash[flights[h]] = h
    /\ \A t \in Tasks : pc[t] = "joined" =>
          waits[t] \in Tasks /\ flights[hash[t]] = waits[t]

\* Without recoveries nothing replaces the create locks while requests hold them,
\* so one request at a time is between the probe of a slot and the end of its create.
OneGeneration == \A t \in Tasks : lockEp[t] = epoch

CreateExclusion ==
    \A t, u \in Tasks :
        pc[t] \in InLock /\ pc[u] \in InLock /\ slot[t] = slot[u] => t = u

IInv == TypeOK /\ Informed /\ FlightsAgree /\ OneGeneration /\ CreateExclusion /\ OwnFiles

\* The variables of SlotAllocation keep their types.
LEMMA TypeStep == TypeOK /\ Informed /\ [Next]_vars => TypeOK'
  <1> SUFFICES ASSUME TypeOK /\ Informed, [Next]_vars PROVE TypeOK'
    OBVIOUS
  <1>0. TypeOK /\ Informed
    OBVIOUS
  <1> USE <1>0 DEF PCs, Idle, Leading, InLock, Sweeps, tableVars, lsVars, sweepVars, taskVars
  <1>1. ASSUME NEW t \in Tasks, NEW h \in Hashes, Request(t, h) PROVE TypeOK'
    BY <1>1 DEF TypeOK, Request
  <1>2. ASSUME NEW t \in Tasks, BeginFlight(t) PROVE TypeOK'
    BY <1>2 DEF TypeOK, BeginFlight, InFlight
  <1>3. ASSUME NEW t \in Tasks, Lookup(t) PROVE TypeOK'
    BY <1>3 DEF TypeOK, Lookup
  <1>4. ASSUME NEW t \in Tasks, AllocateSlot(t) PROVE TypeOK'
    <2>0. hash[t] \in Hashes
      BY <1>4 DEF AllocateSlot, Informed
    <2>1. PICK s \in Slots :
            /\ ReuseSlot(t, s) \/ TakeEmptySlot(t, s) \/ EvictOldest(t, s)
            /\ slot' = [slot EXCEPT ![t] = s]
      BY <1>4 DEF AllocateSlot
    <2>2. /\ book' \in [Slots -> Hashes \cup {None}] /\ age' \in [Slots -> Ages]
          /\ rank' \in [Slots -> Slots] /\ conf' \in [Slots -> Hashes \cup {None}]
      <3>1. CASE ReuseSlot(t, s)
        BY <3>1, TableTypes DEF ReuseSlot, TypeOK
      <3>2. CASE TakeEmptySlot(t, s)
        BY <3>2, <2>0, TableTypes DEF TakeEmptySlot, TypeOK
      <3>3. CASE EvictOldest(t, s)
        BY <3>3, <2>0, TableTypes DEF EvictOldest, TypeOK
      <3> QED BY <2>1, <3>1, <3>2, <3>3
    <2> QED BY <1>4, <2>1, <2>2 DEF AllocateSlot, TypeOK
  <1>5. ASSUME NEW t \in Tasks, AcquireCreateLock(t) PROVE TypeOK'
    BY <1>5 DEF TypeOK, AcquireCreateLock
  <1>6. ASSUME NEW t \in Tasks, Probe(t) PROVE TypeOK'
    <2>0. hash[t] \in Hashes
      BY <1>6 DEF Probe, Informed
    <2>1. CASE ForceDelete(t) \/ CreateStep(t)
      BY <1>6, <2>0, <2>1 DEF Probe, ForceDelete, CreateStep, TypeOK
    <2>2. CASE ServeFlight(t) /\ UNCHANGED conf
      BY <1>6, <2>2, ServeTypes DEF Probe, FlightTypes, TypeOK
    <2>3. CASE /\ pc' = [pc EXCEPT ![t] = "evictwait"]
               /\ UNCHANGED <<conf, hash, slot, reused, att, waits, flights>>
      BY <1>6, <2>3 DEF Probe, TypeOK
    <2> QED BY <1>6, <2>1, <2>2, <2>3 DEF Probe
  <1>7. ASSUME NEW t \in Tasks, EvictWait(t) \/ Rebuild(t) PROVE TypeOK'
    BY <1>7 DEF TypeOK, EvictWait, Rebuild, ForceDelete, CreateStep, Informed
  <1>8. ASSUME NEW t \in Tasks, PutFails(t) \/ ReleaseFailed(t) PROVE TypeOK'
    <2>0. CASE conf' = [conf EXCEPT ![slot[t]] = hash[t]] /\ UNCHANGED <<book, age>>
      <3>1. hash[t] \in Hashes /\ FailFlight(t)
        BY <1>8 DEF PutFails, ReleaseFailed, Informed
      <3> QED BY <1>8, <2>0, <3>1, FailTypes DEF PutFails, ReleaseFailed, FlightTypes, TypeOK
    <2> SUFFICES ASSUME ReleaseIfHash(t) PROVE TypeOK'
      BY <1>8, <2>0 DEF PutFails, ReleaseFailed
    <2>1. ReleaseIfHash(t) /\ FailFlight(t) /\ slot[t] \in Slots
      BY <1>8 DEF PutFails, ReleaseFailed, Informed, Working
    <2>2. /\ book' \in [Slots -> Hashes \cup {None}] /\ age' \in [Slots -> Ages]
          /\ conf' \in [Slots -> Hashes \cup {None}]
      <3>1. {slot[t]} \in SUBSET Slots
        BY <2>1
      <3>2. /\ Unbooked({slot[t]}) \in [Slots -> Hashes \cup {None}]
            /\ AgeReset({slot[t]}) \in [Slots -> Ages]
        BY <2>1, <3>1, TableTypes
      <3> QED BY <2>1, <3>2 DEF ReleaseIfHash, TypeOK
    <2> QED BY <1>8, <2>1, <2>2, FailTypes DEF PutFails, ReleaseFailed, FlightTypes, TypeOK
  <1>9. ASSUME NEW t \in Tasks, VerifyOK(t) \/ VerifyFails(t) PROVE TypeOK'
    BY <1>9 DEF TypeOK, VerifyOK, VerifyFails
  <1>10. ASSUME NEW t \in Tasks, Settle(t) PROVE TypeOK'
    BY <1>10, ServeTypes DEF Settle, FlightTypes, TypeOK
  <1>11. ASSUME SweepStep PROVE TypeOK'
    <2>1. ASSUME NEW S \in SUBSET Booked, Evict(S)
          PROVE  /\ book' \in [Slots -> Hashes \cup {None}] /\ age' \in [Slots -> Ages]
                 /\ doomed' \in [Slots -> Hashes \cup {None}]
      <3>1. S \in SUBSET Slots
        BY DEF Booked
      <3>2. PICK s \in Slots : TRUE
        BY SlotsAssumption DEF Slots
      <3>3. /\ Unbooked(S) \in [Slots -> Hashes \cup {None}]
            /\ AgeReset(S) \in [Slots -> Ages]
        BY <3>1, <3>2, TableTypes
      <3> QED BY <2>1, <3>1, <3>3 DEF Evict, TypeOK
    <2>2. ASSUME EvictExpired PROVE TypeOK'
      BY <2>1, <2>2 DEF EvictExpired, TypeOK
    <2>3. ASSUME EvictFailed PROVE TypeOK'
      BY <2>1, <2>3 DEF EvictFailed, FailedCandidates, TypeOK
    <2>4. ASSUME EvictFailedFallback PROVE TypeOK'
      BY <2>1, <2>4 DEF EvictFailedFallback, TypeOK
    <2>5. ASSUME ListPipelines \/ SweepSleeps PROVE TypeOK'
      BY <2>5 DEF ListPipelines, SweepSleeps, TypeOK
    <2>6. ASSUME NEW s \in Slots, DeleteSlotPipelines(s) PROVE TypeOK'
      BY <2>6 DEF DeleteSlotPipelines, TypeOK
    <2> QED BY <1>11, <2>2, <2>3, <2>4, <2>5, <2>6 DEF SweepStep
  <1>12. ASSUME NEW s \in Slots, ReleaseSlot(s) PROVE TypeOK'
    BY <1>12, TableTypes DEF ReleaseSlot, TypeOK
  <1>13. ASSUME NEW s \in Slots, TimePasses(s) PROVE TypeOK'
    <2>1. age[s] \in Ages /\ age[s] < Expired
      BY <1>13 DEF TimePasses, TypeOK
    <2>2. age[s] + 1 \in Ages
      BY <2>1 DEF Ages, Expired
    <2>3. age' \in [Slots -> Ages]
      BY <1>13, <2>2 DEF TimePasses, TypeOK
    <2> QED BY <1>13, <2>3 DEF TimePasses, TypeOK
  <1>14. ASSUME NEW s \in Slots, LogstashReload(s) \/ LogstashFlips(s) PROVE TypeOK'
    <2>1. CASE LogstashReload(s)
      BY <2>1 DEF LogstashReload, TypeOK
    <2>2. CASE LogstashFlips(s)
      BY <2>2 DEF LogstashFlips, TypeOK
    <2> QED BY <1>14, <2>1, <2>2
  <1>15. ASSUME UNCHANGED vars PROVE TypeOK'
    BY <1>15 DEF vars, TypeOK
  <1> QED
    BY <1>1, <1>2, <1>3, <1>4, <1>5, <1>6, <1>7, <1>8, <1>9, <1>10, <1>11, <1>12,
       <1>13, <1>14, <1>15 DEF Next, TaskStep

Core == Informed /\ FlightsAgree /\ OneGeneration /\ CreateExclusion /\ OwnFiles

\* A step that leaves the requests and the flights alone, and files nothing.
LEMMA FrameStep ==
    ASSUME IInv, UNCHANGED <<taskVars, flights, epoch>>,
           \A s \in Slots : conf'[s] \in {conf[s], None}
    PROVE  Core'
  <1> USE DEF IInv, taskVars, Idle, Leading, InLock
  <1>1. Informed' BY DEF Informed, Working
  <1>2. FlightsAgree' BY DEF FlightsAgree
  <1>3. OneGeneration' BY DEF OneGeneration
  <1>4. CreateExclusion' BY DEF CreateExclusion
  <1>5. OwnFiles' BY DEF OwnFiles, Informed, Working
  <1> QED BY <1>1, <1>2, <1>3, <1>4, <1>5 DEF Core

\* The end of a leader, served or failed, takes it and its joined requests out of
\* the flight and leaves every other request as it was.
LEMMA EndStep ==
    ASSUME IInv, NEW t \in Tasks, pc[t] \in Leading,
           ServeFlight(t) \/ FailFlight(t), UNCHANGED <<epoch, lockEp>>,
           \A s \in Slots : \/ conf'[s] \in {conf[s], None}
                           \/ (pc[t] \in InLock /\ s = slot[t])
    PROVE  Core'
  <1> DEFINE hit == {t} \cup JoinedTo(t)
  <1> USE DEF IInv, Idle, Leading, InLock
  <1>1. /\ \A u \in Tasks \ hit : /\ pc'[u] = pc[u] /\ hash'[u] = hash[u]
                                  /\ slot'[u] = slot[u] /\ waits'[u] = waits[u]
        /\ \A u \in hit : /\ pc'[u] \in {"served", "failed", "flight"}
                          /\ pc'[u] = "flight" => hash'[u] = hash[u]
        /\ hit \subseteq Tasks
    BY DEF ServeFlight, FailFlight, Answer, JoinedTo, TypeOK
  <1>2. hash[t] \in Hashes /\ flights[hash[t]] = t
    BY DEF Informed, FlightsAgree
  <1>3. flights' = [flights EXCEPT ![hash[t]] = None]
    BY <1>2 DEF ServeFlight, FailFlight, EndFlight, TypeOK
  <1>4. \A u \in hit : hash[u] \in Hashes
    BY <1>1, <1>2 DEF JoinedTo, Informed
  <1>5. Informed'
    BY <1>1, <1>4 DEF Informed, Working
  <1>6. FlightsAgree'
    <2>1. ASSUME NEW u \in Tasks, pc'[u] \in Leading PROVE flights'[hash'[u]] = u
      <3>1. u \notin hit /\ pc[u] \in Leading /\ flights[hash[u]] = u /\ u # t
        BY <1>1, <2>1 DEF FlightsAgree
      <3> QED BY <1>1, <1>2, <1>3, <2>1, <3>1 DEF TypeOK, Informed
    <2>2. ASSUME NEW h \in Hashes, flights'[h] # None
          PROVE  pc'[flights'[h]] \in Leading /\ hash'[flights'[h]] = h
      <3>1. h # hash[t] /\ flights'[h] = flights[h]
        BY <1>2, <1>3, <2>2 DEF TypeOK
      <3>2. flights[h] \in Tasks /\ pc[flights[h]] \in Leading /\ hash[flights[h]] = h
        BY <2>2, <3>1 DEF FlightsAgree, TypeOK
      <3>3. flights[h] \notin hit
        BY <3>1, <3>2 DEF JoinedTo
      <3> QED BY <1>1, <3>1, <3>2, <3>3
    <2>3. ASSUME NEW u \in Tasks, pc'[u] = "joined"
          PROVE  waits'[u] \in Tasks /\ flights'[hash'[u]] = waits'[u]
      <3>1. u \notin hit /\ pc[u] = "joined"
        BY <1>1, <2>3
      <3>2. waits[u] # t /\ waits[u] \in Tasks /\ flights[hash[u]] = waits[u]
        BY <3>1 DEF JoinedTo, FlightsAgree
      <3>3. hash[u] # hash[t]
        BY <1>2, <3>2
      <3> QED BY <1>1, <1>3, <3>1, <3>2, <3>3 DEF TypeOK, Informed
    <2> QED BY <2>1, <2>2, <2>3 DEF FlightsAgree
  <1>7. OneGeneration'
    BY DEF OneGeneration
  <1>8. CreateExclusion'
    BY <1>1 DEF CreateExclusion
  <1>9. OwnFiles'
    <2>1. ASSUME NEW u \in Tasks, pc'[u] \in {"verify", "dropped"}
          PROVE  conf'[slot'[u]] \in {hash'[u], None}
      <3>1. u \notin hit /\ pc[u] \in {"verify", "dropped"} /\ slot[u] \in Slots
        BY <1>1, <2>1 DEF Informed, Working
      <3>2. ~(pc[t] \in InLock /\ slot[u] = slot[t])
        BY <3>1 DEF CreateExclusion
      <3> QED BY <1>1, <3>1, <3>2 DEF OwnFiles
    <2> QED BY <2>1 DEF OwnFiles
  <1> QED BY <1>5, <1>6, <1>7, <1>8, <1>9 DEF Core

\* A request that moves on inside its flight, touching no other one.
LEMMA MoveStep ==
    ASSUME IInv, NEW t \in Tasks, pc[t] \in Leading,
           NEW next \in Leading, pc' = [pc EXCEPT ![t] = next],
           UNCHANGED <<hash, waits, flights, epoch>>,
           next = "lookup" \/ next = "book" \/ slot'[t] \in Slots,
           \A u \in Tasks \ {t} : slot'[u] = slot[u],
           OneGeneration',
           next \in InLock => \/ pc[t] \in InLock /\ slot' = slot
                              \/ \A u \in Tasks \ {t} : ~(pc[u] \in InLock /\ slot[u] = slot'[t]),
           \A s \in Slots : conf'[s] \in {conf[s], None, hash[t]},
           next \in {"verify", "dropped"} => conf'[slot'[t]] \in {hash[t], None},
           \/ \A s \in Slots : conf'[s] \in {conf[s], None}
           \/ /\ pc[t] \in InLock /\ slot' = slot
              /\ \A s \in Slots : s # slot[t] => conf'[s] \in {conf[s], None}
    PROVE  Core'
  <1> USE DEF IInv, Idle, Leading, InLock
  <1>0. \A u \in Tasks : pc'[u] = IF u = t THEN next ELSE pc[u]
    BY DEF TypeOK
  <1>1. Informed' BY <1>0 DEF Informed, Working
  <1>2. FlightsAgree' BY <1>0 DEF FlightsAgree, TypeOK
  <1>3. CreateExclusion' BY <1>0 DEF CreateExclusion
  <1>4. OwnFiles'
    <2>1. ASSUME NEW u \in Tasks, u # t, pc[u] \in {"verify", "dropped"}
          PROVE  conf'[slot'[u]] \in {hash[u], None}
      <3>1. slot'[u] = slot[u] /\ slot[u] \in Slots /\ conf[slot[u]] \in {hash[u], None}
        BY <2>1 DEF Informed, Working, OwnFiles
      <3>2. CASE \A s \in Slots : conf'[s] \in {conf[s], None}
        BY <3>1, <3>2
      <3>3. CASE /\ pc[t] \in InLock /\ slot' = slot
                 /\ \A s \in Slots : s # slot[t] => conf'[s] \in {conf[s], None}
        <4>1. slot[u] # slot[t]
          BY <2>1, <3>3 DEF CreateExclusion
        <4> QED BY <3>1, <3>3, <4>1
      <3> QED BY <3>2, <3>3
    <2> QED BY <1>0, <2>1 DEF OwnFiles
  <1> QED BY <1>1, <1>2, <1>3, <1>4 DEF Core

\* Core is inductive.
LEMMA CoreStep == IInv /\ [Next]_vars => Core'
  <1> SUFFICES ASSUME IInv, [Next]_vars PROVE Core'
    OBVIOUS
  <1> USE DEF Idle, Leading, InLock, tableVars, lsVars, sweepVars
  <1>0. TypeOK /\ Core
    BY DEF IInv, Core
  <1>1. ASSUME NEW t \in Tasks, NEW h \in Hashes, Request(t, h) PROVE Core'
    <2>1. Informed' /\ OneGeneration' /\ CreateExclusion'
      BY <1>0, <1>1 DEF Core, TypeOK, Request, Informed, Working, OneGeneration, CreateExclusion
    <2>2. FlightsAgree'
      BY <1>0, <1>1 DEF Core, TypeOK, Request, FlightsAgree
    <2>3. OwnFiles'
      BY <1>0, <1>1 DEF Core, TypeOK, Request, OwnFiles
    <2> QED BY <2>1, <2>2, <2>3 DEF Core
  <1>2. ASSUME NEW t \in Tasks, BeginFlight(t) PROVE Core'
    <2>1. Informed' /\ OneGeneration' /\ CreateExclusion'
      BY <1>0, <1>2 DEF Core, TypeOK, BeginFlight, Informed, Working, OneGeneration, CreateExclusion
    <2>2. FlightsAgree'
      BY <1>0, <1>2 DEF Core, TypeOK, BeginFlight, InFlight, Informed, FlightsAgree
    <2>3. OwnFiles'
      BY <1>0, <1>2 DEF Core, TypeOK, BeginFlight, OwnFiles
    <2> QED BY <2>1, <2>2, <2>3 DEF Core
  <1>3. ASSUME NEW t \in Tasks, Lookup(t) PROVE Core'
    BY <1>0, <1>3, MoveStep DEF Lookup, Core, OneGeneration
  <1>4. ASSUME NEW t \in Tasks, AllocateSlot(t) PROVE Core'
    <2>1. PICK s \in Slots :
            /\ ReuseSlot(t, s) \/ TakeEmptySlot(t, s) \/ EvictOldest(t, s)
            /\ slot' = [slot EXCEPT ![t] = s]
      BY <1>4 DEF AllocateSlot
    <2>2. \A r \in Slots : conf'[r] \in {conf[r], None}
      BY <1>0, <2>1 DEF TypeOK, ReuseSlot, TakeEmptySlot, EvictOldest
    <2>3. OneGeneration'
      BY <1>0, <1>4 DEF AllocateSlot, TypeOK, Core, OneGeneration
    <2>4. slot'[t] \in Slots /\ \A u \in Tasks \ {t} : slot'[u] = slot[u]
      BY <1>0, <2>1 DEF TypeOK
    <2> QED BY <1>4, <2>2, <2>3, <2>4, MoveStep DEF AllocateSlot
  <1>5. ASSUME NEW t \in Tasks, AcquireCreateLock(t) PROVE Core'
    <2>1. \A u \in Tasks \ {t} : ~(pc[u] \in InLock /\ slot[u] = slot[t])
      BY <1>0, <1>5 DEF AcquireCreateLock, LockHeld, Core, OneGeneration
    <2>2. slot[t] \in Slots
      BY <1>0, <1>5 DEF AcquireCreateLock, Core, Informed, Working
    <2> QED BY <1>0, <1>5, <2>1, <2>2, MoveStep DEF AcquireCreateLock, Core, OneGeneration
  <1>6. ASSUME NEW t \in Tasks, pc[t] \in {"probe", "evictwait", "rebuild"},
               CreateStep(t), UNCHANGED <<epoch, lockEp>>
        PROVE Core'
    <2>1. slot[t] \in Slots /\ hash[t] \in Hashes
      BY <1>0, <1>6 DEF Core, Informed, Working
    <2>2. /\ conf'[slot[t]] = hash[t]
          /\ \A s \in Slots : s # slot[t] => conf'[s] = conf[s]
      BY <1>0, <1>6, <2>1 DEF CreateStep, TypeOK
    <2>3. OneGeneration'
      BY <1>0, <1>6 DEF Core, OneGeneration
    <2> QED BY <1>6, <2>1, <2>2, <2>3, MoveStep DEF CreateStep
  <1>d. ASSUME NEW t \in Tasks, pc[t] \in {"probe", "evictwait"}, ForceDelete(t),
               UNCHANGED <<epoch, lockEp>>
        PROVE Core'
    <2>1. slot[t] \in Slots /\ OneGeneration'
      BY <1>0, <1>d DEF Core, Informed, Working, OneGeneration
    <2>2. CASE /\ conf' = [conf EXCEPT ![slot[t]] = None]
               /\ pc' = [pc EXCEPT ![t] = "rebuild"]
               /\ UNCHANGED <<hash, slot, reused, att, waits, flights>>
      <3>1. \A s \in Slots : conf'[s] \in {conf[s], None}
        BY <1>0, <2>1, <2>2 DEF TypeOK
      <3> QED BY <1>d, <2>1, <2>2, <3>1, MoveStep
    <2> QED BY <1>6, <1>d, <2>2 DEF ForceDelete
  <1>7. ASSUME NEW t \in Tasks, Probe(t) PROVE Core'
    <2>1. CASE ForceDelete(t) \/ CreateStep(t)
      BY <1>6, <1>d, <1>7, <2>1 DEF Probe
    <2>2. CASE ServeFlight(t) /\ UNCHANGED conf
      <3>1. pc[t] \in Leading /\ UNCHANGED <<epoch, lockEp>>
        BY <1>7 DEF Probe
      <3>2. \A s \in Slots : conf'[s] \in {conf[s], None} \/ (pc[t] \in InLock /\ s = slot[t])
        BY <2>2
      <3> QED BY <2>2, <3>1, <3>2, EndStep
    <2>3. CASE /\ pc' = [pc EXCEPT ![t] = "evictwait"]
               /\ UNCHANGED <<conf, hash, slot, reused, att, waits, flights>>
      <3>1. slot[t] \in Slots /\ OneGeneration'
        BY <1>0, <1>7, <2>3 DEF Probe, Core, Informed, Working, OneGeneration
      <3> QED BY <1>7, <2>3, <3>1, MoveStep DEF Probe
    <2> QED BY <1>7, <2>1, <2>2, <2>3 DEF Probe
  <1>8. ASSUME NEW t \in Tasks, EvictWait(t) \/ Rebuild(t) PROVE Core'
    BY <1>6, <1>d, <1>8 DEF EvictWait, Rebuild
  <1>9. ASSUME NEW t \in Tasks, PutFails(t) \/ ReleaseFailed(t) PROVE Core'
    <2>1. /\ FailFlight(t) /\ pc[t] \in InLock
          /\ UNCHANGED <<epoch, lockEp>>
      BY <1>9 DEF PutFails, ReleaseFailed
    <2>2. \A s \in Slots : conf'[s] = conf[s] \/ s = slot[t]
      BY <1>0, <1>9 DEF PutFails, ReleaseFailed, ReleaseIfHash, TypeOK
    <2>3. \A s \in Slots : conf'[s] \in {conf[s], None} \/ (pc[t] \in InLock /\ s = slot[t])
      BY <2>1, <2>2
    <2>4. pc[t] \in Leading
      BY <2>1
    <2> QED BY <2>1, <2>3, <2>4, EndStep
  <1>10. ASSUME NEW t \in Tasks, VerifyOK(t) PROVE Core'
    <2>1. slot[t] \in Slots /\ OneGeneration'
      BY <1>0, <1>10 DEF VerifyOK, Core, Informed, Working, OneGeneration
    <2> QED BY <1>10, <2>1, MoveStep DEF VerifyOK
  <1>11. ASSUME NEW t \in Tasks, VerifyFails(t) PROVE Core'
    <2>1. slot[t] \in Slots /\ OneGeneration'
      BY <1>0, <1>11 DEF VerifyFails, Core, Informed, Working, OneGeneration
    <2>2. conf'[slot[t]] = None /\ \A s \in Slots : conf'[s] \in {conf[s], None}
      BY <1>0, <1>11, <2>1 DEF VerifyFails, TypeOK
    <2> QED BY <1>11, <2>1, <2>2, MoveStep DEF VerifyFails
  <1>12. ASSUME NEW t \in Tasks, Settle(t) PROVE Core'
    <2>1. pc[t] \in Leading /\ ServeFlight(t) /\ UNCHANGED <<conf, epoch, lockEp>>
      BY <1>12 DEF Settle
    <2>2. \A s \in Slots : conf'[s] \in {conf[s], None} \/ (pc[t] \in InLock /\ s = slot[t])
      BY <2>1
    <2> QED BY <2>1, <2>2, EndStep
  <1>13. ASSUME SweepStep PROVE Core'
    <2>1. \A s \in Slots : conf'[s] \in {conf[s], None}
      BY <1>0, <1>13 DEF SweepStep, EvictExpired, ListPipelines, EvictFailed,
         EvictFailedFallback, SweepSleeps, DeleteSlotPipelines, TypeOK
    <2>2. UNCHANGED <<taskVars, flights, epoch>>
      BY <1>13 DEF SweepStep, EvictExpired, ListPipelines, EvictFailed,
         EvictFailedFallback, SweepSleeps, DeleteSlotPipelines
    <2> QED BY <2>1, <2>2, FrameStep
  <1>14. ASSUME NEW s \in Slots,
                ReleaseSlot(s) \/ TimePasses(s) \/ LogstashReload(s) \/ LogstashFlips(s)
         PROVE Core'
    <2>1. \A r \in Slots : conf'[r] \in {conf[r], None}
      BY <1>0, <1>14 DEF ReleaseSlot, TimePasses, LogstashReload, LogstashFlips, TypeOK
    <2>2. UNCHANGED <<taskVars, flights, epoch>>
      BY <1>14 DEF ReleaseSlot, TimePasses, LogstashReload, LogstashFlips
    <2> QED BY <2>1, <2>2, FrameStep
  <1>15. ASSUME UNCHANGED vars PROVE Core'
    BY <1>15, FrameStep DEF vars
  <1> QED
    BY <1>1, <1>2, <1>3, <1>4, <1>5, <1>7, <1>8, <1>9, <1>10, <1>11, <1>12,
       <1>13, <1>14, <1>15 DEF Next, TaskStep

-----------------------------------------------------------------------------
\* Theorems.

\* The inductive invariant holds in every reachable state.
THEOREM Invariance == Spec => []IInv
  <1>1. Init => IInv
    <2> SUFFICES ASSUME Init PROVE IInv
      OBVIOUS
    <2> USE DEF Init, Idle, Leading, InLock
    <2>1. TypeOK
      BY SlotsAssumption, AttemptsAssumption DEF TypeOK, Slots, Ages, PCs, Sweeps
    <2>2. Informed /\ FlightsAgree /\ OneGeneration /\ CreateExclusion /\ OwnFiles
      BY DEF Informed, Working, FlightsAgree, OneGeneration, CreateExclusion, OwnFiles
    <2> QED BY <2>1, <2>2 DEF IInv
  <1>2. IInv /\ [Next]_vars => IInv'
    BY TypeStep, CoreStep DEF IInv, Core
  <1> QED BY <1>1, <1>2, PTL DEF Spec

\* Type correctness.
THEOREM TypeCorrect == Spec => []TypeOK
  <1>1. IInv => TypeOK BY DEF IInv
  <1> QED BY <1>1, Invariance, PTL

\* begin_allocate_flight and complete_allocate_flight keep one leader per content.
THEOREM OneLeader == Spec => []SingleFlight
  <1>1. IInv => SingleFlight
    BY DEF IInv, FlightsAgree, SingleFlight
  <1> QED BY <1>1, Invariance, PTL

\* No joined request waits on a future nobody will resolve.
THEOREM NoOrphanFollower == Spec => []FollowersCovered
  <1>1. IInv => FollowersCovered
    <2> SUFFICES ASSUME IInv, NEW t \in Tasks, pc[t] = "joined"
                 PROVE  /\ waits[t] \in Tasks /\ pc[waits[t]] \in Leading
                        /\ hash[waits[t]] = hash[t] /\ flights[hash[t]] = waits[t]
      BY DEF FollowersCovered
    <2>1. hash[t] \in Hashes /\ waits[t] \in Tasks /\ flights[hash[t]] = waits[t]
      BY DEF IInv, Informed, FlightsAgree, Idle
    <2> QED BY <2>1, NoneAssumption DEF IInv, FlightsAgree
  <1> QED BY <1>1, Invariance, PTL

\* What a request verifies in its slot is never another request's content, even
\* when allocate_slot has given the slot away meanwhile.
THEOREM FilesAreOwn == Spec => []OwnFiles
  <1>1. IInv => OwnFiles BY DEF IInv
  <1> QED BY <1>1, Invariance, PTL

\* evict_failed_slots never frees the slot a request is at work in, because the
\* flight of its content is registered until the request ends.
THEOREM SweepIsSafe == Spec => SweepSparesWorkers
  <1>1. ASSUME IInv, [Next]_vars, sweep = "decide", sweep' = "drop_failed",
               NEW t \in Tasks, Working(t), book[slot[t]] = hash[t]
        PROVE  book'[slot[t]] = book[slot[t]]
    <2>1. EvictFailed
      BY <1>1 DEF Next, TaskStep, SweepStep, Request, BeginFlight, Lookup, AllocateSlot,
         AcquireCreateLock, Probe, EvictWait, Rebuild, PutFails, VerifyOK, VerifyFails,
         ReleaseFailed, Settle, EvictExpired, DeleteSlotPipelines, ListPipelines, EvictFailedFallback,
         SweepSleeps, ReleaseSlot, TimePasses, LogstashReload, LogstashFlips, vars, sweepVars
    <2>2. /\ slot[t] \in Slots /\ hash[t] \in Hashes /\ flights[hash[t]] = t
      BY <1>1 DEF IInv, Informed, FlightsAgree, Working, Idle, InLock, Leading
    <2>3. slot[t] \notin FailedCandidates
      BY <1>1, <2>2, NoneAssumption DEF FailedCandidates, InFlight
    <2>4. PICK S \in SUBSET FailedCandidates : Evict(S)
      BY <2>1 DEF EvictFailed
    <2> QED BY <2>2, <2>3, <2>4 DEF Evict, Unbooked
  <1>2. IInv /\ [Next]_vars =>
          [sweep = "decide" /\ sweep' = "drop_failed" =>
             \A t \in Tasks : Working(t) /\ book[slot[t]] = hash[t] =>
                book'[slot[t]] = book[slot[t]]]_vars
    BY <1>1
  <1> QED BY <1>2, Invariance, PTL DEF Spec, SweepSparesWorkers

\* A request that leaves its work empty-handed is the one that took the step.
LEMMA WhoFails ==
    ASSUME IInv, [Next]_vars, NEW t \in Tasks, Working(t), pc'[t] \in {"flight", "failed"}
    PROVE  PutFails(t) \/ ReleaseFailed(t)
  <1> USE DEF IInv, Idle, InLock, Leading
  <1>1. pc[t] \notin {"flight", "joined"} /\ pc'[t] # pc[t]
    BY DEF Working
  <1>2. ASSUME NEW u \in Tasks, u # t,
               ServeFlight(u) \/ FailFlight(u)
        PROVE  FALSE
    BY <1>1, <1>2 DEF ServeFlight, FailFlight, JoinedTo, TypeOK
  <1>3. ASSUME NEW u \in Tasks, u # t, NEW v, pc' = [pc EXCEPT ![u] = v]
        PROVE  FALSE
    BY <1>1, <1>3 DEF TypeOK
  <1>4. ~UNCHANGED pc
    BY <1>1
  <1>5. PICK u \in Tasks : TaskStep(u) \/ \E h \in Hashes : Request(u, h)
    BY <1>4 DEF Next, SweepStep, EvictExpired, DeleteSlotPipelines, ListPipelines, EvictFailed,
       EvictFailedFallback, SweepSleeps, ReleaseSlot, TimePasses, LogstashReload,
       LogstashFlips, vars, taskVars
  <1>6. u = t
    <2> SUFFICES ASSUME u # t PROVE FALSE
      OBVIOUS
    <2>1. (\E v : pc' = [pc EXCEPT ![u] = v]) \/ ServeFlight(u) \/ FailFlight(u)
      BY <1>5 DEF TaskStep, Request, BeginFlight, Lookup, AllocateSlot, AcquireCreateLock,
         Probe, CreateStep, ForceDelete, EvictWait, Rebuild, PutFails, VerifyOK, VerifyFails,
         ReleaseFailed, Settle
    <2> QED BY <1>2, <1>3, <2>1
  <1>7. ~(\E v \in {"lookup", "book", "lock", "settle", "probe", "evictwait", "rebuild",
                    "verify", "dropped"} : pc' = [pc EXCEPT ![t] = v])
    BY DEF TypeOK
  <1>8. ~ServeFlight(t)
    BY DEF ServeFlight, TypeOK
  <1> QED
    BY <1>1, <1>5, <1>6, <1>7, <1>8 DEF TaskStep, Request, BeginFlight, Lookup, AllocateSlot,
       AcquireCreateLock, Probe, CreateStep, ForceDelete, EvictWait, Rebuild, VerifyOK,
       VerifyFails, Settle, Working

\* release_slot_if_hash in a failing request never takes the booking under which
\* another request works.
THEOREM FailureIsContained == Spec => FailureSparesPeers
  <1>1. ASSUME IInv, [Next]_vars, NEW t \in Tasks, NEW u \in Tasks, t # u,
               Working(t), pc'[t] \in {"flight", "failed"},
               Working(u), hash[u] = book[slot[u]]
        PROVE  book'[slot[u]] = book[slot[u]]
    <2>1. ReleaseIfHash(t) \/ UNCHANGED book
      BY <1>1, WhoFails DEF PutFails, ReleaseFailed
    <2>2. hash[t] # hash[u]
      BY <1>1 DEF IInv, FlightsAgree, Working, InLock, Leading
    <2>3. slot[u] \in Slots
      BY <1>1 DEF IInv, Informed
    <2> QED BY <1>1, <2>1, <2>2, <2>3 DEF ReleaseIfHash, Unbooked
  <1>2. IInv /\ [Next]_vars =>
          [\A t, u \in Tasks :
             /\ t # u /\ Working(t) /\ pc'[t] \in {"flight", "failed"}
             /\ Working(u) /\ hash[u] = book[slot[u]]
             => book'[slot[u]] = book[slot[u]]]_vars
    BY <1>1
  <1> QED BY <1>2, Invariance, PTL DEF Spec, FailureSparesPeers

-----------------------------------------------------------------------------
\* Under recoveries several requests may lead one content, and hold create locks
\* of several generations; what is left of FlightsAgree is inductive by itself.

Led ==
    /\ \A h \in Hashes : flights[h] # None => pc[flights[h]] \in Leading /\ hash[flights[h]] = h
    /\ \A t \in Tasks : pc[t] = "joined" =>
          waits[t] \in Tasks /\ pc[waits[t]] \in Leading /\ hash[waits[t]] = hash[t]

RInv == TypeOK /\ Informed /\ Led

\* A step keeps what Informed and Led say, and every registration of a leader.
Kept ==
    /\ Informed' /\ Led'
    /\ \A h \in Hashes : flights[h] # None =>
          flights'[h] = flights[h] \/ pc'[flights[h]] \notin Leading

\* A request that moves on inside its flight, touching no other one.
LEMMA MoveLed ==
    ASSUME RInv, NEW t \in Tasks, pc[t] \in Leading,
           NEW next \in Leading, pc' = [pc EXCEPT ![t] = next],
           UNCHANGED <<hash, waits, flights>>,
           next = "lookup" \/ next = "book" \/ slot'[t] \in Slots,
           \A u \in Tasks \ {t} : slot'[u] = slot[u]
    PROVE  Kept
  <1> USE DEF RInv, Idle, Leading, InLock
  <1>1. \A u \in Tasks : pc'[u] = IF u = t THEN next ELSE pc[u]
    BY DEF TypeOK
  <1>2. Informed' BY <1>1 DEF Informed, Working
  <1>3. \A h \in Hashes : flights[h] # None => flights[h] \in Tasks
    BY DEF TypeOK
  <1>4. Led' BY <1>1, <1>3 DEF Led
  <1> QED BY <1>2, <1>4 DEF Kept

\* A leader that ends takes its registration and all who joined it along.
LEMMA EndLed ==
    ASSUME RInv, NEW t \in Tasks, pc[t] \in Leading, ServeFlight(t) \/ FailFlight(t)
    PROVE  Kept
  <1> USE DEF RInv, Idle, Leading, InLock
  <1> DEFINE hit == {t} \cup JoinedTo(t)
  <1>0. hash[t] \in Hashes
    BY DEF Informed
  <1>1. /\ \A u \in Tasks \ hit : /\ pc'[u] = pc[u] /\ waits'[u] = waits[u]
                                  /\ hash'[u] = hash[u] /\ slot'[u] = slot[u]
        /\ \A u \in hit : pc'[u] \in {"served", "failed", "flight"}
        /\ \A u \in hit : pc'[u] = "flight" => hash'[u] = hash[u]
        /\ hit \subseteq Tasks
    BY DEF ServeFlight, FailFlight, Answer, JoinedTo
  <1>2. \A h \in Hashes : flights'[h] = IF h = hash[t] /\ flights[h] = t THEN None ELSE flights[h]
    BY <1>0 DEF ServeFlight, FailFlight, EndFlight, TypeOK
  <1>3. \A u \in hit : u # t => pc[u] = "joined" /\ waits[u] = t
    BY DEF JoinedTo
  <1>4. Informed'
    <2>1. ASSUME NEW u \in Tasks, pc'[u] \notin Idle  PROVE hash'[u] \in Hashes
      BY <1>1, <1>3, <2>1 DEF Informed
    <2>2. ASSUME NEW u \in Tasks, Working(u)'  PROVE slot'[u] \in Slots
      BY <1>1, <2>2 DEF Informed, Working
    <2> QED BY <2>1, <2>2 DEF Informed
  <1>5. ASSUME NEW u \in Tasks, u # t, pc[u] \in Leading
        PROVE  pc'[u] = pc[u] /\ hash'[u] = hash[u]
    BY <1>1, <1>3, <1>5
  <1>6. Led'
    <2>1. ASSUME NEW h \in Hashes, flights'[h] # None
          PROVE  pc'[flights'[h]] \in Leading /\ hash'[flights'[h]] = h
      <3>1. /\ flights'[h] = flights[h] /\ flights[h] \in Tasks
            /\ pc[flights[h]] \in Leading /\ hash[flights[h]] = h
        BY <1>2, <2>1 DEF Led, TypeOK
      <3>2. flights[h] # t
        BY <1>2, <2>1, <3>1
      <3> QED BY <1>5, <3>1, <3>2
    <2>2. ASSUME NEW u \in Tasks, pc'[u] = "joined"
          PROVE  waits'[u] \in Tasks /\ pc'[waits'[u]] \in Leading /\ hash'[waits'[u]] = hash'[u]
      <3>1. u \notin hit /\ pc[u] = "joined"
        BY <1>1, <2>2
      <3>2. waits[u] # t /\ waits[u] \in Tasks /\ pc[waits[u]] \in Leading /\ hash[waits[u]] = hash[u]
        BY <3>1 DEF JoinedTo, Led
      <3> QED BY <1>1, <1>5, <3>1, <3>2
    <2> QED BY <2>1, <2>2 DEF Led
  <1>7. \A h \in Hashes : flights[h] # None =>
          flights'[h] = flights[h] \/ pc'[flights[h]] \notin Leading
    BY <1>1, <1>2
  <1> QED BY <1>4, <1>6, <1>7 DEF Kept

\* The steps of SlotAllocation.
LEMMA NextLed == ASSUME RInv, [Next]_vars PROVE Kept
  <1> USE DEF Idle, Leading, InLock, tableVars, lsVars, sweepVars, taskVars
  <1>u. ASSUME UNCHANGED <<pc, hash, slot, waits, flights>> PROVE Kept
    BY <1>u DEF Kept, RInv, Informed, Led, Working
  <1>1. ASSUME NEW t \in Tasks, NEW h \in Hashes, Request(t, h) PROVE Kept
    <2>1. /\ pc[t] \notin Leading /\ UNCHANGED <<slot, waits, flights>>
          /\ \A u \in Tasks : pc'[u] = IF u = t THEN "flight" ELSE pc[u]
          /\ \A u \in Tasks : hash'[u] = IF u = t THEN h ELSE hash[u]
      BY <1>1 DEF Request, RInv, TypeOK
    <2>2. Informed'
      BY <2>1 DEF RInv, Informed, Working
    <2>3. Led'
      BY <2>1 DEF RInv, TypeOK, Led
    <2> QED BY <2>1, <2>2, <2>3 DEF Kept
  <1>2. ASSUME NEW t \in Tasks, BeginFlight(t) PROVE Kept
    <2>1. pc[t] = "flight" /\ hash[t] \in Hashes /\ UNCHANGED <<hash, slot>>
      BY <1>2 DEF BeginFlight, RInv, Informed
    <2>2. CASE InFlight(hash[t])
      <3>1. /\ waits' = [waits EXCEPT ![t] = flights[hash[t]]]
            /\ pc' = [pc EXCEPT ![t] = "joined"] /\ UNCHANGED flights
        BY <1>2, <2>2 DEF BeginFlight
      <3>2. /\ flights[hash[t]] \in Tasks /\ pc[flights[hash[t]]] \in Leading
            /\ hash[flights[hash[t]]] = hash[t]
        BY <2>1, <2>2 DEF InFlight, RInv, TypeOK, Led
      <3>3. Informed' /\ Led'
        BY <2>1, <3>1, <3>2 DEF RInv, TypeOK, Informed, Working, Led
      <3> QED BY <3>1, <3>3 DEF Kept
    <2>3. CASE ~InFlight(hash[t])
      <3>1. /\ flights' = [flights EXCEPT ![hash[t]] = t] /\ flights[hash[t]] = None
            /\ pc' = [pc EXCEPT ![t] = "lookup"] /\ UNCHANGED waits
        BY <1>2, <2>1, <2>3 DEF BeginFlight, InFlight
      <3>2. Informed'
        BY <2>1, <3>1 DEF RInv, TypeOK, Informed, Working
      <3>3. Led'
        BY <2>1, <3>1 DEF RInv, TypeOK, Led
      <3> QED BY <2>1, <3>1, <3>2, <3>3 DEF Kept, RInv, TypeOK
    <2> QED BY <2>2, <2>3
  <1>3. ASSUME NEW t \in Tasks, Lookup(t) PROVE Kept
    BY <1>3, MoveLed DEF Lookup
  <1>4. ASSUME NEW t \in Tasks, AllocateSlot(t) PROVE Kept
    <2>1. \E s \in Slots : slot' = [slot EXCEPT ![t] = s]
      BY <1>4 DEF AllocateSlot
    <2>2. slot'[t] \in Slots /\ \A u \in Tasks \ {t} : slot'[u] = slot[u]
      BY <2>1 DEF RInv, TypeOK
    <2> QED BY <1>4, <2>2, MoveLed DEF AllocateSlot
  <1>w. \A t \in Tasks : Working(t) => slot[t] \in Slots
    BY DEF RInv, Informed
  <1>5. ASSUME NEW t \in Tasks, AcquireCreateLock(t) \/ VerifyOK(t) \/ VerifyFails(t) PROVE Kept
    <2>1. slot[t] \in Slots
      BY <1>5, <1>w DEF AcquireCreateLock, VerifyOK, VerifyFails, Working
    <2> QED BY <1>5, <2>1, MoveLed DEF AcquireCreateLock, VerifyOK, VerifyFails
  <1>6. ASSUME NEW t \in Tasks, Probe(t) \/ EvictWait(t) \/ Rebuild(t) PROVE Kept
    <2>1. pc[t] \in InLock /\ slot[t] \in Slots
      BY <1>6, <1>w DEF Probe, EvictWait, Rebuild, Working
    <2>2. \/ ServeFlight(t)
          \/ \E next \in {"verify", "evictwait", "rebuild"} :
                pc' = [pc EXCEPT ![t] = next] /\ UNCHANGED <<hash, slot, waits, flights>>
      BY <1>6 DEF Probe, EvictWait, Rebuild, ForceDelete, CreateStep
    <2> QED BY <2>1, <2>2, EndLed, MoveLed
  <1>7. ASSUME NEW t \in Tasks, PutFails(t) \/ ReleaseFailed(t) \/ Settle(t) PROVE Kept
    BY <1>7, EndLed DEF PutFails, ReleaseFailed, Settle
  <1>8. ASSUME SweepStep PROVE Kept
    BY <1>8, <1>u DEF SweepStep, EvictExpired, ListPipelines, EvictFailed,
       EvictFailedFallback, SweepSleeps, DeleteSlotPipelines
  <1>9. ASSUME NEW s \in Slots,
               ReleaseSlot(s) \/ TimePasses(s) \/ LogstashReload(s) \/ LogstashFlips(s)
        PROVE  Kept
    BY <1>9, <1>u DEF ReleaseSlot, TimePasses, LogstashReload, LogstashFlips
  <1>10. ASSUME UNCHANGED vars PROVE Kept
    BY <1>10, <1>u DEF vars
  <1> QED
    BY <1>1, <1>2, <1>3, <1>4, <1>5, <1>6, <1>7, <1>8, <1>9, <1>10 DEF Next, TaskStep

\* A recovery leaves every request where it is; only one of its steps touches the
\* flights, and it drops them all.
LEMMA RecoveryLed ==
    ASSUME RInv, RecoveryStep
    PROVE  RInv' /\ (recovery' # recovery \/ UNCHANGED flights)
  <1> USE DEF tableVars, lsVars, sweepVars, taskVars, Goes
  <1>1. UNCHANGED <<pc, hash, slot, waits, reused, att, lockEp, sweep, doomed, listed, rank>>
    BY DEF RecoveryStep, Quarantine, ForgetSlots, DropFlights, WriteBare, SanitizeFails,
       EvictAll, RemoveFiles, RestartLogstash, RestartFails, vars
  <1>2. \/ UNCHANGED flights
        \/ flights' = [h \in Hashes |-> None] /\ recovery' # recovery
    BY DEF RecoveryStep, Quarantine, ForgetSlots, DropFlights, WriteBare, SanitizeFails,
       EvictAll, RemoveFiles, RestartLogstash, RestartFails, vars
  <1>3. Informed' /\ Led'
    BY <1>1, <1>2 DEF RInv, Informed, Led, Working
  <1>4. TypeOK'
    <2>1. PICK s \in Slots : TRUE
      BY SlotsAssumption DEF Slots
    <2>2. /\ Unbooked(Slots) \in [Slots -> Hashes \cup {None}]
          /\ AgeReset(Slots) \in [Slots -> Ages]
      BY <2>1, TableTypes DEF RInv
    <2>3. CASE Quarantine \/ WriteBare \/ RemoveFiles
      BY <2>3 DEF RInv, TypeOK, Quarantine, WriteBare, RemoveFiles, NoConf, SomeFilesGo
    <2>4. CASE ForgetSlots \/ EvictAll
      BY <2>2, <2>4 DEF RInv, TypeOK, ForgetSlots, EvictAll
    <2>5. CASE DropFlights
      BY <2>5 DEF RInv, TypeOK, DropFlights
    <2>6. CASE RestartLogstash \/ RestartFails
      BY <2>6 DEF RInv, TypeOK, RestartLogstash, RestartFails, NoConf
    <2>7. CASE SanitizeFails
      BY <2>7 DEF RInv, TypeOK, SanitizeFails, vars
    <2> QED BY <2>3, <2>4, <2>5, <2>6, <2>7 DEF RecoveryStep
  <1> QED BY <1>2, <1>3, <1>4 DEF RInv

LEMMA RStep ==
    ASSUME RInv, [RNext]_rvars
    PROVE  /\ RInv'
           /\ recovery' = recovery =>
                \A h \in Hashes : flights[h] # None =>
                    flights'[h] = flights[h] \/ pc'[flights[h]] \notin Leading
  <1>1. CASE [Next]_vars
    <2>1. TypeOK'  BY <1>1, TypeStep DEF RInv
    <2> QED BY <1>1, <2>1, NextLed DEF Kept, RInv
  <1>2. CASE RecoveryStep
    BY <1>2, RecoveryLed
  <1> QED BY <1>1, <1>2 DEF RNext, rvars

LEMMA RInvariance == RSpec => []RInv
  <1>1. RInit => RInv
    <2> SUFFICES ASSUME RInit PROVE RInv
      OBVIOUS
    <2>1. TypeOK
      BY DEF RInit, Init, TypeOK, Slots, Ages, PCs, Sweeps, Idle
    <2>2. Informed /\ Led
      BY DEF RInit, Init, Informed, Working, Led, Idle, Leading, InLock
    <2> QED BY <2>1, <2>2 DEF RInv
  <1>2. RInv /\ [RNext]_rvars => RInv'
    BY RStep
  <1> QED BY <1>1, <1>2, PTL DEF RSpec

\* The future a joined request awaits belongs to a request that still leads its
\* content, whatever clear_allocate_flights forgot meanwhile.
THEOREM FollowersKeepTheirLeader == RSpec => []FollowersHaveLeader
  <1>1. RInv => FollowersHaveLeader  BY DEF RInv, Led, FollowersHaveLeader
  <1> QED BY <1>1, RInvariance, PTL

\* An entry of _allocate_flights never outlives its leader: no later request
\* joins a flight that nobody will complete.
THEOREM RegisteredMeansLeading == RSpec => []FlightsAreLed
  <1>1. RInv => FlightsAreLed  BY DEF RInv, Led, FlightsAreLed
  <1> QED BY <1>1, RInvariance, PTL

\* complete_allocate_flight pops its own entry only: through any number of
\* recoveries no request ends the registration of another one that leads.
THEOREM NobodyEndsAnothersFlight == RSpec => LeaderKeepsFlight
  <1>1. RInv /\ [RNext]_rvars =>
          [\A h \in Hashes : flights[h] # None /\ recovery' = recovery =>
             flights'[h] = flights[h] \/ pc'[flights[h]] \notin Leading]_rvars
    BY RStep
  <1> QED BY <1>1, RInvariance, PTL DEF RSpec, LeaderKeepsFlight

-----------------------------------------------------------------------------
\* The table implements the pool.  The refinement needs that no content is booked
\* twice and that created_at orders the slots.

Ordered ==
    /\ \A r, s \in Booked : book[r] = book[s] => r = s
    /\ \A r, s \in Slots : rank[r] = rank[s] => r = s

\* The two variables of the pool.
Pooled == {book[s] : s \in Booked}
Before == {<<book[p[1]], book[p[2]]>> : p \in Earlier}

BeforeByRank ==
    \A p : p \in Before <=> \E r, s \in Booked : p = <<book[r], book[s]>> /\ rank[r] < rank[s]

LEMMA InBefore == BeforeByRank
  <1> SUFFICES
        \A p : p \in Before <=> \E r, s \in Booked : p = <<book[r], book[s]>> /\ rank[r] < rank[s]
    BY DEF BeforeByRank
  <1>1. \A r, s : <<r, s>> \in Earlier <=> r \in Booked /\ s \in Booked /\ rank[r] < rank[s]
    BY DEF Earlier
  <1>2. \A q \in Earlier : q = <<q[1], q[2]>> /\ q[1] \in Booked /\ q[2] \in Booked
    BY DEF Earlier
  <1>3. ASSUME NEW p \in Before
        PROVE  \E r, s \in Booked : p = <<book[r], book[s]>> /\ rank[r] < rank[s]
    <2>1. PICK q \in Earlier : p = <<book[q[1]], book[q[2]]>>
      BY DEF Before
    <2>2. q[1] \in Booked /\ q[2] \in Booked /\ rank[q[1]] < rank[q[2]]
      BY <1>1, <1>2
    <2> QED BY <2>1, <2>2
  <1>4. ASSUME NEW r \in Booked, NEW s \in Booked, rank[r] < rank[s]
        PROVE  <<book[r], book[s]>> \in Before
    <2>1. <<r, s>> \in Earlier /\ <<r, s>>[1] = r /\ <<r, s>>[2] = s
      BY <1>1, <1>4
    <2> QED BY <2>1 DEF Before
  <1> QED BY <1>3, <1>4

LEMMA InBeforeNext == BeforeByRank'
BY InBefore, PTL

\* SlotPool counts as this module does.
LEMMA SameCount == \A S : Pool!Cardinality(S) = Cardinality(S)
BY DEF Pool!Cardinality, Cardinality

\* The pool is full when the table is.
LEMMA PoolSize ==
    ASSUME TypeOK, Ordered
    PROVE  /\ Cardinality(Pooled) = NumSlots <=> Booked = Slots
           /\ Booked # Slots => Cardinality(Pooled) < NumSlots
  <1>1. IsFiniteSet(Slots) /\ Cardinality(Slots) = NumSlots
    BY FS_Interval DEF Slots
  <1>2. Booked \in SUBSET Slots
    BY DEF Booked
  <1>3. /\ IsFiniteSet(Booked) /\ Cardinality(Booked) <= NumSlots
        /\ Cardinality(Booked) = NumSlots => Booked = Slots
    BY <1>1, <1>2, FS_Subset
  <1>4. Cardinality(Pooled) = Cardinality(Booked)
    <2> DEFINE f == [s \in Booked |-> book[s]]
    <2>1. f \in Bijection(Booked, Pooled)
      BY DEF Ordered, Pooled, Bijection, Injection, Surjection, IsInjective
    <2>2. ExistsBijection(Booked, Pooled)
      BY <2>1 DEF ExistsBijection
    <2> QED BY <1>3, <2>2, FS_Bijection
  <1>5. Cardinality(Booked) \in Nat
    BY <1>3, FS_CardinalityType
  <1> QED BY <1>1, <1>3, <1>4, <1>5

\* What Youngest does to the order.
LEMMA YoungestOrder ==
    ASSUME TypeOK, Ordered, NEW s \in Slots
    PROVE  /\ \A r \in Slots \ {s} : Youngest(s)[r] < Youngest(s)[s]
           /\ \A r, q \in Slots \ {s} : Youngest(s)[r] < Youngest(s)[q] <=> rank[r] < rank[q]
           /\ \A r, q \in Slots : Youngest(s)[r] = Youngest(s)[q] => r = q
  <1>1. \A r \in Slots : rank[r] \in 1..NumSlots /\ (r # s => rank[r] # rank[s])
    BY DEF TypeOK, Ordered, Slots
  <1>2. \A r \in Slots : Youngest(s)[r] = IF r = s THEN NumSlots
                                          ELSE IF rank[r] > rank[s] THEN rank[r] - 1 ELSE rank[r]
    BY DEF Youngest
  <1>3. \A r \in Slots \ {s} : Youngest(s)[r] < Youngest(s)[s]
    BY <1>1, <1>2
  <1>4. \A r, q \in Slots \ {s} : Youngest(s)[r] < Youngest(s)[q] <=> rank[r] < rank[q]
    BY <1>1, <1>2
  <1>5. \A r, q \in Slots \ {s} : Youngest(s)[r] = Youngest(s)[q] => rank[r] = rank[q]
    BY <1>1, <1>2
  <1>6. \A r \in Slots : Youngest(s)[r] \in Int
    BY <1>1, <1>2
  <1>7. \A r, q \in Slots : Youngest(s)[r] = Youngest(s)[q] => r = q
    <2> SUFFICES ASSUME NEW r \in Slots, NEW q \in Slots, Youngest(s)[r] = Youngest(s)[q]
                 PROVE  r = q
      OBVIOUS
    <2>1. CASE r = s \/ q = s
      BY <1>3, <1>6, <2>1
    <2>2. CASE r # s /\ q # s
      BY <1>5, <2>2 DEF Ordered
    <2> QED BY <2>1, <2>2
  <1> QED BY <1>3, <1>4, <1>7

\* A step of the pool, or none.
PoolStep == Ordered' /\ (Pool!Next \/ UNCHANGED <<Pooled, Before>>)

LEMMA PoolUnchanged ==
    ASSUME Ordered, UNCHANGED <<book, rank>>
    PROVE  PoolStep
BY DEF PoolStep, Ordered, Pooled, Before, Earlier, Booked

\* Evictions and releases, whatever slots they free.
LEMMA PoolVacates ==
    ASSUME TypeOK, Ordered, NEW S \in SUBSET Slots, book' = Unbooked(S), rank' = rank
    PROVE  PoolStep
  <1> DEFINE C == {book[s] : s \in S \cap Booked}
  <1>1. \A s \in Slots : book'[s] = IF s \in S THEN None ELSE book[s]
    BY DEF Unbooked
  <1>2. Booked' = Booked \ S /\ Booked \subseteq Slots
    BY <1>1 DEF Booked
  <1>3. Ordered'
    BY <1>1, <1>2 DEF Ordered
  <1>4. \A s \in Booked : book[s] \in C <=> s \in S
    BY DEF Ordered
  <1>5. C \in SUBSET Pooled
    BY DEF Pooled
  <1> HIDE DEF C
  <1>6. Pooled' = Pooled \ C
    BY <1>1, <1>2, <1>4 DEF Pooled
  <1>7. Before' = {p \in Before : p[1] \notin C /\ p[2] \notin C}
    BY <1>1, <1>2, <1>4, InBefore, InBeforeNext DEF BeforeByRank
  <1>8. \E D \in SUBSET Pooled : Pool!Vacate(D)
    BY <1>5, <1>6, <1>7 DEF Pool!Vacate, Pool!OrderWithout, Pooled, Before
  <1> QED BY <1>3, <1>8 DEF PoolStep, Pool!Next, Pooled

\* allocate_slot, for a slot that is free or holds the oldest booking.
LEMMA PoolBooks ==
    ASSUME TypeOK, Ordered, NEW s \in Slots, NEW c \in Hashes, Holding(c) = {},
           book' = [book EXCEPT ![s] = c], rank' = Youngest(s),
           book[s] = None \/ EvictionChoice(s)
    PROVE  PoolStep
  <1> DEFINE C == {book[s]} \ {None}
  <1>1. \A r \in Slots : book'[r] = IF r = s THEN c ELSE book[r]
    BY DEF TypeOK
  <1>2. Booked' = Booked \cup {s} /\ Booked \subseteq Slots
    BY <1>1 DEF Booked
  <1>3. \A r \in Booked : book[r] # c /\ (book[r] \in C <=> r = s)
    BY DEF Holding, Booked, Ordered
  <1>4. Ordered'
    BY <1>1, <1>2, <1>3, YoungestOrder DEF Ordered
  <1>5. c \notin Pooled
    BY <1>3 DEF Pooled
  <1> HIDE DEF C
  <1>6. Pooled' = (Pooled \ C) \cup {c}
    BY <1>1, <1>2, <1>3 DEF Pooled
  <1>7. Before' = {p \in Before : p[1] \notin C /\ p[2] \notin C} \cup ((Pooled \ C) \X {c})
    <2>1. ASSUME NEW p \in Before'
          PROVE  p \in {q \in Before : q[1] \notin C /\ q[2] \notin C} \cup ((Pooled \ C) \X {c})
      <3>1. PICK r \in Booked', q \in Booked' : p = <<book'[r], book'[q]>> /\ rank'[r] < rank'[q]
        BY <2>1, InBeforeNext DEF BeforeByRank
      <3>2. r # s
        <4>1. rank'[q] \in Int /\ rank'[s] \in Int
          BY <1>2, <3>1 DEF Youngest, TypeOK, Slots
        <4> QED BY <1>2, <3>1, <4>1, YoungestOrder
      <3>3. r \in Booked /\ book'[r] = book[r] /\ book[r] \notin C
        BY <1>1, <1>2, <1>3, <3>1, <3>2
      <3>4. CASE q = s
        BY <1>1, <3>1, <3>3, <3>4 DEF Pooled
      <3>5. CASE q # s
        <4>1. q \in Booked /\ book'[q] = book[q] /\ book[q] \notin C /\ rank[r] < rank[q]
          BY <1>1, <1>2, <1>3, <3>1, <3>2, <3>5, YoungestOrder
        <4> QED BY <3>1, <3>3, <4>1, InBefore DEF BeforeByRank
      <3> QED BY <3>4, <3>5
    <2>2. ASSUME NEW p \in Before, p[1] \notin C, p[2] \notin C
          PROVE  p \in Before'
      <3>1. PICK r \in Booked, q \in Booked : p = <<book[r], book[q]>> /\ rank[r] < rank[q]
        BY InBefore DEF BeforeByRank
      <3>2. r # s /\ q # s
        BY <1>3, <2>2, <3>1
      <3>3. p = <<book'[r], book'[q]>> /\ rank'[r] < rank'[q]
        BY <1>1, <1>2, <3>1, <3>2, YoungestOrder
      <3> QED BY <1>2, <3>3, InBeforeNext DEF BeforeByRank
    <2>3. ASSUME NEW p \in (Pooled \ C) \X {c}
          PROVE  p \in Before'
      <3>1. PICK r \in Booked : p = <<book[r], c>> /\ book[r] \notin C
        BY DEF Pooled
      <3>2. r # s
        BY <1>3, <3>1
      <3>3. p = <<book'[r], book'[s]>> /\ rank'[r] < rank'[s]
        BY <1>1, <1>2, <3>1, <3>2, YoungestOrder
      <3> QED BY <1>2, <3>3, InBeforeNext DEF BeforeByRank
    <2> QED BY <2>1, <2>2, <2>3
  <1>8. Pool!Exchange(C, c)
    BY <1>6, <1>7 DEF Pool!Exchange, Pool!OrderWithout, Pooled, Before
  <1>9. Pool!Book(c)
    <2>1. CASE book[s] = None
      <3>1. C = {} /\ Booked # Slots
        BY <2>1 DEF C, Booked
      <3>2. Cardinality(Pooled) < NumSlots
        BY <3>1, PoolSize
      <3> QED BY <1>5, <1>8, <3>1, <3>2, SameCount DEF Pool!Book, Pooled
    <2>2. CASE book[s] # None
      <3>1. C = {book[s]} /\ book[s] \in Pooled /\ Booked = Slots
        BY <2>2 DEF C, EvictionChoice, Pooled, Booked
      <3>2. Cardinality(Pooled) = NumSlots
        BY <3>1, PoolSize
      <3>3. Pool!Oldest(book[s])
        <4>1. ASSUME NEW d \in Pooled \ {book[s]} PROVE <<book[s], d>> \in Before
          <5>1. PICK r \in Booked : d = book[r] /\ r # s
            BY <4>1 DEF Pooled
          <5>2. rank[s] <= rank[r] /\ rank[s] # rank[r] /\ rank[s] \in Int /\ rank[r] \in Int
            BY <1>2, <2>2, <5>1 DEF EvictionChoice, IsOldest, Ordered, TypeOK, Slots
          <5>3. rank[s] < rank[r]
            BY <5>2
          <5> QED BY <1>2, <3>1, <5>1, <5>3, InBefore DEF BeforeByRank
        <4> QED BY <3>1, <4>1 DEF Pool!Oldest, Pooled, Before
      <3> QED BY <1>5, <1>8, <3>1, <3>2, <3>3, SameCount DEF Pool!Book, Pooled
    <2> QED BY <2>1, <2>2
  <1> QED BY <1>4, <1>9 DEF PoolStep, Pool!Next

LEMMA NextPools ==
    ASSUME TypeOK, Informed, Ordered, [Next]_vars
    PROVE  PoolStep
  <1> USE DEF tableVars, lsVars, sweepVars, taskVars
  <1>u. ASSUME UNCHANGED <<book, rank>> PROVE PoolStep
    BY <1>u, PoolUnchanged
  <1>1. ASSUME NEW t \in Tasks, AllocateSlot(t) PROVE PoolStep
    <2>1. hash[t] \in Hashes
      BY <1>1 DEF AllocateSlot, Informed, Idle
    <2>2. PICK s \in Slots : ReuseSlot(t, s) \/ TakeEmptySlot(t, s) \/ EvictOldest(t, s)
      BY <1>1 DEF AllocateSlot
    <2>3. CASE ReuseSlot(t, s)
      BY <1>u, <2>3 DEF ReuseSlot
    <2>4. CASE TakeEmptySlot(t, s)
      BY <2>1, <2>4, PoolBooks DEF TakeEmptySlot, IsFirstFree
    <2>5. CASE EvictOldest(t, s)
      BY <2>1, <2>5, PoolBooks DEF EvictOldest
    <2> QED BY <2>2, <2>3, <2>4, <2>5
  <1>2. ASSUME NEW t \in Tasks, PutFails(t) \/ ReleaseFailed(t) PROVE PoolStep
    <2>1. (ReleaseIfHash(t) \/ UNCHANGED book) /\ rank' = rank
      BY <1>2 DEF PutFails, ReleaseFailed
    <2>2. slot[t] \in Slots
      BY <1>2 DEF PutFails, ReleaseFailed, Informed, Working, InLock
    <2>3. CASE book' = Unbooked({slot[t]})
      BY <2>1, <2>2, <2>3, PoolVacates
    <2>4. CASE UNCHANGED book
      BY <1>u, <2>1, <2>4
    <2> QED BY <2>1, <2>3, <2>4 DEF ReleaseIfHash
  <1>3. ASSUME NEW t \in Tasks, \/ BeginFlight(t) \/ Lookup(t) \/ AcquireCreateLock(t) \/ Probe(t)
                                \/ EvictWait(t) \/ Rebuild(t) \/ VerifyOK(t) \/ VerifyFails(t) \/ Settle(t)
                                \/ \E h \in Hashes : Request(t, h)
        PROVE  PoolStep
    BY <1>3, <1>u DEF BeginFlight, Lookup, AcquireCreateLock, Probe, EvictWait, Rebuild, VerifyOK,
       VerifyFails, Settle, Request
  <1>4. ASSUME NEW S \in SUBSET Slots, Evict(S), rank' = rank PROVE PoolStep
    BY <1>4, PoolVacates DEF Evict
  <1>5. ASSUME SweepStep PROVE PoolStep
    <2>1. CASE EvictExpired
      BY <1>4, <2>1 DEF EvictExpired, Booked
    <2>2. CASE EvictFailed
      BY <1>4, <2>2 DEF EvictFailed, FailedCandidates, Booked
    <2>3. CASE EvictFailedFallback
      BY <1>4, <2>3 DEF EvictFailedFallback
    <2>4. CASE ListPipelines \/ SweepSleeps \/ \E s \in Slots : DeleteSlotPipelines(s)
      BY <1>u, <2>4 DEF ListPipelines, SweepSleeps, DeleteSlotPipelines
    <2> QED BY <1>5, <2>1, <2>2, <2>3, <2>4 DEF SweepStep
  <1>6. ASSUME NEW s \in Slots, ReleaseSlot(s) PROVE PoolStep
    BY <1>6, PoolVacates DEF ReleaseSlot
  <1>7. ASSUME NEW s \in Slots, TimePasses(s) \/ LogstashReload(s) \/ LogstashFlips(s) PROVE PoolStep
    BY <1>7, <1>u DEF TimePasses, LogstashReload, LogstashFlips
  <1>8. ASSUME UNCHANGED vars PROVE PoolStep
    BY <1>8, <1>u DEF vars
  <1> QED
    BY <1>1, <1>2, <1>3, <1>5, <1>6, <1>7, <1>8 DEF Next, TaskStep

LEMMA PoolInit == Init => Ordered /\ Pool!Init
  <1> SUFFICES ASSUME Init PROVE Ordered /\ Pool!Init
    OBVIOUS
  <1>1. Booked = {}
    BY DEF Init, Booked
  <1>2. Ordered
    BY <1>1 DEF Init, Ordered
  <1>3. Pool!Init
    BY <1>1 DEF Pool!Init, Earlier
  <1> QED BY <1>2, <1>3

\* allocate_slot and every eviction path implement the bounded pool, for every number
\* of slots, contents and requests: no content is booked twice, and a booking is
\* overwritten only in a full table, the oldest first.
THEOREM TableIsPool == Spec => ImplementsPool
  <1>1. IInv /\ Ordered /\ [Next]_vars => Ordered'
    BY NextPools DEF IInv, PoolStep
  <1>2. IInv /\ Ordered /\ [Next]_vars => [Pool!Next]_<<Pooled, Before>>
    BY NextPools DEF IInv, PoolStep
  <1>3. Init => Ordered /\ Pool!Init
    BY PoolInit
  <1>4. Pool!Init /\ [][Pool!Next]_<<Pooled, Before>> => ImplementsPool
    BY DEF ImplementsPool, Pool!Spec, Pooled, Before
  <1> QED BY <1>1, <1>2, <1>3, <1>4, Invariance, PTL DEF Spec

\* And so they do through recoveries, which empty the pool and keep its order.
THEOREM TableIsPoolUnderRecovery == RSpec => ImplementsPool
  <1>1. ASSUME RInv, Ordered, [RNext]_rvars PROVE PoolStep
    <2>1. CASE [Next]_vars
      BY <1>1, <2>1, NextPools DEF RInv
    <2>2. CASE ForgetSlots \/ EvictAll
      BY <1>1, <2>2, PoolVacates DEF ForgetSlots, EvictAll, RInv
    <2>3. CASE \/ Quarantine \/ DropFlights \/ WriteBare \/ SanitizeFails
               \/ RemoveFiles \/ RestartLogstash \/ RestartFails
      BY <1>1, <2>3, PoolUnchanged
      DEF Quarantine, DropFlights, WriteBare, SanitizeFails, RemoveFiles, RestartLogstash,
          RestartFails, tableVars, vars
    <2> QED BY <1>1, <2>1, <2>2, <2>3 DEF RNext, RecoveryStep, rvars
  <1>2. RInv /\ Ordered /\ [RNext]_rvars => Ordered' /\ [Pool!Next]_<<Pooled, Before>>
    BY <1>1 DEF PoolStep
  <1>3. RInit => Ordered /\ Pool!Init
    BY PoolInit DEF RInit
  <1>4. Pool!Init /\ [][Pool!Next]_<<Pooled, Before>> => ImplementsPool
    BY DEF ImplementsPool, Pool!Spec, Pooled, Before
  <1> QED BY <1>2, <1>3, <1>4, RInvariance, PTL DEF RSpec
=============================================================================
