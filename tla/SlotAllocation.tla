--------------------------- MODULE SlotAllocation ---------------------------
(***************************************************************************)
(* The simulation slot table of a simulate / embedded agent: slots.py and  *)
(* the allocate handlers of main.py.                                       *)
(*                                                                         *)
(* Three kinds of actor share the state:                                   *)
(*   - allocate requests: asyncio tasks on one event loop, so a task runs  *)
(*     alone between two awaits; each pc value below is the stretch of     *)
(*     code up to the next await (or the next release of _slots_lock);     *)
(*   - SlotCleanupThread, which runs beside the event loop and takes       *)
(*     _slots_lock only for the table, not for the files it deletes;       *)
(*   - Logstash, which loads whatever the files say, when it likes.        *)
(*                                                                         *)
(* A content hash stands for the pipelines it is computed from; the        *)
(* slotN-filterM pipelines of one slot are one unit, put and deleted       *)
(* together.                                                               *)
(* Seconds are abstracted to the four age classes the code tells apart.    *)
(***************************************************************************)
EXTENDS Naturals, FiniteSets

CONSTANTS NumSlots,   \* NUM_SLOTS
          Hashes,     \* content hashes of the pipelines requested
          Tasks,      \* concurrent POST /slots/allocate requests
          Attempts,   \* rounds of the flight loop (range(3))
          None

Slots == 1..NumSlots

\* Age classes of a booking.  0: created < MIN_SLOT_AGE_FAILED_SECONDS ago;
\* 1: older, but inside a grace of the not-found rule; 2: past both graces
\* (created >= 90s and used >= 60s ago); 3: unused for SLOT_TTL_SECONDS.
Ages == 0..3
Expired == 3

ASSUME SlotsAssumption == NumSlots \in Nat \ {0}
ASSUME AttemptsAssumption == Attempts \in Nat \ {0}
ASSUME NoneAssumption == None \notin Hashes /\ None \notin Tasks

VARIABLES
    book,      \* _slots: content hash a slot is booked for, or None
    age,       \* age class of the booking (created_at / last_accessed)
    rank,      \* order of created_at: the smaller, the older
    conf,      \* pipelines.yml + conf.d: hash whose pipeline is filed, or None
    run,       \* hash of the pipeline Logstash lists for the slot, or None
    up,        \* detect_pipeline_state of that pipeline is idle or running
    flights,   \* _allocate_flights: task leading a hash, or None
    epoch,     \* generation of _slot_create_locks
    pc, hash, slot, reused, att,   \* locals of each request
    waits,     \* leader whose future a joined request awaits, or None
    lockEp,    \* generation of the create lock a request asked for
    sweep,     \* where SlotCleanupThread is
    doomed,    \* hash evicted from a slot whose files it has yet to delete
    listed     \* slots in its last list_pipelines answer

tableVars == <<book, age, rank>>
taskVars  == <<pc, hash, slot, reused, att, waits, lockEp>>
lsVars    == <<run, up>>
sweepVars == <<sweep, doomed, listed>>
vars == <<tableVars, conf, lsVars, flights, epoch, taskVars, sweepVars>>

Idle == {"idle", "served", "failed"}
InLock == {"probe", "evictwait", "rebuild", "verify", "dropped"}
Leading == {"lookup", "book", "lock", "settle"} \cup InLock
PCs == Idle \cup Leading \cup {"flight", "joined"}
Sweeps == {"sleep", "drop_expired", "decide", "fallback", "drop_failed"}

Init ==
    /\ book = [s \in Slots |-> None] /\ age = [s \in Slots |-> 0]
    /\ rank = [s \in Slots |-> s]
    /\ conf = [s \in Slots |-> None]
    /\ run = [s \in Slots |-> None] /\ up = [s \in Slots |-> FALSE]
    /\ flights = [h \in Hashes |-> None] /\ epoch = 0
    /\ pc = [t \in Tasks |-> "idle"] /\ hash = [t \in Tasks |-> None]
    /\ slot = [t \in Tasks |-> None] /\ reused = [t \in Tasks |-> FALSE]
    /\ att = [t \in Tasks |-> 0] /\ waits = [t \in Tasks |-> None]
    /\ lockEp = [t \in Tasks |-> 0]
    /\ sweep = "sleep" /\ doomed = [s \in Slots |-> None] /\ listed = {}

-----------------------------------------------------------------------------
\* The slot table.

Booked == {s \in Slots : book[s] # None}
Holding(h) == {s \in Slots : book[s] = h}
IsFirstFree(s) == book[s] = None /\ \A r \in Slots : r < s => book[r] # None
IsOldest(s) == s \in Booked /\ \A r \in Booked : rank[s] <= rank[r]

\* min(_slots, key=created_at) once there is no empty slot.
EvictionChoice(s) == Booked = Slots /\ IsOldest(s)

\* The slot that becomes the youngest, the others keeping their order.
Youngest(s) ==
    [r \in Slots |-> IF r = s THEN NumSlots
                     ELSE IF rank[r] > rank[s] THEN rank[r] - 1 ELSE rank[r]]

Unbooked(S) == [s \in Slots |-> IF s \in S THEN None ELSE book[s]]
AgeReset(S) == [s \in Slots |-> IF s \in S THEN 0 ELSE age[s]]

\* last_accessed is refreshed, created_at is not.
Touched(s) == [age EXCEPT ![s] = IF @ = 0 THEN 0 ELSE 1]

\* A task's flight is still running (_has_active_allocate_flight).
InFlight(h) == h # None /\ flights[h] # None

-----------------------------------------------------------------------------
\* The allocate request.

\* The body passed its checks and the warm-up gate; a 400 or 503 answer changes
\* no state.
Request(t, h) ==
    /\ pc[t] \in Idle
    /\ pc' = [pc EXCEPT ![t] = "flight"]
    /\ hash' = [hash EXCEPT ![t] = h]
    /\ UNCHANGED <<tableVars, conf, lsVars, flights, epoch, slot, reused, att, waits,
                   lockEp, sweepVars>>

\* Mutant: a flight of the hash is running, and the request leads one of its own.
LeadAnyway(t) ==
    /\ pc[t] = "flight"
    /\ flights' = [flights EXCEPT ![hash[t]] = t]
    /\ pc' = [pc EXCEPT ![t] = "lookup"]
    /\ UNCHANGED <<tableVars, conf, lsVars, epoch, hash, slot, reused, att, waits, lockEp, sweepVars>>

\* begin_allocate_flight: join the running flight of this hash, or lead one.
BeginFlight(t) ==
    /\ pc[t] = "flight"
    /\ \/ /\ InFlight(hash[t])
          /\ waits' = [waits EXCEPT ![t] = flights[hash[t]]]
          /\ pc' = [pc EXCEPT ![t] = "joined"]
          /\ UNCHANGED flights
       \/ /\ ~InFlight(hash[t])
          /\ flights' = [flights EXCEPT ![hash[t]] = t]
          /\ pc' = [pc EXCEPT ![t] = "lookup"]
          /\ UNCHANGED waits
    /\ UNCHANGED <<tableVars, conf, lsVars, epoch, hash, slot, reused, att, lockEp, sweepVars>>

\* slot_existed_before, read from a copy of the table.
Lookup(t) ==
    /\ pc[t] = "lookup"
    /\ reused' = [reused EXCEPT ![t] = Holding(hash[t]) # {}]
    /\ pc' = [pc EXCEPT ![t] = "book"]
    /\ UNCHANGED <<tableVars, conf, lsVars, flights, epoch, hash, slot, att, waits, lockEp, sweepVars>>

\* Mutant: a reuse refreshes created_at.
ReuseRenews(t, s) ==
    /\ s \in Holding(hash[t])
    /\ age' = Touched(s)
    /\ rank' = Youngest(s)
    /\ UNCHANGED <<book, conf>>

\* allocate_slot, alternative 1: the hash is booked already.
ReuseSlot(t, s) ==
    /\ s \in Holding(hash[t])
    /\ age' = Touched(s)
    /\ UNCHANGED <<book, rank, conf>>

\* allocate_slot, alternative 2: the lowest empty slot.
TakeEmptySlot(t, s) ==
    /\ Holding(hash[t]) = {}
    /\ IsFirstFree(s)
    /\ book' = [book EXCEPT ![s] = hash[t]]
    /\ age' = AgeReset({s})
    /\ rank' = Youngest(s)
    /\ UNCHANGED conf

\* allocate_slot, alternative 3: the oldest booking is overwritten and the
\* pipelines filed under its slot are deleted.
EvictOldest(t, s) ==
    /\ Holding(hash[t]) = {}
    /\ EvictionChoice(s)
    /\ book' = [book EXCEPT ![s] = hash[t]]
    /\ age' = AgeReset({s})
    /\ rank' = Youngest(s)
    /\ conf' = [conf EXCEPT ![s] = None]

\* allocate_slot, then get_slot_create_lock for the slot it returned.
AllocateSlot(t) ==
    /\ pc[t] = "book"
    /\ \E s \in Slots :
          /\ ReuseSlot(t, s) \/ TakeEmptySlot(t, s) \/ EvictOldest(t, s)
          /\ slot' = [slot EXCEPT ![t] = s]
    /\ lockEp' = [lockEp EXCEPT ![t] = epoch]
    /\ pc' = [pc EXCEPT ![t] = "lock"]
    /\ UNCHANGED <<lsVars, flights, epoch, hash, reused, att, waits, sweepVars>>

\* Mutant: the lock is one per content.
ContentLockHeld(t) == \E u \in Tasks \ {t} : pc[u] \in InLock /\ hash[u] = hash[t]

\* The asyncio.Lock a task asked for is held by another one.
LockHeld(t) ==
    \E u \in Tasks \ {t} : /\ pc[u] \in InLock
                           /\ slot[u] = slot[t] /\ lockEp[u] = lockEp[t]

AcquireCreateLock(t) ==
    /\ pc[t] = "lock"
    /\ ~LockHeld(t)
    /\ pc' = [pc EXCEPT ![t] = "probe"]
    /\ UNCHANGED <<tableVars, conf, lsVars, flights, epoch, hash, slot, reused, att, waits, lockEp, sweepVars>>

\* A request that answers takes its locals with it.
Answer(T) ==
    /\ hash' = [t \in Tasks |-> IF t \in T THEN None ELSE hash[t]]
    /\ slot' = [t \in Tasks |-> IF t \in T THEN None ELSE slot[t]]
    /\ reused' = [t \in Tasks |-> t \notin T /\ reused[t]]

\* Mutant: the leader never resolves its future.
NobodyJoined(t) == {}

JoinedTo(t) == {u \in Tasks : pc[u] = "joined" /\ waits[u] = t}
\* Mutant: the entry is popped, whoever registered it.
PopFlight(t) == flights' = [flights EXCEPT ![hash[t]] = None]

\* Mutant: the entry stays.
KeepFlight(t) == UNCHANGED flights

EndFlight(t) == flights' = [flights EXCEPT ![hash[t]] = IF @ = t THEN None ELSE @]

\* End of a leader that found or made its pipeline: complete_allocate_flight
\* publishes the result, and every joined task answers with the leader's slot.
ServeFlight(t) ==
    LET hit == {t} \cup JoinedTo(t) IN
    /\ EndFlight(t)
    /\ pc' = [u \in Tasks |-> IF u \in hit THEN "served" ELSE pc[u]]
    /\ att' = [u \in Tasks |-> IF u \in hit THEN 0 ELSE att[u]]
    /\ waits' = [u \in Tasks |-> IF u \in hit THEN None ELSE waits[u]]
    /\ Answer(hit)

\* End of a leader that failed: it and its joined tasks count an attempt and go
\* round the flight loop, or give up.
FailFlight(t) ==
    LET hit == {t} \cup JoinedTo(t)
        again == {u \in hit : att[u] + 1 < Attempts}
    IN  /\ EndFlight(t)
        /\ pc' = [u \in Tasks |-> IF u \in again THEN "flight"
                                  ELSE IF u \in hit THEN "failed" ELSE pc[u]]
        /\ att' = [u \in Tasks |-> IF u \in again THEN att[u] + 1
                                   ELSE IF u \in hit THEN 0 ELSE att[u]]
        /\ waits' = [u \in Tasks |-> IF u \in hit THEN None ELSE waits[u]]
        /\ Answer(hit \ again)

\* put_pipeline for the slot, then the await inside verification.
CreateStep(t) ==
    /\ conf' = [conf EXCEPT ![slot[t]] = hash[t]]
    /\ pc' = [pc EXCEPT ![t] = "verify"]
    /\ UNCHANGED <<hash, slot, reused, att, waits, flights>>

\* delete_pipeline_internal, then the half second of sleep before the put; when
\* the delete raises, the put follows at once.
ForceDelete(t) ==
    \/ /\ conf' = [conf EXCEPT ![slot[t]] = None]
       /\ pc' = [pc EXCEPT ![t] = "rebuild"]
       /\ UNCHANGED <<hash, slot, reused, att, waits, flights>>
    \/ CreateStep(t)

\* Under the create lock: list_pipelines (an API error counts as "not there"),
\* then wait, reuse, or delete and create again.
Probe(t) ==
    LET s == slot[t] IN
    /\ pc[t] = "probe"
    /\ \/ \* not listed, or the API did not answer
          IF reused[t]
          THEN CreateStep(t)
          ELSE /\ pc' = [pc EXCEPT ![t] = "evictwait"]
               /\ UNCHANGED <<conf, hash, slot, reused, att, waits, flights>>
       \/ \* listed and idle or running: pure reuse
          /\ run[s] # None /\ up[s]
          /\ ServeFlight(t)
          /\ UNCHANGED conf
       \/ \* listed, but not bus-ready (or the state query failed)
          /\ run[s] # None
          /\ ForceDelete(t)
    /\ UNCHANGED <<tableVars, lsVars, epoch, lockEp, sweepVars>>

\* The sleep after the delete is over.
Rebuild(t) ==
    /\ pc[t] = "rebuild"
    /\ CreateStep(t)
    /\ UNCHANGED <<tableVars, lsVars, epoch, lockEp, sweepVars>>

\* Mutant: release_slot, whoever the slot is booked for by now.
ReleaseAnyway(t) ==
    LET s == slot[t] IN
    /\ book' = Unbooked({s}) /\ age' = AgeReset({s})
    /\ conf' = [conf EXCEPT ![s] = None]

\* release_slot_if_hash: booking and files go, unless the slot was re-booked.
ReleaseIfHash(t) ==
    LET s == slot[t] IN
    IF book[s] = hash[t]
    THEN /\ book' = Unbooked({s}) /\ age' = AgeReset({s})
         /\ conf' = [conf EXCEPT ![s] = None]
    ELSE UNCHANGED <<book, age, conf>>

\* put_pipeline raised.  With some of the pipelines put before it did, the slot is
\* left with those, unless the release takes them away.
PutFails(t) ==
    /\ \/ pc[t] \in {"evictwait", "rebuild"}
       \/ pc[t] = "probe" /\ (reused[t] \/ run[slot[t]] # None)
    /\ \/ ReleaseIfHash(t)
       \/ /\ book[slot[t]] # hash[t]
          /\ conf' = [conf EXCEPT ![slot[t]] = hash[t]]
          /\ UNCHANGED <<book, age>>
    /\ FailFlight(t)
    /\ UNCHANGED <<rank, lsVars, epoch, lockEp, sweepVars>>

\* The old pipeline is gone and the slot's own one is put, or max_wait passed and
\* the old one is deleted by force.
EvictWait(t) ==
    /\ pc[t] = "evictwait"
    /\ CreateStep(t) \/ ForceDelete(t)
    /\ UNCHANGED <<tableVars, lsVars, epoch, lockEp, sweepVars>>

\* verify_slot_pipelines_loaded saw the pipeline idle or running, or could not use
\* the API and found its name in the log, whose lines may be of an earlier load.
VerifyOK(t) ==
    /\ pc[t] = "verify"
    /\ pc' = [pc EXCEPT ![t] = "settle"]
    /\ UNCHANGED <<tableVars, conf, lsVars, flights, epoch, hash, slot, reused, att, waits, lockEp, sweepVars>>

\* It saw new reload failures, or max_wait passed: the pipeline is deleted and
\* the task waits for Logstash to drop it.
VerifyFails(t) ==
    /\ pc[t] = "verify"
    /\ conf' = [conf EXCEPT ![slot[t]] = None]
    /\ pc' = [pc EXCEPT ![t] = "dropped"]
    /\ UNCHANGED <<tableVars, lsVars, flights, epoch, hash, slot, reused, att, waits, lockEp, sweepVars>>

\* The wait is over: the slot is released and the error published.
ReleaseFailed(t) ==
    /\ pc[t] = "dropped"
    /\ ReleaseIfHash(t)
    /\ FailFlight(t)
    /\ UNCHANGED <<rank, lsVars, epoch, lockEp, sweepVars>>

\* _adaptive_bus_settle returns, ready or not.
Settle(t) ==
    /\ pc[t] = "settle"
    /\ ServeFlight(t)
    /\ UNCHANGED <<tableVars, conf, lsVars, epoch, lockEp, sweepVars>>

\* DELETE /slots/{slot_id}: the booking goes, the files go with it or as orphans.
ReleaseSlot(s) ==
    /\ book' = Unbooked({s}) /\ age' = AgeReset({s})
    /\ conf' = [conf EXCEPT ![s] = None]
    /\ UNCHANGED <<rank, lsVars, flights, epoch, taskVars, sweepVars>>

-----------------------------------------------------------------------------
\* SlotCleanupThread.

Evict(S) ==
    /\ book' = Unbooked(S) /\ age' = AgeReset(S)
    /\ doomed' = [s \in Slots |-> IF s \in S THEN book[s] ELSE None]

\* Mutant: the TTL comparison is one class too strict.
EvictNone ==
    /\ sweep = "sleep"
    /\ Evict({s \in Booked : age[s] > Expired})
    /\ sweep' = "drop_expired"
    /\ UNCHANGED <<rank, conf, lsVars, flights, epoch, taskVars, listed>>

\* evict_expired_slots, the part under _slots_lock.
EvictExpired ==
    /\ sweep = "sleep"
    /\ Evict({s \in Booked : age[s] = Expired})
    /\ sweep' = "drop_expired"
    /\ UNCHANGED <<rank, conf, lsVars, flights, epoch, taskVars, listed>>

\* _delete_slot_pipelines for one evicted slot, outside the lock.
DeleteSlotPipelines(s) ==
    /\ doomed[s] # None
    /\ conf' = [conf EXCEPT ![s] = None]
    /\ doomed' = [doomed EXCEPT ![s] = None]
    /\ UNCHANGED <<tableVars, lsVars, flights, epoch, taskVars, sweep, listed>>

Dropped == \A s \in Slots : doomed[s] = None

\* evict_failed_slots asks Logstash for its pipelines before it takes the lock;
\* an error sends it to the log-based fallback.
ListPipelines ==
    /\ sweep = "drop_expired" /\ Dropped
    /\ \/ sweep' = "decide" /\ listed' = {s \in Slots : run[s] # None}
       \/ sweep' = "fallback" /\ listed' = {}
    /\ UNCHANGED <<tableVars, conf, lsVars, flights, epoch, taskVars, doomed>>

\* Mutant: flights are not looked at.
AllCandidates == {s \in Booked : IF s \in listed THEN age[s] >= 1 ELSE age[s] >= 2}

\* A listed pipeline is evicted when its state reads "failed" (a malformed
\* answer) and it is not young; an unlisted one after both graces.
FailedCandidates ==
    {s \in Booked : ~InFlight(book[s]) /\ IF s \in listed THEN age[s] >= 1 ELSE age[s] >= 2}

EvictFailed ==
    /\ sweep = "decide"
    /\ \E F \in SUBSET listed :
          Evict({s \in FailedCandidates : s \in listed => s \in F})
    /\ sweep' = "drop_failed" /\ listed' = {}
    /\ UNCHANGED <<rank, conf, lsVars, flights, epoch, taskVars>>

\* _evict_failed_slots_fallback: every booked slot named by a FailedAction entry
\* among the last log lines, however old.
EvictFailedFallback ==
    /\ sweep = "fallback"
    /\ \E F \in SUBSET Slots : Evict(F \cap Booked)
    /\ sweep' = "drop_failed"
    /\ UNCHANGED <<rank, conf, lsVars, flights, epoch, taskVars, listed>>

SweepSleeps ==
    /\ sweep = "drop_failed" /\ Dropped
    /\ sweep' = "sleep"
    /\ UNCHANGED <<tableVars, conf, lsVars, flights, epoch, taskVars, doomed, listed>>

-----------------------------------------------------------------------------
\* The environment.

\* Automatic config reload: Logstash drops, loads or replaces the slot's pipeline,
\* which may come up or not.
LogstashReload(s) ==
    /\ run[s] # conf[s]
    /\ run' = [run EXCEPT ![s] = conf[s]]
    /\ \E b \in BOOLEAN : up' = [up EXCEPT ![s] = b /\ conf[s] # None]
    /\ UNCHANGED <<tableVars, conf, flights, epoch, taskVars, sweepVars>>

\* A loaded pipeline comes up late, or terminates silently.
LogstashFlips(s) ==
    /\ run[s] # None
    /\ up' = [up EXCEPT ![s] = ~@]
    /\ UNCHANGED <<tableVars, conf, run, flights, epoch, taskVars, sweepVars>>

TimePasses(s) ==
    /\ book[s] # None /\ age[s] < Expired
    /\ age' = [age EXCEPT ![s] = @ + 1]
    /\ UNCHANGED <<book, rank, conf, lsVars, flights, epoch, taskVars, sweepVars>>

-----------------------------------------------------------------------------
TaskStep(t) ==
    \/ BeginFlight(t) \/ Lookup(t) \/ AllocateSlot(t) \/ AcquireCreateLock(t)
    \/ Probe(t) \/ EvictWait(t) \/ Rebuild(t) \/ PutFails(t) \/ VerifyOK(t) \/ VerifyFails(t)
    \/ ReleaseFailed(t) \/ Settle(t)

SweepStep ==
    \/ EvictExpired \/ ListPipelines \/ EvictFailed \/ EvictFailedFallback
    \/ SweepSleeps \/ \E s \in Slots : DeleteSlotPipelines(s)

Next ==
    \/ \E t \in Tasks : TaskStep(t) \/ \E h \in Hashes : Request(t, h)
    \/ SweepStep
    \/ \E s \in Slots : \/ ReleaseSlot(s) \/ TimePasses(s)
                        \/ LogstashReload(s) \/ LogstashFlips(s)

Spec == Init /\ [][Next]_vars

-----------------------------------------------------------------------------
\* Properties.

\* Every variable has its type, and created_at orders the slots.
TypeOK ==
    /\ book \in [Slots -> Hashes \cup {None}]
    /\ age \in [Slots -> Ages]
    /\ rank \in [Slots -> Slots]
    /\ conf \in [Slots -> Hashes \cup {None}]
    /\ run \in [Slots -> Hashes \cup {None}] /\ up \in [Slots -> BOOLEAN]
    /\ flights \in [Hashes -> Tasks \cup {None}] /\ epoch \in Nat
    /\ pc \in [Tasks -> PCs]
    /\ hash \in [Tasks -> Hashes \cup {None}]
    /\ slot \in [Tasks -> Slots \cup {None}]
    /\ reused \in [Tasks -> BOOLEAN]
    /\ att \in [Tasks -> 0..(Attempts - 1)]
    /\ waits \in [Tasks -> Tasks \cup {None}]
    /\ lockEp \in [Tasks -> Nat]
    /\ sweep \in Sweeps
    /\ doomed \in [Slots -> Hashes \cup {None}]
    /\ listed \in SUBSET Slots

\* begin_allocate_flight: concurrent requests for one content hash have one
\* leader between them.
SingleFlight ==
    \A t, u \in Tasks :
        pc[t] \in Leading /\ pc[u] \in Leading /\ hash[t] = hash[u] => t = u

\* A request that joined a flight waits on a task that still leads that hash and
\* is registered for it: its future will be resolved by someone.
FollowersCovered ==
    \A t \in Tasks : pc[t] = "joined" =>
        /\ waits[t] \in Tasks /\ pc[waits[t]] \in Leading
        /\ hash[waits[t]] = hash[t] /\ flights[hash[t]] = waits[t]

\* While a request verifies or cleans up the pipelines it put in a slot, no
\* other content is filed there, whoever has booked the slot meanwhile.
OwnFiles ==
    \A t \in Tasks : pc[t] \in {"verify", "dropped"} =>
        conf[slot[t]] \in {hash[t], None}

Working(t) == pc[t] \in {"lock", "settle"} \cup InLock

\* evict_failed_slots on its API path never unbooks a slot some request is still
\* working on for the content the slot is booked for.
SweepSparesWorkers ==
    [][sweep = "decide" /\ sweep' = "drop_failed" =>
         \A t \in Tasks : Working(t) /\ book[slot[t]] = hash[t] =>
            book'[slot[t]] = book[slot[t]]]_vars

\* release_slot_if_hash: a request that fails never takes the booking another
\* request works under.
FailureSparesPeers ==
    [][\A t, u \in Tasks :
         /\ t # u /\ Working(t) /\ pc'[t] \in {"flight", "failed"}
         /\ Working(u) /\ hash[u] = book[slot[u]]
         => book'[slot[u]] = book[slot[u]]]_vars

\* allocate_slot and every eviction implement the pool: a content is booked once,
\* a reuse keeps its place in the order of created_at, and a live booking is
\* overwritten only when the table is full, the oldest first.
Earlier == {p \in Booked \X Booked : rank[p[1]] < rank[p[2]]}
Pool == INSTANCE SlotPool WITH
            Size <- NumSlots, Contents <- Hashes,
            pooled <- {book[s] : s \in Booked},
            before <- {<<book[p[1]], book[p[2]]>> : p \in Earlier}
ImplementsPool == Pool!Spec

=============================================================================
