---------------------------- MODULE SlotRecovery ----------------------------
(***************************************************************************)
(* SlotAllocation while Logstash is being recovered: the simulate watchdog *)
(* and the bus-storm check run in threads of their own, and their recovery *)
(* rewrites the slot table, the flights, the create locks and the files    *)
(* under the requests that are running (simulate_recovery.py, and          *)
(* evict_all_slots_and_cleanup of slots.py for an embedded agent).         *)
(***************************************************************************)
EXTENDS SlotAllocation

CONSTANT Kinds   \* values of managed to consider
ASSUME KindsAssumption == Kinds \subseteq BOOLEAN

VARIABLES
    managed,   \* Logstash is a systemd unit; otherwise the agent's own child
    recovery   \* the running one is "none", "quarantined", "forgotten", "unlocked",
               \* "bare", "emptied" or "swept"

rvars == <<vars, managed, recovery>>

RInit == Init /\ managed \in Kinds /\ recovery = "none"

NoConf == [s \in Slots |-> None]
Goes(from, to) == recovery = from /\ recovery' = to /\ UNCHANGED managed

-----------------------------------------------------------------------------
\* recover_simulate_logstash: sanitize_simulate_pipelines, then the restart.

\* The files of some slots are gone; a move or a removal that fails is logged.
SomeFilesGo == \E S \in SUBSET Slots : conf' = [s \in Slots |-> IF s \in S THEN None ELSE conf[s]]

\* quarantine_dynamic_pipelines moves the slot files away.  When it raises half-way
\* the recovery is over: the table keeps the bookings.
Quarantine ==
    /\ managed
    /\ Goes("none", "quarantined") \/ Goes("none", "none")
    /\ SomeFilesGo
    /\ UNCHANGED <<tableVars, lsVars, flights, epoch, taskVars, sweepVars>>

\* clear_all_slots: the table, under its lock ...
ForgetSlots ==
    /\ Goes("quarantined", "forgotten")
    /\ book' = Unbooked(Slots) /\ age' = AgeReset(Slots)
    /\ UNCHANGED <<rank, conf, lsVars, flights, epoch, taskVars, sweepVars>>

\* ... then clear_allocate_flights: the flights and the create locks, under none.
DropFlights ==
    /\ Goes("forgotten", "unlocked")
    /\ flights' = [h \in Hashes |-> None]
    /\ epoch' = epoch + 1
    /\ UNCHANGED <<tableVars, conf, lsVars, taskVars, sweepVars>>

\* write_bare_pipelines_yml (or write_health_null_fallback): no slot pipeline is
\* listed any more.
WriteBare ==
    /\ Goes("unlocked", "bare")
    /\ conf' = NoConf
    /\ UNCHANGED <<tableVars, lsVars, flights, epoch, taskVars, sweepVars>>

\* Seeding the harness or writing the file raises: no restart follows.
SanitizeFails ==
    /\ Goes("unlocked", "none")
    /\ UNCHANGED vars

-----------------------------------------------------------------------------
\* evict_all_slots_and_cleanup of an embedded agent, then the supervisor.

EvictAll ==
    /\ ~managed /\ Goes("none", "emptied")
    /\ book' = Unbooked(Slots) /\ age' = AgeReset(Slots)
    /\ UNCHANGED <<rank, conf, lsVars, flights, epoch, taskVars, sweepVars>>

\* The files of the evicted slots, then the orphans in conf.d; what cannot be
\* removed stays.
RemoveFiles ==
    /\ Goes("emptied", "swept")
    /\ SomeFilesGo
    /\ UNCHANGED <<tableVars, lsVars, flights, epoch, taskVars, sweepVars>>

\* Logstash comes back with what the files list, which need not be bus-ready.
RestartLogstash ==
    /\ Goes("bare", "none") \/ Goes("swept", "none")
    /\ run' = conf
    /\ up' = [s \in Slots |-> FALSE]
    /\ UNCHANGED <<tableVars, conf, flights, epoch, taskVars, sweepVars>>

\* systemctl does not restart it, or the new process does not start: Logstash goes
\* on as it was, or is down.
RestartFails ==
    /\ Goes("bare", "none") \/ Goes("swept", "none")
    /\ UNCHANGED run \/ run' = NoConf
    /\ up' = [s \in Slots |-> up[s] /\ run'[s] # None]
    /\ UNCHANGED <<tableVars, conf, flights, epoch, taskVars, sweepVars>>

\* Bound: the number of recoveries one behaviour may see.
CONSTANT MaxRecoveries
ASSUME MaxRecoveriesAssumption == MaxRecoveries \in Nat

RecoveryStep ==
    \/ epoch < MaxRecoveries /\ Quarantine
    \/ ForgetSlots \/ DropFlights \/ WriteBare \/ SanitizeFails
    \/ EvictAll \/ RemoveFiles \/ RestartLogstash \/ RestartFails

RNext == (Next /\ UNCHANGED <<managed, recovery>>) \/ RecoveryStep

RSpec == RInit /\ [][RNext]_rvars

\* The event loop runs every task that can run, and asyncio.Lock wakes its
\* waiters in order.
TaskFairness ==
    \A t \in Tasks : WF_rvars(TaskStep(t) /\ UNCHANGED <<managed, recovery>>)
                    /\ SF_rvars(AcquireCreateLock(t) /\ UNCHANGED <<managed, recovery>>)

RTaskSpec == RSpec /\ TaskFairness

\* Besides, the cleanup thread, a recovery under way, time and Logstash's reloads
\* never stop.
RFairness ==
    /\ TaskFairness
    /\ WF_rvars(SweepStep /\ UNCHANGED <<managed, recovery>>)
    /\ \A s \in Slots : /\ WF_rvars(TimePasses(s) /\ UNCHANGED <<managed, recovery>>)
                        /\ WF_rvars(LogstashReload(s) /\ UNCHANGED <<managed, recovery>>)
    /\ WF_rvars(recovery # "none" /\ RecoveryStep)

RFairSpec == RSpec /\ RFairness

-----------------------------------------------------------------------------
\* Properties.

\* A joined request waits on a request that still leads its content, also after
\* clear_allocate_flights forgot that flight: its future is the leader's own.
FollowersHaveLeader ==
    \A t \in Tasks : pc[t] = "joined" =>
        /\ waits[t] \in Tasks /\ pc[waits[t]] \in Leading /\ hash[waits[t]] = hash[t]

\* Whoever is registered as the flight of a content leads it.
FlightsAreLed ==
    \A h \in Hashes : flights[h] # None => pc[flights[h]] \in Leading /\ hash[flights[h]] = h

\* complete_allocate_flight clears the entry only if it is its own: while a request
\* leads, nothing but the recovery takes its registration away.
LeaderKeepsFlight ==
    [][\A h \in Hashes : flights[h] # None /\ recovery' = recovery =>
          flights'[h] = flights[h] \/ pc'[flights[h]] \notin Leading]_rvars

\* Every allocate request is answered, whatever the recoveries, the cleanup thread
\* and Logstash do meanwhile, and even if those stop: it neither waits for ever on
\* a flight that clear_allocate_flights forgot, nor on a create lock, whether of
\* this generation or of one a recovery replaced.
EveryRequestAnswered == \A t \in Tasks : []<>(pc[t] \in Idle)

\* A booking whose pipelines are not on disk does not last: a request files them
\* again or the cleanup thread frees the slot.
DeadSlotHeals == \A s \in Slots : []<>(book[s] = None \/ conf[s] # None)

=============================================================================
