---------------------------- MODULE SimRecovery ----------------------------
(***************************************************************************)
(* Who restarts the Logstash of a systemd-managed simulate agent, and when *)
(* (main.py, simulate_recovery.py).  Three threads decide it and share     *)
(* their evidence without a lock: the watchdog, SlotCleanupThread, and the *)
(* event loop, whose simulate handler blocks it while it recovers.  What a *)
(* recovery does to the slot table is SlotRecovery's subject.              *)
(*                                                                         *)
(* Time is abstracted to what the code compares: whether the last recovery *)
(* is less than _MIN_SECONDS_BETWEEN_RECOVERIES old, how many are in the   *)
(* last hour, and whether the healthy clock is set.                        *)
(***************************************************************************)
EXTENDS Naturals

CONSTANTS Dests,          \* slotN-filterM addresses simulate-start sends to
          Confirmations,  \* BUS_STORM_CONFIRMATIONS
          MaxPerHour      \* _MAX_RECOVERIES_PER_HOUR

ASSUME ConfirmationsAssumption == Confirmations \in Nat \ {0}
ASSUME MaxPerHourAssumption == MaxPerHour \in Nat \ {0}

Scanners == {"watchdog", "cleanup"}
Threads == Scanners \cup {"loop"}
MaxFailures == 3

VARIABLES
    ls,       \* "up"; "stunned": the API answers, the input does not; "down"
    storms,   \* destinations with a retry storm in the log window
    held,     \* destinations whose slot is young or in flight
    hits,     \* _bus_storm_hits
    since,    \* _sim_systemctl_healthy_since is set
    failures, \* consecutive unhealthy probes of the watchdog
    probe,    \* what the watchdog's last probe saw
    recent,   \* recoveries of the last hour in _recovery_times
    cooling,  \* the last one is younger than _MIN_SECONDS_BETWEEN_RECOVERIES
    pc,       \* where each thread is
    seen,     \* storms a scanner read from the log
    cause     \* why a thread recovers

envVars == <<ls, storms, held>>
limitVars == <<recent, cooling>>
dogVars == <<failures, probe>>
svars == <<envVars, hits, since, dogVars, limitVars, pc, seen, cause>>

Recovering == {"kill", "limit", "sanitize", "restart"}

SInit ==
    /\ ls \in {"up", "down"} /\ storms = {} /\ held = {}
    /\ hits = [d \in Dests |-> 0] /\ since = FALSE
    /\ failures = 0 /\ probe = "none"
    /\ recent = 0 /\ cooling = FALSE
    /\ pc = [t \in Threads |-> "idle"]
    /\ seen = [t \in Scanners |-> {}] /\ cause = [t \in Threads |-> "none"]

-----------------------------------------------------------------------------
\* handle_pipeline_bus_retry_storms, by either scanner.

\* What a scan that restarted nothing leads to: the watchdog's health probe.
NoRestart(t) == pc' = [pc EXCEPT ![t] = IF t = "watchdog" THEN "health" ELSE "idle"]

\* detect_pipeline_bus_retry_storms; an empty log window clears every counter.
Detect(t) ==
    /\ t \in Scanners /\ pc[t] = "idle"
    /\ IF storms = {}
       THEN /\ hits' = [d \in Dests |-> 0]
            /\ NoRestart(t)
            /\ UNCHANGED seen
       ELSE /\ seen' = [seen EXCEPT ![t] = storms]
            /\ pc' = [pc EXCEPT ![t] = "count"]
            /\ UNCHANGED hits
    /\ UNCHANGED <<envVars, since, dogVars, limitVars, cause>>

\* Mutant: a destination list_pipelines still shows is held (the policy before).
HoldListed(t) == [d \in Dests |-> 0]

\* The new counters: a destination seen and not held counts one more; one that is
\* held or no longer seen starts again.
Counted(t) ==
    [d \in Dests |-> IF d \in seen[t] \ held
                     THEN IF hits[d] < Confirmations THEN hits[d] + 1 ELSE Confirmations
                     ELSE 0]
Confirmed(t) == {d \in seen[t] \ held : Counted(t)[d] >= Confirmations}

\* Confirmed destinations lead to a hard restart; the healthy clock is cleared first.
Count(t) ==
    /\ t \in Scanners /\ pc[t] = "count"
    /\ hits' = Counted(t)
    /\ seen' = [seen EXCEPT ![t] = {}]
    /\ IF Confirmed(t) = {}
       THEN NoRestart(t) /\ UNCHANGED <<since, cause>>
       ELSE /\ since' = FALSE
            /\ cause' = [cause EXCEPT ![t] = "storm"]
            /\ pc' = [pc EXCEPT ![t] = "kill"]
    /\ UNCHANGED <<envVars, dogVars, limitVars>>

\* force_kill_simulate_logstash_jvm; systemd will start the unit again by itself.
Kill(t) ==
    /\ pc[t] = "kill"
    /\ ls' = "down"
    /\ pc' = [pc EXCEPT ![t] = "limit"]
    /\ UNCHANGED <<storms, held, hits, since, dogVars, limitVars, seen, cause>>

-----------------------------------------------------------------------------
\* recover_simulate_logstash.

\* Mutant: the hourly bound is off by one.
LaxAllowance == ~cooling /\ recent <= MaxPerHour

\* _recovery_allowed
Allowed == ~cooling /\ recent < MaxPerHour

\* Mutant: the failures are kept when the recovery restarted nothing.
FinishKeepsFailures(t, restarted) ==
    /\ hits' = IF cause[t] = "storm" THEN [d \in Dests |-> 0] ELSE hits
    /\ cause' = [cause EXCEPT ![t] = "none"]
    /\ failures' = IF t = "watchdog" /\ restarted THEN 0 ELSE failures
    /\ IF cause[t] = "storm" /\ ~restarted THEN NoRestart(t) ELSE pc' = [pc EXCEPT ![t] = "idle"]

\* What follows a recovery of thread t: a storm scan clears the counters whatever
\* came of it, and the watchdog goes on to probe when it restarted nothing.
Finish(t, restarted) ==
    /\ hits' = IF cause[t] = "storm" THEN [d \in Dests |-> 0] ELSE hits
    /\ cause' = [cause EXCEPT ![t] = "none"]
    /\ failures' = IF t = "watchdog" /\ (restarted \/ cause[t] = "health") THEN 0 ELSE failures
    /\ IF cause[t] = "storm" /\ ~restarted THEN NoRestart(t) ELSE pc' = [pc EXCEPT ![t] = "idle"]

Permit(t) ==
    /\ pc[t] = "limit" /\ Allowed
    /\ pc' = [pc EXCEPT ![t] = "sanitize"]
    /\ UNCHANGED <<envVars, hits, since, dogVars, limitVars, seen, cause>>

Deny(t) ==
    /\ pc[t] = "limit" /\ ~Allowed
    /\ Finish(t, FALSE)
    /\ UNCHANGED <<envVars, since, probe, limitVars, seen>>

Sanitize(t) ==
    /\ pc[t] = "sanitize"
    /\ pc' = [pc EXCEPT ![t] = "restart"]
    /\ UNCHANGED <<envVars, hits, since, dogVars, limitVars, seen, cause>>

SanitizeFails(t) ==
    /\ pc[t] = "sanitize"
    /\ Finish(t, FALSE)
    /\ UNCHANGED <<envVars, since, probe, limitVars, seen>>

\* The append to _recovery_times.  _recovery_allowed prunes into a new list and rebinds
\* the name, so an append of this thread while another is in there may go to the list
\* that is replaced, and is lost.
Enter(t) ==
    \/ recent' = recent + 1 /\ cooling' = TRUE
    \/ (\E u \in Threads \ {t} : pc[u] = "limit") /\ UNCHANGED limitVars

\* systemctl restart worked: only now is the recovery entered in _recovery_times.
Restart(t) ==
    /\ pc[t] = "restart"
    /\ ls' = "down"
    /\ Enter(t)
    /\ Finish(t, TRUE)
    /\ UNCHANGED <<storms, held, since, probe, seen>>

RestartFails(t) ==
    /\ pc[t] = "restart"
    /\ Finish(t, FALSE)
    /\ UNCHANGED <<envVars, since, probe, limitVars, seen>>

-----------------------------------------------------------------------------
\* _simulate_watchdog_loop after a scan that restarted nothing.

\* check_sim_logstash_health
ProbeHealth ==
    /\ pc["watchdog"] = "health"
    /\ probe' = IF ls = "down" THEN "down" ELSE "up"
    /\ pc' = [pc EXCEPT !["watchdog"] = "judge"]
    /\ UNCHANGED <<envVars, hits, since, failures, limitVars, seen, cause>>

JudgeUp ==
    /\ pc["watchdog"] = "judge" /\ probe = "up"
    /\ since' = TRUE /\ failures' = 0 /\ probe' = "none"
    /\ pc' = [pc EXCEPT !["watchdog"] = "idle"]
    /\ UNCHANGED <<envVars, hits, limitVars, seen, cause>>

\* Mutant: the failures are not consecutive.
ForgivingJudge ==
    /\ pc["watchdog"] = "judge" /\ probe = "down"
    /\ since' = FALSE /\ failures' = 0 /\ probe' = "none"
    /\ pc' = [pc EXCEPT !["watchdog"] = "idle"]
    /\ UNCHANGED <<envVars, hits, limitVars, seen, cause>>

\* The third failure in a row starts a recovery.
JudgeDown ==
    /\ pc["watchdog"] = "judge" /\ probe = "down"
    /\ since' = FALSE /\ failures' = failures + 1 /\ probe' = "none"
    /\ IF failures + 1 < MaxFailures
       THEN pc' = [pc EXCEPT !["watchdog"] = "idle"] /\ UNCHANGED cause
       ELSE /\ pc' = [pc EXCEPT !["watchdog"] = "limit"]
            /\ cause' = [cause EXCEPT !["watchdog"] = "health"]
    /\ UNCHANGED <<envVars, hits, limitVars, seen>>

\* trigger_sim_logstash_restart from the simulate handler, whose POST failed three
\* times; it runs on the event loop, so there is one at a time.
RequestRecovers ==
    /\ pc["loop"] = "idle" /\ ls # "up"
    /\ since' = FALSE
    /\ pc' = [pc EXCEPT !["loop"] = "limit"]
    /\ cause' = [cause EXCEPT !["loop"] = "request"]
    /\ UNCHANGED <<envVars, hits, dogVars, limitVars, seen>>

-----------------------------------------------------------------------------
\* Logstash, the logs, the requests and the clock.

LogstashTurns(to) ==
    /\ ls # to /\ ls' = to /\ (ls = "down" => to = "up")
    /\ UNCHANGED <<storms, held, hits, since, dogVars, limitVars, pc, seen, cause>>

StormTurns(d) ==
    /\ storms' = IF d \in storms THEN storms \ {d} ELSE storms \cup {d}
    /\ UNCHANGED <<ls, held, hits, since, dogVars, limitVars, pc, seen, cause>>

AllocateTurns(d) ==
    /\ held' = IF d \in held THEN held \ {d} ELSE held \cup {d}
    /\ UNCHANGED <<ls, storms, hits, since, dogVars, limitVars, pc, seen, cause>>

CooldownOver ==
    /\ cooling /\ cooling' = FALSE
    /\ UNCHANGED <<envVars, hits, since, dogVars, recent, pc, seen, cause>>

\* The oldest recovery is an hour old.
HourPasses ==
    /\ recent > 0 /\ recent' = recent - 1
    /\ cooling' = (cooling /\ recent > 1)
    /\ UNCHANGED <<envVars, hits, since, dogVars, pc, seen, cause>>

-----------------------------------------------------------------------------
ScanStep(t) == Detect(t) \/ Count(t) \/ Kill(t)
RecoverStep(t) ==
    \/ Permit(t) \/ Deny(t) \/ Sanitize(t) \/ SanitizeFails(t) \/ Restart(t) \/ RestartFails(t)
WatchStep == ProbeHealth \/ JudgeUp \/ JudgeDown

EnvStep ==
    \/ \E to \in {"up", "stunned", "down"} : LogstashTurns(to)
    \/ \E d \in Dests : StormTurns(d) \/ AllocateTurns(d)
    \/ CooldownOver \/ HourPasses

SNext ==
    \/ \E t \in Threads : ScanStep(t) \/ RecoverStep(t)
    \/ WatchStep \/ RequestRecovers \/ EnvStep

SSpec == SInit /\ [][SNext]_svars

\* The three threads keep running; nothing is assumed of Logstash or the logs.
SFairness ==
    /\ \A t \in Threads : WF_svars(ScanStep(t)) /\ WF_svars(RecoverStep(t))
    /\ WF_svars(WatchStep)

SFairSpec == SSpec /\ SFairness

-----------------------------------------------------------------------------
\* Properties.

\* Every variable has its type.
STypeOK ==
    /\ ls \in {"up", "stunned", "down"}
    /\ storms \in SUBSET Dests /\ held \in SUBSET Dests
    /\ hits \in [Dests -> 0..Confirmations] /\ since \in BOOLEAN
    /\ failures \in 0..MaxFailures /\ probe \in {"none", "up", "down"}
    /\ recent \in Nat /\ cooling \in BOOLEAN
    /\ pc \in [Threads -> {"idle", "count", "health", "judge"} \cup Recovering]
    /\ seen \in [Scanners -> SUBSET Dests]
    /\ cause \in [Threads -> {"none", "storm", "health", "request"}]

\* _recovery_allowed and the append to _recovery_times are minutes apart and not
\* locked; still no more recoveries are entered in an hour than the bound plus one for
\* each other thread.  What goes beyond that are the recoveries whose entry a prune of
\* another thread overwrote, each of which needs such a race.
RecoveriesBounded == recent <= MaxPerHour + 2

\* A destination that storms and is not held gets its Logstash killed, although the
\* two scanners count in, and clear, one dictionary.
StormIsKilled ==
    \A d \in Dests : []<>(d \notin storms \/ d \in held
                            \/ \E t \in Scanners : cause[t] = "storm" /\ pc[t] = "limit")

\* A Logstash that is down gets a recovery, or at least asks for one, whatever the
\* other threads do to the counters.
OutageIsNoticed == []<>(ls # "down" \/ pc["watchdog"] = "limit")

=============================================================================
