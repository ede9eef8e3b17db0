----------------------------- MODULE Supervisor -----------------------------
(***************************************************************************)
(* LogstashSupervisor of an embedded agent (logstash_supervisor.py): it    *)
(* owns the Logstash JVM as a child process.  Three kinds of thread run    *)
(* its methods with no lock between them: its own monitor loop, callers of *)
(* trigger_restart (the simulate handler and the bus-storm check), and the *)
(* FastAPI shutdown.  Each pc value is a stretch between two sleeps or     *)
(* waits.  The slots a restart evicts first are SlotRecovery's EvictAll.   *)
(*                                                                         *)
(* A process of Logstash is first the shell script bin/logstash, then the  *)
(* java the script turns into; the orphan cleanup looks for java only.     *)
(* Which process is which does not matter, only what self.process names    *)
(* and whether others run that it does not name, the strays.               *)
(***************************************************************************)
EXTENDS Naturals

CONSTANTS Callers,   \* threads that may call trigger_restart
          Threshold  \* api_unresponsive_threshold

Monitor == "monitor"
Main == "main"
Threads == Callers \cup {Monitor, Main}

ASSUME ThresholdAssumption == Threshold \in Nat \ {0}
ASSUME ThreadsAssumption == Monitor \notin Callers /\ Main \notin Callers

Running == {"script", "java"}

VARIABLES
    held,       \* self.process: "none", running as one of Running, or "dead"
    strays,     \* kinds of Logstash processes that run and that nobody holds
    answering,  \* who answers on the HTTP API: "held", "stray"
    waiting,    \* threads in process.wait() on the process that self.process still names
    shouldRun, isRestarting, isHealthy,
    since,      \* _healthy_since is set
    unresponsive, \* api_unresponsive_count
    heapTimer,  \* high_memory_start_time is set
    pc,         \* where each thread is
    sample      \* what the monitor measured: heap and rss readings

processes == <<held, strays, answering, waiting>>
flags == <<shouldRun, isRestarting, isHealthy, since, unresponsive, heapTimer>>
vars == <<processes, flags, pc, sample>>

NoSample == [heap |-> FALSE, high |-> FALSE, rss |-> FALSE, critical |-> FALSE]
Samples == {m \in [heap : BOOLEAN, high : BOOLEAN, rss : BOOLEAN, critical : BOOLEAN] :
                (m.high => m.heap) /\ (m.critical => m.rss)}

InStop == {"stop", "wait", "reap", "sweep", "unwind", "forget", "clear", "drop"}
InRestart == InStop \cup {"pause", "start"}
Homes == [a \in Threads |-> CASE a = Monitor -> "poll" [] a = Main -> "down" [] OTHER -> "idle"]

\* A history variable: how the stops and restarts have gone so far.
\*   "calm"   none has overlapped another since the first start, or since a stop
\*            that found no stray script when it cleaned up, alone;
\*   "lone"   a stop that is alone and found a process has yet to clean up;
\*   "raced"  otherwise.
VARIABLE order

Init ==
    /\ held = "script" /\ strays = {} /\ answering = {} /\ waiting = {}
    /\ shouldRun = TRUE /\ isRestarting = FALSE /\ isHealthy = FALSE
    /\ since = FALSE /\ unresponsive = 0 /\ heapTimer = FALSE
    /\ pc = [a \in Threads |-> IF a = Main THEN "up" ELSE Homes[a]]
    /\ sample = NoSample
    /\ order = "calm"

ProcessDied == held \notin Running

-----------------------------------------------------------------------------
\* restart_logstash, in any thread.

BeginRestart(a) ==
    /\ isRestarting' = TRUE /\ isHealthy' = FALSE /\ since' = FALSE
    /\ pc' = [pc EXCEPT ![a] = "stop"]

\* trigger_restart from the simulate handler or the cleanup thread.
CallerRestarts(a) ==
    /\ a \in Callers /\ pc[a] = "idle"
    /\ BeginRestart(a)
    /\ UNCHANGED <<processes, shouldRun, unresponsive, heapTimer, sample>>

\* Where stop_logstash returns to: the pause of a restart, or the end of shutdown.
AfterStop(a) == IF a = Main THEN "down" ELSE "pause"

\* Mutant: only the supervisor's own child is killed.
KillOwn ==
    /\ held' = IF held = "java" THEN "dead" ELSE held
    /\ answering' = answering \ {"held"}
    /\ UNCHANGED strays

\* What the finally clause and the early returns do to the processes: kill what is
\* found by the name of java, whoever started it.
KillJava ==
    /\ held' = IF held = "java" THEN "dead" ELSE held
    /\ strays' = strays \ {"java"}
    /\ answering' = {}

\* What becomes of a process that self.process does not name any more.
LetGo ==
    /\ strays' = strays \cup ({held} \cap Running)
    /\ answering' = IF "held" \in answering THEN {"stray"} ELSE answering
    /\ waiting' = {}

\* stop_logstash, entry: nothing held and nothing done, a dead process, or a SIGTERM
\* to wait for.
Stop(a) ==
    /\ pc[a] = "stop"
    /\ \/ /\ held = "none"
          /\ pc' = [pc EXCEPT ![a] = AfterStop(a)]
          /\ UNCHANGED waiting
       \/ /\ held = "dead"
          /\ pc' = [pc EXCEPT ![a] = "reap"]
          /\ UNCHANGED waiting
       \/ /\ held \in Running
          /\ pc' = [pc EXCEPT ![a] = "wait"]
          /\ waiting' = waiting \cup {a}
    /\ UNCHANGED <<held, strays, answering, flags, sample>>

\* The wait is over, by exit, or by the timeout and a SIGKILL of what self.process
\* names by then; with nothing there the method raises, through its finally clause.
StopWaited(a) ==
    /\ pc[a] = "wait"
    /\ pc' = [pc EXCEPT ![a] = IF held = "none" THEN "unwind" ELSE "sweep"]
    /\ \/ /\ held \in Running
          /\ held' = "dead" /\ answering' = answering \ {"held"}
       \/ /\ a \in waiting => held \notin Running
          /\ UNCHANGED <<held, answering>>
    /\ waiting' = waiting \ {a}
    /\ UNCHANGED <<strays, flags, sample>>

\* _cleanup_orphaned_processes, up to five seconds a process and two more before
\* stop_logstash goes on to clear self.process.
Sweep(a) ==
    /\ pc[a] \in {"reap", "sweep", "unwind"}
    /\ pc' = [pc EXCEPT ![a] = CASE pc[a] = "reap" -> "forget"
                                 [] pc[a] = "sweep" -> "clear"
                                 [] OTHER -> "drop"]
    /\ KillJava
    /\ UNCHANGED <<waiting, flags, sample>>

\* self.process = None, whatever it names by then.  The early return of a dead
\* process passes the finally clause, which cleans up and clears once more.
Clear(a) ==
    /\ pc[a] \in {"forget", "clear", "drop"}
    /\ pc' = [pc EXCEPT ![a] = CASE pc[a] = "forget" -> "sweep"
                                 [] pc[a] = "clear" -> AfterStop(a)
                                 [] OTHER -> Homes[a]]
    /\ held' = "none"
    /\ LetGo
    /\ UNCHANGED <<flags, sample>>

\* The two seconds between stop and start.
Pause(a) ==
    /\ pc[a] = "pause"
    /\ pc' = [pc EXCEPT ![a] = "start"]
    /\ UNCHANGED <<processes, flags, sample>>

\* start_logstash returns on a process that has exited (its guard reads poll() is not
\* None), else Popen, whatever runs.
Popen ==
    IF held = "dead" THEN UNCHANGED processes ELSE held' = "script" /\ LetGo

\* Mutant: the restart flag is not cleared after the start.
StartKeepsFlag(a) ==
    /\ pc[a] = "start"
    /\ Popen
    /\ heapTimer' = FALSE
    /\ pc' = [pc EXCEPT ![a] = Homes[a]]
    /\ UNCHANGED <<shouldRun, isHealthy, isRestarting, since, unresponsive, sample>>

\* start_logstash, then the timers are reset.
Start(a) ==
    /\ pc[a] = "start"
    /\ Popen
    /\ heapTimer' = FALSE /\ isRestarting' = FALSE
    /\ pc' = [pc EXCEPT ![a] = Homes[a]]
    /\ UNCHANGED <<shouldRun, isHealthy, since, unresponsive, sample>>

\* The binary is missing or Popen raises: the restart stops there, flags as they are.
StartFails(a) ==
    /\ pc[a] = "start"
    /\ pc' = [pc EXCEPT ![a] = Homes[a]]
    /\ UNCHANGED <<processes, flags, sample>>

-----------------------------------------------------------------------------
\* _monitor_loop.

MonitorLeaves ==
    /\ pc[Monitor] = "poll" /\ ~shouldRun
    /\ pc' = [pc EXCEPT ![Monitor] = "gone"]
    /\ UNCHANGED <<processes, flags, sample>>

\* Mutant: the monitor leaves a restart under way to whoever began it.
FindsCrashWhenIdle ==
    /\ pc[Monitor] = "poll" /\ shouldRun /\ ProcessDied /\ ~isRestarting
    /\ BeginRestart(Monitor)
    /\ UNCHANGED <<processes, shouldRun, unresponsive, heapTimer, sample>>

\* The process is gone: restart.
MonitorFindsCrash ==
    /\ pc[Monitor] = "poll" /\ shouldRun /\ ProcessDied
    /\ BeginRestart(Monitor)
    /\ UNCHANGED <<processes, shouldRun, unresponsive, heapTimer, sample>>

\* It is alive: _get_jvm_heap_usage asks the API of whichever process answers,
\* _get_rss_memory_gb the process itself.
MonitorMeasures ==
    /\ pc[Monitor] = "poll" /\ shouldRun /\ ~ProcessDied
    /\ \E m \in Samples : /\ m.heap <=> answering # {}
                          /\ m.rss
                          /\ sample' = m
    /\ pc' = [pc EXCEPT ![Monitor] = "judge"]
    /\ UNCHANGED <<processes, flags>>

\* The process went between the poll and the rss reading, and nobody else answers.
MonitorMeasuresNothing ==
    /\ pc[Monitor] = "poll" /\ shouldRun /\ ~ProcessDied
    /\ "stray" \notin answering
    /\ held' = "dead" /\ answering' = {}
    /\ sample' = NoSample
    /\ pc' = [pc EXCEPT ![Monitor] = "judge"]
    /\ UNCHANGED <<strays, waiting, flags>>

\* Mutant: the threshold is passed before it restarts.
JudgeLate ==
    /\ pc[Monitor] = "judge" /\ ~sample.heap /\ ~sample.rss
    /\ unresponsive' = unresponsive + 1
    /\ IF unresponsive > Threshold
       THEN BeginRestart(Monitor)
       ELSE /\ pc' = [pc EXCEPT ![Monitor] = "poll"]
            /\ UNCHANGED <<isRestarting, isHealthy, since>>
    /\ sample' = NoSample
    /\ UNCHANGED <<processes, shouldRun, heapTimer>>

\* _check_memory_thresholds without any data.
JudgeUnresponsive ==
    /\ pc[Monitor] = "judge" /\ ~sample.heap /\ ~sample.rss
    /\ unresponsive' = IF unresponsive < Threshold THEN unresponsive + 1 ELSE Threshold
    /\ IF unresponsive + 1 >= Threshold
       THEN BeginRestart(Monitor)
       ELSE /\ pc' = [pc EXCEPT ![Monitor] = "poll"]
            /\ UNCHANGED <<isRestarting, isHealthy, since>>
    /\ sample' = NoSample
    /\ UNCHANGED <<processes, shouldRun, heapTimer>>

\* _check_memory_thresholds with some data: the counter is reset and the supervisor
\* healthy ...
JudgeHealthy ==
    /\ pc[Monitor] = "judge" /\ (sample.heap \/ sample.rss)
    /\ unresponsive' = 0 /\ isHealthy' = TRUE
    /\ pc' = [pc EXCEPT ![Monitor] = "clock"]
    /\ UNCHANGED <<processes, shouldRun, isRestarting, since, heapTimer, sample>>

\* ... its clock starts, and a heap above the threshold for its duration restarts, as
\* does an rss above the critical multiple.
JudgeMemory ==
    /\ pc[Monitor] = "clock"
    /\ heapTimer' = sample.high
    /\ \/ /\ (heapTimer /\ sample.high) \/ sample.critical
          /\ BeginRestart(Monitor)
       \/ /\ ~sample.critical
          /\ since' = TRUE
          /\ pc' = [pc EXCEPT ![Monitor] = "poll"]
          /\ UNCHANGED <<isHealthy, isRestarting>>
    /\ sample' = NoSample
    /\ UNCHANGED <<processes, shouldRun, unresponsive>>

-----------------------------------------------------------------------------
\* shutdown, in the main thread.

BeginShutdown ==
    /\ pc[Main] = "up"
    /\ shouldRun' = FALSE
    /\ pc' = [pc EXCEPT ![Main] = "join"]
    /\ UNCHANGED <<processes, isRestarting, isHealthy, since, unresponsive,
                   heapTimer, sample>>

\* join(timeout=5) returns whether or not the monitor left its loop.
Joined ==
    /\ pc[Main] = "join"
    /\ pc' = [pc EXCEPT ![Main] = "stop"]
    /\ UNCHANGED <<processes, flags, sample>>

-----------------------------------------------------------------------------
\* The processes.  Of the strays several may be of one kind.

\* bin/logstash ends in an exec of java.
BecomesJava ==
    /\ \/ held = "script" /\ held' = "java" /\ UNCHANGED strays
       \/ /\ "script" \in strays
          /\ strays' \in {strays \cup {"java"}, {"java"}}
          /\ UNCHANGED held
    /\ UNCHANGED <<answering, waiting, flags, pc, sample>>

ApiComesUp ==
    /\ \/ held = "java" /\ answering' = answering \cup {"held"}
       \/ "java" \in strays /\ answering' = answering \cup {"stray"}
    /\ UNCHANGED <<held, strays, waiting, flags, pc, sample>>

ApiStuns ==
    /\ \E x \in answering : answering' = answering \ {x}
    /\ UNCHANGED <<held, strays, waiting, flags, pc, sample>>

\* A process exits, by itself or by the SIGTERM of a stop.
Crash ==
    /\ \/ held \in Running /\ held' = "dead" /\ answering' = answering \ {"held"}
          /\ UNCHANGED strays
       \/ /\ \E k \in strays : strays' = strays \ {k}
          /\ answering' = IF "java" \in strays' THEN answering ELSE answering \ {"stray"}
          /\ UNCHANGED held
    /\ UNCHANGED <<waiting, flags, pc, sample>>

-----------------------------------------------------------------------------
RestartStep(a) ==
    \/ Stop(a) \/ StopWaited(a) \/ Sweep(a) \/ Clear(a)
    \/ Pause(a) \/ Start(a) \/ StartFails(a)

MonitorStep ==
    \/ MonitorLeaves \/ MonitorFindsCrash \/ MonitorMeasures \/ MonitorMeasuresNothing
    \/ JudgeUnresponsive \/ JudgeHealthy \/ JudgeMemory

Next ==
    \/ \E a \in Threads : CallerRestarts(a) \/ RestartStep(a)
    \/ MonitorStep
    \/ BeginShutdown \/ Joined
    \/ BecomesJava \/ ApiComesUp \/ ApiStuns \/ Crash

-----------------------------------------------------------------------------
\* How the history variable moves.

Busy(a) == pc[a] \in InRestart
Overlap == \E a, b \in Threads : a # b /\ Busy(a) /\ Busy(b)
Finds == \E a \in Threads : pc[a] = "stop" /\ pc'[a] \in {"wait", "reap"}
Sweeps == \E a \in Threads : pc[a] \in {"reap", "sweep", "unwind"} /\ pc'[a] # pc[a]

Recorded ==
    order' = CASE Overlap' -> "raced"
               [] ~Overlap' /\ order = "raced" /\ Finds -> "lone"
               [] ~Overlap' /\ order = "lone" /\ Sweeps ->
                    IF "script" \in strays THEN "raced" ELSE "calm"
               [] OTHER -> order

hvars == <<vars, order>>

Spec == Init /\ [][Next /\ Recorded]_hvars

\* Every thread keeps running, and a thread that tries to start Logstash again and
\* again succeeds at last; nothing is assumed of the processes or the callers.
Fairness == /\ \A a \in Threads : WF_hvars(RestartStep(a) /\ Recorded)
                                 /\ SF_hvars(Start(a) /\ Recorded)
            /\ WF_hvars(MonitorStep /\ Recorded) /\ WF_hvars(Joined /\ Recorded)

FairSpec == Spec /\ Fairness

-----------------------------------------------------------------------------
\* Properties.

\* Every variable has its type; only running JVMs answer.
TypeOK ==
    /\ held \in {"none", "dead"} \cup Running
    /\ strays \in SUBSET Running
    /\ answering \in SUBSET {"held", "stray"}
    /\ "held" \in answering => held = "java"
    /\ "stray" \in answering => "java" \in strays
    /\ waiting \in SUBSET Threads
    /\ shouldRun \in BOOLEAN /\ isRestarting \in BOOLEAN /\ isHealthy \in BOOLEAN
    /\ since \in BOOLEAN /\ heapTimer \in BOOLEAN
    /\ unresponsive \in 0..Threshold
    /\ pc \in [Threads -> InRestart \cup {"idle", "poll", "judge", "clock", "gone", "up", "join", "down"}]
    /\ sample \in Samples
    /\ order \in {"calm", "lone", "raced"}

\* Stops and restarts that do not overlap leave no process that nobody holds, at any
\* point of theirs and with any crash; and what earlier overlaps left behind, the
\* cleanup of a stop that runs alone takes away, short of a script that has not
\* become java yet.  (Overlaps can leave any number: see README.)
NoStrayWhenCalm == order = "calm" => strays = {}

\* A Logstash that died is replaced, whoever else restarts it meanwhile, unless the
\* agent is shutting down.
CrashIsHealed == []<>(~ProcessDied \/ ~shouldRun)

\* A restart ends, also one that raised half way: requests queued behind
\* is_restarting are not held for ever.
RestartEnds == []<>(~isRestarting \/ ~shouldRun)

=============================================================================
