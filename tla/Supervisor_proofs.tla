------------------------- MODULE Supervisor_proofs -------------------------
(***************************************************************************)
(* What stops and restarts leave behind of Logstash, for every number of   *)
(* threads that may call them: nothing, as long as they do not overlap.    *)
(***************************************************************************)
EXTENDS Supervisor, TLAPS

USE ThresholdAssumption, ThreadsAssumption

-----------------------------------------------------------------------------
\* Types.

PCs == InRestart \cup {"idle", "poll", "judge", "clock", "gone", "up", "join", "down"}

LEMMA HomesTypes ==
    /\ \A a \in Threads : Homes[a] \in {"poll", "down", "idle"}
    /\ Homes[Main] = "down" /\ Homes[Monitor] = "poll"
    /\ Monitor \in Threads /\ Main \in Threads
  <1>1. Monitor \in Threads /\ Main \in Threads /\ Monitor # Main
    BY DEF Threads, Monitor, Main
  <1>2. \A a \in Threads : Homes[a] = CASE a = Monitor -> "poll" [] a = Main -> "down" [] OTHER -> "idle"
    BY DEF Homes
  <1> QED BY <1>1, <1>2

LEMMA NoSampleType == NoSample \in Samples
BY DEF NoSample, Samples

LEMMA TypeStep == TypeOK /\ [Next /\ Recorded]_hvars => TypeOK'
  <1> SUFFICES ASSUME TypeOK, [Next /\ Recorded]_hvars PROVE TypeOK'
    OBVIOUS
  <1> USE DEF flags, processes, InRestart, InStop, BeginRestart, Running, TypeOK
  <1>0. Monitor \in Threads /\ Main \in Threads
    BY HomesTypes
  <1>o. order' \in {"calm", "lone", "raced"}
    BY DEF Recorded, hvars
  <1>1. ASSUME NEW a \in Threads, CallerRestarts(a) PROVE TypeOK'
    BY <1>1, <1>o DEF CallerRestarts
  <1>2. ASSUME NEW a \in Threads, Stop(a) PROVE TypeOK'
    <2>1. AfterStop(a) \in {"pause", "down"}
      BY DEF AfterStop
    <2> QED BY <1>2, <1>o, <2>1 DEF Stop
  <1>3. ASSUME NEW a \in Threads, StopWaited(a) PROVE TypeOK'
    BY <1>3, <1>o DEF StopWaited
  <1>4. ASSUME NEW a \in Threads, Sweep(a) PROVE TypeOK'
    BY <1>4, <1>o DEF Sweep, KillJava
  <1>5. ASSUME NEW a \in Threads, Clear(a) PROVE TypeOK'
    <2>1. AfterStop(a) \in {"pause", "down"} /\ Homes[a] \in {"poll", "down", "idle"}
      BY HomesTypes DEF AfterStop
    <2>2. pc' \in [Threads -> PCs]
      BY <1>5, <2>1 DEF Clear, PCs
    <2> QED BY <1>5, <1>o, <2>2 DEF Clear, LetGo, PCs
  <1>6. ASSUME NEW a \in Threads, Pause(a) PROVE TypeOK'
    BY <1>6, <1>o DEF Pause
  <1>7. ASSUME NEW a \in Threads, Start(a) PROVE TypeOK'
    <2>1. pc' \in [Threads -> PCs]
      BY <1>7, HomesTypes DEF Start, PCs
    <2>2. CASE held = "dead" /\ UNCHANGED processes
      BY <1>7, <1>o, <2>1, <2>2 DEF Start, PCs
    <2>3. CASE held' = "script" /\ LetGo
      <3>1. /\ strays' \in SUBSET Running /\ answering' \in SUBSET {"stray"} /\ waiting' = {}
            /\ "stray" \in answering' => "java" \in strays'
        BY <1>7, <2>3 DEF LetGo, Popen, Start
      <3> QED BY <1>7, <1>o, <2>1, <2>3, <3>1 DEF Start, PCs
    <2> QED BY <1>7, <2>2, <2>3 DEF Start, Popen
  <1>8. ASSUME NEW a \in Threads, StartFails(a) PROVE TypeOK'
    BY <1>8, <1>o, HomesTypes DEF StartFails
  <1>9. ASSUME MonitorStep PROVE TypeOK'
    <2>1. CASE MonitorLeaves \/ MonitorFindsCrash
      BY <1>0, <1>o, <2>1 DEF MonitorLeaves, MonitorFindsCrash
    <2>2. CASE MonitorMeasures
      BY <1>0, <1>o, <2>2 DEF MonitorMeasures
    <2>3. CASE MonitorMeasuresNothing
      BY <1>0, <1>o, <2>3, NoSampleType DEF MonitorMeasuresNothing
    <2>4. CASE JudgeUnresponsive
      <3>1. unresponsive' \in 0..Threshold
        BY <2>4 DEF JudgeUnresponsive
      <3> QED BY <1>0, <1>o, <2>4, <3>1, NoSampleType DEF JudgeUnresponsive
    <2>5. CASE JudgeHealthy
      BY <1>0, <1>o, <2>5 DEF JudgeHealthy
    <2>6. CASE JudgeMemory
      <3>1. heapTimer' \in BOOLEAN
        BY <2>6 DEF JudgeMemory, Samples
      <3> QED BY <1>0, <1>o, <2>6, <3>1, NoSampleType DEF JudgeMemory
    <2> QED BY <1>9, <2>1, <2>2, <2>3, <2>4, <2>5, <2>6 DEF MonitorStep
  <1>10. ASSUME BeginShutdown \/ Joined PROVE TypeOK'
    BY <1>0, <1>o, <1>10 DEF BeginShutdown, Joined
  <1>11. ASSUME BecomesJava \/ ApiComesUp \/ ApiStuns \/ Crash PROVE TypeOK'
    <2>1. CASE BecomesJava
      BY <1>o, <2>1 DEF BecomesJava
    <2>2. CASE ApiComesUp
      BY <1>o, <2>2 DEF ApiComesUp
    <2>3. CASE ApiStuns
      BY <1>o, <2>3 DEF ApiStuns
    <2>4. CASE Crash
      BY <1>o, <2>4 DEF Crash
    <2> QED BY <1>11, <2>1, <2>2, <2>3, <2>4
  <1>12. ASSUME UNCHANGED hvars PROVE TypeOK'
    BY <1>12 DEF hvars, vars
  <1> QED
    BY <1>1, <1>2, <1>3, <1>4, <1>5, <1>6, <1>7, <1>8, <1>9, <1>10, <1>11, <1>12
    DEF Next, RestartStep

LEMMA TypeInit == Init => TypeOK
  <1> SUFFICES ASSUME Init PROVE TypeOK
    OBVIOUS
  <1>1. pc \in [Threads -> PCs]
    BY HomesTypes DEF Init, PCs
  <1>2. 0 \in 0..Threshold
    OBVIOUS
  <1> QED BY <1>1, <1>2, NoSampleType DEF Init, TypeOK, Running, PCs

\* LogstashSupervisor's type invariant, for every threshold and set of callers: no
\* thread is outside the stretches of its method, and only running JVMs answer.
THEOREM TypeCorrect == Spec => []TypeOK
  <1> QED BY TypeInit, TypeStep, PTL DEF Spec

-----------------------------------------------------------------------------
\* A thread that stops or restarts Logstash alone finds self.process as it left it.

Orderly(a) ==
    /\ pc[a] \notin {"unwind", "drop"}
    /\ pc[a] = "wait" => a \in waiting /\ held # "none"
    /\ pc[a] \in {"reap", "sweep", "forget", "clear"} => held \notin Running
    /\ pc[a] \in {"pause", "start"} => held = "none"

Alone(a) == \A b \in Threads \ {a} : ~Busy(b)

NInv ==
    /\ TypeOK
    /\ order # "raced" => ~Overlap /\ \A a \in Threads : Orderly(a)
    /\ NoStrayWhenCalm

\* Everyone who is not in a stop or a restart, and the processes themselves.
LEMMA OthersStep ==
    ASSUME NInv, TypeOK', Recorded,
           \A b \in Threads : \/ pc'[b] = pc[b]
                              \/ ~Busy(b) /\ (pc'[b] = "stop" \/ ~Busy(b)'),
           held' = held \/ (held \in Running /\ held' \in {"java", "dead"}),
           waiting' = waiting, strays = {} => strays' = {}
    PROVE  NInv'
  <1> USE DEF Busy, InRestart, InStop, Running
  <1>1. ~Finds /\ ~Sweeps
    BY DEF Finds, Sweeps
  <1>2. order' = "raced" \/ (~Overlap' /\ order' = order)
    BY <1>1 DEF Recorded, NInv, TypeOK
  <1>3. ASSUME order # "raced", NEW a \in Threads PROVE Orderly(a)'
    <2>1. Orderly(a)
      BY <1>3 DEF NInv
    <2> QED BY <2>1 DEF Orderly
  <1> QED BY <1>2, <1>3 DEF NInv, NoStrayWhenCalm

\* One thread's own step: what is left to show is about it, alone.
LEMMA AloneStep ==
    ASSUME NInv, TypeOK', Recorded, NEW a \in Threads, Busy(a),
           NEW p, pc' = [pc EXCEPT ![a] = p],
           (Alone(a) /\ (order # "raced" \/ (pc[a] = "stop" /\ p \in {"wait", "reap"})))
              => Orderly(a)',
           Alone(a) /\ order' = "calm" => strays' = {}
    PROVE  NInv'
  <1> USE DEF Busy, InRestart, InStop
  <1>0. \A b \in Threads : pc'[b] = IF b = a THEN p ELSE pc[b]
    BY DEF NInv, TypeOK
  <1> SUFFICES ASSUME order' # "raced" PROVE NInv'
    BY DEF NInv, NoStrayWhenCalm
  <1>1. ~Overlap'
    BY DEF Recorded
  <1>2. order # "raced" \/ (Finds /\ order' = "lone")
    BY DEF Recorded
  <1>3. Finds => pc[a] = "stop" /\ p \in {"wait", "reap"}
    BY <1>0 DEF Finds
  <1>4. Alone(a)
    <2>1. CASE order # "raced"
      BY <2>1 DEF NInv, Overlap, Alone
    <2>2. CASE Finds
      <3>1. Busy(a)'
        BY <1>0, <1>3, <2>2
      <3>2. ASSUME NEW b \in Threads, b # a PROVE ~Busy(b)
        BY <1>0, <1>1, <3>1, <3>2 DEF Overlap
      <3> QED BY <3>2 DEF Alone
    <2> QED BY <1>2, <2>1, <2>2
  <1>5. Orderly(a)'
    BY <1>2, <1>3, <1>4
  <1>6. ASSUME NEW b \in Threads PROVE Orderly(b)'
    <2>1. CASE b = a
      BY <1>5, <2>1
    <2>2. CASE b # a
      <3>1. pc'[b] = pc[b] /\ ~Busy(b)
        BY <1>0, <1>4, <2>2 DEF Alone
      <3> QED BY <3>1 DEF Orderly
    <2> QED BY <2>1, <2>2
  <1>7. NoStrayWhenCalm'
    BY <1>4 DEF NoStrayWhenCalm
  <1> QED BY <1>1, <1>6, <1>7 DEF NInv

\* A step that does not clean up leaves the history calm only if it was.
LEMMA CalmStays ==
    ASSUME Recorded, ~Sweeps, order' = "calm"
    PROVE  order = "calm"
BY DEF Recorded

LEMMA NStep == NInv /\ [Next /\ Recorded]_hvars => NInv'
  <1> SUFFICES ASSUME NInv, [Next /\ Recorded]_hvars PROVE NInv'
    OBVIOUS
  <1>0. TypeOK /\ TypeOK' /\ Monitor \in Threads /\ Main \in Threads
    BY TypeStep, HomesTypes DEF NInv
  <1>u. CASE UNCHANGED hvars
    BY <1>u DEF NInv, TypeOK, NoStrayWhenCalm, Overlap, Busy, Orderly, hvars, vars, processes, flags
  <1> SUFFICES ASSUME Next, Recorded PROVE NInv'
    BY <1>u
  <1> USE DEF flags, processes, InRestart, InStop, Busy, Running
  <1>s. \A a \in Threads : Busy(a) /\ order # "raced" => Orderly(a)
    BY DEF NInv
  <1>c. order = "calm" => strays = {}
    BY DEF NInv, NoStrayWhenCalm
  <1>1. ASSUME NEW a \in Threads, CallerRestarts(a) PROVE NInv'
    <2>1. \A b \in Threads : \/ pc'[b] = pc[b]
                             \/ ~Busy(b) /\ (pc'[b] = "stop" \/ ~Busy(b)')
      BY <1>0, <1>1 DEF CallerRestarts, BeginRestart, TypeOK
    <2> QED BY <1>0, <1>1, <2>1, OthersStep DEF CallerRestarts
  <1>2. ASSUME NEW a \in Threads, Stop(a) PROVE NInv'
    <2>1. PICK p \in {"wait", "reap", "pause", "down"} :
            /\ pc' = [pc EXCEPT ![a] = p]
            /\ p = "wait" => a \in waiting' /\ held \in Running
            /\ p = "reap" => held = "dead"
            /\ p = "pause" => held = "none"
      BY <1>2 DEF Stop, AfterStop
    <2>2. Orderly(a)'
      BY <1>0, <1>2, <2>1 DEF Stop, Orderly, TypeOK
    <2>3. ~Sweeps
      BY <1>0, <1>2, <2>1 DEF Stop, Sweeps, TypeOK
    <2>4. order' = "calm" => strays' = {}
      BY <1>2, <1>c, <2>3, CalmStays DEF Stop
    <2>5. Busy(a)
      BY <1>2 DEF Stop
    <2> QED BY <1>0, <2>1, <2>2, <2>4, <2>5, AloneStep
  <1>3. ASSUME NEW a \in Threads, StopWaited(a) PROVE NInv'
    <2>1. PICK p \in {"unwind", "sweep"} :
            pc' = [pc EXCEPT ![a] = p] /\ (p = "unwind" <=> held = "none")
      BY <1>3 DEF StopWaited
    <2>2. order # "raced" => Orderly(a)'
      BY <1>0, <1>3, <1>s, <2>1 DEF StopWaited, Orderly, TypeOK
    <2>3. ~Sweeps
      BY <1>0, <1>3, <2>1 DEF StopWaited, Sweeps, TypeOK
    <2>4. order' = "calm" => strays' = {}
      BY <1>3, <1>c, <2>3, CalmStays DEF StopWaited
    <2>5. Busy(a) /\ pc[a] # "stop"
      BY <1>3 DEF StopWaited
    <2> QED BY <1>0, <2>1, <2>2, <2>4, <2>5, AloneStep
  <1>4. ASSUME NEW a \in Threads, Sweep(a) PROVE NInv'
    <2>1. PICK p \in {"forget", "clear", "drop"} :
            pc' = [pc EXCEPT ![a] = p] /\ (p = "drop" <=> pc[a] = "unwind")
      BY <1>4 DEF Sweep
    <2>2. order # "raced" => Orderly(a)'
      BY <1>0, <1>4, <1>s, <2>1 DEF Sweep, KillJava, Orderly, TypeOK
    <2>3. order' = "calm" => strays' = {}
      <3>1. order' = "calm" => order = "calm" \/ "script" \notin strays
        BY DEF Recorded
      <3> QED BY <1>0, <1>4, <1>c, <3>1 DEF Sweep, KillJava, TypeOK
    <2>4. Busy(a) /\ pc[a] # "stop"
      BY <1>4 DEF Sweep
    <2> QED BY <1>0, <2>1, <2>2, <2>3, <2>4, AloneStep
  <1>5. ASSUME NEW a \in Threads, Clear(a) PROVE NInv'
    <2>1. PICK p \in {"sweep", "pause", "down", "idle", "poll"} : pc' = [pc EXCEPT ![a] = p]
      BY <1>5, HomesTypes DEF Clear, AfterStop
    <2>2. Orderly(a)'
      BY <1>0, <1>5, <2>1 DEF Clear, Orderly, TypeOK
    <2>3. ~Sweeps
      BY <1>0, <1>5, <2>1 DEF Clear, Sweeps, TypeOK
    <2>4. Busy(a) /\ pc[a] # "stop"
      BY <1>5 DEF Clear
    <2>5. order' = "calm" => strays' = {}
      <3> SUFFICES ASSUME order' = "calm" PROVE strays' = {}
        OBVIOUS
      <3>1. order = "calm"
        BY <2>3, CalmStays
      <3>2. held \notin Running
        BY <1>5, <1>s, <2>4, <3>1 DEF Clear, Orderly
      <3> QED BY <1>5, <1>c, <3>1, <3>2 DEF Clear, LetGo
    <2> QED BY <1>0, <2>1, <2>2, <2>4, <2>5, AloneStep
  <1>6. ASSUME NEW a \in Threads, Pause(a) PROVE NInv'
    <2>1. pc' = [pc EXCEPT ![a] = "start"] /\ Busy(a) /\ pc[a] = "pause"
      BY <1>6 DEF Pause
    <2>2. order # "raced" => Orderly(a)'
      BY <1>0, <1>6, <1>s, <2>1 DEF Pause, Orderly, TypeOK
    <2>3. ~Sweeps
      BY <1>0, <2>1 DEF Sweeps, TypeOK
    <2>4. order' = "calm" => strays' = {}
      BY <1>6, <1>c, <2>3, CalmStays DEF Pause
    <2> QED BY <1>0, <2>1, <2>2, <2>4, AloneStep
  <1>7. ASSUME NEW a \in Threads, Start(a) \/ StartFails(a) PROVE NInv'
    <2>1. PICK p \in {"idle", "poll", "down"} : pc' = [pc EXCEPT ![a] = p]
      BY <1>7, HomesTypes DEF Start, StartFails
    <2>2. Orderly(a)'
      BY <1>0, <2>1 DEF Orderly, TypeOK
    <2>3. Busy(a) /\ pc[a] = "start"
      BY <1>7 DEF Start, StartFails
    <2>4. ~Sweeps
      BY <1>0, <2>1, <2>3 DEF Sweeps, TypeOK
    <2>5. order' = "calm" => strays' = {}
      <3> SUFFICES ASSUME order' = "calm" PROVE strays' = {}
        OBVIOUS
      <3>1. order = "calm" /\ held = "none"
        BY <1>s, <2>3, <2>4, CalmStays DEF Orderly
      <3> QED BY <1>7, <1>c, <3>1 DEF Start, StartFails, Popen, LetGo
    <2> QED BY <1>0, <2>1, <2>2, <2>3, <2>5, AloneStep
  <1>8. ASSUME MonitorStep PROVE NInv'
    <2>1. /\ pc[Monitor] \in {"poll", "judge", "clock"}
          /\ \E p \in {"gone", "stop", "judge", "poll", "clock"} : pc' = [pc EXCEPT ![Monitor] = p]
      BY <1>8 DEF MonitorStep, MonitorLeaves, MonitorFindsCrash, MonitorMeasures, BeginRestart,
         MonitorMeasuresNothing, JudgeUnresponsive, JudgeHealthy, JudgeMemory
    <2>2. /\ held' = held \/ (held \in Running /\ held' = "dead")
          /\ UNCHANGED <<strays, waiting>>
      BY <1>8 DEF MonitorStep, MonitorLeaves, MonitorFindsCrash, MonitorMeasures, ProcessDied,
         MonitorMeasuresNothing, JudgeUnresponsive, JudgeHealthy, JudgeMemory
    <2>3. \A b \in Threads : \/ pc'[b] = pc[b]
                             \/ ~Busy(b) /\ (pc'[b] = "stop" \/ ~Busy(b)')
      BY <1>0, <2>1 DEF TypeOK
    <2> QED BY <1>0, <2>2, <2>3, OthersStep
  <1>9. ASSUME BeginShutdown \/ Joined PROVE NInv'
    <2>1. \A b \in Threads : \/ pc'[b] = pc[b]
                             \/ ~Busy(b) /\ (pc'[b] = "stop" \/ ~Busy(b)')
      BY <1>0, <1>9 DEF BeginShutdown, Joined, TypeOK
    <2> QED BY <1>0, <1>9, <2>1, OthersStep DEF BeginShutdown, Joined
  <1>10. ASSUME BecomesJava \/ ApiComesUp \/ ApiStuns \/ Crash PROVE NInv'
    <2>1. /\ pc' = pc /\ waiting' = waiting
          /\ held' = held \/ (held \in Running /\ held' \in {"java", "dead"})
          /\ strays = {} => strays' = {}
      BY <1>10 DEF BecomesJava, ApiComesUp, ApiStuns, Crash
    <2> QED BY <1>0, <2>1, OthersStep
  <1> QED
    BY <1>1, <1>2, <1>3, <1>4, <1>5, <1>6, <1>7, <1>8, <1>9, <1>10 DEF Next, RestartStep

\* Restarts and stops that do not overlap leave no Logstash that nobody holds, and one
\* that runs alone clears away what overlapping ones left: the seconds between the
\* cleanup and self.process = None lose a process only to another thread's start.
THEOREM LoneStopsLeaveNoStray == Spec => []NoStrayWhenCalm
  <1>1. Init => NInv
    <2> SUFFICES ASSUME Init PROVE NInv
      OBVIOUS
    <2>1. \A a \in Threads : pc[a] \in {"up", "poll", "down", "idle"}
      BY HomesTypes DEF Init
    <2> QED BY <2>1, TypeInit DEF Init, NInv, NoStrayWhenCalm, Overlap, Busy, InRestart, InStop,
         Orderly
  <1>2. NInv => NoStrayWhenCalm
    BY DEF NInv
  <1> QED BY <1>1, <1>2, NStep, PTL DEF Spec
=============================================================================
