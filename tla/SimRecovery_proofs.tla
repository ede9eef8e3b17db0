------------------------- MODULE SimRecovery_proofs -------------------------
(***************************************************************************)
(* The hourly bound of simulate recoveries, for every bound, and the       *)
(* types. The check of _recovery_allowed and the append to _recovery_times *)
(* are separate steps, so the invariant counts the recoveries under way    *)
(* with those entered.                                                     *)
(***************************************************************************)
EXTENDS SimRecovery, TLAPS

\* A thread that was allowed to recover and has not finished.
UnderWay(t) == IF pc[t] \in {"sanitize", "restart"} THEN 1 ELSE 0

Committed == recent + UnderWay("watchdog") + UnderWay("cleanup") + UnderWay("loop")

Places == {"idle", "count", "health", "judge", "kill", "limit", "sanitize", "restart"}
PCType == pc \in [Threads -> Places]

\* The inductive invariant.
LimitInv == recent \in Nat /\ PCType /\ Committed <= MaxPerHour + 2

USE MaxPerHourAssumption

-----------------------------------------------------------------------------
\* A thread that moves leaves the others where they are.
LEMMA Moves ==
    ASSUME NEW t \in Threads, PCType, NEW w \in Places, pc' = [pc EXCEPT ![t] = w]
    PROVE  /\ PCType'
           /\ UnderWay(t)' = IF w \in {"sanitize", "restart"} THEN 1 ELSE 0
           /\ \A u \in Threads \ {t} : UnderWay(u)' = UnderWay(u)
BY DEF PCType, UnderWay

\* A thread that was under way and ends takes one off the sum.
LEMMA Ends ==
    ASSUME NEW t \in Threads, LimitInv, pc[t] \in {"sanitize", "restart"},
           \E w \in {"idle", "health"} : pc' = [pc EXCEPT ![t] = w]
    PROVE  PCType' /\ UnderWay("watchdog")' + UnderWay("cleanup")' + UnderWay("loop")' + 1
                        = UnderWay("watchdog") + UnderWay("cleanup") + UnderWay("loop")
<1>1. PICK w \in {"idle", "health"} : pc' = [pc EXCEPT ![t] = w]  OBVIOUS
<1>0. w \in Places /\ w \notin {"sanitize", "restart"}  BY DEF Places
<1>a. PCType  BY DEF LimitInv
<1>2. PCType' /\ UnderWay(t)' = 0 /\ \A u \in Threads \ {t} : UnderWay(u)' = UnderWay(u)
      BY <1>1, <1>0, <1>a, Moves
<1>3. UnderWay(t) = 1  BY DEF UnderWay
<1>4. \A u : UnderWay(u) \in Nat /\ UnderWay(u)' \in Nat  BY DEF UnderWay
<1>5. CASE t = "watchdog"  BY <1>2, <1>3, <1>4, <1>5 DEF Threads, Scanners
<1>6. CASE t = "cleanup"  BY <1>2, <1>3, <1>4, <1>6 DEF Threads, Scanners
<1>7. CASE t = "loop"  BY <1>2, <1>3, <1>4, <1>7 DEF Threads, Scanners
<1>8. QED  BY <1>5, <1>6, <1>7 DEF Threads, Scanners

\* A thread that moves without being allowed adds nothing to the sum.
LEMMA Stays ==
    ASSUME NEW t \in Threads, LimitInv,
           \E w \in {"idle", "count", "health", "judge", "kill", "limit"} :
                pc' = [pc EXCEPT ![t] = w]
    PROVE  PCType' /\ UnderWay("watchdog")' + UnderWay("cleanup")' + UnderWay("loop")'
                        <= UnderWay("watchdog") + UnderWay("cleanup") + UnderWay("loop")
<1>1. PICK w \in {"idle", "count", "health", "judge", "kill", "limit"} :
            pc' = [pc EXCEPT ![t] = w]
      OBVIOUS
<1>0. w \in Places /\ w \notin {"sanitize", "restart"}  BY DEF Places
<1>a. PCType  BY DEF LimitInv
<1>2. PCType' /\ UnderWay(t)' = 0 /\ \A u \in Threads \ {t} : UnderWay(u)' = UnderWay(u)
      BY <1>1, <1>0, <1>a, Moves
<1>3. \A u : UnderWay(u) \in Nat /\ UnderWay(u)' \in Nat  BY DEF UnderWay
<1>4. CASE t = "watchdog"  BY <1>2, <1>3, <1>4 DEF Threads, Scanners
<1>5. CASE t = "cleanup"  BY <1>2, <1>3, <1>5 DEF Threads, Scanners
<1>6. CASE t = "loop"  BY <1>2, <1>3, <1>6 DEF Threads, Scanners
<1>7. QED  BY <1>4, <1>5, <1>6 DEF Threads, Scanners

\* What a recovery that ends does to pc.
LEMMA FinishMoves ==
    ASSUME NEW t \in Threads, NEW b \in BOOLEAN, Finish(t, b)
    PROVE  \E w \in {"idle", "health"} : pc' = [pc EXCEPT ![t] = w]
BY DEF Finish, NoRestart

\* A step that enters no recovery and commits no thread keeps the bound.
LEMMA Keeps ==
    ASSUME NEW t \in Threads, LimitInv, UNCHANGED recent,
           \E w \in {"idle", "count", "health", "judge", "kill", "limit"} :
                pc' = [pc EXCEPT ![t] = w]
    PROVE  LimitInv'
<1>1. PCType' /\ UnderWay("watchdog")' + UnderWay("cleanup")' + UnderWay("loop")'
                    <= UnderWay("watchdog") + UnderWay("cleanup") + UnderWay("loop")
      BY Stays
<1>2. \A u : UnderWay(u) \in Nat /\ UnderWay(u)' \in Nat  BY DEF UnderWay
<1>3. QED  BY <1>1, <1>2 DEF LimitInv, Committed

LEMMA LimitInit == SInit => LimitInv
<1> SUFFICES ASSUME SInit  PROVE LimitInv  OBVIOUS
<1>1. recent = 0 /\ pc = [t \in Threads |-> "idle"]  BY DEF SInit
<1>2. PCType  BY <1>1 DEF PCType, Places
<1>3. UnderWay("watchdog") = 0 /\ UnderWay("cleanup") = 0 /\ UnderWay("loop") = 0
      BY <1>1 DEF UnderWay, Threads, Scanners
<1>4. QED  BY <1>1, <1>2, <1>3 DEF LimitInv, Committed

LEMMA LimitStep == LimitInv /\ [SNext]_svars => LimitInv'
<1> SUFFICES ASSUME LimitInv, [SNext]_svars  PROVE LimitInv'  OBVIOUS
<1>0. \A u : UnderWay(u) \in Nat /\ UnderWay(u)' \in Nat  BY DEF UnderWay
<1>1. ASSUME NEW t \in Threads, ScanStep(t)  PROVE LimitInv'
  <2>1. UNCHANGED recent  BY <1>1 DEF ScanStep, Detect, Count, Kill, limitVars
  <2>2. \E w \in {"idle", "count", "health", "kill", "limit"} : pc' = [pc EXCEPT ![t] = w]
        BY <1>1 DEF ScanStep, Detect, Count, Kill, NoRestart
  <2>3. QED  BY <2>1, <2>2, Keeps
<1>2. ASSUME NEW t \in Threads, Permit(t)  PROVE LimitInv'
  <2>1. recent < MaxPerHour /\ UNCHANGED recent /\ pc[t] = "limit"
        BY <1>2 DEF Permit, Allowed, limitVars
  <2>2. PCType'  BY <1>2, Moves DEF Permit, LimitInv, Places
  <2>3. UnderWay("watchdog")' + UnderWay("cleanup")' + UnderWay("loop")' <= 3
        BY DEF UnderWay
  <2>4. QED  BY <2>1, <2>2, <2>3, <1>0 DEF LimitInv, Committed
<1>3. ASSUME NEW t \in Threads, Sanitize(t)  PROVE LimitInv'
  <2>1. UNCHANGED recent  BY <1>3 DEF Sanitize, limitVars
  <2>2. PCType' /\ UnderWay(t)' = 1 /\ \A u \in Threads \ {t} : UnderWay(u)' = UnderWay(u)
        BY <1>3, Moves DEF Sanitize, LimitInv, Places
  <2>3. UnderWay(t) = 1  BY <1>3 DEF Sanitize, UnderWay
  <2>4. UnderWay("watchdog")' = UnderWay("watchdog") /\ UnderWay("cleanup")' = UnderWay("cleanup")
            /\ UnderWay("loop")' = UnderWay("loop")
        BY <2>2, <2>3 DEF Threads, Scanners
  <2>5. QED  BY <2>1, <2>2, <2>4, <1>0 DEF LimitInv, Committed
<1>4. ASSUME NEW t \in Threads, Deny(t)  PROVE LimitInv'
  <2>1. UNCHANGED recent  BY <1>4 DEF Deny, limitVars
  <2>2. \E w \in {"idle", "health"} : pc' = [pc EXCEPT ![t] = w]
        BY <1>4, FinishMoves DEF Deny
  <2>3. QED  BY <2>1, <2>2, Keeps
<1>5. ASSUME NEW t \in Threads, SanitizeFails(t) \/ RestartFails(t)  PROVE LimitInv'
  <2>1. UNCHANGED recent  BY <1>5 DEF SanitizeFails, RestartFails, limitVars
  <2>2. \E w \in {"idle", "health"} : pc' = [pc EXCEPT ![t] = w]
        BY <1>5, FinishMoves DEF SanitizeFails, RestartFails
  <2>3. QED  BY <2>1, <2>2, Keeps
<1>6. ASSUME NEW t \in Threads, Restart(t)  PROVE LimitInv'
  <2>1. pc[t] = "restart" /\ (recent' = recent + 1 \/ UNCHANGED recent)
        BY <1>6 DEF Restart, Enter, limitVars
  <2>2. \E w \in {"idle", "health"} : pc' = [pc EXCEPT ![t] = w]
        BY <1>6, FinishMoves DEF Restart
  <2>3. PCType' /\ UnderWay("watchdog")' + UnderWay("cleanup")' + UnderWay("loop")' + 1
                    = UnderWay("watchdog") + UnderWay("cleanup") + UnderWay("loop")
        BY <2>1, <2>2, Ends
  <2>4. QED  BY <2>1, <2>3, <1>0 DEF LimitInv, Committed
<1>7. ASSUME WatchStep  PROVE LimitInv'
  <2>1. UNCHANGED recent  BY <1>7 DEF WatchStep, ProbeHealth, JudgeUp, JudgeDown, limitVars
  <2>2. \E w \in {"idle", "judge", "limit"} : pc' = [pc EXCEPT !["watchdog"] = w]
        BY <1>7 DEF WatchStep, ProbeHealth, JudgeUp, JudgeDown
  <2>3. QED  BY <2>1, <2>2, Keeps DEF Threads, Scanners
<1>8. ASSUME RequestRecovers  PROVE LimitInv'
  <2>1. UNCHANGED recent  BY <1>8 DEF RequestRecovers, limitVars
  <2>2. pc' = [pc EXCEPT !["loop"] = "limit"]  BY <1>8 DEF RequestRecovers
  <2>3. QED  BY <2>1, <2>2, Keeps DEF Threads
<1>9. ASSUME EnvStep  PROVE LimitInv'
  <2>0. recent \in Nat  BY DEF LimitInv
  <2>1. UNCHANGED pc  BY <1>9 DEF EnvStep, LogstashTurns, StormTurns, AllocateTurns,
                                  CooldownOver, HourPasses
  <2>2. UNCHANGED recent \/ (recent > 0 /\ recent' = recent - 1)
        BY <1>9 DEF EnvStep, LogstashTurns, StormTurns, AllocateTurns, CooldownOver, HourPasses,
                    limitVars
  <2>3. recent' \in Nat /\ recent' <= recent  BY <2>0, <2>2
  <2>4. PCType' /\ \A u : UnderWay(u)' = UnderWay(u)  BY <2>1 DEF LimitInv, PCType, UnderWay
  <2>5. QED  BY <2>3, <2>4, <1>0 DEF LimitInv, Committed
<1>10. ASSUME UNCHANGED svars  PROVE LimitInv'
  BY <1>10 DEF svars, limitVars, LimitInv, Committed, PCType, UnderWay
<1>11. QED
  BY <1>1, <1>2, <1>3, <1>4, <1>5, <1>6, <1>7, <1>8, <1>9, <1>10 DEF SNext, RecoverStep

\* At most MaxPerHour recoveries, plus one for each other thread that was allowed before
\* the last of them was entered, are entered in an hour: _recovery_allowed and the append
\* to _recovery_times are not one step.  A recovery whose entry another thread's prune
\* overwrote is not among them.
THEOREM RecoveryLimit == SSpec => []RecoveriesBounded
<1>1. LimitInv => RecoveriesBounded
  <2>1. \A u : UnderWay(u) \in Nat  BY DEF UnderWay
  <2>2. QED  BY <2>1 DEF LimitInv, Committed, RecoveriesBounded
<1>2. QED  BY <1>1, LimitInit, LimitStep, PTL DEF SSpec
-----------------------------------------------------------------------------
\* Types.  The count of failures stays within its bound because the third one hands
\* it to the recovery, which the watchdog does not leave without clearing it.

ThirdFailure ==
    failures = MaxFailures =>
        pc["watchdog"] \in {"limit", "sanitize", "restart"} /\ cause["watchdog"] = "health"

SInv == STypeOK /\ ThirdFailure

LEMMA ThreadSets ==
    /\ Scanners \subseteq Threads /\ "watchdog" \in Scanners
    /\ "watchdog" \in Threads /\ "loop" \in Threads
BY DEF Threads, Scanners

LEMMA SInitInv == SInit => SInv
  <1> SUFFICES ASSUME SInit PROVE SInv
    OBVIOUS
  <1>1. /\ hits \in [Dests -> 0..Confirmations]
        /\ failures \in 0..MaxFailures /\ failures # MaxFailures
    BY ConfirmationsAssumption DEF SInit, MaxFailures
  <1>2. /\ pc \in [Threads -> {"idle", "count", "health", "judge"} \cup Recovering]
        /\ seen \in [Scanners -> SUBSET Dests]
        /\ cause \in [Threads -> {"none", "storm", "health", "request"}]
    BY DEF SInit
  <1> QED BY <1>1, <1>2 DEF SInit, SInv, STypeOK, ThirdFailure

LEMMA ScanKeeps ==
    ASSUME SInv, NEW t \in Threads, ScanStep(t)
    PROVE  SInv'
  <1> USE ThreadSets DEF SInv, STypeOK, ThirdFailure, Recovering, MaxFailures, envVars, dogVars, limitVars
  <1>1. CASE Detect(t)
    <2>1. hits' \in [Dests -> 0..Confirmations] /\ seen' \in [Scanners -> SUBSET Dests]
      BY <1>1, ConfirmationsAssumption DEF Detect
    <2>2. PICK w \in {"health", "idle", "count"} : pc' = [pc EXCEPT ![t] = w]
      BY <1>1 DEF Detect, NoRestart
    <2>3. failures # MaxFailures \/ t # "watchdog"
      BY <1>1 DEF Detect
    <2> QED BY <1>1, <2>1, <2>2, <2>3 DEF Detect
  <1>2. CASE Count(t)
    <2>1. hits' \in [Dests -> 0..Confirmations]
      <3> SUFFICES Counted(t) \in [Dests -> 0..Confirmations]
        BY <1>2 DEF Count
      <3> SUFFICES ASSUME NEW d \in Dests
                   PROVE  (IF d \in seen[t] \ held
                           THEN IF hits[d] < Confirmations THEN hits[d] + 1 ELSE Confirmations
                           ELSE 0) \in 0..Confirmations
        BY DEF Counted
      <3>1. hits[d] \in 0..Confirmations
        OBVIOUS
      <3> QED BY <3>1, ConfirmationsAssumption
    <2>2. seen' \in [Scanners -> SUBSET Dests] /\ since' \in BOOLEAN
      BY <1>2 DEF Count
    <2>3. PICK w \in {"health", "idle", "kill"} : pc' = [pc EXCEPT ![t] = w]
      BY <1>2 DEF Count, NoRestart
    <2>4. \E c \in {cause[t], "storm"} : cause' = [cause EXCEPT ![t] = c]
      BY <1>2 DEF Count
    <2>5. failures # MaxFailures \/ t # "watchdog"
      BY <1>2 DEF Count
    <2> QED BY <1>2, <2>1, <2>2, <2>3, <2>4, <2>5 DEF Count
  <1>3. CASE Kill(t)
    BY <1>3 DEF Kill
  <1> QED BY <1>1, <1>2, <1>3 DEF ScanStep

LEMMA FinishKeeps ==
    ASSUME SInv, NEW t \in Threads, NEW b \in BOOLEAN, Finish(t, b),
           UNCHANGED <<storms, held, since, probe, seen>>,
           ls' \in {"up", "stunned", "down"}, recent' \in Nat, cooling' \in BOOLEAN
    PROVE  SInv'
  <1> USE ThreadSets DEF SInv, STypeOK, ThirdFailure, Recovering, MaxFailures
  <1>1. hits' \in [Dests -> 0..Confirmations]
    BY ConfirmationsAssumption DEF Finish
  <1>2. PICK w \in {"idle", "health"} : pc' = [pc EXCEPT ![t] = w]
    BY FinishMoves
  <1>3. cause' = [cause EXCEPT ![t] = "none"]
    BY DEF Finish
  <1>4. failures' \in {0, failures}
    BY DEF Finish
  <1>5. t = "watchdog" => failures' # MaxFailures
    BY DEF Finish
  <1> QED BY <1>1, <1>2, <1>3, <1>4, <1>5

LEMMA RecoverKeeps ==
    ASSUME SInv, NEW t \in Threads, RecoverStep(t)
    PROVE  SInv'
  <1> USE DEF envVars, dogVars, limitVars
  <1>0. /\ ls \in {"up", "stunned", "down"} /\ recent \in Nat /\ recent + 1 \in Nat
        /\ cooling \in BOOLEAN
    BY DEF SInv, STypeOK
  <1>1. CASE Permit(t) \/ Sanitize(t)
    BY <1>1, ThreadSets DEF Permit, Sanitize, SInv, STypeOK, ThirdFailure, Recovering
  <1>2. CASE Deny(t)
    BY <1>0, <1>2, FinishKeeps DEF Deny
  <1>3. CASE SanitizeFails(t)
    BY <1>0, <1>3, FinishKeeps DEF SanitizeFails
  <1>4. CASE Restart(t)
    BY <1>0, <1>4, FinishKeeps DEF Restart, Enter
  <1>5. CASE RestartFails(t)
    BY <1>0, <1>5, FinishKeeps DEF RestartFails
  <1> QED BY <1>1, <1>2, <1>3, <1>4, <1>5 DEF RecoverStep

LEMMA SStep == SInv /\ [SNext]_svars => SInv'
  <1> SUFFICES ASSUME SInv, [SNext]_svars PROVE SInv'
    OBVIOUS
  <1> USE DEF envVars, dogVars, limitVars
  <1>1. ASSUME NEW t \in Threads, ScanStep(t) \/ RecoverStep(t) PROVE SInv'
    BY <1>1, ScanKeeps, RecoverKeeps
  <1>2. CASE ProbeHealth \/ JudgeUp
    <2>1. /\ pc' \in [Threads -> {"idle", "count", "health", "judge"} \cup Recovering]
          /\ failures' \in 0..MaxFailures /\ failures' # MaxFailures
      BY <1>2, ThreadSets
      DEF ProbeHealth, JudgeUp, SInv, STypeOK, ThirdFailure, MaxFailures
    <2>2. probe' \in {"none", "up", "down"} /\ since' \in BOOLEAN
      BY <1>2 DEF ProbeHealth, JudgeUp, SInv, STypeOK
    <2>3. UNCHANGED <<ls, storms, held, hits, recent, cooling, seen, cause>>
      BY <1>2 DEF ProbeHealth, JudgeUp
    <2> QED BY <2>1, <2>2, <2>3 DEF SInv, STypeOK, ThirdFailure
  <1>3. CASE JudgeDown
    <2>1. failures \in 0..2
      BY <1>3 DEF JudgeDown, SInv, STypeOK, ThirdFailure, MaxFailures
    <2>2. /\ failures' \in 0..MaxFailures
          /\ pc' \in [Threads -> {"idle", "count", "health", "judge"} \cup Recovering]
          /\ cause' \in [Threads -> {"none", "storm", "health", "request"}]
      BY <1>3, <2>1, ThreadSets DEF JudgeDown, SInv, STypeOK, Recovering, MaxFailures
    <2>3. ThirdFailure'
      <3>1. CASE failures + 1 < MaxFailures
        BY <1>3, <2>1, <3>1 DEF JudgeDown, ThirdFailure, MaxFailures
      <3>2. CASE ~(failures + 1 < MaxFailures)
        <4>1. pc'["watchdog"] = "limit" /\ cause'["watchdog"] = "health"
          BY <1>3, <3>2, ThreadSets DEF JudgeDown, SInv, STypeOK
        <4> QED BY <4>1 DEF ThirdFailure
      <3> QED BY <3>1, <3>2
    <2>4. /\ probe' = "none" /\ since' = FALSE
          /\ UNCHANGED <<ls, storms, held, hits, recent, cooling, seen>>
      BY <1>3 DEF JudgeDown
    <2> QED BY <2>2, <2>3, <2>4 DEF SInv, STypeOK
  <1>4. CASE RequestRecovers
    BY <1>4, ThreadSets DEF RequestRecovers, SInv, STypeOK, ThirdFailure, Recovering, MaxFailures
  <1>5. CASE EnvStep
    <2> DEFINE Typed ==
          /\ ls' \in {"up", "stunned", "down"} /\ storms' \in SUBSET Dests /\ held' \in SUBSET Dests
          /\ recent' \in Nat /\ cooling' \in BOOLEAN
    <2>1. Typed
      <3> USE DEF SInv, STypeOK
      <3>1. ASSUME NEW to \in {"up", "stunned", "down"}, LogstashTurns(to) PROVE Typed
        BY <3>1 DEF LogstashTurns
      <3>2. ASSUME NEW d \in Dests, StormTurns(d) \/ AllocateTurns(d) PROVE Typed
        BY <3>2 DEF StormTurns, AllocateTurns
      <3>3. CASE CooldownOver
        BY <3>3 DEF CooldownOver
      <3>4. CASE HourPasses
        <4>1. recent - 1 \in Nat
          BY <3>4 DEF HourPasses
        <4> QED BY <3>4, <4>1 DEF HourPasses
      <3> QED BY <1>5, <3>1, <3>2, <3>3, <3>4 DEF EnvStep
    <2>2. UNCHANGED <<hits, since, failures, probe, pc, seen, cause>>
      BY <1>5 DEF EnvStep, LogstashTurns, StormTurns, AllocateTurns, CooldownOver, HourPasses
    <2> QED BY <2>1, <2>2 DEF SInv, STypeOK, ThirdFailure
  <1>6. CASE UNCHANGED svars
    BY <1>6 DEF svars, SInv, STypeOK, ThirdFailure
  <1> QED BY <1>1, <1>2, <1>3, <1>4, <1>5, <1>6 DEF SNext, WatchStep

\* The types of the recovery's state, for every bound: no counter runs past its
\* threshold, though the scanners share the storm counts and recoveries of other
\* threads fall between the watchdog's probes.
THEOREM RecoveryTypes == SSpec => []STypeOK
  <1>1. SInv => STypeOK
    BY DEF SInv
  <1> QED BY <1>1, SInitInv, SStep, PTL DEF SSpec

=============================================================================
