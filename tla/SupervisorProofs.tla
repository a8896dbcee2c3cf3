-------------------------- MODULE SupervisorProofs --------------------------
(* Proofs about the supervisor, for any services, calls, number of resets  *)
(* and admission policy that satisfies AdmissionAssumption; about the      *)
(* gateway that calls it; and about the scheduler that admits for it, for  *)
(* any configuration that passes validation.                               *)
EXTENDS GatewayLeases, ResourceScheduler, FiniteSetTheorems, TLAPS

\* The handler states in which a call owns transition_lock.
LockStates == {"sweeping", "stopping", "retry", "starting", "loading"}

\* What the position of a call says about the call.
CallInv ==
  \A r \in Requests :
    /\ task[r] \in {"arrived", "check", "waiting"} =>
         Starts(r) /\ (Service[r] \in GpuServices \/ r \in Acquires)
    /\ task[r] \in {"lock"} \cup LockStates /\ Starts(r) => Service[r] \in GpuServices
    /\ task[r] \in {"retry", "starting", "loading"} => Starts(r)

TypeInv == TypeOK /\ CallInv

\* The maps a fresh supervisor starts from.
LEMMA FreshMaps ==
  /\ [r \in Requests |-> 0] \in [Requests -> 0..MaxEpoch]
  /\ [r \in Requests |-> {}] \in [Requests -> SUBSET Acquires]
<1>1. 0 \in 0..MaxEpoch
  BY RequestsAssumption
<1>2. {} \in SUBSET Acquires
  OBVIOUS
<1> QED
  BY <1>1, <1>2

\* The supervisor starts with its variables in their types.
LEMMA TypeInvInit == Init => TypeInv
<1> USE ServicesAssumption, RequestsAssumption DEF Init
<1>1. ASSUME Init PROVE TypeOK
<2>1. ahead \in [Requests -> SUBSET Acquires] /\ started_epoch \in [Requests -> 0..MaxEpoch]
  BY <1>1, FreshMaps
<2>2. lease_epoch \in 0..MaxEpoch
  BY <1>1
<2> QED
  BY <1>1, <2>1, <2>2 DEF TypeOK, TaskStates, IdleStates
<1>2. ASSUME Init PROVE CallInv
  BY <1>2 DEF CallInv, LockStates
<1> QED
  BY <1>1, <1>2 DEF TypeInv

\* Every step keeps the types; the retry counter is the delicate part.
LEMMA TypeInvNext == TypeInv /\ [Next]_vars => TypeInv'
<1> SUFFICES ASSUME TypeInv, [Next]_vars PROVE TypeInv'
  OBVIOUS
<1> USE ServicesAssumption, RequestsAssumption DEF TypeInv, TypeOK, CallInv, TaskStates,
      IdleStates, LockStates, Kinds, Acquires, Starts, Exclusive, Goto, Notified,
      leaseVars, queueVars, epochVars, lockVars, holderVars, dockerVars, resetVars, restVars
<1>1. ASSUME NEW r \in Requests, Arrive(r) PROVE TypeInv'
  BY <1>1 DEF Arrive, CancelIdle
<1>2. ASSUME NEW r \in Requests, CheckBlocked(r) PROVE TypeInv'
  BY <1>2 DEF CheckBlocked
<1>3. ASSUME NEW r \in Requests, CheckGpu(r) PROVE TypeInv'
  BY <1>3 DEF CheckGpu
<1>4. ASSUME NEW r \in Requests, CheckCpu(r) PROVE TypeInv'
  BY <1>4 DEF CheckCpu, Grant
<1>5. ASSUME NEW r \in Requests, TakeLock(r) PROVE TypeInv'
  BY <1>5 DEF TakeLock, ToStop
<1>6. ASSUME NEW r \in Requests, NEW o \in Services, SweepNext(r, o) PROVE TypeInv'
  BY <1>6 DEF SweepNext, AskStop
<1>7. ASSUME NEW r \in Requests, NEW o \in Services, SweepUnreadable(r, o) PROVE TypeInv'
  BY <1>7 DEF SweepUnreadable, Fault
<1>8. ASSUME NEW r \in Requests, StopReturns(r) PROVE TypeInv'
  BY <1>8 DEF StopReturns
<1>9. ASSUME NEW r \in Requests, SweepEnds(r) PROVE TypeInv'
  BY <1>9 DEF SweepEnds, Unlock, ResetHolder
<1>10. ASSUME NEW r \in Requests, StartContainer(r) PROVE TypeInv'
  BY <1>10 DEF StartContainer
<1>11. ASSUME NEW r \in Requests, StartReturns(r) PROVE TypeInv'
  BY <1>11 DEF StartReturns
<1>12. ASSUME NEW r \in Requests, ReadyEnsure(r) PROVE TypeInv'
  BY <1>12 DEF ReadyEnsure, ResetHolder
<1>13. ASSUME NEW r \in Requests, ReadyGrant(r) PROVE TypeInv'
  BY <1>13 DEF ReadyGrant, Grant, Unlock, ResetHolder
<1>14. ASSUME NEW r \in Requests, ReadyStale(r) PROVE TypeInv'
  BY <1>14 DEF ReadyStale, Fail, Unlock, ResetHolder
<1>15. ASSUME NEW r \in Requests, StartupExit(r) PROVE TypeInv'
  BY <1>15 DEF StartupExit, RetriesLeft, Fail, Unlock, ResetHolder
<1>16. ASSUME NEW r \in Requests, StartupTimeout(r) PROVE TypeInv'
  BY <1>16 DEF StartupTimeout, Fail, Unlock, ResetHolder
<1>17. ASSUME NEW r \in Requests, DockerFails(r) PROVE TypeInv'
  BY <1>17 DEF DockerFails, Fault, Fail, Unlock, ResetHolder
<1>18. ASSUME NEW r \in Requests, Release(r) PROVE TypeInv'
  BY <1>18 DEF Release, ScheduleIdle
<1>19. CASE ResetLeases
  BY <1>19 DEF ResetLeases
<1>20. CASE ResetReads
  BY <1>20 DEF ResetReads, Running
<1>21. CASE ResetSchedules
  BY <1>21 DEF ResetSchedules, ScheduleIdle
<1>22. ASSUME NEW s \in Services, IdleFires(s) PROVE TypeInv'
  BY <1>22 DEF IdleFires
<1>23. ASSUME NEW s \in Services, IdleTakesLock(s) PROVE TypeInv'
  BY <1>23 DEF IdleTakesLock, AskStop
<1>24. ASSUME NEW s \in Services, IdleStopEnds(s) PROVE TypeInv'
  BY <1>24 DEF IdleStopEnds, CancelIdle, Fault
<1>25. ASSUME NEW s \in Services, IdleUnreadable(s) PROVE TypeInv'
  BY <1>25 DEF IdleUnreadable, Fault
<1>26. ASSUME NEW s \in Services, DockerStarts(s) \/ DockerStops(s) \/ ContainerCrash(s)
       PROVE TypeInv'
  BY <1>26 DEF DockerStarts, DockerStops, ContainerCrash
<1>27. CASE Restart
<2>1. task' \in [Requests -> TaskStates] /\ idle' \in [Services -> IdleStates]
  BY <1>27 DEF Restart
<2>2. CallInv'
  BY <1>27 DEF Restart
<2>3. ahead' \in [Requests -> SUBSET Acquires] /\ started_epoch' \in [Requests -> 0..MaxEpoch]
  BY <1>27, FreshMaps DEF Restart
<2>4. lease_epoch' \in 0..MaxEpoch
  BY <1>27 DEF Restart
<2>5. faulted' \in BOOLEAN
  BY <1>27 DEF Restart, Fault
<2> QED
  BY <1>27, <2>1, <2>2, <2>3, <2>4, <2>5 DEF Restart, ResetHolder
<1>28. CASE UNCHANGED vars
  BY <1>28 DEF vars
<1> QED
  BY <1>1, <1>2, <1>3, <1>4, <1>5, <1>6, <1>7, <1>8, <1>9, <1>10, <1>11, <1>12, <1>13, <1>14,
     <1>15, <1>16, <1>17, <1>18, <1>19, <1>20, <1>21, <1>22, <1>23, <1>24, <1>25, <1>26, <1>27,
     <1>28 DEF Next, EventLoop, Background, Handler, Loaded, IdleTask

\* The supervisor's variables keep their types.
THEOREM TypeCorrect == Spec => []TypeOK
<1>1. TypeInv => TypeOK
  BY DEF TypeInv
<1> QED
  BY TypeInvInit, TypeInvNext, <1>1, PTL DEF Spec
-----------------------------------------------------------------------------
(* Control: who owns transition_lock, who holds a lease, what is launching *)

\* A call owns transition_lock exactly in the states in between; the event
\* loop is inside one handler at a time.
LockInv ==
  /\ \A r \in Requests : transition_lock = r <=> task[r] \in LockStates
  /\ \A q, r \in Requests : Inside(q) /\ Inside(r) => q = r

\* Starting comes after the sweep; the service that is being stopped is still
\* to be swept; a CPU service is swept alone.
SweepInv ==
  /\ \A r \in Requests : task[r] \in {"retry", "starting", "loading"} => sweep = {}
  /\ \A r \in Requests : task[r] = "stopping" => target \in sweep
  /\ \A o \in sweep : o \notin GpuServices => sweep = {o}

HeldInv == \A r \in active_leases : task[r] = "held"

\* While docker-control does not fail, every container being started has a
\* call that awaits it.
LaunchInv ==
  ~faulted => \A s \in launching : \E r \in Requests : task[r] = "starting" /\ Service[r] = s

ControlInv == TypeInv /\ LockInv /\ SweepInv /\ HeldInv /\ LaunchInv

\* A fresh supervisor satisfies what the control flow guarantees.
LEMMA ControlInvInit == Init => ControlInv
<1>1. ASSUME Init PROVE LockInv /\ SweepInv /\ HeldInv /\ LaunchInv
  BY <1>1, ServicesAssumption
     DEF Init, LockInv, SweepInv, HeldInv, LaunchInv, LockStates, Inside
<1> QED
  BY <1>1, TypeInvInit DEF ControlInv

\* ControlInv is inductive: only the holder of transition_lock sweeps, launches
\* and polls, and gives the lock up when it leaves.
LEMMA ControlInvNext == ControlInv /\ [Next]_vars => ControlInv'
<1> SUFFICES ASSUME ControlInv, [Next]_vars PROVE LockInv' /\ SweepInv' /\ HeldInv' /\ LaunchInv'
  BY TypeInvNext DEF ControlInv
<1> DEFINE Goal == LockInv' /\ SweepInv' /\ HeldInv' /\ LaunchInv'
<1> USE ServicesAssumption, RequestsAssumption
      DEF ControlInv, LockInv, SweepInv, HeldInv, LaunchInv, TypeInv, TypeOK, CallInv,
      TaskStates, LockStates, Kinds, Inside, Acquires, Starts, Exclusive, Goto, Notified,
      leaseVars, queueVars, epochVars, lockVars, holderVars, dockerVars, resetVars, restVars
<1>1. ASSUME NEW r \in Requests, Arrive(r), ~Busy PROVE Goal
  BY <1>1 DEF Arrive, CancelIdle, Inside, Busy
<1>2. ASSUME NEW r \in Requests, CheckBlocked(r) PROVE Goal
  BY <1>2 DEF CheckBlocked
<1>3. ASSUME NEW r \in Requests, CheckGpu(r) PROVE Goal
  BY <1>3 DEF CheckGpu
<1>4. ASSUME NEW r \in Requests, CheckCpu(r) PROVE Goal
  BY <1>4 DEF CheckCpu, Grant
<1>5. ASSUME NEW r \in Requests, TakeLock(r), ~Busy PROVE Goal
  BY <1>5 DEF TakeLock, ToStop, Busy
<1>6. ASSUME NEW r \in Requests, NEW o \in Services, SweepNext(r, o) PROVE Goal
  BY <1>6 DEF SweepNext, AskStop
<1>7. ASSUME NEW r \in Requests, NEW o \in Services, SweepUnreadable(r, o) PROVE Goal
  BY <1>7 DEF SweepUnreadable, Fault
<1>8. ASSUME NEW r \in Requests, StopReturns(r), ~Busy PROVE Goal
  BY <1>8 DEF StopReturns, Busy
<1>9. ASSUME NEW r \in Requests, SweepEnds(r) PROVE Goal
  BY <1>9 DEF SweepEnds, Unlock, ResetHolder
<1>10. ASSUME NEW r \in Requests, StartContainer(r) PROVE Goal
  BY <1>10 DEF StartContainer
<1>11. ASSUME NEW r \in Requests, StartReturns(r) PROVE Goal
  BY <1>11 DEF StartReturns
<1>12. ASSUME NEW r \in Requests, ReadyEnsure(r) PROVE Goal
  BY <1>12 DEF ReadyEnsure, ResetHolder
<1>13. ASSUME NEW r \in Requests, ReadyGrant(r) PROVE Goal
  BY <1>13 DEF ReadyGrant, Grant, Unlock, ResetHolder
<1>14. ASSUME NEW r \in Requests, ReadyStale(r) PROVE Goal
  BY <1>14 DEF ReadyStale, Fail, Unlock, ResetHolder
<1>15. ASSUME NEW r \in Requests, StartupExit(r) PROVE Goal
  BY <1>15 DEF StartupExit, Fail, Unlock, ResetHolder
<1>16. ASSUME NEW r \in Requests, StartupTimeout(r) PROVE Goal
  BY <1>16 DEF StartupTimeout, Fail, Unlock, ResetHolder
<1>17. ASSUME NEW r \in Requests, DockerFails(r) PROVE Goal
  BY <1>17 DEF DockerFails, Fault, Fail, Unlock, ResetHolder
<1>18. ASSUME NEW r \in Requests, Release(r) PROVE Goal
  BY <1>18 DEF Release, ScheduleIdle
<1>19. ASSUME ResetLeases PROVE Goal
  BY <1>19 DEF ResetLeases
<1>20. ASSUME ResetReads PROVE Goal
  BY <1>20 DEF ResetReads
<1>21. ASSUME ResetSchedules PROVE Goal
  BY <1>21 DEF ResetSchedules, ScheduleIdle
<1>22. ASSUME NEW s \in Services, IdleFires(s) PROVE Goal
  BY <1>22 DEF IdleFires
<1>23. ASSUME NEW s \in Services, IdleTakesLock(s) PROVE Goal
  BY <1>23 DEF IdleTakesLock, AskStop
<1>24. ASSUME NEW s \in Services, IdleStopEnds(s) PROVE Goal
  BY <1>24 DEF IdleStopEnds, CancelIdle, Fault
<1>25. ASSUME NEW s \in Services, IdleUnreadable(s) PROVE Goal
  BY <1>25 DEF IdleUnreadable, Fault
<1>26. ASSUME NEW s \in Services, DockerStarts(s) \/ DockerStops(s) \/ ContainerCrash(s)
       PROVE Goal
  BY <1>26 DEF DockerStarts, DockerStops, ContainerCrash
<1>27. ASSUME Restart PROVE Goal
  BY <1>27 DEF Restart, Fault, ResetHolder
<1>28. ASSUME UNCHANGED vars PROVE Goal
  BY <1>28 DEF vars
<1>29. ASSUME NEW r \in Requests, Inside(r), TakeLock(r) \/ StopReturns(r) PROVE FALSE
  BY <1>29 DEF TakeLock, StopReturns
<1> HIDE DEF Goal, ControlInv, LockInv, SweepInv, HeldInv, LaunchInv, TypeInv, TypeOK, CallInv,
      TaskStates, LockStates, Kinds, Inside, Acquires, Starts, Exclusive, Goto, Notified,
      leaseVars, queueVars, epochVars, lockVars, holderVars, dockerVars, resetVars, restVars
<1>30. ASSUME NEW r \in Requests, Inside(r) \/ ~Busy, Handler(r) PROVE Goal
  BY <1>30, <1>2, <1>3, <1>4, <1>5, <1>6, <1>7, <1>8, <1>9, <1>10, <1>11, <1>12, <1>13, <1>14,
     <1>15, <1>16, <1>17, <1>29, Zenon DEF Handler, Loaded
<1>31. ASSUME ~Busy, EventLoop PROVE Goal
<2>1. CASE \E r \in Requests : Arrive(r) \/ Handler(r) \/ Release(r)
  BY <1>31, <2>1, <1>1, <1>18, <1>30, Zenon
<2>2. CASE \E s \in Services : IdleTask(s)
  BY <2>2, <1>22, <1>23, <1>24, <1>25, Zenon DEF IdleTask
<2> QED
  BY <1>31, <2>1, <2>2, <1>19, <1>21, Zenon DEF EventLoop
<1> QED
  BY <1>20, <1>26, <1>27, <1>28, <1>30, <1>31, Zenon DEF Next, Background, Goal
-----------------------------------------------------------------------------
(* Leases: what the guards established still holds at the grant            *)

\* The leased GPU services fit, also with the service of the call that holds
\* transition_lock: a GPU lease is granted under transition_lock only.
FitInv ==
  /\ Fits(LeasedGpu)
  /\ \A r \in Requests : Starts(r) /\ transition_lock = r => Fits(LeasedGpu \cup {Service[r]})

\* The holder of transition_lock may still join the leases of its service.
ExclInv ==
  /\ active_exclusive_leases = {r \in active_leases : Exclusive(r)}
  /\ ExclusiveIsolation
  /\ \A r \in Acquires : transition_lock = r =>
       /\ LeasesOn(Service[r]) \cap active_exclusive_leases = {}
       /\ Exclusive(r) => LeasesOn(Service[r]) = {}

\* What the holder is still to stop has no lease, unless it is passed over or,
\* a CPU service, is being stopped already.
HaltInv ==
  \A r \in Requests : \A o \in sweep :
    /\ transition_lock = r
    /\ o \in GpuServices \/ task[r] = "sweeping"
    /\ ~(Starts(r) /\ Mode = "resource")
    => o \notin Leased
-----------------------------------------------------------------------------
\* A smaller set of GPU services fits too.
LEMMA FitsShrinks ==
  ASSUME NEW S \in SUBSET GpuServices, NEW T \in SUBSET S, Fits(S)
  PROVE  Fits(T)
BY AdmissionAssumption

\* With fewer leases, fewer services are leased.
LEMMA LeasesShrink ==
  ASSUME active_leases' \subseteq active_leases
  PROVE  /\ \A s : LeasesOn(s)' \subseteq LeasesOn(s)
         /\ Leased' \subseteq Leased
         /\ LeasedGpu' \subseteq LeasedGpu
BY DEF LeasesOn, Leased, LeasedGpu

\* A grant leases the service of its call and no other.
LEMMA LeasesGrow ==
  ASSUME NEW r \in Requests, active_leases' = active_leases \cup {r}
  PROVE  /\ \A s : LeasesOn(s)' = IF s = Service[r] THEN LeasesOn(s) \cup {r} ELSE LeasesOn(s)
         /\ Leased' = Leased \cup {Service[r]}
         /\ LeasedGpu' = IF Service[r] \in GpuServices THEN LeasedGpu \cup {Service[r]}
                                                       ELSE LeasedGpu
<1>1. \A s : LeasesOn(s)' = IF s = Service[r] THEN LeasesOn(s) \cup {r} ELSE LeasesOn(s)
  BY DEF LeasesOn
<1>2. Service[r] \in Services
  BY RequestsAssumption
<1>3. Leased' = Leased \cup {Service[r]}
  BY <1>1, <1>2 DEF Leased
<1> QED
  BY <1>1, <1>3 DEF LeasedGpu

\* An acquire that is not blocked may join the leases there are.
LEMMA UnblockedFits ==
  ASSUME NEW r \in Requests, Service[r] \in GpuServices, ~Blocked(r), Fits(LeasedGpu)
  PROVE  Fits(LeasedGpu \cup {Service[r]})
<1>1. LeasedGpu \in SUBSET GpuServices
  BY DEF LeasedGpu
<1>2. Admit(Service[r], LeasedGpu)
  BY DEF Blocked
<1> QED
  BY <1>1, <1>2, AdmissionAssumption

LeaseInv == FitInv /\ ExclInv

\* A step that grants nothing, gives transition_lock to no call and adds
\* nothing to what its holder is to stop.
Quiet ==
  /\ active_leases' \subseteq active_leases
  /\ active_exclusive_leases' = active_exclusive_leases \cap active_leases'
  /\ \A r \in Requests : transition_lock' = r =>
       /\ transition_lock = r
       /\ sweep' \subseteq sweep
       /\ task'[r] = "sweeping" => task[r] = "sweeping" \/ StopReturns(r)

\* A step that grants nothing and opens no new exclusive acquire keeps LeaseInv:
\* leases only shrink, and a call still between its guard and its grant stays safe.
LEMMA QuietKeepsLeaseInv == ControlInv /\ LeaseInv /\ Quiet => LeaseInv'
<1> SUFFICES ASSUME ControlInv, LeaseInv, Quiet PROVE LeaseInv'
  OBVIOUS
<1>1. /\ \A s : LeasesOn(s)' \subseteq LeasesOn(s)
      /\ LeasedGpu' \subseteq LeasedGpu
  BY LeasesShrink DEF Quiet
<1>2. LeasedGpu \in SUBSET GpuServices
  BY DEF LeasedGpu
<1>3. FitInv'
<2>1. Fits(LeasedGpu')
  BY <1>1, <1>2, FitsShrinks DEF LeaseInv, FitInv
<2>2. ASSUME NEW r \in Requests, Starts(r), transition_lock' = r
      PROVE  Fits(LeasedGpu' \cup {Service[r]})
<3>1. transition_lock = r
  BY <2>2 DEF Quiet
<3>2. Service[r] \in GpuServices
  BY <3>1, <2>2 DEF ControlInv, LockInv, TypeInv, CallInv, LockStates
<3>3. Fits(LeasedGpu \cup {Service[r]})
  BY <3>1, <2>2 DEF LeaseInv, FitInv
<3> QED
  BY <1>1, <1>2, <3>2, <3>3, FitsShrinks
<2> QED
  BY <2>1, <2>2 DEF FitInv, Starts
<1>4. ExclInv'
  BY <1>1 DEF LeaseInv, ExclInv, ExclusiveIsolation, Quiet, LeasesOn, Exclusive, Acquires,
     ControlInv, TypeInv, TypeOK
<1> QED
  BY <1>3, <1>4 DEF LeaseInv

\* Only an acquire that is granted, or that takes transition_lock, is not quiet.
LEMMA QuietSteps ==
  ControlInv /\ LeaseInv /\ [Next]_vars =>
    \/ Quiet
    \/ \E r \in Requests : CheckCpu(r) /\ Grant(r) /\ (Inside(r) \/ ~Busy)
    \/ \E r \in Requests : TakeLock(r) /\ ~Refused(r)
    \/ \E r \in Requests : ReadyGrant(r)
<1> SUFFICES ASSUME ControlInv, LeaseInv, [Next]_vars,
                    \A r \in Requests : ~(CheckCpu(r) /\ Grant(r) /\ (Inside(r) \/ ~Busy)),
                    \A r \in Requests : ~(TakeLock(r) /\ ~Refused(r)),
                    \A r \in Requests : ~ReadyGrant(r)
             PROVE  Quiet
  OBVIOUS
<1>1. /\ active_exclusive_leases \subseteq active_leases
      /\ Requests \cap Services = {} /\ Nobody \notin Requests \cup Services
  BY ServicesAssumption DEF LeaseInv, ExclInv
<1> USE <1>1, RequestsAssumption
      DEF Quiet, ControlInv, TypeInv, TypeOK, Goto, Notified, leaseVars, queueVars, epochVars,
      lockVars, holderVars, dockerVars, resetVars, restVars
<1>2. ASSUME NEW r \in Requests, Arrive(r) PROVE Quiet
  BY <1>2 DEF Arrive, CancelIdle
<1>3. ASSUME NEW r \in Requests, CheckBlocked(r) PROVE Quiet
  BY <1>3 DEF CheckBlocked
<1>4. ASSUME NEW r \in Requests, CheckGpu(r) PROVE Quiet
  BY <1>4 DEF CheckGpu
<1>5. ASSUME NEW r \in Requests, StopReturns(r) PROVE Quiet
  BY <1>5 DEF StopReturns
<1>6. ASSUME NEW r \in Requests, SweepEnds(r) PROVE Quiet
  BY <1>6 DEF SweepEnds, Unlock
<1>7. ASSUME NEW r \in Requests, StartContainer(r) PROVE Quiet
  BY <1>7 DEF StartContainer
<1>8. ASSUME NEW r \in Requests, StartReturns(r) PROVE Quiet
  BY <1>8 DEF StartReturns
<1>9. ASSUME NEW r \in Requests, ReadyEnsure(r) PROVE Quiet
  BY <1>9 DEF ReadyEnsure
<1>10. ASSUME NEW r \in Requests, ReadyStale(r) PROVE Quiet
  BY <1>10 DEF ReadyStale, Fail, Unlock
<1>11. ASSUME NEW r \in Requests, StartupExit(r) PROVE Quiet
  BY <1>11 DEF StartupExit, Fail, Unlock
<1>12. ASSUME NEW r \in Requests, StartupTimeout(r) PROVE Quiet
  BY <1>12 DEF StartupTimeout, Fail, Unlock
<1>13. ASSUME NEW r \in Requests, DockerFails(r) PROVE Quiet
  BY <1>13 DEF DockerFails, Fail, Unlock
<1>14. ASSUME NEW r \in Requests, Release(r) PROVE Quiet
  BY <1>14 DEF Release, ScheduleIdle
<1>15. ASSUME NEW r \in Requests, CheckCpu(r), Inside(r) \/ ~Busy PROVE Quiet
  BY <1>15 DEF CheckCpu, lockVars
<1>16. ASSUME NEW r \in Requests, TakeLock(r) PROVE Quiet
  BY <1>16 DEF TakeLock
<1>17. ASSUME NEW r \in Requests, NEW o \in Services, SweepNext(r, o) \/ SweepUnreadable(r, o)
      PROVE  Quiet
  BY <1>17 DEF SweepNext, SweepUnreadable
<1>18. ASSUME NEW s \in Services, IdleFires(s) PROVE Quiet
  BY <1>18 DEF IdleFires
<1>19. ASSUME NEW s \in Services, IdleTakesLock(s) PROVE Quiet
  BY <1>19 DEF IdleTakesLock
<1>20. ASSUME NEW s \in Services, IdleStopEnds(s) PROVE Quiet
  BY <1>20 DEF IdleStopEnds, CancelIdle
<1>21. ASSUME NEW s \in Services, IdleUnreadable(s) PROVE Quiet
  BY <1>21 DEF IdleUnreadable
<1>22. ASSUME NEW s \in Services, DockerStarts(s) \/ DockerStops(s) \/ ContainerCrash(s)
      PROVE  Quiet
  BY <1>22 DEF DockerStarts, DockerStops, ContainerCrash
<1>23. ASSUME ResetLeases PROVE Quiet
  BY <1>23 DEF ResetLeases
<1>24. ASSUME ResetReads PROVE Quiet
  BY <1>24 DEF ResetReads
<1>25. ASSUME ResetSchedules PROVE Quiet
  BY <1>25 DEF ResetSchedules, ScheduleIdle
<1>26. ASSUME Restart PROVE Quiet
  BY <1>26 DEF Restart
<1>27. ASSUME UNCHANGED vars PROVE Quiet
  BY <1>27 DEF vars
<1> HIDE <1>1, RequestsAssumption
      DEF Quiet, ControlInv, TypeInv, TypeOK, Goto, Notified, leaseVars, queueVars, epochVars,
      lockVars, holderVars, dockerVars, resetVars, restVars
<1> QED
  BY <1>2, <1>3, <1>4, <1>5, <1>6, <1>7, <1>8, <1>9, <1>10, <1>11, <1>12, <1>13, <1>14, <1>15, <1>16, <1>17, <1>18, <1>19, <1>20, <1>21, <1>22, <1>23, <1>24, <1>25, <1>26, <1>27, Zenon
     DEF Next, EventLoop, Background, Handler, Loaded, IdleTask

\* A CPU service is granted while another call may hold transition_lock.
LEMMA CheckCpuKeepsLeaseInv ==
  ASSUME ControlInv, LeaseInv, NEW r \in Requests, CheckCpu(r), Grant(r)
  PROVE  LeaseInv'
<1> USE DEF CheckCpu, Grant, lockVars
<1>1. Service[r] \in Services \ GpuServices /\ ~Blocked(r) /\ r \in Acquires
  BY RequestsAssumption DEF ControlInv, TypeInv, CallInv
<1>2. /\ \A s : LeasesOn(s)' = IF s = Service[r] THEN LeasesOn(s) \cup {r} ELSE LeasesOn(s)
      /\ LeasedGpu' = LeasedGpu
  BY <1>1, LeasesGrow
<1>3. FitInv'
  BY <1>2 DEF LeaseInv, FitInv, Starts
<1>4. \A q \in Requests : transition_lock = q /\ q \in Acquires => Service[q] \in GpuServices
  BY DEF ControlInv, LockInv, TypeInv, CallInv, LockStates, Acquires, Starts
<1>5. /\ LeasesOn(Service[r]) \cap active_exclusive_leases = {}
      /\ Exclusive(r) => LeasesOn(Service[r]) = {}
  BY <1>1 DEF Blocked, BlockedByExclusive
<1>6. active_exclusive_leases' = {q \in active_leases' : Exclusive(q)}
  BY DEF LeaseInv, ExclInv, Exclusive
<1>7. ExclusiveIsolation'
  BY <1>2, <1>5, <1>6 DEF LeaseInv, ExclInv, ExclusiveIsolation, LeasesOn, Exclusive
<1>8. ASSUME NEW q \in Acquires, transition_lock' = q
      PROVE  /\ LeasesOn(Service[q])' \cap active_exclusive_leases' = {}
             /\ Exclusive(q) => LeasesOn(Service[q])' = {}
  BY <1>1, <1>2, <1>4, <1>6, <1>8 DEF LeaseInv, ExclInv, LeasesOn, Exclusive, Acquires
<1> QED
  BY <1>3, <1>6, <1>7, <1>8 DEF LeaseInv, ExclInv, LeasesOn, Exclusive, Acquires

\* A GPU service is granted to the holder of transition_lock, which gives it up.
LEMMA ReadyGrantKeepsLeaseInv ==
  ASSUME ControlInv, LeaseInv, NEW r \in Requests, ReadyGrant(r)
  PROVE  LeaseInv'
<1> USE DEF ReadyGrant, Grant, Unlock
<1>1. r \in Acquires /\ Starts(r) /\ transition_lock = r /\ Service[r] \in GpuServices
  BY DEF ControlInv, LockInv, TypeInv, CallInv, LockStates, Acquires, Starts
<1>2. /\ \A s : LeasesOn(s)' = IF s = Service[r] THEN LeasesOn(s) \cup {r} ELSE LeasesOn(s)
      /\ LeasedGpu' = LeasedGpu \cup {Service[r]}
  BY <1>1, LeasesGrow
<1>3. \A q \in Requests : transition_lock' # q
  BY ServicesAssumption
<1>4. FitInv'
  BY <1>1, <1>2, <1>3 DEF LeaseInv, FitInv
<1>5. /\ LeasesOn(Service[r]) \cap active_exclusive_leases = {}
      /\ Exclusive(r) => LeasesOn(Service[r]) = {}
  BY <1>1 DEF LeaseInv, ExclInv
<1>6. active_exclusive_leases' = {q \in active_leases' : Exclusive(q)}
  BY DEF LeaseInv, ExclInv, Exclusive
<1>7. ExclusiveIsolation'
  BY <1>2, <1>5, <1>6 DEF LeaseInv, ExclInv, ExclusiveIsolation, LeasesOn, Exclusive
<1> QED
  BY <1>3, <1>4, <1>6, <1>7 DEF LeaseInv, ExclInv, LeasesOn, Exclusive, Acquires

\* The guard of acquire_service, checked when the call takes transition_lock, is
\* what makes the grant that follows safe.
LEMMA TakeLockKeepsLeaseInv ==
  ASSUME ControlInv, LeaseInv, NEW r \in Requests, TakeLock(r), ~Refused(r)
  PROVE  LeaseInv'
<1> USE DEF TakeLock, leaseVars
<1>1. ASSUME Starts(r) PROVE Service[r] \in GpuServices /\ ~Blocked(r)
  BY <1>1 DEF ControlInv, TypeInv, CallInv, Refused
<1>2. UNCHANGED active_leases /\ UNCHANGED active_exclusive_leases /\ transition_lock' = r
  OBVIOUS
<1>3. /\ \A s : LeasesOn(s)' = LeasesOn(s)
      /\ LeasedGpu' = LeasedGpu
  BY <1>2 DEF LeasesOn, Leased, LeasedGpu
<1>4. Starts(r) => Fits(LeasedGpu \cup {Service[r]})
  BY <1>1, UnblockedFits DEF LeaseInv, FitInv
<1>5. FitInv'
  BY <1>2, <1>3, <1>4 DEF LeaseInv, FitInv, Starts
<1>6. ASSUME r \in Acquires
      PROVE  /\ LeasesOn(Service[r]) \cap active_exclusive_leases = {}
             /\ Exclusive(r) => LeasesOn(Service[r]) = {}
  BY <1>1, <1>6 DEF Blocked, BlockedByExclusive, Acquires, Starts
<1>7. ExclInv'
  BY <1>2, <1>3, <1>6 DEF LeaseInv, ExclInv, ExclusiveIsolation, LeasesOn, Exclusive, Acquires
<1> QED
  BY <1>5, <1>7 DEF LeaseInv

\* A fresh supervisor has no lease and no call between guard and grant.
LEMMA LeaseInvInit == Init => LeaseInv
<1> SUFFICES ASSUME Init PROVE LeaseInv
  OBVIOUS
<1>1. /\ \A s : LeasesOn(s) = {}
      /\ LeasedGpu = {}
  BY DEF Init, LeasesOn, Leased, LeasedGpu
<1>2. \A r \in Requests : transition_lock # r
  BY ServicesAssumption DEF Init
<1> QED
  BY <1>1, <1>2, AdmissionAssumption
     DEF Init, LeaseInv, FitInv, ExclInv, ExclusiveIsolation, Acquires

\* LeaseInv is inductive, given ControlInv: the three kinds of step together.
LEMMA LeaseInvNext == ControlInv /\ LeaseInv /\ [Next]_vars => LeaseInv'
BY QuietSteps, QuietKeepsLeaseInv, CheckCpuKeepsLeaseInv, ReadyGrantKeepsLeaseInv,
   TakeLockKeepsLeaseInv

\* A quiet step keeps the services of a running sweep unleased.
LEMMA QuietKeepsHaltInv == ControlInv /\ HaltInv /\ Quiet => HaltInv'
<1> SUFFICES ASSUME ControlInv, HaltInv, Quiet,
                    NEW r \in Requests, NEW o \in sweep',
                    transition_lock' = r, o \in GpuServices \/ task'[r] = "sweeping",
                    ~(Starts(r) /\ Mode = "resource")
             PROVE  o \notin Leased'
  BY DEF HaltInv, Starts
<1>1. transition_lock = r /\ o \in sweep
  BY DEF Quiet
<1>2. Leased' \subseteq Leased
  BY LeasesShrink DEF Quiet
<1>3. CASE o \in GpuServices \/ task[r] = "sweeping"
  BY <1>1, <1>2, <1>3 DEF HaltInv
<1>4. CASE o \notin GpuServices /\ task'[r] = "sweeping" /\ StopReturns(r)
  BY <1>1, <1>4 DEF StopReturns, ControlInv, SweepInv
<1> QED
  BY <1>1, <1>3, <1>4 DEF Quiet

\* The services that a start or a stop is about to stop have no lease when their
\* call takes transition_lock.
LEMMA TakeLockKeepsHaltInv ==
  ASSUME ControlInv, NEW r \in Requests, TakeLock(r), ~Refused(r)
  PROVE  HaltInv'
<1>1. transition_lock' = r /\ sweep' = ToStop(r) /\ Leased' = Leased
  BY DEF TakeLock, leaseVars, Leased, LeasesOn
<1>2. ASSUME NEW o \in ToStop(r), ~(Starts(r) /\ Mode = "resource")
      PROVE  o \notin Leased
<2>1. CASE Starts(r)
<3>1. Mode = "compatibility" /\ ~BlockedByOtherService(r) /\ o # Service[r]
  BY <1>2, <2>1, RequestsAssumption DEF Refused, Blocked, ToStop, Starts
<3> QED
  BY <3>1 DEF BlockedByOtherService
<2>2. CASE Kind[r] = "stop"
  BY <1>2, <2>2 DEF Refused, ToStop, Starts, Leased
<2>3. CASE Kind[r] = "stop_all"
  BY <1>2, <2>3 DEF Refused, Leased, LeasesOn
<2> QED
  BY <2>1, <2>2, <2>3, RequestsAssumption DEF Starts, Kinds
<1> QED
  BY <1>1, <1>2 DEF HaltInv, Starts

\* A CPU service granted during another call's sweep is not one the sweep stops.
LEMMA CheckCpuKeepsHaltInv ==
  ASSUME ControlInv, HaltInv, NEW r \in Requests, CheckCpu(r), Grant(r), Inside(r) \/ ~Busy
  PROVE  HaltInv'
<1>1. Service[r] \notin GpuServices /\ UNCHANGED <<transition_lock, sweep>>
  BY DEF CheckCpu, lockVars, holderVars
<1>2. Leased' = Leased \cup {Service[r]}
  BY LeasesGrow DEF Grant
<1>3. \A q \in Requests : task[q] # "sweeping"
  BY DEF CheckCpu, ControlInv, LockInv, Inside, Busy
<1>4. \A q \in Requests : task'[q] # "sweeping"
  BY <1>3 DEF Grant, Notified, ControlInv, TypeInv, TypeOK
<1> QED
  BY <1>1, <1>2, <1>4 DEF HaltInv, Starts

\* HaltInv is inductive, given ControlInv and LeaseInv.
LEMMA HaltInvNext == ControlInv /\ LeaseInv /\ HaltInv /\ [Next]_vars => HaltInv'
<1>1. ASSUME NEW r \in Requests, ReadyGrant(r) PROVE HaltInv'
  BY <1>1, ServicesAssumption DEF ReadyGrant, Unlock, HaltInv
<1> QED
  BY <1>1, QuietSteps, QuietKeepsHaltInv, TakeLockKeepsHaltInv, CheckCpuKeepsHaltInv
-----------------------------------------------------------------------------
(* The theorems about leases                                               *)

IInv == ControlInv /\ LeaseInv /\ HaltInv

\* The inductive invariant of acquire_service, prepare_service and the idle timers:
\* what a call relies on between its guard and its grant, whatever runs meanwhile.
THEOREM Invariance == Spec => []IInv
<1>1. Init => IInv
  BY ControlInvInit, LeaseInvInit DEF IInv, Init, HaltInv
<1>2. IInv /\ [Next]_vars => IInv'
  BY ControlInvNext, LeaseInvNext, HaltInvNext DEF IInv
<1> QED
  BY <1>1, <1>2, PTL DEF Spec

\* The leased GPU services always fit on the GPU together, although acquire_service
\* grants a lease several awaits after it looked at the others.
THEOREM LeasedFitsHolds == Spec => []LeasedFits
<1>1. IInv => LeasedFits
  BY DEF IInv, LeaseInv, FitInv, LeasedFits
<1> QED
  BY <1>1, Invariance, PTL

\* An exclusive lease of a service is the only lease of it, although regular
\* acquires may already be between their guard and their grant when it queues.
THEOREM ExclusiveIsolationHolds == Spec => []ExclusiveIsolation
<1>1. IInv => ExclusiveIsolation
  BY DEF IInv, LeaseInv, ExclInv
<1> QED
  BY <1>1, Invariance, PTL
-----------------------------------------------------------------------------
(* Refinement of GpuLeases                                                 *)

\* The abstract service sees the same leases on every service.
LEMMA SameLeases ==
  ASSUME active_leases \in SUBSET Acquires
  PROVE  /\ \A s : Abstract!LeasesOn(s) = LeasesOn(s)
         /\ Abstract!Leased = Leased
<1>1. \A s : Abstract!LeasesOn(s) = LeasesOn(s)
  BY DEF Abstract!LeasesOn, LeasesOn
<1> QED
  BY <1>1 DEF Abstract!Leased, Leased

\* A grant that LeaseInv allows is one the abstract service makes.
LEMMA GrantRefines ==
  ASSUME ControlInv, NEW r \in Acquires, task[r] # "held", UNCHANGED halting,
         active_leases' = active_leases \cup {r},
         active_exclusive_leases = {q \in active_leases : Exclusive(q)},
         LeasesOn(Service[r]) \cap active_exclusive_leases = {},
         Exclusive(r) => LeasesOn(Service[r]) = {},
         Service[r] \in GpuServices => Fits(LeasedGpu \cup {Service[r]})
  PROVE  Abstract!Grant(r)
<1>1. r \notin active_leases /\ active_leases \in SUBSET Acquires
  BY DEF ControlInv, HeldInv, TypeInv, TypeOK
<1>2. Abstract!MayJoin(r)
  BY <1>1, SameLeases DEF Abstract!MayJoin, LeasesOn, LeasedGpu, Exclusive
<1> QED
  BY <1>1, <1>2 DEF Abstract!Grant

\* Every step of the supervisor is a step of the abstract lease service or a
\* stutter of it.
LEMMA StepRefines == IInv /\ [Next]_vars => [Abstract!Next]_(Abstract!vars)
<1> SUFFICES ASSUME IInv, [Next]_vars PROVE [Abstract!Next]_(Abstract!vars)
  OBVIOUS
<1> DEFINE Simulated == [Abstract!Next]_(Abstract!vars)
           Same == UNCHANGED <<active_leases, halting>>
<1>1. ASSUME NEW r \in Requests, CheckCpu(r), ~Same PROVE Simulated
<2>1. Grant(r) /\ UNCHANGED halting /\ Service[r] \notin GpuServices /\ ~Blocked(r)
  BY <1>1 DEF CheckCpu, leaseVars, dockerVars
<2>2. r \in Acquires /\ task[r] # "held"
  BY <1>1, <2>1 DEF CheckCpu, IInv, ControlInv, TypeInv, CallInv
<2>3. Abstract!Grant(r)
  BY <2>1, <2>2, GrantRefines
     DEF Grant, Blocked, BlockedByExclusive, IInv, LeaseInv, ExclInv
<2> QED
  BY <2>2, <2>3 DEF Abstract!Next
<1>2. ASSUME NEW r \in Requests, ReadyGrant(r) PROVE Simulated
<2>1. /\ r \in Acquires /\ Starts(r) /\ transition_lock = r /\ task[r] # "held"
      /\ active_leases' = active_leases \cup {r} /\ UNCHANGED halting
  BY <1>2 DEF ReadyGrant, Grant, dockerVars, IInv, ControlInv, LockInv, LockStates, Acquires,
     Starts
<2>2. Abstract!Grant(r)
  BY <2>1, GrantRefines DEF IInv, LeaseInv, FitInv, ExclInv
<2> QED
  BY <2>1, <2>2 DEF Abstract!Next
<1>3. ASSUME NEW r \in Requests, Release(r) PROVE Simulated
<2>1. r \in Acquires /\ Abstract!Return(r)
  BY <1>3 DEF Release, dockerVars, Abstract!Return
<2> QED
  BY <2>1 DEF Abstract!Next
<1>4. ASSUME ResetLeases PROVE Simulated
  BY <1>4 DEF ResetLeases, dockerVars, Abstract!Next, Abstract!ReturnAll
<1>5. ASSUME NEW s \in Services, DockerStops(s) \/ ContainerCrash(s) PROVE Simulated
<2>1. Abstract!Halted(s)
  BY <1>5 DEF DockerStops, ContainerCrash, leaseVars, Abstract!Halted
<2> QED
  BY <2>1 DEF Abstract!Next
<1>6. ASSUME NEW s \in Services, s \notin Leased, AskStop(s), UNCHANGED active_leases
      PROVE  Simulated
<2>1. Abstract!Leased = Leased
  BY SameLeases DEF IInv, ControlInv, TypeInv, TypeOK
<2>2. Abstract!Halt(s) \/ Same
  BY <1>6, <2>1 DEF AskStop, Abstract!Halt
<2> QED
  BY <2>2 DEF Abstract!Next, Abstract!vars
<1>7. ASSUME NEW r \in Requests, NEW o \in Services, SweepNext(r, o), ~Same PROVE Simulated
<2>1. ~PassesOver(r, o) /\ AskStop(o) /\ UNCHANGED active_leases
  BY <1>7 DEF SweepNext, leaseVars
<2>2. o \in sweep /\ task[r] = "sweeping" /\ transition_lock = r
  BY <1>7 DEF SweepNext, IInv, ControlInv, LockInv, LockStates
<2>3. o \notin Leased
  BY <2>1, <2>2 DEF PassesOver, IInv, HaltInv
<2> QED
  BY <1>6, <2>1, <2>3
<1>8. ASSUME NEW s \in Services, IdleTakesLock(s), ~Same PROVE Simulated
<2>1. s \notin Leased /\ AskStop(s) /\ UNCHANGED active_leases
  BY <1>8 DEF IdleTakesLock, IdleMayStop, leaseVars
<2> QED
  BY <1>6, <2>1
<1>9. ASSUME Same PROVE Simulated
  BY <1>9 DEF Abstract!vars
<1> USE DEF leaseVars, dockerVars, restVars
<1>10. ASSUME NEW r \in Requests, Arrive(r) PROVE Same
  BY <1>10 DEF Arrive
<1>11. ASSUME NEW r \in Requests, CheckBlocked(r) PROVE Same
  BY <1>11 DEF CheckBlocked
<1>12. ASSUME NEW r \in Requests, CheckGpu(r) PROVE Same
  BY <1>12 DEF CheckGpu
<1>13. ASSUME NEW r \in Requests, TakeLock(r) PROVE Same
  BY <1>13 DEF TakeLock
<1>14. ASSUME NEW r \in Requests, NEW o \in Services, SweepUnreadable(r, o) PROVE Same
  BY <1>14 DEF SweepUnreadable
<1>15. ASSUME NEW r \in Requests, StopReturns(r) PROVE Same
  BY <1>15 DEF StopReturns
<1>16. ASSUME NEW r \in Requests, SweepEnds(r) PROVE Same
  BY <1>16 DEF SweepEnds
<1>17. ASSUME NEW r \in Requests, StartContainer(r) PROVE Same
  BY <1>17 DEF StartContainer
<1>18. ASSUME NEW r \in Requests, StartReturns(r) PROVE Same
  BY <1>18 DEF StartReturns
<1>19. ASSUME NEW r \in Requests, ReadyEnsure(r) PROVE Same
  BY <1>19 DEF ReadyEnsure
<1>20. ASSUME NEW r \in Requests, ReadyStale(r) PROVE Same
  BY <1>20 DEF ReadyStale
<1>21. ASSUME NEW r \in Requests, StartupExit(r) PROVE Same
  BY <1>21 DEF StartupExit
<1>22. ASSUME NEW r \in Requests, StartupTimeout(r) PROVE Same
  BY <1>22 DEF StartupTimeout
<1>23. ASSUME NEW r \in Requests, DockerFails(r) PROVE Same
  BY <1>23 DEF DockerFails
<1>24. ASSUME NEW s \in Services, IdleFires(s) \/ IdleStopEnds(s) \/ IdleUnreadable(s) PROVE Same
  BY <1>24 DEF IdleFires, IdleStopEnds, IdleUnreadable
<1>25. ASSUME NEW s \in Services, DockerStarts(s) PROVE Same
  BY <1>25 DEF DockerStarts
<1>26. ASSUME ResetReads \/ ResetSchedules \/ Restart \/ UNCHANGED vars PROVE Same
  BY <1>26 DEF ResetReads, ResetSchedules, Restart, vars
<1> HIDE DEF Simulated, Same, leaseVars, dockerVars, restVars
<1>27. Simulated
  BY <1>1, <1>2, <1>3, <1>4, <1>5, <1>7, <1>8, <1>9, <1>10, <1>11, <1>12, <1>13, <1>14, <1>15, <1>16, <1>17, <1>18, <1>19, <1>20, <1>21, <1>22, <1>23, <1>24, <1>25, <1>26, Zenon
     DEF Next, EventLoop, Background, Handler, Loaded, IdleTask
<1> QED
  BY <1>27 DEF Simulated

\* Whatever the event loop interleaves between the guard of an acquire and its
\* grant, the supervisor is the abstract lease service.
THEOREM Implements == Spec => ImplementsGpuLeases
<1>1. Init => Abstract!Init
  BY DEF Init, Abstract!Init
<1> QED
  BY <1>1, StepRefines, Invariance, PTL DEF Spec, ImplementsGpuLeases, Abstract!Spec

\* No idle timer, no preparation of another service and no operator's stop asks
\* Docker to stop a leased worker: the abstract service halts unleased ones only.
THEOREM NeverStopsLeasedHolds == Spec => NeverStopsLeased
<1>1. IInv /\ [Next]_vars =>
        [\A s \in halting' \ halting : s \notin Leased /\ s \notin Leased']_vars
<2> SUFFICES ASSUME IInv, [Next]_vars, NEW s \in halting' \ halting
             PROVE  s \notin Leased /\ s \notin Leased'
  OBVIOUS
<2>1. Abstract!Halt(s)
  BY StepRefines
     DEF Abstract!Next, Abstract!vars, Abstract!Grant, Abstract!Return, Abstract!ReturnAll,
     Abstract!Halt, Abstract!Halted
<2>2. Abstract!Leased = Leased
  BY SameLeases DEF IInv, ControlInv, TypeInv, TypeOK
<2>3. Leased' = Leased
  BY <2>1 DEF Abstract!Halt, Leased, LeasesOn
<2> QED
  BY <2>1, <2>2, <2>3 DEF Abstract!Halt
<1> QED
  BY <1>1, Invariance, PTL DEF Spec, NeverStopsLeased
-----------------------------------------------------------------------------
(* That the workers Docker runs, leased or only loaded, may share the GPU  *)

\* A worker Docker runs or starts.
Up == {s \in GpuServices : container[s] = "running" \/ s \in launching}

\* While docker-control does not fail, the workers that are up fit; so do the
\* leased ones, the ones already passed by the sweep, and the service of the
\* call that holds transition_lock.
LoadInv ==
  ~faulted =>
    /\ Fits(Up)
    /\ \A r \in Requests : Starts(r) /\ transition_lock = r =>
         Fits(LeasedGpu \cup (Up \ sweep) \cup {Service[r]})

\* A step that starts no worker and gives transition_lock to no call; what the
\* sweep leaves behind is stopped or leased.
LoadQuiet ==
  ~faulted' =>
    /\ ~faulted
    /\ Up' \subseteq Up
    /\ \A r \in Requests : transition_lock' = r =>
         /\ transition_lock = r
         /\ LeasedGpu' \subseteq LeasedGpu
         /\ Up' \ sweep' \subseteq (Up \ sweep) \cup LeasedGpu

\* A step that starts no container and does not stop the sweep short keeps LoadInv.
LEMMA LoadQuietKeepsLoadInv == IInv /\ LoadInv /\ LoadQuiet => LoadInv'
<1> SUFFICES ASSUME IInv, LoadInv, LoadQuiet, ~faulted' PROVE LoadInv'
  BY DEF LoadInv
<1>1. Up \in SUBSET GpuServices /\ LeasedGpu \in SUBSET GpuServices
  BY DEF Up, LeasedGpu
<1>2. Fits(Up')
  BY <1>1, FitsShrinks DEF LoadInv, LoadQuiet
<1>3. ASSUME NEW r \in Requests, Starts(r), transition_lock' = r
      PROVE  Fits(LeasedGpu' \cup (Up' \ sweep') \cup {Service[r]})
<2> DEFINE S == LeasedGpu \cup (Up \ sweep) \cup {Service[r]}
<2>1. transition_lock = r /\ LeasedGpu' \cup (Up' \ sweep') \cup {Service[r]} \in SUBSET S
  BY <1>3 DEF LoadQuiet
<2>2. Service[r] \in GpuServices
  BY <1>3, <2>1 DEF IInv, ControlInv, LockInv, TypeInv, CallInv, LockStates
<2>3. S \in SUBSET GpuServices
  BY <1>1, <2>2
<2>4. Fits(S)
  BY <1>3, <2>1 DEF LoadInv, LoadQuiet
<2> HIDE DEF S
<2> QED
  BY <2>1, <2>3, <2>4, FitsShrinks
<1> QED
  BY <1>2, <1>3 DEF LoadInv, Starts

\* Taking transition_lock puts every loaded worker in the way of the start into the
\* sweep.
LEMMA TakeLockKeepsLoadInv ==
  ASSUME IInv, LoadInv, NEW r \in Requests, TakeLock(r), ~Refused(r)
  PROVE  LoadInv'
<1>1. /\ transition_lock' = r /\ sweep' = ToStop(r) /\ Up' = Up /\ LeasedGpu' = LeasedGpu
      /\ UNCHANGED faulted
  BY DEF TakeLock, dockerVars, leaseVars, Up, LeasedGpu, Leased, LeasesOn
<1>2. ASSUME Starts(r) PROVE Fits(LeasedGpu \cup (Up \ ToStop(r)) \cup {Service[r]})
<2>1. Service[r] \in GpuServices /\ ~Blocked(r)
  BY <1>2 DEF TakeLock, IInv, ControlInv, TypeInv, CallInv, Refused
<2>2. Fits(LeasedGpu \cup {Service[r]})
  BY <2>1, UnblockedFits DEF IInv, LeaseInv, FitInv
<2>3. LeasedGpu \cup (Up \ ToStop(r)) \cup {Service[r]} = LeasedGpu \cup {Service[r]}
  BY <1>2 DEF ToStop, Up, Starts
<2> QED
  BY <2>2, <2>3
<1> QED
  BY <1>1, <1>2 DEF LoadInv, Starts

\* A container is started once the sweep is over.
LEMMA StartContainerKeepsLoadInv ==
  ASSUME IInv, LoadInv, NEW r \in Requests, StartContainer(r)
  PROVE  LoadInv'
<1>1. Starts(r) /\ transition_lock = r /\ sweep = {}
  BY DEF StartContainer, IInv, ControlInv, LockInv, SweepInv, TypeInv, CallInv, LockStates
<1>2. Service[r] \in GpuServices
  BY <1>1 DEF IInv, ControlInv, LockInv, TypeInv, CallInv, LockStates
<1>3. /\ Up' \subseteq Up \cup {Service[r]} /\ LeasedGpu' = LeasedGpu
      /\ UNCHANGED <<faulted, transition_lock, sweep>>
  BY DEF StartContainer, lockVars, holderVars, leaseVars, Up, LeasedGpu, Leased, LeasesOn
<1> SUFFICES ASSUME ~faulted PROVE LoadInv'
  BY <1>3 DEF LoadInv
<1> DEFINE S == LeasedGpu \cup Up \cup {Service[r]}
<1>4. S \in SUBSET GpuServices
  BY <1>2 DEF Up, LeasedGpu
<1>5. Fits(S)
  BY <1>1 DEF LoadInv
<1>6. Up' \in SUBSET S /\ LeasedGpu' \cup (Up' \ sweep') \cup {Service[r]} \in SUBSET S
  BY <1>3
<1> HIDE DEF S
<1>7. Fits(Up') /\ Fits(LeasedGpu' \cup (Up' \ sweep') \cup {Service[r]})
  BY <1>4, <1>5, <1>6, FitsShrinks
<1> QED
  BY <1>1, <1>3, <1>7 DEF LoadInv, Starts

\* LoadInv is inductive, given IInv.
LEMMA LoadInvNext == IInv /\ LoadInv /\ [Next]_vars => LoadInv'
<1> SUFFICES ASSUME IInv, LoadInv, [Next]_vars PROVE LoadInv'
  OBVIOUS
<1>1. ASSUME NEW o \in sweep, ~faulted, container[o] # "running", NEW r \in Requests,
             transition_lock = r, task[r] \in {"sweeping", "stopping"}
      PROVE  o \notin Up
  BY <1>1 DEF Up, IInv, ControlInv, LockInv, LaunchInv, LockStates
<1>2. UNCHANGED active_leases => LeasedGpu' = LeasedGpu
  BY DEF LeasedGpu, Leased, LeasesOn
<1>3. active_leases' \subseteq active_leases => LeasedGpu' \subseteq LeasedGpu
  BY LeasesShrink
<1> USE <1>2, ServicesAssumption
      DEF LoadQuiet, leaseVars, lockVars, holderVars, dockerVars, restVars
<1>4. ASSUME NEW r \in Requests, Arrive(r) PROVE LoadQuiet
  BY <1>4 DEF Arrive, CancelIdle, Up
<1>5. ASSUME NEW r \in Requests, CheckBlocked(r) PROVE LoadQuiet
  BY <1>5 DEF CheckBlocked, Up
<1>6. ASSUME NEW r \in Requests, CheckGpu(r) PROVE LoadQuiet
  BY <1>6 DEF CheckGpu, Up
<1>7. ASSUME NEW r \in Requests, CheckCpu(r) PROVE LoadQuiet
<2>1. LeasedGpu' = LeasedGpu
  BY <1>7, LeasesGrow DEF CheckCpu, Grant
<2> QED
  BY <1>7, <2>1 DEF CheckCpu, Up
<1>8. ASSUME NEW r \in Requests, TakeLock(r), Refused(r) PROVE LoadQuiet
  BY <1>8 DEF TakeLock, Up
<1>9. ASSUME NEW r \in Requests, NEW o \in Services, SweepNext(r, o) PROVE LoadQuiet
<2>1. /\ Up' = Up /\ LeasedGpu' = LeasedGpu /\ UNCHANGED <<faulted, transition_lock>>
      /\ task[r] = "sweeping" /\ o \in sweep
      /\ sweep' = sweep \/ (sweep' = sweep \ {o} /\ (PassesOver(r, o) \/ container[o] # "running"))
  BY <1>9 DEF SweepNext, Up
<2>2. transition_lock = r
  BY <2>1 DEF IInv, ControlInv, LockInv, LockStates
<2>3. ASSUME PassesOver(r, o), o \in Up PROVE o \in LeasedGpu
  BY <2>3 DEF PassesOver, Up, LeasedGpu
<2> QED
  BY <1>1, <2>1, <2>2, <2>3
<1>10. ASSUME NEW r \in Requests, NEW o \in Services, SweepUnreadable(r, o) PROVE LoadQuiet
  BY <1>10 DEF SweepUnreadable, Fault
<1>11. ASSUME NEW r \in Requests, StopReturns(r) PROVE LoadQuiet
<2>1. target \in sweep /\ transition_lock = r /\ task[r] = "stopping"
  BY <1>11 DEF StopReturns, IInv, ControlInv, LockInv, SweepInv, LockStates
<2> QED
  BY <1>1, <1>11, <2>1 DEF StopReturns, Up
<1>12. ASSUME NEW r \in Requests, SweepEnds(r) PROVE LoadQuiet
  BY <1>12 DEF SweepEnds, Unlock, Up
<1>13. ASSUME NEW r \in Requests, StartReturns(r) PROVE LoadQuiet
  BY <1>13 DEF StartReturns, Up
<1>14. ASSUME NEW r \in Requests, ReadyEnsure(r) PROVE LoadQuiet
  BY <1>14 DEF ReadyEnsure, Up
<1>15. ASSUME NEW r \in Requests, ReadyGrant(r) PROVE LoadQuiet
  BY <1>15 DEF ReadyGrant, Unlock, Up
<1>16. ASSUME NEW r \in Requests, ReadyStale(r) PROVE LoadQuiet
  BY <1>16 DEF ReadyStale, Fail, Unlock, Up
<1>17. ASSUME NEW r \in Requests, StartupExit(r) PROVE LoadQuiet
  BY <1>17 DEF StartupExit, Fail, Unlock, Up
<1>18. ASSUME NEW r \in Requests, StartupTimeout(r) PROVE LoadQuiet
  BY <1>18 DEF StartupTimeout, Fail, Unlock, Up
<1>19. ASSUME NEW r \in Requests, DockerFails(r) PROVE LoadQuiet
  BY <1>19 DEF DockerFails, Fault
<1>20. ASSUME NEW r \in Requests, Release(r) PROVE LoadQuiet
  BY <1>20, <1>3 DEF Release, ScheduleIdle, Up
<1>21. ASSUME NEW s \in Services, IdleFires(s) PROVE LoadQuiet
  BY <1>21 DEF IdleFires, Up
<1>22. ASSUME NEW s \in Services, IdleTakesLock(s) PROVE LoadQuiet
  BY <1>22 DEF IdleTakesLock, Up
<1>23. ASSUME NEW s \in Services, IdleStopEnds(s) PROVE LoadQuiet
  BY <1>23 DEF IdleStopEnds, CancelIdle, Fault, Up
<1>24. ASSUME NEW s \in Services, IdleUnreadable(s) PROVE LoadQuiet
  BY <1>24 DEF IdleUnreadable, Fault
<1>25. ASSUME NEW s \in Services, DockerStarts(s) \/ DockerStops(s) \/ ContainerCrash(s) PROVE LoadQuiet
  BY <1>25 DEF DockerStarts, DockerStops, ContainerCrash, Up, IInv, ControlInv, TypeInv, TypeOK
<1>26. ASSUME ResetLeases PROVE LoadQuiet
  BY <1>26, <1>3 DEF ResetLeases, Up
<1>27. ASSUME ResetReads PROVE LoadQuiet
  BY <1>27 DEF ResetReads, Up
<1>28. ASSUME ResetSchedules PROVE LoadQuiet
  BY <1>28 DEF ResetSchedules, ScheduleIdle, Up
<1>29. ASSUME Restart PROVE LoadQuiet
  BY <1>29 DEF Restart, Fault, Up
<1>30. ASSUME UNCHANGED vars PROVE LoadQuiet
  BY <1>30 DEF vars, Up
<1> HIDE <1>2, ServicesAssumption
      DEF LoadQuiet, leaseVars, lockVars, holderVars, dockerVars, restVars
<1> QED
  BY <1>4, <1>5, <1>6, <1>7, <1>8, <1>9, <1>10, <1>11, <1>12, <1>13, <1>14, <1>15, <1>16, <1>17, <1>18, <1>19, <1>20, <1>21, <1>22, <1>23, <1>24, <1>25, <1>26, <1>27, <1>28, <1>29, <1>30, TakeLockKeepsLoadInv, StartContainerKeepsLoadInv, LoadQuietKeepsLoadInv, Zenon
     DEF Next, EventLoop, Background, Handler, Loaded, IdleTask

\* A fresh supervisor finds no worker loaded.
LEMMA LoadInvInit == Init => LoadInv
<1> SUFFICES ASSUME Init PROVE LoadInv
  OBVIOUS
<1>1. Up = {} /\ \A r \in Requests : transition_lock # r
  BY ServicesAssumption DEF Init, Up
<1> QED
  BY <1>1, AdmissionAssumption DEF LoadInv

\* No start overtakes the stop of a worker it conflicts with, as long as no
\* request to docker-control has failed.
THEOREM LoadedFitsHolds == Spec => []LoadedFits
<1>1. LoadInv => LoadedFits
<2> SUFFICES ASSUME LoadInv, ~faulted PROVE Fits(Running)
  BY DEF LoadedFits
<2>1. Up \in SUBSET GpuServices /\ Running \in SUBSET Up
  BY DEF Up, Running
<2> QED
  BY <2>1, FitsShrinks DEF LoadInv
<1> QED
  BY <1>1, LoadInvInit, LoadInvNext, Invariance, PTL DEF Spec
-----------------------------------------------------------------------------
(* That nobody sleeps on lease_condition without a reason                  *)

WaitInv == NoLostWakeup /\ \A q \in pending : Exclusive(q)

\* A step that wakes every sleeper.
Wakes == \A r \in Requests : task'[r] # "waiting"

\* A step that leaves the leases alone, puts nobody to sleep who is not blocked,
\* and drops from the queue only acquires that fail.
Calm ==
  /\ UNCHANGED leaseVars
  /\ \A r \in Requests :
       /\ task'[r] = "waiting" =>
            (task[r] = "waiting" \/ Blocked(r)) /\ ahead'[r] = ahead[r]
       /\ task[r] = "failed" => task'[r] = "failed"
       /\ r \in pending /\ r \notin pending' => task'[r] = "failed"

\* What blocks a call after a calm step blocked it before, or has failed.
LEMMA CalmKeepsBlocked ==
  ASSUME TypeInv, Calm, \A q \in pending : Exclusive(q), NEW r \in Requests, ahead'[r] = ahead[r]
  PROVE  Blocked(r) => Blocked(r)' \/ LeftQueue(Service[r])'
<1>1. /\ \A s : LeasesOn(s)' = LeasesOn(s)
      /\ Leased' = Leased /\ LeasedGpu' = LeasedGpu
      /\ active_exclusive_leases' = active_exclusive_leases
  BY DEF Calm, leaseVars, LeasesOn, Leased, LeasedGpu
<1>2. ASSUME NEW q \in pending, Service[q] = Service[r], q \notin pending'
      PROVE  LeftQueue(Service[r])'
<2>1. q \in Requests /\ Exclusive(q)
  BY DEF TypeInv, TypeOK, Acquires
<2> QED
  BY <1>2, <2>1 DEF Calm, LeftQueue, Exclusive
<1>3. BlockedByExclusive(r) => BlockedByExclusive(r)' \/ LeftQueue(Service[r])'
  BY <1>1, <1>2 DEF BlockedByExclusive, Exclusive
<1>4. BlockedByOtherService(r) => BlockedByOtherService(r)'
  BY <1>1 DEF BlockedByOtherService
<1> QED
  BY <1>1, <1>3, <1>4 DEF Blocked

\* A calm step keeps WaitInv.
LEMMA CalmKeepsNoLostWakeup == TypeInv /\ WaitInv /\ Calm => NoLostWakeup'
<1> SUFFICES ASSUME TypeInv, WaitInv, Calm, NEW r \in Requests, task'[r] = "waiting"
             PROVE  Blocked(r)' \/ LeftQueue(Service[r])'
  BY DEF NoLostWakeup
<1>1. LeftQueue(Service[r]) => LeftQueue(Service[r])'
  BY DEF LeftQueue, Calm, Exclusive
<1>2. Blocked(r) \/ LeftQueue(Service[r])
  BY DEF WaitInv, NoLostWakeup, Calm
<1> QED
  BY <1>1, <1>2, CalmKeepsBlocked DEF WaitInv, Calm

\* Every step that changes a lease wakes the sleepers; the others are calm.
LEMMA WakesOrCalm == TypeInv /\ [Next]_vars => Wakes \/ Calm
<1> SUFFICES ASSUME TypeInv, [Next]_vars PROVE Wakes \/ Calm
  OBVIOUS
<1> DEFINE Goal == Wakes \/ Calm
<1> USE DEF Wakes, Calm, TypeInv, TypeOK, Goto, Notified, leaseVars, queueVars, epochVars,
      lockVars, holderVars, dockerVars, resetVars, restVars
<1>1. ASSUME NEW r \in Requests, Arrive(r) PROVE Goal
  BY <1>1 DEF Arrive
<1>2. ASSUME NEW r \in Requests, CheckBlocked(r) PROVE Goal
  BY <1>2 DEF CheckBlocked
<1>3. ASSUME NEW r \in Requests, CheckGpu(r) PROVE Goal
  BY <1>3 DEF CheckGpu
<1>4. ASSUME NEW r \in Requests, CheckCpu(r) PROVE Goal
  BY <1>4 DEF CheckCpu, Grant
<1>5. ASSUME NEW r \in Requests, TakeLock(r) PROVE Goal
  <2>1. CASE Starts(r) /\ Blocked(r)
    <3>1. Refused(r)
      BY <2>1 DEF Refused
    <3> QED
      BY <1>5, <2>1, <3>1 DEF TakeLock
  <2>2. CASE ~(Starts(r) /\ Blocked(r))
    BY <1>5, <2>2 DEF TakeLock, Refused, Starts
  <2> QED
    BY <2>1, <2>2
<1>6. ASSUME NEW r \in Requests, NEW o \in Services, SweepNext(r, o) PROVE Goal
  BY <1>6 DEF SweepNext
<1>7. ASSUME NEW r \in Requests, NEW o \in Services, SweepUnreadable(r, o) PROVE Goal
  BY <1>7 DEF SweepUnreadable
<1>8. ASSUME NEW r \in Requests, StopReturns(r) PROVE Goal
  BY <1>8 DEF StopReturns
<1>9. ASSUME NEW r \in Requests, SweepEnds(r) PROVE Goal
  BY <1>9 DEF SweepEnds
<1>10. ASSUME NEW r \in Requests, StartContainer(r) PROVE Goal
  BY <1>10 DEF StartContainer
<1>11. ASSUME NEW r \in Requests, StartReturns(r) PROVE Goal
  BY <1>11 DEF StartReturns
<1>12. ASSUME NEW r \in Requests, ReadyEnsure(r) PROVE Goal
  BY <1>12 DEF ReadyEnsure
<1>13. ASSUME NEW r \in Requests, ReadyGrant(r) PROVE Goal
  BY <1>13 DEF ReadyGrant, Grant
<1>14. ASSUME NEW r \in Requests, ReadyStale(r) PROVE Goal
  BY <1>14 DEF ReadyStale, Fail
<1>15. ASSUME NEW r \in Requests, StartupExit(r) PROVE Goal
  BY <1>15 DEF StartupExit, Fail
<1>16. ASSUME NEW r \in Requests, StartupTimeout(r) PROVE Goal
  BY <1>16 DEF StartupTimeout, Fail
<1>17. ASSUME NEW r \in Requests, DockerFails(r) PROVE Goal
  BY <1>17 DEF DockerFails, Fail
<1>18. ASSUME NEW r \in Requests, Release(r) PROVE Goal
  BY <1>18 DEF Release
<1>19. ASSUME NEW s \in Services, IdleTask(s) PROVE Goal
  BY <1>19 DEF IdleTask, IdleFires, IdleTakesLock, IdleStopEnds, IdleUnreadable
<1>20. ASSUME NEW s \in Services, DockerStarts(s) \/ DockerStops(s) \/ ContainerCrash(s)
       PROVE Goal
  BY <1>20 DEF DockerStarts, DockerStops, ContainerCrash
<1>21. ASSUME ResetLeases \/ ResetReads \/ ResetSchedules \/ Restart PROVE Goal
  BY <1>21 DEF ResetLeases, ResetReads, ResetSchedules, Restart
<1>22. ASSUME UNCHANGED vars PROVE Goal
  BY <1>22 DEF vars
<1> HIDE DEF Goal, Wakes, Calm
<1> QED
  BY <1>1, <1>2, <1>3, <1>4, <1>5, <1>6, <1>7, <1>8, <1>9, <1>10, <1>11, <1>12, <1>13, <1>14,
     <1>15, <1>16, <1>17, <1>18, <1>19, <1>20, <1>21, <1>22, Zenon
     DEF Next, EventLoop, Background, Handler, Loaded, Goal

\* Only an exclusive acquire joins the queue, on its arrival.
LEMMA QueueGrows ==
  [Next]_vars => \A q \in pending' : q \in pending \/ (q \in Requests /\ Exclusive(q))
<1> SUFFICES ASSUME [Next]_vars PROVE \A q \in pending' : q \in pending \/ (q \in Requests /\ Exclusive(q))
  OBVIOUS
<1>1. ASSUME NEW r \in Requests, Arrive(r)
      PROVE  \A q \in pending' : q \in pending \/ (q \in Requests /\ Exclusive(q))
  BY <1>1 DEF Arrive, queueVars
<1>2. ASSUME NEW r \in Requests, Handler(r) PROVE pending' \subseteq pending
  BY <1>2 DEF Handler, Loaded, CheckBlocked, CheckGpu, CheckCpu, TakeLock, SweepNext,
     SweepUnreadable, StopReturns, SweepEnds, StartContainer, StartReturns, ReadyEnsure,
     ReadyGrant, ReadyStale, StartupExit, StartupTimeout, DockerFails, Grant, Fail, queueVars,
     restVars
<1>3. ASSUME NEW r \in Requests, Release(r) PROVE pending' \subseteq pending
  BY <1>3 DEF Release, queueVars
<1>4. ASSUME NEW s \in Services, IdleTask(s) PROVE pending' \subseteq pending
  BY <1>4 DEF IdleTask, IdleFires, IdleTakesLock, IdleStopEnds, IdleUnreadable, queueVars
<1>5. ASSUME ResetLeases \/ ResetSchedules \/ Background \/ Restart \/ UNCHANGED vars
      PROVE  pending' \subseteq pending
  BY <1>5 DEF ResetLeases, ResetSchedules, Background, DockerStarts, DockerStops,
     ContainerCrash, ResetReads, Restart, queueVars, vars, restVars
<1> QED
  BY <1>1, <1>2, <1>3, <1>4, <1>5 DEF Next, EventLoop

\* A call that sleeps on lease_condition is blocked, whatever leases, resets and
\* failures come between its look at the leases and now; or an exclusive acquire
\* of its service, for which it waited, has failed without a word.
THEOREM NoLostWakeupHolds == Spec => []NoLostWakeup
<1>1. Init => WaitInv
  BY DEF Init, WaitInv, NoLostWakeup
<1>2. TypeInv /\ WaitInv /\ [Next]_vars => WaitInv'
<2> SUFFICES ASSUME TypeInv, WaitInv, [Next]_vars PROVE WaitInv'
  OBVIOUS
<2>1. NoLostWakeup'
  BY WakesOrCalm, CalmKeepsNoLostWakeup DEF Wakes, NoLostWakeup
<2>2. (\A q \in pending : Exclusive(q))'
  BY QueueGrows DEF WaitInv, Exclusive
<2> QED
  BY <2>1, <2>2 DEF WaitInv
<1>3. WaitInv => NoLostWakeup
  BY DEF WaitInv
<1> QED
  BY <1>1, <1>2, <1>3, TypeInvInit, TypeInvNext, PTL DEF Spec
-----------------------------------------------------------------------------
(* The gateway: its calls, releases and resets are steps of the supervisor, *)
(* so what is proved of Spec holds of the composition too.                  *)

\* Every step of the composition is a step of the supervisor or none of it.
LEMMA GatewayStepRefines == [GatewayNext]_allVars => [Next]_vars
<1> SUFFICES ASSUME [GatewayNext]_allVars PROVE [Next]_vars
  OBVIOUS
<1>1. Acquires \subseteq Requests
  BY DEF Acquires
<1>2. ASSUME NEW r \in Acquires,
             Call(r) \/ ReturnLease(r) \/ ReleaseUnheard(r)
      PROVE  Next
  BY <1>1, <1>2 DEF Call, ReturnLease, ReleaseUnheard, Next, EventLoop
<1>3. ASSUME NEW r \in Acquires, Answer(r) \/ GiveUp(r) \/ Finish(r) \/ ReleaseFails(r)
      PROVE  UNCHANGED vars
  BY <1>3 DEF Answer, GiveUp, Finish, ReleaseFails
<1>4. GatewayRestart => UNCHANGED vars
  BY DEF GatewayRestart
<1>5. GatewayStarts \/ SupervisorRestart => Next
  BY DEF GatewayStarts, SupervisorRestart, Next, EventLoop
<1>6. Unprompted => Next
  BY DEF Unprompted, Next, EventLoop
<1>7. UNCHANGED allVars => UNCHANGED vars
  BY DEF allVars
<1> QED
  BY <1>2, <1>3, <1>4, <1>5, <1>6, <1>7 DEF GatewayNext

\* The gateway drives the supervisor of the module Supervisor: whatever order of
\* calls, give-ups, retries and restarts it produces, that specification allows.
THEOREM GatewayDrivesSupervisor == GatewaySpec => Spec
<1>1. GatewayInit => Init
  BY DEF GatewayInit
<1> QED
  BY <1>1, GatewayStepRefines, PTL DEF GatewaySpec, Spec

ClientStates ==
  {"idle", "acquiring", "working", "releasing", "retrying", "aborting", "gone", "dead"}

\* A call the supervisor has heard of is one the gateway made, and a gateway
\* that has not yet reset the leases has no job.
ClientInv ==
  /\ client \in [Acquires -> ClientStates]
  /\ gateway \in {"up", "starting"}
  /\ \A r \in Acquires :
       /\ client[r] # "idle" => task[r] # "new"
       /\ gateway = "starting" => client[r] \in {"idle", "gone", "dead"}

\* What a caller that still waits or works was told is recorded.
JobInv ==
  \A r \in Acquires :
    /\ client[r] \in {"acquiring", "working"} /\ task[r] = "held" => r \in active_leases
    /\ client[r] = "working" => task[r] = "held"

\* An acquire of a process that ended began before the reset of its successor,
\* or is over.
DeadInv ==
  \A r \in Acquires :
    /\ started_epoch[r] <= lease_epoch
    /\ gateway = "up" /\ client[r] = "dead" =>
         /\ r \notin active_leases
         /\ task[r] \in {"held", "done", "failed"} \/ started_epoch[r] < lease_epoch

CallersInv == TypeInv /\ ClientInv /\ JobInv /\ DeadInv

\* What the supervisor does by itself to the call r: it may grant it in its
\* epoch, and takes nothing back.
Serves(r) ==
  /\ r \in active_leases => r \in active_leases'
  /\ task[r] = "held" => task'[r] = "held"
  /\ task[r] # "new" => task'[r] # "new"
  /\ task[r] \in {"done", "failed"} => task'[r] = task[r]
  /\ task'[r] = "held" /\ task[r] # "held" => r \in active_leases'
  /\ r \in active_leases' /\ r \notin active_leases =>
       task[r] \notin {"held", "done", "failed"} /\ Current(r)
  /\ UNCHANGED lease_epoch
  /\ started_epoch'[r] = started_epoch[r]

\* The steps of the handlers, timers and Docker.
LEMMA HandlerServes ==
  ASSUME TypeInv, NEW r \in Requests, Handler(r)
  PROVE  \A q \in Acquires : Serves(q)
<1> SUFFICES ASSUME NEW q \in Acquires PROVE Serves(q)
  OBVIOUS
<1> USE DEF TypeInv, TypeOK, Serves, Goto, leaseVars, queueVars, epochVars, restVars
<1>1. q \in Requests
  BY DEF Acquires
<1>2. ASSUME CheckBlocked(r) \/ CheckGpu(r) \/ StartReturns(r) PROVE Serves(q)
  BY <1>1, <1>2 DEF CheckBlocked, CheckGpu, StartReturns
<1>3. ASSUME CheckCpu(r) PROVE Serves(q)
  BY <1>1, <1>3 DEF CheckCpu, Grant, Notified
<1>4. ASSUME TakeLock(r) PROVE Serves(q)
  BY <1>1, <1>4 DEF TakeLock
<1>5. ASSUME NEW o \in Services, SweepNext(r, o) \/ SweepUnreadable(r, o) PROVE Serves(q)
  BY <1>1, <1>5 DEF SweepNext, SweepUnreadable
<1>6. ASSUME StopReturns(r) \/ SweepEnds(r) \/ StartContainer(r) PROVE Serves(q)
  BY <1>1, <1>6 DEF StopReturns, SweepEnds, StartContainer
<1>7. ASSUME ReadyGrant(r) PROVE Serves(q)
  BY <1>1, <1>7 DEF ReadyGrant, Grant, Notified
<1>8. ASSUME ReadyEnsure(r) \/ ReadyStale(r) \/ StartupExit(r) \/ StartupTimeout(r)
      PROVE  Serves(q)
  BY <1>1, <1>8 DEF ReadyEnsure, ReadyStale, StartupExit, StartupTimeout, Fail
<1>9. ASSUME DockerFails(r) PROVE Serves(q)
  BY <1>1, <1>9 DEF DockerFails, Fail
<1> QED
  BY <1>2, <1>3, <1>4, <1>5, <1>6, <1>7, <1>8, <1>9 DEF Handler, Loaded

LEMMA UnpromptedServes == TypeInv /\ Unprompted => \A q \in Acquires : Serves(q)
<1> SUFFICES ASSUME TypeInv, Unprompted, NEW q \in Acquires PROVE Serves(q)
  OBVIOUS
<1> USE DEF TypeInv, TypeOK, Serves, leaseVars, queueVars, epochVars, restVars
<1>1. q \in Requests
  BY DEF Acquires
<1>2. ASSUME NEW r \in Requests \ Acquires, Arrive(r) PROVE Serves(q)
  BY <1>1, <1>2 DEF Arrive, Goto
<1>3. ASSUME NEW s \in Services, IdleTask(s) PROVE Serves(q)
  BY <1>1, <1>3 DEF IdleTask, IdleFires, IdleTakesLock, IdleStopEnds, IdleUnreadable
<1>4. ASSUME ResetSchedules PROVE Serves(q)
  BY <1>1, <1>4 DEF ResetSchedules
<1>5. ASSUME Background PROVE Serves(q)
  BY <1>1, <1>5 DEF Background, DockerStarts, DockerStops, ContainerCrash, ResetReads
<1> QED
  BY <1>2, <1>3, <1>4, <1>5, HandlerServes DEF Unprompted

\* A release by the caller concerns its own lease alone.
LEMMA ReleaseOfOne ==
  ASSUME TypeInv, NEW r \in Acquires, Release(r), NEW q \in Acquires
  PROVE  /\ q # r => Serves(q)
         /\ active_leases' \subseteq active_leases
         /\ task'[r] # "new" /\ task'[r] # "held"
         /\ UNCHANGED epochVars
  BY DEF Acquires, TypeInv, TypeOK, Release, Notified, Serves, epochVars

LEMMA CallersInvInit == GatewayInit => CallersInv
<1> SUFFICES ASSUME GatewayInit PROVE CallersInv
  OBVIOUS
<1>1. TypeInv
  BY TypeInvInit DEF GatewayInit
<1>2. \A r \in Acquires : r \in Requests
  BY DEF Acquires
<1> QED
  BY <1>1, <1>2 DEF GatewayInit, Init, CallersInv, ClientInv, JobInv, DeadInv, ClientStates

LEMMA CallersInvNext == CallersInv /\ [GatewayNext]_allVars => CallersInv'
<1> SUFFICES ASSUME CallersInv, [GatewayNext]_allVars PROVE CallersInv'
  OBVIOUS
<1> DEFINE Kept == ClientInv' /\ JobInv' /\ DeadInv'
<1>1. TypeInv /\ TypeInv'
  BY GatewayStepRefines, TypeInvNext DEF CallersInv
<1>2. /\ Acquires \subseteq Requests
      /\ lease_epoch \in Nat
      /\ started_epoch \in [Requests -> Nat]
  BY <1>1, RequestsAssumption DEF Acquires, TypeInv, TypeOK
<1> USE DEF CallersInv, ClientInv, JobInv, DeadInv, ClientStates, Move
<1>3. ASSUME NEW r \in Acquires, Call(r) PROVE Kept
  BY <1>1, <1>2, <1>3 DEF Call, Serving, Arrive, Goto, leaseVars, TypeInv, TypeOK
<1>4. ASSUME NEW r \in Acquires, Answer(r) PROVE Kept
  BY <1>1, <1>2, <1>4 DEF Answer, vars, restVars, leaseVars, epochVars
<1>5. ASSUME NEW r \in Acquires, GiveUp(r) \/ Finish(r) \/ ReleaseFails(r) PROVE Kept
  BY <1>1, <1>2, <1>5 DEF GiveUp, Finish, ReleaseFails, vars, restVars, leaseVars, epochVars
<1>6. ASSUME NEW r \in Acquires, ReturnLease(r) \/ ReleaseUnheard(r) PROVE Kept
  <2>1. \A q \in Acquires :
          /\ q # r => Serves(q)
          /\ q # r => client'[q] = client[q]
        /\ active_leases' \subseteq active_leases
        /\ task'[r] \notin {"new", "held"}
        /\ UNCHANGED epochVars
    BY <1>1, <1>6, ReleaseOfOne DEF ReturnLease, ReleaseUnheard
  <2>2. client'[r] \in {"gone", "retrying"} /\ UNCHANGED gateway
    BY <1>6 DEF ReturnLease, ReleaseUnheard
  <2> QED
    BY <1>1, <1>2, <1>6, <2>1, <2>2 DEF ReturnLease, ReleaseUnheard, Serves, epochVars
<1>7. ASSUME GatewayRestart PROVE Kept
  BY <1>1, <1>2, <1>7 DEF GatewayRestart, vars, restVars, leaseVars, epochVars
<1>8. ASSUME GatewayStarts PROVE Kept
  BY <1>1, <1>2, <1>8 DEF GatewayStarts, ResetLeases, Notified, TypeInv, TypeOK
<1>9. ASSUME SupervisorRestart PROVE Kept
  BY <1>1, <1>2, <1>9 DEF SupervisorRestart, Restart, leaseVars, TypeInv, TypeOK
<1>10. ASSUME Unprompted, UNCHANGED gatewayVars PROVE Kept
  <2>1. \A q \in Acquires : Serves(q)
    BY <1>1, <1>10, UnpromptedServes
  <2> QED
    BY <1>1, <1>2, <1>10, <2>1 DEF gatewayVars, Serves, Current
<1>11. ASSUME UNCHANGED allVars PROVE Kept
  BY <1>1, <1>2, <1>11 DEF allVars, gatewayVars, vars, restVars, leaseVars, epochVars
<1> HIDE DEF CallersInv, ClientInv, JobInv, DeadInv
<1>12. Kept
  BY <1>3, <1>4, <1>5, <1>6, <1>7, <1>8, <1>9, <1>10, <1>11 DEF GatewayNext
<1> QED
  BY <1>1, <1>12 DEF CallersInv

THEOREM CallersInvariance == GatewaySpec => []CallersInv
<1> QED
  BY CallersInvInit, CallersInvNext, PTL DEF GatewaySpec

\* A job of the gateway is on a worker only under its lease.
THEOREM WorkingHoldsLeaseHolds == GatewaySpec => []WorkingHoldsLease
<1>1. CallersInv => WorkingHoldsLease
  BY DEF CallersInv, JobInv, WorkingHoldsLease
<1> QED
  BY <1>1, CallersInvariance, PTL

\* Once a gateway serves, no acquire of the process before it holds or is
\* granted a lease.
THEOREM NoLeaseOfTheDeadHolds == GatewaySpec => []NoLeaseOfTheDead
<1>1. CallersInv => NoLeaseOfTheDead
  BY DEF CallersInv, TypeInv, TypeOK, DeadInv, NoLeaseOfTheDead
<1> QED
  BY <1>1, CallersInvariance, PTL

\* The gateway's way of calling the supervisor keeps what the supervisor
\* promises about the leases.
THEOREM LeasesUnderGateway ==
  GatewaySpec => ImplementsGpuLeases /\ [](LeasedFits /\ ExclusiveIsolation /\ NoLostWakeup)
<1> QED
  BY GatewayDrivesSupervisor, Implements, LeasedFitsHolds, ExclusiveIsolationHolds,
     NoLostWakeupHolds, PTL

-----------------------------------------------------------------------------
(* Recursion over the subsets of a finite set.  The library defines a sum  *)
(* and a fold by a recursive function on subsets, from which one element   *)
(* is picked at a time; what such a function is follows from the minimal   *)
(* subsets for which it would be otherwise.                                *)

\* g is the function on the subsets of T that is b at {} and applies F to
\* the element picked and to the value of the rest.
IsFold(g, T, b, pick, F) ==
  g = [s \in SUBSET T |-> IF s = {} THEN b ELSE F[<<pick[s], g[s \ {pick[s]}]>>]]

Picks(pick, D) == \A s \in SUBSET D : s # {} => pick[s] \in s

\* A property that some subset of a finite set lacks, a minimal one lacks.
LEMMA MinimalSubset ==
  ASSUME NEW D, IsFiniteSet(D), NEW Bad \in SUBSET SUBSET D, Bad # {}
  PROVE  \E T \in Bad : \A U \in SUBSET T : U # T => U \notin Bad
<1>1. IsWellFoundedOn(StrictSubsetOrdering(D), SUBSET D)
  BY FS_StrictSubsetOrderingWellFounded, FS_FiniteSubsetsOfFinite
<1>2. PICK T \in Bad : \A U \in Bad : <<U, T>> \notin StrictSubsetOrdering(D)
  BY <1>1, WFMin
<1>3. ASSUME NEW U \in SUBSET T, U # T PROVE U \notin Bad
  BY <1>2, <1>3 DEF StrictSubsetOrdering
<1> QED
  BY <1>2, <1>3

\* Two such functions agree on the subsets of both their sets.
LEMMA FoldsAgree ==
  ASSUME NEW D, IsFiniteSet(D), NEW b, NEW pick, Picks(pick, D), NEW F,
         NEW A \in SUBSET D, NEW B \in SUBSET D
  PROVE  \A g, h : IsFold(g, A, b, pick, F) /\ IsFold(h, B, b, pick, F)
           => \A s \in SUBSET (A \cap B) : g[s] = h[s]
<1> SUFFICES ASSUME NEW g, NEW h, IsFold(g, A, b, pick, F), IsFold(h, B, b, pick, F)
             PROVE  \A s \in SUBSET (A \cap B) : g[s] = h[s]
  OBVIOUS
<1> DEFINE Bad == {s \in SUBSET (A \cap B) : g[s] # h[s]}
<1>1. SUFFICES ASSUME Bad # {} PROVE FALSE
  OBVIOUS
<1>2. Bad \in SUBSET SUBSET D
  OBVIOUS
<1> HIDE DEF Bad
<1>3. PICK T \in Bad : \A U \in SUBSET T : U # T => U \notin Bad
  BY <1>1, <1>2, MinimalSubset
<1>4. T \in SUBSET A /\ T \in SUBSET B /\ T \in SUBSET D /\ g[T] # h[T]
  BY <1>3 DEF Bad
<1>5. g[T] = IF T = {} THEN b ELSE F[<<pick[T], g[T \ {pick[T]}]>>]
  BY <1>4 DEF IsFold
<1>6. h[T] = IF T = {} THEN b ELSE F[<<pick[T], h[T \ {pick[T]}]>>]
  BY <1>4 DEF IsFold
<1>7. T # {}
  BY <1>4, <1>5, <1>6
<1>8. pick[T] \in T
  BY <1>4, <1>7 DEF Picks
<1>9. T \ {pick[T]} \notin Bad
  BY <1>3, <1>8
<1>10. g[T \ {pick[T]}] = h[T \ {pick[T]}]
  BY <1>4, <1>9 DEF Bad
<1> QED
  BY <1>4, <1>5, <1>6, <1>10

\* There is such a function.
LEMMA FoldExists ==
  ASSUME NEW D, IsFiniteSet(D), NEW b, NEW pick, Picks(pick, D), NEW F
  PROVE  \E g : IsFold(g, D, b, pick, F)
<1> DEFINE Bad == {T \in SUBSET D : ~ \E g : IsFold(g, T, b, pick, F)}
<1>1. SUFFICES ASSUME Bad # {} PROVE FALSE
  OBVIOUS
<1> HIDE DEF Bad
<1>2. Bad \in SUBSET SUBSET D
  BY DEF Bad
<1>3. PICK T \in Bad : \A U \in SUBSET T : U # T => U \notin Bad
  BY <1>1, <1>2, MinimalSubset
<1> DEFINE G == [U \in SUBSET D |-> CHOOSE g : IsFold(g, U, b, pick, F)]
<1> DEFINE Rest(s) == s \ {pick[s]}
<1> DEFINE h == [s \in SUBSET T |-> IF s = {} THEN b ELSE F[<<pick[s], G[Rest(s)][Rest(s)]>>]]
<1>4. T \in SUBSET D
  BY <1>3 DEF Bad
<1>5. ASSUME NEW U \in SUBSET T, U # T PROVE IsFold(G[U], U, b, pick, F)
  <2>1. U \in SUBSET D /\ \E g : IsFold(g, U, b, pick, F)
    BY <1>3, <1>4, <1>5 DEF Bad
  <2> QED
    BY <2>1
<1> HIDE DEF G
<1>6. ASSUME NEW s \in SUBSET T, s # {} PROVE Rest(s) \in SUBSET T /\ Rest(s) # T /\ Rest(s) # s
  BY <1>4, <1>6 DEF Picks
<1>7. ASSUME NEW V \in SUBSET T, V # T PROVE h[V] = G[V][V]
  <2>1. CASE V = {}
    BY <2>1, <1>5, <1>7 DEF IsFold
  <2>2. CASE V # {}
    <3>1. Rest(V) \in SUBSET T /\ Rest(V) # T /\ Rest(V) \in SUBSET V
      BY <1>6, <2>2
    <3>2. h[V] = F[<<pick[V], G[Rest(V)][Rest(V)]>>]
      BY <2>2
    <3>3. IsFold(G[V], V, b, pick, F)
      BY <1>5, <1>7
    <3>4. G[V][V] = F[<<pick[V], G[V][Rest(V)]>>]
      BY <2>2, <3>3 DEF IsFold
    <3>5. IsFold(G[Rest(V)], Rest(V), b, pick, F)
      BY <1>5, <3>1
    <3>6. Rest(V) \in SUBSET D /\ V \in SUBSET D /\ Rest(V) \in SUBSET (V \cap Rest(V))
      BY <1>4, <3>1
    <3> HIDE DEF Rest, h
    <3>7. \A g, k : IsFold(g, V, b, pick, F) /\ IsFold(k, Rest(V), b, pick, F)
            => \A s \in SUBSET (V \cap Rest(V)) : g[s] = k[s]
      BY <3>6, FoldsAgree
    <3>8. \A s \in SUBSET (V \cap Rest(V)) : G[V][s] = G[Rest(V)][s]
      BY <3>3, <3>5, <3>7
    <3>9. G[V][Rest(V)] = G[Rest(V)][Rest(V)]
      BY <3>6, <3>8
    <3> QED
      BY <3>2, <3>4, <3>9
  <2> QED
    BY <2>1, <2>2
<1>8. ASSUME NEW s \in SUBSET T, s # {} PROVE h[s] = F[<<pick[s], h[Rest(s)]>>]
  <2>1. h[s] = F[<<pick[s], G[Rest(s)][Rest(s)]>>]
    BY <1>8
  <2>2. h[Rest(s)] = G[Rest(s)][Rest(s)]
    BY <1>6, <1>7, <1>8
  <2> HIDE DEF h
  <2> QED
    BY <2>1, <2>2
<1>9. h = [s \in SUBSET T |-> IF s = {} THEN b ELSE F[<<pick[s], h[Rest(s)]>>]]
  <2> DEFINE k == [s \in SUBSET T |-> IF s = {} THEN b ELSE F[<<pick[s], h[Rest(s)]>>]]
  <2>1. ASSUME NEW s \in SUBSET T PROVE h[s] = k[s]
    <3>1. CASE s = {}
      BY <3>1
    <3>2. CASE s # {}
      <4>1. k[s] = F[<<pick[s], h[Rest(s)]>>]
        BY <3>2
      <4> QED
        BY <3>2, <4>1, <1>8
    <3> QED
      BY <3>1, <3>2
  <2> QED
    BY <2>1
<1> HIDE DEF h
<1>10. IsFold(h, T, b, pick, F)
  BY <1>9 DEF IsFold
<1> QED
  BY <1>3, <1>10 DEF Bad

\* Its values are of the type that b has and F keeps.
LEMMA FoldsTyped ==
  ASSUME NEW D, IsFiniteSet(D), NEW b, NEW pick, Picks(pick, D), NEW F, NEW W,
         b \in W, \A x \in D : \A v \in W : F[<<x, v>>] \in W,
         NEW g, IsFold(g, D, b, pick, F)
  PROVE  \A s \in SUBSET D : g[s] \in W
<1> DEFINE Bad == {s \in SUBSET D : g[s] \notin W}
<1>1. SUFFICES ASSUME Bad # {} PROVE FALSE
  OBVIOUS
<1>2. Bad \in SUBSET SUBSET D
  OBVIOUS
<1> HIDE DEF Bad
<1>3. PICK T \in Bad : \A U \in SUBSET T : U # T => U \notin Bad
  BY <1>1, <1>2, MinimalSubset
<1>4. T \in SUBSET D /\ g[T] \notin W
  BY <1>3 DEF Bad
<1>5. g[T] = IF T = {} THEN b ELSE F[<<pick[T], g[T \ {pick[T]}]>>]
  BY <1>4 DEF IsFold
<1>6. T # {}
  BY <1>4, <1>5
<1>7. pick[T] \in T
  BY <1>4, <1>6 DEF Picks
<1>8. T \ {pick[T]} \in SUBSET D /\ T \ {pick[T]} \notin Bad
  BY <1>3, <1>4, <1>7
<1>9. g[T \ {pick[T]}] \in W
  BY <1>8 DEF Bad
<1>10. pick[T] \in D
  BY <1>4, <1>7
<1> QED
  BY <1>4, <1>5, <1>6, <1>9, <1>10
-----------------------------------------------------------------------------
(* The memory that a set of workers reserves.                              *)

Measurable(c, S) == IsFiniteSet(S) /\ \A s \in S : c.vram[s] \in Nat

\* What the library makes of a sum over the subsets of S.
Sums(g, c, S) ==
  g = [s \in SUBSET S |->
         IF s = {} THEN 0
         ELSE c.vram[CHOOSE x \in s : TRUE] + g[s \ {CHOOSE x \in s : TRUE}]]

AnyOf(D) == [s \in SUBSET D |-> CHOOSE x \in s : TRUE]
Adds(c, D) == [p \in D \X Nat |-> c.vram[p[1]] + p[2]]

LEMMA AnyOfPicks == ASSUME NEW D PROVE \A S \in SUBSET D : Picks(AnyOf(D), S)
  BY DEF Picks, AnyOf

LEMMA ReservedIsSum ==
  ASSUME NEW c, NEW S
  PROVE  Reserved(c, S) = (CHOOSE g : Sums(g, c, S))[S]
  BY DEF Reserved, MapThenSumSet, MapThenFoldSet, Sums

\* A sum of natural numbers is one.
LEMMA SumsNat ==
  ASSUME NEW c, NEW S, Measurable(c, S), NEW g, Sums(g, c, S)
  PROVE  \A s \in SUBSET S : g[s] \in Nat
<1> DEFINE Bad == {s \in SUBSET S : g[s] \notin Nat}
<1>1. SUFFICES ASSUME Bad # {} PROVE FALSE
  OBVIOUS
<1>2. Bad \in SUBSET SUBSET S
  OBVIOUS
<1> HIDE DEF Bad
<1>3. PICK T \in Bad : \A U \in SUBSET T : U # T => U \notin Bad
  BY <1>1, <1>2, MinimalSubset DEF Measurable
<1>4. T \in SUBSET S /\ g[T] \notin Nat
  BY <1>3 DEF Bad
<1>5. PICK x : x = CHOOSE y \in T : TRUE
  OBVIOUS
<1>6. g[T] = IF T = {} THEN 0 ELSE c.vram[x] + g[T \ {x}]
  BY <1>4, <1>5 DEF Sums
<1>7. T # {} /\ x \in T
  BY <1>4, <1>5, <1>6
<1>8. T \ {x} \in SUBSET S /\ T \ {x} \notin Bad
  BY <1>3, <1>4, <1>7
<1>9. g[T \ {x}] \in Nat
  BY <1>8 DEF Bad
<1>10. c.vram[x] \in Nat
  BY <1>4, <1>7 DEF Measurable
<1> QED
  BY <1>4, <1>6, <1>7, <1>9, <1>10

\* Such a function is the fold that adds, and the other way round.
LEMMA SumsFold ==
  ASSUME NEW c, NEW D, NEW S \in SUBSET D, Measurable(c, S), NEW g,
         \A s \in SUBSET S : g[s] \in Nat
  PROVE  Sums(g, c, S) <=> IsFold(g, S, 0, AnyOf(D), Adds(c, D))
<1> DEFINE k == [s \in SUBSET S |->
         IF s = {} THEN 0
         ELSE c.vram[CHOOSE x \in s : TRUE] + g[s \ {CHOOSE x \in s : TRUE}]]
<1> DEFINE h == [s \in SUBSET S |->
         IF s = {} THEN 0 ELSE Adds(c, D)[<<AnyOf(D)[s], g[s \ {AnyOf(D)[s]}]>>]]
<1>1. ASSUME NEW s \in SUBSET S PROVE k[s] = h[s]
<2>1. CASE s = {}
  BY <2>1
<2>2. CASE s # {}
<3>1. PICK x : x = CHOOSE y \in s : TRUE
  OBVIOUS
<3>2. x \in s /\ x \in D /\ AnyOf(D)[s] = x
  BY <2>2, <3>1 DEF AnyOf
<3>3. s \ {x} \in SUBSET S
  OBVIOUS
<3>4. g[s \ {x}] \in Nat
  BY <3>3
<3>5. <<x, g[s \ {x}]>> \in D \X Nat
  BY <3>2, <3>4
<3>6. Adds(c, D)[<<x, g[s \ {x}]>>] = c.vram[x] + g[s \ {x}]
  BY <3>5 DEF Adds
<3>7. k[s] = c.vram[x] + g[s \ {x}]
  BY <2>2, <3>1
<3>8. h[s] = Adds(c, D)[<<x, g[s \ {x}]>>]
  BY <2>2, <3>2
<3> QED
  BY <3>6, <3>7, <3>8
<2> QED
  BY <2>1, <2>2
<1>2. k = h
  BY <1>1
<1>3. Sums(g, c, S) <=> g = k
  BY DEF Sums
<1>4. IsFold(g, S, 0, AnyOf(D), Adds(c, D)) <=> g = h
  BY DEF IsFold
<1> HIDE DEF k, h
<1> QED
  BY <1>2, <1>3, <1>4

\* The sum over S is the value at S of a fold.
LEMMA ReservedFolds ==
  ASSUME NEW c, NEW D, NEW S \in SUBSET D, Measurable(c, S)
  PROVE  \E g : /\ IsFold(g, S, 0, AnyOf(D), Adds(c, D))
                /\ \A s \in SUBSET S : g[s] \in Nat
                /\ Reserved(c, S) = g[S]
<1>1. Picks(AnyOf(D), S)
  BY AnyOfPicks
<1>2. PICK h : IsFold(h, S, 0, AnyOf(D), Adds(c, D))
  BY <1>1, FoldExists DEF Measurable
<1>3. \A x \in S : \A v \in Nat : Adds(c, D)[<<x, v>>] \in Nat
<2>1. ASSUME NEW x \in S, NEW v \in Nat PROVE Adds(c, D)[<<x, v>>] \in Nat
<3>1. <<x, v>> \in D \X Nat /\ c.vram[x] \in Nat
  BY DEF Measurable
<3>2. Adds(c, D)[<<x, v>>] = c.vram[x] + v
  BY <3>1 DEF Adds
<3> QED
  BY <3>1, <3>2
<2> QED
  BY <2>1
<1>4. \A s \in SUBSET S : h[s] \in Nat
<2>1. IsFiniteSet(S) /\ 0 \in Nat
  BY DEF Measurable
<2> QED
  BY <1>1, <1>2, <1>3, <2>1, FoldsTyped
<1>5. Sums(h, c, S)
  BY <1>2, <1>4, SumsFold
<1>6. PICK g : g = CHOOSE k : Sums(k, c, S)
  OBVIOUS
<1>7. Sums(g, c, S)
  BY <1>5, <1>6
<1>8. \A s \in SUBSET S : g[s] \in Nat
  BY <1>7, SumsNat
<1>9. IsFold(g, S, 0, AnyOf(D), Adds(c, D))
  BY <1>7, <1>8, SumsFold
<1>10. Reserved(c, S) = g[S]
  BY <1>6, ReservedIsSum
<1> QED
  BY <1>8, <1>9, <1>10

LEMMA MeasurableSubset ==
  ASSUME NEW c, NEW S, Measurable(c, S), NEW T \in SUBSET S
  PROVE  Measurable(c, T)
  BY FS_Subset DEF Measurable

LEMMA ReservedNat ==
  ASSUME NEW c, NEW S, Measurable(c, S)
  PROVE  Reserved(c, S) \in Nat
<1>1. \E g : /\ IsFold(g, S, 0, AnyOf(S), Adds(c, S))
             /\ \A s \in SUBSET S : g[s] \in Nat
             /\ Reserved(c, S) = g[S]
  BY ReservedFolds
<1> QED
  BY <1>1

\* The element picked first is added to the sum of the rest.
LEMMA ReservedPicks ==
  ASSUME NEW c, NEW S, Measurable(c, S), S # {}
  PROVE  \E x \in S : Reserved(c, S)
                        = c.vram[x] + Reserved(c, S \ {x})
<1>1. PICK x : x = AnyOf(S)[S]
  OBVIOUS
<1>2. x \in S
  BY <1>1 DEF AnyOf
<1>3. PICK R : R = S \ {x}
  OBVIOUS
<1>4. R \in SUBSET S /\ Measurable(c, R)
  BY <1>3, MeasurableSubset
<1>5. PICK g : /\ IsFold(g, S, 0, AnyOf(S), Adds(c, S))
               /\ \A s \in SUBSET S : g[s] \in Nat
               /\ Reserved(c, S) = g[S]
  BY ReservedFolds
<1>6. PICK h : /\ IsFold(h, R, 0, AnyOf(S), Adds(c, S))
               /\ \A s \in SUBSET R : h[s] \in Nat
               /\ Reserved(c, R) = h[R]
  BY <1>4, ReservedFolds
<1>7. g[S] = Adds(c, S)[<<x, g[R]>>]
  BY <1>1, <1>3, <1>5 DEF IsFold
<1>8. <<x, g[R]>> \in S \X Nat
  BY <1>2, <1>4, <1>5
<1>9. g[S] = c.vram[x] + g[R]
  BY <1>7, <1>8 DEF Adds
<1>10. g[R] = h[R]
<2>1. Picks(AnyOf(S), S) /\ IsFiniteSet(S) /\ S \in SUBSET S
  BY AnyOfPicks DEF Measurable
<2>2. \A u, v : IsFold(u, S, 0, AnyOf(S), Adds(c, S)) /\ IsFold(v, R, 0, AnyOf(S), Adds(c, S))
        => \A s \in SUBSET (S \cap R) : u[s] = v[s]
  BY <1>4, <2>1, FoldsAgree
<2> QED
  BY <1>4, <1>5, <1>6, <2>2
<1> QED
  BY <1>2, <1>3, <1>5, <1>6, <1>9, <1>10

\* So is any other element: the order in which they are picked does not matter.
LEMMA ReservedRemoves ==
  ASSUME NEW c, NEW D, Measurable(c, D)
  PROVE  \A S \in SUBSET D : \A s \in S :
           Reserved(c, S) = c.vram[s] + Reserved(c, S \ {s})
<1> DEFINE Splits(S) == \A s \in S :
             Reserved(c, S) = c.vram[s] + Reserved(c, S \ {s})
<1> DEFINE Bad == {S \in SUBSET D : ~Splits(S)}
<1>1. SUFFICES ASSUME Bad # {} PROVE FALSE
  OBVIOUS
<1>2. Bad \in SUBSET SUBSET D
  OBVIOUS
<1> HIDE DEF Bad
<1>3. PICK S \in Bad : \A U \in SUBSET S : U # S => U \notin Bad
  BY <1>1, <1>2, MinimalSubset DEF Measurable
<1>4. S \in SUBSET D /\ Measurable(c, S)
  BY <1>3, MeasurableSubset DEF Bad
<1>5. PICK s \in S : Reserved(c, S) # c.vram[s] + Reserved(c, S \ {s})
  BY <1>3 DEF Bad
<1>6. PICK x \in S : Reserved(c, S) = c.vram[x] + Reserved(c, S \ {x})
  BY <1>4, <1>5, ReservedPicks
<1>7. x # s
  BY <1>5, <1>6
<1>8. PICK U : U = S \ {x}
  OBVIOUS
<1>9. PICK V : V = S \ {s}
  OBVIOUS
<1>10. PICK R : R = (S \ {x}) \ {s}
  OBVIOUS
<1>11. /\ U \in SUBSET D /\ U \notin Bad /\ s \in U /\ U \ {s} = R
       /\ V \in SUBSET D /\ V \notin Bad /\ x \in V /\ V \ {x} = R
  BY <1>3, <1>4, <1>7, <1>8, <1>9, <1>10
<1>12. /\ Reserved(c, U) = c.vram[s] + Reserved(c, R)
       /\ Reserved(c, V) = c.vram[x] + Reserved(c, R)
  BY <1>11 DEF Bad
<1>13. Measurable(c, R) /\ c.vram[s] \in Nat /\ c.vram[x] \in Nat
<2>1. R \in SUBSET S
  BY <1>10
<2> QED
  BY <1>4, <2>1, MeasurableSubset DEF Measurable
<1>14. Reserved(c, R) \in Nat
  BY <1>13, ReservedNat
<1>15. /\ Reserved(c, S) = c.vram[x] + Reserved(c, U)
       /\ Reserved(c, S) # c.vram[s] + Reserved(c, V)
  BY <1>5, <1>6, <1>8, <1>9
<1> QED
  BY <1>12, <1>13, <1>14, <1>15

\* A worker less never reserves more.
LEMMA ReservedShrinks ==
  ASSUME NEW c, NEW D, Measurable(c, D), NEW T \in SUBSET D
  PROVE  Reserved(c, T) <= Reserved(c, D)
<1> DEFINE Bad == {S \in SUBSET D : T \subseteq S
                     /\ ~(Reserved(c, T) <= Reserved(c, S))}
<1>1. SUFFICES ASSUME Bad # {} PROVE FALSE
  OBVIOUS
<1>2. Bad \in SUBSET SUBSET D
  OBVIOUS
<1> HIDE DEF Bad
<1>3. PICK S \in Bad : \A U \in SUBSET S : U # S => U \notin Bad
  BY <1>1, <1>2, MinimalSubset DEF Measurable
<1>4. /\ S \in SUBSET D /\ T \subseteq S
      /\ ~(Reserved(c, T) <= Reserved(c, S))
  BY <1>3 DEF Bad
<1>5. Reserved(c, T) \in Nat
  BY MeasurableSubset, ReservedNat
<1>6. PICK s \in S : s \notin T
  BY <1>4, <1>5
<1>7. PICK U : U = S \ {s}
  OBVIOUS
<1>8. U \in SUBSET D /\ T \subseteq U /\ U \notin Bad
  BY <1>3, <1>4, <1>6, <1>7
<1>9. Reserved(c, T) <= Reserved(c, U)
  BY <1>8 DEF Bad
<1>10. Reserved(c, S) = c.vram[s] + Reserved(c, U)
  BY <1>4, <1>6, <1>7, ReservedRemoves
<1>11. Reserved(c, U) \in Nat /\ c.vram[s] \in Nat
  BY <1>4, <1>8, MeasurableSubset, ReservedNat DEF Measurable
<1> QED
  BY <1>4, <1>5, <1>9, <1>10, <1>11
-----------------------------------------------------------------------------
(* Admission by the resource scheduler, for every configuration that       *)
(* passes validation.                                                      *)

\* What validation says of a set of services.
LEMMA ValidParts ==
  ASSUME NEW c \in Configs, NEW S \in SUBSET Workers
  PROVE  /\ c.mode \in {"compatibility", "resource"}
         /\ c.total \in Nat \cup {Unknown} /\ c.headroom \in Nat \cup {Unknown}
         /\ \A s \in S : c.vram[s] \in Nat \cup {Unknown}
         /\ Unknown \notin Nat
         /\ IsFiniteSet(S) /\ Cardinality(S) \in Nat
<1>1. ValidConfig(c) /\ Unknown \notin Nat /\ IsFiniteSet(Workers)
  BY ConfigsAssumption
<1>2. IsFiniteSet(S)
  BY <1>1, FS_Subset
<1>3. Cardinality(S) \in Nat
  BY <1>2, FS_CardinalityType
<1>4. \A s \in S : c.vram[s] \in Nat \cup {Unknown}
  BY <1>1 DEF ValidConfig
<1> QED
  BY <1>1, <1>2, <1>3, <1>4 DEF ValidConfig

LEMMA MeasuredReserved ==
  ASSUME NEW c \in Configs, NEW S \in SUBSET Workers,
         \A s \in S : c.vram[s] # Unknown
  PROVE  Measurable(c, S) /\ Reserved(c, S) \in Nat
<1>1. Measurable(c, S)
  BY ValidParts DEF Measurable
<1> QED
  BY <1>1, ReservedNat

LEMMA SharesNothing ==
  ASSUME NEW c \in Configs
  PROVE  ShareGpu(c, {})
<1>1. Cardinality({}) = 0
  BY FS_EmptySet
<1>2. c.mode \in {"compatibility", "resource"}
  BY ConfigsAssumption DEF ValidConfig
<1>3. CASE c.mode = "compatibility"
  BY <1>1, <1>3 DEF ShareGpu
<1>4. CASE c.mode = "resource"
  BY <1>1, <1>4 DEF ShareGpu
<1> QED
  BY <1>2, <1>3, <1>4

\* A set that shares the GPU goes on sharing it when workers leave.
LEMMA SharesShrinks ==
  ASSUME NEW c \in Configs,
         NEW S \in SUBSET Workers, NEW T \in SUBSET S, ShareGpu(c, S)
  PROVE  ShareGpu(c, T)
<1>1. IsFiniteSet(S) /\ Cardinality(S) \in Nat /\ Cardinality(T) \in Nat
  BY ValidParts
<1>2. Cardinality(T) <= Cardinality(S)
  BY <1>1, FS_Subset
<1>3. CASE c.mode = "compatibility"
<2>1. Cardinality(S) <= 1
  BY <1>3 DEF ShareGpu
<2> QED
  BY <1>1, <1>2, <1>3, <2>1 DEF ShareGpu
<1>4. CASE c.mode = "resource"
<2>1. /\ Cardinality(S) > 1 => S \cap c.exclusive = {}
      /\ \A s, t \in S : s # t => c.groups[s] \cap c.groups[t] # {}
      /\ \A s \in S : Unknown \notin {c.total, c.headroom, c.vram[s]}
      /\ S # {} => c.total - Reserved(c, S) >= c.headroom
  BY <1>4 DEF ShareGpu
<2>2. Cardinality(T) > 1 => T \cap c.exclusive = {}
<3>1. Cardinality(T) > 1 => Cardinality(S) > 1
  BY <1>1, <1>2
<3> QED
  BY <2>1, <3>1
<2>3. T # {} => c.total - Reserved(c, T) >= c.headroom
<3> SUFFICES ASSUME T # {} PROVE c.total - Reserved(c, T) >= c.headroom
  OBVIOUS
<3>1. c.total \in Nat /\ c.headroom \in Nat
  BY <2>1, ValidParts
<3>2. Measurable(c, S) /\ Reserved(c, S) \in Nat
  BY <2>1, MeasuredReserved
<3>3. Reserved(c, T) \in Nat
  BY <2>1, MeasuredReserved
<3>4. Reserved(c, T) <= Reserved(c, S)
  BY <3>2, ReservedShrinks
<3>5. c.total - Reserved(c, S) >= c.headroom
  BY <2>1
<3> QED
  BY <3>1, <3>2, <3>3, <3>4, <3>5
<2> QED
  BY <1>4, <2>1, <2>2, <2>3 DEF ShareGpu
<1> QED
  BY <1>3, <1>4, ValidParts

\* What is admitted beside GPU workers that share the GPU shares it with them.
LEMMA AdmittedShares ==
  ASSUME NEW c \in Configs, NEW A \in SUBSET Workers,
         NEW s \in Workers,
         ShareGpu(c, A \cap c.gpu), Admits(c, s, A)
  PROVE  ShareGpu(c, (A \cup {s}) \cap c.gpu)
<1>1. CASE s \in A \/ s \notin c.gpu
<2>1. (A \cup {s}) \cap c.gpu = A \cap c.gpu
  BY <1>1
<2> QED
  BY <2>1
<1>2. CASE s \notin A /\ s \in c.gpu
<2>1. PICK S : S = A \cap c.gpu
  OBVIOUS
<2>2. PICK J : J = S \cup {s}
  OBVIOUS
<2>3. /\ (A \cap c.gpu) \ {s} = S /\ (A \cup {s}) \cap c.gpu = J
      /\ S \in SUBSET Workers /\ J \in SUBSET Workers /\ s \notin S
  BY <1>2, <2>1, <2>2
<2>4. \/ c.mode = "compatibility" /\ S = {}
      \/ /\ c.mode = "resource"
         /\ S # {} => J \cap c.exclusive = {}
         /\ \A t \in S : c.groups[s] \cap c.groups[t] # {}
         /\ CapacityHolds(c, J)
  BY <1>2, <2>2, <2>3 DEF Admits
<2>5. Cardinality(S) \in Nat /\ IsFiniteSet(S) /\ Cardinality(J) = Cardinality(S) + 1
  BY <2>2, <2>3, ValidParts, FS_AddElement
<2>6. CASE c.mode = "compatibility" /\ S = {}
<3>1. Cardinality(J) = 1
  BY <2>5, <2>6, FS_EmptySet
<3> QED
  BY <2>3, <2>6, <3>1 DEF ShareGpu
<2>7. CASE /\ c.mode = "resource"
           /\ S # {} => J \cap c.exclusive = {}
           /\ \A t \in S : c.groups[s] \cap c.groups[t] # {}
           /\ CapacityHolds(c, J)
<3>1. Cardinality(J) > 1 => J \cap c.exclusive = {}
<4>1. S = {} => Cardinality(J) = 1
  BY <2>5, FS_EmptySet
<4> QED
  BY <2>7, <4>1
<3>2. ASSUME NEW u \in J, NEW t \in J, u # t PROVE c.groups[u] \cap c.groups[t] # {}
<4>1. \A x, y \in S : x # y => c.groups[x] \cap c.groups[y] # {}
  BY <2>1, <2>7 DEF ShareGpu
<4> QED
  BY <2>2, <2>7, <3>2, <4>1
<3>3. /\ c.total # Unknown /\ c.headroom # Unknown
      /\ \A x \in J : c.vram[x] # Unknown
      /\ Reserved(c, J) + c.headroom <= c.total
  BY <2>7 DEF CapacityHolds, Measured
<3>4. c.total \in Nat /\ c.headroom \in Nat
  BY <2>3, <3>3, ValidParts
<3>5. Reserved(c, J) \in Nat
  BY <2>3, <3>3, MeasuredReserved
<3>6. c.total - Reserved(c, J) >= c.headroom
  BY <3>3, <3>4, <3>5
<3> QED
  BY <2>3, <2>7, <3>1, <3>2, <3>3, <3>6 DEF ShareGpu
<2> QED
  BY <2>4, <2>6, <2>7
<1> QED
  BY <1>1, <1>2

\* What is refused could not have shared the GPU with the workers allocated.
LEMMA RefusedCannotShare ==
  ASSUME NEW c \in Configs, NEW A \in SUBSET Workers,
         NEW s \in c.gpu, ~Admits(c, s, A)
  PROVE  ~ShareGpu(c, (A \cap c.gpu) \cup {s})
<1>1. s \notin A /\ s \in Workers
<2>1. s \notin A
  BY DEF Admits
<2>2. c.gpu \subseteq Workers
  BY ConfigsAssumption DEF ValidConfig
<2> QED
  BY <2>1, <2>2
<1>2. PICK S : S = A \cap c.gpu
  OBVIOUS
<1>3. PICK J : J = S \cup {s}
  OBVIOUS
<1>4. (A \cap c.gpu) \ {s} = S /\ S \in SUBSET Workers /\ J \in SUBSET Workers /\ s \notin S
  BY <1>1, <1>2, <1>3
<1>5. Cardinality(S) \in Nat /\ IsFiniteSet(S) /\ Cardinality(J) = Cardinality(S) + 1
  BY <1>3, <1>4, ValidParts, FS_AddElement
<1>6. S # {} => Cardinality(J) > 1
  BY <1>5, FS_EmptySet
<1>7. SUFFICES ASSUME ShareGpu(c, J) PROVE FALSE
  BY <1>2, <1>3
<1>8. CASE c.mode = "compatibility"
<2>1. S # {}
  BY <1>4, <1>8 DEF Admits
<2>2. Cardinality(J) <= 1
  BY <1>7, <1>8 DEF ShareGpu
<2> QED
  BY <1>5, <1>6, <2>1, <2>2
<1>9. CASE c.mode = "resource"
<2>1. /\ Cardinality(J) > 1 => J \cap c.exclusive = {}
      /\ \A x, t \in J : x # t => c.groups[x] \cap c.groups[t] # {}
      /\ \A x \in J : Unknown \notin {c.total, c.headroom, c.vram[x]}
      /\ J # {} => c.total - Reserved(c, J) >= c.headroom
  BY <1>7, <1>9 DEF ShareGpu
<2>2. S # {} => J \cap c.exclusive = {}
  BY <1>6, <2>1
<2>3. \A t \in S : c.groups[s] \cap c.groups[t] # {}
  BY <1>3, <1>4, <2>1
<2>4. CapacityHolds(c, J)
<3>1. s \in J
  BY <1>3
<3>2. c.total \in Nat /\ c.headroom \in Nat
  BY <1>4, <2>1, <3>1, ValidParts
<3>3. Reserved(c, J) \in Nat
  BY <1>4, <2>1, MeasuredReserved
<3>4. Reserved(c, J) + c.headroom <= c.total
  BY <2>1, <3>1, <3>2, <3>3
<3> QED
  BY <2>1, <3>1, <3>4 DEF CapacityHolds, Measured
<2>5. Admits(c, s, A)
  BY <1>3, <1>4, <1>9, <2>2, <2>3, <2>4 DEF Admits
<2> QED
  BY <2>5
<1> QED
  BY <1>4, <1>8, <1>9, ValidParts

-----------------------------------------------------------------------------
(* The resident plan is a fold over the places of the preference.          *)

Places == DOMAIN Preference

\* The step that resident_plan takes for one service.
Considered(c, A, s, selected) ==
  IF Admits(c, s, A \cup selected) THEN selected \cup {s} ELSE selected

\* What the library makes of a fold from the left over the preference.
Plans(g, c, A) ==
  g = [s \in SUBSET Places |->
         IF s = {} THEN {}
         ELSE Considered(c, A, Preference[Max(s)], g[s \ {Max(s)}])]

LastOf == [s \in SUBSET Places |-> Max(s)]
Considers(c, A) ==
  [p \in Places \X SUBSET Workers |-> Considered(c, A, Preference[p[1]], p[2])]

LEMMA ResidentPlanIsFold ==
  ASSUME NEW c, NEW A
  PROVE  ResidentPlan(c, A) = (CHOOSE g : Plans(g, c, A))[Places]
  BY DEF ResidentPlan, FoldLeft, MapThenFoldSet, Plans, Considered, Places

LEMMA PlacesFinite == IsFiniteSet(Places) /\ \A i \in Places : i \in Nat /\ Preference[i] \in Workers
<1>1. Preference \in Seq(Workers)
  BY ConfigsAssumption
<1>2. Len(Preference) \in Nat /\ Places = 1..Len(Preference)
  BY <1>1 DEF Places
<1>3. IsFiniteSet(1..Len(Preference))
  BY <1>2, FS_Interval
<1>4. \A i \in 1..Len(Preference) : i \in Nat /\ Preference[i] \in Workers
  BY <1>1
<1> QED
  BY <1>2, <1>3, <1>4

\* A set of places that is not empty has a last one.
LEMMA LastPicks == Picks(LastOf, Places)
<1>1. SUFFICES ASSUME NEW S \in SUBSET Places, S # {} PROVE LastOf[S] \in S
  BY DEF Picks
<1>2. IsFiniteSet(S) /\ S \subseteq Nat
  BY PlacesFinite, FS_Subset
<1>3. \E x \in S : \A y \in S : x >= y
<2> DEFINE Above == {{y \in S : y > x} : x \in S}
<2>1. Above \in SUBSET SUBSET S /\ Above # {}
  BY <1>1
<2> HIDE DEF Above
<2>2. PICK T \in Above : \A U \in SUBSET T : U # T => U \notin Above
  BY <1>2, <2>1, MinimalSubset
<2>3. PICK x \in S : T = {y \in S : y > x}
  BY <2>2 DEF Above
<2>4. ASSUME NEW y \in S, y > x PROVE FALSE
<3>1. PICK U : U = {z \in S : z > y}
  OBVIOUS
<3>2. U \in Above
  BY <3>1 DEF Above
<3>3. x \in Nat /\ y \in Nat /\ \A z \in S : z \in Nat
  BY <1>2
<3>4. y \in T /\ y \notin U
  BY <2>3, <2>4, <3>1, <3>3
<3>5. ASSUME NEW z \in U PROVE z \in T
<4>1. z \in S /\ z \in Nat /\ z > y
  BY <3>1, <3>3, <3>5
<4> QED
  BY <2>3, <2>4, <3>3, <4>1
<3> QED
  BY <2>2, <3>2, <3>4, <3>5
<2> QED
  BY <1>2, <2>3, <2>4
<1>4. LastOf[S] = Max(S)
  BY DEF LastOf
<1> QED
  BY <1>3, <1>4 DEF Max

\* Whatever the plan considers, it stays a set of services.
LEMMA ConsideredTyped ==
  ASSUME NEW c, NEW A, NEW i \in Places, NEW X \in SUBSET Workers
  PROVE  /\ Considered(c, A, Preference[i], X) \in SUBSET Workers
         /\ Considers(c, A)[<<i, X>>] = Considered(c, A, Preference[i], X)
<1>1. Preference[i] \in Workers
  BY PlacesFinite
<1>2. <<i, X>> \in Places \X SUBSET Workers
  OBVIOUS
<1> QED
  BY <1>1, <1>2 DEF Considered, Considers

LEMMA PlansTyped ==
  ASSUME NEW c, NEW A, NEW g, Plans(g, c, A)
  PROVE  \A s \in SUBSET Places : g[s] \in SUBSET Workers
<1> DEFINE Bad == {s \in SUBSET Places : g[s] \notin SUBSET Workers}
<1>1. SUFFICES ASSUME Bad # {} PROVE FALSE
  OBVIOUS
<1>2. Bad \in SUBSET SUBSET Places
  OBVIOUS
<1> HIDE DEF Bad
<1>3. PICK T \in Bad : \A U \in SUBSET T : U # T => U \notin Bad
  BY <1>1, <1>2, PlacesFinite, MinimalSubset
<1>4. T \in SUBSET Places /\ g[T] \notin SUBSET Workers
  BY <1>3 DEF Bad
<1>5. PICK i : i = Max(T)
  OBVIOUS
<1>6. g[T] = IF T = {} THEN {} ELSE Considered(c, A, Preference[i], g[T \ {i}])
  BY <1>4, <1>5 DEF Plans
<1>7. T # {}
  BY <1>4, <1>6
<1>8. i \in T
  BY <1>4, <1>5, <1>7, LastPicks DEF Picks, LastOf
<1>9. T \ {i} \in SUBSET Places /\ T \ {i} \notin Bad
  BY <1>3, <1>4, <1>8
<1>10. PICK X \in SUBSET Workers : X = g[T \ {i}]
  BY <1>9 DEF Bad
<1>11. i \in Places
  BY <1>4, <1>8
<1>12. Considered(c, A, Preference[i], X) \in SUBSET Workers
  BY <1>11, ConsideredTyped
<1> QED
  BY <1>4, <1>6, <1>7, <1>10, <1>12

\* Such a function is the fold that considers, and the other way round.
LEMMA PlansFold ==
  ASSUME NEW c, NEW A, NEW g, \A s \in SUBSET Places : g[s] \in SUBSET Workers
  PROVE  Plans(g, c, A) <=> IsFold(g, Places, {}, LastOf, Considers(c, A))
<1> DEFINE k == [s \in SUBSET Places |->
         IF s = {} THEN {}
         ELSE Considered(c, A, Preference[Max(s)], g[s \ {Max(s)}])]
<1> DEFINE h == [s \in SUBSET Places |->
         IF s = {} THEN {} ELSE Considers(c, A)[<<LastOf[s], g[s \ {LastOf[s]}]>>]]
<1>1. ASSUME NEW s \in SUBSET Places PROVE k[s] = h[s]
<2>1. CASE s = {}
  BY <2>1
<2>2. CASE s # {}
<3>1. PICK i : i = Max(s)
  OBVIOUS
<3>2. LastOf[s] = i /\ i \in Places
  BY <2>2, <3>1, LastPicks DEF LastOf, Picks
<3>3. s \ {i} \in SUBSET Places
  OBVIOUS
<3>4. PICK X \in SUBSET Workers : X = g[s \ {i}]
  BY <3>3
<3>5. Considers(c, A)[<<i, X>>] = Considered(c, A, Preference[i], X)
  BY <3>2, ConsideredTyped
<3>6. k[s] = Considered(c, A, Preference[i], g[s \ {i}])
  BY <2>2, <3>1
<3>7. h[s] = Considers(c, A)[<<i, g[s \ {i}]>>]
  BY <2>2, <3>2
<3> QED
  BY <3>4, <3>5, <3>6, <3>7
<2> QED
  BY <2>1, <2>2
<1>2. k = h
  BY <1>1
<1>3. Plans(g, c, A) <=> g = k
  BY DEF Plans
<1>4. IsFold(g, Places, {}, LastOf, Considers(c, A)) <=> g = h
  BY DEF IsFold
<1> HIDE DEF k, h
<1> QED
  BY <1>2, <1>3, <1>4

\* The plan is the value at all places of a fold.
LEMMA ResidentPlanFolds ==
  ASSUME NEW c, NEW A
  PROVE  \E g : /\ IsFold(g, Places, {}, LastOf, Considers(c, A))
                /\ ResidentPlan(c, A) = g[Places]
<1>1. PICK h : IsFold(h, Places, {}, LastOf, Considers(c, A))
  BY PlacesFinite, LastPicks, FoldExists
<1>2. \A i \in Places : \A X \in SUBSET Workers : Considers(c, A)[<<i, X>>] \in SUBSET Workers
<2>1. ASSUME NEW i \in Places, NEW X \in SUBSET Workers
      PROVE  Considers(c, A)[<<i, X>>] \in SUBSET Workers
<3>1. /\ Considered(c, A, Preference[i], X) \in SUBSET Workers
      /\ Considers(c, A)[<<i, X>>] = Considered(c, A, Preference[i], X)
  BY ConsideredTyped
<3> QED
  BY <3>1
<2> QED
  BY <2>1
<1>3. \A s \in SUBSET Places : h[s] \in SUBSET Workers
<2>1. {} \in SUBSET Workers
  OBVIOUS
<2> QED
  BY <1>1, <1>2, <2>1, PlacesFinite, LastPicks, FoldsTyped
<1>4. Plans(h, c, A)
  BY <1>1, <1>3, PlansFold
<1>5. PICK g : g = CHOOSE k : Plans(k, c, A)
  OBVIOUS
<1>6. Plans(g, c, A)
  BY <1>4, <1>5
<1>7. IsFold(g, Places, {}, LastOf, Considers(c, A))
  BY <1>6, PlansTyped, PlansFold
<1> QED
  BY <1>5, <1>7, ResidentPlanIsFold

\* A plan beside workers that share the GPU shares it with all of them: so it
\* is at every place, because each service is admitted beside those before it.
LEMMA PlanShares ==
  ASSUME NEW c \in Configs, NEW A \in SUBSET Workers, ShareGpu(c, A \cap c.gpu)
  PROVE  ShareGpu(c, (A \cup ResidentPlan(c, A)) \cap c.gpu)
<1> DEFINE Safe == {X \in SUBSET Workers : ShareGpu(c, (A \cup X) \cap c.gpu)}
<1>1. {} \in Safe
<2>1. (A \cup {}) \cap c.gpu = A \cap c.gpu
  OBVIOUS
<2> QED
  BY <2>1
<1>2. ASSUME NEW i \in Places, NEW X \in Safe PROVE Considers(c, A)[<<i, X>>] \in Safe
<2>1. PICK s : s = Preference[i]
  OBVIOUS
<2>2. s \in Workers /\ X \in SUBSET Workers
  BY <2>1, PlacesFinite
<2>3. Considers(c, A)[<<i, X>>] = Considered(c, A, s, X)
  BY <2>1, <2>2, ConsideredTyped
<2>4. CASE ~Admits(c, s, A \cup X)
  BY <2>3, <2>4 DEF Considered
<2>5. CASE Admits(c, s, A \cup X)
<3>1. PICK B : B = A \cup X
  OBVIOUS
<3>2. B \in SUBSET Workers /\ ShareGpu(c, B \cap c.gpu) /\ Admits(c, s, B)
  BY <2>2, <2>5, <3>1
<3>3. ShareGpu(c, (B \cup {s}) \cap c.gpu)
  BY <2>2, <3>2, AdmittedShares
<3>4. (B \cup {s}) \cap c.gpu = (A \cup (X \cup {s})) \cap c.gpu
  BY <3>1
<3>5. Considers(c, A)[<<i, X>>] = X \cup {s}
  BY <2>3, <2>5 DEF Considered
<3> QED
  BY <2>2, <3>3, <3>4, <3>5
<2> QED
  BY <2>4, <2>5
<1> HIDE DEF Safe
<1>3. PICK g : /\ IsFold(g, Places, {}, LastOf, Considers(c, A))
               /\ ResidentPlan(c, A) = g[Places]
  BY ResidentPlanFolds
<1>4. \A s \in SUBSET Places : g[s] \in Safe
  BY <1>1, <1>2, <1>3, PlacesFinite, LastPicks, FoldsTyped
<1>5. g[Places] \in Safe
  BY <1>4
<1> QED
  BY <1>3, <1>5 DEF Safe

-----------------------------------------------------------------------------
\* Allocations are of configured services that may share the GPU.
AllocationInv ==
  /\ config \in Configs
  /\ allocated \in SUBSET Workers
  /\ AllocatedShareGpu

LEMMA AllocationInvInit == SchedulerInit => AllocationInv
<1> SUFFICES ASSUME SchedulerInit PROVE AllocationInv
  OBVIOUS
<1>1. config \in Configs /\ allocated = {}
  BY DEF SchedulerInit
<1>2. allocated \cap config.gpu = {}
  BY <1>1
<1>3. ShareGpu(config, allocated \cap config.gpu)
  BY <1>1, <1>2, SharesNothing
<1> QED
  BY <1>1, <1>3 DEF AllocationInv, AllocatedShareGpu

LEMMA AllocationInvNext == AllocationInv /\ [SchedulerNext]_schedulerVars => AllocationInv'
<1> SUFFICES ASSUME AllocationInv, [SchedulerNext]_schedulerVars PROVE AllocationInv'
  OBVIOUS
<1> USE DEF AllocationInv, AllocatedShareGpu
<1>1. ASSUME NEW s \in Workers, Allocate(s) PROVE AllocationInv'
<2>1. config' = config /\ allocated' = allocated \cup {s} /\ Admits(config, s, allocated)
  BY <1>1 DEF Allocate
<2>2. ShareGpu(config, (allocated \cup {s}) \cap config.gpu)
  BY <2>1, AdmittedShares
<2> QED
  BY <2>1, <2>2
<1>2. ASSUME NEW s \in Workers, Free(s) PROVE AllocationInv'
<2>1. config' = config /\ allocated' = allocated \ {s}
  BY <1>2 DEF Free
<2>2. /\ allocated \cap config.gpu \in SUBSET Workers
      /\ (allocated \ {s}) \cap config.gpu \in SUBSET (allocated \cap config.gpu)
  OBVIOUS
<2>3. ShareGpu(config, (allocated \ {s}) \cap config.gpu)
  BY <2>2, SharesShrinks
<2> QED
  BY <2>1, <2>3
<1>3. CASE UNCHANGED schedulerVars
  BY <1>3 DEF schedulerVars
<1> QED
  BY <1>1, <1>2, <1>3 DEF SchedulerNext

\* However allocations are admitted and returned, one at a time, the GPU workers
\* allocated together may share the GPU: admit never lets memory, groups or
\* exclusivity be violated by a sequence of decisions that each looked right.
THEOREM AllocatedShareGpuHolds == SchedulerSpec => []AllocatedShareGpu
<1>1. AllocationInv => AllocatedShareGpu
  BY DEF AllocationInv
<1> QED
  BY <1>1, AllocationInvInit, AllocationInvNext, PTL DEF SchedulerSpec

\* The resident plan of any profile may be loaded as a whole beside what is
\* allocated, since resident_plan projects each selection on the next.
THEOREM PlanSharesGpuHolds == SchedulerSpec => []PlanSharesGpu
<1>1. AllocationInv => PlanSharesGpu
  BY PlanShares DEF AllocationInv, AllocatedShareGpu, PlanSharesGpu
<1> QED
  BY <1>1, AllocationInvInit, AllocationInvNext, PTL DEF SchedulerSpec

\* admit refuses a worker only where the set it would join could not share the
\* GPU: every refusal is for a reason, at each boundary of the capacity.
THEOREM RefusalsJustifiedHolds == SchedulerSpec => []RefusalsJustified
<1>1. AllocationInv => RefusalsJustified
  BY RefusedCannotShare DEF AllocationInv, RefusalsJustified
<1> QED
  BY <1>1, AllocationInvInit, AllocationInvNext, PTL DEF SchedulerSpec

\* What the supervisor assumes of its admission policy, AdmissionAssumption, is
\* what the scheduler provides under every configuration whose GPU services are
\* the supervisor's: the supervisor is safe with the scheduler it really has.
THEOREM SchedulerIsAdmission ==
  ASSUME NEW c \in Configs, c.gpu = GpuServices
  PROVE  /\ ShareGpu(c, {})
         /\ \A S \in SUBSET GpuServices : \A T \in SUBSET S : ShareGpu(c, S) => ShareGpu(c, T)
         /\ \A S \in SUBSET GpuServices : \A s \in GpuServices :
              ShareGpu(c, S) /\ Admits(c, s, S) => ShareGpu(c, S \cup {s})
<1>1. GpuServices \subseteq Workers
  BY ConfigsAssumption DEF ValidConfig
<1>2. ASSUME NEW S \in SUBSET GpuServices, NEW T \in SUBSET S, ShareGpu(c, S)
      PROVE  ShareGpu(c, T)
<2>1. S \in SUBSET Workers
  BY <1>1
<2> QED
  BY <1>2, <2>1, SharesShrinks
<1>3. ASSUME NEW S \in SUBSET GpuServices, NEW s \in GpuServices,
             ShareGpu(c, S), Admits(c, s, S)
      PROVE  ShareGpu(c, S \cup {s})
<2>1. /\ S \in SUBSET Workers /\ s \in Workers
      /\ S \cap c.gpu = S /\ (S \cup {s}) \cap c.gpu = S \cup {s}
  BY <1>1
<2>2. ShareGpu(c, (S \cup {s}) \cap c.gpu)
  BY <1>3, <2>1, AdmittedShares
<2> QED
  BY <2>1, <2>2
<1> QED
  BY <1>2, <1>3, SharesNothing
=============================================================================
