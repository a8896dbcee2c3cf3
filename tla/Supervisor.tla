----------------------------- MODULE Supervisor -----------------------------
(***************************************************************************)
(* The GPU supervisor (supervisor/app.py): one asyncio event loop that     *)
(* grants leases on worker services, starts and stops their containers     *)
(* through docker-control, and stops idle GPU workers after a timer.       *)
(*                                                                         *)
(* One action is what the event loop runs between two suspension points    *)
(* of a handler or of an idle-stop task.  lease_condition is never held    *)
(* across a suspension point other than its own wait(), so a critical      *)
(* section on it is part of one action; transition_lock is held across     *)
(* awaits and is a variable.                                               *)
(***************************************************************************)
EXTENDS Naturals, FiniteSets

CONSTANTS
  Services,      \* the configured services (SERVICES)
  GpuServices,   \* those with a GPU requirement (GPU_SERVICES)
  IdleStopped,   \* the GPU services with a positive idle_timeout
  Mode,          \* SUPERVISOR_SCHEDULER_MODE
  Admit(_, _),   \* ResourceScheduler.admit(service, leased GPU services).allowed
  Fits(_),       \* sets of GPU services the policy lets share the GPU
  Requests,      \* the calls made to the supervisor, one identity per call
  Service,       \* the service each call names
  Kind,          \* the endpoint each call uses
  DockerFaults,  \* whether a docker-control request may fail
  MaxEpoch,      \* bound on the number of lease resets
  Nobody         \* a value that is neither a request nor a service

Kinds == {"acquire", "exclusive", "ensure", "stop", "stop_all"}

ASSUME ServicesAssumption ==
  /\ GpuServices \subseteq Services
  /\ IdleStopped \subseteq GpuServices
  /\ Requests \cap Services = {}
  /\ Nobody \notin Requests \cup Services

ASSUME RequestsAssumption ==
  /\ Service \in [Requests -> Services]
  /\ Kind \in [Requests -> Kinds]
  /\ Mode \in {"compatibility", "resource"}
  /\ DockerFaults \in BOOLEAN
  /\ MaxEpoch \in Nat

\* What the admission policy promises: it extends a set that fits to a set
\* that fits, and unloading a worker never makes the rest unsafe.
ASSUME AdmissionAssumption ==
  /\ Fits({})
  /\ \A S \in SUBSET GpuServices : \A T \in SUBSET S : Fits(S) => Fits(T)
  /\ \A S \in SUBSET GpuServices : \A s \in GpuServices :
       Fits(S) /\ Admit(s, S) => Fits(S \cup {s})

VARIABLES
  task,                    \* where each call's handler is suspended
  active_leases,           \* the requests that hold a lease
  active_exclusive_leases, \* those of them that hold it exclusively
  pending,                 \* pending_requests: the exclusive ones queued
  ahead,                   \* the exclusive requests queued before each request
  lease_epoch,             \* lease_epoch
  started_epoch,           \* lease_epoch when each acquire began
  transition_lock,         \* the request or idle task (named by its service) holding it
  sweep,                   \* the services the holder still has to stop
  target,                  \* the service whose stop the holder awaits
  attempt,                 \* the holder's start attempt (0 or 1)
  idle,                    \* the idle-stop task of each service
  container,               \* what docker-control reports for each container
  halting,                 \* containers Docker was asked to stop and is still stopping
  launching,               \* containers Docker was asked to start and has yet to start
  faulted,                 \* history: a docker-control request has failed
  resetting,               \* how far /reset-leases is: "no", "reading", "read"
  found                    \* the GPU services its worker thread saw running

leaseVars  == <<active_leases, active_exclusive_leases>>
queueVars  == <<pending, ahead>>
epochVars  == <<lease_epoch, started_epoch>>
holderVars == <<sweep, target, attempt>>
dockerVars == <<container, halting, launching, faulted>>
resetVars  == <<resetting, found>>
lockVars   == <<transition_lock, holderVars>>
\* What a step that only moves one handler leaves alone.
restVars   == <<leaseVars, queueVars, epochVars, lockVars, idle, dockerVars, resetVars>>
vars == <<task, restVars>>

\* "arrived" and "sweeping" are the states in which the handler is not
\* suspended: the event loop is inside it.
TaskStates == {"new", "arrived", "check", "waiting", "lock", "sweeping", "stopping", "retry",
               "starting", "loading", "held", "done", "failed"}
IdleStates == {"none", "sleeping", "lock", "stopping"}

Acquires == {r \in Requests : Kind[r] \in {"acquire", "exclusive"}}
Exclusive(r) == Kind[r] = "exclusive"
Starts(r) == Kind[r] \in {"acquire", "exclusive", "ensure"}

LeasesOn(s) == {r \in active_leases : Service[r] = s}
Leased == {s \in Services : LeasesOn(s) # {}}
LeasedGpu == Leased \cap GpuServices
Running == {s \in GpuServices : container[s] = "running"}

TypeOK ==
  /\ task \in [Requests -> TaskStates]
  /\ active_leases \in SUBSET Acquires
  /\ active_exclusive_leases \in SUBSET Acquires
  /\ pending \in SUBSET Acquires
  /\ ahead \in [Requests -> SUBSET Acquires]
  /\ lease_epoch \in 0..MaxEpoch
  /\ started_epoch \in [Requests -> 0..MaxEpoch]
  /\ transition_lock \in Requests \cup Services \cup {Nobody}
  /\ sweep \in SUBSET Services
  /\ target \in Services \cup {Nobody}
  /\ attempt \in {0, 1}
  /\ idle \in [Services -> IdleStates]
  /\ container \in [Services -> {"running", "exited"}]
  /\ halting \in SUBSET Services
  /\ launching \in SUBSET Services
  /\ faulted \in BOOLEAN
  /\ resetting \in {"no", "reading", "read"}
  /\ found \in SUBSET GpuServices

Init ==
  /\ task = [r \in Requests |-> "new"]
  /\ active_leases = {}
  /\ active_exclusive_leases = {}
  /\ pending = {}
  /\ ahead = [r \in Requests |-> {}]
  /\ lease_epoch = 0
  /\ started_epoch = [r \in Requests |-> 0]
  /\ transition_lock = Nobody
  /\ sweep = {}
  /\ target = Nobody
  /\ attempt = 0
  /\ idle = [s \in Services |-> "none"]
  /\ container = [s \in Services |-> "exited"]
  /\ halting = {}
  /\ launching = {}
  /\ faulted = FALSE
  /\ resetting = "no"
  /\ found = {}

-----------------------------------------------------------------------------
(* Helpers of the handlers                                                 *)

Goto(r, state) == task' = [task EXCEPT ![r] = state]

\* Mutant of Notified: notify() in place of notify_all().
NotifiedOne(f) ==
  LET asleep == {r \in Requests : f[r] = "waiting"}
  IN IF asleep = {} THEN f ELSE [f EXCEPT ![CHOOSE r \in asleep : TRUE] = "check"]
\* Mutant of Notified: the notify_all() is forgotten.
NotifiedNone(f) == f

\* lease_condition.notify_all(): every sleeping waiter re-evaluates its guard.
\* f is the map of task states the step also assigns.
Notified(f) == [r \in Requests |-> IF f[r] = "waiting" THEN "check" ELSE f[r]]

\* Mutant of BlockedByExclusive: an active exclusive lease blocks only
\* exclusive acquires.
BlockedByQueue(r) ==
  \/ Exclusive(r) /\ LeasesOn(Service[r]) # {}
  \/ \E q \in pending \ {r} : Service[q] = Service[r] /\ (Exclusive(r) => q \in ahead[r])

\* has_blocking_active_jobs
BlockedByExclusive(r) ==
  \/ LeasesOn(Service[r]) \cap active_exclusive_leases # {}
  \/ /\ Exclusive(r)
     /\ \/ LeasesOn(Service[r]) # {}
        \/ \E q \in ahead[r] \cap pending : Service[q] = Service[r]
  \/ /\ ~Exclusive(r)
     /\ \E q \in pending : Service[q] = Service[r]

BlockedByOtherService(r) ==
  \E other \in Leased \ {Service[r]} :
    \/ Service[r] \notin GpuServices
    \/ other \notin GpuServices
    \/ Mode = "compatibility"

Blocked(r) ==
  \/ BlockedByExclusive(r)
  \/ BlockedByOtherService(r)
  \/ Service[r] \in GpuServices /\ ~Admit(Service[r], LeasedGpu)

\* cancel_idle_stop: the task ends where it is suspended.  A task cancelled
\* inside stop_service gives up transition_lock, while the worker thread that
\* carries the stop request runs on (halting is unchanged).
CancelIdle(s) ==
  /\ idle' = [idle EXCEPT ![s] = "none"]
  /\ transition_lock' = IF transition_lock = s THEN Nobody ELSE transition_lock

\* schedule_idle_stop for every service of S: cancel the old timer, arm a new one.
ScheduleIdle(S) ==
  /\ idle' = [s \in Services |->
                IF s \notin S THEN idle[s]
                ELSE IF s \in IdleStopped THEN "sleeping" ELSE "none"]
  /\ transition_lock' = IF transition_lock \in S THEN Nobody ELSE transition_lock

ResetHolder ==
  /\ sweep' = {}
  /\ target' = Nobody
  /\ attempt' = 0

Unlock ==
  /\ transition_lock' = Nobody
  /\ ResetHolder

\* The exception paths: the handler leaves transition_lock, its finally
\* clause drops the pending entry, and nobody is notified.
Fail(r) ==
  /\ Goto(r, "failed")
  /\ pending' = pending \ {r}
  /\ Unlock

\* stop_service after a readable reload: ask Docker to stop a running container.
AskStop(s) == halting' = IF container[s] = "running" THEN halting \cup {s} ELSE halting

-----------------------------------------------------------------------------
(* Calls: acquire_service, prepare_service, stop, stop_all                 *)

\* A call reaches the supervisor.  An exclusive acquire is queued at once;
\* every call but stop_all cancels the idle timer of its GPU service.
Arrive(r) ==
  /\ task[r] = "new"
  /\ IF Starts(r) /\ ~(Kind[r] = "ensure" /\ Service[r] \notin GpuServices)
       THEN Goto(r, "arrived")
       ELSE Goto(r, IF Kind[r] = "ensure" THEN "done" ELSE "lock")
  /\ IF Exclusive(r)
       THEN /\ ahead' = [ahead EXCEPT ![r] = pending]
            /\ pending' = pending \cup {r}
       ELSE UNCHANGED queueVars
  /\ started_epoch' = [started_epoch EXCEPT ![r] = lease_epoch]
  /\ IF Kind[r] # "stop_all" /\ Service[r] \in GpuServices
       THEN CancelIdle(Service[r])
       ELSE UNCHANGED <<idle, transition_lock>>
  /\ UNCHANGED <<leaseVars, lease_epoch, holderVars, dockerVars, resetVars>>

\* The lease is recorded, persisted and announced, and the pending entry goes.
Grant(r) ==
  /\ active_leases' = active_leases \cup {r}
  /\ active_exclusive_leases' = IF Exclusive(r) THEN active_exclusive_leases \cup {r}
                                                ELSE active_exclusive_leases
  /\ pending' = pending \ {r}
  /\ task' = Notified([task EXCEPT ![r] = "held"])

\* Mutant of Current: no epoch test.
AlwaysCurrent(r) == r \in Requests

\* No /reset-leases came since the acquire began.
Current(r) == started_epoch[r] = lease_epoch

\* One evaluation of the guard of "while has_blocking_active_jobs: wait()".
\* A CPU service is granted, or refused after a reset, without transition_lock.
CheckBlocked(r) ==
  /\ task[r] \in {"arrived", "check"}
  /\ Blocked(r)
  /\ Goto(r, "waiting")
  /\ UNCHANGED restVars

CheckGpu(r) ==
  /\ task[r] \in {"arrived", "check"}
  /\ Service[r] \in GpuServices
  /\ ~Blocked(r)
  /\ Goto(r, "lock")
  /\ UNCHANGED restVars

CheckCpu(r) ==
  /\ task[r] \in {"arrived", "check"}
  /\ Service[r] \notin GpuServices
  /\ ~Blocked(r)
  /\ IF Current(r)
       THEN Grant(r)
       ELSE /\ Goto(r, "failed")
            /\ pending' = pending \ {r}
            /\ UNCHANGED leaseVars
  /\ UNCHANGED <<ahead, epochVars, lockVars, idle, dockerVars, resetVars>>

\* Mutant of Refused: a start does not test again under transition_lock.
RefusedStops(r) ==
  \/ Kind[r] = "stop" /\ LeasesOn(Service[r]) # {}
  \/ Kind[r] = "stop_all" /\ active_leases # {}

\* What has_blocking_active_jobs or the active-jobs test (409) says under
\* transition_lock.
Refused(r) ==
  \/ Starts(r) /\ Blocked(r)
  \/ Kind[r] = "stop" /\ LeasesOn(Service[r]) # {}
  \/ Kind[r] = "stop_all" /\ active_leases # {}

\* Mutant of ToStop: a worker that is being stopped already is trusted to stop.
ToStopUnlessHalting(r) ==
  IF Kind[r] = "stop" THEN {Service[r]}
  ELSE {s \in GpuServices : Starts(r) => s \notin {Service[r]} \cup halting}

\* A start stops the other GPU services, stop its own, stop_all all of them.
ToStop(r) ==
  IF Kind[r] = "stop" THEN {Service[r]}
  ELSE {s \in GpuServices : Starts(r) => s # Service[r]}

\* services_to_stop_for is a generator: in resource mode a start passes over
\* the services that have active jobs when the loop reaches them.
PassesOver(r, o) == Starts(r) /\ Mode = "resource" /\ o \in Leased

\* "async with transition_lock", then the guard again.
TakeLock(r) ==
  /\ task[r] = "lock"
  /\ transition_lock = Nobody
  /\ IF Refused(r)
       THEN /\ Goto(r, IF Starts(r) THEN "waiting" ELSE "failed")
            /\ UNCHANGED <<transition_lock, sweep>>
       ELSE /\ Goto(r, "sweeping")
            /\ transition_lock' = r
            /\ sweep' = ToStop(r)
  /\ UNCHANGED <<leaseVars, queueVars, epochVars, target, attempt, idle, dockerVars,
                 resetVars>>

\* The next service of the loop: unless it is passed over, its idle timer is
\* cancelled and its container, when it runs, is stopped.
SweepNext(r, o) ==
  /\ task[r] = "sweeping"
  /\ o \in sweep
  /\ IF PassesOver(r, o)
       THEN /\ sweep' = sweep \ {o}
            /\ UNCHANGED <<task, idle, target, halting>>
       ELSE /\ idle' = IF Kind[r] = "stop" THEN idle ELSE [idle EXCEPT ![o] = "none"]
            /\ AskStop(o)
            /\ IF container[o] = "running"
                 THEN Goto(r, "stopping") /\ target' = o /\ UNCHANGED sweep
                 ELSE sweep' = sweep \ {o} /\ UNCHANGED <<task, target>>
  /\ UNCHANGED <<leaseVars, queueVars, epochVars, transition_lock, attempt, container,
                 launching, faulted, resetVars>>

Fault == DockerFaults /\ faulted' = TRUE

\* stop_service when docker-control cannot report the container: the
\* HTTPException is swallowed and the service counts as stopped.
SweepUnreadable(r, o) ==
  /\ Fault
  /\ task[r] = "sweeping"
  /\ o \in sweep
  /\ ~PassesOver(r, o)
  /\ idle' = IF Kind[r] = "stop" THEN idle ELSE [idle EXCEPT ![o] = "none"]
  /\ sweep' = sweep \ {o}
  /\ UNCHANGED <<task, leaseVars, queueVars, epochVars, transition_lock, target, attempt,
                 container, halting, launching, resetVars>>

StopReturns(r) ==
  /\ task[r] = "stopping"
  /\ container[target] # "running"
  /\ Goto(r, "sweeping")
  /\ sweep' = sweep \ {target}
  /\ target' = Nobody
  /\ UNCHANGED <<leaseVars, queueVars, epochVars, transition_lock, attempt, idle,
                 dockerVars, resetVars>>

\* The end of stop and of stop_all.
SweepEnds(r) ==
  /\ task[r] = "sweeping"
  /\ sweep = {}
  /\ ~Starts(r)
  /\ Goto(r, "done")
  /\ Unlock
  /\ UNCHANGED <<leaseVars, queueVars, epochVars, idle, dockerVars, resetVars>>

\* start_and_wait_ready, one attempt: ask Docker to start the container unless
\* it is reported running (which a container being stopped still is).
StartContainer(r) ==
  /\ task[r] = "retry" \/ (task[r] = "sweeping" /\ sweep = {} /\ Starts(r))
  /\ IF container[Service[r]] = "running"
       THEN Goto(r, "loading") /\ UNCHANGED launching
       ELSE Goto(r, "starting") /\ launching' = launching \cup {Service[r]}
  /\ UNCHANGED <<leaseVars, queueVars, epochVars, lockVars, idle, container, halting,
                 faulted, resetVars>>

StartReturns(r) ==
  /\ task[r] = "starting"
  /\ Service[r] \notin launching
  /\ Goto(r, "loading")
  /\ UNCHANGED restVars

\* wait_ready succeeds.  From here to the release of transition_lock nothing
\* suspends: ensure arms the idle timer when no job is active, an acquire
\* records its lease, or is refused when a reset came in between.
ReadyEnsure(r) ==
  /\ task[r] = "loading"
  /\ container[Service[r]] = "running"
  /\ Kind[r] = "ensure"
  /\ Goto(r, "done")
  /\ ResetHolder
  /\ transition_lock' = Nobody
  /\ idle' = IF LeasesOn(Service[r]) = {} /\ Service[r] \in IdleStopped
               THEN [idle EXCEPT ![Service[r]] = "sleeping"]
               ELSE idle
  /\ UNCHANGED <<leaseVars, queueVars, epochVars, dockerVars, resetVars>>

ReadyGrant(r) ==
  /\ task[r] = "loading"
  /\ container[Service[r]] = "running"
  /\ r \in Acquires
  /\ Current(r)
  /\ Grant(r)
  /\ Unlock
  /\ UNCHANGED <<ahead, epochVars, idle, dockerVars, resetVars>>

ReadyStale(r) ==
  /\ task[r] = "loading"
  /\ container[Service[r]] = "running"
  /\ r \in Acquires
  /\ ~Current(r)
  /\ Fail(r)
  /\ idle' = [idle EXCEPT ![Service[r]] =
                IF Service[r] \in IdleStopped THEN "sleeping" ELSE "none"]
  /\ UNCHANGED <<leaseVars, ahead, epochVars, dockerVars, resetVars>>

RetriesLeft == attempt = 0

\* The container exits during startup (503): one retry after a second's sleep,
\* then the error.
StartupExit(r) ==
  /\ task[r] = "loading"
  /\ container[Service[r]] # "running"
  /\ IF RetriesLeft
       THEN /\ Goto(r, "retry")
            /\ attempt' = attempt + 1
            /\ UNCHANGED <<pending, transition_lock, sweep, target>>
       ELSE Fail(r)
  /\ UNCHANGED <<leaseVars, ahead, epochVars, idle, dockerVars, resetVars>>

\* The readiness deadline passes (504), with the container left as it is.
StartupTimeout(r) ==
  /\ task[r] = "loading"
  /\ Fail(r)
  /\ UNCHANGED <<leaseVars, ahead, epochVars, idle, dockerVars, resetVars>>

\* A stop or start request to docker-control fails while the holder awaits it.
DockerFails(r) ==
  /\ Fault
  /\ transition_lock = r
  /\ \/ task[r] \in {"stopping", "retry", "starting"}
     \/ task[r] = "sweeping" /\ sweep = {} /\ Starts(r)
  /\ Fail(r)
  /\ UNCHANGED <<leaseVars, ahead, epochVars, idle, container, halting, launching,
                 resetVars>>

-----------------------------------------------------------------------------
(* release_service and reset_leases                                        *)

\* Mutant of LastLease: a release that drops nothing arms no timer.
LastLeaseDropped(r) == Service[r] \in GpuServices /\ LeasesOn(Service[r]) = {r}

\* No lease of the GPU service remains without that of r.
LastLease(r) == Service[r] \in GpuServices /\ LeasesOn(Service[r]) \subseteq {r}

\* Dropping the lease is idempotent: a release of a lease that is not (or not
\* yet) recorded only notifies and re-arms the idle timer.
Release(r) ==
  /\ r \in Acquires
  /\ task[r] # "new"
  /\ active_leases' = active_leases \ {r}
  /\ active_exclusive_leases' = active_exclusive_leases \ {r}
  /\ task' = Notified([task EXCEPT ![r] = IF @ = "held" THEN "done" ELSE @])
  /\ IF LastLease(r)
       THEN ScheduleIdle({Service[r]})
       ELSE UNCHANGED <<idle, transition_lock>>
  /\ UNCHANGED <<queueVars, epochVars, holderVars, dockerVars, resetVars>>

\* One reset is served at a time: the handler clears the leases, has a worker
\* thread list the running GPU services, and resumes to arm their timers.
ResetLeases ==
  /\ lease_epoch < MaxEpoch
  /\ resetting = "no"
  /\ resetting' = "reading"
  /\ lease_epoch' = lease_epoch + 1
  /\ active_leases' = {}
  /\ active_exclusive_leases' = {}
  /\ task' = Notified(task)
  /\ UNCHANGED <<queueVars, started_epoch, lockVars, idle, dockerVars, found>>

ResetReads ==
  /\ resetting = "reading"
  /\ resetting' = "read"
  /\ found' = Running
  /\ UNCHANGED <<task, leaseVars, queueVars, epochVars, lockVars, idle, dockerVars>>

ResetSchedules ==
  /\ resetting = "read"
  /\ resetting' = "no"
  /\ found' = {}
  /\ ScheduleIdle(found)
  /\ UNCHANGED <<task, leaseVars, queueVars, epochVars, holderVars, dockerVars>>

-----------------------------------------------------------------------------
(* idle_stop_after                                                         *)

IdleFires(s) ==
  /\ idle[s] = "sleeping"
  /\ idle' = [idle EXCEPT ![s] = IF s \in Leased THEN "none" ELSE "lock"]
  /\ UNCHANGED <<task, leaseVars, queueVars, epochVars, lockVars, dockerVars, resetVars>>

\* Mutant of IdleMayStop: no second look after the wait for the lock.
IdleMayStopAnyway(s) == s \in Services

\* The second look at active_jobs, under transition_lock.
IdleMayStop(s) == s \notin Leased

IdleTakesLock(s) ==
  /\ idle[s] = "lock"
  /\ transition_lock = Nobody
  /\ IF IdleMayStop(s) /\ container[s] = "running"
       THEN /\ idle' = [idle EXCEPT ![s] = "stopping"]
            /\ transition_lock' = s
            /\ AskStop(s)
       ELSE /\ idle' = [idle EXCEPT ![s] = "none"]
            /\ UNCHANGED <<transition_lock, halting>>
  /\ UNCHANGED <<task, leaseVars, queueVars, epochVars, holderVars, container, launching,
                 faulted, resetVars>>

\* The stop request returns, or fails; the task ends and its lock is released.
IdleStopEnds(s) ==
  /\ idle[s] = "stopping"
  /\ IF container[s] = "running" THEN Fault ELSE UNCHANGED faulted
  /\ CancelIdle(s)
  /\ UNCHANGED <<task, leaseVars, queueVars, epochVars, holderVars, container, halting,
                 launching, resetVars>>

\* docker-control cannot report the container: the task ends without a stop.
IdleUnreadable(s) ==
  /\ Fault
  /\ idle[s] = "lock"
  /\ transition_lock = Nobody
  /\ idle' = [idle EXCEPT ![s] = "none"]
  /\ UNCHANGED <<task, leaseVars, queueVars, epochVars, lockVars, container, halting,
                 launching, resetVars>>

-----------------------------------------------------------------------------
(* Docker and the supervisor process                                       *)

\* Docker finishes starting a container, or stopping one (at most its 30 s
\* grace later).
DockerStarts(s) ==
  /\ s \in launching
  /\ container' = [container EXCEPT ![s] = "running"]
  /\ launching' = launching \ {s}
  /\ UNCHANGED <<task, leaseVars, queueVars, epochVars, lockVars, idle, halting,
                 faulted, resetVars>>

DockerStops(s) ==
  /\ s \in halting
  /\ container' = [container EXCEPT ![s] = "exited"]
  /\ halting' = halting \ {s}
  /\ UNCHANGED <<task, leaseVars, queueVars, epochVars, lockVars, idle, launching,
                 faulted, resetVars>>

\* A container exits on its own.
ContainerCrash(s) ==
  /\ container[s] = "running"
  /\ container' = [container EXCEPT ![s] = "exited"]
  /\ halting' = halting \ {s}
  /\ UNCHANGED <<task, leaseVars, queueVars, epochVars, lockVars, idle, launching,
                 faulted, resetVars>>

\* The supervisor restarts: handlers, timers, the queue and the epoch are
\* lost; the leases are read back from disk, where every change was written
\* in the step that made it (no lease_epoch read before a restart is compared
\* after it, so started_epoch is cleared too); recover_idle_shutdowns arms the timers of the
\* running GPU services that have no job.  A start request that outlives the
\* supervisor counts as a docker-control fault.
Restart ==
  /\ IF launching # {} THEN Fault ELSE UNCHANGED faulted
  /\ task' = [r \in Requests |-> IF task[r] \in {"new", "held", "done"}
                                   THEN task[r] ELSE "failed"]
  /\ pending' = {}
  /\ ahead' = [r \in Requests |-> {}]
  /\ lease_epoch' = 0
  /\ started_epoch' = [r \in Requests |-> 0]
  /\ transition_lock' = Nobody
  /\ ResetHolder
  /\ resetting' = "no"
  /\ found' = {}
  /\ idle' = [s \in Services |-> IF s \in (Running \cap IdleStopped) \ Leased
                                   THEN "sleeping" ELSE "none"]
  /\ UNCHANGED <<leaseVars, container, halting, launching>>

-----------------------------------------------------------------------------
\* The steps that end a start's wait_ready.
Loaded(r) ==
  \/ ReadyEnsure(r) \/ ReadyGrant(r) \/ ReadyStale(r)
  \/ StartupExit(r) \/ StartupTimeout(r)

Handler(r) ==
  \/ CheckBlocked(r) \/ CheckGpu(r) \/ CheckCpu(r)
  \/ TakeLock(r)
  \/ \E o \in Services : SweepNext(r, o) \/ SweepUnreadable(r, o)
  \/ StopReturns(r) \/ SweepEnds(r) \/ StartContainer(r) \/ StartReturns(r)
  \/ Loaded(r)
  \/ DockerFails(r)

IdleTask(s) == IdleFires(s) \/ IdleTakesLock(s) \/ IdleStopEnds(s) \/ IdleUnreadable(s)

\* Whether the event loop is inside a handler.
Inside(r) == task[r] \in {"arrived", "sweeping"}
Busy == \E r \in Requests : Inside(r)

\* What happens outside the event loop.
Background ==
  \/ \E s \in Services : DockerStarts(s) \/ DockerStops(s) \/ ContainerCrash(s)
  \/ ResetReads

EventLoop ==
  \/ \E r \in Requests : Arrive(r) \/ Handler(r) \/ Release(r)
  \/ \E s \in Services : IdleTask(s)
  \/ ResetLeases
  \/ ResetSchedules

Next ==
  \/ \E r \in Requests : Inside(r) /\ Handler(r)
  \/ ~Busy /\ EventLoop
  \/ Background
  \/ Restart

Spec == Init /\ [][Next]_vars

\* What resumes a handler that waits for its turn or for docker-control: each
\* of these steps belongs to a task state of its own.
Resumes(r) ==
  \/ CheckBlocked(r) \/ CheckGpu(r) \/ CheckCpu(r)
  \/ StopReturns(r) \/ StartContainer(r) \/ StartReturns(r)
  \/ Loaded(r)

\* The event loop serves every runnable task; transition_lock is FIFO, so a
\* task that wants it is not passed over for ever (an idle task also because
\* one lease is released, and its timer re-armed, a bounded number of times);
\* Docker finishes a start and a stop; a readiness wait ends at its deadline.
ServerFairness ==
  /\ \A r \in Requests :
       /\ WF_vars(Inside(r) /\ Handler(r))
       /\ WF_vars(~Busy /\ Resumes(r))
       /\ SF_vars(~Busy /\ TakeLock(r))
  /\ \A s \in Services :
       /\ WF_vars(DockerStarts(s))
       /\ WF_vars(DockerStops(s))
  /\ \A s \in IdleStopped :
       /\ WF_vars(~Busy /\ (IdleFires(s) \/ IdleStopEnds(s)))
       /\ SF_vars(~Busy /\ IdleTakesLock(s))
  /\ WF_vars(ResetReads)
  /\ WF_vars(~Busy /\ ResetSchedules)

\* Whoever asked for a lease gives it back when it is done or refused.
CallersRelease ==
  \A r \in Requests : WF_vars(~Busy /\ task[r] \in {"held", "failed"} /\ Release(r))

FairSpec == Spec /\ ServerFairness /\ CallersRelease

-----------------------------------------------------------------------------
(* Properties                                                              *)

\* The supervisor implements the abstract lease service: whatever the event
\* loop interleaves between the guard of an acquire and its grant, the grant
\* is one the leases of that moment allow, and no leased worker is told to stop.
Abstract == INSTANCE GpuLeases
              WITH Requests <- Acquires, Service <- [r \in Acquires |-> Service[r]],
                   Exclusives <- {r \in Acquires : Exclusive(r)}
ImplementsGpuLeases == Abstract!Spec

\* The GPU services that hold leases may share the GPU under the admission
\* policy (in compatibility mode: at most one of them has leases), although
\* the check and the grant are separated by stops, a start and a reset.
LeasedFits == Fits(LeasedGpu)

\* The GPU workers Docker runs, leased or only loaded, may share the GPU: no
\* start overtakes the stop of a worker it conflicts with.  Once a request to
\* docker-control has failed the code gives no such guarantee.
LoadedFits == ~faulted => Fits(Running)

\* An exclusive lease is the only lease of its service: no regular acquire,
\* queued before or after it, is granted next to it.
ExclusiveIsolation ==
  \A r \in active_exclusive_leases : LeasesOn(Service[r]) = {r}

\* Neither an idle timer, nor the preparation of another service, nor an
\* operator's stop asks Docker to stop a worker on which a lease is active.
NeverStopsLeased ==
  [][\A s \in halting' \ halting : s \notin Leased /\ s \notin Leased']_vars

\* No lost wakeup: a request asleep on lease_condition is really blocked.  Only
\* an exclusive acquire that fails leaves the queue without notifying those that
\* wait behind it.
LeftQueue(s) == \E q \in Requests : Exclusive(q) /\ Service[q] = s /\ task[q] = "failed"
NoLostWakeup ==
  \A r \in Requests : task[r] = "waiting" => Blocked(r) \/ LeftQueue(Service[r])

\* A GPU worker with an idle timeout does not stay loaded unused: it is leased
\* again, or it stops, whatever timers acquires and stops cancelled.  (An idle
\* stop that docker-control refuses is not tried again, and a preload that fails
\* after the start of its container arms no timer.)
PreloadFailed(s) ==
  \E r \in Requests : Kind[r] = "ensure" /\ Service[r] = s /\ task[r] = "failed"

IdleWorkerStops ==
  \A s \in IdleStopped :
    container[s] = "running" /\ s \notin Leased ~>
      container[s] = "exited" \/ s \in Leased \/ faulted \/ PreloadFailed(s)

=============================================================================
