----------------------------- MODULE GpuLeases ------------------------------
(***************************************************************************)
(* What the supervisor promises the rest of the stack, without the event   *)
(* loop: a lease is granted only next to leases it may run with, any lease *)
(* may end, all may be forgotten at once, and only a worker on which no    *)
(* lease is active is told to stop.  Supervisor is shown to implement it.  *)
(***************************************************************************)
CONSTANTS
  Services, GpuServices,
  Fits(_),        \* sets of GPU services that may share the GPU
  Requests,       \* the acquires
  Service,        \* the service each one names
  Exclusives      \* the acquires that want their service for themselves

VARIABLES
  active_leases,  \* the acquires that hold a lease
  halting         \* the workers told to stop that have not stopped yet
vars == <<active_leases, halting>>

LeasesOn(s) == {r \in active_leases : Service[r] = s}
Leased == {s \in Services : LeasesOn(s) # {}}

\* Whether r may hold a lease next to the ones that are active.
MayJoin(r) ==
  /\ LeasesOn(Service[r]) \cap Exclusives = {}
  /\ r \in Exclusives => LeasesOn(Service[r]) = {}
  /\ Service[r] \in GpuServices => Fits((Leased \cap GpuServices) \cup {Service[r]})

Init == active_leases = {} /\ halting = {}

Grant(r) ==
  /\ r \notin active_leases
  /\ MayJoin(r)
  /\ active_leases' = active_leases \cup {r}
  /\ UNCHANGED halting

Return(r) ==
  /\ active_leases' = active_leases \ {r}
  /\ UNCHANGED halting

ReturnAll ==
  /\ active_leases' = {}
  /\ UNCHANGED halting

Halt(s) ==
  /\ s \notin Leased
  /\ halting' = halting \cup {s}
  /\ UNCHANGED active_leases

Halted(s) ==
  /\ halting' = halting \ {s}
  /\ UNCHANGED active_leases

Next ==
  \/ \E r \in Requests : Grant(r) \/ Return(r)
  \/ ReturnAll
  \/ \E s \in Services : Halt(s) \/ Halted(s)

Spec == Init /\ [][Next]_vars
=============================================================================
