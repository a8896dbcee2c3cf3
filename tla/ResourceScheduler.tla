------------------------- MODULE ResourceScheduler -------------------------
(***************************************************************************)
(* Fail-closed admission of workers (supervisor/resource_scheduler.py).    *)
(* A configuration c is a record                                           *)
(*   mode       "compatibility" or "resource"                              *)
(*   gpu        the services whose requirement says gpu                    *)
(*   exclusive  the services with exclusive_gpu                            *)
(*   vram       gpu_vram_mb of each service, Unknown when not measured     *)
(*   groups     compatibility_groups of each service                       *)
(*   total, headroom   the capacity, Unknown when not configured           *)
(* The state machine lets any service ask for an allocation at any time    *)
(* and any holder give it back, as the supervisor does.                    *)
(***************************************************************************)
EXTENDS Integers, FiniteSets, FiniteSetsExt, SequencesExt

CONSTANTS
  Workers,    \* the configured services
  Configs,    \* the configurations considered
  Unknown,    \* None
  Preference  \* prefer_resident of the profile whose plan is asked for

VARIABLES config, allocated
schedulerVars == <<config, allocated>>

\* What validate_config and __init__ have seen to: the GPU services are
\* configured, numbers are not negative where they are given, and the mode is
\* one of the two.
ValidConfig(c) ==
  /\ c.mode \in {"compatibility", "resource"}
  /\ c.gpu \subseteq Workers
  /\ c.vram \in [Workers -> Nat \cup {Unknown}]
  /\ {c.total, c.headroom} \subseteq Nat \cup {Unknown}

ASSUME ConfigsAssumption ==
  /\ IsFiniteSet(Workers)
  /\ Unknown \notin Nat
  /\ Preference \in Seq(Workers)
  /\ \A c \in Configs : ValidConfig(c)

Measured(x) == x # Unknown
Reserved(c, S) == MapThenSumSet(LAMBDA s : c.vram[s], S)

\* Mutant of CapacityHolds: a set that fills the GPU exactly is refused.
CapacityHoldsStrictly(c, S) ==
  /\ Measured(c.total) /\ Measured(c.headroom)
  /\ \A s \in S : Measured(c.vram[s])
  /\ Reserved(c, S) + c.headroom < c.total

\* The capacity tests of admit.
CapacityHolds(c, S) ==
  /\ Measured(c.total) /\ Measured(c.headroom)
  /\ \A s \in S : Measured(c.vram[s])
  /\ Reserved(c, S) + c.headroom <= c.total

\* Mutant of Admits: the exclusivity test looks at the requesting worker only.
AdmitsIgnoringHolders(c, service, allocations) ==
  LET current == (allocations \cap c.gpu) \ {service}
  IN \/ service \in allocations
     \/ service \notin c.gpu
     \/ c.mode = "compatibility" /\ current = {}
     \/ /\ c.mode = "resource"
        /\ current # {} => service \notin c.exclusive
        /\ \A other \in current : c.groups[service] \cap c.groups[other] # {}
        /\ CapacityHolds(c, current \cup {service})

\* admit(service, allocations).allowed, for the set of allocated services:
\* a service that is allocated already is always admitted, a CPU service too;
\* priorities only choose which allocation of one service is looked at.
Admits(c, service, allocations) ==
  LET current == (allocations \cap c.gpu) \ {service}
      joined  == current \cup {service}
  IN \/ service \in allocations
     \/ service \notin c.gpu
     \/ c.mode = "compatibility" /\ current = {}
     \/ /\ c.mode = "resource"
        /\ current # {} => joined \cap c.exclusive = {}
        /\ \A other \in current : c.groups[service] \cap c.groups[other] # {}
        /\ CapacityHolds(c, joined)

\* Mutant of ResidentPlan: each worker is admitted next to the allocations only.
ResidentPlanUnprojected(c, allocations) ==
  {s \in ToSet(Preference) : Admits(c, s, allocations)}

\* resident_plan: the preferred workers, taken in order, that are admitted
\* next to the allocations and the workers selected before them.
ResidentPlan(c, allocations) ==
  FoldLeft(LAMBDA selected, s :
             IF Admits(c, s, allocations \cup selected) THEN selected \cup {s} ELSE selected,
           {}, Preference)

-----------------------------------------------------------------------------
\* A set of GPU workers that may share the GPU: what admission is for.  The
\* memory they need is known, and leaves the reserved headroom free.
ShareGpu(c, S) ==
  CASE c.mode = "compatibility" -> Cardinality(S) <= 1
    [] c.mode = "resource" ->
         /\ Cardinality(S) > 1 => S \cap c.exclusive = {}
         /\ \A s, t \in S : s # t => c.groups[s] \cap c.groups[t] # {}
         /\ \A s \in S : Unknown \notin {c.total, c.headroom, c.vram[s]}
         /\ S # {} => c.total - Reserved(c, S) >= c.headroom

SchedulerInit == config \in Configs /\ allocated = {}

Allocate(s) ==
  /\ Admits(config, s, allocated)
  /\ allocated' = allocated \cup {s}
  /\ UNCHANGED config

Free(s) ==
  /\ allocated' = allocated \ {s}
  /\ UNCHANGED config

SchedulerNext == \E s \in Workers : Allocate(s) \/ Free(s)
SchedulerSpec == SchedulerInit /\ [][SchedulerNext]_schedulerVars

\* However allocations are admitted and returned, one at a time, the GPU
\* workers allocated together may share the GPU.
AllocatedShareGpu == ShareGpu(config, allocated \cap config.gpu)

\* A resident plan may be loaded as a whole next to what is allocated.
PlanSharesGpu ==
  ShareGpu(config, (allocated \cup ResidentPlan(config, allocated)) \cap config.gpu)

\* Admission refuses nothing that fits: a service is turned away only when
\* joining would make an unsafe set.
RefusalsJustified ==
  \A s \in config.gpu : ~Admits(config, s, allocated) =>
    ~ShareGpu(config, (allocated \cap config.gpu) \cup {s})
=============================================================================
