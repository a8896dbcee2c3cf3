# A verification development for AI-Stack

AI-Stack serves several local models (language, speech, vision, image) from one
machine with one GPU. Its parts are small Python services in containers that
talk over HTTP. What can go wrong in it is rarely a formula and nearly always
an order of events: two requests that both found the GPU free, a client that
hangs up in the middle of an answer, a cancellation that arrives as the result
is written. This directory models the parts in which such orders matter, checks
them with TLC, and proves their safety properties with TLAPS.

## Inventory

### GPU supervisor (supervisor/app.py)

State: the leases on each service (persisted), the exclusive ones among them,
the queue of exclusive requests, a reset epoch, one asyncio lock for container
transitions, one idle timer per GPU service. Operations: `/acquire` (regular or
exclusive), `/release`, `/ensure`, `/stop`, `/stop-all`, `/reset-leases`, and
the timers. It calls docker-control to start and stop containers and asks the
resource scheduler for admission.

Hard: an acquire tests its guard, waits for the lock, stops other workers,
starts its own and waits for its readiness before the lease is recorded; a
dozen awaits separate the test from the grant. Idle timers are cancelled in the
middle of a stop. Waiters sleep on a condition that every change of the leases
has to notify. Correct means: leased workers fit on the GPU together, so do the
loaded ones, an exclusive lease is alone, no leased worker is stopped, every
call is answered, and an idle worker is unloaded.

### GPU memory admission (supervisor/resource_scheduler.py)

State: the configuration; the set of allocations is given by the caller.
Operations: `admit`, `allocation`, `resident_plan`. Hard: the boundaries
(memory that fits exactly, an unmeasured worker, unknown capacity) and groups
that are not transitive. Correct means: allocations admitted one at a time can
share the GPU, and nothing that fits is refused.

### Gateway (gateway/app.py)

State: the jobs in progress, each with a lease id of its own. Operations: one
route per kind of request, each of them acquire, work, release; a reset of all
leases at startup. It calls the supervisor with timeouts and retries a release.
Hard: a timeout of a call that is still under way on the other side, and
restarts of either process. Correct means: a job works only under its lease,
and no lease outlives its job.

### Realtime voice (voice/runtime.py, session.py, turn_detection.py, app.py, transports/)

State: a session with its history and its current generation, the task that
answers the current turn, the response it has built, a lock on the websocket, a
registry of at most eight sessions with one-time tickets, the WebRTC peers.
Operations: audio frames become speech started and stopped; a turn is transcribed,
answered by a language model and spoken chunk by chunk; new speech interrupts the
answer; a session is created, connected by websocket or by a WebRTC offer, closed
by client, worker, timer or a failing offer. Hard: the receive loop and the
answering task share everything and suspend at every send, and a peer has four
parties that may close it at once. Correct means: the history holds what the user
heard, nothing stale is sent after an interruption, every turn is reported, no
more sessions are served than there are places, and each gives its place and what
it opened back.

### Agent Lab (agent_lab/controller.py, worker/, worktrees.py, db.py)

State: runs in SQLite, a worktree and a candidate ref per run in git, the set of
active runs and their cancel events in memory, a pool of threads. Operations:
create, start, cancel and cleanup of a run, its execution (baseline, proposal,
patch, evaluation, holdout, verdict), and the recovery at startup. Hard: every
handler has its own thread and reads a row long before it writes it; git, SQLite
and memory change at different moments. Correct means: one execution at a time,
a passed run has the candidate that was tested, passes on evidence, and is never
left in flight.

### Self-improvement (agent_eval/, agent_lab/promotion.py, scripts/self_improve.py)

State: evaluations in SQLite, one sealed reference in a file, an executor of one
thread, an exchange directory through which a runner without network receives
jobs and asks for model answers. A campaign drives all of it over HTTP: it seals a
reference from two evaluations of the base commit, lets Agent Lab attempt a
feature, has the candidate evaluated several times, and reviews it for promotion.
Hard: the evidence is collected over hours, in which an operator may cancel,
replace the reference or move the source's HEAD, and the evaluator may restart.
Correct means: a verdict compares with the reference of its own base, a candidate
qualifies only on evidence for that commit, no unfinished evaluation is orphaned.

### Evaluation router (eval_router/) and the gateway's reports

State: screenings and escalations in SQLite. Operations: every request of the
gateway and every finished voice turn is screened by fixed rules; what fails or is
suspicious is queued; deep-evaluation workers claim it under a claim that expires.
Hard: a worker that is slower than its claim, or gone. Correct means: failures are
never dropped, each escalation ends, with the result of its last claimant.

### Visual memory (visual_memory/, gateway/visual_memory.py)

State: assets, observations and vectors in SQLite, image files, a vector index in
memory with two files. Operations: index an image or a text, search, read an image,
rebuild; on top of these the gateway analyses an image among its neighbours. Hard:
three stores that change one after the other, crashes between them, duplicates,
frames that arrive out of order. Correct means: the index is what SQLite says, a
retained image can be read, sequences are well linked, and a comparison is given
the reference that it names.

### MCP server and tool broker (mcp/, core/tool_broker.py, core/cancellation.py)

State: the registry of tools, one cancellation token per invocation. Operations:
discovery of remote servers at startup; a call is permitted, validated, and its
provider races with a cancellation, a time limit and the end of its handler. Hard:
all of these may arrive at the same wait, and tokens are cancelled by other
threads. Correct means: no provider runs on after its call, no cancellation is
missed, every call returns.

### The rest

Speech to text, text to speech and vision are inference servers behind leases. The
TURN proxy relays media. The sandbox daemon runs validators. Telemetry,
observability, the dashboard, the host agent and the benchmarks watch or measure
the stack.

## How the parts meet

The gateway, voice and the benchmarks hold leases of the supervisor; the voice
session reaches its models through the gateway; Agent Lab asks the gateway for
proposals, agent_eval reaches the model for its candidates; the gateway reports
invocations and turns to the evaluation router and asks the visual memory for
neighbours. Each of these is a call with a timeout, and none shares memory with
another. Four modules compose what keeps state on both sides: `GatewayLeases` (the
gateway and the supervisor), `GatewayRequests` (requests and the evaluation queue),
`SelfImprovement` (the campaign, the evaluator and the review) and `VisualAnalysis`
(the gateway and the memory).

## Modules

`Supervisor` has one action for what the event loop runs between two suspension
points. `task` is where the handler of each call is suspended: at its guard
(`check`, `waiting`), at the lock (`lock`), stopping others (`sweeping`,
`stopping`), starting its own (`retry`, `starting`, `loading`), or over. A
critical section on `lease_condition` contains no await but its own wait, so it
is part of one action; `transition_lock` spans awaits and is a variable.
`container`, `halting` and `launching` are docker-control as the supervisor sees
it: a request is accepted, and the effect follows later. A cancelled idle task
leaves its stop request running in a worker thread, and so does the model.
`Inside` and `Busy` say that a handler that is not suspended runs alone.

`GpuLeases` is what the rest of the stack may rely on, in five actions without
an event loop. `Supervisor` implements it with the leases and the halting
containers mapped to themselves.

`ResourceScheduler` writes `admit` as one set predicate and the resident plan as
a fold, and lets any service allocate and free in any order; `ValidConfig` is what
validation leaves of the configurations. `MCSupervisor` instantiates it, so the
supervisor is checked with the admission it really has.

`GatewayLeases` extends `Supervisor` with the callers: `client` is where a job
is, `gateway` whether its startup hook has run. Arrivals, releases and resets
of the supervisor now happen only when a client or a gateway asks for them. A
release may fail, or take effect and be sent again: buffered and streaming
requests differ, for the supervisor, only in how they come to send it twice.

`VoiceTurns` gives each turn a task with a program counter (`turn[t].at`) and
the receive loop another (`loop.at`). `send_lock` is 0, a turn, or the loop.
`active` stands for the three generation fields of a session, which change
together. Text and audio are counted in chunks; `client` is what the other end
was sent. Where a cancelled task was sending, the client may or may not have
the event. That a send on a closed websocket raises is the behaviour of the web
framework and an assumption.

`Conversation` is what a session promises its user, in seven actions without tasks,
locks or cancellations: an utterance is asked, its answer is shown and then heard piece
by piece, remembered once (whole when it is complete, as heard when it is cut short, and
not before the user knows), and reported once. `VoiceTurns` implements it: what was shown
and heard is what the client was sent, and the outcome of a turn is its evaluation.

`AgentRuns` gives each handler a call record (`at`, and the status it read) and
each executor thread a job. `runs` is the row, `ref` the git ref, `worktree` the runs
whose worktree exists and `tree` its version; a tested version is remembered by its
number, which is how the properties compare what passed with what was saved. A version
is what git sees of a worktree: `save_candidate` asks `git status` and `git add`, which
pass over what `.gitignore` covers, while a patch may create such files (`logs/`,
`dist/`), and the harness runs with them. What a passed run has saved is therefore the
part of what was tested that git sees, and nothing here says that the saved commit
alone passes its harness. An edit may also leave the tree as it is, by replacing a text
by itself. Removing a worktree and deleting its row are two steps. Inspection and
harness selection are part of `Baseline`, since they change nothing that is read later.
SQLite does not fail in this model: a start whose row cannot be written would leave its
run in `_active`, and an execution whose last row cannot be written would leave it in
flight, both until the next restart.

`VoiceSessions` is the life of sessions around `VoiceTurns`. `handler[h].at` is
where an attempt to connect is; `closing` holds the two closes of a peer, of its
transport alone and of its lifecycle, each with its own position, because both can
be under way; `open` is what the attempt holds and must let go of. A websocket
whose cleanup raises ends in `broken` or `lost`, positions the code really has.

`AgentEvaluator` models controller and runner. `exec` is the one thread of the executor,
`canceller` a cancel request between its unlocked read, its look at the active
evaluations under the lock and the write after it, `jobs`, `results` and `mail` the
exchange directory, `runner` the daemon, whose candidate asks the model up to
`MaxProposals` times in each case (`AsksModel`). The reference is `Corrupt` between the
truncation of its file and the write. `PromotionReview` has no state: the blocking
checks, those of a run, its candidate and its diff, are sets of names, and a candidate
is eligible when their union is empty. `SelfImprovement` puts the campaign in front,
with attempts whose Agent Lab run is taken by its end, and an operator beside it.

`EvalQueue` has one action per transaction. `claims` counts the claims of an
escalation and `result` remembers under which of them its result was computed:
bookkeeping of the model, by which a late result would be seen. `GatewayRequests`
adds the requests: `cleanup` is how far each of the two attempts to clean a stream
up is, since a cancelled cleanup is followed by another. Neither belongs to the
response: the shield around the second may be cancelled once more (`ShieldCancelled`),
and a response that is cancelled at its yield leaves a generator to be finalised later
(`StreamAbandoned`, `GeneratorFinalised`). A response can thus be over while a cleanup
holds its lease and job; `RequestsSettled` says that this is the only way to hold them
then, and `CleanupsEnd` that it does not last.

`VisualMemory` names an asset by its content. `loop` is the image request that blocks
the event loop, while texts run in threads; `files` keeps what each of the two index
files says for each revision of the embedding model; `task[r].todo` is what a request
has committed and not yet put in the index. `VisualAnalysis` makes some requests on
behalf of an analysis and goes on with a search whose ranking is any, over images and
texts (which take places in the pack and are then not readable as images), and with a
pack of at most `MaxReferences`. A reference may be of another namespace, if the caller
says so. In the code the reference is put before what was found, with the highest score
and, having no namespace of its own in the list, with a key of its own for diversity;
the model keeps that it comes first. `ImageStore` is what the memory promises, without
files, threads or failures: assets with a retention that only grows and the image it
promises, one vector per crop and revision, and what a search may find, which only grows
until a restart and is everything stored when the index is opened again. A request that
commits and is then lost appears there as vectors not yet found, which is all that a
failure may cost.

`ToolCalls` has a call with its coroutine (`at`), its provider's task (`task`) and
its event (`heard`); a token keeps registered callbacks apart from those that a
cancelling thread took and has yet to call (`firing`).

`MCSupervisor`, `MCGatewayLeases`, `MCResourceScheduler`, `MCVoiceTurns`,
`MCVoiceSessions`, `MCAgentRuns`, `MCSelfImprovement`, `MCVisualAnalysis`,
`MCToolCalls` and `MCGatewayRequests` hold the values of constants.

## Runs

| run | instance | states | shows |
|---|---|---|---|
| resource_scheduler | 384 configurations of 3 GPU and 1 CPU service | 2,552 | admission is safe and refuses only for a reason |
| supervisor_compatibility | 4 calls, 3 services, docker faults, restarts | 214,043 | leases with one GPU worker at a time; refinement |
| supervisor_resource | 3 calls, 3 services that overlap or not, 1 reset | 186,059 | memory with a shared GPU; wakeups; idle unloading |
| gateway_leases | 2 jobs and a stop-all, one gateway restart | 145,743 | leases follow the jobs that use them |
| voice_turns | 2 turns of 2 chunks | 58,058 | barge-in, history, endings; refinement |
| voice_sessions | 2 attempts, 2 sessions, 1 place | 250,300 | capacity, closing from four sides |
| agent_runs | 1 run, 4 racing calls, 2 iterations, 1 restart | 575,668 | one execution, saved and justified passes, recovery |
| self_improvement | 2 baselines, 1 attempt, 2 evaluations, 1 case of 2 proposals | 381,605 | evidence of a qualified candidate |
| visual_analysis | 3 requests, 3 images, 1 text, 2 namespaces, 1 restart, 1 fault | 2,521,559 | index, files and sequences against SQLite; refinement |
| tool_calls | 2 calls with one token, 2 aborts each | 177,221 | ending and cancelling of remote tools |
| evaluation_queue | 1 request, 1 voice turn, 2 workers | 255,276 | cleanup of streams, escalations |

The run orphaned_lease refutes a sentence of the repository: the comment at
gateway/app.py:824 says that releasing after a timed-out acquire prevents an
orphaned lease, and TLC finds the release arriving before the grant.

### Known divergences

The models contain these steps, and the properties are worded so that they hold
with them:

* An acquire may cancel an idle stop that Docker already carries out and is granted a
  worker that is going down (supervisor/app.py:355).
* An exclusive acquire that fails leaves the queue without a notification
  (supervisor/app.py:645).
* A websocket client that leaves while it is spoken to, or before the first two events,
  keeps its place in the registry (voice/app.py:421, 327).
* A cancellation that arrives while the candidate is being saved is overwritten by the
  passing result: the row goes from `cancelling` to `passed`, where the README.md:261
  and ARCHITECTURE.md:27 of the repository say that a run cannot promote a candidate
  after its cancellation was requested (agent_lab/controller.py:144).
* Files that `.gitignore` covers are tested with a candidate and not saved with it
  (agent_lab/worktrees.py:91).
* A container that docker-control cannot inspect is skipped by a sweep, and two workers
  may be loaded; a preload that fails leaves its worker without an idle timer, and an
  idle stop that fails is not tried again (supervisor/app.py:441, 832, 372).
* A CPU worker is admitted while a GPU worker starts, against the comment at
  supervisor/app.py:304.
* A status that a handler of Agent Lab or of the evaluator read before its lock may be
  written over a newer one, so that a row says cancelled over an execution that goes on,
  or cancelling until the next restart (agent_lab/controller.py:205, 212;
  agent_eval/controller.py:596).
* A frame whose first analysis failed after it was indexed counts as seen when it is
  sent again (gateway/visual_memory.py:147).
* Sequence numbers are unique only within a session, since SQLite takes no NULL for
  equal to another (visual_memory/storage.py:156).
* A stream whose iterator is never begun keeps its lease (gateway/app.py:1296), and a
  response may be over before the cleanup of its stream is (gateway/app.py:1291).
* A peer closed while its offer is being set up leaves a provider or a worker running
  (small_webrtc.py:343).
* A call of a tool whose handler is cancelled twice leaves the provider's task behind
  (tool_broker.py:325).

### Why the bounds are enough

The GPU properties relate two leases, a third call that stops or preloads, and one that
waits; more calls only repeat these roles, and the proofs below remove the bound for
safety. Two of the calls name the same service because exclusivity and the last release
need it. In voice, each property speaks of one turn or of a turn and its successor, and
two chunks let an answer be heard in part; one place for two sessions makes the registry
full. In Agent Lab, runs share nothing but the lock and the thread pool; one run with a
start that may come twice, a cancel and a cleanup contains every conflict, two
iterations tell a first proposal from a retry, and a restart can fall into any step. A
campaign needs both baselines and at least one candidate whose second evaluation may
differ from its first; with `MaxEvals` at two, an instance that starts with a sealed
reference spends them on the candidate, one that does not on the baselines, and
`MaxDisturbances` admits one interference at any step. The one case lets its candidate
ask twice, and the tokens of an evaluation, counted in units of which a call takes one
or more, allow for one, so that the second request is refused or breaks the budget. The
memory needs a duplicate, a near duplicate and a third frame to lie between two others;
the pack has one place, for which the reference and a text that the search has found
compete. Two tool calls share what two can share, a token. Two workers suffice for a
late result, one request and one turn for the two kinds of event; `MaxSlow` and
`MaxStops` bound what would otherwise go on for ever. `MaxEpoch`, `MaxTurns`,
`MaxChunks`, `MaxIterations`, `MaxRestarts`, `MaxFaults`, `MaxCreated`, `MaxAborts`,
`MaxCalls`, `MaxProposals` and `MaxCallTokens` are the other bounds; `MaxIterations`,
`MaxProposals` and `MaxCalls` are limits of the code as well.

## Fairness

Supervisor: an asyncio loop runs each ready task, so its steps are weakly fair;
`asyncio.Lock` is first come, first served, so taking it is strongly fair;
docker-control ends each start and stop (its grace period is 30 s); the readiness
wait has a deadline; callers release what they got, as the finally clauses of the
gateway do. Container crashes, faults, restarts and timeouts are never forced.

Gateway: the supervisor's fairness, and jobs that go on after an answer, end
their work (the backend calls have timeouts) and send their release.

Voice: tasks and sends make progress; a provider returns or fails, as its HTTP
calls are bounded by timeouts; the lock is fair as above; and a session ends
at its maximum length, which is the strong fairness of `Closes`. New speech,
disconnects and the offers of a client are never forced; an answered offer ends by
its session timer.

Agent Lab and the evaluator: started handlers and executor threads go on
(operating-system threads, bounded model and harness calls), and the deadline of an
evaluation passes however often its loop turns (strong fairness). Calls, restarts
and the operator are never forced, and nothing is asked of what a model or a harness
answers or of the runner.

Requests: the event loop runs the steps of a cleanup that has begun, inside a response
or detached from it, and finalises a generator that was dropped; the calls in a cleanup
have timeouts. Nothing else of a request is sure to happen.

Router and broker: workers poll and end what they evaluate, within their timeout,
and the lifetime of a claim runs out; a coroutine whose awaited event is there goes
on, the broker's time limit expires, a cancelled task ends. That a remote server
answers is not assumed.

## Proofs

A component's proofs are in a module of their own beside it; those of the supervisor,
its callers and its admission are together in `SupervisorProofs`. The theorems hold for
every value of the constants that meets the named assumptions of the component's
module, so that the bounds of the runs do not matter to them. Every invariant and every
action property that a passing run checks is a theorem. Each is proved along the
same line: an inductive invariant, which TLC has checked before, holds at first, every
action keeps it (one lemma per action or kind of action, joined in one for `Next`), and
it implies the property.

| theorem | module | meaning |
|---|---|---|
| `TypeCorrect` | SupervisorProofs | types, and one retry at most |
| `LeasedFitsHolds` | SupervisorProofs | leased workers fit together |
| `ExclusiveIsolationHolds` | SupervisorProofs | an exclusive lease is alone |
| `NeverStopsLeasedHolds` | SupervisorProofs | no step stops a leased worker |
| `Implements` | SupervisorProofs | every behaviour is one of `GpuLeases` |
| `LoadedFitsHolds` | SupervisorProofs | loaded workers fit together |
| `NoLostWakeupHolds` | SupervisorProofs | who sleeps is really blocked |
| `GatewayDrivesSupervisor` | SupervisorProofs | with its gateway it is still the supervisor |
| `LeasesUnderGateway` | SupervisorProofs | so all of the above holds under the gateway |
| `WorkingHoldsLeaseHolds` | SupervisorProofs | a job works only under its lease |
| `NoLeaseOfTheDeadHolds` | SupervisorProofs | a new gateway finds no lease of the old |
| `AllocatedShareGpuHolds` | SupervisorProofs | what is admitted one by one fits together |
| `PlanSharesGpuHolds` | SupervisorProofs | a resident plan fits as a whole |
| `RefusalsJustifiedHolds` | SupervisorProofs | nothing that fits is refused |
| `SchedulerIsAdmission` | SupervisorProofs | the scheduler is what the supervisor assumes |
| `HistoryHeardHolds` | VoiceTurnsProofs | the history is what was heard |
| `HistoryOrderedHolds` | VoiceTurnsProofs | an answer follows its utterance |
| `NoStaleOutputHolds` | VoiceTurnsProofs | silence after an interruption |
| `ImplementsConversationHolds` | VoiceTurnsProofs | every behaviour is one of `Conversation` |
| `ServedWithinCapacityHolds` | VoiceSessionsProofs | no more sessions than places |
| `PeersReleasedHolds` | VoiceSessionsProofs | a closed peer holds nothing |
| `OneExecutionHolds` | AgentRunsProofs | a run is executed once at a time |
| `PassedIsSavedHolds` | AgentRunsProofs | what git saw of what passed is what was saved |
| `PassedOnEvidenceHolds` | AgentRunsProofs | a pass has its evidence |
| `InFlightOwnedHolds` | AgentRunsProofs | nothing stays in flight |
| `UnfinishedIsOwnedHolds` | SelfImprovementProofs | no evaluation is orphaned |
| `PassedMeetsReferenceHolds` | SelfImprovementProofs | a pass met the reference of its base |
| `QualifiedOnEvidenceHolds` | SelfImprovementProofs | a candidate qualifies on evidence |
| `IndexIsStoreHolds` | VisualAnalysisProofs | the index is what SQLite says |
| `RetainedOnDiskHolds` | VisualAnalysisProofs | a retained image can be read |
| `ImplementsImageStoreHolds` | VisualAnalysisProofs | every behaviour is one of `ImageStore` |
| `SequencesLinkedHolds` | VisualAnalysisProofs | sequences are linked in their order |
| `ReferenceSentHolds` | VisualAnalysisProofs | a comparison has its reference |
| `FailuresEscalatedHolds` | GatewayRequestsProofs | no failure is dropped (checked by no run) |
| `ResultByClaimantHolds` | GatewayRequestsProofs | no late result is stored |
| `RequestsSettledHolds` | GatewayRequestsProofs | an answered request left its lease and job to its cleanup at most |
| `ProviderEndedHolds` | ToolCallsProofs | no provider's task outlives its call |
| `CancelReachesHolds` | ToolCallsProofs | cancellation reaches waiting calls |

`Invariance` (`TurnsInvariance`, `MemoryInvariance`, `CallersInvariance`) is the theorem
that the inductive invariant holds.

**Supervisor.** It is assumed that the GPU services are services and identities do not
clash (`ServicesAssumption`), each call names a service and an endpoint
(`RequestsAssumption`), and the policy extends a set that fits only to a set that fits,
while a subset of a set that fits does too (`AdmissionAssumption`, which
`SchedulerIsAdmission` shows of the scheduler). `LeasedFits` is not inductive:
the grant comes long after the guard. `IInv` says what a call may rely on in between.
`ControlInv` ties positions to `transition_lock`: a call that stops or starts containers
holds it, and the idle task that stops one does too. `LeaseInv` says that the holder's
service still fits beside the leases of the moment, because any other GPU lease is
granted under the same lock, and CPU leases do not count. `HaltInv` says that what the
holder is still going to stop has no lease. A step that takes no lease and hands over no
lock is quiet, and one lemma covers all of these; the four others have a lemma each.
`LoadInv` adds that workers the sweep has passed, together with the leased ones and the
one to be started, fit, as long as docker-control has not failed; without that condition
it is false, since a container that cannot be inspected is skipped. For `NoLostWakeup`,
every step either wakes all sleepers or is calm: it leaves the leases alone, puts nobody
to sleep who is not blocked, and takes out of the queue only exclusive acquires that fail,
which are those that notify nobody.

**The gateway's leases.** Each step of the composition is a step of the supervisor or
leaves it alone, so that its theorems carry over. `CallersInv` adds `JobInv`, that a call
which was granted and whose job goes on has its lease, and `DeadInv`, that an acquire left
by a process that ended is over or began in an earlier epoch: the reset that a new gateway
makes before it serves raises `lease_epoch`, and a grant at the end of an older acquire is
refused for it.

**Admission.** `ConfigsAssumption` is what `validate_config` and `__init__` check:
finitely many services, sizes that are natural numbers or not known, one of two modes, and
a preference among the services. `Reserved` is a sum and `ResidentPlan` a fold of the
community modules, recursive functions over subsets. The library's induction theorems are
out of the provers' reach, since they take the induction hypothesis as an operator; the
proofs take a minimal counterexample instead (`MinimalSubset`, from the well-foundedness of
the strict subset relation). From it follow that such a function exists (`FoldExists`),
that two of them agree where both are defined (`FoldsAgree`) and that it keeps the type of
its step (`FoldsTyped`). That a sum does not depend on the order in which elements are
picked (`ReservedRemoves`) and that a subset reserves no more (`ReservedShrinks`) are what
makes releases safe. The plan is `FoldsTyped` again, with the safe selections as the type.

**Voice turns.** There is a turn, and chunks are counted. `SessionInv` says that the one
task that runs is the tracked one and its response the tracked one; `AudioOf` that the
client has the audio that was counted and the frame in flight, which only the holder of
`send_lock` has; `CapturedInv` what the receive loop may rely on while it cancels the
turn it has captured, at each of its positions: nothing else runs, the turn has ended by
the time it is recorded, and it is recorded once, with what was heard of it by then.
`Silent` says that a turn which the client knows to be interrupted is not the active one
and is not at the lock, which makes `NoStaleOutput` a property of each step (no run
checks it by itself: the conversation of the refinement implies it). For the refinement,
`TalkInv` is added, inductive beside `TurnsInv`: `PaceOf` counts text, audio and the
model's deltas against each other at every position of a task (while a turn is current
nothing is left out, so that a completed answer was heard to its end), `OutcomeOf` ties
the report of a turn to its answer, and `ToldInv` says that only an incomplete answer is
interrupted and that the client knows of it before the history does. Each action is then
one step of the conversation (`SimulatesShows`, `SimulatesSpeaks`, `SimulatesWords`,
`SimulatesReports`) or none (`Stutters`). A turn may fail after its answer was
interrupted but before it is recorded; the conversation has this step (`CutsShort` of a
failed turn).

**Agent Lab.** The call table names runs and kinds that exist, and no run is called
`none`. `SoleInv` says that a registered run is with one start call, in the queue once,
or with one thread. That is what makes `Sound`, the record of what an execution has
established, survive the steps of all others: at every node it says how the tested
version relates to the one in the worktree, that a strict run at its proposal has a
failing test, and that one on the way to its holdout was changed. A pass then has its
evidence because `_finalize` reads only what `Sound` vouches for. `KnownInv` says that a
row is created before any call is concerned with it.

**Self-improvement.** The bounds and budgets are numbers and the campaign has two
baselines. The invariant speaks of rows, executor, queue and campaign alone and needs
nothing of the runner, the operator or the file of the reference: `ExecutorOwns` says
that what is queued or executed is active and is so once, `CampaignOwns` that what is
created and not submitted is the campaign's, and `VerdictsTruthful` that a verdict
compared with a reference of its base, which was checked when the file was read and
stays true when the file is replaced. For the qualified candidates, `EvidenceInv` adds that
a verdict once given is not touched again, because its evaluation is out of the queue and
the executor's hands (`EvaluationInv`), that the campaign has counted only evaluations of
the commit it attempts, and at the review exactly as many as it must (`CampaignInv`), and
that the evidence of a qualified attempt stays what it was (`QualifiedInv`).

**Visual memory and analyses.** A work names an item and its crops, finitely many and at
least one, since an upload without crops is refused before it reaches the store, and a
sequence number is not negative (`WorksAssumption`). Every step of the composition is
one of the memory or leaves it alone. `MemoryInv` is about who may be ahead of whom:
`TaskInv` says that a request which has committed keeps the labels it has still to add,
`WriterInv` that the two files of a revision change in an order in which the digest
never names a label that the content has not, and neither one of another revision, so
that any pair of files found after a crash is either what SQLite has or is rebuilt.
`FileInv` follows a file from its write to the row that promises it (`RetainedOnDisk`,
which no run checks by itself: the refinement implies it). For the refinement,
`UpgradeInv` adds that a request for an image has the event loop to itself, so that the
retention it found to be less is still less when it writes its own; that no vector
repeats another follows from the transaction, which looks for the crops once more
(`EmbeddedExtends`), and that an opened index finds everything from `WriterInv`: a
digest that equals the store leaves nothing out of the file. Each action is then one of
the store (`CommitsStore`, `KeptStore`, `LabelsStore`, `OpensStore`, `RestartsStore`) or
none (`StoreStutters`). `AnalysisInv` says that a reference that could be shown at the
beginning is in the pack or already sent, whatever the search returned. `ObservedInv` is
the doubly linked list itself; that an observation is inserted between its neighbours,
where frames arrive out of order, is a lemma on finite sets of numbers, which have a
least and a greatest.

**Requests and the evaluation queue.** Events are requests and voice turns. `Sound`
says of each rule that a verdict which fails gives a reason to look deeper, for
any event at all; `ClaimInv` that a worker whose name is in the row has its last claim;
`Settled` how far the two cleanups of a stream are, against lease, job and history,
before and after the end of the response: a first attempt that is done without a second
has released, and so has a second that is done.

**Voice sessions.** The registry has at least one place. `OwnSession` says that whoever
is served has a session of its own that is in the registry and taken, which makes the
served ones an injection into it; `ClosedInv` says for each position of a close what is
gone by then, provided that no close began while the offer was being set up.

**Tools.** Allowed and supported tools are tools, each call has a token. `RecordInv`
says how far the provider's task is at each place of its call, `CallbackInv` that a
waiting call is registered at its token, is about to be called by a cancelling thread,
or has heard.

Only model-checked are the ten liveness properties (`IdleWorkerStops`, `JobsEnd`,
`TurnsEvaluated`, `HandlerEnds`, `ConnectedEnds`, `ExecutionsEnd`, `EvaluationsEnd`,
`CallsEnd`, `EscalationsEnd`, `CleanupsEnd`): they rest on fairness, hence on `ENABLED`,
which is out of the prover's reach. `NoOrphans` is what the run orphaned_lease refutes.

## Not modelled

Components without a module: the workers themselves (speech, vision, images), which are
external to the lease protocol; the TURN relay and the sandbox daemon, which do one
thing at a time on sockets or files (the runner of `AgentEvaluator` follows the sandbox's
protocol); telemetry and tracing, which only observe; host agent, smoke tests and
benchmarks, which are sequential commands over the operating system and result files.

Within modelled parts: the gateway's MQTT publisher, self tests and dashboard routes, and
its translation of the Responses API, which are formats around the same lease and
forwarding; the audio track of WebRTC with its queue and the credentials of TURN; the
MQTT provider and the audit record of the tool broker; the parsing of configuration
files; authentication; event logs that nothing reads, metrics, the harness registry;
the loop of a campaign over several features, which repeats the one that is modelled.
What a model, a harness or a similarity search answers is any answer.
A reference image that is uploaded with a comparison is sent from the request itself and
asks nothing of the memory. A cancellation of a request that is still acquiring its lease,
or of the cleanup of a stream that could not be set up, comes with the end of the server
and is left out. That `core/cancellation.py` may be cancelled by other threads is the
contract its documentation gives: the MCP server makes a token per call, which it keeps
to itself (mcp/app.py:656), so that today only the library's users can meet `CancelReaches`.

Some hazards have no property because the repository promises nothing there (a cleanup
that races a stale start, a `cancelling` row written after the end, a failed idle stop);
the models contain those steps, so that the stated properties hold with them.

## Plan

Done, in the order of what the stack depends on: the supervisor, its abstract service
and proofs; admission; the gateway's leases; voice turns; Agent Lab runs; the evaluator,
the promotion review and the campaign; the evaluation queue with the requests that feed
it; the voice sessions; the tools; the visual memory and its analysis; the abstract
conversation and image store; the proofs of the table above.

Left, in this order:

1. The steps of the liveness arguments that need no fairness, such as measures that each
   step of a handler decreases, as action properties.
2. The audio queue of WebRTC, whose `clear_audio` belongs to an interruption, and the
   MQTT provider of the tool broker, whose thread may publish after its call timed out.
