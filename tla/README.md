# miragen, specified

TLA+ modules, TLC configurations and TLAPS proofs about miragen: the agent service a
container runs (`miragen/app.py` and what it uses), the lifecycle daemon `miragend` with its
session plane (`miragen/daemon/`), the spoke that lets a remote hub drive agents
(`miragen/daemon/spoke/`), the memory store and its workers (`miragen/memory/`) and the hook
client of coding harnesses (`miragen_hook/`). The modules are translated from the source; the
documents under `docs/` are only quoted where the code and they disagree.

Contents: [the system](#the-system) · [the modules](#the-modules) ·
[the properties](#the-properties) · [runs](#the-runs) ·
[findings](#where-code-and-text-disagree) · [proofs](#what-is-proved) ·
[what is only model-checked](#what-is-only-model-checked) ·
[what is not modelled](#what-is-not-modelled) · [what is left](#what-is-left)

How to run them, from this directory:

    tlc -workers 2 -config RunLifecycle.cfg MCRunLifecycle
    tlapm ServiceProofs.tla

## The system

Processes, each with its own way of running concurrently.

* The **agent service** is one asyncio event loop. Code between two `await`s runs
  undisturbed; everything that is interesting happens because handlers, background turns,
  scheduler jobs, watchers and generators that the web server closes meet at their `await`s.
  The locks of engineer workspaces and `asyncio.to_thread` add threads to it.
* The **daemon** is another event loop for its session plane, with a fair `asyncio.Lock` per
  external session, and a thread pool for its agent routes, which run truly in parallel.
* The **spoke** is a plain loop in one thread. Nothing interleaves inside it, but every call
  it makes to the hub, to an agent or to the cluster can have its effect and not be answered.
* The **extraction worker** is a sweep over jobs under a lease; the **hook client** is a
  process per hook, several of them at once.

All of them can be killed at any point. What survives is files: run records, schedule
bindings, histories, harness entries, worktrees, the daemon's `sessions.json`, journals,
profiles and `compose.yml`, the harness's own configuration. The spoke keeps nothing.

### Inventory

State, operations, interactions, what is hard, and what makes the component correct.
`PROJECT.json` repeats the list with file names and, under `hazards`, the lines where each
hard behaviour bites.

| Component | State | Operations | Interacts with | Hard | Correct when |
|---|---|---|---|---|---|
| **Agent service: runs** (`app.py`, `runs.py`) | run records on disk; `_active_runs`, `_busy_instances`; one coroutine per turn | `/run`, `/run/async`, `/run/stream`, `/executor-runs`, `/instances/{name}/turns`, resume, abandon, scheduled fires, startup sweep, retention | event log, executor or harness, memory boundary, schedules | turns hold a copy of their record over long awaits; a client that goes away closes a generator; retention deletes what others still refer to; kills | slots are neither leaked nor doubled, one turn per instance and per run, one dispatch per launch key, terminal records stay, questions are not dropped |
| **Executor tier** (`executor/`, routes of `app.py`) | workspace on disk, event stream, the runtime's session, usage, gate blocks of the backend | prepare a workspace, run a turn, harvest a diff, suspend for a budget, a question or a block, resume, abandon | runs, publication, five runtimes | gate blocks are collected per backend, not per run; a cut turn must keep its session handle and its work; usage of turns is added up in several conventions | diffs are whole, questions settled, threads kept, budgets held, blocks reviewed; a runtime's failure is no success |
| **Managed schedules** (`schedules.py`, scheduler glue in `app.py`, `runtime_tools/scheduling.py`) | binding files; scheduler jobs in memory; fires in flight | PUT with compare-and-swap, DELETE, the agent's `schedule_wakeup` and `cancel_schedule`, fire, register at startup | runs (a fire starts one), reconcilers outside | file and job are two states with five writers, and fires act on what was stored earlier | a job belongs to a stored binding that fires here; one-shots fire once; updates are not blind; an interactive agent never wakes itself |
| **Session plane: lives, runs, journal** (`daemon/sessions/plane.py`, `registry.py`, `models.py`) | registry entry and `sessions.json`; journal per session; lock queue; artifact-store runs; episodes in memory backend | hook events, capture, finalize, sweep, prune, replay after a kill | hook client, artifact store, memory backend | an event changes the session before it queues for the lock; store and memory calls fail or go unanswered; the replay meets any mix of four stores | every life is filed once, runs are closed, nothing of an open life is lost |
| **Session plane: recall and nudge** (`daemon/sessions/plane.py`, `miragen_hook/client.py`) | background recall jobs per session, sequence numbers, the hooks' marker file, nudge counters | prompt starts a recall, tool and stop hooks claim it, compaction and close drop it | memory store, hook client | superseded jobs, sequence numbers that restart at one, hooks of parallel tools, lost answers | a recall is shown at most once, in the turn and context that asked for it; an agent that stops is let stop |
| **Spoke** (`daemon/spoke/`) | workloads, `pending_settles`, `pending_acks`, `pending_results`, `sent_once`, run cursors, all in memory | tick: retry, claim intents and deliveries, forward, settle, relay events, post turn results, watch and delete, refresh model tokens | hub (leases), agents (HTTP), cluster driver | lost answers, leases that run out, generations replaced in flight, a restart that forgets all | a resume or abandon is not sent twice, verdicts are true, acknowledged intents are in effect, no event is skipped, a workload's end is reported before it is deleted |
| **Approvals and interventions** (`broker.py`, `approval.py`, `harness/gateway.py`, routes of `app.py`) | pending futures, expiry timers, queued async calls, outcomes, the version pollers wait on | gate a tool call, approve, deny, expire, poll, post an async outcome | turns that wait, runs | answer, expiry and cancellation race for one future; an approval outlives the turn that asked | a tool runs at most once and only when approved, never in another turn than its own; pollers miss nothing |
| **Event log** (`events.py`) | JSONL per run, sequence numbers | append, page after a cursor | runs, spoke relay | several writers, torn last line | numbers grow, a reader with a cursor misses nothing |
| **Reviewed publication** (`publication.py`, `publish_run`) | claim files and saved publications per key; the backend's runs | publish: claim, four writes at the backend, save; answer a repeated key; release after a failure | runs, publication backend | two requests for one key, a failure or kill between any two writes | the answers to a key name one complete publication; a failed attempt can be retried |
| **Daily budget and model rates** (`runs.py`, `model_rates.py`, `executor/base.py`) | usage of today's records, reservations of running ones, a rates table from a file or an endpoint | check before a turn, weigh usage by the rates, refresh the rates | runs, executor tier | the source breaks, changes or is away; usages come with and without detail | the day's total overshoots by less than one cap; what cannot be weighed counts in full |
| **Grok Build harness** (`harness/grok.py`, the ACP client) | per instance: a process with its lock, the vendor session, the entry in `miragen-instances.json`; a spawn lock for all | turn, compact, rotate, delete, evict, reap, prewarm | runs, instance routes, grok over ACP | state read before a lock and used after it; deaths inside a prompt; maintenance that overlaps turns and deletions; kills with other instructions at the next start | process and entry name one session; instruction updates and handoff notes reach the conversation; a deleted one does not come back; nothing waits for ever |
| **Other conversation harnesses** (`harness/codex.py`, `claude_code.py`, `served.py`, `engineer.py`) | per harness and instance a thread, entry and process; who served last; shared clones and worktrees of an engineer lane; depth of its subagents | turn, compact, rotate, delete, swap of the harness between boots; provision, discard worktrees; hooks of subagents | runs, instance routes, git, the client | queues at two locks; a swap leaves another harness's thread behind; cancelled provisioning goes on in a thread | the client is told when a turn does not continue the conversation; work in a worktree is kept; subagents stay above the depth limit |
| **Memory lifecycle** (`memory/`) | events, records and revisions, the slot's claims, the selection cache; work contexts; extraction jobs under leases | append, propose, revise, correct, retract, erase, recall; checkpoint; extract | runs, session plane, a model | several requests make one client operation while the store changes; retries after lost answers | what was withdrawn is not recalled, corrections are local, checkpoints are what they answer, no job is failed for a fault not its own |
| **Lifecycle daemon** (`daemon/core.py`, `api.py`, `spawn/`) | an agent's directory, the daemon's copy of its profile, its service in `compose.yml`, its container | create, import, update, files and tools, start, stop, delete, each with a rollback | container runtime, reconcilers | no transaction spans the five places; handlers run in parallel; the agent rewrites its own directory | the cap holds; after any failure an agent's service holds no keys but those of the profile last applied or of a request that ended halfway, and once a later request went through it is right for its profile; a public one has no code |
| **Inbox and watches** (`watch.py`) | per source what it showed, entries with growing numbers, one file | poll, diff, acknowledge, restart | a consumer's turns, read-only tools | a window that moves on, failed writes, late acknowledgements | what a source showed is acknowledged, an entry, or told as overflow |
| **Model tokens and credentials** (`model_token.py`, `daemon/spoke/loop.py`, `app.py`) | the spoke's renewal record, the agent's token in memory and file | mint, hand over with a turn, refresh, retry | hub, spoke, harness helpers | lost and late requests, restarts on three sides, a rate-limited mint | a live workload's token has not expired and is never replaced by an older one |
| **Hook client and harness setup** (`miragen_hook/`) | the marker of a recall; `hooks.json`, `config.toml`, skill, adapter copies | claim a recall, post events; install, upgrade, remove, prune | session plane, the harness, its user, another daemon | hooks in parallel; a setup killed half way; hooks trusted by their place | what the hooks run exists; others' hooks and trust stay |
| **Profiles, EDF, validation** (`models.py`, `edf.py`, `load.py`, ...) | none; but the same text is checked in two processes of different ages and environments | validate, load | daemon, agent | the daemon accepts what the agent's runtime then loads elsewhere | what the daemon accepts boots; a public agent is held |
| **Telemetry, voice, CLI** | none that others read | report | all | none | I/O |

How they interact: a request, a stream, a scheduled fire, a launch or a resume goes through
**admission** in the agent service, gets a **run record**, and runs one turn of a harness or
an executor job. The turn writes the event log, may wait on the approval broker, and ends at
the memory boundary; a harvested diff may be **published**. The **spoke** reaches the same
routes over HTTP for the hub and keeps the model token fresh. The **session plane** watches
harness sessions that run outside miragen, through the hook client, files what they did in the
artifact store and in memory, and brings memories back to them. The **lifecycle daemon**
creates and changes the agents all this runs in.

## The modules

One module per component. Proofs are in modules of their own, which EXTEND what they prove
about and TLAPS: `SpokeWorkloadsProofs`, `ReviewedPublicationProofs` and
`ConversationThreadsProofs` a component, `ServiceProofs` two of the agent service
(`RunLifecycle`, `GrokSessions`), `ManagementProofs`, `MemoryProofs`, `SpokeProofs` and
`TurnsProofs` the parts of `MCManagement`, `MCMemory`, `MCSpoke` and `MCTurns`:

| Module | Component | Run by |
|---|---|---|
| `RunLifecycle`, `RunRecords` | agent service: runs, and the abstract life of a record | `MCRunLifecycle` |
| `ManagedSchedules`, `AgentDirectory`, `AgentProfiles`, `ScopeProvisioning` | schedules; lifecycle daemon; profiles; memory scopes of the session plane | `MCManagement` |
| `SessionLives`, `RecallDelivery`, `MemoryRecords`, `WorkContexts`, `ExtractionJobs` | session plane; memory | `MCMemory` |
| `SpokeDelivery`, `ModelTokens` | spoke: deliveries; model tokens | `MCSpoke` |
| `SpokeWorkloads` | spoke: intents, workloads, relays | itself |
| `GrokSessions`, `ConversationThreads` | conversation harnesses | themselves |
| `ExecutorJobs`, `ReviewedPublication` | executor tier, publication (which composes with it) | `MCReviewedPublication` |
| `ToolGateway`, `ExecutorTurns`, `TokenUsage`, `ModelRates`, `HarnessSetup`, `Inbox`, `Workspaces`, `SubagentDepth` | what happens in and around a turn | `MCTurns` |

`ReviewedPublication` EXTENDS `ExecutorJobs` and shares its variables: publications read the
records and workspaces its turns write, and a restart hits both. `ModelRates` and
`ExecutorTurns` EXTEND `TokenUsage`, which has operators only, and `TokenUsage`, `HarnessSetup`
and `Inbox` EXTEND `Lists`: what comprehensions leave of a list, and sums, as functions of the
position that a proof can speak about. `MCTurns`, `MCMemory`,
`MCManagement` and `MCSpoke` put modules next to each other that share no state: a behaviour
picks a `part` and moves only that one, so a run explores each part completely, with
the fairness of the part that moves, and its state space is the sum of the parts', not their
product. What two such parts know of each other stands in each as what it sees of the other:
whether a fire was admitted, whether an agent took a delivery.

Operators named `M_...` are plausible bugs the properties are tried against; the definition
that follows each says what it is a mutant of. `PROJECT.json` runs one for every property of
every run.

### RunLifecycle: admission, records, turns

An action is the code between two awaits. A turn `<<r, n>>` is the n-th resume of run `r`,
0 its first.

| Variable | Code |
|---|---|
| `disk` | the files of `RunStore`; a record's `status`, `trigger`, `idempotency_key`, instance, thread, diff and pending intervention, and the number of resumes (the id of the turn that raised a question) |
| `born` | the order of `started_at`, by which `_prune` deletes |
| `phase`, `held` | where a turn's coroutine is, and the record object it carries over its awaits |
| `activeRuns`, `busyInstances` | `_active_runs`, `_busy_instances` |
| `publishing` | the copy of its record that the publication requests of a run hold |
| `verdicts` | `intervention.answered` / `.superseded` in the run's event stream |
| `profile` | executor or model tier, `max_concurrent_runs`, `MIRAGEN_RUN_RETENTION`; fixed for a behaviour |
| `dispatched`, `pruned`, `completions` | history: launch keys, deleted files, `on_complete` dispatches |

`StartRun` is `/run`, `/run/async`, `/run/stream` and a scheduled fire up to the backend
call; `Launch` is `_launch_run` (lookup, admission and durable acceptance are one segment);
`FinishTurn` the end of the backend call with `finish()` and its `_prune()`; `CloseTurn` the
release after the memory boundary, with the `on_complete` decision of
`run_agent_scheduled`; `Disconnect` what is left of `run_stream` when its generator is closed;
`Resume` and `ResumeRefused` the two ends of `resume_run`; `Abandon`; `Restart` and
`RestartInResume` a kill, also between the verdict and the reopened record, with
`sweep_interrupted` at the next start. `PublishRun` is `publish_run` up to the backend's call,
`AnnotateRun` the `runs.annotate` after it, which saves that copy again whether or not
retention has deleted the file, and `PublicationsOver` the end of the last such request.

A resume may come while the suspended turn is still at the memory boundary. It is one of the
interleavings `OneTurnPerRun` and `NoLostUpdate` are about: two coroutines of one run are in
flight then, and only one may be before its `finish()`.

`RunRecords` is the abstract specification: what the run store promises a reader of each run,
without turns, slots or coroutines. A run is accepted, runs, waits (suspended, failed) or
ends, may be reopened or abandoned while it waits, is interrupted by a restart, and is
forgotten by retention. `RunLifecycle` implements it under the mapping `RunStatus`
(`Observed == INSTANCE RunRecords WITH status <- ...`): the record's status while the file
is there, `new` before the run's first record, `unrecorded` while the file is gone but a turn
of the run still runs (its `finish()` brings the record back), `publishing` while it is gone
and a publication holds the succeeded record (its annotation may bring it back), else `gone`.
`RunsFollowTheirRecords` is `Observed!Spec`, checked by the run and proved.

### ManagedSchedules: bindings, jobs, fires

| Variable | Code |
|---|---|
| `store` | `ScheduleStore`'s files: one-shot or recurring, fires here or not, owner, version |
| `job` | the scheduler's job `managed:<name>`: none, date, interval |
| `fire`, `firing` | the coroutine of `_run_managed_schedule` and the binding it read |
| `seen` | what a reconciler read last |
| `mode` | the profile's mode of this boot |
| `written`, `restarts`, `launched`, `recreated`, `lost` | history |

`Put` is `put_schedule` with and without `expected_version` (a PUT the scheduler rejects
restores the file in the same segment and so is no step); `Delete`, `AgentCreate` and
`AgentCancel` the other writers; `JobDue` the scheduler (external: APScheduler with
`max_instances` 1, which drops an exhausted date job); `FireStale`, `FireRun`, `FireSkip` and
`FireEnd` the coroutine; `Restart` the next boot, perhaps in the other mode.

### SessionLives: one external session

One session, because sessions share nothing but `registry.save()`, which writes all of them
(`SaveByOther`). The lock is a queue of jobs whose first one holds it while `step` is not
`idle`: `asyncio.Lock` wakes waiters in order.

| Variable | Code |
|---|---|
| `sess`, `saved` | `ExternalSession` in the registry, and its copy in `sessions.json` |
| `journal`, `replay` | the session's journal file, and what `replay_journal` has not come to |
| `attaching`, `queue` | handlers that resolve the project, and jobs that wait for the lock |
| `step`, `fin` | where the lock's holder is, and what a finalization read before it waited |
| `runs`, `artifacts`, `filed` | the artifact store's runs, the `end` artifacts put in each, the episodes memory has by idempotency key |
| `sent` ... `orphans` | history: events and lives of the harness session, and runs that a lost answer, a kill or an event of a session already given up left to nobody |

`Arrive` is `handle()` up to its first await, with the synchronous `upsert`; `Enter` the
resolved project; `Dispatch...` the three kinds of event under the lock; `StartJob`,
`EnsureRun`, `File`, `Reopen`, `StoreEpisode`, `CloseRun`, `FinishLife` the awaits of `_capture` and
`_finalize`; `Sweep`, `Prune` the sweeper; `Crash`, `ReplayNext`, `EndReplay` a killed daemon
and its start. Each call to the store or to memory is answered, refused, or done and not
answered.

### SpokeDelivery: leases, settles, replies

One workload and any number of deliveries. The hub is modelled from what the spoke expects
of it and is marked external, and so are the agent and the cluster.

| Variable | Code |
|---|---|
| `pc`, `todo`, `batch`, `now` | where `tick()` is, what its loop has left, the claimed deliveries not handled, the one being settled |
| `pending`, `results`, `sentOnce`, `tracked` | `pending_settles`, `pending_results`, `sent_once`, `workloads` |
| `live` | deliveries whose newest copy here is under a lease the hub still honours |
| `kind`, `hub`, `replied` | at the hub: what a delivery is, its state or verdict, the replies it has |
| `workload`, `sent`, `finished` | the workload in the cluster; at its agent, how often a delivery took effect and which turns are over |
| `reoffered`, `forgotten`, `cut` | history: re-offered at-most-once deliveries, entries that fell out of `sent_once`, results a restart lost |

A call to the hub is answered, lost after its effect, lost before it, or refused for the item
(404, 409, 422); "lost" aborts the tick (`HubUnavailable` in `run_forever`). Deliveries that
must not be sent twice are handled first, as `tick` sorts them.

### GrokSessions: one instance of the Grok Build harness

| Variable | Code |
|---|---|
| `entry` | the instance's entry in `miragen-instances.json`: `session_id`, `instructions_sha`, `instructions_update_pending`, whether a `handoff` is stored, `rotation_pending` |
| `rules` | the instructions of this boot, as a version |
| `sess`, `deleted` | grok's session files: which instructions a session was told last, whether it is still owed the note about its predecessor, whether a process died in a prompt of it; and the files a deletion removed |
| `proc`, `lock` | the `_Agent` of the instance (in `_agents` or not), and the queue at its `asyncio.Lock` |
| `spawnQ` | the queue at `_spawn_lock` |
| `pc`, `on` | where an actor is, and the maintenance task it awaits |
| `what`, `starting`, `current` | the `Decision` of a task, tasks created that the loop has not run yet, `_maintenance[instance]` |
| `carried` | what a turn read before it waited: update, handoff, and the session it was in |
| `count`, `interrupted` | history: how often what is bounded happened; this boot found `rotation_pending` set |

`SpawnFound`, `LoadSession`, `ForkSession`, `NewSession` and `OpenFails` are the ends of
`_agent_for` behind the spawn lock; `TurnStart` to `TurnCancelled` the segments of
`_timed_turn`, with `AfterTurn` the decision of the policy (any decision); `MaintStart` to
`MaintFails` the segments of `_maintain`, `_compact` and `_rotate`; `RotateCall` to
`RotateDone` and `Forget` to `ForgetPurges` the two routes; `OthersQueue` and `OthersLeave`
stand for the other instances and the reaper; `Die`, `GrokRestart`, `Prewarm`.

One assumption about time: starting a process (seconds) takes longer than collecting a dead
one and failing the prompts in it (`Vacated`), so the instance has one process at a time.

A turn in whose prompt the process dies is `TurnDies` and `TurnClosed`: `AcpSession.prompt`
then ends without an error, and the turn goes on as answered. Its session is marked `cut`;
the two properties about what a session was told except such a session (see "Divergences
without a run").

### ConversationThreads: one instance behind Codex and Claude Code

`harness` is the profile's harness of this boot; `entry` what each of the two keeps for the
instance; `served` the ledger of who served last, in which session of the memory plane. Of a
thread remains whether it is `whole` (holds the conversation), `short` (all of it but what a
carry cut) or less, and whether it is `filed` (can be resumed). `CarryOf` is what a new thread
gets of its predecessor: all, the last 200 items or, where Codex refuses the items, its plain
messages (both leave it `short`); what fell away before stays away.
`proc`, `lock`, `spawnQ` are the process and the two queues; `Submit` to `TurnCancelled` are
the segments of a turn, the maintenance task and `RotateCall`, `Forget`, `Evict` run next to
it, and `Restart` may swap the harness. The client (external) sends its recent transcript
along exactly when `GET /instances/{name}/session` said the next turn is fresh.

### ExecutorJobs, ReviewedPublication, ExecutorTurns, TokenUsage, ModelRates

`ExecutorJobs` has the records (`rec`), workspaces (`ws`), what later turns read in the event
streams (`events`), the turns (`turn`) and the gate blocks of the backend (`blocks`). A turn
goes through `_prepare_workspace`, the agent's stream, the question or block it left, the
harvest and `finish()`, each of which may fail, time out or be cut by a restart; `Resume` and
`Abandon` are the human's. `Halves` is what a kill leaves of the step it cuts: a workspace
prepared before the thread is opened, a question archived or in the stream before `finish()`
wrote it to the record, one settled in the stream before the record is running again. So the
last question of an *interrupted* run may stay open: `QuestionsAreSettled` says so. A repository is whether the run changed it; usage is the number of
tokens a turn reports when it ends, against a cap per run and per day. What today's runs used
and what running ones have reserved are sets of pairs of a run and a token (`Used`,
`Reserved`), of which the budget compares the sizes.

`ReviewedPublication` adds `publish_run`: `PubStep` walks one request through the claim file,
the four writes at the backend (`ext`, external), the save and the release of the claim.

`ExecutorTurns` is below that: one turn of one of the five adapters under
`ExecutorBackend.run_job`, message by message. The runtime may say anything (`Text`,
`UseTool`, `Report`, `EndsWell`, `EndsBadly`, `StreamEnds`, `StreamBreaks`, `Cancelled`);
what of it reaches the record is the adapter's `fold`. `TokenUsage` has the operators on usage:
normalisation of each runtime's convention, `sum_usage`, what a budget spends with rates and
without. `ModelRates` is the three sources of rates (none, file, endpoint with a copy on disk).

### ToolGateway: approvals

A request is asked by a run (`asked`), waits for a person or the timer (`future`, `timers`) or
is queued (`entries`), and is run with some turn's credential (`used`). `Ask`, `Decide`,
`Wake`, `Return`, `Expire` are the segments of `ApprovalBroker` and the gateway's `call_tool`;
`BeginTurn`, `EndTurn` the turns that come and go meanwhile; `Poll`, `Polled` a client of
`GET /approvals`; `Post` the outcome of an async call. `profile` ranges over who decides and
whether approvals are asynchronous.

### Workspaces, SubagentDepth, Inbox, HarnessSetup

`Workspaces`: shared clones with a lock each, worktrees per instance and repository, turns
that provision them in a thread which a cancelled turn leaves behind; `Delete`, `Forget` of
instances and one-off runs, pushes at the origin, `Kill`. `SubagentDepth`: the hooks
`PreToolUse`, `SubagentStart`, `SubagentStop`, `PostToolUse` of parallel calls and the two maps
from which a depth is told. `Inbox`: `CallTool`, `TakePoll`, `PollFails` of each source,
`Look` and `Ack` of a consumer that acknowledges what it saw a while ago, a window the world
edits, and restarts with another definition of a source. `HarnessSetup`: `ensure_codex` as one
step per file written, under the lock two daemons share and the user does not take, with
copies of the adapter that are marked when unused and pruned a day later.

### AgentDirectory, AgentProfiles, ScopeProvisioning

`AgentDirectory` has the five places an agent is in (`dir`, `good`, `compose`, `box`, the
images) and per thread the request it serves with the steps it still has; a step that fails
replaces them by the handler's rollback. `compose.yml` is read in one step and written in
another, and the write may fail with other agents' services lost (`LosesServices`). A step of a
rollback, of a cleanup or of a deletion may fail too, and `Kill` ends the daemon anywhere: the
agent then ends *halfway*. `applied` is the profile last applied, with those of the requests
that have ended halfway since; `mixed` are agents whose requests overlapped, of which nothing
is promised. `AgentProfiles` is one agent's profile on its way through the daemon's validation
and the agent's boot, as a record of the fields the checks look at, in an environment the
daemon delivered with the unit. `ScopeProvisioning` is `start()` and `_ensure_scope` of the
session plane against the memory store's scopes, grants and tokens.

### MemoryRecords, WorkContexts, ExtractionJobs, RecallDelivery

`MemoryRecords`: a request is one atomic step of the store in the repository; `remember`,
`correct` and a recall are several, and the store changes between them. `segments` is who
holds the single-valued slot at which instants. `WorkContexts`: `ReadMap`, `GetContext`,
`CreateContext`, `PatchContext` of each operation, with lost answers and lost contexts.
`ExtractionJobs`: the worker's sweep, claims under a lease, and failing back. `RecallDelivery`:
the harness's prompts, tools, stops and compactions (external), the hooks that ask, and the
plane's background job with its sequence number and marker.

### SpokeWorkloads, ModelTokens

`SpokeWorkloads` is one intent and its workload: the hub's `want`, `lease`, `told`, `cursor`
(external), the cluster's unit and ConfigMap (external, through `kubernetes_workloads.py`),
the agent's run and its event log, and the spoke's `tracked`, `relay`, `pending`. The tick
goes through `retry_acks`, the claimed intents, `pump_events` and `watch`, call by call.
`ModelTokens` counts time: a token is the tick it was minted in, the spoke's loop passes once
in each tick unless it or the hub is down, and a request that timed out may arrive later.

## The properties

Each composing module states its properties as conjunctions of its parts' named ones, so that
one run asks one kind of question of all of them.

| Property (run) | Stands for |
|---|---|
| `AdmissionIsSound` (`run_lifecycle`) | `SlotAccounting`, `OneTurnPerInstance`, `OneTurnPerRun`, `NoLostUpdate` |
| `RecordsAreTrue`, `RecordsStand` (`run_lifecycle`) | `CompletedRunsSucceeded`, `OrphansAreStreams`; and of steps `TerminalIsFinal`, `NoSilentReopen` |
| `OneDispatchPerKey`, `RunsFollowTheirRecords` (`run_lifecycle`) | idempotent launches; the refinement of `RunRecords` |
| `FiresAreClaimed`, `NoBlindUpdate` (`management`) | `JobsAreClaimed`, `InteractiveIsQuiet`, `OneShotFiresOnce`; compare-and-swap |
| `OwnedIsSound` (`management`) | directory: `CapHolds`, `ServiceMatchesProfile`, `PublicTakesNoCode`; profiles: `AcceptedBoots`, `LeftBehindBoots`, `PublicIsHeld`; scopes: `GrantsAreTrue`, `AllKnownAreRead`, `TokensAreReused` |
| `LivesAreAccounted` (`memory`) | `OpenRunsAreTracked`, `OneArtifactPerRun`, `EndedRunsClose`, `JournalKeepsOpenLife`, `LivesAreFiled` |
| `ExtractedAndShownOnce` (`memory`) | `JobsAreAccounted`, `ShownWhereAsked` |
| `MemoryIsTrue` (`memory`) | `WithdrawnIsNotRecalled`, `ReplacementIsLocal`, `CheckpointsAreTrue` |
| `EveryPartSettles` (`memory`) | `ClosedIsFinalized`, `JobsEnd`, `TurnsEnd` |
| `HubIsRight`, `AtMostOnce`, `DeliveriesSettle` (`spoke`) | `VerdictsAreTrue`, `RepliesAreTracked`; no second sending; `EveryDeliverySettles` |
| `TokenIsKept` (`spoke`) | `HeldIsCurrent`, `HeldIsNewest` |
| `HubIsToldTheTruth`, `ReportedBeforeDeleted`, `WorkloadsSettle` (`spoke_workloads`) | `NoGap`, `AckedIsApplied`, `AckedIsInEffect`, `FinalIsComplete`; the order of report and delete; `EveryIntentSettles`, `RelaysFinish` |
| `ConversationIsContinued`, `DeletedStaysDeleted`, `EveryRequestSettles` (`grok_sessions`) | `SessionIsMapped`, `UpdateReachesTheSession`, `NoteReachesTheSession`, `RotationIsUnderway`; deletions; `RequestsEnd`, `RotationsEnd` |
| `ThreadsAreKnown`, `ThreadsMoveOn` (`conversation_threads`) | `GapIsTold`, `ProcessIsMapped`; `PlaneMovesOn`, `RequestsEnd` |
| `RunsKeepTheirWork`, `BlocksAreReviewed`, `PublicationsAgree` (`reviewed_publication`) | `HarvestIsWhole`, `QuestionsAreSettled`, `ThreadIsKept`, `BudgetsHold`; of steps, gate blocks; `AnswersAgree`, `ClaimsAreHeld` |
| `GatesHold` (`turns`) | `RunsOnlyApproved`, `PollersMissNothing`, `LeashHolds`, `DepthIsBounded` |
| `TurnsAreAccounted` (`turns`) | `HandleIsKept`, `FailureIsRecorded`, `SpendingAddsUp`, `UnratedCountsInFull`, `NothingIsMissed`, `StartsReady`, `RunsWhatExists` |
| `StepsAreSound` (`turns`) | `NothingForAGoneTurn`, `OneSessionPerRun`, `WritesAreSound`, `WorkIsKept` |
| `EveryPartSettles` (`turns`) | `WaitsEnd` of the calls; `RatesCaughtUp`, `SetupInPlace`, `InboxCaughtUp` and `NobodyProvisions`, each in the end of the part that moves |

Every run also checks one type invariant.

## The runs

Nine runs pass; three find a sentence of the repository violated (next section).

| Run | Bounds | States |
|---|---|---|
| `run_lifecycle` | 2 runs, 1 instance, 1 key, 1 resume per run; both tiers, 2 slots, retention 1 and 2; symmetry over runs | 1.39 million |
| `management` | schedules: 1 name, 2 clients, 3 writes, 1 restart; directory: 2 agents, 2 handlers, 3 operations, 2 faults, a cap of 1 or 2; profiles: several hundred, 3 environments, contracts 1, 3 and 6, 2 switches; scopes: 2 projects and one bound to all, 2 callers, 2 losses; symmetry over clients, agents and handlers | 975 thousand |
| `memory` | lives: 2 events, 2 in flight, 4 runs in the store, 1 fault, 1 restart; records: 2 with 2 revisions, 3 requests, 2 instants; contexts: 3 operations on 2 fields, 2 contexts, 1 fault; extraction: 2 jobs, 2 claims at once, 2 attempts, 1 proposal, 1 fault; recall: 2 tools, 2 turns, 2 openings, 1 fault, a nudge after 2 turns | 818 thousand |
| `spoke` | deliveries: 2 of every pair of kinds, a memory of 1, 2 faults, 1 restart; tokens: a lifetime of 13, a margin of 7, a mint each 2 and a push each 1 ticks, 16 ticks, 2 offers, 2 troubles | 853 thousand |
| `spoke_workloads` | 2 generations, 2 events, pages of 2, 1 fault, 1 restart | 1.34 million |
| `grok_sessions` | 2 turns, 3 maintenance tasks, 1 rotation, 1 deletion, 1 fault, 1 restart with other instructions, 5 sessions | 231 thousand |
| `conversation_threads` | 3 turns, 1 rotation, 1 deletion, 1 fault, 2 restarts | 807 thousand |
| `reviewed_publication` | 3 runs with 3 turns, 1 repository, a cap of 1 per run and 2 per day, 1 fault, 1 restart, 1 key, 2 requests; symmetry over runs | 4.82 million |
| `turns` | gateway: 2 requests, 2 runs, 2 posts; rates: 3 changes of the document, 2 starts; setup: 2 versions, 2 setups, 1 edit, 1 stop, 1 day; inbox: 1 source of 1 item, 2 entries, 3 edits, 2 faults; worktrees: 2 instances, 2 repositories, 2 turns, 1 push, 1 mishap; executor turns: 2 of 3 messages; subagents: 4 calls, depth 2 | 556 thousand |

What each bound is there for:

* `run_lifecycle`: two runs are what every pairwise hazard needs: one instance both want, one
  key both were launched with, a retention of one, so that the second finish deletes the first
  run's file while its turn, its question or its key is still in use. With two slots a refused
  resume (by the instance) occurs as well as an admitted one; one resume gives a run two
  turns, of which the older may still be closing.
* `management`: names are independent, so one is enough; three writes let a binding be
  created, replaced in the other kind and recreated after a removal while a fire that read the
  first is in flight. Two handlers on two agents with a cap of one meet at the cap, at
  `compose.yml` and at one agent; two faults are a failing step and a failing rollback, or a
  torn `compose.yml` and a kill in the request after it. With room for two agents a failed
  write takes the other's service along; what comes after that fault is left to the proof.
* `memory`: two events with two in flight give a resume that overtakes the end of the last
  life, and one that comes after; one failed call and one kill hit every step of a
  finalization and of its replay. Three requests of the store are a recall's own and two that
  change what it read; two attempts with a fault are a retry and a job that is given up.
* `spoke`: a memory of one with two at-most-once deliveries makes the spoke forget; two faults
  are a lost answer and an early lease expiry, or a lost settle and its lost retry. The clock
  of the tokens keeps the proportions of the code (15 and 5 minutes, 60 and 15 seconds): each
  trouble costs at most what the assumption `MarginAssumption` leaves room for.
* `spoke_workloads`: two generations let one supersede the other at any point of the tick; two
  events with pages of two, halved by a refusal, give pages that are full, partial and empty.
* `grok_sessions`: two turns and a rotation give three maintenance tasks, of which two can be
  under way together; one restart changes the instructions, so a fork carries an update
  through every interleaving of the turn that delivers it, also with the deletion. The five
  sessions are never all in use (a sixth adds no state), so the bound blocks no start.
* `conversation_threads`: two restarts swap to the other harness and back.
* `reviewed_publication`: three turns are a first one, its resume and another run's; a day of
  two caps is where a third admission has to be refused. Two requests of one key race at every
  write.
* `turns`: two of everything that can race, and for single actors the smallest history in
  which state read earlier is stale when used.

The proofs need none of these bounds (see below), so for the invariants and the promises of
single steps they only limit what TLC looks at, not what is known.

Symmetry is used in runs without liveness only, over sets the specifications compare for
equality; the action properties there are symmetric in the permuted sets. Two runs have a
CONSTRAINT. `Separate` (`management`) checks, but does not continue, states in which requests
for one agent have overlapped (nothing is promised of such an agent) and, where the cap is
two, states after a fault. `ReviewedLater` (`reviewed_publication`) lets a publication
begin only when the turns of the tier are over and no blocked operation is waiting: a request
reads a succeeded record, which no later turn changes, so what it leaves out are mere
interleavings of two actors that do not see each other; the theorems are about all of them.

`CHECK_DEADLOCK FALSE` is set where the system may really stop because its bounds are spent:
everywhere but in `run_lifecycle`, `grok_sessions` and `spoke_workloads`.

### Fairness

| Module | Fairness | Because |
|---|---|---|
| `SessionLives` | `WF(Work)` | the event loop runs what is ready; calls to the store and to memory are bounded by `WRITE_TIMEOUT_S` |
| `SpokeDelivery`, `SpokeWorkloads` | `WF(Tick)`, `WF(Expire)` | `run_forever` loops and its calls have timeouts; a lease the hub granted runs out |
| `GrokSessions` | `WF(Work)`, `WF(OthersLeave)` | the event loop, and the timeouts that end starts, prompts and closes, also those of other instances behind the spawn lock |
| `ConversationThreads` | `WF(Work)` | the same |
| `ToolGateway` | `WF` of each request's expiry, wake-up and return | the broker's timer, and the event loop |
| `ModelRates` | `WF(Refresh)`, `WF(FileCurrent)` | the refresh task, and a budget check that reads the file |
| `HarnessSetup` | `WF(DaemonSetsUp)`, `WF(SetupStep)` | a setup is started at each daemon start and runs to its end |
| `Inbox` | `WF(CallTool)`, `WF(TakePoll)` | the polling task of a source |
| `Workspaces` | `WF(Provisions(t))` | the thread of `asyncio.to_thread` runs on |
| `ExtractionJobs` | `WF(WorkerStep)`, `WF(LeaseExpires(j))` | the sweep, and the lease's clock |
| `RecallDelivery` | `WF(HookStep)`, `SF(StopStep)` | a hook process ends by its timeout; a stop is asked for again until it is let through, with other hooks in between |

Faults, kills, requests and what people and vendors do are never fair. The other modules
state no liveness: a turn may take as long as its profile allows, and nobody has to answer a
suspended run.

## Where code and text disagree

Three runs end in a violation. Each checks what the repository says of the program.

1. `deleted_stays_deleted`: a DELETE of an instance is to forget what the harnesses that do
   not serve hold for it (`docs/design/harnesses.md:139`, `harness/__init__.py:114-120`).
   `forget_inactive_harnesses` has no case for Codex (`harness/__init__.py:110`): after a swap
   back the next turn resumes the deleted conversation.
2. `token_stays_renewed`: "About 5 minutes before it expires, the spoke refreshes it"
   (`docs/design/spoke-pull-mode.md:151-152`). An intent that is offered again replaces the
   tracked workload by a fresh one without an expiry (`loop.py:488`), which the refresh skips.
3. `worktree_never_reset`: "An existing worktree is never reset" (`harness/engineer.py:234`,
   `docs/design/harnesses.md:403-404`). A cancelled turn releases the locks of the clones while
   its thread still provisions; the next turn makes the worktree and works in it, and the
   first thread, which had found none, removes it as half-made.

### Divergences without a run

Met while modelling, and modelled as the code has them:

* Runs: a stream whose client goes away leaves a `running` record until the next start
  (`event_stream`, against `docs/design/run-records-and-approvals.md`); `publish_run`
  annotates the copy it read before the publication (`publication.py:640`), which may bring back
  a pruned record: it is the one way one comes back, and never with another status.
* Schedules: a one-shot whose fire is skipped or replaced is lost (`app.py:1133`), although
  `run_agent_scheduled` says that a skipped fire will try again.
* Session plane: a life's episode key may be that of the next life (`plane.py:1716`); a close
  replayed after `sessions.json` has it is filed again (`plane.py:1805`).
* Spoke: a restart loses replies still to be posted (`loop.py:44-46`); events of a run whose
  workload ended are deleted unrelayed (`loop.py:917`); the answer lost to an acknowledged
  stop is retried without its observation (`loop.py:376`); an intent that was applied and is
  offered again after its deadline is refused.
* Model tokens: a first turn whose outcome is not known leaves no renewal; a replaced pod has
  no token until the next refresh or turn; one unanswered mint ends the pass for the other
  workloads.
* Grok: an update or a note in a prompt of which the process died counts as delivered
  (`acp.py:281-282`); a second undelivered note overwrites the first (`grok.py:953`); a
  cancelled stream leaves its prompt running in the process.
* Codex, Claude Code: a rotation checks once that no turn runs, and holds nothing; `lost` that
  maintenance raises while a turn waits is consumed unseen (`codex.py:775`). A carry is cut to 200 items (`codex.py:616`), and one that
  Codex refuses is sent again as plain messages (`codex.py:559-566`); neither is told, although
  "If the carry fails, the instance reports fresh" (`docs/design/harnesses.md:671`).
* Executor: a kill between a question's event (`base.py:744`) and `finish()` (`app.py:858`)
  leaves the question open in the stream of an interrupted run, for good;
  gate blocks are shared by the runs of a backend (`base.py:756`); a failed setup
  of a first turn cannot be resumed (`base.py:332-334`); a resume that is refused has already
  written its answer; a crash leaves a claim that blocks a publication key for good
  (`publication.py:520-555`); a run started yesterday counts in no day's budget; the usage of
  turns that fail in the runtime is lost.
* Adapters: a stream that ends without a terminal message counts as success for Codex and
  Claude Code; `leash` on a spawn executor passes validation and gates nothing.
* Daemon: overlapping requests can lose each other's services in `compose.yml`
  (`docker_compose.py:124`); labels outlive a deleted agent (`core.py:1193-1229`); an update
  whose driver call fails skips the rollback (`core.py:1574-1590`); a rollback that fails leaves the
  new keys in `compose.yml` (`core.py:1637-1643`), which is written in place and can be torn
  (`docker_compose.py:130`); validation interpolates
  with the daemon's environment, not the agent's (`core.py:338-341`).
* Memory: `_ensure_context` writes a stale map back (`lifecycle.py:149-172`); a retraction
  leaves the sequence number as it was, so a racing correction readmits the claim, as does any later revision of it; a background recall is not read again
  between its rendering and its hand-over;
  quarantined revisions are accepted as heads (`docs/design/memory-backend-protocol.md:47-49`);
  a lease of 120 s is shorter than five jobs of 300 s.
* Inbox: a failed state write ends the polling task; entry numbers can be used again after a
  lost write and a restart.
* Setup: an edit by the user between the setup's read and its write is lost.
* Gateway: an approved asynchronous call runs with the credential of whichever turn is in
  progress; a cancelled in-process turn leaves its approval pending.

## What is proved

TLC checks small instances; TLAPS proves these for every value of the constants that meets
the named assumptions. All the proofs go by an inductive invariant, `IInv` or named after its
part, nearly all of which TLC checked first on the run of their module: `Init => IInv`, one
lemma for each action or for each part of `IInv`, and the properties as consequences.

| Proofs | Theorems | Assuming |
|---|---|---|
| `ServiceProofs`: `RunLifecycle` | `TypeCorrect`, `AdmissionIsSafe`, `KeysDispatchOnce`, `RecordsTellTheTruth`, `SettledRecordsStand`, `ServiceKeepsRecords` (the refinement of `RunRecords`) | finitely many run ids; the `No...` values are no elements; profiles have a slot and retain a record |
| `ServiceProofs`: `GrokSessions` | `GrokTypesCorrect`, `ContinuationHolds`, `DeletionsStand` | bounds are numbers; `NoEntry` is no entry, and clients, tasks and the other actors are different |
| `ManagementProofs` (all parts of `MCManagement`) | `TypeCorrect`, `SchedulerFiresWhatIsStored`, `UpdatesAreNotBlind`, `DirectoryIsProved`, `ProfilesAreProved`, `ScopesAreProved`, `PartsAreSeparate`, `OwnedAreProved` | bounds are numbers, `NoBinding` is no binding; finitely many names of agents, `None` and `NoFacts` are none of the values; profiles are among the texts; `Bound` is no project |
| `MemoryProofs` (all parts of `MCMemory`) | `TypeCorrect`, `LivesAreProved`, `ExtractedAndShownAreProved`, `MemoryIsProved` | bounds are numbers, a record may have a revision; `NoSession` is no entry of the registry; finitely many jobs and operations; `"nobody"` is no operation, `"stop"` no tool |
| `SpokeProofs` (all parts of `MCSpoke`) | `TypeCorrect`, `NothingIsSentTwice`, `TheHubIsRight`, `NoTokenExpires`, `NoTokenGoesBack`, `TokensAreKept`, `TheSpokeIsSound` | bounds are numbers; `MarginAssumption`: the margin outlasts the troubles, the lifetime the margin and two mints |
| `SpokeWorkloadsProofs` | `TypeCorrect`, `TheHubIsToldTheTruth`, `EndsAreReported` | bounds are numbers, a page holds an event; `None` is none of the records |
| `ReviewedPublicationProofs` (with `ExecutorJobs`) | `TypeCorrect`, `WorkIsKept`, `OnePublicationPerKey`, `NoBlockIsForgotten` | finitely many runs; limits are positive; `NoPub` is no publication |
| `ConversationThreadsProofs` | `TypeCorrect`, `ThreadsAreFollowed`, `SessionsMoveOn` | bounds are numbers; `NoEntry`, `NoServed` are no elements |
| `TurnsProofs` (all parts of `MCTurns`) | `TypesAreKept`, `GatesAreKept`, `TurnsAreProved`, `StepsAreProved`; of these on their own `TurnsAreRecorded`, `NothingRunsForAGoneTurn`, `RunsKeepTheirSession`, `StartsAreReady`, `WorktreesAreKept`, `HarnessRunsWhatExists` | bounds and versions are numbers; calls of subagents and items of a source are finitely many; there is an instance and a repository; a session's id is never the placeholder; what a runtime reports and what the rates are asked about are counts, or nothing where the runtime may say nothing |

**RunLifecycle.** `IInv` adds `HeldWhileLive` (a coroutine holds a record exactly while it is
in flight, and that record counts the resumes that led to the turn), `FreshUntouched` (an id
never minted left no trace), `LatestTurnRuns` (the running turn of a run is its latest, which
is what keeps a resume from racing an older one even after the file is pruned) and
`KeysFindable` (a launch key stands in the file of its run *and* in the copy a coroutine will
write over it) and `PublishedStand` (the copy that publication requests hold is of a run that
succeeded, whose record, where there is one, is that copy and which no turn still holds). The refinement maps each action to one step of one record (`FinishRefines`,
`StartRefines`, `ResumeRefines`, `AbandonRefines`, `RebootRefines`, ...) or to none.

**GrokSessions.** `GrokInv` adds what holds while an actor waits for a process to be collected,
after which it goes on with what it read before: `TurnClosing` (no process is known, so none
can be moved; the session that the turn may save has its lost prompt on record or is deleted,
and the entry still names it, if any) and `ForgetClosing` (the deletion is first at the spawn
lock, so nobody starts a process between its stop and its purge). The rest is in the four
statements of `ConversationIsContinued` already: where a process is up, it is in the entry's
session, so what a prompt delivers and what `_after_turn` clears concern the same one. Which
of the waiting actors the two locks serve next matters nowhere else. `DeletionsStand` walks
through every step that writes the entry: it keeps the session, takes a new one, or is
`TurnClosed`.

**ManagedSchedules.** `IInv` adds `StoredOnce` (no two files hold the same write, and versions
never exceed the number of writes), `FiringIsOld` (the binding a fire read is the stored one
or another write), `LaunchesCounted` (a stored one-shot has started no more runs than restarts
cut off, and the one in flight that read *it*) and `SeenIsOld` (what a reconciler read is
stored still or has an older version, as long as the name was not removed since).

**AgentDirectory.** `DirectoryInv` says which steps a request can have left
(`RequestOK`, `PlanFor`), and of each agent whose requests never overlapped that one of them at
most is past its lock (`OneWorks`), that its five places agree while none works on it
(`AtRest`), and how far they may disagree at each step of the one that does (`AtWork`, by kind
of request: `Spawning`, `Updating`, `Leaving`, `Coding`, each with the steps that undo it).
`Right` is what is promised of an agent that is not halfway, `Granted` of one that is: its
service has the keys of a profile in `applied`, or there is none. At whatever step a request
ends halfway, by a kill or a failing rollback, what it leaves is `Granted` (`HalfwayIs`). A
step reads `compose.yml` whole and a later one writes it whole: `SnapsAreFresh` and
`SnapsAreMixed` say what such a copy is still right about, an agent outside `mixed`. The proof covers also the
states in which requests overlap, which the constraint of the run keeps few.

**AgentProfiles, ScopeProvisioning.** `ProfilesInv` says in which environment the running
agent's text was validated and what the daemon keeps to put back, and `Left` what may remain
after a tool was removed again. `ScopesInv` adds to the properties that a call which was answered
took effect (`CallsAreDone`), that what the plane has cached was read (`ReadsAreCached`) and
that a token which is not on file was wasted (`TokensAreFiled`), which bounds the mints.
`PartsAreSeparate` takes a behaviour of the three parts to one of each.

**SpokeDelivery.** `IInv` adds `TickOrder` and `BatchUnsettled` (what the loop knows at each
point of a tick), `SentOnceKnown` (an at-most-once delivery that took effect is remembered or
was forgotten, and is offered again only by a hub that re-offers), `VerdictsHold` and
`RepliesKnown` (a verdict is true, and a reply accounted for, wherever they are kept).

**SpokeWorkloads.** `IInv` adds `InHand` (what the loop has in hand at each of its places),
`DrainIsAsked` and `ApplyIsAsked` (what it deletes or applies, an intent or the end of a Job
asks for, and the ConfigMap has the Job's generation), `PageOK` (a page ends inside the log,
and a run seen stopped stays so, which is why the last, empty page is the end of the log),
`GensOK` (a generation is applied or refused by the allowlist, never both, and the newest one
is untouched while an older is in hand), `Settled`, `InEffect` (what was applied is in effect,
acknowledged or not) and `FailedIsTold` (a noted end of a Job was told before it was noted).
With thirty-five actions and twenty-three variables, lemma `Writers` says which actions write
a variable, and the parts that do not speak of the loop's place look at those alone.

**ModelTokens.** `IInv` adds `HeldInFile`, `TokensPast` and `RecordKept` (the agent's and the
spoke's copies agree as far as lost answers allow), and the arithmetic of the deadline:
`RenewedBy` is the pass by which the next renewal succeeds if nothing goes wrong, `Room` what
the remaining troubles can still cost, and every token the agent may have to live with
(`WaitingIsGood`, `FileIsGood`) outlasts their sum. The code's 15 minutes of lifetime,
5 minutes of margin, a mint a minute and a retry after 15 seconds leave room for four troubles
in a row.

**SessionLives.** None of the five statements of `LivesAreAccounted` is inductive; `LivesInv`
is what they need of each other. `NumbersAreOK` follows an event from the handler that
resolves its project to the lock's queue and into the journal: it is in one of these places
until its handler has the lock, and journaled once. So the journal is no longer than what was
sent (`JournalIsShort`, an injection into the numbers), which bounds the lives that replays
can count (`CountsAreOK`): `Lives` is as large as the types need it. `PlacesAreOK` says who
holds the lock at which step and what is empty while the daemon starts, and `RunsAreOK` that
the entry, its saved copy and the finalization under way know only runs the store has opened.
`EndsAreOK` carries `EndedRunsClose` over a kill: a session that is over with its run open has
a finalization queued or a closing event still to be replayed, and one that the registry's
file has as over will have one again, from the journal, because a finalization that no
journaled event would ask for again leaves an orphan (`Cut`). `JournalIsOK` and `FilesAreOK`
say, of a life that began after the last was settled, that nothing of an end is left in
flight, queued or journaled to clear what it writes, and under which number what is filed for
it lies. `EndsAreCloses` (a queued finalization is of a closing event) is an invariant of its
own, which only the kill needs.

**MemoryRecords.** `MemoryInv` says that the roots of a record are events of the store, that a
record whose current revision is retracted or erased is archived, that segments name revisions that
exist, that the slot's version counts no more than the requests (a correction that is on its
way has not counted yet), and that a recall and a client hold what the store has. The action
properties speak of what is shown and of who holds a slot: `WithdrawnIsNotRecalled` and
`ReplacementIsLocal` follow from it for each of the requests.

**WorkContexts, ExtractionJobs, RecallDelivery.** `ContextsInv` says that an operation which is
to patch holds a context and, while that context is still at the revision it read, what was
written to it until then, and that a context was revised at most once by each operation that
is done. `JobsInv` says what the worker holds and knows at each point of a sweep: the jobs it
claimed and has not come to yet, each once, and how much of the event in hand is still to be
proposed; and of every job that its failures were its own. `RecallInv` says what the marker's
number may name at each point of a turn, that nothing is told twice or through two hooks, and
that a recall which was told is never again one that a hook may claim.

**ExecutorJobs, ReviewedPublication.** `IInv` says of each run (`RunsGood`) that its record is
running exactly while a turn works on it, that the workspace has what the record says it
changed, and what a turn found, asked and harvested at each of its stages; of the day
(`DayKept`), that used and reserved tokens stay below the limit plus one cap; and of the
publications (`PubInv`), that one request at most is beyond the claim of a key, that it owns
its entry at the backend, and that an answer is the saved publication. Lemma `MoveIsLocal`
says that most steps move one run and leave the others' parts alone; the budget is counted on
sets of pairs, so that admitting or ending a turn adds or removes elements, and its lemmas
(`DayIsKept`, `DayIsExtended`) rest on the cardinality theorems of the library.

**ConversationThreads.** `IInv` says who is in which queue (`SpawnOK`, `LockOK`: exactly the
actors whose place waits there, each once; whoever starts a process heads the queue of the
spawn lock, and nobody has the process), which thread a process is in (`ProcessOK`), that the
thread a start has read is still its entry's (`OpeningOK`), that of either harness a thread
with a gap, unless it is only short, has an entry that says so, or is not the one that served
last (`GapsAreTold`), and
that a turn under way which did not bring the transcript along leaves that word standing
(`TurnSees`). The queues are sequences from which a cancelled request is taken out of the
middle; the proof speaks of their members and heads only. Every step but three (the end of a
turn, a rotation that clears, a DELETE) takes no word back (`WordsStep`), which keeps the last
three parts.

**ToolGateway, ExecutorTurns, SubagentDepth.** `GatewayInv` says of each request (`RequestOK`)
that the answer its future holds is the one that was taken, or that its entry stands until
there is one, and that a version grows whenever a poller could miss something. `TurnsInv`
has the sessions of a backend in the order in which they were opened (`SessionsOpened`) and
the handle of each run among them (`OneHandle`). For `SubagentDepth` the set of calls above a
call is the least one that holds its caller and theirs (`HoldsCallers`), not a recursion, and
lemma `NewCallsChain` shows that a new call is above nobody. The least number that the
theorems on depth need comes from the well-foundedness of the naturals.

**ExecutorTurns and TokenUsage: what a turn spent.** `SpendInv` relates the
record's total to what the turns before have spent, and what an adapter has folded so far, or
holds back, to what its runtime has said in this one: the same tokens, or nothing yet.
`TurnTypes` types the folds of
the five adapters. `UnratedCountsInFull` is a law about usages, with no state in it: where a
model has no rate, cached and written tokens weigh as much as fresh ones. It needs that sums
over a list exist, are numbers, and add up field by field (`SumIs`, `SumsAddUp`), that every
slice of whole weights rounds to itself (`WholeUnits`), and what `Slices` puts behind the calls.

**Workspaces.** `LanesInv` says of each turn (`LaneTurnOK`) that it holds its instance's slot while it
owns anything there, and how new its clones have to be, of the shared clones that none is ahead of its
origin, and of each instance that nothing broke into (`InstanceOK`) that what is not whole is
being made by the turn that owns it. Work appears only in worktrees of running turns
(`Unworked`), so a thread that provisions has nothing to lose.

**HarnessSetup.** `SetupInv` says that every handler of ours in `hooks.json` and the server in
`config.toml` name a copy that is there (`ThereFor`), that a setup's own copy stays until it
ends, and what it has read and still knows to be so at each of its steps (`HasRead`,
`BeforeHooks`, `ItsVersion`). The lemmas on `Merged` say what a write leaves of others' handlers
and where it puts ours.

**Inbox.** `NothingIsMissed` speaks of the last good poll, which is not enough to carry over an
acknowledgement or an overflow. `InboxInv` accounts for every version a source's record has
seen (`Accounts`): who acknowledges was told of it, or it has an entry, or the overflow of its
source is set and *excused*: the consumer's copy says so too, or every entry old enough for
that copy to clear the overflow came after one, in the copy, of the version in question. So an
acknowledgement that clears an overflow clears what its consumer has seen. The types carry the
order of the entries' numbers (`Rising`), on which the limit and `ack(through)` rest: of a
source the entries past the limit are older than all that stay (`PastLimitIs`).

What `Without` leaves of a list and what `SumOf` adds up are recursive functions over
positions. Their laws are proved without an induction theorem, by the least position at which
they would fail (`Least`).

## What is only model-checked

* Liveness (`DeliveriesSettle`, `WorkloadsSettle`, `EveryRequestSettles`, `ThreadsMoveOn` with
  `RequestsEnd`, both `EveryPartSettles`): fairness and `ENABLED` are out of the prover's reach.
* What `SetupInPlace`, `RatesCaughtUp` and `InboxCaughtUp` say is to hold in the end, and of
  `TokenUsage` the choice among several reports (`Highest`, `FirstFound`), which is checked
  over bounded usages by `SpendingAddsUp` and typed by the proofs.

## What is not modelled

What prompts, outputs, diffs, digests and events say; token counts but where a budget adds
them up; wall-clock times but for model tokens, where nondeterminism takes their place (a
timer may fire at any time). Vendor protocols of the harnesses and executors: what they can
come back with is enumerated. Of the modelled components: parsing of profiles and of EDF
documents, the interpolation of their variables, what a unit is made of; child sessions and
project switches of the session plane; deferred recalls of Grok; two extraction workers at
once; turn results inside `SpokeWorkloads` and several workloads in one spoke (the loop takes
one after the other, and what they share, the abort of a tick, is in); static profile
triggers of the scheduler, whose jobs never change; TOML editing and the Grok variant of the
harness setup. Telemetry, voice and the command line keep no state that others read.

In the models themselves: `RunLifecycle` has no daily budget (`ExecutorJobs` has it);
`SpokeDelivery` claims everything queued at once; `SessionLives` mints runs in order;
`GrokSessions` does not follow what an answer says, nor which of two undelivered notes is
lost; `ExecutorJobs` has writable and read-only repositories as a set, one of which changes.

## What is left

The instance history of the in-process harness, with the awaits between its busy check and the
unlink.
