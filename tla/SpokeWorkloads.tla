------------ MODULE SpokeWorkloads ------------
(***************************************************************************)
(* The spoke's other half (module SpokeDelivery has its deliveries): the   *)
(* intents it applies to the cluster and acknowledges, the workload it     *)
(* watches, and the events of that workload's run it relays to the hub     *)
(* (miragen/daemon/spoke/loop.py, miragen/events.py, the Kubernetes driver *)
(* miragen/daemon/spawn/kubernetes_workloads.py). One intent, one run: the *)
(* loop takes the others one after the other in the same way.              *)
(*                                                                         *)
(* The loop is one thread, `at` the place it has reached. A call to the    *)
(* hub that goes unanswered, whether or not the hub acted, ends the tick   *)
(* wherever it is; a call to the cluster or the agent that fails ends what *)
(* it was part of. A restart forgets everything but the cluster.           *)
(*                                                                         *)
(* Left out: model tokens, turn results, what a workload is made of, the   *)
(* backstop TTL of a Job, and the wait and backoff between ticks.          *)
(***************************************************************************)
EXTENDS Naturals

CONSTANTS
  None,
  MaxGen,      \* bound: generations of the intent
  MaxLog,      \* bound: events of the run
  PageLimit,   \* _DEFAULT_PAGE_LIMIT
  MaxPages,    \* _MAX_PAGES_PER_TICK
  MaxFaults,   \* bound: failed calls, leases that run out too early
  MaxRestarts  \* bound: restarts of the spoke

ASSUME BoundsAssumption ==
  /\ MaxGen \in Nat \ {0} /\ MaxLog \in Nat /\ PageLimit \in Nat \ {0}
  /\ MaxPages \in Nat \ {0} /\ MaxFaults \in Nat /\ MaxRestarts \in Nat

Gens == 1 .. MaxGen
\* Each further attempt is due to a fault or a restart.
Intents == [gen : Gens, state : {"running", "stopped", "deleted"}, allowed : BOOLEAN,
            attempt : 0 .. (MaxFaults + MaxRestarts)]
Phases == {"pending", "running", "stopped", "failed"}
Units == [gen : Gens, phase : Phases]
Reports == Phases \cup {"absent"}
Observations == [gen : Gens, phase : Reports]
Trackings == [gen : Gens, last : Reports \cup {None}]
Relays == [after : 0 .. MaxLog, limit : 1 .. PageLimit]
ASSUME NoneAssumption ==
  None \notin Intents \cup Units \cup Reports \cup Observations \cup Trackings \cup Relays
Places == {"recover", "idle", "claim", "handle", "refuse", "refused", "replace", "config", "create",
           "delete", "unconfig", "ack", "say", "status", "acks", "watch", "launch",
           "pump", "read", "push", "record", "final"}

VARIABLES
  class,    \* the workload's class
  want,     \* hub: the intent's newest generation
  lease,    \* hub: whether it is offered, claimed or acknowledged
  told,     \* hub: the last phase it was told of
  cursor,   \* hub: last_event_sequence of the run
  finished, \* hub: a record of the run that is not running has arrived
  unit,     \* cluster: the Job or StatefulSet
  profile,  \* cluster: the generation in the ConfigMap, 0 without one
  run,      \* agent: its run
  log,      \* agent: events of the run
  tracked,  \* spoke: workloads[intent]
  relay,    \* spoke: runs[key]
  pending,  \* spoke: pending_acks[intent]
  at,       \* spoke: where the tick is
  intent,   \* spoke: the intent being handled
  back,     \* spoke: what the relay is drained for, "idle" for pump_events
  page,     \* spoke: the page read, and whether the run was seen stopped
  faults, restarts,
  applied,  \* history: generations the cluster was made to match
  refused,  \* history: generations refused, and whether the allowlist has them
  acked,    \* history: generations acknowledged
  letGo     \* history: the pump has let the run go as stopped and drained

hubVars == <<want, lease, told, cursor, finished>>
clusterVars == <<unit, profile, run, log>>
memory == <<tracked, relay, pending>>
local == <<intent, back, page>>
counts == <<faults, restarts>>
history == <<applied, refused, acked, letGo>>
vars == <<class, hubVars, clusterVars, memory, at, local, counts, history>>

NoPage == [to |-> 0, more |-> FALSE, pages |-> 0, stopped |-> FALSE]

\* Every variable keeps its type; the relay's position stays inside the log.
TypeOK ==
  /\ class \in {"ephemeral", "persistent"}
  /\ want \in Intents /\ lease \in {"offered", "claimed", "done"}
  /\ told \in Observations \cup {None}
  /\ cursor \in 0 .. MaxLog /\ finished \in BOOLEAN
  /\ unit \in Units \cup {None} /\ profile \in 0 .. MaxGen
  /\ run \in {"none", "running", "stopped", "gone"} /\ log \in 0 .. MaxLog
  /\ tracked \in Trackings \cup {None}
  /\ relay \in Relays \cup {None}
  /\ pending \in Intents \cup {None}
  /\ at \in Places
  /\ intent \in Intents \cup {None}
  /\ back \in {"delete", "stop", "end", "idle"}
  /\ page \in [to : 0 .. MaxLog, more : BOOLEAN, pages : 0 .. MaxPages, stopped : BOOLEAN]
  /\ faults \in 0 .. MaxFaults /\ restarts \in 0 .. MaxRestarts
  /\ applied \subseteq Gens /\ refused \subseteq Gens \X BOOLEAN /\ acked \subseteq Gens
  /\ letGo \in BOOLEAN

Init ==
  /\ class \in {"ephemeral", "persistent"}
  /\ want \in {i \in Intents : i.gen = 1 /\ i.attempt = 0 /\ i.state = "running"}
  /\ lease = "offered" /\ told = None /\ cursor = 0 /\ finished = FALSE
  /\ unit = None /\ profile = 0 /\ run = "none" /\ log = 0
  /\ tracked = None /\ relay = None /\ pending = None
  /\ at = "recover" /\ intent = None /\ back = "idle" /\ page = NoPage
  /\ faults = 0 /\ restarts = 0
  /\ applied = {} /\ refused = {} /\ acked = {} /\ letGo = FALSE

------------------------
(* Calls. A fault is one failed call. A call the hub leaves unanswered ends *)
(* the tick, whether or not the hub has acted on it; one it refuses for     *)
(* this item (404, 409, 422) ends the item.                                 *)

NoFault == faults' = faults
Fault == faults < MaxFaults /\ faults' = faults + 1

Leave(place) == at' = place /\ intent' = None /\ back' = "idle" /\ page' = NoPage
GoTo(place) == at' = place /\ UNCHANGED local

\* hub.report.
Reported(gen, phase) == told' = [gen |-> gen, phase |-> phase]

\* A report on the intent itself ("refused", "deleted", "stopped"), of which
\* the model keeps only what follows it.
Report(place) ==
  \/ NoFault /\ (IF place = "acks" THEN Leave("acks") ELSE GoTo(place))
  \/ Fault /\ Leave("idle")
  \/ Fault /\ Leave("acks")

------------------------
(* Start-up and the head of a tick. *)

\* The hub expects the run until it has seen it stopped.
IsOpen == run # "none" /\ ~finished

\* _adopt_run, when resync_open_runs is told of the run.
Adopted ==
  IF ~IsOpen THEN relay
  ELSE [after |-> cursor, limit |-> IF relay = None THEN PageLimit ELSE relay.limit]

\* recover: what the cluster's annotations say, then the hub's open runs.
Recover ==
  /\ at = "recover"
  /\ \/ /\ NoFault /\ at' = "idle" /\ relay' = Adopted
        /\ tracked' = IF unit = None THEN None ELSE [gen |-> unit.gen, last |-> None]
     \/ Fault /\ UNCHANGED <<at, relay, tracked>>
  /\ UNCHANGED <<class, hubVars, clusterVars, pending, local, restarts, history>>

\* tick: now and then the open runs are read again.
BeginTick ==
  /\ at = "idle"
  /\ \/ NoFault /\ at' = "claim" /\ relay' \in {relay, Adopted}
     \/ Fault /\ UNCHANGED <<at, relay>>
  /\ UNCHANGED <<class, hubVars, clusterVars, tracked, pending, local, restarts, history>>

Claim ==
  /\ at = "claim"
  /\ \/ /\ lease = "offered" /\ lease' = "claimed" /\ NoFault
        /\ at' = "handle" /\ intent' = want /\ UNCHANGED <<back, page>>
     \/ lease # "offered" /\ lease' = lease /\ NoFault /\ Leave("acks")
     \/ Fault /\ Leave("idle") /\ lease' \in {lease, IF lease = "offered" THEN "claimed" ELSE lease}
  /\ UNCHANGED <<class, want, told, cursor, finished, clusterVars, memory, restarts, history>>

------------------------
(* handle_intent. *)

\* An ephemeral workload that is not to run has no Job; a persistent one
\* keeps its StatefulSet, with no replica.
Leaves(i) == i.state = "stopped" /\ class = "ephemeral"

Refusal == GoTo("refuse") /\ refused' = refused \cup {<<intent.gen, intent.allowed>>}

\* _drain_runs, when the workload has a run to drain.
Drain(purpose) ==
  /\ back' = purpose /\ UNCHANGED <<intent, page>>
  /\ at' = IF relay = None THEN "delete" ELSE "pump"

\* The deadline, a Job's, may have passed by the time an intent is offered
\* again; one late from the start is like any the spoke does not allow.
MayBeLate(i) == class = "ephemeral" /\ i.state # "deleted" /\ i.attempt > 0

Handle ==
  /\ at = "handle"
  /\ IF ~intent.allowed THEN Refusal
     ELSE \/ MayBeLate(intent) /\ Refusal
          \/ /\ refused' = refused
             /\ IF intent.state = "deleted" THEN Drain("delete")
                ELSE IF Leaves(intent) THEN Drain("stop")
                ELSE GoTo(IF class = "ephemeral" THEN "replace" ELSE "config")
  /\ UNCHANGED <<class, hubVars, clusterVars, memory, counts, applied, acked, letGo>>

\* The spoke's refusal is reported, then acknowledged.
Refuse ==
  /\ at = "refuse"
  /\ Report("refused")
  /\ UNCHANGED <<class, hubVars, clusterVars, memory, restarts, history>>

\* A failed apply is reported and not acknowledged: the lease runs out.
Unapplied == Leave("acks") \/ Leave("idle")

ApplyFails ==
  /\ at \in {"replace", "config", "create"} \/ (at \in {"delete", "unconfig"} /\ back = "stop")
  /\ Fault /\ Unapplied
  /\ UNCHANGED <<class, hubVars, clusterVars, memory, restarts, history>>

\* A pod that goes takes the agent with it, and a Job's takes its files.
Interrupted == IF run = "running" THEN "stopped" ELSE run
Gone == IF run = "none" THEN "none" ELSE "gone"

\* _apply_job: the same generation is left as it is; an older Job is deleted.
ReplaceJob ==
  /\ at = "replace" /\ NoFault
  /\ IF unit # None /\ unit.gen = intent.gen
     THEN GoTo("ack") /\ applied' = applied \cup {intent.gen} /\ UNCHANGED <<unit, run>>
     ELSE /\ GoTo("config") /\ unit' = None /\ applied' = applied
          /\ run' = IF unit = None THEN run ELSE Gone
  /\ UNCHANGED <<class, hubVars, profile, log, restarts, memory, refused, acked, letGo>>

PutConfigMap ==
  /\ at = "config" /\ NoFault
  /\ profile' = intent.gen /\ GoTo("create")
  /\ UNCHANGED <<class, hubVars, unit, run, log, memory, restarts, history>>

\* A StatefulSet with the generation and the replicas is left as it is.
UpToDate(i) == unit # None /\ unit.gen = i.gen /\ (unit.phase = "stopped") = (i.state = "stopped")

\* A Job is created, a StatefulSet created or patched, which replaces its pod.
CreateUnit ==
  /\ at = "create" /\ NoFault
  /\ IF UpToDate(intent) THEN UNCHANGED <<unit, run>>
     ELSE /\ unit' = [gen |-> intent.gen, phase |-> IF intent.state = "stopped" THEN "stopped" ELSE "pending"]
          /\ run' = Interrupted
  /\ applied' = applied \cup {intent.gen} /\ GoTo("ack")
  /\ UNCHANGED <<class, hubVars, profile, log, memory, restarts, refused, acked, letGo>>

\* driver.delete: the unit first, then its ConfigMap. It goes for a deleted
\* intent, an ephemeral one to be stopped, or a Job the watch saw end.
DeleteUnit ==
  /\ at = "delete" /\ NoFault
  /\ unit' = None /\ run' = Gone
  /\ GoTo("unconfig")
  /\ UNCHANGED <<class, hubVars, profile, log, memory, restarts, applied, refused, acked,
                 letGo>>

DeleteConfigMap ==
  /\ at = "unconfig" /\ NoFault /\ profile' = 0
  /\ IF back = "end" THEN tracked' = None /\ Leave("launch") /\ applied' = applied
     ELSE /\ GoTo("ack") /\ applied' = applied \cup {intent.gen}
          /\ tracked' = IF back = "stop" THEN None ELSE tracked
  /\ UNCHANGED <<class, hubVars, unit, run, log, relay, pending, restarts, refused, acked, letGo>>

\* The cluster fails: a deleted intent is left to its lease, an ended Job to
\* the next tick.
DeleteFails ==
  /\ at \in {"delete", "unconfig"} /\ back # "stop" /\ Fault
  /\ Leave(IF back = "end" THEN "launch" ELSE "acks")
  /\ UNCHANGED <<class, hubVars, clusterVars, memory, restarts, history>>

------------------------
(* Acknowledgements. *)

\* The lease is this attempt's; an acknowledged one is acknowledged again.
Holds(i) == lease # "offered" /\ i.gen = want.gen /\ i.attempt = want.attempt

TakeAck(i) ==
  /\ lease' = IF Holds(i) THEN "done" ELSE lease
  /\ acked' = IF Holds(i) THEN acked \cup {i.gen} ELSE acked

\* What is tracked once the intent has been applied, before its ack.
TrackedNow ==
  IF at = "refused" \/ back \in {"stop", "delete"} THEN tracked
  ELSE [gen |-> intent.gen, last |-> None]

\* _ack inside handle_intent, and what its caller does with the answer.
Ack ==
  /\ at \in {"ack", "refused"}
  /\ \/ /\ NoFault /\ TakeAck(intent) /\ pending' = None
        /\ tracked' = IF back = "delete" THEN None ELSE TrackedNow
        /\ IF at = "refused" \/ ~Holds(intent) THEN Leave("acks")
           ELSE GoTo(IF back \in {"delete", "stop"} THEN "say" ELSE "status")
     \/ /\ Fault /\ (TakeAck(intent) \/ UNCHANGED <<lease, acked>>)
        /\ pending' = intent /\ tracked' = TrackedNow /\ Leave("idle")
     \/ Fault /\ UNCHANGED <<lease, acked, pending>> /\ tracked' = TrackedNow /\ Leave("acks")
  /\ UNCHANGED <<class, want, told, cursor, finished, clusterVars, relay, restarts, applied,
                 refused, letGo>>

\* "deleted" or "stopped" is reported once it is acknowledged.
Say ==
  /\ at = "say"
  /\ Report("acks")
  /\ UNCHANGED <<class, hubVars, clusterVars, memory, restarts, history>>

\* retry_acks.
RetryAcks ==
  /\ at = "acks"
  /\ IF pending = None THEN NoFault /\ GoTo("watch") /\ UNCHANGED <<lease, acked, pending>>
     ELSE \/ NoFault /\ TakeAck(pending) /\ pending' = None /\ GoTo("watch")
          \/ /\ Fault /\ (TakeAck(pending) \/ UNCHANGED <<lease, acked>>)
             /\ pending' = pending /\ GoTo("idle")
          \/ Fault /\ UNCHANGED <<lease, acked>> /\ pending' = None /\ GoTo("watch")
  /\ UNCHANGED <<class, want, told, cursor, finished, clusterVars, tracked, relay, restarts,
                 applied, refused, letGo>>

------------------------
(* Watching. *)

\* driver.status.
Status == IF unit = None THEN "absent" ELSE unit.phase

\* _report_status: nothing to say, or an observation the hub answers.
StatusIsTold ==
  /\ NoFault
  /\ IF Status = tracked.last THEN UNCHANGED <<told, tracked>>
     ELSE Reported(tracked.gen, Status) /\ tracked' = [tracked EXCEPT !.last = Status]

\* It fails: the hub is silent, or it refuses or the cluster does not answer.
StatusIsLost ==
  /\ Fault /\ Status # tracked.last /\ (Reported(tracked.gen, Status) \/ told' = told)
  /\ Leave("idle") /\ UNCHANGED tracked

M_SkippedIsNoted(place) ==
  Fault /\ Leave(place) /\ told' = told /\ tracked' = [tracked EXCEPT !.last = Status]

StatusIsSkipped(place) == Fault /\ Leave(place) /\ UNCHANGED <<told, tracked>>

ReportStatus ==
  /\ at = "status"
  /\ \/ StatusIsTold /\ Leave("acks")
     \/ StatusIsLost
     \/ StatusIsSkipped("acks")
  /\ UNCHANGED <<class, want, lease, cursor, finished, clusterVars, relay, pending, restarts,
                 history>>

\* watch: an absent workload is forgotten, an ended Job drained and deleted.
Watch ==
  /\ at = "watch" /\ tracked # None
  /\ \/ /\ NoFault
        /\ IF Status = tracked.last THEN told' = told ELSE Reported(tracked.gen, Status)
        /\ tracked' = IF Status = "absent" THEN None ELSE [tracked EXCEPT !.last = Status]
        /\ IF class = "ephemeral" /\ Status = "failed" THEN Drain("end") ELSE GoTo("launch")
     \/ StatusIsLost
     \/ StatusIsSkipped("launch")
  /\ UNCHANGED <<class, want, lease, cursor, finished, clusterVars, relay, pending, restarts,
                 history>>

WatchNothing ==
  /\ at = "watch" /\ tracked = None /\ GoTo("launch")
  /\ UNCHANGED <<class, hubVars, clusterVars, memory, counts, history>>

------------------------
(* The relay. *)

\* driver.endpoint: the address of a pod that runs.
Reachable == unit # None /\ unit.phase = "running"

\* A launch delivery may start the run, which is then tracked.
Deliver ==
  /\ at = "launch"
  /\ \/ UNCHANGED <<run, relay>>
     \/ /\ tracked # None /\ Reachable /\ run = "none" /\ run' = "running"
        /\ relay' = [after |-> 0, limit |-> PageLimit]
  /\ GoTo("pump")
  /\ UNCHANGED <<class, hubVars, unit, profile, log, tracked, pending, counts, history>>

\* _pump is over: pump_events keeps the run, a drain lets go of it.
PumpOver(kept) ==
  /\ relay' = IF back = "idle" THEN kept ELSE None
  /\ page' = NoPage /\ UNCHANGED <<intent, back>>
  /\ at' = IF back = "idle" THEN "idle" ELSE "delete"

\* The run is let go with its workload; a pod that does not answer ends it.
BeginPump ==
  /\ at = "pump" /\ NoFault
  /\ IF relay # None /\ tracked # None /\ Reachable THEN GoTo("read") /\ relay' = relay
     ELSE PumpOver(IF tracked = None THEN None ELSE relay)
  /\ UNCHANGED <<class, hubVars, clusterVars, tracked, pending, restarts, history>>

\* The agent has the run only while its pod has its files.
Answers == Reachable /\ run \in {"running", "stopped"}

AgentFails ==
  /\ at \in {"pump", "read", "push", "record"} /\ relay # None
  /\ (at # "pump" /\ ~Answers /\ NoFault) \/ Fault
  /\ PumpOver(relay)
  /\ UNCHANGED <<class, hubVars, clusterVars, tracked, pending, restarts, history>>

\* read_events_page: the events after a position, the first `limit` of them.
M_PageEndUnbounded(after, limit) == after + limit

PageEnd(after, limit) == IF log - after > limit THEN after + limit ELSE log

\* One page. An empty one is final: after it the record is read, or, when
\* the record has been read and the run seen stopped, the run is let go.
ReadPage ==
  LET to == PageEnd(relay.after, relay.limit)
  IN /\ at = "read" /\ Answers
     /\ page' = [page EXCEPT !.to = to, !.more = log > to]
     /\ at' = IF to > relay.after THEN "push" ELSE IF page.stopped THEN "final" ELSE "record"
     /\ UNCHANGED <<intent, back>>
     /\ UNCHANGED <<class, hubVars, clusterVars, memory, counts, history>>

\* push_events of the page with the run's record; the hub skips what it has.
Pushed ==
  /\ cursor' = IF page.to > cursor THEN page.to ELSE cursor
  /\ finished' = (finished \/ run = "stopped")

\* The cursor follows the hub's answer.
PushPage ==
  /\ at = "push" /\ Answers /\ NoFault /\ Pushed
  /\ IF page.more /\ page.pages + 1 < MaxPages
     THEN /\ relay' = [relay EXCEPT !.after = cursor'] /\ at' = "read"
          /\ page' = [page EXCEPT !.pages = @ + 1] /\ UNCHANGED <<intent, back>>
     ELSE PumpOver([relay EXCEPT !.after = cursor'])
  /\ UNCHANGED <<class, want, lease, told, clusterVars, tracked, pending, restarts, history>>

\* 413: smaller pages from now on.
PushTooLarge ==
  /\ at = "push" /\ Answers /\ Fault
  /\ relay.limit > 1 /\ page.to > relay.after + 1
  /\ PumpOver([relay EXCEPT !.limit = @ \div 2])
  /\ UNCHANGED <<class, hubVars, clusterVars, tracked, pending, restarts, history>>

\* A push that is not answered leaves the position where it was.
M_UnansweredAdvances == relay' = [relay EXCEPT !.after = page.to]
UnansweredPush == relay' = relay

\* The hub does not answer, does not know the run (404), or refuses it.
PushFails ==
  /\ \/ at = "push" /\ Answers
     \/ at = "final"
  /\ Fault
  /\ \/ Leave("idle") /\ UnansweredPush /\ (Pushed \/ UNCHANGED <<cursor, finished>>)
     \/ PumpOver(None) /\ UNCHANGED <<cursor, finished>>
     \/ PumpOver(relay) /\ UNCHANGED <<cursor, finished>>
  /\ UNCHANGED <<class, want, lease, told, clusterVars, tracked, pending, restarts, history>>

\* STOPPED_RUN_STATUSES.
M_IsStoppedNever == FALSE
IsStopped == run = "stopped"

\* A stopped run's events are read again before it is let go.
OnceStopped == "read"

\* The record read after an empty page.
ReadRecord ==
  /\ at = "record" /\ Answers /\ NoFault
  /\ IF IsStopped
     THEN /\ at' = OnceStopped /\ relay' = relay /\ UNCHANGED <<intent, back>>
          /\ page' = [NoPage EXCEPT !.stopped = TRUE]
     ELSE PumpOver(relay)
  /\ UNCHANGED <<class, hubVars, clusterVars, tracked, pending, restarts, history>>

\* The stopped record goes up once more with an empty page.
PushFinal ==
  /\ at = "final" /\ NoFault
  /\ finished' = TRUE /\ letGo' = TRUE /\ PumpOver(None)
  /\ UNCHANGED <<class, want, lease, told, cursor, clusterVars, tracked, pending, restarts,
                 applied, refused, acked>>

------------------------
(* Around the spoke. *)

\* A new generation of the intent supersedes the last. What a refused one
\* asks for makes no difference.
NewGeneration ==
  /\ want.gen < MaxGen
  /\ want' \in {i \in Intents : /\ i.gen = want.gen + 1 /\ i.attempt = 0
                                /\ i.allowed \/ i.state = "running"}
  /\ lease' = "offered"
  /\ UNCHANGED <<class, told, cursor, finished, clusterVars, memory, at, local, counts, history>>

Reoffer ==
  /\ lease = "claimed" /\ want.attempt < MaxFaults + MaxRestarts
  /\ lease' = "offered" /\ want' = [want EXCEPT !.attempt = @ + 1]
  /\ UNCHANGED <<class, told, cursor, finished, clusterVars, memory, at, local, restarts, history>>

\* The lease of an intent the spoke no longer has runs out, or too early.
Expire == intent = None /\ pending = None /\ NoFault /\ Reoffer
ExpireEarly == (intent # None \/ pending # None) /\ Fault /\ Reoffer

PodStarts ==
  /\ unit # None /\ unit.phase = "pending"
  /\ unit' = [unit EXCEPT !.phase = "running"]
  /\ UNCHANGED <<class, hubVars, profile, run, log, memory, at, local, counts, history>>

\* A Job reaches its deadline; a StatefulSet's pod is replaced.
PodEnds ==
  /\ unit # None
  /\ \/ class = "ephemeral" /\ unit.phase \in {"pending", "running"} /\ NoFault
        /\ unit' = [unit EXCEPT !.phase = "failed"]
     \/ class = "persistent" /\ unit.phase = "running" /\ Fault
        /\ unit' = [unit EXCEPT !.phase = "pending"]
  /\ run' = Interrupted
  /\ UNCHANGED <<class, hubVars, profile, log, memory, at, local, restarts, history>>

\* The agent's run writes an event, or stops after its last.
Append ==
  /\ run = "running" /\ log < MaxLog /\ log' = log + 1
  /\ UNCHANGED <<class, hubVars, unit, profile, run, memory, at, local, counts, history>>

RunStops ==
  /\ run = "running" /\ run' = "stopped"
  /\ UNCHANGED <<class, hubVars, unit, profile, log, memory, at, local, counts, history>>

Restart ==
  /\ restarts < MaxRestarts /\ restarts' = restarts + 1
  /\ tracked' = None /\ relay' = None /\ pending' = None
  /\ Leave("recover")
  /\ UNCHANGED <<class, hubVars, clusterVars, faults, history>>

HandleIntent ==
  \/ Handle \/ Refuse \/ ApplyFails \/ ReplaceJob \/ PutConfigMap \/ CreateUnit
  \/ DeleteUnit \/ DeleteConfigMap \/ DeleteFails \/ Ack \/ Say \/ ReportStatus

Pump ==
  \/ BeginPump \/ AgentFails \/ ReadPage \/ PushPage \/ PushTooLarge \/ PushFails
  \/ ReadRecord \/ PushFinal

Tick ==
  \/ Recover \/ BeginTick \/ Claim \/ HandleIntent \/ RetryAcks \/ Watch \/ WatchNothing
  \/ Deliver \/ Pump

World ==
  \/ NewGeneration \/ Expire \/ ExpireEarly \/ PodStarts \/ PodEnds \/ Append \/ RunStops

Next == Tick \/ World \/ Restart

\* The loop runs on, and a lease the spoke does not hold runs out.
Fairness == WF_vars(Tick) /\ WF_vars(Expire)
Spec == Init /\ [][Next]_vars
FairSpec == Spec /\ Fairness

------------------------
(* Properties. *)

\* No event is skipped: the relay never reads past what the hub has, and the
\* hub never has more than the run wrote (_relay: the cursor follows the
\* hub's answer).
NoGap == cursor <= log /\ (relay # None => relay.after <= cursor)

\* Only what has been applied or refused is acknowledged, and what the
\* allowlist refuses is never applied (handle_intent, _ack).
AckedIsApplied ==
  /\ acked \cup (IF pending = None THEN {} ELSE {pending.gen}) \subseteq
       applied \cup {r[1] : r \in refused}
  /\ \A g \in applied : <<g, FALSE>> \notin refused

\* What is acknowledged is in effect: the cluster has what the newest
\* generation asks for, but for a Job the watch has deleted since (handle_intent).
AckedIsInEffect ==
  lease = "done" /\ want.gen \in applied =>
    IF want.state = "deleted" \/ Leaves(want) THEN unit = None /\ profile = 0
    ELSE /\ class = "persistent" => unit # None /\ (unit.phase = "stopped") = (want.state = "stopped")
         /\ unit # None => unit.gen = want.gen /\ profile = want.gen

\* A run the pump lets go as stopped has all its events at the hub, those it
\* wrote between the empty page and the read of its record too (_pump).
FinalIsComplete == letGo => cursor = log /\ finished

\* The hub's picture of intents and events is the cluster's: the four above.
HubIsToldTheTruth == NoGap /\ AckedIsApplied /\ AckedIsInEffect /\ FinalIsComplete

\* The watch deletes an ended Job only once the hub has taken the report of
\* its end (watch).
ReportedBeforeDeleted ==
  [][unit # None /\ unit' = None /\ back = "end"
     => told # None /\ told.phase = "failed" /\ told.gen = tracked.gen]_vars

\* The newest generation is acknowledged in the end, whatever is lost on the
\* way (retry_acks, the hub's leases).
EveryIntentSettles == <>[](lease = "done")

\* The relay of a stopped run its agent still has is finished in the end,
\* however small its pages had to become, unless the hub's 404 or a restart
\* drops it (pump_events).
RelaysFinish ==
  (run = "stopped" /\ relay # None) ~> (finished /\ cursor = log) \/ relay = None \/ ~Answers

\* The hub's intents and the relays of its runs come to their end: the two above.
WorkloadsSettle == EveryIntentSettles /\ RelaysFinish
========================
