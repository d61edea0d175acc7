------------ MODULE RunLifecycle ------------
(***************************************************************************)
(* The agent service's runs (miragen/app.py, miragen/runs.py): admission,  *)
(* the durable run record, the turn that executes it, resume, abandon,     *)
(* retention, a stream whose client goes away, the publications that write *)
(* a record back, and a killed process.                                    *)
(*                                                                         *)
(* The service is one asyncio event loop, so an action is the code between *)
(* two awaits. A turn takes three steps: the handler that admits it and    *)
(* writes its record, the end of its backend call (the record is finished  *)
(* and the store pruned), and the return of the handler after the memory   *)
(* boundary's awaits (the slot is released). Everything else may run in    *)
(* between.                                                                *)
(*                                                                         *)
(* Left out: what a prompt, an output or a usage figure contains, and the  *)
(* daily token budget, whose refusals change none of this state.           *)
(***************************************************************************)
EXTENDS Naturals, FiniteSets

CONSTANTS
  RunIds,         \* the run ids the service can mint
  Instances,      \* conversation instances
  Keys,           \* idempotency keys of launches
  NoInstance,     \* a run bound to no instance
  NoKey,          \* a run that was not launched with a key
  NoRecord,       \* no file for this run in the store
  Profiles,       \* what a container may be configured as, see `profile`
  MaxResumes      \* bound: resumes of one run

ASSUME ConstantsAssumption ==
  /\ IsFiniteSet(RunIds)
  /\ NoInstance \notin Instances
  /\ NoKey \notin Keys
  /\ Profiles \subseteq [executor : BOOLEAN, maxConcurrent : Nat \ {0},
                           retention : Nat \ {0}]
  /\ MaxResumes \in Nat

(* A run's turns: 0 is its first, n the one its n-th resume started. *)
Turns == RunIds \X (0 .. MaxResumes)

(* "request" is /run and /run/async; "stream" is /run/stream, whose record *)
(* says "http" but whose turn ends differently; "cron" is any fire of      *)
(* run_agent_scheduled.                                                    *)
Triggers == {"request", "cron", "stream", "launch"}
Statuses == {"running", "succeeded", "failed", "suspended", "abandoned",
             "interrupted"}
TerminalStatuses == {"succeeded", "abandoned", "interrupted"}

(* pending: the record carries a pending_intervention. Its id is the turn  *)
(* that raised it, the run's turn number `resumes`.                        *)
Records == [status : Statuses, trigger : Triggers, key : Keys \cup {NoKey},
            instance : Instances \cup {NoInstance}, thread : BOOLEAN,
            diff : BOOLEAN, pending : BOOLEAN, resumes : 0 .. MaxResumes]

ASSUME NoRecordAssumption == NoRecord \notin Records

VARIABLES
  profile,        \* the tier (_executor is not None), max_concurrent_runs and
                  \* MIRAGEN_RUN_RETENTION; the same at every start
  disk,           \* RunStore's files: run id -> record or NoRecord
  born,           \* the order of started_at, 0 for a run never started
  phase,          \* turn -> where its coroutine is
  held,           \* turn -> the record its coroutine holds
  publishing,     \* run -> the record its publication requests hold
  activeRuns,     \* _active_runs
  busyInstances,  \* _busy_instances
  verdicts,       \* turn -> what the event stream says became of the
                  \* intervention it raised
  dispatched,     \* history: run -> the key it was launched with
  pruned,         \* history: runs whose file retention deleted
  completions     \* history: runs on_complete was dispatched for

storeVars == <<disk, born, pruned>>
slotVars == <<activeRuns, busyInstances>>
vars == <<profile, disk, born, phase, held, publishing, activeRuns,
          busyInstances, verdicts, dispatched, pruned, completions>>

Phases == {"none", "running", "closing"}
Verdicts == {"answered", "superseded"}

TypeOK ==
  /\ profile \in Profiles
  /\ disk \in [RunIds -> Records \cup {NoRecord}]
  /\ born \in [RunIds -> Nat]
  /\ phase \in [Turns -> Phases]
  /\ held \in [Turns -> Records \cup {NoRecord}]
  /\ publishing \in [RunIds -> Records \cup {NoRecord}]
  /\ activeRuns \in Nat
  /\ busyInstances \in SUBSET Instances
  /\ verdicts \in [Turns -> SUBSET Verdicts]
  /\ dispatched \in [RunIds -> Keys \cup {NoKey}]
  /\ pruned \in SUBSET RunIds
  /\ completions \subseteq RunIds

Init ==
  /\ profile \in Profiles
  /\ disk = [r \in RunIds |-> NoRecord]
  /\ born = [r \in RunIds |-> 0]
  /\ phase = [t \in Turns |-> "none"]
  /\ held = [t \in Turns |-> NoRecord]
  /\ publishing = [r \in RunIds |-> NoRecord]
  /\ activeRuns = 0
  /\ busyInstances = {}
  /\ verdicts = [t \in Turns |-> {}]
  /\ dispatched = [r \in RunIds |-> NoKey]
  /\ pruned = {}
  /\ completions = {}

------------------------
(* The run store. *)

Stored(r) == disk[r] # NoRecord
Live == {t \in Turns : phase[t] # "none"}

(* Files beyond the newest `retention`, whatever their records say. *)
Excess(d) ==
  {r \in RunIds :
     /\ d[r] # NoRecord
     /\ Cardinality({q \in RunIds : d[q] # NoRecord /\ born[q] > born[r]})
          >= profile.retention}

(* finish(): write the record, then prune. *)
FinishRecord(r, rec) ==
  LET written == [disk EXCEPT ![r] = rec]
      excess == Excess(written)
  IN  /\ disk' = [q \in RunIds |-> IF q \in excess THEN NoRecord ELSE written[q]]
      /\ pruned' = pruned \cup excess
      /\ UNCHANGED born

------------------------
(* Admission: one turn per instance, at most maxConcurrent turns. *)

CanAcquire(i) ==
  /\ i \notin busyInstances
  /\ activeRuns < profile.maxConcurrent

Acquire(i) ==
  /\ CanAcquire(i)
  /\ activeRuns' = activeRuns + 1
  /\ busyInstances' = busyInstances \cup ({i} \ {NoInstance})

(* Mutant of Release: a release that is not idempotent, called twice. *)
M_ReleaseTwice(i) ==
  /\ activeRuns' = activeRuns - 2
  /\ busyInstances' = busyInstances \ {i}

Release(i) ==
  /\ activeRuns' = activeRuns - 1
  /\ busyInstances' = busyInstances \ {i}

BeginTurn(t, rec) ==
  /\ phase' = [phase EXCEPT ![t] = "running"]
  /\ held' = [held EXCEPT ![t] = rec]

------------------------
(* A run starts. *)

NewRecord(trigger, key, i) ==
  [status |-> "running", trigger |-> trigger, key |-> key, instance |-> i,
   thread |-> FALSE, diff |-> FALSE, pending |-> FALSE, resumes |-> 0]

Fresh(r) == born[r] = 0

StartRecord(r, rec) ==
  /\ disk' = [disk EXCEPT ![r] = rec]
  /\ born' = [born EXCEPT ![r] = Cardinality({q \in RunIds : ~Fresh(q)}) + 1]
  /\ UNCHANGED pruned

(* /run, /run/async, /run/stream and a scheduled fire. /run/stream refuses *)
(* executor-tier profiles.                                                 *)
StartRun(r, trigger, i) ==
  /\ Fresh(r)
  /\ trigger = "stream" => ~profile.executor
  /\ Acquire(i)
  /\ LET rec == NewRecord(trigger, NoKey, i)
     IN  StartRecord(r, rec) /\ BeginTurn(<<r, 0>>, rec)
  /\ UNCHANGED <<profile, publishing, verdicts, dispatched, completions>>

(* Mutant of KnownKey: only running launches are looked up. *)
M_KnownRunningKey(k) ==
  \E r \in RunIds : Stored(r) /\ disk[r].key = k /\ disk[r].status = "running"

(* find_by_idempotency_key: only launch records own the key namespace. *)
KnownKey(k) ==
  \E r \in RunIds : Stored(r) /\ disk[r].trigger = "launch" /\ disk[r].key = k

(* POST /executor-runs and POST /instances/{name}/turns: lookup, admission *)
(* and durable acceptance in one segment. A known key is answered with the *)
(* run it names and changes nothing. Instances are for the model tier.     *)
Launch(r, k, i) ==
  /\ Fresh(r)
  /\ profile.executor => i = NoInstance
  /\ ~KnownKey(k)
  /\ Acquire(i)
  /\ LET rec == NewRecord("launch", k, i)
     IN  StartRecord(r, rec) /\ BeginTurn(<<r, 0>>, rec)
  /\ dispatched' = [dispatched EXCEPT ![r] = k]
  /\ UNCHANGED <<profile, publishing, verdicts, completions>>

------------------------
(* A turn ends. *)

(* What the backend's turn can come back with. The executor harvests a     *)
(* diff on success alone; it suspends for a budget, for the wall clock or, *)
(* pending, for a question; its thread may or may not have been observed   *)
(* before a turn ended early.                                              *)
TurnResults == [status : {"succeeded", "failed", "suspended"},
                thread : BOOLEAN, diff : BOOLEAN, pending : BOOLEAN]
ExecutorOutcomes ==
  {o \in TurnResults : /\ o.diff <=> o.status = "succeeded"
                       /\ o.pending => o.status = "suspended"
                       /\ o.status = "succeeded" => o.thread}
ModelOutcomes ==
  {o \in TurnResults : o.status # "suspended" /\ ~o.thread /\ ~o.diff /\ ~o.pending}
Outcomes == IF profile.executor THEN ExecutorOutcomes ELSE ModelOutcomes

(* finish() keeps a thread, a diff and a pending intervention that the     *)
(* record already has.                                                     *)
Finished(rec, o) ==
  [rec EXCEPT !.status = o.status,
              !.thread = o.thread \/ rec.thread,
              !.diff = o.diff \/ rec.diff,
              !.pending = o.pending \/ rec.pending]

(* The backend call of turn t returned, raised or ran into the timeout:    *)
(* the coroutine finishes the record it holds.                             *)
FinishTurn(t, o) ==
  /\ phase[t] = "running"
  /\ LET rec == Finished(held[t], o)
     IN  /\ FinishRecord(t[1], rec)
         /\ held' = [held EXCEPT ![t] = rec]
  /\ phase' = [phase EXCEPT ![t] = "closing"]
  /\ UNCHANGED <<profile, publishing, slotVars, verdicts, dispatched, completions>>

EndTurn(t) ==
  /\ phase' = [phase EXCEPT ![t] = "none"]
  /\ held' = [held EXCEPT ![t] = NoRecord]
  /\ Release(held[t].instance)

(* Mutant of DispatchesCompletion: every turn that returned completes. *)
M_DispatchesReturned(t) ==
  /\ held[t].trigger = "cron" /\ t[2] = 0
  /\ held[t].status # "failed"

(* A scheduled run that returned re-reads its record after the release and *)
(* dispatches on_complete unless that says it did not succeed.             *)
DispatchesCompletion(t) ==
  /\ held[t].trigger = "cron" /\ t[2] = 0
  /\ held[t].status # "failed"
  /\ Stored(t[1]) => disk[t[1]].status = "succeeded"

CloseTurn(t) ==
  /\ phase[t] = "closing"
  /\ EndTurn(t)
  /\ completions' = completions \cup (IF DispatchesCompletion(t) THEN {t[1]} ELSE {})
  /\ UNCHANGED <<profile, publishing, storeVars, verdicts, dispatched>>

(* The client of a stream is gone: the generator's finally releases the    *)
(* slot, and nothing finishes the record.                                  *)
Disconnect(t) ==
  /\ phase[t] = "running"
  /\ held[t].trigger = "stream"
  /\ EndTurn(t)
  /\ UNCHANGED <<profile, publishing, storeVars, verdicts, dispatched, completions>>

------------------------
(* Resume and abandon (executor tier). *)

Settled(r) == Stored(r) /\ disk[r].status \in {"suspended", "failed"}

(* Mutant of Resumable: resume does not look at the record's status. *)
M_ResumableAlways(r) == profile.executor /\ Stored(r)

Resumable(r) == profile.executor /\ Settled(r) /\ disk[r].thread

Raised(r) == <<r, disk[r].resumes>>

(* Mutant of Verdict: a plain-prompt resume leaves no superseded event. *)
M_VerdictAnswerOnly(r, v) ==
  /\ Resumable(r)
  /\ v = "answered" => disk[r].pending
  /\ IF disk[r].pending /\ v = "answered"
     THEN verdicts' = [verdicts EXCEPT ![Raised(r)] = @ \cup {v}]
     ELSE UNCHANGED verdicts

(* The checks resume_run makes before it appends the verdict on the        *)
(* pending intervention, and the append.                                   *)
Verdict(r, v) ==
  /\ Resumable(r)
  /\ v = "answered" => disk[r].pending
  /\ IF disk[r].pending
     THEN verdicts' = [verdicts EXCEPT ![Raised(r)] = @ \cup {v}]
     ELSE UNCHANGED verdicts

Reopened(rec) ==
  [rec EXCEPT !.status = "running", !.pending = FALSE, !.resumes = @ + 1]

Resume(r, v) ==
  /\ Verdict(r, v)
  /\ disk[r].resumes < MaxResumes
  /\ Acquire(disk[r].instance)
  /\ LET rec == Reopened(disk[r])
     IN  /\ disk' = [disk EXCEPT ![r] = rec]
         /\ BeginTurn(<<r, rec.resumes>>, rec)
  /\ UNCHANGED <<profile, publishing, born, pruned, dispatched, completions>>

(* Admission answers 429, after the verdict was appended. *)
ResumeRefused(r, v) ==
  /\ Verdict(r, v)
  /\ ~CanAcquire(disk[r].instance)
  /\ UNCHANGED <<profile, publishing, storeVars, phase, held, slotVars, dispatched,
                 completions>>

Abandon(r) ==
  /\ profile.executor /\ Settled(r)
  /\ FinishRecord(r, [disk[r] EXCEPT !.status = "abandoned"])
  /\ UNCHANGED <<profile, publishing, phase, held, slotVars, verdicts, dispatched,
                 completions>>

------------------------
(* Publications of a run (ReviewedPublication has the rest of them). A     *)
(* request reads the record before it waits for its key and the backend,   *)
(* and annotates the copy it read when the backend has everything: the     *)
(* file is written whole and nothing is pruned. What the annotation adds,  *)
(* artifact_stored, nobody else reads; the copies several requests hold of *)
(* a run are therefore one.                                                *)
publicationVars == <<profile, born, phase, held, slotVars, verdicts, dispatched,
                     pruned, completions>>

(* Mutant of PublishRun: a run of any status may be published. *)
M_PublishAny(r) ==
  /\ profile.executor /\ Stored(r)
  /\ publishing' = [publishing EXCEPT ![r] = disk[r]]
  /\ UNCHANGED <<disk, publicationVars>>

PublishRun(r) ==
  /\ profile.executor /\ Stored(r)
  /\ disk[r].status = "succeeded" /\ disk[r].diff
  /\ publishing' = [publishing EXCEPT ![r] = disk[r]]
  /\ UNCHANGED <<disk, publicationVars>>

(* One request annotates; another one of the run may still be out. *)
AnnotateRun(r) ==
  /\ publishing[r] # NoRecord
  /\ disk' = [disk EXCEPT ![r] = publishing[r]]
  /\ UNCHANGED <<publishing, publicationVars>>

(* The last request of the run is over: answered, duplicate or failed. *)
PublicationsOver(r) ==
  /\ publishing[r] # NoRecord
  /\ publishing' = [publishing EXCEPT ![r] = NoRecord]
  /\ UNCHANGED <<disk, publicationVars>>

------------------------
(* The process is killed and started again: every coroutine is gone, and   *)
(* the startup sweep rewrites the records still running.                   *)
Swept(rec) ==
  IF rec # NoRecord /\ rec.status = "running"
  THEN [rec EXCEPT !.status = "interrupted"] ELSE rec

Reboot ==
  /\ disk' = [r \in RunIds |-> Swept(disk[r])]
  /\ phase' = [t \in Turns |-> "none"]
  /\ held' = [t \in Turns |-> NoRecord]
  /\ activeRuns' = 0
  /\ busyInstances' = {}
  /\ publishing' = [r \in RunIds |-> NoRecord]
  /\ UNCHANGED <<profile, born, pruned, dispatched, completions>>

Restart == Reboot /\ UNCHANGED verdicts

(* Killed between the appended verdict and the reopened record. *)
RestartInResume(r, v) == Verdict(r, v) /\ disk[r].pending /\ Reboot

------------------------
Next ==
  \/ \E r \in RunIds, trigger \in Triggers \ {"launch"},
        i \in Instances \cup {NoInstance} : StartRun(r, trigger, i)
  \/ \E r \in RunIds, k \in Keys, i \in Instances \cup {NoInstance} :
       Launch(r, k, i)
  \/ \E t \in Turns, o \in Outcomes : FinishTurn(t, o)
  \/ \E t \in Turns : CloseTurn(t)
  \/ \E t \in Turns : Disconnect(t)
  \/ \E r \in RunIds, v \in Verdicts : Resume(r, v)
  \/ \E r \in RunIds, v \in Verdicts : ResumeRefused(r, v)
  \/ \E r \in RunIds : Abandon(r)
  \/ \E r \in RunIds : PublishRun(r)
  \/ \E r \in RunIds : AnnotateRun(r)
  \/ \E r \in RunIds : PublicationsOver(r)
  \/ Restart
  \/ \E r \in RunIds, v \in Verdicts : RestartInResume(r, v)

Spec == Init /\ [][Next]_vars

------------------------
(* Safety. *)

HasTurn(r) == \E t \in Turns : t[1] = r /\ phase[t] = "running"

(* Admission never leaks or double-frees: _active_runs counts exactly the  *)
(* turns in flight, within max_concurrent_runs, and _busy_instances holds  *)
(* exactly the instances they are bound to, through resumes, refusals,     *)
(* disconnects and restarts.                                               *)
SlotAccounting ==
  /\ activeRuns = Cardinality(Live)
  /\ activeRuns <= profile.maxConcurrent
  /\ busyInstances = {held[t].instance : t \in Live} \ {NoInstance}

(* The instance mutex (docs/design/instance-model.md): two turns in flight *)
(* never belong to one instance, whichever routes admitted them.           *)
OneTurnPerInstance ==
  \A t, u \in Live :
    held[t].instance = held[u].instance /\ held[t].instance # NoInstance => t = u

(* No run has two backend turns at once: resume_run may come while the     *)
(* suspended turn's coroutine still winds down, never while it runs, also  *)
(* when the run's record has been pruned meanwhile.                        *)
OneTurnPerRun ==
  \A t, u \in Turns :
    t[1] = u[1] /\ phase[t] = "running" /\ phase[u] = "running" => t = u

(* finish() writes the copy its coroutine took before the turn: nobody     *)
(* else has changed the record in between, so no update is lost.           *)
NoLostUpdate ==
  \A t \in Turns : phase[t] = "running" => disk[t[1]] \in {held[t], NoRecord}

(* Admission is sound: its counters are exact, and an instance and a run   *)
(* have one turn, which alone writes its record: the four above.           *)
AdmissionIsSound ==
  SlotAccounting /\ OneTurnPerInstance /\ OneTurnPerRun /\ NoLostUpdate

(* A launch key dispatches one run, however often it is retried and        *)
(* whatever restarts come in between, as long as retention has not deleted *)
(* the file of the run it named.                                           *)
OneDispatchPerKey ==
  \A r, q \in RunIds :
    dispatched[r] = dispatched[q] /\ dispatched[r] # NoKey /\ r # q
      => r \in pruned \/ q \in pruned

(* on_complete announces only runs that have succeeded and stay so: never  *)
(* one turn of a run that is suspended, to be resumed or abandoned later   *)
(* (run_agent_scheduled), unless retention deleted the record that tells.  *)
CompletedRunsSucceeded ==
  \A r \in completions : r \in pruned \/ (Stored(r) /\ disk[r].status = "succeeded")

(* A record left `running` by a process that is still up is a stream's:    *)
(* every other way a turn ends finishes its record.                        *)
OrphansAreStreams ==
  \A r \in RunIds :
    Stored(r) /\ disk[r].status = "running" /\ disk[r].trigger # "stream"
      => phase[<<r, disk[r].resumes>>] = "running"

(* What a record says of its run is so, to those on_complete tells and to  *)
(* those who read it as running: the two above.                            *)
RecordsAreTrue == CompletedRunsSucceeded /\ OrphansAreStreams

(* succeeded, abandoned and interrupted are final: no late turn, resume,   *)
(* abandon, annotation or sweep changes such a record. One that retention  *)
(* deleted comes back only as the succeeded copy that a publication, begun *)
(* before the deletion and not over yet, writes back when it annotates.    *)
TerminalIsFinal ==
  [][\A r \in RunIds :
       /\ Stored(r) /\ disk[r].status \in TerminalStatuses
            => disk'[r] \in {disk[r], NoRecord}
       /\ ~Stored(r) /\ ~Fresh(r) /\ ~HasTurn(r) /\ disk'[r] # NoRecord
            => disk'[r] = publishing[r] /\ publishing[r].status = "succeeded"]_vars

(* A run that asked a question reopens only with the question's answer or  *)
(* its supersession in the event stream (docs/design/                      *)
(* structured-interventions.md section 2).                                 *)
NoSilentReopen ==
  [][\A r \in RunIds :
       Stored(r) /\ disk[r].pending /\ disk'[r] # NoRecord /\ ~disk'[r].pending
         => verdicts'[Raised(r)] # {}]_vars

(* What is settled stays settled: an end is final and a question is not    *)
(* dropped, the two above.                                                 *)
RecordsStand == TerminalIsFinal /\ NoSilentReopen

------------------------
(* The abstract specification. *)

(* What the store says of a run, or of a run it has no file of. *)
RunStatus(r) ==
  IF Stored(r) THEN disk[r].status
  ELSE IF Fresh(r) THEN "new"
  ELSE IF HasTurn(r) THEN "unrecorded"
  ELSE IF publishing[r] # NoRecord THEN "publishing"
  ELSE "gone"

Observed == INSTANCE RunRecords WITH status <- [r \in RunIds |-> RunStatus(r)]

(* The whole of it, turns, slots, streams, publications, prunings and      *)
(* restarts, is to a reader of the store the run records' life: no step    *)
(* reopens what ended, settles what does not run, or brings back a run     *)
(* retention has deleted, unless its turn still ran, or it had succeeded   *)
(* and a publication of it was still under way (miragen/runs.py).          *)
RunsFollowTheirRecords == Observed!Spec

========================
