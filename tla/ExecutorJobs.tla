------------ MODULE ExecutorJobs ------------
(***************************************************************************)
(* Runs of an executor-tier agent (miragen/executor/base.py and the routes *)
(* of miragen/app.py): the record of a run, its workspace on disk, its     *)
(* event stream and the turns that work on it.  A turn prepares the        *)
(* workspace, streams the agent, and ends in a question, a budget stop, a  *)
(* harvest, a crash or a timeout; a suspended or failed run is resumed or  *)
(* abandoned by a human.  Code between two awaits is one action; where a   *)
(* kill may cut it, Halves says what is left.                              *)
(*                                                                         *)
(* A repository's content is whether the run has changed it; a turn's      *)
(* usage is a number of tokens it reports when it ends.                    *)
(***************************************************************************)
EXTENDS Naturals, Sequences, FiniteSets

CONSTANTS
  Runs,           \* the runs that can be launched
  Repos,          \* the repositories of a run's checkout plan
  Writable,       \* those mounted writable
  MaxConcurrent,  \* limits.max_concurrent_runs
  TokensPerRun,   \* limits.tokens_per_run
  TokensPerDay,   \* limits.tokens_per_day
  MaxUsage,       \* bound: the tokens one turn reports at most
  MaxTurns,       \* bound: turns begun
  MaxFaults,      \* bound: failed setups and harvests, crashes, timeouts and restarts
  MaxRestarts,    \* bound: restarts of the process
  NoDiff          \* the diff_path of a run that was never harvested

ASSUME ExecutorAssumption ==
  /\ IsFiniteSet(Runs) /\ Writable \subseteq Repos
  /\ MaxConcurrent \in Nat \ {0}
  /\ TokensPerRun \in Nat \ {0}
  /\ TokensPerDay \in Nat \ {0}
  /\ MaxUsage \in Nat
  /\ MaxTurns \in Nat
  /\ MaxFaults \in Nat
  /\ MaxRestarts \in Nat

VARIABLES
  rec,     \* the run records
  ws,      \* the workspaces, which outlive turns and restarts
  events,  \* what of the event streams later turns and readers depend on
  turn,    \* the turns in progress
  blocks,  \* the backend's _gate_blocks, each as the run it was blocked in
  count    \* turns begun, faults and restarts so far
jobVars == <<rec, ws, events, turn, blocks, count>>

Statuses == {"absent", "running", "succeeded", "suspended", "failed", "interrupted", "abandoned"}
Records == [status: Statuses, thread: BOOLEAN, pending: Nat, evidence: SUBSET Runs,
            used: Nat, diff: {NoDiff} \cup SUBSET Repos]
Workspaces == [prepared: BOOLEAN, work: SUBSET Repos, committed: SUBSET Repos,
               baseline: SUBSET Repos, asked: BOOLEAN]
Streams == [opened: BOOLEAN, raised: Nat, settled: SUBSET Nat]
Idle == "idle"
Turns == {Idle, "starting", "streaming"}

TypeOK ==
  /\ rec \in [Runs -> Records]
  /\ ws \in [Runs -> Workspaces]
  /\ events \in [Runs -> Streams]
  /\ turn \in [Runs -> Turns]
  /\ blocks \subseteq Runs
  /\ count \in [turns: Nat, faults: Nat, boots: Nat]
  /\ Cardinality({r \in Runs : turn[r] # Idle}) <= MaxConcurrent
  /\ \A r \in Runs : rec[r].status = "running" <=> turn[r] # Idle

Init ==
  /\ rec = [r \in Runs |-> [status |-> "absent", thread |-> FALSE, pending |-> 0,
                            evidence |-> {}, used |-> 0, diff |-> NoDiff]]
  /\ ws = [r \in Runs |-> [prepared |-> FALSE, work |-> {}, committed |-> {},
                           baseline |-> {}, asked |-> FALSE]]
  /\ events = [r \in Runs |-> [opened |-> FALSE, raised |-> 0, settled |-> {}]]
  /\ turn = [r \in Runs |-> Idle]
  /\ blocks = {}
  /\ count = [turns |-> 0, faults |-> 0, boots |-> 0]

------------------------
(* The daily budget and admission *)

\* The tokens the runs have used, each token counted under its run.
UsedBy(r) == {r} \X (1..rec[r].used)
Used == UNION {UsedBy(r) : r \in Runs}
TokensUsed == Cardinality(Used)

\* Those the runs in progress may still use: their own cap, less what they have used.
ReservedBy(r) == {r} \X (rec[r].used + 1..TokensPerRun)
Reserved == UNION {ReservedBy(r) : r \in {q \in Runs : rec[q].status = "running"}}

BudgetLeft == TokensUsed + Cardinality(Reserved) < TokensPerDay
SlotFree == Cardinality({r \in Runs : turn[r] # Idle}) < MaxConcurrent

\* POST /executor-runs, /run and /run/async: check, slot and record in one step.
Launch(r) ==
  /\ rec[r].status = "absent" /\ count.turns < MaxTurns
  /\ BudgetLeft /\ SlotFree
  /\ rec' = [rec EXCEPT ![r].status = "running"]
  /\ turn' = [turn EXCEPT ![r] = "starting"]
  /\ count' = [count EXCEPT !.turns = @ + 1]
  /\ UNCHANGED <<ws, events, blocks>>

------------------------
(* How a turn ends: the result of run_job, written by RunStore.finish *)

\* The record that finish writes: handles are kept, a question replaces the pending one.
Finished(r, status, thread, used) ==
  [rec EXCEPT ![r].status = status, ![r].thread = @ \/ thread, ![r].used = @ + used]

Over(r) == turn' = [turn EXCEPT ![r] = Idle]
Fault == count.faults < MaxFaults /\ count' = [count EXCEPT !.faults = @ + 1]

\* Preparation is idempotent: a prepared repository keeps the tag of its first checkout.
M_PreparedAnew(w) == [w EXCEPT !.prepared = TRUE, !.baseline = w.work]
Prepared(w) ==
  IF w.prepared THEN w ELSE [w EXCEPT !.prepared = TRUE, !.baseline = w.work]

\* The workspace is prepared and the adapter opens or resumes its thread, whose event is
\* durable before the result; or one of them fails, with or without the workspace.
Prepare(r) ==
  /\ turn[r] = "starting"
  /\ \/ /\ ws' = [ws EXCEPT ![r] = Prepared(@)]
        /\ events' = [events EXCEPT ![r].opened = TRUE]
        /\ turn' = [turn EXCEPT ![r] = "streaming"]
        /\ UNCHANGED <<rec, count>>
     \/ /\ Fault /\ Over(r)
        /\ rec' = Finished(r, "failed", FALSE, 0)
        /\ ws' \in {ws, [ws EXCEPT ![r] = Prepared(@)]}
        /\ UNCHANGED events
  /\ UNCHANGED blocks

\* The agent changes a repository, and may commit what it did.
Work(r) ==
  /\ turn[r] = "streaming"
  /\ \E p \in Repos : \E kept \in {{}, {p}} :
       ws' = [ws EXCEPT ![r].work = @ \cup {p}, ![r].committed = @ \cup kept]
  /\ UNCHANGED <<rec, events, turn, blocks, count>>

\* ask_human, or the agent writing the sentinel file itself; a malformed file is set aside
\* at the end of the turn and has no other effect.
Ask(r) ==
  /\ turn[r] = "streaming" /\ ~ws[r].asked
  /\ ws' = [ws EXCEPT ![r].asked = TRUE]
  /\ UNCHANGED <<rec, events, turn, blocks, count>>

\* The leash refuses an operation of this turn and remembers it in the shared backend.
Block(r) ==
  /\ turn[r] = "streaming"
  /\ blocks' = blocks \cup {r}
  /\ UNCHANGED <<rec, ws, events, turn, count>>

\* The question is appended to the event stream.
Raised(r) == [events[r] EXCEPT !.raised = @ + 1]

\* A question suspends the run: the agent's first, else whatever the gate holds, which
\* is drained.  No await parts the event from the record; a kill may (Halves).
M_QuestionedBoth(r, gate) ==
  /\ LET id == events[r].raised + 1 IN
     /\ \E u \in 0..MaxUsage :
          rec' = [Finished(r, "suspended", events[r].opened, u) EXCEPT
                    ![r].pending = id, ![r].evidence = IF gate THEN blocks ELSE {}]
     /\ events' = [events EXCEPT ![r] = Raised(r)]
  /\ blocks' = {}
Questioned(r, gate) ==
  /\ LET id == events[r].raised + 1 IN
     /\ \E u \in 0..MaxUsage :
          rec' = [Finished(r, "suspended", events[r].opened, u) EXCEPT
                    ![r].pending = id, ![r].evidence = IF gate THEN blocks ELSE {}]
     /\ events' = [events EXCEPT ![r] = Raised(r)]
  /\ blocks' = IF gate THEN {} ELSE blocks

\* The sentinel file is archived, so that a later turn does not raise it again.
Archived(r) == [ws[r] EXCEPT !.asked = FALSE]

AgentAsks(r) ==
  /\ turn[r] = "streaming" /\ ws[r].asked
  /\ Questioned(r, FALSE) /\ Over(r)
  /\ ws' = [ws EXCEPT ![r] = Archived(r)]
  /\ UNCHANGED count

Quiet(r) == ~ws[r].asked /\ blocks = {}

\* Without a question of the agent the turn goes on to the gate.
GateAsks(r) ==
  /\ turn[r] = "streaming" /\ ~ws[r].asked /\ blocks # {}
  /\ Questioned(r, TRUE) /\ Over(r)
  /\ UNCHANGED <<ws, count>>

\* The cap is on what the run has used in all its turns.
Exhausted(r, u) == rec[r].used + u > TokensPerRun

BudgetStops(r) ==
  /\ turn[r] = "streaming" /\ Quiet(r)
  /\ \E u \in 0..MaxUsage :
       Exhausted(r, u) /\ rec' = Finished(r, "suspended", events[r].opened, u)
  /\ Over(r)
  /\ UNCHANGED <<ws, events, blocks, count>>

\* The diff against the baseline tag, of the writable repositories.
Diff(w) == (w.work \ w.baseline) \cap Writable

Harvest(r) ==
  /\ turn[r] = "streaming" /\ Quiet(r)
  /\ \E u \in 0..MaxUsage :
       /\ ~Exhausted(r, u)
       /\ \/ /\ rec' = [Finished(r, "succeeded", events[r].opened, u) EXCEPT ![r].diff = Diff(ws[r])]
             /\ UNCHANGED count
          \/ Fault /\ rec' = Finished(r, "failed", events[r].opened, u)  \* git fails
  /\ Over(r)
  /\ UNCHANGED <<ws, events, blocks>>

\* turn.failed, or an exception of the adapter: the sentinel and the gate are not read.
TurnCrashes(r) ==
  /\ turn[r] = "streaming" /\ Fault
  /\ \E u \in 0..MaxUsage : rec' = Finished(r, "failed", events[r].opened, u)
  /\ Over(r)
  /\ UNCHANGED <<ws, events, blocks>>

\* turn_timeout_s: the turn is cancelled, its usage is lost, and its thread is read back
\* from the event stream.
TimeoutThread(r) == events[r].opened
TimesOut(r) ==
  /\ turn[r] = "streaming" /\ Fault
  /\ rec' = Finished(r, "suspended", TimeoutThread(r), 0) /\ Over(r)
  /\ UNCHANGED <<ws, events, blocks>>

------------------------
(* The human's side *)

\* The event a resume writes before the turn: an answer bound to the pending question,
\* or the note that a plain prompt supersedes it.
Settles(r) == IF rec[r].pending = 0 THEN {} ELSE {rec[r].pending}
Resumable(r) == rec[r].status \in {"suspended", "failed"} /\ rec[r].thread /\ BudgetLeft
Settled(r) == [events[r] EXCEPT !.settled = @ \cup Settles(r)]

Resume(r) ==
  /\ Resumable(r) /\ count.turns < MaxTurns
  /\ events' = [events EXCEPT ![r] = Settled(r)]
  /\ IF SlotFree
     THEN /\ rec' = [rec EXCEPT ![r].status = "running", ![r].pending = 0, ![r].evidence = {}]
          /\ turn' = [turn EXCEPT ![r] = "starting"]
          /\ count' = [count EXCEPT !.turns = @ + 1]
     ELSE UNCHANGED <<rec, turn, count>>  \* 429, after the event is written
  /\ UNCHANGED <<ws, blocks>>

\* Abandoning keeps the handles and the pending question on the record; the workspace
\* may be discarded.
Abandon(r) ==
  /\ rec[r].status \in {"suspended", "failed"}
  /\ rec' = [rec EXCEPT ![r].status = "abandoned"]
  /\ ws' \in {ws, [ws EXCEPT ![r] = [prepared |-> FALSE, work |-> {}, committed |-> {},
                                      baseline |-> {}, asked |-> FALSE]]}
  /\ UNCHANGED <<events, turn, blocks, count>>

\* What a kill may leave of a run, as its workspace and its stream: what it finds between
\* two steps, or the half of a step it cuts: a workspace prepared before its thread is
\* opened; a question archived, raised or both before finish has written it to the record;
\* a question settled before reopen.
Halves(r) ==
  {<<ws[r], events[r]>>}
  \cup (IF turn[r] = "starting" THEN {<<Prepared(ws[r]), events[r]>>} ELSE {})
  \cup (IF turn[r] = "streaming" /\ ws[r].asked
        THEN {<<Archived(r), events[r]>>, <<Archived(r), Raised(r)>>} ELSE {})
  \cup (IF turn[r] = "streaming" /\ ~ws[r].asked /\ blocks # {}
        THEN {<<ws[r], Raised(r)>>} ELSE {})
  \cup (IF Resumable(r) THEN {<<ws[r], Settled(r)>>} ELSE {})

\* The process dies, in the middle of a step of one run at most, and is started again:
\* sweep_interrupted closes what was running.
M_SweptNothing == rec
Swept == [r \in Runs |-> IF rec[r].status = "running"
                          THEN [rec[r] EXCEPT !.status = "interrupted"] ELSE rec[r]]
Restart ==
  /\ count.boots < MaxRestarts /\ count.faults < MaxFaults
  /\ rec' = Swept
  /\ turn' = [r \in Runs |-> Idle]
  /\ blocks' = {}
  /\ count' = [count EXCEPT !.boots = @ + 1, !.faults = @ + 1]
  /\ \E r \in Runs : \E half \in Halves(r) :
       ws' = [ws EXCEPT ![r] = half[1]] /\ events' = [events EXCEPT ![r] = half[2]]

TurnStep(r) ==
  \/ Prepare(r) \/ Work(r) \/ Ask(r) \/ Block(r)
  \/ AgentAsks(r) \/ GateAsks(r) \/ BudgetStops(r) \/ Harvest(r)
  \/ TurnCrashes(r) \/ TimesOut(r)
JobNext == Restart \/ \E r \in Runs : Launch(r) \/ TurnStep(r) \/ Resume(r) \/ Abandon(r)
JobSpec == Init /\ [][JobNext]_jobVars

------------------------
(* What the tier promises *)

\* A harvested diff holds everything the run's turns changed in writable repositories,
\* committed or not, in the last turn or an earlier one, and nothing of a reference
\* mount; only a succeeded run has one (_harvest_diff, _prepare_workspace).
HarvestIsWhole ==
  \A r \in Runs : rec[r].diff # NoDiff =>
    rec[r].status = "succeeded" /\ rec[r].diff = ws[r].work \cap Writable

\* A run that succeeded has left no valid question unasked, and every question in a run's
\* event stream is the one its record waits on, or was answered or superseded there.  One
\* question stays open for good: the last of a run a kill cut between the event and the
\* record, which the sweep makes interrupted, a status no human can answer or abandon
\* (_consume_intervention, resume_run, sweep_interrupted).
LeftOpen(r) == IF rec[r].status = "interrupted" THEN {events[r].raised} ELSE {}
QuestionsAreSettled ==
  \A r \in Runs :
    /\ rec[r].status = "succeeded" => ~ws[r].asked
    /\ 1..events[r].raised \subseteq events[r].settled \cup {rec[r].pending} \cup LeftOpen(r)

\* A suspended or failed run whose stream names a thread keeps it as its resume handle,
\* whatever cut the turn short (latest_thread_id, RunStore.finish).
ThreadIsKept ==
  \A r \in Runs : rec[r].status \in {"suspended", "failed"} /\ events[r].opened => rec[r].thread

\* No run succeeds above its own cap, and while no run has exceeded its cap the day's
\* total overshoots the daily limit by less than one cap, however many turns run at
\* once (_budget_exhausted, reserved_tokens_in_flight).
BudgetsHold ==
  /\ \A r \in Runs : rec[r].status = "succeeded" => rec[r].used <= TokensPerRun
  /\ (\A r \in Runs : rec[r].used <= TokensPerRun) => TokensUsed < TokensPerDay + TokensPerRun

\* Whatever faults, timeouts, questions, resumes and restarts cross, the tier keeps what a run
\* did, asked (but for the question a kill leaves open) and spent: the four above.
RunsKeepTheirWork == HarvestIsWhole /\ QuestionsAreSettled /\ ThreadIsKept /\ BudgetsHold

\* A blocked operation leaves the gate only by becoming the evidence of a question a
\* human has to settle, or with the process (_consume_gate_intervention).
BlocksAreReviewed ==
  [][\A r \in blocks \ blocks' :
       (\E q \in Runs : r \in rec'[q].evidence) \/ count'.boots # count.boots]_jobVars
========================
