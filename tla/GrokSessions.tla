------------ MODULE GrokSessions ------------
(***************************************************************************)
(* One conversation instance of the Grok Build harness                     *)
(* (miragen/harness/grok.py): its grok process, the session behind it, the *)
(* entry in miragen-instances.json that maps the one to the other, turns,  *)
(* maintenance (compaction, rotation with a handoff note), rotations and   *)
(* deletions on request, eviction, prewarm, deaths and restarts.           *)
(*                                                                         *)
(* An action is the code between two awaits. Both kinds of asyncio.Lock    *)
(* (the spawn lock of the harness, the lock of a process) are fair: queues *)
(* whose first member holds them. The state lock is never held over an     *)
(* await, so it never makes anyone wait and is left out. Starting a process*)
(* takes longer than collecting a dead one and failing the prompts in it,  *)
(* so the instance has one process at a time (see Vacated). Of a session's *)
(* transcript remains which instructions it was told and whether it is     *)
(* still owed the note about the session before it. Other instances are    *)
(* one actor that takes the spawn lock and may evict the process. Left     *)
(* out: token counts (the policy may decide anything), the ledger, the     *)
(* served-by ledger, retired sessions, one-off runs.                       *)
(***************************************************************************)
EXTENDS Naturals, Sequences

CONSTANTS
  Rotators,     \* clients of POST /instances/{name}/rotate
  Tasks,        \* maintenance tasks there may be at once
  MaxSessions,  \* bound: grok sessions at once, and all deleted ones
  MaxTurns,     \* bound: turns
  MaxRotates,   \* bound: rotations asked for
  MaxForgets,   \* bound: deletions asked for
  MaxFaults,    \* bound: deaths, timeouts, errors, clients that go away
  MaxRestarts,  \* bound: killed services
  NoTask, NoEntry

ASSUME BoundsAssumption ==
  {MaxSessions, MaxTurns, MaxRotates, MaxForgets, MaxFaults, MaxRestarts} \subseteq Nat
ASSUME ActorsAssumption ==
  /\ NoTask \notin Tasks /\ Rotators \cap Tasks = {}
  /\ {"turn", "forget", "warm", "other"} \cap (Rotators \cup Tasks) = {}

Sessions == 1 .. MaxSessions
NoSession == 0
Versions == 0 .. MaxRestarts     \* a restart may change the instructions

Users == {"turn"} \cup Tasks     \* what reserves the process
Starters == Users \cup {"warm"}
Waiters == {"turn"} \cup Rotators
Actors == Starters \cup {"forget", "other"} \cup Rotators
Steps == {"idle", "waiting", "rotating", "starting", "spawning", "prompting",
          "renewing", "closing"}

(* The instance's entry: `sha` stands for instructions_sha, `update` for   *)
(* instructions_update_pending, `handoff` says one is stored, `rotation`   *)
(* is rotation_pending. A session: `told` is the version of the            *)
(* instructions it was given last, `owed` says that it has not had the     *)
(* note about its predecessor, `cut` that a process died in a prompt of it.*)
Entries == [session : Sessions \cup {NoSession}, sha : Versions, update : BOOLEAN,
            handoff : BOOLEAN, rotation : BOOLEAN]
Blank == [session |-> NoSession, sha |-> 0, update |-> FALSE, handoff |-> FALSE,
          rotation |-> FALSE]
ASSUME NoEntryAssumption == NoEntry \notin Entries
Transcripts == [told : Versions, owed : BOOLEAN, cut : BOOLEAN]
Unused == [told |-> 0, owed |-> FALSE, cut |-> FALSE]

(* A process is up or dead; `known` says that _agents has it. A dead one   *)
(* that was dropped is still there while somebody has it reserved.         *)
Processes == [session : Sessions \cup {NoSession}, up : BOOLEAN, known : BOOLEAN]
Gone == [session |-> NoSession, up |-> FALSE, known |-> FALSE]
Nothing == [update |-> FALSE, handoff |-> FALSE, session |-> NoSession]
Limit == [turns |-> MaxTurns, rotates |-> MaxRotates, forgets |-> MaxForgets,
          faults |-> MaxFaults, restarts |-> MaxRestarts]

VARIABLES
  rules,       \* the version of the instructions of this boot
  entry,       \* the instance's entry in miragen-instances.json
  sess,        \* grok's session files
  deleted,     \* sessions whose files a deletion removed
  proc,        \* the instance's process
  lock,        \* the process's lock: who has reserved the process queues there
  spawnQ,      \* the spawn lock
  pc, on,      \* where an actor is, and the task it waits for
  what,        \* a task's decision
  starting,    \* tasks created that have not run yet
  current,     \* _maintenance[instance]
  carried,     \* what the turn read before it waited for the lock, and its session
  count,       \* history: turns, requests, faults and restarts so far
  interrupted  \* history: this boot found rotation_pending set

files == <<rules, entry, sess, deleted>>
taskVars == <<what, starting, current>>
grokVars == <<files, proc, lock, spawnQ, pc, on, taskVars, carried, count, interrupted>>

GrokTypeOK ==
  /\ rules \in Versions /\ entry \in Entries \cup {NoEntry}
  /\ sess \in [Sessions -> Transcripts] /\ deleted \subseteq Sessions
  /\ proc \in Processes /\ lock \in Seq(Users) /\ spawnQ \in Seq(Actors)
  /\ pc \in [Actors -> Steps] /\ on \in [Waiters -> Tasks \cup {NoTask}]
  /\ what \in [Tasks -> {"compact", "rotate"}] /\ starting \in Seq(Tasks)
  /\ current \in Tasks \cup {NoTask}
  /\ carried \in [update : BOOLEAN, handoff : BOOLEAN, session : Sessions \cup {NoSession}]
  /\ count \in [DOMAIN Limit -> Nat] /\ \A k \in DOMAIN Limit : count[k] <= Limit[k]
  /\ interrupted \in BOOLEAN

GrokInit ==
  /\ rules = 0 /\ entry = NoEntry /\ sess = [s \in Sessions |-> Unused] /\ deleted = {}
  /\ proc = Gone /\ lock = <<>> /\ spawnQ = <<>>
  /\ pc = [a \in Actors |-> "idle"] /\ on = [a \in Waiters |-> NoTask]
  /\ what = [m \in Tasks |-> "compact"] /\ starting = <<>> /\ current = NoTask
  /\ carried = Nothing
  /\ count = [k \in DOMAIN Limit |-> 0] /\ interrupted = FALSE

------------------------
Known == IF entry = NoEntry THEN Blank ELSE entry
HasSession == Known.session # NoSession
Warm == proc.known /\ proc.up
Busy == lock # <<>>
Prompting(a) == pc[a] = "prompting" /\ Head(lock) = a
Woken(w) == pc[w] \in {"waiting", "rotating"} /\ pc[on[w]] = "idle"
FreeTasks == {m \in Tasks : pc[m] = "idle" /\ \A w \in Waiters : on[w] # m}
NextTask == IF FreeTasks = {} THEN {} ELSE {CHOOSE m \in FreeTasks : TRUE}
InUse == (deleted \cup {Known.session, carried.session, proc.session}) \ {NoSession}
FreshSession ==
  IF Sessions \subseteq InUse THEN {} ELSE {CHOOSE s \in Sessions : s \notin InUse}
In(a, q) == \E i \in DOMAIN q : q[i] = a
(* A queue without a, which is in it at most once. *)
Without(q, a) ==
  LET k == CHOOSE i \in DOMAIN q : q[i] = a
  IN IF In(a, q) THEN [i \in 1 .. Len(q) - 1 |-> q[IF i < k THEN i ELSE i + 1]] ELSE q
Count(k) == count[k] < Limit[k] /\ count' = [count EXCEPT ![k] = @ + 1]
Fault == Count("faults")
Go(a, step) == pc' = [pc EXCEPT ![a] = step]

(* The turn reads update and handoff once it has its process, before it    *)
(* waits for the lock.                                                     *)
Reserve(a, e) ==
  /\ Go(a, "prompting")
  /\ lock' = Append(lock, a)
  /\ carried' = IF a = "turn" THEN [Nothing EXCEPT !.update = e.update, !.handoff = e.handoff]
                ELSE carried

(* _agent_for: a running process is reserved at once, another one is       *)
(* waited for behind the spawn lock.                                       *)
TakeAgent(a) ==
  IF Warm THEN Reserve(a, Known) /\ UNCHANGED spawnQ
  ELSE /\ Go(a, "spawning")
       /\ spawnQ' = Append(spawnQ, a)
       /\ UNCHANGED <<lock, carried>>

(* a is done with the process, of which p is left. *)
Unreserve(a, p) ==
  /\ lock' = Without(lock, a)
  /\ proc' = IF p.known \/ lock # <<a>> THEN p ELSE Gone

Dead == [proc EXCEPT !.up = FALSE]
Dropped == [Dead EXCEPT !.known = FALSE]

------------------------
(* Starting a process. Who is first in the queue finds one that someone    *)
(* before it started, or opens the session in a new one: by session/load,  *)
(* by a fork when the instructions changed, else by session/new. Nobody is *)
(* still at a dead process, or collecting it, when a start completes.      *)
Vacated == pc["turn"] # "closing" /\ ~Busy
AtSpawn(a) == pc[a] = "spawning" /\ spawnQ # <<>> /\ Head(spawnQ) = a
Opening(a) == AtSpawn(a) /\ ~Warm /\ Vacated

SpawnFound(a) ==
  /\ AtSpawn(a) /\ Warm
  /\ spawnQ' = Tail(spawnQ)
  /\ IF a = "warm" THEN Go(a, "idle") /\ UNCHANGED <<lock, carried>> ELSE Reserve(a, Known)
  /\ UNCHANGED <<files, proc, on, taskVars, count, interrupted>>

(* Mutant: prewarm keeps its reservation. *)
M_OpenedForGood(a, s, e) ==
  /\ entry' = e
  /\ proc' = [session |-> s, up |-> TRUE, known |-> TRUE]
  /\ spawnQ' = Tail(spawnQ)
  /\ Reserve(a, e)
  /\ UNCHANGED <<rules, deleted, on, taskVars, interrupted>>

Opened(a, s, e) ==
  /\ entry' = e
  /\ proc' = [session |-> s, up |-> TRUE, known |-> TRUE]
  /\ spawnQ' = Tail(spawnQ)
  /\ IF a = "warm" THEN Go(a, "idle") /\ UNCHANGED <<lock, carried>> ELSE Reserve(a, e)
  /\ UNCHANGED <<rules, deleted, on, taskVars, interrupted>>

LoadSession(a) ==
  /\ Opening(a) /\ HasSession /\ entry.sha = rules /\ entry.session \notin deleted
  /\ Opened(a, entry.session, entry)
  /\ UNCHANGED <<sess, count>>

(* Mutant: the fork is not marked as owed the new instructions. *)
M_ForkedUpdated(f) == [entry EXCEPT !.session = f, !.sha = rules, !.update = FALSE]

(* The fork keeps the transcript and its system rules. *)
Forked(f) == [entry EXCEPT !.session = f, !.sha = rules, !.update = TRUE]

ForkSession(a) ==
  /\ Opening(a) /\ HasSession /\ entry.sha # rules /\ entry.session \notin deleted
  /\ \E f \in FreshSession :
       /\ Opened(a, f, Forked(f))
       /\ sess' = [sess EXCEPT ![f] = sess[entry.session], ![entry.session] = Unused]
  /\ UNCHANGED count

(* No session yet, or the fork failed. *)
NewSession(a) ==
  LET new == [told |-> rules, owed |-> Known.handoff, cut |-> FALSE] IN
  /\ Opening(a)
  /\ HasSession => Known.sha # rules
  /\ \/ Known.session \in deleted \cup {NoSession} /\ UNCHANGED count
     \/ HasSession /\ Fault
  /\ \E n \in FreshSession :
       /\ Opened(a, n, [Known EXCEPT !.session = n, !.sha = rules, !.update = FALSE])
       /\ sess' = [s \in Sessions |-> IF s = n THEN new
                                      ELSE IF s = Known.session THEN Unused ELSE sess[s]]

(* What maintenance that fails leaves. *)
GivenUp == [Known EXCEPT !.rotation = FALSE]

(* The process or its session does not start: the turn fails, maintenance  *)
(* is given up.                                                            *)
OpenFails(a) ==
  /\ Opening(a)
  /\ \/ Fault
     \/ Known.sha = rules /\ Known.session \in deleted /\ UNCHANGED count
  /\ proc' = Gone
  /\ spawnQ' = Tail(spawnQ)
  /\ Go(a, "idle")
  /\ IF a \in Tasks
     THEN /\ entry' = GivenUp
          /\ current' = IF current = a THEN NoTask ELSE current
          /\ what' = [what EXCEPT ![a] = "compact"]
     ELSE UNCHANGED <<entry, current, what>>
  /\ UNCHANGED <<rules, sess, deleted, lock, on, starting, carried, interrupted>>

(* Another instance's start, or the reaper, takes the spawn lock and may   *)
(* stop this process when nobody has reserved it.                          *)
OthersQueue ==
  /\ pc["other"] = "idle"
  /\ Go("other", "spawning") /\ spawnQ' = Append(spawnQ, "other")
  /\ UNCHANGED <<files, proc, lock, on, taskVars, carried, count, interrupted>>

OthersLeave ==
  /\ AtSpawn("other")
  /\ Go("other", "idle") /\ spawnQ' = Tail(spawnQ)
  /\ UNCHANGED proc \/ (proc.known /\ ~Busy /\ proc' = Gone)
  /\ UNCHANGED <<files, lock, on, taskVars, carried, count, interrupted>>

------------------------
(* Turns. The app admits one at a time. It waits for the maintenance that  *)
(* runs, once, and then reserves the process.                              *)
TurnStart ==
  /\ pc["turn"] = "idle" /\ Count("turns")
  /\ IF current # NoTask
     THEN /\ Go("turn", "waiting") /\ on' = [on EXCEPT !["turn"] = current]
          /\ UNCHANGED <<lock, spawnQ, carried>>
     ELSE TakeAgent("turn") /\ UNCHANGED on
  /\ UNCHANGED <<files, proc, taskVars, interrupted>>

TurnResume ==
  /\ Woken("turn") /\ on' = [on EXCEPT !["turn"] = NoTask]
  /\ TakeAgent("turn")
  /\ UNCHANGED <<files, proc, taskVars, count, interrupted>>

(* _schedule: the task runs when the event loop comes to it. *)
Schedule(m, d) ==
  /\ what' = [what EXCEPT ![m] = d]
  /\ starting' = Append(starting, m)
  /\ current' = m

(* Mutant: a turn always saves its session. *)
M_SavedAlways(s) == [Known EXCEPT !.session = s, !.sha = rules, !.update = FALSE]

(* A turn saves its session when it brought an update. *)
Saved(s) ==
  IF carried.update THEN [Known EXCEPT !.session = s, !.sha = rules, !.update = FALSE]
  ELSE Known

(* What follows a prompt that was neither refused nor cancelled: clear the *)
(* update and the handoff if they were in it, ask the policy.              *)
AfterTurn(s) ==
  LET kept == [Saved(s) EXCEPT !.handoff = @ /\ ~carried.handoff]
  IN /\ carried' = Nothing
     /\ \/ entry' = kept /\ Go("turn", "idle") /\ UNCHANGED taskVars
        \/ \E m \in NextTask, d \in {"compact", "rotate"} :
           /\ entry' = [kept EXCEPT !.rotation = @ \/ d = "rotate"]
           /\ pc' = [pc EXCEPT !["turn"] = "idle", ![m] = "starting"]
           /\ Schedule(m, d)

(* The transcript with the turn's prompt in it. *)
Prompted(x) == [x EXCEPT !.told = IF carried.update THEN rules ELSE @,
                         !.owed = @ /\ ~carried.handoff]

TurnEnds ==
  /\ Prompting("turn") /\ proc.up
  /\ sess' = [sess EXCEPT ![proc.session] = Prompted(@)]
  /\ Unreserve("turn", proc)
  /\ AfterTurn(proc.session)
  /\ UNCHANGED <<rules, deleted, spawnQ, on, count, interrupted>>

(* An agent that dies closes the stream of updates, and the prompt ends    *)
(* without an error and without a stop reason. The process is dropped,     *)
(* which waits for it to be collected; then the turn goes on as if it had  *)
(* been answered. Whether grok had stored the prompt is not known.         *)
TurnDies ==
  /\ Prompting("turn") /\ proc.up /\ Fault
  /\ \E stored \in BOOLEAN :
       sess' = [sess EXCEPT ![proc.session] =
                 [IF stored THEN Prompted(@) ELSE @ EXCEPT !.cut = TRUE]]
  /\ Unreserve("turn", Dropped)
  /\ Go("turn", "closing")
  /\ carried' = [carried EXCEPT !.session = proc.session]
  /\ UNCHANGED <<rules, entry, deleted, spawnQ, on, taskVars, interrupted>>

TurnClosed ==
  /\ pc["turn"] = "closing"
  /\ AfterTurn(carried.session)
  /\ UNCHANGED <<rules, sess, deleted, proc, lock, spawnQ, on, count, interrupted>>

(* An error or a refusal. *)
TurnFails ==
  /\ Prompting("turn") /\ proc.up /\ Fault
  /\ Unreserve("turn", proc)
  /\ Go("turn", "idle") /\ carried' = Nothing
  /\ UNCHANGED <<files, spawnQ, on, taskVars, interrupted>>

(* turn_timeout_s: cancelled, and the process dropped. *)
TurnTimesOut ==
  /\ Prompting("turn") /\ proc.up /\ Fault
  /\ Unreserve("turn", Dropped)
  /\ Go("turn", "idle") /\ carried' = Nothing
  /\ UNCHANGED <<files, spawnQ, on, taskVars, interrupted>>

(* The client of a stream goes away: the turn's task is cancelled wherever *)
(* it waits. A process it was starting is closed, one it had is kept.      *)
TurnCancelled ==
  /\ pc["turn"] # "idle" /\ Fault
  /\ Go("turn", "idle") /\ carried' = Nothing
  /\ on' = [on EXCEPT !["turn"] = NoTask]
  /\ spawnQ' = Without(spawnQ, "turn")
  /\ IF pc["turn"] = "prompting" THEN Unreserve("turn", proc) ELSE UNCHANGED <<proc, lock>>
  /\ UNCHANGED <<files, taskVars, interrupted>>

------------------------
(* Maintenance. Whoever waited for a finished task goes on before a task   *)
(* created after its end runs.                                             *)
MaintStart ==
  /\ starting # <<>> /\ \A w \in Waiters : ~Woken(w)
  /\ starting' = Tail(starting)
  /\ TakeAgent(Head(starting))
  /\ UNCHANGED <<files, proc, on, what, current, count, interrupted>>

(* m ends and is done with the process. *)
MaintEnds(m, p, e) ==
  /\ entry' = e
  /\ Unreserve(m, p)
  /\ Go(m, "idle")
  /\ current' = IF current = m THEN NoTask ELSE current
  /\ what' = [what EXCEPT ![m] = "compact"]
  /\ UNCHANGED <<rules, deleted, spawnQ, on, starting, carried, interrupted>>

(* _compact: the memory-save prompt and /compact, to the end. *)
Compacted(m) ==
  /\ Prompting(m) /\ what[m] = "compact"
  /\ MaintEnds(m, proc, entry)
  /\ UNCHANGED <<sess, count>>

(* _rotate up to session/new: whatever became of the note. *)
NoteWritten(m) ==
  /\ Prompting(m) /\ what[m] = "rotate"
  /\ Go(m, "renewing")
  /\ UNCHANGED <<files, proc, lock, spawnQ, on, taskVars, carried, count, interrupted>>

(* Mutant: a rotation that does not end. *)
M_RotatedPending(n) ==
  [session |-> n, sha |-> rules, update |-> FALSE, handoff |-> TRUE, rotation |-> TRUE]

Rotated(n) ==
  [session |-> n, sha |-> rules, update |-> FALSE, handoff |-> TRUE, rotation |-> FALSE]

Renewed(m) ==
  /\ pc[m] = "renewing" /\ proc.up
  /\ \E n \in FreshSession :
       /\ MaintEnds(m, [proc EXCEPT !.session = n], Rotated(n))
       /\ sess' = [sess EXCEPT ![n] = [told |-> rules, owed |-> TRUE, cut |-> FALSE],
                               ![proc.session] = Unused]
  /\ UNCHANGED count

(* An error or a timeout in a compaction, session/new refused or the       *)
(* process dead: the session stays, rotation_pending is taken back.        *)
MaintFails(m) ==
  /\ (Prompting(m) /\ what[m] = "compact") \/ pc[m] = "renewing"
  /\ Fault \/ (~proc.up /\ UNCHANGED count)
  /\ MaintEnds(m, proc, GivenUp)
  /\ UNCHANGED sess

------------------------
(* POST /instances/{name}/rotate: refused while a turn runs. It waits for  *)
(* the maintenance that runs, then schedules its own and waits for that.   *)
RotateCall(r) ==
  /\ pc[r] = "idle" /\ pc["turn"] = "idle" /\ current # NoTask /\ Count("rotates")
  /\ Go(r, "waiting") /\ on' = [on EXCEPT ![r] = current]
  /\ UNCHANGED <<files, proc, lock, spawnQ, taskVars, carried, interrupted>>

Rotate(r) ==
  /\ IF entry = NoEntry
     THEN Go(r, "idle") /\ on' = [on EXCEPT ![r] = NoTask] /\ UNCHANGED <<entry, taskVars>>
     ELSE \E m \in NextTask :
          /\ entry' = [entry EXCEPT !.rotation = TRUE]
          /\ pc' = [pc EXCEPT ![r] = "rotating", ![m] = "starting"]
          /\ on' = [on EXCEPT ![r] = m]
          /\ Schedule(m, "rotate")
  /\ UNCHANGED <<rules, sess, deleted, proc, lock, spawnQ, carried, interrupted>>

RotateNow(r) ==
  /\ pc[r] = "idle" /\ pc["turn"] = "idle" /\ current = NoTask /\ Count("rotates")
  /\ Rotate(r)

RotateResume(r) ==
  /\ pc[r] = "waiting" /\ Woken(r)
  /\ Rotate(r)
  /\ UNCHANGED count

RotateDone(r) ==
  /\ pc[r] = "rotating" /\ Woken(r)
  /\ Go(r, "idle") /\ on' = [on EXCEPT ![r] = NoTask]
  /\ UNCHANGED <<files, proc, lock, spawnQ, taskVars, carried, count, interrupted>>

(* DELETE /instances/{name}: refused while a turn runs, and again, behind  *)
(* the spawn lock, while the process is reserved. The process is stopped   *)
(* before entry and files are removed.                                     *)
Forget ==
  /\ pc["forget"] = "idle" /\ pc["turn"] = "idle" /\ Count("forgets")
  /\ Go("forget", "spawning") /\ spawnQ' = Append(spawnQ, "forget")
  /\ UNCHANGED <<files, proc, lock, on, taskVars, carried, interrupted>>

ForgetRefused ==
  /\ AtSpawn("forget") /\ proc.known /\ Busy
  /\ Go("forget", "idle") /\ spawnQ' = Tail(spawnQ)
  /\ UNCHANGED <<files, proc, lock, on, taskVars, carried, count, interrupted>>

ForgetStops ==
  /\ AtSpawn("forget") /\ proc.known /\ ~Busy
  /\ Go("forget", "closing") /\ proc' = Gone
  /\ UNCHANGED <<files, lock, spawnQ, on, taskVars, carried, count, interrupted>>

ForgetPurges ==
  /\ (AtSpawn("forget") /\ ~proc.known) \/ pc["forget"] = "closing"
  /\ Go("forget", "idle") /\ spawnQ' = Tail(spawnQ)
  /\ entry' = NoEntry /\ sess' = [s \in Sessions |-> Unused] /\ deleted' = InUse
  /\ UNCHANGED <<rules, proc, lock, on, taskVars, carried, count, interrupted>>

------------------------
(* The process dies outside a turn's prompt. *)
Die ==
  /\ proc.up /\ ~Prompting("turn") /\ Fault
  /\ proc' = Dead
  /\ UNCHANGED <<files, lock, spawnQ, pc, on, taskVars, carried, interrupted>>

(* The service is killed; entry and sessions are what survives. The next   *)
(* boot may have other instructions, and may list the instance for prewarm. *)
GrokRestart ==
  /\ Count("restarts")
  /\ rules' \in {rules, count.restarts + 1}
  /\ proc' = Gone /\ lock' = <<>> /\ spawnQ' = <<>>
  /\ \E ahead \in (IF HasSession THEN BOOLEAN ELSE {FALSE}) :
       pc' = [a \in Actors |-> IF ahead /\ a = "warm" THEN "starting" ELSE "idle"]
  /\ on' = [a \in Waiters |-> NoTask]
  /\ what' = [m \in Tasks |-> "compact"] /\ starting' = <<>> /\ current' = NoTask
  /\ carried' = Nothing
  /\ interrupted' = Known.rotation
  /\ UNCHANGED <<entry, sess, deleted>>

(* prewarm comes to the instance: it skips one that has a process. *)
Prewarm ==
  /\ pc["warm"] = "starting"
  /\ IF proc.known THEN Go("warm", "idle") /\ UNCHANGED spawnQ
     ELSE Go("warm", "spawning") /\ spawnQ' = Append(spawnQ, "warm")
  /\ UNCHANGED <<files, proc, lock, on, taskVars, carried, count, interrupted>>

------------------------
Start(a) ==
  SpawnFound(a) \/ LoadSession(a) \/ ForkSession(a) \/ NewSession(a) \/ OpenFails(a)
TurnWork == Start("turn") \/ TurnResume \/ TurnEnds \/ TurnFails \/ TurnClosed
TaskWork(m) ==
  Start(m) \/ Compacted(m) \/ NoteWritten(m) \/ Renewed(m) \/ MaintFails(m)
RotateWork(r) == RotateResume(r) \/ RotateDone(r)
ForgetWork == ForgetRefused \/ ForgetStops \/ ForgetPurges

(* The event loop runs what is ready; a start, a prompt and a close end    *)
(* (turn_timeout_s, the timeouts of the ACP client), and so does what other*)
(* instances do under the spawn lock.                                      *)
Work ==
  \/ TurnWork \/ MaintStart \/ \E m \in Tasks : TaskWork(m)
  \/ \E r \in Rotators : RotateWork(r)
  \/ ForgetWork \/ Prewarm \/ Start("warm")

GrokNext ==
  \/ Work
  \/ TurnStart \/ TurnDies \/ TurnTimesOut \/ TurnCancelled
  \/ \E r \in Rotators : RotateCall(r) \/ RotateNow(r)
  \/ Forget
  \/ OthersQueue \/ OthersLeave
  \/ Die \/ GrokRestart

GrokSpec == GrokInit /\ [][GrokNext]_grokVars /\ WF_grokVars(Work) /\ WF_grokVars(OthersLeave)

------------------------
(* The process that serves the instance is in the session its entry names: *)
(* a turn never continues a conversation that a rotation, a fork or a      *)
(* deletion has replaced.                                                  *)
SessionIsMapped == Warm => entry # NoEntry /\ proc.session = entry.session

(* A session that exists, with no update pending, was told the             *)
(* instructions whose hash is stored with it; but for one in a prompt of   *)
(* which a process died.                                                   *)
Mapped == HasSession /\ entry.session \notin deleted
UpdateReachesTheSession ==
  Mapped /\ ~entry.update => sess[entry.session].told = entry.sha \/ sess[entry.session].cut

(* A rotated session has had the note about the one before it, or the note *)
(* is still stored; with the same exception.                               *)
NoteReachesTheSession ==
  Mapped /\ sess[entry.session].owed => entry.handoff \/ sess[entry.session].cut

(* What a client is told, that the next turn opens a rotated session, is   *)
(* backed by a rotation on its way, unless a kill cut one off.             *)
RotationIsUnderway ==
  Known.rotation =>
    interrupted \/ \E m \in Tasks : what[m] = "rotate" /\ pc[m] # "idle"

(* A turn continues the right conversation, told what it has to be told,   *)
(* whatever turn, rotation, fork, deletion, broken process and restart     *)
(* cross: the four above.                                                  *)
ConversationIsContinued ==
  /\ SessionIsMapped /\ UpdateReachesTheSession
  /\ NoteReachesTheSession /\ RotationIsUnderway

(* A deleted conversation comes back in one way only: a DELETE that waits  *)
(* for the spawn lock while a turn starts, carries an instructions update  *)
(* and loses its process removes what the end of that turn saves again.    *)
DeletedStaysDeleted ==
  [][Known'.session \in deleted' /\ Known.session \notin deleted
       => pc["turn"] = "closing" /\ carried.update]_grokVars

(* A turn and a deletion come to their end, whatever holds the two locks. *)
RequestsEnd ==
  \A a \in {"turn", "forget"} : pc[a] # "idle" ~> pc[a] = "idle"

(* A pending rotation is not pending for ever, unless a kill cut it off. *)
RotationsEnd == Known.rotation ~> ~Known.rotation \/ interrupted

(* What was asked of an instance comes to its end: the two above. *)
EveryRequestSettles == RequestsEnd /\ RotationsEnd
========================
