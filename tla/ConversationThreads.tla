------------ MODULE ConversationThreads ------------
(***************************************************************************)
(* One conversation instance behind the Codex and the Claude Code harness  *)
(* (miragen/harness/codex.py, claude_code.py), between which a profile may *)
(* be switched from one boot to the next, each with its own thread, entry  *)
(* and process; the ledger of who served last (harness/served.py); and the *)
(* client, which is told by `fresh` (GET /instances/{name}/session) that   *)
(* the next turn does not continue the thread it saw last, and then sends  *)
(* its recent transcript along.                                            *)
(*                                                                         *)
(* An action is the code between two awaits; asyncio locks are fair, so    *)
(* queues. Of a thread remains whether it holds the whole conversation,    *)
(* all but what was cut from it when it was carried, or less.              *)
(* Left out: usage, the ledger of events, one-off runs, engineer           *)
(* workspaces, and the tool calls of a turn (ToolGateway).                 *)
(***************************************************************************)
EXTENDS Naturals, Sequences

CONSTANTS
  MaxTurns, MaxRotates, MaxForgets, \* bounds: requests
  MaxFaults,                        \* bound: what breaks
  MaxRestarts,                      \* bound: boots after the first
  NoEntry, NoServed

ASSUME BoundsAssumption ==
  {MaxTurns, MaxRotates, MaxForgets, MaxFaults, MaxRestarts} \subseteq Nat

Harnesses == {"codex", "claude-code"}
\* An entry per harness, the process, the thread being opened, and a new one.
Threads == 1 .. 5
NoThread == 0
Users == {"turn", "task"}   \* what reserves the process
Actors == Users \cup {"rotate", "forget"}
Limit == [turns |-> MaxTurns, rotates |-> MaxRotates, forgets |-> MaxForgets,
          faults |-> MaxFaults, restarts |-> MaxRestarts]

(* An instance's entry in a harness's miragen-instances.json; rotation is   *)
(* rotation_pending, handoff says that a note is stored.                    *)
Entries == [thread : Threads \cup {NoThread}, seq : Nat, rotated : BOOLEAN, lost : BOOLEAN,
            handoff : BOOLEAN, rotation : BOOLEAN]
Blank == [thread |-> NoThread, seq |-> 0, rotated |-> FALSE, lost |-> FALSE,
          handoff |-> FALSE, rotation |-> FALSE]
ASSUME NoEntryAssumption == NoEntry \notin Entries

\* The rows of served.json.
Servers == [harness : Harnesses, seq : Nat]
ASSUME NoServedAssumption == NoServed \notin Servers

(* dead: the Claude Code harness has given it up; it does not look whether  *)
(* the process is up. known: _agents has it.                                *)
Processes == [thread : Threads \cup {NoThread}, up : BOOLEAN, dead : BOOLEAN, known : BOOLEAN]
Gone == [thread |-> NoThread, up |-> FALSE, dead |-> TRUE, known |-> FALSE]
Nothing == [attached |-> FALSE, lost |-> FALSE, handoff |-> FALSE]

VARIABLES
  harness,   \* the profile's, this boot
  entry,     \* each harness's entry
  served,    \* served.json: who served the last turn, in which plane session
  whole,     \* threads that hold the whole conversation
  short,     \* threads that hold all of it but what a carry has cut
  filed,     \* threads with a file a process can resume from
  begun,     \* a turn was answered since the conversation was last deleted
  proc, lock, spawnQ, \* the process, its lock's queue, the spawn lock's queue
  pc,
  seen,      \* the thread that the process being started resumes
  task,      \* what the maintenance task does
  carried,   \* what the turn was submitted with and read before it waited
  leftover,  \* history: threads that hold a conversation that was deleted
  overtaken, \* history: a turn waited for maintenance that changed the thread
  crossed,   \* history: a turn fell between a rotation's steps
  count      \* history: requests, faults and restarts

files == <<entry, served, whole, short, filed, begun>>
history == <<overtaken, leftover, crossed>>
vars == <<harness, files, proc, lock, spawnQ, pc, seen, task, carried, history, count>>

\* Nobody is in a queue twice.
Distinct(q) == \A i, j \in DOMAIN q : q[i] = q[j] => i = j

TypeOK ==
  /\ harness \in Harnesses
  /\ entry \in [Harnesses -> Entries \cup {NoEntry}]
  /\ served \in Servers \cup {NoServed}
  /\ whole \subseteq Threads /\ short \subseteq Threads
  /\ filed \subseteq Threads /\ begun \in BOOLEAN
  /\ proc \in Processes
  /\ lock \in Seq(Users) /\ Distinct(lock)
  /\ spawnQ \in Seq(Actors) /\ Distinct(spawnQ)
  /\ pc \in [Actors -> {"idle", "waiting", "starting", "spawning", "opening", "holding",
                        "dropping", "renewing", "rotating", "woken", "ran", "failed", "closing"}]
  /\ seen \in Threads \cup {NoThread} /\ task \in {"compact", "rotate"}
  /\ carried \in [attached : BOOLEAN, lost : BOOLEAN, handoff : BOOLEAN]
  /\ overtaken \in BOOLEAN /\ crossed \in BOOLEAN /\ leftover \subseteq Threads
  /\ count \in [DOMAIN Limit -> Nat] /\ \A k \in DOMAIN Limit : count[k] <= Limit[k]

Init ==
  /\ harness \in Harnesses /\ entry = [h \in Harnesses |-> NoEntry] /\ served = NoServed
  /\ whole = {} /\ short = {} /\ filed = {} /\ begun = FALSE
  /\ proc = Gone /\ lock = <<>> /\ spawnQ = <<>> /\ pc = [a \in Actors |-> "idle"]
  /\ seen = NoThread /\ task = "compact" /\ carried = Nothing
  /\ overtaken = FALSE /\ crossed = FALSE /\ leftover = {}
  /\ count = [k \in DOMAIN Limit |-> 0]

------------------------
Codex == harness = "codex"
Kept(h) == IF entry[h] = NoEntry THEN Blank ELSE entry[h]
Mine == Kept(harness)
Put(e) == entry' = [entry EXCEPT ![harness] = e]
Maintaining == pc["task"] # "idle"
Busy == lock # <<>>
Warm == proc.known /\ (IF Codex THEN proc.up ELSE ~proc.dead)
In(a, q) == \E i \in DOMAIN q : q[i] = a
\* A queue without a, which is in it at most once.
Without(q, a) ==
  LET k == CHOOSE i \in DOMAIN q : q[i] = a
  IN IF In(a, q) THEN [i \in 1 .. Len(q) - 1 |-> q[IF i < k THEN i ELSE i + 1]] ELSE q
Count(k) == count[k] < Limit[k] /\ count' = [count EXCEPT ![k] = @ + 1]
Fault == Count("faults")
Go(a, step) == pc' = [pc EXCEPT ![a] = step]
\* The task is over; whoever waited for it goes on.
TaskOver(ok) ==
  pc' = [a \in Actors |-> IF a = "task" THEN "idle"
                          ELSE IF pc[a] = "waiting" THEN "woken"
                          ELSE IF pc[a] = "rotating" THEN (IF ok THEN "ran" ELSE "failed")
                          ELSE pc[a]]
Woken == \E a \in Actors : pc[a] \in {"woken", "ran", "failed"}
InUse == {Kept(h).thread : h \in Harnesses} \cup {proc.thread, seen}
FreshThread == CHOOSE t \in Threads : t \notin InUse
AtSpawn(a, step) == pc[a] = step /\ spawnQ # <<>> /\ Head(spawnQ) = a
HasLock(a) == pc[a] = "holding" /\ Head(lock) = a

Switched == served # NoServed /\ served.harness # harness
\* _first_seq, and seq_for: past the session of whoever served last.
Own == IF Mine.seq # 0 THEN Mine.seq ELSE IF served = NoServed THEN 1 ELSE served.seq + 1
PlaneSeq == IF Switched /\ Own <= served.seq THEN served.seq + 1 ELSE Own

\* session_info: what the client reads before it submits a turn. (No entry:
\* there is no session to continue.)
Missing == Mine.thread \notin filed /\ ~(Warm /\ proc.thread = Mine.thread)
Fresh ==
  \/ Mine.thread = NoThread \/ Mine.rotated \/ Mine.lost \/ Switched
  \/ Codex /\ (Mine.rotation \/ Mine.handoff)
  \/ ~Codex /\ Missing

------------------------
(* Processes. _agent_for waits for the spawn lock, then takes the process   *)
(* that runs or starts one.                                                 *)
Reserve(a) == Go(a, "holding") /\ lock' = Append(lock, a)

TakeAgent(a) ==
  IF Warm /\ spawnQ = <<>> THEN Reserve(a) /\ UNCHANGED spawnQ
  ELSE Go(a, "spawning") /\ spawnQ' = Append(spawnQ, a) /\ UNCHANGED lock

SpawnFound(a) ==
  /\ AtSpawn(a, "spawning") /\ Warm
  /\ spawnQ' = Tail(spawnQ) /\ Reserve(a)
  /\ UNCHANGED <<harness, files, proc, seen, task, carried, history, count>>

\* The entry is read here. The thread a Claude Code session file is gone of is
\* dropped from it.
SpawnBegin(a) ==
  LET gone == ~Codex /\ Mine.thread # NoThread /\ Mine.thread \notin filed
  IN /\ AtSpawn(a, "spawning") /\ ~Warm /\ ~Busy
     /\ Go(a, "opening") /\ proc' = Gone
     /\ seen' = IF gone THEN NoThread ELSE Mine.thread
     /\ IF gone THEN Put([Mine EXCEPT !.thread = NoThread, !.lost = TRUE]) ELSE UNCHANGED entry
     /\ crossed' = (crossed \/ pc["rotate"] = "closing")
     /\ UNCHANGED <<harness, served, whole, short, filed, begun, lock, spawnQ, task, carried,
                    overtaken, leftover, count>>

Started(a, t) ==
  /\ proc' = [thread |-> t, up |-> TRUE, dead |-> FALSE, known |-> TRUE]
  /\ spawnQ' = Tail(spawnQ) /\ Reserve(a) /\ seen' = NoThread
  /\ UNCHANGED <<harness, served, begun, task, carried, overtaken, crossed>>

Resume(a) ==
  /\ pc[a] = "opening" /\ seen # NoThread
  /\ Started(a, seen) /\ UNCHANGED <<entry, whole, short, filed, leftover, count>>

M_LostUnsaid(e) == e

\* What the entry says of a thread that was replaced without its history.
LostNow(e) == [e EXCEPT !.lost = TRUE]

\* What thread t holds of the conversation from here on.
Holds(t, part) ==
  /\ whole' = IF part = "all" THEN whole \cup {t} ELSE whole \ {t}
  /\ short' = IF part = "cut" THEN short \cup {t} ELSE short \ {t}
Empty == IF begun THEN "less" ELSE "all"

\* What a carry takes of a thread: its last 200 items, and, when Codex refuses one of them,
\* the plain messages among these. Nothing says that some were left out.
CarryOf(t) ==
  IF t \in whole THEN {"all"} \cup (IF begun THEN {"cut"} ELSE {})
  ELSE IF t \in short THEN {"cut"} ELSE {"less"}

\* A new thread: there was none, the old one would not resume, or new tools
\* need a thread that declares them, into which the history is carried, if there is any.
\* A new thread without the history is lost, but for one that was to be new.
StartThread(a) ==
  LET t == FreshThread
      opened == [Mine EXCEPT !.thread = t, !.seq = Own]
  IN /\ pc[a] = "opening"
     /\ \/ seen = NoThread /\ Put(opened) /\ Holds(t, Empty) /\ UNCHANGED count
        \/ /\ seen # NoThread /\ Codex /\ Put(opened) /\ UNCHANGED count
           /\ \E part \in CarryOf(seen) : Holds(t, part)
        \/ /\ seen # NoThread /\ Put(LostNow(opened)) /\ Holds(t, Empty)
           /\ Fault \/ (Codex /\ ~begun /\ UNCHANGED count)
     /\ filed' = IF Codex THEN filed \cup {t} ELSE filed \ {t}
     /\ leftover' = (IF seen \in leftover /\ ~entry'[harness].lost THEN leftover \cup {t}
                     ELSE leftover \ {t})
     /\ Started(a, t)

\* What maintenance that fails leaves.
GivenUp == [Mine EXCEPT !.rotation = FALSE]

\* The process or the thread does not start, maybe after the old thread was
\* given up: the turn fails, maintenance too.
SpawnFails(a) ==
  LET e == IF a = "task" THEN GivenUp ELSE Mine
  IN /\ pc[a] = "opening" /\ Fault
     /\ \/ IF a = "task" THEN Put(e) ELSE UNCHANGED entry
        \/ seen # NoThread /\ Put([LostNow(e) EXCEPT !.thread = NoThread])
     /\ proc' = Gone /\ spawnQ' = Tail(spawnQ) /\ seen' = NoThread
     /\ IF a = "task" THEN TaskOver(FALSE) ELSE Go(a, "idle")
     /\ carried' = IF a = "turn" THEN Nothing ELSE carried
     /\ UNCHANGED <<harness, served, whole, short, filed, begun, lock, task, history>>

\* The reaper, or another instance that needs room, stops an idle process.
Evict ==
  /\ proc.known /\ ~Busy /\ spawnQ = <<>> /\ proc' = Gone
  /\ UNCHANGED <<harness, files, lock, spawnQ, pc, seen, task, carried, history, count>>

Die ==
  /\ proc.up /\ Fault /\ proc' = [proc EXCEPT !.up = FALSE]
  /\ UNCHANGED <<harness, files, lock, spawnQ, pc, seen, task, carried, history>>

\* Outside: a session file is removed.
FileLost ==
  /\ \E t \in filed : filed' = filed \ {t}
  /\ ~Codex /\ Fault
  /\ UNCHANGED <<harness, entry, served, whole, short, begun, proc, lock, spawnQ, pc, seen, task,
                 carried, history>>

------------------------
(* Turns: the app admits one at a time. What the client could see before is *)
(* read after a turn has waited for maintenance.                            *)
Begin(attached) ==
  /\ TakeAgent("turn")
  /\ carried' = [attached |-> attached, lost |-> Mine.lost, handoff |-> Codex /\ Mine.handoff]

Submit ==
  /\ pc["turn"] = "idle" /\ Count("turns")
  /\ IF Maintaining
     THEN Go("turn", "waiting") /\ carried' = [Nothing EXCEPT !.attached = Fresh]
          /\ UNCHANGED <<lock, spawnQ>>
     ELSE Begin(Fresh)
  /\ UNCHANGED <<harness, files, proc, seen, task, history>>

TurnResume ==
  /\ pc["turn"] = "woken"
  /\ Begin(carried.attached)
  /\ overtaken' = (overtaken \/ (Fresh /\ ~carried.attached))
  /\ UNCHANGED <<harness, files, proc, seen, task, leftover, crossed, count>>

M_LeaveHeld(a, p) == lock' = lock /\ proc' = p

\* A process nobody has any more is gone once its last user leaves it.
Leave(a, p) ==
  /\ lock' = Without(lock, a)
  /\ proc' = IF p.known \/ lock # <<a>> THEN p ELSE Gone

\* A lost the client could see is consumed; one raised since stays.
StillLost(e) == e.lost /\ ~carried.lost

M_MarkOwn == Own
\* The session number the turn is marked with.
Marked == PlaneSeq

\* _after_turn.
AfterTurn == [Mine EXCEPT !.seq = Marked, !.rotated = FALSE, !.lost = StillLost(Mine),
                          !.handoff = @ /\ ~carried.handoff]

\* The turn is over, with an answer or, for Claude Code, with the model's
\* error. The thread holds its prompt, and the transcript if it came along;
\* the other harness's misses it. The policy may ask for maintenance, and a
\* rotation is visible at once.
TurnEnds ==
  /\ HasLock("turn") /\ proc.up
  /\ Leave("turn", proc) /\ carried' = Nothing
  /\ served' = [harness |-> harness, seq |-> Marked]
  /\ begun' = TRUE /\ filed' = filed \cup {proc.thread}
  /\ whole' = (IF carried.attached THEN {proc.thread} ELSE whole \cap {proc.thread})
  /\ short' = (IF carried.attached THEN {} ELSE short \cap {proc.thread})
  /\ \/ Put(AfterTurn) /\ Go("turn", "idle") /\ UNCHANGED task
     \/ /\ Codex /\ ~Maintaining /\ task' \in {"compact", "rotate"}
        /\ Put([AfterTurn EXCEPT !.rotation = @ \/ task' = "rotate"])
        /\ pc' = [pc EXCEPT !["turn"] = "idle", !["task"] = "starting"]
  /\ UNCHANGED <<harness, spawnQ, seen, history, count>>

\* Codex: the model's error, after which the process and the entry stay.
TurnFails ==
  /\ Codex /\ HasLock("turn") /\ proc.up /\ Fault
  /\ Leave("turn", proc) /\ Go("turn", "idle") /\ carried' = Nothing
  /\ UNCHANGED <<harness, files, spawnQ, seen, task, history>>

\* A timeout, a client that went away or a process that died: the process is
\* closed, and dropped behind the spawn lock.
TurnBreaks ==
  /\ HasLock("turn") /\ (Fault \/ (~proc.up /\ UNCHANGED count))
  /\ Leave("turn", [proc EXCEPT !.up = FALSE, !.dead = TRUE])
  /\ filed' \in {filed, filed \cup {proc.thread}}
  /\ Go("turn", "dropping") /\ spawnQ' = Append(spawnQ, "turn") /\ carried' = Nothing
  /\ UNCHANGED <<harness, entry, served, whole, short, begun, seen, task, history>>

TurnDrops ==
  /\ AtSpawn("turn", "dropping")
  /\ proc' = IF proc.known /\ ~Warm /\ ~Busy THEN Gone ELSE proc
  /\ Go("turn", "idle") /\ spawnQ' = Tail(spawnQ)
  /\ UNCHANGED <<harness, files, lock, seen, task, carried, history, count>>

\* A client goes away while its turn waits for maintenance, a lock or a start.
TurnCancelled ==
  /\ pc["turn"] \in {"waiting", "woken", "spawning", "opening", "holding"} /\ ~HasLock("turn") /\ Fault
  /\ Go("turn", "idle") /\ carried' = Nothing
  /\ spawnQ' = Without(spawnQ, "turn")
  /\ IF pc["turn"] = "holding" THEN Leave("turn", proc) ELSE UNCHANGED <<proc, lock>>
  /\ seen' = IF pc["turn"] = "opening" THEN NoThread ELSE seen
  /\ UNCHANGED <<harness, files, task, history>>

------------------------
(* Maintenance of a Codex thread, between turns. *)
MaintStart ==
  /\ pc["task"] = "starting" /\ TakeAgent("task")
  /\ UNCHANGED <<harness, files, proc, seen, task, carried, history, count>>

MaintEnds(e) ==
  /\ IF e = Mine THEN UNCHANGED entry ELSE Put(e)
  /\ Leave("task", proc) /\ TaskOver(FALSE)

Compacted ==
  /\ HasLock("task") /\ task = "compact" /\ proc.up
  /\ MaintEnds(Mine)
  /\ UNCHANGED <<harness, served, whole, short, filed, begun, spawnQ, seen, task, carried, history,
                 count>>

\* The note, or none of it; the plane is told that the session is closed.
NoteWritten ==
  /\ HasLock("task") /\ task = "rotate"
  /\ Go("task", "renewing")
  /\ \/ UNCHANGED <<proc, count>>
     \/ Fault /\ proc' = [proc EXCEPT !.up = FALSE]
  /\ UNCHANGED <<harness, files, lock, spawnQ, seen, task, carried, history>>

\* The entry of a rotated thread, with the note for its first turn.
Rotated(t) ==
  [Mine EXCEPT !.thread = t, !.seq = Own + 1, !.rotated = FALSE, !.handoff = TRUE, !.rotation = FALSE]

Renewed ==
  LET t == FreshThread
  IN /\ pc["task"] = "renewing" /\ proc.up
     /\ Put(Rotated(t)) /\ TaskOver(TRUE)
     /\ lock' = Without(lock, "task") /\ proc' = [proc EXCEPT !.thread = t]
     /\ Holds(t, Empty) /\ filed' = filed \cup {t} /\ leftover' = leftover \ {t}
     /\ UNCHANGED <<harness, served, begun, spawnQ, seen, task, carried, overtaken, crossed, count>>

MaintFails ==
  /\ (HasLock("task") /\ task = "compact") \/ pc["task"] = "renewing"
  /\ Fault \/ (~proc.up /\ UNCHANGED count)
  /\ MaintEnds(GivenUp)
  /\ UNCHANGED <<harness, served, whole, short, filed, begun, spawnQ, seen, task, carried, history>>

------------------------
(* POST /instances/{name}/rotate: refused while a turn runs. Codex waits    *)
(* for maintenance and rotates with a note; without one, and for Claude     *)
(* Code, the process is dropped and then the thread.                        *)
RotateNow ==
  \/ Busy /\ proc.known /\ Go("rotate", "idle") /\ UNCHANGED <<entry, spawnQ, task>>
  \/ /\ ~(Busy /\ proc.known) /\ Mine.thread # NoThread /\ task' = "rotate"
     /\ Put([Mine EXCEPT !.rotation = TRUE])
     /\ pc' = [pc EXCEPT !["rotate"] = "rotating", !["task"] = "starting"]
     /\ UNCHANGED spawnQ
  \/ /\ ~(Busy /\ proc.known) /\ Mine.thread = NoThread
     /\ Go("rotate", "dropping") /\ spawnQ' = Append(spawnQ, "rotate")
     /\ UNCHANGED <<entry, task>>

RotateCall ==
  /\ pc["rotate"] = "idle" /\ pc["turn"] = "idle" /\ entry[harness] # NoEntry /\ Count("rotates")
  /\ CASE Codex /\ Maintaining -> Go("rotate", "waiting") /\ UNCHANGED <<entry, spawnQ, task>>
       [] Codex /\ ~Maintaining -> RotateNow
       [] ~Codex -> /\ Go("rotate", "dropping") /\ spawnQ' = Append(spawnQ, "rotate")
                    /\ UNCHANGED <<entry, task>>
  /\ UNCHANGED <<harness, served, whole, short, filed, begun, proc, lock, seen, carried, history>>

RotateResume ==
  /\ pc["rotate"] = "woken" /\ RotateNow
  /\ UNCHANGED <<harness, served, whole, short, filed, begun, proc, lock, seen, carried, history,
                 count>>

RotateEnds ==
  /\ \/ pc["rotate"] = "ran" /\ Go("rotate", "idle") /\ UNCHANGED spawnQ
     \/ pc["rotate"] = "failed" /\ Go("rotate", "dropping") /\ spawnQ' = Append(spawnQ, "rotate")
  /\ UNCHANGED <<harness, files, proc, lock, seen, task, carried, history, count>>

\* Claude Code refuses here when the process is in use; Codex drops it.
RotateDrops ==
  /\ AtSpawn("rotate", "dropping") /\ spawnQ' = Tail(spawnQ)
  /\ IF ~Codex /\ proc.known /\ Busy THEN Go("rotate", "idle") /\ UNCHANGED proc
     ELSE /\ Go("rotate", "closing")
          /\ proc' = IF Busy THEN [proc EXCEPT !.up = FALSE, !.dead = TRUE, !.known = FALSE] ELSE Gone
  /\ UNCHANGED <<harness, files, lock, seen, task, carried, history, count>>

\* The next turn starts a new thread.
Cleared == [Mine EXCEPT !.thread = NoThread, !.rotated = TRUE, !.rotation = FALSE,
                        !.seq = IF @ = 0 THEN 2 ELSE @ + 1]

\* The plane has been told; now the entry, which a turn may have read since.
RotateClears ==
  /\ pc["rotate"] = "closing" /\ Go("rotate", "idle") /\ Put(Cleared)
  /\ crossed' = (crossed \/ \E a \in Users : pc[a] # "idle")
  /\ UNCHANGED <<harness, served, whole, short, filed, begun, proc, lock, spawnQ, seen, task,
                 carried, overtaken, leftover, count>>

\* What a deletion leaves of the entries: forget takes the running harness's,
\* forget_inactive_harnesses that of Claude Code; it has no case for Codex.
Unforgotten == [h \in Harnesses |-> IF h \in {harness, "claude-code"} THEN NoEntry ELSE entry[h]]

\* DELETE /instances/{name}.
Forget ==
  /\ pc["forget"] = "idle" /\ pc["turn"] = "idle" /\ Count("forgets")
  /\ Go("forget", "dropping") /\ spawnQ' = Append(spawnQ, "forget")
  /\ UNCHANGED <<harness, files, proc, lock, seen, task, carried, history>>

ForgetEnds ==
  /\ AtSpawn("forget", "dropping") /\ Go("forget", "idle") /\ spawnQ' = Tail(spawnQ)
  /\ \/ proc.known /\ Busy /\ UNCHANGED <<files, proc, leftover>>
     \/ /\ ~(proc.known /\ Busy) /\ proc' = IF Busy THEN proc ELSE Gone
        /\ entry' = Unforgotten /\ served' = NoServed /\ begun' = FALSE
        /\ leftover' = {e.thread : e \in {Unforgotten[h] : h \in Harnesses} \ {NoEntry}} \ {NoThread}
        /\ filed' = filed \cap leftover' /\ whole' = Threads \ leftover' /\ short' = {}
  /\ UNCHANGED <<harness, lock, seen, task, carried, overtaken, crossed, count>>

\* The service is killed; the next boot may run the other harness.
Restart ==
  /\ Count("restarts") /\ harness' \in Harnesses
  /\ proc' = Gone /\ lock' = <<>> /\ spawnQ' = <<>> /\ pc' = [a \in Actors |-> "idle"]
  /\ seen' = NoThread /\ task' = "compact" /\ carried' = Nothing
  /\ UNCHANGED <<files, history>>

------------------------
Open(a) == SpawnFound(a) \/ SpawnBegin(a) \/ Resume(a) \/ StartThread(a) \/ SpawnFails(a)
TurnWork == Open("turn") \/ TurnEnds \/ TurnFails \/ TurnBreaks \/ TurnDrops
TaskWork == Open("task") \/ MaintStart \/ Compacted \/ NoteWritten \/ Renewed \/ MaintFails

\* The event loop runs what is ready before it hears of anything else; starts,
\* prompts and closes end (turn_timeout_s, the timeout of a request).
Ready == TurnResume \/ RotateResume \/ RotateEnds
Work ==
  \/ Ready
  \/ ~Woken /\ (TurnWork \/ TaskWork \/ RotateDrops \/ RotateClears \/ ForgetEnds)

Next ==
  \/ Work \/ Restart
  \/ ~Woken /\ (Submit \/ TurnCancelled \/ RotateCall \/ Forget \/ Evict \/ Die \/ FileLost)

Spec == Init /\ [][Next]_vars /\ WF_vars(Work)

------------------------
\* The thread the next turn continues holds the conversation, or a client that asks is told
\* that it does not (session_info: new, rotated, lost, or served by another harness),
\* whatever broke, was restarted or switched in between. A thread that lacks no more than
\* what a carry to new tools has cut from it counts as holding it: of that cut nobody is
\* told (codex.py:559, 616), and any other gap of such a thread is. Excepted are a thread
\* that maintenance replaced while a turn waited for it (codex.py:775: the lost is consumed
\* unseen), one that a deletion left, see DeletedStaysDeleted, and a turn that crossed a
\* rotation (claude_code.py:889), which checks once.
GapIsTold ==
  begun /\ Mine.thread \notin whole \cup short \cup leftover => Fresh \/ overtaken \/ crossed

\* harnesses.md:139: DELETE discards what the harnesses not running hold for
\* the instance, since otherwise swapping back would resume the deleted
\* conversation.
DeletedStaysDeleted == Warm => proc.thread \notin leftover

\* The process serves the thread its entry names, so a rotated or deleted
\* conversation is never continued (rotate, forget: dropped first), with the
\* last exception again.
ProcessIsMapped == Warm /\ ~crossed => proc.thread = Mine.thread

\* A conversation is continued where it is, or said to be new: the two of them,
\* GapIsTold and ProcessIsMapped.
ThreadsAreKnown == GapIsTold /\ ProcessIsMapped

\* The memory plane's session number of the turns never goes back, and moves
\* on whenever the harness has changed or the thread was rotated, so that a
\* session is never reused (ServedLedger.seq_for).
PlaneMovesOn ==
  [][served # NoServed /\ served' \notin {served, NoServed} =>
       /\ served'.seq >= served.seq
       /\ Switched \/ Mine.rotated => served'.seq > served.seq]_vars

\* Turns, rotations and deletions come to their end, whatever holds the spawn
\* lock or breaks.
RequestsEnd == \A a \in Actors : pc[a] # "idle" ~> pc[a] = "idle"

\* What moves, moves forward and on: the two above.
ThreadsMoveOn == PlaneMovesOn /\ RequestsEnd
========================
