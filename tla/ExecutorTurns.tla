------------ MODULE ExecutorTurns ------------
(***************************************************************************)
(* The adapters of the executor tier (miragen/executor/codex.py,           *)
(* claude_code.py, kimi_code.py, grok_build.py, spawn.py and the grok      *)
(* client) under the loop that reads them (ExecutorBackend.run_job).  A    *)
(* turn opens or resumes a session of the runtime; each native message     *)
(* becomes payloads the loop folds into the turn's result; the turn ends   *)
(* in a terminal message, an exit, an error or a cancellation.  What the   *)
(* runtime says is free; what of it reaches the record is the adapters'.   *)
(***************************************************************************)
EXTENDS TokenUsage, FiniteSets

CONSTANTS
  Raw,          \* the usages a runtime may report: [uncached, output, read, write]
  OldRows,       \* usages of rows written before the inclusive convention, as Raw
  MaxTurns,     \* bound: turns of the run
  MaxMessages,  \* bound: native messages of a turn
  NoThread,     \* the run has no thread handle
  Pending       \* grok_build.py: the handle of an ACP session that is not open yet

\* A session's id is never the placeholder or the absence of one.
ASSUME HandlesAssumption ==
  /\ MaxTurns \in Nat \ {0} /\ MaxMessages \in Nat
  /\ NoThread # Pending /\ {NoThread, Pending} \cap (1..MaxTurns) = {}

\* A report has its input and output; what it says of its cache may be missing.
Raws == [uncached : Nat, output : Nat, read : Nat \cup {None}, write : Nat \cup {None}]
ASSUME RawAssumption == Raw \cup OldRows \subseteq Raws

VARIABLES
  spec,     \* the executor block of the profile
  phase,    \* where the turn is
  thread,   \* the run's handle: the last thread.started of its event stream
  session,  \* the runtime's session this turn works in
  live,     \* the sessions the runtime holds, in the order they were opened
  fold,     \* what the adapter and the loop have gathered of this turn
  total,    \* the record's usage, of all turns so far
  count,    \* turns begun and messages of this turn
  seen      \* for the properties: what the runtime did
turnVars == <<spec, phase, thread, session, live, fold, total, count, seen>>

Kinds == {"codex", "claude", "kimi", "headless", "acp", "spawn"}
Policies == {"never", "ask"}
OpClasses == {"write", "command", "network"}
Phases == {"idle", "opening", "streaming", "closing"}
Sessions == 1..MaxTurns
Outputs == {"none", "first", "last", "joined"}

\* ExecutorSpec and LeashSpec: what the profile loader lets through.
Specs == [kind: Kinds, policy: Policies, leash: {{}, {"network"}, OpClasses}]
Valid(s) == s.leash # {} => s.kind # "headless"

NoFold == [output |-> "none", parts |-> 0, usage |-> NoUsage, held |-> NoUsage, failed |-> FALSE,
           terminal |-> FALSE, items |-> FALSE, tools |-> 0, blocked |-> {}]

TurnsTypeOK ==
  /\ spec \in Specs /\ phase \in Phases
  /\ thread \in {NoThread, Pending} \cup Sessions /\ session \in {NoThread} \cup Sessions
  /\ live \subseteq Sessions
  /\ fold.output \in Outputs /\ fold.parts \in 0..MaxMessages /\ fold.tools \in 0..MaxMessages
  /\ count.turns \in 0..MaxTurns /\ count.messages \in 0..MaxMessages
  /\ phase = "idle" => fold = NoFold

Nothing == [uncached |-> 0, output |-> 0, read |-> None, write |-> None]
Seen == [worked |-> NoThread, unasked |-> {}, said |-> Nothing, texts |-> 0, error |-> FALSE,
         status |-> "none", spent |-> 0]
\* A row of the old convention: these adapters stored the uncached input alone.
Uncached(k) == k \in {"claude", "kimi", "headless"}
OldRow(k, raw) == UsageOf(IF Uncached(k) THEN raw.uncached ELSE raw.uncached + OrZero(raw.read),
                          raw.output, raw.read, None, None)

\* A new run, or a run of an older version whose record is loaded and resumed.
TurnsInit ==
  /\ spec \in {s \in Specs : Valid(s)}
  /\ phase = "idle" /\ session = NoThread /\ fold = NoFold
  /\ \/ /\ thread = NoThread /\ live = {} /\ total = NoUsage
        /\ count = [turns |-> 0, messages |-> 0]
        /\ seen = Seen
     \/ \E raw \in OldRows :
          /\ spec.kind \in {"codex", "claude", "kimi", "headless"}
          /\ thread = 1 /\ live = {1}
          /\ total = LegacyUsage(OldRow(spec.kind, raw), Uncached(spec.kind))
          /\ count = [turns |-> 1, messages |-> 0]
          /\ seen = [Seen EXCEPT !.worked = 1, !.status = "suspended", !.spent = raw.uncached + raw.output]

------------------------
(* The loop: one payload *)

Started(id) == IF id = NoThread THEN thread ELSE id
\* An item that is not a message counts as a tool call.
Message(f, text) == [f EXCEPT !.output = text, !.items = TRUE]
Tool(f) == [f EXCEPT !.items = TRUE, !.tools = @ + 1]
Completed(f, u) == [f EXCEPT !.usage = u, !.terminal = TRUE]
Failed(f) == [f EXCEPT !.failed = TRUE, !.terminal = TRUE]

------------------------
(* Approvals *)

\* Does the runtime ask before an operation?  _options, _open_leashed_thread, _can_use_tool.
Unattended == spec.policy = "never"
Asks == spec.leash # {} \/ ~Unattended
\* The operations the adapter can name: Codex's requests name no network access, a spawned CLI's
\* output nothing.
Named == CASE spec.kind = "codex" -> {"write", "command"}
           [] spec.kind = "spawn" -> {}
           [] OTHER -> OpClasses
\* The host answers for the leash; without one the adapter approves what still asks.
Blocks(op) == Asks /\ spec.leash # {} /\ op \in Named /\ op \in spec.leash

------------------------
(* A turn *)

NewSession == CHOOSE n \in Sessions : n \notin live /\ \A m \in Sessions \ live : n <= m

\* run_job hands the prompt and the run's handle to the adapter.  Headless grok mints the id of a
\* new session itself and, like ACP's placeholder, announces it first.
M_BeginAnew ==
  /\ phase = "idle" /\ count.turns < MaxTurns /\ (count.turns = 0 \/ thread # NoThread)
  /\ phase' = "opening" /\ session' = NoThread /\ fold' = NoFold
  /\ count' = [turns |-> count.turns + 1, messages |-> 0]
  /\ thread' = CASE spec.kind = "headless" -> NewSession
                 [] spec.kind = "acp" -> Pending
                 [] OTHER -> thread
  /\ seen' = [seen EXCEPT !.said = Nothing, !.texts = 0, !.error = FALSE, !.status = "none"]
  /\ UNCHANGED <<spec, live, total>>
Begin ==
  /\ phase = "idle" /\ count.turns < MaxTurns /\ (count.turns = 0 \/ thread # NoThread)
  /\ phase' = "opening" /\ session' = NoThread /\ fold' = NoFold
  /\ count' = [turns |-> count.turns + 1, messages |-> 0]
  /\ thread' = CASE spec.kind = "headless" /\ thread = NoThread -> NewSession
                 [] spec.kind = "acp" /\ thread = NoThread -> Pending
                 [] OTHER -> thread
  /\ seen' = [seen EXCEPT !.said = Nothing, !.texts = 0, !.error = FALSE, !.status = "none"]
  /\ UNCHANGED <<spec, live, total>>

\* The runtime opens the session, and the adapter tells the loop its handle before any work;
\* Claude's comes with the first message of the stream.
Announces == spec.kind \notin {"claude", "headless", "spawn"}
Open ==
  /\ phase = "opening"
  /\ \/ /\ thread \in live
        /\ session' = thread /\ UNCHANGED live
     \/ /\ thread \in {NoThread, Pending} \/ (spec.kind = "headless" /\ count.turns = 1)
        /\ session' = IF spec.kind = "headless" THEN thread ELSE NewSession
        /\ live' = live \cup {session'}
  /\ phase' = "streaming"
  /\ thread' = IF Announces THEN session' ELSE thread
  /\ UNCHANGED <<spec, fold, total, count, seen>>
\* The session cannot be opened: no CLI, no login, no such session.
OpenFails ==
  /\ phase = "opening"
  /\ phase' = "closing"
  /\ fold' = Failed(fold)
  /\ seen' = [seen EXCEPT !.error = TRUE]
  /\ UNCHANGED <<spec, thread, session, live, total, count>>

Says(f) ==
  /\ phase = "streaming" /\ count.messages < MaxMessages
  /\ fold' = f
  /\ count' = [count EXCEPT !.messages = @ + 1]
  /\ UNCHANGED <<spec, session, live, total>>

\* SystemMessage init, the first message of a Claude stream.
ClaudeInit ==
  /\ spec.kind = "claude" /\ count.messages = 0
  /\ Says(fold) /\ thread' = Started(session) /\ UNCHANGED <<phase, seen>>
Announced == spec.kind = "claude" => count.messages > 0
Fluent == spec.kind \notin {"headless", "acp"}

\* A text of the agent.  Grok's texts are pieces, joined when the stream has ended; so are a
\* spawned CLI's lines, which also are items of their own.
Text ==
  /\ Announced /\ ~fold.terminal
  /\ Says(CASE spec.kind = "spawn" -> Tool([fold EXCEPT !.parts = @ + 1])
            [] spec.kind # "spawn" /\ ~Fluent -> [fold EXCEPT !.parts = @ + 1]
            [] OTHER -> Message(fold, IF seen.texts = 0 THEN "first" ELSE "last"))
  /\ seen' = [seen EXCEPT !.worked = session, !.texts = @ + 1]
  /\ UNCHANGED <<phase, thread>>

\* The agent uses a tool: the leash answers before it runs, where the runtime asks.
UseTool(op) ==
  /\ Announced /\ ~fold.terminal
  /\ Says(IF spec.kind = "spawn" THEN fold
          ELSE Tool([fold EXCEPT !.blocked = IF Blocks(op) THEN @ \cup {op} ELSE @]))
  /\ seen' = [seen EXCEPT !.worked = session, !.unasked = IF Blocks(op) THEN @ ELSE @ \cup {op}]
  /\ UNCHANGED <<phase, thread>>

\* The normalized usage of a report, by the adapter's provider.
UsageFrom(raw) ==
  CASE spec.kind \in {"claude", "headless", "kimi"} ->
         UsageOf(InclusiveInput(raw.uncached, raw.read, raw.write), raw.output, raw.read, raw.write, None)
    [] spec.kind \in {"codex", "acp"} ->
         UsageOf(raw.uncached + OrZero(raw.read) + OrZero(raw.write), raw.output, raw.read, raw.write, None)
    [] OTHER -> NoUsage

\* Kimi's counters come in the middle of the stream, each the turn's so far.
Report(raw) ==
  /\ spec.kind = "kimi" /\ ~fold.terminal
  /\ Says([fold EXCEPT !.held = UsageFrom(raw)])
  /\ seen' = [seen EXCEPT !.said = raw] /\ UNCHANGED <<phase, thread>>

\* The terminal message of a turn that ended well, with its usage; Claude's and Grok's name the session.
EndsWell(raw) ==
  /\ spec.kind \in {"codex", "claude", "headless", "acp"} /\ Announced /\ ~fold.terminal
  /\ Says(Completed(fold, UsageFrom(raw)))
  /\ thread' = IF spec.kind = "codex" THEN thread ELSE Started(session)
  /\ seen' = [seen EXCEPT !.said = raw]
  /\ UNCHANGED phase
EndsBadly ==
  /\ spec.kind \in {"codex", "claude", "headless", "acp"} /\ Announced /\ ~fold.terminal
  /\ Says(Failed(fold))
  /\ thread' = IF spec.kind = "claude" THEN Started(session) ELSE thread
  /\ seen' = [seen EXCEPT !.error = TRUE]
  /\ UNCHANGED phase

Joined(f) == IF f.parts > 0 THEN Message(f, "joined") ELSE f
\* The stream ends: Kimi reports the usage it held, Grok its joined text, and a Grok stream
\* without a terminal event is a failure; a Codex or Claude stream without one is not.
Closed(f, exit) ==
  CASE spec.kind = "kimi" -> Completed(f, f.held)
    [] spec.kind \in {"headless", "acp"} ->
         LET said == IF exit # 0 THEN Failed(f) ELSE f
         IN  IF said.terminal THEN Joined(said) ELSE Failed(Joined(said))
    [] spec.kind = "spawn" -> IF exit = 0 THEN Completed(Joined(f), NoUsage) ELSE Failed(f)
    [] OTHER -> f
StreamEnds(exit) ==
  /\ phase = "streaming" /\ (exit = 0 \/ spec.kind \in {"headless", "spawn"})
  /\ phase' = "closing"
  /\ fold' = Closed(fold, exit)
  /\ seen' = [seen EXCEPT !.error = @ \/ exit # 0 \/ (~Fluent /\ ~fold.terminal)]
  /\ UNCHANGED <<spec, thread, session, live, total, count>>
\* The SDK raises: Kimi makes it a failure, the others leave it to the loop, which does.
StreamBreaks ==
  /\ phase = "streaming" /\ spec.kind # "spawn"
  /\ phase' = "closing"
  /\ fold' = Failed(fold)
  /\ seen' = [seen EXCEPT !.error = TRUE]
  /\ UNCHANGED <<spec, thread, session, live, total, count>>

Back ==
  /\ phase' = "idle" /\ fold' = NoFold /\ session' = NoThread
  /\ UNCHANGED <<spec, thread, live, count>>
\* run_job returns: the record takes the status and the turn's usage.
Truth(raw) == raw.uncached + raw.output + OrZero(raw.write)
Reported == IF fold.usage.reported THEN Truth(seen.said) ELSE 0
Finish ==
  /\ phase = "closing"
  /\ total' = SumUsage(total, fold.usage)
  /\ seen' = [seen EXCEPT !.status = IF fold.failed THEN "failed"
                                     ELSE IF fold.blocked # {} THEN "suspended" ELSE "succeeded",
                          !.spent = @ + Reported]
  /\ Back
\* The turn's time is up, or its client is gone: the cancellation passes through the adapter.
Cancelled ==
  /\ phase \in {"opening", "streaming"}
  /\ seen' = [seen EXCEPT !.status = "suspended"]
  /\ Back /\ UNCHANGED total

TurnsNext ==
  \/ Begin \/ Open \/ OpenFails \/ ClaudeInit \/ Text
  \/ \E op \in OpClasses : UseTool(op)
  \/ \E raw \in Raw : Report(raw) \/ EndsWell(raw)
  \/ EndsBadly \/ \E exit \in {0, 1} : StreamEnds(exit)
  \/ StreamBreaks \/ Finish \/ Cancelled

------------------------
(* Properties *)

\* When a turn is over, however it ended, the run has the handle of the session its agent worked in.
HandleIsKept == phase = "idle" /\ seen.worked # NoThread => thread = seen.worked \/ spec.kind = "spawn"

\* A run's agent never works in another session than it first did, whatever was resumed or cut.
OneSessionPerRun == [][seen.worked # NoThread => seen'.worked = seen.worked]_turnVars

\* With the leash on, no operation it gates and the adapter can name runs before the host has
\* allowed it.
LeashHolds == seen.unasked \cap spec.leash \cap Named = {}

\* A turn in which the runtime failed, or grok stopped without a terminal event, is not a success.
FailureIsRecorded == phase = "idle" /\ seen.error => seen.status # "succeeded"

\* The record's usage spends, with no rates source, what the runtime used: every report whole, and
\* no turn's cache reads against another's input.
SpendingAddsUp == phase = "idle" => SpentUnrated(total) = seen.spent
========================
