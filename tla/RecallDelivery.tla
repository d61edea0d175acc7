------------ MODULE RecallDelivery ------------
(* Background recall of one Claude Code session: the session plane searches *)
(* and selects memories while the agent works *)
(* (src/miragen/daemon/sessions/plane.py), and the hook client *)
(* (src/miragen_hook/client.py) claims what was selected after a tool result *)
(* or when the agent stops.  The two meet in a file, the marker, that holds *)
(* the number of the recall to claim.  Answers are lost, hooks of parallel *)
(* tools overlap, the daemon restarts, and the session is compacted, closed, *)
(* killed and resumed.  The plane also decides at each stop whether to keep *)
(* the agent going to save what it learnt (the nudge). *)
(*                                                                           *)
(* The harness is external: it runs the hook of a prompt, a start, a *)
(* compaction or an end by itself, those of the tools of a turn in parallel, *)
(* and kills the hooks of a turn the user interrupts. *)
EXTENDS Integers, Sequences, SequencesExt

CONSTANTS Tools,        \* tool calls whose hooks may run at once
          MaxTurns,     \* prompts of the session
          MaxOpenings,  \* contexts: starts, resumes and compactions
          MaxFaults,    \* answers lost, markers expired, daemon restarts
          FirstAfter,   \* nudge.first_after_prompts
          Every,        \* nudge.every_prompts
          MaxNudges     \* nudge.max_per_session

ASSUME RecallAssumption ==
  /\ {MaxTurns, MaxOpenings, MaxFaults, MaxNudges} \subseteq Nat
  /\ "stop" \notin Tools

VARIABLES
  \* @ghost turn and context count the harness's prompts and contexts
  turn,      \* prompts so far
  context,   \* contexts so far
  phase,     \* what the harness does: see Phases
  opened,    \* the session was given a context (counters.injections > 0)
  recall,    \* _recalls[key]: the prompt's job
  opening,   \* _open_recalls[key]: the open's job
  seqs,      \* _recall_seq[key]
  marker,    \* the client's marker: a number or NoMarker
  hooks,     \* the hooks of the tools and of the stop
  nudge,     \* the session's nudge state
  shown,     \* what the model was shown in this turn: the job, and when
  faults
recallVars == <<turn, context, phase, opened, recall, opening, seqs, marker,
                hooks, nudge, shown, faults>>

NoMarker == -1
OpenSeq == 0
Phases == {"closed", "idle", "prompted", "turn", "compacted"}
Stop == "stop"
Hooks == Tools \cup {Stop}

NoJob == [seq |-> -1, turn |-> 0, context |-> 0, state |-> "none"]
Running(seq) == [seq |-> seq, turn |-> turn', context |-> context', state |-> "running"]
IdleHook == [at |-> "idle", seq |-> NoMarker, answer |-> "none", next |-> NoMarker,
             jobs |-> << >>, nudged |-> FALSE]
DoneHook == [IdleHook EXCEPT !.at = "done"]
HooksIdle == \A h \in Hooks : hooks[h] = IdleHook
NoneRuns == \A h \in Hooks : hooks[h] \in {IdleHook, DoneHook}

RecallInit ==
  /\ turn = 0 /\ context = 0 /\ phase = "closed" /\ opened = FALSE
  /\ recall = NoJob /\ opening = NoJob /\ seqs = 0 /\ marker = NoMarker
  /\ hooks = [h \in Hooks |-> IdleHook]
  /\ nudge = [state |-> "none", fired |-> 0, prompts |-> 0, saved |-> FALSE,
              compacted |-> FALSE]
  /\ shown = << >> /\ faults = 0

------------------------
(* What the plane answers.  `reach` says what became of the hook's request: *)
(* answered, handled with the answer lost, or never handled. *)
Reaches == {"answered", "lost", "unreached"}
Handled(reach) == reach # "unreached"
Counted(reach) == /\ reach # "answered" => faults < MaxFaults
                  /\ faults' = faults + (IF reach = "answered" THEN 0 ELSE 1)

ShowNow(job) == [job |-> job, turn |-> turn', context |-> context']
Finished(job) == job.state \in {"found", "empty"}

\* An opening drops the recall of the opening before it and starts its own,
\* unless the lifecycle, the store or the selector is not to be had.
Opened(started) == IF started THEN Running(OpenSeq) ELSE NoJob
\* The number of the open's recall, while it runs.
Claimable(job) == IF job.state = "running" THEN job.seq ELSE NoMarker

\* A start, a resume or the start after a compaction.  The client moves its
\* marker to the open's recall, or clears it; without an answer it leaves it.
StartMarker(reach, pending) == IF reach = "answered" THEN pending ELSE marker
Start(reach, started) ==
  /\ phase \in {"closed", "compacted"} /\ HooksIdle
  /\ phase = "closed" => context < MaxOpenings
  /\ Counted(reach)
  /\ started => Handled(reach)
  /\ context' = IF phase = "closed" THEN context + 1 ELSE context
  /\ phase' \in IF phase = "closed" \/ turn = 0 THEN {"idle"} ELSE {"idle", "turn"}
  /\ opened' = (opened \/ (Handled(reach) /\ started))
  /\ turn' = turn
  /\ opening' = IF Handled(reach) THEN Opened(started) ELSE opening
  /\ marker' = StartMarker(reach, IF started THEN OpenSeq ELSE NoMarker)
  /\ UNCHANGED <<recall, seqs, hooks, nudge, shown>>

\* A prompt: the recall of the one before is dropped, whatever this one asks
\* for; a session never given a context is opened first; the search finds
\* candidates (a new job) or none; a finished open recall goes with the answer.
\* The client's marker follows the answer, and is cleared when there is none.
PromptMarker(reach, pending) == IF reach = "answered" THEN pending ELSE NoMarker
Asked(found) == IF found THEN Running(seqs + 1) ELSE NoJob
Unasked(reach) == IF Handled(reach) THEN [nudge EXCEPT !.state = "none"] ELSE nudge
Prompt(reach, started, found) ==
  /\ phase = "idle" /\ turn < MaxTurns /\ HooksIdle
  /\ Counted(reach)
  /\ ~Handled(reach) => ~started /\ ~found
  /\ started => ~opened
  /\ turn' = turn + 1 /\ context' = context /\ phase' = "turn"
  /\ nudge' = Unasked(reach)
  /\ IF ~Handled(reach) THEN shown' = << >> /\ UNCHANGED <<opened, opening, recall, seqs>>
     ELSE LET open == IF opened THEN opening ELSE Opened(started)
          IN /\ opened' = (opened \/ started)
             /\ recall' = Asked(found)
             /\ seqs' = IF found THEN seqs + 1 ELSE seqs
             /\ opening' = IF Finished(open) THEN NoJob ELSE open
             /\ shown' = IF open.state = "found" /\ reach = "answered"
                           THEN <<ShowNow(open)>> ELSE << >>
  /\ marker' = PromptMarker(reach, IF found THEN seqs' ELSE Claimable(opening'))
  /\ UNCHANGED hooks

\* The selector ends, with memories or without (none fit, or it failed).
Finish(state) ==
  /\ \/ recall.state = "running" /\ recall' = [recall EXCEPT !.state = state]
        /\ UNCHANGED opening
     \/ opening.state = "running" /\ opening' = [opening EXCEPT !.state = state]
        /\ UNCHANGED recall
  /\ UNCHANGED <<turn, context, phase, opened, seqs, marker, hooks, nudge, shown, faults>>

------------------------
(* A claim.  It is for the open's recall when the number is the open's and *)
(* no prompt's job has it; it is stale when the prompt's job is another one. *)
Answer(state, jobs, next) == [answer |-> state, jobs |-> jobs, next |-> next]
OpenAnswer(waits) ==
  CASE waits -> Answer("deferred", << >>, NoMarker)
    [] ~waits /\ opening.state = "running" -> Answer("pending", << >>, NoMarker)
    [] ~waits /\ opening.state = "found" -> Answer("ready", <<opening>>, NoMarker)
    [] ~waits /\ opening.state = "empty" -> Answer("empty", << >>, NoMarker)
\* A prompt's answer takes a finished open recall along, or names one that runs.
Along(waits, ready) ==
  IF Finished(opening) /\ (~waits \/ ready) /\ opening.state = "found"
    THEN <<opening>> ELSE << >>
Points(waits) == IF waits THEN NoMarker ELSE Claimable(opening)
RecallAnswer(waits) ==
  CASE recall.state = "running" -> Answer("pending", << >>, NoMarker)
    [] recall.state = "delivered" -> Answer("delivered", << >>, Points(waits))
    [] recall.state = "found" ->
         LET along == Along(waits, TRUE)
         IN Answer("ready", along \o <<recall>>,
                   IF along = << >> THEN Points(waits) ELSE NoMarker)
    [] recall.state = "empty" ->
         LET along == Along(waits, FALSE)
         IN IF along = << >> THEN Answer("empty", << >>, Points(waits))
            ELSE Answer("ready", along, NoMarker)
ForOpening(seq) == opening # NoJob /\ seq = OpenSeq
ForRecall(seq) == recall # NoJob /\ recall.seq = seq
Claimed(seq, waits) ==
  CASE ForOpening(seq) -> OpenAnswer(waits)
    [] ~ForOpening(seq) /\ ForRecall(seq) -> RecallAnswer(waits)
    [] OTHER -> Answer("stale", << >>, NoMarker)

\* What a claim leaves behind: a finished prompt job is delivered, for good; a
\* finished open job that was looked at is gone.
M_NotMarked(seq) == recall
Delivered(seq) == IF ~ForOpening(seq) /\ ForRecall(seq) /\ Finished(recall)
                    THEN [recall EXCEPT !.state = "delivered"] ELSE recall
Taken(seq, waits) ==
  LET looked == \/ ForOpening(seq) /\ ~waits
                \/ /\ ~ForOpening(seq) /\ ForRecall(seq) /\ Finished(recall)
                   /\ ~waits \/ recall.state = "found"
  IN IF looked /\ Finished(opening) THEN NoJob ELSE opening

------------------------
(* The hooks of a turn's tools: read the marker, claim, then show what came *)
(* back and move, keep or clear the marker. *)
ToolReads(h) ==
  /\ phase = "turn" /\ hooks[h].at = "idle" /\ hooks[Stop].at = "idle"
  /\ marker # NoMarker
  /\ hooks' = [hooks EXCEPT ![h].at = "read", ![h].seq = marker]
  /\ UNCHANGED <<turn, context, phase, opened, recall, opening, seqs, marker,
                 nudge, shown, faults>>

Got(h, a) == [hooks EXCEPT ![h].at = "answered", ![h].answer = a.answer,
                           ![h].jobs = a.jobs, ![h].next = a.next,
                           ![h].seq = NoMarker]
Claim(h, reach) ==
  /\ hooks[h].at = "read" /\ Counted(reach)
  /\ LET seq == hooks[h].seq
         waits == h = Stop
     IN /\ hooks' = Got(h, IF reach = "answered" THEN Claimed(seq, waits)
                           ELSE Answer("none", << >>, NoMarker))
        /\ IF Handled(reach)
             THEN recall' = Delivered(seq) /\ opening' = Taken(seq, waits)
             ELSE UNCHANGED <<recall, opening>>
  /\ UNCHANGED <<turn, context, phase, opened, seqs, marker, nudge, shown>>

\* The marker moves to the recall the answer names; it stays only for a tool's
\* hook that was told to wait, or told nothing.
Keeps(h) == h # Stop /\ hooks[h].answer \in {"none", "pending"}
Moved(h) ==
  CASE hooks[h].next # NoMarker -> hooks[h].next
    [] hooks[h].next = NoMarker /\ Keeps(h) -> marker
    [] OTHER -> NoMarker
Displayed(h) == shown \o [i \in 1..Len(hooks[h].jobs) |->
                            [job |-> hooks[h].jobs[i], turn |-> turn, context |-> context]]
ToolEnds(h) ==
  /\ hooks[h].at = "answered" /\ h # Stop
  /\ marker' = Moved(h) /\ shown' = Displayed(h)
  /\ hooks' = [hooks EXCEPT ![h] = DoneHook]
  /\ UNCHANGED <<turn, context, phase, opened, recall, opening, seqs, nudge, faults>>

\* The tools of one answer of the model are done, and it calls others.
NextTools ==
  /\ NoneRuns /\ ~HooksIdle
  /\ hooks' = [h \in Hooks |-> IdleHook]
  /\ UNCHANGED <<turn, context, phase, opened, recall, opening, seqs, marker,
                 nudge, shown, faults>>

------------------------
(* The stop: the event first, whose answer may be a nudge, then a claim that *)
(* waits for the prompt's recall. *)
Nudging == nudge.state \in {"asked", "reasked"}
Since == turn - nudge.prompts
Due == /\ nudge.fired < MaxNudges
       /\ IF nudge.fired = 0 THEN Since >= FirstAfter
          ELSE Since >= Every \/ (nudge.compacted /\ Since > 0)
Nudged(answered) ==
  CASE Nudging /\ (nudge.saved \/ answered) ->
         [nudge EXCEPT !.state = "none", !.saved = FALSE]
    [] Nudging /\ ~(nudge.saved \/ answered) ->
         [nudge EXCEPT !.state = IF @ = "asked" THEN "reasked" ELSE "none"]
    [] ~Nudging /\ Due ->
         [nudge EXCEPT !.prompts = turn, !.compacted = FALSE, !.saved = FALSE,
                       !.state = IF nudge.saved THEN "none" ELSE "asked",
                       !.fired = IF nudge.saved THEN @ ELSE @ + 1]
    [] ~Nudging /\ ~Due -> nudge

\* The agent says that nothing is worth keeping, or says nothing of it.
StopEvent(reach, answered) ==
  /\ phase = "turn" /\ NoneRuns /\ Counted(reach)
  /\ nudge' = IF Handled(reach) THEN Nudged(answered) ELSE nudge
  /\ LET asks == reach = "answered" /\ nudge'.state \in {"asked", "reasked"}
     IN hooks' = [[h \in Hooks |-> IdleHook] EXCEPT ![Stop] =
          [IdleHook EXCEPT !.nudged = asks, !.seq = marker,
                           !.at = IF marker = NoMarker THEN "answered" ELSE "read"]]
  /\ UNCHANGED <<turn, context, phase, opened, recall, opening, seqs, marker, shown>>

\* The answer of a stop that claimed nothing clears no marker; there is none.
StopEnds ==
  /\ hooks[Stop].at = "answered"
  /\ marker' = Moved(Stop) /\ shown' = Displayed(Stop)
  /\ phase' = IF hooks[Stop].nudged \/ hooks[Stop].jobs # << >> THEN "turn" ELSE "idle"
  /\ hooks' = [hooks EXCEPT ![Stop] = IdleHook]
  /\ UNCHANGED <<turn, context, opened, recall, opening, seqs, nudge, faults>>

\* A write the agent's memory tools accepted, credited to the session.
Save ==
  /\ phase = "turn" /\ NoneRuns /\ ~nudge.saved
  /\ nudge' = [nudge EXCEPT !.saved = TRUE]
  /\ UNCHANGED <<turn, context, phase, opened, recall, opening, seqs, marker,
                 hooks, shown, faults>>

------------------------
(* The ends of a turn and of a context. *)
Interrupt ==
  /\ phase = "turn" /\ phase' = "idle"
  /\ hooks' = [h \in Hooks |-> IdleHook]
  /\ UNCHANGED <<turn, context, opened, recall, opening, seqs, marker, nudge,
                 shown, faults>>

\* Before a compaction both recalls are dropped and the marker cleared.
Compact(reach) ==
  /\ phase \in {"idle", "turn"} /\ HooksIdle /\ context < MaxOpenings
  /\ Counted(reach)
  /\ phase' = "compacted" /\ context' = context + 1 /\ marker' = NoMarker
  /\ IF Handled(reach)
       THEN /\ recall' = NoJob /\ opening' = NoJob
            /\ nudge' = [nudge EXCEPT !.compacted = TRUE]
       ELSE UNCHANGED <<recall, opening, nudge>>
  /\ UNCHANGED <<turn, opened, seqs, hooks, shown>>

\* The end of the session; its numbers start again at one.
Close(reach) ==
  /\ phase \in {"idle", "turn"} /\ HooksIdle /\ Counted(reach)
  /\ phase' = "closed" /\ marker' = NoMarker
  /\ IF Handled(reach) THEN recall' = NoJob /\ opening' = NoJob /\ seqs' = 0
     ELSE UNCHANGED <<recall, opening, seqs>>
  /\ UNCHANGED <<turn, context, opened, hooks, nudge, shown>>

\* The harness dies: no hook runs, the marker and the plane's jobs stay.
Kill ==
  /\ phase \in {"idle", "turn"} /\ faults < MaxFaults /\ faults' = faults + 1
  /\ phase' = "closed" /\ hooks' = [h \in Hooks |-> IdleHook]
  /\ UNCHANGED <<turn, context, opened, recall, opening, seqs, marker, nudge, shown>>

\* The daemon restarts: jobs and numbers are gone, the registry stays.
Restart ==
  /\ faults < MaxFaults /\ faults' = faults + 1
  /\ recall' = NoJob /\ opening' = NoJob /\ seqs' = 0
  /\ UNCHANGED <<turn, context, phase, opened, marker, hooks, nudge, shown>>

\* A hook finds its marker too old.
Expires ==
  /\ marker # NoMarker /\ faults < MaxFaults /\ faults' = faults + 1
  /\ marker' = NoMarker
  /\ UNCHANGED <<turn, context, phase, opened, recall, opening, seqs, hooks, nudge, shown>>

HookStep == \E h \in Hooks : (\E reach \in Reaches : Claim(h, reach)) \/ ToolEnds(h)
StopStep == (\E reach \in Reaches, answered \in BOOLEAN : StopEvent(reach, answered)) \/ StopEnds

RecallNext ==
  \/ \E reach \in Reaches, started \in BOOLEAN : Start(reach, started)
  \/ \E reach \in Reaches, started, found \in BOOLEAN : Prompt(reach, started, found)
  \/ \E state \in {"found", "empty"} : Finish(state)
  \/ \E h \in Tools : ToolReads(h)
  \/ NextTools
  \/ HookStep \/ StopStep \/ Save \/ Interrupt
  \/ \E reach \in Reaches : Compact(reach) \/ Close(reach)
  \/ Kill \/ Restart \/ Expires

\* The hooks of a turn end (their requests have timeouts), and an agent that
\* could stop again and again between its tool calls does stop (external); the
\* user and the selector owe nothing.
RecallFairness == WF_recallVars(HookStep) /\ SF_recallVars(StopStep)
RecallSpec == RecallInit /\ [][RecallNext]_recallVars /\ RecallFairness

------------------------
RecallTypeOK ==
  /\ turn \in 0..MaxTurns /\ context \in 0..MaxOpenings /\ phase \in Phases
  /\ opened \in BOOLEAN /\ seqs \in 0..MaxTurns /\ marker \in NoMarker..MaxTurns
  /\ \A job \in {recall, opening} : job.state \in {"none", "running", "found", "empty", "delivered"}
  /\ nudge.fired \in 0..MaxNudges
  /\ faults \in 0..MaxFaults

\* Memories selected for a prompt are shown to the model at most once, and
\* only in the turn and the context that asked for them: never after a newer
\* prompt, a compaction, or in another life of the session, whatever answers
\* were lost, whichever hooks of parallel tools claimed them and although the
\* numbers of the recalls start again at one.  Those of an open are shown at
\* most once too.
ShownWhereAsked ==
  /\ \A i, j \in DOMAIN shown : shown[i].job = shown[j].job => i = j
  /\ \A i \in DOMAIN shown :
       shown[i].job.seq # OpenSeq =>
         /\ shown[i].turn = shown[i].job.turn
         /\ shown[i].context = shown[i].job.context

\* An agent that stops is let stop: the late recall and the nudges block it a
\* bounded number of times in one turn.
LetStop == phase # "turn"
TurnsEnd == []<>LetStop
========================
