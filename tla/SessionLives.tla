------------ MODULE SessionLives ------------
(***************************************************************************)
(* One external harness session in the daemon's session plane              *)
(* (miragen/daemon/sessions/plane.py, registry.py, models.py): its events, *)
(* the registry entry and the event journal that survive the daemon, the   *)
(* background captures and finalizations queued behind the session's lock, *)
(* its run in the artifact store, its episode in memory, the sweeper, and  *)
(* a killed daemon that replays its journal.                               *)
(*                                                                         *)
(* An action is the code between two awaits. A handler registers the event *)
(* in the session at once, awaits the project resolution, then queues for  *)
(* the lock; asyncio.Lock is fair, so the queue is first in, first out.    *)
(* Sessions share nothing but registry.save(), which writes all of them:   *)
(* SaveByOther. What an event says is reduced to its kind: it opens a      *)
(* context, it is work (a prompt, a turn, a failed tool), or it closes.    *)
(* Left out: compaction, recall, the save nudge and project bindings.      *)
(***************************************************************************)
EXTENDS Naturals, FiniteSets, SequencesExt

CONSTANTS
  MaxEvents,    \* bound: events the harness sends
  MaxInFlight,  \* bound: events sent and not yet dispatched
  MaxRuns,      \* bound: runs opened in the store
  MaxLifeFaults, \* bound: refused or unanswered calls to memory and store
  MaxRestarts,  \* bound: killed daemons
  NoSession     \* the registry does not know the session

ASSUME LivesBoundsAssumption ==
  {MaxEvents, MaxInFlight, MaxRuns, MaxLifeFaults, MaxRestarts} \subseteq Nat

Kinds == {"open", "work", "close"}
RunNos == 1 .. MaxRuns
NoRun == 0
(* Every event may start a life when it arrives and when it is replayed. *)
Lives == 0 .. MaxEvents * (1 + MaxRestarts)

(* ExternalSession: `run` is run_id, `running` says run_status is "running",*)
(* `busy` is ~is_empty(), `stored` says artifacts_written has run:end.     *)
Sessions == [state : {"active", "stale", "ended"}, lives : Lives,
             run : RunNos \cup {NoRun}, running : BOOLEAN, busy : BOOLEAN,
             stored : BOOLEAN]

ASSUME NoSessionAssumption == NoSession \notin Sessions

(* An event and the life of the harness session it is from. Number 0 is    *)
(* the sweeper's end of a life.                                            *)
Events == [no : 0 .. MaxEvents, kind : Kinds, life : Lives]
Event(n, k, l) == [no |-> n, kind |-> k, life |-> l]

(* What waits for the session's lock: an event's dispatch, its background  *)
(* capture, or the finalization that it or the sweeper asked for.          *)
LockJobs == [kind : {"event", "capture", "final"}, of : Events]
Job(k, e) == [kind |-> k, of |-> e]

(* What a finalization has read before it waits: `key` is the number in    *)
(* its idempotency key, `run` the run its artifact goes to.                *)
Finals == [key : Lives, run : RunNos \cup {NoRun}, captured : BOOLEAN]
NoFinal == [key |-> 0, run |-> NoRun, captured |-> FALSE]

LockSteps == {"idle", "answering", "ensuring", "filing", "reopening", "storing",
          "closing", "finishing"}

VARIABLES
  sess,       \* the registry's entry
  saved,      \* its copy in sessions.json
  journal,    \* the session's journal file: a sequence of events
  attaching,  \* events whose handler resolves the project
  queue,      \* jobs waiting for the lock; the first one holds it if step # "idle"
  step,       \* where the holder of the lock is
  fin,        \* the running finalization
  booting,    \* start() has not returned
  replay,     \* events replay_journal has not come to yet
  runs,       \* the artifact store's runs
  artifacts,  \* run -> `end` artifacts put in it
  filed,      \* memory: episode:<key>:end[:life<n>] -> the life that filed it
  sent,       \* history: events the harness has sent
  life,       \* history: lives of the harness session so far
  over,       \* history: that life is over
  noted,      \* history: journaled events of that life
  overlapped, \* history: a life began before the last one was finalized for good
  orphans,    \* history: runs that a lost answer, a kill or an event of a session
              \*   already given up has left to nobody
  lifeFaults, \* history: failed calls so far
  restarts    \* history: killed daemons so far

regVars == <<sess, saved>>
lockVars == <<attaching, queue, step, fin>>
bootVars == <<booting, replay, restarts>>
storeVars == <<runs, artifacts, filed>>
harnessVars == <<sent, life, over, noted, overlapped>>
livesVars == <<regVars, journal, lockVars, bootVars, storeVars, harnessVars, orphans,
          lifeFaults>>

LivesTypeOK ==
  /\ {sess, saved} \subseteq Sessions \cup {NoSession}
  /\ journal \in Seq(Events) /\ replay \in Seq(Events)
  /\ attaching \subseteq Events
  /\ queue \in Seq(LockJobs)
  /\ step \in LockSteps /\ (step # "idle" => queue # <<>>) /\ fin \in Finals
  /\ {booting, over, overlapped} \subseteq BOOLEAN
  /\ runs \in [RunNos -> {"none", "open", "closed"}]
  /\ artifacts \in [RunNos -> Nat]
  /\ filed \in [Lives -> Lives]
  /\ sent \in 0 .. MaxEvents /\ life \in Lives /\ noted \subseteq Events
  /\ orphans \subseteq RunNos
  /\ lifeFaults \in 0 .. MaxLifeFaults /\ restarts \in 0 .. MaxRestarts

LivesInit ==
  /\ sess = NoSession /\ saved = NoSession
  /\ journal = <<>>
  /\ attaching = {} /\ queue = <<>> /\ step = "idle" /\ fin = NoFinal
  /\ booting = FALSE /\ replay = <<>> /\ restarts = 0
  /\ runs = [r \in RunNos |-> "none"]
  /\ artifacts = [r \in RunNos |-> 0]
  /\ filed = [n \in Lives |-> 0]
  /\ sent = 0 /\ life = 0 /\ over = TRUE /\ noted = {} /\ overlapped = FALSE
  /\ orphans = {} /\ lifeFaults = 0

------------------------
(* The registry. *)

NewSession == [state |-> "active", lives |-> 0, run |-> NoRun, running |-> FALSE,
               busy |-> FALSE, stored |-> FALSE]

(* Mutant of NewLife: a resumed session forgets its run in any case. *)
M_NewLifeForgets(s) ==
  [s EXCEPT !.state = "active", !.lives = @ + 1, !.run = NoRun, !.running = FALSE,
            !.stored = FALSE]

(* new_life(): only a run that is no longer running is left behind. *)
NewLife(s) ==
  LET t == [s EXCEPT !.state = "active", !.lives = @ + 1]
  IN  IF s.run # NoRun /\ ~s.running
      THEN [t EXCEPT !.run = NoRun, !.stored = FALSE] ELSE t

(* registry.upsert(): any event makes the session known, and any but       *)
(* context.closed makes a stale or ended one active again.                 *)
Upserted(k) ==
  IF sess = NoSession THEN NewSession
  ELSE IF sess.state # "active" /\ k # "close" THEN NewLife(sess) ELSE sess

EndedNow(s) == [s EXCEPT !.state = "ended"]

------------------------
(* Events. *)

Waiting(k) == {j.of : j \in {i \in ToSet(queue) : i.kind = k}}

(* Nothing of the last life is left to finalize: no end of it is in        *)
(* flight, queued, or still in the journal.                                *)
LastLifeIsSettled ==
  /\ Waiting("final") = {}
  /\ \A e \in attaching \cup Waiting("event") \cup ToSet(journal) : e.kind # "close"

(* handle() up to its first await. *)
Arrive(k) ==
  /\ ~booting /\ sent < MaxEvents
  /\ Cardinality(attaching \cup Waiting("event")) < MaxInFlight
  /\ sent' = sent + 1
  /\ sess' = Upserted(k)
  /\ LET revived == over /\ k # "close"
     IN  /\ life' = IF revived THEN life + 1 ELSE life
         /\ attaching' = attaching \cup {Event(sent', k, life')}
         /\ over' = (k = "close" \/ (over /\ ~revived))
         /\ noted' = IF revived THEN {} ELSE noted
         /\ overlapped' = (overlapped \/ (revived /\ ~LastLifeIsSettled))
  /\ UNCHANGED <<saved, journal, queue, step, fin, bootVars, storeVars, orphans, lifeFaults>>

(* The project is resolved: _dispatch asks for the lock. *)
Enter(e) ==
  /\ attaching' = attaching \ {e}
  /\ queue' = Append(queue, Job("event", e))
  /\ UNCHANGED <<regVars, journal, step, fin, bootVars, storeVars, harnessVars, orphans,
                 lifeFaults>>

Holder == Head(queue)

(* The lock is free and next for a job of kind j of an event of kind k. *)
Starts(j, k) ==
  /\ step = "idle" /\ queue # <<>>
  /\ Holder.kind = j /\ Holder.of.kind = k

(* The holder of the lock is done. *)
Done ==
  /\ queue' = Tail(queue)
  /\ step' = "idle"
  /\ fin' = NoFinal

(* _open_context: the handler awaits the store's run, if there is none. *)
OpenContext ==
  /\ UNCHANGED journal
  /\ IF sess.run = NoRun THEN step' = "ensuring" /\ UNCHANGED <<queue, fin, saved>>
     ELSE Done /\ saved' = sess

DispatchOpen ==
  /\ Starts("event", "open")
  /\ OpenContext
  /\ UNCHANGED <<sess, attaching, bootVars, storeVars, harnessVars, orphans, lifeFaults>>

Journal(e) ==
  /\ journal' = Append(journal, e)
  /\ noted' = IF e.life = life THEN noted \cup {e} ELSE noted

(* Work is noted, journaled and its capture spawned. The handler goes on   *)
(* with the lock held: it awaits recall, and the first prompt of a session *)
(* whose start was not answered opens the context.                         *)
DispatchWork ==
  /\ Starts("event", "work")
  /\ sess' = [sess EXCEPT !.busy = TRUE]
  /\ Journal(Holder.of)
  /\ queue' = Append(queue, Job("capture", Holder.of))
  /\ step' \in {"answering"} \cup (IF sess.run = NoRun THEN {"ensuring"} ELSE {})
  /\ UNCHANGED <<saved, attaching, fin, bootVars, storeVars, sent, life, over, overlapped,
                 orphans, lifeFaults>>

AnswerWork ==
  /\ step = "answering"
  /\ Done
  /\ saved' = sess
  /\ UNCHANGED <<sess, journal, attaching, bootVars, storeVars, harnessVars, orphans,
                 lifeFaults>>

(* context.closed: ended, journaled, its finalization spawned, the         *)
(* registry saved.                                                         *)
DispatchClose ==
  /\ Starts("event", "close")
  /\ sess' = EndedNow(sess) /\ saved' = sess'
  /\ Journal(Holder.of)
  /\ queue' = Append(Tail(queue), Job("final", Holder.of))
  /\ UNCHANGED <<attaching, step, fin, bootVars, storeVars, sent, life, over, overlapped,
                 orphans, lifeFaults>>

(* Another session's handler saved the registry. *)
SaveByOther ==
  /\ ~booting /\ saved # sess
  /\ saved' = sess
  /\ UNCHANGED <<sess, journal, lockVars, bootVars, storeVars, harnessVars, orphans,
                 lifeFaults>>

------------------------
(* Jobs. A call to the store or to memory is answered, refused, or done    *)
(* and never answered (its timeout passes).                                *)

Answers == {"ok", "refused", "unanswered"}

Call(a) ==
  IF a = "ok" THEN UNCHANGED lifeFaults
  ELSE lifeFaults < MaxLifeFaults /\ lifeFaults' = lifeFaults + 1

(* A finalization reads the life its episode is filed for, and files       *)
(* nothing for a session in which nothing happened.                        *)
Filing ==
  /\ step' = IF sess.busy THEN "filing" ELSE "closing"
  /\ fin' = [NoFinal EXCEPT !.key = sess.lives]

(* A capture needs the store's run, and so does the capture of the closing *)
(* event before its finalization. What memory answers to it is counted.    *)
StartJob ==
  /\ step = "idle" /\ queue # <<>> /\ Holder.kind # "event"
  /\ IF Holder.of.no # 0 /\ sess.run = NoRun
     THEN step' = "ensuring" /\ UNCHANGED <<queue, fin>>
     ELSE IF Holder.kind = "final" THEN Filing /\ UNCHANGED queue
     ELSE Done
  /\ UNCHANGED <<regVars, journal, attaching, bootVars, storeVars, harnessVars, orphans,
                 lifeFaults>>

(* store.open_run, once per life. *)
OpenRun(a) ==
  /\ Call(a)
  /\ IF a = "refused" THEN UNCHANGED <<sess, runs, orphans>>
     ELSE \E r \in RunNos :
       /\ runs[r] = "none" /\ \A q \in 1 .. r - 1 : runs[q] # "none"
       /\ runs' = [runs EXCEPT ![r] = "open"]
       /\ sess' = IF a = "ok" THEN [sess EXCEPT !.run = r, !.running = TRUE] ELSE sess
       /\ orphans' =
            IF a = "ok" /\ (sess.state = "active" \/ Holder.kind = "final")
            THEN orphans ELSE orphans \cup {r}

(* _ensure_run for the holder of the lock. *)
EnsureRun(a) ==
  /\ step = "ensuring"
  /\ OpenRun(a)
  /\ CASE Holder.kind = "final"   -> Filing /\ UNCHANGED <<queue, saved>>
       [] Holder.kind = "capture" -> Done /\ UNCHANGED saved
       [] Holder.kind = "event"   -> Done /\ saved' = sess'
  /\ UNCHANGED <<journal, attaching, bootVars, artifacts, filed, harnessVars>>

(* capture_episode: the first digest filed under a key wins, and a later   *)
(* one counts as captured.                                                 *)
File(a) ==
  /\ step = "filing"
  /\ Call(a)
  /\ filed' = IF a = "refused" \/ filed[fin.key] # 0 THEN filed
              ELSE [filed EXCEPT ![fin.key] = Holder.of.life]
  /\ step' = IF sess.run = NoRun THEN "reopening"
             ELSE IF sess.stored THEN "closing" ELSE "storing"
  /\ fin' = [fin EXCEPT !.captured = (a = "ok"), !.run = sess.run]
  /\ UNCHANGED <<regVars, journal, attaching, queue, bootVars, runs, artifacts,
                 harnessVars, orphans>>

(* _store_episode: the run if there is none yet, then one artifact per run *)
(* and occurrence.                                                         *)
Reopen(a) ==
  /\ step = "reopening"
  /\ OpenRun(a)
  /\ step' = IF a = "ok" THEN "storing" ELSE "closing"
  /\ fin' = [fin EXCEPT !.run = sess'.run]
  /\ UNCHANGED <<saved, journal, attaching, queue, bootVars, artifacts, filed,
                 harnessVars>>

MarkedStored ==
  IF sess.run = fin.run THEN [sess EXCEPT !.stored = TRUE] ELSE sess

StoreEpisode(a) ==
  /\ step = "storing"
  /\ Call(a)
  /\ artifacts' = IF a = "refused" THEN artifacts
                  ELSE [artifacts EXCEPT ![fin.run] = @ + 1]
  /\ sess' = IF a = "ok" THEN MarkedStored ELSE sess
  /\ orphans' = IF a = "unanswered" THEN orphans \cup {fin.run} ELSE orphans
  /\ step' = "closing"
  /\ UNCHANGED <<saved, journal, attaching, queue, fin, bootVars, runs, filed,
                 harnessVars>>

(* The end of a finalization. A closing event's saves the registry, the    *)
(* sweeper's and the replay's do not.                                      *)
Finalized(clears) ==
  /\ Done
  /\ journal' = IF clears THEN <<>> ELSE journal
  /\ saved' = IF Holder.of.no # 0 /\ ~booting THEN sess' ELSE saved

(* _close_run: whatever happened to the artifact, the run must not stay    *)
(* open.                                                                   *)
Closes == sess.run # NoRun /\ sess.running

CloseRun(a) ==
  /\ step = "closing"
  /\ IF Closes
     THEN /\ Call(a)
          /\ runs' = IF a = "refused" THEN runs ELSE [runs EXCEPT ![sess.run] = "closed"]
          /\ sess' = IF a = "ok" THEN [sess EXCEPT !.running = FALSE] ELSE sess
          /\ orphans' = IF a = "ok" THEN orphans ELSE orphans \cup {sess.run}
     ELSE a = "ok" /\ UNCHANGED <<sess, runs, orphans, lifeFaults>>
  /\ IF sess.busy
     THEN step' = "finishing" /\ UNCHANGED <<queue, fin, journal, saved>>
     ELSE Finalized(TRUE)
  /\ UNCHANGED <<attaching, bootVars, artifacts, filed, harnessVars>>

(* The checkpoint was written, or not; the journal goes if the episode was *)
(* captured.                                                               *)
FinishLife ==
  /\ step = "finishing"
  /\ UNCHANGED sess
  /\ Finalized(fin.captured)
  /\ UNCHANGED <<attaching, bootVars, storeVars, harnessVars, orphans, lifeFaults>>

------------------------
(* The sweeper: a session that is silent, or whose process is gone, goes   *)
(* stale and is finalized; one that has been over for the retention time   *)
(* is forgotten, its journal with it.                                      *)
Sweep ==
  /\ ~booting
  /\ sess # NoSession /\ sess.state = "active"
  /\ sess' = [sess EXCEPT !.state = "stale"] /\ saved' = sess'
  /\ queue' = Append(queue, Job("final", Event(0, "close", life)))
  /\ over' = TRUE
  /\ UNCHANGED <<journal, attaching, step, fin, bootVars, storeVars, sent, life, noted,
                 overlapped, orphans, lifeFaults>>

Prune ==
  /\ ~booting /\ attaching = {} /\ queue = <<>>
  /\ sess # NoSession /\ sess.state # "active"
  /\ sess' = NoSession /\ saved' = NoSession
  /\ journal' = <<>>
  /\ UNCHANGED <<lockVars, bootVars, storeVars, harnessVars, orphans, lifeFaults>>

------------------------
(* A killed daemon. Only the registry's file and the journal survive. What *)
(* the file does not say of a run is lost track of, and so is the run of a *)
(* finalization that no journaled event asks for again: the sweeper's, and *)
(* that of a closing event whose journal the sweeper's has cleared.        *)
RunOf(s) == IF s = NoSession THEN <<NoRun, FALSE, FALSE>>
            ELSE <<s.run, s.running, s.stored>>

Cut == IF RunOf(sess) # RunOf(saved) THEN {RunOf(sess)[1], RunOf(saved)[1]}
       ELSE IF Waiting("final") \ ToSet(journal) # {} THEN {RunOf(sess)[1]}
       ELSE {}

Crash ==
  /\ restarts < MaxRestarts
  /\ restarts' = restarts + 1
  /\ sess' = saved /\ UNCHANGED saved
  /\ attaching' = {} /\ queue' = <<>> /\ step' = "idle" /\ fin' = NoFinal
  /\ booting' = TRUE /\ replay' = journal
  /\ orphans' = orphans \cup (Cut \ {NoRun})
  /\ UNCHANGED <<journal, storeVars, harnessVars, lifeFaults>>

(* A journaled event is captured again; a closing one is finalized too. *)
ReplayJob(e) == Job(IF e.kind = "close" THEN "final" ELSE "capture", e)

(* replay_journal takes one event at a time, before any request is served. *)
ReplayNext ==
  /\ booting /\ replay # <<>> /\ queue = <<>>
  /\ LET e == Head(replay)
     IN  /\ sess' = IF e.kind = "close" THEN EndedNow(Upserted(e.kind)) ELSE Upserted(e.kind)
         /\ queue' = <<ReplayJob(e)>>
  /\ replay' = Tail(replay)
  /\ UNCHANGED <<saved, journal, attaching, step, fin, booting, restarts, storeVars,
                 harnessVars, orphans, lifeFaults>>

EndReplay ==
  /\ booting /\ replay = <<>> /\ queue = <<>>
  /\ booting' = FALSE
  /\ saved' = sess
  /\ UNCHANGED <<sess, journal, lockVars, replay, restarts, storeVars, harnessVars,
                 orphans, lifeFaults>>

------------------------
(* What the event loop runs on its own. *)
Work ==
  \/ \E e \in attaching : Enter(e)
  \/ DispatchOpen
  \/ DispatchWork
  \/ AnswerWork
  \/ DispatchClose
  \/ StartJob
  \/ \E a \in Answers : EnsureRun(a)
  \/ \E a \in Answers : File(a)
  \/ \E a \in Answers : Reopen(a)
  \/ \E a \in Answers : StoreEpisode(a)
  \/ \E a \in Answers : CloseRun(a)
  \/ FinishLife
  \/ ReplayNext
  \/ EndReplay

LivesNext ==
  \/ \E k \in Kinds : Arrive(k)
  \/ Work
  \/ SaveByOther
  \/ Sweep
  \/ Prune
  \/ Crash

(* The event loop runs every ready task, and every call to the store or to *)
(* memory is bounded by WRITE_TIMEOUT_S.                                   *)
LivesSpec == LivesInit /\ [][LivesNext]_livesVars /\ WF_livesVars(Work)

------------------------
(* Safety. *)

(* No run is left open in the store behind the session's back: through     *)
(* resumes, replays and pruning, an open run is the one the session will   *)
(* close, or one that a lost answer, a kill or a late event cut off.       *)
OpenRunsAreTracked ==
  \A r \in RunNos : runs[r] = "open" =>
    \/ sess # NoSession /\ sess.run = r /\ sess.running
    \/ r \in orphans

(* The store has no idempotency keys; artifacts_written is the session     *)
(* plane's: the sweeper, a late close and a replay put the digest of a run *)
(* once.                                                                   *)
OneArtifactPerRun == \A r \in RunNos : artifacts[r] <= 1 \/ r \in orphans

(* When a session is over and nothing is left to do, its run is closed,    *)
(* also when nothing happened in it or its episode was refused.            *)
EndedRunsClose ==
  (attaching = {} /\ queue = <<>> /\ ~booting /\ sess # NoSession /\ sess.state # "active")
    => \/ sess.run = NoRun
       \/ runs[sess.run] = "closed"
       \/ sess.run \in orphans

(* The journal holds every event of a life that goes on: clearing it after *)
(* one life takes nothing of the next, as long as that next life did not   *)
(* begin before the last one was finalized for good.                       *)
JournalKeepsOpenLife ==
  (~overlapped /\ sess # NoSession /\ sess.state = "active" /\ ~over)
    => noted \subseteq ToSet(journal)

(* Within one boot, and unless the next life began before the last was     *)
(* finalized, the episode of a life's end is filed under one key only,     *)
(* whatever was late or lost.                                              *)
LivesAreFiled ==
  restarts = 0 /\ ~overlapped =>
    \A n, m \in Lives : filed[n] = filed[m] /\ filed[n] # 0 => n = m

(* A session's lives are accounted for in the store, in the memory and in  *)
(* the journal, whichever of sweeper, late close, resume, kill and replay  *)
(* come in which order: the five above.                                    *)
LivesAreAccounted ==
  /\ OpenRunsAreTracked /\ OneArtifactPerRun /\ EndedRunsClose
  /\ JournalKeepsOpenLife /\ LivesAreFiled

(* Liveness: a closing event in the journal is finalized, after a kill by  *)
(* the replay, unless a call failed.                                       *)
ClosingPending == \E e \in ToSet(journal) : e.kind = "close"
ClosingSettled == ~ClosingPending \/ lifeFaults > 0
ClosedIsFinalized == ClosingPending ~> ClosingSettled

========================
