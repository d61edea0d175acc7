------------ MODULE ManagedSchedules ------------
(***************************************************************************)
(* Managed schedule bindings (miragen/schedules.py, the /schedules API and *)
(* the scheduler glue of miragen/app.py, the agent's own scheduling tools  *)
(* of miragen/runtime_tools/scheduling.py).                                *)
(*                                                                         *)
(* A binding is a file; the scheduler's job for it lives in memory. Every  *)
(* route and tool changes file and job in one segment of the event loop.   *)
(* A fire takes several: the scheduler submits its coroutine, the          *)
(* coroutine reads the binding and starts a run or skips, and when that    *)
(* returns it removes a binding that fires once.                           *)
(*                                                                         *)
(* A PUT the scheduler rejects restores the file in the same segment and   *)
(* so changes nothing. Left out: what a binding's prompt, instance and     *)
(* provenance say, and the run a fire starts (module RunLifecycle).        *)
(***************************************************************************)
EXTENDS Naturals, FiniteSets

CONSTANTS
  Names,        \* binding names
  Clients,      \* control-plane reconcilers
  NoBinding,    \* no file of that name
  MaxWrites,    \* bound: bindings written, over all names
  MaxRestarts   \* bound: restarts of the process

ASSUME BoundsAssumption == MaxWrites \in Nat /\ MaxRestarts \in Nat

(* A binding: fires once (`at`) or recurs, has a job here (enabled and not *)
(* externally fired), belongs to the agent or to an operator. `write` is   *)
(* no field of the file: it tells one accepted write from another.         *)
Writes == 1 .. MaxWrites
Bindings == [oneShot : BOOLEAN, firesHere : BOOLEAN, owner : {"agent", "operator"},
             version : Writes, write : Writes]

ASSUME NoBindingAssumption == NoBinding \notin Bindings

VARIABLES
  mode,       \* the profile's mode, of this boot
  store,      \* ScheduleStore's files
  job,        \* the scheduler's job managed:<name>
  fire,       \* where the name's fire coroutine is
  firing,     \* the binding that coroutine read
  seen,       \* client, name -> the binding it last read
  written,    \* history: writes so far
  restarts,   \* history: restarts so far
  launched,   \* history: one-shot write -> runs its fires started
  recreated   \* history: client, name -> the name was removed since it read

vars == <<mode, store, job, fire, firing, seen, written, restarts, launched,
          recreated>>

Modes == {"interactive", "hybrid"}
Jobs == {"none", "date", "interval"}
FireStates == {"idle", "submitted", "skipping", "running"}

TypeOK ==
  /\ mode \in Modes
  /\ store \in [Names -> Bindings \cup {NoBinding}]
  /\ job \in [Names -> Jobs]
  /\ fire \in [Names -> FireStates]
  /\ firing \in [Names -> Bindings \cup {NoBinding}]
  /\ seen \in [Clients \X Names -> Bindings \cup {NoBinding}]
  /\ written \in 0 .. MaxWrites
  /\ restarts \in 0 .. MaxRestarts
  /\ launched \in [Writes -> Nat]
  /\ recreated \in [Clients \X Names -> BOOLEAN]

Init ==
  /\ mode \in Modes
  /\ store = [n \in Names |-> NoBinding]
  /\ job = [n \in Names |-> "none"]
  /\ fire = [n \in Names |-> "idle"]
  /\ firing = [n \in Names |-> NoBinding]
  /\ seen = [cn \in Clients \X Names |-> NoBinding]
  /\ written = 0
  /\ restarts = 0
  /\ launched = [w \in Writes |-> 0]
  /\ recreated = [cn \in Clients \X Names |-> FALSE]

------------------------
Exists(n) == store[n] # NoBinding

JobKind(b) == IF b.oneShot THEN "date" ELSE "interval"

(* _reconcile_managed_job and _drop_managed_job. *)
Reconciled(n, b) == IF b # NoBinding /\ b.firesHere THEN JobKind(b) ELSE "none"

(* File first, then the job. *)
Save(n, b) ==
  /\ store' = [store EXCEPT ![n] = b]
  /\ job' = [job EXCEPT ![n] = Reconciled(n, b)]
  /\ written' = written + 1
  /\ UNCHANGED recreated

Remove(n) ==
  /\ store' = [store EXCEPT ![n] = NoBinding]
  /\ job' = [job EXCEPT ![n] = "none"]
  /\ recreated' = [cn \in Clients \X Names |-> recreated[cn] \/ cn[2] = n]
  /\ UNCHANGED written

M_NextVersion(n) == IF Exists(n) THEN store[n].version + 1 ELSE 0  \* its mutant

(* The server assigns the version. *)
NextVersion(n) == IF Exists(n) THEN store[n].version + 1 ELSE 1

------------------------
(* The control plane. *)

Read(c, n) ==
  /\ seen' = [seen EXCEPT ![<<c, n>>] = store[n]]
  /\ recreated' = [recreated EXCEPT ![<<c, n>>] = FALSE]
  /\ UNCHANGED <<mode, store, job, fire, firing, written, restarts, launched>>

(* Mutant of VersionMatches: expected_version is only checked for presence.*)
M_AnyVersion(c, n) == Exists(n) /\ seen[<<c, n>>] # NoBinding

(* The compare-and-swap: expected_version, the version of the binding the  *)
(* client last read, is the stored one.                                    *)
VersionMatches(c, n) ==
  /\ Exists(n) /\ seen[<<c, n>>] # NoBinding
  /\ seen[<<c, n>>].version = store[n].version

(* PUT without expected_version creates, with it updates; an interactive   *)
(* agent refuses both.                                                     *)
Put(c, n, oneShot, firesHere) ==
  /\ mode # "interactive"
  /\ written < MaxWrites
  /\ IF seen[<<c, n>>] = NoBinding THEN ~Exists(n) ELSE VersionMatches(c, n)
  /\ Save(n, [oneShot |-> oneShot, firesHere |-> firesHere, owner |-> "operator",
              version |-> NextVersion(n),
              write |-> written + 1])
  /\ UNCHANGED <<mode, fire, firing, seen, restarts, launched>>

(* DELETE; its expected_version is optional, so any binding may go. *)
Delete(n) ==
  /\ Exists(n)
  /\ Remove(n)
  /\ UNCHANGED <<mode, fire, firing, seen, restarts, launched>>

------------------------
(* The agent's tools schedule_wakeup and cancel_schedule, absent from an   *)
(* interactive agent.                                                      *)

AgentCreate(n, oneShot) ==
  /\ mode # "interactive"
  /\ written < MaxWrites
  /\ ~Exists(n)
  /\ Save(n, [oneShot |-> oneShot, firesHere |-> TRUE, owner |-> "agent",
              version |-> NextVersion(n), write |-> written + 1])
  /\ UNCHANGED <<mode, fire, firing, seen, restarts, launched>>

AgentCancel(n) ==
  /\ mode # "interactive"
  /\ Exists(n) /\ store[n].owner = "agent"
  /\ Remove(n)
  /\ UNCHANGED <<mode, fire, firing, seen, restarts, launched>>

------------------------
(* Firing. *)

(* APScheduler: a due job's coroutine is submitted unless one of the same  *)
(* job id is still in flight (max_instances is 1), and a job with no       *)
(* further run time is removed either way.                                 *)
JobDue(n) ==
  /\ job[n] # "none"
  /\ fire[n] = "idle" \/ job[n] = "date"
  /\ fire' = [fire EXCEPT ![n] = IF @ = "idle" THEN "submitted" ELSE @]
  /\ job' = [job EXCEPT ![n] = IF @ = "date" THEN "none" ELSE @]
  /\ UNCHANGED <<mode, store, firing, seen, written, restarts, launched, recreated>>

Fired(n) ==
  /\ fire' = [fire EXCEPT ![n] = "idle"]
  /\ firing' = [firing EXCEPT ![n] = NoBinding]

(* _run_managed_schedule reads the binding fresh. *)
FiresNow(n) == fire[n] = "submitted" /\ Exists(n) /\ store[n].firesHere

FireStale(n) ==
  /\ fire[n] = "submitted"
  /\ ~FiresNow(n)
  /\ Fired(n)
  /\ UNCHANGED <<mode, store, job, seen, written, restarts, launched, recreated>>

(* run_agent_scheduled is admitted and starts a run ... *)
FireRun(n) ==
  /\ FiresNow(n)
  /\ fire' = [fire EXCEPT ![n] = "running"]
  /\ firing' = [firing EXCEPT ![n] = store[n]]
  /\ launched' = [launched EXCEPT ![store[n].write] = IF store[n].oneShot THEN @ + 1 ELSE @]
  /\ UNCHANGED <<mode, store, job, seen, written, restarts, recreated>>

(* ... or is over the daily budget or out of slots, and returns without.   *)
(* Notifying of an exceeded budget awaits.                                 *)
FireSkip(n) ==
  /\ FiresNow(n)
  /\ fire' = [fire EXCEPT ![n] = "skipping"]
  /\ firing' = [firing EXCEPT ![n] = store[n]]
  /\ UNCHANGED <<mode, store, job, seen, written, restarts, launched, recreated>>

(* Mutant of FiredOnce: the binding is not removed after its fire. *)
M_NeverFiredOnce(n) == FALSE

(* The coroutine removes the binding it fired if that fires once, by name. *)
FiredOnce(n) == firing[n].oneShot

FireEnd(n) ==
  /\ fire[n] \in {"running", "skipping"}
  /\ Fired(n)
  /\ IF FiredOnce(n)
     THEN Remove(n)
     ELSE UNCHANGED <<store, job, written, recreated>>
  /\ UNCHANGED <<mode, seen, restarts, launched>>

------------------------

(* _register_managed_schedules: an interactive agent registers nothing. *)
Registered(m, n) == IF m = "interactive" THEN "none" ELSE Reconciled(n, store[n])

(* The container stops and starts again, perhaps redeployed in the other   *)
(* mode: the files stay, jobs are registered from them.                    *)
Restart(m) ==
  /\ restarts < MaxRestarts
  /\ restarts' = restarts + 1
  /\ mode' = m
  /\ job' = [n \in Names |-> Registered(m, n)]
  /\ fire' = [n \in Names |-> "idle"]
  /\ firing' = [n \in Names |-> NoBinding]
  /\ UNCHANGED <<store, seen, written, launched, recreated>>

Next ==
  \/ \E c \in Clients, n \in Names : Read(c, n)
  \/ \E c \in Clients, n \in Names, oneShot, firesHere \in BOOLEAN :
       Put(c, n, oneShot, firesHere)
  \/ \E n \in Names : Delete(n)
  \/ \E n \in Names, oneShot \in BOOLEAN : AgentCreate(n, oneShot)
  \/ \E n \in Names : AgentCancel(n)
  \/ \E n \in Names : JobDue(n)
  \/ \E n \in Names : FireStale(n)
  \/ \E n \in Names : FireRun(n)
  \/ \E n \in Names : FireSkip(n)
  \/ \E n \in Names : FireEnd(n)
  \/ \E m \in Modes : Restart(m)

Spec == Init /\ [][Next]_vars

------------------------
(* Properties. *)

(* The scheduler holds no job its store does not claim: whatever order     *)
(* updates, hand-overs, deletions, fires and restarts come in, a job is    *)
(* that of the stored binding, which fires here.                           *)
JobsAreClaimed ==
  \A n \in Names : job[n] # "none" =>
    Exists(n) /\ store[n].firesHere /\ job[n] = JobKind(store[n])

(* An interactive agent never activates itself, whatever bindings an       *)
(* earlier deployment left in its volume.                                  *)
InteractiveIsQuiet ==
  mode = "interactive" => \A n \in Names : job[n] = "none" /\ fire[n] = "idle"

(* A binding that fires once starts one run and is gone when that run      *)
(* returns: one that is still there has only started runs that a restart   *)
(* cut off, and the one in flight.                                         *)
OneShotFiresOnce ==
  \A n \in Names : Exists(n) /\ store[n].oneShot =>
    launched[store[n].write] <= restarts + (IF fire[n] = "running" THEN 1 ELSE 0)

(* Whatever updates, hand-overs, deletions, fires and restarts cross, the  *)
(* scheduler fires what its store says and no more: the three above.       *)
FiresAreClaimed == JobsAreClaimed /\ InteractiveIsQuiet /\ OneShotFiresOnce

(* Reconcilers that race do not overwrite each other: an update replaces   *)
(* the very binding its caller read, as long as the name was not removed   *)
(* in between.                                                             *)
NoBlindUpdate ==
  [][\A c \in Clients, n \in Names, oneShot, firesHere \in BOOLEAN :
       Put(c, n, oneShot, firesHere)
         => seen[<<c, n>>] = store[n] \/ recreated[<<c, n>>]]_vars

========================
