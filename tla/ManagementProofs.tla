------------ MODULE ManagementProofs ------------
(***************************************************************************)
(* Proofs about what is managed for the agents (MCManagement), for every   *)
(* value of the constants, one part after the other: the schedules, what a *)
(* profile has to pass, the memory scopes, the directory of agents.        *)
(*                                                                         *)
(* Each part has an inductive invariant that its Next keeps; a behaviour   *)
(* of MCManagement is one of a part, the others staying where they start.  *)
(***************************************************************************)
EXTENDS MCManagement, FiniteSetTheorems, SequenceTheorems, TLAPS

------------------------
(* The schedules and their reconcilers (ManagedSchedules). IInv adds to    *)
(* the properties that no two files hold the same write, that versions and *)
(* writes only grow, and how often the fires of a stored one-shot can have *)
(* started a run.                                                          *)

(* What is stored was written, once. *)
StoredOnce ==
  /\ \A n \in Names : Exists(n) => store[n].write <= written /\ store[n].version <= written
  /\ \A n, m \in Names :
       n # m /\ Exists(n) /\ Exists(m) => store[n].write # store[m].write

(* A fire in flight read the binding that is still stored, or another. *)
FiringIsOld ==
  \A n \in Names :
    /\ fire[n] \in {"running", "skipping"} <=> firing[n] # NoBinding
    /\ firing[n] # NoBinding =>
         /\ firing[n].write <= written
         /\ Exists(n) /\ firing[n].write = store[n].write => firing[n] = store[n]

(* A stored one-shot has only started runs that a restart cut off, and the *)
(* one in flight that read it.                                             *)
LaunchesCounted ==
  /\ \A w \in Writes : w > written => launched[w] = 0
  /\ \A n \in Names : Exists(n) /\ store[n].oneShot =>
       launched[store[n].write] <=
         restarts + (IF fire[n] = "running" /\ firing[n].write = store[n].write
                     THEN 1 ELSE 0)

(* What a client read is stored still, or has an older version, unless the *)
(* name was removed since.                                                 *)
SeenIsOld ==
  \A c \in Clients, n \in Names :
    seen[<<c, n>>] # NoBinding /\ ~recreated[<<c, n>>] =>
      /\ Exists(n)
      /\ seen[<<c, n>>] = store[n] \/ seen[<<c, n>>].version < store[n].version

IInv ==
  /\ TypeOK
  /\ JobsAreClaimed
  /\ InteractiveIsQuiet
  /\ StoredOnce
  /\ FiringIsOld
  /\ LaunchesCounted
  /\ SeenIsOld

------------------------
(* Data. *)

(* A binding's fields. *)
LEMMA BindingFields ==
  \A b \in Bindings : /\ b.oneShot \in BOOLEAN /\ b.firesHere \in BOOLEAN
                      /\ b.version \in 1 .. MaxWrites /\ b.write \in 1 .. MaxWrites
                      /\ b # NoBinding /\ JobKind(b) \in Jobs \ {"none"}
BY NoBindingAssumption DEF Bindings, Writes, JobKind, Jobs

(* The job of a binding is a job. *)
LEMMA ReconciledType ==
  ASSUME NEW n \in Names, NEW b \in Bindings \cup {NoBinding}
  PROVE  Reconciled(n, b) \in Jobs BY BindingFields DEF Reconciled, Jobs

(* The write that an accepted PUT or schedule_wakeup makes. *)
Writing(n, b) ==
  /\ mode # "interactive" /\ written < MaxWrites
  /\ Save(n, b)
  /\ b \in Bindings
  /\ b.version = NextVersion(n) /\ b.write = written + 1
  /\ UNCHANGED <<mode, fire, firing, seen, restarts, launched>>

(* Every route that writes a binding is such a write. *)
LEMMA Writers ==
  ASSUME TypeOK, StoredOnce, NEW n \in Names, NEW oneShot \in BOOLEAN,
         NEW firesHere \in BOOLEAN,
         (\E c \in Clients : Put(c, n, oneShot, firesHere)) \/ AgentCreate(n, oneShot)
  PROVE  \E b : Writing(n, b)
<1>1. written \in Nat /\ MaxWrites \in Nat /\ written < MaxWrites
  <2>1. written < MaxWrites BY DEF Put, AgentCreate
  <2> QED BY <2>1, BoundsAssumption DEF TypeOK
<1>2. written + 1 \in Writes BY <1>1 DEF Writes
<1>3. NextVersion(n) \in Writes
  <2>1. CASE Exists(n)
    <3>1. store[n] \in Bindings BY <2>1 DEF TypeOK, Exists
    <3>2. store[n].version \in 1 .. MaxWrites /\ store[n].version <= written
      BY <2>1, <3>1, BindingFields DEF StoredOnce
    <3> QED BY <1>1, <2>1, <3>2 DEF NextVersion, Writes
  <2>2. CASE ~Exists(n) BY <1>1, <2>2 DEF NextVersion, Writes
  <2> QED BY <2>1, <2>2
<1>4. CASE AgentCreate(n, oneShot)
  <2> DEFINE b == [oneShot |-> oneShot, firesHere |-> TRUE, owner |-> "agent",
                   version |-> NextVersion(n), write |-> written + 1]
  <2>1. b \in Bindings BY <1>2, <1>3 DEF Bindings
  <2>2. Writing(n, b) BY <1>4, <2>1 DEF AgentCreate, Writing
  <2> QED BY <2>2
<1>5. ASSUME NEW c \in Clients, Put(c, n, oneShot, firesHere) PROVE \E b : Writing(n, b)
  <2> DEFINE b == [oneShot |-> oneShot, firesHere |-> firesHere, owner |-> "operator",
                   version |-> NextVersion(n), write |-> written + 1]
  <2>1. b \in Bindings BY <1>2, <1>3 DEF Bindings
  <2>2. Writing(n, b) BY <1>5, <2>1 DEF Put, Writing
  <2> QED BY <2>2
<1> QED BY <1>4, <1>5

(* The removal that a DELETE, a cancel_schedule or a fired one-shot makes. *)
Removing(n) == Remove(n) /\ UNCHANGED <<mode, seen, restarts, launched>>

------------------------
(* The steps. *)

(* A write preserves the invariant. *)
LEMMA WritingStep ==
  ASSUME IInv, NEW n \in Names, NEW b, Writing(n, b)
  PROVE  IInv'
<1> USE DEF IInv
<1>1. /\ b \in Bindings /\ store' = [store EXCEPT ![n] = b]
      /\ job' = [job EXCEPT ![n] = Reconciled(n, b)]
      /\ written' = written + 1 /\ written \in Nat /\ written < MaxWrites
      /\ b.version = NextVersion(n) /\ b.write = written + 1 /\ b # NoBinding
      /\ UNCHANGED <<mode, fire, firing, seen, restarts, launched, recreated>>
  BY NoBindingAssumption DEF Writing, Save, TypeOK
<1>2. store'[n] = b /\ \A m \in Names \ {n} : store'[m] = store[m] BY <1>1 DEF TypeOK
<1>3. TypeOK' BY <1>1, ReconciledType, BoundsAssumption DEF TypeOK
<1>4. JobsAreClaimed' BY <1>1, <1>2 DEF JobsAreClaimed, Reconciled, Exists, TypeOK
<1>5. InteractiveIsQuiet' BY <1>1 DEF InteractiveIsQuiet, Writing
<1>6. \A m \in Names : Exists(m) =>
        /\ store[m] \in Bindings /\ store[m].write \in Nat /\ store[m].version \in Nat
        /\ store[m].write <= written /\ store[m].version <= written BY BindingFields DEF TypeOK, StoredOnce, Exists
<1>7. b.version \in Nat /\ b.version <= written + 1
      /\ (Exists(n) => b.version = store[n].version + 1) BY <1>1, <1>6 DEF NextVersion
<1>8. StoredOnce' BY <1>1, <1>2, <1>6, <1>7 DEF StoredOnce, Exists
<1>9. FiringIsOld'
  <2>1. \A m \in Names : firing[m] # NoBinding => firing[m].write \in Nat BY BindingFields DEF TypeOK
  <2> QED BY <1>1, <1>2, <2>1 DEF FiringIsOld, Exists
<1>10. LaunchesCounted'
  <2>1. written + 1 \in Writes BY <1>1, BoundsAssumption DEF Writes
  <2>2. launched[written + 1] = 0 BY <1>1, <2>1 DEF LaunchesCounted
  <2>3. restarts \in Nat BY DEF TypeOK
  <2>4. \A w \in Writes : w > written' => launched'[w] = 0 BY <1>1 DEF LaunchesCounted, Writes
  <2>5. ASSUME NEW m \in Names, store'[m] # NoBinding, (store'[m]).oneShot
        PROVE  launched'[(store'[m]).write] <=
                 restarts' + (IF fire'[m] = "running" /\ (firing'[m]).write = (store'[m]).write
                              THEN 1 ELSE 0)
    <3>1. CASE m = n BY <1>1, <1>2, <2>2, <2>3, <3>1
    <3>2. CASE m # n BY <1>1, <1>2, <2>5, <3>2 DEF LaunchesCounted, Exists
    <3> QED BY <3>1, <3>2
  <2> QED BY <2>4, <2>5 DEF LaunchesCounted, Exists
<1>11. SeenIsOld'
  <2>1. ASSUME NEW c \in Clients, NEW m \in Names,
               seen'[<<c, m>>] # NoBinding, ~recreated'[<<c, m>>]
        PROVE  /\ store'[m] # NoBinding
               /\ \/ seen'[<<c, m>>] = store'[m]
                  \/ (seen'[<<c, m>>]).version < (store'[m]).version
    <3>1. /\ Exists(m)
          /\ seen[<<c, m>>] = store[m] \/ seen[<<c, m>>].version < store[m].version BY <1>1, <2>1 DEF SeenIsOld
    <3>2. CASE m # n BY <1>1, <1>2, <3>1, <3>2 DEF Exists
    <3>3. CASE m = n
      <4>1. seen[<<c, m>>].version \in Nat BY <1>1, <2>1, BindingFields DEF TypeOK
      <4>2. seen[<<c, m>>].version < b.version BY <1>6, <1>7, <3>1, <3>3, <4>1
      <4> QED BY <1>1, <1>2, <3>3, <4>2
    <3> QED BY <3>2, <3>3
  <2> QED BY <2>1 DEF SeenIsOld, Exists
<1> QED BY <1>3, <1>4, <1>5, <1>8, <1>9, <1>10, <1>11

(* A removal, whatever fire asks for it, preserves the invariant. *)
LEMMA RemovingStep ==
  ASSUME IInv, NEW n \in Names, Removing(n),
         \/ UNCHANGED <<fire, firing>>
         \/ Fired(n)
  PROVE  IInv'
<1> USE DEF IInv
<1>1. /\ store' = [store EXCEPT ![n] = NoBinding]
      /\ job' = [job EXCEPT ![n] = "none"]
      /\ recreated' = [cn \in Clients \X Names |-> recreated[cn] \/ cn[2] = n]
      /\ UNCHANGED <<written, mode, seen, restarts, launched>> BY DEF Removing, Remove
<1>2. store'[n] = NoBinding /\ \A m \in Names \ {n} : store'[m] = store[m] BY <1>1 DEF TypeOK
<1>3. \A m \in Names :
        \/ fire'[m] = fire[m] /\ firing'[m] = firing[m]
        \/ m = n /\ fire'[m] = "idle" /\ firing'[m] = NoBinding BY DEF Fired, TypeOK
<1>4. TypeOK'
  <2>1. fire' \in [Names -> FireStates] /\ firing' \in [Names -> Bindings \cup {NoBinding}]
    BY DEF Fired, TypeOK, FireStates
  <2>2. recreated' \in [Clients \X Names -> BOOLEAN] BY <1>1 DEF TypeOK
  <2>3. /\ store' \in [Names -> Bindings \cup {NoBinding}] /\ job' \in [Names -> Jobs] BY <1>1 DEF TypeOK, Jobs
  <2> QED BY <1>1, <2>1, <2>2, <2>3 DEF TypeOK
<1>5. JobsAreClaimed' BY <1>1, <1>2 DEF JobsAreClaimed, Exists, TypeOK
<1>6. InteractiveIsQuiet' BY <1>1, <1>3 DEF InteractiveIsQuiet, TypeOK
<1>7. StoredOnce' BY <1>1, <1>2 DEF StoredOnce, Exists
<1>8. FiringIsOld' BY <1>1, <1>2, <1>3 DEF FiringIsOld, Exists
<1>9. LaunchesCounted' BY <1>1, <1>2, <1>3 DEF LaunchesCounted, Exists
<1>10. SeenIsOld'
  <2>1. \A c \in Clients, m \in Names :
          ~recreated'[<<c, m>>] => m # n /\ ~recreated[<<c, m>>] BY <1>1 DEF TypeOK
  <2> QED BY <1>1, <1>2, <2>1 DEF SeenIsOld, Exists
<1> QED BY <1>4, <1>5, <1>6, <1>7, <1>8, <1>9, <1>10

(* A step of a fire changes what the name's coroutine holds, and what its  *)
(* runs are counted by.                                                    *)
LEMMA FireStep ==
  ASSUME IInv, NEW n \in Names,
         \/ JobDue(n) \/ FireStale(n) \/ FireRun(n) \/ FireSkip(n)
         \/ (FireEnd(n) /\ ~FiredOnce(n))
  PROVE  IInv'
<1> USE DEF IInv
<1>1. /\ UNCHANGED <<mode, store, seen, written, restarts, recreated>>
      /\ fire' \in [Names -> FireStates] /\ firing' \in [Names -> Bindings \cup {NoBinding}]
      /\ job' \in [Names -> Jobs]
      /\ \A m \in Names \ {n} : /\ fire'[m] = fire[m] /\ firing'[m] = firing[m]
                                /\ job'[m] = job[m]
  <2>1. CASE JobDue(n) BY <2>1 DEF JobDue, TypeOK, FireStates, Jobs
  <2>2. CASE FireStale(n) BY <2>2 DEF FireStale, Fired, TypeOK, FireStates
  <2>3. CASE FireRun(n) BY <2>3 DEF FireRun, FiresNow, Exists, TypeOK, FireStates
  <2>4. CASE FireSkip(n) BY <2>4 DEF FireSkip, FiresNow, Exists, TypeOK, FireStates
  <2>5. CASE FireEnd(n) /\ ~FiredOnce(n) BY <2>5 DEF FireEnd, Fired, TypeOK, FireStates
  <2> QED BY <2>1, <2>2, <2>3, <2>4, <2>5
<1>2. job'[n] \in {job[n], "none"} /\ (fire[n] # "idle" \/ job[n] # "none")
  <2>1. CASE JobDue(n) BY <2>1 DEF JobDue, TypeOK
  <2>2. CASE FireStale(n) \/ FireRun(n) \/ FireSkip(n) BY <2>2 DEF FireStale, FireRun, FireSkip, FiresNow
  <2>3. CASE FireEnd(n) /\ ~FiredOnce(n) BY <2>3 DEF FireEnd
  <2> QED BY <2>1, <2>2, <2>3
<1>3. JobsAreClaimed' BY <1>1, <1>2 DEF JobsAreClaimed, Exists
<1>4. InteractiveIsQuiet' BY <1>1, <1>2 DEF InteractiveIsQuiet
<1>5. StoredOnce' BY <1>1 DEF StoredOnce, Exists
<1>6. FiringIsOld'
  <2>1. /\ fire'[n] \in {"running", "skipping"} <=> firing'[n] # NoBinding
        /\ firing'[n] \in {firing[n], NoBinding, store[n]}
    <3>1. CASE JobDue(n) BY <3>1 DEF JobDue, FiringIsOld, TypeOK
    <3>2. CASE FireStale(n) \/ FireEnd(n) BY <3>2 DEF FireStale, FireEnd, Fired, TypeOK
    <3>3. CASE FireRun(n) \/ FireSkip(n) BY <3>3 DEF FireRun, FireSkip, FiresNow, Exists, TypeOK
    <3> QED BY <3>1, <3>2, <3>3
  <2>2. Exists(n) => store[n].write <= written BY DEF StoredOnce
  <2> QED BY <1>1, <2>1, <2>2 DEF FiringIsOld, Exists
<1>7. SeenIsOld' BY <1>1 DEF SeenIsOld, Exists
<1>8. \A m \in Names : Exists(m) =>
        store[m].write \in Writes /\ store[m].oneShot \in BOOLEAN BY BindingFields DEF TypeOK, Exists, Writes
<1>9. launched' \in [Writes -> Nat] /\ LaunchesCounted'
  <2>1. CASE FireRun(n)
    <3>1. /\ Exists(n) /\ fire[n] = "submitted"
          /\ fire'[n] = "running" /\ firing'[n] = store[n]
          /\ launched' = [launched EXCEPT ![store[n].write] =
                            IF store[n].oneShot THEN @ + 1 ELSE @] BY <2>1 DEF FireRun, FiresNow, TypeOK
    <3>2. launched' \in [Writes -> Nat] BY <1>8, <3>1 DEF TypeOK
    <3>3. \A w \in Writes : w # store[n].write => launched'[w] = launched[w] BY <3>1 DEF TypeOK
    <3>4. \A w \in Writes : w > written' => launched'[w] = 0 BY <1>1, <1>8, <3>1, <3>3, BoundsAssumption
      DEF LaunchesCounted, StoredOnce, TypeOK, Writes
    <3>5. ASSUME NEW m \in Names, Exists(m), store[m].oneShot
          PROVE  launched'[store[m].write] <=
                   restarts + (IF fire'[m] = "running" /\ (firing'[m]).write = store[m].write
                               THEN 1 ELSE 0)
      <4>1. CASE m = n
        <5>1. launched[store[n].write] <= restarts BY <3>1, <3>5, <4>1 DEF LaunchesCounted, TypeOK
        <5>2. launched'[store[n].write] = launched[store[n].write] + 1 BY <1>8, <3>1, <3>5, <4>1 DEF TypeOK
        <5> QED BY <1>8, <3>1, <4>1, <5>1, <5>2 DEF TypeOK
      <4>2. CASE m # n
        <5>1. store[m].write # store[n].write BY <3>1, <3>5, <4>2 DEF StoredOnce
        <5> QED BY <1>1, <1>8, <3>3, <3>5, <4>2, <5>1 DEF LaunchesCounted
      <4> QED BY <4>1, <4>2
    <3> QED BY <1>1, <3>2, <3>4, <3>5 DEF LaunchesCounted, Exists
  <2>2. CASE ~FireRun(n)
    <3>1. launched' = launched BY <2>2 DEF JobDue, FireStale, FireSkip, FireEnd
    <3>2. fire'[n] = "running" => fire[n] = "running" /\ firing'[n] = firing[n]
      BY <2>2 DEF JobDue, FireStale, FireSkip, FireEnd, Fired, TypeOK
    <3>3. fire[n] = "running" => \/ fire'[n] = "running" /\ firing'[n] = firing[n]
                                 \/ ~firing[n].oneShot
      BY <2>2 DEF JobDue, FireStale, FireSkip, FiresNow, FireEnd, FiredOnce, TypeOK
    <3>4. ASSUME NEW m \in Names, Exists(m), store[m].oneShot
          PROVE  launched[store[m].write] <=
                   restarts + (IF fire'[m] = "running" /\ (firing'[m]).write = store[m].write
                               THEN 1 ELSE 0)
      <4>1. CASE m = n /\ fire[n] = "running" /\ fire'[n] # "running"
        <5>1. ~firing[n].oneShot /\ firing[n] # NoBinding BY <3>3, <4>1 DEF FiringIsOld
        <5>2. firing[n].write # store[n].write BY <3>4, <4>1, <5>1 DEF FiringIsOld
        <5> QED BY <3>4, <4>1, <5>2 DEF LaunchesCounted
      <4>2. CASE ~(m = n /\ fire[n] = "running" /\ fire'[n] # "running")
        BY <1>1, <3>2, <3>3, <3>4, <4>2 DEF LaunchesCounted
      <4> QED BY <4>1, <4>2
    <3> QED BY <1>1, <3>1, <3>4 DEF LaunchesCounted, Exists, TypeOK
  <2> QED BY <2>1, <2>2
<1>10. TypeOK' BY <1>1, <1>9 DEF TypeOK
<1> QED BY <1>3, <1>4, <1>5, <1>6, <1>7, <1>9, <1>10

(* A restart preserves the invariant. *)
LEMMA RestartStep ==
  ASSUME IInv, NEW m \in Modes, Restart(m)
  PROVE  IInv'
<1> USE DEF IInv
<1>1. /\ restarts' = restarts + 1 /\ restarts < MaxRestarts /\ mode' = m
      /\ job' = [n \in Names |-> Registered(m, n)]
      /\ fire' = [n \in Names |-> "idle"] /\ firing' = [n \in Names |-> NoBinding]
      /\ UNCHANGED <<store, seen, written, launched, recreated>>
      /\ restarts \in Nat /\ MaxRestarts \in Nat BY BoundsAssumption DEF Restart, TypeOK
<1>2. \A n \in Names : Registered(m, n) \in Jobs BY ReconciledType DEF Registered, Jobs, TypeOK
<1>3. TypeOK' BY <1>1, <1>2, BoundsAssumption DEF TypeOK, FireStates
<1>4. JobsAreClaimed' BY <1>1 DEF JobsAreClaimed, Registered, Reconciled, Exists
<1>5. InteractiveIsQuiet' BY <1>1 DEF InteractiveIsQuiet, Registered
<1>6. StoredOnce' /\ SeenIsOld' BY <1>1 DEF StoredOnce, SeenIsOld, Exists
<1>7. FiringIsOld' BY <1>1 DEF FiringIsOld
<1>8. LaunchesCounted'
  <2>1. ASSUME NEW n \in Names, Exists(n), store[n].oneShot
        PROVE  launched[store[n].write] <= restarts + 1
    <3>1. store[n].write \in Writes BY <2>1, BindingFields DEF TypeOK, Exists, Writes
    <3>2. launched[store[n].write] \in Nat BY <3>1 DEF TypeOK
    <3> QED BY <1>1, <2>1, <3>2 DEF LaunchesCounted
  <2>2. \A n \in Names : fire'[n] # "running" BY <1>1
  <2>3. restarts' + 0 = restarts + 1 BY <1>1
  <2> QED BY <1>1, <2>1, <2>2, <2>3 DEF LaunchesCounted, Exists
<1> QED BY <1>3, <1>4, <1>5, <1>6, <1>7, <1>8

------------------------
(* The theorems. *)

(* The initial state satisfies the invariant. *)
LEMMA InitIInv == Init => IInv
<1> SUFFICES ASSUME Init PROVE IInv OBVIOUS
<1>1. TypeOK BY BoundsAssumption DEF Init, TypeOK, Jobs, FireStates
<1>2. JobsAreClaimed /\ InteractiveIsQuiet BY DEF Init, JobsAreClaimed, InteractiveIsQuiet
<1>3. StoredOnce /\ FiringIsOld BY DEF Init, StoredOnce, FiringIsOld, Exists
<1>4. LaunchesCounted /\ SeenIsOld BY DEF Init, LaunchesCounted, SeenIsOld, Exists
<1> QED BY <1>1, <1>2, <1>3, <1>4 DEF IInv

(* Every step preserves the invariant. *)
LEMMA IInvStep ==
  ASSUME IInv, [Next]_vars
  PROVE  IInv'
<1>1. CASE UNCHANGED vars BY <1>1 DEF vars, IInv, TypeOK, JobsAreClaimed, InteractiveIsQuiet, StoredOnce, FiringIsOld,
     LaunchesCounted, SeenIsOld, Exists
<1>2. ASSUME NEW c \in Clients, NEW n \in Names, Read(c, n) PROVE IInv'
  <2>1. /\ seen' = [seen EXCEPT ![<<c, n>>] = store[n]]
        /\ recreated' = [recreated EXCEPT ![<<c, n>>] = FALSE]
        /\ UNCHANGED <<mode, store, job, fire, firing, written, restarts, launched>> BY <1>2 DEF Read
  <2>2. TypeOK' BY <2>1 DEF IInv, TypeOK
  <2>3. SeenIsOld'
    <3>1. seen'[<<c, n>>] = store[n] BY <2>1 DEF IInv, TypeOK
    <3>2. \A d \in Clients, m \in Names : <<d, m>> # <<c, n>> =>
            seen'[<<d, m>>] = seen[<<d, m>>] /\ recreated'[<<d, m>>] = recreated[<<d, m>>] BY <2>1 DEF IInv, TypeOK
    <3> QED BY <2>1, <3>1, <3>2 DEF IInv, SeenIsOld, Exists
  <2>4. JobsAreClaimed' /\ InteractiveIsQuiet' /\ StoredOnce' /\ FiringIsOld' /\ LaunchesCounted'
    BY <2>1 DEF IInv, JobsAreClaimed, InteractiveIsQuiet, StoredOnce, FiringIsOld,
       LaunchesCounted, Exists
  <2> QED BY <2>2, <2>3, <2>4 DEF IInv
<1>3. ASSUME NEW n \in Names, NEW oneShot \in BOOLEAN, NEW firesHere \in BOOLEAN,
             (\E c \in Clients : Put(c, n, oneShot, firesHere)) \/ AgentCreate(n, oneShot)
      PROVE  IInv' BY <1>3, Writers, WritingStep DEF IInv
<1>4. ASSUME NEW n \in Names, Delete(n) \/ AgentCancel(n) PROVE IInv'
  <2>1. Removing(n) /\ UNCHANGED <<fire, firing>> BY <1>4 DEF Delete, AgentCancel, Removing
  <2> QED BY <2>1, RemovingStep DEF IInv, TypeOK
<1>5. ASSUME NEW n \in Names, FireEnd(n), FiredOnce(n) PROVE IInv'
  <2>1. Removing(n) /\ Fired(n) BY <1>5 DEF FireEnd, Removing
  <2> QED BY <2>1, RemovingStep
<1>6. ASSUME NEW n \in Names,
             \/ JobDue(n) \/ FireStale(n) \/ FireRun(n) \/ FireSkip(n)
             \/ (FireEnd(n) /\ ~FiredOnce(n))
      PROVE  IInv' BY <1>6, FireStep
<1>7. ASSUME NEW m \in Modes, Restart(m) PROVE IInv' BY <1>7, RestartStep
<1> QED BY <1>1, <1>2, <1>3, <1>4, <1>5, <1>6, <1>7 DEF Next

(* Every behaviour of the schedules satisfies the invariant. *)
THEOREM Invariance == Spec => []IInv
BY InitIInv, IInvStep, PTL DEF Spec

(* The variables have their types. *)
THEOREM TypeCorrect == Spec => []TypeOK
<1>1. IInv => TypeOK BY DEF IInv
<1> QED BY <1>1, Invariance, PTL

(* The scheduler holds only jobs of stored bindings that fire here. *)
THEOREM EveryJobHasItsBinding == Spec => []JobsAreClaimed
<1>1. IInv => JobsAreClaimed BY DEF IInv
<1> QED BY <1>1, Invariance, PTL

(* An interactive agent has no jobs and no fires. *)
THEOREM InteractiveNeverFires == Spec => []InteractiveIsQuiet
<1>1. IInv => InteractiveIsQuiet BY DEF IInv
<1> QED BY <1>1, Invariance, PTL

(* A stored one-shot has started no run but those a restart cut off and    *)
(* the one in flight.                                                      *)
THEOREM OneShotsFireOnce == Spec => []OneShotFiresOnce
<1>1. ASSUME IInv, NEW n \in Names, Exists(n), store[n].oneShot
      PROVE  launched[store[n].write] <= restarts + (IF fire[n] = "running" THEN 1 ELSE 0)
  <2>1. store[n].write \in Writes BY <1>1, BindingFields DEF IInv, TypeOK, Exists, Writes
  <2>2. launched[store[n].write] \in Nat /\ restarts \in Nat BY <1>1, <2>1 DEF IInv, TypeOK
  <2>3. launched[store[n].write] <=
          restarts + (IF fire[n] = "running" /\ firing[n].write = store[n].write
                      THEN 1 ELSE 0) BY <1>1 DEF IInv, LaunchesCounted
  <2> QED BY <2>2, <2>3
<1>2. IInv => OneShotFiresOnce BY <1>1 DEF OneShotFiresOnce
<1> QED BY <1>2, Invariance, PTL

(* The three together: the scheduler fires what its store says. *)
THEOREM SchedulerFiresWhatIsStored == Spec => []FiresAreClaimed
BY EveryJobHasItsBinding, InteractiveNeverFires, OneShotsFireOnce, PTL DEF FiresAreClaimed

(* An update replaces the binding its caller read, unless the name was     *)
(* removed in between.                                                     *)
THEOREM UpdatesAreNotBlind == Spec => NoBlindUpdate
<1>1. ASSUME IInv, NEW c \in Clients, NEW n \in Names, NEW oneShot \in BOOLEAN,
             NEW firesHere \in BOOLEAN, Put(c, n, oneShot, firesHere)
      PROVE  seen[<<c, n>>] = store[n] \/ recreated[<<c, n>>]
  <2>1. CASE seen[<<c, n>>] = NoBinding BY <1>1, <2>1 DEF Put, Exists
  <2>2. CASE seen[<<c, n>>] # NoBinding
    <3>1. seen[<<c, n>>].version = store[n].version BY <1>1, <2>2 DEF Put, VersionMatches
    <3>2. seen[<<c, n>>] \in Bindings BY <1>1, <2>2 DEF IInv, TypeOK
    <3>3. ~(seen[<<c, n>>].version < store[n].version) BY <3>1, <3>2, BindingFields
    <3> QED BY <1>1, <2>2, <3>3 DEF IInv, SeenIsOld
  <2> QED BY <2>1, <2>2
<1>2. IInv /\ [Next]_vars =>
        [\A c \in Clients, n \in Names, oneShot, firesHere \in BOOLEAN :
           Put(c, n, oneShot, firesHere)
             => seen[<<c, n>>] = store[n] \/ recreated[<<c, n>>]]_vars BY <1>1
<1> QED BY <1>2, Invariance, PTL DEF Spec, NoBlindUpdate

------------------------
(* What a profile has to pass (AgentProfiles) *)

AgentUnits == [text : Texts, code : SUBSET Code, env : Envs, level : 1..6]

\* The unit with nothing of the operator's tool, in its code or in its profile.
WithoutTool(u) ==
  [u EXCEPT !.code = @ \ {"tool"}, !.text = [u.text EXCEPT !.needs = @ \ {"tool"}]]

\* What the daemon leaves behind boots, or does once a tool that an executor's profile may not
\* name is removed again.
Left(u) ==
  \/ Boots(u)
  \/ "executor" \in u.text.backend /\ "tool" \in u.text.needs /\ Boots(WithoutTool(u))

ProfilesInv ==
  /\ daemonEnv \in Envs /\ baseLevel \in 1..6 /\ applying \in BOOLEAN /\ switches \in 0..MaxSwitches
  /\ unit # NoUnit => unit \in AgentUnits /\ (Public(unit.text) => unit.code = {})
  /\ was # NoUnit => was \in AgentUnits /\ (Public(was.text) => was.code = {}) /\ Left(was)
  /\ ~applying => was = NoUnit /\ (unit # NoUnit => Left(unit))
  /\ applying => /\ unit \in AgentUnits /\ unit.env = Forwarded(daemonEnv)
                 /\ Public(unit.text) => unit.code = {}
                 /\ Boots(unit) \/ OnlyBootTells(unit)

\* The text with its variables filled in, field by field.
LEMMA InterpolatedIs ==
  ASSUME NEW p \in Texts
  PROVE  /\ Interpolated(p).backend = p.backend /\ Interpolated(p).api = p.api
         /\ Interpolated(p).model = (IF p.model = "${M}" THEN "p" ELSE p.model)
         /\ Interpolated(p).agentType = (IF p.agentType = "${M}" THEN "internal" ELSE p.agentType)
         /\ Interpolated(p).voice = (IF p.voice = "${M}" THEN "p" ELSE p.voice)
         /\ Interpolated(p).harness = p.harness /\ Interpolated(p).credentials = p.credentials
         /\ Interpolated(p).needs = p.needs /\ Interpolated(p).memory = p.memory
         /\ Interpolated(p).capability = p.capability /\ Interpolated(p).post = p.post
         /\ Interpolated(p).speaks = p.speaks /\ Interpolated(p).approval = p.approval
         /\ Interpolated(p).mode = p.mode
<1>1. PICK m : m = IF p.model = "${M}" THEN "p" ELSE p.model OBVIOUS
<1>2. PICK a : a = IF p.agentType = "${M}" THEN "internal" ELSE p.agentType OBVIOUS
<1>3. PICK v : v = IF p.voice = "${M}" THEN "p" ELSE p.voice OBVIOUS
<1>4. Interpolated(p) = [p EXCEPT !.model = m, !.agentType = a, !.voice = v] BY <1>1, <1>2, <1>3 DEF Interpolated
<1>5. PICK x : x = [p EXCEPT !.model = m, !.agentType = a, !.voice = v] OBVIOUS
<1>6. x.model = m /\ x.agentType = a /\ x.voice = v BY <1>5 DEF Texts
<1>7. /\ x.backend = p.backend /\ x.api = p.api /\ x.harness = p.harness
      /\ x.credentials = p.credentials /\ x.needs = p.needs /\ x.memory = p.memory BY <1>5 DEF Texts
<1>8. /\ x.capability = p.capability /\ x.post = p.post /\ x.speaks = p.speaks
      /\ x.approval = p.approval /\ x.mode = p.mode BY <1>5 DEF Texts
<1>9. Interpolated(p) = x BY <1>4, <1>5
<1> QED BY <1>1, <1>2, <1>3, <1>6, <1>7, <1>8, <1>9

\* Two texts that differ in what they need only.
Alike(p, q) ==
  /\ q.backend = p.backend /\ q.model = p.model /\ q.agentType = p.agentType /\ q.api = p.api
  /\ q.harness = p.harness /\ q.credentials = p.credentials /\ q.memory = p.memory
  /\ q.capability = p.capability /\ q.post = p.post /\ q.voice = p.voice /\ q.speaks = p.speaks
  /\ q.approval = p.approval /\ q.mode = p.mode

LEMMA AlikeLoads ==
  ASSUME NEW p \in Texts, NEW q \in Texts, Alike(p, q), NEW env, NEW code, NEW code2,
         Loads(p, env, code), "capability" \in code => "capability" \in code2,
         "executor" \in p.backend \/ Public(p) => "tool" \notin q.needs
  PROVE  Loads(q, env, code2) /\ (Carried(Interpolated(p)) => Carried(Interpolated(q)))
<1>1. PICK x : x = Interpolated(p) OBVIOUS
<1>2. PICK y : y = Interpolated(q) OBVIOUS
<1>3. Alike(x, y) /\ y.needs = q.needs /\ x.backend = p.backend
  <2>1. /\ x.backend = p.backend /\ x.api = p.api /\ x.harness = p.harness
        /\ x.credentials = p.credentials /\ x.memory = p.memory /\ x.capability = p.capability
        /\ x.post = p.post /\ x.speaks = p.speaks /\ x.approval = p.approval /\ x.mode = p.mode
        /\ x.model = (IF p.model = "${M}" THEN "p" ELSE p.model)
        /\ x.agentType = (IF p.agentType = "${M}" THEN "internal" ELSE p.agentType)
        /\ x.voice = (IF p.voice = "${M}" THEN "p" ELSE p.voice) BY <1>1, InterpolatedIs
  <2>2. /\ y.backend = q.backend /\ y.api = q.api /\ y.harness = q.harness
        /\ y.credentials = q.credentials /\ y.memory = q.memory /\ y.capability = q.capability
        /\ y.post = q.post /\ y.speaks = q.speaks /\ y.approval = q.approval /\ y.mode = q.mode
        /\ y.model = (IF q.model = "${M}" THEN "p" ELSE q.model)
        /\ y.agentType = (IF q.agentType = "${M}" THEN "internal" ELSE q.agentType)
        /\ y.voice = (IF q.voice = "${M}" THEN "p" ELSE q.voice) /\ y.needs = q.needs BY <1>2, InterpolatedIs
  <2>3. y.model = x.model /\ y.agentType = x.agentType /\ y.voice = x.voice BY <2>1, <2>2 DEF Alike
  <2> QED BY <2>1, <2>2, <2>3 DEF Alike
<1>4. Resolves(q, env) BY DEF Loads, Resolves, Alike
<1>5. Valid(y)
  <2>1. Valid(x) BY <1>1 DEF Loads
  <2>2. NotUnderstated(y) BY <1>3, <2>1 DEF Valid, NotUnderstated, InferredContract, Alike
  <2>3. HarnessFits(y) BY <1>3, <2>1 DEF Valid, HarnessFits, OnHarness, Public, Alike
  <2>4. OneBackend(y) BY <1>3, <2>1 DEF Valid, OneBackend, Alike
  <2>5. ExecutorFits(y) BY <1>3, <2>1 DEF Valid, ExecutorFits, Alike
  <2>6. TriggersFit(y) /\ SpeakHasVoice(y) /\ ApprovalFits(y)
    BY <1>3, <2>1 DEF Valid, TriggersFit, SpeakHasVoice, ApprovalFits, Alike
  <2> QED BY <2>2, <2>3, <2>4, <2>5, <2>6 DEF Valid
<1>6. CapabilitiesResolve(y, code2)
  <2>1. CapabilitiesResolve(x, code) BY <1>1 DEF Loads
  <2> QED BY <1>3, <2>1 DEF CapabilitiesResolve, OnHarness, Alike
<1>7. AsyncFits(y)
  <2>1. AsyncFits(x) BY <1>1 DEF Loads
  <2> QED BY <1>3, <2>1 DEF AsyncFits, OnHarness, Alike
<1>8. PublicRules(q, env)
  <2>1. PublicRules(p, env) BY DEF Loads
  <2>2. Public(q) <=> Public(p) BY DEF Public, Alike
  <2>3. ModelAllowed(p, env) => ModelAllowed(q, env) BY DEF ModelAllowed, OnHarness, Alike
  <2>4. CapabilityAllowed(p, env) => CapabilityAllowed(q, env) BY DEF CapabilityAllowed, Alike
  <2>5. VoiceAllowed(p, env) => VoiceAllowed(q, env) BY DEF VoiceAllowed, Alike
  <2> QED BY <2>1, <2>2, <2>3, <2>4, <2>5 DEF PublicRules, Alike
<1>9. Carried(x) => Carried(y) BY <1>3 DEF Carried, OnHarness, Alike
<1> QED BY <1>1, <1>2, <1>4, <1>5, <1>6, <1>7, <1>8, <1>9 DEF Loads

\* A unit that boots still does with other needs, when its code has them.
LEMMA AlikeBoots ==
  ASSUME NEW u \in AgentUnits, NEW w \in AgentUnits, Alike(u.text, w.text), w.env = u.env,
         w.level = u.level, Boots(u), "capability" \in u.code => "capability" \in w.code,
         "executor" \in u.text.backend \/ Public(u.text) => "tool" \notin w.text.needs,
         w.text.needs \subseteq w.code
  PROVE  Boots(w)
<1>1. PICK p \in Texts : p = u.text BY DEF AgentUnits
<1>2. PICK q \in Texts : q = w.text BY DEF AgentUnits
<1>3. Alike(p, q) /\ Loads(p, u.env, u.code) BY <1>1, <1>2 DEF Boots
<1>4. Loads(q, u.env, w.code) /\ (Carried(Interpolated(p)) => Carried(Interpolated(q)))
  BY <1>1, <1>2, <1>3, AlikeLoads
<1>5. Understands(u.level, q)
  <2>1. Understands(u.level, p) BY <1>1 DEF Boots
  <2> QED BY <1>3, <2>1 DEF Understands, Alike
<1> QED BY <1>1, <1>2, <1>3, <1>4, <1>5 DEF Boots, Alike

\* A unit with other code and needs.
Changed(u, c, n) == [u EXCEPT !.code = c, !.text = [u.text EXCEPT !.needs = n]]

LEMMA ChangedIs ==
  ASSUME NEW u \in AgentUnits, NEW c \in SUBSET Code, NEW n \in SUBSET {"tool", "handler"}, NEW w,
         w = Changed(u, c, n)
  PROVE  /\ w \in AgentUnits /\ w.code = c /\ w.text.needs = n /\ w.env = u.env /\ w.level = u.level
         /\ Alike(u.text, w.text)
<1>1. PICK p \in Texts : p = u.text BY DEF AgentUnits
<1>2. PICK q : q = [p EXCEPT !.needs = n] OBVIOUS
<1>3. q \in Texts /\ q.needs = n /\ Alike(p, q) BY <1>1, <1>2 DEF Texts, Alike
<1>4. w = [u EXCEPT !.code = c, !.text = q] BY <1>1, <1>2 DEF Changed
<1>5. w.code = c /\ w.text = q /\ w.env = u.env /\ w.level = u.level BY <1>4 DEF AgentUnits
<1>6. w \in AgentUnits BY <1>3, <1>4 DEF AgentUnits
<1> QED BY <1>1, <1>3, <1>5, <1>6

LEMMA WithoutToolIs ==
  ASSUME NEW u \in AgentUnits
  PROVE  /\ WithoutTool(u) \in AgentUnits /\ WithoutTool(u).code = u.code \ {"tool"}
         /\ WithoutTool(u).text.needs = u.text.needs \ {"tool"} /\ WithoutTool(u).env = u.env
         /\ WithoutTool(u).level = u.level /\ Alike(u.text, WithoutTool(u).text)
<1>1. u.code \ {"tool"} \in SUBSET Code /\ u.text.needs \ {"tool"} \in SUBSET {"tool", "handler"}
  BY DEF AgentUnits, Texts
<1>2. PICK c \in SUBSET Code : c = u.code \ {"tool"} BY <1>1
<1>3. PICK n \in SUBSET {"tool", "handler"} : n = u.text.needs \ {"tool"} BY <1>1
<1>4. PICK w : w = WithoutTool(u) OBVIOUS
<1>5. w = Changed(u, c, n) BY <1>2, <1>3, <1>4 DEF WithoutTool, Changed
<1>6. /\ w \in AgentUnits /\ w.code = c /\ w.text.needs = n /\ w.env = u.env /\ w.level = u.level
      /\ Alike(u.text, w.text) BY <1>5, ChangedIs
<1> QED BY <1>2, <1>3, <1>4, <1>6

\* What boots boots without the tool.
LEMMA BootsWithout ==
  ASSUME NEW u \in AgentUnits, Boots(u)
  PROVE  Boots(WithoutTool(u))
<1>1. PICK w : w = WithoutTool(u) OBVIOUS
<1>2. /\ w \in AgentUnits /\ w.code = u.code \ {"tool"} /\ w.text.needs = u.text.needs \ {"tool"}
      /\ w.env = u.env /\ w.level = u.level /\ Alike(u.text, w.text) BY <1>1, WithoutToolIs
<1>3. u.text.needs \subseteq u.code BY DEF Boots
<1> QED BY <1>1, <1>2, <1>3, AlikeBoots

\* What the daemon lets through boots on an image that has the contract, with the daemon's
\* lists, unless only a boot can tell.
LEMMA ValidatedBoots ==
  ASSUME NEW p \in Texts, NEW code \in SUBSET Code, NEW level \in 1..6, daemonEnv \in Envs,
         Validates(p), RequiredContract(p) <= level,
         ~(daemonEnv.var = "held" /\ ~Resolves(p, Forwarded(daemonEnv))),
         Carried(Interpolated(p)), p.needs \subseteq code
  PROVE  Boots(Unit(p, code, Forwarded(daemonEnv), level))
<1>1. PICK env : env = Forwarded(daemonEnv) OBVIOUS
<1>2. /\ env \in Envs /\ env.providers = daemonEnv.providers /\ env.hosts = daemonEnv.hosts
      /\ env.var = IF daemonEnv.var = "forwarded" THEN "forwarded" ELSE "unset" BY <1>1 DEF Forwarded, Envs
<1>3. Loads(p, daemonEnv, {}) BY DEF Validates
<1>4. Understands(level, p)
  <2>1. PICK i : i = InferredContract(p) OBVIOUS
  <2>2. PICK c \in BOOLEAN : c = p.credentials BY DEF Texts
  <2>3. i = IF c THEN 6
            ELSE IF p.harness \in {"pin", "pinDead"} THEN 5
            ELSE IF p.harness # "none" THEN 4
            ELSE IF p.agentType # "absent" THEN 3
            ELSE IF "executor" \in p.backend THEN 2 ELSE 1 BY <2>1, <2>2 DEF InferredContract
  <2>4. i \in 1..6 BY <2>3
  <2>5. p.api \in Int /\ level \in Int
    <3>1. p.api \in 0..6 BY DEF Texts
    <3> QED BY <3>1
  <2>6. i <= level BY <2>1, <2>4, <2>5 DEF RequiredContract
  <2> QED BY <2>2, <2>3, <2>4, <2>5, <2>6 DEF Understands
<1>5. Resolves(p, env)
  <2>1. Resolves(p, daemonEnv) BY <1>3 DEF Loads
  <2>2. daemonEnv.var \in {"unset", "held", "forwarded"} BY DEF Envs
  <2> QED BY <1>1, <1>2, <2>1, <2>2 DEF Resolves
<1>6. PublicRules(p, env)
  <2>1. PublicRules(p, daemonEnv) BY <1>3 DEF Loads
  <2>2. ModelAllowed(p, daemonEnv) => ModelAllowed(p, env) BY <1>2 DEF ModelAllowed, Listed
  <2>3. CapabilityAllowed(p, daemonEnv) => CapabilityAllowed(p, env) BY <1>2 DEF CapabilityAllowed
  <2>4. VoiceAllowed(p, daemonEnv) => VoiceAllowed(p, env) BY <1>2 DEF VoiceAllowed, Listed
  <2>5. HostListed(p.post, daemonEnv) => HostListed(p.post, env) BY <1>2 DEF HostListed
  <2> QED BY <1>2, <2>1, <2>2, <2>3, <2>4, <2>5 DEF PublicRules
<1>7. CapabilitiesResolve(Interpolated(p), code) BY <1>3 DEF Loads, CapabilitiesResolve
<1>8. Loads(p, env, code) BY <1>3, <1>5, <1>6, <1>7 DEF Loads
<1>9. PICK u : u = Unit(p, code, env, level) OBVIOUS
<1>10. u.text = p /\ u.code = code /\ u.env = env /\ u.level = level BY <1>9 DEF Unit
<1> QED BY <1>1, <1>4, <1>8, <1>9, <1>10 DEF Boots

LEMMA ProfilesStart == ProfilesInit => ProfilesInv
<1>. SUFFICES ASSUME ProfilesInit PROVE ProfilesInv OBVIOUS
<1>1. daemonEnv \in Envs /\ baseLevel \in 1..6 BY ProfilesAssumption DEF ProfilesInit
<1>2. switches \in 0..MaxSwitches BY ProfilesAssumption DEF ProfilesInit
<1>3. unit = NoUnit /\ was = NoUnit /\ applying = FALSE BY DEF ProfilesInit
<1> QED BY <1>1, <1>2, <1>3 DEF ProfilesInv

LEMMA UnitIs ==
  ASSUME NEW p \in Texts, NEW code \in SUBSET Code, NEW level \in 1..6, daemonEnv \in Envs
  PROVE  /\ Unit(p, code, Forwarded(daemonEnv), level) \in AgentUnits
         /\ Unit(p, code, Forwarded(daemonEnv), level).text = p
         /\ Unit(p, code, Forwarded(daemonEnv), level).code = code
         /\ Unit(p, code, Forwarded(daemonEnv), level).env = Forwarded(daemonEnv)
         /\ Unit(p, code, Forwarded(daemonEnv), level).level = level
<1>1. Forwarded(daemonEnv) \in Envs BY DEF Forwarded, Envs
<1>2. PICK env \in Envs : env = Forwarded(daemonEnv) BY <1>1
<1> QED BY <1>2 DEF Unit, AgentUnits

LEMMA CreateProfile ==
  ASSUME ProfilesInv, Create
  PROVE  ProfilesInv'
<1>1. PICK p \in NewProfiles, code \in {{}, {"tool"}, Code} :
        /\ Validates(p)
        /\ code # {} => ~Public(p)
        /\ p.needs \subseteq code
        /\ RequiredContract(p) <= baseLevel
        /\ unit' = Unit(p, code, Forwarded(daemonEnv), baseLevel) BY DEF Create
<1>2. was' = NoUnit /\ applying' = TRUE /\ UNCHANGED <<daemonEnv, baseLevel, switches>> BY DEF Create
<1>3. /\ p \in Texts /\ code \in SUBSET Code /\ baseLevel \in 1..6 /\ daemonEnv \in Envs
      /\ switches \in 0..MaxSwitches BY ProfilesAssumption DEF Code, ProfilesInv
<1>4. /\ unit' \in AgentUnits /\ unit'.text = p /\ unit'.code = code /\ unit'.env = Forwarded(daemonEnv)
  BY <1>1, <1>3, UnitIs
<1>5. Public(p) => code = {} BY <1>1
<1>6. Boots(unit') \/ (daemonEnv.var = "held" /\ ~Resolves(p, Forwarded(daemonEnv)))
        \/ ~Carried(Interpolated(p)) BY <1>1, <1>3, ValidatedBoots
<1>7. Boots(unit') \/ OnlyBootTells(unit)' BY <1>2, <1>4, <1>6 DEF OnlyBootTells
<1>8. Forwarded(daemonEnv)' = Forwarded(daemonEnv) BY <1>2 DEF Forwarded
<1> QED BY <1>2, <1>3, <1>4, <1>5, <1>7, <1>8 DEF ProfilesInv

LEMMA UpdateProfile ==
  ASSUME ProfilesInv, NEW p \in NextProfiles, Update(p)
  PROVE  ProfilesInv'
<1>1. PICK level : level = IF KindOf(p, daemonEnv) # KindOf(unit.text, daemonEnv) THEN baseLevel
                           ELSE unit.level OBVIOUS
<1>2. /\ unit # NoUnit /\ ~applying /\ Switch /\ Validates(p) /\ (Public(p) => unit.code = {})
      /\ RequiredContract(p) <= level
      /\ unit' = IF Recreates(p) THEN Unit(p, unit.code, Forwarded(daemonEnv), level)
                                 ELSE [unit EXCEPT !.text = p]
      /\ was' = unit /\ applying' = TRUE /\ UNCHANGED <<daemonEnv, baseLevel>> BY <1>1 DEF Update
<1>3. /\ p \in Texts /\ unit \in AgentUnits /\ baseLevel \in 1..6 /\ daemonEnv \in Envs
      /\ Left(unit) /\ (Public(unit.text) => unit.code = {}) /\ switches \in 0..MaxSwitches
      /\ MaxSwitches \in Nat BY <1>2, ProfilesAssumption DEF ProfilesInv
<1>4. level \in 1..6 BY <1>1, <1>3 DEF AgentUnits
<1>5. PICK code \in SUBSET Code : code = unit.code BY <1>3 DEF AgentUnits
<1>6. unit' = Unit(p, code, Forwarded(daemonEnv), level)
  <2>1. CASE Recreates(p) BY <1>2, <1>5, <2>1
  <2>2. CASE ~Recreates(p)
    <3>1. unit.env = Forwarded(daemonEnv) /\ level = unit.level BY <1>1, <2>2 DEF Recreates
    <3>2. unit = [text |-> unit.text, code |-> unit.code, env |-> unit.env, level |-> unit.level]
      BY <1>3 DEF AgentUnits
    <3>3. unit' = [unit EXCEPT !.text = p] BY <1>2, <2>2
    <3> QED BY <1>5, <3>1, <3>2, <3>3 DEF Unit
  <2> QED BY <2>1, <2>2
<1>7. /\ unit' \in AgentUnits /\ unit'.text = p /\ unit'.code = code /\ unit'.env = Forwarded(daemonEnv)
  BY <1>3, <1>4, <1>6, UnitIs
<1>8. Boots(unit') \/ (daemonEnv.var = "held" /\ ~Resolves(p, Forwarded(daemonEnv)))
        \/ ~Carried(Interpolated(p)) \/ ~(p.needs \subseteq code) BY <1>2, <1>3, <1>4, <1>6, ValidatedBoots
<1>9. Boots(unit') \/ OnlyBootTells(unit)' BY <1>2, <1>7, <1>8 DEF OnlyBootTells
<1>10. Forwarded(daemonEnv)' = Forwarded(daemonEnv) BY <1>2 DEF Forwarded
<1>11. switches' \in 0..MaxSwitches BY <1>2, <1>3 DEF Switch
<1> QED BY <1>2, <1>3, <1>5, <1>7, <1>9, <1>10, <1>11 DEF ProfilesInv

LEMMA ToolsMove ==
  ASSUME ProfilesInv, ToolAdded \/ ToolRemoved
  PROVE  ProfilesInv'
<1>1. unit # NoUnit /\ ~applying /\ Switch /\ UNCHANGED <<daemonEnv, baseLevel, was, applying>>
  BY DEF ToolAdded, ToolRemoved
<1>2. PICK u \in AgentUnits : u = unit BY <1>1 DEF ProfilesInv
<1>3. Left(u) /\ (Public(u.text) => u.code = {}) BY <1>1, <1>2 DEF ProfilesInv
<1>4. switches' \in 0..MaxSwitches BY <1>1, ProfilesAssumption DEF ProfilesInv, Switch
<1>5. u.code \in SUBSET Code /\ u.text.needs \in SUBSET {"tool", "handler"} BY DEF AgentUnits, Texts
<1>6. ASSUME Boots(u), "executor" \in u.text.backend PROVE "tool" \notin u.text.needs
  <2>1. PICK p \in Texts : p = u.text BY DEF AgentUnits
  <2>2. Valid(Interpolated(p)) BY <1>6, <2>1 DEF Boots, Loads
  <2> QED BY <1>6, <2>1, <2>2, InterpolatedIs DEF Valid, ExecutorFits
<1>7. CASE ToolAdded
  <2>1. PICK c \in SUBSET Code : c = u.code \cup {"tool"} BY <1>5 DEF Code
  <2>2. PICK n \in SUBSET {"tool", "handler"} : n = u.text.needs \cup {"tool"} BY <1>5
  <2>3. ~Public(u.text) /\ unit' = Changed(u, c, n) BY <1>2, <1>7, <2>1, <2>2 DEF ToolAdded, Changed
  <2>4. PICK w : w = unit' OBVIOUS
  <2>5. /\ w \in AgentUnits /\ w.code = c /\ w.text.needs = n /\ w.env = u.env /\ w.level = u.level
        /\ Alike(u.text, w.text) BY <2>3, <2>4, ChangedIs
  <2>6. ~Public(w.text) BY <2>3, <2>5 DEF Public, Alike
  <2>7. Left(w)
    <3>1. PICK x : x = WithoutTool(u) OBVIOUS
    <3>2. PICK y : y = WithoutTool(w) OBVIOUS
    <3>3. /\ x \in AgentUnits /\ x.code = u.code \ {"tool"} /\ x.text.needs = u.text.needs \ {"tool"}
          /\ x.env = u.env /\ x.level = u.level /\ Alike(u.text, x.text) BY <3>1, WithoutToolIs
    <3>4. /\ y \in AgentUnits /\ y.code = w.code \ {"tool"} /\ y.text.needs = w.text.needs \ {"tool"}
          /\ y.env = w.env /\ y.level = w.level /\ Alike(w.text, y.text) BY <2>5, <3>2, WithoutToolIs
    <3>5. Boots(x) BY <1>3, <3>1, BootsWithout DEF Left
    <3>6. CASE "executor" \in u.text.backend
      <4>1. x.text.needs \subseteq x.code BY <3>5 DEF Boots
      <4>2. y.code = x.code /\ y.text.needs = x.text.needs /\ Alike(x.text, y.text)
        BY <2>1, <2>2, <2>5, <3>3, <3>4 DEF Alike
      <4>3. Boots(y) BY <2>5, <3>3, <3>4, <3>5, <4>1, <4>2, AlikeBoots
      <4> QED BY <2>2, <2>5, <3>2, <3>6, <4>3 DEF Left, Alike
    <3>7. CASE "executor" \notin u.text.backend
      <4>1. Boots(u) BY <1>3, <3>7 DEF Left
      <4>2. u.text.needs \subseteq u.code BY <4>1 DEF Boots
      <4>3. Boots(w) BY <2>1, <2>2, <2>3, <2>5, <3>7, <4>1, <4>2, AlikeBoots
      <4> QED BY <4>3 DEF Left
    <3> QED BY <3>6, <3>7
  <2> QED BY <1>1, <1>4, <2>4, <2>5, <2>6, <2>7 DEF ProfilesInv
<1>8. CASE ToolRemoved
  <2>1. "tool" \in u.code /\ unit' = WithoutTool(u) BY <1>2, <1>8 DEF ToolRemoved, WithoutTool
  <2>2. Boots(WithoutTool(u)) BY <1>3, BootsWithout DEF Left
  <2>3. /\ WithoutTool(u) \in AgentUnits /\ Alike(u.text, WithoutTool(u).text) BY WithoutToolIs
  <2>4. ~Public(unit'.text) BY <1>3, <2>1, <2>3 DEF Public, Alike
  <2>5. Left(unit') BY <2>1, <2>2 DEF Left
  <2> QED BY <1>1, <1>4, <2>1, <2>3, <2>4, <2>5 DEF ProfilesInv
<1> QED BY <1>7, <1>8

LEMMA ProfilesStep == ProfilesInv /\ [ProfilesNext]_profileVars => ProfilesInv'
<1>. SUFFICES ASSUME ProfilesInv, [ProfilesNext]_profileVars PROVE ProfilesInv' OBVIOUS
<1>1. CASE UNCHANGED profileVars BY <1>1 DEF profileVars, ProfilesInv, OnlyBootTells
<1>2. CASE Create BY <1>2, CreateProfile
<1>3. ASSUME NEW p \in NextProfiles, Update(p) PROVE ProfilesInv' BY <1>3, UpdateProfile
<1>4. CASE BootEnds
  <2>1. /\ applying /\ applying' = FALSE /\ unit' = (IF Boots(unit) THEN unit ELSE was)
        /\ was' = NoUnit /\ UNCHANGED <<daemonEnv, baseLevel, switches>> BY <1>4 DEF BootEnds
  <2>2. unit' # NoUnit => Left(unit') BY <2>1 DEF ProfilesInv, Left
  <2> QED BY <2>1, <2>2 DEF ProfilesInv
<1>5. CASE ToolAdded \/ ToolRemoved BY <1>5, ToolsMove
<1>6. CASE Deleted
  <2>1. switches' \in 0..MaxSwitches BY <1>6, ProfilesAssumption DEF ProfilesInv, Deleted, Switch
  <2> QED BY <1>6, <2>1 DEF Deleted, ProfilesInv
<1>7. ASSUME NEW env \in FirstEnvs, NEW level \in FirstLevels, DaemonRestarts(env, level)
      PROVE  ProfilesInv'
  <2>1. switches' \in 0..MaxSwitches BY <1>7, ProfilesAssumption DEF ProfilesInv, DaemonRestarts, Switch
  <2>2. env \in Envs /\ level \in 1..6 BY ProfilesAssumption
  <2> QED BY <1>7, <2>1, <2>2 DEF DaemonRestarts, ProfilesInv
<1> QED BY <1>1, <1>2, <1>3, <1>4, <1>5, <1>6, <1>7 DEF ProfilesNext

\* The inductive invariant gives what the run checks.
LEMMA ProfilesHold == ProfilesInv => ProfilesTypeOK /\ ProfilesAreSound
<1>. SUFFICES ASSUME ProfilesInv PROVE ProfilesTypeOK /\ ProfilesAreSound OBVIOUS
<1>1. ProfilesTypeOK
  <2>1. \A u \in AgentUnits : /\ u.text.needs \subseteq Code /\ u.code \subseteq Code
                              /\ u.env \in Envs /\ u.level \in 1..6 BY DEF AgentUnits, Texts, Code
  <2> QED BY <2>1 DEF ProfilesInv, ProfilesTypeOK
<1>2. AcceptedBoots BY DEF ProfilesInv, AcceptedBoots
<1>3. LeftBehindBoots BY DEF ProfilesInv, LeftBehindBoots, Left
<1>4. PublicIsHeld
  <2>. SUFFICES ASSUME unit # NoUnit, Public(Interpolated(unit.text)), Boots(unit)
                PROVE  /\ Interpolated(unit.text).model \in unit.env.providers
                       /\ unit.code = {} /\ unit.text.backend = {"spec"} /\ ~unit.text.memory
                       /\ applying => unit.env = Forwarded(daemonEnv) BY DEF PublicIsHeld
  <2>1. PICK p \in Texts : p = unit.text BY DEF ProfilesInv, AgentUnits
  <2>2. Public(p) BY <2>1, InterpolatedIs DEF Public
  <2>3. Loads(p, unit.env, unit.code) BY <2>1 DEF Boots
  <2>4. "spec" \in p.backend /\ ~p.memory /\ ModelAllowed(p, unit.env) BY <2>2, <2>3 DEF Loads, PublicRules
  <2>5. Interpolated(p).model \in unit.env.providers BY <2>4, InterpolatedIs DEF ModelAllowed, Listed
  <2>6. p.backend = {"spec"}
    <3>1. Cardinality(p.backend) = 1 BY <2>3, InterpolatedIs DEF Loads, Valid, OneBackend
    <3>2. IsFiniteSet(p.backend)
      <4>1. IsFiniteSet({"spec"}) /\ IsFiniteSet({"executor"}) BY FS_Singleton
      <4>2. IsFiniteSet({"spec"} \cup {"executor"}) BY <4>1, FS_Union
      <4>3. p.backend \subseteq {"spec"} \cup {"executor"} BY DEF Texts
      <4> QED BY <4>2, <4>3, FS_Subset
    <3>3. \E x : p.backend = {x} BY <3>1, <3>2, FS_Singleton
    <3> QED BY <2>4, <3>3
  <2> QED BY <2>1, <2>2, <2>4, <2>5, <2>6 DEF ProfilesInv
<1> QED BY <1>1, <1>2, <1>3, <1>4 DEF ProfilesAreSound

------------------------
(* The memory scopes of the session plane (ScopeProvisioning) *)

\* What a call has done stays done: a caller that goes on to grant has its scope.
CallsAreDone ==
  \A c \in Callers :
    /\ caller[c].at \in {"grant", "worker"} => caller[c].project \in there
    /\ caller[c].at = "worker" => <<"daemon", caller[c].project>> \in grants
\* A lifecycle that reads all was made from what is cached, and that has what is known.
ReadsAreCached ==
  /\ lifecycles[Bound] # {} => allReads # {}
  /\ allReads # {} => sets.known \subseteq allReads
\* Without a token on file, every one that was minted was wasted.
TokensAreFiled ==
  /\ startingAt = "mint" => ~hasToken
  /\ ~hasToken => minted <= wasted
  /\ wasted <= losses

ScopesInv ==
  ScopesTypeOK /\ GrantsAreTrue /\ AllKnownAreRead /\ TokensAreReused
  /\ CallsAreDone /\ ReadsAreCached /\ TokensAreFiled

\* The types, in parts.
ScopeSets ==
  [provisioned : SUBSET Scopes, refused : SUBSET Scopes, ungranted : SUBSET Scopes,
   known : SUBSET Scopes]
CallerRecords ==
  [project : Projects \cup {Bound}, at : {"none", "regrant", "create", "grant", "worker"}]
StoreTypes ==
  /\ there \subseteq Scopes /\ grants \subseteq {"daemon", "worker"} \X Scopes
  /\ minted \in 0..(2 + MaxLosses) /\ hasToken \in BOOLEAN /\ hasOperator \in BOOLEAN
  /\ knownFile \subseteq Scopes /\ wasted \in 0..MaxLosses /\ losses \in 0..MaxLosses
PlaneTypes ==
  /\ allReads \subseteq Scopes /\ sets \in ScopeSets /\ lifecycles \in [Scopes -> SUBSET Scopes]
  /\ startingAt \in {"principal", "mint", "shared", "share", "up"}
  /\ credential \in {"missing", "state_dir", "created", "minted"}
  /\ caller \in [Callers -> CallerRecords]

LEMMA ScopesTypes == ScopesTypeOK <=> StoreTypes /\ PlaneTypes
BY DEF ScopesTypeOK, StoreTypes, PlaneTypes, ScopeSets, CallerRecords

LEMMA ScopesStart == ScopesInit => ScopesInv
<1>. SUFFICES ASSUME ScopesInit PROVE ScopesInv OBVIOUS
<1>1. StoreTypes
  <2>1. there \subseteq Scopes /\ grants \subseteq {"daemon", "worker"} \X Scopes /\ knownFile \subseteq Scopes
    BY DEF ScopesInit, Scopes
  <2>2. minted \in 0..(2 + MaxLosses) /\ wasted \in 0..MaxLosses /\ losses \in 0..MaxLosses
    BY ScopesAssumption DEF ScopesInit
  <2>3. hasToken \in BOOLEAN /\ hasOperator \in BOOLEAN BY DEF ScopesInit
  <2> QED BY <2>1, <2>2, <2>3 DEF StoreTypes
<1>2. PlaneTypes
  <2>1. sets \in ScopeSets BY DEF ScopesInit, Empty, ScopeSets
  <2>2. NoCaller \in CallerRecords BY DEF NoCaller, CallerRecords
  <2> QED BY <2>1, <2>2 DEF ScopesInit, Started, PlaneTypes
<1>3. sets.provisioned = {} /\ sets.known = {} /\ allReads = {} /\ lifecycles[Bound] = {}
  BY DEF ScopesInit, Started, Empty, Scopes
<1>4. \A c \in Callers : caller[c].at = "none" BY DEF ScopesInit, Started, NoCaller
<1>5. ~hasToken /\ minted = 0 /\ wasted = 0 /\ losses = 0 /\ startingAt = "principal" BY DEF ScopesInit, Started
<1> QED BY <1>1, <1>2, <1>3, <1>4, <1>5, ScopesTypes
     DEF ScopesInv, GrantsAreTrue, AllKnownAreRead, TokensAreReused, CallsAreDone, ReadsAreCached,
         TokensAreFiled

\* What a loss costs.
LEMMA LossesKept ==
  ASSUME ScopesInv, Loss \/ losses' = losses
  PROVE  losses' \in 0..MaxLosses /\ losses <= losses'
<1>1. losses \in 0..MaxLosses /\ MaxLosses \in Nat BY ScopesAssumption, ScopesTypes DEF ScopesInv, StoreTypes
<1> QED BY <1>1 DEF Loss

\* The lifecycle a caller gets leaves the one that reads all with all that is known.
LEMMA AnsweredKeeps ==
  ASSUME ScopesInv, NEW c \in Callers, NEW p \in Projects \cup {Bound}, NEW now \in ScopeSets,
         now.known = sets.known, Answered(c, p, now)
  PROVE  /\ sets' \in ScopeSets /\ allReads' \subseteq Scopes
         /\ lifecycles' \in [Scopes -> SUBSET Scopes]
         /\ sets'.provisioned = now.provisioned /\ sets'.ungranted = now.ungranted
         /\ AllKnownAreRead' /\ ReadsAreCached'
         /\ caller' = [caller EXCEPT ![c] = NoCaller]
<1>. DEFINE own0 == p = Bound \/ p \in now.provisioned
            after0 == IF own0 THEN [now EXCEPT !.known = @ \cup {p}] ELSE now
            kept0 == IF own0 THEN Forgotten(p, now) ELSE lifecycles
            memo0 == IF own0 /\ p \notin now.known THEN {} ELSE allReads
            all0 == IF memo0 = {} THEN Assigned(after0.known) ELSE memo0
            write0 == IF own0 THEN p ELSE Fallback
            reads0 == IF p = Bound THEN all0 ELSE {Shared, write0}
<1>1. /\ sets' = after0 /\ allReads' = IF p = Bound THEN all0 ELSE memo0
      /\ lifecycles' = IF kept0[write0] = {} THEN [kept0 EXCEPT ![write0] = reads0] ELSE kept0
      /\ caller' = [caller EXCEPT ![c] = NoCaller] BY DEF Answered
<1>. HIDE DEF own0, after0, kept0, memo0, all0, write0, reads0
<1>2. PICK own, after, kept, memo, all, write, reads :
        /\ own = own0 /\ after = after0 /\ kept = kept0 /\ memo = memo0 /\ all = all0
        /\ write = write0 /\ reads = reads0 OBVIOUS
<1>3. /\ sets' = after /\ allReads' = (IF p = Bound THEN all ELSE memo)
      /\ lifecycles' = (IF kept[write] = {} THEN [kept EXCEPT ![write] = reads] ELSE kept) BY <1>1, <1>2
<1>4. /\ own <=> (p = Bound \/ p \in now.provisioned)
      /\ after = IF own THEN [now EXCEPT !.known = @ \cup {p}] ELSE now
      /\ kept = (IF own THEN Forgotten(p, now) ELSE lifecycles)
      /\ memo = (IF own /\ p \notin now.known THEN {} ELSE allReads)
      /\ all = (IF memo = {} THEN Assigned(after.known) ELSE memo)
      /\ write = (IF own THEN p ELSE Fallback)
      /\ reads = (IF p = Bound THEN all ELSE {Shared, write})
  <2>1. own <=> (p = Bound \/ p \in now.provisioned) BY <1>2 DEF own0
  <2>2. after = IF own THEN [now EXCEPT !.known = @ \cup {p}] ELSE now BY <1>2 DEF after0
  <2>3. kept = (IF own THEN Forgotten(p, now) ELSE lifecycles) BY <1>2 DEF kept0
  <2>4. memo = (IF own /\ p \notin now.known THEN {} ELSE allReads) BY <1>2 DEF memo0
  <2>5. all = (IF memo = {} THEN Assigned(after.known) ELSE memo) BY <1>2 DEF all0
  <2>6. write = (IF own THEN p ELSE Fallback) BY <1>2 DEF write0
  <2>7. reads = (IF p = Bound THEN all ELSE {Shared, write}) BY <1>2 DEF reads0
  <2> QED BY <2>1, <2>2, <2>3, <2>4, <2>5, <2>6, <2>7
<1>5. /\ lifecycles \in [Scopes -> SUBSET Scopes] /\ allReads \subseteq Scopes
      /\ lifecycles[Bound] # {} => allReads # {} /\ sets.known \subseteq lifecycles[Bound]
      /\ allReads # {} => sets.known \subseteq allReads
  BY ScopesTypes DEF ScopesInv, PlaneTypes, AllKnownAreRead, ReadsAreCached
<1>6. p \in Scopes /\ Bound \in Scopes /\ Shared \in Scopes /\ Fallback \in Scopes /\ Fallback # Bound
  BY ScopesAssumption DEF Scopes
<1>7. /\ now = [provisioned |-> now.provisioned, refused |-> now.refused,
                ungranted |-> now.ungranted, known |-> now.known]
      /\ now.provisioned \subseteq Scopes /\ now.refused \subseteq Scopes
      /\ now.ungranted \subseteq Scopes /\ now.known \subseteq Scopes BY DEF ScopeSets
<1>8. /\ after \in ScopeSets /\ after.provisioned = now.provisioned
      /\ after.ungranted = now.ungranted /\ after.known = IF own THEN now.known \cup {p} ELSE now.known
  BY <1>4, <1>6, <1>7 DEF ScopeSets
<1>9. /\ kept \in [Scopes -> SUBSET Scopes] /\ memo \subseteq Scopes /\ all \subseteq Scopes
      /\ write \in Scopes /\ reads \subseteq Scopes
  <2>1. kept \in [Scopes -> SUBSET Scopes] BY <1>4, <1>5 DEF Forgotten
  <2>2. after.known \subseteq Scopes BY <1>8 DEF ScopeSets
  <2> QED BY <1>4, <1>5, <1>6, <2>1, <2>2 DEF Assigned
<1>10. lifecycles' \in [Scopes -> SUBSET Scopes] /\ allReads' \subseteq Scopes BY <1>3, <1>9
<1>11. all # {} /\ after.known \subseteq all
  <2>1. CASE memo = {} BY <1>4, <2>1 DEF Assigned
  <2>2. CASE memo # {} BY <1>4, <1>5, <1>8, <2>2
  <2> QED BY <2>1, <2>2
<1>12. /\ kept[Bound] # {} => memo # {} /\ after.known \subseteq kept[Bound]
       /\ memo # {} => after.known \subseteq memo
  <2>1. CASE ~own BY <1>4, <1>5, <1>8, <2>1
  <2>2. CASE own /\ p \in now.known BY <1>4, <1>5, <1>8, <2>2 DEF Forgotten
  <2>3. CASE own /\ p \notin now.known
    <3>1. kept[Bound] = {} BY <1>4, <1>5, <1>6, <2>3 DEF Forgotten
    <3> QED BY <1>4, <2>3, <3>1
  <2> QED BY <2>1, <2>2, <2>3
<1>13. write = Bound <=> p = Bound BY <1>4, <1>6
<1>14. lifecycles'[Bound] \in {kept[Bound], all} /\ (p # Bound => lifecycles'[Bound] = kept[Bound])
  BY <1>3, <1>4, <1>6, <1>9, <1>13
<1>15. AllKnownAreRead' BY <1>3, <1>11, <1>12, <1>14 DEF AllKnownAreRead
<1>16. ReadsAreCached' BY <1>3, <1>11, <1>12, <1>14 DEF ReadsAreCached
<1> QED BY <1>1, <1>3, <1>8, <1>10, <1>15, <1>16

\* Whether or not a project is to be provisioned first.
LEMMA DecidesKeeps ==
  ASSUME ScopesInv, NEW c \in Callers, NEW p \in Projects \cup {Bound}, NEW now \in ScopeSets,
         now.known = sets.known, Decides(c, p, now)
  PROVE  /\ sets' \in ScopeSets /\ allReads' \subseteq Scopes
         /\ lifecycles' \in [Scopes -> SUBSET Scopes] /\ knownFile' \subseteq Scopes
         /\ sets'.provisioned = now.provisioned /\ sets'.ungranted = now.ungranted
         /\ AllKnownAreRead' /\ ReadsAreCached'
         /\ \E r \in CallerRecords : r.at \in {"none", "create"} /\ caller' = [caller EXCEPT ![c] = r]
<1>0. knownFile \subseteq Scopes BY ScopesTypes DEF ScopesInv, StoreTypes
<1>1. CASE p = Bound \/ p \in now.provisioned \cup now.refused \/ ~hasOperator
  <2>1. PICK after : after = IF p = Bound \/ p \in now.provisioned THEN now
                             ELSE [now EXCEPT !.refused = @ \cup {p}] OBVIOUS
  <2>2. Answered(c, p, after) /\ knownFile' \in {knownFile, sets'.known} BY <1>1, <2>1 DEF Decides
  <2>3. /\ after \in ScopeSets /\ after.known = sets.known /\ after.provisioned = now.provisioned
        /\ after.ungranted = now.ungranted BY <2>1 DEF ScopeSets, Scopes
  <2>4. /\ sets' \in ScopeSets /\ allReads' \subseteq Scopes
        /\ lifecycles' \in [Scopes -> SUBSET Scopes]
        /\ sets'.provisioned = after.provisioned /\ sets'.ungranted = after.ungranted
        /\ AllKnownAreRead' /\ ReadsAreCached'
        /\ caller' = [caller EXCEPT ![c] = NoCaller] BY <2>2, <2>3, AnsweredKeeps
  <2>5. knownFile' \subseteq Scopes BY <1>0, <2>2, <2>4 DEF ScopeSets
  <2>6. NoCaller \in CallerRecords /\ NoCaller.at = "none" BY DEF NoCaller, CallerRecords
  <2> QED BY <2>3, <2>4, <2>5, <2>6
<1>2. CASE ~(p = Bound \/ p \in now.provisioned \cup now.refused \/ ~hasOperator)
  <2>1. /\ caller' = [caller EXCEPT ![c] = [project |-> p, at |-> "create"]]
        /\ sets' = now /\ UNCHANGED <<allReads, lifecycles, knownFile>> BY <1>2 DEF Decides
  <2>2. [project |-> p, at |-> "create"] \in CallerRecords BY DEF CallerRecords
  <2>3. /\ allReads' \subseteq Scopes /\ lifecycles' \in [Scopes -> SUBSET Scopes]
        /\ AllKnownAreRead' /\ ReadsAreCached'
    BY <2>1, ScopesTypes DEF ScopesInv, PlaneTypes, AllKnownAreRead, ReadsAreCached
  <2> QED BY <1>0, <2>1, <2>2, <2>3
<1> QED BY <1>1, <1>2

\* What is left to show of a step of a caller.
LEMMA CallerStep ==
  ASSUME ScopesInv, NEW c \in Callers, NEW r \in CallerRecords,
         caller' = [caller EXCEPT ![c] = r],
         r.at \in {"grant", "worker"} => r.project \in there',
         r.at = "worker" => <<"daemon", r.project>> \in grants',
         there \subseteq there', there' \subseteq Scopes,
         grants \subseteq grants', grants' \subseteq {"daemon", "worker"} \X Scopes,
         knownFile' \subseteq Scopes, Loss \/ losses' = losses,
         UNCHANGED <<hasOperator, minted, hasToken, wasted, startingAt, credential>>,
         sets' \in ScopeSets, allReads' \subseteq Scopes, lifecycles' \in [Scopes -> SUBSET Scopes],
         GrantsAreTrue', AllKnownAreRead', ReadsAreCached'
  PROVE  ScopesInv'
<1>1. StoreTypes /\ PlaneTypes /\ CallsAreDone /\ TokensAreFiled /\ TokensAreReused BY ScopesTypes DEF ScopesInv
<1>2. losses' \in 0..MaxLosses /\ losses <= losses' BY LossesKept
<1>3. StoreTypes' BY <1>1, <1>2 DEF StoreTypes
<1>4. PlaneTypes' BY <1>1 DEF PlaneTypes
<1>5. CallsAreDone'
  <2>. SUFFICES ASSUME NEW d \in Callers
                PROVE  /\ caller'[d].at \in {"grant", "worker"} => caller'[d].project \in there'
                       /\ caller'[d].at = "worker" => <<"daemon", caller'[d].project>> \in grants' BY DEF CallsAreDone
  <2>1. caller'[d] = IF d = c THEN r ELSE caller[d] BY <1>1 DEF PlaneTypes
  <2> QED BY <1>1, <2>1 DEF CallsAreDone
<1>6. TokensAreFiled' /\ TokensAreReused'
  <2>1. wasted \in 0..MaxLosses /\ losses \in 0..MaxLosses /\ MaxLosses \in Nat
    BY <1>1, ScopesAssumption DEF StoreTypes
  <2> QED BY <1>1, <1>2, <2>1 DEF TokensAreFiled, TokensAreReused
<1>7. ScopesTypeOK'
  <2>1. ScopesTypeOK' <=> StoreTypes' /\ PlaneTypes' BY ScopesTypes, PTL
  <2> QED BY <1>3, <1>4, <2>1
<1> QED BY <1>5, <1>6, <1>7 DEF ScopesInv

\* A call's cost, and what the store has after it.
LEMMA StoreGrows ==
  ASSUME ScopesInv, NEW a \in ScopeAnswers, NEW s \in Scopes, NEW who \in {"daemon", "worker"}
  PROVE  /\ Creates(s, a) => /\ there \subseteq there' /\ there' \subseteq Scopes
                             /\ a = "done" => s \in there'
         /\ Grants(who, s, a) => /\ grants \subseteq grants'
                                 /\ grants' \subseteq {"daemon", "worker"} \X Scopes
                                 /\ a = "done" => <<who, s>> \in grants'
         /\ Costs(a) => Loss \/ losses' = losses
<1>1. there \subseteq Scopes /\ grants \subseteq {"daemon", "worker"} \X Scopes
  BY ScopesTypes DEF ScopesInv, StoreTypes
<1> QED BY <1>1 DEF Creates, Grants, Costs, Happens

\* The caller's project.
LEMMA CallersProject ==
  ASSUME ScopesInv, NEW c \in Callers
  PROVE  /\ caller[c].project \in Projects \cup {Bound} /\ caller[c].project \in Scopes
         /\ sets \in ScopeSets /\ there \subseteq Scopes /\ grants \subseteq {"daemon", "worker"} \X Scopes
         /\ knownFile \subseteq Scopes BY ScopesTypes DEF ScopesInv, StoreTypes, PlaneTypes, CallerRecords, Scopes

\* What is provisioned stays so when the store only grows.
LEMMA GrantsStay ==
  ASSUME ScopesInv, there \subseteq there', grants \subseteq grants',
         sets'.provisioned = sets.provisioned,
         \A s \in sets.ungranted : s \in sets'.ungranted \/ <<"worker", s>> \in grants'
  PROVE  GrantsAreTrue' BY DEF ScopesInv, GrantsAreTrue

LEMMA UseScopeKeeps ==
  ASSUME ScopesInv, NEW c \in Callers, NEW p \in Projects \cup {Bound}, UseScope(c, p)
  PROVE  ScopesInv'
<1>1. UNCHANGED <<hasOperator, there, grants, minted, hasToken, wasted, startingAt, credential, losses>>
  BY DEF UseScope
<1>2. /\ sets \in ScopeSets /\ there \subseteq Scopes /\ knownFile \subseteq Scopes
      /\ grants \subseteq {"daemon", "worker"} \X Scopes BY CallersProject
<1>3. CASE p \in sets.ungranted /\ hasOperator
  <2>1. PICK r : r = [project |-> p, at |-> "regrant"] OBVIOUS
  <2>2. r \in CallerRecords /\ r.at = "regrant" BY <2>1 DEF CallerRecords
  <2>3. caller' = [caller EXCEPT ![c] = r] /\ UNCHANGED <<sets, allReads, lifecycles, knownFile>>
    BY <1>3, <2>1 DEF UseScope
  <2>4. GrantsAreTrue' BY <1>1, <2>3, GrantsStay
  <2>5. /\ allReads' \subseteq Scopes /\ lifecycles' \in [Scopes -> SUBSET Scopes]
        /\ AllKnownAreRead' /\ ReadsAreCached'
    BY <2>3, ScopesTypes DEF ScopesInv, PlaneTypes, AllKnownAreRead, ReadsAreCached
  <2> QED BY <1>1, <1>2, <2>2, <2>3, <2>4, <2>5, CallerStep
<1>4. CASE ~(p \in sets.ungranted /\ hasOperator)
  <2>1. Decides(c, p, sets) BY <1>4 DEF UseScope
  <2>2. /\ sets' \in ScopeSets /\ allReads' \subseteq Scopes
        /\ lifecycles' \in [Scopes -> SUBSET Scopes] /\ knownFile' \subseteq Scopes
        /\ sets'.provisioned = sets.provisioned /\ sets'.ungranted = sets.ungranted
        /\ AllKnownAreRead' /\ ReadsAreCached'
        /\ \E r \in CallerRecords : r.at \in {"none", "create"} /\ caller' = [caller EXCEPT ![c] = r]
    BY <1>2, <2>1, DecidesKeeps
  <2>3. PICK r \in CallerRecords : r.at \in {"none", "create"} /\ caller' = [caller EXCEPT ![c] = r] BY <2>2
  <2>4. GrantsAreTrue' BY <1>1, <2>2, GrantsStay
  <2> QED BY <1>1, <1>2, <2>2, <2>3, <2>4, CallerStep
<1> QED BY <1>3, <1>4

\* What a grant to the worker leaves of the sets.
LEMMA NotedIs ==
  ASSUME ScopesInv, NEW p \in Scopes, NEW a \in ScopeAnswers
  PROVE  /\ Noted(p, a) \in ScopeSets /\ Noted(p, a).known = sets.known
         /\ Noted(p, a).provisioned = sets.provisioned
         /\ Noted(p, a).ungranted = Ungranted(p, a)
         /\ \A s \in sets.ungranted : s \in Ungranted(p, a) \/ (s = p /\ a = "done")
         /\ p \in Ungranted(p, a) \/ a = "done"
<1>1. sets \in ScopeSets BY ScopesTypes DEF ScopesInv, PlaneTypes
<1>2. PICK u : u = Ungranted(p, a) OBVIOUS
<1>3. u \subseteq Scopes BY <1>1, <1>2 DEF Ungranted, ScopeSets
<1>4. Noted(p, a) = [sets EXCEPT !.ungranted = u] BY <1>2 DEF Noted
<1>5. /\ Noted(p, a) \in ScopeSets /\ Noted(p, a).known = sets.known
      /\ Noted(p, a).provisioned = sets.provisioned /\ Noted(p, a).ungranted = u BY <1>1, <1>3, <1>4 DEF ScopeSets
<1> QED BY <1>2, <1>5 DEF Ungranted

LEMMA RegrantKeeps ==
  ASSUME ScopesInv, NEW c \in Callers, NEW a \in ScopeAnswers, GrantWorkerAgain(c, a)
  PROVE  ScopesInv'
<1>1. PICK p : p = caller[c].project OBVIOUS
<1>2. /\ p \in Projects \cup {Bound} /\ p \in Scopes /\ sets \in ScopeSets /\ there \subseteq Scopes
      /\ knownFile \subseteq Scopes BY <1>1, CallersProject
<1>3. /\ UNCHANGED <<hasOperator, there, minted, hasToken, wasted, startingAt, credential>>
      /\ Costs(a) /\ Grants("worker", p, a) /\ Decides(c, p, Noted(p, a)) BY <1>1 DEF GrantWorkerAgain
<1>4. PICK now : now = Noted(p, a) OBVIOUS
<1>5. /\ now \in ScopeSets /\ now.known = sets.known /\ now.provisioned = sets.provisioned
      /\ \A s \in sets.ungranted : s \in now.ungranted \/ (s = p /\ a = "done") BY <1>2, <1>4, NotedIs
<1>6. /\ sets' \in ScopeSets /\ allReads' \subseteq Scopes
      /\ lifecycles' \in [Scopes -> SUBSET Scopes] /\ knownFile' \subseteq Scopes
      /\ sets'.provisioned = now.provisioned /\ sets'.ungranted = now.ungranted
      /\ AllKnownAreRead' /\ ReadsAreCached'
      /\ \E r \in CallerRecords : r.at \in {"none", "create"} /\ caller' = [caller EXCEPT ![c] = r]
  BY <1>2, <1>3, <1>4, <1>5, DecidesKeeps
<1>7. PICK r \in CallerRecords : r.at \in {"none", "create"} /\ caller' = [caller EXCEPT ![c] = r] BY <1>6
<1>8. /\ grants \subseteq grants' /\ grants' \subseteq {"daemon", "worker"} \X Scopes
      /\ a = "done" => <<"worker", p>> \in grants'
      /\ Loss \/ losses' = losses BY <1>2, <1>3, StoreGrows
<1>9. GrantsAreTrue' BY <1>3, <1>5, <1>6, <1>8, GrantsStay
<1> QED BY <1>2, <1>3, <1>6, <1>7, <1>8, <1>9, CallerStep

\* A caller that goes on, or leaves the scope as it is.
LEMMA GoesOnKeeps ==
  ASSUME ScopesInv, NEW c \in Callers, NEW p \in Projects \cup {Bound}, NEW a \in ScopeAnswers,
         NEW place \in {"grant", "worker"}, GoesOn(c, p, a, place)
  PROVE  /\ sets' \in ScopeSets /\ allReads' \subseteq Scopes
         /\ lifecycles' \in [Scopes -> SUBSET Scopes] /\ knownFile' \subseteq Scopes
         /\ sets'.provisioned = sets.provisioned /\ sets'.ungranted = sets.ungranted
         /\ AllKnownAreRead' /\ ReadsAreCached'
         /\ \E r \in CallerRecords :
              /\ r.at = "none" \/ (r.at = place /\ r.project = p /\ a = "done")
              /\ caller' = [caller EXCEPT ![c] = r]
<1>0. sets \in ScopeSets /\ knownFile \subseteq Scopes BY CallersProject
<1>1. CASE a = "done"
  <2>1. /\ caller' = [caller EXCEPT ![c] = [project |-> p, at |-> place]]
        /\ UNCHANGED <<sets, allReads, lifecycles, knownFile>> BY <1>1 DEF GoesOn
  <2>2. [project |-> p, at |-> place] \in CallerRecords BY DEF CallerRecords
  <2>3. /\ allReads' \subseteq Scopes /\ lifecycles' \in [Scopes -> SUBSET Scopes]
        /\ AllKnownAreRead' /\ ReadsAreCached'
    BY <2>1, ScopesTypes DEF ScopesInv, PlaneTypes, AllKnownAreRead, ReadsAreCached
  <2> QED BY <1>0, <1>1, <2>1, <2>2, <2>3
<1>2. CASE a # "done"
  <2>1. PICK now : now = IF a = "refused" THEN [sets EXCEPT !.refused = @ \cup {p}] ELSE sets OBVIOUS
  <2>2. Answered(c, p, now) /\ knownFile' \in {knownFile, sets'.known} BY <1>2, <2>1 DEF GoesOn, LeavesIt
  <2>3. /\ now \in ScopeSets /\ now.known = sets.known /\ now.provisioned = sets.provisioned
        /\ now.ungranted = sets.ungranted BY <1>0, <2>1 DEF ScopeSets, Scopes
  <2>4. /\ sets' \in ScopeSets /\ allReads' \subseteq Scopes
        /\ lifecycles' \in [Scopes -> SUBSET Scopes]
        /\ sets'.provisioned = now.provisioned /\ sets'.ungranted = now.ungranted
        /\ AllKnownAreRead' /\ ReadsAreCached'
        /\ caller' = [caller EXCEPT ![c] = NoCaller] BY <2>2, <2>3, AnsweredKeeps
  <2>5. knownFile' \subseteq Scopes BY <1>0, <2>2, <2>4 DEF ScopeSets
  <2>6. NoCaller \in CallerRecords /\ NoCaller.at = "none" BY DEF NoCaller, CallerRecords
  <2> QED BY <2>3, <2>4, <2>5, <2>6
<1> QED BY <1>1, <1>2

LEMMA CreateKeeps ==
  ASSUME ScopesInv, NEW c \in Callers, NEW a \in ScopeAnswers,
         CreateScope(c, a) \/ GrantDaemon(c, a)
  PROVE  ScopesInv'
<1>1. PICK p : p = caller[c].project OBVIOUS
<1>2. /\ p \in Projects \cup {Bound} /\ p \in Scopes /\ sets \in ScopeSets /\ there \subseteq Scopes
      /\ knownFile \subseteq Scopes /\ grants \subseteq {"daemon", "worker"} \X Scopes BY <1>1, CallersProject
<1>3. UNCHANGED <<hasOperator, minted, hasToken, wasted, startingAt, credential>> /\ Costs(a)
  BY DEF CreateScope, GrantDaemon
<1>4. PICK place \in {"grant", "worker"} :
        /\ GoesOn(c, p, a, place)
        /\ \/ place = "grant" /\ Creates(p, a) /\ grants' = grants
           \/ place = "worker" /\ caller[c].at = "grant" /\ Grants("daemon", p, a) /\ there' = there
  BY <1>1 DEF CreateScope, GrantDaemon
<1>5. /\ sets' \in ScopeSets /\ allReads' \subseteq Scopes
      /\ lifecycles' \in [Scopes -> SUBSET Scopes] /\ knownFile' \subseteq Scopes
      /\ sets'.provisioned = sets.provisioned /\ sets'.ungranted = sets.ungranted
      /\ AllKnownAreRead' /\ ReadsAreCached'
      /\ \E r \in CallerRecords :
           /\ r.at = "none" \/ (r.at = place /\ r.project = p /\ a = "done")
           /\ caller' = [caller EXCEPT ![c] = r] BY <1>2, <1>4, GoesOnKeeps
<1>6. PICK r \in CallerRecords :
        /\ r.at = "none" \/ (r.at = place /\ r.project = p /\ a = "done")
        /\ caller' = [caller EXCEPT ![c] = r] BY <1>5
<1>7. /\ there \subseteq there' /\ there' \subseteq Scopes /\ grants \subseteq grants'
      /\ grants' \subseteq {"daemon", "worker"} \X Scopes /\ (Loss \/ losses' = losses)
      /\ r.at \in {"grant", "worker"} => r.project \in there'
      /\ r.at = "worker" => <<"daemon", r.project>> \in grants'
  <2>1. caller[c].at \in {"grant", "worker"} => p \in there BY <1>1 DEF ScopesInv, CallsAreDone
  <2>2. /\ Creates(p, a) => /\ there \subseteq there' /\ there' \subseteq Scopes
                            /\ a = "done" => p \in there'
        /\ Grants("daemon", p, a) => /\ grants \subseteq grants'
                                     /\ grants' \subseteq {"daemon", "worker"} \X Scopes
                                     /\ a = "done" => <<"daemon", p>> \in grants'
        /\ Loss \/ losses' = losses BY <1>2, <1>3, StoreGrows
  <2> QED BY <1>2, <1>4, <1>6, <2>1, <2>2
<1>8. GrantsAreTrue' BY <1>5, <1>7, GrantsStay
<1> QED BY <1>3, <1>5, <1>6, <1>7, <1>8, CallerStep

LEMMA GrantWorkerKeeps ==
  ASSUME ScopesInv, NEW c \in Callers, NEW a \in ScopeAnswers, GrantWorker(c, a)
  PROVE  ScopesInv'
<1>1. PICK p : p = caller[c].project OBVIOUS
<1>2. /\ p \in Projects \cup {Bound} /\ p \in Scopes /\ there \subseteq Scopes
      /\ knownFile \subseteq Scopes BY <1>1, CallersProject
<1>3. PICK now : now = [Noted(p, a) EXCEPT !.provisioned = @ \cup {p}] OBVIOUS
<1>4. /\ UNCHANGED <<hasOperator, there, minted, hasToken, wasted, startingAt, credential>>
      /\ Costs(a) /\ Grants("worker", p, a) /\ caller[c].at = "worker"
      /\ Answered(c, p, now) /\ knownFile' \in {knownFile, sets'.known} BY <1>1, <1>3 DEF GrantWorker
<1>5. PICK n : n = Noted(p, a) OBVIOUS
<1>6. /\ n \in ScopeSets /\ n.known = sets.known /\ n.provisioned = sets.provisioned
      /\ \A s \in sets.ungranted : s \in n.ungranted \/ (s = p /\ a = "done")
      /\ p \in n.ungranted \/ a = "done" BY <1>2, <1>5, NotedIs
<1>7. /\ now \in ScopeSets /\ now.known = sets.known /\ now.ungranted = n.ungranted
      /\ now.provisioned = sets.provisioned \cup {p} BY <1>2, <1>3, <1>5, <1>6 DEF ScopeSets
<1>8. /\ sets' \in ScopeSets /\ allReads' \subseteq Scopes
      /\ lifecycles' \in [Scopes -> SUBSET Scopes]
      /\ sets'.provisioned = now.provisioned /\ sets'.ungranted = now.ungranted
      /\ AllKnownAreRead' /\ ReadsAreCached'
      /\ caller' = [caller EXCEPT ![c] = NoCaller] BY <1>2, <1>4, <1>7, AnsweredKeeps
<1>9. knownFile' \subseteq Scopes BY <1>2, <1>4, <1>8 DEF ScopeSets
<1>10. NoCaller \in CallerRecords /\ NoCaller.at = "none" BY DEF NoCaller, CallerRecords
<1>11. /\ grants \subseteq grants' /\ grants' \subseteq {"daemon", "worker"} \X Scopes
       /\ a = "done" => <<"worker", p>> \in grants'
       /\ Loss \/ losses' = losses BY <1>2, <1>4, StoreGrows
<1>12. GrantsAreTrue'
  <2>1. p \in there /\ <<"daemon", p>> \in grants BY <1>1, <1>4 DEF ScopesInv, CallsAreDone
  <2>2. GrantsAreTrue BY DEF ScopesInv
  <2> QED BY <1>4, <1>6, <1>7, <1>8, <1>11, <2>1, <2>2 DEF GrantsAreTrue
<1> QED BY <1>2, <1>4, <1>8, <1>9, <1>10, <1>11, <1>12, CallerStep

LEMMA WithinTokens ==
  ASSUME NEW m \in Nat, NEW w \in Nat, NEW most \in Nat, m <= 1 + w, w <= most
  PROVE  w \in 0..most /\ m \in 0..(2 + most) OBVIOUS

\* What is left to show of a step of the daemon's start.
LEMMA TokenStep ==
  ASSUME ScopesInv, UNCHANGED <<hasOperator, knownFile, sets, allReads, lifecycles, caller>>,
         there \subseteq there', there' \subseteq Scopes, grants \subseteq grants',
         grants' \subseteq {"daemon", "worker"} \X Scopes,
         startingAt' \in {"principal", "mint", "shared", "share", "up"},
         credential' \in {"missing", "state_dir", "created", "minted"},
         minted' \in Nat, wasted' \in Nat, hasToken' \in BOOLEAN, losses' \in 0..MaxLosses,
         TokensAreFiled', TokensAreReused'
  PROVE  ScopesInv'
<1>1. StoreTypes /\ PlaneTypes BY ScopesTypes DEF ScopesInv
<1>2. MaxLosses \in Nat BY ScopesAssumption
<1>3. wasted' \in 0..MaxLosses /\ minted' \in 0..(2 + MaxLosses)
  <2>1. wasted' <= losses' /\ minted' <= 1 + wasted' BY DEF TokensAreFiled, TokensAreReused
  <2>2. wasted' \in Nat /\ minted' \in Nat /\ losses' \in 0..MaxLosses OBVIOUS
  <2>3. wasted' <= MaxLosses BY <1>2, <2>1, <2>2
  <2> QED BY <1>2, <2>1, <2>2, <2>3, WithinTokens
<1>4. StoreTypes' /\ PlaneTypes' BY <1>1, <1>3 DEF StoreTypes, PlaneTypes
<1>5. ScopesTypeOK'
  <2>1. ScopesTypeOK' <=> StoreTypes' /\ PlaneTypes' BY ScopesTypes, PTL
  <2> QED BY <1>4, <2>1
<1>6. GrantsAreTrue' /\ AllKnownAreRead' /\ CallsAreDone' /\ ReadsAreCached'
  BY DEF ScopesInv, GrantsAreTrue, AllKnownAreRead, CallsAreDone, ReadsAreCached
<1> QED BY <1>5, <1>6 DEF ScopesInv

\* The numbers of tokens.
LEMMA Tokens ==
  ASSUME ScopesInv
  PROVE  /\ minted \in Nat /\ wasted \in Nat /\ losses \in 0..MaxLosses /\ losses \in Nat
         /\ hasToken \in BOOLEAN /\ MaxLosses \in Nat /\ minted <= 1 + wasted /\ wasted <= losses
         /\ ~hasToken => minted <= wasted
         /\ startingAt = "mint" => ~hasToken
         /\ there \subseteq Scopes /\ grants \subseteq {"daemon", "worker"} \X Scopes
         /\ credential \in {"missing", "state_dir", "created", "minted"}
<1>1. /\ minted \in 0..(2 + MaxLosses) /\ wasted \in 0..MaxLosses /\ losses \in 0..MaxLosses
      /\ hasToken \in BOOLEAN /\ there \subseteq Scopes
      /\ grants \subseteq {"daemon", "worker"} \X Scopes BY ScopesTypes DEF ScopesInv, StoreTypes
<1>2. credential \in {"missing", "state_dir", "created", "minted"} BY ScopesTypes DEF ScopesInv, PlaneTypes
<1> QED BY <1>1, <1>2, ScopesAssumption DEF ScopesInv, TokensAreFiled, TokensAreReused

LEMMA MintsKeeps ==
  ASSUME ScopesInv, ~hasToken, NEW a \in ScopeAnswers, NEW source \in {"created", "minted"},
         Mints(a, source)
  PROVE  ScopesInv'
<1>1. /\ UNCHANGED <<hasOperator, there, grants, knownFile, sets, allReads, lifecycles, caller>>
      /\ Costs(a) /\ startingAt' = "shared" /\ hasToken' = (a = "done")
      /\ credential' \in {"missing", "created", "minted"}
      /\ minted' = IF Happens(a) THEN minted + 1 ELSE minted
      /\ wasted' = IF a = "lost" THEN wasted + 1 ELSE wasted BY DEF Mints, Credential
<1>2. Loss \/ losses' = losses BY <1>1 DEF Costs
<1>3. losses' \in 0..MaxLosses /\ losses <= losses' BY <1>2, LossesKept
<1>4. a = "lost" => losses' = losses + 1 BY <1>1 DEF Costs, Loss
<1>5. TokensAreFiled' /\ TokensAreReused'
  <2>1. minted \in Nat /\ wasted \in Nat /\ losses \in Nat /\ minted <= wasted /\ wasted <= losses BY Tokens
  <2>2. losses' \in Nat BY <1>3, Tokens
  <2>3. CASE a = "done"
    <3>1. hasToken' /\ minted' = minted + 1 /\ wasted' = wasted BY <1>1, <2>3 DEF Happens
    <3> QED BY <1>1, <1>3, <2>1, <2>2, <3>1 DEF TokensAreFiled, TokensAreReused
  <2>4. CASE a = "lost"
    <3>1. minted' = minted + 1 /\ wasted' = wasted + 1 BY <1>1, <2>4 DEF Happens
    <3> QED BY <1>1, <1>4, <2>1, <2>4, <3>1 DEF TokensAreFiled, TokensAreReused
  <2>5. CASE a \notin {"done", "lost"}
    <3>1. minted' = minted /\ wasted' = wasted BY <1>1, <2>5 DEF Happens
    <3> QED BY <1>1, <1>3, <2>1, <2>2, <3>1 DEF TokensAreFiled, TokensAreReused
  <2> QED BY <2>3, <2>4, <2>5
<1>6. minted' \in Nat /\ wasted' \in Nat BY <1>1, Tokens
<1> QED BY <1>1, <1>3, <1>5, <1>6, Tokens, TokenStep

LEMMA StartKeeps ==
  ASSUME ScopesInv, NEW a \in ScopeAnswers,
         FindToken \/ SkipShared \/ CreatePrincipal(a) \/ MintToken(a) \/ EnsureShared(a)
  PROVE  ScopesInv'
<1>1. CASE FindToken \/ SkipShared
  <2>1. /\ UNCHANGED <<hasOperator, there, grants, minted, hasToken, knownFile, wasted, sets, allReads,
                       lifecycles, caller, losses>>
        /\ startingAt' \in {"shared", "up"} /\ credential' \in {"state_dir", "missing", credential}
    BY <1>1 DEF FindToken, SkipShared, Credential, storeSide, planeSide
  <2>2. TokensAreFiled' /\ TokensAreReused' BY <2>1, Tokens DEF TokensAreFiled, TokensAreReused
  <2> QED BY <2>1, <2>2, Tokens, TokenStep
<1>2. CASE CreatePrincipal(a)
  <2>1. ~hasToken BY <1>2 DEF CreatePrincipal
  <2>2. CASE minted > 0 /\ a = "done"
    <3>1. /\ UNCHANGED <<hasOperator, there, grants, minted, hasToken, knownFile, wasted, credential,
                         sets, allReads, lifecycles, caller, losses>>
          /\ startingAt' = "mint" BY <1>2, <2>2 DEF CreatePrincipal, storeSide, planeSide
    <3>2. TokensAreFiled' /\ TokensAreReused' BY <2>1, <3>1, Tokens DEF TokensAreFiled, TokensAreReused
    <3> QED BY <3>1, <3>2, Tokens, TokenStep
  <2>3. CASE ~(minted > 0 /\ a = "done")
    <3>1. Mints(a, "created") BY <1>2, <2>3 DEF CreatePrincipal
    <3> QED BY <2>1, <3>1, MintsKeeps
  <2> QED BY <2>2, <2>3
<1>3. CASE MintToken(a)
  <2>1. ~hasToken /\ Mints(a, "minted") BY <1>3, Tokens DEF MintToken
  <2> QED BY <2>1, MintsKeeps
<1>4. CASE EnsureShared(a)
  <2>1. /\ UNCHANGED <<hasOperator, minted, hasToken, knownFile, wasted, credential, sets, allReads,
                       lifecycles, caller>>
        /\ Costs(a) /\ startingAt' \in {"share", "up"}
        /\ \/ Creates(Shared, a) /\ grants' = grants
           \/ Grants("daemon", Shared, a) /\ there' = there BY <1>4 DEF EnsureShared, planeSide
  <2>2. Shared \in Scopes BY DEF Scopes
  <2>3. /\ there \subseteq there' /\ there' \subseteq Scopes /\ grants \subseteq grants'
        /\ grants' \subseteq {"daemon", "worker"} \X Scopes /\ (Loss \/ losses' = losses)
    BY <2>1, <2>2, Tokens, StoreGrows
  <2>4. losses' \in 0..MaxLosses /\ losses <= losses' BY <2>3, LossesKept
  <2>5. TokensAreFiled' /\ TokensAreReused' BY <2>1, <2>4, Tokens DEF TokensAreFiled, TokensAreReused
  <2> QED BY <2>1, <2>3, <2>4, <2>5, Tokens, TokenStep
<1> QED BY <1>1, <1>2, <1>3, <1>4

LEMMA KillKeeps ==
  ASSUME ScopesInv, KillPlane
  PROVE  ScopesInv'
<1>1. /\ Loss /\ startingAt' = "principal" /\ credential' = "missing" /\ allReads' = {}
      /\ lifecycles' = [s \in Scopes |-> {}] /\ caller' = [c \in Callers |-> NoCaller]
      /\ sets' = [Empty EXCEPT !.known = knownFile]
      /\ UNCHANGED <<hasOperator, there, grants, hasToken, knownFile>> BY DEF KillPlane
<1>2. PICK n \in {0, 1} : minted' = minted + n /\ wasted' = wasted + n /\ (n = 1 => ~hasToken)
  <2>1. CASE startingAt = "mint" \/ (startingAt = "principal" /\ ~hasToken /\ hasOperator /\ minted = 0)
    <3>1. ~hasToken BY <2>1, Tokens
    <3>2. PICK n \in {0, 1} : minted' = minted + n /\ wasted' = wasted + n BY <2>1 DEF KillPlane
    <3> QED BY <3>1, <3>2
  <2>2. CASE ~(startingAt = "mint" \/ (startingAt = "principal" /\ ~hasToken /\ hasOperator /\ minted = 0))
    <3>1. minted' = minted /\ wasted' = wasted BY <2>2 DEF KillPlane
    <3> QED BY <3>1, Tokens
  <2> QED BY <2>1, <2>2
<1>3. losses' = losses + 1 /\ losses' \in 0..MaxLosses BY <1>1, LossesKept DEF Loss
<1>4. TokensAreFiled' /\ TokensAreReused' BY <1>1, <1>2, <1>3, Tokens DEF TokensAreFiled, TokensAreReused
<1>5. wasted' \in 0..MaxLosses /\ minted' \in 0..(2 + MaxLosses)
  BY <1>2, <1>3, <1>4, Tokens DEF TokensAreFiled, TokensAreReused
<1>6. StoreTypes /\ PlaneTypes BY ScopesTypes DEF ScopesInv
<1>7. knownFile \subseteq Scopes BY <1>6 DEF StoreTypes
<1>8. sets' \in ScopeSets /\ sets'.provisioned = {} BY <1>1, <1>7 DEF Empty, ScopeSets
<1>9. NoCaller \in CallerRecords /\ NoCaller.at = "none" BY DEF NoCaller, CallerRecords
<1>10. StoreTypes' BY <1>1, <1>3, <1>5, <1>6 DEF StoreTypes
<1>11. PlaneTypes' BY <1>1, <1>8, <1>9 DEF PlaneTypes
<1>12. ScopesTypeOK'
  <2>1. ScopesTypeOK' <=> StoreTypes' /\ PlaneTypes' BY ScopesTypes, PTL
  <2> QED BY <1>10, <1>11, <2>1
<1>13. GrantsAreTrue' BY <1>8 DEF GrantsAreTrue
<1>14. lifecycles'[Bound] = {} BY <1>1 DEF Scopes
<1>15. AllKnownAreRead' /\ ReadsAreCached' BY <1>1, <1>14 DEF AllKnownAreRead, ReadsAreCached
<1>16. CallsAreDone' BY <1>1, <1>9 DEF CallsAreDone
<1> QED BY <1>4, <1>12, <1>13, <1>15, <1>16 DEF ScopesInv

LEMMA ScopesStep == ScopesInv /\ [ScopesNext]_scopeVars => ScopesInv'
<1>. SUFFICES ASSUME ScopesInv, [ScopesNext]_scopeVars PROVE ScopesInv' OBVIOUS
<1>1. CASE UNCHANGED scopeVars
  <2>1. UNCHANGED <<hasOperator, there, grants, minted, hasToken, knownFile, wasted, credential, sets,
                    allReads, lifecycles, startingAt, caller, losses>> BY <1>1 DEF scopeVars, storeSide, planeSide
  <2> QED BY <2>1 DEF ScopesInv, ScopesTypeOK, GrantsAreTrue, AllKnownAreRead, TokensAreReused,
                        CallsAreDone, ReadsAreCached, TokensAreFiled
<1>2. ASSUME NEW a \in ScopeAnswers,
             FindToken \/ SkipShared \/ CreatePrincipal(a) \/ MintToken(a) \/ EnsureShared(a)
      PROVE  ScopesInv' BY <1>2, StartKeeps
<1>3. ASSUME NEW c \in Callers, NEW p \in Projects \cup {Bound}, UseScope(c, p) PROVE ScopesInv'
  BY <1>3, UseScopeKeeps
<1>4. ASSUME NEW c \in Callers, NEW a \in ScopeAnswers, GrantWorkerAgain(c, a) PROVE ScopesInv' BY <1>4, RegrantKeeps
<1>5. ASSUME NEW c \in Callers, NEW a \in ScopeAnswers, CreateScope(c, a) \/ GrantDaemon(c, a)
      PROVE  ScopesInv' BY <1>5, CreateKeeps
<1>6. ASSUME NEW c \in Callers, NEW a \in ScopeAnswers, GrantWorker(c, a) PROVE ScopesInv' BY <1>6, GrantWorkerKeeps
<1>7. CASE KillPlane BY <1>7, KillKeeps
<1>8. "done" \in ScopeAnswers BY DEF ScopeAnswers
<1> QED BY <1>1, <1>2, <1>3, <1>4, <1>5, <1>6, <1>7, <1>8 DEF ScopesNext

------------------------
(* The agents a daemon owns (AgentDirectory) *)

\* The plans, by the step they are at: what each kind of request has still to do.
Creating == <<"commit", "write", "load", "store", "up", "boot", "save">>
Moving == <<"move", "load", "store", "up", "boot", "save">>
MovingOnly == <<"move", "load", "store", "save">>
WritingOut == <<"write", "load", "store", "up", "boot", "save">>
Loading == <<"load", "store", "up", "boot", "save">>
LoadingOnly == <<"load", "store", "save">>
Storing == <<"store", "up", "boot", "save">>
StoringOnly == <<"store", "save">>
Upping == <<"up", "boot", "save">>
Booting == <<"boot", "save">>
Saving == <<"save">>
Discarding == <<"discard", "unload", "unstore", "rmtree">>
Unloading == <<"unload", "unstore", "rmtree">>
Unstoring == <<"unstore", "rmtree">>
RemovingAll == <<"rmtree">>
Rewriting == <<"write", "restart", "boot", "save">>
Restarting == <<"restart", "boot", "save">>
Restoring == <<"restore", "reload", "restage", "reup">>
Reloading == <<"reload", "restage", "reup">>
Restaging == <<"restage", "reup">>
Reupping == <<"reup">>
RestoringFile == <<"restore", "rerestart">>
Rerestarting == <<"rerestart">>
UpOnly == <<"up">>
RestartOnly == <<"restart">>
StopOnly == <<"stop">>
Deleting == <<"teardown", "unload", "unstore", "unlink", "rmtree">>
Undefining == <<"unload", "unstore", "unlink", "rmtree">>
Undefined == <<"unstore", "unlink", "rmtree">>
Unlinking == <<"unlink", "rmtree">>
Tooling == <<"tool", "restart">>
ToolOnly == <<"tool">>
Untooling == <<"untool">>

\* What a request of this kind may have to do; an update that recreates nothing has no unit.
PlanFor(kind, unitless, todo) ==
  \/ kind = "create" /\ todo \in {Creating, WritingOut, Loading, Storing, Upping, Booting, Saving,
                                  Discarding, Unloading, Unstoring, RemovingAll}
  \/ kind = "import" /\ todo \in {Moving, MovingOnly, Loading, LoadingOnly, Storing, StoringOnly,
                                  Upping, Booting, Saving, Discarding, Unloading, Unstoring, RemovingAll}
  \/ kind = "update" /\ ~unitless /\ todo \in {WritingOut, Loading, Storing, Upping, Booting, Saving,
                                               Restoring, Reloading, Restaging, Reupping}
  \/ kind = "update" /\ unitless /\ todo \in {Rewriting, Restarting, Booting, Saving,
                                              RestoringFile, Rerestarting}
  \/ kind = "start" /\ todo = UpOnly
  \/ kind = "stop" /\ todo = StopOnly
  \/ kind = "restart" /\ todo = RestartOnly
  \/ kind = "delete" /\ todo \in {Deleting, Undefining, Undefined, Unlinking, RemovingAll}
  \/ kind = "register" /\ todo \in {Tooling, RestartOnly, Untooling}
  \/ kind = "edit" /\ todo \in {Tooling, RestartOnly}
  \/ kind = "file" /\ todo = ToolOnly

OpRecords ==
  [kind : Kinds, name : AgentNames, todo : Seq(Steps), text : Profiles \cup {None}, code : BOOLEAN,
   spec : Specs \cup {None}, was : Specs \cup {None}, file : Profiles \cup {None},
   snap : [AgentNames -> Specs \cup {None}] \cup {None}]
DirectoryTypes ==
  /\ dir \in [AgentNames -> Dirs \cup {None}]
  /\ good \in [AgentNames -> Profiles \cup {None}]
  /\ compose \in [AgentNames -> Specs \cup {None}]
  /\ box \in [AgentNames -> Boxes \cup {None}]
  /\ cached \in Images /\ upstream \in Images /\ cap \in Caps
  /\ op \in [Handlers -> OpRecords \cup {Idle}]
  /\ ops \in 0 .. MaxOps /\ faults \in 0 .. MaxFaults
  /\ applied \in [AgentNames -> SUBSET Profiles] /\ halfway \subseteq AgentNames
  /\ mixed \subseteq AgentNames

CodeIsAllowed(d, p) == p # None /\ IsPublic(p) => ~d.code
\* What a create or import brings passed the daemon's checks.
Passed(r) ==
  /\ r.text # None /\ r.spec # None /\ Contract(r.text) <= r.spec.image
  /\ ~(IsPublic(r.text) /\ r.code)

\* A service with the keys of one of these profiles,
Granted(c, a) == c # None => \E p \in a : c.keys = Keys(p)
\* and one right for the only one; the first is what is left of the second halfway.
Right(c, a) == \E p \in Profiles : a = {p} /\ Serves(c, p)
Covered(c, a, half) == IF half THEN Granted(c, a) ELSE Right(c, a)
Missing(c, a, half) == IF half THEN Granted(c, a) ELSE c = None
\* A container the agent does not run in.
Down(b) == b = None \/ b.state # "running"

\* An agent at rest: there, or gone.
AgentStands(d, g, c, a, half) == d # None /\ Covered(c, a, half) /\ CodeIsAllowed(d, g)
AgentIsGone(d, g, c, b, a, half) == d = None /\ g = None /\ Missing(c, a, half) /\ Down(b)
AtRest(d, g, c, b, a, half) == AgentStands(d, g, c, a, half) \/ AgentIsGone(d, g, c, b, a, half)

\* An agent with a create or an import at this step,
Spawning(d, g, c, b, a, half, r, step) ==
  /\ g = None
  /\ step \notin {"boot", "save"} => Down(b)
  /\ step \in {"move", "write", "load", "store", "rmtree"} => Missing(c, a, half)
  /\ step = "move" <=> d = None
  /\ step # "rmtree" => Passed(r)
  /\ step \in {"load", "store"} => d.yaml = r.text
  /\ step \in {"load", "store", "up", "boot", "save"} => d.code = r.code
  /\ step \notin {"move", "write", "load", "rmtree"} => r.spec.keys = Keys(r.text)
  /\ step \in {"up", "boot", "save", "discard", "unload", "unstore"} => c = r.spec
\* with an update,
Updating(d, g, c, a, half, r, step) ==
  /\ d # None /\ CodeIsAllowed(d, g) /\ CodeIsAllowed(d, r.text) /\ r.text # None
  /\ Covered(r.was, a, half)
  /\ Serves(IF r.spec = None THEN r.was ELSE r.spec, r.text)
  /\ step \in {"write", "load", "restart", "store"} \/ r.spec = None => c = r.was
  /\ step \in {"up", "boot", "save", "restore", "reload", "restage"} /\ r.spec # None => c = r.spec
  /\ step = "reup" => Covered(c, a, half)
  /\ step = "restage" /\ r.was = None => r.file \in a
\* with a delete,
Leaving(d, g, c, b, a, half, step) ==
  /\ d # None /\ CodeIsAllowed(d, g)
  /\ step \in {"teardown", "unload", "unstore"} => Covered(c, a, half)
  /\ step # "teardown" => b = None
  /\ step \in {"unlink", "rmtree"} => c = None
  /\ step = "rmtree" => g = None
\* with a request for its tools or files.
Coding(d, g, c, a, half, r) ==
  /\ AgentStands(d, g, c, a, half)
  /\ r.kind # "edit" \/ r.code => g = None \/ ~IsPublic(g)

AtWork(d, g, c, b, a, half, r) ==
  /\ r.kind \in {"create", "import"} => Spawning(d, g, c, b, a, half, r, Head(r.todo))
  /\ r.kind = "update" => Updating(d, g, c, a, half, r, Head(r.todo))
  /\ r.kind = "delete" => Leaving(d, g, c, b, a, half, Head(r.todo))
  /\ r.kind \in {"start", "stop", "restart"} => AgentStands(d, g, c, a, half)
  /\ r.kind \in {"register", "edit", "file"} => Coding(d, g, c, a, half, r)

\* A request: what it has still to do, and when it has compose.yml in hand.
RequestOK(r) ==
  /\ PlanFor(r.kind, r.spec = None, r.todo)
  /\ r.kind \in {"create", "import"} => r.spec # None
  /\ r.snap # None <=> Head(r.todo) \in {"store", "unstore", "restage"}
  /\ Head(r.todo) = "commit" => Passed(r)
  /\ r.kind = "update" => r.file # None
RequestsAreOK == \A h \in Handlers : op[h] # Idle => RequestOK(op[h])

\* What was read of compose.yml is still there, of agents without a second request.
SnapsAreFresh ==
  \A h \in Handlers, n \in AgentNames :
    op[h].snap # None /\ n \notin mixed => op[h].snap[n] = compose[n]
SnapsAreMixed ==
  \A g, h \in Handlers :
    g # h /\ op[g].snap # None /\ op[h].snap # None => op[g].name \in mixed /\ op[h].name \in mixed

Works(h, n) == op[h].name = n /\ Head(op[h].todo) # "commit"
OneWorks == \A n \in AgentNames \ mixed : \A g, h \in Handlers : Works(g, n) /\ Works(h, n) => g = h
AgentsAreOK ==
  \A n \in AgentNames \ mixed :
    /\ (\A h \in Handlers : ~Works(h, n)) => AtRest(dir[n], good[n], compose[n], box[n], applied[n], n \in halfway)
    /\ \A h \in Handlers :
         Works(h, n) => AtWork(dir[n], good[n], compose[n], box[n], applied[n], n \in halfway, op[h])

DirectoryInv ==
  /\ DirectoryTypes /\ RequestsAreOK /\ SnapsAreFresh /\ SnapsAreMixed /\ OneWorks /\ AgentsAreOK
  /\ CapHolds

------------------------
(* The plans, the step each starts with, the next one, and what is left. *)

LEMMA PlansHaveSteps ==
  /\ Creating # << >> /\ WritingOut # << >> /\ Loading # << >> /\ Storing # << >> /\ Upping # << >>
  /\ Booting # << >> /\ Saving # << >> /\ Moving # << >> /\ MovingOnly # << >>
  /\ LoadingOnly # << >> /\ StoringOnly # << >> /\ Discarding # << >> /\ Unloading # << >>
  /\ Unstoring # << >> /\ RemovingAll # << >> /\ Rewriting # << >> /\ Restarting # << >>
  /\ Restoring # << >> /\ Reloading # << >> /\ Restaging # << >> /\ Reupping # << >>
  /\ RestoringFile # << >> /\ Rerestarting # << >> /\ UpOnly # << >> /\ RestartOnly # << >>
  /\ StopOnly # << >> /\ Deleting # << >> /\ Undefining # << >> /\ Undefined # << >>
  /\ Unlinking # << >> /\ Tooling # << >> /\ ToolOnly # << >> /\ Untooling # << >>
  /\ Creating \in Seq(Steps) /\ WritingOut \in Seq(Steps) /\ Loading \in Seq(Steps)
  /\ Storing \in Seq(Steps) /\ Upping \in Seq(Steps) /\ Booting \in Seq(Steps)
  /\ Saving \in Seq(Steps) /\ Moving \in Seq(Steps) /\ MovingOnly \in Seq(Steps)
  /\ LoadingOnly \in Seq(Steps) /\ StoringOnly \in Seq(Steps) /\ Discarding \in Seq(Steps)
  /\ Unloading \in Seq(Steps) /\ Unstoring \in Seq(Steps) /\ RemovingAll \in Seq(Steps)
  /\ Rewriting \in Seq(Steps) /\ Restarting \in Seq(Steps) /\ Restoring \in Seq(Steps)
  /\ Reloading \in Seq(Steps) /\ Restaging \in Seq(Steps) /\ Reupping \in Seq(Steps)
  /\ RestoringFile \in Seq(Steps) /\ Rerestarting \in Seq(Steps) /\ UpOnly \in Seq(Steps)
  /\ RestartOnly \in Seq(Steps) /\ StopOnly \in Seq(Steps) /\ Deleting \in Seq(Steps)
  /\ Undefining \in Seq(Steps) /\ Undefined \in Seq(Steps) /\ Unlinking \in Seq(Steps)
  /\ Tooling \in Seq(Steps) /\ ToolOnly \in Seq(Steps) /\ Untooling \in Seq(Steps)
  BY DEF Steps, Creating, WritingOut, Loading, Storing, Upping, Booting, Saving, Moving,
         MovingOnly, LoadingOnly, StoringOnly, Discarding, Unloading, Unstoring, RemovingAll,
         Rewriting, Restarting, Restoring, Reloading, Restaging, Reupping, RestoringFile,
         Rerestarting, UpOnly, RestartOnly, StopOnly, Deleting, Undefining, Undefined,
         Unlinking, Tooling, ToolOnly, Untooling

RestOf(t) == Tail(t)
LEMMA RestsAre ==
  /\ RestOf(Creating) = WritingOut /\ RestOf(WritingOut) = Loading /\ RestOf(Loading) = Storing
  /\ RestOf(Storing) = Upping /\ RestOf(Upping) = Booting /\ RestOf(Booting) = Saving
  /\ RestOf(Saving) = << >> /\ RestOf(Moving) = Loading /\ RestOf(MovingOnly) = LoadingOnly
  /\ RestOf(LoadingOnly) = StoringOnly /\ RestOf(StoringOnly) = Saving
  /\ RestOf(Discarding) = Unloading /\ RestOf(Unloading) = Unstoring
  /\ RestOf(Unstoring) = RemovingAll /\ RestOf(RemovingAll) = << >> /\ RestOf(Rewriting) = Restarting
  /\ RestOf(Restarting) = Booting /\ RestOf(Restoring) = Reloading
  /\ RestOf(Reloading) = Restaging /\ RestOf(Restaging) = Reupping /\ RestOf(Reupping) = << >>
  /\ RestOf(RestoringFile) = Rerestarting /\ RestOf(Rerestarting) = << >>
  /\ RestOf(UpOnly) = << >> /\ RestOf(RestartOnly) = << >> /\ RestOf(StopOnly) = << >>
  /\ RestOf(Deleting) = Undefining /\ RestOf(Undefining) = Undefined
  /\ RestOf(Undefined) = Unlinking /\ RestOf(Unlinking) = RemovingAll
  /\ RestOf(Tooling) = RestartOnly /\ RestOf(ToolOnly) = << >> /\ RestOf(Untooling) = << >>
  BY DEF RestOf, Creating, WritingOut, Loading, Storing, Upping, Booting, Saving, Moving,
         MovingOnly, LoadingOnly, StoringOnly, Discarding, Unloading, Unstoring, RemovingAll,
         Rewriting, Restarting, Restoring, Reloading, Restaging, Reupping, RestoringFile,
         Rerestarting, UpOnly, RestartOnly, StopOnly, Deleting, Undefining, Undefined,
         Unlinking, Tooling, ToolOnly, Untooling

NextOf(t) == IF Tail(t) = << >> THEN "none" ELSE Head(Tail(t))
Stage(t, step, next) == Head(t) = step /\ NextOf(t) = next
LEMMA StagesAre ==
  /\ Stage(Creating, "commit", "write") /\ Stage(WritingOut, "write", "load")
  /\ Stage(Loading, "load", "store") /\ Stage(Storing, "store", "up")
  /\ Stage(Upping, "up", "boot") /\ Stage(Booting, "boot", "save")
  /\ Stage(Saving, "save", "none") /\ Stage(Moving, "move", "load")
  /\ Stage(MovingOnly, "move", "load") /\ Stage(LoadingOnly, "load", "store")
  /\ Stage(StoringOnly, "store", "save") /\ Stage(Discarding, "discard", "unload")
  /\ Stage(Unloading, "unload", "unstore") /\ Stage(Unstoring, "unstore", "rmtree")
  /\ Stage(RemovingAll, "rmtree", "none") /\ Stage(Rewriting, "write", "restart")
  /\ Stage(Restarting, "restart", "boot") /\ Stage(Restoring, "restore", "reload")
  /\ Stage(Reloading, "reload", "restage") /\ Stage(Restaging, "restage", "reup")
  /\ Stage(Reupping, "reup", "none") /\ Stage(RestoringFile, "restore", "rerestart")
  /\ Stage(Rerestarting, "rerestart", "none") /\ Stage(UpOnly, "up", "none")
  /\ Stage(RestartOnly, "restart", "none") /\ Stage(StopOnly, "stop", "none")
  /\ Stage(Deleting, "teardown", "unload") /\ Stage(Undefining, "unload", "unstore")
  /\ Stage(Undefined, "unstore", "unlink") /\ Stage(Unlinking, "unlink", "rmtree")
  /\ Stage(Tooling, "tool", "restart") /\ Stage(ToolOnly, "tool", "none")
  /\ Stage(Untooling, "untool", "none")
  BY DEF Stage, NextOf, Creating, WritingOut, Loading, Storing, Upping, Booting, Saving, Moving,
         MovingOnly, LoadingOnly, StoringOnly, Discarding, Unloading, Unstoring, RemovingAll,
         Rewriting, Restarting, Restoring, Reloading, Restaging, Reupping, RestoringFile,
         Rerestarting, UpOnly, RestartOnly, StopOnly, Deleting, Undefining, Undefined,
         Unlinking, Tooling, ToolOnly, Untooling

\* A plan is of steps, and what is left of one after a step is a plan of the same kind.
LEMMA PlansGoOn ==
  ASSUME NEW k, NEW u \in BOOLEAN, NEW t, PlanFor(k, u, t)
  PROVE  /\ k \in Kinds /\ t # << >> /\ t \in Seq(Steps)
         /\ Head(t) \in Steps /\ Tail(t) \in Seq(Steps)
         /\ Tail(t) # << >> => PlanFor(k, u, Tail(t))
<1>1. k \in Kinds BY DEF PlanFor, Kinds
<1>2. t # << >> /\ t \in Seq(Steps) BY PlansHaveSteps DEF PlanFor
<1>3. RestOf(t) # << >> => PlanFor(k, u, RestOf(t))
  <2>. SUFFICES ASSUME RestOf(t) # << >> PROVE PlanFor(k, u, RestOf(t)) OBVIOUS
  <2>1. CASE k = "create" BY <2>1, RestsAre DEF PlanFor
  <2>2. CASE k = "import" BY <2>2, RestsAre DEF PlanFor
  <2>3. CASE k = "update" BY <2>3, RestsAre DEF PlanFor
  <2>4. CASE k = "delete" BY <2>4, RestsAre DEF PlanFor
  <2>5. CASE k \in {"start", "stop", "restart", "register", "edit", "file"} BY <2>5, RestsAre DEF PlanFor
  <2> QED BY <2>1, <2>2, <2>3, <2>4, <2>5 DEF PlanFor
<1> QED BY <1>1, <1>2, <1>3, HeadTailProperties DEF RestOf

\* What the step at the head of a plan says of the request, and which step is next.
PlanAt(k, u, step, next) ==
  /\ step = "commit" => k = "create" /\ next = "write"
  /\ step = "move" => k = "import" /\ next = "load"
  /\ step = "write" => \/ k = "create" /\ next = "load"
                       \/ k = "update" /\ next = (IF u THEN "restart" ELSE "load")
  /\ step = "load" => next = "store" /\ (k \in {"create", "import"} \/ (k = "update" /\ ~u))
  /\ step = "store" => \/ k \in {"create", "import"} /\ next \in {"up", "save"}
                       \/ k = "update" /\ ~u /\ next = "up"
  /\ step = "up" => \/ k \in {"create", "import"} /\ next = "boot"
                    \/ k = "update" /\ ~u /\ next = "boot"
                    \/ k = "start" /\ next = "none"
  /\ step = "boot" => k \in {"create", "import", "update"} /\ next = "save"
  /\ step = "save" => k \in {"create", "import", "update"} /\ next = "none"
  /\ step = "discard" => k \in {"create", "import"} /\ next = "unload"
  /\ step = "unload" => k \in {"create", "import", "delete"} /\ next = "unstore"
  /\ step = "unstore" => \/ k \in {"create", "import"} /\ next = "rmtree"
                         \/ k = "delete" /\ next = "unlink"
  /\ step = "rmtree" => k \in {"create", "import", "delete"} /\ next = "none"
  /\ step = "restart" => \/ k = "update" /\ u /\ next = "boot"
                         \/ k \in {"restart", "register", "edit"} /\ next = "none"
  /\ step = "stop" => k = "stop" /\ next = "none"
  /\ step = "teardown" => k = "delete" /\ next = "unload"
  /\ step = "unlink" => k = "delete" /\ next = "rmtree"
  /\ step = "restore" => k = "update" /\ next = (IF u THEN "rerestart" ELSE "reload")
  /\ step = "rerestart" => k = "update" /\ u /\ next = "none"
  /\ step = "reload" => k = "update" /\ ~u /\ next = "restage"
  /\ step = "restage" => k = "update" /\ ~u /\ next = "reup"
  /\ step = "reup" => k = "update" /\ ~u /\ next = "none"
  /\ step = "tool" => \/ k \in {"register", "edit"} /\ next = "restart"
                      \/ k = "file" /\ next = "none"
  /\ step = "untool" => k = "register" /\ next = "none"
LEMMA PlansAreFollowed ==
  ASSUME NEW k, NEW u \in BOOLEAN, NEW t, PlanFor(k, u, t)
  PROVE  PlanAt(k, u, Head(t), NextOf(t))
<1>1. CASE k = "create"
  <2>1. \/ Stage(t, "commit", "write") \/ Stage(t, "write", "load") \/ Stage(t, "load", "store")
         \/ Stage(t, "store", "up") \/ Stage(t, "up", "boot") \/ Stage(t, "boot", "save")
         \/ Stage(t, "save", "none") \/ Stage(t, "discard", "unload")
         \/ Stage(t, "unload", "unstore") \/ Stage(t, "unstore", "rmtree")
         \/ Stage(t, "rmtree", "none") BY <1>1, StagesAre DEF PlanFor
  <2> QED BY <1>1, <2>1 DEF Stage, PlanAt
<1>2. CASE k = "import"
  <2>1. \/ Stage(t, "move", "load") \/ Stage(t, "move", "load") \/ Stage(t, "load", "store")
         \/ Stage(t, "load", "store") \/ Stage(t, "store", "up") \/ Stage(t, "store", "save")
         \/ Stage(t, "up", "boot") \/ Stage(t, "boot", "save") \/ Stage(t, "save", "none")
         \/ Stage(t, "discard", "unload") \/ Stage(t, "unload", "unstore")
         \/ Stage(t, "unstore", "rmtree") \/ Stage(t, "rmtree", "none") BY <1>2, StagesAre DEF PlanFor
  <2> QED BY <1>2, <2>1 DEF Stage, PlanAt
<1>3. CASE k = "update" /\ ~u
  <2>1. \/ Stage(t, "write", "load") \/ Stage(t, "load", "store") \/ Stage(t, "store", "up")
         \/ Stage(t, "up", "boot") \/ Stage(t, "boot", "save") \/ Stage(t, "save", "none")
         \/ Stage(t, "restore", "reload") \/ Stage(t, "reload", "restage")
         \/ Stage(t, "restage", "reup") \/ Stage(t, "reup", "none") BY <1>3, StagesAre DEF PlanFor
  <2> QED BY <1>3, <2>1 DEF Stage, PlanAt
<1>4. CASE k = "update" /\ u
  <2>1. \/ Stage(t, "write", "restart") \/ Stage(t, "restart", "boot")
         \/ Stage(t, "boot", "save") \/ Stage(t, "save", "none")
         \/ Stage(t, "restore", "rerestart") \/ Stage(t, "rerestart", "none") BY <1>4, StagesAre DEF PlanFor
  <2> QED BY <1>4, <2>1 DEF Stage, PlanAt
<1>5. CASE k = "delete"
  <2>1. \/ Stage(t, "teardown", "unload") \/ Stage(t, "unload", "unstore")
         \/ Stage(t, "unstore", "unlink") \/ Stage(t, "unlink", "rmtree")
         \/ Stage(t, "rmtree", "none") BY <1>5, StagesAre DEF PlanFor
  <2> QED BY <1>5, <2>1 DEF Stage, PlanAt
<1>6. CASE k = "register"
  <2>1. \/ Stage(t, "tool", "restart") \/ Stage(t, "restart", "none")
         \/ Stage(t, "untool", "none") BY <1>6, StagesAre DEF PlanFor
  <2> QED BY <1>6, <2>1 DEF Stage, PlanAt
<1>7. CASE k = "edit"
  <2>1. \/ Stage(t, "tool", "restart") \/ Stage(t, "restart", "none") BY <1>7, StagesAre DEF PlanFor
  <2> QED BY <1>7, <2>1 DEF Stage, PlanAt
<1>8. CASE k \in {"start", "stop", "restart", "file"} BY <1>8, StagesAre DEF PlanFor, Stage, PlanAt
<1> QED BY <1>1, <1>2, <1>3, <1>4, <1>5, <1>6, <1>7, <1>8 DEF PlanFor

------------------------
(* A handler and its request. *)

LEMMA IdleIs ==
  Idle.todo = << >> /\ Idle.name = None /\ Idle.snap = None /\ Idle.kind = "none" BY DEF Idle

\* What is known of a request that is served,
LEMMA RequestIs ==
  ASSUME DirectoryInv, NEW h \in Handlers, op[h] # Idle
  PROVE  /\ op[h] \in OpRecords /\ op[h].name \in AgentNames /\ op[h].kind \in Kinds
         /\ op[h].todo \in Seq(Steps) /\ op[h].todo # << >>
         /\ op[h].text \in Profiles \cup {None} /\ op[h].code \in BOOLEAN
         /\ op[h].spec \in Specs \cup {None} /\ op[h].was \in Specs \cup {None}
         /\ op[h].file \in Profiles \cup {None}
         /\ op[h].snap \in [AgentNames -> Specs \cup {None}] \cup {None}
         /\ RequestOK(op[h])
         /\ PlanAt(op[h].kind, op[h].spec = None, Head(op[h].todo), NextOf(op[h].todo))
<1>1. op[h] \in OpRecords /\ RequestOK(op[h]) BY DEF DirectoryInv, DirectoryTypes, RequestsAreOK
<1>2. PlanFor(op[h].kind, op[h].spec = None, op[h].todo) BY <1>1 DEF RequestOK
<1>3. op[h].todo # << >> BY <1>2, PlansGoOn
<1>4. PlanAt(op[h].kind, op[h].spec = None, Head(op[h].todo), NextOf(op[h].todo)) BY <1>2, PlansAreFollowed
<1> QED BY <1>1, <1>3, <1>4 DEF OpRecords

\* of one that is at a step,
LEMMA AtAStep ==
  ASSUME DirectoryInv, NEW h \in Handlers, NEW step, At(h, step)
  PROVE  op[h] # Idle /\ Head(op[h].todo) = step BY IdleIs DEF At

\* and of the agent it works on alone.
LEMMA AgentIs ==
  ASSUME DirectoryInv, NEW h \in Handlers, op[h] # Idle, Head(op[h].todo) # "commit",
         op[h].name \notin mixed
  PROVE  LET n == op[h].name IN
         /\ AtWork(dir[n], good[n], compose[n], box[n], applied[n], n \in halfway, op[h])
         /\ \A g \in Handlers : Works(g, n) => g = h
<1>1. op[h].name \in AgentNames \ mixed BY RequestIs
<1>2. Works(h, op[h].name) BY DEF Works
<1> QED BY <1>1, <1>2 DEF DirectoryInv, OneWorks, AgentsAreOK

\* The handler's request becomes q.
Puts(h, q) == op' = [op EXCEPT ![h] = q]
Like(q, r) ==
  /\ q.kind = r.kind /\ q.name = r.name /\ q.text = r.text /\ q.code = r.code /\ q.spec = r.spec
  /\ q.was = r.was /\ q.file = r.file /\ q.snap = r.snap
SameRequest(r, o) ==
  /\ r.kind = o.kind /\ r.name = o.name /\ r.text = o.text /\ r.code = o.code /\ r.spec = o.spec
  /\ r.was = o.was /\ r.file = o.file
\* It goes on from r to the plan that starts with this step, or ends.
GoesTo(h, r, q, next) ==
  /\ Puts(h, q) /\ q \in OpRecords \cup {Idle}
  /\ next = "none" => q = Idle
  /\ next # "none" => /\ q # Idle /\ q \in OpRecords /\ Like(q, r)
                      /\ Head(q.todo) = next /\ PlanFor(q.kind, q.spec = None, q.todo)

LEMMA FollowIs ==
  ASSUME NEW h, NEW r \in OpRecords, NEW t, Follow(h, r, t),
         t # << >> => PlanFor(r.kind, r.spec = None, t)
  PROVE  \E q : GoesTo(h, r, q, IF t = << >> THEN "none" ELSE Head(t))
<1>1. CASE t = << >>
  <2>1. Puts(h, Idle) BY <1>1 DEF Follow, Puts
  <2> QED BY <1>1, <2>1 DEF GoesTo
<1>2. CASE t # << >>
  <2>1. PICK q : q = [r EXCEPT !.todo = t] OBVIOUS
  <2>2. Puts(h, q) BY <1>2, <2>1 DEF Follow, Puts
  <2>3. PlanFor(r.kind, r.spec = None, t) BY <1>2
  <2>4. t \in Seq(Steps) /\ Head(t) \in Steps BY <2>3, PlansGoOn
  <2>5. q \in OpRecords /\ Like(q, r) /\ q.todo = t BY <2>1, <2>4 DEF OpRecords, Like
  <2>6. q # Idle BY <2>5, <1>2, IdleIs
  <2>7. PlanFor(q.kind, q.spec = None, q.todo)
    <3>1. q.kind = r.kind /\ (q.spec = None) = (r.spec = None) BY <2>5 DEF Like
    <3> QED BY <2>3, <2>5, <3>1
  <2>8. GoesTo(h, r, q, Head(t)) BY <2>2, <2>5, <2>6, <2>7, <2>4 DEF GoesTo, Steps
  <2> QED BY <1>2, <2>8
<1> QED BY <1>1, <1>2

LEMMA DoneIs ==
  ASSUME DirectoryInv, NEW h \in Handlers, op[h] # Idle, NEW r \in OpRecords,
         r.kind = op[h].kind, r.spec = None <=> op[h].spec = None, Done(h, r)
  PROVE  \E q : GoesTo(h, r, q, NextOf(op[h].todo))
<1>1. PlanFor(op[h].kind, op[h].spec = None, op[h].todo) BY RequestIs DEF RequestOK
<1>2. PICK t : t = Tail(op[h].todo) OBVIOUS
<1>3. t # << >> => PlanFor(op[h].kind, op[h].spec = None, t) BY <1>1, <1>2, PlansGoOn
<1>4. (op[h].spec = None) = (r.spec = None) OBVIOUS
<1>5. t # << >> => PlanFor(r.kind, r.spec = None, t) BY <1>3, <1>4
<1>6. Follow(h, r, t) BY <1>2 DEF Done
<1>7. \E q : GoesTo(h, r, q, IF t = << >> THEN "none" ELSE Head(t)) BY <1>5, <1>6, FollowIs
<1> QED BY <1>2, <1>7 DEF NextOf

\* Where a request goes when its step fails.
FailsTo(k, u, step) ==
  IF \/ k \in {"create", "import"} /\ step \in {"write", "load", "store"}
     \/ k = "create" /\ step \in {"unload", "unstore"}
  THEN "rmtree"
  ELSE IF k \in {"create", "import"} /\ step = "up" THEN "unload"
  ELSE IF k \in {"create", "import"} /\ step = "boot" THEN "discard"
  ELSE IF k = "update" /\ step \in {"up", "restart", "boot"} THEN "restore"
  ELSE IF k = "register" /\ step = "restart" THEN "untool"
  ELSE "none"

LEMMA FailureIs ==
  ASSUME DirectoryInv, NEW h \in Handlers, op[h] # Idle, Fails(h)
  PROVE  \E q, r : /\ GoesTo(h, r, q, FailsTo(op[h].kind, op[h].spec = None, Head(op[h].todo)))
                   /\ r.snap = None /\ SameRequest(r, op[h]) /\ r = [op[h] EXCEPT !.snap = None]
<1>. DEFINE k == op[h].kind  step == Head(op[h].todo)  u == op[h].spec = None
<1>1. PICK t : t = OnFailure(h) OBVIOUS
<1>2. PICK r : r = [op[h] EXCEPT !.snap = None] OBVIOUS
<1>3. r \in OpRecords /\ r.snap = None /\ SameRequest(r, op[h])
  <2>1. op[h] \in OpRecords BY RequestIs
  <2> QED BY <1>2, <2>1 DEF OpRecords, SameRequest
<1>4. t = IF \/ k \in {"create", "import"} /\ step \in {"write", "load", "store"}
             \/ k = "create" /\ step \in {"unload", "unstore"}
          THEN RemovingAll
          ELSE IF k \in {"create", "import"} /\ step = "up" THEN Unloading
          ELSE IF k \in {"create", "import"} /\ step = "boot" THEN Discarding
          ELSE IF k = "update" /\ step \in {"up", "restart", "boot"}
               THEN IF u THEN RestoringFile ELSE Restoring
          ELSE IF k = "register" /\ step = "restart" THEN Untooling
          ELSE << >>
  BY <1>1 DEF OnFailure, RemovingAll, Unloading, Discarding, RestoringFile, Restoring, Untooling, Cleanup
<1>5. t # << >> => PlanFor(k, u, t) BY <1>4 DEF PlanFor
<1>6. (IF t = << >> THEN "none" ELSE Head(t)) = FailsTo(k, u, step)
  BY <1>4, StagesAre, PlansHaveSteps DEF Stage, FailsTo
<1>7. Follow(h, r, t) BY <1>1, <1>2 DEF Fails
<1>8. t # << >> => PlanFor(r.kind, r.spec = None, t)
  <2>1. r.kind = k /\ (r.spec = None) = u BY <1>3 DEF SameRequest
  <2> QED BY <1>5, <2>1
<1>9. \E q : GoesTo(h, r, q, FailsTo(k, u, step)) BY <1>3, <1>6, <1>7, <1>8, FollowIs
<1> QED BY <1>2, <1>3, <1>9

\* The same of a step without compose.yml in hand.
LEMMA FailsIs ==
  ASSUME DirectoryInv, NEW h \in Handlers, op[h] # Idle, op[h].snap = None, Fails(h)
  PROVE  \E q : GoesTo(h, op[h], q, FailsTo(op[h].kind, op[h].spec = None, Head(op[h].todo)))
<1>1. PICK q, r : /\ GoesTo(h, r, q, FailsTo(op[h].kind, op[h].spec = None, Head(op[h].todo)))
                  /\ r = [op[h] EXCEPT !.snap = None] BY FailureIs
<1>2. r = op[h]
  <2>1. PICK o \in OpRecords : o = op[h] BY RequestIs
  <2> QED BY <1>1, <2>1 DEF OpRecords
<1> QED BY <1>1, <1>2
------------------------
(* What a step leaves alone. *)

\* Nothing of another agent changes, in compose.yml nothing of one whose requests did not overlap,
\* but that a service nobody works on is lost.
Elsewhere(n) ==
  \A m \in AgentNames \ {n} :
    /\ dir'[m] = dir[m] /\ good'[m] = good[m] /\ box'[m] = box[m] /\ applied'[m] = applied[m]
    /\ m \notin mixed' =>
         \/ compose'[m] = compose[m] /\ (m \in halfway' <=> m \in halfway)
         \/ compose'[m] = None /\ m \in halfway' /\ \A h \in Handlers : ~Works(h, m)

\* The agent n after the step, the handler's request being q.
LeftBy(q, n) ==
  n \notin mixed' =>
    /\ q = Idle => AtRest(dir'[n], good'[n], compose'[n], box'[n], applied'[n], n \in halfway')
    /\ q # Idle => AtWork(dir'[n], good'[n], compose'[n], box'[n], applied'[n], n \in halfway', q)

LEMMA OthersAreKept ==
  ASSUME DirectoryInv, NEW h \in Handlers, NEW q, NEW n \in AgentNames, Puts(h, q),
         Elsewhere(n), LeftBy(q, n), mixed \subseteq mixed',
         op[h].name = n \/ op[h] = Idle,
         n \notin mixed' => \A g \in Handlers \ {h} : ~Works(g, n),
         q = Idle \/ (q.name = n /\ Head(q.todo) # "commit")
  PROVE  OneWorks' /\ AgentsAreOK'
<1>1. op'[h] = q /\ \A g \in Handlers \ {h} : op'[g] = op[g] BY DEF Puts, DirectoryInv, DirectoryTypes
<1>2. \A g \in Handlers \ {h}, m \in AgentNames : Works(g, m)' <=> Works(g, m) BY <1>1 DEF Works
<1>3. \A m \in AgentNames : Works(h, m)' <=> q # Idle /\ m = n BY <1>1, IdleIs, NothingAssumption DEF Works
<1>4. \A m \in AgentNames \ {n} : ~Works(h, m) BY IdleIs, NothingAssumption DEF Works
<1>5. \A m \in AgentNames \ {n}, g \in Handlers : Works(g, m)' <=> Works(g, m) BY <1>2, <1>3, <1>4
<1>6. OneWorks'
  <2>. SUFFICES ASSUME NEW m \in AgentNames, m \notin mixed', NEW f \in Handlers, NEW g \in Handlers,
                       Works(f, m)', Works(g, m)'
                PROVE  f = g BY DEF OneWorks
  <2>1. CASE m = n BY <2>1, <1>2
  <2>2. CASE m # n
    <3>1. Works(f, m) /\ Works(g, m) BY <2>2, <1>5
    <3> QED BY <3>1 DEF DirectoryInv, OneWorks
  <2> QED BY <2>1, <2>2
<1>7. ASSUME NEW m \in AgentNames, m \notin mixed'
      PROVE  /\ (\A g \in Handlers : ~Works(g, m)') =>
                  AtRest(dir'[m], good'[m], compose'[m], box'[m], applied'[m], m \in halfway')
             /\ \A g \in Handlers : Works(g, m)' =>
                  AtWork(dir'[m], good'[m], compose'[m], box'[m], applied'[m], m \in halfway', op'[g])
  <2>1. CASE m = n
    <3>1. \A g \in Handlers \ {h} : ~Works(g, m)' BY <2>1, <1>2, <1>7
    <3> QED BY <2>1, <3>1, <1>1, <1>3, <1>7 DEF LeftBy
  <2>2. CASE m # n
    <3>1. /\ dir'[m] = dir[m] /\ good'[m] = good[m] /\ box'[m] = box[m] /\ applied'[m] = applied[m]
          /\ \/ compose'[m] = compose[m] /\ (m \in halfway' <=> m \in halfway)
             \/ compose'[m] = None /\ m \in halfway' /\ \A g \in Handlers : ~Works(g, m) BY <2>2, <1>7 DEF Elsewhere
    <3>2. m \in AgentNames \ mixed BY <1>7
    <3>3. /\ (\A g \in Handlers : ~Works(g, m)) =>
               AtRest(dir[m], good[m], compose[m], box[m], applied[m], m \in halfway)
          /\ \A g \in Handlers : Works(g, m) =>
               AtWork(dir[m], good[m], compose[m], box[m], applied[m], m \in halfway, op[g])
      BY <3>2 DEF DirectoryInv, AgentsAreOK
    <3>4. \A g \in Handlers : Works(g, m)' => Works(g, m) /\ op'[g] = op[g] BY <2>2, <1>1, <1>3, <1>5
    <3>5. CASE compose'[m] = compose[m] /\ (m \in halfway' <=> m \in halfway) BY <2>2, <3>1, <3>3, <3>4, <3>5, <1>5
    <3>6. CASE compose'[m] = None /\ m \in halfway' /\ \A g \in Handlers : ~Works(g, m)
      <4>1. AtRest(dir[m], good[m], compose[m], box[m], applied[m], m \in halfway) BY <3>3, <3>6
      <4>2. AtRest(dir'[m], good'[m], compose'[m], box'[m], applied'[m], m \in halfway') BY <3>1, <3>6, <4>1
           DEF AtRest, AgentStands, AgentIsGone, Covered, Missing, Granted
      <4> QED BY <2>2, <3>4, <3>6, <4>2
    <3> QED BY <3>1, <3>5, <3>6
  <2> QED BY <2>1, <2>2
<1>8. AgentsAreOK' BY <1>7 DEF AgentsAreOK
<1> QED BY <1>6, <1>8

\* A handler without compose.yml in hand, before or after: what the others read is still fresh.
LEMMA SnapsAreKept ==
  ASSUME DirectoryInv, NEW h \in Handlers, NEW q, Puts(h, q), q.snap = None,
         mixed \subseteq mixed', UNCHANGED compose
  PROVE  SnapsAreFresh' /\ SnapsAreMixed'
<1>1. op'[h] = q /\ \A g \in Handlers \ {h} : op'[g] = op[g] BY DEF Puts, DirectoryInv, DirectoryTypes
<1>2. SnapsAreFresh' BY <1>1 DEF SnapsAreFresh, DirectoryInv
<1>3. SnapsAreMixed' BY <1>1 DEF SnapsAreMixed, DirectoryInv
<1> QED BY <1>2, <1>3

\* A handler that reads compose.yml,
LEMMA SnapIsTaken ==
  ASSUME DirectoryInv, NEW h \in Handlers, op[h] # Idle, NEW r, r.name = op[h].name,
         NEW q, Puts(h, q), q.snap = compose, q.name = r.name, ReadCompose(h, r), UNCHANGED compose
  PROVE  SnapsAreFresh' /\ SnapsAreMixed' /\ mixed \subseteq mixed' /\ mixed' \subseteq AgentNames
<1>1. op'[h] = q /\ \A g \in Handlers \ {h} : op'[g] = op[g] BY DEF Puts, DirectoryInv, DirectoryTypes
<1>2. PICK others : others = {g \in Handlers \ {h} : op[g].snap # None} OBVIOUS
<1>3. mixed' = IF others = {} THEN mixed
               ELSE mixed \cup {r.name} \cup {op[g].name : g \in others} BY <1>2 DEF ReadCompose
<1>4. \A g \in others : op[g].name \in AgentNames BY <1>2, RequestIs, IdleIs
<1>5. mixed \subseteq mixed' BY <1>3
<1>6. mixed' \subseteq AgentNames BY <1>3, <1>4, RequestIs DEF DirectoryInv, DirectoryTypes
<1>7. SnapsAreFresh' BY <1>1, <1>5 DEF SnapsAreFresh, DirectoryInv
<1>8. SnapsAreMixed'
  <2>. SUFFICES ASSUME NEW f \in Handlers, NEW g \in Handlers, f # g, op'[f].snap # None,
                       op'[g].snap # None
                PROVE  op'[f].name \in mixed' /\ op'[g].name \in mixed' BY DEF SnapsAreMixed
  <2>1. CASE f = h \/ g = h BY <2>1, <1>1, <1>2, <1>3
  <2>2. CASE f # h /\ g # h
    <3>1. op[f].name \in mixed /\ op[g].name \in mixed BY <2>2, <1>1 DEF DirectoryInv, SnapsAreMixed
    <3> QED BY <2>2, <3>1, <1>1, <1>5
  <2> QED BY <2>1, <2>2
<1> QED BY <1>5, <1>6, <1>7, <1>8

\* and one that writes it: nothing is lost of an agent whose requests did not overlap.
LEMMA SnapIsWritten ==
  ASSUME DirectoryInv, NEW h \in Handlers, op[h] # Idle, op[h].snap # None, NEW q, Puts(h, q),
         q.snap = None, NEW spec \in Specs \cup {None},
         compose' = [op[h].snap EXCEPT ![op[h].name] = spec], UNCHANGED mixed
  PROVE  /\ SnapsAreFresh' /\ SnapsAreMixed' /\ compose' \in [AgentNames -> Specs \cup {None}]
         /\ compose'[op[h].name] = spec
         /\ \A m \in AgentNames \ {op[h].name} : m \notin mixed => compose'[m] = compose[m]
<1>1. op'[h] = q /\ \A g \in Handlers \ {h} : op'[g] = op[g] BY DEF Puts, DirectoryInv, DirectoryTypes
<1>2. PICK n \in AgentNames : n = op[h].name BY RequestIs
<1>3. PICK s \in [AgentNames -> Specs \cup {None}] : s = op[h].snap BY RequestIs
<1>4. compose' = [s EXCEPT ![n] = spec] BY <1>2, <1>3
<1>5. /\ compose' \in [AgentNames -> Specs \cup {None}] /\ compose'[n] = spec
      /\ \A m \in AgentNames \ {n} : compose'[m] = s[m] BY <1>4
<1>6. \A m \in AgentNames \ {n} : m \notin mixed => s[m] = compose[m] BY <1>3 DEF DirectoryInv, SnapsAreFresh
<1>7. SnapsAreFresh'
  <2>. SUFFICES ASSUME NEW g \in Handlers, NEW m \in AgentNames, op'[g].snap # None, m \notin mixed
                PROVE  op'[g].snap[m] = compose'[m] BY DEF SnapsAreFresh
  <2>1. g # h /\ op'[g] = op[g] BY <1>1
  <2>2. op[g].snap[m] = compose[m] BY <2>1 DEF DirectoryInv, SnapsAreFresh
  <2>3. n \in mixed BY <2>1, <1>2 DEF DirectoryInv, SnapsAreMixed
  <2> QED BY <2>1, <2>2, <2>3, <1>5, <1>6
<1>8. SnapsAreMixed' BY <1>1 DEF SnapsAreMixed, DirectoryInv
<1> QED BY <1>2, <1>5, <1>6, <1>7, <1>8
\* MIRAGEND_MAX_AGENTS, by what a step does to the set of directories.
Owned == {n \in AgentNames : dir[n] # None}
LEMMA OwnedIsFinite == IsFiniteSet(Owned) /\ Cardinality(Owned) \in Nat
  BY FS_Subset, FS_CardinalityType, DirectoryBoundsAssumption DEF Owned

LEMMA CapIsKept ==
  ASSUME DirectoryTypes, CapHolds, mixed \subseteq mixed', UNCHANGED cap,
         mixed' = {} => \A n \in AgentNames : dir'[n] # None => dir[n] # None
  PROVE  CapHolds'
<1>. SUFFICES ASSUME mixed' = {} PROVE Cardinality(Owned') <= cap BY DEF CapHolds, Owned
<1>1. mixed = {} OBVIOUS
<1>2. Owned' \subseteq Owned BY DEF Owned
<1>3. Cardinality(Owned') <= Cardinality(Owned) BY <1>2, OwnedIsFinite, FS_Subset
<1>4. Cardinality(Owned) <= cap BY <1>1 DEF CapHolds, Owned
<1>5. IsFiniteSet(Owned') BY <1>2, OwnedIsFinite, FS_Subset
<1>6. Cardinality(Owned') \in Nat BY <1>5, FS_CardinalityType
<1> QED BY <1>3, <1>4, <1>6, OwnedIsFinite, DirectoryBoundsAssumption DEF DirectoryTypes

LEMMA CapIsUsed ==
  ASSUME DirectoryTypes, ~Full, NEW n \in AgentNames, UNCHANGED cap,
         \A m \in AgentNames \ {n} : dir'[m] = dir[m]
  PROVE  CapHolds'
<1>. SUFFICES Cardinality(Owned') <= cap BY DEF CapHolds, Owned
<1>1. Cardinality(Owned) < cap BY OwnedIsFinite, DirectoryBoundsAssumption DEF Full, Owned, DirectoryTypes
<1>2. Owned' \subseteq Owned \cup {n} BY DEF Owned
<1>3. /\ IsFiniteSet(Owned \cup {n})
      /\ Cardinality(Owned \cup {n}) = IF n \in Owned THEN Cardinality(Owned) ELSE Cardinality(Owned) + 1
  BY OwnedIsFinite, FS_AddElement
<1>4. Cardinality(Owned') <= Cardinality(Owned \cup {n}) /\ IsFiniteSet(Owned') BY <1>2, <1>3, FS_Subset
<1>5. Cardinality(Owned') \in Nat BY <1>4, FS_CardinalityType
<1> QED BY <1>1, <1>3, <1>4, <1>5, OwnedIsFinite, DirectoryBoundsAssumption DEF DirectoryTypes

\* The types of what a step changed.
PlacesTyped ==
  /\ dir' \in [AgentNames -> Dirs \cup {None}]
  /\ good' \in [AgentNames -> Profiles \cup {None}]
  /\ compose' \in [AgentNames -> Specs \cup {None}]
  /\ box' \in [AgentNames -> Boxes \cup {None}]
  /\ cached' \in Images /\ upstream' \in Images
  /\ ops' \in 0 .. MaxOps /\ faults' \in 0 .. MaxFaults
  /\ applied' \in [AgentNames -> SUBSET Profiles] /\ halfway' \subseteq AgentNames /\ cap' = cap
  /\ mixed' \subseteq AgentNames

\* The invariant after a step of a request: the plan, the agent, and the rest above.
StepLeaves(h, q, next) ==
  /\ GoesTo(h, op[h], q, next) /\ PlacesTyped /\ Elsewhere(op[h].name) /\ LeftBy(q, op[h].name)
  /\ mixed \subseteq mixed' /\ UNCHANGED compose /\ op[h].snap = None
  /\ next \notin {"commit", "store", "unstore", "restage"}

LEMMA RequestsAreKept ==
  ASSUME DirectoryInv, NEW h \in Handlers, NEW r, NEW q, NEW next, GoesTo(h, r, q, next),
         PlacesTyped, r.kind \in {"create", "import"} => r.spec # None, next # "commit",
         r.kind = "update" => r.file # None,
         r.snap # None <=> next \in {"store", "unstore", "restage"}
  PROVE  DirectoryTypes' /\ RequestsAreOK'
<1>1. op'[h] = q /\ \A g \in Handlers \ {h} : op'[g] = op[g] BY DEF GoesTo, Puts, DirectoryInv, DirectoryTypes
<1>2. q \in OpRecords \cup {Idle} BY DEF GoesTo
<1>3. op' \in [Handlers -> OpRecords \cup {Idle}] BY <1>2 DEF GoesTo, Puts, DirectoryInv, DirectoryTypes
<1>4. q # Idle => RequestOK(q) BY DEF GoesTo, Like, RequestOK
<1>5. RequestsAreOK' BY <1>1, <1>4 DEF RequestsAreOK, DirectoryInv
<1>6. DirectoryTypes' BY <1>3 DEF DirectoryTypes, PlacesTyped, DirectoryInv
<1> QED BY <1>5, <1>6

LEMMA StepIsKept ==
  ASSUME DirectoryInv, NEW h \in Handlers, op[h] # Idle, Head(op[h].todo) # "commit",
         NEW q, NEW next, StepLeaves(h, q, next), CapHolds'
  PROVE  DirectoryInv'
<1>1. PICK n \in AgentNames : n = op[h].name BY RequestIs
<1>2. GoesTo(h, op[h], q, next) BY DEF StepLeaves
<1>3. q = Idle \/ (q.name = n /\ Head(q.todo) # "commit") BY <1>1, <1>2 DEF GoesTo, Like, StepLeaves
<1>4. q.snap = None BY <1>2, IdleIs DEF GoesTo, Like, StepLeaves
<1>5. DirectoryTypes' /\ RequestsAreOK'
  <2>1. /\ op[h].kind \in {"create", "import"} => op[h].spec # None
        /\ op[h].kind = "update" => op[h].file # None BY RequestIs DEF RequestOK
  <2>2. op[h].snap # None <=> next \in {"store", "unstore", "restage"} BY DEF StepLeaves
  <2> QED BY <1>2, <2>1, <2>2, RequestsAreKept DEF StepLeaves
<1>6. Puts(h, q) BY <1>2 DEF GoesTo
<1>7. SnapsAreFresh' /\ SnapsAreMixed' BY <1>4, <1>6, SnapsAreKept DEF StepLeaves
<1>8. n \notin mixed' => \A g \in Handlers \ {h} : ~Works(g, n) BY <1>1, AgentIs DEF StepLeaves
<1>9. OneWorks' /\ AgentsAreOK' BY <1>1, <1>3, <1>6, <1>8, OthersAreKept DEF StepLeaves
<1> QED BY <1>5, <1>7, <1>9 DEF DirectoryInv
------------------------
(* The steps, one by one. *)

LEMMA StepIs ==
  ASSUME DirectoryInv, NEW h \in Handlers, NEW step, At(h, step), step # "commit"
  PROVE  LET r == op[h]  n == op[h].name IN
         /\ r # Idle /\ r \in OpRecords /\ Head(r.todo) = step /\ n \in AgentNames
         /\ PlanAt(r.kind, r.spec = None, step, NextOf(r.todo))
         /\ r.snap # None <=> step \in {"store", "unstore", "restage"}
         /\ n \notin mixed => AtWork(dir[n], good[n], compose[n], box[n], applied[n], n \in halfway, r)
         /\ r.kind \in {"create", "import"} => r.spec # None
         /\ r.kind = "update" => r.file # None BY AtAStep, RequestIs, AgentIs DEF RequestOK

LEMMA PlacesAre ==
  ASSUME DirectoryInv
  PROVE  /\ \A n \in AgentNames :
              /\ dir[n] \in Dirs \cup {None} /\ good[n] \in Profiles \cup {None}
              /\ compose[n] \in Specs \cup {None} /\ box[n] \in Boxes \cup {None}
              /\ applied[n] \subseteq Profiles
              /\ dir[n] # None => dir[n].yaml \in Profiles \cup {None} /\ dir[n].code \in BOOLEAN
         /\ mixed \subseteq AgentNames /\ halfway \subseteq AgentNames /\ faults \in 0..MaxFaults
BY DEF DirectoryInv, DirectoryTypes, Dirs

\* What one place of an agent is changed to.
LEMMA PlaceChanges ==
  ASSUME DirectoryInv, NEW n \in AgentNames
  PROVE  /\ \A v \in Dirs \cup {None} : dir' = [dir EXCEPT ![n] = v] =>
              /\ dir' \in [AgentNames -> Dirs \cup {None}] /\ dir'[n] = v
              /\ \A m \in AgentNames \ {n} : dir'[m] = dir[m]
         /\ \A v \in Profiles \cup {None} : good' = [good EXCEPT ![n] = v] =>
              /\ good' \in [AgentNames -> Profiles \cup {None}] /\ good'[n] = v
              /\ \A m \in AgentNames \ {n} : good'[m] = good[m]
         /\ \A v \in Boxes \cup {None} : box' = [box EXCEPT ![n] = v] =>
              /\ box' \in [AgentNames -> Boxes \cup {None}] /\ box'[n] = v
              /\ \A m \in AgentNames \ {n} : box'[m] = box[m]
         /\ \A v \in SUBSET Profiles : applied' = [applied EXCEPT ![n] = v] =>
              /\ applied' \in [AgentNames -> SUBSET Profiles] /\ applied'[n] = v
              /\ \A m \in AgentNames \ {n} : applied'[m] = applied[m]
<1>1. /\ dir \in [AgentNames -> Dirs \cup {None}] /\ good \in [AgentNames -> Profiles \cup {None}]
      /\ box \in [AgentNames -> Boxes \cup {None}]
      /\ applied \in [AgentNames -> SUBSET Profiles] BY DEF DirectoryInv, DirectoryTypes
<1> QED BY <1>1

\* The profiles the service may be granted once the request ended halfway,
Kept(a, r) == a \cup ({r.text} \ {None})
Changing == {"create", "import", "update", "delete"}
LEMMA HalfwayIs ==
  ASSUME NEW d, NEW g, NEW c, NEW b, NEW a, NEW half, NEW r,
         AtWork(d, g, c, b, a, half, r), RequestOK(r), r.kind \in Changing, Head(r.todo) # "commit"
  PROVE  /\ Granted(c, Kept(a, r))
         /\ \/ d # None /\ CodeIsAllowed(d, g)
            \/ d = None /\ g = None /\ Down(b)
<1>. DEFINE step == Head(r.todo)
<1>1. PlanAt(r.kind, r.spec = None, step, NextOf(r.todo)) /\ step \in Steps
  BY PlansAreFollowed, PlansGoOn DEF RequestOK
<1>2. ASSUME NEW e, Covered(e, a, half) \/ Missing(e, a, half) PROVE Granted(e, Kept(a, r))
  BY <1>2 DEF Covered, Missing, Right, Granted, Serves, Kept
<1>3. ASSUME NEW e, r.text # None, e.keys = Keys(r.text) PROVE Granted(e, Kept(a, r)) BY <1>3 DEF Granted, Kept
<1>4. CASE r.kind \in {"create", "import"}
  <2>1. Spawning(d, g, c, b, a, half, r, step) BY <1>4 DEF AtWork
  <2>2. step \in {"move", "write", "load", "store", "rmtree", "up", "boot", "save", "discard",
                  "unload", "unstore"} BY <1>1, <1>4 DEF PlanAt, Steps
  <2>3. Granted(c, Kept(a, r))
    <3>1. CASE step \in {"move", "write", "load", "store", "rmtree"} BY <2>1, <3>1, <1>2 DEF Spawning
    <3>2. CASE step \in {"up", "boot", "save", "discard", "unload", "unstore"}
      BY <2>1, <3>2, <1>3 DEF Spawning, Passed
    <3> QED BY <2>2, <3>1, <3>2
  <2> QED BY <2>1, <2>3 DEF Spawning, CodeIsAllowed
<1>5. CASE r.kind = "update"
  <2>1. Updating(d, g, c, a, half, r, step) BY <1>5 DEF AtWork
  <2>2. /\ step \in {"write", "load", "restart", "store", "up", "boot", "save", "restore", "reload",
                     "restage", "reup", "rerestart"}
        /\ step = "rerestart" => r.spec = None BY <1>1, <1>5 DEF PlanAt, Steps
  <2>3. \/ c = r.was \/ Covered(c, a, half) \/ (r.spec # None /\ c = r.spec) BY <2>1, <2>2 DEF Updating
  <2>4. Granted(c, Kept(a, r)) BY <2>1, <2>3, <1>2, <1>3 DEF Updating, Serves
  <2> QED BY <2>1, <2>4 DEF Updating
<1>6. CASE r.kind = "delete"
  <2>1. Leaving(d, g, c, b, a, half, step) BY <1>6 DEF AtWork
  <2>2. step \in {"teardown", "unload", "unstore", "unlink", "rmtree"} BY <1>1, <1>6 DEF PlanAt, Steps
  <2>3. Granted(c, Kept(a, r)) BY <2>1, <2>2, <1>2 DEF Leaving, Granted
  <2> QED BY <2>1, <2>3 DEF Leaving
<1> QED BY <1>4, <1>5, <1>6 DEF Changing

\* and the agent then.
LEMMA RestsHalfway ==
  ASSUME NEW d, NEW g, NEW c, NEW b, NEW a, NEW half, half, Granted(c, a),
         \/ d # None /\ CodeIsAllowed(d, g)
         \/ d = None /\ g = None /\ Down(b)
  PROVE  AtRest(d, g, c, b, a, half) BY DEF AtRest, AgentStands, AgentIsGone, Covered, Missing

LEMMA HalvesAre ==
  ASSUME DirectoryInv, NEW h \in Handlers, op[h] # Idle, NEW names \in SUBSET AgentNames, Halve(h, names)
  PROVE  /\ applied' \in [AgentNames -> SUBSET Profiles] /\ halfway' \subseteq AgentNames
         /\ applied'[op[h].name] = Kept(applied[op[h].name], op[h])
         /\ \A m \in AgentNames \ {op[h].name} : applied'[m] = applied[m]
         /\ halfway' = halfway \cup names
<1>1. PICK n \in AgentNames : n = op[h].name BY RequestIs
<1>2. PICK a \in SUBSET Profiles : a = Kept(applied[n], op[h]) BY <1>1, RequestIs, PlacesAre DEF Kept
<1>3. applied' = [applied EXCEPT ![n] = a] BY <1>1, <1>2 DEF Halve, Kept, DirectoryInv, DirectoryTypes
<1>4. /\ applied' \in [AgentNames -> SUBSET Profiles] /\ applied'[n] = a
      /\ \A m \in AgentNames \ {n} : applied'[m] = applied[m] BY <1>3, PlaceChanges
<1> QED BY <1>1, <1>2, <1>4, PlacesAre DEF Halve

\* A step of a rollback, a cleanup or a deletion that fails.
LEMMA BreakIsKept ==
  ASSUME DirectoryInv, NEW h \in Handlers, NEW step, At(h, step),
         step \in {"unload", "unlink", "rmtree", "restore", "reload"}, Breaks(h),
         UNCHANGED <<good, compose, box, cached, upstream, cap, ops, mixed>>,
         NEW e \in Dirs \cup {None}, dir' = [dir EXCEPT ![op[h].name] = e],
         \/ e = dir[op[h].name]
         \/ step = "rmtree" /\ e # None /\ dir[op[h].name] # None
  PROVE  DirectoryInv'
<1>. DEFINE k == op[h].kind
<1>1. PICK n \in AgentNames : n = op[h].name BY StepIs
<1>2. /\ k \in Changing
      /\ step = "unlink" => k = "delete"
      /\ step \in {"unload", "rmtree"} => k \in {"create", "import", "delete"}
      /\ step \in {"restore", "reload"} => k = "update" BY StepIs DEF PlanAt, Changing
<1>3. PICK q, next : /\ GoesTo(h, op[h], q, next)
                     /\ next = IF k = "create" /\ step = "unload" THEN "rmtree" ELSE "none"
  <2>1. FailsTo(k, op[h].spec = None, step) = IF k = "create" /\ step = "unload" THEN "rmtree" ELSE "none"
    BY <1>2 DEF FailsTo
  <2>2. op[h].snap = None /\ op[h] # Idle /\ Head(op[h].todo) = step BY StepIs
  <2> QED BY <2>1, <2>2, FailsIs DEF Breaks
<1>4. /\ applied' \in [AgentNames -> SUBSET Profiles] /\ halfway' \subseteq AgentNames
      /\ applied'[n] = Kept(applied[n], op[h])
      /\ \A m \in AgentNames \ {n} : applied'[m] = applied[m]
      /\ halfway' = halfway \cup {n}
  <2>1. {n} \in SUBSET AgentNames /\ op[h] # Idle /\ Halve(h, {n}) BY <1>1, StepIs DEF Breaks
  <2> QED BY <1>1, <2>1, HalvesAre
<1>5. /\ dir' \in [AgentNames -> Dirs \cup {None}] /\ dir'[n] = e
      /\ \A m \in AgentNames \ {n} : dir'[m] = dir[m] BY <1>1, PlaceChanges
<1>6. PlacesTyped /\ Elsewhere(n)
  <2>1. faults' \in 0..MaxFaults BY PlacesAre, DirectoryBoundsAssumption DEF Breaks, Fault
  <2>2. \A m \in AgentNames \ {n} : m \in halfway' <=> m \in halfway BY <1>4
  <2> QED BY <1>4, <1>5, <2>1, <2>2 DEF PlacesTyped, Elsewhere, DirectoryInv, DirectoryTypes
<1>7. LeftBy(q, n)
  <2>. SUFFICES ASSUME n \notin mixed
                PROVE  /\ q = Idle => AtRest(e, good[n], compose[n], box[n], applied'[n], n \in halfway')
                       /\ q # Idle => AtWork(e, good[n], compose[n], box[n], applied'[n], n \in halfway', q)
    BY <1>5 DEF LeftBy
  <2>1. AtWork(dir[n], good[n], compose[n], box[n], applied[n], n \in halfway, op[h]) BY <1>1, StepIs
  <2>2. RequestOK(op[h]) /\ Head(op[h].todo) = step BY StepIs, RequestIs
  <2>3. /\ Granted(compose[n], applied'[n])
        /\ \/ dir[n] # None /\ CodeIsAllowed(dir[n], good[n])
           \/ dir[n] = None /\ good[n] = None /\ Down(box[n]) BY <1>2, <1>4, <2>1, <2>2, HalfwayIs
  <2>4. \/ e # None /\ CodeIsAllowed(e, good[n])
        \/ e = None /\ good[n] = None /\ Down(box[n])
    <3>1. CASE e = dir[n] BY <2>3, <3>1
    <3>2. CASE step = "rmtree" /\ e # None
      <4>1. good[n] = None BY <1>2, <2>1, <2>2, <3>2 DEF AtWork, Spawning, Leaving
      <4> QED BY <3>2, <4>1 DEF CodeIsAllowed
    <3> QED BY <1>1, <3>1, <3>2
  <2>5. AtRest(e, good[n], compose[n], box[n], applied'[n], n \in halfway') BY <1>4, <2>3, <2>4, RestsHalfway
  <2>6. ASSUME q # Idle
        PROVE  AtWork(e, good[n], compose[n], box[n], applied'[n], n \in halfway', q)
    <3>1. k = "create" /\ step = "unload" /\ next = "rmtree" BY <2>6, <1>3 DEF GoesTo
    <3>2. q.kind = "create" /\ Head(q.todo) = "rmtree" BY <2>6, <3>1, <1>3 DEF GoesTo, Like
    <3>3. Spawning(dir[n], good[n], compose[n], box[n], applied[n], n \in halfway, op[h], "unload")
      BY <2>1, <2>2, <3>1 DEF AtWork
    <3>4. e = dir[n] BY <1>1, <3>1
    <3>5. Spawning(e, good[n], compose[n], box[n], applied'[n], n \in halfway', q, "rmtree")
      BY <1>4, <2>3, <3>3, <3>4 DEF Spawning, Missing
    <3> QED BY <3>2, <3>5 DEF AtWork
  <2> QED BY <2>5, <2>6
<1>8. StepLeaves(h, q, next) BY <1>1, <1>3, <1>6, <1>7, StepIs DEF StepLeaves
<1>9. CapHolds'
  <2>1. \A m \in AgentNames : dir'[m] # None => dir[m] # None BY <1>1, <1>5
  <2> QED BY <2>1, CapIsKept DEF DirectoryInv
<1> QED BY <1>8, <1>9, StepIs, StepIsKept

LEMMA StopKeeps == ASSUME DirectoryInv, NEW h \in Handlers, Stop(h) PROVE DirectoryInv'
<1>1. At(h, "stop") BY DEF Stop
<1>2. PICK n \in AgentNames : n = op[h].name BY <1>1, StepIs
<1>3. op[h].kind = "stop" /\ NextOf(op[h].todo) = "none" BY <1>1, StepIs DEF PlanAt
<1>4. PICK q : GoesTo(h, op[h], q, "none") BY <1>1, <1>3, StepIs, DoneIs DEF Stop
<1>5. q = Idle BY <1>4 DEF GoesTo
<1>6. PICK v \in Boxes \cup {None} : box' = [box EXCEPT ![n] = v]
  <2>1. CASE box[n] = None BY <2>1, <1>2, PlacesAre DEF Stop, DirectoryInv, DirectoryTypes
  <2>2. CASE box[n] # None
    <3>1. PICK b \in Boxes : b = box[n] BY <2>2, PlacesAre
    <3>2. [b EXCEPT !.state = "stopped"] \in Boxes BY DEF Boxes
    <3> QED BY <2>2, <1>2, <3>1, <3>2 DEF Stop
  <2> QED BY <2>1, <2>2
<1>7. LeftBy(q, n)
  <2>. SUFFICES ASSUME n \notin mixed PROVE AtRest(dir'[n], good'[n], compose'[n], box'[n], applied'[n], n \in halfway')
    BY <1>5 DEF LeftBy, Stop
  <2>1. AgentStands(dir[n], good[n], compose[n], applied[n], n \in halfway) BY <1>1, <1>2, <1>3, StepIs DEF AtWork
  <2> QED BY <2>1 DEF Stop, AtRest
<1>8. PlacesTyped /\ Elsewhere(n) BY <1>6, PlaceChanges DEF PlacesTyped, Elsewhere, Stop, DirectoryInv, DirectoryTypes
<1>9. StepLeaves(h, q, "none") BY <1>1, <1>2, <1>4, <1>7, <1>8, StepIs DEF StepLeaves, Stop
<1>10. CapHolds' BY CapIsKept DEF Stop, DirectoryInv
<1> QED BY <1>1, <1>9, <1>10, StepIs, StepIsKept

LEMMA BootKeeps == ASSUME DirectoryInv, NEW h \in Handlers, Boot(h) PROVE DirectoryInv'
<1>1. At(h, "boot") BY DEF Boot
<1>2. PICK n \in AgentNames : n = op[h].name BY <1>1, StepIs
<1>3. op[h].kind \in {"create", "import", "update"} /\ NextOf(op[h].todo) = "save" BY <1>1, StepIs DEF PlanAt
<1>4. PICK q, next :
        /\ next \in {"save", "discard", "restore"} /\ GoesTo(h, op[h], q, next)
        /\ next = "discard" => op[h].kind # "update" /\ Down(box[n])
        /\ next = "restore" => op[h].kind = "update"
  <2>1. CASE Done(h, op[h]) BY <2>1, <1>1, <1>3, StepIs, DoneIs
  <2>2. CASE Fails(h) /\ Down(box[n])
    <3>1. FailsTo(op[h].kind, op[h].spec = None, "boot") =
            IF op[h].kind = "update" THEN "restore" ELSE "discard" BY <1>3 DEF FailsTo
    <3>2. op[h] # Idle /\ op[h].snap = None /\ Head(op[h].todo) = "boot" BY <1>1, StepIs
    <3>3. \E q : GoesTo(h, op[h], q, FailsTo(op[h].kind, op[h].spec = None, "boot")) BY <2>2, <3>2, FailsIs
    <3> QED BY <2>2, <3>1, <3>3, <1>3
  <2> QED BY <2>1, <2>2, <1>2 DEF Boot, Down
<1>5. q # Idle /\ Like(q, op[h]) /\ Head(q.todo) = next BY <1>4 DEF GoesTo
<1>6. LeftBy(q, n)
  <2>. SUFFICES ASSUME n \notin mixed PROVE AtWork(dir[n], good[n], compose[n], box[n], applied[n], n \in halfway, q)
    BY <1>5 DEF LeftBy, Boot
  <2>1. AtWork(dir[n], good[n], compose[n], box[n], applied[n], n \in halfway, op[h]) BY <1>1, <1>2, StepIs
  <2>2. Head(op[h].todo) = "boot" BY <1>1, StepIs
  <2> QED BY <2>1, <2>2, <1>3, <1>4, <1>5 DEF AtWork, Spawning, Updating, Passed, Like
<1>7. PlacesTyped /\ Elsewhere(n) BY DEF PlacesTyped, Elsewhere, Boot, DirectoryInv, DirectoryTypes
<1>8. StepLeaves(h, q, next) BY <1>1, <1>2, <1>4, <1>6, <1>7, StepIs DEF StepLeaves, Boot
<1>9. CapHolds' BY CapIsKept DEF Boot, DirectoryInv
<1> QED BY <1>1, <1>8, <1>9, StepIs, StepIsKept

LEMMA SaveKeeps == ASSUME DirectoryInv, NEW h \in Handlers, SaveCopy(h) PROVE DirectoryInv'
<1>1. At(h, "save") BY DEF SaveCopy
<1>2. PICK n \in AgentNames : n = op[h].name BY <1>1, StepIs
<1>3. op[h].kind \in {"create", "import", "update"} /\ NextOf(op[h].todo) = "none" BY <1>1, StepIs DEF PlanAt
<1>4. PICK q : GoesTo(h, op[h], q, "none") BY <1>1, <1>3, StepIs, DoneIs DEF SaveCopy
<1>5. q = Idle BY <1>4 DEF GoesTo
<1>6. PICK p \in Profiles \cup {None} : p = op[h].text BY <1>1, StepIs DEF OpRecords
<1>7. PICK f \in Profiles \cup {None} : good' = [good EXCEPT ![n] = f] /\ f \in {p, good[n]}
  <2>1. CASE UNCHANGED good BY <2>1, PlacesAre DEF DirectoryInv, DirectoryTypes
  <2>2. CASE good' = [good EXCEPT ![n] = op[h].text] BY <2>2, <1>6
  <2> QED BY <2>1, <2>2, <1>2 DEF SaveCopy
<1>8. PICK a \in SUBSET Profiles : a = {p} \ {None} /\ applied' = [applied EXCEPT ![n] = a] BY <1>2, <1>6 DEF SaveCopy
<1>9. LeftBy(q, n)
  <2>0. /\ good'[n] = f /\ applied'[n] = a /\ n \notin halfway'
        /\ UNCHANGED <<dir, compose, box, mixed>>
    <3>1. good'[n] = f BY <1>7, PlaceChanges
    <3>2. applied'[n] = a BY <1>8, PlaceChanges
    <3> QED BY <1>2, <3>1, <3>2 DEF SaveCopy
  <2>. SUFFICES ASSUME n \notin mixed
                PROVE  dir[n] # None /\ Right(compose[n], a) /\ CodeIsAllowed(dir[n], f)
    BY <1>5, <2>0 DEF LeftBy, AtRest, AgentStands, Covered
  <2>1. AtWork(dir[n], good[n], compose[n], box[n], applied[n], n \in halfway, op[h]) BY <1>1, <1>2, StepIs
  <2>2. Head(op[h].todo) = "save" BY <1>1, StepIs
  <2>3. CASE op[h].kind \in {"create", "import"} BY <2>1, <2>2, <2>3, <1>6, <1>7, <1>8
       DEF AtWork, Spawning, Passed, Right, Serves, CodeIsAllowed
  <2>4. CASE op[h].kind = "update" BY <2>1, <2>2, <2>4, <1>6, <1>7, <1>8 DEF AtWork, Updating, Right, CodeIsAllowed
  <2> QED BY <2>3, <2>4, <1>3
<1>10. faults' \in 0..MaxFaults BY DirectoryBoundsAssumption, PlacesAre DEF SaveCopy, Fault
<1>11. PlacesTyped /\ Elsewhere(n) BY <1>2, <1>7, <1>8, <1>10, PlaceChanges, PlacesAre
     DEF PlacesTyped, Elsewhere, SaveCopy, DirectoryInv, DirectoryTypes
<1>12. StepLeaves(h, q, "none") BY <1>1, <1>2, <1>4, <1>9, <1>11, StepIs DEF StepLeaves, SaveCopy
<1>13. CapHolds' BY CapIsKept DEF SaveCopy, DirectoryInv
<1> QED BY <1>1, <1>12, <1>13, StepIs, StepIsKept

LEMMA UnlinkKeeps == ASSUME DirectoryInv, NEW h \in Handlers, Unlink(h) PROVE DirectoryInv'
<1>1. At(h, "unlink") BY DEF Unlink
<1>2. PICK n \in AgentNames : n = op[h].name BY <1>1, StepIs
<1>3. op[h].kind = "delete" /\ NextOf(op[h].todo) = "rmtree" BY <1>1, StepIs DEF PlanAt
<1>4. CASE good' = [good EXCEPT ![n] = None] /\ Done(h, op[h]) /\ UNCHANGED <<faults, applied, halfway>>
  <2>1. PICK q : GoesTo(h, op[h], q, "rmtree") BY <1>1, <1>3, <1>4, StepIs, DoneIs
  <2>2. q # Idle /\ Like(q, op[h]) /\ Head(q.todo) = "rmtree" BY <2>1 DEF GoesTo
  <2>3. LeftBy(q, n)
    <3>. SUFFICES ASSUME n \notin mixed
                  PROVE  AtWork(dir[n], None, compose[n], box[n], applied[n], n \in halfway, q)
      BY <1>4, <2>2, PlaceChanges DEF LeftBy, Unlink
    <3>1. AtWork(dir[n], good[n], compose[n], box[n], applied[n], n \in halfway, op[h]) BY <1>1, <1>2, StepIs
    <3>2. Head(op[h].todo) = "unlink" BY <1>1, StepIs
    <3> QED BY <3>1, <3>2, <1>3, <2>2 DEF AtWork, Leaving, CodeIsAllowed, Like
  <2>4. PlacesTyped /\ Elsewhere(n)
    BY <1>4, PlaceChanges DEF PlacesTyped, Elsewhere, Unlink, DirectoryInv, DirectoryTypes
  <2>5. StepLeaves(h, q, "rmtree") BY <1>1, <1>2, <2>1, <2>3, <2>4, StepIs DEF StepLeaves, Unlink
  <2>6. CapHolds' BY CapIsKept DEF Unlink, DirectoryInv
  <2> QED BY <1>1, <2>5, <2>6, StepIs, StepIsKept
<1>5. CASE Breaks(h)
  <2>1. dir' = [dir EXCEPT ![n] = dir[n]] /\ dir[n] \in Dirs \cup {None}
    BY PlacesAre DEF Unlink, DirectoryInv, DirectoryTypes
  <2>2. UNCHANGED <<compose, box, cached, upstream, cap, ops, mixed>> BY DEF Unlink
  <2>3. CASE UNCHANGED good BY <1>1, <1>2, <1>5, <2>1, <2>2, <2>3, BreakIsKept
  <2>4. CASE good' = [good EXCEPT ![n] = None] /\ UNCHANGED faults BY <1>5, <2>4, PlacesAre DEF Breaks, Fault
  <2> QED BY <1>2, <2>3, <2>4 DEF Unlink
<1> QED BY <1>2, <1>4, <1>5 DEF Unlink

LEMMA RmtreeKeeps == ASSUME DirectoryInv, NEW h \in Handlers, Rmtree(h) PROVE DirectoryInv'
<1>1. At(h, "rmtree") BY DEF Rmtree
<1>2. PICK n \in AgentNames : n = op[h].name BY <1>1, StepIs
<1>3. op[h].kind \in {"create", "import", "delete"} /\ NextOf(op[h].todo) = "none" BY <1>1, StepIs DEF PlanAt
<1>4. CASE dir' = [dir EXCEPT ![n] = None] /\ Done(h, op[h]) /\ UNCHANGED <<faults, applied, halfway>>
  <2>1. PICK q : GoesTo(h, op[h], q, "none") BY <1>1, <1>3, <1>4, StepIs, DoneIs
  <2>2. q = Idle BY <2>1 DEF GoesTo
  <2>3. LeftBy(q, n)
    <3>. SUFFICES ASSUME n \notin mixed
                  PROVE  AgentIsGone(None, good[n], compose[n], box[n], applied[n], n \in halfway)
      BY <1>4, <2>2, PlaceChanges DEF LeftBy, Rmtree, AtRest
    <3>1. AtWork(dir[n], good[n], compose[n], box[n], applied[n], n \in halfway, op[h]) BY <1>1, <1>2, StepIs
    <3>2. Head(op[h].todo) = "rmtree" BY <1>1, StepIs
    <3> QED BY <3>1, <3>2, <1>3 DEF AtWork, Spawning, Leaving, AgentIsGone, Missing, Granted, Down
  <2>4. PlacesTyped /\ Elsewhere(n)
    BY <1>4, PlaceChanges DEF PlacesTyped, Elsewhere, Rmtree, DirectoryInv, DirectoryTypes
  <2>5. StepLeaves(h, q, "none") BY <1>1, <1>2, <2>1, <2>3, <2>4, StepIs DEF StepLeaves, Rmtree
  <2>6. CapHolds'
    <3>1. \A m \in AgentNames : dir'[m] # None => dir[m] # None BY <1>4, PlaceChanges
    <3> QED BY <3>1, CapIsKept DEF Rmtree, DirectoryInv
  <2> QED BY <1>1, <2>5, <2>6, StepIs, StepIsKept
<1>5. CASE /\ dir[n] # None /\ Breaks(h)
           /\ \E yaml \in {dir[n].yaml, None}, code \in {dir[n].code, FALSE} :
                dir' = [dir EXCEPT ![n] = [yaml |-> yaml, code |-> code]]
  <2>1. PICK yaml \in {dir[n].yaml, None}, code \in {dir[n].code, FALSE} :
          dir' = [dir EXCEPT ![n] = [yaml |-> yaml, code |-> code]] BY <1>5
  <2>2. PICK e \in Dirs : e = [yaml |-> yaml, code |-> code] BY <1>5, PlacesAre DEF Dirs
  <2>3. e # None BY NothingAssumption
  <2>4. UNCHANGED <<good, compose, box, cached, upstream, cap, ops, mixed>> BY DEF Rmtree
  <2>5. Breaks(h) /\ dir' = [dir EXCEPT ![op[h].name] = e] /\ dir[op[h].name] # None BY <1>2, <1>5, <2>1, <2>2
  <2> QED BY <1>1, <2>3, <2>4, <2>5, BreakIsKept
<1> QED BY <1>2, <1>4, <1>5 DEF Rmtree

LEMMA RestoreKeeps == ASSUME DirectoryInv, NEW h \in Handlers, Restore(h) PROVE DirectoryInv'
<1>1. At(h, "restore") BY DEF Restore
<1>2. PICK n \in AgentNames : n = op[h].name BY <1>1, StepIs
<1>3. /\ op[h].kind = "update" /\ NextOf(op[h].todo) \in {"rerestart", "reload"}
      /\ NextOf(op[h].todo) = "rerestart" => op[h].spec = None BY <1>1, StepIs DEF PlanAt
<1>4. PICK y \in Profiles \cup {None} : y = op[h].file BY <1>1, StepIs DEF OpRecords
<1>5. CASE dir[n] = None /\ ~Breaks(h)
  <2>1. op[h] \in OpRecords BY <1>1, StepIs
  <2>2. Follow(h, op[h], << >>) /\ UNCHANGED <<dir, faults, applied, halfway>> BY <1>2, <1>5 DEF Restore
  <2>3. Puts(h, Idle) BY <2>2 DEF Follow, Puts
  <2>4. GoesTo(h, op[h], Idle, "none") BY <2>3 DEF GoesTo
  <2>5. n \in mixed
    <3>1. Updating(dir[n], good[n], compose[n], applied[n], n \in halfway, op[h], Head(op[h].todo)) => dir[n] # None
      BY DEF Updating
    <3> QED BY <1>1, <1>2, <1>3, <1>5, <3>1, StepIs DEF AtWork
  <2>6. LeftBy(Idle, n) BY <2>5 DEF LeftBy, Restore
  <2>7. PlacesTyped /\ Elsewhere(n) BY <2>2 DEF PlacesTyped, Elsewhere, Restore, DirectoryInv, DirectoryTypes
  <2>8. StepLeaves(h, Idle, "none") BY <1>1, <1>2, <2>4, <2>6, <2>7, StepIs DEF StepLeaves, Restore
  <2>9. CapHolds' BY <2>2, CapIsKept DEF Restore, DirectoryInv
  <2> QED BY <1>1, <2>8, <2>9, StepIs, StepIsKept
<1>6. CASE dir[n] # None /\ ~Breaks(h)
  <2>1. PICK e : e = [dir[n] EXCEPT !.yaml = y] OBVIOUS
  <2>2. e \in Dirs /\ e # None /\ e.code = dir[n].code
    <3>1. PICK d \in Dirs : d = dir[n] BY <1>6, PlacesAre
    <3>2. e = [d EXCEPT !.yaml = y] BY <2>1, <3>1
    <3> QED BY <3>1, <3>2, NothingAssumption DEF Dirs
  <2>3. dir' = [dir EXCEPT ![n] = e] /\ Done(h, op[h]) /\ UNCHANGED <<faults, applied, halfway>>
    BY <1>2, <1>4, <1>6, <2>1 DEF Restore
  <2>4. PICK q, next : GoesTo(h, op[h], q, next) /\ next = NextOf(op[h].todo) BY <1>1, <2>3, StepIs, DoneIs
  <2>5. q # Idle /\ Like(q, op[h]) /\ Head(q.todo) = next BY <1>3, <2>4 DEF GoesTo
  <2>6. LeftBy(q, n)
    <3>1. dir'[n] = e BY <2>2, <2>3, PlaceChanges
    <3>2. UNCHANGED <<good, compose, box, applied, halfway, mixed>> BY <2>3 DEF Restore
    <3>. SUFFICES ASSUME n \notin mixed PROVE AtWork(e, good[n], compose[n], box[n], applied[n], n \in halfway, q)
      BY <2>5, <3>1, <3>2 DEF LeftBy
    <3>3. AtWork(dir[n], good[n], compose[n], box[n], applied[n], n \in halfway, op[h]) BY <1>1, <1>2, StepIs
    <3>4. Head(op[h].todo) = "restore" BY <1>1, StepIs
    <3> QED BY <3>3, <3>4, <1>3, <2>2, <2>4, <2>5 DEF AtWork, Updating, CodeIsAllowed, Like
  <2>7. PlacesTyped /\ Elsewhere(n)
    BY <2>2, <2>3, PlaceChanges DEF PlacesTyped, Elsewhere, Restore, DirectoryInv, DirectoryTypes
  <2>8. StepLeaves(h, q, next) BY <1>1, <1>2, <1>3, <2>4, <2>6, <2>7, StepIs DEF StepLeaves, Restore
  <2>9. CapHolds'
    <3>1. \A m \in AgentNames : dir'[m] # None => dir[m] # None BY <1>6, <2>2, <2>3, PlaceChanges
    <3> QED BY <3>1, CapIsKept DEF Restore, DirectoryInv
  <2> QED BY <1>1, <2>8, <2>9, StepIs, StepIsKept
<1>7. CASE Breaks(h)
  <2>1. UNCHANGED <<good, compose, box, cached, upstream, cap, ops, mixed>> BY DEF Restore
  <2>2. UNCHANGED dir
    <3>1. ~UNCHANGED faults BY <1>7, PlacesAre DEF Breaks, Fault
    <3> QED BY <3>1 DEF Restore
  <2>3. dir' = [dir EXCEPT ![n] = dir[n]] /\ dir[n] \in Dirs \cup {None}
    BY <2>2, PlacesAre DEF DirectoryInv, DirectoryTypes
  <2> QED BY <1>1, <1>2, <1>7, <2>1, <2>3, BreakIsKept
<1> QED BY <1>5, <1>6, <1>7

LEMMA RequestEnds ==
  ASSUME NEW h, NEW r, Follow(h, r, << >>)
  PROVE  GoesTo(h, r, Idle, "none") BY DEF Follow, Puts, GoesTo

LEMMA ToolKeeps == ASSUME DirectoryInv, NEW h \in Handlers, Tool(h) PROVE DirectoryInv'
<1>1. At(h, "tool") BY DEF Tool
<1>2. PICK n \in AgentNames : n = op[h].name BY <1>1, StepIs
<1>3. op[h].kind \in {"register", "edit", "file"} /\ NextOf(op[h].todo) \in {"restart", "none"}
  BY <1>1, StepIs DEF PlanAt
<1>4. PICK c \in BOOLEAN : c <=> op[h].kind # "edit" \/ op[h].code OBVIOUS
<1>5. n \notin mixed => dir[n] # None /\ Coding(dir[n], good[n], compose[n], applied[n], n \in halfway, op[h])
  BY <1>1, <1>2, <1>3, StepIs DEF AtWork, Coding, AgentStands
<1>6. CASE dir[n] = None
  <2>1. Follow(h, op[h], << >>) /\ UNCHANGED dir BY <1>2, <1>6 DEF Tool
  <2>2. GoesTo(h, op[h], Idle, "none") BY <2>1, RequestEnds
  <2>3. LeftBy(Idle, n) BY <1>5, <1>6 DEF LeftBy, Tool
  <2>4. PlacesTyped /\ Elsewhere(n) BY <2>1 DEF PlacesTyped, Elsewhere, Tool, DirectoryInv, DirectoryTypes
  <2>5. StepLeaves(h, Idle, "none") BY <1>1, <1>2, <2>2, <2>3, <2>4, StepIs DEF StepLeaves, Tool
  <2>6. CapHolds' BY <2>1, CapIsKept DEF Tool, DirectoryInv
  <2> QED BY <1>1, <2>5, <2>6, StepIs, StepIsKept
<1>7. CASE dir[n] # None
  <2>1. PICK e : e = [dir[n] EXCEPT !.code = op[h].kind # "edit" \/ op[h].code] OBVIOUS
  <2>2. e \in Dirs /\ e # None /\ (e.code <=> c)
    <3>1. PICK d \in Dirs : d = dir[n] BY <1>7, PlacesAre
    <3>2. (op[h].kind # "edit" \/ op[h].code) = c BY <1>4
    <3>3. e = [d EXCEPT !.code = c] BY <2>1, <3>1, <3>2
    <3> QED BY <3>1, <3>3, NothingAssumption DEF Dirs
  <2>3. dir' = [dir EXCEPT ![n] = e] /\ Done(h, op[h]) BY <1>2, <1>7, <2>1 DEF Tool
  <2>4. PICK q, next : GoesTo(h, op[h], q, next) /\ next = NextOf(op[h].todo) BY <1>1, <2>3, StepIs, DoneIs
  <2>5. LeftBy(q, n)
    <3>. SUFFICES ASSUME n \notin mixed
                  PROVE  /\ AgentStands(e, good[n], compose[n], applied[n], n \in halfway)
                         /\ q # Idle => AtWork(e, good[n], compose[n], box[n], applied[n], n \in halfway, q)
      BY <2>2, <2>3, PlaceChanges DEF LeftBy, Tool, AtRest
    <3>1. AgentStands(e, good[n], compose[n], applied[n], n \in halfway)
      BY <1>4, <1>5, <2>2 DEF Coding, AgentStands, CodeIsAllowed
    <3>2. ASSUME q # Idle PROVE AtWork(e, good[n], compose[n], box[n], applied[n], n \in halfway, q)
      <4>1. Like(q, op[h]) BY <3>2, <1>3, <2>4 DEF GoesTo
      <4> QED BY <4>1, <3>1, <1>3, <1>5 DEF AtWork, Coding, Like
    <3> QED BY <3>1, <3>2
  <2>6. PlacesTyped /\ Elsewhere(n)
    BY <2>2, <2>3, PlaceChanges DEF PlacesTyped, Elsewhere, Tool, DirectoryInv, DirectoryTypes
  <2>7. StepLeaves(h, q, next) BY <1>1, <1>2, <1>3, <2>4, <2>5, <2>6, StepIs DEF StepLeaves, Tool
  <2>8. CapHolds'
    <3>1. \A m \in AgentNames : dir'[m] # None => dir[m] # None BY <1>7, <2>2, <2>3, PlaceChanges
    <3> QED BY <3>1, CapIsKept DEF Tool, DirectoryInv
  <2> QED BY <1>1, <2>7, <2>8, StepIs, StepIsKept
<1> QED BY <1>6, <1>7

LEMMA UntoolKeeps == ASSUME DirectoryInv, NEW h \in Handlers, Untool(h) PROVE DirectoryInv'
<1>1. At(h, "untool") BY DEF Untool
<1>2. PICK n \in AgentNames : n = op[h].name BY <1>1, StepIs
<1>3. op[h].kind = "register" /\ NextOf(op[h].todo) = "none" BY <1>1, StepIs DEF PlanAt
<1>4. PICK q : GoesTo(h, op[h], q, "none") BY <1>1, <1>3, StepIs, DoneIs DEF Untool
<1>5. q = Idle BY <1>4 DEF GoesTo
<1>6. n \notin mixed => Coding(dir[n], good[n], compose[n], applied[n], n \in halfway, op[h])
  BY <1>1, <1>2, <1>3, StepIs DEF AtWork
<1>7. PICK e \in Dirs \cup {None} : dir' = [dir EXCEPT ![n] = e] /\ (e = None <=> dir[n] = None)
  <2>1. CASE dir[n] = None BY <2>1, <1>2 DEF Untool, DirectoryInv, DirectoryTypes
  <2>2. CASE dir[n] # None
    <3>1. PICK d \in Dirs : d = dir[n] BY <2>2, PlacesAre
    <3>2. PICK c \in BOOLEAN, y \in Profiles \cup {None} :
            c = op[h].code /\ y = (IF op[h].file = None THEN d.yaml ELSE op[h].file)
      BY <1>1, StepIs DEF OpRecords, Dirs
    <3>3. PICK e : e = [d EXCEPT !.code = c, !.yaml = y] OBVIOUS
    <3>4. e \in Dirs /\ e # None BY <3>3, NothingAssumption DEF Dirs
    <3>5. dir' = [dir EXCEPT ![n] = e] BY <2>2, <1>2, <3>1, <3>2, <3>3 DEF Untool
    <3> QED BY <2>2, <3>4, <3>5
  <2> QED BY <2>1, <2>2
<1>8. LeftBy(q, n)
  <2>1. dir'[n] = e BY <1>7, PlaceChanges
  <2>2. UNCHANGED <<good, compose, box, applied, halfway, mixed>> BY DEF Untool
  <2>. SUFFICES ASSUME n \notin mixed PROVE AgentStands(e, good[n], compose[n], applied[n], n \in halfway)
    BY <1>5, <2>1, <2>2 DEF LeftBy, AtRest
  <2> QED BY <1>3, <1>6, <1>7 DEF Coding, AgentStands, CodeIsAllowed
<1>9. PlacesTyped /\ Elsewhere(n)
  <2>1. dir' \in [AgentNames -> Dirs \cup {None}] /\ \A m \in AgentNames \ {n} : dir'[m] = dir[m]
    BY <1>7, PlaceChanges
  <2> QED BY <2>1 DEF PlacesTyped, Elsewhere, Untool, DirectoryInv, DirectoryTypes
<1>10. StepLeaves(h, q, "none") BY <1>1, <1>2, <1>4, <1>8, <1>9, StepIs DEF StepLeaves, Untool
<1>11. CapHolds'
  <2>1. \A m \in AgentNames : dir'[m] # None => dir[m] # None BY <1>7, PlaceChanges
  <2> QED BY <2>1, CapIsKept DEF Untool, DirectoryInv
<1> QED BY <1>1, <1>10, <1>11, StepIs, StepIsKept

LEMMA MoveKeeps == ASSUME DirectoryInv, NEW h \in Handlers, Move(h) PROVE DirectoryInv'
<1>1. At(h, "move") BY DEF Move
<1>2. PICK n \in AgentNames : n = op[h].name BY <1>1, StepIs
<1>3. op[h].kind = "import" /\ NextOf(op[h].todo) = "load" BY <1>1, StepIs DEF PlanAt
<1>4. Head(op[h].todo) = "move" BY <1>1, StepIs
<1>5. n \notin mixed => Spawning(dir[n], good[n], compose[n], box[n], applied[n], n \in halfway, op[h], "move")
  BY <1>1, <1>2, <1>3, <1>4, StepIs DEF AtWork
<1>6. CASE Full
  <2>1. PICK q : GoesTo(h, op[h], q, "none")
    <3>1. FailsTo(op[h].kind, op[h].spec = None, "move") = "none" BY <1>3 DEF FailsTo
    <3> QED BY <1>1, <1>4, <1>6, <3>1, StepIs, FailsIs DEF Move
  <2>2. q = Idle BY <2>1 DEF GoesTo
  <2>3. UNCHANGED dir BY <1>6 DEF Move
  <2>4. LeftBy(q, n) BY <1>5, <2>2, <2>3 DEF LeftBy, Move, Spawning, AtRest, AgentIsGone
  <2>5. PlacesTyped /\ Elsewhere(n) BY <2>3 DEF PlacesTyped, Elsewhere, Move, DirectoryInv, DirectoryTypes
  <2>6. StepLeaves(h, q, "none") BY <1>1, <1>2, <2>1, <2>4, <2>5, StepIs DEF StepLeaves, Move
  <2>7. CapHolds' BY <2>3, CapIsKept DEF Move, DirectoryInv
  <2> QED BY <1>1, <2>6, <2>7, StepIs, StepIsKept
<1>7. CASE ~Full
  <2>1. PICK q : GoesTo(h, op[h], q, "load") BY <1>1, <1>3, <1>7, StepIs, DoneIs DEF Move
  <2>2. q # Idle /\ Like(q, op[h]) /\ Head(q.todo) = "load" BY <2>1 DEF GoesTo
  <2>3. PICK e \in Dirs : e = IF dir[n] = None THEN [yaml |-> op[h].text, code |-> op[h].code] ELSE dir[n]
    <3>1. op[h].text \in Profiles \cup {None} /\ op[h].code \in BOOLEAN BY <1>1, StepIs DEF OpRecords
    <3>2. [yaml |-> op[h].text, code |-> op[h].code] \in Dirs BY <3>1 DEF Dirs
    <3> QED BY <3>2, PlacesAre
  <2>4. dir' = [dir EXCEPT ![n] = e] BY <1>2, <1>7, <2>3 DEF Move
  <2>5. LeftBy(q, n)
    <3>. SUFFICES ASSUME n \notin mixed
                  PROVE  Spawning(e, good[n], compose[n], box[n], applied[n], n \in halfway, q, "load")
      BY <1>3, <2>2, <2>4, PlaceChanges DEF LeftBy, Move, AtWork, Like
    <3>1. dir[n] = None BY <1>5 DEF Spawning
    <3>2. e.yaml = op[h].text /\ e.code = op[h].code BY <2>3, <3>1
    <3> QED BY <1>5, <2>2, <3>2, NothingAssumption DEF Spawning, Passed, Like
  <2>6. PlacesTyped /\ Elsewhere(n)
    BY <2>4, PlaceChanges DEF PlacesTyped, Elsewhere, Move, DirectoryInv, DirectoryTypes
  <2>7. StepLeaves(h, q, "load") BY <1>1, <1>2, <2>1, <2>5, <2>6, StepIs DEF StepLeaves, Move
  <2>8. CapHolds'
    <3>1. DirectoryTypes /\ UNCHANGED cap BY DEF DirectoryInv, Move
    <3>2. \A m \in AgentNames \ {n} : dir'[m] = dir[m] BY <2>4, PlaceChanges
    <3> QED BY <1>7, <3>1, <3>2, CapIsUsed
  <2> QED BY <1>1, <2>7, <2>8, StepIs, StepIsKept
<1> QED BY <1>6, <1>7

LEMMA WriteKeeps == ASSUME DirectoryInv, NEW h \in Handlers, Write(h) PROVE DirectoryInv'
<1>1. At(h, "write") BY DEF Write
<1>2. PICK n \in AgentNames : n = op[h].name BY <1>1, StepIs
<1>3. /\ op[h].kind \in {"create", "update"} /\ NextOf(op[h].todo) \in {"load", "restart"}
      /\ op[h].kind = "create" => NextOf(op[h].todo) = "load" BY <1>1, StepIs DEF PlanAt
<1>4. Head(op[h].todo) = "write" BY <1>1, StepIs
<1>5. n \notin mixed => /\ AtWork(dir[n], good[n], compose[n], box[n], applied[n], n \in halfway, op[h])
                        /\ dir[n] # None BY <1>1, <1>2, <1>3, <1>4, StepIs DEF AtWork, Spawning, Updating
<1>6. CASE Fails(h) /\ UNCHANGED dir
  <2>1. FailsTo(op[h].kind, op[h].spec = None, "write") =
          IF op[h].kind = "create" THEN "rmtree" ELSE "none" BY <1>3 DEF FailsTo
  <2>2. PICK q, next : /\ GoesTo(h, op[h], q, next)
                       /\ next = (IF op[h].kind = "create" THEN "rmtree" ELSE "none")
    BY <1>1, <1>4, <1>6, <2>1, StepIs, FailsIs
  <2>3. next = "none" => q = Idle BY <2>2 DEF GoesTo
  <2>4. next # "none" => q # Idle /\ Like(q, op[h]) /\ Head(q.todo) = next BY <2>2 DEF GoesTo
  <2>5. LeftBy(q, n)
    <3>. SUFFICES ASSUME n \notin mixed
         PROVE  /\ q = Idle => AtRest(dir[n], good[n], compose[n], box[n], applied[n], n \in halfway)
                /\ q # Idle => AtWork(dir[n], good[n], compose[n], box[n], applied[n], n \in halfway, q)
      BY <1>6 DEF LeftBy, Write
    <3>1. CASE op[h].kind = "update" BY <3>1, <1>4, <1>5, <2>2, <2>3 DEF AtWork, Updating, AtRest, AgentStands
    <3>2. CASE op[h].kind = "create" BY <3>2, <1>4, <1>5, <2>2, <2>4 DEF AtWork, Spawning, Like
    <3> QED BY <3>1, <3>2, <1>3
  <2>6. faults' \in 0..MaxFaults BY PlacesAre, DirectoryBoundsAssumption DEF Write, Fault
  <2>7. PlacesTyped /\ Elsewhere(n) BY <1>6, <2>6 DEF PlacesTyped, Elsewhere, Write, DirectoryInv, DirectoryTypes
  <2>8. StepLeaves(h, q, next) BY <1>1, <1>2, <2>2, <2>5, <2>7, StepIs DEF StepLeaves, Write
  <2>9. CapHolds' BY <1>6, CapIsKept DEF Write, DirectoryInv
  <2> QED BY <1>1, <2>8, <2>9, StepIs, StepIsKept
<1>7. CASE /\ dir[n] # None /\ Done(h, op[h]) /\ UNCHANGED faults
           /\ dir' = [dir EXCEPT ![n] = [yaml |-> op[h].text,
                        code |-> IF op[h].kind = "create" THEN op[h].code ELSE dir[n].code]]
  <2>1. PICK y \in Profiles \cup {None}, c \in BOOLEAN, d \in Dirs :
          y = op[h].text /\ d = dir[n] /\ c = (IF op[h].kind = "create" THEN op[h].code ELSE d.code)
    BY <1>1, <1>7, StepIs, PlacesAre DEF OpRecords
  <2>2. PICK e \in Dirs : e = [yaml |-> y, code |-> c] BY DEF Dirs
  <2>3. dir' = [dir EXCEPT ![n] = e] /\ Done(h, op[h]) BY <1>2, <1>7, <2>1, <2>2 DEF Write
  <2>4. PICK q, next : GoesTo(h, op[h], q, next) /\ next = NextOf(op[h].todo) BY <1>1, <2>3, StepIs, DoneIs
  <2>5. q # Idle /\ Like(q, op[h]) /\ Head(q.todo) = next BY <1>3, <2>4 DEF GoesTo
  <2>6. LeftBy(q, n)
    <3>1. dir'[n] = e BY <2>3, PlaceChanges
    <3>2. UNCHANGED <<good, compose, box, applied, halfway, mixed>> BY DEF Write
    <3>. SUFFICES ASSUME n \notin mixed
                  PROVE  AtWork(e, good[n], compose[n], box[n], applied[n], n \in halfway, q)
      BY <2>5, <3>1, <3>2 DEF LeftBy
    <3>3. e.yaml = y /\ e.code = c /\ e # None BY <2>2, NothingAssumption
    <3>4. CASE op[h].kind = "create"
      BY <1>3, <1>4, <1>5, <2>1, <2>4, <2>5, <3>3, <3>4 DEF AtWork, Spawning, Passed, Like
    <3>5. CASE op[h].kind = "update"
      BY <1>3, <1>4, <1>5, <2>1, <2>4, <2>5, <3>3, <3>5 DEF AtWork, Updating, CodeIsAllowed, Like
    <3> QED BY <1>3, <3>4, <3>5
  <2>7. PlacesTyped /\ Elsewhere(n)
    BY <1>7, <2>3, PlaceChanges DEF PlacesTyped, Elsewhere, Write, DirectoryInv, DirectoryTypes
  <2>8. StepLeaves(h, q, next) BY <1>1, <1>2, <1>3, <2>4, <2>6, <2>7, StepIs DEF StepLeaves, Write
  <2>9. CapHolds'
    <3>1. \A m \in AgentNames : dir'[m] # None => dir[m] # None BY <1>7, <2>3, PlaceChanges
    <3> QED BY <3>1, CapIsKept DEF Write, DirectoryInv
  <2> QED BY <1>1, <2>8, <2>9, StepIs, StepIsKept
<1> QED BY <1>2, <1>6, <1>7 DEF Write

\* A container that starts, from a service or as it was, is typed.
LEMMA StartIs ==
  ASSUME DirectoryInv, NEW n \in AgentNames, NEW b0, b0 \in Specs \/ b0 \in Boxes, Starts(n, b0)
  PROVE  (\E v \in Boxes : box' = [box EXCEPT ![n] = v]) /\ faults' \in 0..MaxFaults
<1>1. PICK i \in Images, k \in SUBSET {"API_KEY"} : i = b0.image /\ k = b0.keys BY DEF Specs, Boxes
<1>2. PICK t \in Profiles \cup {None} : t = IF dir[n] = None THEN None ELSE dir[n].yaml BY PlacesAre
<1>3. PICK v : v = [image |-> i, keys |-> k, text |-> t, state |-> "running"] OBVIOUS
<1>4. PICK w : w = [image |-> i, keys |-> k, text |-> t, state |-> "failed"] OBVIOUS
<1>5. v \in Boxes /\ w \in Boxes BY <1>3, <1>4 DEF Boxes
<1>6. w = [v EXCEPT !.state = "failed"] BY <1>3, <1>4
<1>7. box' = [box EXCEPT ![n] = v] \/ box' = [box EXCEPT ![n] = w] BY <1>1, <1>2, <1>3, <1>6 DEF Starts
<1>8. faults' \in 0..MaxFaults BY PlacesAre, DirectoryBoundsAssumption DEF Starts, Fault
<1> QED BY <1>5, <1>7, <1>8

\* docker compose up leaves the directory of an agent that has one alone.
LEMMA UpIs ==
  ASSUME DirectoryInv, NEW n \in AgentNames, ComposeUp(n) \/ UpFails(n)
  PROVE  /\ \E v \in Boxes \cup {None} : box' = [box EXCEPT ![n] = v]
         /\ faults' \in 0..MaxFaults
         /\ \E e \in Dirs \cup {None} : dir' = [dir EXCEPT ![n] = e] /\ (dir[n] # None => e = dir[n])
         /\ UpFails(n) => UNCHANGED box
<1>1. CASE ComposeUp(n)
  <2>1. \E e \in Dirs \cup {None} : dir' = [dir EXCEPT ![n] = e] /\ (dir[n] # None => e = dir[n])
    <3>1. [yaml |-> None, code |-> FALSE] \in Dirs BY DEF Dirs
    <3> QED BY <1>1, <3>1, PlacesAre DEF ComposeUp
  <2>2. CASE UpToDate(n)
    <3>1. UNCHANGED <<box, faults>> BY <1>1, <2>2 DEF ComposeUp
    <3>2. box' = [box EXCEPT ![n] = box[n]] BY <3>1 DEF DirectoryInv, DirectoryTypes
    <3>3. box[n] \in Boxes \cup {None} /\ faults' \in 0..MaxFaults BY <3>1, PlacesAre
    <3> QED BY <2>1, <3>1, <3>2, <3>3
  <2>3. CASE ~UpToDate(n)
    <3>1. compose[n] \in Specs /\ Starts(n, compose[n]) BY <1>1, <2>3, PlacesAre DEF ComposeUp
    <3>2. PICK b \in Specs : b = compose[n] /\ Starts(n, b) BY <3>1
    <3>3. (\E v \in Boxes : box' = [box EXCEPT ![n] = v]) /\ faults' \in 0..MaxFaults BY <3>2, StartIs
    <3>4. UpFails(n) => UNCHANGED box BY DEF UpFails
    <3> QED BY <2>1, <3>3, <3>4
  <2> QED BY <2>2, <2>3
<1>2. CASE UpFails(n) BY <1>2, PlacesAre, DirectoryBoundsAssumption DEF UpFails, Fault, DirectoryInv, DirectoryTypes
<1> QED BY <1>1, <1>2

LEMMA UpKeeps == ASSUME DirectoryInv, NEW h \in Handlers, Up(h) PROVE DirectoryInv'
<1>1. At(h, "up") BY DEF Up
<1>2. PICK n \in AgentNames : n = op[h].name BY <1>1, StepIs
<1>3. /\ op[h].kind \in {"create", "import", "update", "start"}
      /\ NextOf(op[h].todo) = (IF op[h].kind = "start" THEN "none" ELSE "boot")
      /\ op[h].kind = "update" => op[h].spec # None BY <1>1, StepIs DEF PlanAt
<1>4. Head(op[h].todo) = "up" BY <1>1, StepIs
<1>5. n \notin mixed => /\ AtWork(dir[n], good[n], compose[n], box[n], applied[n], n \in halfway, op[h])
                        /\ dir[n] # None BY <1>1, <1>2, <1>3, <1>4, StepIs DEF AtWork, Spawning, Updating, AgentStands
<1>6. PICK q, next :
        /\ GoesTo(h, op[h], q, next)
        /\ \/ op[h].kind = "start" /\ next = "none"
           \/ op[h].kind # "start" /\ next = "boot"
           \/ op[h].kind = "update" /\ next = "restore"
           \/ op[h].kind \in {"create", "import"} /\ next = "unload" /\ UpFails(n)
  <2>1. CASE Done(h, op[h]) BY <2>1, <1>1, <1>3, StepIs, DoneIs
  <2>2. CASE UpFails(n) /\ Fails(h)
    <3>1. FailsTo(op[h].kind, op[h].spec = None, "up") =
            IF op[h].kind = "update" THEN "restore" ELSE IF op[h].kind = "start" THEN "none" ELSE "unload"
      BY <1>3 DEF FailsTo
    <3>2. PICK q : GoesTo(h, op[h], q, FailsTo(op[h].kind, op[h].spec = None, "up"))
      BY <2>2, <1>1, <1>4, StepIs, FailsIs
    <3> QED BY <2>2, <3>1, <3>2, <1>3
  <2> QED BY <2>1, <2>2, <1>2 DEF Up
<1>7. /\ \E v \in Boxes \cup {None} : box' = [box EXCEPT ![n] = v]
      /\ faults' \in 0..MaxFaults
      /\ \E e \in Dirs \cup {None} : dir' = [dir EXCEPT ![n] = e] /\ (dir[n] # None => e = dir[n])
      /\ UpFails(n) => UNCHANGED box BY <1>2, UpIs DEF Up
<1>8. PICK v \in Boxes \cup {None} : box' = [box EXCEPT ![n] = v] BY <1>7
<1>9. PICK e \in Dirs \cup {None} : dir' = [dir EXCEPT ![n] = e] /\ (dir[n] # None => e = dir[n]) BY <1>7
<1>10. next = "none" => q = Idle BY <1>6 DEF GoesTo
<1>11. next # "none" => q # Idle /\ Like(q, op[h]) /\ Head(q.todo) = next BY <1>6 DEF GoesTo
<1>12. LeftBy(q, n)
  <2>. SUFFICES ASSUME n \notin mixed
                PROVE  /\ q = Idle => AtRest(dir[n], good[n], compose[n], box'[n], applied[n], n \in halfway)
                       /\ q # Idle => AtWork(dir[n], good[n], compose[n], box'[n], applied[n], n \in halfway, q)
    BY <1>5, <1>9, PlaceChanges DEF LeftBy, Up
  <2>1. CASE op[h].kind = "start" /\ next = "none" BY <2>1, <1>5, <1>10 DEF AtWork, AtRest
  <2>2. CASE op[h].kind = "update" /\ next \in {"boot", "restore"}
    BY <2>2, <1>3, <1>4, <1>5, <1>11 DEF AtWork, Updating, Like
  <2>3. CASE op[h].kind \in {"create", "import"} /\ next = "boot"
    BY <2>3, <1>4, <1>5, <1>11 DEF AtWork, Spawning, Passed, Like
  <2>4. CASE op[h].kind \in {"create", "import"} /\ next = "unload" /\ UpFails(n)
    <3>1. box'[n] = box[n] BY <2>4, <1>7
    <3> QED BY <2>4, <3>1, <1>4, <1>5, <1>11 DEF AtWork, Spawning, Passed, Like
  <2> QED BY <2>1, <2>2, <2>3, <2>4, <1>3, <1>6
<1>13. PlacesTyped /\ Elsewhere(n)
  BY <1>7, <1>8, <1>9, PlaceChanges DEF PlacesTyped, Elsewhere, Up, DirectoryInv, DirectoryTypes
<1>14. StepLeaves(h, q, next) BY <1>1, <1>2, <1>6, <1>12, <1>13, StepIs DEF StepLeaves, Up
<1>15. CapHolds'
  <2>1. mixed' = {} => \A m \in AgentNames : dir'[m] # None => dir[m] # None BY <1>5, <1>9, PlaceChanges DEF Up
  <2> QED BY <2>1, CapIsKept DEF Up, DirectoryInv
<1> QED BY <1>1, <1>14, <1>15, StepIs, StepIsKept

LEMMA ReupKeeps == ASSUME DirectoryInv, NEW h \in Handlers, Reup(h) PROVE DirectoryInv'
<1>1. At(h, "reup") BY DEF Reup
<1>2. PICK n \in AgentNames : n = op[h].name BY <1>1, StepIs
<1>3. op[h].kind = "update" /\ NextOf(op[h].todo) = "none" BY <1>1, StepIs DEF PlanAt
<1>4. Head(op[h].todo) = "reup" BY <1>1, StepIs
<1>5. n \notin mixed => Updating(dir[n], good[n], compose[n], applied[n], n \in halfway, op[h], "reup")
  BY <1>1, <1>2, <1>3, <1>4, StepIs DEF AtWork
<1>6. PICK q : GoesTo(h, op[h], q, "none") BY <1>1, <1>3, StepIs, DoneIs DEF Reup
<1>7. q = Idle BY <1>6 DEF GoesTo
<1>8. /\ \E v \in Boxes \cup {None} : box' = [box EXCEPT ![n] = v]
      /\ faults' \in 0..MaxFaults
      /\ \E e \in Dirs \cup {None} : dir' = [dir EXCEPT ![n] = e] /\ (dir[n] # None => e = dir[n])
  BY <1>2, UpIs DEF Reup
<1>9. PICK v \in Boxes \cup {None} : box' = [box EXCEPT ![n] = v] BY <1>8
<1>10. PICK e \in Dirs \cup {None} : dir' = [dir EXCEPT ![n] = e] /\ (dir[n] # None => e = dir[n]) BY <1>8
<1>11. mixed \subseteq mixed' /\ mixed' \subseteq AgentNames BY <1>2, PlacesAre DEF Reup
<1>12. LeftBy(q, n)
  <2>. SUFFICES ASSUME n \notin mixed PROVE AgentStands(dir[n], good[n], compose[n], applied[n], n \in halfway)
    BY <1>5, <1>7, <1>10, <1>11, PlaceChanges DEF LeftBy, Reup, AtRest, Updating
  <2> QED BY <1>5 DEF Updating, AgentStands
<1>13. PlacesTyped /\ Elsewhere(n) BY <1>8, <1>9, <1>10, <1>11, PlaceChanges
     DEF PlacesTyped, Elsewhere, Reup, DirectoryInv, DirectoryTypes
<1>14. StepLeaves(h, q, "none") BY <1>1, <1>2, <1>6, <1>11, <1>12, <1>13, StepIs DEF StepLeaves, Reup
<1>15. CapHolds'
  <2>1. mixed' = {} => \A m \in AgentNames : dir'[m] # None => dir[m] # None
    BY <1>5, <1>10, <1>11, PlaceChanges DEF Updating
  <2> QED BY <2>1, <1>11, CapIsKept DEF DirectoryInv, Reup
<1> QED BY <1>1, <1>14, <1>15, StepIs, StepIsKept

\* What a container that is restarted becomes.
LEMMA RestartIs ==
  ASSUME DirectoryInv, NEW n \in AgentNames, (CanRestart(n) /\ Starts(n, box[n])) \/ RestartFails(n)
  PROVE  (\E v \in Boxes \cup {None} : box' = [box EXCEPT ![n] = v]) /\ faults' \in 0..MaxFaults
<1>1. CASE CanRestart(n) /\ Starts(n, box[n])
  <2>1. PICK b \in Boxes : b = box[n] BY <1>1, PlacesAre DEF CanRestart
  <2>2. Starts(n, b) BY <1>1, <2>1
  <2> QED BY <2>2, StartIs
<1>2. CASE RestartFails(n)
  <2>1. UNCHANGED box BY <1>2 DEF RestartFails
  <2>2. box' = [box EXCEPT ![n] = box[n]] BY <2>1 DEF DirectoryInv, DirectoryTypes
  <2>3. faults' \in 0..MaxFaults BY <1>2, PlacesAre, DirectoryBoundsAssumption DEF RestartFails, Fault
  <2> QED BY <2>2, <2>3, PlacesAre
<1> QED BY <1>1, <1>2

LEMMA RestartKeeps == ASSUME DirectoryInv, NEW h \in Handlers, RestartBox(h) PROVE DirectoryInv'
<1>1. At(h, "restart") BY DEF RestartBox
<1>2. PICK n \in AgentNames : n = op[h].name BY <1>1, StepIs
<1>3. \/ op[h].kind = "update" /\ op[h].spec = None /\ NextOf(op[h].todo) = "boot"
      \/ op[h].kind \in {"restart", "register", "edit"} /\ NextOf(op[h].todo) = "none" BY <1>1, StepIs DEF PlanAt
<1>4. Head(op[h].todo) = "restart" BY <1>1, StepIs
<1>5. n \notin mixed => AtWork(dir[n], good[n], compose[n], box[n], applied[n], n \in halfway, op[h])
  BY <1>1, <1>2, StepIs
<1>6. PICK q, next :
        /\ GoesTo(h, op[h], q, next)
        /\ \/ op[h].kind \in {"restart", "register", "edit"} /\ next = "none"
           \/ op[h].kind = "update" /\ op[h].spec = None /\ next \in {"boot", "restore"}
           \/ op[h].kind = "register" /\ next = "untool"
  <2>1. CASE Done(h, op[h]) BY <2>1, <1>1, <1>3, StepIs, DoneIs
  <2>2. CASE Fails(h)
    <3>1. FailsTo(op[h].kind, op[h].spec = None, "restart") =
            IF op[h].kind = "update" THEN "restore"
            ELSE IF op[h].kind = "register" THEN "untool" ELSE "none" BY <1>3 DEF FailsTo
    <3>2. PICK q : GoesTo(h, op[h], q, FailsTo(op[h].kind, op[h].spec = None, "restart"))
      BY <2>2, <1>1, <1>4, StepIs, FailsIs
    <3> QED BY <3>1, <3>2, <1>3
  <2> QED BY <2>1, <2>2 DEF RestartBox
<1>7. (\E v \in Boxes \cup {None} : box' = [box EXCEPT ![n] = v]) /\ faults' \in 0..MaxFaults
  BY <1>2, RestartIs DEF RestartBox
<1>8. PICK v \in Boxes \cup {None} : box' = [box EXCEPT ![n] = v] BY <1>7
<1>9. next = "none" => q = Idle BY <1>6 DEF GoesTo
<1>10. next # "none" => q # Idle /\ Like(q, op[h]) /\ Head(q.todo) = next BY <1>6 DEF GoesTo
<1>11. LeftBy(q, n)
  <2>. SUFFICES ASSUME n \notin mixed
                PROVE  /\ q = Idle => AtRest(dir[n], good[n], compose[n], box'[n], applied[n], n \in halfway)
                       /\ q # Idle => AtWork(dir[n], good[n], compose[n], box'[n], applied[n], n \in halfway, q)
    BY DEF LeftBy, RestartBox
  <2>1. CASE op[h].kind \in {"restart", "register", "edit"} /\ next = "none"
    BY <2>1, <1>5, <1>9 DEF AtWork, AtRest, Coding
  <2>2. CASE op[h].kind = "update" /\ op[h].spec = None /\ next \in {"boot", "restore"}
    BY <2>2, <1>4, <1>5, <1>10 DEF AtWork, Updating, Like
  <2>3. CASE op[h].kind = "register" /\ next = "untool" BY <2>3, <1>5, <1>10 DEF AtWork, Coding, Like
  <2> QED BY <2>1, <2>2, <2>3, <1>6
<1>12. PlacesTyped /\ Elsewhere(n)
  BY <1>7, <1>8, PlaceChanges DEF PlacesTyped, Elsewhere, RestartBox, DirectoryInv, DirectoryTypes
<1>13. StepLeaves(h, q, next) BY <1>1, <1>2, <1>6, <1>11, <1>12, StepIs DEF StepLeaves, RestartBox
<1>14. CapHolds' BY CapIsKept DEF RestartBox, DirectoryInv
<1> QED BY <1>1, <1>13, <1>14, StepIs, StepIsKept

LEMMA RerestartKeeps == ASSUME DirectoryInv, NEW h \in Handlers, Rerestart(h) PROVE DirectoryInv'
<1>1. At(h, "rerestart") BY DEF Rerestart
<1>2. PICK n \in AgentNames : n = op[h].name BY <1>1, StepIs
<1>3. op[h].kind = "update" /\ op[h].spec = None /\ NextOf(op[h].todo) = "none" BY <1>1, StepIs DEF PlanAt
<1>4. PICK q : GoesTo(h, op[h], q, "none") BY <1>1, <1>3, StepIs, DoneIs DEF Rerestart
<1>5. q = Idle BY <1>4 DEF GoesTo
<1>6. (\E v \in Boxes \cup {None} : box' = [box EXCEPT ![n] = v]) /\ faults' \in 0..MaxFaults
  BY <1>2, RestartIs DEF Rerestart
<1>7. PICK v \in Boxes \cup {None} : box' = [box EXCEPT ![n] = v] BY <1>6
<1>8. LeftBy(q, n)
  <2>. SUFFICES ASSUME n \notin mixed PROVE AgentStands(dir[n], good[n], compose[n], applied[n], n \in halfway)
    BY <1>5 DEF LeftBy, Rerestart, AtRest
  <2>1. AtWork(dir[n], good[n], compose[n], box[n], applied[n], n \in halfway, op[h]) BY <1>1, <1>2, StepIs
  <2> QED BY <2>1, <1>3 DEF AtWork, Updating, AgentStands
<1>9. PlacesTyped /\ Elsewhere(n)
  BY <1>6, <1>7, PlaceChanges DEF PlacesTyped, Elsewhere, Rerestart, DirectoryInv, DirectoryTypes
<1>10. StepLeaves(h, q, "none") BY <1>1, <1>2, <1>4, <1>8, <1>9, StepIs DEF StepLeaves, Rerestart
<1>11. CapHolds' BY CapIsKept DEF Rerestart, DirectoryInv
<1> QED BY <1>1, <1>10, <1>11, StepIs, StepIsKept

LEMMA TeardownKeeps == ASSUME DirectoryInv, NEW h \in Handlers, Teardown(h) PROVE DirectoryInv'
<1>1. PICK step \in {"teardown", "discard"} : At(h, step) BY DEF Teardown
<1>2. PICK n \in AgentNames : n = op[h].name BY <1>1, StepIs
<1>3. /\ step = "teardown" => op[h].kind = "delete"
      /\ step = "discard" => op[h].kind \in {"create", "import"}
      /\ NextOf(op[h].todo) = "unload" BY <1>1, StepIs DEF PlanAt
<1>4. Head(op[h].todo) = step BY <1>1, StepIs
<1>5. n \notin mixed => AtWork(dir[n], good[n], compose[n], box[n], applied[n], n \in halfway, op[h])
  BY <1>1, <1>2, StepIs
<1>6. PICK v \in Boxes \cup {None} : box' = [box EXCEPT ![n] = v]
  <2>1. CASE box' = [box EXCEPT ![op[h].name] = None] BY <2>1, <1>2
  <2>2. CASE box[n] # None /\ box' = [box EXCEPT ![n].state = "stopped"]
    <3>1. PICK b \in Boxes : b = box[n] BY <2>2, PlacesAre
    <3>2. [b EXCEPT !.state = "stopped"] \in Boxes BY DEF Boxes
    <3> QED BY <2>2, <3>1, <3>2
  <2>3. CASE UNCHANGED box BY <2>3, PlacesAre DEF DirectoryInv, DirectoryTypes
  <2> QED BY <2>1, <2>2, <2>3, <1>2 DEF Teardown
<1>7. PICK q, next :
        /\ GoesTo(h, op[h], q, next)
        /\ \/ next = "unload" /\ box' = [box EXCEPT ![n] = None]
           \/ /\ step = "discard" /\ next = "unload"
              /\ box' = [box EXCEPT ![n].state = "stopped"] \/ UNCHANGED box
           \/ step = "teardown" /\ next = "none"
  <2>1. At(h, "discard") <=> step = "discard" BY <1>1, AtAStep DEF At
  <2>2. CASE box' = [box EXCEPT ![n] = None] /\ Done(h, op[h]) BY <2>2, <1>1, <1>3, StepIs, DoneIs
  <2>3. CASE /\ step = "discard" /\ Done(h, op[h])
             /\ box' = [box EXCEPT ![n].state = "stopped"] \/ UNCHANGED box BY <2>3, <1>1, <1>3, StepIs, DoneIs
  <2>4. CASE step = "teardown" /\ Fails(h)
    <3>1. FailsTo(op[h].kind, op[h].spec = None, step) = "none" BY <2>4, <1>3 DEF FailsTo
    <3> QED BY <2>4, <3>1, <1>1, <1>4, StepIs, FailsIs
  <2> QED BY <1>2, <2>1, <2>2, <2>3, <2>4, <1>1 DEF Teardown
<1>8. next = "none" => q = Idle BY <1>7 DEF GoesTo
<1>9. next # "none" => q # Idle /\ Like(q, op[h]) /\ Head(q.todo) = next BY <1>7 DEF GoesTo
<1>10. mixed \subseteq mixed' /\ mixed' \subseteq AgentNames BY PlacesAre DEF Teardown
<1>11. LeftBy(q, n)
  <2>. SUFFICES ASSUME n \notin mixed'
                PROVE  /\ q = Idle => AtRest(dir[n], good[n], compose[n], box'[n], applied[n], n \in halfway)
                       /\ q # Idle => AtWork(dir[n], good[n], compose[n], box'[n], applied[n], n \in halfway, q)
    BY DEF LeftBy, Teardown
  <2>1. AtWork(dir[n], good[n], compose[n], box[n], applied[n], n \in halfway, op[h]) BY <1>5, <1>10
  <2>2. CASE next = "unload" /\ box' = [box EXCEPT ![n] = None]
    <3>1. box'[n] = None BY <2>2, PlaceChanges
    <3> QED BY <2>1, <2>2, <3>1, <1>3, <1>4, <1>9 DEF AtWork, Spawning, Leaving, AgentStands, Passed, Down, Like
  <2>3. CASE step = "teardown" /\ next = "none"
    BY <2>1, <2>3, <1>3, <1>4, <1>8 DEF AtWork, Leaving, AtRest, AgentStands
  <2>4. CASE /\ step = "discard" /\ next = "unload"
             /\ box' = [box EXCEPT ![n].state = "stopped"] \/ UNCHANGED box
    <3>1. Down(box'[n])
      <4>1. Down(box[n]) BY <2>1, <2>4, <1>3, <1>4 DEF AtWork, Spawning
      <4>2. CASE UNCHANGED box BY <4>1, <4>2
      <4>3. CASE box' = [box EXCEPT ![n].state = "stopped"]
        BY <4>3, <4>1, PlacesAre DEF Down, Boxes, DirectoryInv, DirectoryTypes
      <4> QED BY <2>4, <4>2, <4>3
    <3> QED BY <2>1, <2>4, <3>1, <1>3, <1>4, <1>9 DEF AtWork, Spawning, Passed, Like
  <2> QED BY <2>2, <2>3, <2>4, <1>7
<1>12. faults' \in 0..MaxFaults BY PlacesAre, DirectoryBoundsAssumption DEF Teardown, Fault
<1>13. PlacesTyped /\ Elsewhere(n) BY <1>6, <1>10, <1>12, PlaceChanges
     DEF PlacesTyped, Elsewhere, Teardown, DirectoryInv, DirectoryTypes
<1>14. StepLeaves(h, q, next) BY <1>1, <1>2, <1>7, <1>10, <1>11, <1>13, StepIs DEF StepLeaves, Teardown
<1>15. CapHolds' BY <1>10, CapIsKept DEF Teardown, DirectoryInv
<1> QED BY <1>1, <1>14, <1>15, StepIs, StepIsKept

------------------------
(* The steps that read or write compose.yml. *)

LEMMA ReadIs ==
  ASSUME DirectoryInv, NEW h \in Handlers, op[h] # Idle, NEW r0 \in OpRecords,
         r0.name = op[h].name, r0.kind = op[h].kind, r0.spec = None <=> op[h].spec = None,
         ReadCompose(h, r0)
  PROVE  \E q, r : /\ GoesTo(h, r, q, NextOf(op[h].todo)) /\ r.snap = compose
                   /\ r.kind = r0.kind /\ r.name = r0.name /\ r.text = r0.text /\ r.code = r0.code
                   /\ r.spec = r0.spec /\ r.was = r0.was /\ r.file = r0.file
<1>1. PICK r : r = [r0 EXCEPT !.snap = compose] OBVIOUS
<1>2. compose \in [AgentNames -> Specs \cup {None}] BY DEF DirectoryInv, DirectoryTypes
<1>3. /\ r \in OpRecords /\ r.snap = compose
      /\ r.kind = r0.kind /\ r.name = r0.name /\ r.text = r0.text /\ r.code = r0.code
      /\ r.spec = r0.spec /\ r.was = r0.was /\ r.file = r0.file BY <1>1, <1>2 DEF OpRecords
<1>4. Done(h, r) BY <1>1 DEF ReadCompose
<1>5. \E q : GoesTo(h, r, q, NextOf(op[h].todo)) BY <1>3, <1>4, DoneIs
<1> QED BY <1>3, <1>5

LEMMA ReadIsKept ==
  ASSUME DirectoryInv, NEW h \in Handlers, op[h] # Idle, Head(op[h].todo) # "commit",
         NEW r0, r0.name = op[h].name, ReadCompose(h, r0),
         NEW r, NEW q, NEW next \in {"store", "unstore", "restage"}, GoesTo(h, r, q, next),
         r.snap = compose, r.name = r0.name, r.kind \in {"create", "import"} => r.spec # None,
         r.kind = "update" => r.file # None, LeftBy(q, op[h].name),
         applied' \in [AgentNames -> SUBSET Profiles],
         \A m \in AgentNames \ {op[h].name} : applied'[m] = applied[m],
         UNCHANGED <<dir, good, compose, box, cached, upstream, cap, ops, faults, halfway>>
  PROVE  DirectoryInv'
<1>1. PICK n \in AgentNames : n = op[h].name BY RequestIs
<1>2. /\ q # Idle /\ Like(q, r) /\ Head(q.todo) = next /\ Puts(h, q) BY DEF GoesTo
<1>3. q.snap = compose /\ q.name = r0.name /\ q.name = n BY <1>1, <1>2 DEF Like
<1>4. SnapsAreFresh' /\ SnapsAreMixed' /\ mixed \subseteq mixed' /\ mixed' \subseteq AgentNames
  BY <1>1, <1>2, <1>3, SnapIsTaken
<1>5. PlacesTyped /\ Elsewhere(n) BY <1>1, <1>4 DEF PlacesTyped, Elsewhere, DirectoryInv, DirectoryTypes
<1>6. compose # None BY NothingAssumption DEF DirectoryInv, DirectoryTypes
<1>7. DirectoryTypes' /\ RequestsAreOK' BY <1>5, <1>6, RequestsAreKept
<1>8. n \notin mixed' => \A g \in Handlers \ {h} : ~Works(g, n) BY <1>1, <1>4, AgentIs
<1>9. OneWorks' /\ AgentsAreOK' BY <1>1, <1>2, <1>3, <1>4, <1>5, <1>8, OthersAreKept
<1>10. CapHolds' BY <1>4, CapIsKept DEF DirectoryInv
<1> QED BY <1>4, <1>7, <1>9, <1>10 DEF DirectoryInv

LEMMA WriteIs ==
  ASSUME DirectoryInv, NEW h \in Handlers, op[h] # Idle, NEW spec, WriteCompose(h, spec)
  PROVE  \E q, r : /\ GoesTo(h, r, q, NextOf(op[h].todo)) /\ r.snap = None
                   /\ r.kind = op[h].kind /\ r.name = op[h].name /\ r.text = op[h].text
                   /\ r.code = op[h].code /\ r.spec = op[h].spec /\ r.was = op[h].was
                   /\ r.file = op[h].file
<1>1. PICK r0 \in OpRecords : r0 = op[h] BY RequestIs
<1>2. PICK r : r = [r0 EXCEPT !.snap = None] OBVIOUS
<1>3. /\ r \in OpRecords /\ r.snap = None
      /\ r.kind = r0.kind /\ r.name = r0.name /\ r.text = r0.text /\ r.code = r0.code
      /\ r.spec = r0.spec /\ r.was = r0.was /\ r.file = r0.file BY <1>2 DEF OpRecords
<1>4. Done(h, r) BY <1>1, <1>2 DEF WriteCompose
<1>5. \E q : GoesTo(h, r, q, NextOf(op[h].todo)) BY <1>1, <1>3, <1>4, DoneIs
<1> QED BY <1>1, <1>3, <1>5

LEMMA WriteIsKept ==
  ASSUME DirectoryInv, NEW h \in Handlers, op[h] # Idle, Head(op[h].todo) # "commit",
         op[h].snap # None, NEW spec \in Specs \cup {None}, WriteCompose(h, spec),
         NEW r, NEW q, NEW next, next \notin {"commit", "store", "unstore", "restage"},
         GoesTo(h, r, q, next), r.snap = None, r.name = op[h].name, r.kind = op[h].kind,
         r.spec = op[h].spec,
         r.file = op[h].file, q # Idle,
         op[h].name \notin mixed =>
           LET n == op[h].name IN
           AtWork(dir[n], good[n], spec, box[n], applied'[n], n \in halfway', q),
         applied' \in [AgentNames -> SUBSET Profiles], halfway' \subseteq AgentNames,
         \A m \in AgentNames \ {op[h].name} :
           applied'[m] = applied[m] /\ (m \in halfway' <=> m \in halfway),
         UNCHANGED <<dir, good, box, cached, upstream, cap, ops>>
  PROVE  DirectoryInv'
<1>1. PICK n \in AgentNames : n = op[h].name BY RequestIs
<1>2. Puts(h, q) /\ q.snap = None /\ (q = Idle \/ (q.name = n /\ Head(q.todo) # "commit"))
  BY <1>1, IdleIs DEF GoesTo, Like
<1>3. /\ SnapsAreFresh' /\ SnapsAreMixed' /\ compose' \in [AgentNames -> Specs \cup {None}]
      /\ compose'[n] = spec
      /\ \A m \in AgentNames \ {n} : m \notin mixed => compose'[m] = compose[m]
  BY <1>1, <1>2, SnapIsWritten DEF WriteCompose
<1>4. PlacesTyped /\ Elsewhere(n) BY <1>1, <1>3 DEF WriteCompose, PlacesTyped, Elsewhere, DirectoryInv, DirectoryTypes
<1>5. DirectoryTypes' /\ RequestsAreOK'
  <2>1. /\ r.kind \in {"create", "import"} => r.spec # None
        /\ r.kind = "update" => r.file # None BY RequestIs DEF RequestOK
  <2> QED BY <1>4, <2>1, RequestsAreKept
<1>6. n \notin mixed' => \A g \in Handlers \ {h} : ~Works(g, n) BY <1>1, AgentIs DEF WriteCompose
<1>7. LeftBy(q, n) BY <1>1, <1>3 DEF LeftBy, WriteCompose
<1>8. OneWorks' /\ AgentsAreOK' BY <1>1, <1>2, <1>4, <1>6, <1>7, OthersAreKept DEF WriteCompose
<1>9. CapHolds' BY CapIsKept DEF DirectoryInv, WriteCompose
<1> QED BY <1>3, <1>5, <1>8, <1>9 DEF DirectoryInv

\* A write of compose.yml that fails, before it begins or with services lost.
LEMMA LossIs ==
  ASSUME DirectoryInv, NEW h \in Handlers, op[h] # Idle, op[h].snap # None,
         Head(op[h].todo) # "commit", NEW spec \in Specs \cup {None}, LosesServices(h, spec)
  PROVE  LET n == op[h].name IN
         /\ compose' \in [AgentNames -> Specs \cup {None}] /\ compose'[n] \in {compose[n], spec, None}
         /\ applied' \in [AgentNames -> SUBSET Profiles] /\ halfway' \subseteq AgentNames
         /\ applied'[n] = Kept(applied[n], op[h]) /\ n \in halfway'
         /\ mixed \subseteq mixed' /\ mixed' \subseteq AgentNames
         /\ \A m \in AgentNames \ {n} :
              /\ applied'[m] = applied[m]
              /\ m \notin mixed' =>
                   \/ compose'[m] = compose[m] /\ (m \in halfway' <=> m \in halfway)
                   \/ /\ compose'[m] = None /\ m \in halfway' /\ \A g \in Handlers : ~Works(g, m)
                      /\ \A g \in Handlers \ {h} : op[g].snap = None
<1>1. PICK n \in AgentNames : n = op[h].name BY RequestIs
<1>2. PICK s \in [AgentNames -> Specs \cup {None}] : s = op[h].snap BY RequestIs
<1>3. PICK new : new = [s EXCEPT ![n] = spec] OBVIOUS
<1>4. PICK lost \in SUBSET (AgentNames \ {n}) : lost = {m \in AgentNames \ {n} : compose'[m] # compose[m]} OBVIOUS
<1>5. /\ compose' \in {compose} \cup
           {[m \in AgentNames |-> IF m \in put THEN new[m] ELSE None] : put \in SUBSET AgentNames}
      /\ Halve(h, lost \cup {n})
      /\ mixed' = mixed \cup {m \in lost : {g \in Handlers \ {h} : op[g].snap # None} # {} \/ Busy(m, h)}
  BY <1>1, <1>2, <1>3, <1>4 DEF LosesServices
<1>6. /\ new \in [AgentNames -> Specs \cup {None}] /\ new[n] = spec
      /\ \A m \in AgentNames \ {n} : new[m] = s[m] BY <1>3
<1>7. /\ compose' \in [AgentNames -> Specs \cup {None}]
      /\ \A m \in AgentNames : compose'[m] \in {compose[m], new[m], None}
  <2>1. CASE compose' = compose BY <2>1 DEF DirectoryInv, DirectoryTypes
  <2>2. CASE compose' # compose
    <3>1. PICK put \in SUBSET AgentNames :
            compose' = [m \in AgentNames |-> IF m \in put THEN new[m] ELSE None] BY <2>2, <1>5
    <3> QED BY <3>1, <1>6
  <2> QED BY <2>1, <2>2
<1>8. \A m \in AgentNames \ mixed : s[m] = compose[m] BY <1>2 DEF DirectoryInv, SnapsAreFresh
<1>9. /\ applied' \in [AgentNames -> SUBSET Profiles] /\ halfway' \subseteq AgentNames
      /\ applied'[n] = Kept(applied[n], op[h])
      /\ \A m \in AgentNames \ {n} : applied'[m] = applied[m]
      /\ halfway' = halfway \cup lost \cup {n}
  <2>1. lost \cup {n} \in SUBSET AgentNames OBVIOUS
  <2> QED BY <1>1, <1>5, <2>1, HalvesAre
<1>10. mixed \subseteq mixed' /\ mixed' \subseteq AgentNames BY <1>5, PlacesAre
<1>11. ASSUME NEW m \in AgentNames \ {n}, m \notin mixed'
       PROVE  \/ compose'[m] = compose[m] /\ (m \in halfway' <=> m \in halfway)
              \/ /\ compose'[m] = None /\ m \in halfway' /\ \A g \in Handlers : ~Works(g, m)
                 /\ \A g \in Handlers \ {h} : op[g].snap = None
  <2>1. CASE compose'[m] = compose[m] BY <2>1, <1>4, <1>9
  <2>2. CASE compose'[m] # compose[m]
    <3>1. m \in lost /\ m \notin mixed BY <2>2, <1>4, <1>10, <1>11
    <3>2. compose'[m] = None BY <2>2, <3>1, <1>6, <1>7, <1>8
    <3>3. ~Busy(m, h) /\ \A g \in Handlers \ {h} : op[g].snap = None BY <3>1, <1>5, <1>11
    <3>4. \A g \in Handlers : ~Works(g, m) BY <3>3, <1>1 DEF Busy, Works
    <3> QED BY <3>1, <3>2, <3>3, <3>4, <1>9
  <2> QED BY <2>1, <2>2
<1>12. compose'[n] \in {compose[n], spec, None} /\ n \in halfway' BY <1>6, <1>7, <1>9
<1> QED BY <1>1, <1>7, <1>9, <1>10, <1>11, <1>12

LEMMA LossIsKept ==
  ASSUME DirectoryInv, NEW h \in Handlers, NEW step \in {"store", "unstore", "restage"}, At(h, step),
         NEW spec \in Specs \cup {None}, LosesServices(h, spec),
         op[h].name \notin mixed => Granted(spec, Kept(applied[op[h].name], op[h])),
         UNCHANGED <<dir, good, box, cached, upstream, cap, ops>>
  PROVE  DirectoryInv'
<1>. DEFINE k == op[h].kind
<1>1. PICK n \in AgentNames : n = op[h].name BY StepIs
<1>2. /\ k \in Changing
      /\ step = "restage" => k = "update"
      /\ step = "unstore" => k \in {"create", "import", "delete"}
      /\ step = "store" => k \in {"create", "import", "update"}
      /\ op[h] # Idle /\ op[h].snap # None /\ Head(op[h].todo) = step BY StepIs DEF PlanAt, Changing
<1>3. PICK q, r, next :
        /\ GoesTo(h, r, q, next) /\ r.snap = None /\ SameRequest(r, op[h])
        /\ next \in {"rmtree", "none"}
        /\ next = "rmtree" => k \in {"create", "import"}
  <2>1. FailsTo(k, op[h].spec = None, step) \in {"rmtree", "none"} BY <1>2 DEF FailsTo
  <2>2. FailsTo(k, op[h].spec = None, step) = "rmtree" => k \in {"create", "import"} BY <1>2 DEF FailsTo
  <2> QED BY <1>2, <2>1, <2>2, FailureIs DEF LosesServices
<1>4. q = Idle \/ (q.kind = k /\ q.name = n /\ Head(q.todo) = "rmtree" /\ next = "rmtree")
  BY <1>1, <1>3 DEF GoesTo, Like, SameRequest
<1>5. q.snap = None BY <1>3, IdleIs DEF GoesTo, Like
<1>6. /\ compose' \in [AgentNames -> Specs \cup {None}] /\ compose'[n] \in {compose[n], spec, None}
      /\ applied' \in [AgentNames -> SUBSET Profiles] /\ halfway' \subseteq AgentNames
      /\ applied'[n] = Kept(applied[n], op[h]) /\ n \in halfway'
      /\ mixed \subseteq mixed' /\ mixed' \subseteq AgentNames
      /\ \A m \in AgentNames \ {n} :
           /\ applied'[m] = applied[m]
           /\ m \notin mixed' =>
                \/ compose'[m] = compose[m] /\ (m \in halfway' <=> m \in halfway)
                \/ /\ compose'[m] = None /\ m \in halfway' /\ \A g \in Handlers : ~Works(g, m)
                   /\ \A g \in Handlers \ {h} : op[g].snap = None BY <1>1, <1>2, LossIs
<1>7. Elsewhere(n) BY <1>6 DEF Elsewhere
<1>8. PlacesTyped
  <2>1. faults' \in 0..MaxFaults BY PlacesAre, DirectoryBoundsAssumption DEF LosesServices, Fault
  <2> QED BY <1>6, <2>1 DEF PlacesTyped, DirectoryInv, DirectoryTypes
<1>9. LeftBy(q, n)
  <2>. SUFFICES ASSUME n \notin mixed'
                PROVE  /\ q = Idle => AtRest(dir[n], good[n], compose'[n], box[n], applied'[n], n \in halfway')
                       /\ q # Idle => AtWork(dir[n], good[n], compose'[n], box[n], applied'[n], n \in halfway', q)
    BY DEF LeftBy
  <2>1. n \notin mixed /\ RequestOK(op[h]) BY <1>2, <1>6, RequestIs
  <2>2. AtWork(dir[n], good[n], compose[n], box[n], applied[n], n \in halfway, op[h]) BY <1>1, <2>1, StepIs
  <2>3. /\ Granted(compose[n], applied'[n])
        /\ \/ dir[n] # None /\ CodeIsAllowed(dir[n], good[n])
           \/ dir[n] = None /\ good[n] = None /\ Down(box[n]) BY <1>2, <1>6, <2>1, <2>2, HalfwayIs
  <2>4. Granted(compose'[n], applied'[n])
    <3>1. Granted(spec, applied'[n]) /\ Granted(None, applied'[n]) BY <1>1, <1>6, <2>1 DEF Granted
    <3> QED BY <1>6, <2>3, <3>1
  <2>5. AtRest(dir[n], good[n], compose'[n], box[n], applied'[n], n \in halfway') BY <1>6, <2>3, <2>4, RestsHalfway
  <2>6. ASSUME q # Idle
        PROVE  AtWork(dir[n], good[n], compose'[n], box[n], applied'[n], n \in halfway', q)
    <3>1. k \in {"create", "import"} /\ q.kind = k /\ Head(q.todo) = "rmtree" BY <2>6, <1>3, <1>4
    <3>2. Spawning(dir[n], good[n], compose[n], box[n], applied[n], n \in halfway, op[h], step)
      BY <2>2, <1>2, <3>1 DEF AtWork
    <3>3. Spawning(dir[n], good[n], compose'[n], box[n], applied'[n], n \in halfway', q, "rmtree")
      BY <1>6, <2>4, <3>2 DEF Spawning, Missing
    <3> QED BY <3>1, <3>3 DEF AtWork
  <2> QED BY <2>5, <2>6
<1>10. DirectoryTypes' /\ RequestsAreOK'
  <2>1. /\ r.kind \in {"create", "import"} => r.spec # None
        /\ r.kind = "update" => r.file # None BY <1>2, <1>3, RequestIs DEF RequestOK, SameRequest
  <2>2. r.snap # None <=> next \in {"store", "unstore", "restage"} BY <1>3
  <2> QED BY <1>3, <1>8, <2>1, <2>2, RequestsAreKept
<1>11. Puts(h, q) BY <1>3 DEF GoesTo
<1>12. n \notin mixed' => \A g \in Handlers \ {h} : ~Works(g, n) BY <1>1, <1>2, <1>6, AgentIs
<1>13. OneWorks' /\ AgentsAreOK' BY <1>1, <1>4, <1>6, <1>7, <1>9, <1>11, <1>12, OthersAreKept
<1>14. op'[h] = q /\ \A g \in Handlers \ {h} : op'[g] = op[g] BY <1>11 DEF Puts, DirectoryInv, DirectoryTypes
<1>15. SnapsAreFresh'
  <2>. SUFFICES ASSUME NEW g \in Handlers, NEW m \in AgentNames, op'[g].snap # None, m \notin mixed'
                PROVE  op'[g].snap[m] = compose'[m] BY DEF SnapsAreFresh
  <2>1. g # h /\ op'[g] = op[g] BY <1>5, <1>14
  <2>2. op[g].snap[m] = compose[m] BY <2>1, <1>6 DEF DirectoryInv, SnapsAreFresh
  <2>3. n \in mixed BY <2>1, <1>1, <1>2 DEF DirectoryInv, SnapsAreMixed
  <2> QED BY <2>1, <2>2, <2>3, <1>6
<1>16. SnapsAreMixed' BY <1>5, <1>6, <1>14 DEF SnapsAreMixed, DirectoryInv
<1>17. CapHolds' BY <1>6, CapIsKept DEF DirectoryInv
<1> QED BY <1>10, <1>13, <1>15, <1>16, <1>17 DEF DirectoryInv

LEMMA UnloadKeeps == ASSUME DirectoryInv, NEW h \in Handlers, Unload(h) PROVE DirectoryInv'
<1>1. At(h, "unload") BY DEF Unload
<1>2. PICK n \in AgentNames : n = op[h].name BY <1>1, StepIs
<1>3. op[h].kind \in {"create", "import", "delete"} /\ NextOf(op[h].todo) = "unstore" BY <1>1, StepIs DEF PlanAt
<1>4. PICK r0 \in OpRecords : r0 = op[h] BY <1>1, StepIs
<1>5. CASE ReadCompose(h, r0) /\ UNCHANGED <<faults, applied, halfway>>
  <2>1. PICK q, r : /\ GoesTo(h, r, q, "unstore") /\ r.snap = compose
                    /\ r.kind = r0.kind /\ r.name = r0.name /\ r.text = r0.text /\ r.code = r0.code
                    /\ r.spec = r0.spec /\ r.was = r0.was /\ r.file = r0.file
    BY <1>1, <1>3, <1>4, <1>5, StepIs, ReadIs
  <2>2. q # Idle /\ Like(q, r) /\ Head(q.todo) = "unstore" BY <2>1 DEF GoesTo
  <2>3. LeftBy(q, n)
    <3>. SUFFICES ASSUME n \notin mixed'
                  PROVE  AtWork(dir[n], good[n], compose[n], box[n], applied[n], n \in halfway, q)
      BY <1>5, <2>2 DEF LeftBy, Unload
    <3>1. n \notin mixed BY <1>4, <1>5 DEF ReadCompose
    <3>2. AtWork(dir[n], good[n], compose[n], box[n], applied[n], n \in halfway, r0) BY <1>1, <1>2, <1>4, <3>1, StepIs
    <3>3. Head(r0.todo) = "unload" BY <1>1, <1>4, StepIs
    <3> QED BY <3>2, <3>3, <1>3, <1>4, <2>1, <2>2 DEF AtWork, Spawning, Leaving, Passed, Like
  <2>4. r.kind \in {"create", "import"} => r.spec # None BY <1>1, <1>4, <2>1, StepIs
  <2>5. r.kind # "update" BY <1>3, <1>4, <2>1
  <2>6. applied' \in [AgentNames -> SUBSET Profiles] /\ \A m \in AgentNames : applied'[m] = applied[m]
    BY <1>5 DEF DirectoryInv, DirectoryTypes
  <2> QED BY <1>1, <1>2, <1>4, <1>5, <2>1, <2>3, <2>4, <2>5, <2>6, StepIs, ReadIsKept DEF Unload
<1>6. CASE Breaks(h) /\ UNCHANGED mixed
  <2>1. dir' = [dir EXCEPT ![n] = dir[n]] /\ dir[n] \in Dirs \cup {None}
    BY PlacesAre DEF Unload, DirectoryInv, DirectoryTypes
  <2>2. UNCHANGED <<good, compose, box, cached, upstream, cap, ops, mixed>> BY <1>6 DEF Unload
  <2> QED BY <1>1, <1>2, <1>6, <2>1, <2>2, BreakIsKept
<1> QED BY <1>4, <1>5, <1>6 DEF Unload

LEMMA ReloadKeeps == ASSUME DirectoryInv, NEW h \in Handlers, Reload(h) PROVE DirectoryInv'
<1>1. At(h, "reload") BY DEF Reload
<1>2. PICK n \in AgentNames : n = op[h].name BY <1>1, StepIs
<1>3. /\ op[h].kind = "update" /\ op[h].spec # None /\ NextOf(op[h].todo) = "restage"
      /\ Head(op[h].todo) = "reload" BY <1>1, StepIs DEF PlanAt
<1>4. PICK r0 \in OpRecords : r0 = op[h] BY <1>1, StepIs
<1>5. PICK file \in Profiles : file = op[h].file BY <1>1, <1>3, <1>4, StepIs DEF OpRecords
<1>6. PICK a \in SUBSET Profiles :
        a = IF op[h].was # None THEN applied[n] ELSE applied[n] \cup {file} BY PlacesAre
<1>7. CASE ReadCompose(h, r0) /\ UNCHANGED <<faults, halfway>> /\ applied' = [applied EXCEPT ![n] = a]
  <2>1. PICK q, r : /\ GoesTo(h, r, q, "restage") /\ r.snap = compose
                    /\ r.kind = r0.kind /\ r.name = r0.name /\ r.text = r0.text /\ r.code = r0.code
                    /\ r.spec = r0.spec /\ r.was = r0.was /\ r.file = r0.file
    BY <1>1, <1>3, <1>4, <1>7, StepIs, ReadIs
  <2>2. q # Idle /\ Like(q, r) /\ Head(q.todo) = "restage" BY <2>1 DEF GoesTo
  <2>3. /\ applied' \in [AgentNames -> SUBSET Profiles] /\ applied'[n] = a
        /\ \A m \in AgentNames \ {n} : applied'[m] = applied[m] BY <1>7, PlaceChanges
  <2>4. LeftBy(q, n)
    <3>. SUFFICES ASSUME n \notin mixed'
                  PROVE  AtWork(dir[n], good[n], compose[n], box[n], a, n \in halfway, q)
      BY <1>7, <2>2, <2>3 DEF LeftBy, Reload
    <3>1. n \notin mixed BY <1>4, <1>7 DEF ReadCompose
    <3>2. Updating(dir[n], good[n], compose[n], applied[n], n \in halfway, r0, "reload")
      BY <1>1, <1>2, <1>3, <1>4, <3>1, StepIs DEF AtWork
    <3>3. Covered(r0.was, a, n \in halfway) BY <3>2, <1>4, <1>6 DEF Updating, Covered, Granted, Right, Serves
    <3>4. r0.was = None => file \in a BY <1>4, <1>6
    <3>5. Updating(dir[n], good[n], compose[n], a, n \in halfway, q, "restage")
      BY <3>2, <3>3, <3>4, <1>3, <1>4, <1>5, <2>1, <2>2 DEF Updating, Like
    <3> QED BY <3>5, <1>3, <1>4, <2>1, <2>2 DEF AtWork, Like
  <2>5. r.kind \notin {"create", "import"} /\ r.file # None BY <1>3, <1>4, <1>5, <2>1, NothingAssumption
  <2> QED BY <1>1, <1>2, <1>4, <1>7, <2>1, <2>3, <2>4, <2>5, StepIs, ReadIsKept DEF Reload
<1>8. CASE Breaks(h) /\ UNCHANGED mixed
  <2>1. dir' = [dir EXCEPT ![n] = dir[n]] /\ dir[n] \in Dirs \cup {None}
    BY PlacesAre DEF Reload, DirectoryInv, DirectoryTypes
  <2>2. UNCHANGED <<good, compose, box, cached, upstream, cap, ops, mixed>> BY <1>8 DEF Reload
  <2> QED BY <1>1, <1>2, <1>8, <2>1, <2>2, BreakIsKept
<1>9. ASSUME ReadCompose(h, op[h]) PROVE ReadCompose(h, r0) BY <1>4, <1>9
<1>10. ASSUME applied' = [applied EXCEPT ![op[h].name] = IF op[h].was # None THEN @ ELSE @ \cup {op[h].file}]
       PROVE  applied' = [applied EXCEPT ![n] = a] BY <1>2, <1>5, <1>6, <1>10 DEF DirectoryInv, DirectoryTypes
<1> QED BY <1>7, <1>8, <1>9, <1>10 DEF Reload

LEMMA UnstoreKeeps == ASSUME DirectoryInv, NEW h \in Handlers, Unstore(h) PROVE DirectoryInv'
<1>1. At(h, "unstore") BY DEF Unstore
<1>2. PICK n \in AgentNames : n = op[h].name BY <1>1, StepIs
<1>3. \/ op[h].kind \in {"create", "import"} /\ NextOf(op[h].todo) = "rmtree"
      \/ op[h].kind = "delete" /\ NextOf(op[h].todo) = "unlink" BY <1>1, StepIs DEF PlanAt
<1>4. CASE /\ WriteCompose(h, None)
           /\ applied' = [applied EXCEPT ![n] = {}] /\ halfway' = halfway \ {n}
  <2>1. PICK q, r, next :
          /\ GoesTo(h, r, q, next) /\ r.snap = None /\ next = NextOf(op[h].todo)
          /\ r.kind = op[h].kind /\ r.name = op[h].name /\ r.text = op[h].text
          /\ r.code = op[h].code /\ r.spec = op[h].spec /\ r.was = op[h].was
          /\ r.file = op[h].file BY <1>1, <1>4, StepIs, WriteIs
  <2>2. q # Idle /\ Like(q, r) /\ Head(q.todo) = next BY <1>3, <2>1 DEF GoesTo
  <2>3. /\ applied' \in [AgentNames -> SUBSET Profiles] /\ applied'[n] = {}
        /\ \A m \in AgentNames \ {n} : applied'[m] = applied[m]
    <3>1. PICK a \in SUBSET Profiles : a = {} OBVIOUS
    <3>2. applied' = [applied EXCEPT ![n] = a] BY <1>4, <3>1
    <3> QED BY <3>1, <3>2, PlaceChanges
  <2>4. /\ n \notin halfway' /\ halfway' \subseteq AgentNames
        /\ \A m \in AgentNames \ {n} : m \in halfway' <=> m \in halfway BY <1>4, PlacesAre
  <2>5. ASSUME n \notin mixed
        PROVE  AtWork(dir[n], good[n], None, box[n], applied'[n], n \in halfway', q)
    <3>1. AtWork(dir[n], good[n], compose[n], box[n], applied[n], n \in halfway, op[h]) BY <1>1, <1>2, <2>5, StepIs
    <3>2. Head(op[h].todo) = "unstore" BY <1>1, StepIs
    <3> QED BY <3>1, <3>2, <1>3, <2>1, <2>2, <2>4 DEF AtWork, Spawning, Leaving, Missing, Granted, Like
  <2> QED BY <1>1, <1>2, <1>3, <1>4, <2>1, <2>2, <2>3, <2>4, <2>5, StepIs, WriteIsKept DEF Unstore
<1>5. CASE LosesServices(h, None) BY <1>1, <1>5, LossIsKept DEF Unstore, Granted
<1> QED BY <1>2, <1>4, <1>5 DEF Unstore

LEMMA RestageKeeps == ASSUME DirectoryInv, NEW h \in Handlers, Restage(h) PROVE DirectoryInv'
<1>1. At(h, "restage") BY DEF Restage
<1>2. PICK n \in AgentNames : n = op[h].name BY <1>1, StepIs
<1>3. op[h].kind = "update" /\ op[h].spec # None /\ NextOf(op[h].todo) = "reup" BY <1>1, StepIs DEF PlanAt
<1>4. PICK spec \in Specs : spec = RollbackSpec(h)
  <2>1. op[h].was \in Specs \cup {None} /\ op[h].file \in Profiles \cup {None} BY <1>1, StepIs DEF OpRecords
  <2>2. cached \in Images BY DEF DirectoryInv, DirectoryTypes
  <2>3. Planned(op[h].file, cached) \in Specs BY <2>2 DEF Planned, Specs, Keys
  <2> QED BY <2>1, <2>3 DEF RollbackSpec
<1>5. /\ op[h].file \in Profiles /\ op[h].file # None /\ Head(op[h].todo) = "restage"
      /\ spec # None /\ op[h].was = None => spec.keys = Keys(op[h].file)
      /\ op[h].was # None => spec = op[h].was
  BY <1>1, <1>3, <1>4, StepIs, NothingAssumption DEF OpRecords, RollbackSpec, Planned, Specs
<1>6. ASSUME n \notin mixed
      PROVE  /\ Updating(dir[n], good[n], compose[n], applied[n], n \in halfway, op[h], "restage")
             /\ Covered(spec, applied[n], n \in halfway) /\ Granted(spec, Kept(applied[n], op[h]))
  <2>1. Updating(dir[n], good[n], compose[n], applied[n], n \in halfway, op[h], "restage")
    BY <1>1, <1>2, <1>3, <1>5, <1>6, StepIs DEF AtWork
  <2>2. CASE op[h].was # None BY <2>1, <2>2, <1>5 DEF Updating, Covered, Granted, Right, Serves, Kept
  <2>3. CASE op[h].was = None
    <3>1. n \in halfway BY <2>1, <2>3 DEF Updating, Covered, Right, Serves
    <3>2. op[h].file \in applied[n] BY <2>1, <2>3 DEF Updating
    <3> QED BY <2>1, <2>3, <3>1, <3>2, <1>5 DEF Covered, Granted, Kept
  <2> QED BY <2>1, <2>2, <2>3
<1>7. CASE WriteCompose(h, spec) /\ UNCHANGED <<applied, halfway>>
  <2>1. PICK q, r :
          /\ GoesTo(h, r, q, "reup") /\ r.snap = None
          /\ r.kind = op[h].kind /\ r.name = op[h].name /\ r.text = op[h].text
          /\ r.code = op[h].code /\ r.spec = op[h].spec /\ r.was = op[h].was
          /\ r.file = op[h].file BY <1>1, <1>3, <1>7, StepIs, WriteIs
  <2>2. q # Idle /\ Like(q, r) /\ Head(q.todo) = "reup" BY <2>1 DEF GoesTo
  <2>3. ASSUME n \notin mixed
        PROVE  AtWork(dir[n], good[n], spec, box[n], applied'[n], n \in halfway', q)
    <3>1. AtWork(dir[n], good[n], spec, box[n], applied[n], n \in halfway, q)
      BY <2>3, <1>3, <1>6, <2>1, <2>2 DEF AtWork, Updating, Like
    <3> QED BY <3>1, <1>7
  <2>4. /\ applied' \in [AgentNames -> SUBSET Profiles] /\ halfway' \subseteq AgentNames
        /\ \A m \in AgentNames : applied'[m] = applied[m] /\ (m \in halfway' <=> m \in halfway)
    BY <1>7 DEF DirectoryInv, DirectoryTypes
  <2> QED BY <1>1, <1>2, <1>3, <1>7, <2>1, <2>2, <2>3, <2>4, StepIs, WriteIsKept DEF Restage
<1>8. CASE LosesServices(h, spec) BY <1>1, <1>2, <1>6, <1>8, LossIsKept DEF Restage
<1> QED BY <1>4, <1>7, <1>8 DEF Restage

LEMMA StoreKeeps == ASSUME DirectoryInv, NEW h \in Handlers, Store(h) PROVE DirectoryInv'
<1>1. At(h, "store") BY DEF Store
<1>2. PICK n \in AgentNames : n = op[h].name BY <1>1, StepIs
<1>3. \/ op[h].kind \in {"create", "import"} /\ NextOf(op[h].todo) \in {"up", "save"}
      \/ op[h].kind = "update" /\ op[h].spec # None /\ NextOf(op[h].todo) = "up" BY <1>1, StepIs DEF PlanAt
<1>4. PICK spec \in Specs \cup {None} : spec = op[h].spec BY <1>1, StepIs DEF OpRecords
<1>5. Head(op[h].todo) = "store" BY <1>1, StepIs
<1>6. ASSUME n \notin mixed PROVE AtWork(dir[n], good[n], compose[n], box[n], applied[n], n \in halfway, op[h])
  BY <1>1, <1>2, <1>6, StepIs
<1>7. CASE WriteCompose(h, spec) /\ UNCHANGED <<applied, halfway>>
  <2>1. PICK q, r, next :
          /\ GoesTo(h, r, q, next) /\ r.snap = None /\ next = NextOf(op[h].todo)
          /\ r.kind = op[h].kind /\ r.name = op[h].name /\ r.text = op[h].text
          /\ r.code = op[h].code /\ r.spec = op[h].spec /\ r.was = op[h].was
          /\ r.file = op[h].file BY <1>1, <1>7, StepIs, WriteIs
  <2>2. q # Idle /\ Like(q, r) /\ Head(q.todo) = next BY <1>3, <2>1 DEF GoesTo
  <2>3. ASSUME n \notin mixed
        PROVE  AtWork(dir[n], good[n], spec, box[n], applied'[n], n \in halfway', q)
    <3>1. CASE op[h].kind = "update"
      <4>1. AtWork(dir[n], good[n], spec, box[n], applied[n], n \in halfway, q)
        BY <2>3, <3>1, <1>3, <1>4, <1>5, <1>6, <2>1, <2>2 DEF AtWork, Updating, Like
      <4> QED BY <4>1, <1>7
    <3>2. CASE op[h].kind \in {"create", "import"}
      <4>1. AtWork(dir[n], good[n], spec, box[n], applied[n], n \in halfway, q)
        BY <2>3, <3>2, <1>3, <1>4, <1>5, <1>6, <2>1, <2>2 DEF AtWork, Spawning, Passed, Like
      <4> QED BY <4>1, <1>7
    <3> QED BY <3>1, <3>2, <1>3
  <2>4. /\ applied' \in [AgentNames -> SUBSET Profiles] /\ halfway' \subseteq AgentNames
        /\ \A m \in AgentNames : applied'[m] = applied[m] /\ (m \in halfway' <=> m \in halfway)
    BY <1>7 DEF DirectoryInv, DirectoryTypes
  <2> QED BY <1>1, <1>2, <1>3, <1>7, <2>1, <2>2, <2>3, <2>4, StepIs, WriteIsKept DEF Store
<1>8. CASE LosesServices(h, spec)
  <2>1. ASSUME n \notin mixed PROVE Granted(spec, Kept(applied[n], op[h])) BY <2>1, <1>3, <1>4, <1>5, <1>6
       DEF AtWork, Spawning, Updating, Passed, Granted, Serves, Kept
  <2> QED BY <1>1, <1>2, <1>8, <2>1, LossIsKept DEF Store
<1> QED BY <1>4, <1>7, <1>8 DEF Store

LEMMA LoadKeeps == ASSUME DirectoryInv, NEW h \in Handlers, Load(h) PROVE DirectoryInv'
<1>1. At(h, "load") BY DEF Load
<1>2. PICK n \in AgentNames : n = op[h].name BY <1>1, StepIs
<1>3. /\ op[h].kind \in {"create", "import", "update"} /\ NextOf(op[h].todo) = "store"
      /\ op[h].spec # None BY <1>1, StepIs DEF PlanAt
<1>4. Head(op[h].todo) = "load" BY <1>1, StepIs
<1>5. n \notin mixed => AtWork(dir[n], good[n], compose[n], box[n], applied[n], n \in halfway, op[h])
  BY <1>1, <1>2, StepIs
<1>6. PICK text \in Profiles \cup {None} :
        text = IF op[h].kind = "import" /\ dir[n] # None THEN dir[n].yaml ELSE op[h].text
  BY <1>1, PlacesAre, StepIs DEF OpRecords
<1>7. PICK keys \in SUBSET {"API_KEY"} : keys = IF text = None THEN {} ELSE Keys(text) BY DEF Keys
<1>8. PICK o \in OpRecords, s \in Specs : o = op[h] /\ s = o.spec BY <1>1, <1>3, StepIs DEF OpRecords
<1>9. PICK r0 : r0 = IF o.kind = "update" THEN o ELSE [o EXCEPT !.text = text, !.spec.keys = keys] OBVIOUS
<1>10. /\ r0 \in OpRecords /\ r0.name = o.name /\ r0.kind = o.kind /\ r0.code = o.code
       /\ r0.was = o.was /\ r0.spec # None
       /\ o.kind = "update" => r0.text = o.text /\ r0.spec = s
       /\ o.kind # "update" => r0.text = text /\ r0.spec.image = s.image /\ r0.spec.keys = keys
  <2>1. CASE o.kind = "update" BY <2>1, <1>3, <1>8, <1>9
  <2>2. CASE o.kind # "update"
    <3>1. PICK w : w = [s EXCEPT !.keys = keys] OBVIOUS
    <3>2. w \in Specs /\ w.image = s.image /\ w.keys = keys /\ w # None BY <3>1, NothingAssumption DEF Specs
    <3>3. r0 = [o EXCEPT !.text = text, !.spec = w] BY <2>2, <1>8, <1>9, <3>1 DEF OpRecords
    <3> QED BY <2>2, <3>2, <3>3 DEF OpRecords
  <2> QED BY <2>1, <2>2
<1>11. (ReadCompose(h, r0) /\ UNCHANGED faults) \/ (Fault /\ Fails(h) /\ UNCHANGED mixed)
  BY <1>2, <1>6, <1>7, <1>8, <1>9 DEF Load
<1>12. CASE ReadCompose(h, r0) /\ UNCHANGED faults
  <2>1. PICK q, r : /\ GoesTo(h, r, q, "store") /\ r.snap = compose
                    /\ r.kind = r0.kind /\ r.name = r0.name /\ r.text = r0.text /\ r.code = r0.code
                    /\ r.spec = r0.spec /\ r.was = r0.was /\ r.file = r0.file
    <3>1. r0.spec = None <=> op[h].spec = None BY <1>3, <1>10
    <3> QED BY <1>1, <1>3, <1>8, <1>10, <1>12, <3>1, StepIs, ReadIs
  <2>2. q # Idle /\ Like(q, r) /\ Head(q.todo) = "store" BY <2>1 DEF GoesTo
  <2>3. LeftBy(q, n)
    <3>. SUFFICES ASSUME n \notin mixed'
                  PROVE  AtWork(dir[n], good[n], compose[n], box[n], applied[n], n \in halfway, q)
      BY <2>2 DEF LeftBy, Load
    <3>1. n \notin mixed BY <1>12 DEF ReadCompose
    <3>2. AtWork(dir[n], good[n], compose[n], box[n], applied[n], n \in halfway, o) BY <1>5, <1>8, <3>1
    <3>3. CASE o.kind = "update" BY <3>2, <3>3, <1>3, <1>4, <1>8, <1>10, <2>1, <2>2 DEF AtWork, Updating, Like
    <3>4. CASE o.kind \in {"create", "import"}
      <4>1. Spawning(dir[n], good[n], compose[n], box[n], applied[n], n \in halfway, o, "load")
        BY <3>2, <3>4, <1>4, <1>8 DEF AtWork
      <4>2. text = o.text /\ text # None BY <4>1, <1>6, <1>8 DEF Spawning, Passed
      <4>3. Spawning(dir[n], good[n], compose[n], box[n], applied[n], n \in halfway, q, "store")
        BY <4>1, <4>2, <3>4, <1>7, <1>8, <1>10, <2>1, <2>2 DEF Spawning, Passed, Like
      <4> QED BY <4>3, <3>4, <1>10, <2>1, <2>2 DEF AtWork, Like
    <3> QED BY <3>3, <3>4, <1>3, <1>8
  <2>4. r.kind = "update" => r.file # None BY <1>1, <1>8, <1>9, <1>10, <2>1, StepIs
  <2>5. applied' \in [AgentNames -> SUBSET Profiles] /\ \A m \in AgentNames : applied'[m] = applied[m]
    BY DEF Load, DirectoryInv, DirectoryTypes
  <2> QED BY <1>1, <1>2, <1>8, <1>10, <1>12, <2>1, <2>3, <2>4, <2>5, StepIs, ReadIsKept DEF Load
<1>13. CASE Fault /\ Fails(h) /\ UNCHANGED mixed
  <2>1. FailsTo(op[h].kind, op[h].spec = None, "load") =
          IF op[h].kind = "update" THEN "none" ELSE "rmtree" BY <1>3 DEF FailsTo
  <2>2. PICK q, next : /\ GoesTo(h, op[h], q, next)
                       /\ next = (IF op[h].kind = "update" THEN "none" ELSE "rmtree")
    BY <1>1, <1>4, <1>13, <2>1, StepIs, FailsIs
  <2>3. next = "none" => q = Idle BY <2>2 DEF GoesTo
  <2>4. next # "none" => q # Idle /\ Like(q, op[h]) /\ Head(q.todo) = next BY <2>2 DEF GoesTo
  <2>5. LeftBy(q, n)
    <3>. SUFFICES ASSUME n \notin mixed
                  PROVE  /\ q = Idle => AtRest(dir[n], good[n], compose[n], box[n], applied[n], n \in halfway)
                         /\ q # Idle => AtWork(dir[n], good[n], compose[n], box[n], applied[n], n \in halfway, q)
      BY <1>13 DEF LeftBy, Load
    <3>1. CASE op[h].kind = "update" BY <3>1, <1>4, <1>5, <2>2, <2>3 DEF AtWork, Updating, AtRest, AgentStands
    <3>2. CASE op[h].kind \in {"create", "import"} BY <3>2, <1>4, <1>5, <2>2, <2>4 DEF AtWork, Spawning, Like
    <3> QED BY <3>1, <3>2, <1>3
  <2>6. faults' \in 0..MaxFaults BY <1>13, PlacesAre, DirectoryBoundsAssumption DEF Fault
  <2>7. PlacesTyped /\ Elsewhere(n) BY <1>13, <2>6 DEF PlacesTyped, Elsewhere, Load, DirectoryInv, DirectoryTypes
  <2>8. StepLeaves(h, q, next) BY <1>1, <1>2, <1>13, <2>2, <2>5, <2>7, StepIs DEF StepLeaves, Load
  <2>9. CapHolds' BY <1>13, CapIsKept DEF Load, DirectoryInv
  <2> QED BY <1>1, <2>8, <2>9, StepIs, StepIsKept
<1> QED BY <1>11, <1>12, <1>13

LEMMA CommitKeeps == ASSUME DirectoryInv, NEW h \in Handlers, Commit(h) PROVE DirectoryInv'
<1>1. At(h, "commit") BY DEF Commit
<1>2. op[h] # Idle /\ Head(op[h].todo) = "commit" BY <1>1, AtAStep
<1>3. PICK n \in AgentNames : n = op[h].name BY <1>2, RequestIs
<1>4. op[h].kind = "create" /\ NextOf(op[h].todo) = "write" BY <1>2, RequestIs DEF PlanAt
<1>5. Passed(op[h]) /\ op[h].snap = None BY <1>2, RequestIs DEF RequestOK
<1>6. mixed' = IF Busy(n, h) THEN mixed \cup {n} ELSE mixed BY <1>3 DEF Commit
<1>7. mixed \subseteq mixed' /\ mixed' \subseteq AgentNames BY <1>6, PlacesAre
<1>8. n \notin mixed' => \A g \in Handlers : ~Works(g, n) BY <1>2, <1>6 DEF Busy, Works
<1>9. n \notin mixed' => AtRest(dir[n], good[n], compose[n], box[n], applied[n], n \in halfway)
  BY <1>7, <1>8 DEF DirectoryInv, AgentsAreOK
<1>10. ASSUME NEW q, NEW next, GoesTo(h, op[h], q, next), next \in {"none", "write"},
              LeftBy(q, n), PlacesTyped, Elsewhere(n), CapHolds'
       PROVE  DirectoryInv'
  <2>1. Puts(h, q) /\ q.snap = None /\ (q = Idle \/ (q.name = n /\ Head(q.todo) # "commit"))
    BY <1>3, <1>5, <1>10, IdleIs DEF GoesTo, Like
  <2>2. SnapsAreFresh' /\ SnapsAreMixed' BY <1>7, <2>1, SnapsAreKept DEF Commit
  <2>3. DirectoryTypes' /\ RequestsAreOK'
    <3>1. op[h].kind = "create" /\ op[h].spec # None BY <1>4, <1>5 DEF Passed
    <3> QED BY <1>5, <1>10, <3>1, RequestsAreKept
  <2>4. OneWorks' /\ AgentsAreOK' BY <1>3, <1>7, <1>8, <1>10, <2>1, OthersAreKept
  <2> QED BY <1>10, <2>2, <2>3, <2>4 DEF DirectoryInv
<1>11. CASE Full \/ dir[n] # None
  <2>1. Fails(h) /\ UNCHANGED dir BY <1>3, <1>11 DEF Commit
  <2>2. FailsTo(op[h].kind, op[h].spec = None, "commit") = "none" BY <1>4 DEF FailsTo
  <2>3. PICK q : GoesTo(h, op[h], q, "none") BY <1>2, <1>5, <2>1, <2>2, FailsIs
  <2>4. q = Idle BY <2>3 DEF GoesTo
  <2>5. LeftBy(q, n) BY <1>9, <2>1, <2>4 DEF LeftBy, Commit
  <2>6. PlacesTyped /\ Elsewhere(n) BY <1>7, <2>1 DEF PlacesTyped, Elsewhere, Commit, DirectoryInv, DirectoryTypes
  <2>7. CapHolds' BY <1>7, <2>1, CapIsKept DEF DirectoryInv, Commit
  <2> QED BY <1>10, <2>3, <2>5, <2>6, <2>7
<1>12. CASE ~Full /\ dir[n] = None
  <2>1. PICK e \in Dirs : e = [yaml |-> None, code |-> FALSE] BY DEF Dirs
  <2>2. dir' = [dir EXCEPT ![n] = e] /\ Done(h, op[h]) BY <1>3, <1>12, <2>1 DEF Commit
  <2>3. op[h] \in OpRecords BY <1>2, RequestIs
  <2>4. PICK q : GoesTo(h, op[h], q, "write") BY <1>2, <1>4, <2>2, <2>3, DoneIs
  <2>5. q # Idle /\ Like(q, op[h]) /\ Head(q.todo) = "write" BY <2>4 DEF GoesTo
  <2>6. LeftBy(q, n)
    <3>. SUFFICES ASSUME n \notin mixed' PROVE AtWork(e, good[n], compose[n], box[n], applied[n], n \in halfway, q)
      BY <2>2, <2>5, PlaceChanges DEF LeftBy, Commit
    <3>1. good[n] = None /\ Missing(compose[n], applied[n], n \in halfway) /\ Down(box[n])
      BY <1>9, <1>12 DEF AtRest, AgentStands, AgentIsGone
    <3>2. e # None BY NothingAssumption
    <3> QED BY <1>4, <1>5, <2>5, <3>1, <3>2 DEF AtWork, Spawning, Passed, Like
  <2>7. PlacesTyped /\ Elsewhere(n)
    BY <1>7, <2>2, PlaceChanges DEF PlacesTyped, Elsewhere, Commit, DirectoryInv, DirectoryTypes
  <2>8. CapHolds'
    <3>1. DirectoryTypes /\ UNCHANGED cap BY DEF DirectoryInv, Commit
    <3>2. \A m \in AgentNames \ {n} : dir'[m] = dir[m] BY <2>2, PlaceChanges
    <3> QED BY <1>12, <3>1, <3>2, CapIsUsed
  <2> QED BY <1>10, <2>4, <2>6, <2>7, <2>8
<1> QED BY <1>11, <1>12

------------------------
(* The requests. *)

\* A request is accepted by a handler that has none, and the agent is at rest if nobody works on it.
LEMMA BeginIs ==
  ASSUME DirectoryInv, NEW h \in Handlers, NEW q, Begin(h, q), q.name \in AgentNames
  PROVE  /\ op[h] = Idle /\ Puts(h, q) /\ ops' \in 0..MaxOps
         /\ UNCHANGED <<dir, good, compose, box, upstream, cap, faults, applied, halfway>>
         /\ mixed \subseteq mixed' /\ mixed' \subseteq AgentNames
         /\ q.kind = "create" => UNCHANGED mixed
         /\ q.kind # "create" /\ q.name \notin mixed' =>
              /\ \A g \in Handlers : ~Works(g, q.name)
              /\ AtRest(dir[q.name], good[q.name], compose[q.name], box[q.name], applied[q.name], q.name \in halfway)
<1>1. op[h] = Idle /\ Puts(h, q) BY DEF Begin, Puts
<1>2. ops' \in 0..MaxOps BY DirectoryBoundsAssumption DEF Begin, DirectoryInv, DirectoryTypes
<1>3. mixed' = IF q.kind # "create" /\ Busy(q.name, h) THEN mixed \cup {q.name} ELSE mixed BY DEF Begin
<1>4. mixed \subseteq mixed' /\ mixed' \subseteq AgentNames BY <1>3, PlacesAre
<1>5. q.kind # "create" /\ q.name \notin mixed' => \A g \in Handlers : ~Works(g, q.name)
  BY <1>1, <1>3, IdleIs, NothingAssumption DEF Busy, Works
<1>6. q.kind # "create" /\ q.name \notin mixed' =>
        AtRest(dir[q.name], good[q.name], compose[q.name], box[q.name], applied[q.name], q.name \in halfway)
  BY <1>4, <1>5 DEF DirectoryInv, AgentsAreOK
<1> QED BY <1>1, <1>2, <1>3, <1>4, <1>5, <1>6 DEF Begin

LEMMA RequestIsTaken ==
  ASSUME DirectoryInv, NEW h \in Handlers, NEW q \in OpRecords, Begin(h, q), cached' \in Images,
         RequestOK(q), q.snap = None, q.kind # "create", Head(q.todo) # "commit",
         AtRest(dir[q.name], good[q.name], compose[q.name], box[q.name], applied[q.name], q.name \in halfway) =>
           AtWork(dir[q.name], good[q.name], compose[q.name], box[q.name], applied[q.name], q.name \in halfway, q)
  PROVE  DirectoryInv'
<1>1. PICK n \in AgentNames : n = q.name BY DEF OpRecords
<1>2. q # Idle BY IdleIs DEF OpRecords, Kinds
<1>3. /\ op[h] = Idle /\ Puts(h, q) /\ ops' \in 0..MaxOps
      /\ UNCHANGED <<dir, good, compose, box, upstream, cap, faults, applied, halfway>>
      /\ mixed \subseteq mixed' /\ mixed' \subseteq AgentNames
      /\ n \notin mixed' =>
           /\ \A g \in Handlers : ~Works(g, n)
           /\ AtRest(dir[n], good[n], compose[n], box[n], applied[n], n \in halfway) BY <1>1, BeginIs
<1>4. LeftBy(q, n) /\ Elsewhere(n) BY <1>1, <1>2, <1>3 DEF LeftBy, Elsewhere
<1>5. OneWorks' /\ AgentsAreOK' BY <1>1, <1>3, <1>4, OthersAreKept
<1>6. SnapsAreFresh' /\ SnapsAreMixed' BY <1>3, SnapsAreKept
<1>7. op'[h] = q /\ (\A g \in Handlers \ {h} : op'[g] = op[g]) /\ op' \in [Handlers -> OpRecords \cup {Idle}]
  BY <1>3 DEF Puts, DirectoryInv, DirectoryTypes
<1>8. RequestsAreOK' BY <1>7 DEF RequestsAreOK, DirectoryInv
<1>9. DirectoryTypes' BY <1>3, <1>7 DEF DirectoryTypes, DirectoryInv
<1>10. CapHolds' BY <1>3, CapIsKept DEF DirectoryInv
<1> QED BY <1>5, <1>6, <1>8, <1>9, <1>10 DEF DirectoryInv

LEMMA ValidatedIs ==
  ASSUME DirectoryInv, NEW p, ValidatedBase(p)
  PROVE  Contract(p) <= Pulled(p) /\ Pulled(p) \in Images /\ cached' = Pulled(p)
BY DEF ValidatedBase, Pulled, DirectoryInv, DirectoryTypes

\* The service a profile needs.
LEMMA PlannedIs ==
  ASSUME NEW p, NEW image \in Images
  PROVE  Planned(p, image) \in Specs BY DEF Planned, Specs, Keys

LEMMA CreateAgentKeeps ==
  ASSUME DirectoryInv, NEW h \in Handlers, NEW n \in AgentNames, NEW p \in Profiles,
         NEW code \in BOOLEAN, CreateAgent(h, n, p, code)
  PROVE  DirectoryInv'
<1>1. PICK image \in Images : image = Pulled(p) /\ Contract(p) <= image /\ cached' = image
  BY ValidatedIs DEF CreateAgent
<1>2. PICK spec \in Specs : spec = Planned(p, image) BY PlannedIs
<1>3. PICK q : q = [Request("create", n, Creating) EXCEPT !.text = p, !.code = code, !.spec = spec] OBVIOUS
<1>4. /\ q.kind = "create" /\ q.name = n /\ q.todo = Creating /\ q.text = p /\ q.code = code
      /\ q.spec = spec /\ q.snap = None BY <1>3 DEF Request, Idle
<1>5. q \in OpRecords
  <2>1. Creating \in Seq(Steps) BY PlansHaveSteps
  <2> QED BY <1>3, <2>1 DEF Request, Idle, OpRecords, Kinds
<1>6. Begin(h, q) BY <1>1, <1>2, <1>3 DEF CreateAgent, Creating
<1>7. Head(q.todo) = "commit" /\ PlanFor("create", q.spec = None, q.todo) BY <1>4, StagesAre DEF Stage, PlanFor
<1>8. Passed(q)
  <2>1. spec.image = image /\ spec # None BY <1>2, NothingAssumption DEF Planned
  <2>2. p # None BY NothingAssumption
  <2> QED BY <1>1, <1>4, <2>1, <2>2 DEF Passed, CreateAgent
<1>9. RequestOK(q) BY <1>4, <1>7, <1>8, NothingAssumption DEF RequestOK
<1>10. /\ op[h] = Idle /\ Puts(h, q) /\ ops' \in 0..MaxOps
       /\ UNCHANGED <<dir, good, compose, box, upstream, cap, faults, applied, halfway, mixed>> BY <1>4, <1>6, BeginIs
<1>11. op'[h] = q /\ (\A g \in Handlers \ {h} : op'[g] = op[g]) /\ op' \in [Handlers -> OpRecords \cup {Idle}]
  BY <1>5, <1>10 DEF Puts, DirectoryInv, DirectoryTypes
<1>12. \A g \in Handlers, m \in AgentNames :
         (Works(g, m)' <=> Works(g, m)) /\ (Works(g, m) => op'[g] = op[g])
  BY <1>7, <1>10, <1>11, IdleIs, NothingAssumption DEF Works
<1>13. OneWorks' BY <1>10, <1>12 DEF OneWorks, DirectoryInv
<1>14. AgentsAreOK' BY <1>10, <1>12 DEF AgentsAreOK, DirectoryInv
<1>15. SnapsAreFresh' /\ SnapsAreMixed' BY <1>4, <1>10, SnapsAreKept
<1>16. RequestsAreOK' BY <1>9, <1>11 DEF RequestsAreOK, DirectoryInv
<1>17. DirectoryTypes' BY <1>1, <1>10, <1>11 DEF DirectoryTypes, DirectoryInv
<1>18. CapHolds' BY <1>10, CapIsKept DEF DirectoryInv
<1> QED BY <1>13, <1>14, <1>15, <1>16, <1>17, <1>18 DEF DirectoryInv

LEMMA ImportKeeps ==
  ASSUME DirectoryInv, NEW h \in Handlers, NEW n \in AgentNames, NEW p \in Profiles,
         NEW code \in BOOLEAN, NEW start \in BOOLEAN, ImportAgent(h, n, p, code, start)
  PROVE  DirectoryInv'
<1>1. PICK image \in Images : image = Pulled(p) /\ Contract(p) <= image /\ cached' = image
  BY ValidatedIs DEF ImportAgent
<1>2. PICK spec \in Specs : spec = Planned(p, image) BY PlannedIs
<1>3. PICK t \in {Moving, MovingOnly} : t = IF start THEN Moving ELSE MovingOnly OBVIOUS
<1>4. PICK q : q = [Request("import", n, t) EXCEPT !.text = p, !.code = code, !.spec = spec] OBVIOUS
<1>5. /\ q.kind = "import" /\ q.name = n /\ q.todo = t /\ q.text = p /\ q.code = code
      /\ q.spec = spec /\ q.snap = None BY <1>4 DEF Request, Idle
<1>6. q \in OpRecords
  <2>1. t \in Seq(Steps) BY PlansHaveSteps
  <2> QED BY <1>4, <2>1 DEF Request, Idle, OpRecords, Kinds
<1>7. Begin(h, q) BY <1>1, <1>2, <1>3, <1>4 DEF ImportAgent, Moving, MovingOnly
<1>8. Head(q.todo) = "move" /\ PlanFor("import", q.spec = None, q.todo) BY <1>5, StagesAre DEF Stage, PlanFor
<1>9. Passed(q)
  <2>1. spec.image = image /\ spec # None BY <1>2, NothingAssumption DEF Planned
  <2>2. p # None BY NothingAssumption
  <2> QED BY <1>1, <1>5, <2>1, <2>2 DEF Passed, ImportAgent
<1>10. RequestOK(q) BY <1>5, <1>8, <1>9, NothingAssumption DEF RequestOK
<1>11. dir[n] = None BY DEF ImportAgent
<1>12. AtRest(dir[n], good[n], compose[n], box[n], applied[n], n \in halfway) =>
         AtWork(dir[n], good[n], compose[n], box[n], applied[n], n \in halfway, q)
  BY <1>5, <1>8, <1>9, <1>11 DEF AtRest, AgentStands, AgentIsGone, AtWork, Spawning
<1> QED BY <1>1, <1>5, <1>6, <1>7, <1>8, <1>10, <1>12, RequestIsTaken

LEMMA UpdateKeeps ==
  ASSUME DirectoryInv, NEW h \in Handlers, NEW n \in AgentNames, NEW p \in Profiles,
         UpdateAgentConfig(h, n, p)
  PROVE  DirectoryInv'
<1>. DEFINE kindChanges == ProfileKind(p) # ProfileKind(ProfileText(n))
            fromBase == kindChanges \/ compose[n] = None
            pinned == IF fromBase THEN Pulled(p) ELSE compose[n].image
            recreate == \/ kindChanges \/ compose[n] = None
                        \/ compose[n].keys # Keys(p)
<1>1. /\ dir[n] # None /\ ProfileText(n) # None /\ (IsPublic(p) => ~dir[n].code)
      /\ IF fromBase THEN ValidatedBase(p) ELSE Contract(p) <= pinned /\ UNCHANGED cached
      /\ Begin(h, [Request("update", n, IF recreate THEN WritingOut ELSE Rewriting)
               EXCEPT !.text = p, !.was = compose[n], !.file = ProfileText(n),
                      !.spec = IF recreate THEN Planned(p, pinned) ELSE None])
  BY DEF UpdateAgentConfig, WritingOut, Rewriting
<1>2. pinned \in Images /\ Contract(p) <= pinned /\ cached' \in Images
  <2>1. CASE fromBase BY <1>1, <2>1, ValidatedIs
  <2>2. CASE ~fromBase
    <3>1. compose[n] \in Specs BY <2>2, PlacesAre
    <3>2. cached \in Images BY DEF DirectoryInv, DirectoryTypes
    <3> QED BY <1>1, <2>2, <3>1, <3>2 DEF Specs
  <2> QED BY <2>1, <2>2
<1>3. ~recreate => compose[n] # None /\ compose[n].keys = Keys(p) /\ pinned = compose[n].image OBVIOUS
<1>. HIDE DEF kindChanges, fromBase, pinned, recreate
<1>4. PICK image \in Images, rec \in BOOLEAN : image = pinned /\ (rec <=> recreate) BY <1>2
<1>5. PICK old \in Specs \cup {None}, file \in Profiles :
        old = compose[n] /\ file = ProfileText(n) BY <1>1, PlacesAre DEF ProfileText
<1>6. PICK spec \in Specs \cup {None} : spec = IF rec THEN Planned(p, image) ELSE None BY DEF Planned, Specs, Keys
<1>7. PICK t \in {WritingOut, Rewriting} : t = IF rec THEN WritingOut ELSE Rewriting OBVIOUS
<1>8. PICK q : q = [Request("update", n, t) EXCEPT !.text = p, !.was = old, !.file = file, !.spec = spec] OBVIOUS
<1>9. /\ q.kind = "update" /\ q.name = n /\ q.todo = t /\ q.text = p /\ q.was = old
      /\ q.spec = spec /\ q.snap = None /\ q.file = file BY <1>8 DEF Request, Idle
<1>10. q \in OpRecords
  <2>1. t \in Seq(Steps) BY PlansHaveSteps
  <2>2. q = [kind |-> "update", name |-> n, todo |-> t, text |-> p, code |-> FALSE, spec |-> spec,
             was |-> old, file |-> file, snap |-> None] BY <1>8 DEF Request, Idle
  <2> QED BY <2>1, <2>2 DEF OpRecords, Kinds
<1>11. Begin(h, q)
  <2>1. rec = recreate \/ recreate \notin BOOLEAN BY <1>4
  <2> QED BY <1>1, <1>4, <1>5, <1>6, <1>7, <1>8
<1>12. (spec = None <=> ~rec) /\ (rec => spec.image = image /\ spec.keys = Keys(p))
  BY <1>6, NothingAssumption DEF Planned, Specs, Keys
<1>13. Head(q.todo) = "write" /\ PlanFor("update", q.spec = None, q.todo)
  BY <1>7, <1>9, <1>12, StagesAre DEF Stage, PlanFor
<1>14. RequestOK(q) BY <1>9, <1>13, NothingAssumption DEF RequestOK
<1>15. AtRest(dir[n], good[n], compose[n], box[n], applied[n], n \in halfway) =>
         AtWork(dir[n], good[n], compose[n], box[n], applied[n], n \in halfway, q)
  <2>. SUFFICES ASSUME AgentStands(dir[n], good[n], compose[n], applied[n], n \in halfway)
                PROVE  Updating(dir[n], good[n], compose[n], applied[n], n \in halfway, q, "write")
    BY <1>1, <1>9, <1>13 DEF AtRest, AgentIsGone, AtWork
  <2>1. CodeIsAllowed(dir[n], q.text) BY <1>1, <1>9 DEF CodeIsAllowed
  <2>2. Covered(q.was, applied[n], n \in halfway) /\ compose[n] = q.was /\ dir[n] # None /\ CodeIsAllowed(dir[n], good[n])
    BY <1>5, <1>9 DEF AgentStands
  <2>3. p # None BY NothingAssumption
  <2>4. Serves(IF q.spec = None THEN q.was ELSE q.spec, q.text)
    BY <1>2, <1>3, <1>4, <1>5, <1>9, <1>12, <2>3 DEF Serves
  <2> QED BY <1>9, <2>1, <2>2, <2>3, <2>4 DEF Updating
<1> QED BY <1>2, <1>9, <1>10, <1>11, <1>13, <1>14, <1>15, RequestIsTaken

\* The other requests on an agent that is there.
LEMMA PlainKeeps ==
  ASSUME DirectoryInv, NEW h \in Handlers, NEW n \in AgentNames, dir[n] # None,
         NEW k, NEW t, NEW code \in BOOLEAN, NEW file \in Profiles \cup {None}, NEW q,
         q = [kind |-> k, name |-> n, todo |-> t, text |-> None, code |-> code, spec |-> None,
              was |-> None, file |-> file, snap |-> None],
         \/ k = "start" /\ t = UpOnly
         \/ k = "stop" /\ t = StopOnly
         \/ k = "restart" /\ t = RestartOnly
         \/ k = "delete" /\ t = Deleting
         \/ k \in {"register", "edit"} /\ t = Tooling
         \/ k = "file" /\ t = ToolOnly,
         (k \in {"register", "file"} \/ (k = "edit" /\ code)) => TakesCode(n),
         UNCHANGED cached, Begin(h, q)
  PROVE  DirectoryInv'
<1>1. q.kind = k /\ q.name = n /\ q.todo = t /\ q.code = code /\ q.spec = None /\ q.snap = None OBVIOUS
<1>2. PlanFor(k, q.spec = None, t) /\ k \in Kinds BY DEF PlanFor, Kinds
<1>3. t \in Seq(Steps) BY PlansHaveSteps
<1>4. Head(t) \in {"up", "stop", "restart", "teardown", "tool"} /\ (k = "delete" => Head(t) = "teardown")
  BY StagesAre DEF Stage
<1>5. q \in OpRecords BY <1>2, <1>3 DEF OpRecords
<1>6. RequestOK(q) BY <1>1, <1>2, <1>4 DEF RequestOK
<1>7. AtRest(dir[n], good[n], compose[n], box[n], applied[n], n \in halfway) =>
        AtWork(dir[n], good[n], compose[n], box[n], applied[n], n \in halfway, q)
  <2>. SUFFICES ASSUME AgentStands(dir[n], good[n], compose[n], applied[n], n \in halfway)
                PROVE  AtWork(dir[n], good[n], compose[n], box[n], applied[n], n \in halfway, q)
    BY DEF AtRest, AgentIsGone
  <2>1. (k \in {"register", "file"} \/ (k = "edit" /\ code)) => good[n] = None \/ ~IsPublic(good[n])
    BY DEF TakesCode, ProfileText
  <2>2. CASE k \in {"register", "edit", "file"} BY <1>1, <2>1, <2>2 DEF AtWork, Coding
  <2>3. CASE k \in {"start", "stop", "restart", "delete"} BY <1>1, <1>4, <2>3 DEF AtWork, Leaving, AgentStands
  <2> QED BY <2>2, <2>3
<1>8. cached' \in Images /\ q.kind # "create" BY <1>1 DEF DirectoryInv, DirectoryTypes
<1> QED BY <1>1, <1>4, <1>5, <1>6, <1>7, <1>8, RequestIsTaken


\* A request that plans no service, written as a record.
LEMMA PlainIs ==
  ASSUME NEW k \in Kinds, NEW n, NEW t, NEW q, q = Request(k, n, t)
  PROVE  q = [kind |-> k, name |-> n, todo |-> t, text |-> None, code |-> FALSE, spec |-> None,
              was |-> None, file |-> None, snap |-> None] BY DEF Request, Idle, Kinds

LEMMA StartAgentKeeps ==
  ASSUME DirectoryInv, NEW h \in Handlers, NEW n \in AgentNames,
         StartAgent(h, n) \/ StopAgent(h, n) \/ RestartAgent(h, n) \/ DeleteAgent(h, n)
  PROVE  DirectoryInv'
<1>1. PICK k, t : /\ \/ k = "start" /\ t = UpOnly
                     \/ k = "stop" /\ t = StopOnly
                     \/ k = "restart" /\ t = RestartOnly
                     \/ k = "delete" /\ t = Deleting
                  /\ dir[n] # None /\ UNCHANGED cached /\ Begin(h, Request(k, n, t))
  BY DEF StartAgent, StopAgent, RestartAgent, DeleteAgent, UpOnly, StopOnly, RestartOnly, Deleting
<1>2. PICK q : q = Request(k, n, t) OBVIOUS
<1>3. q = [kind |-> k, name |-> n, todo |-> t, text |-> None, code |-> FALSE, spec |-> None,
           was |-> None, file |-> None, snap |-> None] BY <1>1, <1>2, PlainIs DEF Kinds
<1> QED BY <1>1, <1>2, <1>3, PlainKeeps

LEMMA CodeRequestKeeps ==
  ASSUME DirectoryInv, NEW h \in Handlers, NEW n \in AgentNames,
         RegisterTool(h, n) \/ WriteFile(h, n) \/ \E left \in BOOLEAN : EditTool(h, n, left)
  PROVE  DirectoryInv'
<1>1. CASE RegisterTool(h, n)
  <2>1. dir[n] # None /\ dir[n] \in Dirs BY <1>1, PlacesAre DEF RegisterTool
  <2>2. PICK code \in BOOLEAN, file \in Profiles \cup {None} : code = dir[n].code /\ file = dir[n].yaml
    BY <2>1 DEF Dirs
  <2>3. PICK q : q = [Request("register", n, Tooling) EXCEPT !.code = code, !.file = file] OBVIOUS
  <2>4. q = [kind |-> "register", name |-> n, todo |-> Tooling, text |-> None, code |-> code,
             spec |-> None, was |-> None, file |-> file, snap |-> None] BY <2>3 DEF Request, Idle
  <2>5. TakesCode(n) /\ UNCHANGED cached /\ Begin(h, q) BY <1>1, <2>2, <2>3 DEF RegisterTool, Tooling
  <2> QED BY <2>1, <2>4, <2>5, PlainKeeps
<1>2. CASE WriteFile(h, n)
  <2>1. PICK q : q = Request("file", n, ToolOnly) OBVIOUS
  <2>2. q = [kind |-> "file", name |-> n, todo |-> ToolOnly, text |-> None, code |-> FALSE,
             spec |-> None, was |-> None, file |-> None, snap |-> None] BY <2>1, PlainIs DEF Kinds
  <2>3. dir[n] # None /\ TakesCode(n) /\ UNCHANGED cached /\ Begin(h, q) BY <1>2, <2>1 DEF WriteFile, ToolOnly
  <2> QED BY <2>2, <2>3, PlainKeeps
<1>3. CASE \E left \in BOOLEAN : EditTool(h, n, left)
  <2>1. PICK left \in BOOLEAN : EditTool(h, n, left) BY <1>3
  <2>2. PICK q : q = [Request("edit", n, Tooling) EXCEPT !.code = left] OBVIOUS
  <2>3. q = [kind |-> "edit", name |-> n, todo |-> Tooling, text |-> None, code |-> left,
             spec |-> None, was |-> None, file |-> None, snap |-> None] BY <2>2 DEF Request, Idle
  <2>4. dir[n] # None /\ (left => TakesCode(n)) /\ UNCHANGED cached /\ Begin(h, q) BY <2>1, <2>2 DEF EditTool, Tooling
  <2> QED BY <2>3, <2>4, PlainKeeps
<1> QED BY <1>1, <1>2, <1>3

\* What the agent writes into its own profile is none of the daemon's business.
LEMMA AgentWritesKeeps ==
  ASSUME DirectoryInv, NEW n \in AgentNames, NEW p \in Profiles, AgentWrites(n, p)
  PROVE  DirectoryInv'
<1>1. ~Down(box[n]) /\ dir[n] # None /\ dir[n] \in Dirs BY PlacesAre DEF AgentWrites, Down
<1>2. PICK e : e = [dir[n] EXCEPT !.yaml = p] OBVIOUS
<1>3. e \in Dirs /\ e # None /\ e.code = dir[n].code BY <1>1, <1>2, NothingAssumption DEF Dirs
<1>4. dir' = [dir EXCEPT ![n] = e] BY <1>1, <1>2 DEF AgentWrites
<1>5. /\ dir'[n] = e /\ (\A m \in AgentNames \ {n} : dir'[m] = dir[m])
      /\ dir' \in [AgentNames -> Dirs \cup {None}] BY <1>3, <1>4 DEF DirectoryInv, DirectoryTypes
<1>6. faults' \in 0 .. MaxFaults BY DirectoryBoundsAssumption DEF AgentWrites, Fault, DirectoryInv, DirectoryTypes
<1>7. UNCHANGED <<good, compose, box, cached, upstream, cap, op, ops, applied, halfway, mixed>> BY DEF AgentWrites
<1>8. DirectoryTypes' BY <1>5, <1>6, <1>7 DEF DirectoryTypes, DirectoryInv
<1>9. RequestsAreOK' /\ SnapsAreFresh' /\ SnapsAreMixed'
  BY <1>7 DEF DirectoryInv, RequestsAreOK, SnapsAreFresh, SnapsAreMixed
<1>10. OneWorks' BY <1>7 DEF DirectoryInv, OneWorks, Works
<1>11. CapHolds'
  <2>1. {m \in AgentNames : dir'[m] # None} = {m \in AgentNames : dir[m] # None} BY <1>1, <1>3, <1>5
  <2> QED BY <1>7, <2>1 DEF CapHolds, DirectoryInv
<1>12. ASSUME NEW g, NEW c, NEW b, NEW a, NEW half, ~Down(b), AtRest(dir[n], g, c, b, a, half)
       PROVE  AtRest(e, g, c, b, a, half) BY <1>3, <1>12 DEF AtRest, AgentIsGone, AgentStands, CodeIsAllowed
<1>13. ASSUME NEW g, NEW c, NEW b, NEW a, NEW half, NEW r, ~Down(b), AtWork(dir[n], g, c, b, a, half, r)
       PROVE  AtWork(e, g, c, b, a, half, r)
  <2>1. Spawning(dir[n], g, c, b, a, half, r, Head(r.todo)) => Spawning(e, g, c, b, a, half, r, Head(r.todo))
    BY <1>1, <1>3, <1>13 DEF Spawning
  <2>2. Updating(dir[n], g, c, a, half, r, Head(r.todo)) => Updating(e, g, c, a, half, r, Head(r.todo))
    BY <1>3 DEF Updating, CodeIsAllowed
  <2>3. AgentStands(dir[n], g, c, a, half) => AgentStands(e, g, c, a, half) BY <1>3 DEF AgentStands, CodeIsAllowed
  <2>4. Leaving(dir[n], g, c, b, a, half, Head(r.todo)) => Leaving(e, g, c, b, a, half, Head(r.todo))
    BY <1>3 DEF Leaving, CodeIsAllowed
  <2>5. Coding(dir[n], g, c, a, half, r) => Coding(e, g, c, a, half, r) BY <2>3 DEF Coding
  <2> QED BY <1>13, <2>1, <2>2, <2>3, <2>4, <2>5 DEF AtWork
<1>14. AgentsAreOK'
  <2>. SUFFICES ASSUME NEW m \in AgentNames \ mixed'
       PROVE  /\ (\A h \in Handlers : ~Works(h, m)') =>
                   AtRest(dir'[m], good[m], compose[m], box[m], applied[m], m \in halfway)
              /\ \A h \in Handlers : Works(h, m)' =>
                   AtWork(dir'[m], good[m], compose[m], box[m], applied[m], m \in halfway, op[h])
    BY <1>7 DEF AgentsAreOK
  <2>1. /\ (\A h \in Handlers : ~Works(h, m)) =>
             AtRest(dir[m], good[m], compose[m], box[m], applied[m], m \in halfway)
        /\ \A h \in Handlers : Works(h, m) =>
             AtWork(dir[m], good[m], compose[m], box[m], applied[m], m \in halfway, op[h])
    BY <1>7 DEF AgentsAreOK, DirectoryInv
  <2>2. \A h \in Handlers : Works(h, m)' <=> Works(h, m) BY <1>7 DEF Works
  <2>3. CASE m # n BY <1>5, <2>1, <2>2, <2>3
  <2>4. CASE m = n BY <1>1, <1>5, <1>12, <1>13, <2>1, <2>2, <2>4
  <2> QED BY <2>3, <2>4
<1> QED BY <1>8, <1>9, <1>10, <1>11, <1>14 DEF DirectoryInv

\* A kill of the daemon: what it was at stays where it is.
LEMMA DaemonKillKeeps == ASSUME DirectoryInv, Kill PROVE DirectoryInv'
<1>1. PICK cut \in SUBSET Handlers :
        cut = {h \in Handlers : op[h].kind \in Changing /\ Head(op[h].todo) # "commit"} OBVIOUS
<1>2. /\ op' = [h \in Handlers |-> Idle] /\ faults' \in 0..MaxFaults
      /\ halfway' = halfway \cup {op[h].name : h \in cut}
      /\ applied' = [n \in AgentNames |-> applied[n] \cup
                       ({op[h].text : h \in {g \in cut : op[g].name = n}} \ {None})]
      /\ UNCHANGED <<dir, good, compose, box, cached, upstream, cap, ops, mixed>>
  BY <1>1, PlacesAre, DirectoryBoundsAssumption DEF Kill, Changing, Fault
<1>3. \A h \in cut : op[h] # Idle /\ op[h].name \in AgentNames /\ op[h].text \in Profiles \cup {None}
  BY <1>1, IdleIs, RequestIs DEF Changing
<1>4. applied' \in [AgentNames -> SUBSET Profiles] /\ halfway' \subseteq AgentNames BY <1>2, <1>3, PlacesAre
<1>5. DirectoryTypes' BY <1>2, <1>4 DEF DirectoryTypes, DirectoryInv
<1>6. \A h \in Handlers : op'[h] = Idle BY <1>2
<1>7. RequestsAreOK' /\ SnapsAreFresh' /\ SnapsAreMixed'
  BY <1>6, IdleIs DEF RequestsAreOK, SnapsAreFresh, SnapsAreMixed
<1>8. \A h \in Handlers, n \in AgentNames : ~Works(h, n)' BY <1>6, IdleIs, NothingAssumption DEF Works
<1>9. ASSUME NEW n \in AgentNames \ mixed
      PROVE  AtRest(dir[n], good[n], compose[n], box[n], applied'[n], n \in halfway')
  <2>1. \A g, h \in Handlers : Works(g, n) /\ Works(h, n) => g = h BY DEF DirectoryInv, OneWorks
  <2>2. CASE \E h \in cut : op[h].name = n
    <3>1. PICK h \in cut : op[h].name = n BY <2>2
    <3>2. Works(h, n) /\ \A g \in cut : op[g].name = n => g = h BY <1>1, <2>1, <3>1 DEF Works
    <3>3. {op[g].text : g \in {f \in cut : op[f].name = n}} = {op[h].text} BY <3>1, <3>2
    <3>4. applied'[n] = Kept(applied[n], op[h]) /\ n \in halfway' BY <1>2, <3>1, <3>3 DEF Kept
    <3>5. AtWork(dir[n], good[n], compose[n], box[n], applied[n], n \in halfway, op[h]) /\ RequestOK(op[h])
      BY <1>3, <3>2, RequestIs DEF DirectoryInv, AgentsAreOK
    <3>6. /\ Granted(compose[n], applied'[n])
          /\ \/ dir[n] # None /\ CodeIsAllowed(dir[n], good[n])
             \/ dir[n] = None /\ good[n] = None /\ Down(box[n]) BY <1>1, <3>1, <3>4, <3>5, HalfwayIs
    <3> QED BY <3>4, <3>6, RestsHalfway
  <2>3. CASE \A h \in cut : op[h].name # n
    <3>1. applied'[n] = applied[n] /\ (n \in halfway' <=> n \in halfway) BY <1>2, <2>3
    <3>2. AtRest(dir[n], good[n], compose[n], box[n], applied[n], n \in halfway)
      <4>1. CASE \A h \in Handlers : ~Works(h, n) BY <4>1 DEF DirectoryInv, AgentsAreOK
      <4>2. CASE \E h \in Handlers : Works(h, n)
        <5>1. PICK h \in Handlers : Works(h, n) BY <4>2
        <5>2. op[h] # Idle /\ h \notin cut BY <2>3, <5>1, IdleIs, NothingAssumption DEF Works
        <5>3. op[h].kind \in {"start", "stop", "restart", "register", "edit", "file"}
          BY <1>1, <5>1, <5>2, RequestIs DEF Kinds, Changing, Works
        <5>4. AtWork(dir[n], good[n], compose[n], box[n], applied[n], n \in halfway, op[h])
          BY <5>1 DEF DirectoryInv, AgentsAreOK
        <5> QED BY <5>3, <5>4 DEF AtWork, Coding, AtRest
      <4> QED BY <4>1, <4>2
    <3> QED BY <3>1, <3>2
  <2> QED BY <2>2, <2>3
<1>10. OneWorks' /\ AgentsAreOK' BY <1>2, <1>8, <1>9 DEF OneWorks, AgentsAreOK
<1>11. CapHolds' BY <1>2 DEF CapHolds, DirectoryInv
<1> QED BY <1>5, <1>7, <1>10, <1>11 DEF DirectoryInv

LEMMA DirectoryStep == DirectoryInv /\ [DirectoryNext]_directoryVars => DirectoryInv'
<1>. SUFFICES ASSUME DirectoryInv, [DirectoryNext]_directoryVars PROVE DirectoryInv' OBVIOUS
<1>1. ASSUME NEW h \in Handlers, Step(h) PROVE DirectoryInv'
  BY <1>1, CommitKeeps, MoveKeeps, WriteKeeps, LoadKeeps, StoreKeeps, UpKeeps, RestartKeeps,
     StopKeeps, BootKeeps, SaveKeeps, TeardownKeeps, UnloadKeeps, UnstoreKeeps, UnlinkKeeps,
     RmtreeKeeps, RestoreKeeps, ReloadKeeps, RestageKeeps, ReupKeeps, RerestartKeeps, ToolKeeps,
     UntoolKeeps DEF Step
<1>2. ASSUME NEW h \in Handlers, NEW n \in AgentNames, Accept(h, n) PROVE DirectoryInv'
  BY <1>2, CreateAgentKeeps, ImportKeeps, UpdateKeeps, StartAgentKeeps, CodeRequestKeeps DEF Accept
<1>3. ASSUME NEW n \in AgentNames, NEW p \in Profiles, AgentWrites(n, p) PROVE DirectoryInv' BY <1>3, AgentWritesKeeps
<1>4. CASE UNCHANGED directoryVars
  <2>1. /\ UNCHANGED <<dir, good, compose, box, cached, upstream, cap, op, ops, faults>>
        /\ UNCHANGED <<applied, halfway, mixed>> BY <1>4 DEF directoryVars
  <2>2. \A h \in Handlers, n \in AgentNames : Works(h, n)' <=> Works(h, n) BY <2>1 DEF Works
  <2>3. AgentsAreOK' /\ OneWorks' BY <2>1, <2>2 DEF AgentsAreOK, OneWorks, DirectoryInv
  <2>4. DirectoryTypes' /\ RequestsAreOK' BY <2>1 DEF DirectoryTypes, RequestsAreOK, DirectoryInv
  <2>5. SnapsAreFresh' /\ SnapsAreMixed' /\ CapHolds' BY <2>1 DEF SnapsAreFresh, SnapsAreMixed, CapHolds, DirectoryInv
  <2> QED BY <2>3, <2>4, <2>5 DEF DirectoryInv
<1>5. CASE Kill BY <1>5, DaemonKillKeeps
<1> QED BY <1>1, <1>2, <1>3, <1>4, <1>5 DEF DirectoryNext

LEMMA DirectoryStart == DirectoryInit => DirectoryInv
<1>. SUFFICES ASSUME DirectoryInit PROVE DirectoryInv OBVIOUS
<1>1. /\ \A n \in AgentNames : dir[n] = None /\ good[n] = None /\ compose[n] = None /\ box[n] = None
      /\ halfway = {}
      /\ \A h \in Handlers : op[h] = Idle BY DEF DirectoryInit
<1>2. DirectoryTypes BY DirectoryBoundsAssumption DEF DirectoryInit, DirectoryTypes
<1>3. RequestsAreOK /\ SnapsAreFresh /\ SnapsAreMixed BY <1>1, IdleIs DEF RequestsAreOK, SnapsAreFresh, SnapsAreMixed
<1>4. OneWorks /\ AgentsAreOK
  <2>1. \A n \in AgentNames, h \in Handlers : ~Works(h, n) BY <1>1, IdleIs, NothingAssumption DEF Works
  <2> QED BY <1>1, <2>1 DEF OneWorks, AgentsAreOK, AtRest, AgentIsGone, Missing, Down
<1>5. CapHolds
  <2>1. {n \in AgentNames : dir[n] # None} = {} BY <1>1
  <2>2. Cardinality({}) = 0 BY FS_EmptySet
  <2> QED BY <2>1, <2>2, DirectoryBoundsAssumption DEF CapHolds, DirectoryInit
<1> QED BY <1>2, <1>3, <1>4, <1>5 DEF DirectoryInv

LEMMA DirectoryHolds == DirectoryInv => DirectoryIsSound
<1>. SUFFICES ASSUME DirectoryInv PROVE DirectoryIsSound OBVIOUS
<1>1. DirectoryTypeOK
  <2>1. ASSUME NEW h \in Handlers, op[h] # Idle
        PROVE  /\ op[h].kind \in Kinds /\ op[h].name \in AgentNames /\ op[h].todo # << >>
               /\ \A i \in DOMAIN op[h].todo : op[h].todo[i] \in Steps
               /\ op[h].text \in Profiles \cup {None}
               /\ op[h].snap \in [AgentNames -> Specs \cup {None}] \cup {None}
    <3>1. op[h] \in OpRecords /\ op[h].todo # << >> BY <2>1, RequestIs
    <3>2. op[h].todo \in Seq(Steps) BY <2>1, RequestIs
    <3>3. ASSUME NEW t \in Seq(Steps) PROVE \A i \in DOMAIN t : t[i] \in Steps OBVIOUS
    <3> QED BY <3>1, <3>2, <3>3 DEF OpRecords
  <2> QED BY <2>1 DEF DirectoryTypeOK, DirectoryInv, DirectoryTypes
<1>2. ASSUME NEW n \in AgentNames, Alone(n)
      PROVE  AtRest(dir[n], good[n], compose[n], box[n], applied[n], n \in halfway)
  BY <1>2 DEF Alone, Works, AgentsAreOK, DirectoryInv
<1>3. ServiceMatchesProfile BY <1>2
     DEF ServiceMatchesProfile, AtRest, AgentStands, AgentIsGone, CodeIsAllowed, Covered, Missing,
         Granted, Right, Serves
<1>4. PublicTakesNoCode BY <1>2 DEF PublicTakesNoCode, AtRest, AgentStands, AgentIsGone, CodeIsAllowed
<1> QED BY <1>1, <1>3, <1>4 DEF DirectoryIsSound, DirectoryInv

------------------------
(* The parts, each by itself and side by side *)

(* Every behaviour of the provisioner satisfies ScopesInv, so: no caller   *)
(* is given a scope that is not there or that the worker cannot read, and  *)
(* only what was really written is remembered as granted, whatever calls   *)
(* were lost or raced.                                                     *)
THEOREM ScopesAreProved == ScopesSpec => [](ScopesTypeOK /\ ScopesAreReady)
<1>1. ScopesSpec => []ScopesInv BY ScopesStart, ScopesStep, PTL DEF ScopesSpec
<1>2. ScopesInv => ScopesTypeOK /\ ScopesAreReady BY DEF ScopesInv, ScopesAreReady
<1> QED BY <1>1, <1>2, PTL

(* What the daemon accepted boots, whatever it delivered, took back and    *)
(* switched meanwhile, and a public-facing agent is held to the lists.     *)
THEOREM ProfilesAreProved == ProfilesSpec => [](ProfilesTypeOK /\ ProfilesAreSound)
<1>1. ProfilesSpec => []ProfilesInv BY ProfilesStart, ProfilesStep, PTL DEF ProfilesSpec
<1> QED BY <1>1, ProfilesHold, PTL

(* Whatever step of whatever request, rollback, cleanup or deletion failed *)
(* or was cut off by a kill, an agent whose requests never overlapped has  *)
(* no service but one with the keys of a profile that ServiceMatchesProfile*)
(* allows, and none of its profile copies once it is gone; when a request  *)
(* went through since the last that ended halfway, it is there with a      *)
(* service right for its last profile applied, or gone without one. A      *)
(* public agent has no code; and the cap on directories holds, for any     *)
(* number of agents and handlers.                                          *)
THEOREM DirectoryIsProved == DirectorySpec => []DirectoryIsSound
<1>1. DirectorySpec => []DirectoryInv BY DirectoryStart, DirectoryStep, PTL DEF DirectorySpec
<1> QED BY <1>1, DirectoryHolds, PTL

(* A behaviour of the parts side by side is one of each of them. *)
THEOREM PartsAreSeparate ==
  PartsSpec => Spec /\ DirectorySpec /\ ProfilesSpec /\ ScopesSpec
<1>1. PartsInit => Init /\ DirectoryInit /\ ProfilesInit /\ ScopesInit BY DEF PartsInit
<1>2. [PartsNext]_partVars => /\ [Next]_vars /\ [DirectoryNext]_directoryVars
                              /\ [ProfilesNext]_profileVars /\ [ScopesNext]_scopeVars
  <2>1. CASE Schedules BY <2>1 DEF Schedules
  <2>2. CASE Directory BY <2>2 DEF Directory, scheduleVars
  <2>3. CASE ProfileChecks BY <2>3 DEF ProfileChecks, scheduleVars
  <2>4. CASE Provisioning BY <2>4 DEF Provisioning, scheduleVars
  <2>5. CASE UNCHANGED partVars BY <2>5 DEF partVars, scheduleVars
  <2> QED BY <2>1, <2>2, <2>3, <2>4, <2>5 DEF PartsNext
<1> QED BY <1>1, <1>2, PTL DEF PartsSpec, Spec, DirectorySpec, ProfilesSpec, ScopesSpec

(* So the agents a daemon owns, their profiles and the scopes of its       *)
(* session plane are sound in every behaviour.                             *)
THEOREM OwnedAreProved == PartsSpec => []OwnedIsSound
<1>1. PartsSpec => [](/\ DirectoryIsSound /\ ProfilesTypeOK /\ ProfilesAreSound
                      /\ ScopesTypeOK /\ ScopesAreReady)
  BY PartsAreSeparate, DirectoryIsProved, ProfilesAreProved, ScopesAreProved, PTL
<1> QED BY <1>1, PTL DEF OwnedIsSound, AgentsAreSound
========================
