------------ MODULE ServiceProofs ------------
(***************************************************************************)
(* Proofs about two parts of the agent service, for every value of their   *)
(* constants: RunLifecycle, which keeps the records of all runs, and       *)
(* GrokSessions, the conversation a harness keeps between runs.            *)
(***************************************************************************)
EXTENDS RunLifecycle, GrokSessions, FiniteSetTheorems, TLAPS

(***************************************************************************)
(* RunLifecycle.                                                           *)
(*                                                                         *)
(* The inductive invariant IInv adds to the properties what they rest on:  *)
(* a coroutine holds a record exactly while it is in flight; the turn that *)
(* runs is the latest of its run; and a launch key is found in the file of *)
(* the run it dispatched, or in the copy a coroutine will write over it.   *)
(***************************************************************************)

(* A coroutine holds a record exactly while it is in flight, and the       *)
(* record counts the resumes that led to this turn.                        *)
HeldWhileLive ==
  \A t \in Turns : /\ phase[t] = "none" <=> held[t] = NoRecord
                   /\ phase[t] # "none" => held[t].resumes = t[2]

(* A run id that was never minted has left no trace. *)
FreshUntouched ==
  \A r \in RunIds : Fresh(r) =>
    /\ disk[r] = NoRecord
    /\ dispatched[r] = NoKey
    /\ r \notin pruned
    /\ \A t \in Turns : t[1] = r => phase[t] = "none"

(* A running turn is the latest of its run; the file counts at least the   *)
(* resumes of every turn in flight, and says `running` under a running     *)
(* turn.                                                                   *)
LatestTurnRuns ==
  /\ \A t, u \in Turns :
       t[1] = u[1] /\ phase[t] = "running" /\ phase[u] # "none" => u[2] <= t[2]
  /\ \A u \in Turns :
       phase[u] # "none" /\ disk[u[1]] # NoRecord => u[2] <= disk[u[1]].resumes
  /\ \A t \in Turns : phase[t] = "running" => held[t].status = "running"

(* The key of a launch stays findable while its file exists, and the copy  *)
(* a coroutine holds carries it too.                                       *)
KeysFindable ==
  /\ \A r \in RunIds : dispatched[r] # NoKey =>
       IF disk[r] = NoRecord THEN r \in pruned
       ELSE disk[r].trigger = "launch" /\ disk[r].key = dispatched[r]
  /\ \A t \in Turns : phase[t] # "none" /\ dispatched[t[1]] # NoKey =>
       held[t].trigger = "launch" /\ held[t].key = dispatched[t[1]]

Slots == SlotAccounting /\ OneTurnPerInstance

(* The copy a publication holds is what the file says, if there is one:    *)
(* its run has succeeded, has no running turn, and nobody writes it again. *)
PublishedStand ==
  \A r \in RunIds : publishing[r] # NoRecord =>
    /\ publishing[r].status = "succeeded"
    /\ disk[r] \in {publishing[r], NoRecord}
    /\ ~Fresh(r) /\ ~HasTurn(r)
    /\ dispatched[r] # NoKey =>
         publishing[r].trigger = "launch" /\ publishing[r].key = dispatched[r]
    /\ \A u \in Turns :
         u[1] = r /\ phase[u] # "none" => u[2] <= publishing[r].resumes

IInv ==
  /\ TypeOK
  /\ HeldWhileLive
  /\ Slots
  /\ FreshUntouched
  /\ LatestTurnRuns
  /\ NoLostUpdate
  /\ KeysFindable
  /\ OneDispatchPerKey
  /\ OrphansAreStreams
  /\ PublishedStand

------------------------
(* Data. *)

(* There are finitely many turns. *)
LEMMA TurnsFinite == IsFiniteSet(Turns)
<1>1. IsFiniteSet(RunIds) BY ConstantsAssumption
<1>2. IsFiniteSet(0 .. MaxResumes) BY ConstantsAssumption, FS_Interval
<1> QED BY <1>1, <1>2, FS_Product DEF Turns

(* Finitely many turns are in flight, so they can be counted. *)
LEMMA LiveFinite == IsFiniteSet(Live)
<1>1. Live \in SUBSET Turns BY DEF Live
<1> QED BY <1>1, TurnsFinite, FS_Subset

(* A new record is a record. *)
LEMMA NewRecordType ==
  ASSUME NEW tr \in Triggers, NEW k \in Keys \cup {NoKey},
         NEW i \in Instances \cup {NoInstance}
  PROVE  NewRecord(tr, k, i) \in Records BY ConstantsAssumption DEF NewRecord, Records, Statuses

(* A turn comes back with one of three statuses. *)
LEMMA OutcomeType ==
  ASSUME NEW o \in Outcomes
  PROVE  /\ o.status \in {"succeeded", "failed", "suspended"}
         /\ o.thread \in BOOLEAN /\ o.diff \in BOOLEAN /\ o.pending \in BOOLEAN
BY DEF Outcomes, ExecutorOutcomes, ModelOutcomes, TurnResults

(* Finishing a record changes its status, thread, diff and question only. *)
LEMMA FinishedType ==
  ASSUME NEW rec \in Records, NEW o \in Outcomes
  PROVE  /\ Finished(rec, o) \in Records
         /\ Finished(rec, o).trigger = rec.trigger
         /\ Finished(rec, o).key = rec.key
         /\ Finished(rec, o).instance = rec.instance
         /\ Finished(rec, o).resumes = rec.resumes
<1>1. o.status \in Statuses BY OutcomeType DEF Statuses
<1>2. PICK t \in BOOLEAN, d \in BOOLEAN, p \in BOOLEAN :
        t = (o.thread \/ rec.thread) /\ d = (o.diff \/ rec.diff) /\ p = (o.pending \/ rec.pending)
  BY OutcomeType DEF Records
<1>3. Finished(rec, o) =
        [rec EXCEPT !.status = o.status, !.thread = t, !.diff = d, !.pending = p] BY <1>2 DEF Finished
<1> QED BY <1>1, <1>3 DEF Records

(* Reopening a record counts the resume and changes only its status and    *)
(* its question besides.                                                   *)
LEMMA ReopenedType ==
  ASSUME NEW rec \in Records, rec.resumes < MaxResumes
  PROVE  /\ Reopened(rec) \in Records
         /\ Reopened(rec).status = "running"
         /\ Reopened(rec).trigger = rec.trigger
         /\ Reopened(rec).key = rec.key
         /\ Reopened(rec).instance = rec.instance
         /\ Reopened(rec).resumes = rec.resumes + 1
<1>1. rec.resumes \in 0 .. MaxResumes BY DEF Records
<1>2. rec.resumes + 1 \in 0 .. MaxResumes BY <1>1, ConstantsAssumption
<1>3. Reopened(rec).resumes = rec.resumes + 1 BY DEF Reopened, Records
<1>4. Reopened(rec) \in Records BY <1>2 DEF Reopened, Records, Statuses
<1> QED BY <1>3, <1>4 DEF Reopened, Records

(* The sweep changes at most the status of a stored record. *)
LEMMA SweptType ==
  ASSUME NEW rec \in Records \cup {NoRecord}
  PROVE  /\ Swept(rec) \in Records \cup {NoRecord}
         /\ Swept(rec) = NoRecord <=> rec = NoRecord
         /\ rec # NoRecord => /\ Swept(rec).trigger = rec.trigger
                              /\ Swept(rec).key = rec.key
                              /\ Swept(rec).resumes = rec.resumes
                              /\ Swept(rec).status # "running" BY NoRecordAssumption DEF Swept, Records, Statuses

------------------------
(* Admission: what beginning and ending a turn does to the slots. *)

(* Admitting a turn keeps the accounting exact. *)
LEMMA SlotsBegin ==
  ASSUME TypeOK, HeldWhileLive, Slots, UNCHANGED profile,
         NEW t \in Turns, phase[t] = "none",
         NEW rec \in Records, Acquire(rec.instance), BeginTurn(t, rec)
  PROVE  Slots'
<1> USE DEF Slots
<1>1. t \notin Live /\ Live' = Live \cup {t} BY DEF Live, BeginTurn, TypeOK, Phases
<1>2. held'[t] = rec /\ \A u \in Live : held'[u] = held[u] BY <1>1 DEF BeginTurn, TypeOK, Live
<1>3. activeRuns' = Cardinality(Live')
  <2>1. Cardinality(Live \cup {t}) = Cardinality(Live) + 1 BY <1>1, LiveFinite, FS_AddElement
  <2> QED BY <2>1, <1>1 DEF Acquire, SlotAccounting
<1>4. activeRuns' <= profile'.maxConcurrent
  <2>1. activeRuns \in Nat /\ profile.maxConcurrent \in Nat BY ConstantsAssumption DEF TypeOK
  <2> QED BY <2>1 DEF Acquire, CanAcquire
<1>5. busyInstances' = {held'[u].instance : u \in Live'} \ {NoInstance}
  <2>1. {held'[u].instance : u \in Live'}
          = {held[u].instance : u \in Live} \cup {rec.instance} BY <1>1, <1>2
  <2> QED BY <2>1 DEF Acquire, SlotAccounting
<1>6. OneTurnPerInstance'
  <2>1. ASSUME NEW u \in Live, rec.instance # NoInstance
        PROVE  held[u].instance # rec.instance BY <2>1 DEF Acquire, CanAcquire, SlotAccounting
  <2> QED BY <1>1, <1>2, <2>1 DEF OneTurnPerInstance
<1> QED BY <1>3, <1>4, <1>5, <1>6 DEF SlotAccounting

(* The end of a turn gives back exactly its own slot and instance. *)
LEMMA SlotsEnd ==
  ASSUME TypeOK, HeldWhileLive, Slots, UNCHANGED profile,
         NEW t \in Live, EndTurn(t)
  PROVE  Slots' /\ activeRuns' \in Nat
<1> USE DEF Slots
<1>1. t \in Turns /\ Live' = Live \ {t} BY DEF Live, EndTurn, TypeOK, Phases
<1>2. \A u \in Live \ {t} : held'[u] = held[u] BY <1>1 DEF EndTurn, TypeOK, Live
<1>3. Cardinality(Live \ {t}) = Cardinality(Live) - 1 BY LiveFinite, FS_RemoveElement
<1>4. IsFiniteSet(Live \ {t}) BY LiveFinite, FS_RemoveElement
<1>5. Cardinality(Live \ {t}) \in Nat BY <1>4, FS_CardinalityType
<1>6. activeRuns' = Cardinality(Live') BY <1>1, <1>3 DEF EndTurn, Release, SlotAccounting
<1>7. activeRuns' \in Nat BY <1>1, <1>5, <1>6
<1>8. activeRuns' <= profile'.maxConcurrent
  <2>1. activeRuns \in Nat /\ profile.maxConcurrent \in Nat BY ConstantsAssumption DEF TypeOK
  <2> QED BY <2>1 DEF EndTurn, Release, SlotAccounting
<1>9. busyInstances' = {held'[u].instance : u \in Live'} \ {NoInstance}
  <2>1. {held'[u].instance : u \in Live'} = {held[u].instance : u \in Live \ {t}} BY <1>1, <1>2
  <2>2. \A u \in Live \ {t} :
          held[u].instance = held[t].instance => held[t].instance = NoInstance BY DEF OneTurnPerInstance
  <2>3. busyInstances' = ({held[u].instance : u \in Live} \ {NoInstance})
                           \ {held[t].instance} BY DEF EndTurn, Release, SlotAccounting
  <2> QED BY <2>1, <2>2, <2>3
<1>10. OneTurnPerInstance' BY <1>1, <1>2 DEF OneTurnPerInstance
<1> QED BY <1>6, <1>7, <1>8, <1>9, <1>10 DEF SlotAccounting

(* A step that neither begins nor ends a turn keeps the accounting. *)
LEMMA SlotsKept ==
  ASSUME Slots, Live' = Live, UNCHANGED <<profile, slotVars>>,
         \A t \in Live : held'[t].instance = held[t].instance
  PROVE  Slots' BY DEF Slots, slotVars, SlotAccounting, OneTurnPerInstance

------------------------
(* The store: what writing a record and pruning leave. *)

(* finish() leaves the record it wrote, or nothing, and removes other      *)
(* files only into `pruned`.                                               *)
LEMMA FinishRecordEffect ==
  ASSUME TypeOK, NEW r \in RunIds, NEW rec \in Records, FinishRecord(r, rec)
  PROVE  /\ disk' \in [RunIds -> Records \cup {NoRecord}]
         /\ pruned' \in SUBSET RunIds /\ born' = born
         /\ disk'[r] \in {rec, NoRecord}
         /\ \A q \in RunIds : q # r => disk'[q] \in {disk[q], NoRecord}
         /\ \A q \in RunIds : disk'[q] = NoRecord =>
              q \in pruned' \/ (q # r /\ disk[q] = NoRecord)
         /\ pruned \subseteq pruned'
         /\ \A q \in pruned' : q \in pruned \/ q = r \/ disk[q] # NoRecord
<1> DEFINE written == [disk EXCEPT ![r] = rec]
           excess == Excess(written)
<1>1. disk' = [q \in RunIds |-> IF q \in excess THEN NoRecord ELSE written[q]]
      /\ pruned' = pruned \cup excess /\ born' = born BY DEF FinishRecord
<1>2. excess \subseteq RunIds /\ \A q \in excess : written[q] # NoRecord BY DEF Excess
<1>3. written \in [RunIds -> Records \cup {NoRecord}] /\ written[r] = rec
      /\ \A q \in RunIds : q # r => written[q] = disk[q] BY DEF TypeOK
<1>4. rec # NoRecord BY NoRecordAssumption
<1>5. pruned \subseteq RunIds BY DEF TypeOK
<1> HIDE DEF written, excess
<1> QED BY <1>1, <1>2, <1>3, <1>4, <1>5

(* A turn in flight holds a record. *)
LEMMA HeldType ==
  ASSUME TypeOK, HeldWhileLive, NEW t \in Turns, phase[t] # "none"
  PROVE  /\ held[t] \in Records /\ t[1] \in RunIds /\ t[2] \in 0 .. MaxResumes
         /\ t = <<t[1], t[2]>> /\ held[t].resumes = t[2] BY DEF TypeOK, HeldWhileLive, Turns

------------------------
(* Each action preserves the inductive invariant. *)

(* A copy that is out stays as good as it was in a step that ends turns,   *)
(* deletes files, and begins turns and writes files of other runs alone.   *)
LEMMA PublishedKept ==
  ASSUME IInv, publishing' = publishing,
         \A r \in RunIds : publishing[r] # NoRecord =>
           /\ disk'[r] \in {disk[r], NoRecord} /\ born'[r] = born[r]
           /\ dispatched'[r] = dispatched[r]
           /\ \A u \in Turns : u[1] = r =>
                /\ phase'[u] # "none" => phase[u] # "none"
                /\ phase'[u] = "running" => phase[u] = "running"
  PROVE  PublishedStand' BY DEF IInv, PublishedStand, Fresh, HasTurn

(* A fresh run starts, with or without a launch key. *)
LEMMA StartingPreserves ==
  ASSUME IInv, NEW r \in RunIds, NEW tr \in Triggers, NEW k \in Keys \cup {NoKey},
         NEW i \in Instances \cup {NoInstance}, NEW d \in Keys \cup {NoKey},
         Fresh(r), Acquire(i),
         StartRecord(r, NewRecord(tr, k, i)), BeginTurn(<<r, 0>>, NewRecord(tr, k, i)),
         dispatched' = [dispatched EXCEPT ![r] = d],
         d # NoKey => tr = "launch" /\ d = k /\ ~KnownKey(k),
         UNCHANGED <<profile, publishing, verdicts, completions>>
  PROVE  IInv'
<1> DEFINE rec == NewRecord(tr, k, i)
           t == <<r, 0>>
<1>1. rec \in Records BY NewRecordType
<1>2. t \in Turns /\ t[1] = r /\ t[2] = 0 BY ConstantsAssumption DEF Turns
<1>3. /\ rec.status = "running" /\ rec.trigger = tr /\ rec.key = k
      /\ rec.instance = i /\ rec.resumes = 0 BY DEF NewRecord
<1>4. rec # NoRecord BY <1>1, NoRecordAssumption
<1>5. /\ disk[r] = NoRecord /\ dispatched[r] = NoKey /\ r \notin pruned
      /\ \A u \in Turns : u[1] = r => phase[u] = "none" BY DEF IInv, FreshUntouched
<1>6. /\ disk' = [disk EXCEPT ![r] = rec]
      /\ born' = [born EXCEPT ![r] = Cardinality({q \in RunIds : ~Fresh(q)}) + 1]
      /\ pruned' = pruned BY DEF StartRecord
<1>7. Cardinality({q \in RunIds : ~Fresh(q)}) \in Nat BY ConstantsAssumption, FS_Subset, FS_CardinalityType
<1>8. phase' = [phase EXCEPT ![t] = "running"] /\ held' = [held EXCEPT ![t] = rec] BY DEF BeginTurn
<1>9. /\ activeRuns' = activeRuns + 1
      /\ busyInstances' = busyInstances \cup ({i} \ {NoInstance}) BY DEF Acquire
<1> HIDE DEF rec
<1>10. TypeOK' BY <1>1, <1>2, <1>6, <1>7, <1>8, <1>9 DEF IInv, TypeOK, Phases
<1>11. HeldWhileLive' BY <1>2, <1>3, <1>4, <1>8 DEF IInv, HeldWhileLive, TypeOK
<1>12. Slots' BY <1>1, <1>2, <1>3, <1>5, SlotsBegin DEF IInv, rec
<1>13. FreshUntouched' BY <1>2, <1>6, <1>7, <1>8 DEF IInv, FreshUntouched, Fresh, TypeOK, Turns
<1>14. LatestTurnRuns'
  <2>1. ASSUME NEW u \in Turns, u[1] = r PROVE phase'[u] # "none" => u = t BY <1>2, <1>5, <1>8, <2>1 DEF IInv, TypeOK
  <2>2. \A u \in Turns : u[1] # r => phase'[u] = phase[u] /\ held'[u] = held[u] BY <1>2, <1>8 DEF IInv, TypeOK
  <2>3. \A q \in RunIds : q # r => disk'[q] = disk[q] BY <1>6 DEF IInv, TypeOK
  <2>4. disk'[r] = rec /\ held'[t] = rec BY <1>2, <1>6, <1>8 DEF IInv, TypeOK
  <2>5. \A u \in Turns : u[1] \in RunIds /\ u[2] \in Nat BY ConstantsAssumption DEF Turns
  <2> QED BY <1>2, <1>3, <2>1, <2>2, <2>3, <2>4, <2>5 DEF IInv, LatestTurnRuns
<1>15. NoLostUpdate' BY <1>2, <1>5, <1>6, <1>8 DEF IInv, NoLostUpdate, TypeOK, Turns
<1>16. KeysFindable' BY <1>2, <1>3, <1>4, <1>5, <1>6, <1>8 DEF IInv, KeysFindable, TypeOK, Turns
<1>17. OneDispatchPerKey'
  <2>1. ASSUME NEW q \in RunIds, dispatched[q] = d, d # NoKey PROVE q \in pruned
    BY <2>1 DEF IInv, KeysFindable, KnownKey, Stored
  <2> QED BY <1>5, <1>6, <2>1 DEF IInv, OneDispatchPerKey, TypeOK
<1>18. OrphansAreStreams'
  <2>1. phase'[t] = "running" /\ rec.resumes = 0 BY <1>2, <1>3, <1>8 DEF IInv, TypeOK
  <2>2. \A q \in RunIds : q # r => disk'[q] = disk[q] BY <1>6 DEF IInv, TypeOK
  <2>3. disk'[r] = rec BY <1>6 DEF IInv, TypeOK
  <2>4. \A q \in RunIds, n \in 0 .. MaxResumes :
          q # r => phase'[<<q, n>>] = phase[<<q, n>>] BY <1>8 DEF IInv, TypeOK, Turns
  <2>5. \A q \in RunIds : disk[q] # NoRecord => disk[q].resumes \in 0 .. MaxResumes BY DEF IInv, TypeOK, Records
  <2> QED BY <2>1, <2>2, <2>3, <2>4, <2>5 DEF IInv, OrphansAreStreams, Stored
<1>19. PublishedStand'
  <2>1. publishing[r] = NoRecord BY DEF IInv, PublishedStand
  <2> QED BY <1>2, <1>6, <1>8, <2>1, PublishedKept DEF IInv, TypeOK
<1> QED BY <1>10, <1>11, <1>12, <1>13, <1>14, <1>15, <1>16, <1>17, <1>18, <1>19 DEF IInv

(* A turn comes back and finishes its record. *)
LEMMA FinishTurnPreserves ==
  ASSUME IInv, NEW t \in Turns, NEW o \in Outcomes, FinishTurn(t, o)
  PROVE  IInv'
<1> DEFINE r == t[1]
           rec == Finished(held[t], o)
<1>1. /\ phase[t] = "running" /\ FinishRecord(r, rec)
      /\ held' = [held EXCEPT ![t] = rec]
      /\ phase' = [phase EXCEPT ![t] = "closing"]
      /\ UNCHANGED <<profile, publishing, activeRuns, busyInstances, verdicts, dispatched,
                     completions>> BY DEF FinishTurn, slotVars
<1>2. /\ held[t] \in Records /\ r \in RunIds /\ t[2] \in 0 .. MaxResumes
      /\ held[t].resumes = t[2] /\ t = <<r, t[2]>> BY <1>1, HeldType DEF IInv
<1>3. /\ rec \in Records /\ rec.trigger = held[t].trigger
      /\ rec.key = held[t].key /\ rec.instance = held[t].instance
      /\ rec.resumes = t[2] BY <1>2, FinishedType
<1>4. rec.status # "running" BY <1>2, OutcomeType DEF Finished, Records
<1>5. rec # NoRecord BY <1>3, NoRecordAssumption
<1>6. /\ disk' \in [RunIds -> Records \cup {NoRecord}]
      /\ pruned' \in SUBSET RunIds /\ born' = born
      /\ disk'[r] \in {rec, NoRecord}
      /\ \A q \in RunIds : q # r => disk'[q] \in {disk[q], NoRecord}
      /\ \A q \in RunIds : disk'[q] = NoRecord =>
              q \in pruned' \/ (q # r /\ disk[q] = NoRecord)
      /\ pruned \subseteq pruned'
      /\ \A q \in pruned' : q \in pruned \/ q = r \/ disk[q] # NoRecord
  BY <1>1, <1>2, <1>3, FinishRecordEffect DEF IInv
<1>7. \A u \in Turns : u # t => phase'[u] = phase[u] /\ held'[u] = held[u] BY <1>1 DEF IInv, TypeOK
<1>8. phase'[t] = "closing" /\ held'[t] = rec BY <1>1 DEF IInv, TypeOK
<1>9. \A u \in Turns : u[1] \in RunIds /\ u[2] \in 0 .. MaxResumes /\ u = <<u[1], u[2]>> BY DEF Turns
<1>10. ~Fresh(r) BY <1>1, <1>2 DEF IInv, FreshUntouched
<1> HIDE DEF rec, r
<1>11. TypeOK' BY <1>1, <1>3, <1>6 DEF IInv, TypeOK, Phases
<1>12. HeldWhileLive' BY <1>3, <1>5, <1>7, <1>8 DEF IInv, HeldWhileLive
<1>13. Slots'
  <2>1. Live' = Live BY <1>1, <1>7, <1>8 DEF Live
  <2>2. \A u \in Live : held'[u].instance = held[u].instance BY <1>3, <1>7, <1>8 DEF Live
  <2> QED BY <1>1, <2>1, <2>2, SlotsKept DEF IInv, slotVars
<1>14. FreshUntouched' BY <1>1, <1>2, <1>6, <1>7, <1>10, <1>9 DEF IInv, FreshUntouched, Fresh, r
<1>15. LatestTurnRuns'
  <2>1. \A u, v \in Turns :
          u[1] = v[1] /\ phase'[u] = "running" /\ phase'[v] # "none" => v[2] <= u[2]
    BY <1>1, <1>7, <1>8 DEF IInv, LatestTurnRuns
  <2>2. ASSUME NEW u \in Turns, phase'[u] # "none", disk'[u[1]] # NoRecord
        PROVE  u[2] <= disk'[u[1]].resumes
    <3>1. phase[u] # "none" BY <2>2, <1>1, <1>7
    <3>2. CASE u[1] = r BY <1>1, <1>3, <1>6, <2>2, <3>1, <3>2 DEF IInv, LatestTurnRuns, r
    <3>3. CASE u[1] # r BY <1>6, <1>9, <2>2, <3>1, <3>3 DEF IInv, LatestTurnRuns
    <3> QED BY <3>2, <3>3
  <2>3. \A u \in Turns : phase'[u] = "running" => held'[u].status = "running" BY <1>7, <1>8 DEF IInv, LatestTurnRuns
  <2> QED BY <2>1, <2>2, <2>3 DEF LatestTurnRuns
<1>16. NoLostUpdate'
  <2>1. ASSUME NEW u \in Turns, phase'[u] = "running" PROVE u[1] # r
    <3>1. u # t /\ phase[u] = "running" BY <1>7, <1>8, <2>1
    <3>2. u[1] = r => u[2] <= t[2] /\ t[2] <= u[2] BY <1>1, <3>1 DEF IInv, LatestTurnRuns, r
    <3>3. u[1] = r => u[2] = t[2] BY <1>9, <3>2, ConstantsAssumption
    <3> QED BY <1>2, <1>9, <3>1, <3>3
  <2> QED BY <2>1, <1>6, <1>7, <1>8, <1>9 DEF IInv, NoLostUpdate
<1>17. KeysFindable'
  <2>1. ASSUME NEW q \in RunIds, dispatched[q] # NoKey
        PROVE  IF disk'[q] = NoRecord THEN q \in pruned'
               ELSE disk'[q].trigger = "launch" /\ disk'[q].key = dispatched[q]
    <3>1. disk'[q] = NoRecord => q \in pruned' BY <1>6, <2>1 DEF IInv, KeysFindable
    <3>2. CASE q = r BY <1>1, <1>3, <1>6, <2>1, <3>1, <3>2 DEF IInv, KeysFindable, r
    <3>3. CASE q # r BY <1>6, <2>1, <3>1, <3>3 DEF IInv, KeysFindable
    <3> QED BY <3>2, <3>3
  <2>2. \A u \in Turns : phase'[u] # "none" /\ dispatched[u[1]] # NoKey =>
          held'[u].trigger = "launch" /\ held'[u].key = dispatched[u[1]]
    BY <1>1, <1>3, <1>7, <1>8 DEF IInv, KeysFindable
  <2> QED BY <1>1, <2>1, <2>2 DEF KeysFindable
<1>18. OneDispatchPerKey' BY <1>1, <1>6 DEF IInv, OneDispatchPerKey
<1>19. OrphansAreStreams'
  <2>1. ASSUME NEW q \in RunIds, disk'[q] # NoRecord, disk'[q].status = "running",
               disk'[q].trigger # "stream"
        PROVE  phase'[<<q, disk'[q].resumes>>] = "running"
    <3>1. q # r /\ disk'[q] = disk[q] BY <1>4, <1>6, <2>1
    <3>2. <<q, disk[q].resumes>> \in Turns BY <2>1, <3>1 DEF IInv, TypeOK, Records, Turns
    <3>3. phase[<<q, disk[q].resumes>>] = "running" BY <2>1, <3>1 DEF IInv, OrphansAreStreams, Stored
    <3>4. <<q, disk[q].resumes>> # t BY <3>1, <1>2
    <3> QED BY <1>7, <3>1, <3>2, <3>3, <3>4
  <2> QED BY <2>1 DEF OrphansAreStreams, Stored
<1>20. PublishedStand'
  <2>1. publishing[r] = NoRecord BY <1>1, <1>2 DEF IInv, PublishedStand, HasTurn, r
  <2> QED BY <1>1, <1>6, <1>7, <1>8, <2>1, PublishedKept
<1> QED BY <1>11, <1>12, <1>13, <1>14, <1>15, <1>16, <1>17, <1>18, <1>19, <1>20 DEF IInv

(* A turn's coroutine ends: after its record was finished, or because the  *)
(* client of its stream left.                                              *)
LEMMA EndingPreserves ==
  ASSUME IInv, NEW t \in Turns, phase[t] # "none", EndTurn(t),
         phase[t] = "running" => held[t].trigger = "stream",
         UNCHANGED <<profile, publishing, storeVars, verdicts, dispatched>>,
         completions' \subseteq RunIds
  PROVE  IInv'
<1>1. /\ phase' = [phase EXCEPT ![t] = "none"]
      /\ held' = [held EXCEPT ![t] = NoRecord]
      /\ busyInstances' = busyInstances \ {held[t].instance} BY DEF EndTurn, Release
<1>2. /\ disk' = disk /\ born' = born /\ pruned' = pruned
      /\ profile' = profile /\ dispatched' = dispatched BY DEF storeVars
<1>3. \A u \in Turns : u # t => phase'[u] = phase[u] /\ held'[u] = held[u] BY <1>1 DEF IInv, TypeOK
<1>4. phase'[t] = "none" /\ held'[t] = NoRecord BY <1>1 DEF IInv, TypeOK
<1>5. Slots' /\ activeRuns' \in Nat BY SlotsEnd, <1>2 DEF IInv, Live
<1>6. TypeOK' BY <1>1, <1>2, <1>5 DEF IInv, TypeOK, Phases
<1>7. HeldWhileLive' BY <1>3, <1>4 DEF IInv, HeldWhileLive
<1>8. FreshUntouched' BY <1>2, <1>3, <1>4 DEF IInv, FreshUntouched, Fresh
<1>9. LatestTurnRuns' BY <1>2, <1>3, <1>4 DEF IInv, LatestTurnRuns
<1>10. NoLostUpdate' BY <1>2, <1>3, <1>4 DEF IInv, NoLostUpdate
<1>11. KeysFindable' BY <1>2, <1>3, <1>4 DEF IInv, KeysFindable
<1>12. OneDispatchPerKey' BY <1>2 DEF IInv, OneDispatchPerKey
<1>13. OrphansAreStreams'
  <2>1. ASSUME NEW q \in RunIds, disk[q] # NoRecord, disk[q].status = "running",
               disk[q].trigger # "stream"
        PROVE  phase'[<<q, disk[q].resumes>>] = "running"
    <3> DEFINE u == <<q, disk[q].resumes>>
    <3>1. u \in Turns /\ u[1] = q BY <2>1 DEF IInv, TypeOK, Records, Turns
    <3>2. phase[u] = "running" BY <2>1 DEF IInv, OrphansAreStreams, Stored
    <3>3. held[u] = disk[q] BY <2>1, <3>1, <3>2 DEF IInv, NoLostUpdate
    <3>4. u # t BY <2>1, <3>2, <3>3
    <3> QED BY <1>3, <3>1, <3>2, <3>4
  <2> QED BY <1>2, <2>1 DEF OrphansAreStreams, Stored
<1>14. PublishedStand' BY <1>2, <1>3, <1>4, PublishedKept
<1> QED BY <1>5, <1>6, <1>7, <1>8, <1>9, <1>10, <1>11, <1>12, <1>13, <1>14 DEF IInv

(* A resume that passes its checks finds a settled record and keeps the    *)
(* type of the verdicts.                                                   *)
LEMMA VerdictType ==
  ASSUME IInv, NEW r \in RunIds, NEW v \in Verdicts, Verdict(r, v)
  PROVE  /\ verdicts' \in [Turns -> SUBSET Verdicts]
         /\ disk[r] \in Records /\ disk[r] # NoRecord
         /\ disk[r].status \in {"suspended", "failed"}
         /\ Raised(r) \in Turns
<1>1. /\ disk[r] \in Records /\ disk[r] # NoRecord
      /\ disk[r].status \in {"suspended", "failed"} BY DEF Verdict, Resumable, Settled, Stored, IInv, TypeOK
<1>2. Raised(r) \in Turns BY <1>1 DEF Raised, Turns, Records
<1>3. verdicts' \in [Turns -> SUBSET Verdicts] BY <1>2 DEF Verdict, IInv, TypeOK
<1> QED BY <1>1, <1>2, <1>3

(* No coroutine runs a turn of a settled run. *)
LEMMA SettledIsIdle ==
  ASSUME IInv, NEW r \in RunIds, disk[r] # NoRecord,
         disk[r].status \in {"suspended", "failed"},
         NEW u \in Turns, u[1] = r
  PROVE  phase[u] # "running" BY DEF IInv, NoLostUpdate, LatestTurnRuns

(* A suspended or failed run is reopened. *)
LEMMA ResumePreserves ==
  ASSUME IInv, NEW r \in RunIds, NEW v \in Verdicts, Resume(r, v)
  PROVE  IInv'
<1> DEFINE old == disk[r]
           rec == Reopened(old)
           t == <<r, rec.resumes>>
<1>1. /\ Verdict(r, v) /\ old.resumes < MaxResumes /\ Acquire(old.instance)
      /\ disk' = [disk EXCEPT ![r] = rec] /\ BeginTurn(t, rec)
      /\ UNCHANGED <<profile, publishing, born, pruned, dispatched, completions>> BY DEF Resume
<1>2. /\ verdicts' \in [Turns -> SUBSET Verdicts] /\ old \in Records
      /\ old # NoRecord /\ old.status \in {"suspended", "failed"} BY <1>1, VerdictType
<1>3. /\ rec \in Records /\ rec.status = "running" /\ rec.trigger = old.trigger
      /\ rec.key = old.key /\ rec.instance = old.instance
      /\ rec.resumes = old.resumes + 1 BY <1>1, <1>2, ReopenedType
<1>4. /\ t \in Turns /\ t[1] = r /\ t[2] = rec.resumes /\ rec # NoRecord
      /\ rec.resumes \in Nat /\ old.resumes \in Nat
  BY <1>2, <1>3, NoRecordAssumption, ConstantsAssumption DEF Turns, Records
<1>5. ~Fresh(r) BY <1>2 DEF IInv, FreshUntouched
<1>6. \A u \in Turns : u[1] = r /\ phase[u] # "none" => u[2] <= old.resumes BY <1>2 DEF IInv, LatestTurnRuns
<1>7. phase[t] = "none" BY <1>3, <1>4, <1>6
<1>8. \A u \in Turns : u[1] = r => phase[u] # "running" BY <1>2, SettledIsIdle
<1>9. phase' = [phase EXCEPT ![t] = "running"] /\ held' = [held EXCEPT ![t] = rec] BY <1>1 DEF BeginTurn
<1>10. /\ activeRuns' = activeRuns + 1
       /\ busyInstances' = busyInstances \cup ({old.instance} \ {NoInstance}) BY <1>1 DEF Acquire
<1>11. \A u \in Turns : u[1] \in RunIds /\ u[2] \in Nat BY ConstantsAssumption DEF Turns
<1>12. old.instance \in Instances \cup {NoInstance} BY <1>2 DEF Records
<1>13. Slots'
  <2>1. Acquire(rec.instance) /\ BeginTurn(t, rec) /\ UNCHANGED profile BY <1>1, <1>3
  <2> HIDE DEF rec, t
  <2> QED BY <1>3, <1>4, <1>7, <2>1, SlotsBegin DEF IInv
<1> HIDE DEF rec, old, t
<1>14. /\ \A u \in Turns : u # t => phase'[u] = phase[u] /\ held'[u] = held[u]
       /\ phase'[t] = "running" /\ held'[t] = rec BY <1>4, <1>9 DEF IInv, TypeOK
<1>15. disk'[r] = rec /\ \A q \in RunIds : q # r => disk'[q] = disk[q] BY <1>1 DEF IInv, TypeOK
<1>16. TypeOK' BY <1>1, <1>2, <1>3, <1>4, <1>9, <1>10, <1>12 DEF IInv, TypeOK, Phases
<1>17. HeldWhileLive' BY <1>4, <1>14 DEF IInv, HeldWhileLive
<1>18. FreshUntouched' BY <1>1, <1>4, <1>5, <1>14, <1>15 DEF IInv, FreshUntouched, Fresh
<1>19. LatestTurnRuns'
  <2>1. ASSUME NEW u \in Turns, phase'[u] # "none", u[1] = r
        PROVE  u[2] <= rec.resumes BY <1>3, <1>4, <1>6, <1>11, <1>14, <2>1
  <2>2. \A u, w \in Turns :
          u[1] = w[1] /\ phase'[u] = "running" /\ phase'[w] # "none" => w[2] <= u[2]
    BY <1>4, <1>8, <1>14, <2>1 DEF IInv, LatestTurnRuns
  <2>3. \A u \in Turns :
          phase'[u] # "none" /\ disk'[u[1]] # NoRecord => u[2] <= disk'[u[1]].resumes
    BY <1>4, <1>11, <1>14, <1>15, <2>1 DEF IInv, LatestTurnRuns
  <2>4. \A u \in Turns : phase'[u] = "running" => held'[u].status = "running" BY <1>3, <1>14 DEF IInv, LatestTurnRuns
  <2> QED BY <2>2, <2>3, <2>4 DEF LatestTurnRuns
<1>20. NoLostUpdate' BY <1>4, <1>8, <1>11, <1>14, <1>15 DEF IInv, NoLostUpdate
<1>21. KeysFindable'
  <2>1. dispatched[r] # NoKey =>
          rec.trigger = "launch" /\ rec.key = dispatched[r] BY <1>2, <1>3 DEF IInv, KeysFindable, old
  <2> QED BY <1>1, <1>4, <1>11, <1>14, <1>15, <2>1 DEF IInv, KeysFindable
<1>22. OneDispatchPerKey' BY <1>1 DEF IInv, OneDispatchPerKey
<1>23. OrphansAreStreams'
  <2>1. ASSUME NEW q \in RunIds, disk'[q] # NoRecord, disk'[q].status = "running",
               disk'[q].trigger # "stream"
        PROVE  phase'[<<q, disk'[q].resumes>>] = "running"
    <3>1. CASE q = r BY <1>14, <1>15, <3>1 DEF t
    <3>2. CASE q # r
      <4>1. <<q, disk[q].resumes>> \in Turns /\ disk'[q] = disk[q]
        BY <1>15, <2>1, <3>2 DEF IInv, TypeOK, Records, Turns
      <4>2. phase[<<q, disk[q].resumes>>] = "running" BY <2>1, <4>1 DEF IInv, OrphansAreStreams, Stored
      <4>3. <<q, disk[q].resumes>> # t BY <3>2 DEF t
      <4> QED BY <1>14, <4>1, <4>2, <4>3
    <3> QED BY <3>1, <3>2
  <2> QED BY <2>1 DEF OrphansAreStreams, Stored
<1>24. PublishedStand'
  <2>1. publishing[r] = NoRecord BY <1>2 DEF IInv, PublishedStand, old
  <2> QED BY <1>1, <1>4, <1>14, <1>15, <2>1, PublishedKept
<1> QED BY <1>13, <1>16, <1>17, <1>18, <1>19, <1>20, <1>21, <1>22, <1>23, <1>24 DEF IInv

(* A refused resume leaves a verdict and nothing else. *)
LEMMA RefusalPreserves ==
  ASSUME IInv, NEW r \in RunIds, NEW v \in Verdicts, ResumeRefused(r, v)
  PROVE  IInv'
<1>1. verdicts' \in [Turns -> SUBSET Verdicts] BY VerdictType DEF ResumeRefused
<1>2. UNCHANGED <<profile, publishing, disk, born, pruned, phase, held, activeRuns,
                  busyInstances, dispatched, completions>> BY DEF ResumeRefused, storeVars, slotVars
<1> QED BY <1>1, <1>2 DEF IInv, TypeOK, HeldWhileLive, Slots, SlotAccounting,
     OneTurnPerInstance, Live, FreshUntouched, Fresh, LatestTurnRuns, NoLostUpdate,
     KeysFindable, OneDispatchPerKey, OrphansAreStreams, Stored, PublishedStand, HasTurn

(* A suspended or failed run is abandoned. *)
LEMMA AbandonPreserves ==
  ASSUME IInv, NEW r \in RunIds, Abandon(r)
  PROVE  IInv'
<1> DEFINE rec == [disk[r] EXCEPT !.status = "abandoned"]
<1>1. /\ disk[r] \in Records /\ disk[r] # NoRecord
      /\ disk[r].status \in {"suspended", "failed"}
      /\ FinishRecord(r, rec)
      /\ UNCHANGED <<profile, publishing, phase, held, activeRuns, busyInstances, verdicts,
                     dispatched, completions>> BY DEF Abandon, Settled, Stored, IInv, TypeOK, slotVars
<1>2. /\ rec \in Records /\ rec.status = "abandoned"
      /\ rec.trigger = disk[r].trigger /\ rec.key = disk[r].key
      /\ rec.resumes = disk[r].resumes BY <1>1 DEF Records, Statuses
<1>3. rec # NoRecord BY <1>2, NoRecordAssumption
<1> HIDE DEF rec
<1>4. /\ disk' \in [RunIds -> Records \cup {NoRecord}]
      /\ pruned' \in SUBSET RunIds /\ born' = born
      /\ disk'[r] \in {rec, NoRecord}
      /\ \A q \in RunIds : q # r => disk'[q] \in {disk[q], NoRecord}
      /\ \A q \in RunIds : disk'[q] = NoRecord =>
              q \in pruned' \/ (q # r /\ disk[q] = NoRecord)
      /\ pruned \subseteq pruned'
      /\ \A q \in pruned' : q \in pruned \/ q = r \/ disk[q] # NoRecord BY <1>1, <1>2, FinishRecordEffect DEF IInv
<1>5. \A u \in Turns : u[1] = r => phase[u] # "running" BY <1>1, SettledIsIdle
<1>6. ~Fresh(r) BY <1>1 DEF IInv, FreshUntouched
<1>7. \A u \in Turns : u[1] \in RunIds BY DEF Turns
<1>8. TypeOK' BY <1>1, <1>4 DEF IInv, TypeOK
<1>9. HeldWhileLive' BY <1>1 DEF IInv, HeldWhileLive
<1>10. Slots' BY <1>1, SlotsKept DEF IInv, Live, slotVars
<1>11. FreshUntouched' BY <1>1, <1>4, <1>6 DEF IInv, FreshUntouched, Fresh
<1>12. LatestTurnRuns'
  <2>1. ASSUME NEW u \in Turns, phase[u] # "none", disk'[u[1]] # NoRecord
        PROVE  u[2] <= disk'[u[1]].resumes BY <1>1, <1>2, <1>4, <1>7, <2>1 DEF IInv, LatestTurnRuns
  <2> QED BY <1>1, <2>1 DEF IInv, LatestTurnRuns
<1>13. NoLostUpdate' BY <1>1, <1>4, <1>5, <1>7 DEF IInv, NoLostUpdate
<1>14. KeysFindable'
  <2>1. ASSUME NEW q \in RunIds, dispatched[q] # NoKey
        PROVE  IF disk'[q] = NoRecord THEN q \in pruned'
               ELSE disk'[q].trigger = "launch" /\ disk'[q].key = dispatched[q]
    <3>1. disk'[q] = NoRecord => q \in pruned' BY <1>4, <2>1 DEF IInv, KeysFindable
    <3> QED BY <1>1, <1>2, <1>4, <2>1, <3>1 DEF IInv, KeysFindable
  <2> QED BY <1>1, <2>1 DEF IInv, KeysFindable
<1>15. OneDispatchPerKey' BY <1>1, <1>4 DEF IInv, OneDispatchPerKey
<1>16. OrphansAreStreams' BY <1>1, <1>2, <1>4 DEF IInv, OrphansAreStreams, Stored
<1>17. PublishedStand'
  <2>1. publishing[r] = NoRecord BY <1>1 DEF IInv, PublishedStand
  <2> QED BY <1>1, <1>4, <2>1, PublishedKept
<1> QED BY <1>8, <1>9, <1>10, <1>11, <1>12, <1>13, <1>14, <1>15, <1>16, <1>17 DEF IInv

(* The process is killed and comes back. *)
LEMMA RebootPreserves ==
  ASSUME IInv, Reboot, verdicts' \in [Turns -> SUBSET Verdicts]
  PROVE  IInv'
<1>1. /\ disk' = [r \in RunIds |-> Swept(disk[r])]
      /\ phase' = [t \in Turns |-> "none"] /\ held' = [t \in Turns |-> NoRecord]
      /\ activeRuns' = 0 /\ busyInstances' = {}
      /\ publishing' = [r \in RunIds |-> NoRecord]
      /\ UNCHANGED <<profile, born, pruned, dispatched, completions>> BY DEF Reboot
<1>2. \A r \in RunIds :
        /\ disk'[r] \in Records \cup {NoRecord}
        /\ disk'[r] = NoRecord <=> disk[r] = NoRecord
        /\ disk[r] # NoRecord => /\ disk'[r].trigger = disk[r].trigger
                                /\ disk'[r].key = disk[r].key
                                /\ disk'[r].status # "running"
  <2>1. ASSUME NEW r \in RunIds PROVE disk'[r] = Swept(disk[r]) BY <1>1
  <2>2. \A r \in RunIds : disk[r] \in Records \cup {NoRecord} BY DEF IInv, TypeOK
  <2> QED BY <2>1, <2>2, SweptType
<1>3. TypeOK' BY <1>1, <1>2 DEF IInv, TypeOK, Phases
<1>4. HeldWhileLive' BY <1>1 DEF HeldWhileLive
<1>5. Live' = {} BY <1>1 DEF Live
<1>6. Slots'
  <2>1. Cardinality(Live') = 0 BY <1>5, FS_EmptySet
  <2>2. profile'.maxConcurrent \in Nat BY <1>1, ConstantsAssumption DEF IInv, TypeOK
  <2>3. SlotAccounting' BY <1>1, <1>5, <2>1, <2>2 DEF SlotAccounting
  <2>4. OneTurnPerInstance' BY <1>5 DEF OneTurnPerInstance
  <2> QED BY <2>3, <2>4 DEF Slots
<1>7. FreshUntouched' BY <1>1, <1>2 DEF IInv, FreshUntouched, Fresh
<1>8. LatestTurnRuns' BY <1>1 DEF LatestTurnRuns
<1>9. NoLostUpdate' BY <1>1 DEF NoLostUpdate
<1>10. KeysFindable' BY <1>1, <1>2 DEF IInv, KeysFindable
<1>11. OneDispatchPerKey' BY <1>1 DEF IInv, OneDispatchPerKey
<1>12. OrphansAreStreams' BY <1>2 DEF OrphansAreStreams, Stored
<1>13. PublishedStand' BY <1>1 DEF PublishedStand
<1> QED BY <1>3, <1>4, <1>6, <1>7, <1>8, <1>9, <1>10, <1>11, <1>12, <1>13 DEF IInv

(* A publication reads the record of a run that has succeeded. *)
LEMMA PublishPreserves ==
  ASSUME IInv, NEW r \in RunIds, PublishRun(r) \/ PublicationsOver(r)
  PROVE  IInv'
<1>1. UNCHANGED <<profile, disk, born, pruned, phase, held, activeRuns,
                  busyInstances, verdicts, dispatched, completions>>
  BY DEF PublishRun, PublicationsOver, publicationVars, slotVars
<1>2. publishing' \in [RunIds -> Records \cup {NoRecord}]
      /\ \A q \in RunIds \ {r} : publishing'[q] = publishing[q] BY DEF PublishRun, PublicationsOver, IInv, TypeOK
<1>3. PublishedStand'
  <2>1. CASE PublishRun(r)
    <3>1. /\ publishing'[r] = disk[r] /\ disk[r] # NoRecord
          /\ disk[r].status = "succeeded" BY <2>1 DEF PublishRun, Stored, IInv, TypeOK
    <3>2. ~Fresh(r) BY <3>1 DEF IInv, FreshUntouched
    <3>3. ~HasTurn(r) BY <3>1 DEF HasTurn, IInv, NoLostUpdate, LatestTurnRuns
    <3>4. dispatched[r] # NoKey => disk[r].trigger = "launch" /\ disk[r].key = dispatched[r]
      BY <3>1 DEF IInv, KeysFindable
    <3>5. \A u \in Turns : u[1] = r /\ phase[u] # "none" => u[2] <= disk[r].resumes BY <3>1 DEF IInv, LatestTurnRuns
    <3> QED BY <1>1, <1>2, <3>1, <3>2, <3>3, <3>4, <3>5 DEF IInv, PublishedStand, Fresh, HasTurn
  <2>2. CASE PublicationsOver(r)
    <3>1. publishing'[r] = NoRecord BY <2>2 DEF PublicationsOver, IInv, TypeOK
    <3> QED BY <1>1, <1>2, <3>1 DEF IInv, PublishedStand, Fresh, HasTurn
  <2> QED BY <2>1, <2>2
<1> QED BY <1>1, <1>2, <1>3 DEF IInv, TypeOK, HeldWhileLive, Slots, SlotAccounting,
     OneTurnPerInstance, Live, FreshUntouched, Fresh, LatestTurnRuns, NoLostUpdate,
     KeysFindable, OneDispatchPerKey, OrphansAreStreams, Stored

(* A publication writes its copy back: the record is as it was, or is back *)
(* as it was.                                                              *)
LEMMA AnnotatePreserves ==
  ASSUME IInv, NEW r \in RunIds, AnnotateRun(r)
  PROVE  IInv'
<1>1. UNCHANGED <<profile, publishing, born, pruned, phase, held, activeRuns,
                  busyInstances, verdicts, dispatched, completions>> BY DEF AnnotateRun, publicationVars, slotVars
<1> DEFINE rec == publishing[r]
<1>2. /\ rec \in Records /\ rec # NoRecord /\ disk' = [disk EXCEPT ![r] = rec]
      /\ rec.status = "succeeded" /\ ~Fresh(r) /\ ~HasTurn(r)
      /\ dispatched[r] # NoKey => rec.trigger = "launch" /\ rec.key = dispatched[r]
      /\ \A u \in Turns : u[1] = r /\ phase[u] # "none" => u[2] <= rec.resumes
  BY DEF AnnotateRun, IInv, TypeOK, PublishedStand
<1>3. disk'[r] = rec /\ \A q \in RunIds \ {r} : disk'[q] = disk[q] BY <1>2 DEF IInv, TypeOK
<1> HIDE DEF rec
<1>4. \A u \in Turns : u[1] \in RunIds BY DEF Turns
<1>5. TypeOK' BY <1>1, <1>2 DEF IInv, TypeOK
<1>6. HeldWhileLive' /\ Slots' /\ OneDispatchPerKey'
  BY <1>1 DEF IInv, HeldWhileLive, Slots, SlotAccounting, OneTurnPerInstance, Live,
     OneDispatchPerKey
<1>7. FreshUntouched' BY <1>1, <1>2, <1>3 DEF IInv, FreshUntouched, Fresh
<1>8. LatestTurnRuns' BY <1>1, <1>2, <1>3, <1>4 DEF IInv, LatestTurnRuns
<1>9. NoLostUpdate' BY <1>1, <1>2, <1>3, <1>4 DEF IInv, NoLostUpdate, HasTurn
<1>10. KeysFindable' BY <1>1, <1>2, <1>3 DEF IInv, KeysFindable
<1>11. OrphansAreStreams' BY <1>1, <1>2, <1>3 DEF IInv, OrphansAreStreams, Stored
<1>12. PublishedStand' BY <1>1, <1>2, <1>3 DEF IInv, PublishedStand, Fresh, HasTurn, rec
<1> QED BY <1>5, <1>6, <1>7, <1>8, <1>9, <1>10, <1>11, <1>12 DEF IInv

(* The invariant holds in an empty store. *)
LEMMA InitEstablishes == Init => IInv
<1> SUFFICES ASSUME Init PROVE IInv OBVIOUS
<1> USE DEF Init
<1>1. TypeOK BY DEF TypeOK, Phases
<1>2. Live = {} BY DEF Live
<1>3. Cardinality(Live) = 0 BY <1>2, FS_EmptySet
<1>4. profile.maxConcurrent \in Nat BY ConstantsAssumption
<1>5. Slots BY <1>2, <1>3, <1>4 DEF Slots, SlotAccounting, OneTurnPerInstance
<1>6. HeldWhileLive /\ FreshUntouched BY DEF HeldWhileLive, FreshUntouched, Fresh
<1>7. LatestTurnRuns /\ NoLostUpdate BY DEF LatestTurnRuns, NoLostUpdate
<1>8. KeysFindable /\ OneDispatchPerKey BY DEF KeysFindable, OneDispatchPerKey, Turns
<1>9. OrphansAreStreams BY DEF OrphansAreStreams, Stored
<1>10. PublishedStand BY DEF PublishedStand
<1> QED BY <1>1, <1>5, <1>6, <1>7, <1>8, <1>9, <1>10 DEF IInv

(* Every step keeps the invariant. *)
LEMMA NextPreserves == IInv /\ [Next]_vars => IInv'
<1> SUFFICES ASSUME IInv, [Next]_vars PROVE IInv' OBVIOUS
<1>1. CASE \E r \in RunIds, trigger \in Triggers \ {"launch"},
             i \in Instances \cup {NoInstance} : StartRun(r, trigger, i)
  <2>1. PICK r \in RunIds, trigger \in Triggers \ {"launch"},
             i \in Instances \cup {NoInstance} : StartRun(r, trigger, i) BY <1>1
  <2>2. dispatched' = [dispatched EXCEPT ![r] = NoKey] BY <2>1 DEF StartRun, IInv, FreshUntouched, TypeOK
  <2> QED BY <2>1, <2>2, StartingPreserves DEF StartRun
<1>2. CASE \E r \in RunIds, k \in Keys, i \in Instances \cup {NoInstance} :
             Launch(r, k, i)
  <2>1. PICK r \in RunIds, k \in Keys, i \in Instances \cup {NoInstance} :
             Launch(r, k, i) BY <1>2
  <2>2. "launch" \in Triggers BY DEF Triggers
  <2> QED BY <2>1, <2>2, StartingPreserves DEF Launch
<1>3. CASE \E t \in Turns, o \in Outcomes : FinishTurn(t, o) BY <1>3, FinishTurnPreserves
<1>4. CASE \E t \in Turns : CloseTurn(t)
  <2>1. PICK t \in Turns : CloseTurn(t) BY <1>4
  <2>2. completions' \subseteq RunIds
    <3>1. held[t] \in Records /\ t[1] \in RunIds BY <2>1, HeldType DEF CloseTurn, IInv
    <3>2. t[1] \in RunIds BY <3>1
    <3> QED BY <2>1, <3>2 DEF CloseTurn, IInv, TypeOK
  <2> QED BY <2>1, <2>2, EndingPreserves DEF CloseTurn
<1>5. CASE \E t \in Turns : Disconnect(t)
  <2>1. PICK t \in Turns : Disconnect(t) BY <1>5
  <2>2. completions' \subseteq RunIds BY <2>1 DEF Disconnect, IInv, TypeOK
  <2> QED BY <2>1, <2>2, EndingPreserves DEF Disconnect
<1>6. CASE \E r \in RunIds, v \in Verdicts : Resume(r, v) BY <1>6, ResumePreserves
<1>7. CASE \E r \in RunIds, v \in Verdicts : ResumeRefused(r, v) BY <1>7, RefusalPreserves
<1>8. CASE \E r \in RunIds : Abandon(r) BY <1>8, AbandonPreserves
<1>9. CASE Restart BY <1>9, RebootPreserves DEF Restart, IInv, TypeOK
<1>10. CASE \E r \in RunIds, v \in Verdicts : RestartInResume(r, v)
  BY <1>10, RebootPreserves, VerdictType DEF RestartInResume
<1>11. CASE \E r \in RunIds : PublishRun(r) \/ AnnotateRun(r) \/ PublicationsOver(r)
  BY <1>11, PublishPreserves, AnnotatePreserves
<1>12. CASE UNCHANGED vars BY <1>12 DEF vars, IInv, TypeOK, HeldWhileLive, Slots, SlotAccounting,
     OneTurnPerInstance, Live, FreshUntouched, Fresh, LatestTurnRuns, NoLostUpdate,
     KeysFindable, OneDispatchPerKey, OrphansAreStreams, Stored, PublishedStand, HasTurn
<1> QED BY <1>1, <1>2, <1>3, <1>4, <1>5, <1>6, <1>7, <1>8, <1>9, <1>10, <1>11, <1>12 DEF Next

(* The inductive invariant holds in every reachable state. *)
THEOREM Invariance == Spec => []IInv
<1> QED BY InitEstablishes, NextPreserves, PTL DEF Spec

------------------------
(* The properties. *)

(* Every variable keeps its type, for every configuration of a container. *)
THEOREM TypeCorrect == Spec => []TypeOK
<1>1. IInv => TypeOK BY DEF IInv
<1> QED BY <1>1, Invariance, PTL

(* _active_runs and _busy_instances account for exactly the turns in       *)
(* flight, and two turns in flight never share an instance.                *)
THEOREM AdmissionIsExact == Spec => [](SlotAccounting /\ OneTurnPerInstance)
<1>1. IInv => SlotAccounting /\ OneTurnPerInstance BY DEF IInv, Slots
<1> QED BY <1>1, Invariance, PTL

(* A run has at most one backend turn, and the copy of the record its      *)
(* coroutine will write back is the one on disk, or the file was pruned.   *)
THEOREM OneWriterPerRun == Spec => [](OneTurnPerRun /\ NoLostUpdate)
<1>1. IInv => OneTurnPerRun
  <2> SUFFICES ASSUME IInv, NEW t \in Turns, NEW u \in Turns, t[1] = u[1],
                      phase[t] = "running", phase[u] = "running"
               PROVE  t = u BY DEF OneTurnPerRun
  <2>1. t[2] <= u[2] /\ u[2] <= t[2] BY DEF IInv, LatestTurnRuns
  <2>2. t[2] = u[2] BY <2>1, ConstantsAssumption DEF Turns
  <2> QED BY <2>2 DEF Turns
<1>2. IInv => NoLostUpdate BY DEF IInv
<1> QED BY <1>1, <1>2, Invariance, PTL

(* A launch key dispatches one run for as long as that run's file exists. *)
THEOREM KeysDispatchOnce == Spec => []OneDispatchPerKey
<1>1. IInv => OneDispatchPerKey BY DEF IInv
<1> QED BY <1>1, Invariance, PTL

(* While the process is up, only a stream's record can be left `running`   *)
(* without a turn.                                                         *)
THEOREM OnlyStreamsAreOrphaned == Spec => []OrphansAreStreams
<1>1. IInv => OrphansAreStreams BY DEF IInv
<1> QED BY <1>1, Invariance, PTL

------------------------
(* What no step may do. *)

(* A step leaves a stored record alone, deletes its file, or is one of the *)
(* four that write it: the end of its running turn, a resume, an abandon,  *)
(* and the sweep of a running record.                                      *)
LEMMA RecordWriters ==
  ASSUME IInv, [Next]_vars, NEW r \in RunIds, disk[r] # NoRecord
  PROVE  \/ disk'[r] \in {disk[r], NoRecord}
         \/ \E o \in Outcomes :
              disk[r].status = "running" /\ disk'[r] = Finished(disk[r], o)
         \/ \E v \in Verdicts : Resume(r, v) /\ disk'[r] = Reopened(disk[r])
         \/ /\ disk[r].status \in {"suspended", "failed"}
            /\ disk'[r] = [disk[r] EXCEPT !.status = "abandoned"]
         \/ /\ disk[r].status = "running"
            /\ disk'[r] = [disk[r] EXCEPT !.status = "interrupted"]
<1>1. disk[r] \in Records BY DEF IInv, TypeOK
<1>2. ASSUME NEW q \in RunIds, NEW tr \in Triggers, NEW k \in Keys \cup {NoKey},
             NEW i \in Instances \cup {NoInstance}, Fresh(q),
             StartRecord(q, NewRecord(tr, k, i))
      PROVE  disk'[r] = disk[r] BY <1>2 DEF StartRecord, IInv, TypeOK, FreshUntouched
<1>3. CASE \E q \in RunIds, trigger \in Triggers \ {"launch"},
             i \in Instances \cup {NoInstance} : StartRun(q, trigger, i) BY <1>2, <1>3 DEF StartRun
<1>4. CASE \E q \in RunIds, k \in Keys, i \in Instances \cup {NoInstance} :
             Launch(q, k, i)
  <2>1. "launch" \in Triggers BY DEF Triggers
  <2> QED BY <1>2, <1>4, <2>1 DEF Launch
<1>5. CASE \E t \in Turns, o \in Outcomes : FinishTurn(t, o)
  <2>1. PICK t \in Turns, o \in Outcomes : FinishTurn(t, o) BY <1>5
  <2>2. /\ phase[t] = "running" /\ held[t] \in Records /\ t[1] \in RunIds
        /\ FinishRecord(t[1], Finished(held[t], o)) BY <2>1, HeldType DEF FinishTurn, IInv
  <2>3. Finished(held[t], o) \in Records BY <2>2, FinishedType
  <2>4. /\ disk'[t[1]] \in {Finished(held[t], o), NoRecord}
        /\ r # t[1] => disk'[r] \in {disk[r], NoRecord} BY <2>2, <2>3, FinishRecordEffect DEF IInv
  <2>5. r = t[1] => held[t] = disk[r] /\ disk[r].status = "running" BY <2>2 DEF IInv, NoLostUpdate, LatestTurnRuns
  <2> QED BY <2>4, <2>5
<1>6. CASE \E t \in Turns : CloseTurn(t) BY <1>6 DEF CloseTurn, storeVars
<1>7. CASE \E t \in Turns : Disconnect(t) BY <1>7 DEF Disconnect, storeVars
<1>8. CASE \E q \in RunIds, v \in Verdicts : Resume(q, v)
  <2>1. PICK q \in RunIds, v \in Verdicts : Resume(q, v) BY <1>8
  <2>2. disk' = [disk EXCEPT ![q] = Reopened(disk[q])] BY <2>1 DEF Resume
  <2>3. IF q = r THEN disk'[r] = Reopened(disk[r]) ELSE disk'[r] = disk[r] BY <2>2 DEF IInv, TypeOK
  <2> QED BY <2>1, <2>3
<1>9. CASE \E q \in RunIds, v \in Verdicts : ResumeRefused(q, v) BY <1>9 DEF ResumeRefused, storeVars
<1>10. CASE \E q \in RunIds : Abandon(q)
  <2>1. PICK q \in RunIds : Abandon(q) BY <1>10
  <2>2. /\ disk[q] \in Records /\ disk[q].status \in {"suspended", "failed"}
        /\ FinishRecord(q, [disk[q] EXCEPT !.status = "abandoned"]) BY <2>1 DEF Abandon, Settled, Stored, IInv, TypeOK
  <2>3. [disk[q] EXCEPT !.status = "abandoned"] \in Records BY <2>2 DEF Records, Statuses
  <2>4. /\ disk'[q] \in {[disk[q] EXCEPT !.status = "abandoned"], NoRecord}
        /\ r # q => disk'[r] \in {disk[r], NoRecord} BY <2>2, <2>3, FinishRecordEffect DEF IInv
  <2> QED BY <2>2, <2>4
<1>11. CASE Reboot
  <2>1. disk'[r] = Swept(disk[r]) BY <1>11 DEF Reboot
  <2> QED BY <2>1 DEF Swept
<1>12. CASE UNCHANGED vars BY <1>12 DEF vars
<1>13. CASE \E q \in RunIds : PublishRun(q) \/ AnnotateRun(q) \/ PublicationsOver(q)
  BY <1>13 DEF PublishRun, AnnotateRun, PublicationsOver, IInv, TypeOK, PublishedStand
<1> QED BY <1>3, <1>4, <1>5, <1>6, <1>7, <1>8, <1>9, <1>10, <1>11, <1>12, <1>13 DEF Next, Restart, RestartInResume

(* A record that is gone, of a run that has no running turn, is written    *)
(* again by the annotation of a publication alone.                         *)
LEMMA ComesBack ==
  ASSUME IInv, [Next]_vars, NEW r \in RunIds, disk[r] = NoRecord, ~Fresh(r),
         ~HasTurn(r), disk'[r] # NoRecord
  PROVE  disk'[r] = publishing[r] /\ publishing[r].status = "succeeded"
<1>1. CASE \E q \in RunIds, trigger \in Triggers \ {"launch"},
             i \in Instances \cup {NoInstance} : StartRun(q, trigger, i)
  BY <1>1 DEF StartRun, StartRecord, IInv, TypeOK
<1>2. CASE \E q \in RunIds, k \in Keys, i \in Instances \cup {NoInstance} :
             Launch(q, k, i) BY <1>2 DEF Launch, StartRecord, IInv, TypeOK
<1>3. CASE \E t \in Turns, o \in Outcomes : FinishTurn(t, o)
  <2>1. PICK t \in Turns, o \in Outcomes : FinishTurn(t, o) BY <1>3
  <2>2. /\ phase[t] = "running" /\ held[t] \in Records /\ t[1] \in RunIds
        /\ FinishRecord(t[1], Finished(held[t], o)) BY <2>1, HeldType DEF FinishTurn, IInv
  <2>3. Finished(held[t], o) \in Records BY <2>2, FinishedType
  <2>4. t[1] # r BY <2>2 DEF HasTurn
  <2> QED BY <2>2, <2>3, <2>4, FinishRecordEffect DEF IInv
<1>4. CASE \E q \in RunIds, v \in Verdicts : Resume(q, v)
  BY <1>4 DEF Resume, Verdict, Resumable, Settled, Stored, IInv, TypeOK
<1>5. CASE \E q \in RunIds : Abandon(q)
  <2>1. PICK q \in RunIds : Abandon(q) BY <1>5
  <2>2. /\ disk[q] \in Records /\ q # r
        /\ FinishRecord(q, [disk[q] EXCEPT !.status = "abandoned"]) BY <2>1 DEF Abandon, Settled, Stored, IInv, TypeOK
  <2>3. [disk[q] EXCEPT !.status = "abandoned"] \in Records BY <2>2 DEF Records, Statuses
  <2> QED BY <2>2, <2>3, FinishRecordEffect DEF IInv
<1>6. CASE Reboot BY <1>6 DEF Reboot, Swept
<1>7. CASE \/ \E t \in Turns : CloseTurn(t) \/ Disconnect(t)
           \/ \E q \in RunIds, v \in Verdicts : ResumeRefused(q, v)
           \/ \E q \in RunIds : PublishRun(q) \/ PublicationsOver(q)
           \/ UNCHANGED vars BY <1>7 DEF CloseTurn, Disconnect, ResumeRefused, PublishRun, PublicationsOver,
     storeVars, vars
<1>8. CASE \E q \in RunIds : AnnotateRun(q) BY <1>8 DEF AnnotateRun, IInv, TypeOK, PublishedStand
<1> QED BY <1>1, <1>2, <1>3, <1>4, <1>5, <1>6, <1>7, <1>8 DEF Next, Restart, RestartInResume

(* A succeeded, abandoned or interrupted run stays so until its file is    *)
(* pruned, whatever turn, resume, abandon, annotation or restart comes     *)
(* late, and then comes back with a publication that is under way alone.   *)
THEOREM TerminalRunsStayTerminal == Spec => TerminalIsFinal
<1>1. ASSUME IInv, [Next]_vars, NEW r \in RunIds, Stored(r),
             disk[r].status \in TerminalStatuses
      PROVE  disk'[r] \in {disk[r], NoRecord}
  <2>1. disk[r].status \notin {"running", "suspended", "failed"} BY <1>1 DEF TerminalStatuses
  <2>2. ASSUME NEW v \in Verdicts PROVE ~Resume(r, v) BY <2>1 DEF Resume, Verdict, Resumable, Settled
  <2> QED BY <1>1, <2>1, <2>2, RecordWriters DEF Stored
<1>2. ASSUME IInv, [Next]_vars, NEW r \in RunIds, ~Stored(r), ~Fresh(r), ~HasTurn(r),
             disk'[r] # NoRecord
      PROVE  disk'[r] = publishing[r] /\ publishing[r].status = "succeeded" BY <1>2, ComesBack DEF Stored
<1>3. IInv /\ [Next]_vars =>
        [\A r \in RunIds :
           /\ Stored(r) /\ disk[r].status \in TerminalStatuses
                => disk'[r] \in {disk[r], NoRecord}
           /\ ~Stored(r) /\ ~Fresh(r) /\ ~HasTurn(r) /\ disk'[r] # NoRecord
                => disk'[r] = publishing[r] /\ publishing[r].status = "succeeded"]_vars BY <1>1, <1>2
<1> QED BY <1>3, Invariance, PTL DEF Spec, TerminalIsFinal

(* A run that asked a question reopens only with a verdict in its event    *)
(* stream.                                                                 *)
THEOREM NoQuestionIsDroppedSilently == Spec => NoSilentReopen
<1>1. ASSUME IInv, [Next]_vars, NEW r \in RunIds, Stored(r), disk[r].pending,
             disk'[r] # NoRecord, ~disk'[r].pending
      PROVE  verdicts'[Raised(r)] # {}
  <2>1. disk[r] \in Records /\ disk[r].pending = TRUE BY <1>1 DEF Stored, IInv, TypeOK, Records
  <2>2. ASSUME NEW o \in Outcomes PROVE Finished(disk[r], o).pending = TRUE BY <2>1, OutcomeType DEF Finished, Records
  <2>3. [disk[r] EXCEPT !.status = "abandoned"].pending = TRUE
        /\ [disk[r] EXCEPT !.status = "interrupted"].pending = TRUE BY <2>1 DEF Records
  <2>4. PICK v \in Verdicts : Resume(r, v) BY <1>1, <2>1, <2>2, <2>3, RecordWriters DEF Stored
  <2>5. Raised(r) \in Turns BY <2>4, <1>1, VerdictType DEF Resume
  <2>6. verdicts' = [verdicts EXCEPT ![Raised(r)] = @ \cup {v}] BY <1>1, <2>4 DEF Resume, Verdict
  <2>7. verdicts'[Raised(r)] = verdicts[Raised(r)] \cup {v} BY <1>1, <2>5, <2>6 DEF IInv, TypeOK
  <2> QED BY <2>7
<1>2. IInv /\ [Next]_vars =>
        [\A r \in RunIds :
           Stored(r) /\ disk[r].pending /\ disk'[r] # NoRecord /\ ~disk'[r].pending
             => verdicts'[Raised(r)] # {}]_vars BY <1>1
<1> QED BY <1>2, Invariance, PTL DEF Spec, NoSilentReopen

------------------------
(* Completions. *)

(* A run whose file is gone was never started, or retention deleted it. *)
GoneIsPruned == \A r \in RunIds : Stored(r) \/ Fresh(r) \/ r \in pruned

(* Only retention takes a file away, and what it took stays noted. *)
LEMMA RetentionIsNoted ==
  ASSUME IInv, [Next]_vars, NEW r \in RunIds
  PROVE  /\ r \in pruned => r \in pruned'
         /\ ~Stored(r)' => \/ r \in pruned'
                           \/ ~Stored(r) /\ born'[r] = born[r]
<1>1. ASSUME NEW q \in RunIds, NEW rec \in Records, FinishRecord(q, rec)
      PROVE  /\ r \in pruned => r \in pruned'
             /\ ~Stored(r)' => \/ r \in pruned'
                               \/ ~Stored(r) /\ born'[r] = born[r]
  <2>1. pruned \subseteq pruned' /\ born' = born BY <1>1 DEF FinishRecord
  <2>2. disk'[r] = NoRecord => r \in pruned' \/ disk[r] = NoRecord BY <1>1, FinishRecordEffect DEF IInv
  <2> QED BY <2>1, <2>2 DEF Stored
<1>2. ASSUME NEW q \in RunIds, NEW rec, rec # NoRecord, StartRecord(q, rec)
      PROVE  /\ pruned' = pruned
             /\ ~Stored(r)' => ~Stored(r) /\ born'[r] = born[r] BY <1>2 DEF StartRecord, Stored, IInv, TypeOK
<1>3. CASE \E q \in RunIds, trigger \in Triggers \ {"launch"},
             i \in Instances \cup {NoInstance} : StartRun(q, trigger, i)
  <2>1. PICK q \in RunIds, trigger \in Triggers, i \in Instances \cup {NoInstance} :
               StartRecord(q, NewRecord(trigger, NoKey, i)) BY <1>3 DEF StartRun
  <2>2. NewRecord(trigger, NoKey, i) # NoRecord BY NewRecordType, NoRecordAssumption
  <2> QED BY <1>2, <2>1, <2>2
<1>4. CASE \E q \in RunIds, k \in Keys, i \in Instances \cup {NoInstance} :
             Launch(q, k, i)
  <2>1. PICK q \in RunIds, k \in Keys, i \in Instances \cup {NoInstance} :
               StartRecord(q, NewRecord("launch", k, i)) BY <1>4 DEF Launch
  <2>2. NewRecord("launch", k, i) # NoRecord BY NewRecordType, NoRecordAssumption DEF Triggers
  <2> QED BY <1>2, <2>1, <2>2
<1>5. CASE \E t \in Turns, o \in Outcomes : FinishTurn(t, o)
  <2>1. PICK t \in Turns, o \in Outcomes : FinishTurn(t, o) BY <1>5
  <2>2. /\ held[t] \in Records /\ t[1] \in RunIds
        /\ FinishRecord(t[1], Finished(held[t], o)) BY <2>1, HeldType DEF FinishTurn, IInv
  <2>3. Finished(held[t], o) \in Records BY <2>2, FinishedType
  <2> QED BY <1>1, <2>2, <2>3
<1>6. CASE \E q \in RunIds : Abandon(q)
  <2>1. PICK q \in RunIds : Abandon(q) BY <1>6
  <2>2. disk[q] \in Records /\ FinishRecord(q, [disk[q] EXCEPT !.status = "abandoned"])
    BY <2>1 DEF Abandon, Settled, Stored, IInv, TypeOK
  <2>3. [disk[q] EXCEPT !.status = "abandoned"] \in Records BY <2>2 DEF Records, Statuses
  <2> QED BY <1>1, <2>2, <2>3
<1>7. CASE \E q \in RunIds, v \in Verdicts : Resume(q, v)
  <2>1. PICK q \in RunIds, v \in Verdicts : Resume(q, v) BY <1>7
  <2>2. /\ disk[q] \in Records /\ disk[q].resumes < MaxResumes
        /\ disk' = [disk EXCEPT ![q] = Reopened(disk[q])]
        /\ pruned' = pruned /\ born' = born BY <2>1 DEF Resume, Verdict, Resumable, Settled, Stored, IInv, TypeOK
  <2>3. Reopened(disk[q]) # NoRecord BY <2>2, ReopenedType, NoRecordAssumption
  <2> QED BY <2>2, <2>3 DEF Stored, IInv, TypeOK
<1>8. CASE Reboot
  <2>1. /\ disk'[r] = Swept(disk[r]) /\ pruned' = pruned /\ born' = born BY <1>8 DEF Reboot
  <2>2. disk[r] \in Records \cup {NoRecord} BY DEF IInv, TypeOK
  <2> QED BY <2>1, <2>2, SweptType DEF Stored
<1>9. CASE \/ \E t \in Turns : CloseTurn(t) \/ Disconnect(t)
           \/ \E q \in RunIds, v \in Verdicts : ResumeRefused(q, v)
           \/ \E q \in RunIds : PublishRun(q) \/ PublicationsOver(q)
           \/ UNCHANGED vars BY <1>9 DEF CloseTurn, Disconnect, ResumeRefused, PublishRun, PublicationsOver,
     publicationVars, storeVars, vars, Stored
<1>10. CASE \E q \in RunIds : AnnotateRun(q) BY <1>10 DEF AnnotateRun, publicationVars, Stored, IInv, TypeOK
<1> QED BY <1>3, <1>4, <1>5, <1>6, <1>7, <1>8, <1>9, <1>10 DEF Next, Restart, RestartInResume

(* Only the end of a turn's coroutine announces a completion. *)
LEMMA Announcers ==
  ASSUME [Next]_vars, NEW r \in completions' \ completions
  PROVE  \E t \in Turns : CloseTurn(t) /\ r = t[1] /\ DispatchesCompletion(t)
<1>1. completions' # completions OBVIOUS
<1>2. PICK t \in Turns : CloseTurn(t)
  BY <1>1 DEF Next, StartRun, Launch, FinishTurn, Disconnect, Resume, ResumeRefused,
     Abandon, PublishRun, AnnotateRun, PublicationsOver, publicationVars, Restart,
     RestartInResume, Reboot, vars
<1> QED BY <1>2 DEF CloseTurn

(* What on_complete announced as a success has succeeded and stays so. *)
THEOREM CompletionsAreEarned == Spec => []CompletedRunsSucceeded
<1> DEFINE CInv == GoneIsPruned /\ CompletedRunsSucceeded
<1>1. Init => CInv BY DEF Init, GoneIsPruned, CompletedRunsSucceeded, Fresh
<1>2. ASSUME IInv, CInv, [Next]_vars PROVE GoneIsPruned'
  <2>1. ASSUME NEW r \in RunIds, ~Stored(r)', r \notin pruned' PROVE Fresh(r)'
    BY <1>2, <2>1, RetentionIsNoted DEF GoneIsPruned, Fresh
  <2> QED BY <2>1 DEF GoneIsPruned
<1>3. ASSUME IInv, IInv', CInv, [Next]_vars, NEW r \in completions', r \notin pruned'
      PROVE  Stored(r)' /\ (disk[r].status)' = "succeeded"
  <2>1. r \in RunIds BY <1>3 DEF IInv, TypeOK
  <2>2. r \notin pruned BY <1>3, <2>1, RetentionIsNoted
  <2>3. CASE r \in completions
    <3>1. Stored(r) /\ disk[r].status = "succeeded" BY <1>3, <2>2, <2>3 DEF CompletedRunsSucceeded
    <3>2. \A v \in Verdicts : ~Resume(r, v) BY <3>1 DEF Resume, Verdict, Resumable, Settled
    <3>3. disk'[r] \in {disk[r], NoRecord} BY <1>3, <2>1, <3>1, <3>2, RecordWriters DEF Stored
    <3>4. Stored(r)' BY <1>3, <2>1, <3>1, RetentionIsNoted
    <3> QED BY <3>1, <3>3, <3>4 DEF Stored
  <2>4. CASE r \notin completions
    <3>1. PICK t \in Turns : CloseTurn(t) /\ r = t[1] /\ DispatchesCompletion(t) BY <1>3, <2>4, Announcers
    <3>2. ~Fresh(r) BY <1>3, <2>1, <3>1 DEF IInv, FreshUntouched, CloseTurn
    <3>3. Stored(r) BY <1>3, <2>1, <2>2, <3>2 DEF GoneIsPruned
    <3>4. disk[r].status = "succeeded" BY <3>1, <3>3 DEF DispatchesCompletion
    <3>5. disk' = disk BY <3>1 DEF CloseTurn, storeVars
    <3> QED BY <3>3, <3>4, <3>5 DEF Stored
  <2> QED BY <2>3, <2>4
<1>4. ASSUME IInv, IInv', CInv, [Next]_vars PROVE CInv' BY <1>2, <1>3, <1>4 DEF CompletedRunsSucceeded
<1>5. CInv => CompletedRunsSucceeded OBVIOUS
<1> HIDE DEF CInv
<1> QED BY <1>1, <1>4, <1>5, Invariance, PTL DEF Spec

------------------------
(* The refinement: to a reader of the store, every step is a step of       *)
(* RunRecords or changes nothing.                                          *)

(* A run with a running turn was started, and its file says `running`. *)
LEMMA TurnIsRunning ==
  ASSUME IInv, NEW r \in RunIds, HasTurn(r)
  PROVE  /\ ~Fresh(r)
         /\ Stored(r) => disk[r].status = "running"
         /\ RunStatus(r) \in {"running", "unrecorded"}
<1>1. PICK t \in Turns : t[1] = r /\ phase[t] = "running" BY DEF HasTurn
<1>2. ~Fresh(r) BY <1>1 DEF IInv, FreshUntouched
<1>3. Stored(r) => disk[r].status = "running" BY <1>1 DEF Stored, IInv, NoLostUpdate, LatestTurnRuns
<1> QED BY <1>1, <1>2, <1>3 DEF RunStatus

(* A stored run says one of the statuses of a record. *)
LEMMA StoredStatus ==
  ASSUME IInv, NEW r \in RunIds, Stored(r)
  PROVE  RunStatus(r) = disk[r].status /\ disk[r].status \in Statuses /\ ~Fresh(r)
BY DEF RunStatus, Stored, IInv, TypeOK, Records, FreshUntouched

(* A run's status is one of the abstract states. *)
LEMMA StatusType ==
  ASSUME IInv, NEW r \in RunIds
  PROVE  RunStatus(r) \in Observed!States
<1>1. CASE Stored(r) BY <1>1, StoredStatus DEF Statuses, Observed!States, Observed!Running,
     Observed!Waiting, Observed!Ended
<1>2. CASE ~Stored(r) BY <1>2 DEF RunStatus, Observed!States, Observed!Running
<1> QED BY <1>1, <1>2

(* Nothing a status is computed from has changed. *)
LEMMA StatusKept ==
  ASSUME NEW r \in RunIds, disk'[r] = disk[r], born'[r] = born[r],
         publishing'[r] = publishing[r], HasTurn(r)' <=> HasTurn(r)
  PROVE  RunStatus(r)' = RunStatus(r) BY DEF RunStatus, HasTurn, Stored, Fresh

(* A finished record is written and the store pruned. *)
LEMMA FinishRefines ==
  ASSUME IInv, NEW r \in RunIds, ~Fresh(r),
         NEW rec \in Records, FinishRecord(r, rec), ~HasTurn(r)',
         publishing[r] = NoRecord, publishing' = publishing,
         \A q \in RunIds \ {r} : HasTurn(q)' <=> HasTurn(q)
  PROVE  Observed!Finish(r, rec.status)
<1>1. /\ disk'[r] \in {rec, NoRecord} /\ born' = born
      /\ \A q \in RunIds : q # r => disk'[q] \in {disk[q], NoRecord} BY FinishRecordEffect DEF IInv
<1>2. RunStatus(r)' \in {rec.status, "gone"} BY <1>1, NoRecordAssumption DEF RunStatus, HasTurn, Stored, Fresh
<1>3. ASSUME NEW q \in RunIds \ {r}
      PROVE  RunStatus(q)' \in Observed!AfterPruning(RunStatus(q))
  <2>1. CASE disk'[q] = disk[q] BY <1>1, <2>1, StatusKept DEF Observed!AfterPruning
  <2>2. CASE disk'[q] = NoRecord /\ disk[q] # NoRecord
    <3>1. /\ RunStatus(q) \in Statuses /\ ~Fresh(q)
          /\ HasTurn(q) => RunStatus(q) = "running" BY <2>2, StoredStatus, TurnIsRunning DEF Stored
    <3>2. RunStatus(q)' = IF HasTurn(q) THEN "unrecorded"
                          ELSE IF publishing[q] # NoRecord THEN "publishing" ELSE "gone"
      BY <1>1, <2>2, <3>1 DEF RunStatus, Stored, Fresh, HasTurn
    <3>3. publishing[q] # NoRecord => RunStatus(q) = "succeeded"
      BY <2>2, StoredStatus DEF IInv, PublishedStand, Stored
    <3> QED BY <3>1, <3>2, <3>3 DEF Observed!AfterPruning, Observed!Waiting, Observed!Ended, Statuses
  <2> QED BY <1>1, <2>1, <2>2
<1>4. ASSUME NEW q \in RunIds PROVE RunStatus(q)' \in Observed!States
  <2>1. /\ rec.status \in Observed!States /\ "gone" \in Observed!States
        /\ \A s \in Observed!States : Observed!AfterPruning(s) \subseteq Observed!States
    BY DEF Records, Statuses, Observed!States, Observed!Running, Observed!Waiting,
       Observed!Ended, Observed!AfterPruning
  <2>2. RunStatus(q) \in Observed!States BY StatusType
  <2> QED BY <1>2, <1>3, <2>1, <2>2
<1> QED BY <1>4, <1>2, <1>3 DEF Observed!Finish

(* A run is accepted. *)
LEMMA StartRefines ==
  ASSUME IInv, NEW r \in RunIds, Fresh(r), NEW rec \in Records,
         rec.status = "running", StartRecord(r, rec), BeginTurn(<<r, 0>>, rec),
         publishing' = publishing
  PROVE  Observed!Start(r)
<1>1. /\ disk' = [disk EXCEPT ![r] = rec] /\ disk[r] = NoRecord
      /\ \A q \in RunIds \ {r} : born'[q] = born[q] BY DEF StartRecord, IInv, TypeOK, FreshUntouched
<1>2. RunStatus(r) = "new" BY <1>1 DEF RunStatus, Stored
<1>3. RunStatus(r)' = "running" BY <1>1, NoRecordAssumption DEF RunStatus, Stored, IInv, TypeOK
<1>4. ASSUME NEW q \in RunIds \ {r} PROVE RunStatus(q)' = RunStatus(q)
  <2>1. disk'[q] = disk[q] /\ born'[q] = born[q] BY <1>1 DEF IInv, TypeOK
  <2>2. HasTurn(q)' <=> HasTurn(q) BY DEF HasTurn, BeginTurn, IInv, TypeOK
  <2> QED BY <2>1, <2>2, StatusKept
<1> QED BY <1>2, <1>3, <1>4 DEF Observed!Start

(* The turns, and who has a running one, are as before. *)
LEMMA NothingToSee ==
  ASSUME IInv, disk' = disk, born' = born, publishing' = publishing,
         \A q \in RunIds : HasTurn(q)' <=> HasTurn(q)
  PROVE  UNCHANGED [q \in RunIds |-> RunStatus(q)] BY StatusKept

(* A turn ends and its record is finished. *)
LEMMA FinishTurnRefines ==
  ASSUME IInv, NEW t \in Turns, NEW o \in Outcomes, FinishTurn(t, o)
  PROVE  Observed!End(t[1])
<1>1. /\ t[1] \in RunIds /\ held[t] \in Records /\ phase[t] = "running"
      /\ phase' = [phase EXCEPT ![t] = "closing"]
      /\ FinishRecord(t[1], Finished(held[t], o)) BY HeldType DEF FinishTurn, IInv
<1> DEFINE rec == Finished(held[t], o)
<1>2. HasTurn(t[1]) BY <1>1 DEF HasTurn
<1>3. ~Fresh(t[1]) /\ RunStatus(t[1]) \in Observed!Running BY <1>1, <1>2, TurnIsRunning DEF Observed!Running
<1>4. rec \in Records /\ rec.status \in Observed!Waiting \cup {"succeeded"}
  <2>1. rec.status = o.status BY <1>1 DEF Finished, Records
  <2> QED BY <1>1, <2>1, FinishedType, OutcomeType DEF Observed!Waiting
<1>5. \A u \in Turns : u[1] = t[1] /\ phase[u] = "running" => u = t BY <1>1 DEF IInv, LatestTurnRuns, Turns
<1>6. /\ ~HasTurn(t[1])'
      /\ \A q \in RunIds \ {t[1]} : HasTurn(q)' <=> HasTurn(q) BY <1>1, <1>5 DEF HasTurn, IInv, TypeOK
<1> HIDE DEF rec
<1>7. Observed!Finish(t[1], rec.status)
  <2>1. publishing[t[1]] = NoRecord /\ publishing' = publishing BY <1>1, <1>2 DEF IInv, PublishedStand, FinishTurn
  <2> QED BY <1>1, <1>3, <1>4, <1>6, <2>1, FinishRefines DEF rec
<1> QED BY <1>1, <1>3, <1>4, <1>7 DEF Observed!End

(* A closing turn returns: nobody sees it. *)
LEMMA CloseTurnRefines ==
  ASSUME IInv, NEW t \in Turns, CloseTurn(t)
  PROVE  UNCHANGED [q \in RunIds |-> RunStatus(q)]
<1>1. /\ phase[t] = "closing" /\ phase' = [phase EXCEPT ![t] = "none"]
      /\ disk' = disk /\ born' = born /\ publishing' = publishing BY DEF CloseTurn, EndTurn, storeVars
<1>2. \A q \in RunIds : HasTurn(q)' <=> HasTurn(q) BY <1>1 DEF HasTurn, IInv, TypeOK
<1> QED BY <1>1, <1>2, NothingToSee

(* A stream loses its client: that is seen only when its file is gone. *)
LEMMA DisconnectRefines ==
  ASSUME IInv, NEW t \in Turns, Disconnect(t)
  PROVE  \/ Observed!Forget(t[1])
         \/ UNCHANGED [q \in RunIds |-> RunStatus(q)]
<1>1. /\ t[1] \in RunIds /\ phase[t] = "running"
      /\ phase' = [phase EXCEPT ![t] = "none"] /\ disk' = disk /\ born' = born
      /\ publishing' = publishing BY HeldType DEF Disconnect, EndTurn, storeVars, IInv
<1>2. HasTurn(t[1]) /\ ~Fresh(t[1])
  <2>1. HasTurn(t[1]) BY <1>1 DEF HasTurn
  <2> QED BY <1>1, <2>1, TurnIsRunning
<1>3. ASSUME NEW q \in RunIds \ {t[1]} PROVE RunStatus(q)' = RunStatus(q)
  <2>1. HasTurn(q)' <=> HasTurn(q) BY <1>1 DEF HasTurn, IInv, TypeOK
  <2> QED BY <1>1, <2>1, StatusKept
<1>4. CASE Stored(t[1])
  <2>1. RunStatus(t[1])' = RunStatus(t[1]) BY <1>1, <1>4 DEF RunStatus, Stored
  <2> QED BY <1>3, <2>1
<1>5. CASE ~Stored(t[1])
  <2>1. RunStatus(t[1]) = "unrecorded" BY <1>2, <1>5 DEF RunStatus, HasTurn
  <2>2. \A u \in Turns : u[1] = t[1] /\ phase[u] = "running" => u = t BY <1>1 DEF IInv, LatestTurnRuns, Turns
  <2>3. ~HasTurn(t[1])' BY <1>1, <2>2 DEF HasTurn, IInv, TypeOK
  <2>4. RunStatus(t[1])' = "gone" BY <1>1, <1>2, <1>5, <2>3 DEF RunStatus, Stored, Fresh, IInv, PublishedStand
  <2> QED BY <1>3, <2>1, <2>4 DEF Observed!Forget
<1> QED BY <1>4, <1>5

(* A settled run is reopened. *)
LEMMA ResumeRefines ==
  ASSUME IInv, NEW r \in RunIds, NEW v \in Verdicts, Resume(r, v)
  PROVE  Observed!Reopen(r)
<1>1. /\ Stored(r) /\ disk[r].status \in {"suspended", "failed"}
      /\ disk[r].resumes < MaxResumes
      /\ disk' = [disk EXCEPT ![r] = Reopened(disk[r])] /\ born' = born
      /\ publishing' = publishing
      /\ BeginTurn(<<r, Reopened(disk[r]).resumes>>, Reopened(disk[r])) BY DEF Resume, Verdict, Resumable, Settled
<1>2. RunStatus(r) \in Observed!Waiting BY <1>1, StoredStatus DEF Observed!Waiting
<1>3. /\ Reopened(disk[r]) \in Records /\ Reopened(disk[r]).status = "running"
  BY <1>1, ReopenedType DEF Stored, IInv, TypeOK
<1>4. RunStatus(r)' = "running" BY <1>1, <1>3, NoRecordAssumption DEF RunStatus, Stored, IInv, TypeOK
<1>5. ASSUME NEW q \in RunIds \ {r} PROVE RunStatus(q)' = RunStatus(q)
  <2>1. disk'[q] = disk[q] /\ born'[q] = born[q] BY <1>1 DEF IInv, TypeOK
  <2>2. HasTurn(q)' <=> HasTurn(q) BY <1>1 DEF HasTurn, BeginTurn, IInv, TypeOK
  <2> QED BY <1>1, <2>1, <2>2, StatusKept
<1> QED BY <1>2, <1>4, <1>5 DEF Observed!Reopen

(* A settled run is abandoned. *)
LEMMA AbandonRefines ==
  ASSUME IInv, NEW r \in RunIds, Abandon(r)
  PROVE  Observed!Abandon(r)
<1> DEFINE rec == [disk[r] EXCEPT !.status = "abandoned"]
<1>1. /\ Stored(r) /\ disk[r].status \in {"suspended", "failed"}
      /\ disk[r] \in Records /\ FinishRecord(r, rec) /\ phase' = phase
      /\ publishing' = publishing BY DEF Abandon, Settled, Stored, IInv, TypeOK
<1>2. rec \in Records /\ rec.status = "abandoned" BY <1>1 DEF Records, Statuses
<1>3. /\ ~HasTurn(r)' /\ \A q \in RunIds : HasTurn(q)' <=> HasTurn(q) BY <1>1, SettledIsIdle DEF HasTurn, Stored
<1>4. RunStatus(r) \in Observed!Waiting /\ ~Fresh(r) BY <1>1, StoredStatus DEF Observed!Waiting
<1> HIDE DEF rec
<1>5. Observed!Finish(r, rec.status)
  <2>1. publishing[r] = NoRecord BY <1>1 DEF IInv, PublishedStand, Stored
  <2> QED BY <1>1, <1>2, <1>3, <1>4, <2>1, FinishRefines
<1> QED BY <1>2, <1>4, <1>5 DEF Observed!Abandon

(* The process is killed and started again. *)
LEMMA RebootRefines == ASSUME IInv, Reboot PROVE Observed!Restart
<1>1. ASSUME NEW r \in RunIds
      PROVE  RunStatus(r)' = Observed!AfterRestart(RunStatus(r))
  <2>1. /\ disk'[r] = Swept(disk[r]) /\ born'[r] = born[r] /\ ~HasTurn(r)'
        /\ publishing'[r] = NoRecord BY DEF Reboot, HasTurn
  <2>2. CASE Stored(r)
    <3>1. disk[r] \in Records /\ disk[r] # NoRecord BY <2>2 DEF Stored, IInv, TypeOK
    <3>2. disk'[r] # NoRecord BY <2>1, <3>1, SweptType
    <3>3. disk'[r].status = IF disk[r].status = "running" THEN "interrupted"
                            ELSE disk[r].status BY <2>1, <3>1 DEF Swept, Records
    <3>4. RunStatus(r) = disk[r].status /\ disk[r].status \in Statuses BY <2>2, StoredStatus
    <3>5. RunStatus(r)' = disk'[r].status BY <3>2 DEF RunStatus, Stored
    <3> QED BY <3>3, <3>4, <3>5 DEF Observed!AfterRestart, Statuses
  <2>3. CASE ~Stored(r)
    <3>1. ~Stored(r)' BY <2>1, <2>3 DEF Stored, Swept
    <3>2. RunStatus(r)' = IF Fresh(r) THEN "new" ELSE "gone" BY <2>1, <3>1 DEF RunStatus, Fresh
    <3>3. RunStatus(r) = IF Fresh(r) THEN "new"
                         ELSE IF HasTurn(r) THEN "unrecorded"
                         ELSE IF publishing[r] # NoRecord THEN "publishing" ELSE "gone" BY <2>3 DEF RunStatus
    <3> QED BY <3>2, <3>3 DEF Observed!AfterRestart
  <2> QED BY <2>2, <2>3
<1> QED BY <1>1 DEF Observed!Restart

(* A publication shows when the file of its run is gone: the annotation    *)
(* brings it back, and the end of the publication forgets it for good.     *)
LEMMA PublicationRefines ==
  ASSUME IInv, NEW r \in RunIds,
         PublishRun(r) \/ AnnotateRun(r) \/ PublicationsOver(r)
  PROVE  \/ Observed!Annotate(r) \/ Observed!Forget(r)
         \/ UNCHANGED [q \in RunIds |-> RunStatus(q)]
<1>1. /\ born' = born /\ phase' = phase
      /\ \A q \in RunIds \ {r} : disk'[q] = disk[q] /\ publishing'[q] = publishing[q]
  BY DEF PublishRun, AnnotateRun, PublicationsOver, publicationVars, IInv, TypeOK
<1>2. ASSUME NEW q \in RunIds PROVE HasTurn(q)' <=> HasTurn(q) BY <1>1 DEF HasTurn
<1>3. \A q \in RunIds \ {r} : RunStatus(q)' = RunStatus(q) BY <1>1, <1>2, StatusKept
<1>4. CASE Stored(r)
  <2>1. disk'[r] = disk[r] BY <1>4 DEF PublishRun, AnnotateRun, PublicationsOver, Stored, IInv, TypeOK,
       PublishedStand
  <2>2. RunStatus(r)' = RunStatus(r) BY <1>4, <2>1 DEF RunStatus, Stored
  <2> QED BY <1>3, <2>2
<1>5. CASE ~Stored(r)
  <2>1. AnnotateRun(r) \/ PublicationsOver(r) BY <1>5 DEF PublishRun
  <2>2. /\ publishing[r] # NoRecord /\ ~HasTurn(r) /\ ~Fresh(r)
        /\ publishing[r].status = "succeeded" BY <2>1 DEF AnnotateRun, PublicationsOver, IInv, PublishedStand
  <2>3. RunStatus(r) = "publishing" BY <1>5, <2>2 DEF RunStatus
  <2>4. CASE AnnotateRun(r)
    <3>1. disk'[r] = publishing[r] BY <2>4 DEF AnnotateRun, IInv, TypeOK
    <3>2. RunStatus(r)' = "succeeded" BY <2>2, <3>1 DEF RunStatus, Stored
    <3> QED BY <1>3, <2>3, <3>2 DEF Observed!Annotate
  <2>5. CASE PublicationsOver(r)
    <3>1. publishing'[r] = NoRecord /\ disk'[r] = NoRecord BY <1>5, <2>5 DEF PublicationsOver, Stored, IInv, TypeOK
    <3>2. RunStatus(r)' = "gone" BY <1>1, <1>2, <2>2, <3>1 DEF RunStatus, Stored, Fresh
    <3> QED BY <1>3, <2>3, <3>2 DEF Observed!Forget
  <2> QED BY <2>1, <2>4, <2>5
<1> QED BY <1>4, <1>5

(* Every step of the service is a step of RunRecords or shows nothing. *)
LEMMA StepRefines ==
  ASSUME IInv, [Next]_vars
  PROVE  [Observed!Next]_([q \in RunIds |-> RunStatus(q)])
<1>1. CASE \E r \in RunIds, trigger \in Triggers \ {"launch"},
             i \in Instances \cup {NoInstance} : StartRun(r, trigger, i)
  <2>1. PICK r \in RunIds, trigger \in Triggers, i \in Instances \cup {NoInstance} :
               StartRun(r, trigger, i) BY <1>1
  <2> DEFINE rec == NewRecord(trigger, NoKey, i)
  <2>2. rec \in Records /\ rec.status = "running" BY NewRecordType DEF NewRecord
  <2>3. /\ Fresh(r) /\ StartRecord(r, rec) /\ BeginTurn(<<r, 0>>, rec)
        /\ publishing' = publishing BY <2>1 DEF StartRun
  <2> HIDE DEF rec
  <2> QED BY <2>2, <2>3, StartRefines DEF Observed!Next
<1>2. CASE \E r \in RunIds, k \in Keys, i \in Instances \cup {NoInstance} :
             Launch(r, k, i)
  <2>1. PICK r \in RunIds, k \in Keys, i \in Instances \cup {NoInstance} :
               Launch(r, k, i) BY <1>2
  <2> DEFINE rec == NewRecord("launch", k, i)
  <2>2. rec \in Records /\ rec.status = "running" BY NewRecordType DEF NewRecord, Triggers
  <2>3. /\ Fresh(r) /\ StartRecord(r, rec) /\ BeginTurn(<<r, 0>>, rec)
        /\ publishing' = publishing BY <2>1 DEF Launch
  <2> HIDE DEF rec
  <2> QED BY <2>2, <2>3, StartRefines DEF Observed!Next
<1>3. CASE \E t \in Turns, o \in Outcomes : FinishTurn(t, o)
  <2>1. PICK t \in Turns, o \in Outcomes : FinishTurn(t, o) BY <1>3
  <2>2. t[1] \in RunIds BY DEF Turns
  <2> QED BY <2>1, <2>2, FinishTurnRefines DEF Observed!Next
<1>4. CASE \E t \in Turns : CloseTurn(t) BY <1>4, CloseTurnRefines
<1>5. CASE \E t \in Turns : Disconnect(t)
  <2>1. PICK t \in Turns : Disconnect(t) BY <1>5
  <2>2. t[1] \in RunIds BY DEF Turns
  <2> QED BY <2>1, <2>2, DisconnectRefines DEF Observed!Next
<1>6. CASE \E r \in RunIds, v \in Verdicts : Resume(r, v) BY <1>6, ResumeRefines DEF Observed!Next
<1>7. CASE \E r \in RunIds, v \in Verdicts : ResumeRefused(r, v)
  <2>1. disk' = disk /\ born' = born /\ phase' = phase /\ publishing' = publishing
    BY <1>7 DEF ResumeRefused, storeVars
  <2>2. \A q \in RunIds : HasTurn(q)' <=> HasTurn(q) BY <2>1 DEF HasTurn
  <2> QED BY <2>1, <2>2, NothingToSee
<1>8. CASE \E r \in RunIds : Abandon(r) BY <1>8, AbandonRefines DEF Observed!Next
<1>9. CASE Restart \/ \E r \in RunIds, v \in Verdicts : RestartInResume(r, v)
  BY <1>9, RebootRefines DEF Restart, RestartInResume, Observed!Next
<1>10. CASE UNCHANGED vars
  <2>1. disk' = disk /\ born' = born /\ phase' = phase /\ publishing' = publishing BY <1>10 DEF vars
  <2>2. \A q \in RunIds : HasTurn(q)' <=> HasTurn(q) BY <2>1 DEF HasTurn
  <2> QED BY <2>1, <2>2, NothingToSee
<1>11. CASE \E r \in RunIds : PublishRun(r) \/ AnnotateRun(r) \/ PublicationsOver(r)
  BY <1>11, PublicationRefines DEF Observed!Next
<1> QED BY <1>1, <1>2, <1>3, <1>4, <1>5, <1>6, <1>7, <1>8, <1>9, <1>10, <1>11 DEF Next

(* The service implements the run records' life: for every set of runs,    *)
(* instances and keys and whatever retention, a reader of the store sees   *)
(* each run move only as RunRecords allows.                                *)
THEOREM ServiceKeepsRecords == Spec => RunsFollowTheirRecords
<1>1. Init => Observed!Init BY DEF Init, Observed!Init, RunStatus, Stored, Fresh
<1>2. IInv /\ [Next]_vars => [Observed!Next]_([r \in RunIds |-> RunStatus(r)]) BY StepRefines
<1> QED BY <1>1, <1>2, Invariance, PTL DEF Spec, RunsFollowTheirRecords, Observed!Spec

------------------------
(* The properties the runs check, from the theorems above. *)

(* Admission is exact, and an instance, a run and a record have one turn. *)
THEOREM AdmissionIsSafe == Spec => []AdmissionIsSound
BY AdmissionIsExact, OneWriterPerRun, PTL DEF AdmissionIsSound

(* What a record says of its run is so. *)
THEOREM RecordsTellTheTruth == Spec => []RecordsAreTrue
BY CompletionsAreEarned, OnlyStreamsAreOrphaned, PTL DEF RecordsAreTrue

(* What a record has settled stays settled. *)
THEOREM SettledRecordsStand == Spec => RecordsStand
BY TerminalRunsStayTerminal, NoQuestionIsDroppedSilently, PTL DEF RecordsStand


(***************************************************************************)
(* GrokSessions.                                                           *)
(*                                                                         *)
(* The inductive invariant GrokInv adds to what the runs check where the   *)
(* two actors are that wait for a process to be collected: while a turn    *)
(* does, no process is known, and the session it may save is one whose     *)
(* loss of a prompt is on record, or a deleted one; a deletion that does   *)
(* holds the spawn lock.                                                   *)
(***************************************************************************)
(* A running process is one the harness knows, and has a session.          *)
ProcessOK ==
  /\ proc.up => proc.known
  /\ proc.known => proc.session # NoSession

(* A turn that waits for its dead process to be collected. *)
TurnClosing ==
  pc["turn"] = "closing" =>
    /\ ~proc.known
    /\ carried.session # NoSession
    /\ sess[carried.session].cut \/ carried.session \in deleted
    /\ Known.session \in {carried.session, NoSession}

(* A deletion that waits for the process it stopped. *)
ForgetClosing ==
  pc["forget"] = "closing" => ~proc.known /\ spawnQ # <<>> /\ Head(spawnQ) = "forget"

Continued == UpdateReachesTheSession /\ NoteReachesTheSession

GrokInv ==
  /\ GrokTypeOK /\ SessionIsMapped /\ Continued /\ RotationIsUnderway
  /\ ProcessOK /\ TurnClosing /\ ForgetClosing

(* The parts of the type invariant. *)
FilesOK ==
  /\ rules \in Versions /\ entry \in Entries \cup {NoEntry}
  /\ sess \in [Sessions -> Transcripts] /\ deleted \subseteq Sessions
QueuesOK == lock \in Seq(Users) /\ spawnQ \in Seq(Actors)
PlacesOK == pc \in [Actors -> Steps] /\ on \in [Waiters -> Tasks \cup {NoTask}]
TasksOK ==
  /\ what \in [Tasks -> {"compact", "rotate"}] /\ starting \in Seq(Tasks)
  /\ current \in Tasks \cup {NoTask}
CarriedOK ==
  carried \in [update : BOOLEAN, handoff : BOOLEAN, session : Sessions \cup {NoSession}]
CountOK == count \in [DOMAIN Limit -> Nat] /\ \A k \in DOMAIN Limit : count[k] <= Limit[k]

LEMMA Parts ==
  GrokTypeOK <=> /\ FilesOK /\ proc \in Processes /\ QueuesOK /\ PlacesOK /\ TasksOK /\ CarriedOK
             /\ CountOK /\ interrupted \in BOOLEAN
BY DEF GrokTypeOK, FilesOK, QueuesOK, PlacesOK, TasksOK, CarriedOK, CountOK

------------------------
(* Who is who: every user, starter and waiter is an actor; a task is no    *)
(* other one.                                                              *)
LEMMA ActorsAre ==
  /\ Users \subseteq Actors /\ Starters \subseteq Actors /\ Waiters \subseteq Actors
  /\ Tasks \subseteq Users /\ Users = {"turn"} \cup Tasks /\ Starters = Users \cup {"warm"}
  /\ Rotators \subseteq Waiters /\ "turn" \in Users /\ "turn" \in Waiters
  /\ "warm" \in Actors /\ "forget" \in Actors /\ "other" \in Actors
  /\ "turn" \notin Tasks /\ "warm" \notin Tasks /\ "forget" \notin Tasks /\ "other" \notin Tasks
  /\ Rotators \cap Tasks = {} /\ "turn" \notin Rotators /\ "forget" \notin Rotators
  /\ NoTask \notin Tasks BY ActorsAssumption DEF Users, Starters, Waiters, Actors

LEMMA ConstantsTyped ==
  /\ MaxRestarts \in Nat /\ MaxSessions \in Nat /\ 0 \in Versions
  /\ NoSession \notin Sessions /\ Blank \in Entries /\ Gone \in Processes
  /\ Unused \in Transcripts /\ Blank # NoEntry
<1>1. MaxRestarts \in Nat /\ MaxSessions \in Nat /\ 0 \in Versions /\ NoSession \notin Sessions
  BY BoundsAssumption DEF Versions, NoSession, Sessions
<1>2. Blank \in Entries BY <1>1 DEF Blank, Entries
<1>3. Gone \in Processes /\ Unused \in Transcripts BY <1>1 DEF Gone, Processes, Unused, Transcripts
<1> QED BY <1>1, <1>2, <1>3, NoEntryAssumption

LEMMA KnownTyped ==
  ASSUME FilesOK
  PROVE  Known \in Entries /\ (entry # NoEntry => Known = entry) BY ConstantsTyped DEF FilesOK, Known

(* What the CHOOSE of a new session, and of a free task, return. *)
LEMMA FreshIs ==
  ASSUME NEW n \in FreshSession
  PROVE  /\ n \in Sessions /\ n # NoSession
         /\ n \notin deleted /\ n \notin {Known.session, carried.session, proc.session}
<1>1. \E s \in Sessions : s \notin InUse BY DEF FreshSession
<1>2. n \in Sessions /\ n \notin InUse BY <1>1 DEF FreshSession
<1> QED BY <1>2, ConstantsTyped DEF InUse

LEMMA NextTaskIs ==
  ASSUME NEW m \in NextTask
  PROVE  m \in Tasks /\ pc[m] = "idle"
<1>1. FreeTasks # {} /\ m = CHOOSE x \in FreeTasks : TRUE BY DEF NextTask
<1>2. m \in FreeTasks BY <1>1
<1> QED BY <1>2 DEF FreeTasks

LEMMA Counted ==
  ASSUME CountOK, NEW k \in DOMAIN Limit, Count(k)
  PROVE  CountOK' /\ count[k] < Limit[k]
<1>1. count[k] < Limit[k] /\ count' = [count EXCEPT ![k] = @ + 1] BY DEF Count
<1>2. \A l \in DOMAIN Limit : Limit[l] \in Nat BY BoundsAssumption DEF Limit
<1>3. count' \in [DOMAIN Limit -> Nat] BY <1>1 DEF CountOK
<1>4. \A l \in DOMAIN Limit : count'[l] <= Limit[l] BY <1>1, <1>2 DEF CountOK
<1> QED BY <1>1, <1>3, <1>4 DEF CountOK

LEMMA Kinds == {"turns", "rotates", "forgets", "faults", "restarts"} = DOMAIN Limit
BY DEF Limit

------------------------
(* Queues: whoever joins is behind the first one, and who leaves from the  *)
(* middle leaves the first one first.                                      *)
LEMMA Joined ==
  ASSUME NEW S, NEW q \in Seq(S), NEW a \in S
  PROVE  /\ Append(q, a) \in Seq(S)
         /\ q # <<>> => Append(q, a) # <<>> /\ Head(Append(q, a)) = Head(q) OBVIOUS

LEMMA FirstLeft ==
  ASSUME NEW S, NEW q \in Seq(S), q # <<>>
  PROVE  Tail(q) \in Seq(S) /\ Head(q) \in S OBVIOUS

LEMMA AnyLeft ==
  ASSUME NEW S, NEW q \in Seq(S), NEW a
  PROVE  /\ Without(q, a) \in Seq(S)
         /\ q # <<>> /\ Head(q) # a => Without(q, a) # <<>> /\ Head(Without(q, a)) = Head(q)
<1>1. CASE ~In(a, q)
  <2>1. Without(q, a) = q BY <1>1 DEF Without
  <2> QED BY <2>1
<1>2. CASE In(a, q)
  <2>. DEFINE k == CHOOSE i \in DOMAIN q : q[i] = a
              w == [i \in 1 .. Len(q) - 1 |-> q[IF i < k THEN i ELSE i + 1]]
  <2>1. k \in DOMAIN q /\ q[k] = a BY <1>2 DEF In
  <2>2. Without(q, a) = w BY <1>2 DEF Without
  <2>. HIDE DEF k
  <2>3. Len(q) \in Nat /\ Len(q) >= 1 /\ DOMAIN q = 1 .. Len(q) /\ k \in 1 .. Len(q) BY <2>1
  <2>4. /\ DOMAIN w = 1 .. Len(q) - 1
        /\ \A i \in 1 .. Len(q) - 1 : i < k => w[i] = q[i]
        /\ \A i \in 1 .. Len(q) - 1 : ~(i < k) => w[i] = q[i + 1] BY <2>3
  <2>5. w \in Seq(S) /\ Len(w) = Len(q) - 1
    <3>1. \A i \in 1 .. Len(q) - 1 : w[i] \in S BY <2>3, <2>4
    <3> QED BY <2>3, <3>1
  <2>. HIDE DEF w
  <2>6. q # <<>> /\ Head(q) # a => w # <<>> /\ Head(w) = Head(q)
    <3>1. SUFFICES ASSUME q # <<>>, Head(q) # a PROVE w # <<>> /\ Head(w) = Head(q) OBVIOUS
    <3>2. k # 1 /\ Head(q) = q[1] BY <2>1, <3>1
    <3>3. 1 \in DOMAIN w /\ w[1] = q[1] BY <2>3, <2>4, <3>2
    <3> QED BY <2>5, <3>2, <3>3
  <2> QED BY <2>2, <2>5, <2>6
<1> QED BY <1>1, <1>2

------------------------
(* The helpers of the actions. *)
LEMMA Goes ==
  ASSUME pc \in [Actors -> Steps], NEW a \in Actors, NEW step \in Steps, Go(a, step)
  PROVE  /\ pc' \in [Actors -> Steps] /\ pc'[a] = step
         /\ \A b \in Actors : b # a => pc'[b] = pc[b] BY DEF Go

(* Where a step leaves the rotations that were under way. *)
TasksGoOn ==
  \A m \in Tasks :
    what[m] = "rotate" /\ pc[m] # "idle" => what'[m] = "rotate" /\ pc'[m] # "idle"

(* And the two that wait for a process to be collected. *)
NoOneCloses ==
  \A a \in {"turn", "forget"} : pc'[a] = "closing" => pc[a] = "closing"

LEMMA ReserveTyped ==
  ASSUME GrokTypeOK, NEW a \in Users, NEW e \in Entries, Reserve(a, e)
  PROVE  /\ pc' \in [Actors -> Steps] /\ lock' \in Seq(Users) /\ CarriedOK'
         /\ pc'[a] = "prompting" /\ \A b \in Actors : b # a => pc'[b] = pc[b]
         /\ a # "turn" => carried' = carried
<1>1. pc \in [Actors -> Steps] /\ a \in Actors /\ lock \in Seq(Users) /\ CarriedOK
  BY ActorsAre, Parts DEF PlacesOK, QueuesOK
<1>2. /\ pc' \in [Actors -> Steps] /\ pc'[a] = "prompting"
      /\ \A b \in Actors : b # a => pc'[b] = pc[b] BY <1>1, Goes DEF Reserve, Steps
<1>3. lock' \in Seq(Users) BY <1>1, Joined DEF Reserve
<1>4. CarriedOK' /\ (a # "turn" => carried' = carried) BY <1>1 DEF Reserve, CarriedOK, Nothing, Entries
<1> QED BY <1>2, <1>3, <1>4

LEMMA TakeTyped ==
  ASSUME GrokTypeOK, NEW a \in Users, TakeAgent(a)
  PROVE  /\ pc' \in [Actors -> Steps] /\ QueuesOK' /\ CarriedOK'
         /\ pc'[a] \in {"prompting", "spawning"} /\ \A b \in Actors : b # a => pc'[b] = pc[b]
         /\ a # "turn" => carried' = carried
         /\ spawnQ # <<>> => spawnQ' # <<>> /\ Head(spawnQ') = Head(spawnQ)
<1>1. pc \in [Actors -> Steps] /\ a \in Actors /\ QueuesOK /\ CarriedOK /\ Known \in Entries
  BY ActorsAre, Parts, KnownTyped DEF PlacesOK
<1>2. CASE Warm
  <2>1. Reserve(a, Known) /\ spawnQ' = spawnQ BY <1>2 DEF TakeAgent
  <2> QED BY <1>1, <2>1, ReserveTyped DEF QueuesOK
<1>3. CASE ~Warm
  <2>1. Go(a, "spawning") /\ spawnQ' = Append(spawnQ, a) /\ UNCHANGED <<lock, carried>> BY <1>3 DEF TakeAgent
  <2>2. /\ pc' \in [Actors -> Steps] /\ pc'[a] = "spawning"
        /\ \A b \in Actors : b # a => pc'[b] = pc[b] BY <1>1, <2>1, Goes DEF Steps
  <2>3. spawnQ' \in Seq(Actors) /\ (spawnQ # <<>> => spawnQ' # <<>> /\ Head(spawnQ') = Head(spawnQ))
    BY <1>1, <2>1, Joined DEF QueuesOK
  <2> QED BY <1>1, <2>1, <2>2, <2>3 DEF QueuesOK, CarriedOK
<1> QED BY <1>2, <1>3

LEMMA UnreserveTyped ==
  ASSUME GrokTypeOK, NEW a, NEW p \in Processes, Unreserve(a, p)
  PROVE  /\ lock' \in Seq(Users) /\ proc' \in Processes
         /\ proc' = p \/ (proc' = Gone /\ ~p.known)
<1>1. lock \in Seq(Users) BY Parts DEF QueuesOK
<1> QED BY <1>1, AnyLeft, ConstantsTyped DEF Unreserve

LEMMA ScheduleTyped ==
  ASSUME GrokTypeOK, NEW m \in Tasks, NEW d \in {"compact", "rotate"}, Schedule(m, d)
  PROVE  TasksOK' /\ what'[m] = d /\ \A o \in Tasks : o # m => what'[o] = what[o]
<1>1. TasksOK BY Parts
<1>2. starting' \in Seq(Tasks) BY <1>1, Joined DEF Schedule, TasksOK
<1>3. what' \in [Tasks -> {"compact", "rotate"}] /\ current' = m BY <1>1 DEF Schedule, TasksOK
<1> QED BY <1>1, <1>2, <1>3 DEF Schedule, TasksOK

(* What the end of a turn saves, and what it may start. *)
LEMMA AfterTurnIs ==
  ASSUME GrokTypeOK, NEW s \in Sessions \cup {NoSession}, AfterTurn(s), rules' = rules
  PROVE  /\ entry' \in Entries /\ pc' \in [Actors -> Steps] /\ TasksOK' /\ CarriedOK'
         /\ pc'["turn"] = "idle" /\ pc'["forget"] = pc["forget"] /\ TasksGoOn
         /\ entry'.session = IF carried.update THEN s ELSE Known.session
         /\ entry'.sha = IF carried.update THEN rules ELSE Known.sha
         /\ entry'.update = IF carried.update THEN FALSE ELSE Known.update
         /\ entry'.handoff = (Known.handoff /\ ~carried.handoff)
         /\ \/ entry'.rotation = Known.rotation
            \/ \E m \in Tasks : what'[m] = "rotate" /\ pc'[m] # "idle"
<1>. DEFINE kept == [Saved(s) EXCEPT !.handoff = @ /\ ~carried.handoff]
<1>1. /\ Known \in Entries /\ pc \in [Actors -> Steps] /\ CarriedOK /\ TasksOK /\ rules \in Versions
      /\ "turn" \in Actors /\ "forget" \in Actors /\ Tasks \subseteq Actors
  BY Parts, KnownTyped, ActorsAre DEF PlacesOK, FilesOK
<1>2. /\ kept \in Entries
      /\ kept.session = IF carried.update THEN s ELSE Known.session
      /\ kept.sha = IF carried.update THEN rules ELSE Known.sha
      /\ kept.update = IF carried.update THEN FALSE ELSE Known.update
      /\ kept.handoff = (Known.handoff /\ ~carried.handoff)
      /\ kept.rotation = Known.rotation BY <1>1 DEF Saved, Entries, CarriedOK
<1>. HIDE DEF kept
<1>3. carried' = Nothing
      /\ \/ entry' = kept /\ Go("turn", "idle") /\ UNCHANGED taskVars
         \/ \E m \in NextTask, d \in {"compact", "rotate"} :
            /\ entry' = [kept EXCEPT !.rotation = @ \/ d = "rotate"]
            /\ pc' = [pc EXCEPT !["turn"] = "idle", ![m] = "starting"]
            /\ Schedule(m, d) BY DEF AfterTurn, kept
<1>4. CarriedOK' BY <1>3 DEF CarriedOK, Nothing
<1>5. CASE entry' = kept /\ Go("turn", "idle") /\ UNCHANGED taskVars
  <2>1. /\ pc' \in [Actors -> Steps] /\ pc'["turn"] = "idle"
        /\ \A b \in Actors : b # "turn" => pc'[b] = pc[b] BY <1>1, <1>5, Goes DEF Steps
  <2>2. TasksOK' BY <1>1, <1>5 DEF TasksOK, taskVars
  <2>3. TasksGoOn BY <1>1, <1>5, <2>1, ActorsAre DEF TasksGoOn, taskVars
  <2> QED BY <1>1, <1>2, <1>4, <1>5, <2>1, <2>2, <2>3
<1>6. CASE \E m \in NextTask, d \in {"compact", "rotate"} :
             /\ entry' = [kept EXCEPT !.rotation = @ \/ d = "rotate"]
             /\ pc' = [pc EXCEPT !["turn"] = "idle", ![m] = "starting"]
             /\ Schedule(m, d)
  <2>1. PICK m \in NextTask, d \in {"compact", "rotate"} :
             /\ entry' = [kept EXCEPT !.rotation = @ \/ d = "rotate"]
             /\ pc' = [pc EXCEPT !["turn"] = "idle", ![m] = "starting"]
             /\ Schedule(m, d) BY <1>6
  <2>2. m \in Tasks /\ pc[m] = "idle" BY NextTaskIs
  <2>3. TasksOK' /\ what'[m] = d /\ \A o \in Tasks : o # m => what'[o] = what[o] BY <2>1, <2>2, ScheduleTyped
  <2>4. /\ pc' \in [Actors -> Steps] /\ pc'["turn"] = "idle" /\ pc'[m] = "starting"
        /\ \A b \in Actors : b \notin {"turn", m} => pc'[b] = pc[b] BY <1>1, <2>1, <2>2, ActorsAre DEF Steps
  <2>5. TasksGoOn BY <1>1, <2>2, <2>3, <2>4, ActorsAre DEF TasksGoOn
  <2>6. /\ entry' \in Entries /\ entry'.session = kept.session /\ entry'.sha = kept.sha
        /\ entry'.update = kept.update /\ entry'.handoff = kept.handoff
        /\ entry'.rotation = (kept.rotation \/ d = "rotate") BY <1>2, <2>1 DEF Entries
  <2>7. pc'["forget"] = pc["forget"] BY <1>1, <2>2, <2>4, ActorsAre
  <2>8. entry'.rotation = kept.rotation \/ (what'[m] = "rotate" /\ pc'[m] # "idle")
    BY <1>2, <2>3, <2>4, <2>6 DEF Entries
  <2> QED BY <1>2, <1>4, <2>2, <2>3, <2>4, <2>5, <2>6, <2>7, <2>8
<1> QED BY <1>3, <1>5, <1>6

(* The end of a task. *)
LEMMA MaintEndsIs ==
  ASSUME GrokTypeOK, NEW m \in Tasks, NEW p \in Processes, NEW e \in Entries \cup {NoEntry},
         MaintEnds(m, p, e)
  PROVE  /\ rules' \in Versions /\ entry' \in Entries \cup {NoEntry} /\ deleted' \subseteq Sessions
         /\ proc' \in Processes /\ QueuesOK' /\ PlacesOK' /\ TasksOK' /\ CarriedOK'
         /\ interrupted' \in BOOLEAN
         /\ entry' = e /\ (proc' = p \/ (proc' = Gone /\ ~p.known))
         /\ pc'[m] = "idle" /\ \A b \in Actors : b # m => pc'[b] = pc[b]
         /\ \A o \in Tasks : o # m => what'[o] = what[o]
<1>1. FilesOK /\ QueuesOK /\ PlacesOK /\ TasksOK /\ CarriedOK /\ interrupted \in BOOLEAN
      /\ m \in Actors BY Parts, ActorsAre
<1>2. lock' \in Seq(Users) /\ proc' \in Processes /\ (proc' = p \/ (proc' = Gone /\ ~p.known))
  BY UnreserveTyped DEF MaintEnds
<1>3. /\ pc' \in [Actors -> Steps] /\ pc'[m] = "idle"
      /\ \A b \in Actors : b # m => pc'[b] = pc[b] BY <1>1, Goes DEF MaintEnds, Steps, PlacesOK
<1>4. TasksOK' /\ \A o \in Tasks : o # m => what'[o] = what[o] BY <1>1 DEF MaintEnds, TasksOK
<1>5. rules' = rules /\ deleted' = deleted /\ spawnQ' = spawnQ /\ on' = on /\ carried' = carried
      /\ interrupted' = interrupted /\ entry' = e BY DEF MaintEnds
<1> QED BY <1>1, <1>2, <1>3, <1>4, <1>5 DEF FilesOK, QueuesOK, PlacesOK, CarriedOK

LEMMA GivenUpIs ==
  ASSUME FilesOK
  PROVE  /\ GivenUp \in Entries /\ GivenUp # NoEntry /\ ~GivenUp.rotation
         /\ GivenUp.session = Known.session /\ GivenUp.sha = Known.sha
         /\ GivenUp.update = Known.update /\ GivenUp.handoff = Known.handoff
<1>1. Known \in Entries BY KnownTyped
<1>2. GivenUp \in Entries /\ ~GivenUp.rotation
         /\ GivenUp.session = Known.session /\ GivenUp.sha = Known.sha
         /\ GivenUp.update = Known.update /\ GivenUp.handoff = Known.handoff BY <1>1 DEF GivenUp, Entries
<1> QED BY <1>2, NoEntryAssumption

------------------------
(* Steps that leave the conversation as it is. *)
SameConversation ==
  /\ sess' = sess /\ deleted' = deleted
  /\ entry # NoEntry => entry' # NoEntry
  /\ Known'.session = Known.session /\ Known'.sha = Known.sha
  /\ Known'.update = Known.update /\ Known'.handoff = Known.handoff

(* A process is not started, nor moved to another session. *)
ProcFades ==
  /\ proc'.up => proc'.known
  /\ proc'.known => proc.known /\ proc'.session = proc.session /\ (proc'.up => proc.up)

LEMMA Quiet ==
  ASSUME GrokInv, FilesOK', SameConversation, ProcFades, NoOneCloses,
         pc'["turn"] = "closing" => carried' = carried,
         pc'["forget"] = "closing" => spawnQ' # <<>> /\ Head(spawnQ') = Head(spawnQ)
  PROVE  SessionIsMapped' /\ Continued' /\ ProcessOK' /\ TurnClosing' /\ ForgetClosing'
<1>1. FilesOK BY Parts DEF GrokInv
<1>2. /\ entry # NoEntry => Known = entry
      /\ entry' # NoEntry => Known' = entry'
      /\ HasSession => entry # NoEntry
      /\ HasSession' => entry' # NoEntry BY DEF Known, HasSession, Blank
<1>3. SessionIsMapped' BY <1>2 DEF GrokInv, SessionIsMapped, Warm, ProcFades, SameConversation
<1>4. HasSession' => HasSession BY DEF HasSession, SameConversation
<1>5. UpdateReachesTheSession' BY <1>2, <1>4 DEF GrokInv, Continued, UpdateReachesTheSession, Mapped, SameConversation
<1>6. NoteReachesTheSession' BY <1>2, <1>4 DEF GrokInv, Continued, NoteReachesTheSession, Mapped, SameConversation
<1>7. ProcessOK' BY DEF GrokInv, ProcessOK, ProcFades
<1>8. TurnClosing' BY DEF GrokInv, TurnClosing, ProcFades, SameConversation, NoOneCloses
<1>9. ForgetClosing' BY DEF GrokInv, ForgetClosing, ProcFades, NoOneCloses
<1> QED BY <1>3, <1>5, <1>6, <1>7, <1>8, <1>9 DEF Continued

LEMMA RotationStays ==
  ASSUME GrokInv, TasksGoOn, interrupted' = interrupted, Known'.rotation => Known.rotation
  PROVE  RotationIsUnderway' BY DEF GrokInv, RotationIsUnderway, TasksGoOn

LEMMA FilesStay ==
  ASSUME GrokInv, UNCHANGED files
  PROVE  FilesOK' /\ SameConversation /\ Known' = Known BY Parts DEF GrokInv, files, FilesOK, SameConversation, Known

(* The parts of the type invariant, put together again. *)
LEMMA Whole ==
  ASSUME FilesOK', (proc \in Processes)', QueuesOK', PlacesOK', TasksOK', CarriedOK', CountOK',
         (interrupted \in BOOLEAN)'
  PROVE  GrokTypeOK' BY DEF GrokTypeOK, FilesOK, QueuesOK, PlacesOK, TasksOK, CarriedOK, CountOK

(* A quiet step of actor a, which goes to another step. *)
QuietStep(a) ==
  /\ UNCHANGED files /\ ProcFades /\ interrupted' = interrupted
  /\ pc' \in [Actors -> Steps] /\ \A b \in Actors : b # a => pc'[b] = pc[b]
  /\ pc'[a] # "closing"
  /\ a \in Tasks => pc'[a] # "idle" \/ what[a] = "compact"
  /\ \A m \in Tasks : what'[m] = what[m]
  /\ a # "turn" => carried' = carried
  /\ (pc["forget"] = "closing" /\ a # "forget") =>
       spawnQ' # <<>> /\ Head(spawnQ') = Head(spawnQ)

LEMMA QuietKept ==
  ASSUME GrokInv, NEW a \in Actors, QuietStep(a),
         (proc \in Processes)', QueuesOK', PlacesOK', TasksOK', CarriedOK', CountOK'
  PROVE  GrokInv'
<1>1. FilesOK' /\ SameConversation /\ Known' = Known BY FilesStay DEF QuietStep
<1>2. (interrupted \in BOOLEAN)' BY Parts DEF GrokInv, QuietStep
<1>3. GrokTypeOK' BY <1>1, <1>2, Whole
<1>4. "turn" \in Actors /\ "forget" \in Actors BY ActorsAre
<1>5. NoOneCloses BY <1>4 DEF NoOneCloses, QuietStep
<1>6. pc'["turn"] = "closing" => carried' = carried BY <1>4 DEF QuietStep
<1>7. pc'["forget"] = "closing" => spawnQ' # <<>> /\ Head(spawnQ') = Head(spawnQ) BY <1>4 DEF QuietStep
<1>8. SessionIsMapped' /\ Continued' /\ ProcessOK' /\ TurnClosing' /\ ForgetClosing'
  BY <1>1, <1>5, <1>6, <1>7, Quiet DEF QuietStep
<1>9. TasksGoOn
  <2>1. ASSUME NEW m \in Tasks, what[m] = "rotate", pc[m] # "idle"
        PROVE  what'[m] = "rotate" /\ pc'[m] # "idle"
    <3>1. m \in Actors BY ActorsAre
    <3>2. CASE m = a BY <2>1, <3>2 DEF QuietStep
    <3>3. CASE m # a BY <2>1, <3>1, <3>3 DEF QuietStep
    <3> QED BY <3>2, <3>3
  <2> QED BY <2>1 DEF TasksGoOn
<1>10. RotationIsUnderway' BY <1>1, <1>9, RotationStays DEF QuietStep
<1> QED BY <1>3, <1>8, <1>10 DEF GrokInv

(* What such a step starts from. *)
LEMMA Before ==
  ASSUME GrokInv
  PROVE  /\ GrokTypeOK /\ FilesOK /\ proc \in Processes /\ QueuesOK /\ PlacesOK /\ TasksOK
         /\ CarriedOK /\ CountOK /\ interrupted \in BOOLEAN /\ Known \in Entries
         /\ pc \in [Actors -> Steps] /\ ProcessOK BY Parts, KnownTyped DEF GrokInv, PlacesOK

------------------------
(* Under the spawn lock. *)
LEMMA SpawnFoundKeeps ==
  ASSUME GrokInv, NEW a \in Starters, SpawnFound(a)
  PROVE  GrokInv'
<1>1. a \in Actors /\ (a # "warm" => a \in Users) /\ a # "forget" BY ActorsAre, ActorsAssumption DEF Users
<1>2. pc[a] = "spawning" /\ spawnQ # <<>> /\ Head(spawnQ) = a /\ spawnQ' = Tail(spawnQ)
      /\ UNCHANGED <<files, proc, on, taskVars, count, interrupted>> BY DEF SpawnFound, AtSpawn
<1>3. spawnQ' \in Seq(Actors) BY <1>2, FirstLeft, Before DEF QueuesOK
<1>4. /\ pc' \in [Actors -> Steps] /\ lock' \in Seq(Users) /\ CarriedOK'
      /\ pc'[a] \in {"prompting", "idle"} /\ \A b \in Actors : b # a => pc'[b] = pc[b]
      /\ a # "turn" => carried' = carried
      /\ pc'[a] = "idle" => a = "warm"
  <2>1. CASE a = "warm"
    <3>1. Go(a, "idle") /\ UNCHANGED <<lock, carried>> BY <2>1 DEF SpawnFound
    <3> QED BY <1>1, <2>1, <3>1, Goes, Before DEF Steps, QueuesOK, CarriedOK
  <2>2. CASE a # "warm"
    <3>1. Reserve(a, Known) BY <2>2 DEF SpawnFound
    <3> QED BY <1>1, <2>2, <3>1, ReserveTyped, Before
  <2> QED BY <2>1, <2>2
<1>5. pc["forget"] = "closing" => FALSE BY <1>1, <1>2 DEF GrokInv, ForgetClosing
<1>6. QuietStep(a) BY <1>1, <1>2, <1>4, <1>5, ActorsAre, Before DEF QuietStep, ProcFades, ProcessOK, taskVars
<1>7. (proc \in Processes)' /\ QueuesOK' /\ PlacesOK' /\ TasksOK' /\ CountOK'
  BY <1>2, <1>3, <1>4, Before DEF QueuesOK, PlacesOK, TasksOK, CountOK, taskVars
<1> QED BY <1>1, <1>4, <1>6, <1>7, QuietKept

(* A process is up, in session s of the entry e. *)
LEMMA OpenedIs ==
  ASSUME GrokInv, NEW a \in Starters, NEW s \in Sessions, NEW e \in Entries, Opening(a),
         Opened(a, s, e), e.session = s, s # NoSession, e.rotation = Known.rotation,
         (sess \in [Sessions -> Transcripts])', CountOK'
  PROVE  GrokTypeOK' /\ SessionIsMapped' /\ RotationIsUnderway' /\ ProcessOK' /\ TurnClosing'
         /\ ForgetClosing' /\ entry' = e /\ entry' # NoEntry /\ rules' = rules /\ deleted' = deleted
<1>1. a \in Actors /\ (a # "warm" => a \in Users) /\ a # "forget" BY ActorsAre, ActorsAssumption DEF Users
<1>2. pc[a] = "spawning" /\ spawnQ # <<>> /\ Head(spawnQ) = a /\ spawnQ' = Tail(spawnQ)
      /\ UNCHANGED <<rules, deleted, on, taskVars, interrupted>> /\ pc["turn"] # "closing"
      /\ entry' = e /\ proc' = [session |-> s, up |-> TRUE, known |-> TRUE] BY DEF Opening, AtSpawn, Opened, Vacated
<1>3. spawnQ' \in Seq(Actors) BY <1>2, FirstLeft, Before DEF QueuesOK
<1>4. /\ pc' \in [Actors -> Steps] /\ lock' \in Seq(Users) /\ CarriedOK'
      /\ pc'[a] \in {"prompting", "idle"} /\ \A b \in Actors : b # a => pc'[b] = pc[b]
      /\ pc'[a] = "idle" => a = "warm"
  <2>1. CASE a = "warm"
    <3>1. Go(a, "idle") /\ UNCHANGED <<lock, carried>> BY <2>1 DEF Opened
    <3> QED BY <1>1, <2>1, <3>1, Goes, Before DEF Steps, QueuesOK, CarriedOK
  <2>2. CASE a # "warm"
    <3>1. Reserve(a, e) BY <2>2 DEF Opened
    <3> QED BY <1>1, <2>2, <3>1, ReserveTyped, Before
  <2> QED BY <2>1, <2>2
<1>5. pc["forget"] # "closing" BY <1>1, <1>2 DEF GrokInv, ForgetClosing
<1>6. pc'["forget"] # "closing" /\ pc'["turn"] # "closing" BY <1>1, <1>2, <1>4, <1>5, ActorsAre
<1>7. proc' \in Processes BY <1>2 DEF Processes
<1>8. GrokTypeOK'
  <2>1. FilesOK' /\ (interrupted \in BOOLEAN)' BY <1>2, Before DEF FilesOK
  <2>2. QueuesOK' /\ PlacesOK' /\ TasksOK' BY <1>2, <1>3, <1>4, Before DEF QueuesOK, PlacesOK, TasksOK, taskVars
  <2> QED BY <1>4, <1>7, <2>1, <2>2, Whole
<1>9. e # NoEntry BY NoEntryAssumption
<1>10. Known' = e /\ SessionIsMapped' BY <1>2, <1>9 DEF Known, SessionIsMapped
<1>11. RotationIsUnderway'
  <2>1. TasksGoOn BY <1>1, <1>2, <1>4, ActorsAre DEF TasksGoOn, taskVars
  <2> QED BY <1>2, <1>10, <2>1, RotationStays
<1> QED BY <1>2, <1>6, <1>8, <1>9, <1>10, <1>11 DEF ProcessOK, TurnClosing, ForgetClosing

(* What makes the conversation continued, of an entry that has a session. *)
LEMMA ContinuedIs ==
  ASSUME entry' # NoEntry,
         entry'.session # NoSession /\ entry'.session \notin deleted' =>
           /\ ~entry'.update => \/ sess'[entry'.session].told = entry'.sha
                                \/ sess'[entry'.session].cut
           /\ sess'[entry'.session].owed => entry'.handoff \/ sess'[entry'.session].cut
  PROVE  Continued'
<1>1. Known' = entry' BY DEF Known
<1>2. UpdateReachesTheSession' BY <1>1 DEF UpdateReachesTheSession, Mapped, HasSession
<1>3. NoteReachesTheSession' BY <1>1 DEF NoteReachesTheSession, Mapped, HasSession
<1> QED BY <1>2, <1>3 DEF Continued

(* And what it says of the entry before a step. *)
LEMMA ContinuedWas ==
  ASSUME GrokInv, Known.session # NoSession, Known.session \notin deleted
  PROVE  /\ entry # NoEntry /\ Known = entry
         /\ ~Known.update => sess[Known.session].told = Known.sha \/ sess[Known.session].cut
         /\ sess[Known.session].owed => Known.handoff \/ sess[Known.session].cut
<1>1. entry # NoEntry /\ Known = entry BY DEF Known, Blank
<1> QED BY <1>1 DEF GrokInv, Continued, UpdateReachesTheSession, NoteReachesTheSession, Mapped, HasSession

LEMMA LoadSessionKeeps ==
  ASSUME GrokInv, NEW a \in Starters, LoadSession(a)
  PROVE  GrokInv'
<1>1. Opening(a) /\ HasSession /\ entry.session \notin deleted /\ Opened(a, entry.session, entry)
      /\ sess' = sess /\ count' = count BY DEF LoadSession
<1>2. entry # NoEntry /\ Known = entry BY <1>1 DEF HasSession, Known, Blank
<1>3. entry \in Entries /\ entry.session \in Sessions /\ entry.session # NoSession
  BY <1>1, <1>2, Before DEF HasSession, Entries
<1>4. (sess \in [Sessions -> Transcripts])' /\ CountOK' BY <1>1, Before DEF FilesOK, CountOK
<1>5. GrokTypeOK' /\ SessionIsMapped' /\ RotationIsUnderway' /\ ProcessOK' /\ TurnClosing'
         /\ ForgetClosing' /\ entry' = entry /\ entry' # NoEntry /\ deleted' = deleted
  BY <1>1, <1>2, <1>3, <1>4, OpenedIs
<1>6. Continued' BY <1>1, <1>2, <1>3, <1>5, ContinuedIs, ContinuedWas
<1> QED BY <1>5, <1>6 DEF GrokInv

LEMMA ForkSessionKeeps ==
  ASSUME GrokInv, NEW a \in Starters, ForkSession(a)
  PROVE  GrokInv'
<1>1. Opening(a) /\ HasSession /\ entry.session \notin deleted /\ count' = count BY DEF ForkSession
<1>2. PICK f \in FreshSession :
        /\ Opened(a, f, Forked(f))
        /\ sess' = [sess EXCEPT ![f] = sess[entry.session], ![entry.session] = Unused] BY DEF ForkSession
<1>3. f \in Sessions /\ f # NoSession /\ f # Known.session /\ f \notin deleted BY FreshIs
<1>4. entry # NoEntry /\ Known = entry BY <1>1 DEF HasSession, Known, Blank
<1>5. entry \in Entries /\ entry.session \in Sessions /\ entry.session # f
  BY <1>1, <1>3, <1>4, Before DEF HasSession, Entries
<1>6. /\ Forked(f) \in Entries /\ Forked(f).session = f /\ Forked(f).update
      /\ Forked(f).handoff = entry.handoff /\ Forked(f).rotation = Known.rotation
  BY <1>3, <1>4, <1>5, Before DEF Forked, Entries, FilesOK
<1>7. (sess \in [Sessions -> Transcripts])' /\ sess'[f] = sess[entry.session] /\ CountOK'
  BY <1>1, <1>2, <1>3, <1>5, Before, ConstantsTyped DEF FilesOK, CountOK
<1>8. GrokTypeOK' /\ SessionIsMapped' /\ RotationIsUnderway' /\ ProcessOK' /\ TurnClosing'
         /\ ForgetClosing' /\ entry' = Forked(f) /\ entry' # NoEntry BY <1>1, <1>2, <1>3, <1>6, <1>7, OpenedIs
<1>9. sess[entry.session].owed => entry.handoff \/ sess[entry.session].cut BY <1>1, <1>4, ContinuedWas DEF HasSession
<1>10. Continued' BY <1>6, <1>7, <1>8, <1>9, ContinuedIs
<1> QED BY <1>8, <1>10 DEF GrokInv

LEMMA NewSessionKeeps ==
  ASSUME GrokInv, NEW a \in Starters, NewSession(a)
  PROVE  GrokInv'
<1>. DEFINE new == [told |-> rules, owed |-> Known.handoff, cut |-> FALSE]
            e(n) == [Known EXCEPT !.session = n, !.sha = rules, !.update = FALSE]
<1>1. Opening(a) /\ (count' = count \/ Fault) BY DEF NewSession
<1>2. PICK n \in FreshSession :
        /\ Opened(a, n, e(n))
        /\ sess' = [s \in Sessions |-> IF s = n THEN new
                                       ELSE IF s = Known.session THEN Unused ELSE sess[s]] BY DEF NewSession
<1>3. n \in Sessions /\ n # NoSession BY FreshIs
<1>4. /\ e(n) \in Entries /\ e(n).session = n /\ e(n).sha = rules
      /\ e(n).handoff = Known.handoff /\ e(n).rotation = Known.rotation BY <1>3, Before DEF Entries, FilesOK
<1>5. new \in Transcripts BY Before DEF Transcripts, Entries, FilesOK
<1>6. (sess \in [Sessions -> Transcripts])' /\ sess'[n] = new BY <1>2, <1>3, <1>5, Before, ConstantsTyped DEF FilesOK
<1>7. CountOK' BY <1>1, Before, Counted, Kinds DEF Fault, CountOK
<1>8. GrokTypeOK' /\ SessionIsMapped' /\ RotationIsUnderway' /\ ProcessOK' /\ TurnClosing'
         /\ ForgetClosing' /\ entry' = e(n) /\ entry' # NoEntry BY <1>1, <1>2, <1>3, <1>4, <1>6, <1>7, OpenedIs
<1>9. Continued' BY <1>4, <1>6, <1>8, ContinuedIs
<1> QED BY <1>8, <1>9 DEF GrokInv

LEMMA OpenFailsKeeps ==
  ASSUME GrokInv, NEW a \in Starters, OpenFails(a)
  PROVE  GrokInv'
<1>1. a \in Actors /\ a # "forget" BY ActorsAre, ActorsAssumption DEF Users
<1>2. /\ pc[a] = "spawning" /\ spawnQ # <<>> /\ Head(spawnQ) = a /\ spawnQ' = Tail(spawnQ)
      /\ proc' = Gone /\ Go(a, "idle") /\ pc["turn"] # "closing"
      /\ UNCHANGED <<rules, sess, deleted, lock, on, starting, carried, interrupted>>
      /\ count' = count \/ Fault
      /\ IF a \in Tasks
         THEN /\ entry' = GivenUp
              /\ current' = IF current = a THEN NoTask ELSE current
              /\ what' = [what EXCEPT ![a] = "compact"]
         ELSE UNCHANGED <<entry, current, what>> BY DEF OpenFails, Opening, AtSpawn, Vacated
<1>3. /\ pc' \in [Actors -> Steps] /\ pc'[a] = "idle"
      /\ \A b \in Actors : b # a => pc'[b] = pc[b] BY <1>1, <1>2, Goes, Before DEF Steps
<1>4. FilesOK' BY <1>2, GivenUpIs, Before DEF FilesOK
<1>5. TasksOK' BY <1>2, Before DEF TasksOK
<1>6. QueuesOK' /\ PlacesOK' /\ CarriedOK' /\ (proc \in Processes)' /\ (interrupted \in BOOLEAN)'
  BY <1>2, <1>3, FirstLeft, ConstantsTyped, Before DEF QueuesOK, PlacesOK, CarriedOK
<1>7. CountOK' BY <1>2, Before, Counted, Kinds DEF Fault, CountOK
<1>8. GrokTypeOK' BY <1>4, <1>5, <1>6, <1>7, Whole
<1>9. SameConversation /\ (Known'.rotation => Known.rotation /\ a \notin Tasks)
  <2>1. CASE a \in Tasks
    <3>1. Known' = GivenUp BY <1>2, <2>1, GivenUpIs, Before DEF Known
    <3> QED BY <1>2, <2>1, <3>1, GivenUpIs, Before DEF SameConversation
  <2>2. CASE a \notin Tasks
    <3>1. entry' = entry /\ Known' = Known BY <1>2, <2>2 DEF Known
    <3> QED BY <1>2, <2>2, <3>1 DEF SameConversation
  <2> QED BY <2>1, <2>2
<1>10. pc'["turn"] # "closing" /\ pc'["forget"] = pc["forget"] /\ pc["forget"] # "closing"
  BY <1>1, <1>2, <1>3, ActorsAre DEF GrokInv, ForgetClosing
<1>11. ProcFades /\ NoOneCloses BY <1>2, <1>10 DEF ProcFades, NoOneCloses, Gone
<1>12. SessionIsMapped' /\ Continued' /\ ProcessOK' /\ TurnClosing' /\ ForgetClosing'
  BY <1>4, <1>9, <1>10, <1>11, Quiet
<1>13. RotationIsUnderway'
  <2>1. SUFFICES ASSUME Known'.rotation PROVE RotationIsUnderway' BY DEF RotationIsUnderway
  <2>2. Known.rotation /\ a \notin Tasks BY <1>9, <2>1
  <2>3. TasksGoOn BY <1>2, <1>3, <2>2, ActorsAre DEF TasksGoOn
  <2> QED BY <1>2, <2>2, <2>3, RotationStays
<1> QED BY <1>8, <1>12, <1>13 DEF GrokInv

(* Other instances, and prewarm. *)
LEMMA OthersKeep ==
  ASSUME GrokInv, OthersQueue \/ OthersLeave \/ Prewarm
  PROVE  GrokInv'
<1>1. "other" \in Actors /\ "warm" \in Actors /\ "other" # "warm" /\ "forget" \in Actors BY ActorsAre
<1>2. UNCHANGED <<files, lock, on, taskVars, carried, count, interrupted>> BY DEF OthersQueue, OthersLeave, Prewarm
<1>3. PICK a \in {"other", "warm"} :
        /\ \E step \in {"idle", "spawning"} : Go(a, step)
        /\ proc' = proc \/ proc' = Gone
        /\ \/ spawnQ' = spawnQ \/ spawnQ' = Append(spawnQ, a)
           \/ spawnQ # <<>> /\ Head(spawnQ) = a /\ spawnQ' = Tail(spawnQ)
  BY DEF OthersQueue, OthersLeave, Prewarm, AtSpawn
<1>4. PICK step \in {"idle", "spawning"} : Go(a, step) BY <1>3
<1>5. /\ pc' \in [Actors -> Steps] /\ pc'[a] = step
      /\ \A b \in Actors : b # a => pc'[b] = pc[b] BY <1>1, <1>4, Goes, Before DEF Steps
<1>6. spawnQ' \in Seq(Actors)
      /\ (pc["forget"] = "closing" => spawnQ' # <<>> /\ Head(spawnQ') = Head(spawnQ))
  <2>1. spawnQ \in Seq(Actors) /\ a \in Actors /\ a # "forget"
        /\ (pc["forget"] = "closing" => spawnQ # <<>> /\ Head(spawnQ) = "forget")
    BY <1>1, <1>3, Before DEF QueuesOK, GrokInv, ForgetClosing
  <2>2. CASE spawnQ' = spawnQ BY <2>1, <2>2
  <2>3. CASE spawnQ' = Append(spawnQ, a) BY <2>1, <2>3, Joined
  <2>4. CASE spawnQ # <<>> /\ Head(spawnQ) = a /\ spawnQ' = Tail(spawnQ) BY <2>1, <2>4, FirstLeft
  <2> QED BY <1>3, <2>2, <2>3, <2>4
<1>7. ProcFades BY <1>3, Before DEF ProcFades, ProcessOK, Gone
<1>8. QuietStep(a) BY <1>1, <1>2, <1>5, <1>6, <1>7, ActorsAre DEF QuietStep, taskVars
<1>9. (proc \in Processes)' /\ QueuesOK' /\ PlacesOK' /\ TasksOK' /\ CarriedOK' /\ CountOK'
  BY <1>2, <1>3, <1>5, <1>6, ConstantsTyped, Before DEF QueuesOK, PlacesOK, TasksOK, CarriedOK, CountOK, taskVars
<1> QED BY <1>1, <1>8, <1>9, QuietKept

------------------------
(* Turns. *)
LEMMA TurnGoesKeeps ==
  ASSUME GrokInv, TurnStart \/ TurnResume
  PROVE  GrokInv'
<1>1. "turn" \in Users /\ "turn" \in Actors /\ "turn" \in Waiters /\ "turn" \notin Tasks BY ActorsAre
<1>2. UNCHANGED <<files, proc, taskVars, interrupted>> /\ CountOK'
  BY Before, Counted, Kinds DEF TurnStart, TurnResume, CountOK
<1>3. /\ PlacesOK' /\ QueuesOK' /\ CarriedOK'
      /\ pc'["turn"] # "closing" /\ \A b \in Actors : b # "turn" => pc'[b] = pc[b]
      /\ spawnQ # <<>> => spawnQ' # <<>> /\ Head(spawnQ') = Head(spawnQ)
  <2>1. CASE TakeAgent("turn")
    <3>1. /\ pc' \in [Actors -> Steps] /\ QueuesOK' /\ CarriedOK'
          /\ pc'["turn"] \in {"prompting", "spawning"}
          /\ \A b \in Actors : b # "turn" => pc'[b] = pc[b]
          /\ spawnQ # <<>> => spawnQ' # <<>> /\ Head(spawnQ') = Head(spawnQ) BY <1>1, <2>1, TakeTyped, Before
    <3>2. on' = on \/ on' = [on EXCEPT !["turn"] = NoTask] \/ on' = [on EXCEPT !["turn"] = current]
      BY DEF TurnStart, TurnResume
    <3> QED BY <3>1, <3>2, Before DEF PlacesOK, TasksOK
  <2>2. CASE ~TakeAgent("turn")
    <3>1. /\ current # NoTask /\ Go("turn", "waiting") /\ on' = [on EXCEPT !["turn"] = current]
          /\ UNCHANGED <<lock, spawnQ, carried>> BY <2>2 DEF TurnStart, TurnResume
    <3>2. /\ pc' \in [Actors -> Steps] /\ pc'["turn"] = "waiting"
          /\ \A b \in Actors : b # "turn" => pc'[b] = pc[b] BY <1>1, <3>1, Goes, Before DEF Steps
    <3> QED BY <3>1, <3>2, Before DEF PlacesOK, QueuesOK, CarriedOK, TasksOK
  <2> QED BY <2>1, <2>2
<1>4. QuietStep("turn") BY <1>1, <1>2, <1>3, Before
     DEF QuietStep, ProcFades, ProcessOK, taskVars, PlacesOK, GrokInv, ForgetClosing
<1>5. (proc \in Processes)' /\ TasksOK' BY <1>2, Before DEF TasksOK, taskVars
<1> QED BY <1>1, <1>2, <1>3, <1>4, <1>5, QuietKept

LEMMA TurnEndsBadlyKeeps ==
  ASSUME GrokInv, TurnFails \/ TurnTimesOut \/ TurnCancelled
  PROVE  GrokInv'
<1>1. "turn" \in Users /\ "turn" \in Actors /\ "turn" \in Waiters /\ "turn" \notin Tasks BY ActorsAre
<1>2. /\ UNCHANGED <<files, taskVars, interrupted>> /\ Fault /\ Go("turn", "idle")
      /\ carried' = Nothing
      /\ on' = on \/ on' = [on EXCEPT !["turn"] = NoTask]
      /\ spawnQ' = spawnQ \/ spawnQ' = Without(spawnQ, "turn")
      /\ Unreserve("turn", proc) \/ Unreserve("turn", Dropped) \/ UNCHANGED <<proc, lock>>
  BY DEF TurnFails, TurnTimesOut, TurnCancelled
<1>3. /\ pc' \in [Actors -> Steps] /\ pc'["turn"] = "idle"
      /\ \A b \in Actors : b # "turn" => pc'[b] = pc[b] BY <1>1, <1>2, Goes, Before DEF Steps
<1>4. spawnQ' \in Seq(Actors)
      /\ (pc["forget"] = "closing" => spawnQ' # <<>> /\ Head(spawnQ') = Head(spawnQ))
  BY <1>2, AnyLeft, Before DEF QueuesOK, GrokInv, ForgetClosing
<1>5. /\ Dropped \in Processes /\ ~Dropped.up /\ ~Dropped.known BY Before DEF Dropped, Dead, Processes
<1>6. lock' \in Seq(Users) /\ proc' \in Processes /\ ProcFades
  <2>1. CASE UNCHANGED <<proc, lock>> BY <2>1, Before DEF QueuesOK, ProcFades, ProcessOK
  <2>2. CASE Unreserve("turn", proc) \/ Unreserve("turn", Dropped)
    <3>1. lock' \in Seq(Users) /\ proc' \in Processes /\ proc' \in {proc, Dropped, Gone}
      BY <1>5, <2>2, UnreserveTyped, Before
    <3> QED BY <1>5, <3>1, Before DEF ProcFades, ProcessOK, Gone
  <2> QED BY <1>2, <2>1, <2>2
<1>7. CarriedOK' BY <1>2 DEF CarriedOK, Nothing
<1>8. CountOK' BY <1>2, Before, Counted, Kinds DEF Fault
<1>9. QuietStep("turn") BY <1>1, <1>2, <1>3, <1>4, <1>6 DEF QuietStep, taskVars
<1>10. QueuesOK' /\ PlacesOK' /\ TasksOK' BY <1>2, <1>3, <1>4, <1>6, Before DEF QueuesOK, PlacesOK, TasksOK, taskVars
<1> QED BY <1>1, <1>6, <1>7, <1>8, <1>9, <1>10, QuietKept

(* The session of a process that prompts is the entry's. *)
LEMMA ServesIts ==
  ASSUME GrokInv, proc.up
  PROVE  /\ proc.known /\ proc.session \in Sessions /\ proc.session # NoSession
         /\ entry # NoEntry /\ Known = entry /\ Known.session = proc.session
BY Before, ConstantsTyped DEF GrokInv, ProcessOK, SessionIsMapped, Warm, Known, Processes, NoSession

LEMMA TurnEndsKeeps ==
  ASSUME GrokInv, TurnEnds
  PROVE  GrokInv'
<1>. DEFINE s == proc.session
<1>1. /\ proc.up /\ pc["turn"] = "prompting" /\ sess' = [sess EXCEPT ![s] = Prompted(@)]
      /\ Unreserve("turn", proc) /\ AfterTurn(s)
      /\ UNCHANGED <<rules, deleted, spawnQ, on, count, interrupted>> BY DEF TurnEnds, Prompting
<1>2. s \in Sessions /\ s # NoSession /\ Known.session = s /\ proc.known BY <1>1, ServesIts
<1>3. /\ entry' \in Entries /\ pc' \in [Actors -> Steps] /\ TasksOK' /\ CarriedOK'
      /\ pc'["turn"] = "idle" /\ pc'["forget"] = pc["forget"] /\ TasksGoOn
      /\ entry'.session = s
      /\ entry'.sha = IF carried.update THEN rules ELSE Known.sha
      /\ entry'.update = IF carried.update THEN FALSE ELSE Known.update
      /\ entry'.handoff = (Known.handoff /\ ~carried.handoff)
      /\ \/ entry'.rotation = Known.rotation
         \/ \E m \in Tasks : what'[m] = "rotate" /\ pc'[m] # "idle" BY <1>1, <1>2, AfterTurnIs, Before
<1>4. /\ lock' \in Seq(Users) /\ proc' = proc BY <1>1, <1>2, UnreserveTyped, Before
<1>5. entry' # NoEntry /\ Known' = entry' BY <1>3, NoEntryAssumption DEF Known
<1>6. /\ sess' \in [Sessions -> Transcripts]
      /\ sess'[s].told = IF carried.update THEN rules ELSE sess[s].told
      /\ sess'[s].owed = (sess[s].owed /\ ~carried.handoff)
      /\ sess'[s].cut = sess[s].cut
  <2>1. sess[s] \in Transcripts /\ rules \in Versions BY <1>2, Before DEF FilesOK
  <2>2. /\ Prompted(sess[s]) \in Transcripts
        /\ Prompted(sess[s]).told = IF carried.update THEN rules ELSE sess[s].told
        /\ Prompted(sess[s]).owed = (sess[s].owed /\ ~carried.handoff)
        /\ Prompted(sess[s]).cut = sess[s].cut BY <2>1, Before DEF Prompted, Transcripts, CarriedOK
  <2> QED BY <1>1, <1>2, <2>2, Before DEF FilesOK
<1>7. GrokTypeOK' BY <1>1, <1>3, <1>4, <1>6, Whole, Before DEF FilesOK, QueuesOK, PlacesOK, CountOK
<1>8. Continued' BY <1>1, <1>2, <1>3, <1>5, <1>6, ContinuedIs, ContinuedWas
<1>9. SessionIsMapped' BY <1>2, <1>3, <1>4, <1>5 DEF SessionIsMapped
<1>10. RotationIsUnderway' BY <1>1, <1>3, <1>5, RotationStays DEF RotationIsUnderway
<1> QED BY <1>1, <1>2, <1>3, <1>4, <1>7, <1>8, <1>9, <1>10 DEF GrokInv, ProcessOK, TurnClosing, ForgetClosing

LEMMA TurnDiesKeeps ==
  ASSUME GrokInv, TurnDies
  PROVE  GrokInv'
<1>. DEFINE s == proc.session
<1>1. /\ proc.up /\ pc["turn"] = "prompting" /\ Fault
      /\ Unreserve("turn", Dropped) /\ Go("turn", "closing")
      /\ carried' = [carried EXCEPT !.session = s]
      /\ UNCHANGED <<rules, entry, deleted, spawnQ, on, taskVars, interrupted>> BY DEF TurnDies, Prompting
<1>2. s \in Sessions /\ s # NoSession /\ Known.session = s /\ proc.known
      /\ entry # NoEntry /\ Known = entry BY <1>1, ServesIts
<1>3. PICK stored \in BOOLEAN :
        sess' = [sess EXCEPT ![s] = [IF stored THEN Prompted(@) ELSE @ EXCEPT !.cut = TRUE]] BY DEF TurnDies
<1>4. sess' \in [Sessions -> Transcripts] /\ sess'[s].cut
  <2>1. sess[s] \in Transcripts /\ rules \in Versions BY <1>2, Before DEF FilesOK
  <2>2. Prompted(sess[s]) \in Transcripts BY <2>1, Before DEF Prompted, Transcripts, CarriedOK
  <2>. DEFINE x == IF stored THEN Prompted(sess[s]) ELSE sess[s]
  <2>3. x \in Transcripts BY <2>1, <2>2
  <2>. HIDE DEF x
  <2>4. [x EXCEPT !.cut = TRUE] \in Transcripts /\ [x EXCEPT !.cut = TRUE].cut BY <2>3 DEF Transcripts
  <2>5. sess' = [sess EXCEPT ![s] = [x EXCEPT !.cut = TRUE]] BY <1>3 DEF x
  <2> QED BY <1>2, <2>4, <2>5, Before DEF FilesOK
<1>5. Dropped \in Processes /\ ~Dropped.up /\ ~Dropped.known BY Before DEF Dropped, Dead, Processes
<1>6. lock' \in Seq(Users) /\ proc' \in Processes /\ ~proc'.up /\ ~proc'.known
  BY <1>1, <1>5, UnreserveTyped, Before DEF Gone
<1>7. /\ pc' \in [Actors -> Steps] /\ pc'["turn"] = "closing"
      /\ \A b \in Actors : b # "turn" => pc'[b] = pc[b] BY <1>1, ActorsAre, Goes, Before DEF Steps
<1>8. CarriedOK' /\ carried'.session = s BY <1>1, <1>2, Before DEF CarriedOK
<1>9. GrokTypeOK'
  <2>1. CountOK' BY <1>1, Before, Counted, Kinds DEF Fault
  <2>2. FilesOK' /\ QueuesOK' /\ PlacesOK' /\ TasksOK' /\ (interrupted \in BOOLEAN)'
    BY <1>1, <1>4, <1>6, <1>7, Before DEF FilesOK, QueuesOK, PlacesOK, TasksOK, taskVars
  <2> QED BY <1>6, <1>8, <2>1, <2>2, Whole
<1>10. Known' = Known /\ entry' # NoEntry /\ entry'.session = s BY <1>1, <1>2 DEF Known
<1>11. Continued' BY <1>4, <1>10, ContinuedIs
<1>12. RotationIsUnderway'
  <2>1. TasksGoOn BY <1>1, <1>7, ActorsAre DEF TasksGoOn, taskVars
  <2> QED BY <1>1, <1>10, <2>1, RotationStays
<1>13. SessionIsMapped' /\ ProcessOK' BY <1>6 DEF SessionIsMapped, Warm, ProcessOK
<1>14. TurnClosing' BY <1>2, <1>4, <1>6, <1>8, <1>10 DEF TurnClosing
<1>15. pc'["forget"] = pc["forget"] BY <1>7, ActorsAre
<1>16. ForgetClosing' BY <1>1, <1>6, <1>15 DEF GrokInv, ForgetClosing
<1> QED BY <1>9, <1>11, <1>12, <1>13, <1>14, <1>16 DEF GrokInv

LEMMA TurnClosedKeeps ==
  ASSUME GrokInv, TurnClosed
  PROVE  GrokInv'
<1>. DEFINE s == carried.session
<1>1. /\ pc["turn"] = "closing" /\ AfterTurn(s)
      /\ UNCHANGED <<rules, sess, deleted, proc, lock, spawnQ, on, count, interrupted>> BY DEF TurnClosed
<1>2. /\ ~proc.known /\ s # NoSession /\ (sess[s].cut \/ s \in deleted)
      /\ Known.session \in {s, NoSession} BY <1>1 DEF GrokInv, TurnClosing
<1>3. s \in Sessions BY <1>2, Before DEF CarriedOK
<1>4. /\ entry' \in Entries /\ pc' \in [Actors -> Steps] /\ TasksOK' /\ CarriedOK'
      /\ pc'["turn"] = "idle" /\ pc'["forget"] = pc["forget"] /\ TasksGoOn
      /\ entry'.session = IF carried.update THEN s ELSE Known.session
      /\ \/ entry'.rotation = Known.rotation
         \/ \E m \in Tasks : what'[m] = "rotate" /\ pc'[m] # "idle" BY <1>1, <1>3, AfterTurnIs, Before
<1>5. entry' # NoEntry /\ Known' = entry' BY <1>4, NoEntryAssumption DEF Known
<1>6. GrokTypeOK' BY <1>1, <1>4, Whole, Before DEF FilesOK, QueuesOK, PlacesOK, CountOK
<1>7. Continued' BY <1>1, <1>2, <1>4, <1>5, ContinuedIs
<1>8. SessionIsMapped' BY <1>1, <1>2 DEF SessionIsMapped, Warm
<1>9. RotationIsUnderway' BY <1>1, <1>4, <1>5, RotationStays DEF RotationIsUnderway
<1> QED BY <1>1, <1>2, <1>4, <1>6, <1>7, <1>8, <1>9, Before DEF GrokInv, ProcessOK, TurnClosing, ForgetClosing

------------------------
(* Maintenance. *)
LEMMA MaintStartKeeps ==
  ASSUME GrokInv, MaintStart
  PROVE  GrokInv'
<1>. DEFINE m == Head(starting)
<1>1. /\ starting # <<>> /\ starting' = Tail(starting) /\ TakeAgent(m)
      /\ UNCHANGED <<files, proc, on, what, current, count, interrupted>> BY DEF MaintStart
<1>2. starting' \in Seq(Tasks) /\ m \in Tasks BY <1>1, FirstLeft, Before DEF TasksOK
<1>. HIDE DEF m
<1>3. m \in Users /\ m \in Actors /\ m # "turn" BY <1>2, ActorsAre
<1>4. /\ pc' \in [Actors -> Steps] /\ QueuesOK' /\ CarriedOK'
      /\ pc'[m] \in {"prompting", "spawning"} /\ \A b \in Actors : b # m => pc'[b] = pc[b]
      /\ carried' = carried
      /\ spawnQ # <<>> => spawnQ' # <<>> /\ Head(spawnQ') = Head(spawnQ) BY <1>1, <1>3, TakeTyped, Before
<1>5. pc["forget"] = "closing" => spawnQ' # <<>> /\ Head(spawnQ') = Head(spawnQ) BY <1>4 DEF GrokInv, ForgetClosing
<1>6. QuietStep(m) BY <1>1, <1>3, <1>4, <1>5, Before DEF QuietStep, ProcFades, ProcessOK
<1>7. (proc \in Processes)' /\ PlacesOK' /\ TasksOK' /\ CountOK'
  BY <1>1, <1>2, <1>4, Before DEF PlacesOK, TasksOK, CountOK
<1> QED BY <1>3, <1>4, <1>6, <1>7, QuietKept

LEMMA NoteWrittenKeeps ==
  ASSUME GrokInv, NEW m \in Tasks, NoteWritten(m)
  PROVE  GrokInv'
<1>1. m \in Actors /\ m # "turn" BY ActorsAre
<1>2. Go(m, "renewing")
      /\ UNCHANGED <<files, proc, lock, spawnQ, on, taskVars, carried, count, interrupted>> BY DEF NoteWritten
<1>3. /\ pc' \in [Actors -> Steps] /\ pc'[m] = "renewing"
      /\ \A b \in Actors : b # m => pc'[b] = pc[b] BY <1>1, <1>2, Goes, Before DEF Steps
<1>4. QuietStep(m) BY <1>1, <1>2, <1>3, Before DEF QuietStep, ProcFades, ProcessOK, taskVars, GrokInv, ForgetClosing
<1>5. (proc \in Processes)' /\ QueuesOK' /\ PlacesOK' /\ TasksOK' /\ CarriedOK' /\ CountOK'
  BY <1>2, <1>3, Before DEF QueuesOK, PlacesOK, TasksOK, CarriedOK, CountOK, taskVars
<1> QED BY <1>1, <1>4, <1>5, QuietKept

LEMMA CompactedKeeps ==
  ASSUME GrokInv, NEW m \in Tasks, Compacted(m)
  PROVE  GrokInv'
<1>1. m \in Actors /\ m \notin {"turn", "forget"} BY ActorsAre
<1>2. what[m] = "compact" /\ MaintEnds(m, proc, entry) /\ sess' = sess /\ count' = count BY DEF Compacted
<1>3. entry \in Entries \cup {NoEntry} BY Before DEF FilesOK
<1>4. /\ entry' = entry /\ (proc' = proc \/ (proc' = Gone /\ ~proc.known))
      /\ (proc \in Processes)' /\ QueuesOK' /\ PlacesOK' /\ TasksOK' /\ CarriedOK'
      /\ pc'[m] = "idle" /\ \A b \in Actors : b # m => pc'[b] = pc[b]
      /\ \A o \in Tasks : o # m => what'[o] = what[o] BY <1>2, <1>3, MaintEndsIs, Before
<1>5. /\ UNCHANGED <<rules, deleted, spawnQ, carried, interrupted>>
      /\ what' = [what EXCEPT ![m] = "compact"] BY <1>2 DEF MaintEnds
<1>6. what'[m] = what[m] BY <1>2, <1>5, Before DEF TasksOK
<1>7. QuietStep(m) BY <1>1, <1>2, <1>4, <1>5, <1>6, Before
     DEF QuietStep, ProcFades, ProcessOK, files, Gone, GrokInv, ForgetClosing, PlacesOK
<1>8. CountOK' BY <1>2, Before DEF CountOK
<1> QED BY <1>1, <1>4, <1>7, <1>8, QuietKept

LEMMA MaintFailsKeeps ==
  ASSUME GrokInv, NEW m \in Tasks, MaintFails(m)
  PROVE  GrokInv'
<1>1. m \in Actors /\ m \notin {"turn", "forget"} /\ "turn" \in Actors /\ "forget" \in Actors BY ActorsAre
<1>2. MaintEnds(m, proc, GivenUp) /\ sess' = sess /\ (count' = count \/ Fault) BY DEF MaintFails
<1>3. GivenUp \in Entries /\ GivenUp # NoEntry BY GivenUpIs, Before
<1>4. /\ rules' \in Versions /\ entry' = GivenUp /\ (proc' = proc \/ (proc' = Gone /\ ~proc.known))
      /\ (proc \in Processes)' /\ QueuesOK' /\ PlacesOK' /\ TasksOK' /\ CarriedOK'
      /\ deleted' \subseteq Sessions /\ (interrupted \in BOOLEAN)'
      /\ pc'[m] = "idle" /\ \A b \in Actors : b # m => pc'[b] = pc[b] BY <1>2, <1>3, MaintEndsIs, Before
<1>5. UNCHANGED <<deleted, spawnQ, carried>> BY <1>2 DEF MaintEnds
<1>6. FilesOK' BY <1>2, <1>3, <1>4, Before DEF FilesOK
<1>7. CountOK' BY <1>2, Before, Counted, Kinds DEF Fault, CountOK
<1>8. GrokTypeOK' BY <1>4, <1>6, <1>7, Whole
<1>9. Known' = GivenUp BY <1>3, <1>4 DEF Known
<1>10. SameConversation /\ ~Known'.rotation BY <1>2, <1>3, <1>4, <1>5, <1>9, GivenUpIs, Before DEF SameConversation
<1>11. ProcFades /\ NoOneCloses BY <1>1, <1>4, Before DEF ProcFades, ProcessOK, NoOneCloses, Gone
<1>12. pc'["forget"] = "closing" => spawnQ' # <<>> /\ Head(spawnQ') = Head(spawnQ)
  BY <1>1, <1>4, <1>5 DEF GrokInv, ForgetClosing
<1>13. SessionIsMapped' /\ Continued' /\ ProcessOK' /\ TurnClosing' /\ ForgetClosing'
  BY <1>5, <1>6, <1>10, <1>11, <1>12, Quiet
<1> QED BY <1>8, <1>10, <1>13 DEF GrokInv, RotationIsUnderway

LEMMA RenewedKeeps ==
  ASSUME GrokInv, NEW m \in Tasks, Renewed(m)
  PROVE  GrokInv'
<1>1. m \in Actors /\ m \notin {"turn", "forget"} /\ "turn" \in Actors /\ "forget" \in Actors BY ActorsAre
<1>2. proc.up /\ count' = count BY DEF Renewed
<1>3. PICK n \in FreshSession :
        /\ MaintEnds(m, [proc EXCEPT !.session = n], Rotated(n))
        /\ sess' = [sess EXCEPT ![n] = [told |-> rules, owed |-> TRUE, cut |-> FALSE],
                                ![proc.session] = Unused] BY DEF Renewed
<1>4. n \in Sessions /\ n # NoSession /\ n # proc.session BY FreshIs
<1>5. proc.known /\ proc.session \in Sessions BY <1>2, ServesIts
<1>. DEFINE p == [proc EXCEPT !.session = n]
<1>6. p \in Processes /\ p.known /\ p.session = n BY <1>4, <1>5, Before DEF Processes
<1>7. /\ Rotated(n) \in Entries /\ Rotated(n).session = n /\ Rotated(n).sha = rules
      /\ Rotated(n).handoff /\ ~Rotated(n).rotation BY <1>4, Before DEF Rotated, Entries, FilesOK
<1>. HIDE DEF p
<1>8. MaintEnds(m, p, Rotated(n)) BY <1>3 DEF p
<1>9. /\ rules' \in Versions /\ entry' = Rotated(n) /\ proc' = p
      /\ (proc \in Processes)' /\ QueuesOK' /\ PlacesOK' /\ TasksOK' /\ CarriedOK'
      /\ deleted' \subseteq Sessions /\ (interrupted \in BOOLEAN)'
      /\ pc'[m] = "idle" /\ \A b \in Actors : b # m => pc'[b] = pc[b] BY <1>6, <1>7, <1>8, MaintEndsIs, Before
<1>10. /\ sess' \in [Sessions -> Transcripts]
       /\ sess'[n] = [told |-> rules, owed |-> TRUE, cut |-> FALSE]
  <2>1. [told |-> rules, owed |-> TRUE, cut |-> FALSE] \in Transcripts BY Before DEF Transcripts, FilesOK
  <2> QED BY <1>3, <1>4, <1>5, <2>1, Before, ConstantsTyped DEF FilesOK
<1>11. CountOK' BY <1>2, Before DEF CountOK
<1>12. entry' # NoEntry /\ Known' = Rotated(n) BY <1>7, <1>9, NoEntryAssumption DEF Known
<1>13. GrokTypeOK'
  <2>1. FilesOK' BY <1>7, <1>9, <1>10 DEF FilesOK
  <2> QED BY <1>9, <1>11, <2>1, Whole
<1>14. Continued' BY <1>7, <1>9, <1>10, <1>12, ContinuedIs
<1>15. SessionIsMapped' /\ ProcessOK' BY <1>4, <1>6, <1>7, <1>9, <1>12 DEF SessionIsMapped, ProcessOK
<1>16. RotationIsUnderway' BY <1>7, <1>12 DEF RotationIsUnderway
<1>17. pc'["turn"] # "closing" /\ pc'["forget"] # "closing"
  BY <1>1, <1>5, <1>9 DEF GrokInv, TurnClosing, ForgetClosing
<1> QED BY <1>13, <1>14, <1>15, <1>16, <1>17 DEF GrokInv, TurnClosing, ForgetClosing

------------------------
(* Rotations and deletions on request. *)
LEMMA RotateWaitsKeeps ==
  ASSUME GrokInv, NEW r \in Rotators, RotateCall(r) \/ RotateDone(r)
  PROVE  GrokInv'
<1>1. r \in Actors /\ r \in Waiters /\ r \notin Tasks \cup {"turn", "forget"} BY ActorsAre
<1>2. /\ UNCHANGED <<files, proc, lock, spawnQ, taskVars, carried, interrupted>>
      /\ \E step \in {"waiting", "idle"} : Go(r, step)
      /\ \E m \in Tasks \cup {NoTask} : on' = [on EXCEPT ![r] = m] BY Before DEF RotateCall, RotateDone, TasksOK
<1>3. PICK step \in {"waiting", "idle"} : Go(r, step) BY <1>2
<1>4. /\ pc' \in [Actors -> Steps] /\ pc'[r] = step
      /\ \A b \in Actors : b # r => pc'[b] = pc[b] BY <1>1, <1>3, Goes, Before DEF Steps
<1>5. CountOK' BY Before, Counted, Kinds DEF RotateCall, RotateDone, CountOK
<1>6. QuietStep(r) BY <1>1, <1>2, <1>4, Before DEF QuietStep, ProcFades, ProcessOK, taskVars, GrokInv, ForgetClosing
<1>7. (proc \in Processes)' /\ QueuesOK' /\ PlacesOK' /\ TasksOK' /\ CarriedOK'
  BY <1>2, <1>4, Before DEF QueuesOK, PlacesOK, TasksOK, CarriedOK, taskVars
<1> QED BY <1>1, <1>5, <1>6, <1>7, QuietKept

LEMMA RotateKeeps ==
  ASSUME GrokInv, NEW r \in Rotators, Rotate(r), CountOK'
  PROVE  GrokInv'
<1>1. r \in Actors /\ r \in Waiters /\ r \notin Tasks \cup {"turn", "forget"}
      /\ "turn" \in Actors /\ "forget" \in Actors /\ Tasks \subseteq Actors BY ActorsAre
<1>2. UNCHANGED <<rules, sess, deleted, proc, lock, spawnQ, carried, interrupted>> BY DEF Rotate
<1>3. CASE entry = NoEntry
  <2>1. Go(r, "idle") /\ on' = [on EXCEPT ![r] = NoTask] /\ UNCHANGED <<entry, taskVars>> BY <1>3 DEF Rotate
  <2>2. /\ pc' \in [Actors -> Steps] /\ pc'[r] = "idle"
        /\ \A b \in Actors : b # r => pc'[b] = pc[b] BY <1>1, <2>1, Goes, Before DEF Steps
  <2>3. QuietStep(r) BY <1>1, <1>2, <2>1, <2>2, Before
       DEF QuietStep, ProcFades, ProcessOK, taskVars, files, GrokInv, ForgetClosing
  <2>4. (proc \in Processes)' /\ QueuesOK' /\ PlacesOK' /\ TasksOK' /\ CarriedOK'
    BY <1>2, <2>1, <2>2, Before DEF QueuesOK, PlacesOK, TasksOK, CarriedOK, taskVars
  <2> QED BY <1>1, <2>3, <2>4, QuietKept
<1>4. CASE entry # NoEntry
  <2>1. PICK m \in NextTask :
          /\ entry' = [entry EXCEPT !.rotation = TRUE]
          /\ pc' = [pc EXCEPT ![r] = "rotating", ![m] = "starting"]
          /\ on' = [on EXCEPT ![r] = m]
          /\ Schedule(m, "rotate") BY <1>4 DEF Rotate
  <2>2. m \in Tasks BY NextTaskIs
  <2>3. TasksOK' /\ what'[m] = "rotate" BY <2>1, <2>2, ScheduleTyped, Before
  <2>4. /\ pc' \in [Actors -> Steps] /\ pc'[m] = "starting"
        /\ pc'["turn"] = pc["turn"] /\ pc'["forget"] = pc["forget"] BY <1>1, <2>1, <2>2, ActorsAre, Before DEF Steps
  <2>5. entry \in Entries /\ Known = entry BY <1>4, KnownTyped, Before DEF FilesOK
  <2>6. /\ entry' \in Entries /\ entry'.session = entry.session /\ entry'.sha = entry.sha
        /\ entry'.update = entry.update /\ entry'.handoff = entry.handoff BY <2>1, <2>5 DEF Entries
  <2>7. entry' # NoEntry /\ Known' = entry' BY <2>6, NoEntryAssumption DEF Known
  <2>8. FilesOK' BY <1>2, <2>6, Before DEF FilesOK
  <2>9. GrokTypeOK'
    <3>1. QueuesOK' /\ PlacesOK' /\ CarriedOK' /\ (proc \in Processes)'
          /\ (interrupted \in BOOLEAN)' BY <1>2, <2>1, <2>2, <2>4, Before DEF QueuesOK, PlacesOK, CarriedOK
    <3> QED BY <2>3, <2>8, <3>1, Whole
  <2>10. SameConversation BY <1>2, <2>5, <2>6, <2>7 DEF SameConversation
  <2>11. ProcFades /\ NoOneCloses BY <1>2, <2>4, Before DEF ProcFades, ProcessOK, NoOneCloses
  <2>12. pc'["forget"] = "closing" => spawnQ' # <<>> /\ Head(spawnQ') = Head(spawnQ)
    BY <1>2, <2>4 DEF GrokInv, ForgetClosing
  <2>13. SessionIsMapped' /\ Continued' /\ ProcessOK' /\ TurnClosing' /\ ForgetClosing'
    BY <1>2, <2>8, <2>10, <2>11, <2>12, Quiet
  <2>14. RotationIsUnderway' BY <2>2, <2>3, <2>4 DEF RotationIsUnderway
  <2> QED BY <2>9, <2>13, <2>14 DEF GrokInv
<1> QED BY <1>3, <1>4

LEMMA ForgetKeeps ==
  ASSUME GrokInv, Forget \/ ForgetRefused
  PROVE  GrokInv'
<1>1. "forget" \in Actors /\ "forget" \notin Tasks /\ "turn" # "forget" BY ActorsAre
<1>2. /\ UNCHANGED <<files, proc, lock, on, taskVars, carried, interrupted>>
      /\ \E step \in {"spawning", "idle"} : Go("forget", step)
      /\ \/ spawnQ' = Append(spawnQ, "forget")
         \/ spawnQ # <<>> /\ spawnQ' = Tail(spawnQ) BY DEF Forget, ForgetRefused, AtSpawn
<1>3. PICK step \in {"spawning", "idle"} : Go("forget", step) BY <1>2
<1>4. /\ pc' \in [Actors -> Steps] /\ pc'["forget"] = step
      /\ \A b \in Actors : b # "forget" => pc'[b] = pc[b] BY <1>1, <1>3, Goes, Before DEF Steps
<1>5. spawnQ' \in Seq(Actors)
  <2>1. spawnQ \in Seq(Actors) BY Before DEF QueuesOK
  <2>2. CASE spawnQ' = Append(spawnQ, "forget") BY <1>1, <2>1, <2>2, Joined
  <2>3. CASE spawnQ # <<>> /\ spawnQ' = Tail(spawnQ) BY <2>1, <2>3, FirstLeft
  <2> QED BY <1>2, <2>2, <2>3
<1>6. CountOK' BY Before, Counted, Kinds DEF Forget, ForgetRefused, CountOK
<1>7. QuietStep("forget") BY <1>1, <1>2, <1>4, Before DEF QuietStep, ProcFades, ProcessOK, taskVars
<1>8. (proc \in Processes)' /\ QueuesOK' /\ PlacesOK' /\ TasksOK' /\ CarriedOK'
  BY <1>2, <1>4, <1>5, Before DEF QueuesOK, PlacesOK, TasksOK, CarriedOK, taskVars
<1> QED BY <1>1, <1>6, <1>7, <1>8, QuietKept

LEMMA ForgetStopsKeeps ==
  ASSUME GrokInv, ForgetStops
  PROVE  GrokInv'
<1>1. "forget" \in Actors /\ "turn" \in Actors /\ Tasks \subseteq Actors /\ "forget" \notin Tasks BY ActorsAre
<1>2. /\ spawnQ # <<>> /\ Head(spawnQ) = "forget" /\ proc.known
      /\ Go("forget", "closing") /\ proc' = Gone
      /\ UNCHANGED <<files, lock, spawnQ, on, taskVars, carried, count, interrupted>> BY DEF ForgetStops, AtSpawn
<1>3. /\ pc' \in [Actors -> Steps] /\ pc'["forget"] = "closing"
      /\ \A b \in Actors : b # "forget" => pc'[b] = pc[b] BY <1>1, <1>2, Goes, Before DEF Steps
<1>4. FilesOK' /\ SameConversation /\ Known' = Known BY <1>2, FilesStay
<1>5. GrokTypeOK'
  <2>1. QueuesOK' /\ PlacesOK' /\ TasksOK' /\ CarriedOK' /\ CountOK' /\ (proc \in Processes)'
        /\ (interrupted \in BOOLEAN)' BY <1>2, <1>3, ConstantsTyped, Before
       DEF QueuesOK, PlacesOK, TasksOK, CarriedOK, CountOK, taskVars
  <2> QED BY <1>4, <2>1, Whole
<1>6. pc'["turn"] # "closing" BY <1>1, <1>2, <1>3 DEF GrokInv, TurnClosing
<1>7. SessionIsMapped' /\ ProcessOK' BY <1>2 DEF SessionIsMapped, Warm, ProcessOK, Gone
<1>8. Continued' BY <1>2 DEF GrokInv, Continued, UpdateReachesTheSession, NoteReachesTheSession, Mapped,
     HasSession, Known, files
<1>9. TurnClosing' /\ ForgetClosing' BY <1>2, <1>6 DEF TurnClosing, ForgetClosing, Gone
<1>10. RotationIsUnderway'
  <2>1. TasksGoOn BY <1>1, <1>2, <1>3 DEF TasksGoOn, taskVars
  <2> QED BY <1>2, <1>4, <2>1, RotationStays
<1> QED BY <1>5, <1>7, <1>8, <1>9, <1>10 DEF GrokInv

LEMMA ForgetPurgesKeeps ==
  ASSUME GrokInv, ForgetPurges
  PROVE  GrokInv'
<1>1. "forget" \in Actors /\ "turn" \in Actors /\ Tasks \subseteq Actors /\ "forget" \notin Tasks BY ActorsAre
<1>2. /\ spawnQ # <<>> /\ ~proc.known
      /\ Go("forget", "idle") /\ spawnQ' = Tail(spawnQ)
      /\ entry' = NoEntry /\ sess' = [s \in Sessions |-> Unused] /\ deleted' = InUse
      /\ UNCHANGED <<rules, proc, lock, on, taskVars, carried, count, interrupted>>
  BY DEF ForgetPurges, AtSpawn, GrokInv, ForgetClosing
<1>3. /\ pc' \in [Actors -> Steps] /\ pc'["forget"] = "idle"
      /\ \A b \in Actors : b # "forget" => pc'[b] = pc[b] BY <1>1, <1>2, Goes, Before DEF Steps
<1>4. Known' = Blank BY <1>2 DEF Known
<1>5. InUse \subseteq Sessions
  <2>1. /\ deleted \subseteq Sessions /\ Known.session \in Sessions \cup {NoSession}
        /\ carried.session \in Sessions \cup {NoSession}
        /\ proc.session \in Sessions \cup {NoSession} BY Before DEF FilesOK, Entries, CarriedOK, Processes
  <2> QED BY <2>1 DEF InUse
<1>6. GrokTypeOK'
  <2>1. FilesOK' BY <1>2, <1>5, ConstantsTyped, Before DEF FilesOK
  <2>2. spawnQ' \in Seq(Actors) BY <1>2, FirstLeft, Before DEF QueuesOK
  <2>3. QueuesOK' /\ PlacesOK' /\ TasksOK' /\ CarriedOK' /\ CountOK' /\ (proc \in Processes)'
        /\ (interrupted \in BOOLEAN)'
    BY <1>2, <1>3, <2>2, Before DEF QueuesOK, PlacesOK, TasksOK, CarriedOK, CountOK, taskVars
  <2> QED BY <2>1, <2>3, Whole
<1>7. SessionIsMapped' /\ ProcessOK' BY <1>2, Before DEF SessionIsMapped, Warm, ProcessOK
<1>8. Continued' /\ RotationIsUnderway'
  BY <1>4 DEF Continued, UpdateReachesTheSession, NoteReachesTheSession, Mapped, HasSession,
     RotationIsUnderway, Blank
<1>9. TurnClosing'
  <2>1. SUFFICES ASSUME pc["turn"] = "closing" PROVE TurnClosing' BY <1>1, <1>3 DEF TurnClosing
  <2>2. carried.session # NoSession BY <2>1 DEF GrokInv, TurnClosing
  <2>3. carried'.session \in deleted' BY <1>2, <2>2 DEF InUse
  <2> QED BY <1>2, <1>4, <2>2, <2>3 DEF TurnClosing, Blank
<1>10. ForgetClosing' BY <1>3 DEF ForgetClosing
<1> QED BY <1>6, <1>7, <1>8, <1>9, <1>10 DEF GrokInv

------------------------
(* Deaths and restarts. *)
LEMMA DieKeeps ==
  ASSUME GrokInv, Die
  PROVE  GrokInv'
<1>1. /\ proc.up /\ Fault /\ proc' = Dead
      /\ UNCHANGED <<files, lock, spawnQ, pc, on, taskVars, carried, interrupted>> BY DEF Die
<1>2. Dead \in Processes /\ ~Dead.up /\ Dead.known = proc.known /\ Dead.session = proc.session
  BY Before DEF Dead, Processes
<1>3. FilesOK' /\ SameConversation /\ Known' = Known BY <1>1, FilesStay
<1>4. CountOK' BY <1>1, Before, Counted, Kinds DEF Fault
<1>5. GrokTypeOK'
  <2>1. QueuesOK' /\ PlacesOK' /\ TasksOK' /\ CarriedOK' /\ (proc \in Processes)'
        /\ (interrupted \in BOOLEAN)' BY <1>1, <1>2, Before DEF QueuesOK, PlacesOK, TasksOK, CarriedOK, taskVars
  <2> QED BY <1>3, <1>4, <2>1, Whole
<1>6. ProcFades /\ NoOneCloses BY <1>1, <1>2 DEF ProcFades, NoOneCloses
<1>7. pc'["forget"] = "closing" => spawnQ' # <<>> /\ Head(spawnQ') = Head(spawnQ) BY <1>1 DEF GrokInv, ForgetClosing
<1>8. SessionIsMapped' /\ Continued' /\ ProcessOK' /\ TurnClosing' /\ ForgetClosing' BY <1>1, <1>3, <1>6, <1>7, Quiet
<1>9. RotationIsUnderway'
  <2>1. TasksGoOn BY <1>1 DEF TasksGoOn, taskVars
  <2> QED BY <1>1, <1>3, <2>1, RotationStays
<1> QED BY <1>5, <1>8, <1>9 DEF GrokInv

LEMMA GrokRestartKeeps ==
  ASSUME GrokInv, GrokRestart
  PROVE  GrokInv'
<1>1. /\ Count("restarts") /\ rules' \in {rules, count.restarts + 1}
      /\ proc' = Gone /\ lock' = <<>> /\ spawnQ' = <<>>
      /\ on' = [a \in Waiters |-> NoTask]
      /\ what' = [m \in Tasks |-> "compact"] /\ starting' = <<>> /\ current' = NoTask
      /\ carried' = Nothing /\ interrupted' = Known.rotation
      /\ UNCHANGED <<entry, sess, deleted>> BY DEF GrokRestart
<1>2. PICK ahead \in BOOLEAN :
        pc' = [a \in Actors |-> IF ahead /\ a = "warm" THEN "starting" ELSE "idle"] BY DEF GrokRestart
<1>3. pc' \in [Actors -> Steps] /\ pc'["turn"] # "closing" /\ pc'["forget"] # "closing" BY <1>2, ActorsAre DEF Steps
<1>4. CountOK' /\ count["restarts"] < Limit["restarts"] BY <1>1, Before, Counted, Kinds
<1>5. rules' \in Versions
  <2>1. count["restarts"] \in Nat BY Before, Kinds DEF CountOK
  <2>2. Limit["restarts"] = MaxRestarts BY DEF Limit
  <2> QED BY <1>1, <1>4, <2>1, <2>2, Before, ConstantsTyped DEF Versions, FilesOK
<1>6. Known' = Known BY <1>1 DEF Known
<1>7. GrokTypeOK'
  <2>1. FilesOK' BY <1>1, <1>5, Before DEF FilesOK
  <2>2. QueuesOK' /\ PlacesOK' /\ TasksOK' BY <1>1, <1>3 DEF QueuesOK, PlacesOK, TasksOK
  <2>3. CarriedOK' BY <1>1 DEF CarriedOK, Nothing
  <2>4. (proc \in Processes)' /\ (interrupted \in BOOLEAN)' BY <1>1, ConstantsTyped, Before DEF Entries
  <2> QED BY <1>4, <2>1, <2>2, <2>3, <2>4, Whole
<1>8. SessionIsMapped' /\ ProcessOK' BY <1>1 DEF SessionIsMapped, Warm, ProcessOK, Gone
<1>9. Continued' BY <1>1, <1>6 DEF GrokInv, Continued, UpdateReachesTheSession, NoteReachesTheSession, Mapped,
     HasSession
<1>10. RotationIsUnderway' BY <1>1, <1>6 DEF RotationIsUnderway
<1> QED BY <1>3, <1>7, <1>8, <1>9, <1>10 DEF GrokInv, TurnClosing, ForgetClosing

------------------------
LEMMA GrokInitInv == GrokInit => GrokInv
<1>. SUFFICES ASSUME GrokInit PROVE GrokInv OBVIOUS
<1>1. GrokTypeOK
  <2>1. FilesOK BY ConstantsTyped DEF GrokInit, FilesOK
  <2>2. QueuesOK /\ PlacesOK /\ TasksOK BY DEF GrokInit, QueuesOK, PlacesOK, TasksOK, Steps
  <2>3. CarriedOK BY DEF GrokInit, CarriedOK, Nothing
  <2>4. CountOK
    <3>1. \A k \in DOMAIN Limit : Limit[k] \in Nat BY BoundsAssumption DEF Limit
    <3> QED BY <3>1 DEF GrokInit, CountOK
  <2>5. proc \in Processes /\ interrupted \in BOOLEAN BY ConstantsTyped DEF GrokInit
  <2> QED BY <2>1, <2>2, <2>3, <2>4, <2>5, Parts
<1>2. Known = Blank BY DEF GrokInit, Known
<1>3. SessionIsMapped /\ ProcessOK BY DEF GrokInit, SessionIsMapped, Warm, ProcessOK, Gone
<1>4. Continued /\ RotationIsUnderway
  BY <1>2 DEF Continued, UpdateReachesTheSession, NoteReachesTheSession, Mapped, HasSession,
     RotationIsUnderway, Blank
<1>5. TurnClosing /\ ForgetClosing BY ActorsAre DEF GrokInit, TurnClosing, ForgetClosing
<1> QED BY <1>1, <1>3, <1>4, <1>5 DEF GrokInv

LEMMA StartKeeps ==
  ASSUME GrokInv, NEW a \in Starters, Start(a)
  PROVE  GrokInv' BY SpawnFoundKeeps, LoadSessionKeeps, ForkSessionKeeps, NewSessionKeeps, OpenFailsKeeps DEF Start

LEMMA GrokStepInv == GrokInv /\ [GrokNext]_grokVars => GrokInv'
<1>. SUFFICES ASSUME GrokInv, [GrokNext]_grokVars PROVE GrokInv' OBVIOUS
<1>1. CASE TurnWork
  <2>1. "turn" \in Starters BY ActorsAre
  <2> QED BY <1>1, <2>1, StartKeeps, TurnGoesKeeps, TurnEndsKeeps, TurnEndsBadlyKeeps,
       TurnClosedKeeps DEF TurnWork
<1>2. CASE \E m \in Tasks : TaskWork(m)
  <2>1. PICK m \in Tasks : TaskWork(m) BY <1>2
  <2>2. m \in Starters BY ActorsAre
  <2> QED BY <2>1, <2>2, StartKeeps, CompactedKeeps, NoteWrittenKeeps, RenewedKeeps,
       MaintFailsKeeps DEF TaskWork
<1>3. CASE \E r \in Rotators : RotateWork(r)
  <2>1. PICK r \in Rotators : RotateResume(r) \/ RotateDone(r) BY <1>3 DEF RotateWork
  <2>2. CASE RotateResume(r)
    <3>1. Rotate(r) /\ CountOK' BY <2>2, Before DEF RotateResume, CountOK
    <3> QED BY <3>1, RotateKeeps
  <2> QED BY <2>1, <2>2, RotateWaitsKeeps
<1>4. CASE ForgetWork BY <1>4, ForgetKeeps, ForgetStopsKeeps, ForgetPurgesKeeps DEF ForgetWork
<1>5. CASE MaintStart BY <1>5, MaintStartKeeps
<1>6. CASE Prewarm \/ OthersQueue \/ OthersLeave BY <1>6, OthersKeep
<1>7. CASE Start("warm")
  <2>1. "warm" \in Starters BY ActorsAre
  <2> QED BY <1>7, <2>1, StartKeeps
<1>8. CASE TurnStart BY <1>8, TurnGoesKeeps
<1>9. CASE TurnDies BY <1>9, TurnDiesKeeps
<1>10. CASE TurnTimesOut \/ TurnCancelled BY <1>10, TurnEndsBadlyKeeps
<1>11. CASE \E r \in Rotators : RotateCall(r) \/ RotateNow(r)
  <2>1. PICK r \in Rotators : RotateCall(r) \/ RotateNow(r) BY <1>11
  <2>2. CASE RotateNow(r)
    <3>1. Rotate(r) /\ CountOK' BY <2>2, Before, Counted, Kinds DEF RotateNow
    <3> QED BY <3>1, RotateKeeps
  <2> QED BY <2>1, <2>2, RotateWaitsKeeps
<1>12. CASE Forget BY <1>12, ForgetKeeps
<1>13. CASE Die BY <1>13, DieKeeps
<1>14. CASE GrokRestart BY <1>14, GrokRestartKeeps
<1>15. CASE UNCHANGED grokVars
  <2>1. UNCHANGED <<files, proc, lock, spawnQ, pc, on, taskVars, carried, count, interrupted>> BY <1>15 DEF grokVars
  <2> QED BY <2>1 DEF GrokInv, GrokTypeOK, SessionIsMapped, Continued, UpdateReachesTheSession,
           NoteReachesTheSession, Mapped, HasSession, Known, Warm, RotationIsUnderway, ProcessOK, TurnClosing,
           ForgetClosing, files, taskVars
<1> QED BY <1>1, <1>2, <1>3, <1>4, <1>5, <1>6, <1>7, <1>8, <1>9, <1>10, <1>11, <1>12, <1>13,
     <1>14, <1>15 DEF GrokNext, Work

(* The inductive invariant holds in every reachable state, whatever the    *)
(* fairness of the event loop.                                             *)
THEOREM GrokInvariance == GrokSpec => []GrokInv
BY GrokInitInv, GrokStepInv, PTL DEF GrokSpec

(* Every variable keeps its type, and every count its bound: the two locks *)
(* are queues of those that may wait in them (GrokHarness._agent_for).     *)
THEOREM GrokTypesCorrect == GrokSpec => []GrokTypeOK
<1>1. GrokInv => GrokTypeOK BY DEF GrokInv
<1> QED BY <1>1, GrokInvariance, PTL

(* A turn continues the conversation the instance's entry names, in a      *)
(* session that was told, or is going to be told, the instructions whose   *)
(* hash is stored and the note about the session before it; and a rotation *)
(* that a client sees pending is on its way (GrokHarness._open_session,    *)
(* _after_turn, _rotate).                                                  *)
THEOREM ContinuationHolds == GrokSpec => []ConversationIsContinued
<1>1. GrokInv => ConversationIsContinued BY DEF GrokInv, Continued, ConversationIsContinued
<1> QED BY <1>1, GrokInvariance, PTL

------------------------
(* Deletions. A step keeps the entry's session out of the deleted ones:    *)
(* when it keeps both, or takes a new session, or deletes the entry.       *)
KeepsSession == Known'.session = Known.session /\ deleted' = deleted

LEMMA StartMoves ==
  ASSUME GrokInv, NEW a \in Starters, Start(a)
  PROVE  deleted' = deleted /\ (KeepsSession \/ Known'.session \notin deleted)
<1>1. CASE SpawnFound(a)
  <2>1. UNCHANGED files BY <1>1 DEF SpawnFound
  <2> QED BY <2>1 DEF files, Known, KeepsSession
<1>2. CASE LoadSession(a)
  <2>1. entry' = entry /\ deleted' = deleted BY <1>2 DEF LoadSession, Opened
  <2> QED BY <2>1 DEF Known, KeepsSession
<1>3. CASE ForkSession(a)
  <2>1. PICK f \in FreshSession : entry' = Forked(f) /\ deleted' = deleted BY <1>3 DEF ForkSession, Opened
  <2>2. HasSession BY <1>3 DEF ForkSession
  <2>3. entry \in Entries BY <2>2, KnownTyped, Before DEF HasSession, Known, Blank
  <2>4. f \in Sessions /\ f \notin deleted BY FreshIs
  <2>5. Forked(f) \in Entries /\ Forked(f).session = f BY <2>3, <2>4, Before DEF Forked, Entries, FilesOK
  <2>6. Known' = Forked(f) BY <2>1, <2>5, NoEntryAssumption DEF Known
  <2> QED BY <2>1, <2>4, <2>5, <2>6
<1>4. CASE NewSession(a)
  <2>. DEFINE e(n) == [Known EXCEPT !.session = n, !.sha = rules, !.update = FALSE]
  <2>1. PICK n \in FreshSession : entry' = e(n) /\ deleted' = deleted BY <1>4 DEF NewSession, Opened
  <2>2. n \in Sessions /\ n \notin deleted BY FreshIs
  <2>3. e(n) \in Entries /\ e(n).session = n BY <2>2, Before DEF Entries, FilesOK
  <2>4. Known' = e(n) BY <2>1, <2>3, NoEntryAssumption DEF Known
  <2> QED BY <2>1, <2>2, <2>3, <2>4
<1>5. CASE OpenFails(a)
  <2>1. deleted' = deleted /\ (entry' = entry \/ entry' = GivenUp) BY <1>5 DEF OpenFails
  <2>2. Known' = Known \/ Known' = GivenUp BY <2>1, GivenUpIs, Before DEF Known
  <2> QED BY <2>1, <2>2, GivenUpIs, Before DEF KeepsSession
<1> QED BY <1>1, <1>2, <1>3, <1>4, <1>5 DEF Start

LEMMA TaskMoves ==
  ASSUME GrokInv, NEW m \in Tasks, Compacted(m) \/ NoteWritten(m) \/ Renewed(m) \/ MaintFails(m)
  PROVE  deleted' = deleted /\ (KeepsSession \/ Known'.session \notin deleted)
<1>1. CASE Compacted(m) \/ NoteWritten(m)
  <2>1. entry' = entry /\ deleted' = deleted BY <1>1 DEF Compacted, NoteWritten, MaintEnds, files
  <2> QED BY <2>1 DEF Known, KeepsSession
<1>2. CASE MaintFails(m)
  <2>1. entry' = GivenUp /\ deleted' = deleted BY <1>2 DEF MaintFails, MaintEnds
  <2>2. Known' = GivenUp BY <2>1, GivenUpIs, Before DEF Known
  <2> QED BY <2>1, <2>2, GivenUpIs, Before DEF KeepsSession
<1>3. CASE Renewed(m)
  <2>1. PICK n \in FreshSession : entry' = Rotated(n) /\ deleted' = deleted BY <1>3 DEF Renewed, MaintEnds
  <2>2. n \in Sessions /\ n \notin deleted BY FreshIs
  <2>3. Rotated(n) \in Entries /\ Rotated(n).session = n BY <2>2, Before DEF Rotated, Entries, FilesOK
  <2>4. Known' = Rotated(n) BY <2>1, <2>3, NoEntryAssumption DEF Known
  <2> QED BY <2>1, <2>2, <2>3, <2>4
<1> QED BY <1>1, <1>2, <1>3

LEMMA TurnMoves ==
  ASSUME GrokInv, TurnEnds \/ TurnClosed
  PROVE  /\ deleted' = deleted
         /\ KeepsSession \/ (TurnClosed /\ pc["turn"] = "closing" /\ carried.update)
<1>1. CASE TurnEnds
  <2>1. AfterTurn(proc.session) /\ proc.up /\ rules' = rules /\ deleted' = deleted BY <1>1 DEF TurnEnds
  <2>2. Known.session = proc.session /\ proc.session \in Sessions BY <2>1, ServesIts
  <2>3. entry' \in Entries /\ entry'.session = Known.session BY <2>1, <2>2, AfterTurnIs, Before
  <2>4. Known' = entry' BY <2>3, NoEntryAssumption DEF Known
  <2> QED BY <2>1, <2>3, <2>4 DEF KeepsSession
<1>2. CASE TurnClosed
  <2>1. /\ AfterTurn(carried.session) /\ rules' = rules /\ deleted' = deleted
        /\ pc["turn"] = "closing" BY <1>2 DEF TurnClosed
  <2>2. carried.session \in Sessions \cup {NoSession} BY Before DEF CarriedOK
  <2>3. /\ entry' \in Entries
        /\ entry'.session = IF carried.update THEN carried.session ELSE Known.session
    BY <2>1, <2>2, AfterTurnIs, Before
  <2>4. Known' = entry' BY <2>3, NoEntryAssumption DEF Known
  <2> QED BY <1>2, <2>1, <2>3, <2>4 DEF KeepsSession
<1> QED BY <1>1, <1>2

LEMMA RotateMoves ==
  ASSUME GrokInv, NEW r \in Rotators, Rotate(r)
  PROVE  KeepsSession
<1>1. /\ deleted' = deleted
      /\ entry' = entry \/ (entry # NoEntry /\ entry' = [entry EXCEPT !.rotation = TRUE]) BY DEF Rotate
<1>2. CASE entry' = entry BY <1>1, <1>2 DEF Known, KeepsSession
<1>3. CASE entry # NoEntry /\ entry' = [entry EXCEPT !.rotation = TRUE]
  <2>1. entry \in Entries /\ Known = entry BY <1>3, KnownTyped, Before DEF FilesOK
  <2>2. entry' \in Entries /\ entry'.session = entry.session BY <1>3, <2>1 DEF Entries
  <2>3. Known' = entry' BY <2>2, NoEntryAssumption DEF Known
  <2> QED BY <1>1, <2>1, <2>2, <2>3 DEF KeepsSession
<1> QED BY <1>1, <1>2, <1>3

(* The one step after which a deleted conversation is an instance's again  *)
(* is the end of a turn whose process died, that carried an update         *)
(* (GrokHarness._timed_turn after _drop, against purge_instance).          *)
THEOREM DeletionsStand == GrokSpec => DeletedStaysDeleted
<1>. DEFINE Stands ==
       Known'.session \in deleted' /\ Known.session \notin deleted
         => pc["turn"] = "closing" /\ carried.update
<1>1. GrokInv /\ [GrokNext]_grokVars => [Stands]_grokVars
  <2>. SUFFICES ASSUME GrokInv, GrokNext PROVE Stands OBVIOUS
  <2>1. KeepsSession => Stands BY DEF KeepsSession
  <2>2. deleted' = deleted /\ Known'.session \notin deleted => Stands OBVIOUS
  <2>3. UNCHANGED files => KeepsSession BY DEF files, Known, KeepsSession
  <2>4. ASSUME NEW a \in Starters, Start(a) PROVE Stands BY <2>1, <2>2, <2>4, StartMoves
  <2>5. CASE TurnEnds \/ TurnClosed BY <2>1, <2>5, TurnMoves
  <2>6. CASE \E m \in Tasks : TaskWork(m)
    <3>1. PICK m \in Tasks : TaskWork(m) BY <2>6
    <3>2. m \in Starters BY ActorsAre
    <3> QED BY <2>1, <2>2, <2>4, <3>1, <3>2, TaskMoves DEF TaskWork
  <2>7. CASE \E r \in Rotators : RotateWork(r) \/ RotateCall(r) \/ RotateNow(r)
    <3>1. PICK r \in Rotators : Rotate(r) \/ RotateDone(r) \/ RotateCall(r)
      BY <2>7 DEF RotateWork, RotateResume, RotateNow
    <3>2. CASE Rotate(r) BY <2>1, <3>2, RotateMoves
    <3>3. CASE RotateDone(r) \/ RotateCall(r) BY <2>1, <2>3, <3>3 DEF RotateDone, RotateCall
    <3> QED BY <3>1, <3>2, <3>3
  <2>8. CASE ForgetPurges
    <3>1. Known' = Blank /\ deleted' = InUse BY <2>8 DEF ForgetPurges, Known
    <3>2. Known'.session \notin deleted'
      <4>1. NoSession \notin deleted BY Before, ConstantsTyped DEF FilesOK
      <4> QED BY <3>1, <4>1 DEF Blank, InUse
    <3> QED BY <3>2
  <2>9. CASE GrokRestart
    <3>1. entry' = entry /\ deleted' = deleted BY <2>9 DEF GrokRestart
    <3> QED BY <2>1, <3>1 DEF Known, KeepsSession
  <2>10. CASE TurnDies
    <3>1. entry' = entry /\ deleted' = deleted BY <2>10 DEF TurnDies
    <3> QED BY <2>1, <3>1 DEF Known, KeepsSession
  <2>11. CASE \/ TurnStart \/ TurnResume \/ TurnFails \/ TurnTimesOut \/ TurnCancelled
              \/ MaintStart \/ Prewarm \/ Forget \/ ForgetRefused \/ ForgetStops
              \/ OthersQueue \/ OthersLeave \/ Die
    BY <2>1, <2>3, <2>11 DEF TurnStart, TurnResume, TurnFails, TurnTimesOut, TurnCancelled,
       MaintStart, Prewarm, Forget, ForgetRefused, ForgetStops, OthersQueue, OthersLeave, Die
  <2>12. "turn" \in Starters /\ "warm" \in Starters BY ActorsAre
  <2> QED BY <2>4, <2>5, <2>6, <2>7, <2>8, <2>9, <2>10, <2>11, <2>12 DEF GrokNext, Work, TurnWork, ForgetWork
<1> QED BY <1>1, GrokInvariance, PTL DEF GrokSpec, DeletedStaysDeleted
========================
