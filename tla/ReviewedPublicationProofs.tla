------------ MODULE ReviewedPublicationProofs ------------
(***************************************************************************)
(* Proofs about ExecutorJobs and ReviewedPublication.  A job's step        *)
(* changes one run; LocalStep says what may become of it, and is all that  *)
(* the invariants are proved from.  A publication's step changes no run,   *)
(* and a succeeded run, the only kind that is published, is never changed  *)
(* again.                                                                  *)
(***************************************************************************)
EXTENDS ReviewedPublication, FiniteSetTheorems, SequenceTheorems, TLAPS

------------------------
(* The inductive invariant: runs *)

\* Nothing is in a workspace before it was prepared, so the baseline tag of its first
\* preparation is empty.
WorkspaceKept(w) == w.baseline = {} /\ (~w.prepared => w.work = {})

\* A turn in progress has no pending question; a streaming one has its workspace and its
\* thread's event; one about to start again carries the thread its stream names.
TurnReady(n, w, e, t) ==
  /\ t # Idle => n.pending = 0
  /\ t = "streaming" => w.prepared /\ e.opened
  /\ t = "starting" /\ e.opened => n.thread
  /\ n.status = "absent" => ~e.opened /\ n.pending = 0

\* A succeeded run is harvested whole, has nothing unasked, and is within its cap.
Harvested(n, w) ==
  /\ n.diff # NoDiff => n.status = "succeeded" /\ n.diff = w.work \cap Writable
  /\ n.status = "succeeded" => ~w.asked /\ n.used <= TokensPerRun

\* Only a run a kill has cut may have raised a question its record does not know.
Unknown(n, e) == IF n.status = "interrupted" THEN {e.raised} ELSE {}
Answered(n, e) ==
  /\ 1..e.raised \subseteq e.settled \cup {n.pending} \cup Unknown(n, e)
  /\ n.status \in {"suspended", "failed"} /\ e.opened => n.thread

Good(n, w, e, t) ==
  /\ n.status = "running" <=> t # Idle
  /\ WorkspaceKept(w) /\ TurnReady(n, w, e, t) /\ Harvested(n, w) /\ Answered(n, e)

\* The tokens the day has given away: used, or promised to a run in progress.
Pledged == Used \cup Reserved
WithinCaps == \A r \in Runs : rec[r].used <= TokensPerRun
DayKept == WithinCaps => Cardinality(Pledged) < TokensPerDay + TokensPerRun

RunsGood == \A r \in Runs : Good(rec[r], ws[r], events[r], turn[r])

------------------------
(* The inductive invariant: publications *)

Publishable(r) == rec[r].status = "succeeded" /\ rec[r].diff # NoDiff

\* What the backend holds of a publication once it is saved.
Whole(r) == [run |-> r, diff |-> rec[r].diff, closed |-> TRUE]

\* A saved publication is whole at the backend, and its run is one that may be published.
SavedIsWhole ==
  \A k \in Keys : pubs[k] # NoPub =>
    /\ Publishable(pubs[k].run)
    /\ pubs[k].ext \in DOMAIN ext /\ ext[pubs[k].ext] = Whole(pubs[k].run)

\* A request in flight is alone on its key, holds its claim, and finds nothing saved.
AloneOnKey ==
  \A i, j \in DOMAIN req :
    req[i].at \in InFlight /\ req[j].at \in InFlight /\ req[i].key = req[j].key => i = j
HoldsClaim ==
  \A i \in DOMAIN req : req[i].at \in InFlight =>
    req[i].key \in claims /\ pubs[req[i].key] = NoPub

\* The backend's run of a request is about the run it publishes, and carries the whole
\* diff before it is closed.
OwnEntry ==
  \A i \in DOMAIN req :
    /\ Publishable(req[i].run)
    /\ req[i].at \in {"storing", "closing"} =>
         req[i].ext \in DOMAIN ext /\ ext[req[i].ext].run = req[i].run
    /\ req[i].at = "closing" => ext[req[i].ext].diff = rec[req[i].run].diff

AnswerIsSaved ==
  \A i \in DOMAIN req : req[i].at = "answered" =>
    pubs[req[i].key] = [run |-> req[i].run, ext |-> req[i].ext]

PubInv ==
  /\ SavedIsWhole /\ AloneOnKey /\ HoldsClaim /\ OwnEntry /\ AnswerIsSaved
  /\ ClaimsAreHeld

IInv == PubTypeOK /\ RunsGood /\ DayKept /\ PubInv

------------------------
(* The day's tokens *)

LEMMA TokensAreFinite ==
  ASSUME rec \in [Runs -> Records]
  PROVE  IsFiniteSet(Used) /\ IsFiniteSet(Reserved)
<1>1. ASSUME NEW r \in Runs PROVE IsFiniteSet(UsedBy(r)) /\ IsFiniteSet(ReservedBy(r))
  <2>1. rec[r].used \in Nat BY DEF Records
  <2>2. IsFiniteSet({r}) BY FS_Singleton
  <2>3. IsFiniteSet(1..rec[r].used) /\ IsFiniteSet(rec[r].used + 1..TokensPerRun)
    BY <2>1, FS_Interval, ExecutorAssumption
  <2> QED BY <2>2, <2>3, FS_Product DEF UsedBy, ReservedBy
<1>2. IsFiniteSet(Runs) /\ IsFiniteSet({q \in Runs : rec[q].status = "running"}) BY FS_Subset, ExecutorAssumption
<1>3. IsFiniteSet(Used)
  <2>. DEFINE S == {UsedBy(r) : r \in Runs}
              f == [r \in Runs |-> UsedBy(r)]
  <2>1. f \in Surjection(Runs, S) BY DEF Surjection
  <2>. HIDE DEF f
  <2>2. IsFiniteSet(S) BY <1>2, <2>1, FS_Surjection
  <2>3. \A T \in S : IsFiniteSet(T) BY <1>1
  <2>4. IsFiniteSet(UNION S) BY <2>2, <2>3, FS_UNION
  <2> QED BY <2>4 DEF Used
<1>4. IsFiniteSet(Reserved)
  <2>. DEFINE Q == {q \in Runs : rec[q].status = "running"}
              S == {ReservedBy(r) : r \in Q}
              f == [r \in Q |-> ReservedBy(r)]
  <2>1. f \in Surjection(Q, S) BY DEF Surjection
  <2>. HIDE DEF f
  <2>2. IsFiniteSet(S) BY <1>2, <2>1, FS_Surjection
  <2>3. \A T \in S : IsFiniteSet(T) BY <1>1
  <2>4. IsFiniteSet(UNION S) BY <2>2, <2>3, FS_UNION
  <2> QED BY <2>4 DEF Reserved
<1> QED BY <1>3, <1>4

------------------------
(* What a job's step does to its run *)

\* Run r becomes n, w, e and t; it had not succeeded; it starts only with a slot and a
\* budget, and reports tokens only while it runs.
LocalStep(r, n, w, e, t) ==
  /\ n \in Records /\ w \in Workspaces /\ e \in Streams /\ t \in Turns
  /\ rec' = [rec EXCEPT ![r] = n] /\ ws' = [ws EXCEPT ![r] = w]
  /\ events' = [events EXCEPT ![r] = e] /\ turn' = [turn EXCEPT ![r] = t]
  /\ rec[r].status # "succeeded"
  /\ Good(n, w, e, t)
  /\ t # Idle => turn[r] # Idle \/ SlotFree
  /\ IF n.status = "running"
     THEN n.used = rec[r].used /\ (rec[r].status = "running" \/ BudgetLeft)
     ELSE \/ n.used = rec[r].used
          \/ n.used > rec[r].used /\ rec[r].status = "running"
  /\ blocks' \subseteq Runs
  /\ count' \in [turns: Nat, faults: Nat, boots: Nat] /\ count'.boots = count.boots

JobMove(r) == Launch(r) \/ TurnStep(r) \/ Resume(r) \/ Abandon(r)

\* The record RunStore.finish writes changes the run's status, handle and usage only.
LEMMA FinishedRecord ==
  ASSUME rec \in [Runs -> Records], NEW r \in Runs,
         NEW st \in Statuses, NEW th \in BOOLEAN, NEW u \in Nat
  PROVE  \E n \in Records :
           /\ Finished(r, st, th, u) = [rec EXCEPT ![r] = n]
           /\ n.status = st /\ n.thread = (rec[r].thread \/ th) /\ n.used = rec[r].used + u
           /\ n.pending = rec[r].pending /\ n.evidence = rec[r].evidence /\ n.diff = rec[r].diff
<1>. DEFINE o == rec[r]
            n == [o EXCEPT !.status = st, !.thread = o.thread \/ th, !.used = o.used + u]
<1>1. o \in Records OBVIOUS
<1>2. o.used + u \in Nat /\ (o.thread \/ th) \in BOOLEAN BY <1>1 DEF Records
<1>3. n \in Records BY <1>1, <1>2 DEF Records
<1>4. /\ n.status = st /\ n.thread = (o.thread \/ th) /\ n.used = o.used + u
      /\ n.pending = o.pending /\ n.evidence = o.evidence /\ n.diff = o.diff BY <1>1 DEF Records
<1>5. Finished(r, st, th, u) = [rec EXCEPT ![r] = n] BY <1>1 DEF Finished
<1> QED BY <1>3, <1>4, <1>5

LEMMA MoveIsLocal ==
  ASSUME TypeOK, RunsGood, NEW r \in Runs, JobMove(r)
  PROVE  \E n, w, e, t : LocalStep(r, n, w, e, t)
<1>. DEFINE n0 == rec[r]
            w0 == ws[r]
            e0 == events[r]
            t0 == turn[r]
<1>1. n0 \in Records /\ w0 \in Workspaces /\ e0 \in Streams /\ t0 \in Turns BY DEF TypeOK
<1>2. Good(n0, w0, e0, t0) BY DEF RunsGood
<1>3. /\ rec \in [Runs -> Records] /\ ws \in [Runs -> Workspaces]
      /\ events \in [Runs -> Streams] /\ turn \in [Runs -> Turns]
      /\ blocks \subseteq Runs /\ count \in [turns: Nat, faults: Nat, boots: Nat] BY DEF TypeOK
<1>4. rec = [rec EXCEPT ![r] = n0] /\ ws = [ws EXCEPT ![r] = w0]
      /\ events = [events EXCEPT ![r] = e0] /\ turn = [turn EXCEPT ![r] = t0] BY <1>3
<1>5. /\ n0.status \in Statuses /\ n0.thread \in BOOLEAN /\ n0.pending \in Nat
      /\ n0.evidence \subseteq Runs /\ n0.used \in Nat /\ n0.diff \in {NoDiff} \cup SUBSET Repos
      /\ w0.prepared \in BOOLEAN /\ w0.work \subseteq Repos /\ w0.committed \subseteq Repos
      /\ w0.baseline \subseteq Repos /\ w0.asked \in BOOLEAN
      /\ e0.opened \in BOOLEAN /\ e0.raised \in Nat /\ e0.settled \subseteq Nat
  BY <1>1 DEF Records, Workspaces, Streams
<1>. HIDE DEF n0, w0, e0, t0
<1>6. ASSUME Launch(r) PROVE \E n, w, e, t : LocalStep(r, n, w, e, t)
  <2>. DEFINE n == [n0 EXCEPT !.status = "running"]
  <2>1. n \in Records BY <1>1 DEF Records, Statuses
  <2>2. /\ n.status = "running" /\ n.thread = n0.thread /\ n.pending = n0.pending
        /\ n.used = n0.used /\ n.diff = n0.diff BY <1>1 DEF Records
  <2>3. rec' = [rec EXCEPT ![r] = n] BY <1>3, <1>6 DEF Launch, n0
  <2>. HIDE DEF n
  <2>4. turn' = [turn EXCEPT ![r] = "starting"] BY <1>6 DEF Launch
  <2>5. n0.status = "absent" /\ SlotFree /\ BudgetLeft BY <1>6 DEF Launch, n0
  <2>6. Good(n, w0, e0, "starting")
    BY <1>2, <2>2, <2>5 DEF Good, WorkspaceKept, TurnReady, Harvested, Answered, Unknown, Idle
  <2>7. blocks' = blocks /\ ws' = ws /\ events' = events BY <1>6 DEF Launch
  <2>8. count' \in [turns: Nat, faults: Nat, boots: Nat] /\ count'.boots = count.boots BY <1>3, <1>6 DEF Launch
  <2>9. LocalStep(r, n, w0, e0, "starting")
    BY <1>1, <1>3, <1>4, <2>1, <2>2, <2>3, <2>4, <2>5, <2>6, <2>7, <2>8 DEF LocalStep, Turns, n0
  <2> QED BY <2>9
<1>7. ASSUME turn[r] = "starting",
             UNCHANGED <<rec, count, blocks>>,
             ws' = [ws EXCEPT ![r] = Prepared(@)],
             events' = [events EXCEPT ![r].opened = TRUE],
             turn' = [turn EXCEPT ![r] = "streaming"]
      PROVE  \E n, w, e, t : LocalStep(r, n, w, e, t)
  <2>. DEFINE w == Prepared(w0)
              e == [e0 EXCEPT !.opened = TRUE]
  <2>1. w \in Workspaces /\ w.prepared /\ w.baseline = {} /\ w.work = w0.work /\ w.asked = w0.asked
    BY <1>1, <1>2 DEF Workspaces, Prepared, Good, WorkspaceKept
  <2>2. e \in Streams /\ e.opened /\ e.raised = e0.raised /\ e.settled = e0.settled BY <1>1 DEF Streams
  <2>3. ws' = [ws EXCEPT ![r] = w] BY <1>3, <1>7 DEF w0
  <2>4. events' = [events EXCEPT ![r] = e] BY <1>3, <1>7 DEF e0
  <2>. HIDE DEF w, e
  <2>5. n0.status = "running" /\ t0 = "starting" BY <1>2, <1>7 DEF Good, Idle, t0
  <2>6. Good(n0, w, e, "streaming")
    BY <1>2, <2>1, <2>2, <2>5 DEF Good, WorkspaceKept, TurnReady, Harvested, Answered, Unknown, Idle
  <2>7. LocalStep(r, n0, w, e, "streaming")
    BY <1>1, <1>3, <1>4, <1>7, <2>1, <2>2, <2>3, <2>4, <2>5, <2>6 DEF LocalStep, Turns, n0, t0, Idle
  <2> QED BY <2>7
<1>8. ASSUME turn[r] = "starting", Fault, Over(r), UNCHANGED <<events, blocks>>,
             rec' = Finished(r, "failed", FALSE, 0),
             ws' \in {ws, [ws EXCEPT ![r] = Prepared(@)]}
      PROVE  \E n, w, e, t : LocalStep(r, n, w, e, t)
  <2>1. PICK n \in Records :
          /\ rec' = [rec EXCEPT ![r] = n]
          /\ n.status = "failed" /\ n.thread = n0.thread /\ n.used = n0.used
          /\ n.pending = n0.pending /\ n.diff = n0.diff
    <3>1. "failed" \in Statuses BY DEF Statuses
    <3>. DEFINE th == FALSE
                u == 0
    <3>2. th \in BOOLEAN /\ u \in Nat /\ rec' = Finished(r, "failed", th, u) BY <1>8
    <3>. HIDE DEF th, u
    <3>3. PICK n \in Records :
            /\ rec' = [rec EXCEPT ![r] = n]
            /\ n.status = "failed" /\ n.thread = (rec[r].thread \/ th)
            /\ n.used = rec[r].used + u /\ n.pending = rec[r].pending /\ n.diff = rec[r].diff
      BY <1>3, <3>1, <3>2, FinishedRecord
    <3>4. n.used = n0.used BY <1>5, <3>3 DEF n0, u
    <3>5. n.thread = n0.thread BY <1>5, <3>3 DEF n0, th
    <3> QED BY <3>3, <3>4, <3>5 DEF n0
  <2>2. PICK w \in Workspaces :
          /\ ws' = [ws EXCEPT ![r] = w]
          /\ WorkspaceKept(w) /\ w.work = w0.work /\ w.asked = w0.asked
    <3>1. WorkspaceKept(w0) BY <1>2 DEF Good
    <3>. DEFINE v == Prepared(w0)
    <3>2. v \in Workspaces /\ WorkspaceKept(v) /\ v.work = w0.work /\ v.asked = w0.asked
      BY <1>1, <3>1 DEF Workspaces, Prepared, WorkspaceKept
    <3>3. ws' = ws \/ ws' = [ws EXCEPT ![r] = v] BY <1>3, <1>8 DEF w0
    <3> QED BY <1>1, <1>4, <3>1, <3>2, <3>3
  <2>3. n0.status = "running" /\ t0 = "starting" BY <1>2, <1>8 DEF Good, Idle, t0
  <2>4. turn' = [turn EXCEPT ![r] = Idle] BY <1>8 DEF Over
  <2>5. Good(n, w, e0, Idle) BY <1>2, <2>1, <2>2, <2>3 DEF Good, TurnReady, Harvested, Answered, Unknown, Idle
  <2>6. count' \in [turns: Nat, faults: Nat, boots: Nat] /\ count'.boots = count.boots BY <1>3, <1>8 DEF Fault
  <2>7. LocalStep(r, n, w, e0, Idle)
    BY <1>1, <1>3, <1>4, <1>5, <1>8, <2>1, <2>2, <2>3, <2>4, <2>5, <2>6 DEF LocalStep, Turns, n0
  <2> QED BY <2>7
<1>9. ASSUME Work(r) \/ Ask(r) PROVE \E n, w, e, t : LocalStep(r, n, w, e, t)
  <2>1. turn[r] = "streaming" /\ UNCHANGED <<rec, events, turn, blocks, count>> BY <1>9 DEF Work, Ask
  <2>2. n0.status = "running" /\ t0 = "streaming" /\ w0.prepared BY <1>2, <2>1 DEF Good, TurnReady, Idle, t0
  <2>3. PICK w \in Workspaces :
          ws' = [ws EXCEPT ![r] = w] /\ w.prepared = w0.prepared /\ w.baseline = w0.baseline
    <3>1. CASE Work(r)
      <4>1. PICK p \in Repos, kept \in SUBSET Repos :
              ws' = [ws EXCEPT ![r].work = @ \cup {p}, ![r].committed = @ \cup kept] BY <3>1 DEF Work
      <4>. DEFINE v == [w0 EXCEPT !.work = @ \cup {p}, !.committed = @ \cup kept]
      <4>2. v \in Workspaces /\ v.prepared = w0.prepared /\ v.baseline = w0.baseline BY <1>1 DEF Workspaces
      <4>3. ws' = [ws EXCEPT ![r] = v] BY <1>3, <4>1 DEF w0
      <4> QED BY <4>2, <4>3
    <3>2. CASE Ask(r)
      <4>. DEFINE v == [w0 EXCEPT !.asked = TRUE]
      <4>1. v \in Workspaces /\ v.prepared = w0.prepared /\ v.baseline = w0.baseline BY <1>1 DEF Workspaces
      <4>2. ws' = [ws EXCEPT ![r] = v] BY <1>3, <3>2 DEF w0, Ask
      <4> QED BY <4>1, <4>2
    <3> QED BY <1>9, <3>1, <3>2
  <2>4. Good(n0, w, e0, t0) BY <1>2, <2>2, <2>3 DEF Good, WorkspaceKept, TurnReady, Harvested, Answered, Unknown, Idle
  <2>5. LocalStep(r, n0, w, e0, t0) BY <1>1, <1>3, <1>4, <2>1, <2>2, <2>3, <2>4 DEF LocalStep, n0, t0, Idle
  <2> QED BY <2>5
<1>10. ASSUME Block(r) PROVE \E n, w, e, t : LocalStep(r, n, w, e, t)
  <2>1. turn[r] = "streaming" /\ UNCHANGED <<rec, ws, events, turn, count>> BY <1>10 DEF Block
  <2>2. n0.status = "running" BY <1>2, <2>1 DEF Good, Idle, t0
  <2>3. blocks' \subseteq Runs BY <1>3, <1>10 DEF Block
  <2>4. LocalStep(r, n0, w0, e0, t0) BY <1>1, <1>2, <1>3, <1>4, <2>1, <2>2, <2>3 DEF LocalStep, n0, t0, Idle
  <2> QED BY <2>4
<1>11. ASSUME turn[r] = "streaming", Over(r), UNCHANGED <<ws, events, blocks>>,
              NEW st \in {"suspended", "failed"}, NEW u \in Nat,
              rec' = Finished(r, st, events[r].opened, u),
              count' = count \/ Fault
       PROVE  \E n, w, e, t : LocalStep(r, n, w, e, t)
  <2>1. n0.status = "running" /\ t0 = "streaming" BY <1>2, <1>11 DEF Good, Idle, t0
  <2>2. PICK n \in Records :
          /\ rec' = [rec EXCEPT ![r] = n]
          /\ n.status = st /\ n.thread = (rec[r].thread \/ events[r].opened)
          /\ n.used = rec[r].used + u /\ n.pending = rec[r].pending /\ n.diff = rec[r].diff
    <3>. DEFINE th == events[r].opened
    <3>1. st \in Statuses /\ th \in BOOLEAN /\ rec' = Finished(r, st, th, u) BY <1>5, <1>11 DEF Statuses, e0
    <3>. HIDE DEF th
    <3>2. PICK n \in Records :
            /\ rec' = [rec EXCEPT ![r] = n]
            /\ n.status = st /\ n.thread = (rec[r].thread \/ th)
            /\ n.used = rec[r].used + u /\ n.pending = rec[r].pending /\ n.diff = rec[r].diff
      BY <1>3, <3>1, FinishedRecord
    <3> QED BY <3>2 DEF th
  <2>3. n.used = n0.used \/ n.used > n0.used BY <1>5, <2>2 DEF n0
  <2>4. /\ n.thread = (n0.thread \/ e0.opened)
        /\ n.pending = n0.pending /\ n.diff = n0.diff BY <2>2 DEF n0, e0
  <2>5. Good(n, w0, e0, Idle) BY <1>2, <1>11, <2>1, <2>2, <2>4
    DEF Good, WorkspaceKept, TurnReady, Harvested, Answered, Unknown, Idle
  <2>6. turn' = [turn EXCEPT ![r] = Idle] BY <1>11 DEF Over
  <2>7. count' \in [turns: Nat, faults: Nat, boots: Nat] /\ count'.boots = count.boots BY <1>3, <1>11 DEF Fault
  <2>8. LocalStep(r, n, w0, e0, Idle)
    BY <1>1, <1>3, <1>4, <1>11, <2>1, <2>2, <2>3, <2>5, <2>6, <2>7 DEF LocalStep, Turns, n0
  <2> QED BY <2>8
<1>12. ASSUME turn[r] = "streaming", Quiet(r), Over(r), UNCHANGED <<ws, events, blocks, count>>,
              NEW u \in Nat, ~Exhausted(r, u),
              rec' = [Finished(r, "succeeded", events[r].opened, u) EXCEPT ![r].diff = Diff(ws[r])]
       PROVE  \E n, w, e, t : LocalStep(r, n, w, e, t)
  <2>1. n0.status = "running" /\ t0 = "streaming" BY <1>2, <1>12 DEF Good, Idle, t0
  <2>2. PICK m \in Records :
          /\ Finished(r, "succeeded", events[r].opened, u) = [rec EXCEPT ![r] = m]
          /\ m.status = "succeeded" /\ m.thread = (rec[r].thread \/ events[r].opened)
          /\ m.used = rec[r].used + u /\ m.pending = rec[r].pending /\ m.diff = rec[r].diff
    <3>. DEFINE th == events[r].opened
    <3>1. "succeeded" \in Statuses /\ th \in BOOLEAN BY <1>5 DEF Statuses, e0
    <3>. HIDE DEF th
    <3>2. PICK m \in Records :
            /\ Finished(r, "succeeded", th, u) = [rec EXCEPT ![r] = m]
            /\ m.status = "succeeded" /\ m.thread = (rec[r].thread \/ th)
            /\ m.used = rec[r].used + u /\ m.pending = rec[r].pending /\ m.diff = rec[r].diff
      BY <1>3, <3>1, FinishedRecord
    <3> QED BY <3>2 DEF th
  <2>. DEFINE n == [m EXCEPT !.diff = Diff(w0)]
  <2>3. Diff(w0) = w0.work \cap Writable BY <1>2, <1>5 DEF Diff, Good, WorkspaceKept
  <2>4. n \in Records BY <1>5, <2>2, <2>3 DEF Records
  <2>5. /\ n.status = "succeeded" /\ n.pending = n0.pending
        /\ n.used = n0.used + u /\ n.diff = w0.work \cap Writable BY <2>2, <2>3 DEF Records, n0
  <2>6. rec' = [rec EXCEPT ![r] = n] BY <1>3, <1>12, <2>2 DEF w0
  <2>. HIDE DEF n
  <2>7. n.used <= TokensPerRun BY <1>12, <2>5, <1>5, ExecutorAssumption DEF Exhausted, n0
  <2>8. n.used = n0.used \/ n.used > n0.used BY <1>5, <2>5
  <2>9. ~w0.asked BY <1>12 DEF Quiet, w0
  <2>10. Good(n, w0, e0, Idle) BY <1>2, <2>1, <2>5, <2>7, <2>9
    DEF Good, WorkspaceKept, TurnReady, Harvested, Answered, Unknown, Idle
  <2>11. turn' = [turn EXCEPT ![r] = Idle] BY <1>12 DEF Over
  <2>12. LocalStep(r, n, w0, e0, Idle)
    BY <1>1, <1>3, <1>4, <1>12, <2>1, <2>4, <2>5, <2>6, <2>8, <2>10, <2>11 DEF LocalStep, Turns, n0
  <2> QED BY <2>12
<1>13. ASSUME turn[r] = "streaming", NEW gate \in BOOLEAN, Questioned(r, gate), Over(r),
              UNCHANGED count,
              NEW w \in Workspaces, ws' = [ws EXCEPT ![r] = w],
              w.prepared = w0.prepared, w.baseline = w0.baseline, w.work = w0.work
       PROVE  \E n, v, e, t : LocalStep(r, n, v, e, t)
  <2>1. n0.status = "running" /\ t0 = "streaming" BY <1>2, <1>13 DEF Good, Idle, t0
  <2>. DEFINE id == events[r].raised + 1
              asked == IF gate THEN blocks ELSE {}
  <2>2. PICK u \in 0..MaxUsage :
          rec' = [Finished(r, "suspended", events[r].opened, u) EXCEPT
                    ![r].pending = id, ![r].evidence = asked] BY <1>13 DEF Questioned
  <2>3. u \in Nat BY ExecutorAssumption
  <2>4. PICK m \in Records :
          /\ Finished(r, "suspended", events[r].opened, u) = [rec EXCEPT ![r] = m]
          /\ m.status = "suspended" /\ m.thread = (rec[r].thread \/ events[r].opened)
          /\ m.used = rec[r].used + u /\ m.diff = rec[r].diff
    <3>. DEFINE th == events[r].opened
    <3>1. "suspended" \in Statuses /\ th \in BOOLEAN BY <1>5 DEF Statuses, e0
    <3>. HIDE DEF th
    <3>2. PICK m \in Records :
            /\ Finished(r, "suspended", th, u) = [rec EXCEPT ![r] = m]
            /\ m.status = "suspended" /\ m.thread = (rec[r].thread \/ th)
            /\ m.used = rec[r].used + u /\ m.pending = rec[r].pending /\ m.diff = rec[r].diff
      BY <1>3, <2>3, <3>1, FinishedRecord
    <3> QED BY <3>2 DEF th
  <2>5. id \in Nat /\ asked \subseteq Runs BY <1>3, <1>5 DEF e0
  <2>. DEFINE n == [m EXCEPT !.pending = id, !.evidence = asked]
              e == [e0 EXCEPT !.raised = id]
  <2>6. n \in Records BY <2>4, <2>5 DEF Records
  <2>7. /\ n.status = "suspended" /\ n.pending = id /\ n.thread = (n0.thread \/ e0.opened)
        /\ n.used = n0.used + u /\ n.diff = n0.diff BY <2>4 DEF Records, n0, e0
  <2>8. rec' = [rec EXCEPT ![r] = n] BY <1>3, <2>2, <2>4
  <2>9. e \in Streams /\ e.opened = e0.opened /\ e.raised = id /\ e.settled = e0.settled BY <1>1, <2>5 DEF Streams
  <2>10. events' = [events EXCEPT ![r] = e] BY <1>3, <1>13 DEF Questioned, Raised, e0
  <2>. HIDE DEF n, e, asked
  <2>11. n.used = n0.used \/ n.used > n0.used BY <1>5, <2>3, <2>7
  <2>12. Answered(n, e)
    <3>1. 1..e0.raised \subseteq e0.settled \cup {n0.pending} BY <1>2, <2>1 DEF Good, Answered, Unknown
    <3>2. n0.pending = 0 BY <1>2, <2>1 DEF Good, TurnReady, Idle
    <3>3. id = e0.raised + 1 BY DEF e0
    <3>4. 1..id \subseteq e.settled \cup {id} BY <1>5, <2>9, <3>1, <3>2, <3>3
    <3> QED BY <2>7, <2>9, <3>4 DEF Answered, Unknown
  <2>. HIDE DEF id
  <2>13. Good(n, w, e, Idle) BY <1>2, <1>13, <2>1, <2>7, <2>9, <2>12
    DEF Good, WorkspaceKept, TurnReady, Harvested, Idle
  <2>14. turn' = [turn EXCEPT ![r] = Idle] BY <1>13 DEF Over
  <2>15. blocks' \subseteq Runs BY <1>3, <1>13 DEF Questioned
  <2>16. LocalStep(r, n, w, e, Idle)
    BY <1>1, <1>3, <1>4, <1>13, <2>1, <2>6, <2>7, <2>8, <2>9, <2>10, <2>11, <2>13, <2>14, <2>15
    DEF LocalStep, Turns, n0
  <2> QED BY <2>16
<1>14. ASSUME Resume(r) PROVE \E n, w, e, t : LocalStep(r, n, w, e, t)
  <2>1. /\ n0.status \in {"suspended", "failed"} /\ n0.thread /\ BudgetLeft
        /\ events' = [events EXCEPT ![r] = Settled(r)]
        /\ UNCHANGED <<ws, blocks>> BY <1>14 DEF Resume, Resumable, n0
  <2>2. t0 = Idle BY <1>2, <2>1 DEF Good
  <2>. DEFINE e == [e0 EXCEPT !.settled = @ \cup Settles(r)]
  <2>3. Settles(r) \subseteq Nat /\ Settles(r) = (IF n0.pending = 0 THEN {} ELSE {n0.pending}) BY <1>5 DEF Settles, n0
  <2>4. /\ e \in Streams /\ e.opened = e0.opened /\ e.raised = e0.raised
        /\ e.settled = e0.settled \cup Settles(r) BY <1>1, <2>3 DEF Streams
  <2>5. events' = [events EXCEPT ![r] = e] BY <1>3, <2>1 DEF Settled, e0
  <2>6. 1..e0.raised \subseteq e0.settled \cup {n0.pending} BY <1>2, <2>1 DEF Good, Answered, Unknown
  <2>. HIDE DEF e
  <2>7. CASE SlotFree
    <3>. DEFINE n == [n0 EXCEPT !.status = "running", !.pending = 0, !.evidence = {}]
    <3>1. n \in Records BY <1>1 DEF Records, Statuses
    <3>2. /\ n.status = "running" /\ n.thread = n0.thread /\ n.pending = 0
          /\ n.used = n0.used /\ n.diff = n0.diff BY <1>1 DEF Records
    <3>3. rec' = [rec EXCEPT ![r] = n] BY <1>3, <1>14, <2>7 DEF Resume, n0
    <3>. HIDE DEF n
    <3>4. turn' = [turn EXCEPT ![r] = "starting"] BY <1>14, <2>7 DEF Resume
    <3>5. 1..e.raised \subseteq e.settled \cup {n.pending} BY <1>5, <2>3, <2>4, <2>6, <3>2
    <3>6. Good(n, w0, e, "starting") BY <1>2, <2>1, <2>2, <2>4, <3>2, <3>5
      DEF Good, WorkspaceKept, TurnReady, Harvested, Answered, Unknown, Idle
    <3>7. count' \in [turns: Nat, faults: Nat, boots: Nat] /\ count'.boots = count.boots
      BY <1>3, <1>14, <2>7 DEF Resume
    <3>8. LocalStep(r, n, w0, e, "starting")
      BY <1>1, <1>3, <1>4, <2>1, <2>4, <2>5, <2>7, <3>1, <3>2, <3>3, <3>4, <3>6, <3>7 DEF LocalStep, Turns, n0
    <3> QED BY <3>8
  <2>8. CASE ~SlotFree
    <3>1. UNCHANGED <<rec, turn, count>> BY <1>14, <2>8 DEF Resume
    <3>2. 1..e.raised \subseteq e.settled \cup {n0.pending} BY <2>4, <2>6
    <3>3. Good(n0, w0, e, t0) BY <1>2, <2>1, <2>2, <2>4, <3>2
      DEF Good, WorkspaceKept, TurnReady, Harvested, Answered, Unknown, Idle
    <3>4. /\ rec' = [rec EXCEPT ![r] = n0] /\ ws' = [ws EXCEPT ![r] = w0]
          /\ turn' = [turn EXCEPT ![r] = t0] /\ blocks' \subseteq Runs
          /\ count' \in [turns: Nat, faults: Nat, boots: Nat] /\ count'.boots = count.boots BY <1>3, <1>4, <2>1, <3>1
    <3>5. rec[r].status # "succeeded" /\ n0.status # "running" /\ n0.used = rec[r].used BY <2>1 DEF n0
    <3>6. LocalStep(r, n0, w0, e, t0) BY <1>1, <2>2, <2>4, <2>5, <3>3, <3>4, <3>5 DEF LocalStep
    <3> QED BY <3>6
  <2> QED BY <2>7, <2>8
<1>15. ASSUME Abandon(r) PROVE \E n, w, e, t : LocalStep(r, n, w, e, t)
  <2>1. n0.status \in {"suspended", "failed"} /\ UNCHANGED <<events, turn, blocks, count>> BY <1>15 DEF Abandon, n0
  <2>2. t0 = Idle BY <1>2, <2>1 DEF Good
  <2>. DEFINE n == [n0 EXCEPT !.status = "abandoned"]
              v == [prepared |-> FALSE, work |-> {}, committed |-> {}, baseline |-> {},
                    asked |-> FALSE]
  <2>3. n \in Records BY <1>1 DEF Records, Statuses
  <2>4. /\ n.status = "abandoned" /\ n.pending = n0.pending
        /\ n.used = n0.used /\ n.diff = n0.diff BY <1>1 DEF Records
  <2>5. rec' = [rec EXCEPT ![r] = n] BY <1>3, <1>15 DEF Abandon, n0
  <2>6. PICK w \in Workspaces : ws' = [ws EXCEPT ![r] = w] /\ WorkspaceKept(w)
    <3>1. WorkspaceKept(w0) BY <1>2 DEF Good
    <3>2. v \in Workspaces /\ WorkspaceKept(v) BY DEF Workspaces, WorkspaceKept
    <3>3. ws' = ws \/ ws' = [ws EXCEPT ![r] = v] BY <1>15 DEF Abandon
    <3> QED BY <1>1, <1>4, <3>1, <3>2, <3>3
  <2>. HIDE DEF n
  <2>7. Good(n, w, e0, t0) BY <1>2, <2>1, <2>2, <2>4, <2>6 DEF Good, TurnReady, Harvested, Answered, Unknown, Idle
  <2>8. /\ events' = [events EXCEPT ![r] = e0]
        /\ turn' = [turn EXCEPT ![r] = t0] /\ blocks' \subseteq Runs
        /\ count' \in [turns: Nat, faults: Nat, boots: Nat] /\ count'.boots = count.boots BY <1>3, <1>4, <2>1
  <2>9. rec[r].status # "succeeded" /\ n.status # "running" /\ n.used = rec[r].used BY <2>1, <2>4 DEF n0
  <2>10. LocalStep(r, n, w, e0, t0) BY <1>1, <2>2, <2>3, <2>5, <2>6, <2>7, <2>8, <2>9 DEF LocalStep
  <2> QED BY <2>10
<1>16. ASSUME Prepare(r) PROVE \E n, w, e, t : LocalStep(r, n, w, e, t) BY <1>7, <1>8, <1>16 DEF Prepare
<1>17. ASSUME AgentAsks(r) PROVE \E n, w, e, t : LocalStep(r, n, w, e, t)
  <2>. DEFINE w == [w0 EXCEPT !.asked = FALSE]
  <2>1. w \in Workspaces /\ w.prepared = w0.prepared /\ w.baseline = w0.baseline /\ w.work = w0.work
    BY <1>1 DEF Workspaces
  <2>2. ws' = [ws EXCEPT ![r] = w] BY <1>3, <1>17 DEF AgentAsks, Archived, w0
  <2>. HIDE DEF w
  <2>3. turn[r] = "streaming" /\ Questioned(r, FALSE) /\ Over(r) /\ UNCHANGED count BY <1>17 DEF AgentAsks
  <2>. DEFINE gate == FALSE
  <2>4. gate \in BOOLEAN /\ Questioned(r, gate) BY <2>3
  <2>. HIDE DEF gate
  <2> QED BY <1>13, <2>1, <2>2, <2>3, <2>4
<1>18. ASSUME GateAsks(r) PROVE \E n, w, e, t : LocalStep(r, n, w, e, t)
  <2>1. turn[r] = "streaming" /\ Questioned(r, TRUE) /\ Over(r) /\ UNCHANGED <<ws, count>> BY <1>18 DEF GateAsks
  <2>. DEFINE gate == TRUE
  <2>2. gate \in BOOLEAN /\ Questioned(r, gate) BY <2>1
  <2>. HIDE DEF gate
  <2>3. ws' = [ws EXCEPT ![r] = w0] BY <1>4, <2>1
  <2> QED BY <1>1, <1>13, <2>1, <2>2, <2>3
<1>19. ASSUME BudgetStops(r) \/ Harvest(r) \/ TurnCrashes(r) \/ TimesOut(r)
       PROVE  \E n, w, e, t : LocalStep(r, n, w, e, t)
  <2>1. turn[r] = "streaming" /\ Over(r) /\ UNCHANGED <<ws, events, blocks>>
    BY <1>19 DEF BudgetStops, Harvest, TurnCrashes, TimesOut
  <2>2. 0..MaxUsage \subseteq Nat BY ExecutorAssumption
  <2>3. CASE BudgetStops(r)
    <3>1. PICK u \in 0..MaxUsage : rec' = Finished(r, "suspended", events[r].opened, u) BY <2>3 DEF BudgetStops
    <3>2. count' = count BY <2>3 DEF BudgetStops
    <3> QED BY <1>11, <2>1, <2>2, <3>1, <3>2
  <2>4. CASE Harvest(r)
    <3>1. PICK u \in 0..MaxUsage :
            /\ ~Exhausted(r, u)
            /\ \/ /\ rec' = [Finished(r, "succeeded", events[r].opened, u)
                               EXCEPT ![r].diff = Diff(ws[r])]
                  /\ UNCHANGED count
               \/ Fault /\ rec' = Finished(r, "failed", events[r].opened, u) BY <2>4 DEF Harvest
    <3>2. Quiet(r) BY <2>4 DEF Harvest
    <3> QED BY <1>11, <1>12, <2>1, <2>2, <3>1, <3>2
  <2>5. CASE TurnCrashes(r)
    <3>1. PICK u \in 0..MaxUsage : rec' = Finished(r, "failed", events[r].opened, u) BY <2>5 DEF TurnCrashes
    <3>2. Fault BY <2>5 DEF TurnCrashes
    <3> QED BY <1>11, <2>1, <2>2, <3>1, <3>2
  <2>6. CASE TimesOut(r)
    <3>1. rec' = Finished(r, "suspended", events[r].opened, 0) /\ Fault BY <2>6 DEF TimesOut, TimeoutThread
    <3>2. 0 \in Nat OBVIOUS
    <3> QED BY <1>11, <2>1, <3>1, <3>2
  <2> QED BY <1>19, <2>3, <2>4, <2>5, <2>6
<1> QED BY <1>6, <1>9, <1>10, <1>14, <1>15, <1>16, <1>17, <1>18, <1>19 DEF JobMove, TurnStep

\* While every run is within its cap, a step that gives away no new token keeps the day.
LEMMA DayIsKept ==
  ASSUME rec \in [Runs -> Records], rec' \in [Runs -> Records], DayKept,
         \A q \in Runs :
           \/ rec'[q].used = rec[q].used /\ (rec'[q].status = "running" => rec[q].status = "running")
           \/ /\ rec'[q].used > rec[q].used /\ rec[q].status = "running"
              /\ rec'[q].status # "running"
  PROVE  DayKept'
<1>. SUFFICES ASSUME WithinCaps' PROVE (Cardinality(Pledged) < TokensPerDay + TokensPerRun)' BY DEF DayKept
<1>1. \A q \in Runs : rec[q].used \in Nat /\ rec'[q].used \in Nat /\ rec'[q].used <= TokensPerRun
  BY DEF WithinCaps, Records
<1>2. WithinCaps
  <2>. SUFFICES ASSUME NEW q \in Runs PROVE rec[q].used <= TokensPerRun BY DEF WithinCaps
  <2>1. PICK a \in Nat : rec'[q].used = a BY <1>1
  <2>2. PICK b \in Nat : rec[q].used = b BY <1>1
  <2>3. a <= TokensPerRun /\ (a = b \/ a > b) BY <1>1, <2>1, <2>2
  <2> QED BY <2>2, <2>3, ExecutorAssumption
<1>3. ASSUME NEW q \in Runs
      PROVE  /\ UsedBy(q)' \subseteq Pledged
             /\ rec'[q].status = "running" => ReservedBy(q)' \subseteq Pledged
  <2>1. PICK a \in Nat : rec'[q].used = a BY <1>1
  <2>2. PICK b \in Nat : rec[q].used = b BY <1>1
  <2>3. UsedBy(q)' = {q} \X (1..a) /\ ReservedBy(q)' = {q} \X (a + 1..TokensPerRun) BY <2>1 DEF UsedBy, ReservedBy
  <2>4. {q} \X (1..b) \subseteq Pledged BY <2>2 DEF Pledged, Used, UsedBy
  <2>5. rec[q].status = "running" => {q} \X (b + 1..TokensPerRun) \subseteq Pledged
    BY <2>2 DEF Pledged, Reserved, ReservedBy
  <2>6. a <= TokensPerRun BY <1>1, <2>1
  <2>7. CASE a = b /\ (rec'[q].status = "running" => rec[q].status = "running") BY <2>3, <2>4, <2>5, <2>7
  <2>8. CASE a > b /\ rec[q].status = "running" /\ rec'[q].status # "running"
    <3>1. 1..a \subseteq (1..b) \cup (b + 1..TokensPerRun) BY <2>6, ExecutorAssumption
    <3> QED BY <2>3, <2>4, <2>5, <2>8, <3>1
  <2> QED BY <2>1, <2>2, <2>7, <2>8
<1>4. Pledged' \subseteq Pledged
  <2>1. Used' \subseteq Pledged BY <1>3 DEF Used
  <2>2. Reserved' \subseteq Pledged BY <1>3 DEF Reserved
  <2> QED BY <2>1, <2>2 DEF Pledged
<1>5. IsFiniteSet(Pledged) BY TokensAreFinite, FS_Union DEF Pledged
<1>6. PICK S : S = Pledged' OBVIOUS
<1>7. Cardinality(S) <= Cardinality(Pledged) /\ Cardinality(S) \in Nat
  BY <1>4, <1>5, <1>6, FS_Subset, FS_CardinalityType
<1>8. Cardinality(Pledged) \in Nat /\ Cardinality(Pledged) < TokensPerDay + TokensPerRun
  BY <1>2, <1>5, FS_CardinalityType DEF DayKept
<1>9. Cardinality(S) < TokensPerDay + TokensPerRun BY <1>7, <1>8, ExecutorAssumption
<1> QED BY <1>6, <1>9

\* A run that starts takes at most one cap of a day that has something left.
LEMMA DayIsExtended ==
  ASSUME rec \in [Runs -> Records], rec' \in [Runs -> Records], BudgetLeft, NEW r \in Runs,
         \A q \in Runs :
           rec'[q].used = rec[q].used /\ (q # r => rec'[q].status = rec[q].status)
  PROVE  DayKept'
<1>. DEFINE Cap == {r} \X (1..TokensPerRun)
<1>1. IsFiniteSet(Used) /\ IsFiniteSet(Reserved) BY TokensAreFinite
<1>2. /\ Cardinality(Used) \in Nat /\ Cardinality(Reserved) \in Nat
      /\ Cardinality(Used \cap Reserved) \in Nat BY <1>1, FS_CardinalityType, FS_Subset
<1>3. IsFiniteSet(Pledged) /\ Cardinality(Pledged) < TokensPerDay
  <2>1. IsFiniteSet(Pledged) BY <1>1, FS_Union DEF Pledged
  <2>2. Cardinality(Pledged) = Cardinality(Used) + Cardinality(Reserved) - Cardinality(Used \cap Reserved)
    BY <1>1, FS_Union DEF Pledged
  <2>3. Cardinality(Used) + Cardinality(Reserved) < TokensPerDay BY DEF BudgetLeft, TokensUsed
  <2> QED BY <1>2, <2>1, <2>2, <2>3, ExecutorAssumption
<1>4. IsFiniteSet(Cap) /\ Cardinality(Cap) = TokensPerRun
  <2>1. IsFiniteSet({r}) /\ Cardinality({r}) = 1 BY FS_Singleton
  <2>2. IsFiniteSet(1..TokensPerRun) /\ Cardinality(1..TokensPerRun) = TokensPerRun BY FS_Interval, ExecutorAssumption
  <2>3. IsFiniteSet(Cap) /\ Cardinality(Cap) = Cardinality({r}) * Cardinality(1..TokensPerRun)
    BY <2>1, <2>2, FS_Product
  <2>4. 1 * TokensPerRun = TokensPerRun BY ExecutorAssumption
  <2> QED BY <2>1, <2>2, <2>3, <2>4
<1>. HIDE DEF Cap
<1>5. /\ IsFiniteSet(Pledged \cup Cap)
      /\ Cardinality(Pledged \cup Cap) < TokensPerDay + TokensPerRun
  <2>1. /\ IsFiniteSet(Pledged \cup Cap)
        /\ Cardinality(Pledged \cup Cap)
             = Cardinality(Pledged) + Cardinality(Cap) - Cardinality(Pledged \cap Cap) BY <1>3, <1>4, FS_Union
  <2>2. Cardinality(Pledged) \in Nat /\ Cardinality(Pledged \cap Cap) \in Nat BY <1>3, FS_CardinalityType, FS_Subset
  <2> QED BY <1>3, <1>4, <2>1, <2>2, ExecutorAssumption
<1>6. Pledged' \subseteq Pledged \cup Cap
  <2>1. ASSUME NEW q \in Runs
        PROVE  /\ UsedBy(q)' \subseteq Pledged
               /\ rec'[q].status = "running" => ReservedBy(q)' \subseteq Pledged \cup Cap
    <3>1. PICK b \in Nat : rec[q].used = b BY DEF Records
    <3>2. UsedBy(q)' = {q} \X (1..b) /\ ReservedBy(q)' = {q} \X (b + 1..TokensPerRun) BY <3>1 DEF UsedBy, ReservedBy
    <3>3. {q} \X (1..b) \subseteq Pledged BY <3>1 DEF Pledged, Used, UsedBy
    <3>4. rec[q].status = "running" => {q} \X (b + 1..TokensPerRun) \subseteq Pledged
      BY <3>1 DEF Pledged, Reserved, ReservedBy
    <3>5. q = r => {q} \X (b + 1..TokensPerRun) \subseteq Cap BY <3>1, ExecutorAssumption DEF Cap
    <3> QED BY <3>2, <3>3, <3>4, <3>5
  <2>2. Used' \subseteq Pledged BY <2>1 DEF Used
  <2>3. Reserved' \subseteq Pledged \cup Cap BY <2>1 DEF Reserved
  <2> QED BY <2>2, <2>3 DEF Pledged
<1>7. PICK S : S = Pledged' OBVIOUS
<1>8. Cardinality(S) <= Cardinality(Pledged \cup Cap) /\ Cardinality(S) \in Nat
  BY <1>5, <1>6, <1>7, FS_Subset, FS_CardinalityType
<1>9. Cardinality(Pledged \cup Cap) \in Nat BY <1>5, FS_CardinalityType
<1>10. Cardinality(S) < TokensPerDay + TokensPerRun BY <1>5, <1>8, <1>9, ExecutorAssumption
<1> QED BY <1>7, <1>10 DEF DayKept

------------------------

\* A succeeded run, the only kind that is published, is final, with its workspace.
SuccessStands ==
  \A q \in Runs : rec[q].status = "succeeded" => rec'[q] = rec[q] /\ ws'[q] = ws[q]

LEMMA LocalStepKeeps ==
  ASSUME TypeOK, RunsGood, DayKept, NEW r \in Runs, NEW n, NEW w, NEW e, NEW t,
         LocalStep(r, n, w, e, t)
  PROVE  TypeOK' /\ RunsGood' /\ DayKept' /\ SuccessStands
<1>1. /\ n \in Records /\ w \in Workspaces /\ e \in Streams /\ t \in Turns
      /\ rec' = [rec EXCEPT ![r] = n] /\ ws' = [ws EXCEPT ![r] = w]
      /\ events' = [events EXCEPT ![r] = e] /\ turn' = [turn EXCEPT ![r] = t] BY DEF LocalStep
<1>2. /\ rec \in [Runs -> Records] /\ ws \in [Runs -> Workspaces]
      /\ events \in [Runs -> Streams] /\ turn \in [Runs -> Turns] BY DEF TypeOK
<1>3. /\ rec' \in [Runs -> Records] /\ ws' \in [Runs -> Workspaces]
      /\ events' \in [Runs -> Streams] /\ turn' \in [Runs -> Turns] BY <1>1, <1>2
<1>4. RunsGood' /\ \A q \in Runs : rec'[q].status = "running" <=> turn'[q] # Idle
  <2>1. ASSUME NEW q \in Runs PROVE Good(rec'[q], ws'[q], events'[q], turn'[q])
    <3>1. CASE q = r
      <4>1. rec'[q] = n /\ ws'[q] = w /\ events'[q] = e /\ turn'[q] = t BY <1>1, <1>2, <3>1
      <4> QED BY <4>1 DEF LocalStep
    <3>2. CASE q # r
      <4>1. /\ rec'[q] = rec[q] /\ ws'[q] = ws[q]
            /\ events'[q] = events[q] /\ turn'[q] = turn[q] BY <1>1, <1>2, <3>2
      <4> QED BY <4>1 DEF RunsGood
    <3> QED BY <3>1, <3>2
  <2>2. \A q \in Runs : rec'[q].status = "running" <=> turn'[q] # Idle BY <2>1 DEF Good
  <2> QED BY <2>1, <2>2 DEF RunsGood
<1>5. Cardinality({q \in Runs : turn'[q] # Idle}) <= MaxConcurrent
  <2>. DEFINE A == {q \in Runs : turn[q] # Idle}
              B == {q \in Runs : turn'[q] # Idle}
  <2>1. IsFiniteSet(A) /\ IsFiniteSet(B) BY FS_Subset, ExecutorAssumption
  <2>2. Cardinality(A) \in Nat /\ Cardinality(B) \in Nat BY <2>1, FS_CardinalityType
  <2>3. Cardinality(A) <= MaxConcurrent BY DEF TypeOK
  <2>4. CASE t = Idle \/ turn[r] # Idle
    <3>1. B \subseteq A BY <1>1, <1>2, <2>4
    <3>2. Cardinality(B) <= Cardinality(A) BY <2>1, <3>1, FS_Subset
    <3> QED BY <2>2, <2>3, <3>2, ExecutorAssumption
  <2>5. CASE t # Idle /\ turn[r] = Idle
    <3>1. Cardinality(A) < MaxConcurrent BY <2>5 DEF LocalStep, SlotFree
    <3>2. B \subseteq A \cup {r} BY <1>1, <1>2
    <3>3. IsFiniteSet(A \cup {r}) /\ Cardinality(A \cup {r}) <= Cardinality(A) + 1 BY <2>1, <2>2, FS_AddElement
    <3>4. Cardinality(B) <= Cardinality(A \cup {r}) BY <3>2, <3>3, FS_Subset
    <3>5. Cardinality(A \cup {r}) \in Nat BY <3>3, FS_CardinalityType
    <3> QED BY <2>2, <3>1, <3>3, <3>4, <3>5, ExecutorAssumption
  <2> QED BY <2>4, <2>5
<1>6. TypeOK' BY <1>3, <1>4, <1>5 DEF TypeOK, LocalStep
<1>7. DayKept'
  <2>. DEFINE Starts == n.status = "running" /\ rec[r].status # "running"
  <2>1. \A q \in Runs : q # r => rec'[q] = rec[q] BY <1>1, <1>2
  <2>2. rec'[r] = n BY <1>1, <1>2
  <2>3. CASE Starts
    <3>1. BudgetLeft /\ n.used = rec[r].used BY <2>3 DEF LocalStep
    <3> QED BY <1>2, <1>3, <2>1, <2>2, <3>1, DayIsExtended
  <2>4. CASE ~Starts
    <3>1. ASSUME NEW q \in Runs
          PROVE  \/ /\ rec'[q].used = rec[q].used
                    /\ rec'[q].status = "running" => rec[q].status = "running"
                 \/ /\ rec'[q].used > rec[q].used /\ rec[q].status = "running"
                    /\ rec'[q].status # "running"
      <4>1. CASE q # r BY <2>1, <4>1
      <4>2. CASE q = r
        <5>1. CASE n.status = "running" BY <2>2, <2>4, <4>2, <5>1 DEF LocalStep
        <5>2. CASE n.status # "running" BY <2>2, <4>2, <5>2 DEF LocalStep
        <5> QED BY <5>1, <5>2
      <4> QED BY <4>1, <4>2
    <3> QED BY <1>2, <1>3, <3>1, DayIsKept
  <2> QED BY <2>3, <2>4
<1>8. SuccessStands BY <1>1, <1>2 DEF SuccessStands, LocalStep
<1> QED BY <1>4, <1>6, <1>7, <1>8

\* What a kill leaves of a run is a run the sweep may close: a question it cut from its
\* record is that of an interrupted run.
LEMMA HalfIsGood ==
  ASSUME TypeOK, RunsGood, NEW r \in Runs, NEW half \in Halves(r)
  PROVE  /\ half[1] \in Workspaces /\ half[2] \in Streams
         /\ Good(Swept[r], half[1], half[2], Idle)
         /\ rec[r].status = "succeeded" => half[1] = ws[r]
<1>. DEFINE o == rec[r]
            w == half[1]
            e == half[2]
<1>1. /\ o \in Records /\ ws[r] \in Workspaces /\ events[r] \in Streams
      /\ Good(o, ws[r], events[r], turn[r]) BY DEF TypeOK, RunsGood
<1>2. /\ events[r].raised \in Nat /\ events[r].settled \subseteq Nat /\ Settles(r) \subseteq Nat
      /\ Settles(r) = IF o.pending = 0 THEN {} ELSE {o.pending} BY <1>1 DEF Streams, Records, Settles
<1>3. \/ w = ws[r] /\ e = events[r]
      \/ turn[r] = "starting" /\ w = Prepared(ws[r]) /\ e = events[r]
      \/ turn[r] = "streaming" /\ w \in {ws[r], Archived(r)} /\ e \in {events[r], Raised(r)}
      \/ Resumable(r) /\ w = ws[r] /\ e = Settled(r)
  <2>. DEFINE A == {<<ws[r], events[r]>>}
              B == IF turn[r] = "starting" THEN {<<Prepared(ws[r]), events[r]>>} ELSE {}
              C == IF turn[r] = "streaming" /\ ws[r].asked
                   THEN {<<Archived(r), events[r]>>, <<Archived(r), Raised(r)>>} ELSE {}
              D == IF turn[r] = "streaming" /\ ~ws[r].asked /\ blocks # {}
                   THEN {<<ws[r], Raised(r)>>} ELSE {}
              E == IF Resumable(r) THEN {<<ws[r], Settled(r)>>} ELSE {}
  <2>1. half \in A \/ half \in B \/ half \in C \/ half \in D \/ half \in E BY DEF Halves
  <2>2. half \in A => w = ws[r] /\ e = events[r] OBVIOUS
  <2>3. half \in B => turn[r] = "starting" /\ w = Prepared(ws[r]) /\ e = events[r] OBVIOUS
  <2>4. half \in C => turn[r] = "streaming" /\ w = Archived(r) /\ e \in {events[r], Raised(r)} OBVIOUS
  <2>5. half \in D => turn[r] = "streaming" /\ w = ws[r] /\ e = Raised(r) OBVIOUS
  <2>6. half \in E => Resumable(r) /\ w = ws[r] /\ e = Settled(r) OBVIOUS
  <2> QED BY <2>1, <2>2, <2>3, <2>4, <2>5, <2>6
<1>4. /\ w \in Workspaces /\ WorkspaceKept(w) /\ w.work = ws[r].work
      /\ w.asked => ws[r].asked
  <2>1. Prepared(ws[r]) \in Workspaces /\ Archived(r) \in Workspaces BY <1>1 DEF Workspaces, Prepared, Archived
  <2>2. /\ WorkspaceKept(Prepared(ws[r])) /\ Prepared(ws[r]).work = ws[r].work
        /\ Prepared(ws[r]).asked = ws[r].asked BY <1>1 DEF Workspaces, Prepared, Good, WorkspaceKept
  <2>3. /\ WorkspaceKept(Archived(r)) /\ Archived(r).work = ws[r].work
        /\ ~Archived(r).asked BY <1>1 DEF Workspaces, Archived, Good, WorkspaceKept
  <2> QED BY <1>1, <1>3, <2>1, <2>2, <2>3 DEF Good
<1>5. /\ Raised(r) \in Streams /\ Raised(r).opened = events[r].opened
      /\ Raised(r).raised = events[r].raised + 1 /\ Raised(r).settled = events[r].settled
      /\ Settled(r) \in Streams /\ Settled(r).opened = events[r].opened
      /\ Settled(r).raised = events[r].raised
      /\ Settled(r).settled = events[r].settled \cup Settles(r) BY <1>1, <1>2 DEF Streams, Raised, Settled
<1>6. CASE o.status = "running"
  <2>. DEFINE n == [o EXCEPT !.status = "interrupted"]
  <2>1. Swept[r] = n BY <1>6 DEF Swept
  <2>2. /\ n.status = "interrupted" /\ n.pending = o.pending /\ n.diff = o.diff BY <1>1 DEF Records
  <2>. HIDE DEF n
  <2>3. o.pending = 0 /\ ~Resumable(r) /\ 1..events[r].raised \subseteq events[r].settled \cup {0}
    BY <1>1, <1>6 DEF Good, TurnReady, Answered, Unknown, Resumable
  <2>4. e \in {events[r], Raised(r)} BY <1>3, <2>3
  <2>5. Answered(n, e)
    <3>1. 1..events[r].raised \subseteq events[r].settled \cup {0} \cup {events[r].raised} BY <2>3
    <3>2. 1..Raised(r).raised \subseteq Raised(r).settled \cup {0} \cup {Raised(r).raised} BY <1>2, <1>5, <2>3
    <3> QED BY <2>2, <2>3, <2>4, <3>1, <3>2 DEF Answered, Unknown
  <2>6. Good(n, w, e, Idle) BY <1>1, <1>4, <1>6, <2>2, <2>5 DEF Good, TurnReady, Harvested, Idle
  <2> QED BY <1>1, <1>4, <1>5, <1>6, <2>1, <2>4, <2>6
<1>7. CASE o.status # "running"
  <2>1. Swept[r] = o BY <1>7 DEF Swept
  <2>2. turn[r] = Idle BY <1>1, <1>7 DEF Good
  <2>3. w = ws[r] /\ (e = events[r] \/ (Resumable(r) /\ e = Settled(r)))
    <3>1. turn[r] \notin {"starting", "streaming"} BY <2>2 DEF Idle
    <3>. HIDE DEF w, e
    <3> QED BY <1>3, <3>1
  <2>4. CASE e = events[r] BY <1>1, <2>1, <2>2, <2>3, <2>4
  <2>5. CASE Resumable(r) /\ e = Settled(r)
    <3>1. o.status \in {"suspended", "failed"} /\ o.thread BY <2>5 DEF Resumable
    <3>2. 1..events[r].raised \subseteq events[r].settled \cup {o.pending} BY <1>1, <3>1 DEF Good, Answered, Unknown
    <3>3. Answered(o, e) BY <1>5, <2>5, <3>1, <3>2 DEF Answered, Unknown
    <3>4. Good(o, w, e, Idle) BY <1>1, <1>4, <2>2, <2>3, <3>1, <3>3 DEF Good, TurnReady, Harvested, Idle
    <3> QED BY <1>4, <1>5, <2>1, <2>3, <2>5, <3>4
  <2> QED BY <2>3, <2>4, <2>5
<1> QED BY <1>6, <1>7

\* A restart closes what was running as interrupted, and changes of a run only what its
\* cut step had half done.
LEMMA RestartKeeps ==
  ASSUME TypeOK, RunsGood, DayKept, Restart
  PROVE  TypeOK' /\ RunsGood' /\ DayKept' /\ SuccessStands /\ count'.boots # 0
<1>1. /\ rec' = Swept /\ turn' = [r \in Runs |-> Idle] /\ blocks' = {}
      /\ count' = [count EXCEPT !.boots = @ + 1, !.faults = @ + 1] BY DEF Restart
<1>10. PICK h \in Runs : \E half \in Halves(h) :
         ws' = [ws EXCEPT ![h] = half[1]] /\ events' = [events EXCEPT ![h] = half[2]] BY DEF Restart
<1>11. PICK half \in Halves(h) :
         ws' = [ws EXCEPT ![h] = half[1]] /\ events' = [events EXCEPT ![h] = half[2]] BY <1>10
<1>2. /\ rec \in [Runs -> Records] /\ ws \in [Runs -> Workspaces]
      /\ events \in [Runs -> Streams] /\ turn \in [Runs -> Turns] BY DEF TypeOK
<1>3. count' \in [turns: Nat, faults: Nat, boots: Nat] /\ count'.boots # 0
  <2>1. count \in [turns: Nat, faults: Nat, boots: Nat] BY DEF TypeOK
  <2>2. PICK b \in Nat : count.boots = b BY <2>1
  <2>3. count'.boots = b + 1 BY <1>1, <2>1, <2>2
  <2>4. b + 1 # 0 /\ b + 1 \in Nat OBVIOUS
  <2>5. count' \in [turns: Nat, faults: Nat, boots: Nat]
    <3>1. count.faults + 1 \in Nat /\ count.boots + 1 \in Nat BY <2>1
    <3>2. [count EXCEPT !.boots = count.boots + 1, !.faults = count.faults + 1]
            \in [turns: Nat, faults: Nat, boots: Nat] BY <2>1, <3>1
    <3> QED BY <1>1, <3>2
  <2> QED BY <2>3, <2>4, <2>5
<1>4. ASSUME NEW q \in Runs
      PROVE  /\ rec'[q] \in Records
             /\ rec'[q].status # "running" /\ rec'[q].used = rec[q].used
             /\ Good(rec'[q], ws[q], events[q], Idle)
             /\ rec[q].status = "succeeded" => rec'[q] = rec[q]
  <2>1. rec[q] \in Records /\ Good(rec[q], ws[q], events[q], turn[q]) BY <1>2 DEF RunsGood
  <2>2. CASE rec[q].status = "running"
    <3>. DEFINE o == rec[q]
                n == [o EXCEPT !.status = "interrupted"]
    <3>1. rec'[q] = n BY <1>1, <2>2 DEF Swept
    <3>2. n \in Records BY <2>1 DEF Records, Statuses
    <3>3. /\ n.status = "interrupted" /\ n.pending = o.pending /\ n.used = o.used
          /\ n.diff = o.diff BY <2>1 DEF Records
    <3>. HIDE DEF n
    <3>4. Good(n, ws[q], events[q], Idle)
      BY <2>1, <2>2, <3>3 DEF Good, WorkspaceKept, TurnReady, Harvested, Answered, Unknown, Idle
    <3> QED BY <2>2, <3>1, <3>2, <3>3, <3>4
  <2>3. CASE rec[q].status # "running"
    <3>1. rec'[q] = rec[q] BY <1>1, <2>3 DEF Swept
    <3>2. turn[q] = Idle BY <2>1, <2>3 DEF Good
    <3> QED BY <2>1, <2>3, <3>1, <3>2
  <2> QED BY <2>2, <2>3
<1>12. /\ ws' \in [Runs -> Workspaces] /\ events' \in [Runs -> Streams]
       /\ \A q \in Runs :
            /\ Good(rec'[q], ws'[q], events'[q], Idle)
            /\ rec[q].status = "succeeded" => rec'[q] = rec[q] /\ ws'[q] = ws[q]
  <2>1. /\ half[1] \in Workspaces /\ half[2] \in Streams
        /\ Good(rec'[h], half[1], half[2], Idle)
        /\ rec[h].status = "succeeded" => half[1] = ws[h] BY <1>1, HalfIsGood
  <2>2. ws' \in [Runs -> Workspaces] /\ events' \in [Runs -> Streams] BY <1>2, <1>11, <2>1
  <2>3. ws'[h] = half[1] /\ events'[h] = half[2] BY <1>2, <1>11
  <2>4. \A q \in Runs : q # h => ws'[q] = ws[q] /\ events'[q] = events[q] BY <1>2, <1>11
  <2> QED BY <1>4, <2>1, <2>2, <2>3, <2>4
<1>5. rec' \in [Runs -> Records] BY <1>1, <1>4 DEF Swept
<1>6. {q \in Runs : turn'[q] # Idle} = {} BY <1>1
<1>7. Cardinality({q \in Runs : turn'[q] # Idle}) <= MaxConcurrent BY <1>6, FS_EmptySet, ExecutorAssumption
<1>8. RunsGood' /\ \A q \in Runs : rec'[q].status = "running" <=> turn'[q] # Idle BY <1>1, <1>4, <1>12 DEF RunsGood
<1>9. TypeOK' BY <1>1, <1>2, <1>3, <1>5, <1>7, <1>8, <1>12 DEF TypeOK, Turns
<1>13. DayKept' BY <1>2, <1>4, <1>5, DayIsKept
<1> QED BY <1>3, <1>8, <1>9, <1>12, <1>13 DEF SuccessStands

------------------------
(* The backend's runs and the requests *)

LEMMA RequestTypes ==
  ASSUME PubTypeOK
  PROVE  /\ pubs \in [Keys -> Publications \cup {NoPub}] /\ claims \subseteq Keys
         /\ req \in Seq(Requests) /\ Len(req) <= MaxRequests /\ ext \in Seq(External)
         /\ DOMAIN req = 1..Len(req) /\ DOMAIN ext = 1..Len(ext)
         /\ Len(req) \in Nat /\ Len(ext) \in Nat
         /\ \A i \in DOMAIN req : req[i] \in Requests
         /\ \A e \in DOMAIN ext : ext[e] \in External BY DEF PubTypeOK

\* One request becomes q.
RequestTo(i, q) == i \in DOMAIN req /\ q \in Requests /\ req' = [req EXCEPT ![i] = q]

LEMMA RequestChanges ==
  ASSUME PubTypeOK, NEW i, NEW q, RequestTo(i, q)
  PROVE  /\ req' \in Seq(Requests) /\ Len(req') <= MaxRequests /\ DOMAIN req' = DOMAIN req
         /\ req'[i] = q /\ \A j \in DOMAIN req : j # i => req'[j] = req[j]
<1>1. req \in Seq(Requests) /\ Len(req) <= MaxRequests /\ DOMAIN req = 1..Len(req) BY RequestTypes
<1>2. i \in 1..Len(req) /\ q \in Requests /\ req' = [req EXCEPT ![i] = q] BY <1>1 DEF RequestTo
<1>3. req' \in Seq(Requests) /\ Len(req') = Len(req) BY <1>1, <1>2, ExceptSeq
<1>4. DOMAIN req' = DOMAIN req /\ req'[i] = q /\ \A j \in DOMAIN req : j # i => req'[j] = req[j] BY <1>1, <1>2
<1> QED BY <1>1, <1>3, <1>4

\* Its phase changes, with or without its run at the backend.
Phases == {"waiting", "answered", "refused", "retry", "lost"} \cup InFlight

MovesTo(i, a, x) == req' = [req EXCEPT ![i].at = a, ![i].ext = x]

LEMMA RequestMoves ==
  ASSUME PubTypeOK, NEW i \in DOMAIN req, NEW a \in Phases, NEW x \in Nat, MovesTo(i, a, x)
  PROVE  \E q : /\ RequestTo(i, q)
                /\ q.key = req[i].key /\ q.run = req[i].run /\ q.at = a /\ q.ext = x
<1>. DEFINE o == req[i]
            q == [o EXCEPT !.at = a, !.ext = x]
<1>1. o \in Requests BY RequestTypes
<1>2. q \in Requests /\ q.key = o.key /\ q.run = o.run /\ q.at = a /\ q.ext = x BY <1>1 DEF Requests, Phases
<1>3. req' = [req EXCEPT ![i] = q] BY RequestTypes DEF MovesTo
<1> QED BY <1>2, <1>3 DEF RequestTo

LEMMA PhaseMoves ==
  ASSUME PubTypeOK, NEW i \in DOMAIN req, NEW a \in Phases, At(i, a)
  PROVE  \E q : /\ RequestTo(i, q)
                /\ q.key = req[i].key /\ q.run = req[i].run /\ q.at = a /\ q.ext = req[i].ext
<1>. DEFINE o == req[i]
            q == [o EXCEPT !.at = a]
<1>1. o \in Requests BY RequestTypes
<1>2. q \in Requests /\ q.key = o.key /\ q.run = o.run /\ q.at = a /\ q.ext = o.ext BY <1>1 DEF Requests, Phases
<1>3. req' = [req EXCEPT ![i] = q] BY RequestTypes DEF At
<1> QED BY <1>2, <1>3 DEF RequestTo

\* The backend's runs stay whose they are; what is closed stays closed, and a diff is only
\* ever the one of its run.
ExtGrows ==
  /\ ext' \in Seq(External) /\ DOMAIN ext \subseteq DOMAIN ext'
  /\ \A e \in DOMAIN ext :
       /\ ext'[e] \in External /\ ext'[e].run = ext[e].run
       /\ ext[e].closed => ext'[e].closed
       /\ ext'[e].diff = ext[e].diff \/ ext'[e].diff = rec[ext[e].run].diff

LEMMA SameGrows == ASSUME PubTypeOK, ext' = ext PROVE ExtGrows
BY RequestTypes DEF ExtGrows

LEMMA OpenedGrows ==
  ASSUME PubTypeOK, NEW i \in DOMAIN req, Opened(i)
  PROVE  ExtGrows /\ Len(ext) + 1 \in DOMAIN ext' /\ ext'[Len(ext) + 1].run = req[i].run
<1>. DEFINE x == [run |-> req[i].run, diff |-> NoDiff, closed |-> FALSE]
<1>1. req[i] \in Requests /\ ext \in Seq(External) BY RequestTypes
<1>2. x \in External BY <1>1 DEF External, Requests
<1>3. ext' = Append(ext, x) BY DEF Opened
<1>. HIDE DEF x
<1>4. /\ ext' \in Seq(External) /\ Len(ext') = Len(ext) + 1 /\ ext'[Len(ext) + 1] = x
      /\ \A e \in 1..Len(ext) : ext'[e] = ext[e] BY <1>1, <1>2, <1>3, AppendProperties
<1>5. DOMAIN ext = 1..Len(ext) /\ DOMAIN ext' = 1..Len(ext) + 1 /\ Len(ext) \in Nat BY <1>1, <1>4
<1>6. ExtGrows BY <1>4, <1>5, RequestTypes DEF ExtGrows
<1> QED BY <1>4, <1>5, <1>6 DEF x

\* A request that owns a run of the backend changes one field of it.
LEMMA OwnGrows ==
  ASSUME PubTypeOK, OwnEntry, NEW i \in DOMAIN req, req[i].at \in {"storing", "closing"}
  PROVE  /\ Stored(i) => ExtGrows /\ ext'[req[i].ext].diff = rec[req[i].run].diff
         /\ Closed(i) => /\ ExtGrows /\ ext'[req[i].ext].closed
                         /\ ext'[req[i].ext].diff = ext[req[i].ext].diff
<1>. DEFINE e0 == req[i].ext
            o == ext[e0]
<1>1. e0 \in DOMAIN ext /\ o.run = req[i].run BY DEF OwnEntry
<1>2. o \in External /\ ext \in Seq(External) /\ DOMAIN ext = 1..Len(ext) BY <1>1, RequestTypes
<1>3. req[i].run \in Runs BY RequestTypes DEF Requests
<1>4. rec[req[i].run].diff \in {NoDiff} \cup SUBSET Repos BY <1>3 DEF PubTypeOK, TypeOK, Records
<1>5. ASSUME NEW x \in External, ext' = [ext EXCEPT ![e0] = x], x.run = o.run, o.closed => x.closed,
             x.diff = o.diff \/ x.diff = rec[o.run].diff
      PROVE  ExtGrows /\ ext'[e0] = x
  <2>1. ext' \in Seq(External) /\ Len(ext') = Len(ext) BY <1>1, <1>2, <1>5, ExceptSeq
  <2>2. DOMAIN ext' = DOMAIN ext /\ ext'[e0] = x /\ \A e \in DOMAIN ext : e # e0 => ext'[e] = ext[e]
    BY <1>1, <1>2, <1>5
  <2> QED BY <1>1, <1>5, <2>1, <2>2, RequestTypes DEF ExtGrows
<1>6. ASSUME Stored(i) PROVE ExtGrows /\ ext'[e0].diff = rec[req[i].run].diff
  <2>. DEFINE x == [o EXCEPT !.diff = rec[req[i].run].diff]
  <2>1. x \in External /\ x.run = o.run /\ x.closed = o.closed /\ x.diff = rec[o.run].diff
    BY <1>1, <1>2, <1>4 DEF External
  <2>2. ext' = [ext EXCEPT ![e0] = x] BY <1>2, <1>6 DEF Stored
  <2>. HIDE DEF x
  <2> QED BY <1>1, <1>5, <2>1, <2>2
<1>7. ASSUME Closed(i) PROVE ExtGrows /\ ext'[e0].closed /\ ext'[e0].diff = o.diff
  <2>. DEFINE x == [o EXCEPT !.closed = TRUE]
  <2>1. x \in External /\ x.run = o.run /\ x.closed /\ x.diff = o.diff BY <1>2 DEF External
  <2>2. ext' = [ext EXCEPT ![e0] = x] BY <1>2, <1>7 DEF Closed
  <2>. HIDE DEF x
  <2> QED BY <1>5, <2>1, <2>2
<1> QED BY <1>6, <1>7


\* What is saved or in progress at the backend survives its growth.
LEMMA BackendKept ==
  ASSUME PubTypeOK, SavedIsWhole, OwnEntry, ExtGrows, rec' = rec
  PROVE  /\ \A k \in Keys : pubs[k] # NoPub =>
              pubs[k].ext \in DOMAIN ext' /\ ext'[pubs[k].ext] = Whole(pubs[k].run)
         /\ \A j \in DOMAIN req :
              /\ req[j].at \in {"storing", "closing"} =>
                   req[j].ext \in DOMAIN ext' /\ ext'[req[j].ext].run = req[j].run
              /\ req[j].at = "closing" => ext'[req[j].ext].diff = rec[req[j].run].diff
<1>1. ASSUME NEW k \in Keys, pubs[k] # NoPub
      PROVE  pubs[k].ext \in DOMAIN ext' /\ ext'[pubs[k].ext] = Whole(pubs[k].run)
  <2>. DEFINE e == pubs[k].ext
  <2>1. e \in DOMAIN ext /\ ext[e] = Whole(pubs[k].run) BY <1>1 DEF SavedIsWhole
  <2>2. ext[e].run = pubs[k].run /\ ext[e].closed /\ ext[e].diff = rec[pubs[k].run].diff BY <2>1 DEF Whole
  <2>3. /\ e \in DOMAIN ext' /\ ext'[e] \in External
        /\ ext'[e].run = pubs[k].run /\ ext'[e].closed /\ ext'[e].diff = rec[pubs[k].run].diff
    BY <2>1, <2>2 DEF ExtGrows
  <2>4. ext'[e].closed = TRUE BY <2>3 DEF External
  <2> QED BY <2>3, <2>4 DEF External, Whole
<1>2. ASSUME NEW j \in DOMAIN req, req[j].at \in {"storing", "closing"}
      PROVE  /\ req[j].ext \in DOMAIN ext' /\ ext'[req[j].ext].run = req[j].run
             /\ req[j].at = "closing" => ext'[req[j].ext].diff = rec[req[j].run].diff BY <1>2 DEF OwnEntry, ExtGrows
<1> QED BY <1>1, <1>2

------------------------
(* The steps of a publication *)

\* Outside the publication and its backend nothing but the fault counter moves.
Apart == /\ UNCHANGED <<rec, ws, events, turn, blocks>>
         /\ count' \in [turns: Nat, faults: Nat, boots: Nat] /\ count'.boots = count.boots

LEMMA ApartKeeps ==
  ASSUME PubTypeOK, RunsGood, DayKept, Apart
  PROVE  TypeOK' /\ RunsGood' /\ DayKept'
<1>1. TypeOK' BY DEF PubTypeOK, TypeOK, Apart
<1>2. RunsGood' BY DEF RunsGood, Apart
<1>3. DayKept' BY DEF DayKept, WithinCaps, Pledged, Used, UsedBy, Reserved, ReservedBy, Apart
<1> QED BY <1>1, <1>2, <1>3

\* Request i becomes q, of the same key and run, while its lock keeps others off the key:
\* what q must satisfy for the invariant to hold.
Becomes(i, q) ==
  /\ RequestTo(i, q) /\ q.key = req[i].key /\ q.run = req[i].run
  /\ ExtGrows
  /\ q.at \in {"storing", "closing"} => q.ext \in DOMAIN ext' /\ ext'[q.ext].run = q.run
  /\ q.at = "closing" => ext'[q.ext].diff = rec[q.run].diff

LEMMA OwnEntryKept ==
  ASSUME IInv, Apart, NEW i, NEW q, Becomes(i, q)
  PROVE  OwnEntry'
<1>1. /\ DOMAIN req' = DOMAIN req /\ req'[i] = q /\ i \in DOMAIN req
      /\ \A j \in DOMAIN req : j # i => req'[j] = req[j] BY RequestChanges DEF IInv, Becomes, RequestTo
<1>2. rec' = rec BY DEF Apart
<1>. SUFFICES ASSUME NEW j \in DOMAIN req
              PROVE  /\ Publishable(req'[j].run)
                     /\ req'[j].at \in {"storing", "closing"} =>
                          req'[j].ext \in DOMAIN ext' /\ ext'[req'[j].ext].run = req'[j].run
                     /\ req'[j].at = "closing" => ext'[req'[j].ext].diff = rec[req'[j].run].diff
  BY <1>1, <1>2 DEF OwnEntry, Publishable
<1>3. Publishable(req[j].run) BY DEF IInv, PubInv, OwnEntry
<1>4. CASE j = i BY <1>1, <1>3, <1>4 DEF Becomes
<1>5. CASE j # i BY <1>1, <1>2, <1>3, <1>5, BackendKept DEF Becomes, IInv, PubInv
<1> QED BY <1>4, <1>5

LEMMA SavedKept ==
  ASSUME IInv, Apart, ExtGrows, pubs' = pubs
  PROVE  SavedIsWhole'
<1>1. rec' = rec BY DEF Apart
<1>2. \A k \in Keys : pubs[k] # NoPub =>
        /\ Publishable(pubs[k].run)
        /\ pubs[k].ext \in DOMAIN ext' /\ ext'[pubs[k].ext] = Whole(pubs[k].run)
  BY <1>1, BackendKept DEF IInv, PubInv, SavedIsWhole
<1> QED BY <1>1, <1>2 DEF SavedIsWhole, Publishable, Whole


LEMMA PubTypesKept ==
  ASSUME IInv, Apart, NEW i, NEW q, Becomes(i, q),
         pubs' \in [Keys -> Publications \cup {NoPub}], claims' \subseteq Keys
  PROVE  PubTypeOK' /\ RunsGood' /\ DayKept'
<1>1. TypeOK' /\ RunsGood' /\ DayKept' BY ApartKeeps DEF IInv
<1>2. req' \in Seq(Requests) /\ Len(req') <= MaxRequests BY RequestChanges DEF IInv, Becomes
<1>3. ext' \in Seq(External) BY DEF Becomes, ExtGrows
<1> QED BY <1>1, <1>2, <1>3 DEF PubTypeOK

\* The request goes on, is answered from what is saved, or gives up without a claim.
LEMMA GoesOn ==
  ASSUME IInv, Apart, NEW i, NEW q, Becomes(i, q), pubs' = pubs, claims' = claims,
         q.at \in InFlight <=> req[i].at \in InFlight,
         q.at = "answered" => pubs[q.key] = [run |-> q.run, ext |-> q.ext]
  PROVE  IInv'
<1>1. /\ DOMAIN req' = DOMAIN req /\ req'[i] = q /\ i \in DOMAIN req
      /\ \A j \in DOMAIN req : j # i => req'[j] = req[j] BY RequestChanges DEF IInv, Becomes, RequestTo
<1>2. q.key = req[i].key /\ q.run = req[i].run BY DEF Becomes
<1>3. PubTypeOK' /\ RunsGood' /\ DayKept'
  <2>1. pubs' \in [Keys -> Publications \cup {NoPub}] /\ claims' \subseteq Keys BY RequestTypes DEF IInv
  <2> QED BY <2>1, PubTypesKept
<1>4. OwnEntry' BY OwnEntryKept
<1>5. SavedIsWhole' BY SavedKept DEF Becomes
<1>6. \A j \in DOMAIN req : /\ req'[j].at \in InFlight <=> req[j].at \in InFlight
                            /\ req'[j].key = req[j].key BY <1>1, <1>2
<1>7. AloneOnKey' /\ HoldsClaim' BY <1>1, <1>6 DEF IInv, PubInv, AloneOnKey, HoldsClaim
<1>8. AnswerIsSaved' BY <1>1, <1>2 DEF IInv, PubInv, AnswerIsSaved
<1>9. ClaimsAreHeld'
  <2>1. count'.boots = count.boots BY DEF Apart
  <2> QED BY <1>1, <1>6, <2>1 DEF IInv, PubInv, ClaimsAreHeld
<1> QED BY <1>3, <1>4, <1>5, <1>7, <1>8, <1>9 DEF IInv, PubInv

\* The request takes the claim of a key nobody works on and nothing is saved under.
LEMMA TakesClaim ==
  ASSUME IInv, Apart, NEW i, NEW q, Becomes(i, q), pubs' = pubs, claims' = claims \cup {q.key},
         pubs[q.key] = NoPub, q.at = "opening",
         \A j \in DOMAIN req : req[j].key = q.key => req[j].at \notin InFlight
  PROVE  IInv'
<1>1. /\ DOMAIN req' = DOMAIN req /\ req'[i] = q /\ i \in DOMAIN req
      /\ \A j \in DOMAIN req : j # i => req'[j] = req[j] BY RequestChanges DEF IInv, Becomes, RequestTo
<1>2. q.key = req[i].key /\ q.run = req[i].run BY DEF Becomes
<1>3. q.key \in Keys /\ q.at \in InFlight BY DEF Becomes, RequestTo, Requests, InFlight
<1>4. PubTypeOK' /\ RunsGood' /\ DayKept'
  <2>1. pubs' \in [Keys -> Publications \cup {NoPub}] /\ claims' \subseteq Keys BY <1>3, RequestTypes DEF IInv
  <2> QED BY <2>1, PubTypesKept
<1>5. OwnEntry' BY OwnEntryKept
<1>6. SavedIsWhole' BY SavedKept DEF Becomes
<1>7. AloneOnKey' BY <1>1, <1>2 DEF IInv, PubInv, AloneOnKey
<1>8. HoldsClaim' BY <1>1, <1>2 DEF IInv, PubInv, HoldsClaim
<1>9. AnswerIsSaved' BY <1>1 DEF IInv, PubInv, AnswerIsSaved
<1>10. ClaimsAreHeld'
  <2>. SUFFICES ASSUME count'.boots = 0, NEW k \in claims'
                PROVE  \E j \in DOMAIN req' : req'[j].key = k /\ req'[j].at \in InFlight BY DEF ClaimsAreHeld
  <2>1. CASE k = q.key BY <1>1, <1>3, <2>1
  <2>2. CASE k # q.key
    <3>1. count.boots = 0 BY DEF Apart
    <3>2. PICK j \in DOMAIN req : req[j].key = k /\ req[j].at \in InFlight
      BY <2>2, <3>1 DEF IInv, PubInv, ClaimsAreHeld
    <3> QED BY <1>1, <1>2, <2>2, <3>2
  <2> QED BY <2>1, <2>2
<1> QED BY <1>4, <1>5, <1>6, <1>7, <1>8, <1>9, <1>10 DEF IInv, PubInv

\* The request ends and drops its claim: it failed, or its publication is saved.
LEMMA DropsClaim ==
  ASSUME IInv, Apart, NEW i, NEW q, Becomes(i, q), claims' = claims \ {q.key},
         req[i].at \in InFlight, q.at \notin InFlight,
         pubs' \in [Keys -> Publications \cup {NoPub}], SavedIsWhole',
         \A k \in Keys : k # q.key => pubs'[k] = pubs[k],
         q.at = "answered" => pubs'[q.key] = [run |-> q.run, ext |-> q.ext]
  PROVE  IInv'
<1>1. /\ DOMAIN req' = DOMAIN req /\ req'[i] = q /\ i \in DOMAIN req
      /\ \A j \in DOMAIN req : j # i => req'[j] = req[j] BY RequestChanges DEF IInv, Becomes, RequestTo
<1>2. q.key = req[i].key /\ q.run = req[i].run BY DEF Becomes
<1>3. \A j \in DOMAIN req : req[j] \in Requests /\ req[j].key \in Keys BY RequestTypes DEF IInv, Requests
<1>4. pubs[q.key] = NoPub BY <1>1, <1>2 DEF IInv, PubInv, HoldsClaim
<1>5. PubTypeOK' /\ RunsGood' /\ DayKept'
  <2>1. claims' \subseteq Keys BY RequestTypes DEF IInv
  <2> QED BY <2>1, PubTypesKept
<1>6. OwnEntry' BY OwnEntryKept
<1>7. AloneOnKey' BY <1>1, <1>2 DEF IInv, PubInv, AloneOnKey
<1>8. HoldsClaim'
  <2>. SUFFICES ASSUME NEW j \in DOMAIN req, req'[j].at \in InFlight
                PROVE  req'[j].key \in claims' /\ pubs'[req'[j].key] = NoPub BY <1>1 DEF HoldsClaim
  <2>1. j # i /\ req'[j] = req[j] BY <1>1
  <2>2. req[j].key # q.key BY <1>1, <1>2, <2>1 DEF IInv, PubInv, AloneOnKey
  <2> QED BY <1>3, <2>1, <2>2 DEF IInv, PubInv, HoldsClaim
<1>9. AnswerIsSaved'
  <2>. SUFFICES ASSUME NEW j \in DOMAIN req, req'[j].at = "answered"
                PROVE  pubs'[req'[j].key] = [run |-> req'[j].run, ext |-> req'[j].ext] BY <1>1 DEF AnswerIsSaved
  <2>1. CASE j = i BY <1>1, <2>1
  <2>2. CASE j # i
    <3>1. pubs[req[j].key] = [run |-> req[j].run, ext |-> req[j].ext] BY <1>1, <2>2 DEF IInv, PubInv, AnswerIsSaved
    <3>2. [run |-> req[j].run, ext |-> req[j].ext] \in Publications BY <1>3 DEF Requests, Publications
    <3>3. req[j].key # q.key BY <1>4, <3>1, <3>2, PublicationAssumption DEF Publications
    <3> QED BY <1>1, <1>3, <2>2, <3>1, <3>3
  <2> QED BY <2>1, <2>2
<1>10. ClaimsAreHeld'
  <2>. SUFFICES ASSUME count'.boots = 0, NEW k \in claims'
                PROVE  \E j \in DOMAIN req' : req'[j].key = k /\ req'[j].at \in InFlight BY DEF ClaimsAreHeld
  <2>1. count.boots = 0 BY DEF Apart
  <2>2. PICK j \in DOMAIN req : req[j].key = k /\ req[j].at \in InFlight BY <2>1 DEF IInv, PubInv, ClaimsAreHeld
  <2> QED BY <1>1, <1>2, <2>2
<1> QED BY <1>5, <1>6, <1>7, <1>8, <1>9, <1>10 DEF IInv, PubInv

LEMMA PubStepKeeps ==
  ASSUME IInv, NEW i \in DOMAIN req, PubStep(i), UNCHANGED <<rec, ws, events, turn, blocks>>
  PROVE  IInv'
<1>1. /\ pubs \in [Keys -> Publications \cup {NoPub}] /\ claims \subseteq Keys
      /\ req[i] \in Requests /\ Len(ext) \in Nat BY RequestTypes DEF IInv
<1>2. req[i].key \in Keys /\ req[i].run \in Runs /\ req[i].ext \in Nat BY <1>1 DEF Requests
<1>3. ASSUME NEW a \in {"answered", "refused", "retry"} \cup InFlight, At(i, a)
      PROVE  \E q : /\ RequestTo(i, q) /\ q.key = req[i].key /\ q.run = req[i].run
                    /\ q.at = a /\ q.ext = req[i].ext BY <1>3, PhaseMoves DEF Phases, IInv
<1>4. ASSUME Fault \/ count' = count PROVE Apart
  <2>1. count \in [turns: Nat, faults: Nat, boots: Nat] BY DEF IInv, PubTypeOK, TypeOK
  <2> QED BY <1>4, <2>1 DEF Apart, Fault
<1>5. ASSUME Begin(i), UNCHANGED count PROVE IInv'
  <2>. DEFINE k == req[i].key
  <2>1. /\ req[i].at = "waiting" /\ pubs' = pubs /\ ext' = ext
        /\ \A j \in DOMAIN req : req[j].key = k => req[j].at \notin InFlight BY <1>5 DEF Begin
  <2>2. ExtGrows BY <2>1, SameGrows DEF IInv
  <2>3. CASE pubs[k] # NoPub /\ pubs[k].run = req[i].run
    <3>1. req' = [req EXCEPT ![i].at = "answered", ![i].ext = pubs[k].ext] /\ claims' = claims
      BY <1>5, <2>3 DEF Begin, Saved
    <3>2. pubs[k] \in Publications BY <1>1, <1>2, <2>3
    <3>3. PICK q : RequestTo(i, q) /\ q.key = k /\ q.run = req[i].run
                   /\ q.at = "answered" /\ q.ext = pubs[k].ext
      <4>1. pubs[k].ext \in Nat BY <3>2 DEF Publications
      <4>. DEFINE a == "answered"
                  x == pubs[k].ext
      <4>2. /\ PubTypeOK /\ a \in Phases /\ x \in Nat
            /\ MovesTo(i, a, x) BY <3>1, <4>1 DEF Phases, IInv, MovesTo
      <4>. HIDE DEF a, x
      <4>3. PICK q : RequestTo(i, q) /\ q.key = req[i].key /\ q.run = req[i].run
                     /\ q.at = a /\ q.ext = x BY <4>2, RequestMoves
      <4> QED BY <4>3 DEF a, x
    <3>4. Becomes(i, q) BY <2>2, <3>3 DEF Becomes
    <3>5. pubs[q.key] = [run |-> q.run, ext |-> q.ext] BY <2>3, <3>2, <3>3 DEF Publications
    <3> QED BY <1>4, <1>5, <2>1, <3>1, <3>3, <3>4, <3>5, GoesOn DEF InFlight
  <2>4. ASSUME NEW a \in {"refused", "retry"}, At(i, a), claims' = claims PROVE IInv'
    <3>1. PICK q : RequestTo(i, q) /\ q.key = k /\ q.run = req[i].run /\ q.at = a BY <1>3, <2>4
    <3>2. Becomes(i, q) BY <2>2, <3>1 DEF Becomes
    <3> QED BY <1>4, <1>5, <2>1, <2>4, <3>1, <3>2, GoesOn DEF InFlight
  <2>5. CASE pubs[k] # NoPub /\ pubs[k].run # req[i].run BY <1>5, <2>4, <2>5 DEF Begin, Saved
  <2>6. CASE pubs[k] = NoPub /\ k \in claims BY <1>5, <2>4, <2>6 DEF Begin, Saved
  <2>7. CASE pubs[k] = NoPub /\ k \notin claims
    <3>1. At(i, "opening") /\ claims' = claims \cup {k} BY <1>5, <2>7 DEF Begin, Saved
    <3>2. "opening" \in InFlight BY DEF InFlight
    <3>3. PICK q : RequestTo(i, q) /\ q.key = k /\ q.run = req[i].run /\ q.at = "opening" BY <1>3, <3>1, <3>2
    <3>4. Becomes(i, q) BY <2>2, <3>3 DEF Becomes
    <3> QED BY <1>4, <1>5, <2>1, <2>7, <3>1, <3>3, <3>4, TakesClaim
  <2> QED BY <2>3, <2>5, <2>6, <2>7
<1>6. CASE OpenRun(i)
  <2>1. /\ req[i].at = "opening" /\ Opened(i) /\ pubs' = pubs /\ claims' = claims /\ count' = count
        /\ req' = [req EXCEPT ![i].at = "storing", ![i].ext = Len(ext) + 1] BY <1>6 DEF OpenRun
  <2>2. "storing" \in Phases /\ Len(ext) + 1 \in Nat BY <1>1 DEF Phases, InFlight
  <2>3. PICK q : RequestTo(i, q) /\ q.key = req[i].key /\ q.run = req[i].run
                 /\ q.at = "storing" /\ q.ext = Len(ext) + 1
    <3>. DEFINE a == "storing"
                x == Len(ext) + 1
    <3>1. /\ PubTypeOK /\ a \in Phases /\ x \in Nat
          /\ MovesTo(i, a, x) BY <2>1, <2>2 DEF IInv, MovesTo
    <3>. HIDE DEF a, x
    <3>2. PICK q : RequestTo(i, q) /\ q.key = req[i].key /\ q.run = req[i].run
                   /\ q.at = a /\ q.ext = x BY <3>1, RequestMoves
    <3> QED BY <3>2 DEF a, x
  <2>4. Becomes(i, q) BY <2>1, <2>3, OpenedGrows DEF Becomes, IInv
  <2> QED BY <1>4, <2>1, <2>3, <2>4, GoesOn DEF InFlight
<1>7. CASE StoreArtifact(i)
  <2>1. /\ req[i].at = "storing" /\ Stored(i) /\ pubs' = pubs /\ claims' = claims /\ count' = count
        /\ At(i, "closing") BY <1>7 DEF StoreArtifact
  <2>2. "closing" \in InFlight BY DEF InFlight
  <2>3. PICK q : RequestTo(i, q) /\ q.key = req[i].key /\ q.run = req[i].run
                 /\ q.at = "closing" /\ q.ext = req[i].ext BY <1>3, <2>1, <2>2
  <2>4. OwnEntry BY DEF IInv, PubInv
  <2>5. ExtGrows /\ ext'[req[i].ext].diff = rec[req[i].run].diff BY <2>1, <2>4, OwnGrows DEF IInv
  <2>6. req[i].ext \in DOMAIN ext' /\ ext'[req[i].ext].run = req[i].run BY <2>1, <2>4, <2>5 DEF OwnEntry, ExtGrows
  <2>7. Becomes(i, q) BY <2>3, <2>5, <2>6 DEF Becomes
  <2> QED BY <1>4, <2>1, <2>3, <2>7, GoesOn DEF InFlight
<1>8. CASE OpenFails(i) \/ StoreFails(i) \/ CloseFails(i)
  <2>1. /\ req[i].at \in InFlight /\ Fault /\ At(i, "retry")
        /\ claims' = claims \ {req[i].key} /\ pubs' = pubs
    BY <1>8 DEF OpenFails, StoreFails, CloseFails, Failed, InFlight
  <2>2. ExtGrows
    <3>1. OwnEntry /\ PubTypeOK BY DEF IInv, PubInv
    <3>2. CASE OpenFails(i) BY <3>1, <3>2, SameGrows, OpenedGrows DEF OpenFails
    <3>3. CASE StoreFails(i) BY <3>1, <3>3, SameGrows, OwnGrows DEF StoreFails
    <3>4. CASE CloseFails(i) BY <3>1, <3>4, SameGrows, OwnGrows DEF CloseFails
    <3> QED BY <1>8, <3>2, <3>3, <3>4
  <2>3. PICK q : RequestTo(i, q) /\ q.key = req[i].key /\ q.run = req[i].run /\ q.at = "retry" BY <1>3, <2>1
  <2>4. Becomes(i, q) BY <2>2, <2>3 DEF Becomes
  <2>5. Apart BY <1>4, <2>1
  <2>6. SavedIsWhole' BY <2>1, <2>2, <2>5, SavedKept
  <2>7. pubs' \in [Keys -> Publications \cup {NoPub}] /\ \A k \in Keys : pubs'[k] = pubs[k] BY <1>1, <2>1
  <2> QED BY <2>1, <2>3, <2>4, <2>5, <2>6, <2>7, DropsClaim DEF InFlight
<1>9. CASE CloseRun(i)
  <2>. DEFINE p == [run |-> req[i].run, ext |-> req[i].ext]
  <2>1. /\ req[i].at = "closing" /\ Closed(i) /\ count' = count /\ At(i, "answered")
        /\ pubs' = [pubs EXCEPT ![req[i].key] = p] /\ claims' = claims \ {req[i].key} BY <1>9 DEF CloseRun
  <2>2. PICK q : RequestTo(i, q) /\ q.key = req[i].key /\ q.run = req[i].run
                 /\ q.at = "answered" /\ q.ext = req[i].ext BY <1>3, <2>1
  <2>3. OwnEntry BY DEF IInv, PubInv
  <2>4. /\ ExtGrows /\ ext'[req[i].ext].closed
        /\ ext'[req[i].ext].diff = ext[req[i].ext].diff BY <2>1, <2>3, OwnGrows DEF IInv
  <2>5. Becomes(i, q) BY <2>2, <2>4 DEF Becomes
  <2>6. Apart BY <1>4, <2>1
  <2>7. p \in Publications BY <1>2 DEF Publications
  <2>8. /\ pubs' \in [Keys -> Publications \cup {NoPub}] /\ pubs'[req[i].key] = p
        /\ \A k \in Keys : k # req[i].key => pubs'[k] = pubs[k] BY <1>1, <1>2, <2>1, <2>7
  <2>9. req[i].ext \in DOMAIN ext' /\ ext'[req[i].ext] = Whole(req[i].run)
    <3>. DEFINE e == req[i].ext
    <3>1. e \in DOMAIN ext /\ ext[e].run = req[i].run /\ ext[e].diff = rec[req[i].run].diff BY <2>1, <2>3 DEF OwnEntry
    <3>2. /\ e \in DOMAIN ext' /\ ext'[e] \in External /\ ext'[e].run = req[i].run
          /\ ext'[e].diff = rec[req[i].run].diff /\ ext'[e].closed BY <2>4, <3>1 DEF ExtGrows
    <3>3. ext'[e].closed = TRUE BY <3>2 DEF External
    <3> QED BY <3>2, <3>3 DEF External, Whole
  <2>10. SavedIsWhole'
    <3>1. rec' = rec BY <2>6 DEF Apart
    <3>2. Publishable(req[i].run) BY <2>3 DEF OwnEntry
    <3>. SUFFICES ASSUME NEW k \in Keys, pubs'[k] # NoPub
                  PROVE  /\ Publishable(pubs'[k].run)
                         /\ pubs'[k].ext \in DOMAIN ext'
                         /\ ext'[pubs'[k].ext] = Whole(pubs'[k].run) BY <3>1 DEF SavedIsWhole, Publishable, Whole
    <3>3. CASE k = req[i].key BY <2>8, <2>9, <3>2, <3>3
    <3>4. CASE k # req[i].key BY <2>4, <2>8, <3>1, <3>4, BackendKept DEF IInv, PubInv, SavedIsWhole
    <3> QED BY <3>3, <3>4
  <2> QED BY <2>1, <2>2, <2>5, <2>6, <2>8, <2>10, DropsClaim DEF InFlight
<1> QED BY <1>5, <1>6, <1>7, <1>8, <1>9 DEF PubStep


LEMMA RequestKeeps ==
  ASSUME IInv, NEW r \in Runs, NEW k \in Keys, Request(r, k), UNCHANGED jobVars
  PROVE  IInv'
<1>. DEFINE q == [key |-> k, run |-> r, ext |-> 0, at |-> "waiting"]
<1>1. /\ rec' = rec /\ ws' = ws /\ events' = events /\ turn' = turn /\ blocks' = blocks
      /\ count' = count BY DEF jobVars
<1>2. /\ Len(req) < MaxRequests /\ Publishable(r) /\ req' = Append(req, q)
      /\ pubs' = pubs /\ claims' = claims /\ ext' = ext BY DEF Request, Publishable
<1>3. q \in Requests /\ q.at = "waiting" /\ q.run = r BY DEF Requests
<1>. HIDE DEF q
<1>4. req \in Seq(Requests) /\ DOMAIN req = 1..Len(req) /\ Len(req) \in Nat BY RequestTypes DEF IInv
<1>5. /\ req' \in Seq(Requests) /\ Len(req') = Len(req) + 1 /\ req'[Len(req) + 1] = q
      /\ \A j \in 1..Len(req) : req'[j] = req[j] BY <1>2, <1>3, <1>4, AppendProperties
<1>6. DOMAIN req' = 1..Len(req) + 1 BY <1>5
<1>7. ASSUME NEW j \in DOMAIN req'
      PROVE  \/ j \in DOMAIN req /\ req'[j] = req[j]
             \/ req'[j] = q BY <1>4, <1>5, <1>6
<1>8. ASSUME NEW j \in DOMAIN req PROVE j \in DOMAIN req' /\ req'[j] = req[j] BY <1>4, <1>5, <1>6
<1>9. PubTypeOK' /\ RunsGood' /\ DayKept'
  <2>1. Apart BY <1>1 DEF Apart, IInv, PubTypeOK, TypeOK
  <2>2. TypeOK' /\ RunsGood' /\ DayKept' BY <2>1, ApartKeeps DEF IInv
  <2>3. Len(req) + 1 <= MaxRequests BY <1>2, <1>4, PublicationAssumption
  <2> QED BY <1>2, <1>5, <2>2, <2>3, RequestTypes DEF IInv, PubTypeOK
<1>10. SavedIsWhole' BY <1>1, <1>2 DEF IInv, PubInv, SavedIsWhole, Publishable, Whole
<1>11. AloneOnKey'
  <2>. SUFFICES ASSUME NEW j \in DOMAIN req', NEW l \in DOMAIN req', req'[j].at \in InFlight,
                       req'[l].at \in InFlight, req'[j].key = req'[l].key
                PROVE  j = l BY DEF AloneOnKey
  <2>1. q.at \notin InFlight BY <1>3 DEF InFlight
  <2>2. /\ j \in DOMAIN req /\ req'[j] = req[j]
        /\ l \in DOMAIN req /\ req'[l] = req[l] BY <1>7, <2>1
  <2> QED BY <2>2 DEF IInv, PubInv, AloneOnKey
<1>12. HoldsClaim' BY <1>2, <1>3, <1>7 DEF IInv, PubInv, HoldsClaim, InFlight
<1>13. OwnEntry'
  <2>. SUFFICES ASSUME NEW j \in DOMAIN req'
                PROVE  /\ Publishable(req'[j].run)
                       /\ req'[j].at \in {"storing", "closing"} =>
                            req'[j].ext \in DOMAIN ext /\ ext[req'[j].ext].run = req'[j].run
                       /\ req'[j].at = "closing" => ext[req'[j].ext].diff = rec[req'[j].run].diff
    BY <1>1, <1>2 DEF OwnEntry, Publishable
  <2>1. CASE j \in DOMAIN req /\ req'[j] = req[j] BY <2>1 DEF IInv, PubInv, OwnEntry
  <2>2. CASE req'[j] = q BY <1>2, <1>3, <2>2
  <2> QED BY <1>7, <2>1, <2>2
<1>14. AnswerIsSaved' BY <1>2, <1>3, <1>7 DEF IInv, PubInv, AnswerIsSaved
<1>15. ClaimsAreHeld' BY <1>1, <1>2, <1>8 DEF IInv, PubInv, ClaimsAreHeld
<1> QED BY <1>9, <1>10, <1>11, <1>12, <1>13, <1>14, <1>15 DEF IInv, PubInv

\* A run's step leaves every succeeded run, and so every publication, as it was.
LEMMA PublicationsStand ==
  ASSUME IInv, SuccessStands, pubs' = pubs, ext' = ext
  PROVE  /\ SavedIsWhole'
         /\ \A j \in DOMAIN req : rec'[req[j].run] = rec[req[j].run] /\ Publishable(req[j].run)
<1>1. \A r \in Runs : Publishable(r) => rec'[r] = rec[r] /\ Publishable(r)' BY DEF SuccessStands, Publishable
<1>2. ASSUME NEW k \in Keys, pubs[k] # NoPub
      PROVE  pubs[k].run \in Runs
  <2>1. pubs[k] \in Publications BY <1>2, RequestTypes DEF IInv
  <2> QED BY <2>1 DEF Publications
<1>3. SavedIsWhole' BY <1>1, <1>2 DEF IInv, PubInv, SavedIsWhole, Whole
<1>4. \A j \in DOMAIN req : req[j].run \in Runs BY RequestTypes DEF IInv, Requests
<1>5. \A j \in DOMAIN req : rec'[req[j].run] = rec[req[j].run] /\ Publishable(req[j].run)
  BY <1>1, <1>4 DEF IInv, PubInv, OwnEntry
<1> QED BY <1>3, <1>5

LEMMA MoveKeeps ==
  ASSUME IInv, NEW r \in Runs, JobMove(r), UNCHANGED pubVars
  PROVE  IInv'
<1>1. pubs' = pubs /\ claims' = claims /\ req' = req /\ ext' = ext BY DEF pubVars
<1>2. PICK n, w, e, t : LocalStep(r, n, w, e, t) BY MoveIsLocal DEF IInv, PubTypeOK
<1>3. TypeOK' /\ RunsGood' /\ DayKept' /\ SuccessStands BY <1>2, LocalStepKeeps DEF IInv, PubTypeOK
<1>4. PubTypeOK' BY <1>1, <1>3 DEF IInv, PubTypeOK
<1>5. count'.boots = count.boots BY <1>2 DEF LocalStep
<1>6. SavedIsWhole' BY <1>1, <1>3, PublicationsStand
<1>7. OwnEntry'
  <2>1. \A j \in DOMAIN req : rec'[req[j].run] = rec[req[j].run] /\ Publishable(req[j].run)
    BY <1>1, <1>3, PublicationsStand
  <2> QED BY <1>1, <2>1 DEF IInv, PubInv, OwnEntry, Publishable
<1>8. AloneOnKey' /\ HoldsClaim' /\ AnswerIsSaved' BY <1>1 DEF IInv, PubInv, AloneOnKey, HoldsClaim, AnswerIsSaved
<1>9. ClaimsAreHeld' BY <1>1, <1>5 DEF IInv, PubInv, ClaimsAreHeld
<1> QED BY <1>3, <1>4, <1>6, <1>7, <1>8, <1>9 DEF IInv, PubInv

LEMMA CutKeeps ==
  ASSUME IInv, Restart, Cut
  PROVE  IInv'
<1>1. pubs' = pubs /\ claims' = claims /\ ext' = ext BY DEF Cut
<1>2. TypeOK' /\ RunsGood' /\ DayKept' /\ SuccessStands /\ count'.boots # 0 BY RestartKeeps DEF IInv, PubTypeOK
<1>3. req \in Seq(Requests) /\ \A j \in DOMAIN req : req[j] \in Requests BY RequestTypes DEF IInv
<1>4. ASSUME NEW j \in DOMAIN req
      PROVE  /\ req'[j] \in Requests /\ req'[j].at \notin InFlight
             /\ req'[j].key = req[j].key /\ req'[j].run = req[j].run /\ req'[j].ext = req[j].ext
             /\ req'[j].at = "answered" => req[j].at = "answered"
  <2>. DEFINE q == [req[j] EXCEPT !.at = "lost"]
  <2>1. req'[j] = IF req[j].at \in InFlight \cup {"waiting"} THEN q ELSE req[j] BY DEF Cut
  <2>2. req[j] \in Requests BY <1>3
  <2>3. /\ q \in Requests /\ q.at = "lost" /\ q.key = req[j].key /\ q.run = req[j].run
        /\ q.ext = req[j].ext BY <2>2 DEF Requests
  <2>. HIDE DEF q
  <2>4. "lost" \notin InFlight BY DEF InFlight
  <2> QED BY <2>1, <2>2, <2>3, <2>4
<1>5. DOMAIN req' = DOMAIN req BY DEF Cut
<1>6. req' \in Seq(Requests) /\ Len(req') = Len(req)
  <2>1. DOMAIN req = 1..Len(req) /\ Len(req) \in Nat BY <1>3
  <2>2. req' = [j \in 1..Len(req) |-> req'[j]] BY <2>1 DEF Cut
  <2> QED BY <1>4, <2>1, <2>2
<1>7. PubTypeOK' BY <1>1, <1>2, <1>6 DEF IInv, PubTypeOK
<1>8. SavedIsWhole' BY <1>1, <1>2, PublicationsStand
<1>9. OwnEntry'
  <2>1. \A j \in DOMAIN req : rec'[req[j].run] = rec[req[j].run] /\ Publishable(req[j].run)
    BY <1>1, <1>2, PublicationsStand
  <2>2. \A j \in DOMAIN req : req'[j].at \notin {"storing", "closing"} BY <1>4 DEF InFlight
  <2> QED BY <1>4, <1>5, <2>1, <2>2 DEF OwnEntry, Publishable
<1>10. AloneOnKey' /\ HoldsClaim' BY <1>4, <1>5 DEF AloneOnKey, HoldsClaim
<1>11. AnswerIsSaved' BY <1>1, <1>4, <1>5 DEF IInv, PubInv, AnswerIsSaved
<1>12. ClaimsAreHeld' BY <1>2 DEF ClaimsAreHeld
<1> QED BY <1>2, <1>7, <1>8, <1>9, <1>10, <1>11, <1>12 DEF IInv, PubInv


------------------------
(* The invariance *)

LEMMA InitInv == PubInit => IInv
<1>. SUFFICES ASSUME PubInit PROVE IInv OBVIOUS
<1>. DEFINE n == [status |-> "absent", thread |-> FALSE, pending |-> 0, evidence |-> {}, used |-> 0,
                  diff |-> NoDiff]
            w == [prepared |-> FALSE, work |-> {}, committed |-> {}, baseline |-> {}, asked |-> FALSE]
            e == [opened |-> FALSE, raised |-> 0, settled |-> {}]
<1>1. /\ rec = [r \in Runs |-> n] /\ ws = [r \in Runs |-> w] /\ events = [r \in Runs |-> e]
      /\ turn = [r \in Runs |-> Idle] /\ blocks = {}
      /\ count = [turns |-> 0, faults |-> 0, boots |-> 0]
      /\ pubs = [k \in Keys |-> NoPub] /\ claims = {} /\ req = <<>> /\ ext = <<>> BY DEF PubInit, Init
<1>2. n \in Records /\ w \in Workspaces /\ e \in Streams BY DEF Records, Workspaces, Streams, Statuses
<1>3. Good(n, w, e, Idle) BY DEF Good, WorkspaceKept, TurnReady, Harvested, Answered, Unknown, Idle
<1>4. n.status = "absent" /\ n.used = 0 OBVIOUS
<1>. HIDE DEF n, w, e
<1>5. TypeOK
  <2>1. {r \in Runs : turn[r] # Idle} = {} BY <1>1
  <2>2. Cardinality({r \in Runs : turn[r] # Idle}) <= MaxConcurrent BY <2>1, FS_EmptySet, ExecutorAssumption
  <2>3. count \in [turns: Nat, faults: Nat, boots: Nat] BY <1>1
  <2> QED BY <1>1, <1>2, <1>4, <2>2, <2>3 DEF TypeOK, Turns
<1>6. PubTypeOK
  <2>1. Len(req) = 0 /\ req \in Seq(Requests) /\ ext \in Seq(External) BY <1>1
  <2> QED BY <1>1, <1>5, <2>1, PublicationAssumption DEF PubTypeOK
<1>7. RunsGood BY <1>1, <1>3 DEF RunsGood
<1>8. DayKept
  <2>1. \A r \in Runs : UsedBy(r) = {} BY <1>1, <1>4 DEF UsedBy
  <2>2. Used = {} BY <2>1 DEF Used
  <2>3. Reserved = {} BY <1>1, <1>4 DEF Reserved
  <2>4. Cardinality(Pledged) = 0 BY <2>2, <2>3, FS_EmptySet DEF Pledged
  <2> QED BY <2>4, ExecutorAssumption DEF DayKept
<1>9. PubInv
  <2>1. DOMAIN req = {} BY <1>1
  <2> QED BY <1>1, <2>1 DEF PubInv, SavedIsWhole, AloneOnKey, HoldsClaim, OwnEntry, AnswerIsSaved, ClaimsAreHeld
<1> QED BY <1>6, <1>7, <1>8, <1>9 DEF IInv

LEMMA StepInv == IInv /\ [PubNext]_allVars => IInv'
<1>. SUFFICES ASSUME IInv, [PubNext]_allVars PROVE IInv' OBVIOUS
<1>1. ASSUME NEW r \in Runs, Launch(r) \/ TurnStep(r) \/ Resume(r) \/ Abandon(r), UNCHANGED pubVars
      PROVE  IInv' BY <1>1, MoveKeeps DEF JobMove
<1>2. CASE Restart /\ Cut BY <1>2, CutKeeps
<1>3. ASSUME NEW r \in Runs, NEW k \in Keys, Request(r, k), UNCHANGED jobVars PROVE IInv' BY <1>3, RequestKeeps
<1>4. ASSUME NEW i \in DOMAIN req, PubStep(i), UNCHANGED <<rec, ws, events, turn, blocks>>
      PROVE  IInv' BY <1>4, PubStepKeeps
<1>5. CASE UNCHANGED allVars
  <2>1. /\ rec' = rec /\ ws' = ws /\ events' = events /\ turn' = turn /\ blocks' = blocks
        /\ count' = count /\ pubs' = pubs /\ claims' = claims /\ req' = req /\ ext' = ext
    BY <1>5 DEF allVars, jobVars, pubVars
  <2>2. Apart BY <2>1 DEF Apart, IInv, PubTypeOK, TypeOK
  <2>3. TypeOK' /\ RunsGood' /\ DayKept' BY <2>2, ApartKeeps DEF IInv
  <2>4. PubInv' BY <2>1 DEF IInv, PubInv, SavedIsWhole, AloneOnKey, HoldsClaim, OwnEntry, AnswerIsSaved,
                ClaimsAreHeld, Publishable, Whole
  <2> QED BY <2>1, <2>3, <2>4 DEF IInv, PubTypeOK
<1> QED BY <1>1, <1>2, <1>3, <1>4, <1>5 DEF PubNext

\* The inductive invariant holds in every state of every behaviour of the tier with its
\* publications, for every number of runs, keys, limits and bounds.
THEOREM Invariance == PubSpec => []IInv
BY InitInv, StepInv, PTL DEF PubSpec

\* Records, workspaces, streams, turns, claims and the backend's runs keep their types, no
\* more turns run than max_concurrent_runs allows, and a record is running exactly while a
\* turn works on it.
THEOREM TypeCorrect == PubSpec => []PubTypeOK
<1>1. IInv => PubTypeOK BY DEF IInv
<1> QED BY <1>1, Invariance, PTL

------------------------
(* What the tier promises *)

LEMMA DayImpliesBudget == ASSUME TypeOK, DayKept, WithinCaps PROVE TokensUsed < TokensPerDay + TokensPerRun
<1>1. IsFiniteSet(Used) /\ IsFiniteSet(Reserved) BY TokensAreFinite DEF TypeOK
<1>2. IsFiniteSet(Pledged) BY <1>1, FS_Union DEF Pledged
<1>3. Used \subseteq Pledged BY DEF Pledged
<1>4. Cardinality(Used) <= Cardinality(Pledged) BY <1>2, <1>3, FS_Subset
<1>5. Cardinality(Used) \in Nat /\ Cardinality(Pledged) \in Nat BY <1>1, <1>2, FS_CardinalityType
<1>6. Cardinality(Pledged) < TokensPerDay + TokensPerRun BY DEF DayKept
<1> QED BY <1>4, <1>5, <1>6, ExecutorAssumption DEF TokensUsed

LEMMA InvKeepsWork == IInv => RunsKeepTheirWork
<1>. SUFFICES ASSUME IInv PROVE RunsKeepTheirWork OBVIOUS
<1>1. TypeOK /\ RunsGood /\ DayKept BY DEF IInv, PubTypeOK
<1>2. HarvestIsWhole BY <1>1 DEF HarvestIsWhole, RunsGood, Good, Harvested
<1>3. QuestionsAreSettled BY <1>1 DEF QuestionsAreSettled, LeftOpen, RunsGood, Good, Harvested, Answered, Unknown
<1>4. ThreadIsKept BY <1>1 DEF ThreadIsKept, RunsGood, Good, Answered, Unknown
<1>5. \A r \in Runs : rec[r].status = "succeeded" => rec[r].used <= TokensPerRun BY <1>1 DEF RunsGood, Good, Harvested
<1>6. BudgetsHold BY <1>1, <1>5, DayImpliesBudget DEF BudgetsHold, WithinCaps
<1> QED BY <1>2, <1>3, <1>4, <1>6 DEF RunsKeepTheirWork

\* Whatever faults, timeouts, questions, resumes and restarts cross, a harvested diff is
\* everything the run's turns changed, every question raised is pending or settled but for
\* the last of a run a kill left interrupted, a suspended run keeps its thread, and the
\* budgets hold.
THEOREM WorkIsKept == PubSpec => []RunsKeepTheirWork
BY InvKeepsWork, Invariance, PTL

LEMMA InvAgrees == IInv => PublicationsAgree
<1>. SUFFICES ASSUME IInv PROVE PublicationsAgree OBVIOUS
<1>. SUFFICES ASSUME NEW i \in DOMAIN req, NEW j \in DOMAIN req, req[i].at = "answered",
                     req[j].at = "answered", req[i].key = req[j].key
              PROVE  /\ req[i].ext = req[j].ext /\ req[i].run = req[j].run
                     /\ ext[req[i].ext] = [run |-> req[i].run, closed |-> TRUE,
                                           diff |-> ws[req[i].run].work \cap Writable]
  BY DEF PublicationsAgree, AnswersAgree, IInv, PubInv
<1>. DEFINE k == req[i].key
<1>1. /\ pubs[k] = [run |-> req[i].run, ext |-> req[i].ext]
      /\ pubs[k] = [run |-> req[j].run, ext |-> req[j].ext] BY DEF IInv, PubInv, AnswerIsSaved
<1>2. req[i].ext = req[j].ext /\ req[i].run = req[j].run
  <2>1. pubs[k].ext = req[i].ext /\ pubs[k].run = req[i].run BY <1>1
  <2>2. pubs[k].ext = req[j].ext /\ pubs[k].run = req[j].run BY <1>1
  <2> QED BY <2>1, <2>2
<1>3. k \in Keys /\ req[i].run \in Runs /\ req[i].ext \in Nat BY RequestTypes DEF IInv, Requests
<1>4. pubs[k] # NoPub
  <2>1. pubs[k] \in Publications BY <1>1, <1>3 DEF Publications
  <2> QED BY <2>1, PublicationAssumption DEF Publications
<1>5. pubs[k].run = req[i].run /\ pubs[k].ext = req[i].ext BY <1>1
<1>6. Publishable(req[i].run) /\ ext[req[i].ext] = Whole(req[i].run)
  BY <1>3, <1>4, <1>5 DEF IInv, PubInv, SavedIsWhole
<1>7. rec[req[i].run].diff = ws[req[i].run].work \cap Writable
  BY <1>3, <1>6 DEF IInv, RunsGood, Good, Harvested, Publishable
<1> QED BY <1>2, <1>6, <1>7 DEF Whole

\* However requests, failures and restarts cross, the answers to one idempotency key name
\* one publication, complete at the backend, and a failed attempt leaves no claim behind.
THEOREM OnePublicationPerKey == PubSpec => []PublicationsAgree
BY InvAgrees, Invariance, PTL

\* An operation the leash refused leaves the gate only as evidence of a question, or with
\* the process.
THEOREM NoBlockIsForgotten == PubSpec => BlocksAreReviewed
<1>. DEFINE Reviewed == \A r \in blocks \ blocks' :
              (\E q \in Runs : r \in rec'[q].evidence) \/ count'.boots # count.boots
<1>1. IInv /\ [PubNext]_allVars => [Reviewed]_jobVars
  <2>. SUFFICES ASSUME IInv, [PubNext]_allVars, blocks' # blocks PROVE Reviewed BY DEF jobVars
  <2>1. ASSUME NEW q \in Runs, TurnStep(q) \/ Launch(q) \/ Resume(q) \/ Abandon(q) PROVE Reviewed
    <3>1. blocks \subseteq blocks' \/ GateAsks(q)
      BY <2>1 DEF TurnStep, Launch, Resume, Abandon, Prepare, Work, Ask, Block, AgentAsks,
                  Questioned, BudgetStops, Harvest, TurnCrashes, TimesOut
    <3>2. CASE GateAsks(q)
      <4>. DEFINE id == events[q].raised + 1
      <4>1. PICK u \in 0..MaxUsage :
              rec' = [Finished(q, "suspended", events[q].opened, u) EXCEPT
                        ![q].pending = id, ![q].evidence = blocks] BY <3>2 DEF GateAsks, Questioned
      <4>. DEFINE n == [[rec[q] EXCEPT !.status = "suspended", !.thread = @ \/ events[q].opened,
                                       !.used = @ + u] EXCEPT !.pending = id, !.evidence = blocks]
      <4>2. rec \in [Runs -> Records] /\ rec[q] \in Records BY DEF IInv, PubTypeOK, TypeOK
      <4>3. rec' = [rec EXCEPT ![q] = n] BY <4>1, <4>2 DEF Finished
      <4>4. n.evidence = blocks BY <4>2 DEF Records
      <4>. HIDE DEF n
      <4>5. rec'[q].evidence = blocks BY <4>2, <4>3, <4>4
      <4> QED BY <4>5
    <3> QED BY <3>1, <3>2
  <2>2. CASE Restart /\ Cut
    <3>1. count \in [turns: Nat, faults: Nat, boots: Nat] BY DEF IInv, PubTypeOK, TypeOK
    <3>2. PICK b \in Nat : count.boots = b BY <3>1
    <3>3. count'.boots = b + 1 BY <2>2, <3>1, <3>2 DEF Restart
    <3> QED BY <3>2, <3>3
  <2> QED BY <2>1, <2>2 DEF PubNext, jobVars, allVars
<1> QED BY <1>1, Invariance, PTL DEF PubSpec, BlocksAreReviewed
========================
