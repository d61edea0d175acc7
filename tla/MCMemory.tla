------------ MODULE MCMemory ------------
(***************************************************************************)
(* The session plane and its memory, side by side: the lives of a session  *)
(* (SessionLives), the store's records (MemoryRecords), the contexts of    *)
(* the lifecycle (WorkContexts), the extraction worker (ExtractionJobs)    *)
(* and the delivery of a recall (RecallDelivery).  They share no state     *)
(* here; a behaviour is one of one part, the others staying where they     *)
(* start.                                                                  *)
(***************************************************************************)
EXTENDS SessionLives, MemoryRecords, WorkContexts, ExtractionJobs, RecallDelivery

VARIABLE part
vars == <<part, livesVars, memoryVars, contextVars, jobVars, recallVars>>

Parts == {"lives", "records", "contexts", "jobs", "recall"}
AnyField == CHOOSE f \in Fields : TRUE

\* A part that stays where it starts has one start.
Init ==
  /\ part \in Parts
  /\ LivesInit /\ MemoryInit /\ ContextsInit /\ JobsInit /\ RecallInit
  /\ part # "contexts" => \A o \in Ops : ops[o].kind = "open" /\ ops[o].field = AnyField
  /\ part # "jobs" =>
       store = "errors" /\ \A j \in Jobs : jobs[j].kind = "plain" /\ jobs[j].supported = 0

SessionPlane ==
  /\ part = "lives" /\ LivesNext
  /\ UNCHANGED <<part, memoryVars, contextVars, jobVars, recallVars>>
Records ==
  /\ part = "records" /\ MemoryNext
  /\ UNCHANGED <<part, livesVars, contextVars, jobVars, recallVars>>
Contexts ==
  /\ part = "contexts" /\ ContextsNext
  /\ UNCHANGED <<part, livesVars, memoryVars, jobVars, recallVars>>
Extraction ==
  /\ part = "jobs" /\ JobsNext
  /\ UNCHANGED <<part, livesVars, memoryVars, contextVars, recallVars>>
Recalls ==
  /\ part = "recall" /\ RecallNext
  /\ UNCHANGED <<part, livesVars, memoryVars, contextVars, jobVars>>
Next == SessionPlane \/ Records \/ Contexts \/ Extraction \/ Recalls

\* The fairness of LivesSpec, JobsFairness and RecallFairness, of the part that
\* moves.
Fairness ==
  /\ WF_livesVars(part = "lives" /\ Work)
  /\ WF_jobVars(part = "jobs" /\ WorkerStep)
  /\ \A j \in Jobs : WF_jobVars(part = "jobs" /\ LeaseExpires(j))
  /\ WF_recallVars(part = "recall" /\ HookStep) /\ SF_recallVars(part = "recall" /\ StopStep)

Spec == Init /\ [][Next]_vars /\ Fairness

------------------------
\* Every variable of each part keeps its type.
TypeOK == LivesTypeOK /\ MemoryTypeOK /\ ContextsTypeOK /\ JobsTypeOK /\ RecallTypeOK

\* What was extracted and what was shown is accounted for (ExtractionJobs,
\* RecallDelivery).
ExtractedAndShownOnce == JobsAreAccounted /\ ShownWhereAsked

\* No step renders for a prompt what is withdrawn at that moment, or puts into a
\* slot what is not its own, or into a context what it was not made for
\* (MemoryRecords, WorkContexts).
MemoryIsTrue == WithdrawnIsNotRecalled /\ ReplacementIsLocal /\ CheckpointsAreTrue

\* What the parts promise in the end, of the part that moves: ClosedIsFinalized
\* of the session plane, JobsEnd of the extraction worker, TurnsEnd of the hooks'
\* delivery, as one formula (which part moves never changes).
EveryPartSettles ==
  (part = "lives" => ClosingPending)
    ~> (/\ part = "lives" => ClosingSettled
        /\ part = "jobs" => AllEnded
        /\ part = "recall" => LetStop)
========================
