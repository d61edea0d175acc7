------------ MODULE ExtractionJobs ------------
(***************************************************************************)
(* The extraction worker (miragen/memory/extraction.py, miragen/cli.py):   *)
(* sweep after sweep it claims jobs of the store under a lease, lets a     *)
(* model extract proposals from each job's event, checks every quote,      *)
(* proposes what is supported and completes the job, or fails it back to   *)
(* the queue.  Models hit usage limits, the store is away, answers are     *)
(* lost and the worker restarts.                                           *)
(***************************************************************************)
EXTENDS Integers, FiniteSets, Sequences, SequencesExt

CONSTANTS
  Jobs,         \* the jobs of the store
  ClaimLimit,   \* --limit: jobs of a sweep
  MaxAttempts,  \* DEFAULT_MAX_ATTEMPTS
  MaxProposals, \* bound: proposals of an event
  MaxJobFaults     \* bound: limits, outages, lost answers, expired leases and restarts

ASSUME JobsAssumption ==
  /\ IsFiniteSet(Jobs)
  /\ {ClaimLimit, MaxAttempts, MaxProposals, MaxJobFaults} \subseteq Nat

VARIABLES
  store,    \* does it return last_error with a claimed job?
  jobs,     \* each job's kind, status, claims, counted failures and the state of its event
  worker,   \* the sweep: jobs to go, the one in hand and its proposals, the limit
  limited,  \* claims this process saw lost to a limit
  said,     \* the records proposed, with how often
  genuine,  \* for the properties: failures of the job itself
  jobFaults
jobVars == <<store, jobs, worker, limited, said, genuine, jobFaults>>

None == -1
JobKinds == {"plain", "skipped", "index"}   \* skipped: backlog too
Nothing == [sweep |-> FALSE, todo |-> <<>>, at |-> "between", prior |-> 0, left |-> 0, limit |-> FALSE]
Ended(j) == jobs[j].status \in {"done", "failed"}
Hand == Head(worker.todo)

JobsTypeOK ==
  /\ \A j \in Jobs : /\ jobs[j].kind \in JobKinds /\ jobs[j].status \in {"pending", "claimed", "done", "failed"}
                     /\ jobs[j].failures \in 0..MaxAttempts
  /\ Len(worker.todo) <= ClaimLimit /\ worker.prior \in 0..(MaxAttempts + MaxJobFaults)
  /\ worker.left \in 0..MaxProposals
  /\ jobFaults \in 0..MaxJobFaults

JobsInit ==
  /\ store \in {"errors", "attempts"}
  /\ jobs \in [Jobs -> [kind: JobKinds, status: {"pending"}, attempts: {0}, failures: {0},
                        live: {TRUE}, supported: 0..MaxProposals]]
  /\ \A j \in Jobs : jobs[j].kind # "plain" => jobs[j].supported = 0
  /\ worker = Nothing
  /\ limited = [j \in Jobs |-> 0]
  /\ said = [j \in Jobs |-> 0]
  /\ genuine = [j \in Jobs |-> 0]
  /\ jobFaults = 0

\* No count matters past this.
Capped(n) == IF n > MaxAttempts + MaxJobFaults THEN MaxAttempts + MaxJobFaults ELSE n
JobFault == jobFaults < MaxJobFaults /\ jobFaults' = jobFaults + 1

\* One sweep claims up to the limit.
ClaimJobs(claimed) ==
  /\ ~worker.sweep /\ claimed # {} /\ Cardinality(claimed) <= ClaimLimit
  /\ \A j \in claimed : jobs[j].status = "pending"
  /\ jobs' = [j \in Jobs |-> IF j \in claimed
                             THEN [jobs[j] EXCEPT !.status = "claimed", !.attempts = Capped(@ + 1)] ELSE jobs[j]]
  /\ worker' = [Nothing EXCEPT !.sweep = TRUE, !.todo = SetToSeq(claimed)]
  /\ UNCHANGED <<store, limited, said, genuine, jobFaults>>

\* The failures counted before this claim: the job's own last_error, or the claims less the limits.
AtLeastZero(n) == IF n < 0 THEN 0 ELSE n
Prior(j) == IF store = "errors" THEN jobs[j].failures
            ELSE AtLeastZero(jobs[j].attempts - 1 - limited[j])

\* The next job, or the end of the sweep; with the limit hit, a job is released unattempted.
NextJob(w) == IF Len(w.todo) = 1 THEN Nothing
              ELSE [w EXCEPT !.todo = Tail(@), !.at = "between", !.left = 0]
Take ==
  /\ worker.sweep /\ worker.at = "between" /\ ~worker.limit
  /\ worker' = [worker EXCEPT !.at = "event", !.prior = Prior(Hand)]
  /\ UNCHANGED <<store, jobs, limited, said, genuine, jobFaults>>

\* fail_job: back to the queue or failed for good; when the store is away the lease will expire.
FailedBack(j, failures, retry) ==
  [jobs EXCEPT ![j].status = IF retry THEN "pending" ELSE "failed", ![j].failures = failures]
Store(change) == \/ jobs' = change /\ UNCHANGED jobFaults
                 \/ JobFault /\ UNCHANGED jobs
Release ==
  /\ worker.sweep /\ worker.at = "between" /\ worker.limit
  /\ limited' = [limited EXCEPT ![Hand] = @ + 1]
  /\ Store(FailedBack(Hand, IF store = "errors" THEN Prior(Hand) ELSE jobs[Hand].failures, TRUE))
  /\ worker' = NextJob(worker)
  /\ UNCHANGED <<store, said, genuine>>

Working == worker.sweep /\ worker.at \in {"event", "extract", "propose", "complete"}
CallsModel == worker.at \in {"extract", "propose"} /\ jobs[Hand].kind # "index"
\* The event is read: backlog, a skipped kind and an event withdrawn need no model.
GetEvent ==
  /\ Working /\ worker.at = "event"
  /\ worker' = [worker EXCEPT !.at = IF jobs[Hand].kind = "skipped" \/ ~jobs[Hand].live
                                     THEN "complete" ELSE "extract"]
  /\ UNCHANGED <<store, jobs, limited, said, genuine, jobFaults>>
\* The model proposes; quotes the source does not hold and unsupported wordings are dropped.
Extract ==
  /\ Working /\ worker.at = "extract"
  /\ worker' = [worker EXCEPT !.left = jobs[Hand].supported,
                              !.at = IF jobs[Hand].supported = 0 THEN "complete" ELSE "propose"]
  /\ UNCHANGED <<store, jobs, limited, said, genuine, jobFaults>>
\* A proposal goes through the store's admission.
ProposeNext ==
  /\ Working /\ worker.at = "propose" /\ jobs[Hand].live
  /\ said' = [said EXCEPT ![Hand] = IF @ < MaxProposals THEN @ + 1 ELSE @]
  /\ worker' = [worker EXCEPT !.left = @ - 1, !.at = IF worker.left = 1 THEN "complete" ELSE @]
  /\ UNCHANGED <<store, jobs, limited, genuine, jobFaults>>
Complete ==
  /\ Working /\ worker.at = "complete"
  /\ jobs' = [jobs EXCEPT ![Hand].status = "done"]
  /\ limited' = [limited EXCEPT ![Hand] = 0]
  /\ worker' = NextJob(worker)
  /\ UNCHANGED <<store, said, genuine, jobFaults>>

\* A usage limit refused the model's call: uncounted, and the rest of the sweep is released.
HitsLimit ==
  /\ Working /\ CallsModel /\ JobFault
  /\ limited' = [limited EXCEPT ![Hand] = @ + 1]
  /\ jobs' = FailedBack(Hand, IF store = "errors" THEN worker.prior ELSE jobs[Hand].failures, TRUE)
  /\ worker' = NextJob([worker EXCEPT !.limit = TRUE])
  /\ UNCHANGED <<store, said, genuine>>
\* The store is away, so its release is lost too or finds it back: uncounted.
StoreAway ==
  /\ Working /\ worker.at # "extract" /\ JobFault
  /\ jobs' \in {jobs, FailedBack(Hand, IF store = "errors" THEN worker.prior ELSE jobs[Hand].failures, TRUE)}
  /\ worker' = NextJob(worker)
  /\ UNCHANGED <<store, limited, said, genuine>>
\* Anything else counts: a model that fails, an event withdrawn under its proposal.
CountedFailures == worker.prior + 1
M_NeverFinal(n) == FALSE
Final(n) == n >= MaxAttempts
JobFails ==
  /\ Working
  /\ genuine' = [genuine EXCEPT ![Hand] = IF @ < MaxAttempts THEN @ + 1 ELSE @]
  /\ Store(FailedBack(Hand, IF CountedFailures > MaxAttempts THEN MaxAttempts ELSE CountedFailures, ~Final(CountedFailures)))
  /\ limited' = IF Final(CountedFailures) THEN [limited EXCEPT ![Hand] = 0] ELSE limited
  /\ worker' = NextJob(worker)
  /\ UNCHANGED <<store, said>>

\* Outside: an event is retracted, a lease runs out, the worker is killed.
Retract(j) ==
  /\ jobs[j].live /\ jobs[j].kind = "plain" /\ JobFault
  /\ jobs' = [jobs EXCEPT ![j].live = FALSE]
  /\ UNCHANGED <<store, worker, limited, said, genuine>>
LeaseExpires(j) ==
  /\ jobs[j].status = "claimed" /\ \A i \in DOMAIN worker.todo : worker.todo[i] # j
  /\ jobs' = [jobs EXCEPT ![j].status = "pending"]
  /\ UNCHANGED <<store, worker, limited, said, genuine, jobFaults>>
WorkerRestarts ==
  /\ worker.sweep /\ JobFault
  /\ worker' = Nothing /\ limited' = [j \in Jobs |-> 0]
  /\ UNCHANGED <<store, jobs, said, genuine>>

WorkerStep == \/ \E claimed \in SUBSET Jobs : ClaimJobs(claimed)
              \/ Take \/ Release \/ GetEvent \/ Extract \/ ProposeNext \/ Complete
              \/ HitsLimit \/ StoreAway \/ JobFails
JobsNext == WorkerStep \/ WorkerRestarts \/ \E j \in Jobs : Retract(j) \/ LeaseExpires(j)
JobsFairness == WF_jobVars(WorkerStep) /\ \A j \in Jobs : WF_jobVars(LeaseExpires(j))

------------------------
(* Properties *)

\* With a store that returns last_error, a job is failed for good only after as many failures of
\* its own as the cap says: no usage limit, outage, lost answer, expired lease or restart is
\* counted.  A job is done only with every supported proposal of its event proposed, unless the
\* event was withdrawn.
JobsAreAccounted ==
  \A j \in Jobs :
    /\ jobs[j].status = "failed" /\ store = "errors" => genuine[j] >= MaxAttempts
    /\ jobs[j].status = "done" /\ jobs[j].live => said[j] >= jobs[j].supported

\* When limits and outages end, every job ends, a job that always fails included.
AllEnded == \A j \in Jobs : Ended(j)
JobsEnd == []<>AllEnded
========================
