------------ MODULE SpokeDelivery ------------
(***************************************************************************)
(* The spoke's deliveries (miragen/daemon/spoke/loop.py, hub.py,           *)
(* agents.py): what the hub hands out under leases, the spoke forwards to  *)
(* the agent of one workload and settles, and the replies of its turns.    *)
(*                                                                         *)
(* The spoke is one thread that loops over ticks, and everything it keeps  *)
(* is lost with its process. Hub and agent are other processes: a call to  *)
(* one is a step, which may have its effect and not be answered, and       *)
(* leases run out, turns finish and the spoke is killed between any two.   *)
(* What the hub does is modelled from what the spoke expects of it.        *)
(*                                                                         *)
(* Left out: intents, event relay and model tokens, which share nothing    *)
(* with deliveries but the loop; a launch offered without its credentials; *)
(* an agent that has forgotten a turn; the hub's limit on a claim, as if   *)
(* everything queued fitted in one.                                        *)
(***************************************************************************)
EXTENDS Naturals, FiniteSets, Sequences

CONSTANTS
  Deliveries,     \* delivery ids
  MaxRemembered,  \* _SENT_ONCE_MEMORY
  MaxFaults,      \* bound: failed calls, and leases that run out while the
                  \* spoke works under them
  MaxRestarts     \* bound: restarts of the spoke

ASSUME BoundsAssumption ==
  {MaxRemembered, MaxFaults, MaxRestarts} \subseteq Nat

(* "once" is a resume or an abandon (at_most_once); the agent deduplicates *)
(* the others by their key. Only a "turn" (turn, answer) has a reply; a    *)
(* launch or discard is "keyed". "malformed" is one the spoke can not      *)
(* forward.                                                                *)
Kinds == {"once", "turn", "keyed", "malformed"}
Verdicts == {"accepted", "rejected", "uncertain"}
NoVerdict == "none"
Entry(d, v) == [of |-> d, verdict |-> v]
Entries == [of : Deliveries, verdict : Verdicts]

VARIABLES
  kind,       \* delivery -> its kind
  hub,        \* delivery -> "queued", "leased", or the verdict it is settled with
  replied,    \* turns whose reply the hub has
  workload,   \* the workload exists in the cluster
  sent,       \* delivery -> how often it took effect at the agent
  finished,   \* turns that have finished
  pc,         \* where the tick is
  tracked,    \* the workload is in `workloads`
  todo,       \* what the loop at pc has not come to yet
  batch,      \* claimed deliveries not yet handled
  now,        \* the handled delivery and the verdict it is to be settled with
  live,       \* deliveries whose newest copy here is under the hub's lease
  pending,    \* pending_settles: delivery -> verdict
  results,    \* pending_results
  sentOnce,   \* sent_once, oldest first
  reoffered,  \* history: "once" deliveries the hub offered again
  forgotten,  \* history: deliveries that fell out of sent_once
  cut,        \* history: turns whose pending result a restart lost
  faults,     \* history: faults so far
  restarts    \* history: restarts so far

hubVars == <<kind, hub, reoffered>>
agentVars == <<workload, sent, finished>>
memoryVars == <<sentOnce, forgotten>>
vars == <<kind, hub, replied, workload, sent, finished, pc, tracked, todo, batch, now,
          live, pending, results, sentOnce, reoffered, forgotten, cut, faults, restarts>>

Phases == {"idle", "settles", "deliver", "results"}

TypeOK ==
  /\ kind \in [Deliveries -> Kinds]
  /\ hub \in [Deliveries -> {"queued", "leased"} \cup Verdicts]
  /\ {replied, finished, todo, batch, live, results, reoffered, forgotten, cut}
       \subseteq SUBSET Deliveries
  /\ {workload, tracked} \subseteq BOOLEAN
  /\ sent \in [Deliveries -> Nat]
  /\ pc \in Phases
  /\ now \in SUBSET Entries /\ Cardinality(now) <= 1
  /\ pending \in [Deliveries -> Verdicts \cup {NoVerdict}]
  /\ sentOnce \in Seq(Entries) /\ Len(sentOnce) <= MaxRemembered
  /\ faults \in 0 .. MaxFaults /\ restarts \in 0 .. MaxRestarts

Init ==
  /\ kind \in [Deliveries -> Kinds]
  /\ hub = [d \in Deliveries |-> "queued"]
  /\ replied = {} /\ workload = TRUE /\ finished = {}
  /\ sent = [d \in Deliveries |-> 0]
  /\ pc = "idle" /\ tracked = TRUE /\ todo = {} /\ batch = {} /\ now = {} /\ live = {}
  /\ pending = [d \in Deliveries |-> NoVerdict]
  /\ results = {} /\ sentOnce = <<>>
  /\ reoffered = {} /\ forgotten = {} /\ cut = {}
  /\ faults = 0 /\ restarts = 0

------------------------
Once(d) == kind[d] = "once"
Taken(d) == sent[d] > 0
Fault == faults < MaxFaults /\ faults' = faults + 1
NoFault == UNCHANGED faults

(* HubUnavailable, or a refusal that is about the spoke, ends the tick:    *)
(* the claimed deliveries not yet handled are dropped.                     *)
Abort ==
  /\ pc' = "idle" /\ todo' = {} /\ batch' = {} /\ now' = {}

(* The start of a tick. The workloads that are gone are no longer tracked. *)
BeginTick ==
  /\ pc = "idle"
  /\ tracked' = (tracked /\ workload)
  /\ pc' = "settles"
  /\ todo' = {d \in Deliveries : pending[d] # NoVerdict}
  /\ UNCHANGED <<hubVars, agentVars, replied, batch, now, live, pending, results,
                 memoryVars, cut, faults, restarts>>

------------------------
(* Settling. *)

(* A call to the hub is answered; or it had its effect, or had none, and   *)
(* is not answered; or it is refused, for the item (404, 409, 422).        *)
Answers == {"ok", "lost", "down", "refused"}
Unanswered == {"lost", "down"}

(* _settle: kept to retry when the hub did not answer. The hub takes it    *)
(* under the lease alone; that the lease is lost ends it too.              *)
Settle(d, v, a) ==
  /\ hub' = IF a \in {"ok", "lost"} /\ d \in live THEN [hub EXCEPT ![d] = v] ELSE hub
  /\ pending' = [pending EXCEPT ![d] = IF a \in Unanswered THEN v ELSE NoVerdict]
  /\ live' = (IF a = "down" THEN live ELSE live \ {d}) \ (IF a \in Unanswered THEN batch ELSE {})
  /\ IF a = "ok" THEN NoFault ELSE Fault

(* retry_settles, before anything is claimed. *)
RetrySettle(d, a) ==
  /\ pc = "settles" /\ d \in todo
  /\ Settle(d, pending[d], a)
  /\ IF a \in Unanswered THEN Abort
     ELSE todo' = todo \ {d} /\ UNCHANGED <<pc, batch, now>>
  /\ UNCHANGED <<kind, reoffered, agentVars, replied, tracked, results, memoryVars, cut,
                 restarts>>

(* claim_deliveries: the hub leases what is queued. *)
Claim(a) ==
  /\ pc = "settles" /\ todo = {}
  /\ LET queued == {d \in Deliveries : hub[d] = "queued"}
     IN  /\ hub' = IF a = "down" THEN hub
                   ELSE [d \in Deliveries |-> IF d \in queued THEN "leased" ELSE hub[d]]
         /\ IF a = "ok"
            THEN batch' = queued /\ live' = live \cup queued /\ pc' = "deliver" /\ NoFault
            ELSE /\ a \in Unanswered
                 /\ batch' = {} /\ live' = live /\ pc' = "idle" /\ Fault
  /\ UNCHANGED <<kind, reoffered, agentVars, replied, tracked, todo, now, pending,
                 results, memoryVars, cut, restarts>>

------------------------
(* Handling one delivery, those that must not be sent twice first. *)

Handles(d) ==
  /\ pc = "deliver" /\ now = {}
  /\ d \in batch /\ (Once(d) \/ \A e \in batch : ~Once(e))
  /\ batch' = batch \ {d}

Recalled == {sentOnce[i] : i \in 1 .. Len(sentOnce)}

M_RememberedNever(d) == FALSE  \* mutant of Remembered: no memory of what was sent

Remembered(d) == \E e \in Recalled : e.of = d

(* It was handled before, its settle outstanding: settled now, under the   *)
(* new lease. Or it was sent once: settled as it was.                      *)
HandleAgain(d) ==
  /\ Handles(d)
  /\ IF pending[d] # NoVerdict THEN now' = {Entry(d, pending[d])}
     ELSE /\ Remembered(d)
          /\ now' = {CHOOSE e \in Recalled : e.of = d}
  /\ UNCHANGED <<hubVars, agentVars, replied, pc, tracked, todo, live, pending, results,
                 memoryVars, cut, faults, restarts>>

IsNew(d) == pending[d] = NoVerdict /\ ~Remembered(d)
LeaseIsGone(d) == Once(d) /\ d \notin live

(* Mutant of Rejects: deliveries to a workload that is gone are left to    *)
(* the hub, unless they may not be sent twice.                             *)
M_RejectsOnce(d) == LeaseIsGone(d) \/ (~tracked /\ Once(d))

(* Its lease is gone, or there is no workload for it. *)
Rejects(d) == LeaseIsGone(d) \/ ~tracked

RejectUnsent(d) ==
  /\ Handles(d) /\ IsNew(d)
  /\ Rejects(d)
  /\ now' = {Entry(d, "rejected")}
  /\ UNCHANGED <<hubVars, agentVars, replied, pc, tracked, todo, live, pending, results,
                 memoryVars, cut, faults, restarts>>

Leave(d) == now' = {} /\ live' = live \ {d}

(* The agent is not running, or could not be connected to: nothing was     *)
(* sent. The hub offers it again, unless it may be sent only once.         *)
NotSent(d) ==
  /\ Handles(d) /\ IsNew(d) /\ ~Rejects(d)
  /\ IF workload THEN Fault ELSE NoFault
  /\ IF Once(d) THEN now' = {Entry(d, "rejected")} /\ UNCHANGED live ELSE Leave(d)
  /\ UNCHANGED <<hubVars, agentVars, replied, pc, tracked, todo, pending, results,
                 memoryVars, cut, restarts>>

(* The agent deduplicates by key; a resume or abandon takes effect again. *)
TakeEffect(d) ==
  sent' = [sent EXCEPT ![d] = IF Once(d) \/ @ = 0 THEN @ + 1 ELSE @]

M_EvictsLate(all) == Len(all) > MaxRemembered + 1  \* mutant of Evicts: off by one

Evicts(all) == Len(all) > MaxRemembered

(* _remember: the oldest entry is dropped. *)
Remember(d, v) ==
  LET all == Append(sentOnce, Entry(d, v))
  IN  /\ sentOnce' = IF Evicts(all) THEN Tail(all) ELSE all
      /\ forgotten' = IF Evicts(all) THEN forgotten \cup {Head(all).of} ELSE forgotten

Decided(d, v) ==
  /\ now' = {Entry(d, v)}
  /\ UNCHANGED live
  /\ IF Once(d) THEN Remember(d, v) ELSE UNCHANGED memoryVars

Forwards(d) ==
  /\ Handles(d) /\ IsNew(d) /\ ~Rejects(d)
  /\ workload /\ kind[d] # "malformed"
  /\ UNCHANGED <<hubVars, workload, finished, replied, pc, tracked, todo, pending, cut,
                 restarts>>

(* The agent answered: it took the delivery. *)
ForwardAccepted(d) ==
  /\ Forwards(d)
  /\ TakeEffect(d)
  /\ Decided(d, "accepted")
  /\ results' = IF kind[d] = "turn" THEN results \cup {d} ELSE results
  /\ NoFault

(* The agent refused (4xx). A key it knows is answered before anything     *)
(* else is checked, so it never refuses what it has taken.                 *)
ForwardRefused(d) ==
  /\ Forwards(d)
  /\ Once(d) \/ ~Taken(d)
  /\ UNCHANGED <<sent, results>>
  /\ Decided(d, "rejected")
  /\ NoFault

UnknownVerdict == "uncertain"

(* No answer, or a 5xx: it may have taken effect. Left to the hub and the  *)
(* agent's deduplication, or settled uncertain.                            *)
ForwardUnknown(d) ==
  /\ Forwards(d)
  /\ TakeEffect(d) \/ UNCHANGED sent
  /\ IF Once(d) THEN Decided(d, UnknownVerdict)
     ELSE Leave(d) /\ UNCHANGED memoryVars
  /\ UNCHANGED results
  /\ Fault

(* _Invalid: refused before anything is sent. *)
RefuseMalformed(d) ==
  /\ Handles(d) /\ IsNew(d) /\ ~Rejects(d)
  /\ workload /\ kind[d] = "malformed"
  /\ now' = {Entry(d, "rejected")}
  /\ UNCHANGED <<hubVars, agentVars, replied, pc, tracked, todo, live, pending, results,
                 memoryVars, cut, faults, restarts>>

SettleHandled(e, a) ==
  /\ pc = "deliver" /\ e \in now
  /\ Settle(e.of, e.verdict, a)
  /\ IF a \in Unanswered THEN Abort ELSE now' = {} /\ UNCHANGED <<pc, todo, batch>>
  /\ UNCHANGED <<kind, reoffered, agentVars, replied, tracked, results, memoryVars, cut,
                 restarts>>

------------------------
(* pump_turn_results. *)

BeginResults ==
  /\ pc = "deliver" /\ now = {} /\ batch = {}
  /\ pc' = "results" /\ todo' = results
  /\ UNCHANGED <<hubVars, agentVars, replied, tracked, batch, now, live, pending, results,
                 memoryVars, cut, faults, restarts>>

(* Mutant of KeptResults: the result is let go before the hub answered. *)
M_KeptResultsNever(d, a) == results \ {d}

(* A result the hub took, or does not want (404, 409), is let go. *)
KeptResults(d, a) == IF a \in Unanswered THEN results ELSE results \ {d}

(* The turn has finished: its record is posted. The hub takes it for a     *)
(* delivery settled accepted, and answers 404 otherwise.                   *)
PostResult(d, a) ==
  /\ pc = "results" /\ d \in todo
  /\ tracked /\ workload /\ d \in finished
  /\ a # "refused"
  /\ replied' = IF a # "down" /\ hub[d] = "accepted" THEN replied \cup {d} ELSE replied
  /\ results' = KeptResults(d, a)
  /\ IF a \in Unanswered THEN Abort /\ Fault
     ELSE todo' = todo \ {d} /\ NoFault /\ UNCHANGED <<pc, batch, now>>
  /\ UNCHANGED <<hubVars, agentVars, tracked, live, pending, memoryVars, cut, restarts>>

(* The turn still runs, or the agent can not be asked. *)
KeepResult(d) ==
  /\ pc = "results" /\ d \in todo /\ tracked
  /\ IF workload /\ d \in finished THEN Fault ELSE NoFault
  /\ todo' = todo \ {d}
  /\ UNCHANGED <<hubVars, agentVars, replied, pc, tracked, batch, now, live, pending,
                 results, memoryVars, cut, restarts>>

(* The workload is no longer tracked. *)
DropResult(d) ==
  /\ pc = "results" /\ d \in todo /\ ~tracked
  /\ results' = results \ {d}
  /\ todo' = todo \ {d}
  /\ UNCHANGED <<hubVars, agentVars, replied, pc, tracked, batch, now, live, pending,
                 memoryVars, cut, faults, restarts>>

EndTick ==
  /\ pc = "results" /\ todo = {}
  /\ pc' = "idle"
  /\ UNCHANGED <<hubVars, agentVars, replied, tracked, todo, batch, now, live, pending,
                 results, memoryVars, cut, faults, restarts>>

------------------------
(* The spoke's process is killed and started again. recover() finds the    *)
(* workload by its labels.                                                 *)
Restart ==
  /\ restarts < MaxRestarts /\ restarts' = restarts + 1
  /\ pc' = "idle" /\ todo' = {} /\ batch' = {} /\ now' = {} /\ live' = {}
  /\ pending' = [d \in Deliveries |-> NoVerdict]
  /\ results' = {} /\ cut' = cut \cup results
  /\ sentOnce' = <<>> /\ forgotten' = forgotten \cup {e.of : e \in Recalled}
  /\ tracked' = workload
  /\ UNCHANGED <<hubVars, agentVars, replied, faults>>

(* The hub: a lease runs out. It offers the delivery again, one that may   *)
(* be sent only once it counts uncertain; the spoke guards against a hub   *)
(* that offers that again, too.                                            *)
Expire(d) ==
  /\ hub[d] = "leased"
  /\ IF d \in live THEN Fault ELSE NoFault
  /\ live' = live \ {d}
  /\ \/ ~Once(d) /\ hub' = [hub EXCEPT ![d] = "queued"] /\ UNCHANGED reoffered
     \/ Once(d) /\ hub' = [hub EXCEPT ![d] = "uncertain"] /\ UNCHANGED reoffered
     \/ Once(d) /\ d \notin reoffered
        /\ hub' = [hub EXCEPT ![d] = "queued"] /\ reoffered' = reoffered \cup {d}
  /\ UNCHANGED <<kind, agentVars, replied, pc, tracked, todo, batch, now, pending, results,
                 memoryVars, cut, restarts>>

(* The agent: a turn it took finishes. *)
FinishTurn(d) ==
  /\ kind[d] = "turn" /\ Taken(d) /\ d \notin finished /\ workload
  /\ finished' = finished \cup {d}
  /\ UNCHANGED <<hubVars, workload, sent, replied, pc, tracked, todo, batch, now, live,
                 pending, results, memoryVars, cut, faults, restarts>>

(* The cluster: the workload is deleted, by the hub's wish or its deadline.*)
EndWorkload ==
  /\ workload /\ workload' = FALSE
  /\ UNCHANGED <<hubVars, sent, finished, replied, pc, tracked, todo, batch, now, live,
                 pending, results, memoryVars, cut, faults, restarts>>

------------------------
Tick ==
  \/ BeginTick
  \/ \E d \in Deliveries, a \in Answers : RetrySettle(d, a)
  \/ \E a \in Answers : Claim(a)
  \/ \E d \in Deliveries : HandleAgain(d)
  \/ \E d \in Deliveries : RejectUnsent(d)
  \/ \E d \in Deliveries : NotSent(d)
  \/ \E d \in Deliveries : ForwardAccepted(d)
  \/ \E d \in Deliveries : ForwardRefused(d)
  \/ \E d \in Deliveries : ForwardUnknown(d)
  \/ \E d \in Deliveries : RefuseMalformed(d)
  \/ \E e \in Entries, a \in Answers : SettleHandled(e, a)
  \/ BeginResults
  \/ \E d \in Deliveries, a \in Answers : PostResult(d, a)
  \/ \E d \in Deliveries : KeepResult(d)
  \/ \E d \in Deliveries : DropResult(d)
  \/ EndTick

Next ==
  \/ Tick
  \/ Restart
  \/ \E d \in Deliveries : Expire(d)
  \/ \E d \in Deliveries : FinishTurn(d)
  \/ EndWorkload

(* The spoke loops, and the hub's leases run out. *)
Spec == /\ Init /\ [][Next]_vars
        /\ WF_vars(Tick)
        /\ \A d \in Deliveries : WF_vars(Expire(d))

------------------------
(* Properties. *)

(* A resume or abandon takes effect at most once, whatever answers are     *)
(* lost and whenever leases run out; even a hub that offers it again does  *)
(* not make the spoke send it again, as long as it remembers.              *)
AtMostOnce ==
  [][\A d \in Deliveries :
       sent[d] > 0 /\ sent'[d] > sent[d] => d \in reoffered /\ d \in forgotten]_vars

(* What the hub is told is so: what was accepted has reached the agent,    *)
(* and what was rejected has not. A keyed delivery whose first answer was  *)
(* lost may be rejected after its workload is gone.                        *)
VerdictsAreTrue ==
  \A d \in Deliveries :
    /\ hub[d] = "accepted" => Taken(d)
    /\ hub[d] = "rejected" => ~Taken(d) \/ (IF Once(d) THEN d \in forgotten ELSE ~workload)

(* An accepted turn whose reply the hub does not have yet is one the spoke *)
(* will post, whatever became of the settle; only a restart forgets it.    *)
RepliesAreTracked ==
  \A d \in Deliveries :
    kind[d] = "turn" /\ hub[d] = "accepted" /\ workload
      => d \in replied \/ d \in results \/ d \in cut

(* The hub's picture of a delivery is true and completes: the two above. *)
HubIsRight == VerdictsAreTrue /\ RepliesAreTracked

(* Liveness: once calls succeed, every delivery is settled. *)
EveryDeliverySettles == \A d \in Deliveries : <>(hub[d] \in Verdicts)

========================
