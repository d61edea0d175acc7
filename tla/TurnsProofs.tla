------------ MODULE TurnsProofs ------------
(***************************************************************************)
(* What happens in and around a turn, for any number of requests, turns,   *)
(* answers, calls, levels, sources and versions: the approvals of          *)
(* ToolGateway, the adapters, sessions and sums of ExecutorTurns, the      *)
(* depth limit of SubagentDepth, the worktrees of Workspaces, the setup    *)
(* of HarnessSetup, the weights of ModelRates and the entries of Inbox.    *)
(*                                                                         *)
(* Each part has an invariant of its own, proved over the part's steps;    *)
(* the parts share no state, so a step of one leaves the others' alone,    *)
(* and the last theorems put them together. That no chain of callers is    *)
(* longer than the depth recorded for its end rests on two facts: a new    *)
(* call is above nobody, and the deepest spawn in flight is at least as    *)
(* deep as the one that starts.                                            *)
(***************************************************************************)
EXTENDS MCTurns, FiniteSetTheorems, WellFoundedInduction, TLAPS

------------------------
(* The approvals (ToolGateway) *)

\* A request nobody has made.
Unmade(q) ==
  /\ call[q] = "none" /\ future[q] = "none" /\ accepted[q] = {} /\ ran[q] = 0
  /\ q \notin pending \cup timers \cup entries

\* A call that blocks: the answer its future holds is the one answer taken.
BlockingOK(q) ==
  /\ q \notin entries
  /\ future[q] \in {"none", "waiting", "cancelled"} => accepted[q] = {}
  /\ future[q] = "approved" => accepted[q] = {"approved"}
  /\ future[q] = "denied" => accepted[q] = {"denied"} \/ accepted[q] = {"expired"}
  /\ ran[q] > 0 /\ profile.decider # "open" => future[q] = "approved"

\* A call answered later: its entry is there until the one answer is taken.
LaterOK(q) ==
  /\ future[q] = "none"
  /\ q \in entries => call[q] = "queued" /\ accepted[q] = {}
  /\ \E kinds \in {{}, {"approved"}, {"denied"}, {"expired"}} : accepted[q] = kinds
  /\ ran[q] > 0 => accepted[q] = {"approved"}

RequestOK(q) ==
  /\ asked[q] = NoRun => Unmade(q)
  /\ ran[q] \in {0, 1}
  /\ call[q] \in {"none", "waiting", "queued"} => ran[q] = 0
  /\ IF Async THEN LaterOK(q) ELSE BlockingOK(q)
  /\ profile.harness = "in_process" /\ call[q] \in {"waiting", "running"} => asked[q] = turn

GatewayInv ==
  /\ GatewayTypeOK
  /\ \A q \in Requests : RequestOK(q)
  /\ PollersMissNothing /\ poller.since <= version

\* What Profiles says: a call is answered later only by a gateway with a queue.
LEMMA LaterIsQueued ==
  ASSUME profile \in Profiles
  PROVE  /\ Async => profile.harness = "gateway" /\ profile.decider = "queue"
         /\ profile.harness \in {"in_process", "gateway"}
         /\ profile.decider \in {"open", "strict", "queue", "handler"} BY DEF Profiles, Async

LEMMA StoredType ==
  ASSUME OutcomesKept \in Nat, outcomes \in Seq(Requests), Len(outcomes) <= OutcomesKept,
         NEW q \in Requests
  PROVE  Stored(q) \in Seq(Requests) /\ Len(Stored(q)) <= OutcomesKept
<1>. DEFINE all == Append(outcomes, q)
<1>1. all \in Seq(Requests) /\ Len(all) = Len(outcomes) + 1 /\ Len(outcomes) \in Nat OBVIOUS
<1>2. CASE Len(all) > OutcomesKept
  <2>1. all # << >> BY <1>1
  <2>2. Tail(all) \in Seq(Requests) /\ Len(Tail(all)) = Len(all) - 1 BY <1>1, <2>1
  <2> QED BY <1>1, <1>2, <2>2 DEF Stored
<1>3. CASE ~(Len(all) > OutcomesKept) BY <1>1, <1>3 DEF Stored
<1> QED BY <1>2, <1>3

LEMMA GatewayStart == Init => GatewayInv
<1>. SUFFICES ASSUME Init PROVE GatewayInv OBVIOUS
<1>. MaxRuns \in Nat /\ MaxPosts \in Nat /\ OutcomesKept \in Nat BY GatewayAssumption
<1>1. GatewayTypeOK
  <2>1. outcomes \in Seq(Requests) /\ Len(outcomes) <= OutcomesKept BY DEF Init
  <2>2. poller \in [at : {"idle", "waiting", "woken"}, since : Nat, saw : SUBSET Requests] BY DEF Init
  <2>3. /\ asked \in [Requests -> Runs \cup {NoRun}] /\ used \in [Requests -> Runs \cup {NoRun}]
        /\ accepted \in [Requests -> SUBSET {"approved", "denied", "expired"}]
        /\ ran \in [Requests -> Nat] BY DEF Init
  <2>4. call \in [Requests -> {"none", "waiting", "queued", "running", "done", "denied",
                               "refused", "cancelled"}]
        /\ future \in [Requests -> {"none", "waiting", "approved", "denied", "cancelled"}] BY DEF Init
  <2>5. posts \in 0 .. MaxPosts /\ profile \in Profiles /\ carries \subseteq Runs BY DEF Init
  <2> QED BY <2>1, <2>2, <2>3, <2>4, <2>5 DEF Init, GatewayTypeOK, NoRun
<1>2. ASSUME NEW q \in Requests PROVE RequestOK(q) BY <1>2 DEF Init, RequestOK, Unmade, LaterOK, BlockingOK, NoRun
<1>3. PollersMissNothing /\ poller.since <= version BY DEF Init, PollersMissNothing
<1> QED BY <1>1, <1>2, <1>3 DEF GatewayInv

\* A step that moves the version wakes whoever waits for it.
LEMMA BumpIsHeard ==
  ASSUME GatewayInv, Bump
  PROVE  /\ PollersMissNothing' /\ (poller.since <= version)'
         /\ version' \in Nat /\ changed' \in BOOLEAN
         /\ poller' \in [at : {"idle", "waiting", "woken"}, since : Nat, saw : SUBSET Requests]
<1>1. /\ version \in Nat /\ changed \in BOOLEAN /\ poller.since \in Nat
      /\ poller \in [at : {"idle", "waiting", "woken"}, since : Nat, saw : SUBSET Requests]
      /\ poller.since <= version BY DEF GatewayInv, GatewayTypeOK
<1>2. version' = version + 1 /\ changed' = FALSE BY DEF Bump
<1>3. poller.at = "waiting" => changed BY DEF GatewayInv, PollersMissNothing
<1>. version' \in Nat /\ changed' \in BOOLEAN
  <2>1. version' \in Nat BY <1>1, <1>2
  <2>2. changed' \in BOOLEAN BY <1>2
  <2> QED BY <2>1, <2>2
<1>4. CASE changed
  <2>1. poller' = [poller EXCEPT !.at = "woken"] BY <1>4 DEF Bump
  <2>2. /\ poller'.at = "woken" /\ poller'.since = poller.since
        /\ poller' \in [at : {"idle", "waiting", "woken"}, since : Nat, saw : SUBSET Requests] BY <1>1, <2>1
  <2>3. poller'.since <= version' /\ poller'.since # version' BY <1>1, <1>2, <2>2
  <2>4. PollersMissNothing' BY <2>2, <2>3 DEF PollersMissNothing
  <2> QED BY <2>2, <2>3, <2>4
<1>5. CASE ~changed
  <2>1. poller' = poller BY <1>5 DEF Bump
  <2>2. poller'.since <= version' /\ poller'.since # version' BY <1>1, <1>2, <2>1
  <2>3. PollersMissNothing' BY <1>3, <1>5, <2>1, <2>2 DEF PollersMissNothing
  <2> QED BY <1>1, <2>1, <2>2, <2>3
<1> QED BY <1>4, <1>5

LEMMA QuietIsHeard ==
  ASSUME GatewayInv, NoBump, pending' = pending
  PROVE  /\ PollersMissNothing' /\ (poller.since <= version)'
         /\ version' \in Nat /\ changed' \in BOOLEAN
         /\ poller' \in [at : {"idle", "waiting", "woken"}, since : Nat, saw : SUBSET Requests]
BY DEF GatewayInv, GatewayTypeOK, NoBump, PollersMissNothing

\* A request that a step leaves alone.
Alone(r) ==
  /\ asked'[r] = asked[r] /\ call'[r] = call[r] /\ future'[r] = future[r]
  /\ accepted'[r] = accepted[r] /\ ran'[r] = ran[r]
  /\ r \in pending' => r \in pending
  /\ r \in timers' => r \in timers
  /\ r \in entries' <=> r \in entries

LEMMA AloneIsOK ==
  ASSUME NEW r, RequestOK(r), Alone(r), profile' = profile, turn' = turn
  PROVE  RequestOK(r)' BY DEF RequestOK, Alone, Unmade, LaterOK, BlockingOK, Async

\* What the type invariant says of the variables that steps change point by point.
LEMMA GatewayTypes ==
  ASSUME GatewayInv
  PROVE  /\ profile \in Profiles /\ turn \in Runs \cup {NoRun} /\ last \in Runs \cup {NoRun}
         /\ DOMAIN asked = Requests /\ DOMAIN call = Requests /\ DOMAIN future = Requests
         /\ DOMAIN accepted = Requests /\ DOMAIN ran = Requests /\ DOMAIN used = Requests
         /\ \A q \in Requests : RequestOK(q) BY DEF GatewayInv, GatewayTypeOK

LEMMA BeginTurnStep == GatewayInv /\ BeginTurn => GatewayInv'
<1>. SUFFICES ASSUME GatewayInv, BeginTurn PROVE GatewayInv' OBVIOUS
<1>. USE DEF BeginTurn, brokerVars
<1>1. GatewayTypeOK'
  <2>1. last \in Nat /\ last' \in Runs /\ turn' = last'
    BY GatewayAssumption DEF GatewayInv, GatewayTypeOK, Runs, NoRun
  <2> QED BY <2>1 DEF GatewayInv, GatewayTypeOK
<1>2. ASSUME NEW q \in Requests PROVE RequestOK(q)'
  <2>1. RequestOK(q) BY DEF GatewayInv
  <2>2. ~(profile.harness = "in_process" /\ call[q] \in {"waiting", "running"}) BY <2>1 DEF RequestOK, Unmade
  <2> QED BY <2>1, <2>2 DEF RequestOK, Unmade, LaterOK, BlockingOK, Async
<1>3. PollersMissNothing' /\ (poller.since <= version)' BY DEF GatewayInv, PollersMissNothing
<1> QED BY <1>1, <1>2, <1>3 DEF GatewayInv

LEMMA EndTurnStep == GatewayInv /\ EndTurn => GatewayInv'
<1>. SUFFICES ASSUME GatewayInv, EndTurn PROVE GatewayInv' OBVIOUS
<1>. DEFINE mine == {q \in Requests : asked[q] = turn /\ call[q] \in {"waiting", "running"}}
            cut == IF profile.harness = "in_process" THEN mine ELSE {}
            unanswered == {q \in cut : future[q] = "waiting"}
<1>0. /\ turn # NoRun /\ turn' = NoRun
      /\ call' = [q \in Requests |-> IF q \in cut THEN "cancelled" ELSE call[q]]
      /\ future' = [q \in Requests |-> IF q \in unanswered THEN "cancelled" ELSE future[q]]
      /\ timers' = timers \ unanswered
      /\ UNCHANGED <<profile, carries, last, asked, pending, entries, outcomes, version, changed,
                     poller, posts, accepted, ran, used>> BY DEF EndTurn
<1>1. GatewayTypeOK'
  <2>1. /\ call' \in [Requests -> {"none", "waiting", "queued", "running", "done", "denied",
                                   "refused", "cancelled"}]
        /\ future' \in [Requests -> {"none", "waiting", "approved", "denied", "cancelled"}]
        /\ timers' \subseteq Requests BY <1>0 DEF GatewayInv, GatewayTypeOK
  <2> QED BY <1>0, <2>1 DEF GatewayInv, GatewayTypeOK
<1>2. ASSUME NEW q \in Requests PROVE RequestOK(q)'
  <2>1. RequestOK(q) BY DEF GatewayInv
  <2>2. CASE q \in cut
    <3>1. /\ call'[q] = "cancelled" /\ asked[q] # NoRun /\ profile.harness = "in_process"
          /\ call[q] \in {"waiting", "running"} /\ ~Async BY <1>0, <2>2, GatewayTypes, LaterIsQueued
    <3>2. \/ future'[q] = future[q]
          \/ future[q] = "waiting" /\ future'[q] = "cancelled" BY <1>0
    <3>3. profile' = profile /\ Async' = Async BY <1>0 DEF Async
    <3>4. BlockingOK(q)' BY <1>0, <2>1, <3>1, <3>2 DEF RequestOK, BlockingOK
    <3> QED BY <1>0, <2>1, <3>1, <3>3, <3>4 DEF RequestOK
  <2>3. CASE q \notin cut
    <3>1. call'[q] = call[q] /\ future'[q] = future[q] BY <1>0, <2>3
    <3>2. ~(profile.harness = "in_process" /\ call[q] \in {"waiting", "running"}) BY <2>1, <2>3 DEF RequestOK
    <3>3. Unmade(q) => Unmade(q)' BY <1>0, <3>1 DEF Unmade
    <3>4. BlockingOK(q) => BlockingOK(q)' BY <1>0, <3>1 DEF BlockingOK
    <3>5. LaterOK(q) => LaterOK(q)' BY <1>0, <3>1 DEF LaterOK
    <3>6. profile' = profile /\ Async' = Async BY <1>0 DEF Async
    <3> QED BY <1>0, <2>1, <3>1, <3>2, <3>3, <3>4, <3>5, <3>6 DEF RequestOK
  <2> QED BY <2>2, <2>3
<1>3. PollersMissNothing' /\ (poller.since <= version)' BY <1>0 DEF GatewayInv, PollersMissNothing
<1> QED BY <1>1, <1>2, <1>3 DEF GatewayInv

LEMMA PollStep == GatewayInv /\ (Poll \/ Polled) => GatewayInv'
<1>. SUFFICES ASSUME GatewayInv, Poll \/ Polled PROVE GatewayInv' OBVIOUS
<1>0. /\ version \in Nat /\ changed \in BOOLEAN /\ poller.since \in Nat /\ pending \subseteq Requests
      /\ poller \in [at : {"idle", "waiting", "woken"}, since : Nat, saw : SUBSET Requests]
      /\ poller.since <= version BY DEF GatewayInv, GatewayTypeOK
<1>1. UNCHANGED <<profile, carries, inTurn, asked, call, future, pending, timers, entries,
                  outcomes, version, posts, accepted, ran, used>> BY DEF Poll, Polled, brokerVars
<1>2. \/ poller' = [poller EXCEPT !.since = version, !.saw = pending] /\ changed' = changed
      \/ poller' = [at |-> "idle", since |-> version, saw |-> pending] /\ changed' = changed
      \/ /\ poller' = [poller EXCEPT !.at = "waiting"] /\ changed' = TRUE
         /\ poller.since = version /\ poller.at = "idle" BY DEF Poll, Polled, brokerVars
<1>3. /\ poller' \in [at : {"idle", "waiting", "woken"}, since : Nat, saw : SUBSET Requests]
      /\ poller'.since <= version
      /\ \/ /\ poller'.since = version /\ poller'.saw = pending /\ changed' = changed
            /\ poller'.at \in {poller.at, "idle"}
         \/ /\ poller'.at = "waiting" /\ poller'.since = poller.since /\ poller.since = version
            /\ poller.at = "idle" /\ poller'.saw = poller.saw /\ changed' = TRUE
  <2>1. CASE poller' = [poller EXCEPT !.since = version, !.saw = pending] /\ changed' = changed
    <3>1. poller'.since = version /\ poller'.saw = pending /\ poller'.at = poller.at BY <1>0, <2>1
    <3>2. poller' \in [at : {"idle", "waiting", "woken"}, since : Nat, saw : SUBSET Requests] BY <1>0, <2>1
    <3> QED BY <1>0, <2>1, <3>1, <3>2
  <2>2. CASE /\ poller' = [at |-> "idle", since |-> version, saw |-> pending]
             /\ changed' = changed BY <1>0, <2>2
  <2>3. CASE /\ poller' = [poller EXCEPT !.at = "waiting"] /\ changed' = TRUE
             /\ poller.since = version /\ poller.at = "idle" BY <1>0, <2>3
  <2> QED BY <1>2, <2>1, <2>2, <2>3
<1>4. changed' \in BOOLEAN
  <2>1. changed' = changed \/ changed' = TRUE BY <1>3
  <2> QED BY <1>0, <2>1
<1>5. GatewayTypeOK' BY <1>1, <1>3, <1>4 DEF GatewayInv, GatewayTypeOK, inTurn
<1>6. ASSUME NEW q \in Requests PROVE RequestOK(q)'
  <2>1. RequestOK(q) BY DEF GatewayInv
  <2>2. Alone(q) /\ profile' = profile /\ turn' = turn BY <1>1 DEF Alone, inTurn
  <2> QED BY <2>1, <2>2, AloneIsOK
<1>7. PollersMissNothing' /\ (poller.since <= version)'
  <2>1. poller'.since <= version' BY <1>1, <1>3
  <2>2. PollersMissNothing' BY <1>0, <1>1, <1>3 DEF GatewayInv, PollersMissNothing
  <2> QED BY <2>1, <2>2
<1> QED BY <1>5, <1>6, <1>7 DEF GatewayInv

CallTypes == [Requests -> {"none", "waiting", "queued", "running", "done", "denied", "refused",
                           "cancelled"}]
FutureTypes == [Requests -> {"none", "waiting", "approved", "denied", "cancelled"}]
AnswerTypes == [Requests -> SUBSET {"approved", "denied", "expired"}]
PollerTypes == [at : {"idle", "waiting", "woken"}, since : Nat, saw : SUBSET Requests]

\* A step of one request's keeps the invariant when it keeps that request's part.
LEMMA OneRequest ==
  ASSUME GatewayInv, NEW q \in Requests,
         UNCHANGED <<profile, carries, turn, last>>,
         \A r \in Requests \ {q} : Alone(r),
         RequestOK(q)', PollersMissNothing', (poller.since <= version)',
         asked' \in [Requests -> Runs \cup {NoRun}],
         call' \in CallTypes, future' \in FutureTypes, accepted' \in AnswerTypes,
         pending' \subseteq Requests, timers' \subseteq Requests, entries' \subseteq Requests,
         outcomes' \in Seq(Requests) /\ Len(outcomes') <= OutcomesKept,
         version' \in Nat /\ changed' \in BOOLEAN, poller' \in PollerTypes,
         posts' \in 0 .. MaxPosts,
         ran' \in [Requests -> Nat] /\ used' \in [Requests -> Runs \cup {NoRun}]
  PROVE  GatewayInv'
<1>1. GatewayTypeOK' BY DEF GatewayInv, GatewayTypeOK, CallTypes, FutureTypes, AnswerTypes, PollerTypes
<1>2. ASSUME NEW r \in Requests PROVE RequestOK(r)'
  <2>1. CASE r = q BY <2>1
  <2>2. CASE r # q
    <3>1. RequestOK(r) /\ Alone(r) BY <2>2 DEF GatewayInv
    <3> QED BY <3>1, AloneIsOK
  <2> QED BY <2>1, <2>2
<1> QED BY <1>1, <1>2 DEF GatewayInv

\* The same facts, of the state before a step.
LEMMA TypesBefore ==
  ASSUME GatewayInv
  PROVE  /\ asked \in [Requests -> Runs \cup {NoRun}]
         /\ call \in CallTypes /\ future \in FutureTypes /\ accepted \in AnswerTypes
         /\ pending \subseteq Requests /\ timers \subseteq Requests /\ entries \subseteq Requests
         /\ outcomes \in Seq(Requests) /\ Len(outcomes) <= OutcomesKept
         /\ version \in Nat /\ changed \in BOOLEAN /\ poller \in PollerTypes
         /\ posts \in 0 .. MaxPosts
         /\ ran \in [Requests -> Nat] /\ used \in [Requests -> Runs \cup {NoRun}]
         /\ profile \in Profiles /\ turn \in Runs \cup {NoRun}
BY DEF GatewayInv, GatewayTypeOK, CallTypes, FutureTypes, AnswerTypes, PollerTypes

LEMMA ExecuteDoes ==
  ASSUME GatewayInv, NEW q \in Requests, Execute(q)
  PROVE  /\ call' \in CallTypes /\ call'[q] = "running"
         /\ ran' \in [Requests -> Nat] /\ ran'[q] = ran[q] + 1
         /\ used' \in [Requests -> Runs \cup {NoRun}] /\ used'[q] = Credential
         /\ \A r \in Requests \ {q} : call'[r] = call[r] /\ ran'[r] = ran[r]
<1>1. Credential \in Runs \cup {NoRun} BY TypesBefore DEF Credential
<1> QED BY <1>1, TypesBefore DEF Execute, CallTypes

LEMMA AskStep == ASSUME NEW q \in Requests PROVE GatewayInv /\ Ask(q) => GatewayInv'
<1>. SUFFICES ASSUME GatewayInv, Ask(q) PROVE GatewayInv' OBVIOUS
<1>1. /\ turn # NoRun /\ asked[q] = NoRun /\ turn \in Runs
      /\ asked' = [asked EXCEPT ![q] = turn]
      /\ UNCHANGED <<profile, carries, inTurn, posts, accepted>> BY TypesBefore DEF Ask
<1>2. /\ asked' \in [Requests -> Runs \cup {NoRun}] /\ asked'[q] = turn
      /\ \A r \in Requests \ {q} : asked'[r] = asked[r]
      /\ turn' = turn /\ UNCHANGED <<carries, last>> BY <1>1, TypesBefore DEF inTurn
<1>3. Unmade(q) /\ RequestOK(q) BY <1>1, GatewayTypes DEF RequestOK
<1>4. profile' = profile /\ Async' = Async BY <1>1 DEF Async
<1>5. CASE profile.decider = "open"
  <2>1. Execute(q) /\ UNCHANGED <<brokerVars, poller>> BY <1>5 DEF Ask
  <2>2. ~Async BY <1>5, TypesBefore, LaterIsQueued
  <2>3. NoBump /\ pending' = pending BY <2>1 DEF brokerVars, NoBump
  <2>4. \A r \in Requests \ {q} : Alone(r) BY <1>1, <1>2, <2>1, ExecuteDoes DEF Alone, brokerVars
  <2>5. BlockingOK(q)' BY <1>1, <1>3, <1>4, <1>5, <2>1 DEF BlockingOK, Unmade, brokerVars
  <2>6. RequestOK(q)' BY <1>1, <1>2, <1>3, <1>4, <2>1, <2>2, <2>5, ExecuteDoes DEF RequestOK, Unmade
  <2> QED BY <1>1, <1>2, <2>1, <2>3, <2>4, <2>6, ExecuteDoes, QuietIsHeard, TypesBefore, OneRequest
    DEF brokerVars, PollerTypes
<1>6. CASE profile.decider = "strict"
  <2>1. call' = [call EXCEPT ![q] = "denied"] /\ UNCHANGED <<brokerVars, poller, ran, used>> BY <1>6 DEF Ask
  <2>2. ~Async BY <1>6, TypesBefore, LaterIsQueued
  <2>3. NoBump /\ pending' = pending BY <2>1 DEF brokerVars, NoBump
  <2>4. call' \in CallTypes /\ call'[q] = "denied" /\ \A r \in Requests \ {q} : call'[r] = call[r]
    BY <2>1, TypesBefore DEF CallTypes
  <2>5. \A r \in Requests \ {q} : Alone(r) BY <1>1, <1>2, <2>1, <2>4 DEF Alone, brokerVars
  <2>6. BlockingOK(q)' BY <1>1, <1>3, <1>4, <2>1 DEF BlockingOK, Unmade, brokerVars
  <2>7. RequestOK(q)' BY <1>1, <1>2, <1>3, <1>4, <2>1, <2>2, <2>4, <2>6 DEF RequestOK, Unmade
  <2> QED BY <1>1, <1>2, <2>1, <2>3, <2>4, <2>5, <2>7, QuietIsHeard, TypesBefore, OneRequest
    DEF brokerVars, PollerTypes
<1>7. CASE profile.decider = "handler"
  <2>1. /\ call' = [call EXCEPT ![q] = "waiting"]
        /\ future' = [future EXCEPT ![q] = "waiting"]
        /\ UNCHANGED <<pending, timers, entries, outcomes, version, changed, poller, ran, used>> BY <1>7 DEF Ask
  <2>2. ~Async BY <1>7, TypesBefore, LaterIsQueued
  <2>3. NoBump /\ pending' = pending BY <2>1 DEF NoBump
  <2>4. /\ call' \in CallTypes /\ call'[q] = "waiting"
        /\ future' \in FutureTypes /\ future'[q] = "waiting"
        /\ \A r \in Requests \ {q} : call'[r] = call[r] /\ future'[r] = future[r]
    BY <2>1, TypesBefore DEF CallTypes, FutureTypes
  <2>5. \A r \in Requests \ {q} : Alone(r) BY <1>1, <1>2, <2>1, <2>4 DEF Alone
  <2>6. BlockingOK(q)' BY <1>1, <1>3, <1>4, <2>1, <2>4 DEF BlockingOK, Unmade
  <2>7. RequestOK(q)' BY <1>1, <1>2, <1>3, <1>4, <2>1, <2>2, <2>4, <2>6 DEF RequestOK, Unmade
  <2> QED BY <1>1, <1>2, <2>1, <2>3, <2>4, <2>5, <2>7, QuietIsHeard, TypesBefore, OneRequest DEF PollerTypes
<1>8. CASE profile.decider = "queue"
  <2>1. /\ call' = [call EXCEPT ![q] = IF Async THEN "queued" ELSE "waiting"]
        /\ Submit(q) /\ UNCHANGED <<outcomes, ran, used>> BY <1>8 DEF Ask
  <2>2. /\ pending' = pending \cup {q} /\ timers' = timers \cup {q} /\ Bump
        /\ IF Async THEN entries' = entries \cup {q} /\ UNCHANGED future
           ELSE future' = [future EXCEPT ![q] = "waiting"] /\ UNCHANGED entries BY <2>1 DEF Submit
  <2>3. /\ call' \in CallTypes /\ call'[q] = (IF Async THEN "queued" ELSE "waiting")
        /\ future' \in FutureTypes /\ future'[q] = (IF Async THEN "none" ELSE "waiting")
        /\ \A r \in Requests \ {q} : call'[r] = call[r] /\ future'[r] = future[r]
    BY <1>3, <2>1, <2>2, TypesBefore DEF CallTypes, FutureTypes, Unmade
  <2>4. \A r \in Requests \ {q} : Alone(r) BY <1>1, <1>2, <2>1, <2>2, <2>3 DEF Alone
  <2>5. Async => LaterOK(q)' BY <1>1, <1>3, <2>1, <2>2, <2>3 DEF LaterOK, Unmade
  <2>6. ~Async => BlockingOK(q)' BY <1>1, <1>3, <1>4, <2>1, <2>2, <2>3 DEF BlockingOK, Unmade
  <2>7. RequestOK(q)' BY <1>1, <1>2, <1>3, <1>4, <2>1, <2>3, <2>5, <2>6 DEF RequestOK, Unmade
  <2>8. pending' \subseteq Requests /\ timers' \subseteq Requests /\ entries' \subseteq Requests BY <2>2, TypesBefore
  <2> QED BY <1>1, <1>2, <2>1, <2>2, <2>3, <2>4, <2>7, <2>8, BumpIsHeard, TypesBefore, OneRequest DEF PollerTypes
<1> QED BY <1>5, <1>6, <1>7, <1>8, TypesBefore, LaterIsQueued

LEMMA DecideStep == ASSUME NEW q \in Requests PROVE GatewayInv /\ Decide(q) => GatewayInv'
<1>. SUFFICES ASSUME GatewayInv, Decide(q) PROVE GatewayInv' OBVIOUS
<1>1. /\ profile.decider = "handler" /\ future[q] = "waiting" /\ call[q] = "waiting"
      /\ UNCHANGED <<profile, carries, inTurn, asked, call, pending, timers, entries, outcomes,
                     version, changed, poller, posts, ran, used>> BY DEF Decide
<1>2. PICK answer \in {"approved", "denied"} :
        /\ future' = [future EXCEPT ![q] = answer]
        /\ accepted' = [accepted EXCEPT ![q] = @ \cup {answer}] BY DEF Decide
<1>3. /\ future' \in FutureTypes /\ future'[q] = answer
      /\ accepted' \in AnswerTypes /\ accepted'[q] = accepted[q] \cup {answer}
      /\ \A r \in Requests \ {q} : future'[r] = future[r] /\ accepted'[r] = accepted[r]
  BY <1>2, TypesBefore DEF FutureTypes, AnswerTypes
<1>4. RequestOK(q) /\ ~Async BY <1>1, GatewayTypes, LaterIsQueued
<1>5. Async' = Async /\ turn' = turn /\ UNCHANGED <<carries, last>> BY <1>1 DEF Async, inTurn
<1>6. BlockingOK(q) /\ asked[q] # NoRun /\ ran[q] = 0 /\ accepted[q] = {}
  BY <1>1, <1>4 DEF RequestOK, Unmade, BlockingOK
<1>7. BlockingOK(q)' BY <1>1, <1>3, <1>6 DEF BlockingOK
<1>8. RequestOK(q)' BY <1>1, <1>4, <1>5, <1>6, <1>7 DEF RequestOK
<1>9. \A r \in Requests \ {q} : Alone(r) BY <1>1, <1>3 DEF Alone
<1>10. NoBump /\ pending' = pending BY <1>1 DEF NoBump
<1> QED BY <1>1, <1>3, <1>5, <1>8, <1>9, <1>10, QuietIsHeard, TypesBefore, OneRequest DEF PollerTypes

LEMMA WakeStep == ASSUME NEW q \in Requests PROVE GatewayInv /\ Wake(q) => GatewayInv'
<1>. SUFFICES ASSUME GatewayInv, Wake(q) PROVE GatewayInv' OBVIOUS
<1>1. /\ call[q] = "waiting" /\ future[q] \in {"approved", "denied"}
      /\ UNCHANGED <<profile, carries, inTurn, asked, brokerVars, poller, posts, accepted>> BY DEF Wake
<1>2. RequestOK(q) BY GatewayTypes
<1>3. asked[q] # NoRun /\ ~Async /\ BlockingOK(q) /\ ran[q] = 0 BY <1>1, <1>2 DEF RequestOK, Unmade, LaterOK
<1>4. Async' = Async /\ turn' = turn /\ UNCHANGED <<carries, last>> BY <1>1 DEF Async, inTurn
<1>5. NoBump /\ pending' = pending BY <1>1 DEF NoBump, brokerVars
<1>6. CASE future[q] = "approved" /\ Execute(q)
  <2>1. BlockingOK(q)' BY <1>1, <1>3, <1>6 DEF BlockingOK, brokerVars
  <2>2. profile.harness = "in_process" => asked[q] = turn BY <1>1, <1>2 DEF RequestOK
  <2>3. RequestOK(q)' BY <1>1, <1>3, <1>4, <1>6, <2>1, <2>2, ExecuteDoes DEF RequestOK
  <2>4. \A r \in Requests \ {q} : Alone(r) BY <1>1, <1>6, ExecuteDoes DEF Alone, brokerVars
  <2> QED BY <1>1, <1>4, <1>5, <1>6, <2>3, <2>4, ExecuteDoes, QuietIsHeard, TypesBefore, OneRequest
    DEF PollerTypes, brokerVars
<1>7. CASE \E place \in {"denied", "refused"} : call' = [call EXCEPT ![q] = place] /\ UNCHANGED <<ran, used>>
  <2>1. PICK place \in {"denied", "refused"} :
          call' = [call EXCEPT ![q] = place] /\ UNCHANGED <<ran, used>> BY <1>7
  <2>2. /\ call' \in CallTypes /\ call'[q] = place
        /\ \A r \in Requests \ {q} : call'[r] = call[r] BY <2>1, TypesBefore DEF CallTypes
  <2>3. BlockingOK(q)' BY <1>1, <1>3, <2>1 DEF BlockingOK, brokerVars
  <2>4. RequestOK(q)' BY <1>1, <1>3, <1>4, <2>1, <2>2, <2>3 DEF RequestOK
  <2>5. \A r \in Requests \ {q} : Alone(r) BY <1>1, <2>1, <2>2 DEF Alone, brokerVars
  <2> QED BY <1>1, <1>4, <1>5, <2>1, <2>2, <2>4, <2>5, QuietIsHeard, TypesBefore, OneRequest
    DEF PollerTypes, brokerVars
<1> QED BY <1>6, <1>7 DEF Wake

LEMMA ReturnStep == ASSUME NEW q \in Requests PROVE GatewayInv /\ Return(q) => GatewayInv'
<1>. SUFFICES ASSUME GatewayInv, Return(q) PROVE GatewayInv' OBVIOUS
<1>1. /\ call[q] = "running" /\ call' = [call EXCEPT ![q] = "done"]
      /\ outcomes' = IF Async THEN Stored(q) ELSE outcomes
      /\ UNCHANGED <<profile, carries, inTurn, asked, future, pending, timers, entries, version,
                     changed, poller, posts, accepted, ran, used>> BY DEF Return
<1>2. /\ call' \in CallTypes /\ call'[q] = "done"
      /\ \A r \in Requests \ {q} : call'[r] = call[r] BY <1>1, TypesBefore DEF CallTypes
<1>3. RequestOK(q) BY GatewayTypes
<1>4. profile' = profile /\ Async' = Async /\ turn' = turn /\ UNCHANGED <<carries, last>> BY <1>1 DEF Async, inTurn
<1>5. asked[q] # NoRun BY <1>1, <1>3 DEF RequestOK, Unmade
<1>6. BlockingOK(q) => BlockingOK(q)' BY <1>1 DEF BlockingOK
<1>7. LaterOK(q) => LaterOK(q)' BY <1>1 DEF LaterOK
<1>8. RequestOK(q)' BY <1>1, <1>2, <1>3, <1>4, <1>5, <1>6, <1>7 DEF RequestOK
<1>9. \A r \in Requests \ {q} : Alone(r) BY <1>1, <1>2 DEF Alone
<1>10. NoBump /\ pending' = pending BY <1>1 DEF NoBump
<1>11. outcomes' \in Seq(Requests) /\ Len(outcomes') <= OutcomesKept
  <2>1. Stored(q) \in Seq(Requests) /\ Len(Stored(q)) <= OutcomesKept BY TypesBefore, StoredType, GatewayAssumption
  <2> QED BY <1>1, <2>1, TypesBefore
<1> QED BY <1>1, <1>2, <1>4, <1>8, <1>9, <1>10, <1>11, QuietIsHeard, TypesBefore, OneRequest DEF PollerTypes

\* An answer, a person's or a timer's, to a call that waits for it or not.
LEMMA ResolveStep ==
  ASSUME GatewayInv, NEW q \in Requests, NEW answer, NEW kinds, Resolve(q, answer, kinds),
         \/ answer = "approved" /\ kinds = "approved"
         \/ answer = "denied" /\ kinds \in {"denied", "expired"},
         UNCHANGED <<profile, carries, inTurn, asked, call, ran, used>>,
         posts' \in 0 .. MaxPosts
  PROVE  GatewayInv'
<1>1. /\ pending' = pending \ {q}
      /\ IF q \in pending THEN Bump ELSE NoBump
      /\ IF future[q] = "waiting"
         THEN /\ future' = [future EXCEPT ![q] = answer] /\ timers' = timers \ {q}
              /\ accepted' = [accepted EXCEPT ![q] = @ \cup {kinds}]
         ELSE UNCHANGED <<future, timers, accepted>>
      /\ UNCHANGED <<entries, outcomes>> BY DEF Resolve
<1>2. RequestOK(q) BY GatewayTypes
<1>3. profile' = profile /\ Async' = Async /\ turn' = turn /\ UNCHANGED <<carries, last>> BY DEF Async, inTurn
<1>4. /\ PollersMissNothing' /\ (poller.since <= version)'
      /\ version' \in Nat /\ changed' \in BOOLEAN /\ poller' \in PollerTypes
  <2>1. CASE q \in pending BY <1>1, <2>1, BumpIsHeard DEF PollerTypes
  <2>2. CASE q \notin pending
    <3>1. NoBump /\ pending' = pending BY <1>1, <2>2
    <3> QED BY <3>1, QuietIsHeard DEF PollerTypes
  <2> QED BY <2>1, <2>2
<1>5. CASE future[q] = "waiting"
  <2>1. /\ future' \in FutureTypes /\ future'[q] = answer
        /\ accepted' \in AnswerTypes /\ accepted'[q] = accepted[q] \cup {kinds}
        /\ \A r \in Requests \ {q} : future'[r] = future[r] /\ accepted'[r] = accepted[r]
    <3>1. answer \in {"approved", "denied"} /\ kinds \in {"approved", "denied", "expired"} OBVIOUS
    <3>2. /\ future' = [future EXCEPT ![q] = answer]
          /\ accepted' = [accepted EXCEPT ![q] = @ \cup {kinds}] BY <1>1, <1>5
    <3>3. future' \in FutureTypes /\ future'[q] = answer BY <3>1, <3>2, TypesBefore DEF FutureTypes
    <3>4. accepted' \in AnswerTypes /\ accepted'[q] = accepted[q] \cup {kinds}
      BY <3>1, <3>2, TypesBefore DEF AnswerTypes
    <3> QED BY <3>2, <3>3, <3>4, TypesBefore DEF FutureTypes, AnswerTypes
  <2>2. ~Async /\ asked[q] # NoRun /\ BlockingOK(q) /\ accepted[q] = {}
    BY <1>2, <1>5 DEF RequestOK, Unmade, LaterOK, BlockingOK
  <2>3. BlockingOK(q)' BY <1>1, <1>5, <2>1, <2>2 DEF BlockingOK
  <2>4. RequestOK(q)' BY <1>2, <1>3, <2>2, <2>3 DEF RequestOK
  <2>5. \A r \in Requests \ {q} : Alone(r) BY <1>1, <1>5, <2>1 DEF Alone
  <2>6. timers' = timers \ {q} BY <1>1, <1>5
  <2> QED BY <1>1, <1>3, <1>4, <2>1, <2>4, <2>5, <2>6, TypesBefore, OneRequest
<1>6. CASE future[q] # "waiting"
  <2>1. UNCHANGED <<future, timers, accepted>> BY <1>1, <1>6
  <2>2. \A r \in Requests : Alone(r) BY <1>1, <2>1 DEF Alone
  <2>3. RequestOK(q)' BY <1>2, <1>3, <2>2, AloneIsOK
  <2> QED BY <1>1, <1>3, <1>4, <2>1, <2>2, <2>3, TypesBefore, OneRequest
<1> QED BY <1>5, <1>6

LEMMA ExpireStep == ASSUME NEW q \in Requests PROVE GatewayInv /\ Expire(q) => GatewayInv'
<1>. SUFFICES ASSUME GatewayInv, Expire(q) PROVE GatewayInv' OBVIOUS
<1>1. CASE ExpireBlocking(q)
  <2>1. /\ Resolve(q, "denied", "expired")
        /\ UNCHANGED <<profile, carries, inTurn, asked, call, posts, ran, used>> BY <1>1 DEF ExpireBlocking
  <2> QED BY <2>1, TypesBefore, ResolveStep
<1>2. CASE ExpireAsync(q)
  <2>1. /\ q \in timers /\ q \in entries
        /\ entries' = entries \ {q} /\ timers' = timers \ {q}
        /\ pending' = pending \ {q} /\ outcomes' = Stored(q) /\ Bump
        /\ accepted' = [accepted EXCEPT ![q] = @ \cup {"expired"}]
        /\ call' = [call EXCEPT ![q] = "denied"]
        /\ UNCHANGED <<profile, carries, inTurn, asked, future, posts, ran, used>> BY <1>2 DEF ExpireAsync
  <2>2. /\ call' \in CallTypes /\ call'[q] = "denied"
        /\ accepted' \in AnswerTypes /\ accepted'[q] = accepted[q] \cup {"expired"}
        /\ \A r \in Requests \ {q} : call'[r] = call[r] /\ accepted'[r] = accepted[r]
    BY <2>1, TypesBefore DEF CallTypes, AnswerTypes
  <2>3. RequestOK(q) BY GatewayTypes
  <2>4. /\ Async /\ asked[q] # NoRun /\ future[q] = "none" /\ accepted[q] = {} /\ ran[q] = 0
    BY <2>1, <2>3 DEF RequestOK, Unmade, LaterOK, BlockingOK
  <2>5. profile' = profile /\ Async' = Async /\ turn' = turn /\ UNCHANGED <<carries, last>> BY <2>1 DEF Async, inTurn
  <2>6. LaterOK(q)' BY <2>1, <2>2, <2>4 DEF LaterOK
  <2>7. RequestOK(q)' BY <2>1, <2>2, <2>3, <2>4, <2>5, <2>6 DEF RequestOK
  <2>8. \A r \in Requests \ {q} : Alone(r) BY <2>1, <2>2 DEF Alone
  <2>9. Stored(q) \in Seq(Requests) /\ Len(Stored(q)) <= OutcomesKept BY TypesBefore, StoredType, GatewayAssumption
  <2> QED BY <2>1, <2>2, <2>5, <2>7, <2>8, <2>9, BumpIsHeard, TypesBefore, OneRequest DEF PollerTypes
<1> QED BY <1>1, <1>2 DEF Expire

LEMMA PostStep == ASSUME NEW q \in Requests PROVE GatewayInv /\ Post(q) => GatewayInv'
<1>. SUFFICES ASSUME GatewayInv, Post(q) PROVE GatewayInv' OBVIOUS
<1>1. /\ asked[q] # NoRun /\ posts' \in 0 .. MaxPosts
      /\ UNCHANGED <<profile, carries, inTurn, asked>> BY TypesBefore, GatewayAssumption DEF Post
<1>2. PICK answer \in {"approved", "denied"} :
        \/ PostAsync(q, answer)
        \/ q \notin entries /\ Resolve(q, answer, answer) /\ UNCHANGED <<call, ran, used>> BY DEF Post
<1>3. CASE q \notin entries /\ Resolve(q, answer, answer) /\ UNCHANGED <<call, ran, used>> BY <1>1, <1>3, ResolveStep
<1>4. CASE PostAsync(q, answer)
  <2>1. /\ q \in entries /\ Bump
        /\ entries' = entries \ {q} /\ pending' = pending \ {q} /\ timers' = timers \ {q}
        /\ accepted' = [accepted EXCEPT ![q] = @ \cup {answer}]
        /\ UNCHANGED future BY <1>4 DEF PostAsync, Take
  <2>2. /\ accepted' \in AnswerTypes /\ accepted'[q] = accepted[q] \cup {answer}
        /\ \A r \in Requests \ {q} : accepted'[r] = accepted[r] BY <2>1, TypesBefore DEF AnswerTypes
  <2>3. RequestOK(q) BY GatewayTypes
  <2>4. Async /\ future[q] = "none" /\ accepted[q] = {} /\ ran[q] = 0 BY <2>1, <2>3 DEF RequestOK, LaterOK, BlockingOK
  <2>5. profile' = profile /\ Async' = Async /\ turn' = turn /\ UNCHANGED <<carries, last>> BY <1>1 DEF Async, inTurn
  <2>6. profile.harness = "gateway" BY <2>4, TypesBefore, LaterIsQueued
  <2>7. CASE answer = "approved"
    <3>1. Execute(q) /\ outcomes' = outcomes BY <1>4, <2>7 DEF PostAsync
    <3>2. LaterOK(q)' BY <2>1, <2>2, <2>4, <2>7 DEF LaterOK
    <3>3. RequestOK(q)' BY <1>1, <2>2, <2>3, <2>4, <2>5, <2>6, <3>1, <3>2, ExecuteDoes DEF RequestOK
    <3>4. \A r \in Requests \ {q} : Alone(r) BY <1>1, <2>1, <2>2, <3>1, ExecuteDoes DEF Alone
    <3> QED BY <1>1, <2>1, <2>2, <2>5, <3>1, <3>3, <3>4, ExecuteDoes, BumpIsHeard, TypesBefore, OneRequest
      DEF PollerTypes
  <2>8. CASE answer = "denied"
    <3>1. /\ call' = [call EXCEPT ![q] = "denied"] /\ outcomes' = Stored(q)
          /\ UNCHANGED <<ran, used>> BY <1>4, <2>8 DEF PostAsync
    <3>2. /\ call' \in CallTypes /\ call'[q] = "denied"
          /\ \A r \in Requests \ {q} : call'[r] = call[r] BY <3>1, TypesBefore DEF CallTypes
    <3>3. LaterOK(q)' BY <2>1, <2>2, <2>4, <2>8, <3>1 DEF LaterOK
    <3>4. RequestOK(q)' BY <1>1, <2>2, <2>3, <2>4, <2>5, <2>6, <3>1, <3>2, <3>3 DEF RequestOK
    <3>5. \A r \in Requests \ {q} : Alone(r) BY <1>1, <2>1, <2>2, <3>1, <3>2 DEF Alone
    <3>6. Stored(q) \in Seq(Requests) /\ Len(Stored(q)) <= OutcomesKept BY TypesBefore, StoredType, GatewayAssumption
    <3> QED BY <1>1, <2>1, <2>2, <2>5, <3>1, <3>2, <3>4, <3>5, <3>6, BumpIsHeard, TypesBefore, OneRequest
      DEF PollerTypes
  <2> QED BY <2>7, <2>8
<1> QED BY <1>2, <1>3, <1>4

LEMMA GatewayStep == GatewayInv /\ [Next]_vars => GatewayInv'
<1>1. ASSUME GatewayInv, Next PROVE GatewayInv'
  <2>1. CASE BeginTurn BY <1>1, <2>1, BeginTurnStep
  <2>2. CASE EndTurn BY <1>1, <2>2, EndTurnStep
  <2>3. CASE Poll \/ Polled BY <1>1, <2>3, PollStep
  <2>4. ASSUME NEW q \in Requests,
               Ask(q) \/ Decide(q) \/ Wake(q) \/ Return(q) \/ Expire(q) \/ Post(q)
        PROVE  GatewayInv' BY <1>1, <2>4, AskStep, DecideStep, WakeStep, ReturnStep, ExpireStep, PostStep
  <2> QED BY <1>1, <2>1, <2>2, <2>3, <2>4 DEF Next
<1>2. ASSUME GatewayInv, UNCHANGED vars PROVE GatewayInv'
  <2>1. /\ UNCHANGED <<profile, carries, turn, last, asked, call, future, pending, timers, entries>>
        /\ UNCHANGED <<outcomes, version, changed, poller, posts, accepted, ran, used>>
    BY <1>2 DEF vars, inTurn, brokerVars
  <2>2. GatewayTypeOK' BY <1>2, <2>1 DEF GatewayInv, GatewayTypeOK
  <2>3. ASSUME NEW q \in Requests PROVE RequestOK(q)' BY <1>2, <2>1, AloneIsOK DEF GatewayInv, Alone
  <2>4. PollersMissNothing' /\ (poller.since <= version)' BY <1>2, <2>1 DEF GatewayInv, PollersMissNothing
  <2> QED BY <2>2, <2>3, <2>4 DEF GatewayInv
<1> QED BY <1>1, <1>2

\* What the invariant is for.
LEMMA GatewaySafe == GatewayInv => RunsOnlyApproved /\ PollersMissNothing
<1>. SUFFICES ASSUME GatewayInv PROVE RunsOnlyApproved BY DEF GatewayInv
<1>1. ASSUME NEW q \in Requests
      PROVE  /\ ran[q] <= 1
             /\ accepted[q] \in {{}, {"approved"}, {"denied"}, {"expired"}}
             /\ ran[q] > 0 /\ profile.decider # "open" => accepted[q] = {"approved"}
  <2>1. RequestOK(q) /\ future[q] \in {"none", "waiting", "approved", "denied", "cancelled"}
    BY TypesBefore, GatewayTypes DEF FutureTypes
  <2> QED BY <2>1 DEF RequestOK, LaterOK, BlockingOK
<1>2. ASSUME NEW kinds \in {{}, {"approved"}, {"denied"}, {"expired"}}
      PROVE  Cardinality(kinds) <= 1
  <2>1. CASE kinds = {}
    <3>1. Cardinality(kinds) = 0 BY <2>1, FS_EmptySet
    <3> QED BY <3>1
  <2>2. ASSUME NEW x, kinds = {x} PROVE Cardinality(kinds) <= 1
    <3>1. Cardinality({x}) = 1 BY FS_Singleton
    <3> QED BY <2>2, <3>1
  <2> QED BY <1>2, <2>1, <2>2
<1> QED BY <1>1, <1>2 DEF RunsOnlyApproved

\* A call that waits for its approval runs only in the turn that made it.
RunsInItsTurn ==
  \A q \in Requests : ran'[q] > ran[q] /\ ~Async =>
      turn = asked'[q] /\ used'[q] \in {NoRun, asked'[q]}

LEMMA TurnIsOnStep == GatewayInv /\ [Next]_vars => [RunsInItsTurn]_vars
<1>. SUFFICES ASSUME GatewayInv, Next, NEW r \in Requests, ran'[r] > ran[r], ~Async
              PROVE  turn = asked'[r] /\ used'[r] \in {NoRun, asked'[r]} BY DEF RunsInItsTurn
<1>0. ran[r] \in Nat /\ Credential \in {NoRun, turn} /\ ran'[r] # ran[r] BY TypesBefore DEF Credential
<1>1. ~(BeginTurn \/ EndTurn \/ Poll \/ Polled) BY <1>0 DEF BeginTurn, EndTurn, Poll, Polled
<1>2. PICK q \in Requests :
        Ask(q) \/ Decide(q) \/ Wake(q) \/ Return(q) \/ Expire(q) \/ Post(q) BY <1>1 DEF Next
<1>3. ~(Decide(q) \/ Return(q) \/ Expire(q)) BY <1>0 DEF Decide, Return, Expire, ExpireBlocking, ExpireAsync
<1>4. ~Post(q)
  <2>1. q \notin entries BY GatewayTypes DEF RequestOK, BlockingOK
  <2> QED BY <1>0, <2>1 DEF Post, PostAsync
<1>5. Execute(q) /\ r = q
  <2>1. Execute(q) \/ ran' = ran BY <1>2, <1>3, <1>4, TypesBefore, LaterIsQueued DEF Ask, Wake
  <2> QED BY <1>0, <2>1, ExecuteDoes
<1>6. used'[q] = Credential BY <1>5, ExecuteDoes
<1>7. CASE Ask(q)
  <2>1. asked'[q] = turn BY <1>7, TypesBefore DEF Ask
  <2> QED BY <1>0, <1>5, <1>6, <2>1
<1>8. CASE Wake(q)
  <2>1. call[q] = "waiting" /\ asked' = asked BY <1>8 DEF Wake
  <2>2. profile.harness = "in_process" => asked[q] = turn BY <2>1, GatewayTypes DEF RequestOK
  <2>3. profile.harness = "gateway" => asked[q] = turn
    <3>1. ran'[q] = ran[q] + 1 /\ ran[q] \in Nat BY <1>5, ExecuteDoes, TypesBefore
    <3>2. ran' # ran BY <3>1
    <3> QED BY <1>8, <3>2 DEF Wake, TurnIsOn
  <2> QED BY <1>0, <1>5, <1>6, <2>1, <2>2, <2>3, TypesBefore, LaterIsQueued
<1> QED BY <1>2, <1>3, <1>4, <1>7, <1>8

------------------------
(* The adapters' turns (ExecutorTurns) *)

Worked == seen.worked
Spawns == spec.kind = "spawn"

\* The records that steps change field by field have their fields.
TurnRecords ==
  /\ spec \in Specs /\ phase \in Phases
  /\ DOMAIN seen = {"worked", "unasked", "said", "texts", "error", "status", "spent"}
  /\ DOMAIN fold = {"output", "parts", "usage", "held", "failed", "terminal", "items", "tools",
                    "blocked"}
  /\ count \in [turns : 0..MaxTurns, messages : Nat]
  /\ seen.error \in BOOLEAN /\ fold.failed \in BOOLEAN /\ fold.terminal \in BOOLEAN

\* Sessions are opened one after the other, at most one a turn.
SessionsOpened ==
  /\ \E k \in 0..count.turns : live = 1..k /\ (phase = "opening" => k < count.turns)
  /\ phase # "idle" => count.turns >= 1
  /\ phase = "opening" => session = NoThread /\ count.messages = 0
  /\ phase = "streaming" => session \in live

\* The session the agent worked in is the one the run's handle names. A spawned CLI has no
\* handle, and so no second turn; headless grok names its first session before it is open.
OneHandle ==
  /\ Worked \in {NoThread} \cup live
  /\ Worked # NoThread => Spawns \/ thread = Worked
  /\ phase = "streaming" /\ Worked # NoThread => Worked = session
  /\ phase = "opening" /\ count.turns = 1 => Worked = NoThread /\ live = {}
  /\ count.turns = 0 => Worked = NoThread /\ thread = NoThread
  /\ thread \in {NoThread, Pending} \cup Sessions
  /\ thread = Pending => spec.kind = "acp"
  /\ Spawns => thread = NoThread /\ count.turns <= 1
  /\ spec.kind = "headless" /\ phase = "opening" =>
       thread \in Sessions /\ (count.turns = 1 => thread = 1)
  /\ phase = "streaming" /\ (spec.kind = "claude" => count.messages > 0) =>
       Spawns \/ thread = session

\* A failure the runtime showed is in the turn's fold until the record has it.
FailureNoted ==
  /\ phase \in {"streaming", "closing"} /\ seen.error => fold.failed
  /\ phase = "opening" => ~seen.error
  /\ phase = "idle" /\ seen.error => seen.status # "succeeded"

TurnsInv == TurnRecords /\ SessionsOpened /\ OneHandle /\ FailureNoted /\ LeashHolds

LEMMA NoFoldHolds ==
  /\ DOMAIN NoFold = {"output", "parts", "usage", "held", "failed", "terminal", "items", "tools",
                      "blocked"}
  /\ NoFold.failed = FALSE /\ NoFold.terminal = FALSE
  /\ NoFold.failed \in BOOLEAN /\ NoFold.terminal \in BOOLEAN
<1>1. NoFold.failed = FALSE /\ NoFold.terminal = FALSE BY DEF NoFold
<1>2. NoFold.failed \in BOOLEAN /\ NoFold.terminal \in BOOLEAN BY <1>1
<1> QED BY <1>1, <1>2 DEF NoFold

LEMMA TurnsStart == TurnsInit => TurnsInv
<1>. SUFFICES ASSUME TurnsInit PROVE TurnsInv OBVIOUS
<1>0. 1 \in Sessions /\ NoThread \notin Sessions /\ MaxTurns \in Nat /\ MaxTurns >= 1
  BY HandlesAssumption DEF Sessions
<1>1. /\ spec \in Specs /\ phase = "idle" /\ session = NoThread /\ fold = NoFold
      /\ 1 \in Sessions /\ NoThread \notin Sessions /\ MaxTurns \in Nat /\ MaxTurns >= 1
  <2>1. phase = "idle" /\ session = NoThread /\ fold = NoFold BY DEF TurnsInit
  <2>2. spec \in Specs BY DEF TurnsInit
  <2> QED BY <1>0, <2>1, <2>2
<1>2. \/ /\ thread = NoThread /\ live = {} /\ count = [turns |-> 0, messages |-> 0] /\ seen = Seen
      \/ /\ spec.kind \in {"codex", "claude", "kimi", "headless"}
         /\ thread = 1 /\ live = {1} /\ count = [turns |-> 1, messages |-> 0]
         /\ \E n : seen = [Seen EXCEPT !.worked = 1, !.status = "suspended", !.spent = n] BY DEF TurnsInit
<1>3. CASE /\ thread = NoThread /\ live = {} /\ count = [turns |-> 0, messages |-> 0]
           /\ seen = Seen
  <2>1. TurnRecords
    <3>1. count \in [turns : 0..MaxTurns, messages : Nat] BY <1>1, <1>3
    <3>2. seen.error \in BOOLEAN BY <1>3 DEF Seen
    <3>3. DOMAIN seen = {"worked", "unasked", "said", "texts", "error", "status", "spent"} BY <1>3 DEF Seen
    <3> QED BY <1>1, <3>1, <3>2, <3>3, NoFoldHolds DEF TurnRecords, Phases
  <2>2. SessionsOpened
    <3>1. live = 1..0 /\ 0 \in 0..0 BY <1>3
    <3> QED BY <1>1, <1>3, <3>1 DEF SessionsOpened
  <2>3. OneHandle BY <1>1, <1>3, HandlesAssumption DEF OneHandle, Worked, Spawns, Seen
  <2>4. FailureNoted BY <1>1, <1>3 DEF FailureNoted, Seen
  <2>5. LeashHolds BY <1>3 DEF LeashHolds, Seen
  <2> QED BY <2>1, <2>2, <2>3, <2>4, <2>5 DEF TurnsInv
<1>4. ASSUME NEW n, seen = [Seen EXCEPT !.worked = 1, !.status = "suspended", !.spent = n],
             spec.kind \in {"codex", "claude", "kimi", "headless"},
             thread = 1, live = {1}, count = [turns |-> 1, messages |-> 0]
      PROVE  TurnsInv
  <2>0. /\ DOMAIN seen = {"worked", "unasked", "said", "texts", "error", "status", "spent"}
        /\ seen.worked = 1 /\ seen.status = "suspended" /\ seen.error = FALSE
        /\ seen.unasked = {}
    <3>1. /\ DOMAIN Seen = {"worked", "unasked", "said", "texts", "error", "status", "spent"}
          /\ Seen.error = FALSE /\ Seen.unasked = {} BY DEF Seen
    <3> QED BY <1>4, <3>1
  <2>1. TurnRecords
    <3>1. count \in [turns : 0..MaxTurns, messages : Nat] BY <1>1, <1>4
    <3> QED BY <1>1, <2>0, <3>1, NoFoldHolds DEF TurnRecords, Phases
  <2>2. SessionsOpened
    <3>1. live = 1..1 /\ 1 \in 0..1 BY <1>4
    <3> QED BY <1>1, <1>4, <3>1 DEF SessionsOpened
  <2>3. OneHandle BY <1>1, <1>4, <2>0, HandlesAssumption DEF OneHandle, Worked, Spawns
  <2>4. FailureNoted BY <1>1, <2>0 DEF FailureNoted
  <2>5. LeashHolds BY <2>0 DEF LeashHolds
  <2> QED BY <2>1, <2>2, <2>3, <2>4, <2>5 DEF TurnsInv
<1> QED BY <1>2, <1>3, <1>4

\* The next session is the next number, while there is one.
LEMMA NewSessionIsNext ==
  \A k \in Nat : live = 1..k /\ k < MaxTurns => NewSession = k + 1 /\ NewSession \in Sessions
<1>. SUFFICES ASSUME NEW k \in Nat, live = 1..k, k < MaxTurns
              PROVE  NewSession = k + 1 /\ NewSession \in Sessions OBVIOUS
<1>0. MaxTurns \in Nat BY HandlesAssumption
<1>1. k + 1 \in Sessions /\ k + 1 \notin live /\ \A m \in Sessions \ live : k + 1 <= m BY <1>0 DEF Sessions
<1>2. \A n \in Sessions : n \notin live /\ (\A m \in Sessions \ live : n <= m) => n = k + 1 BY <1>0, <1>1 DEF Sessions
<1> QED BY <1>1, <1>2 DEF NewSession

\* A step that says or does nothing against the leash keeps it.
LEMMA LeashKept ==
  ASSUME LeashHolds, spec' = spec,
         \/ seen'.unasked = seen.unasked
         \/ \E op \in OpClasses : ~Blocks(op) /\ seen'.unasked = seen.unasked \cup {op}
  PROVE  LeashHolds'
<1>1. Named' = Named BY DEF Named
<1>2. CASE seen'.unasked = seen.unasked BY <1>1, <1>2 DEF LeashHolds
<1>3. ASSUME NEW op \in OpClasses, ~Blocks(op), seen'.unasked = seen.unasked \cup {op}
      PROVE  LeashHolds'
  <2>1. spec.leash = {} \/ op \notin Named \/ op \notin spec.leash BY <1>3 DEF Blocks, Asks
  <2> QED BY <1>1, <1>3, <2>1 DEF LeashHolds
<1> QED BY <1>2, <1>3

LEMMA BeginStep == TurnsInv /\ Begin => TurnsInv'
<1>. SUFFICES ASSUME TurnsInv, Begin PROVE TurnsInv' OBVIOUS
<1>. USE DEF TurnsInv
<1>1. /\ phase = "idle" /\ count.turns < MaxTurns /\ (count.turns = 0 \/ thread # NoThread)
      /\ phase' = "opening" /\ session' = NoThread /\ fold' = NoFold
      /\ count' = [turns |-> count.turns + 1, messages |-> 0]
      /\ UNCHANGED <<spec, live, total>>
      /\ count.turns \in Nat /\ MaxTurns \in Nat BY HandlesAssumption DEF Begin, TurnRecords
<1>2. /\ DOMAIN seen' = DOMAIN seen
      /\ seen'.worked = seen.worked /\ seen'.unasked = seen.unasked /\ seen'.error = FALSE BY DEF Begin, TurnRecords
<1>3. PICK k \in 0..count.turns : live = 1..k BY DEF SessionsOpened
<1>4. NewSession = k + 1 /\ NewSession \in Sessions
  <2>1. k \in Nat /\ k < MaxTurns BY <1>1, <1>3
  <2> QED BY <1>1, <1>3, <2>1, NewSessionIsNext
<1>5. TurnRecords'
  <2>1. count' \in [turns : 0..MaxTurns, messages : Nat] BY <1>1
  <2>2. seen'.error \in BOOLEAN BY <1>2
  <2> QED BY <1>1, <1>2, <2>1, <2>2, NoFoldHolds DEF TurnRecords, Phases
<1>6. SessionsOpened'
  <2>1. k \in 0..(count.turns + 1) /\ k < count.turns + 1 BY <1>1, <1>3
  <2>2. count'.turns = count.turns + 1 /\ count'.messages = 0 BY <1>1
  <2> QED BY <1>1, <1>3, <2>1, <2>2 DEF SessionsOpened
<1>7. OneHandle'
  <2>1. CASE spec.kind = "headless" /\ thread = NoThread
    <3>1. thread' = NewSession BY <2>1 DEF Begin
    <3>2. count.turns = 0 /\ Worked = NoThread /\ live = {}
      <4>1. count.turns = 0 BY <1>1, <2>1
      <4> QED BY <1>1, <1>3, <4>1 DEF OneHandle
    <3>3. k = 0 BY <1>3, <3>2
    <3> QED BY <1>1, <1>2, <1>4, <2>1, <3>1, <3>2, <3>3, HandlesAssumption DEF OneHandle, Worked, Spawns, Sessions
  <2>2. CASE spec.kind = "acp" /\ thread = NoThread
    <3>1. thread' = Pending BY <2>2 DEF Begin
    <3>2. Worked = NoThread /\ count.turns = 0 /\ k = 0 /\ live = {} BY <1>1, <1>3, <2>2 DEF OneHandle
    <3> QED BY <1>1, <1>2, <2>2, <3>1, <3>2 DEF OneHandle, Worked, Spawns
  <2>3. CASE ~(spec.kind \in {"headless", "acp"} /\ thread = NoThread)
    <3>1. thread' = thread BY <2>3 DEF Begin
    <3>2. count.turns = 0 => Worked = NoThread /\ thread = NoThread /\ live = {} /\ k = 0 BY <1>3 DEF OneHandle
    <3> QED BY <1>1, <1>2, <2>3, <3>1, <3>2, HandlesAssumption DEF OneHandle, Worked, Spawns, Sessions
  <2> QED BY <2>1, <2>2, <2>3
<1>8. FailureNoted' BY <1>1, <1>2 DEF FailureNoted
<1>9. LeashHolds' BY <1>1, <1>2, LeashKept
<1> QED BY <1>5, <1>6, <1>7, <1>8, <1>9

LEMMA LiveAreSessions ==
  ASSUME TurnsInv
  PROVE  /\ live \subseteq Sessions
         /\ \A s \in Sessions : s \notin {NoThread, Pending}
<1>1. count.turns \in Nat /\ count.turns <= MaxTurns /\ MaxTurns \in Nat
  BY HandlesAssumption DEF TurnsInv, TurnRecords
<1>2. PICK k \in 0..count.turns : live = 1..k BY DEF TurnsInv, SessionsOpened
<1>3. k \in Nat /\ k <= MaxTurns BY <1>1, <1>2
<1>4. live \subseteq Sessions BY <1>1, <1>2, <1>3 DEF Sessions
<1>5. \A s \in Sessions : s \notin {NoThread, Pending} BY HandlesAssumption DEF Sessions
<1> QED BY <1>4, <1>5

LEMMA OpenStep == TurnsInv /\ Open => TurnsInv'
<1>. SUFFICES ASSUME TurnsInv, Open PROVE TurnsInv' OBVIOUS
<1>. USE DEF TurnsInv
<1>1. /\ phase = "opening" /\ phase' = "streaming"
      /\ thread' = IF Announces THEN session' ELSE thread
      /\ UNCHANGED <<spec, fold, total, count, seen>>
      /\ count.turns \in Nat /\ count.turns >= 1 /\ count.turns <= MaxTurns /\ MaxTurns \in Nat
      /\ count.messages = 0 BY HandlesAssumption DEF Open, TurnRecords, SessionsOpened
<1>2. PICK k \in 0..count.turns : live = 1..k /\ k < count.turns BY <1>1 DEF SessionsOpened
<1>3. NewSession = k + 1 /\ NewSession \in Sessions
  <2>1. k \in Nat /\ k < MaxTurns BY <1>1, <1>2
  <2> QED BY <1>2, <2>1, NewSessionIsNext
<1>4. {NoThread, Pending} \cap Sessions = {} BY HandlesAssumption DEF Sessions
<1>5. TurnRecords'
  <2>1. phase' \in Phases BY <1>1 DEF Phases
  <2> QED BY <1>1, <2>1 DEF TurnRecords
<1>6. FailureNoted' BY <1>1 DEF FailureNoted
<1>7. LeashHolds'
  <2>1. seen'.unasked = seen.unasked BY <1>1
  <2> QED BY <1>1, <2>1, LeashKept
<1>8. CASE thread \in live /\ session' = thread /\ live' = live
  <2>1. SessionsOpened' BY <1>1, <1>2, <1>8 DEF SessionsOpened
  <2>2. thread' = thread BY <1>1, <1>8
  <2>3. thread \in Sessions /\ thread \notin {NoThread, Pending} BY <1>8, LiveAreSessions
  <2>4. OneHandle' BY <1>1, <1>8, <2>2, <2>3 DEF OneHandle, Worked, Spawns
  <2> QED BY <1>5, <1>6, <1>7, <2>1, <2>4
<1>9. CASE /\ thread \in {NoThread, Pending} \/ (spec.kind = "headless" /\ count.turns = 1)
           /\ session' = IF spec.kind = "headless" THEN thread ELSE NewSession
           /\ live' = live \cup {session'}
  <2>1. Worked = NoThread BY <1>1, <1>2, <1>4, <1>9 DEF OneHandle, Spawns, Sessions
  <2>2. session' = k + 1 /\ session' \in Sessions
    <3>1. CASE spec.kind = "headless"
      <4>1. thread \in Sessions /\ count.turns = 1 /\ thread = 1 BY <1>1, <1>4, <1>9, <3>1 DEF OneHandle
      <4>2. k = 0 BY <1>2, <4>1
      <4> QED BY <1>9, <3>1, <4>1, <4>2
    <3>2. CASE spec.kind # "headless" BY <1>3, <1>9, <3>2
    <3> QED BY <3>1, <3>2
  <2>3. live' = 1..(k + 1) /\ k + 1 \in 0..count.turns
    <3>1. \A n \in Int : n \in 1..(k + 1) <=> n \in 1..k \/ n = k + 1 BY <1>2
    <3>2. k + 1 \in Int /\ 1..k \subseteq Int /\ 1..(k + 1) \subseteq Int BY <1>2
    <3> QED BY <1>1, <1>2, <1>9, <2>2, <3>1, <3>2
  <2>4. SessionsOpened'
    <3>1. session' \in live' BY <1>9
    <3> QED BY <1>1, <2>3, <3>1 DEF SessionsOpened
  <2>5. thread' \in {NoThread, Pending} \cup Sessions BY <1>1, <2>2 DEF OneHandle
  <2>6. thread' = Pending => spec.kind = "acp" BY <1>1, <1>4, <2>2 DEF OneHandle
  <2>7. Spawns => thread' = NoThread BY <1>1 DEF OneHandle, Spawns, Announces
  <2>8. spec.kind # "claude" => Spawns \/ thread' = session' BY <1>1, <1>9 DEF Spawns, Announces
  <2>9. OneHandle' BY <1>1, <2>1, <2>5, <2>6, <2>7, <2>8 DEF OneHandle, Worked, Spawns
  <2> QED BY <1>5, <1>6, <1>7, <2>4, <2>9
<1> QED BY <1>8, <1>9 DEF Open

LEMMA OpenFailsStep == TurnsInv /\ OpenFails => TurnsInv'
<1>. SUFFICES ASSUME TurnsInv, OpenFails PROVE TurnsInv' OBVIOUS
<1>. USE DEF TurnsInv
<1>1. /\ phase = "opening" /\ phase' = "closing"
      /\ UNCHANGED <<spec, thread, session, live, total, count>>
      /\ fold' = Failed(fold)
      /\ seen' = [seen EXCEPT !.error = TRUE] BY DEF OpenFails
<1>2. /\ DOMAIN seen' = DOMAIN seen /\ seen'.error = TRUE
      /\ seen'.worked = seen.worked /\ seen'.unasked = seen.unasked
      /\ DOMAIN fold' = DOMAIN fold /\ fold'.failed = TRUE /\ fold'.terminal = TRUE BY <1>1 DEF TurnRecords, Failed
<1>3. TurnRecords'
  <2>1. seen'.error \in BOOLEAN /\ fold'.failed \in BOOLEAN /\ fold'.terminal \in BOOLEAN BY <1>2
  <2>2. phase' \in Phases BY <1>1 DEF Phases
  <2> QED BY <1>1, <1>2, <2>1, <2>2 DEF TurnRecords
<1>4. SessionsOpened' BY <1>1 DEF SessionsOpened
<1>5. OneHandle' BY <1>1, <1>2 DEF OneHandle, Worked, Spawns
<1>6. FailureNoted' BY <1>1, <1>2 DEF FailureNoted
<1>7. LeashHolds' BY <1>1, <1>2, LeashKept
<1> QED BY <1>3, <1>4, <1>5, <1>6, <1>7

\* Once a message may name the session or work in it, the run's handle is that session's.
LEMMA AnnouncedIsNamed ==
  ASSUME TurnsInv, phase = "streaming", Announced
  PROVE  Spawns \/ thread = session BY DEF TurnsInv, OneHandle, Announced

\* A message of the stream: the handle and the work are of the turn's session.
LEMMA MessageStep ==
  ASSUME TurnsInv, NEW f, Says(f), UNCHANGED phase,
         DOMAIN f = DOMAIN fold, f.failed \in BOOLEAN, f.terminal \in BOOLEAN,
         DOMAIN seen' = DOMAIN seen, seen'.error \in BOOLEAN,
         seen'.error => f.failed,
         seen'.worked \in {seen.worked, session},
         thread' \in {thread, session},
         Spawns \/ thread' = session, Spawns => thread' = thread,
         \/ seen'.unasked = seen.unasked
         \/ \E op \in OpClasses : ~Blocks(op) /\ seen'.unasked = seen.unasked \cup {op}
  PROVE  TurnsInv'
<1>. USE DEF TurnsInv
<1>1. /\ phase = "streaming" /\ fold' = f /\ UNCHANGED <<spec, session, live>>
      /\ count' = [count EXCEPT !.messages = @ + 1] BY DEF Says
<1>2. count' \in [turns : 0..MaxTurns, messages : Nat] /\ count'.turns = count.turns BY <1>1 DEF TurnRecords
<1>3. session \in live BY <1>1 DEF SessionsOpened
<1>4. live \subseteq Sessions /\ session \in Sessions /\ session \notin {NoThread, Pending} BY <1>3, LiveAreSessions
<1>5. TurnRecords' BY <1>1, <1>2 DEF TurnRecords
<1>6. SessionsOpened' BY <1>1, <1>2, <1>3 DEF SessionsOpened
<1>7. OneHandle'
  <2>1. Worked # NoThread => Worked = session BY <1>1 DEF OneHandle
  <2>2. Worked' \in {NoThread, session} BY <2>1 DEF Worked
  <2>3. thread' = session \/ (Spawns /\ thread' = thread) OBVIOUS
  <2>4. Worked' \in {NoThread} \cup live' BY <1>1, <1>3, <2>2
  <2>5. Worked' # NoThread => Spawns' \/ thread' = Worked' BY <1>1, <2>2, <2>3 DEF Spawns
  <2>6. count.turns >= 1 /\ count.turns \in Nat BY <1>1 DEF SessionsOpened, TurnRecords
  <2>7. CASE thread' = session BY <1>1, <1>2, <1>4, <2>2, <2>4, <2>5, <2>6, <2>7 DEF OneHandle, Spawns
  <2>8. CASE Spawns /\ thread' = thread BY <1>1, <1>2, <1>4, <2>2, <2>4, <2>5, <2>6, <2>8 DEF OneHandle, Spawns
  <2> QED BY <2>3, <2>7, <2>8
<1>8. FailureNoted' BY <1>1 DEF FailureNoted
<1>9. LeashHolds' BY <1>1, LeashKept
<1> QED BY <1>5, <1>6, <1>7, <1>8, <1>9

\* What the messages' records come to.
FoldOK(f) == DOMAIN f = DOMAIN fold /\ f.failed \in BOOLEAN /\ f.terminal \in BOOLEAN

LEMMA FoldsAreOK ==
  ASSUME TurnsInv, NEW f, FoldOK(f)
  PROVE  /\ \A u : FoldOK(Completed(f, u)) /\ Completed(f, u).failed = f.failed
         /\ FoldOK(Failed(f)) /\ Failed(f).failed = TRUE
         /\ FoldOK(Tool(f)) /\ Tool(f).failed = f.failed
         /\ \A text : FoldOK(Message(f, text)) /\ Message(f, text).failed = f.failed
         /\ \A n : FoldOK([f EXCEPT !.parts = n]) /\ [f EXCEPT !.parts = n].failed = f.failed
         /\ \A u : FoldOK([f EXCEPT !.held = u]) /\ [f EXCEPT !.held = u].failed = f.failed
         /\ \A ops : FoldOK([f EXCEPT !.blocked = ops]) /\ [f EXCEPT !.blocked = ops].failed = f.failed
<1>1. DOMAIN f = {"output", "parts", "usage", "held", "failed", "terminal", "items", "tools",
                  "blocked"} BY DEF FoldOK, TurnsInv, TurnRecords
<1>2. ASSUME NEW u PROVE FoldOK(Completed(f, u)) /\ Completed(f, u).failed = f.failed BY <1>1 DEF FoldOK, Completed
<1>3. FoldOK(Failed(f)) /\ Failed(f).failed = TRUE BY <1>1 DEF FoldOK, Failed
<1>4. FoldOK(Tool(f)) /\ Tool(f).failed = f.failed BY <1>1 DEF FoldOK, Tool
<1>5. ASSUME NEW text PROVE FoldOK(Message(f, text)) /\ Message(f, text).failed = f.failed BY <1>1 DEF FoldOK, Message
<1>6. ASSUME NEW n PROVE FoldOK([f EXCEPT !.parts = n]) /\ [f EXCEPT !.parts = n].failed = f.failed BY <1>1 DEF FoldOK
<1>7. ASSUME NEW u PROVE FoldOK([f EXCEPT !.held = u]) /\ [f EXCEPT !.held = u].failed = f.failed BY <1>1 DEF FoldOK
<1>8. ASSUME NEW ops
      PROVE  FoldOK([f EXCEPT !.blocked = ops]) /\ [f EXCEPT !.blocked = ops].failed = f.failed BY <1>1 DEF FoldOK
<1> QED BY <1>2, <1>3, <1>4, <1>5, <1>6, <1>7, <1>8

LEMMA ClaudeInitStep == TurnsInv /\ ClaudeInit => TurnsInv'
<1>. SUFFICES ASSUME TurnsInv, ClaudeInit PROVE TurnsInv' OBVIOUS
<1>1. /\ spec.kind = "claude" /\ phase = "streaming" /\ Says(fold) /\ thread' = Started(session)
      /\ UNCHANGED <<phase, seen>> BY DEF ClaudeInit, Says
<1>2. session \notin {NoThread, Pending} BY <1>1, LiveAreSessions DEF TurnsInv, SessionsOpened
<1>3. thread' = session /\ ~Spawns BY <1>1, <1>2 DEF Started, Spawns
<1>4. fold.failed \in BOOLEAN /\ fold.terminal \in BOOLEAN /\ seen.error \in BOOLEAN BY DEF TurnsInv, TurnRecords
<1>5. seen.error => fold.failed BY <1>1 DEF TurnsInv, FailureNoted
<1> QED BY <1>1, <1>3, <1>4, <1>5, MessageStep

LEMMA TextStep == TurnsInv /\ Text => TurnsInv'
<1>. SUFFICES ASSUME TurnsInv, Text PROVE TurnsInv' OBVIOUS
<1>1. /\ Announced /\ phase = "streaming"
      /\ seen' = [seen EXCEPT !.worked = session, !.texts = @ + 1]
      /\ UNCHANGED <<phase, thread>> BY DEF Text, Says
<1>2. FoldOK(fold) BY DEF TurnsInv, TurnRecords, FoldOK
<1>3. PICK f : Says(f) /\ FoldOK(f) /\ f.failed = fold.failed
  <2>1. CASE spec.kind = "spawn"
    <3>1. Says(Tool([fold EXCEPT !.parts = @ + 1])) BY <2>1 DEF Text
    <3>. DEFINE g == [fold EXCEPT !.parts = fold.parts + 1]
    <3>2. FoldOK(g) /\ g.failed = fold.failed BY <1>2, FoldsAreOK
    <3>3. FoldOK(Tool(g)) /\ Tool(g).failed = g.failed
      <4>. HIDE DEF g
      <4> QED BY <3>2, FoldsAreOK
    <3> QED BY <3>1, <3>2, <3>3
  <2>2. CASE spec.kind # "spawn" /\ ~Fluent
    <3>. DEFINE g == [fold EXCEPT !.parts = @ + 1]
    <3>1. Says(g) BY <2>2 DEF Text
    <3>2. FoldOK(g) /\ g.failed = fold.failed BY <1>2, FoldsAreOK
    <3> QED BY <3>1, <3>2
  <2>3. CASE spec.kind # "spawn" /\ Fluent
    <3>. DEFINE text == IF seen.texts = 0 THEN "first" ELSE "last"
    <3>1. Says(Message(fold, text)) BY <2>3 DEF Text
    <3>2. FoldOK(Message(fold, text)) /\ Message(fold, text).failed = fold.failed
      <4>. HIDE DEF text
      <4> QED BY <1>2, FoldsAreOK
    <3> QED BY <3>1, <3>2
  <2> QED BY <2>1, <2>2, <2>3
<1>4. /\ DOMAIN seen' = DOMAIN seen /\ seen'.error = seen.error /\ seen'.worked = session
      /\ seen'.unasked = seen.unasked BY <1>1 DEF TurnsInv, TurnRecords
<1>5. seen'.error \in BOOLEAN BY <1>4 DEF TurnsInv, TurnRecords
<1>6. seen'.error => f.failed BY <1>1, <1>3, <1>4 DEF TurnsInv, FailureNoted
<1>7. Spawns \/ thread' = session BY <1>1, AnnouncedIsNamed
<1> QED BY <1>1, <1>3, <1>4, <1>5, <1>6, <1>7, MessageStep DEF FoldOK

LEMMA UseToolStep == ASSUME NEW op \in OpClasses PROVE TurnsInv /\ UseTool(op) => TurnsInv'
<1>. SUFFICES ASSUME TurnsInv, UseTool(op) PROVE TurnsInv' OBVIOUS
<1>1. /\ Announced /\ phase = "streaming"
      /\ seen' = [seen EXCEPT !.worked = session,
                              !.unasked = IF Blocks(op) THEN @ ELSE @ \cup {op}]
      /\ UNCHANGED <<phase, thread>> BY DEF UseTool, Says
<1>2. FoldOK(fold) BY DEF TurnsInv, TurnRecords, FoldOK
<1>3. PICK f : Says(f) /\ FoldOK(f) /\ f.failed = fold.failed
  <2>1. CASE spec.kind = "spawn" BY <1>2, <2>1 DEF UseTool
  <2>2. CASE spec.kind # "spawn"
    <3>. DEFINE ops == IF Blocks(op) THEN fold.blocked \cup {op} ELSE fold.blocked
                g == [fold EXCEPT !.blocked = ops]
    <3>1. Says(Tool(g))
      <4>1. Says(IF spec.kind = "spawn" THEN fold ELSE Tool(g)) BY DEF UseTool
      <4> QED BY <2>2, <4>1
    <3>2. FoldOK(g) /\ g.failed = fold.failed
      <4>. HIDE DEF ops
      <4> QED BY <1>2, FoldsAreOK
    <3>3. FoldOK(Tool(g)) /\ Tool(g).failed = g.failed
      <4>. HIDE DEF g
      <4> QED BY <3>2, FoldsAreOK
    <3> QED BY <3>1, <3>2, <3>3
  <2> QED BY <2>1, <2>2
<1>4. /\ DOMAIN seen' = DOMAIN seen /\ seen'.error = seen.error /\ seen'.worked = session
      /\ seen'.unasked = IF Blocks(op) THEN seen.unasked ELSE seen.unasked \cup {op} BY <1>1 DEF TurnsInv, TurnRecords
<1>5. seen'.error \in BOOLEAN BY <1>4 DEF TurnsInv, TurnRecords
<1>6. seen'.error => f.failed BY <1>1, <1>3, <1>4 DEF TurnsInv, FailureNoted
<1>7. Spawns \/ thread' = session BY <1>1, AnnouncedIsNamed
<1>8. \/ seen'.unasked = seen.unasked
      \/ \E o \in OpClasses : ~Blocks(o) /\ seen'.unasked = seen.unasked \cup {o} BY <1>4
<1> QED BY <1>1, <1>3, <1>4, <1>5, <1>6, <1>7, <1>8, MessageStep DEF FoldOK

LEMMA ReportStep ==
  ASSUME NEW raw PROVE TurnsInv /\ (Report(raw) \/ EndsWell(raw)) => TurnsInv'
<1>. SUFFICES ASSUME TurnsInv, Report(raw) \/ EndsWell(raw) PROVE TurnsInv' OBVIOUS
<1>1. FoldOK(fold) BY DEF TurnsInv, TurnRecords, FoldOK
<1>2. PICK f : Says(f) /\ FoldOK(f) /\ f.failed = fold.failed
  <2>1. CASE Report(raw)
    <3>. DEFINE u == UsageFrom(raw)
                g == [fold EXCEPT !.held = u]
    <3>1. Says(g) BY <2>1 DEF Report
    <3>2. FoldOK(g) /\ g.failed = fold.failed
      <4>. HIDE DEF u
      <4> QED BY <1>1, FoldsAreOK
    <3> QED BY <3>1, <3>2
  <2>2. CASE EndsWell(raw)
    <3>. DEFINE u == UsageFrom(raw)
    <3>1. Says(Completed(fold, u)) BY <2>2 DEF EndsWell
    <3>2. FoldOK(Completed(fold, u)) /\ Completed(fold, u).failed = fold.failed
      <4>. HIDE DEF u
      <4> QED BY <1>1, FoldsAreOK
    <3> QED BY <3>1, <3>2
  <2> QED BY <2>1, <2>2
<1>3. /\ phase = "streaming" /\ phase' = phase /\ spec.kind # "spawn" /\ Announced
      /\ seen' = [seen EXCEPT !.said = raw]
      /\ thread' = thread \/ thread' = Started(session) BY <1>2 DEF Report, EndsWell, Says, Announced
<1>4. session \notin {NoThread, Pending} BY <1>3, LiveAreSessions DEF TurnsInv, SessionsOpened
<1>5. thread = session /\ ~Spawns BY <1>3, AnnouncedIsNamed DEF Spawns
<1>6. thread' = session BY <1>3, <1>4, <1>5 DEF Started
<1>7. /\ DOMAIN seen' = DOMAIN seen /\ seen'.error = seen.error /\ seen'.worked = seen.worked
      /\ seen'.unasked = seen.unasked BY <1>3 DEF TurnsInv, TurnRecords
<1>8. seen'.error \in BOOLEAN BY <1>7 DEF TurnsInv, TurnRecords
<1>9. seen'.error => f.failed BY <1>2, <1>3, <1>7 DEF TurnsInv, FailureNoted
<1> QED BY <1>2, <1>3, <1>5, <1>6, <1>7, <1>8, <1>9, MessageStep DEF FoldOK

LEMMA EndsBadlyStep == TurnsInv /\ EndsBadly => TurnsInv'
<1>. SUFFICES ASSUME TurnsInv, EndsBadly PROVE TurnsInv' OBVIOUS
<1>1. /\ phase = "streaming" /\ phase' = phase /\ spec.kind # "spawn" /\ Announced
      /\ seen' = [seen EXCEPT !.error = TRUE] /\ Says(Failed(fold))
      /\ thread' = thread \/ thread' = Started(session) BY DEF EndsBadly, Says
<1>2. session \notin {NoThread, Pending} BY <1>1, LiveAreSessions DEF TurnsInv, SessionsOpened
<1>3. thread = session /\ ~Spawns BY <1>1, AnnouncedIsNamed DEF Spawns
<1>4. thread' = session BY <1>1, <1>2, <1>3 DEF Started
<1>5. FoldOK(fold) BY DEF TurnsInv, TurnRecords, FoldOK
<1>6. FoldOK(Failed(fold)) /\ Failed(fold).failed = TRUE BY <1>5, FoldsAreOK
<1>7. /\ DOMAIN seen' = DOMAIN seen /\ seen'.error = TRUE /\ seen'.worked = seen.worked
      /\ seen'.unasked = seen.unasked BY <1>1 DEF TurnsInv, TurnRecords
<1>8. seen'.error \in BOOLEAN BY <1>7
<1>9. seen'.error => Failed(fold).failed BY <1>6
<1> QED BY <1>1, <1>3, <1>4, <1>6, <1>7, <1>8, <1>9, MessageStep DEF FoldOK

\* The stream is over: the loop has the failure, whatever else it gathered.
LEMMA CloseStep ==
  ASSUME TurnsInv, phase = "streaming", phase' = "closing", FoldOK(fold'),
         UNCHANGED <<spec, thread, session, live, count>>,
         DOMAIN seen' = DOMAIN seen, seen'.error \in BOOLEAN,
         seen'.worked = seen.worked, seen'.unasked = seen.unasked,
         seen'.error => fold'.failed
  PROVE  TurnsInv'
<1>. USE DEF TurnsInv
<1>1. TurnRecords'
  <2>1. phase' \in Phases BY DEF Phases
  <2> QED BY <2>1 DEF TurnRecords, FoldOK
<1>2. SessionsOpened' BY DEF SessionsOpened
<1>3. OneHandle' BY DEF OneHandle, Worked, Spawns
<1>4. FailureNoted' BY DEF FailureNoted
<1>5. LeashHolds' BY LeashKept
<1> QED BY <1>1, <1>2, <1>3, <1>4, <1>5

LEMMA StreamEndsStep ==
  ASSUME NEW exit \in {0, 1} PROVE TurnsInv /\ StreamEnds(exit) => TurnsInv'
<1>. SUFFICES ASSUME TurnsInv, StreamEnds(exit) PROVE TurnsInv' OBVIOUS
<1>1. /\ phase = "streaming" /\ phase' = "closing" /\ fold' = Closed(fold, exit)
      /\ exit = 0 \/ spec.kind \in {"headless", "spawn"}
      /\ seen' = [seen EXCEPT !.error = @ \/ exit # 0 \/ (~Fluent /\ ~fold.terminal)]
      /\ UNCHANGED <<spec, thread, session, live, count>> BY DEF StreamEnds
<1>2. FoldOK(fold) BY DEF TurnsInv, TurnRecords, FoldOK
<1>3. ASSUME NEW f, FoldOK(f) PROVE FoldOK(Joined(f)) /\ Joined(f).failed = f.failed BY <1>3, FoldsAreOK DEF Joined
<1>4. FoldOK(fold') /\ (fold.failed \/ exit # 0 \/ (~Fluent /\ ~fold.terminal) => fold'.failed)
  <2>1. CASE spec.kind = "kimi"
    <3>1. fold' = Completed(fold, fold.held) BY <1>1, <2>1 DEF Closed
    <3>2. exit = 0 /\ Fluent BY <1>1, <2>1 DEF Fluent
    <3> QED BY <1>2, <3>1, <3>2, FoldsAreOK
  <2>2. CASE spec.kind \in {"headless", "acp"}
    <3>. DEFINE last0 == IF exit # 0 THEN Failed(fold) ELSE fold
    <3>1. fold' = IF last0.terminal THEN Joined(last0) ELSE Failed(Joined(last0)) BY <1>1, <2>2 DEF Closed
    <3>2. FoldOK(last0) /\ (fold.failed \/ exit # 0 => last0.failed) BY <1>2, FoldsAreOK
    <3>3. FoldOK(Joined(last0)) /\ Joined(last0).failed = last0.failed BY <1>3, <3>2
    <3>4. FoldOK(Failed(Joined(last0))) /\ Failed(Joined(last0)).failed = TRUE
      <4>. HIDE DEF last0
      <4> QED BY <3>3, FoldsAreOK
    <3>5. exit = 0 => last0.terminal = fold.terminal OBVIOUS
    <3> QED BY <3>1, <3>2, <3>3, <3>4, <3>5
  <2>3. CASE spec.kind = "spawn"
    <3>1. fold' = IF exit = 0 THEN Completed(Joined(fold), NoUsage) ELSE Failed(fold) BY <1>1, <2>3 DEF Closed
    <3>2. FoldOK(Joined(fold)) /\ Joined(fold).failed = fold.failed BY <1>2, <1>3
    <3>3. /\ FoldOK(Completed(Joined(fold), NoUsage))
          /\ Completed(Joined(fold), NoUsage).failed = fold.failed BY <3>2, FoldsAreOK
    <3>4. FoldOK(Failed(fold)) /\ Failed(fold).failed = TRUE BY <1>2, FoldsAreOK
    <3>5. Fluent BY <2>3 DEF Fluent
    <3> QED BY <3>1, <3>3, <3>4, <3>5
  <2>4. CASE spec.kind \notin {"kimi", "headless", "acp", "spawn"}
    <3>1. fold' = fold /\ exit = 0 /\ Fluent BY <1>1, <2>4 DEF Closed, Fluent
    <3> QED BY <1>2, <3>1
  <2> QED BY <2>1, <2>2, <2>3, <2>4
<1>5. /\ DOMAIN seen' = DOMAIN seen /\ seen'.worked = seen.worked /\ seen'.unasked = seen.unasked
      /\ seen'.error = (seen.error \/ exit # 0 \/ (~Fluent /\ ~fold.terminal)) BY <1>1 DEF TurnsInv, TurnRecords
<1>6. seen'.error \in BOOLEAN BY <1>5
<1>7. seen'.error => fold'.failed BY <1>1, <1>4, <1>5 DEF TurnsInv, FailureNoted
<1> QED BY <1>1, <1>4, <1>5, <1>6, <1>7, CloseStep

LEMMA StreamBreaksStep == TurnsInv /\ StreamBreaks => TurnsInv'
<1>. SUFFICES ASSUME TurnsInv, StreamBreaks PROVE TurnsInv' OBVIOUS
<1>1. /\ phase = "streaming" /\ phase' = "closing" /\ fold' = Failed(fold)
      /\ seen' = [seen EXCEPT !.error = TRUE]
      /\ UNCHANGED <<spec, thread, session, live, count>> BY DEF StreamBreaks
<1>2. FoldOK(fold) BY DEF TurnsInv, TurnRecords, FoldOK
<1>3. FoldOK(fold') /\ fold'.failed = TRUE BY <1>1, <1>2, FoldsAreOK
<1>4. /\ DOMAIN seen' = DOMAIN seen /\ seen'.worked = seen.worked /\ seen'.unasked = seen.unasked
      /\ seen'.error = TRUE BY <1>1 DEF TurnsInv, TurnRecords
<1>5. seen'.error \in BOOLEAN BY <1>4
<1> QED BY <1>1, <1>3, <1>4, <1>5, CloseStep

LEMMA TurnIsOver ==
  ASSUME TurnsInv, Back, DOMAIN seen' = DOMAIN seen, seen'.error = seen.error,
         seen'.worked = seen.worked, seen'.unasked = seen.unasked,
         seen.error => seen'.status # "succeeded"
  PROVE  TurnsInv'
<1>. USE DEF TurnsInv, Back
<1>1. TurnRecords'
  <2>1. phase' \in Phases /\ fold' = NoFold BY DEF Phases
  <2> QED BY <2>1, NoFoldHolds DEF TurnRecords
<1>2. SessionsOpened' BY DEF SessionsOpened
<1>3. OneHandle' BY DEF OneHandle, Worked, Spawns
<1>4. FailureNoted' BY DEF FailureNoted
<1>5. LeashHolds' BY LeashKept
<1> QED BY <1>1, <1>2, <1>3, <1>4, <1>5

LEMMA FinishStep == TurnsInv /\ (Finish \/ Cancelled) => TurnsInv'
<1>. SUFFICES ASSUME TurnsInv, Finish \/ Cancelled PROVE TurnsInv' OBVIOUS
<1>1. CASE Finish
  <2>. DEFINE status == IF fold.failed THEN "failed"
                        ELSE IF fold.blocked # {} THEN "suspended" ELSE "succeeded"
              spent == seen.spent + Reported
  <2>1. phase = "closing" /\ seen' = [seen EXCEPT !.status = status, !.spent = spent] /\ Back BY <1>1 DEF Finish
  <2>2. /\ DOMAIN seen' = DOMAIN seen /\ seen'.error = seen.error
        /\ seen'.worked = seen.worked /\ seen'.unasked = seen.unasked /\ seen'.status = status
    <3>. HIDE DEF status, spent
    <3> QED BY <2>1 DEF TurnsInv, TurnRecords
  <2>3. seen.error => status # "succeeded" BY <2>1 DEF TurnsInv, FailureNoted
  <2> QED BY <2>1, <2>2, <2>3, TurnIsOver
<1>2. CASE Cancelled
  <2>1. seen' = [seen EXCEPT !.status = "suspended"] /\ Back BY <1>2 DEF Cancelled
  <2>2. /\ DOMAIN seen' = DOMAIN seen /\ seen'.error = seen.error
        /\ seen'.worked = seen.worked /\ seen'.unasked = seen.unasked
        /\ seen'.status = "suspended" BY <2>1 DEF TurnsInv, TurnRecords
  <2> QED BY <2>1, <2>2, TurnIsOver
<1> QED BY <1>1, <1>2

LEMMA TurnsStep == TurnsInv /\ [TurnsNext]_turnVars => TurnsInv'
<1>1. ASSUME TurnsInv, TurnsNext PROVE TurnsInv'
  <2>1. CASE Begin BY <1>1, <2>1, BeginStep
  <2>2. CASE Open \/ OpenFails BY <1>1, <2>2, OpenStep, OpenFailsStep
  <2>3. CASE ClaudeInit \/ Text BY <1>1, <2>3, ClaudeInitStep, TextStep
  <2>4. ASSUME NEW op \in OpClasses, UseTool(op) PROVE TurnsInv' BY <1>1, <2>4, UseToolStep
  <2>5. ASSUME NEW raw \in Raw, Report(raw) \/ EndsWell(raw) PROVE TurnsInv' BY <1>1, <2>5, ReportStep
  <2>6. CASE EndsBadly \/ StreamBreaks BY <1>1, <2>6, EndsBadlyStep, StreamBreaksStep
  <2>7. ASSUME NEW exit \in {0, 1}, StreamEnds(exit) PROVE TurnsInv' BY <1>1, <2>7, StreamEndsStep
  <2>8. CASE Finish \/ Cancelled BY <1>1, <2>8, FinishStep
  <2> QED BY <1>1, <2>1, <2>2, <2>3, <2>4, <2>5, <2>6, <2>7, <2>8 DEF TurnsNext
<1>2. ASSUME TurnsInv, UNCHANGED turnVars PROVE TurnsInv'
  <2>. USE <1>2 DEF TurnsInv, turnVars
  <2>1. TurnRecords' BY DEF TurnRecords
  <2>2. SessionsOpened' BY DEF SessionsOpened
  <2>3. OneHandle' BY DEF OneHandle, Worked, Spawns
  <2>4. FailureNoted' BY DEF FailureNoted
  <2>5. LeashHolds' BY LeashKept
  <2> QED BY <2>1, <2>2, <2>3, <2>4, <2>5
<1> QED BY <1>1, <1>2

\* What the invariant is for.
LEMMA TurnsSafe == TurnsInv => LeashHolds /\ HandleIsKept /\ FailureIsRecorded
BY DEF TurnsInv, OneHandle, FailureNoted, Worked, Spawns, HandleIsKept, FailureIsRecorded

\* A step works in the session the agent first worked in.
WorksOn == seen.worked # NoThread => seen'.worked = seen.worked

LEMMA OneSessionStep == TurnsInv /\ [TurnsNext]_turnVars => [WorksOn]_turnVars
<1>. SUFFICES ASSUME TurnsInv, TurnsNext, seen.worked # NoThread
              PROVE  seen'.worked = seen.worked BY DEF WorksOn
<1>1. DOMAIN seen = {"worked", "unasked", "said", "texts", "error", "status", "spent"} BY DEF TurnsInv, TurnRecords
<1>2. phase = "streaming" => session = seen.worked BY DEF TurnsInv, OneHandle, Worked
<1>3. CASE Begin BY <1>1, <1>3 DEF Begin
<1>4. CASE Open \/ ClaudeInit BY <1>4 DEF Open, ClaudeInit
<1>5. CASE OpenFails \/ EndsBadly \/ StreamBreaks \/ Cancelled
  BY <1>1, <1>5 DEF OpenFails, EndsBadly, StreamBreaks, Cancelled
<1>6. CASE Text BY <1>1, <1>2, <1>6 DEF Text, Says
<1>7. ASSUME NEW op \in OpClasses, UseTool(op) PROVE seen'.worked = seen.worked
  <2>1. phase = "streaming" BY <1>7 DEF UseTool, Says
  <2>2. seen' = [seen EXCEPT !.worked = session,
                             !.unasked = IF Blocks(op) THEN @ ELSE @ \cup {op}] BY <1>7 DEF UseTool
  <2>3. seen'.worked = session BY <1>1, <2>2
  <2> QED BY <1>2, <2>1, <2>3
<1>8. ASSUME NEW raw \in Raw, Report(raw) \/ EndsWell(raw) PROVE seen'.worked = seen.worked
  BY <1>1, <1>8 DEF Report, EndsWell
<1>9. ASSUME NEW exit \in {0, 1}, StreamEnds(exit) PROVE seen'.worked = seen.worked
  <2>. DEFINE e == seen.error \/ exit # 0 \/ (~Fluent /\ ~fold.terminal)
  <2>1. seen' = [seen EXCEPT !.error = e] BY <1>9 DEF StreamEnds
  <2>. HIDE DEF e
  <2> QED BY <1>1, <2>1
<1>10. CASE Finish
  <2>. DEFINE status == IF fold.failed THEN "failed"
                        ELSE IF fold.blocked # {} THEN "suspended" ELSE "succeeded"
              spent == seen.spent + Reported
  <2>1. seen' = [seen EXCEPT !.status = status, !.spent = spent] BY <1>10 DEF Finish
  <2>. HIDE DEF status, spent
  <2> QED BY <1>1, <2>1
<1> QED BY <1>3, <1>4, <1>5, <1>6, <1>7, <1>8, <1>9, <1>10 DEF TurnsNext

------------------------
(* The depth of subagents (SubagentDepth) *)

InFlightOK(c) ==
  /\ c \in DOMAIN pendingDepth <=> spawns[c].at \in {"asked", "started", "stopped"}
  /\ c \in DOMAIN pendingDepth =>
       pendingDepth[c] <= depthLimit /\ Cardinality(Above(c)) <= pendingDepth[c]
  /\ c \in DOMAIN recorded => spawns[c].at = "started" /\ Cardinality(Above(c)) <= recorded[c]
  /\ spawns[c].at = "none" => spawns[c].by = Main
  /\ spawns[c].by # Main => spawns[spawns[c].by].at # "none"

DepthInv == SubagentsTypeOK /\ \A c \in Calls : InFlightOK(c)

\* A set of numbers has a least one, and one that is bounded a greatest.
LEMMA Least ==
  ASSUME NEW T, T \subseteq Nat, T # {}
  PROVE  \E x \in T : \A y \in T : x <= y
<1>. DEFINE R == OpToRel(<, Nat)
<1>1. IsWellFoundedOn(R, Nat) BY NatLessThanWellFounded
<1>. HIDE DEF R
<1>2. PICK x \in T : \A y \in T : ~(<<y, x>> \in R) BY <1>1, WFMin
<1>3. ASSUME NEW y \in T, y < x PROVE FALSE
  <2>1. <<y, x>> \in R BY <1>3 DEF R, OpToRel
  <2> QED BY <1>2, <2>1
<1> QED BY <1>2, <1>3

LEMMA Greatest ==
  ASSUME NEW T, NEW m \in Nat, T \subseteq 0..m, T # {}
  PROVE  \E x \in T : \A y \in T : x >= y
<1>. DEFINE U == {m - x : x \in T}
<1>1. U \subseteq Nat /\ U # {}
  <2>1. \A x \in T : m - x \in Nat OBVIOUS
  <2>2. PICK x \in T : TRUE OBVIOUS
  <2>3. m - x \in U OBVIOUS
  <2> QED BY <2>1, <2>3
<1>2. PICK u \in U : \A v \in U : u <= v
  <2>. HIDE DEF U
  <2> QED BY <1>1, Least
<1>3. PICK x \in T : u = m - x OBVIOUS
<1>4. ASSUME NEW y \in T PROVE x >= y
  <2>1. m - y \in U OBVIOUS
  <2>2. m - x <= m - y BY <1>2, <1>3, <2>1
  <2> QED BY <2>2
<1> QED BY <1>4

LEMMA AboveIsFinite ==
  \A a : Above(a) \subseteq Agents /\ IsFiniteSet(Above(a)) /\ Cardinality(Above(a)) \in Nat
<1>1. IsFiniteSet(Agents) BY DepthAssumption, FS_AddElement DEF Agents
<1>. TAKE a
<1>2. Above(a) \subseteq Agents BY DEF Above
<1>3. IsFiniteSet(Above(a)) BY <1>1, <1>2, FS_Subset
<1> QED BY <1>2, <1>3, FS_CardinalityType

LEMMA MainIsBelowNobody == Above(Main) = {}
<1>1. {} \in SUBSET Agents /\ HoldsCallers({}, Main) BY DepthAssumption DEF HoldsCallers
<1> QED BY <1>1 DEF Above

\* The agents above one hold its caller and every member's.
LEMMA AboveHoldsCallers ==
  ASSUME SubagentsTypeOK, NEW a
  PROVE  HoldsCallers(Above(a), a)
<1>. SUFFICES ASSUME NEW c \in Calls, c \in Above(a) \cup {a} PROVE spawns[c].by \in Above(a) BY DEF HoldsCallers
<1>1. spawns[c].by \in Agents BY DEF SubagentsTypeOK
<1>2. ASSUME NEW agents \in SUBSET Agents, HoldsCallers(agents, a) PROVE spawns[c].by \in agents
  <2>1. c \in agents \cup {a} BY <1>2 DEF Above
  <2> QED BY <1>2, <2>1 DEF HoldsCallers
<1> QED BY <1>1, <1>2 DEF Above

\* A step that moves a call and leaves the callers leaves the chains.
LEMMA SameCallersSameChains ==
  ASSUME \A c \in Calls : spawns'[c].by = spawns[c].by
  PROVE  \A a : Above(a)' = Above(a)
<1>. TAKE a
<1>1. \A agents : HoldsCallers(agents, a)' <=> HoldsCallers(agents, a) BY DEF HoldsCallers
<1> QED BY <1>1 DEF Above

\* A call nobody has made is above nobody, so whoever makes it adds itself to
\* the chain above it, and no other chain grows.
LEMMA NewCallsChain ==
  ASSUME DepthInv, NEW c \in Calls, spawns[c].at = "none", NEW a \in Agents, a # c,
         spawns'[c].by = a, \A d \in Calls \ {c} : spawns'[d].by = spawns[d].by
  PROVE  /\ Above(c)' \subseteq Above(a) \cup {a}
         /\ \A d \in Agents \ {c} : Above(d)' \subseteq Above(d)
<1>1. \A d \in Calls : spawns[d].by \in Agents \ {c}
  <2>1. c # Main BY DepthAssumption
  <2> QED BY <2>1 DEF DepthInv, InFlightOK, SubagentsTypeOK
<1>2. c \notin Above(a)
  <2>1. HoldsCallers(Agents \ {c}, a) BY <1>1 DEF HoldsCallers
  <2> QED BY <2>1 DEF Above
<1>3. Above(c)' \subseteq Above(a) \cup {a}
  <2>0. PICK S : S = Above(a) \cup {a} OBVIOUS
  <2>1. HoldsCallers(Above(a), a) BY AboveHoldsCallers DEF DepthInv
  <2>2. ASSUME NEW d \in Calls \cap (S \cup {c}) PROVE spawns'[d].by \in S
    <3>1. CASE d = c BY <2>0, <3>1
    <3>2. CASE d # c
      <4>1. spawns'[d].by = spawns[d].by /\ d \in Calls \cap (Above(a) \cup {a}) BY <2>0, <2>2, <3>2
      <4> QED BY <2>0, <2>1, <4>1 DEF HoldsCallers
    <3> QED BY <3>1, <3>2
  <2>3. HoldsCallers(S, c)' BY <2>2 DEF HoldsCallers
  <2>4. S \in SUBSET Agents BY <2>0, AboveIsFinite
  <2> QED BY <2>0, <2>3, <2>4 DEF Above
<1>4. ASSUME NEW d \in Agents \ {c}, NEW b \in Above(d)', NEW agents \in SUBSET Agents,
             HoldsCallers(agents, d)
      PROVE  b \in agents
  <2>. DEFINE S == agents \ {c}
  <2>1. ASSUME NEW x \in Calls \cap (S \cup {d}) PROVE spawns'[x].by \in S
    <3>1. spawns'[x].by = spawns[x].by /\ spawns[x].by \in agents BY <1>4 DEF HoldsCallers
    <3> QED BY <1>1, <3>1
  <2>2. HoldsCallers(S, d)' BY <2>1 DEF HoldsCallers
  <2>3. S \in SUBSET Agents OBVIOUS
  <2> QED BY <2>2, <2>3 DEF Above
<1>5. \A d \in Agents \ {c} : Above(d)' \subseteq Above(d)
  <2>. SUFFICES ASSUME NEW d \in Agents \ {c}, NEW b \in Above(d)' PROVE b \in Above(d) OBVIOUS
  <2>1. b \in Agents BY DEF Above
  <2> QED BY <1>4, <2>1 DEF Above
<1> QED BY <1>3, <1>5

CallPlaces == {"none", "asked", "started", "stopped", "over", "refused"}

LEMMA DepthStart == SubagentsInit => DepthInv
<1>. SUFFICES ASSUME SubagentsInit PROVE DepthInv OBVIOUS
<1>1. DOMAIN pendingDepth = {} /\ DOMAIN recorded = {} BY DEF SubagentsInit
<1>2. SubagentsTypeOK BY <1>1 DEF SubagentsInit, SubagentsTypeOK, Agents
<1>3. ASSUME NEW c \in Calls PROVE InFlightOK(c) BY <1>1 DEF SubagentsInit, InFlightOK
<1> QED BY <1>2, <1>3 DEF DepthInv

\* A call that moves keeps its caller, and so every chain.
LEMMA CallMoves ==
  ASSUME SubagentsTypeOK, NEW c \in Calls, NEW place \in CallPlaces, CallGoes(c, place)
  PROVE  /\ spawns' \in [Calls -> [at : CallPlaces, by : Agents]]
         /\ spawns'[c].at = place
         /\ \A d \in Calls \ {c} : spawns'[d] = spawns[d]
         /\ \A d \in Calls : spawns'[d].by = spawns[d].by
         /\ \A a : Above(a)' = Above(a)
<1>1. /\ spawns' \in [Calls -> [at : CallPlaces, by : Agents]]
      /\ spawns'[c].at = place
      /\ \A d \in Calls \ {c} : spawns'[d] = spawns[d]
      /\ \A d \in Calls : spawns'[d].by = spawns[d].by BY DEF SubagentsTypeOK, CallGoes, CallPlaces
<1> QED BY <1>1, SameCallersSameChains

LEMMA PreToolUseStep ==
  ASSUME NEW c \in Calls, NEW a \in Agents PROVE DepthInv /\ PreToolUse(c, a) => DepthInv'
<1>. SUFFICES ASSUME DepthInv, PreToolUse(c, a) PROVE DepthInv' OBVIOUS
<1>. USE DEF DepthInv
<1>. DEFINE place == IF Allows(a) THEN "asked" ELSE "refused"
<1>1. /\ spawns[c].at = "none" /\ a \in Alive
      /\ spawns' = [spawns EXCEPT ![c] = [at |-> place, by |-> a]]
      /\ pendingDepth' = IF Allows(a) THEN With(pendingDepth, c, CallerDepth(a) + 1) ELSE pendingDepth
      /\ UNCHANGED <<depthLimit, recorded>> BY DEF PreToolUse
<1>2. /\ spawns' \in [Calls -> [at : CallPlaces, by : Agents]]
      /\ spawns'[c].at = place /\ spawns'[c].by = a
      /\ \A d \in Calls \ {c} : spawns'[d] = spawns[d]
  <2>1. place \in CallPlaces BY DEF CallPlaces
  <2>. HIDE DEF place
  <2> QED BY <1>1, <2>1 DEF SubagentsTypeOK, CallPlaces
<1>3. a # c /\ (a # Main => a \in Calls /\ spawns[a].at = "started") BY <1>1, DepthAssumption DEF Alive, StartedCalls
<1>4. /\ Above(c)' \subseteq Above(a) \cup {a}
      /\ \A d \in Agents \ {c} : Above(d)' \subseteq Above(d) BY <1>1, <1>2, <1>3, NewCallsChain
<1>5. \A d \in Agents \ {c} : Cardinality(Above(d)') <= Cardinality(Above(d)) BY <1>4, AboveIsFinite, FS_Subset
<1>6. Cardinality(Above(c)') <= Cardinality(Above(a)) + 1
  <2>1. /\ IsFiniteSet(Above(a) \cup {a})
        /\ Cardinality(Above(a) \cup {a}) <= Cardinality(Above(a)) + 1
    <3>1. IsFiniteSet(Above(a)) /\ Cardinality(Above(a)) \in Nat BY AboveIsFinite
    <3>2. /\ IsFiniteSet(Above(a) \cup {a})
          /\ Cardinality(Above(a) \cup {a}) =
               (IF a \in Above(a) THEN Cardinality(Above(a)) ELSE Cardinality(Above(a)) + 1) BY <3>1, FS_AddElement
    <3> QED BY <3>1, <3>2
  <2>2. Cardinality(Above(c)') <= Cardinality(Above(a) \cup {a}) BY <1>4, <2>1, FS_Subset
  <2>3. IsFiniteSet(Above(c)') BY <1>4, <2>1, FS_Subset
  <2> QED BY <2>1, <2>2, <2>3, AboveIsFinite, FS_CardinalityType
<1>7. \A d \in Agents : Cardinality(Above(d)') \in Nat
  <2>1. \A d \in Agents \ {c} : IsFiniteSet(Above(d)') BY <1>4, AboveIsFinite, FS_Subset
  <2>2. IsFiniteSet(Above(a) \cup {a}) BY AboveIsFinite, FS_AddElement
  <2>3. IsFiniteSet(Above(c)') BY <1>4, <2>2, FS_Subset
  <2> QED BY <2>1, <2>3, FS_CardinalityType
<1>8. \A d \in Calls : Cardinality(Above(d)) \in Nat /\ Cardinality(Above(d))' = Cardinality(Above(d)')
  BY AboveIsFinite
<1>9. /\ depthLimit \in Nat /\ MaxDepth \in Nat /\ depthLimit <= MaxDepth
      /\ \A d \in DOMAIN pendingDepth : d \in Calls /\ pendingDepth[d] \in 1..MaxDepth
      /\ \A d \in DOMAIN recorded : d \in Calls /\ recorded[d] \in 0..MaxDepth
      /\ c \notin DOMAIN pendingDepth /\ c \notin DOMAIN recorded
  BY <1>1, DepthAssumption DEF SubagentsTypeOK, InFlightOK
<1>10. ASSUME Allows(a)
       PROVE  /\ CallerDepth(a) + 1 \in 1..MaxDepth /\ CallerDepth(a) + 1 <= depthLimit
              /\ Cardinality(Above(c)') <= CallerDepth(a) + 1
  <2>1. CallerDepth(a) \in Nat /\ Cardinality(Above(a)) <= CallerDepth(a)
    <3>1. CASE a = Main
      <4>1. CallerDepth(a) = 0 BY <3>1 DEF CallerDepth
      <4>2. Cardinality(Above(a)) = 0 BY <3>1, MainIsBelowNobody, FS_EmptySet
      <4> QED BY <4>1, <4>2
    <3>2. CASE a # Main
      <4>1. a \in DOMAIN recorded /\ CallerDepth(a) = recorded[a] BY <1>10, <3>2 DEF Allows, CallerDepth
      <4>2. a \in Calls BY <1>3, <3>2
      <4> QED BY <1>9, <4>1, <4>2 DEF InFlightOK
    <3> QED BY <3>1, <3>2
  <2>2. CallerDepth(a) + 1 <= depthLimit BY <1>10 DEF Allows
  <2>3. Cardinality(Above(c)') \in Nat /\ Cardinality(Above(a)) \in Nat BY <1>7, AboveIsFinite DEF Agents
  <2> QED BY <1>6, <1>9, <2>1, <2>2, <2>3
<1>11. \A d : d \in DOMAIN pendingDepth' <=> d \in DOMAIN pendingDepth \/ (d = c /\ Allows(a)) BY <1>1 DEF With
<1>12. \A d \in DOMAIN pendingDepth : pendingDepth'[d] = pendingDepth[d] BY <1>1, <1>9 DEF With
<1>13. Allows(a) => pendingDepth'[c] = CallerDepth(a) + 1 BY <1>1 DEF With
<1>14. SubagentsTypeOK' BY <1>1, <1>2, <1>9, <1>10, <1>11, <1>12, <1>13 DEF SubagentsTypeOK, CallPlaces
<1>15. ASSUME NEW d \in Calls PROVE InFlightOK(d)'
  <2>1. CASE d = c
    <3>1. c \in DOMAIN pendingDepth' <=> Allows(a) BY <1>9, <1>11
    <3>2. c \in DOMAIN pendingDepth' =>
            pendingDepth'[c] <= depthLimit' /\ Cardinality(Above(c)') <= pendingDepth'[c] BY <1>1, <1>10, <1>13, <3>1
    <3>3. spawns'[c].by # Main => spawns'[spawns'[c].by].at # "none" BY <1>2, <1>3
    <3> QED BY <1>1, <1>2, <1>9, <2>1, <3>1, <3>2, <3>3 DEF InFlightOK
  <2>2. CASE d # c
    <3>1. InFlightOK(d) /\ d \in Agents \ {c} /\ spawns'[d] = spawns[d] BY <1>2, <2>2 DEF Agents
    <3>2. d \in DOMAIN pendingDepth' <=> d \in DOMAIN pendingDepth BY <1>11, <2>2
    <3>3. Cardinality(Above(d)') <= Cardinality(Above(d)) BY <1>5, <3>1
    <3>4. d \in DOMAIN pendingDepth => Cardinality(Above(d)') <= pendingDepth[d]
      BY <1>7, <1>8, <1>9, <3>1, <3>3 DEF InFlightOK, Agents
    <3>5. d \in DOMAIN recorded => Cardinality(Above(d)') <= recorded[d]
      BY <1>7, <1>8, <1>9, <3>1, <3>3 DEF InFlightOK, Agents
    <3>6. spawns'[d].by # Main => spawns'[spawns'[d].by].at # "none"
      <4>1. spawns[d].by # Main => spawns[d].by \in Calls /\ spawns[spawns[d].by].at # "none"
        BY <3>1 DEF InFlightOK, SubagentsTypeOK, Agents
      <4> QED BY <1>1, <1>2, <3>1, <4>1
    <3> QED BY <1>1, <1>12, <3>1, <3>2, <3>4, <3>5, <3>6 DEF InFlightOK
  <2> QED BY <2>1, <2>2
<1> QED BY <1>14, <1>15

\* The depth a subagent is given is no less than that of the call that started it.
LEMMA GivenIsEnough ==
  ASSUME DepthInv, NEW c \in DOMAIN pendingDepth
  PROVE  Given \in 1..MaxDepth /\ pendingDepth[c] <= Given
<1>1. MaxDepth \in Nat /\ \A d \in DOMAIN pendingDepth : pendingDepth[d] \in 1..MaxDepth
  BY DepthAssumption DEF DepthInv, SubagentsTypeOK
<1>2. InFlight \subseteq 0..MaxDepth /\ InFlight \subseteq 1..MaxDepth /\ pendingDepth[c] \in InFlight
  BY <1>1 DEF InFlight
<1>3. \E d \in InFlight : \A e \in InFlight : d >= e BY <1>1, <1>2, Greatest
<1>4. Given = CHOOSE d \in InFlight : \A e \in InFlight : d >= e BY <1>2 DEF Given
<1>5. Given \in InFlight /\ \A e \in InFlight : Given >= e BY <1>3, <1>4
<1> QED BY <1>1, <1>2, <1>5

LEMMA SubagentStartStep ==
  ASSUME NEW c \in Calls PROVE DepthInv /\ SubagentStart(c) => DepthInv'
<1>. SUFFICES ASSUME DepthInv, SubagentStart(c) PROVE DepthInv' OBVIOUS
<1>. USE DEF DepthInv
<1>1. /\ spawns[c].at = "asked" /\ CallGoes(c, "started")
      /\ recorded' = IF c \in Unnamed THEN recorded ELSE With(recorded, c, Given)
      /\ UNCHANGED <<depthLimit, pendingDepth>> BY DEF SubagentStart
<1>2. /\ spawns' \in [Calls -> [at : CallPlaces, by : Agents]]
      /\ spawns'[c].at = "started"
      /\ \A d \in Calls \ {c} : spawns'[d] = spawns[d]
      /\ \A d \in Calls : spawns'[d].by = spawns[d].by
      /\ \A a : Above(a)' = Above(a)
  <2>1. "started" \in CallPlaces BY DEF CallPlaces
  <2> QED BY <1>1, <2>1, CallMoves
<1>3. c \in DOMAIN pendingDepth BY <1>1 DEF InFlightOK
<1>4. Given \in 1..MaxDepth /\ pendingDepth[c] <= Given BY <1>3, GivenIsEnough
<1>5. /\ \A d : d \in DOMAIN recorded' => d \in DOMAIN recorded \/ d = c
      /\ \A d \in DOMAIN recorded' \ {c} : recorded'[d] = recorded[d]
      /\ c \in DOMAIN recorded' => recorded'[c] = Given
  <2>1. c \notin DOMAIN recorded BY <1>1 DEF InFlightOK
  <2> QED BY <1>1, <2>1 DEF With
<1>6. SubagentsTypeOK' BY <1>1, <1>2, <1>4, <1>5, DepthAssumption DEF SubagentsTypeOK, CallPlaces
<1>7. ASSUME NEW d \in Calls PROVE InFlightOK(d)'
  <2>1. InFlightOK(d) /\ InFlightOK(c) /\ Cardinality(Above(d))' = Cardinality(Above(d)) BY <1>2
  <2>2. spawns[d].by # Main => spawns[d].by \in Calls BY DEF SubagentsTypeOK, Agents
  <2>3. spawns'[d].by # Main => spawns'[spawns'[d].by].at # "none" BY <1>2, <2>1, <2>2 DEF InFlightOK
  <2>4. d = c /\ d \in DOMAIN recorded' => Cardinality(Above(d)) <= recorded'[d]
    <3>1. Cardinality(Above(c)) <= pendingDepth[c] BY <1>3, <2>1 DEF InFlightOK
    <3>2. Cardinality(Above(c)) \in Nat /\ pendingDepth[c] \in Int /\ Given \in Int
      BY <1>3, <1>4, AboveIsFinite DEF SubagentsTypeOK
    <3> QED BY <1>4, <1>5, <3>1, <3>2
  <2> QED BY <1>1, <1>2, <1>5, <2>1, <2>3, <2>4 DEF InFlightOK
<1> QED BY <1>6, <1>7

\* A call that ends forgets a depth and no chain.
LEMMA EndStep ==
  ASSUME NEW c \in Calls PROVE DepthInv /\ (SubagentStop(c) \/ PostToolUse(c)) => DepthInv'
<1>. SUFFICES ASSUME DepthInv, SubagentStop(c) \/ PostToolUse(c) PROVE DepthInv' OBVIOUS
<1>. USE DEF DepthInv
<1>1. PICK place \in {"stopped", "over"} :
        /\ CallGoes(c, place) /\ UNCHANGED depthLimit
        /\ \/ /\ place = "stopped" /\ spawns[c].at = "started"
              /\ recorded' = Forgotten(recorded, c) /\ pendingDepth' = pendingDepth
           \/ /\ place = "over" /\ spawns[c].at \in {"asked", "stopped"}
              /\ pendingDepth' = Forgotten(pendingDepth, c) /\ recorded' = recorded BY DEF SubagentStop, PostToolUse
<1>2. /\ spawns' \in [Calls -> [at : CallPlaces, by : Agents]]
      /\ spawns'[c].at = place
      /\ \A d \in Calls \ {c} : spawns'[d] = spawns[d]
      /\ \A d \in Calls : spawns'[d].by = spawns[d].by
      /\ \A a : Above(a)' = Above(a)
  <2>1. place \in CallPlaces BY DEF CallPlaces
  <2> QED BY <1>1, <2>1, CallMoves
<1>3. /\ \A d : d \in DOMAIN recorded' <=> d \in DOMAIN recorded /\ ~(d = c /\ place = "stopped")
      /\ \A d \in DOMAIN recorded' : recorded'[d] = recorded[d]
      /\ \A d : d \in DOMAIN pendingDepth' <=>
                  d \in DOMAIN pendingDepth /\ ~(d = c /\ place = "over")
      /\ \A d \in DOMAIN pendingDepth' : pendingDepth'[d] = pendingDepth[d] BY <1>1 DEF Forgotten
<1>4. SubagentsTypeOK' BY <1>1, <1>2, <1>3 DEF SubagentsTypeOK, CallPlaces
<1>5. ASSUME NEW d \in Calls PROVE InFlightOK(d)'
  <2>1. InFlightOK(d) /\ InFlightOK(c) /\ Cardinality(Above(d))' = Cardinality(Above(d)) BY <1>2
  <2>2. spawns[d].by # Main => spawns[d].by \in Calls BY DEF SubagentsTypeOK, Agents
  <2>3. spawns'[d].by # Main => spawns'[spawns'[d].by].at # "none" BY <1>1, <1>2, <2>1, <2>2 DEF InFlightOK
  <2>4. c \in DOMAIN recorded => spawns[c].at = "started" BY <2>1 DEF InFlightOK
  <2> QED BY <1>1, <1>2, <1>3, <2>1, <2>3, <2>4 DEF InFlightOK
<1> QED BY <1>4, <1>5

LEMMA DepthStep == DepthInv /\ [SubagentsNext]_subagentVars => DepthInv'
<1>1. ASSUME DepthInv, SubagentsNext PROVE DepthInv'
  <2>1. PICK c \in Calls : \/ SubagentStart(c) \/ SubagentStop(c) \/ PostToolUse(c)
                           \/ \E a \in Agents : PreToolUse(c, a) BY <1>1 DEF SubagentsNext
  <2> QED BY <1>1, <2>1, SubagentStartStep, EndStep, PreToolUseStep
<1>2. ASSUME DepthInv, UNCHANGED subagentVars PROVE DepthInv'
  <2>1. /\ UNCHANGED <<depthLimit, spawns, pendingDepth, recorded>>
        /\ \A a : Above(a)' = Above(a) BY <1>2, SameCallersSameChains DEF subagentVars
  <2>2. SubagentsTypeOK' BY <1>2, <2>1 DEF DepthInv, SubagentsTypeOK
  <2>3. ASSUME NEW c \in Calls PROVE InFlightOK(c)'
    <3>1. InFlightOK(c) /\ Cardinality(Above(c))' = Cardinality(Above(c)) BY <1>2, <2>1 DEF DepthInv
    <3> QED BY <2>1, <3>1 DEF InFlightOK
  <2> QED BY <2>2, <2>3 DEF DepthInv
<1> QED BY <1>1, <1>2

\* What the invariant is for.
LEMMA DepthSafe == DepthInv => DepthIsBounded
<1>. SUFFICES ASSUME DepthInv, NEW c \in StartedCalls
              PROVE  /\ Cardinality(Above(c)) <= depthLimit
                     /\ c \in DOMAIN recorded => Cardinality(Above(c)) <= recorded[c] BY DEF DepthIsBounded
<1>1. c \in Calls /\ spawns[c].at = "started" BY DEF StartedCalls
<1>2. InFlightOK(c) /\ c \in DOMAIN pendingDepth BY <1>1 DEF DepthInv, InFlightOK
<1>3. Cardinality(Above(c)) \in Nat /\ pendingDepth[c] \in Int /\ depthLimit \in Int
  BY <1>2, AboveIsFinite, DepthAssumption DEF DepthInv, SubagentsTypeOK
<1> QED BY <1>2, <1>3 DEF InFlightOK

------------------------
(* The worktrees of a lane (Workspaces) *)

\* A turn has its instance's slot until it is over or its caller goes away.
Making == {"fetch", "clear", "add", "checkout"}
Owns(t) == turns[t].at \in {"locks", "spawn", "running"} \cup InThread /\ ~turns[t].cancelled

LaneTurnOK(t) ==
  /\ turns[t].cancelled => turns[t].at \in InThread \cup {"over"}
  /\ turns[t].at \in {"none", "locks"} => turns[t].made = {}
  /\ \A r \in Repos : turns[t].since[r] <= origin[r]
  /\ turns[t].at \in {"clear", "add"} => turns[t].since[turns[t].repo] <= mirror[turns[t].repo]
  /\ Owns(t) => slot[turns[t].instance] = t
  /\ Owns(t) /\ turns[t].at # "running" => turns[t].instance \notin warm
  /\ turns[t].at \in InThread /\ turns[t].cancelled => turns[t].instance \in broken
MirrorOK == \A r \in Repos : mirror[r] <= origin[r]

\* Nobody works in a worktree that is not there, or that is being made.
Unworked ==
  /\ \A i \in Instances, r \in Repos : tree[i][r].state = "none" => ~tree[i][r].work
  /\ \A t \in TurnIds : Owns(t) /\ turns[t].at \in Making =>
       ~tree[turns[t].instance][turns[t].repo].work

\* While nothing was broken off, a worktree that is half made is being made, a
\* process has all of them, and a turn those of the repositories it went through.
Ready(w, r, wt) ==
  /\ w.at \in {"spawn", "running"} => wt.state = "whole"
  /\ w.at \in InThread /\ r < w.repo => wt.state = "whole"
  /\ w.at \in {"fetch", "clear", "add"} /\ r = w.repo => wt.state = "none"
  /\ w.at = "checkout" /\ r = w.repo => wt.state = "half" /\ wt.base >= w.since[r]
  /\ r \in w.made => wt.base >= w.since[r] /\ (w.at \in InThread => r < w.repo)
InstanceOK(i) == \A r \in Repos :
  /\ tree[i][r].state = "half" =>
       \E t \in TurnIds : Owns(t) /\ turns[t].at = "checkout" /\ turns[t].instance = i
                          /\ turns[t].repo = r
  /\ i \in warm => tree[i][r].state = "whole"
  /\ \A t \in TurnIds : Owns(t) /\ turns[t].instance = i => Ready(turns[t], r, tree[i][r])

LanesInv ==
  /\ WorkspacesTypeOK
  /\ \A t \in TurnIds : LaneTurnOK(t)
  /\ MirrorOK /\ Unworked
  /\ \A i \in Instances \ broken : InstanceOK(i)

(* Types. *)

LaneTurns ==
  [at: {"none", "locks", "spawn", "running", "over"} \cup InThread,
   instance: Instances, repo: Repos, cancelled: BOOLEAN, since: [Repos -> 0..MaxPushes],
   made: SUBSET Repos]
Worktrees == [state: {"none", "half", "whole"}, base: 0..MaxPushes, work: BOOLEAN]

LEMMA LaneTypes ==
  /\ RepoCount \in Nat \ {0} /\ MaxLaneTurns \in Nat /\ MaxPushes \in Nat /\ MaxMishaps \in Nat
  /\ \A r \in Repos : r \in Nat /\ r >= 1 /\ r <= RepoCount /\ (r # RepoCount => r + 1 \in Repos)
  /\ 1 \in Repos /\ RepoCount \in Repos
  /\ \A t \in TurnIds : t \in Nat /\ t # NoTurn
  /\ NoTree \in Worktrees /\ Unstarted \in LaneTurns
<1>1. RepoCount \in Nat \ {0} /\ MaxLaneTurns \in Nat /\ MaxPushes \in Nat /\ MaxMishaps \in Nat
  BY WorkspacesAssumption
<1>2. (CHOOSE i \in Instances : TRUE) \in Instances BY WorkspacesAssumption
<1>3. NoTree \in Worktrees BY <1>1 DEF NoTree, Worktrees
<1>4. Unstarted \in LaneTurns
  <2>1. 1 \in Repos /\ [r \in Repos |-> 0] \in [Repos -> 0..MaxPushes] BY <1>1 DEF Repos
  <2> QED BY <1>2, <2>1 DEF Unstarted, LaneTurns
<1> QED BY <1>1, <1>3, <1>4 DEF Repos, TurnIds, NoTurn

LEMMA TurnChanges ==
  ASSUME NEW w \in LaneTurns
  PROVE  /\ \A a \in {"none", "locks", "spawn", "running", "over"} \cup InThread :
              [w EXCEPT !.at = a] \in LaneTurns
         /\ \A a \in {"none", "locks", "spawn", "running", "over"} \cup InThread, r \in Repos :
              [w EXCEPT !.at = a, !.repo = r] \in LaneTurns
         /\ \A r \in Repos : [w EXCEPT !.repo = r] \in LaneTurns
                             /\ [w EXCEPT !.made = @ \cup {r}] \in LaneTurns BY DEF LaneTurns, InThread

LaneTypesOK ==
  /\ origin \in [Repos -> 0..MaxPushes] /\ mirror \in [Repos -> {NoClone} \cup 0..MaxPushes]
  /\ tree \in [Instances -> [Repos -> Worktrees]] /\ turns \in [TurnIds -> LaneTurns]
  /\ locks \in [Repos -> {NoTurn} \cup TurnIds] /\ slot \in [Instances -> {NoTurn} \cup TurnIds]
  /\ warm \subseteq Instances /\ deleting \subseteq Instances /\ broken \subseteq Instances
  /\ mishaps \in 0..MaxMishaps

LEMMA LaneTyped == WorkspacesTypeOK <=> LaneTypesOK
BY DEF WorkspacesTypeOK, LaneTypesOK, LaneTurns, Worktrees

(* A step of one turn. *)

NoOther(t, i) == \A u \in TurnIds : u # t /\ Owns(u) => turns[u].instance # i

\* What InstanceOK says where t is the only turn that can own the instance.
Undisturbed(t) == LET i == turns[t].instance IN \A r \in Repos :
  /\ tree[i][r].state = "half" => Owns(t) /\ turns[t].at = "checkout" /\ turns[t].repo = r
  /\ i \in warm => tree[i][r].state = "whole"
  /\ Owns(t) => Ready(turns[t], r, tree[i][r])

LEMMA OwnerIsAlone ==
  ASSUME LanesInv, NEW t \in TurnIds
  PROVE  /\ Owns(t) => NoOther(t, turns[t].instance)
         /\ slot[turns[t].instance] = NoTurn => NoOther(t, turns[t].instance)
         /\ NoOther(t, turns[t].instance) /\ turns[t].instance \notin broken => Undisturbed(t)
<1>1. turns[t].instance \in Instances /\ t # NoTurn BY LaneTyped, LaneTypes DEF LanesInv, LaneTypesOK, LaneTurns
<1>2. \A u \in TurnIds : u # NoTurn /\ (Owns(u) => slot[turns[u].instance] = u) BY LaneTypes DEF LanesInv, LaneTurnOK
<1>3. ASSUME NoOther(t, turns[t].instance), turns[t].instance \notin broken PROVE Undisturbed(t)
  <2>1. InstanceOK(turns[t].instance) BY <1>1, <1>3 DEF LanesInv
  <2> QED BY <1>3, <2>1 DEF InstanceOK, NoOther, Undisturbed
<1> QED BY <1>1, <1>2, <1>3 DEF NoOther

\* The others' parts stay when a step moves one turn and its instance.
LEMMA OneLaneTurn ==
  ASSUME LanesInv, LaneTypesOK', NEW t \in TurnIds, NEW i \in Instances,
         turns'[t].instance = i, turns[t].instance = i \/ ~Owns(t),
         \A u \in TurnIds : u # t => turns'[u] = turns[u],
         \A j \in Instances : j # i => /\ slot'[j] = slot[j] /\ tree'[j] = tree[j]
                                       /\ (j \in warm' <=> j \in warm)
                                       /\ (j \in broken' <=> j \in broken),
         i \in broken => i \in broken',
         origin' = origin, \A r \in Repos : mirror'[r] \in {mirror[r], origin[r]},
         \/ NoOther(t, i)
         \/ /\ i \in broken /\ slot'[i] = slot[i] /\ (i \in warm' => i \in warm)
            /\ \A r \in Repos : tree'[i][r].work => tree[i][r].work,
         \A r \in Repos : tree'[i][r].state = "none" => ~tree'[i][r].work,
         LaneTurnOK(t)',
         Owns(t)' /\ turns'[t].at \in Making => ~tree'[i][turns'[t].repo].work,
         i \notin broken' => Undisturbed(t)'
  PROVE  LanesInv'
<1>. USE DEF LanesInv
<1>1. LaneTypesOK BY LaneTyped
<1>2. \A u \in TurnIds : u # t => (Owns(u)' <=> Owns(u)) BY DEF Owns
<1>3. ASSUME NEW u \in TurnIds, u # t PROVE LaneTurnOK(u)'
  <2>1. LaneTurnOK(u) /\ turns'[u] = turns[u] /\ turns[u] \in LaneTurns BY <1>1, <1>3 DEF LaneTypesOK
  <2>2. turns[u].instance \in Instances /\ turns[u].repo \in Repos
        /\ turns[u].since \in [Repos -> 0..MaxPushes] BY <2>1 DEF LaneTurns
  <2>3. turns[u].at \in {"clear", "add"} => turns[u].since[turns[u].repo] <= mirror'[turns[u].repo]
    BY <2>1, <2>2 DEF LaneTurnOK
  <2>4. Owns(u) => turns[u].instance # i \/ slot'[i] = slot[i] BY <1>3 DEF NoOther
  <2>5. Owns(u) => slot'[turns[u].instance] = slot[turns[u].instance] BY <2>2, <2>4
  <2>6. Owns(u) => turns[u].instance # i \/ (i \in warm' => i \in warm) BY <1>3 DEF NoOther
  <2>7. turns[u].instance \in broken => turns[u].instance \in broken' BY <2>2
  <2>8. Owns(u) /\ turns[u].at # "running" => turns[u].instance \notin warm' BY <2>1, <2>2, <2>6 DEF LaneTurnOK
  <2> QED BY <1>2, <1>3, <2>1, <2>3, <2>5, <2>7, <2>8 DEF LaneTurnOK
<1>4. MirrorOK' BY <1>1 DEF MirrorOK, LaneTypesOK
<1>5. Unworked'
  <2>1. ASSUME NEW j \in Instances, NEW r \in Repos, tree'[j][r].state = "none"
        PROVE  ~tree'[j][r].work BY <2>1 DEF Unworked
  <2>2. ASSUME NEW u \in TurnIds, u # t, Owns(u)', turns'[u].at \in Making
        PROVE  ~tree'[turns'[u].instance][turns'[u].repo].work
    <3>1. turns'[u] = turns[u] /\ Owns(u) /\ turns[u] \in LaneTurns BY <1>1, <1>2, <2>2 DEF LaneTypesOK
    <3>2. turns[u].instance \in Instances /\ turns[u].repo \in Repos BY <3>1 DEF LaneTurns
    <3>3. ~tree[turns[u].instance][turns[u].repo].work BY <2>2, <3>1 DEF Unworked
    <3>4. CASE turns[u].instance = i
      <4>1. ~NoOther(t, i) BY <2>2, <3>1, <3>4 DEF NoOther
      <4> QED BY <3>1, <3>2, <3>3, <3>4, <4>1
    <3>5. CASE turns[u].instance # i BY <3>1, <3>2, <3>3, <3>5
    <3> QED BY <3>4, <3>5
  <2> QED BY <2>1, <2>2 DEF Unworked
<1>6. ASSUME NEW j \in Instances \ broken' PROVE InstanceOK(j)'
  <2>1. CASE j = i
    <3>1. NoOther(t, i) BY <1>6, <2>1
    <3>2. \A u \in TurnIds : Owns(u)' /\ turns'[u].instance = i => u = t BY <1>2, <3>1 DEF NoOther
    <3>3. Undisturbed(t)' BY <1>6, <2>1
    <3> QED BY <2>1, <3>2, <3>3 DEF InstanceOK, Undisturbed
  <2>2. CASE j # i
    <3>1. tree'[j] = tree[j] /\ j \in Instances \ broken /\ (j \in warm' <=> j \in warm) BY <1>6, <2>2
    <3>2. InstanceOK(j) BY <3>1
    <3>3. \A u \in TurnIds : Owns(u) /\ turns[u].instance = j =>
            u # t /\ Owns(u)' /\ turns'[u] = turns[u] BY <1>2, <2>2
    <3>4. \A u \in TurnIds : Owns(u)' /\ turns'[u].instance = j =>
            u # t /\ Owns(u) /\ turns'[u] = turns[u] BY <1>2, <2>2
    <3> QED BY <3>1, <3>2, <3>3, <3>4 DEF InstanceOK
  <2> QED BY <2>1, <2>2
<1>7. WorkspacesTypeOK' BY DEF WorkspacesTypeOK, LaneTypesOK, LaneTurns, Worktrees
<1> QED BY <1>3, <1>4, <1>5, <1>6, <1>7

(* The steps. *)

LEMMA LanesStart == WorkspacesInit => LanesInv
<1>. SUFFICES ASSUME WorkspacesInit PROVE LanesInv OBVIOUS
<1>1. LaneTypesOK BY LaneTypes DEF WorkspacesInit, LaneTypesOK
<1>2. /\ \A t \in TurnIds : turns[t].at = "none" /\ turns[t].cancelled = FALSE /\ turns[t].made = {}
                            /\ turns[t].since = [r \in Repos |-> 0]
      /\ \A i \in Instances, r \in Repos : tree[i][r].state = "none" /\ tree[i][r].work = FALSE
  BY DEF WorkspacesInit, Unstarted, NoTree
<1>3. \A t \in TurnIds : ~Owns(t) BY <1>2 DEF Owns, InThread
<1>4. \A t \in TurnIds : LaneTurnOK(t) BY <1>2, <1>3 DEF LaneTurnOK, WorkspacesInit
<1>5. MirrorOK BY DEF MirrorOK, WorkspacesInit, NoClone
<1>6. Unworked BY <1>2, <1>3 DEF Unworked
<1>7. \A i \in Instances : InstanceOK(i) BY <1>2, <1>3 DEF InstanceOK, WorkspacesInit
<1> QED BY <1>1, <1>4, <1>5, <1>6, <1>7, LaneTyped DEF LanesInv

LEMMA PushStep == ASSUME NEW r \in Repos PROVE LanesInv /\ Push(r) => LanesInv'
<1>. SUFFICES ASSUME LanesInv, Push(r) PROVE LanesInv' OBVIOUS
<1>1. LaneTypesOK BY LaneTyped DEF LanesInv
<1>2. LaneTypesOK' /\ \A q \in Repos : origin'[q] \in Nat /\ origin[q] \in Nat /\ origin'[q] >= origin[q]
  BY <1>1, LaneTypes DEF LaneTypesOK, Push
<1>3. WorkspacesTypeOK' BY <1>2 DEF WorkspacesTypeOK, LaneTypesOK, LaneTurns, Worktrees
<1>4. ASSUME NEW t \in TurnIds PROVE LaneTurnOK(t)'
  <2>1. LaneTurnOK(t) /\ turns[t] \in LaneTurns BY <1>1 DEF LanesInv, LaneTypesOK
  <2>2. \A q \in Repos : turns[t].since[q] \in Nat BY <2>1, LaneTypes DEF LaneTurns
  <2> QED BY <1>2, <2>1, <2>2 DEF LaneTurnOK, Push, Owns
<1>5. \A q \in Repos : mirror[q] \in Int BY <1>1, LaneTypes DEF LaneTypesOK, NoClone
<1>6. MirrorOK' BY <1>2, <1>5 DEF LanesInv, MirrorOK, Push
<1>7. Unworked' /\ \A i \in Instances \ broken' : InstanceOK(i)' BY DEF LanesInv, Unworked, InstanceOK, Push, Owns
<1> QED BY <1>3, <1>4, <1>6, <1>7 DEF LanesInv

LEMMA StartTurnStep ==
  ASSUME NEW t \in TurnIds, NEW i \in Instances PROVE LanesInv /\ StartTurn(t, i) => LanesInv'
<1>. SUFFICES ASSUME LanesInv, StartTurn(t, i) PROVE LanesInv' OBVIOUS
<1>. DEFINE next == IF i \in warm THEN "running" ELSE "locks"
<1>1. LaneTypesOK /\ LaneTurnOK(t) /\ turns[t] \in LaneTurns /\ turns[t].at = "none"
  BY LaneTyped DEF LanesInv, LaneTypesOK, StartTurn, TurnAt
<1>2. PICK w : w = [turns[t] EXCEPT !.at = next, !.instance = i, !.since = origin] OBVIOUS
<1>3. /\ w.at = next /\ w.instance = i /\ w.since = origin /\ w.made = {} /\ w.cancelled = FALSE
      /\ w \in LaneTurns BY <1>1, <1>2 DEF LaneTurns, LaneTurnOK, LaneTypesOK, InThread
<1>4. turns' = [turns EXCEPT ![t] = w] /\ slot' = [slot EXCEPT ![i] = t]
      /\ UNCHANGED <<origin, mirror, tree, locks, warm, deleting, broken, mishaps>> BY <1>2 DEF StartTurn
<1>5. turns'[t] = w /\ slot'[i] = t BY <1>1, <1>4 DEF LaneTypesOK
<1>6. LaneTypesOK' BY <1>1, <1>3, <1>4 DEF LaneTypesOK
<1>7. NoOther(t, i) BY LaneTypes DEF NoOther, StartTurn, LanesInv, LaneTurnOK
<1>8. ~Owns(t) /\ Owns(t)' /\ turns'[t].at \notin Making BY <1>1, <1>3, <1>5 DEF Owns, Making, InThread
<1>9. LaneTurnOK(t)' BY <1>1, <1>3, <1>4, <1>5, <1>8, LaneTypes DEF LaneTurnOK, InThread, LaneTypesOK
<1>10. ASSUME i \notin broken PROVE Undisturbed(t)'
  <2>1. InstanceOK(i) BY <1>10 DEF LanesInv
  <2>2. \A u \in TurnIds : Owns(u) => turns[u].instance # i BY <1>7, <1>8 DEF NoOther
  <2>3. \A r \in Repos : tree[i][r].state # "half" /\ (i \in warm => tree[i][r].state = "whole")
    BY <2>1, <2>2 DEF InstanceOK
  <2> QED BY <1>3, <1>4, <1>5, <2>3 DEF Undisturbed, Ready, InThread
<1>11. \A r \in Repos : tree[i][r].state = "none" => ~tree[i][r].work BY DEF LanesInv, Unworked
<1> QED BY <1>1, <1>3, <1>4, <1>5, <1>6, <1>7, <1>8, <1>9, <1>10, <1>11, OneLaneTurn DEF LaneTypesOK

LEMMA TakeLockStep == ASSUME NEW t \in TurnIds PROVE LanesInv /\ TakeLock(t) => LanesInv'
<1>. SUFFICES ASSUME LanesInv, TakeLock(t) PROVE LanesInv' OBVIOUS
<1>. DEFINE r == turns[t].repo i == turns[t].instance
<1>1. LaneTypesOK /\ LaneTurnOK(t) /\ turns[t] \in LaneTurns /\ turns[t].at = "locks"
  BY LaneTyped DEF LanesInv, LaneTypesOK, TakeLock, TurnAt
<1>2. PICK w : w = IF r = RepoCount THEN [turns[t] EXCEPT !.at = "check", !.repo = 1]
                   ELSE [turns[t] EXCEPT !.repo = r + 1] OBVIOUS
<1>3. w \in LaneTurns
  <2>1. r \in Repos BY <1>1 DEF LaneTurns
  <2>2. CASE r = RepoCount BY <1>1, <1>2, <2>2, LaneTypes, TurnChanges DEF InThread
  <2>3. CASE r # RepoCount BY <1>1, <1>2, <2>1, <2>3, LaneTypes, TurnChanges
  <2> QED BY <2>2, <2>3
<1>4. /\ w.at = "locks" \/ (w.at = "check" /\ w.repo = 1)
      /\ w.instance = i /\ w.since = turns[t].since /\ w.made = {} /\ w.cancelled = FALSE
  BY <1>1, <1>2 DEF LaneTurns, LaneTurnOK, InThread
<1>5. turns' = [turns EXCEPT ![t] = w] /\ locks' = [locks EXCEPT ![r] = t]
      /\ UNCHANGED <<origin, mirror, tree, slot, warm, deleting, broken, mishaps>> BY <1>2 DEF TakeLock
<1>6. turns'[t] = w /\ i \in Instances /\ r \in Repos BY <1>1, <1>5 DEF LaneTypesOK, LaneTurns
<1>7. LaneTypesOK' BY <1>1, <1>3, <1>5 DEF LaneTypesOK
<1>8. Owns(t) /\ Owns(t)' /\ turns'[t].at \notin Making BY <1>1, <1>4, <1>6 DEF Owns, LaneTurnOK, InThread, Making
<1>9. NoOther(t, i) /\ (i \notin broken => Undisturbed(t)) BY <1>8, OwnerIsAlone
<1>10. LaneTurnOK(t)' BY <1>1, <1>4, <1>5, <1>6, <1>8 DEF LaneTurnOK, InThread
<1>11. i \notin broken => Undisturbed(t)'
  <2>1. \A q \in Repos : ~(q < 1) BY LaneTypes
  <2> QED BY <1>1, <1>4, <1>5, <1>6, <1>8, <1>9, <2>1 DEF Undisturbed, Ready, InThread
<1>12. \A q \in Repos : tree[i][q].state = "none" => ~tree[i][q].work BY <1>6 DEF LanesInv, Unworked
<1> QED BY <1>4, <1>5, <1>6, <1>7, <1>8, <1>9, <1>10, <1>11, <1>12, <1>1, OneLaneTurn DEF LaneTypesOK

\* A repository's worktree is there, or made: the turn goes on to the next one.
LEMMA PassedStep ==
  ASSUME LanesInv, LaneTypesOK', NEW t \in TurnIds, NEW i \in Instances, NEW r \in Repos,
         NEW rest \in LaneTurns, turns[t].at \in {"check", "checkout"},
         turns[t].instance = i, turns[t].repo = r, NextRepo(t, r, rest),
         rest.at = turns[t].at, rest.instance = i, rest.repo = r, rest.since = turns[t].since,
         rest.cancelled = turns[t].cancelled,
         rest.made = turns[t].made \/ rest.made = turns[t].made \cup {r},
         \A j \in Instances : j # i => tree'[j] = tree[j],
         \A q \in Repos : q # r => tree'[i][q] = tree[i][q],
         tree'[i][r].state # "none", tree'[i][r].work = tree[i][r].work,
         i \notin broken /\ Undisturbed(t) =>
           /\ tree'[i][r].state = "whole"
           /\ r \in rest.made => tree'[i][r].base >= turns[t].since[r],
         UNCHANGED <<origin, mirror, slot, warm, broken>>
  PROVE  LanesInv'
<1>. DEFINE next == IF r = RepoCount THEN [rest EXCEPT !.at = IF rest.cancelled THEN "over" ELSE "spawn"]
                    ELSE [rest EXCEPT !.at = "check", !.repo = r + 1]
<1>1. LaneTypesOK /\ LaneTurnOK(t) /\ turns[t] \in LaneTurns BY LaneTyped DEF LanesInv, LaneTypesOK
<1>2. PICK w : w = next OBVIOUS
<1>3. turns' = [turns EXCEPT ![t] = w] BY <1>2 DEF NextRepo
<1>4. turns'[t] = w BY <1>1, <1>3 DEF LaneTypesOK
<1>5. /\ \/ r = RepoCount /\ w.at = (IF rest.cancelled THEN "over" ELSE "spawn")
         \/ r # RepoCount /\ w.at = "check" /\ w.repo = r + 1
      /\ w.instance = i /\ w.since = turns[t].since /\ w.made = rest.made
      /\ w.cancelled = turns[t].cancelled BY <1>2 DEF LaneTurns
<1>6. /\ turns'[t].at \notin Making
      /\ Owns(t) <=> ~turns[t].cancelled
      /\ Owns(t)' <=> ~turns[t].cancelled
      /\ turns[t].at \in InThread BY <1>4, <1>5 DEF Owns, Making, InThread
<1>7. /\ Owns(t) => NoOther(t, i)
      /\ ~Owns(t) => i \in broken
      /\ i \notin broken => NoOther(t, i) /\ Undisturbed(t) BY <1>1, <1>6, OwnerIsAlone DEF LaneTurnOK
<1>8. LaneTurnOK(t)' BY <1>1, <1>4, <1>5, <1>6 DEF LaneTurnOK, InThread
<1>9. ASSUME i \notin broken PROVE Undisturbed(t)'
  <2>1. Owns(t) /\ Owns(t)' /\ Undisturbed(t) BY <1>6, <1>7, <1>9
  <2>2. tree'[i][r].state = "whole" /\ (r \in rest.made => tree'[i][r].base >= turns[t].since[r]) BY <1>9, <2>1
  <2>3. ASSUME NEW q \in Repos
        PROVE  /\ tree'[i][q].state # "half" /\ (i \in warm => tree'[i][q].state = "whole")
               /\ Ready(w, q, tree'[i][q])
    <3>1. r \in Nat /\ q \in Nat /\ q <= RepoCount /\ RepoCount \in Nat BY LaneTypes
    <3>2. CASE q = r BY <1>5, <1>6, <2>1, <2>2, <3>1, <3>2 DEF Ready, InThread
    <3>3. CASE q # r
      <4>1. /\ tree[i][q].state = "half" => turns[t].repo = q
            /\ i \in warm => tree[i][q].state = "whole"
            /\ Ready(turns[t], q, tree[i][q]) BY <2>1 DEF Undisturbed
      <4>2. q \in w.made => q \in turns[t].made BY <1>5, <3>3
      <4> QED BY <1>5, <1>6, <2>1, <3>1, <3>3, <4>1, <4>2 DEF Ready, InThread
    <3> QED BY <3>2, <3>3
  <2> QED BY <1>4, <1>5, <2>1, <2>3 DEF Undisturbed
<1>10. \A q \in Repos : tree'[i][q].state = "none" => ~tree'[i][q].work BY DEF LanesInv, Unworked
<1>11. \A q \in Repos : tree'[i][q].work => tree[i][q].work OBVIOUS
<1> QED BY <1>3, <1>4, <1>5, <1>6, <1>7, <1>8, <1>9, <1>10, <1>11, <1>1, OneLaneTurn DEF LaneTypesOK

\* A turn fails: what it was making goes, what it found stays.
LEMMA FailsStep ==
  ASSUME LanesInv, LaneTypesOK', NEW t \in TurnIds, NEW i \in Instances, NEW r \in Repos, NEW left,
         turns[t].at \in Making, turns[t].instance = i, turns[t].repo = r, Fails(t, left),
         left = WithoutTree(i, r) \/ (left = tree /\ turns[t].at = "fetch"),
         UNCHANGED <<origin, mirror, warm, broken>>
  PROVE  LanesInv'
<1>1. LaneTypesOK /\ LaneTurnOK(t) /\ turns[t] \in LaneTurns BY LaneTyped DEF LanesInv, LaneTypesOK
<1>2. turns' = [turns EXCEPT ![t].at = "over"] BY DEF Fails, TurnGoes
<1>3. /\ turns'[t].at = "over" /\ turns'[t].instance = i /\ turns'[t].since = turns[t].since
      /\ turns'[t].cancelled = turns[t].cancelled BY <1>1, <1>2 DEF LaneTypesOK, LaneTurns
<1>4. /\ Owns(t) <=> ~turns[t].cancelled
      /\ ~Owns(t)' /\ turns'[t].at \notin Making BY <1>3 DEF Owns, Making, InThread
<1>5. turns[t].at \in InThread BY DEF Making, InThread
<1>6. /\ Owns(t) => NoOther(t, i)
      /\ ~Owns(t) => i \in broken
      /\ i \notin broken => NoOther(t, i) /\ Undisturbed(t) BY <1>1, <1>4, <1>5, OwnerIsAlone DEF LaneTurnOK
<1>7. /\ \A j \in Instances : j # i => left[j] = tree[j]
      /\ \A q \in Repos : left[i][q] = tree[i][q] \/ left[i][q] = NoTree
      /\ left[i][r] = NoTree \/ turns[t].at = "fetch" BY <1>1 DEF WithoutTree, LaneTypesOK
<1>8. /\ \A j \in Instances : j # i => tree'[j] = tree[j]
      /\ \A q \in Repos : tree'[i][q] = tree[i][q] \/ tree'[i][q] = NoTree
      /\ tree'[i][r] = NoTree \/ turns[t].at = "fetch"
  <2>1. CASE tree' = left BY <1>7, <2>1
  <2>2. CASE tree' = Removed(i) BY <1>1, <2>2 DEF Removed, LaneTypesOK
  <2> QED BY <2>1, <2>2 DEF Fails
<1>9. NoTree.state = "none" /\ NoTree.work = FALSE BY DEF NoTree
<1>10. LaneTurnOK(t)' BY <1>1, <1>3, <1>4 DEF LaneTurnOK, InThread
<1>11. ASSUME i \notin broken PROVE Undisturbed(t)'
  <2>1. Owns(t) /\ Undisturbed(t) /\ i \notin warm BY <1>1, <1>4, <1>6, <1>11 DEF LaneTurnOK, Making
  <2>2. \A q \in Repos : tree'[i][q].state # "half" BY <1>8, <1>9, <2>1 DEF Undisturbed
  <2> QED BY <1>3, <1>4, <2>1, <2>2 DEF Undisturbed
<1>12. \A q \in Repos : /\ tree'[i][q].state = "none" => ~tree'[i][q].work
                        /\ tree'[i][q].work => tree[i][q].work BY <1>8, <1>9 DEF LanesInv, Unworked
<1>13. /\ \A j \in Instances : j # i => slot'[j] = slot[j]
       /\ turns[t].cancelled => slot' = slot BY <1>1 DEF Fails, LaneTypesOK
<1>14. \A u \in TurnIds : u # t => turns'[u] = turns[u] BY <1>1, <1>2 DEF LaneTypesOK
<1> QED BY <1>3, <1>4, <1>6, <1>8, <1>10, <1>11, <1>12, <1>13, <1>14, OneLaneTurn

\* A step that moves a turn on in its thread, and what it does to its worktree.
LEMMA MakingStep ==
  ASSUME LanesInv, LaneTypesOK', NEW t \in TurnIds, NEW i \in Instances, NEW r \in Repos,
         NEW next \in {"fetch", "clear", "add", "checkout"}, turns[t].at \in InThread,
         turns[t].instance = i, turns[t].repo = r, TurnGoes(t, next),
         \A j \in Instances : j # i => tree'[j] = tree[j],
         \A q \in Repos : q # r => tree'[i][q] = tree[i][q],
         tree'[i][r].work => tree[i][r].work, tree'[i][r].state = "none" => ~tree'[i][r].work,
         Owns(t) => ~tree'[i][r].work,
         \A q \in Repos : mirror'[q] \in {mirror[q], origin[q]},
         next \in {"clear", "add"} => turns[t].since[r] <= mirror'[r],
         next \in {"fetch", "clear", "add"} /\ Owns(t) /\ i \notin broken => tree'[i][r].state = "none",
         next = "checkout" => tree'[i][r].state = "half" /\ tree'[i][r].base >= turns[t].since[r],
         UNCHANGED <<origin, slot, warm, broken>>
  PROVE  LanesInv'
<1>1. LaneTypesOK /\ LaneTurnOK(t) /\ turns[t] \in LaneTurns BY LaneTyped DEF LanesInv, LaneTypesOK
<1>2. turns' = [turns EXCEPT ![t].at = next] BY DEF TurnGoes
<1>3. /\ turns'[t].at = next /\ turns'[t].instance = i /\ turns'[t].since = turns[t].since
      /\ turns'[t].cancelled = turns[t].cancelled /\ turns'[t].repo = r
      /\ turns'[t].made = turns[t].made BY <1>1, <1>2 DEF LaneTypesOK, LaneTurns
<1>4. /\ Owns(t) <=> ~turns[t].cancelled
      /\ Owns(t)' <=> ~turns[t].cancelled BY <1>3 DEF Owns, InThread
<1>5. /\ Owns(t) => NoOther(t, i)
      /\ ~Owns(t) => i \in broken
      /\ i \notin broken => NoOther(t, i) /\ Undisturbed(t) BY <1>1, <1>4, OwnerIsAlone DEF LaneTurnOK
<1>6. LaneTurnOK(t)' BY <1>1, <1>3, <1>4 DEF LaneTurnOK, InThread
<1>7. ASSUME i \notin broken PROVE Undisturbed(t)'
  <2>1. Owns(t) /\ Owns(t)' /\ Undisturbed(t) /\ i \notin warm BY <1>1, <1>4, <1>5, <1>7 DEF LaneTurnOK, InThread
  <2>2. ASSUME NEW q \in Repos
        PROVE  /\ tree'[i][q].state = "half" => next = "checkout" /\ q = r
               /\ Ready(turns'[t], q, tree'[i][q])
    <3>1. r \in Nat /\ q \in Nat BY LaneTypes
    <3>2. Ready(turns[t], q, tree[i][q]) /\ (tree[i][q].state = "half" => q = r) BY <2>1 DEF Undisturbed
    <3>3. CASE q = r
      <4>1. r \notin turns[t].made BY <3>1, <3>2, <3>3 DEF Ready
      <4> QED BY <1>3, <1>7, <2>1, <3>1, <3>3, <4>1 DEF Ready, InThread
    <3>4. CASE q # r BY <1>3, <3>1, <3>2, <3>4 DEF Ready, InThread
    <3> QED BY <3>3, <3>4
  <2> QED BY <1>3, <2>1, <2>2 DEF Undisturbed
<1>8. \A q \in Repos : /\ tree'[i][q].state = "none" => ~tree'[i][q].work
                       /\ tree'[i][q].work => tree[i][q].work BY DEF LanesInv, Unworked
<1>9. \A u \in TurnIds : u # t => turns'[u] = turns[u] BY <1>1, <1>2 DEF LaneTypesOK
<1> QED BY <1>3, <1>4, <1>5, <1>6, <1>7, <1>8, <1>9, OneLaneTurn

\* What a turn in its thread is about.
LEMMA InItsThread ==
  ASSUME LanesInv, NEW t \in TurnIds
  PROVE  /\ LaneTypesOK /\ turns[t] \in LaneTurns /\ LaneTurnOK(t)
         /\ turns[t].instance \in Instances /\ turns[t].repo \in Repos
         /\ \A i \in Instances, r \in Repos :
              /\ tree[i][r] \in Worktrees /\ tree[i] \in [Repos -> Worktrees]
              /\ mirror[r] \in Int /\ origin[r] \in Nat /\ mirror[r] <= origin[r]
         /\ Owns(t) /\ turns[t].at \in Making =>
              ~tree[turns[t].instance][turns[t].repo].work
BY LaneTyped, LaneTypes DEF LanesInv, LaneTypesOK, LaneTurns, NoClone, MirrorOK, Unworked

LEMMA NextTyped ==
  ASSUME LaneTypesOK, NEW t \in TurnIds, NEW rest \in LaneTurns, NEW r \in Repos, NextRepo(t, r, rest)
  PROVE  turns' \in [TurnIds -> LaneTurns] /\ locks' \in [Repos -> {NoTurn} \cup TurnIds]
<1>1. CASE r = RepoCount
  <2>1. PICK w : w = [rest EXCEPT !.at = IF rest.cancelled THEN "over" ELSE "spawn"] OBVIOUS
  <2>2. w \in LaneTurns BY <2>1, TurnChanges
  <2>3. turns' = [turns EXCEPT ![t] = w] /\ locks' = Unlocked(t) BY <1>1, <2>1 DEF NextRepo
  <2> QED BY <2>2, <2>3 DEF Unlocked, LaneTypesOK
<1>2. CASE r # RepoCount
  <2>1. PICK w : w = [rest EXCEPT !.at = "check", !.repo = r + 1] OBVIOUS
  <2>2. r + 1 \in Repos BY <1>2, LaneTypes
  <2>3. w \in LaneTurns BY <2>1, <2>2, TurnChanges DEF InThread
  <2>4. turns' = [turns EXCEPT ![t] = w] /\ UNCHANGED locks BY <1>2, <2>1 DEF NextRepo
  <2> QED BY <2>3, <2>4 DEF LaneTypesOK
<1> QED BY <1>1, <1>2

LEMMA CheckStep == ASSUME NEW t \in TurnIds PROVE LanesInv /\ Check(t) => LanesInv'
<1>. SUFFICES ASSUME LanesInv, Check(t) PROVE LanesInv' OBVIOUS
<1>1. PICK i \in Instances, r \in Repos : turns[t].instance = i /\ turns[t].repo = r BY InItsThread
<1>2. /\ LaneTypesOK /\ turns[t] \in LaneTurns /\ LaneTurnOK(t) /\ turns[t].at = "check"
      /\ tree[i] \in [Repos -> Worktrees]
      /\ UNCHANGED <<origin, mirror, tree, slot, warm, deleting, broken, mishaps>> BY InItsThread DEF Check, TurnAt
<1>3. CASE IsThere(tree[i][r])
  <2>1. NextRepo(t, r, turns[t]) BY <1>1, <1>3 DEF Check
  <2>2. [turns[t] EXCEPT !.at = "check"] = turns[t] BY <1>2 DEF LaneTurns
  <2>3. LaneTypesOK'
    <3> QED BY <1>2, <2>1, NextTyped DEF LaneTypesOK
  <2>4. i \notin broken /\ Undisturbed(t) =>
          /\ tree'[i][r].state = "whole"
          /\ r \in turns[t].made => tree'[i][r].base >= turns[t].since[r]
    <3>. SUFFICES ASSUME i \notin broken, Undisturbed(t)
                  PROVE  tree[i][r].state = "whole" /\ r \notin turns[t].made BY <1>2
    <3>1. Owns(t) BY <1>1, <1>2 DEF Owns, LaneTurnOK, InThread
    <3>2. tree[i][r].state # "half" /\ Ready(turns[t], r, tree[i][r]) BY <1>1, <1>2, <3>1 DEF Undisturbed
    <3>3. tree[i][r].state \in {"none", "half", "whole"} /\ ~(r < r) BY <1>2, LaneTypes DEF Worktrees
    <3> QED BY <1>1, <1>2, <1>3, <3>2, <3>3 DEF IsThere, Ready, InThread
  <2> QED BY <1>1, <1>2, <1>3, <2>1, <2>3, <2>4, PassedStep DEF IsThere
<1>4. CASE ~IsThere(tree[i][r])
  <2>1. TurnGoes(t, "fetch") /\ UNCHANGED locks BY <1>1, <1>4 DEF Check
  <2>2. LaneTypesOK'
    <3>1. turns' \in [TurnIds -> LaneTurns] BY <1>2, <2>1, TurnChanges DEF TurnGoes, LaneTypesOK, InThread
    <3> QED BY <1>2, <2>1, <3>1 DEF LaneTypesOK
  <2>3. tree[i][r].state = "none" /\ ~tree[i][r].work BY <1>4 DEF IsThere, LanesInv, Unworked
  <2> QED BY <1>1, <1>2, <2>1, <2>2, <2>3, MakingStep DEF InThread
<1> QED BY <1>3, <1>4

LEMMA FailsTyped ==
  ASSUME LaneTypesOK, NEW t \in TurnIds, NEW left \in [Instances -> [Repos -> Worktrees]],
         turns[t].instance \in Instances, Fails(t, left),
         UNCHANGED <<origin, mirror, warm, deleting, broken>>, mishaps' \in 0..MaxMishaps
  PROVE  LaneTypesOK'
<1>1. turns' \in [TurnIds -> LaneTurns] BY TurnChanges DEF Fails, TurnGoes, LaneTypesOK
<1>2. locks' \in [Repos -> {NoTurn} \cup TurnIds] BY DEF Fails, Unlocked, LaneTypesOK
<1>3. tree' \in [Instances -> [Repos -> Worktrees]] BY LaneTypes DEF Fails, Removed, LaneTypesOK
<1>4. slot' \in [Instances -> {NoTurn} \cup TurnIds] BY DEF Fails, LaneTypesOK
<1> QED BY <1>1, <1>2, <1>3, <1>4 DEF LaneTypesOK

LEMMA MishapTyped ==
  LaneTypesOK /\ Mishap => mishaps' \in 0..MaxMishaps BY LaneTypes DEF Mishap, LaneTypesOK

LEMMA WithoutTyped ==
  ASSUME LaneTypesOK, NEW i \in Instances, NEW r \in Repos
  PROVE  WithoutTree(i, r) \in [Instances -> [Repos -> Worktrees]] BY LaneTypes DEF WithoutTree, LaneTypesOK

LEMMA FetchStep == ASSUME NEW t \in TurnIds PROVE LanesInv /\ Fetch(t) => LanesInv'
<1>. SUFFICES ASSUME LanesInv, Fetch(t) PROVE LanesInv' OBVIOUS
<1>1. PICK i \in Instances, r \in Repos : turns[t].instance = i /\ turns[t].repo = r BY InItsThread
<1>2. /\ LaneTypesOK /\ turns[t] \in LaneTurns /\ LaneTurnOK(t) /\ turns[t].at = "fetch"
      /\ tree[i] \in [Repos -> Worktrees]
      /\ UNCHANGED <<origin, warm, deleting, broken>> BY InItsThread DEF Fetch, TurnAt
<1>3. CASE mirror' = [mirror EXCEPT ![r] = FetchedHead(r)] /\ TurnGoes(t, "clear")
           /\ UNCHANGED <<tree, locks, slot, mishaps>>
  <2>1. LaneTypesOK'
    <3>1. turns' \in [TurnIds -> LaneTurns] BY <1>2, <1>3, TurnChanges DEF TurnGoes, LaneTypesOK, InThread
    <3> QED BY <1>2, <1>3, <3>1 DEF LaneTypesOK, FetchedHead
  <2>2. (\A q \in Repos : mirror'[q] \in {mirror[q], origin[q]}) /\ mirror'[r] = origin[r]
    BY <1>2, <1>3 DEF LaneTypesOK, FetchedHead
  <2>3. turns[t].since[r] <= mirror'[r] BY <1>2, <2>2 DEF LaneTurnOK
  <2>4. Owns(t) => ~tree[i][r].work BY <1>1, <1>2, InItsThread DEF Making
  <2>5. tree[i][r].state = "none" => ~tree[i][r].work BY DEF LanesInv, Unworked
  <2>6. Owns(t) /\ i \notin broken => tree[i][r].state = "none" BY <1>1, <1>2, OwnerIsAlone DEF Undisturbed, Ready
  <2> QED BY <1>1, <1>2, <1>3, <2>1, <2>2, <2>3, <2>4, <2>5, <2>6, MakingStep DEF InThread
<1>4. CASE Mishap /\ Fails(t, tree) /\ UNCHANGED mirror
  <2>1. LaneTypesOK' BY <1>1, <1>2, <1>4, FailsTyped, MishapTyped DEF LaneTypesOK
  <2> QED BY <1>1, <1>2, <1>4, <2>1, FailsStep DEF Making
<1> QED BY <1>1, <1>3, <1>4 DEF Fetch

LEMMA ClearStep == ASSUME NEW t \in TurnIds PROVE LanesInv /\ Clear(t) => LanesInv'
<1>. SUFFICES ASSUME LanesInv, Clear(t) PROVE LanesInv' OBVIOUS
<1>1. PICK i \in Instances, r \in Repos : turns[t].instance = i /\ turns[t].repo = r BY InItsThread
<1>2. /\ LaneTypesOK /\ turns[t] \in LaneTurns /\ LaneTurnOK(t) /\ turns[t].at = "clear"
      /\ tree' = WithoutTree(i, r) /\ TurnGoes(t, "add")
      /\ UNCHANGED <<origin, mirror, locks, slot, warm, deleting, broken, mishaps>>
  BY <1>1, InItsThread DEF Clear, TurnAt
<1>3. LaneTypesOK'
  <2>1. turns' \in [TurnIds -> LaneTurns] BY <1>2, TurnChanges DEF TurnGoes, LaneTypesOK, InThread
  <2> QED BY <1>2, <2>1, WithoutTyped DEF LaneTypesOK
<1>4. /\ \A j \in Instances : j # i => tree'[j] = tree[j]
      /\ \A q \in Repos : q # r => tree'[i][q] = tree[i][q]
      /\ tree'[i][r] = NoTree BY <1>2 DEF WithoutTree, LaneTypesOK
<1>5. NoTree.state = "none" /\ NoTree.work = FALSE BY DEF NoTree
<1>6. turns[t].since[r] <= mirror[r] BY <1>1, <1>2 DEF LaneTurnOK
<1> QED BY <1>1, <1>2, <1>3, <1>4, <1>5, <1>6, MakingStep DEF InThread

LEMMA AddStep == ASSUME NEW t \in TurnIds PROVE LanesInv /\ Add(t) => LanesInv'
<1>. SUFFICES ASSUME LanesInv, Add(t) PROVE LanesInv' OBVIOUS
<1>1. PICK i \in Instances, r \in Repos : turns[t].instance = i /\ turns[t].repo = r BY InItsThread
<1>2. /\ LaneTypesOK /\ turns[t] \in LaneTurns /\ LaneTurnOK(t) /\ turns[t].at = "add"
      /\ tree[i] \in [Repos -> Worktrees]
      /\ UNCHANGED <<origin, mirror, warm, deleting, broken, mishaps>> BY InItsThread DEF Add, TurnAt
<1>3. CASE tree[i][r].state # "none"
  <2>1. Fails(t, WithoutTree(i, r)) BY <1>1, <1>3 DEF Add
  <2>2. mishaps' \in 0..MaxMishaps BY <1>2 DEF LaneTypesOK
  <2>3. LaneTypesOK' BY <1>1, <1>2, <2>1, <2>2, FailsTyped, WithoutTyped
  <2> QED BY <1>1, <1>2, <2>1, <2>3, FailsStep DEF Making
<1>4. CASE tree[i][r].state = "none"
  <2>1. PICK wt : wt = [state |-> "half", base |-> mirror[r], work |-> FALSE] OBVIOUS
  <2>2. tree' = [tree EXCEPT ![i][r] = wt] /\ TurnGoes(t, "checkout") /\ UNCHANGED <<locks, slot>>
    BY <1>1, <1>4, <2>1 DEF Add
  <2>3. wt.state = "half" /\ wt.base = mirror[r] /\ wt.work = FALSE BY <2>1
  <2>4. turns[t].since[r] <= mirror[r] /\ turns[t].since[r] \in Nat BY <1>1, <1>2, LaneTypes DEF LaneTurnOK, LaneTurns
  <2>5. wt \in Worktrees
    <3>1. mirror[r] \in 0..MaxPushes BY <1>2, <2>4, LaneTypes DEF LaneTypesOK, NoClone
    <3> QED BY <2>1, <3>1 DEF Worktrees
  <2>6. LaneTypesOK'
    <3>1. turns' \in [TurnIds -> LaneTurns] BY <1>2, <2>2, TurnChanges DEF TurnGoes, LaneTypesOK, InThread
    <3>2. tree' \in [Instances -> [Repos -> Worktrees]] BY <1>2, <2>2, <2>5 DEF LaneTypesOK
    <3> QED BY <1>2, <2>2, <3>1, <3>2 DEF LaneTypesOK
  <2>7. /\ \A j \in Instances : j # i => tree'[j] = tree[j]
        /\ \A q \in Repos : q # r => tree'[i][q] = tree[i][q]
        /\ tree'[i][r] = wt BY <1>2, <2>2 DEF LaneTypesOK
  <2> QED BY <1>1, <1>2, <2>2, <2>3, <2>4, <2>6, <2>7, MakingStep DEF InThread
<1> QED BY <1>3, <1>4

LEMMA CheckoutStep == ASSUME NEW t \in TurnIds PROVE LanesInv /\ Checkout(t) => LanesInv'
<1>. SUFFICES ASSUME LanesInv, Checkout(t) PROVE LanesInv' OBVIOUS
<1>1. PICK i \in Instances, r \in Repos : turns[t].instance = i /\ turns[t].repo = r BY InItsThread
<1>2. /\ LaneTypesOK /\ turns[t] \in LaneTurns /\ LaneTurnOK(t) /\ turns[t].at = "checkout"
      /\ tree[i] \in [Repos -> Worktrees]
      /\ UNCHANGED <<origin, mirror, warm, deleting, broken>> BY InItsThread DEF Checkout, TurnAt
<1>3. ASSUME Fails(t, WithoutTree(i, r)), UNCHANGED mishaps \/ Mishap PROVE LanesInv'
  <2>1. mishaps' \in 0..MaxMishaps BY <1>2, <1>3, MishapTyped DEF LaneTypesOK
  <2>2. LaneTypesOK' BY <1>1, <1>2, <1>3, <2>1, FailsTyped, WithoutTyped
  <2> QED BY <1>1, <1>2, <1>3, <2>2, FailsStep DEF Making
<1>4. ASSUME tree[i][r].state # "none", tree' = [tree EXCEPT ![i][r].state = "whole"],
             NextRepo(t, r, [turns[t] EXCEPT !.made = @ \cup {r}]), UNCHANGED <<slot, mishaps>>
      PROVE  LanesInv'
  <2>1. PICK rest : rest = [turns[t] EXCEPT !.made = @ \cup {r}] OBVIOUS
  <2>2. PICK wt : wt = [tree[i][r] EXCEPT !.state = "whole"] OBVIOUS
  <2>3. /\ rest \in LaneTurns /\ rest.at = "checkout" /\ rest.instance = i /\ rest.repo = r
        /\ rest.since = turns[t].since /\ rest.cancelled = turns[t].cancelled
        /\ rest.made = turns[t].made \cup {r} BY <1>1, <1>2, <2>1 DEF LaneTurns
  <2>4. /\ wt \in Worktrees /\ wt.state = "whole" /\ wt.base = tree[i][r].base
        /\ wt.work = tree[i][r].work BY <1>2, <2>2 DEF Worktrees
  <2>5. tree' = [tree EXCEPT ![i][r] = wt] BY <1>2, <1>4, <2>2 DEF LaneTypesOK
  <2>6. NextRepo(t, r, rest) BY <1>4, <2>1
  <2>7. LaneTypesOK'
    <3>1. tree' \in [Instances -> [Repos -> Worktrees]] BY <1>2, <2>4, <2>5 DEF LaneTypesOK
    <3> QED BY <1>2, <1>4, <2>3, <2>6, <3>1, NextTyped DEF LaneTypesOK
  <2>8. /\ \A j \in Instances : j # i => tree'[j] = tree[j]
        /\ \A q \in Repos : q # r => tree'[i][q] = tree[i][q]
        /\ tree'[i][r] = wt BY <1>2, <2>5 DEF LaneTypesOK
  <2>9. i \notin broken /\ Undisturbed(t) => tree[i][r].base >= turns[t].since[r]
    <3>1. i \notin broken => Owns(t) BY <1>1, <1>2 DEF Owns, LaneTurnOK, InThread
    <3> QED BY <1>1, <1>2, <3>1 DEF Undisturbed, Ready
  <2> QED BY <1>1, <1>2, <1>4, <2>3, <2>4, <2>6, <2>7, <2>8, <2>9, PassedStep
<1> QED BY <1>1, <1>2, <1>3, <1>4 DEF Checkout

\* What an owner that is not in its thread leaves behind when it moves.
LEMMA OwnerMoves ==
  ASSUME LanesInv, LaneTypesOK', NEW t \in TurnIds, NEW i \in Instances, NEW next,
         turns[t].instance = i, Owns(t), turns[t].at \in {"spawn", "running"},
         next \in {"running", "over"}, TurnGoes(t, next),
         next = "running" => slot' = slot,
         \A j \in Instances : j # i => /\ slot'[j] = slot[j] /\ tree'[j] = tree[j]
                                       /\ (j \in warm' <=> j \in warm),
         \A q \in Repos : tree'[i][q].state = "none" => ~tree'[i][q].work,
         \/ \A q \in Repos : tree'[i][q].state = tree[i][q].state /\ tree'[i][q].base = tree[i][q].base
         \/ next = "over" /\ i \notin warm' /\ \A q \in Repos : tree'[i][q].state = "none",
         UNCHANGED <<origin, mirror, broken>>
  PROVE  LanesInv'
<1>1. /\ LaneTypesOK /\ LaneTurnOK(t) /\ turns[t] \in LaneTurns BY InItsThread
<1>2. turns' = [turns EXCEPT ![t].at = next] BY DEF TurnGoes
<1>3. /\ turns'[t].at = next /\ turns'[t].instance = i /\ turns'[t].since = turns[t].since
      /\ turns'[t].cancelled = FALSE /\ turns'[t].made = turns[t].made BY <1>1, <1>2 DEF LaneTypesOK, LaneTurns, Owns
<1>4. /\ Owns(t)' <=> next = "running"
      /\ turns'[t].at \notin Making BY <1>3 DEF Owns, InThread, Making
<1>5. NoOther(t, i) /\ (i \notin broken => Undisturbed(t)) BY <1>1, OwnerIsAlone
<1>6. LaneTurnOK(t)' BY <1>1, <1>3, <1>4 DEF LaneTurnOK, InThread
<1>7. ASSUME i \notin broken PROVE Undisturbed(t)'
  <2>1. Undisturbed(t) BY <1>5, <1>7
  <2>2. \A q \in Repos : tree[i][q].state = "whole" BY <2>1 DEF Undisturbed, Ready
  <2>3. ASSUME \A q \in Repos : tree'[i][q].state = tree[i][q].state
                                /\ tree'[i][q].base = tree[i][q].base
        PROVE  Undisturbed(t)'
    <3>1. \A q \in Repos : Ready(turns[t], q, tree[i][q]) BY <2>1 DEF Undisturbed
    <3>2. \A q \in Repos : Owns(t)' => Ready(turns'[t], q, tree'[i][q])
      BY <1>3, <1>4, <2>2, <2>3, <3>1 DEF Ready, InThread
    <3> QED BY <1>3, <2>2, <2>3, <3>2 DEF Undisturbed
  <2>4. ASSUME next = "over", i \notin warm', \A q \in Repos : tree'[i][q].state = "none"
        PROVE  Undisturbed(t)' BY <1>3, <1>4, <2>4 DEF Undisturbed
  <2> QED BY <2>3, <2>4
<1>8. \A u \in TurnIds : u # t => turns'[u] = turns[u] BY <1>1, <1>2 DEF LaneTypesOK
<1> QED BY <1>3, <1>4, <1>5, <1>6, <1>7, <1>8, OneLaneTurn

LEMMA GoesTyped ==
  ASSUME LaneTypesOK, NEW t \in TurnIds,
         NEW next \in {"none", "locks", "spawn", "running", "over"} \cup InThread, TurnGoes(t, next)
  PROVE  turns' \in [TurnIds -> LaneTurns] BY TurnChanges DEF TurnGoes, LaneTypesOK

LEMMA SpawnStep == ASSUME NEW t \in TurnIds PROVE LanesInv /\ Spawn(t) => LanesInv'
<1>. SUFFICES ASSUME LanesInv, Spawn(t) PROVE LanesInv' OBVIOUS
<1>1. PICK i \in Instances : turns[t].instance = i BY InItsThread
<1>2. /\ LaneTypesOK /\ LaneTurnOK(t) /\ turns[t] \in LaneTurns /\ turns[t].at = "spawn"
      /\ UNCHANGED <<origin, mirror, tree, locks, deleting, broken, mishaps>> BY InItsThread DEF Spawn, TurnAt
<1>3. Owns(t) BY <1>2 DEF Owns, LaneTurnOK, InThread
<1>4. \A q \in Repos : tree[i][q].state = "none" => ~tree[i][q].work BY DEF LanesInv, Unworked
<1>5. CASE TurnGoes(t, "over") /\ slot' = [slot EXCEPT ![i] = NoTurn] /\ UNCHANGED warm
  <2>1. LaneTypesOK' BY <1>2, <1>5, GoesTyped DEF LaneTypesOK
  <2>2. \A j \in Instances : j # i => slot'[j] = slot[j] BY <1>2, <1>5 DEF LaneTypesOK
  <2> QED BY <1>1, <1>2, <1>3, <1>4, <1>5, <2>1, <2>2, OwnerMoves
<1>6. CASE TurnGoes(t, "running") /\ warm' = warm \cup {i} /\ UNCHANGED slot
  <2>1. LaneTypesOK' BY <1>2, <1>6, GoesTyped DEF LaneTypesOK
  <2> QED BY <1>1, <1>2, <1>3, <1>4, <1>6, <2>1, OwnerMoves
<1> QED BY <1>1, <1>5, <1>6 DEF Spawn

LEMMA TurnEndsStep == ASSUME NEW t \in TurnIds PROVE LanesInv /\ TurnEnds(t) => LanesInv'
<1>. SUFFICES ASSUME LanesInv, TurnEnds(t) PROVE LanesInv' OBVIOUS
<1>1. PICK i \in Instances : turns[t].instance = i BY InItsThread
<1>2. /\ LaneTypesOK /\ LaneTurnOK(t) /\ turns[t] \in LaneTurns /\ turns[t].at = "running"
      /\ TurnGoes(t, "over") /\ slot' = [slot EXCEPT ![i] = NoTurn]
      /\ UNCHANGED <<origin, mirror, locks, deleting, broken, mishaps>> BY <1>1, InItsThread DEF TurnEnds, TurnAt
<1>3. Owns(t) BY <1>2 DEF Owns, LaneTurnOK, InThread
<1>4. \A q \in Repos : tree[i][q].state = "none" => ~tree[i][q].work BY DEF LanesInv, Unworked
<1>5. \A j \in Instances : j # i => slot'[j] = slot[j] BY <1>2 DEF LaneTypesOK
<1>6. CASE tree' = Removed(i) /\ warm' = warm \ {i}
  <2>1. LaneTypesOK' BY <1>2, <1>6, GoesTyped, LaneTypes DEF LaneTypesOK, Removed
  <2>2. /\ \A j \in Instances : j # i => tree'[j] = tree[j]
        /\ \A q \in Repos : tree'[i][q].state = "none" /\ tree'[i][q].work = FALSE
    BY <1>2, <1>6 DEF LaneTypesOK, Removed, NoTree
  <2> QED BY <1>1, <1>2, <1>3, <1>5, <1>6, <2>1, <2>2, OwnerMoves
<1>7. CASE UNCHANGED tree /\ warm' \in {warm, warm \ {i}}
  <2>1. LaneTypesOK' BY <1>2, <1>7, GoesTyped DEF LaneTypesOK
  <2>2. \A j \in Instances : j # i => (j \in warm' <=> j \in warm) BY <1>7
  <2> QED BY <1>1, <1>2, <1>3, <1>4, <1>5, <1>7, <2>1, <2>2, OwnerMoves
<1> QED BY <1>1, <1>6, <1>7 DEF TurnEnds

LEMMA AgentWorksStep ==
  ASSUME NEW t \in TurnIds, NEW r \in Repos PROVE LanesInv /\ AgentWorks(t, r) => LanesInv'
<1>. SUFFICES ASSUME LanesInv, AgentWorks(t, r) PROVE LanesInv' OBVIOUS
<1>1. PICK i \in Instances : turns[t].instance = i BY InItsThread
<1>2. /\ LaneTypesOK /\ LaneTurnOK(t) /\ turns[t] \in LaneTurns /\ turns[t].at = "running"
      /\ tree[i][r].state # "none" /\ tree' = [tree EXCEPT ![i][r].work = TRUE]
      /\ UNCHANGED <<origin, mirror, turns, locks, slot, warm, deleting, broken, mishaps>>
  BY <1>1, InItsThread DEF AgentWorks, TurnAt
<1>3. Owns(t) BY <1>2 DEF Owns, LaneTurnOK, InThread
<1>4. PICK wt : wt = [tree[i][r] EXCEPT !.work = TRUE] OBVIOUS
<1>5. /\ wt \in Worktrees /\ wt.state = tree[i][r].state /\ wt.base = tree[i][r].base
      /\ tree' = [tree EXCEPT ![i][r] = wt]
  <2>1. tree[i][r] \in Worktrees BY <1>2 DEF LaneTypesOK
  <2>2. \A b \in BOOLEAN : [tree[i][r] EXCEPT !.work = b] \in Worktrees BY <2>1 DEF Worktrees
  <2>3. wt \in Worktrees BY <1>4, <2>2
  <2>4. wt.state = tree[i][r].state /\ wt.base = tree[i][r].base BY <1>4, <2>1 DEF Worktrees
  <2>5. tree' = [tree EXCEPT ![i][r] = wt] BY <1>2, <1>4 DEF LaneTypesOK
  <2> QED BY <2>3, <2>4, <2>5
<1>6. LaneTypesOK'
  <2>1. tree \in [Instances -> [Repos -> Worktrees]] BY <1>2 DEF LaneTypesOK
  <2>2. tree' \in [Instances -> [Repos -> Worktrees]] BY <1>5, <2>1
  <2> QED BY <1>2, <2>2 DEF LaneTypesOK
<1>7. /\ \A j \in Instances : j # i => tree'[j] = tree[j]
      /\ \A q \in Repos : q # r => tree'[i][q] = tree[i][q]
      /\ tree'[i][r] = wt BY <1>2, <1>5 DEF LaneTypesOK
<1>8. \A q \in Repos : /\ tree'[i][q].state = tree[i][q].state /\ tree'[i][q].base = tree[i][q].base
                       /\ tree'[i][q].state = "none" => ~tree'[i][q].work BY <1>2, <1>5, <1>7 DEF LanesInv, Unworked
<1>9. TurnGoes(t, "running") BY <1>2 DEF TurnGoes, LaneTypesOK, LaneTurns
<1> QED BY <1>1, <1>2, <1>3, <1>6, <1>7, <1>8, <1>9, OwnerMoves

\* A turn whose caller goes away lets go of its instance; its thread goes on.
LEMMA CancelStep == ASSUME NEW t \in TurnIds PROVE LanesInv /\ Cancel(t) => LanesInv'
<1>. SUFFICES ASSUME LanesInv, Cancel(t) PROVE LanesInv' OBVIOUS
<1>1. PICK i \in Instances : turns[t].instance = i BY InItsThread
<1>2. /\ LaneTypesOK /\ LaneTurnOK(t) /\ turns[t] \in LaneTurns
      /\ turns[t].at \in {"locks", "spawn"} \cup InThread /\ ~turns[t].cancelled
      /\ locks' = Unlocked(t) /\ slot' = [slot EXCEPT ![i] = NoTurn]
      /\ broken' = IF turns[t].at \in InThread THEN broken \cup {i} ELSE broken
      /\ UNCHANGED <<origin, mirror, tree, warm, deleting>> BY <1>1, InItsThread DEF Cancel
<1>. DEFINE at == IF turns[t].at \in InThread THEN turns[t].at ELSE "over"
<1>3. PICK w : w = [turns[t] EXCEPT !.at = at, !.cancelled = TRUE] OBVIOUS
<1>a. at \in InThread \cup {"over"} /\ (turns[t].at \in InThread => at = turns[t].at)
      /\ (turns[t].at \notin InThread => at = "over") OBVIOUS
<1>b. turns' = [turns EXCEPT ![t] = w]
  <2>1. turns' = [turns EXCEPT ![t] = [turns[t] EXCEPT !.at = at, !.cancelled = TRUE]] BY DEF Cancel
  <2> QED BY <1>3, <2>1
<1>. HIDE DEF at
<1>4. /\ w.at = at
      /\ w.instance = i /\ w.since = turns[t].since /\ w.made = turns[t].made
      /\ w.repo = turns[t].repo /\ turns' = [turns EXCEPT ![t] = w] BY <1>1, <1>2, <1>3, <1>b DEF LaneTurns
<1>5. w.cancelled BY <1>2, <1>3 DEF LaneTurns
<1>6. w \in LaneTurns
  <2>1. \A a \in InThread \cup {"over"}, b \in BOOLEAN :
          [turns[t] EXCEPT !.at = a, !.cancelled = b] \in LaneTurns BY <1>2 DEF LaneTurns, InThread
  <2> QED BY <1>3, <1>a, <2>1
<1>7. turns'[t] = w BY <1>2, <1>4 DEF LaneTypesOK
<1>8. LaneTypesOK'
  <2>1. mishaps' \in 0..MaxMishaps BY <1>2, MishapTyped DEF Cancel
  <2>2. turns' \in [TurnIds -> LaneTurns] BY <1>2, <1>4, <1>6 DEF LaneTypesOK
  <2>3. locks' \in [Repos -> {NoTurn} \cup TurnIds] BY <1>2 DEF Unlocked, LaneTypesOK
  <2> QED BY <1>2, <2>1, <2>2, <2>3 DEF LaneTypesOK
<1>9. Owns(t) /\ ~Owns(t)' BY <1>2, <1>5, <1>7 DEF Owns
<1>10. NoOther(t, i) /\ (i \notin broken => Undisturbed(t)) BY <1>1, <1>9, OwnerIsAlone
<1>11. LaneTurnOK(t)' BY <1>2, <1>4, <1>7, <1>9, <1>a DEF LaneTurnOK, InThread
<1>12. ASSUME i \notin broken' PROVE Undisturbed(t)'
  <2>1. i \notin broken /\ turns[t].at \notin InThread BY <1>2, <1>12
  <2>2. \A q \in Repos : tree[i][q].state # "half" /\ (i \in warm => tree[i][q].state = "whole")
    BY <1>1, <1>10, <2>1 DEF Undisturbed, InThread
  <2> QED BY <1>2, <1>4, <1>7, <1>9, <2>2 DEF Undisturbed
<1>13. \A q \in Repos : tree[i][q].state = "none" => ~tree[i][q].work BY DEF LanesInv, Unworked
<1>14. \A j \in Instances : j # i => slot'[j] = slot[j] /\ (j \in broken' <=> j \in broken) BY <1>2 DEF LaneTypesOK
<1>15. \A u \in TurnIds : u # t => turns'[u] = turns[u] BY <1>2, <1>4 DEF LaneTypesOK
<1>16. i \in broken => i \in broken' BY <1>2
<1> QED BY <1>1, <1>2, <1>4, <1>7, <1>8, <1>9, <1>10, <1>11, <1>12, <1>13, <1>14, <1>15, <1>16, OneLaneTurn

LEMMA ReapStep == ASSUME NEW i \in Instances PROVE LanesInv /\ (Reap(i) \/ Delete(i)) => LanesInv'
<1>. SUFFICES ASSUME LanesInv, Reap(i) \/ Delete(i) PROVE LanesInv' OBVIOUS
<1>1. LaneTypesOK BY LaneTyped DEF LanesInv
<1>2. warm' \subseteq warm /\ UNCHANGED <<origin, mirror, tree, turns, locks, slot, broken>> BY DEF Reap, Delete
<1>3. LaneTypesOK'
  <2>1. mishaps' \in 0..MaxMishaps BY <1>1, MishapTyped DEF Reap, Delete, LaneTypesOK
  <2> QED BY <1>1, <1>2, <2>1 DEF LaneTypesOK, Reap, Delete
<1>4. WorkspacesTypeOK' BY <1>3 DEF WorkspacesTypeOK, LaneTypesOK, LaneTurns, Worktrees
<1>5. \A t \in TurnIds : LaneTurnOK(t)' BY <1>2 DEF LanesInv, LaneTurnOK, Owns
<1>6. MirrorOK' /\ Unworked' BY <1>2 DEF LanesInv, MirrorOK, Unworked, Owns
<1>7. \A j \in Instances \ broken' : InstanceOK(j)' BY <1>2 DEF LanesInv, InstanceOK, Owns
<1> QED BY <1>4, <1>5, <1>6, <1>7 DEF LanesInv

\* A DELETE: nothing of the instance is left, or the turn that has it is named as broken into.
LEMMA ForgetStep == ASSUME NEW i \in Instances PROVE LanesInv /\ Forget(i) => LanesInv'
<1>. SUFFICES ASSUME LanesInv, Forget(i) PROVE LanesInv' OBVIOUS
<1>1. LaneTypesOK /\ UNCHANGED <<origin, mirror, turns, locks, slot, mishaps>> BY LaneTyped DEF LanesInv, Forget
<1>2. CASE UNCHANGED <<tree, warm, broken>>
  <2>1. LaneTypesOK' BY <1>1, <1>2 DEF LaneTypesOK, Forget
  <2>2. WorkspacesTypeOK' BY <2>1 DEF WorkspacesTypeOK, LaneTypesOK, LaneTurns, Worktrees
  <2> QED BY <1>1, <1>2, <2>2 DEF LanesInv, LaneTurnOK, Owns, MirrorOK, Unworked, InstanceOK
<1>3. CASE /\ tree' = Removed(i) /\ warm' = warm \ {i}
           /\ broken' = IF slot[i] # NoTurn THEN broken \cup {i}
                        ELSE IF Stray(i) THEN broken ELSE broken \ {i}
  <2>1. LaneTypesOK'
    <3>1. tree' \in [Instances -> [Repos -> Worktrees]] BY <1>1, <1>3, LaneTypes DEF LaneTypesOK, Removed
    <3>2. broken' \subseteq Instances BY <1>1, <1>3 DEF LaneTypesOK
    <3> QED BY <1>1, <1>3, <3>1, <3>2 DEF LaneTypesOK, Forget
  <2>2. /\ \A j \in Instances : j # i => tree'[j] = tree[j]
        /\ \A q \in Repos : tree'[i][q].state = "none" /\ tree'[i][q].work = FALSE
    BY <1>1, <1>3 DEF LaneTypesOK, Removed, NoTree
  <2>3. WorkspacesTypeOK' BY <2>1 DEF WorkspacesTypeOK, LaneTypesOK, LaneTurns, Worktrees
  <2>4. \A j \in Instances : j # i => (j \in broken' <=> j \in broken) BY <1>3
  <2>5. ASSUME NEW t \in TurnIds PROVE LaneTurnOK(t)'
    <3>1. LaneTurnOK(t) /\ turns[t].instance \in Instances BY InItsThread
    <3>2. turns[t].at \in InThread /\ turns[t].cancelled => turns[t].instance \in broken'
      <4>1. CASE turns[t].instance # i BY <2>4, <3>1, <4>1 DEF LaneTurnOK
      <4>2. CASE turns[t].instance = i BY <1>3, <3>1, <4>2 DEF LaneTurnOK, Stray
      <4> QED BY <4>1, <4>2
    <3> QED BY <1>1, <1>3, <3>1, <3>2 DEF LaneTurnOK, Owns
  <2>6. MirrorOK' BY <1>1 DEF LanesInv, MirrorOK
  <2>7. Unworked'
    <3>1. \A t \in TurnIds : turns[t].instance \in Instances /\ turns[t].repo \in Repos BY InItsThread
    <3>2. \A j \in Instances, q \in Repos : tree'[j][q].work => tree[j][q].work BY <2>2
    <3> QED BY <1>1, <2>2, <3>1, <3>2 DEF LanesInv, Unworked, Owns
  <2>8. ASSUME NEW j \in Instances \ broken' PROVE InstanceOK(j)'
    <3>1. CASE j # i
      <4>1. InstanceOK(j) /\ tree'[j] = tree[j] /\ (j \in warm' <=> j \in warm)
        BY <1>3, <2>2, <2>4, <2>8, <3>1 DEF LanesInv
      <4> QED BY <1>1, <4>1 DEF InstanceOK, Owns
    <3>2. CASE j = i
      <4>1. slot[i] = NoTurn BY <1>3, <2>8, <3>2
      <4>2. \A t \in TurnIds : t # NoTurn /\ (Owns(t) => slot[turns[t].instance] = t)
        BY LaneTypes DEF LanesInv, LaneTurnOK
      <4>3. \A t \in TurnIds : Owns(t) => turns[t].instance # i BY <4>1, <4>2
      <4> QED BY <1>1, <1>3, <2>2, <3>2, <4>3 DEF InstanceOK, Owns
    <3> QED BY <3>1, <3>2
  <2> QED BY <2>3, <2>5, <2>6, <2>7, <2>8 DEF LanesInv
<1> QED BY <1>2, <1>3 DEF Forget

LEMMA KillStep == LanesInv /\ Kill => LanesInv'
<1>. SUFFICES ASSUME LanesInv, Kill PROVE LanesInv' OBVIOUS
<1>1. LaneTypesOK BY LaneTyped DEF LanesInv
<1>2. UNCHANGED <<origin, mirror, tree>> /\ warm' = {} BY DEF Kill
<1>3. ASSUME NEW t \in TurnIds
      PROVE  /\ turns'[t] \in LaneTurns /\ turns'[t].at \in {"none", "over"}
             /\ turns'[t].since = turns[t].since
             /\ turns'[t].at = "none" => turns'[t] = turns[t]
  <2>1. turns[t] \in LaneTurns BY <1>1 DEF LaneTypesOK
  <2>2. CASE TurnAt(t, "none") BY <2>1, <2>2 DEF Kill, TurnAt
  <2>3. CASE ~TurnAt(t, "none")
    <3>1. turns'[t] = [turns[t] EXCEPT !.at = "over"] BY <2>3 DEF Kill
    <3>2. [turns[t] EXCEPT !.at = "over"] \in LaneTurns BY <2>1, TurnChanges
    <3>3. /\ [turns[t] EXCEPT !.at = "over"].at = "over"
          /\ [turns[t] EXCEPT !.at = "over"].since = turns[t].since BY <2>1 DEF LaneTurns
    <3> QED BY <3>1, <3>2, <3>3
  <2> QED BY <2>2, <2>3
<1>4. LaneTypesOK'
  <2>1. turns' \in [TurnIds -> LaneTurns] BY <1>3 DEF Kill
  <2>2. mishaps' \in 0..MaxMishaps BY <1>1, MishapTyped DEF Kill
  <2>3. broken' \subseteq Instances /\ warm' \subseteq Instances /\ deleting' \subseteq Instances
    BY <1>1 DEF Kill, LaneTypesOK
  <2>4. /\ locks' \in [Repos -> {NoTurn} \cup TurnIds]
        /\ slot' \in [Instances -> {NoTurn} \cup TurnIds] BY DEF Kill
  <2> QED BY <1>1, <1>2, <2>1, <2>2, <2>3, <2>4 DEF LaneTypesOK
<1>5. \A t \in TurnIds : ~Owns(t)' BY <1>3 DEF Owns, InThread
<1>6. \A t \in TurnIds : LaneTurnOK(t)' BY <1>2, <1>3, <1>5 DEF LanesInv, LaneTurnOK, InThread
<1>7. MirrorOK' /\ Unworked' BY <1>2, <1>5 DEF LanesInv, MirrorOK, Unworked
<1>8. \A j \in Instances \ broken' : InstanceOK(j)' BY <1>2, <1>5 DEF InstanceOK, Kill
<1>9. WorkspacesTypeOK' BY <1>4 DEF WorkspacesTypeOK, LaneTypesOK, LaneTurns, Worktrees
<1> QED BY <1>6, <1>7, <1>8, <1>9 DEF LanesInv

LEMMA LanesStep == LanesInv /\ [WorkspacesNext]_workspaceVars => LanesInv'
<1>. SUFFICES ASSUME LanesInv, [WorkspacesNext]_workspaceVars PROVE LanesInv' OBVIOUS
<1>1. CASE UNCHANGED workspaceVars
  <2>1. UNCHANGED <<origin, mirror, tree, turns, locks, slot, warm, deleting, broken, mishaps>>
    BY <1>1 DEF workspaceVars
  <2> QED BY <2>1 DEF LanesInv, WorkspacesTypeOK, LaneTurnOK, MirrorOK, Unworked, InstanceOK, Owns
<1>2. ASSUME NEW t \in TurnIds, Provisions(t) PROVE LanesInv'
  BY <1>2, TakeLockStep, CheckStep, FetchStep, ClearStep, AddStep, CheckoutStep, SpawnStep DEF Provisions
<1>3. CASE WorkspacesNext BY <1>2, <1>3, PushStep, StartTurnStep, AgentWorksStep, TurnEndsStep, CancelStep, ReapStep,
     ForgetStep, KillStep DEF WorkspacesNext
<1> QED BY <1>1, <1>3

LEMMA LanesSafe == LanesInv => StartsReady
<1>. SUFFICES ASSUME LanesInv, NEW t \in TurnIds, turns[t].at = "running",
                     turns[t].instance \notin broken, NEW r \in Repos
              PROVE  Ready(turns[t], r, tree[turns[t].instance][r]) BY DEF StartsReady, Ready
<1>1. LaneTurnOK(t) /\ turns[t].instance \in Instances BY InItsThread
<1>2. Owns(t) BY <1>1 DEF Owns, LaneTurnOK, InThread
<1> QED BY <1>1, <1>2 DEF LanesInv, InstanceOK

\* Only what a turn was making goes, or an instance that is to go.
KeepsWork == \A i \in Instances : Loses(i) => i \in deleting \cup OneOffs \/ Stray(i)

LEMMA FailsLose ==
  ASSUME LanesInv, NEW t \in TurnIds, NEW left,
         turns[t].at \in Making, Fails(t, left),
         left = tree \/ left = WithoutTree(turns[t].instance, turns[t].repo)
  PROVE  KeepsWork
<1>. DEFINE i == turns[t].instance r == turns[t].repo
<1>1. /\ LaneTypesOK /\ LaneTurnOK(t) /\ i \in Instances /\ r \in Repos
      /\ Owns(t) => ~tree[i][r].work BY InItsThread
<1>2. turns[t].at \in InThread BY DEF Making, InThread
<1>3. /\ \A j \in Instances : j # i => tree'[j] = tree[j]
      /\ tree' = Removed(i) => i \in OneOffs \/ tree' = left BY <1>1 DEF Fails, Removed, WithoutTree, LaneTypesOK
<1>4. tree' = left \/ tree' = Removed(i) BY DEF Fails
<1>5. CASE turns[t].cancelled
  <2>1. Stray(i) BY <1>2, <1>5 DEF Stray
  <2> QED BY <1>3, <2>1 DEF KeepsWork, Loses
<1>6. CASE ~turns[t].cancelled
  <2>1. Owns(t) BY <1>2, <1>6 DEF Owns
  <2>2. \A q \in Repos : q # r => left[i][q] = tree[i][q] BY <1>1 DEF WithoutTree, LaneTypesOK
  <2>3. ~tree[i][r].work BY <1>1, <2>1
  <2>4. \A q \in Repos : tree[i][q].work => q # r BY <2>3
  <2>5. tree' = left \/ i \in OneOffs BY <1>3, <1>4
  <2> QED BY <1>3, <2>2, <2>4, <2>5 DEF KeepsWork, Loses
<1> QED BY <1>5, <1>6

LEMMA WorkKeptStep == LanesInv /\ [WorkspacesNext]_workspaceVars => [KeepsWork]_workspaceVars
<1>. SUFFICES ASSUME LanesInv, WorkspacesNext PROVE KeepsWork OBVIOUS
<1>1. LaneTypesOK BY LaneTyped DEF LanesInv
<1>2. ASSUME UNCHANGED tree PROVE KeepsWork BY <1>2 DEF KeepsWork, Loses
<1>3. ASSUME NEW t \in TurnIds, Provisions(t) PROVE KeepsWork
  <2>1. PICK i \in Instances, r \in Repos : turns[t].instance = i /\ turns[t].repo = r BY InItsThread
  <2>2. CASE TakeLock(t) \/ Check(t) \/ Spawn(t) BY <1>2, <2>2 DEF TakeLock, Check, Spawn
  <2>3. CASE Fetch(t) BY <1>2, <2>1, <2>3, FailsLose DEF Fetch, TurnAt, Making
  <2>4. CASE Clear(t)
    <3>1. turns[t].at = "clear" /\ tree' = WithoutTree(i, r) BY <2>1, <2>4 DEF Clear, TurnAt
    <3>2. /\ \A j \in Instances : j # i => tree'[j] = tree[j]
          /\ \A q \in Repos : q # r => tree'[i][q] = tree[i][q] BY <1>1, <3>1 DEF WithoutTree, LaneTypesOK
    <3>3. Owns(t) => ~tree[i][r].work BY <2>1, <3>1, InItsThread DEF Making
    <3>4. Owns(t) \/ Stray(i) BY <2>1, <3>1 DEF Owns, Stray, InThread
    <3>5. \A q \in Repos : Owns(t) /\ tree[i][q].work => q # r BY <3>3
    <3> QED BY <3>2, <3>4, <3>5 DEF KeepsWork, Loses
  <2>5. CASE Add(t)
    <3>1. turns[t].at = "add" BY <2>5 DEF Add, TurnAt
    <3>2. CASE tree[i][r].state # "none" BY <2>1, <2>5, <3>1, <3>2, FailsLose DEF Add, Making
    <3>3. CASE tree[i][r].state = "none"
      <4>1. ~tree[i][r].work BY <3>3 DEF LanesInv, Unworked
      <4>2. /\ \A j \in Instances : j # i => tree'[j] = tree[j]
            /\ \A q \in Repos : q # r => tree'[i][q] = tree[i][q] BY <1>1, <2>1, <2>5, <3>3 DEF Add, LaneTypesOK
      <4>3. \A q \in Repos : tree[i][q].work => q # r BY <4>1
      <4> QED BY <4>2, <4>3 DEF KeepsWork, Loses
    <3> QED BY <3>2, <3>3
  <2>6. CASE Checkout(t)
    <3>1. turns[t].at = "checkout" BY <2>6 DEF Checkout, TurnAt
    <3>2. CASE Fails(t, WithoutTree(i, r)) BY <2>1, <3>1, <3>2, FailsLose DEF Making
    <3>3. CASE tree' = [tree EXCEPT ![i][r].state = "whole"]
      <4>1. PICK wt : wt = [tree[i][r] EXCEPT !.state = "whole"] OBVIOUS
      <4>2. wt.work = tree[i][r].work BY <1>1, <4>1 DEF LaneTypesOK, Worktrees
      <4>3. /\ \A j \in Instances : j # i => tree'[j] = tree[j]
            /\ \A q \in Repos : q # r => tree'[i][q] = tree[i][q]
            /\ tree'[i][r] = wt BY <1>1, <3>3, <4>1 DEF LaneTypesOK
      <4>4. \A j \in Instances, q \in Repos : tree'[j][q].work = tree[j][q].work BY <4>2, <4>3
      <4> QED BY <4>4 DEF KeepsWork, Loses
    <3> QED BY <2>1, <2>6, <3>2, <3>3 DEF Checkout
  <2> QED BY <1>3, <2>2, <2>3, <2>4, <2>5, <2>6 DEF Provisions
<1>4. ASSUME NEW i \in Instances, i \in deleting \cup OneOffs, tree' = Removed(i) PROVE KeepsWork
  <2>1. \A j \in Instances : j # i => tree'[j] = tree[j] BY <1>1, <1>4 DEF Removed, LaneTypesOK
  <2> QED BY <1>4, <2>1 DEF KeepsWork, Loses
<1>5. ASSUME NEW t \in TurnIds, TurnEnds(t) PROVE KeepsWork
  <2>1. turns[t].instance \in Instances BY InItsThread
  <2> QED BY <1>2, <1>4, <1>5, <2>1 DEF TurnEnds
<1>6. ASSUME NEW t \in TurnIds, NEW r \in Repos, AgentWorks(t, r) PROVE KeepsWork
  <2>1. PICK i \in Instances : turns[t].instance = i BY InItsThread
  <2>2. tree' = [tree EXCEPT ![i][r].work = TRUE] /\ ~tree[i][r].work BY <1>6, <2>1 DEF AgentWorks
  <2>3. /\ \A j \in Instances : j # i => tree'[j] = tree[j]
        /\ \A q \in Repos : q # r => tree'[i][q] = tree[i][q] BY <1>1, <2>2 DEF LaneTypesOK
  <2>4. \A q \in Repos : tree[i][q].work => q # r BY <2>2
  <2> QED BY <2>3, <2>4 DEF KeepsWork, Loses
<1>7. ASSUME NEW i \in Instances, Forget(i) PROVE KeepsWork BY <1>2, <1>4, <1>7 DEF Forget
<1> QED BY <1>2, <1>3, <1>5, <1>6, <1>7 DEF WorkspacesNext, Push, StartTurn, Cancel, Reap, Delete, Kill

------------------------
(* What a filter leaves (Lists) *)

\* Induction over the numbers, about a set: its least counterexample is none.
LEMMA AllNumbers ==
  ASSUME NEW S, 0 \in S, \A n \in Nat : n \in S => n + 1 \in S
  PROVE  \A n \in Nat : n \in S
<1>. SUFFICES ASSUME Nat \ S # {} PROVE FALSE OBVIOUS
<1>1. PICK n \in Nat \ S : \A m \in Nat \ S : n <= m BY Least
<1>2. n # 0 /\ n - 1 \in Nat /\ n - 1 \in S BY <1>1
<1> QED BY <1>1, <1>2

\* The function by which Without is defined, over the first m elements.
IsLeft(left, s, out, m) ==
  left = [n \in 0 .. m |->
            IF n = 0 THEN << >>
            ELSE IF s[n] \in out THEN left[n - 1] ELSE Append(left[n - 1], s[n])]

LEMMA LeftExists == ASSUME NEW s, NEW out PROVE \A m \in Nat : \E left : IsLeft(left, s, out, m)
<1>. DEFINE S == {m \in Nat : \E left : IsLeft(left, s, out, m)}
<1>1. 0 \in S
  <2>1. IsLeft([n \in 0 .. 0 |-> << >>], s, out, 0) BY DEF IsLeft
  <2> QED BY <2>1
<1>2. ASSUME NEW m \in Nat, m \in S PROVE m + 1 \in S
  <2>1. PICK left : IsLeft(left, s, out, m) BY <1>2
  <2>. DEFINE more == [n \in 0 .. m + 1 |->
                         IF n = 0 THEN << >>
                         ELSE IF s[n] \in out THEN left[n - 1] ELSE Append(left[n - 1], s[n])]
  <2>2. \A n \in 0 .. m + 1 :
          more[n] = IF n = 0 THEN << >>
                    ELSE IF s[n] \in out THEN left[n - 1] ELSE Append(left[n - 1], s[n]) OBVIOUS
  <2>3. more = [n \in 0 .. m + 1 |-> more[n]] OBVIOUS
  <2>. HIDE DEF more
  <2>4. ASSUME NEW n \in 0 .. m PROVE more[n] = left[n]
    <3>1. left[n] = IF n = 0 THEN << >>
                    ELSE IF s[n] \in out THEN left[n - 1] ELSE Append(left[n - 1], s[n]) BY <2>1 DEF IsLeft
    <3>2. n \in 0 .. m + 1 OBVIOUS
    <3> QED BY <2>2, <3>1, <3>2
  <2>5. \A n \in 0 .. m + 1 : n # 0 => n - 1 \in 0 .. m OBVIOUS
  <2>6. \A n \in 0 .. m + 1 : n # 0 => more[n - 1] = left[n - 1] BY <2>4, <2>5
  <2>7. \A n \in 0 .. m + 1 :
          more[n] = IF n = 0 THEN << >>
                    ELSE IF s[n] \in out THEN more[n - 1] ELSE Append(more[n - 1], s[n]) BY <2>2, <2>6
  <2>8. IsLeft(more, s, out, m + 1)
    <3>. DEFINE F == [n \in 0 .. m + 1 |->
                       IF n = 0 THEN << >>
                       ELSE IF s[n] \in out THEN more[n - 1] ELSE Append(more[n - 1], s[n])]
    <3>1. DOMAIN more = 0 .. m + 1 /\ DOMAIN F = 0 .. m + 1 BY <2>3
    <3>2. \A n \in 0 .. m + 1 : more[n] = F[n] BY <2>7
    <3>3. F = [n \in 0 .. m + 1 |-> F[n]] OBVIOUS
    <3>4. more = F
      <4>. HIDE DEF F
      <4> QED BY <2>3, <3>2, <3>3
    <3> QED BY <3>4 DEF IsLeft
  <2> QED BY <2>8
<1>. HIDE DEF S
<1>3. \A m \in Nat : m \in S BY <1>1, <1>2, AllNumbers
<1> QED BY <1>3 DEF S

\* What is left stands in the order in which it stood, at the places f.
Remains(w, s, out, n, f) ==
  /\ f \in [1 .. Len(w) -> 1 .. n]
  /\ \A j, k \in 1 .. Len(w) : j < k => f[j] < f[k]
  /\ \A k \in 1 .. Len(w) : w[k] = s[f[k]] /\ s[f[k]] \notin out
  /\ \A i \in 1 .. n : s[i] \notin out => \E k \in 1 .. Len(w) : f[k] = i
  /\ (\A i \in 1 .. n : s[i] \notin out) => Len(w) = n /\ \A k \in 1 .. n : f[k] = k

LEMMA OneMore ==
  ASSUME NEW T, NEW s \in Seq(T), NEW out, NEW n \in Nat, n + 1 <= Len(s),
         NEW w \in Seq(T), NEW f, Remains(w, s, out, n, f)
  PROVE  /\ s[n + 1] \in out => \E g : Remains(w, s, out, n + 1, g)
         /\ s[n + 1] \notin out =>
              /\ Append(w, s[n + 1]) \in Seq(T)
              /\ \E g : Remains(Append(w, s[n + 1]), s, out, n + 1, g)
<1>1. CASE s[n + 1] \in out
  <2>1. f \in [1 .. Len(w) -> 1 .. n + 1] BY DEF Remains
  <2>2. \A i \in 1 .. n + 1 : s[i] \notin out => i \in 1 .. n BY <1>1
  <2> QED BY <1>1, <2>1, <2>2 DEF Remains
<1>2. CASE s[n + 1] \notin out
  <2>. DEFINE v == Append(w, s[n + 1])
              g == [k \in 1 .. Len(w) + 1 |-> IF k = Len(w) + 1 THEN n + 1 ELSE f[k]]
  <2>1. /\ Len(w) \in Nat /\ s[n + 1] \in T /\ v \in Seq(T) /\ Len(v) = Len(w) + 1
        /\ v[Len(w) + 1] = s[n + 1] /\ \A k \in 1 .. Len(w) : v[k] = w[k] OBVIOUS
  <2>2. /\ g[Len(w) + 1] = n + 1 /\ \A k \in 1 .. Len(w) : g[k] = f[k]
        /\ g \in [1 .. Len(w) + 1 -> 1 .. n + 1] BY <2>1 DEF Remains
  <2>. HIDE DEF v, g
  <2>3. \A k \in 1 .. Len(w) : f[k] \in 1 .. n BY DEF Remains
  <2>4. \A j, k \in 1 .. Len(v) : j < k => g[j] < g[k]
    <3>. SUFFICES ASSUME NEW j \in 1 .. Len(v), NEW k \in 1 .. Len(v), j < k PROVE g[j] < g[k] OBVIOUS
    <3>1. j \in 1 .. Len(w) BY <2>1
    <3>2. CASE k = Len(w) + 1
      <4>1. g[j] = f[j] /\ g[k] = n + 1 BY <2>2, <3>1, <3>2
      <4>2. PICK i \in 1 .. n : i = f[j] BY <2>3, <3>1
      <4> QED BY <4>1, <4>2
    <3>3. CASE k # Len(w) + 1
      <4>1. k \in 1 .. Len(w) BY <2>1, <3>3
      <4> QED BY <2>2, <3>1, <4>1 DEF Remains
    <3> QED BY <3>2, <3>3
  <2>5. \A k \in 1 .. Len(v) : v[k] = s[g[k]] /\ s[g[k]] \notin out
    <3>. SUFFICES ASSUME NEW k \in 1 .. Len(v) PROVE v[k] = s[g[k]] /\ s[g[k]] \notin out OBVIOUS
    <3>1. CASE k = Len(w) + 1 BY <1>2, <2>1, <2>2, <3>1
    <3>2. CASE k # Len(w) + 1
      <4>1. k \in 1 .. Len(w) BY <2>1, <3>2
      <4> QED BY <2>1, <2>2, <4>1 DEF Remains
    <3> QED BY <3>1, <3>2
  <2>6. \A i \in 1 .. n + 1 : s[i] \notin out => \E k \in 1 .. Len(v) : g[k] = i
    <3>. SUFFICES ASSUME NEW i \in 1 .. n + 1, s[i] \notin out PROVE \E k \in 1 .. Len(v) : g[k] = i OBVIOUS
    <3>1. CASE i = n + 1 BY <2>1, <2>2, <3>1
    <3>2. CASE i # n + 1
      <4>0. i \in 1 .. n BY <3>2
      <4>1. PICK k \in 1 .. Len(w) : f[k] = i BY <4>0 DEF Remains
      <4> QED BY <2>1, <2>2, <4>1
    <3> QED BY <3>1, <3>2
  <2>7. (\A i \in 1 .. n + 1 : s[i] \notin out) => Len(v) = n + 1 /\ \A k \in 1 .. n + 1 : g[k] = k
    <3>. SUFFICES ASSUME \A i \in 1 .. n + 1 : s[i] \notin out
                  PROVE  Len(v) = n + 1 /\ \A k \in 1 .. n + 1 : g[k] = k OBVIOUS
    <3>1. Len(w) = n /\ \A k \in 1 .. n : f[k] = k BY DEF Remains
    <3> QED BY <2>1, <2>2, <3>1
  <2>8. Remains(v, s, out, n + 1, g) BY <2>1, <2>2, <2>4, <2>5, <2>6, <2>7 DEF Remains
  <2> QED BY <1>2, <2>1, <2>8 DEF v
<1> QED BY <1>1, <1>2

LEMMA WithoutRemains ==
  ASSUME NEW T, NEW s \in Seq(T), NEW out
  PROVE  Without(s, out) \in Seq(T) /\ \E f : Remains(Without(s, out), s, out, Len(s), f)
<1>. DEFINE L == CHOOSE left : IsLeft(left, s, out, Len(s))
<1>0. Len(s) \in Nat OBVIOUS
<1>1. PICK left : left = L OBVIOUS
<1>2. IsLeft(left, s, out, Len(s)) BY <1>0, <1>1, LeftExists
<1>3. Without(s, out) = left[Len(s)] BY <1>1 DEF Without, IsLeft
<1>. HIDE DEF L
<1>. DEFINE S == {n \in Nat : n <= Len(s) =>
                    left[n] \in Seq(T) /\ \E f : Remains(left[n], s, out, n, f)}
<1>4. 0 \in S
  <2>1. left[0] = << >> BY <1>0, <1>2 DEF IsLeft
  <2>2. PICK w : w = left[0] OBVIOUS
  <2>3. w \in Seq(T) /\ Len(w) = 0 BY <2>1, <2>2
  <2>4. [k \in 1 .. 0 |-> 0] \in [1 .. 0 -> 1 .. 0] OBVIOUS
  <2>5. Remains(w, s, out, 0, [k \in 1 .. 0 |-> 0]) BY <2>3, <2>4 DEF Remains
  <2> QED BY <2>2, <2>3, <2>5
<1>5. ASSUME NEW n \in Nat, n \in S PROVE n + 1 \in S
  <2>. SUFFICES ASSUME n + 1 <= Len(s)
                PROVE  left[n + 1] \in Seq(T) /\ \E f : Remains(left[n + 1], s, out, n + 1, f) OBVIOUS
  <2>1. PICK f : left[n] \in Seq(T) /\ Remains(left[n], s, out, n, f) BY <1>0, <1>5
  <2>2. left[n + 1] = IF s[n + 1] \in out THEN left[n] ELSE Append(left[n], s[n + 1])
    <3>1. n + 1 \in 0 .. Len(s) /\ n + 1 # 0 /\ (n + 1) - 1 = n BY <1>0
    <3> QED BY <1>2, <3>1 DEF IsLeft
  <2>3. PICK w : w = left[n] OBVIOUS
  <2> QED BY <2>1, <2>2, <2>3, OneMore
<1>. HIDE DEF S
<1>6. Len(s) \in S BY <1>0, <1>4, <1>5, AllNumbers
<1> QED BY <1>0, <1>3, <1>6 DEF S

\* What a filter leaves of a sequence is what was in it and was not to go; what
\* has nothing to go stays as it is.
LEMMA WithoutIs ==
  ASSUME NEW T, NEW s \in Seq(T), NEW out
  PROVE  /\ Without(s, out) \in Seq(T)
         /\ \A k \in DOMAIN Without(s, out) :
              \E n \in DOMAIN s : Without(s, out)[k] = s[n] /\ s[n] \notin out
         /\ \A n \in DOMAIN s : s[n] \notin out => \E k \in DOMAIN Without(s, out) : Without(s, out)[k] = s[n]
         /\ (\A n \in DOMAIN s : s[n] \notin out) => Without(s, out) = s
<1>1. PICK w : w = Without(s, out) OBVIOUS
<1>2. PICK f : Remains(w, s, out, Len(s), f) BY <1>1, WithoutRemains
<1>3. w \in Seq(T) /\ DOMAIN w = 1 .. Len(w) /\ DOMAIN s = 1 .. Len(s) BY <1>1, WithoutRemains
<1>7. \A k \in 1 .. Len(w) : f[k] \in 1 .. Len(s) /\ w[k] = s[f[k]] /\ s[f[k]] \notin out BY <1>2 DEF Remains
<1>4. \A k \in DOMAIN w : \E n \in DOMAIN s : w[k] = s[n] /\ s[n] \notin out BY <1>3, <1>7
<1>5. ASSUME NEW n \in DOMAIN s, s[n] \notin out PROVE \E k \in DOMAIN w : w[k] = s[n]
  <2>1. PICK k \in 1 .. Len(w) : f[k] = n BY <1>2, <1>3, <1>5 DEF Remains
  <2>2. w[k] = s[n] BY <1>7, <2>1
  <2> QED BY <1>3, <2>2
<1>6. ASSUME \A n \in DOMAIN s : s[n] \notin out PROVE w = s
  <2>1. \A n \in 1 .. Len(s) : s[n] \notin out BY <1>3, <1>6
  <2>2. Len(w) = Len(s) /\ \A k \in 1 .. Len(s) : f[k] = k BY <1>2, <2>1 DEF Remains
  <2>3. \A k \in 1 .. Len(s) : w[k] = s[k] BY <1>7, <2>2
  <2> QED BY <1>3, <2>2, <2>3
<1> QED BY <1>1, <1>3, <1>4, <1>5, <1>6
------------------------
(* The setup of a harness's home (HarnessSetup) *)

Handlers == {Ours(v) : v \in Versions} \cup {User, Theirs}
Groups == Seq(Seq(Handlers) \ {<< >>})

\* Every handler of ours in the file is of one of the versions.
OwnIn(groups, versions) ==
  \A g \in DOMAIN groups : \A h \in DOMAIN groups[g] :
    IsOurs(groups[g][h]) => groups[g][h].version \in versions

ThereFor == {v \in Versions : copies[v] # "none"}
OwnOf(groups) == {At(groups, p).version : p \in OwnPlaces(groups)}
AfterHooks == setup.at \in {"skill", "swap", "prune"}

SetupRecords ==
  [at : Steps, version : Versions \cup {Absent}, old : Groups, new : Groups,
   extra : BOOLEAN, seen : BOOLEAN]

SetupTypesOK ==
  /\ file \in Groups /\ wanted \in Versions
  /\ config = [server |-> config.server, extra |-> config.extra, trust |-> config.trust]
  /\ setup \in SetupRecords

\* What a setup has read, and what it will write.
HasRead ==
  setup.at \in Steps \ {"idle", "locked"} => setup.new = Merged(setup.old, setup.version)
BeforeHooks ==
  setup.at = "hooks" \/ (setup.at = "config" /\ setup.version # Absent) =>
    /\ OwnIn(file, OwnOf(setup.old))
    /\ setup.seen => file = setup.old
\* The copy of a setup is there until it ends, and what it has written is of its version.
ItsVersion ==
  LET v == setup.version IN
  IF v = Absent
  THEN /\ AfterHooks \/ setup.at = "config" => OwnIn(file, {})
       /\ AfterHooks => config.server = Absent
  ELSE /\ setup.at # "idle" => copies[v] = "current"
       /\ AfterHooks \/ setup.at = "hooks" => config.server = v
       /\ setup.at = "hooks" => config.trust = Trust(setup.new)
       /\ AfterHooks => OwnIn(file, {v})

SetupInv ==
  /\ SetupTypeOK /\ SetupTypesOK /\ HasRead /\ BeforeHooks /\ ItsVersion
  /\ OwnIn(file, ThereFor) /\ (config.server # Absent => config.server \in ThereFor)
  /\ setup.at = "swap" => skill # UserSkill

LEMMA HandlersAre ==
  ASSUME SetupAssumption
  PROVE  /\ Dropped \notin Handlers /\ Absent \notin Versions /\ ~IsOurs(Dropped)
         /\ \A v \in Versions : Ours(v) \in Handlers /\ IsOurs(Ours(v)) /\ Ours(v).version = v
         /\ \A e \in Handlers : IsOurs(e) => e.version \in Versions
         /\ User \in Handlers /\ Theirs \in Handlers /\ ~IsOurs(User) /\ ~IsOurs(Theirs)
<1>1. Absent \notin Versions BY DEF SetupAssumption, Absent
<1>2. /\ Dropped.who = "none" /\ User.who = "user" /\ Theirs.who = "theirs"
      /\ \A v \in Versions : Ours(v).who = "ours" /\ Ours(v).version = v BY DEF Dropped, User, Theirs, Ours
<1>3. \A e \in Handlers : (\E v \in Versions : e = Ours(v)) \/ e = User \/ e = Theirs BY DEF Handlers
<1>4. Dropped \notin Handlers BY <1>2, <1>3
<1>5. \A e \in Handlers : IsOurs(e) => e.version \in Versions BY <1>2, <1>3 DEF IsOurs
<1>6. \A v \in Versions : Ours(v) \in Handlers BY DEF Handlers
<1>7. User \in Handlers /\ Theirs \in Handlers BY DEF Handlers
<1> QED BY <1>1, <1>2, <1>4, <1>5, <1>6, <1>7 DEF IsOurs

\* A file is a list of groups, a group a list of handlers that is not empty.
LEMMA GroupsAre ==
  ASSUME NEW f \in Groups
  PROVE  /\ Len(f) \in Nat /\ DOMAIN f = 1 .. Len(f)
         /\ \A g \in DOMAIN f : /\ f[g] \in Seq(Handlers) /\ f[g] # << >>
                                /\ Len(f[g]) \in Nat /\ DOMAIN f[g] = 1 .. Len(f[g])
                                /\ \A h \in DOMAIN f[g] : f[g][h] \in Handlers
<1>1. Len(f) \in Nat /\ DOMAIN f = 1 .. Len(f) BY DEF Groups
<1>2. \A g \in DOMAIN f : f[g] \in Seq(Handlers) \ {<< >>} BY DEF Groups
<1>3. ASSUME NEW s \in Seq(Handlers)
      PROVE  Len(s) \in Nat /\ DOMAIN s = 1 .. Len(s) /\ \A h \in DOMAIN s : s[h] \in Handlers OBVIOUS
<1> QED BY <1>1, <1>2, <1>3

\* A list of elements of U is one of T, when they are.
LEMMA SeqTyped ==
  ASSUME NEW n \in Nat, NEW T, NEW s, s = [i \in 1 .. n |-> s[i]], \A i \in 1 .. n : s[i] \in T
  PROVE  s \in Seq(T) /\ Len(s) = n
<1>1. s \in [1 .. n -> T] OBVIOUS
<1> QED BY <1>1

LEMMA SeqItself ==
  ASSUME NEW T, NEW s \in Seq(T)
  PROVE  Len(s) \in Nat /\ DOMAIN s = 1 .. Len(s) /\ s = [i \in 1 .. Len(s) |-> s[i]] OBVIOUS

LEMMA PlacesAre ==
  ASSUME NEW f
  PROVE  /\ \A p : p \in Places(f) <=> \E g \in DOMAIN f : \E h \in DOMAIN f[g] : p = <<g, h>>
         /\ \A g \in DOMAIN f : \A h \in DOMAIN f[g] :
              <<g, h>> \in Places(f) /\ At(f, <<g, h>>) = f[g][h]
<1>1. ASSUME NEW p
      PROVE  p \in Places(f) <=> \E g \in DOMAIN f : \E h \in DOMAIN f[g] : p = <<g, h>> BY DEF Places
<1>2. \A g \in DOMAIN f : \A h \in DOMAIN f[g] : At(f, <<g, h>>) = f[g][h] BY DEF At
<1> QED BY <1>1, <1>2

LEMMA OwnPlacesAre ==
  ASSUME NEW f
  PROVE  /\ \A p : p \in OwnPlaces(f) <=>
              \E g \in DOMAIN f : \E h \in DOMAIN f[g] : p = <<g, h>> /\ IsOurs(f[g][h])
         /\ \A p \in OwnPlaces(f) : IsOurs(At(f, p)) BY PlacesAre DEF OwnPlaces, At

Marked == Handlers \cup {Dropped}

LEMMA PlacedIs ==
  ASSUME SetupAssumption, NEW f \in Groups, NEW v \in Versions \cup {Absent}
  PROVE  /\ Placed(f, v) \in Seq(Seq(Marked)) /\ DOMAIN Placed(f, v) = DOMAIN f
         /\ \A g \in DOMAIN f :
              /\ DOMAIN Placed(f, v)[g] = DOMAIN f[g]
              /\ \A h \in DOMAIN f[g] :
                   /\ ~IsOurs(f[g][h]) => Placed(f, v)[g][h] = f[g][h]
                   /\ IsOurs(f[g][h]) =>
                        \/ Placed(f, v)[g][h] = Dropped
                        \/ (v # Absent /\ Placed(f, v)[g][h] = Ours(v))
                   /\ IsOurs(f[g][h]) /\ v # Absent /\ (\A p, q \in OwnPlaces(f) : p = q) =>
                        Placed(f, v)[g][h] = Ours(v)
<1>. DEFINE P == Placed(f, v)
<1>1. DOMAIN P = DOMAIN f BY DEF Placed
<1>2. \A g \in DOMAIN f : P[g] = [h \in DOMAIN f[g] |-> P[g][h]] BY DEF Placed
<1>3. ASSUME NEW g \in DOMAIN f, NEW h \in DOMAIN f[g]
      PROVE  P[g][h] = IF <<g, h>> \notin OwnPlaces(f) THEN f[g][h]
                       ELSE IF v # Absent /\ \A q \in OwnPlaces(f) : Before(<<g, h>>, q)
                            THEN Ours(v) ELSE Dropped BY DEF Placed
<1>4. \A g \in DOMAIN f : \A h \in DOMAIN f[g] : <<g, h>> \in OwnPlaces(f) <=> IsOurs(f[g][h]) BY OwnPlacesAre
<1>5. P = [g \in DOMAIN f |-> P[g]] BY DEF Placed
<1>. HIDE DEF P
<1>6. ASSUME NEW g \in DOMAIN f, NEW h \in DOMAIN f[g]
      PROVE  /\ ~IsOurs(f[g][h]) => P[g][h] = f[g][h]
             /\ IsOurs(f[g][h]) => P[g][h] = Dropped \/ (v # Absent /\ P[g][h] = Ours(v))
  <2>1. CASE ~IsOurs(f[g][h]) BY <1>3, <1>4, <2>1
  <2>2. CASE IsOurs(f[g][h]) BY <1>3, <1>4, <2>2
  <2> QED BY <2>1, <2>2
<1>7. ASSUME NEW g \in DOMAIN f, NEW h \in DOMAIN f[g], IsOurs(f[g][h]), v # Absent,
             \A p, q \in OwnPlaces(f) : p = q
      PROVE  P[g][h] = Ours(v)
  <2>1. <<g, h>> \in OwnPlaces(f) BY <1>4, <1>7
  <2>2. Before(<<g, h>>, <<g, h>>)
    <3>1. h \in Nat BY GroupsAre
    <3> QED BY <3>1 DEF Before
  <2>3. \A q \in OwnPlaces(f) : Before(<<g, h>>, q) BY <1>7, <2>1, <2>2
  <2> QED BY <1>3, <1>7, <2>1, <2>3
<1>8. ASSUME NEW g \in DOMAIN f, NEW h \in DOMAIN f[g] PROVE P[g][h] \in Marked
  <2>1. f[g][h] \in Marked BY GroupsAre DEF Marked
  <2>2. Dropped \in Marked /\ (v # Absent => Ours(v) \in Marked) BY HandlersAre DEF Marked
  <2> QED BY <1>6, <2>1, <2>2
<1>9. ASSUME NEW g \in DOMAIN f PROVE P[g] \in Seq(Marked) /\ DOMAIN P[g] = DOMAIN f[g]
  <2>1. PICK n \in Nat : n = Len(f[g]) /\ DOMAIN f[g] = 1 .. n BY GroupsAre
  <2>2. PICK s : s = P[g] OBVIOUS
  <2>3. s = [h \in 1 .. n |-> s[h]] BY <1>2, <2>1, <2>2
  <2>4. \A h \in 1 .. n : s[h] \in Marked BY <1>8, <2>1, <2>2
  <2> QED BY <2>1, <2>2, <2>3, <2>4, SeqTyped
<1>10. P \in Seq(Seq(Marked))
  <2>1. PICK n \in Nat : n = Len(f) /\ DOMAIN f = 1 .. n BY GroupsAre
  <2> QED BY <1>5, <1>9, <2>1, SeqTyped
<1> QED BY <1>1, <1>6, <1>7, <1>9, <1>10 DEF P

\* What is kept is what was there and is not dropped; what has nothing dropped stays.
LEMMA KeptIs ==
  ASSUME SetupAssumption, NEW s \in Seq(Seq(Marked))
  PROVE  /\ Kept(s) \in Groups
         /\ \A k \in DOMAIN Kept(s) : \A h \in DOMAIN Kept(s)[k] :
              \E g \in DOMAIN s : \E i \in DOMAIN s[g] : Kept(s)[k][h] = s[g][i]
         /\ s \in Groups => Kept(s) = s
<1>. DEFINE In == [g \in DOMAIN s |-> Without(s[g], {Dropped})]
<1>1. Len(s) \in Nat /\ DOMAIN s = 1 .. Len(s) /\ \A g \in DOMAIN s : s[g] \in Seq(Marked) OBVIOUS
<1>2. ASSUME NEW g \in DOMAIN s
      PROVE  /\ In[g] \in Seq(Handlers)
             /\ \A h \in DOMAIN In[g] : \E i \in DOMAIN s[g] : In[g][h] = s[g][i]
             /\ s[g] \in Seq(Handlers) => In[g] = s[g]
  <2>1. PICK e : e = s[g] OBVIOUS
  <2>. DEFINE out == {Dropped}
  <2>2. PICK w : w = Without(e, out) OBVIOUS
  <2>3. e \in Seq(Marked) BY <1>1, <2>1
  <2>. HIDE DEF out
  <2>4. /\ w \in Seq(Marked)
        /\ \A k \in DOMAIN w : \E n \in DOMAIN e : w[k] = e[n] /\ e[n] \notin out
        /\ (\A n \in DOMAIN e : e[n] \notin out) => w = e BY <2>2, <2>3, WithoutIs
  <2>5. w \in Seq(Handlers)
    <3>1. PICK n \in Nat : n = Len(w) /\ DOMAIN w = 1 .. n /\ w = [i \in 1 .. n |-> w[i]] BY <2>4, SeqItself
    <3>2. ASSUME NEW i \in 1 .. n PROVE w[i] \in Marked /\ w[i] # Dropped
      <4>1. w[i] \in Marked BY <2>4, <3>1
      <4>2. w[i] \notin out BY <2>4, <3>1
      <4> QED BY <4>1, <4>2 DEF out
    <3>3. \A i \in 1 .. n : w[i] \in Handlers BY <3>2 DEF Marked
    <3> QED BY <3>1, <3>3, SeqTyped
  <2>6. ASSUME e \in Seq(Handlers) PROVE w = e
    <3>1. \A n \in DOMAIN e : e[n] \in Handlers BY <2>6
    <3> QED BY <2>4, <3>1, HandlersAre DEF out
  <2>7. In[g] = w BY <2>1, <2>2 DEF out
  <2>. HIDE DEF In
  <2> QED BY <2>1, <2>4, <2>5, <2>6, <2>7
<1>3. In = [g \in 1 .. Len(s) |-> In[g]] BY <1>1
<1>4. Kept(s) = Without(In, {<< >>}) BY DEF Kept
<1>. HIDE DEF In
<1>5. In \in Seq(Seq(Handlers)) /\ DOMAIN In = DOMAIN s
  <2>1. \A g \in 1 .. Len(s) : In[g] \in Seq(Handlers) BY <1>1, <1>2
  <2> QED BY <1>1, <1>3, <2>1, SeqTyped
<1>6. PICK w : w = Kept(s) OBVIOUS
<1>7. /\ w \in Seq(Seq(Handlers))
      /\ \A k \in DOMAIN w : \E n \in DOMAIN In : w[k] = In[n] /\ In[n] \notin {<< >>}
      /\ (\A n \in DOMAIN In : In[n] \notin {<< >>}) => w = In BY <1>4, <1>5, <1>6, WithoutIs
<1>8. w \in Groups
  <2>1. PICK n \in Nat : n = Len(w) /\ DOMAIN w = 1 .. n /\ w = [i \in 1 .. n |-> w[i]] BY <1>7, SeqItself
  <2>2. \A i \in 1 .. n : w[i] \in Seq(Handlers) \ {<< >>} BY <1>7, <2>1
  <2> QED BY <2>1, <2>2, SeqTyped DEF Groups
<1>9. \A k \in DOMAIN w : \A h \in DOMAIN w[k] :
        \E g \in DOMAIN s : \E i \in DOMAIN s[g] : w[k][h] = s[g][i] BY <1>2, <1>5, <1>7
<1>10. ASSUME s \in Groups PROVE w = s
  <2>1. \A g \in DOMAIN s : s[g] \in Seq(Handlers) /\ s[g] # << >> BY <1>10, GroupsAre
  <2>2. \A g \in DOMAIN s : In[g] = s[g] BY <1>2, <2>1
  <2>3. In = s
    <3>1. PICK n \in Nat : n = Len(s) /\ DOMAIN s = 1 .. n /\ s = [g \in 1 .. n |-> s[g]] OBVIOUS
    <3> QED BY <1>3, <2>2, <3>1
  <2>4. \A n \in DOMAIN In : In[n] \notin {<< >>} BY <1>5, <2>1, <2>2
  <2> QED BY <1>7, <2>3, <2>4
<1> QED BY <1>6, <1>8, <1>9, <1>10

\* A merge leaves a list of groups, with handlers of ours of one version or of none.
LEMMA MergedIs ==
  ASSUME SetupAssumption, NEW f \in Groups, NEW v \in Versions \cup {Absent}
  PROVE  /\ Merged(f, v) \in Groups
         /\ v # Absent => OwnIn(Merged(f, v), {v})
         /\ v = Absent => OwnIn(Merged(f, v), {})
<1>. DEFINE P == Placed(f, v)
            K == Kept(P)
            Versions0 == IF v = Absent THEN {} ELSE {v}
<1>1. P \in Seq(Seq(Marked)) /\ DOMAIN P = DOMAIN f BY PlacedIs
<1>2. ASSUME NEW g \in DOMAIN P, NEW h \in DOMAIN P[g], IsOurs(P[g][h])
      PROVE  P[g][h].version \in Versions0
  <2>1. g \in DOMAIN f /\ h \in DOMAIN f[g] BY <1>2, PlacedIs
  <2>2. CASE ~IsOurs(f[g][h]) BY <1>2, <2>1, <2>2, PlacedIs
  <2>3. CASE IsOurs(f[g][h])
    <3>1. P[g][h] = Dropped \/ (v # Absent /\ P[g][h] = Ours(v)) BY <2>1, <2>3, PlacedIs
    <3>2. CASE P[g][h] = Dropped BY <1>2, <3>2, HandlersAre
    <3>3. CASE v # Absent /\ P[g][h] = Ours(v)
      <4>1. Ours(v).version = v BY DEF Ours
      <4> QED BY <3>3, <4>1
    <3> QED BY <3>1, <3>2, <3>3
  <2> QED BY <2>2, <2>3
<1>. HIDE DEF P
<1>3. /\ K \in Groups
      /\ \A k \in DOMAIN K : \A h \in DOMAIN K[k] :
           \E g \in DOMAIN P : \E i \in DOMAIN P[g] : K[k][h] = P[g][i] BY <1>1, KeptIs
<1>. HIDE DEF K
<1>4. OwnIn(K, Versions0) BY <1>2, <1>3 DEF OwnIn
<1>5. CASE Merged(f, v) = K BY <1>3, <1>4, <1>5
<1>6. CASE Merged(f, v) = Append(K, <<Ours(v)>>) /\ v # Absent
  <2>1. PICK o : o = Ours(v) /\ o \in Handlers /\ o.version = v BY <1>6, HandlersAre
  <2>2. <<o>> \in Seq(Handlers) \ {<< >>} /\ DOMAIN <<o>> = {1} /\ <<o>>[1] = o BY <2>1
  <2>3. PICK e : e = <<o>> OBVIOUS
  <2>4. PICK m : m = Append(K, e) OBVIOUS
  <2>5. Len(K) \in Nat /\ K \in Seq(Seq(Handlers) \ {<< >>}) /\ DOMAIN K = 1 .. Len(K) BY <1>3, GroupsAre DEF Groups
  <2>6. /\ m \in Seq(Seq(Handlers) \ {<< >>})
        /\ \A g \in DOMAIN m : (g \in DOMAIN K /\ m[g] = K[g]) \/ m[g] = e
    <3>1. e \in Seq(Handlers) \ {<< >>} BY <2>2, <2>3
    <3> QED BY <2>4, <2>5, <3>1
  <2>7. OwnIn(m, {v})
    <3>1. Versions0 = {v} BY <1>6
    <3>2. \A h \in DOMAIN e : e[h].version = v BY <2>1, <2>2, <2>3
    <3> QED BY <1>4, <2>6, <3>1, <3>2 DEF OwnIn
  <2> QED BY <1>6, <2>1, <2>3, <2>4, <2>6, <2>7 DEF Groups
<1> QED BY <1>5, <1>6 DEF Merged, K, P

\* With one handler of ours to replace, or none, the others stay where they are.
LEMMA MergedLeaves ==
  ASSUME SetupAssumption, NEW f \in Groups, NEW v \in Versions,
         \A p, q \in OwnPlaces(f) : p = q
  PROVE  Foreign(Merged(f, v)) = Foreign(f)
<1>. DEFINE P == Placed(f, v)
<1>0. v \in Versions \cup {Absent} /\ v # Absent BY HandlersAre
<1>1. P \in Seq(Seq(Marked)) /\ DOMAIN P = DOMAIN f BY <1>0, PlacedIs
<1>2. \A g \in DOMAIN f : DOMAIN P[g] = DOMAIN f[g] BY <1>0, PlacedIs
<1>3. ASSUME NEW g \in DOMAIN f, NEW h \in DOMAIN f[g]
      PROVE  P[g][h] = IF IsOurs(f[g][h]) THEN Ours(v) ELSE f[g][h] BY <1>0, PlacedIs
<1>. HIDE DEF P
<1>4. P \in Groups
  <2>1. ASSUME NEW g \in DOMAIN P PROVE P[g] \in Seq(Handlers) \ {<< >>}
    <3>1. PICK s : s = P[g] OBVIOUS
    <3>2. s \in Seq(Marked) BY <1>1, <2>1, <3>1
    <3>3. PICK n \in Nat : n = Len(s) /\ DOMAIN s = 1 .. n /\ s = [i \in 1 .. n |-> s[i]] BY <3>2, SeqItself
    <3>4. g \in DOMAIN f /\ DOMAIN s = DOMAIN f[g] BY <1>1, <1>2, <3>1
    <3>5. ASSUME NEW i \in 1 .. n PROVE s[i] \in Handlers
      <4>1. i \in DOMAIN f[g] BY <3>3, <3>4
      <4>2. f[g][i] \in Handlers BY <3>4, <4>1, GroupsAre
      <4>3. Ours(v) \in Handlers BY <1>0, HandlersAre
      <4>4. s[i] = IF IsOurs(f[g][i]) THEN Ours(v) ELSE f[g][i] BY <1>3, <3>1, <3>4, <4>1
      <4> QED BY <4>2, <4>3, <4>4
    <3>6. s \in Seq(Handlers) BY <3>3, <3>5, SeqTyped
    <3>7. s # << >>
      <4>1. Len(f[g]) \in Nat /\ DOMAIN f[g] = 1 .. Len(f[g]) /\ f[g] # << >> /\ f[g] \in Seq(Handlers)
        BY <3>4, GroupsAre
      <4>2. Len(f[g]) # 0 BY <4>1
      <4>3. 1 \in DOMAIN s BY <3>4, <4>1, <4>2
      <4> QED BY <3>3, <4>3
    <3> QED BY <3>1, <3>6, <3>7
  <2>2. PICK n \in Nat : n = Len(P) /\ DOMAIN P = 1 .. n /\ P = [i \in 1 .. n |-> P[i]] BY <1>1, SeqItself
  <2> QED BY <2>1, <2>2, SeqTyped DEF Groups
<1>5. Kept(P) = P BY <1>1, <1>4, KeptIs
<1>6. Foreign(P) = Foreign(f)
  <2>1. Places(P) = Places(f) BY <1>1, <1>2 DEF Places
  <2>2. ASSUME NEW p \in Places(f)
        PROVE  /\ p \in OwnPlaces(P) <=> p \in OwnPlaces(f)
               /\ p \notin OwnPlaces(f) => At(P, p) = At(f, p)
    <3>0. PICK g \in DOMAIN f : \E h \in DOMAIN f[g] : p = <<g, h>> BY PlacesAre
    <3>1. PICK h \in DOMAIN f[g] : p = <<g, h>> BY <3>0
    <3>2. At(P, p) = P[g][h] /\ At(f, p) = f[g][h] BY <3>1 DEF At
    <3>3. p \in OwnPlaces(f) <=> IsOurs(f[g][h]) BY <3>2 DEF OwnPlaces
    <3>4. p \in OwnPlaces(P) <=> IsOurs(P[g][h]) BY <2>1, <3>2 DEF OwnPlaces
    <3>5. IsOurs(Ours(v)) BY HandlersAre
    <3> QED BY <1>3, <3>2, <3>3, <3>4, <3>5
  <2> QED BY <2>1, <2>2 DEF Foreign
<1>7. CASE Merged(f, v) = P BY <1>6, <1>7
<1>8. CASE Merged(f, v) = Append(P, <<Ours(v)>>)
  <2>1. PICK o : o = Ours(v) /\ IsOurs(o) BY HandlersAre
  <2>2. PICK e : e = <<o>> OBVIOUS
  <2>3. PICK m : m = Append(P, e) OBVIOUS
  <2>4. Len(P) \in Nat /\ P \in Seq(Seq(Handlers)) /\ DOMAIN P = 1 .. Len(P) BY <1>4, GroupsAre DEF Groups
  <2>5. /\ DOMAIN m = 1 .. Len(P) + 1 /\ m[Len(P) + 1] = e
        /\ \A g \in DOMAIN P : g \in DOMAIN m /\ m[g] = P[g]
    <3>1. e \in Seq({o}) BY <2>2
    <3>2. P \in Seq(Seq(Handlers) \cup Seq({o})) /\ e \in Seq(Handlers) \cup Seq({o})
      <4>1. P = [i \in 1 .. Len(P) |-> P[i]] BY <2>4
      <4>2. \A i \in 1 .. Len(P) : P[i] \in Seq(Handlers) \cup Seq({o}) BY <2>4
      <4> QED BY <2>4, <3>1, <4>1, <4>2, SeqTyped
    <3> QED BY <2>3, <2>4, <3>2
  <2>6. DOMAIN e = {1} /\ e[1] = o BY <2>2
  <2>7. ASSUME NEW p
        PROVE  p \in Places(m) \ OwnPlaces(m) <=> p \in Places(P) \ OwnPlaces(P)
    <3>1. p \in Places(m) <=> p \in Places(P) \/ p = <<Len(P) + 1, 1>>
      <4>1. p \in Places(P) => p \in Places(m) BY <2>5, PlacesAre
      <4>2. <<Len(P) + 1, 1>> \in Places(m)
        <5>1. Len(P) + 1 \in DOMAIN m /\ 1 \in DOMAIN m[Len(P) + 1] BY <2>4, <2>5, <2>6
        <5> QED BY <5>1, PlacesAre
      <4>3. ASSUME NEW g \in DOMAIN m, NEW h \in DOMAIN m[g], p = <<g, h>>
            PROVE  p \in Places(P) \/ p = <<Len(P) + 1, 1>>
        <5>1. g \in DOMAIN P \/ g = Len(P) + 1 BY <2>4, <2>5
        <5>2. CASE g \in DOMAIN P BY <2>5, <4>3, <5>2, PlacesAre
        <5>3. CASE g = Len(P) + 1
          <6>1. h = 1 BY <2>5, <2>6, <5>3
          <6> QED BY <4>3, <5>3, <6>1
        <5> QED BY <5>1, <5>2, <5>3
      <4> QED BY <4>1, <4>2, <4>3, PlacesAre
    <3>2. p \in Places(P) => At(m, p) = At(P, p)
      <4>. SUFFICES ASSUME NEW g \in DOMAIN P, NEW h \in DOMAIN P[g], p = <<g, h>>
                    PROVE  At(m, p) = At(P, p) BY PlacesAre
      <4> QED BY <2>5 DEF At
    <3>3. IsOurs(At(m, <<Len(P) + 1, 1>>)) BY <2>1, <2>5, <2>6 DEF At
    <3> QED BY <3>1, <3>2, <3>3 DEF OwnPlaces
  <2>8. \A p \in Places(P) \ OwnPlaces(P) : At(m, p) = At(P, p)
    <3>. SUFFICES ASSUME NEW g \in DOMAIN P, NEW h \in DOMAIN P[g], NEW p, p = <<g, h>>
                  PROVE  At(m, p) = At(P, p) BY PlacesAre
    <3> QED BY <2>5 DEF At
  <2>9. Foreign(m) = Foreign(P) BY <2>7, <2>8 DEF Foreign
  <2> QED BY <1>6, <1>8, <2>1, <2>2, <2>3, <2>9
<1> QED BY <1>0, <1>5, <1>7, <1>8 DEF Merged, P

LEMMA OwnMore ==
  ASSUME NEW f, NEW V, NEW W, OwnIn(f, V), V \subseteq W
  PROVE  OwnIn(f, W) BY DEF OwnIn

LEMMA OwnOfIs ==
  ASSUME NEW f
  PROVE  /\ OwnIn(f, OwnOf(f))
         /\ \A V : OwnIn(f, V) => OwnOf(f) \subseteq V
<1>1. OwnIn(f, OwnOf(f))
  <2>. SUFFICES ASSUME NEW g \in DOMAIN f, NEW h \in DOMAIN f[g], IsOurs(f[g][h])
                PROVE  f[g][h].version \in OwnOf(f) BY DEF OwnIn
  <2>1. <<g, h>> \in OwnPlaces(f) BY OwnPlacesAre
  <2>2. At(f, <<g, h>>) = f[g][h] BY DEF At
  <2> QED BY <2>1, <2>2 DEF OwnOf
<1>2. ASSUME NEW V, OwnIn(f, V), NEW p \in OwnPlaces(f) PROVE At(f, p).version \in V
  <2>1. PICK g \in DOMAIN f : \E h \in DOMAIN f[g] : p = <<g, h>> /\ IsOurs(f[g][h]) BY <1>2, OwnPlacesAre
  <2>2. PICK h \in DOMAIN f[g] : p = <<g, h>> /\ IsOurs(f[g][h]) BY <2>1
  <2> QED BY <1>2, <2>2 DEF At, OwnIn
<1> QED BY <1>1, <1>2 DEF OwnOf

LEMMA TrustIs == ASSUME NEW f PROVE \A p \in DOMAIN Trust(f) : IsOurs(Trust(f)[p])
BY OwnPlacesAre DEF Trust

LEMMA JoinedIs ==
  ASSUME NEW T, NEW s \in Seq(T), NEW t \in Seq(T)
  PROVE  /\ s \o t \in Seq(T) /\ Len(s \o t) = Len(s) + Len(t)
         /\ \A i \in 1 .. Len(s) + Len(t) : (s \o t)[i] = IF i <= Len(s) THEN s[i] ELSE t[i - Len(s)] OBVIOUS

\* Another handler, in a group of its own or at the end of a group.
LEMMA AddsGroup ==
  ASSUME SetupAssumption, NEW f \in Groups, NEW o \in Handlers, ~IsOurs(o)
  PROVE  /\ Append(f, <<o>>) \in Groups /\ <<<<o>>>> \o f \in Groups
         /\ \A V : OwnIn(f, V) => OwnIn(Append(f, <<o>>), V) /\ OwnIn(<<<<o>>>> \o f, V)
<1>1. PICK e : e = <<o>> OBVIOUS
<1>2. e \in Seq(Handlers) \ {<< >>} /\ \A h \in DOMAIN e : ~IsOurs(e[h]) BY <1>1
<1>3. PICK a : a = Append(f, e) OBVIOUS
<1>4. PICK b : b = <<e>> \o f OBVIOUS
<1>5. PICK U : U = Seq(Handlers) \ {<< >>} OBVIOUS
<1>6. f \in Seq(U) /\ e \in U BY <1>2, <1>5 DEF Groups
<1>7. a \in Seq(U) /\ \A g \in DOMAIN a : (g \in DOMAIN f /\ a[g] = f[g]) \/ a[g] = e BY <1>3, <1>6
<1>8. b \in Seq(U) /\ \A g \in DOMAIN b : (\E k \in DOMAIN f : b[g] = f[k]) \/ b[g] = e
  <2>1. PICK c : c = <<e>> OBVIOUS
  <2>2. c \in Seq(U) /\ Len(c) = 1 /\ c[1] = e BY <1>6, <2>1
  <2>3. b = c \o f BY <1>4, <2>1
  <2>4. /\ b \in Seq(U) /\ DOMAIN b = 1 .. 1 + Len(f) /\ Len(f) \in Nat /\ DOMAIN f = 1 .. Len(f)
        /\ \A g \in 1 .. 1 + Len(f) : b[g] = IF g <= 1 THEN c[g] ELSE f[g - 1]
    <3>1. Len(f) \in Nat /\ DOMAIN f = 1 .. Len(f) BY <1>6
    <3>2. /\ b \in Seq(U) /\ Len(b) = Len(c) + Len(f)
          /\ \A g \in 1 .. Len(c) + Len(f) : b[g] = IF g <= Len(c) THEN c[g] ELSE f[g - Len(c)]
      BY <1>6, <2>2, <2>3, JoinedIs
    <3>3. DOMAIN b = 1 .. Len(b) BY <3>2
    <3> QED BY <2>2, <2>3, <3>1, <3>2, <3>3
  <2>5. ASSUME NEW g \in DOMAIN b PROVE (\E k \in DOMAIN f : b[g] = f[k]) \/ b[g] = e
    <3>1. CASE g <= 1
      <4>1. g = 1 BY <2>4, <3>1
      <4> QED BY <2>2, <2>4, <4>1
    <3>2. CASE ~(g <= 1)
      <4>1. g - 1 \in DOMAIN f /\ b[g] = f[g - 1] BY <2>4, <3>2
      <4> QED BY <4>1
    <3> QED BY <3>1, <3>2
  <2> QED BY <2>4, <2>5
<1>9. ASSUME NEW V, OwnIn(f, V) PROVE OwnIn(a, V) /\ OwnIn(b, V) BY <1>2, <1>7, <1>8, <1>9 DEF OwnIn
<1> QED BY <1>1, <1>3, <1>4, <1>5, <1>7, <1>8, <1>9 DEF Groups

LEMMA AddsHandler ==
  ASSUME SetupAssumption, NEW f \in Groups, NEW o \in Handlers, ~IsOurs(o), NEW g \in DOMAIN f
  PROVE  /\ [f EXCEPT ![g] = Append(@, o)] \in Groups
         /\ \A V : OwnIn(f, V) => OwnIn([f EXCEPT ![g] = Append(@, o)], V)
<1>1. PICK s : s = f[g] OBVIOUS
<1>2. s \in Seq(Handlers) BY <1>1, GroupsAre
<1>3. PICK e : e = Append(s, o) OBVIOUS
<1>4. /\ e \in Seq(Handlers) \ {<< >>}
      /\ \A h \in DOMAIN e : (h \in DOMAIN s /\ e[h] = s[h]) \/ e[h] = o BY <1>2, <1>3
<1>5. PICK a : a = [f EXCEPT ![g] = e] OBVIOUS
<1>6. DOMAIN a = DOMAIN f /\ a[g] = e /\ \A k \in DOMAIN f : k # g => a[k] = f[k] BY <1>5
<1>7. a \in Groups
  <2>1. PICK U : U = Seq(Handlers) \ {<< >>} OBVIOUS
  <2>2. f \in Seq(U) /\ e \in U BY <1>4, <2>1 DEF Groups
  <2>3. a \in Seq(U) BY <1>5, <2>2
  <2> QED BY <2>1, <2>3 DEF Groups
<1>8. ASSUME NEW V, OwnIn(f, V) PROVE OwnIn(a, V)
  <2>1. ASSUME NEW h \in DOMAIN e, IsOurs(e[h]) PROVE e[h].version \in V BY <1>1, <1>4, <1>8, <2>1 DEF OwnIn
  <2> QED BY <1>6, <1>8, <2>1 DEF OwnIn
<1> QED BY <1>1, <1>3, <1>5, <1>7, <1>8

LEMMA LeavesOut ==
  ASSUME NEW f \in Groups, NEW out
  PROVE  /\ Without(f, out) \in Groups
         /\ \A V : OwnIn(f, V) => OwnIn(Without(f, out), V)
<1>1. PICK U : U = Seq(Handlers) \ {<< >>} OBVIOUS
<1>2. PICK w : w = Without(f, out) OBVIOUS
<1>3. f \in Seq(U) BY <1>1 DEF Groups
<1>4. w \in Seq(U) /\ \A k \in DOMAIN w : \E n \in DOMAIN f : w[k] = f[n] /\ f[n] \notin out BY <1>2, <1>3, WithoutIs
<1>5. ASSUME NEW V, OwnIn(f, V) PROVE OwnIn(w, V) BY <1>4, <1>5 DEF OwnIn
<1> QED BY <1>1, <1>2, <1>4, <1>5 DEF Groups

LEMMA IdleIs ==
  Idle \in SetupRecords /\ Idle.at = "idle" /\ Idle.version = Absent /\ Idle.seen
<1>1. << >> \in Groups BY DEF Groups
<1> QED BY <1>1 DEF Idle, SetupRecords, Steps, Absent

LEMMA SetupStart == SetupInit => SetupInv
<1>. SUFFICES ASSUME SetupInit PROVE SetupInv OBVIOUS
<1>. USE SetupAssumption
<1>1. file \in Groups
  <2>1. PICK u : u = User /\ u \in Handlers BY HandlersAre
  <2>2. PICK o : o = Ours(1) /\ o \in Handlers BY HandlersAre DEF SetupAssumption
  <2>3. << >> \in Groups /\ <<<<u>>>> \in Groups /\ <<<<o, u>>, <<o>>>> \in Groups
    <3>1. PICK U : U = Seq(Handlers) \ {<< >>} OBVIOUS
    <3>2. <<u>> \in U /\ <<o, u>> \in U /\ <<o>> \in U BY <2>1, <2>2, <3>1
    <3>3. \A x, y \in U : << >> \in Seq(U) /\ <<x>> \in Seq(U) /\ <<x, y>> \in Seq(U) OBVIOUS
    <3> QED BY <3>1, <3>2, <3>3 DEF Groups
  <2> QED BY <2>1, <2>2, <2>3 DEF SetupInit
<1>2. OwnIn(file, ThereFor)
  <2>. SUFFICES ASSUME NEW g \in DOMAIN file, NEW h \in DOMAIN file[g], IsOurs(file[g][h])
                PROVE  file[g][h].version \in ThereFor BY DEF OwnIn
  <2>1. OwnPlaces(file) # {} BY OwnPlacesAre
  <2>2. 1 \in Versions /\ copies[1] = "current" BY <2>1 DEF SetupInit, SetupAssumption
  <2>3. file[g][h].version = 1
    <3>1. PICK u : u = User /\ ~IsOurs(u) BY HandlersAre
    <3>2. PICK o : o = Ours(1) /\ o.version = 1
      <4>1. Ours(1).version = 1 BY DEF Ours
      <4> QED BY <4>1
    <3>3. file \in {<< >>, <<<<u>>>>, <<<<o, u>>, <<o>>>>} BY <3>1, <3>2 DEF SetupInit
    <3>4. file[g][h] \in {u, o}
      <4>1. CASE file = << >> BY <4>1
      <4>2. CASE file = <<<<u>>>>
        <5>1. g = 1 /\ file[g] = <<u>> BY <4>2
        <5>2. DOMAIN <<u>> = {1} /\ <<u>>[1] = u OBVIOUS
        <5> QED BY <5>1, <5>2
      <4>3. CASE file = <<<<o, u>>, <<o>>>>
        <5>1. DOMAIN file = {1, 2} /\ file[1] = <<o, u>> /\ file[2] = <<o>> BY <4>3
        <5>2. DOMAIN <<o>> = {1} /\ <<o>>[1] = o OBVIOUS
        <5>3. DOMAIN <<o, u>> = {1, 2} /\ <<o, u>>[1] = o /\ <<o, u>>[2] = u OBVIOUS
        <5> QED BY <5>1, <5>2, <5>3
      <4> QED BY <3>3, <4>1, <4>2, <4>3
    <3> QED BY <3>1, <3>2, <3>4
  <2> QED BY <2>2, <2>3 DEF ThereFor
<1>3. setup = Idle /\ wanted \in Versions BY DEF SetupInit, SetupAssumption
<1>4. SetupTypeOK /\ SetupTypesOK
  <2>1. config = [server |-> Absent, extra |-> FALSE, trust |-> Trust(<< >>)] BY DEF SetupInit
  <2>2. \A p \in DOMAIN config.trust : IsOurs(config.trust[p]) BY <2>1, TrustIs
  <2> QED BY <1>1, <1>3, <2>1, <2>2, IdleIs DEF SetupInit, SetupTypeOK, SetupTypesOK, SetupRecords, Steps
<1>5. config.server = Absent BY DEF SetupInit
<1> QED BY <1>2, <1>3, <1>4, <1>5, IdleIs DEF SetupInv, HasRead, BeforeHooks, ItsVersion, AfterHooks

\* A step that leaves hooks.json, the setup and the config's server alone keeps what is there there.
LEMMA OthersMove ==
  ASSUME SetupInv, SetupTypeOK', SetupTypesOK',
         \A V : OwnIn(file, V) => OwnIn(file', V),
         ThereFor \subseteq ThereFor',
         setup.version # Absent /\ setup.at # "idle" => copies'[setup.version] = copies[setup.version],
         config'.server = config.server, config'.trust = config.trust,
         setup'.at = setup.at, setup'.version = setup.version,
         setup'.old = setup.old, setup'.new = setup.new,
         setup'.seen => (setup.seen /\ file' = file) \/ setup.at = "idle",
         skill' = skill
  PROVE  SetupInv'
<1>1. OwnIn(file', ThereFor') BY OwnMore DEF SetupInv
<1>2. HasRead' BY DEF SetupInv, HasRead
<1>3. BeforeHooks'
  <2>1. OwnIn(file, OwnOf(setup.old)) => OwnIn(file', OwnOf(setup'.old)) OBVIOUS
  <2> QED BY <2>1 DEF SetupInv, BeforeHooks
<1>4. ItsVersion'
  <2>1. AfterHooks' <=> AfterHooks BY DEF AfterHooks
  <2>2. Trust(setup'.new) = Trust(setup.new) OBVIOUS
  <2>3. OwnIn(file, {}) => OwnIn(file', {}) OBVIOUS
  <2>4. OwnIn(file, {setup.version}) => OwnIn(file', {setup'.version}) OBVIOUS
  <2>5. CASE setup.version = Absent BY <2>1, <2>3, <2>5 DEF SetupInv, ItsVersion
  <2>6. CASE setup.version # Absent BY <2>1, <2>2, <2>4, <2>6 DEF SetupInv, ItsVersion
  <2> QED BY <2>5, <2>6
<1> QED BY <1>1, <1>2, <1>3, <1>4 DEF SetupInv

LEMMA LocksKeeps ==
  ASSUME SetupInv, NEW v \in Versions \cup {Absent}, Locks(v)
  PROVE  SetupInv'
<1>1. PICK s : s = [Idle EXCEPT !.at = "locked", !.version = v] OBVIOUS
<1>2. s \in SetupRecords /\ s.at = "locked" /\ s.version = v /\ s.seen BY <1>1, IdleIs DEF SetupRecords, Steps
<1>3. setup' = s BY <1>1 DEF Locks
<1>4. /\ copies' \in [Versions -> {"none", "current", "marked", "old"}]
      /\ v # Absent => copies'[v] = "current"
      /\ ThereFor \subseteq ThereFor'
  <2>1. CASE v = Absent
    <3>1. copies' = copies BY <2>1 DEF Locks, Copied
    <3> QED BY <2>1, <3>1 DEF SetupInv, SetupTypeOK, ThereFor
  <2>2. CASE v # Absent
    <3>1. copies' = [copies EXCEPT ![v] = "current"] /\ v \in Versions BY <2>2 DEF Locks, Copied
    <3> QED BY <3>1 DEF SetupInv, SetupTypeOK, ThereFor
  <2> QED BY <2>1, <2>2
<1>5. SetupTypeOK' /\ SetupTypesOK' BY <1>2, <1>3, <1>4 DEF SetupInv, SetupTypeOK, SetupTypesOK, Locks, Steps, Nobody
<1>6. file' = file /\ config' = config BY DEF Locks
<1>7. OwnIn(file', ThereFor') BY <1>4, <1>6, OwnMore DEF SetupInv
<1>8. ItsVersion' /\ BeforeHooks' /\ HasRead' BY <1>2, <1>3, <1>4 DEF ItsVersion, BeforeHooks, HasRead, AfterHooks
<1> QED BY <1>2, <1>3, <1>4, <1>5, <1>6, <1>7, <1>8 DEF SetupInv

LEMMA ReadsKeeps == ASSUME SetupAssumption, SetupInv, Reads PROVE SetupInv'
<1>1. PICK v \in Versions \cup {Absent} : v = setup.version BY DEF SetupInv, SetupTypesOK, SetupRecords
<1>2. PICK m \in Groups : m = Merged(file, v) BY MergedIs DEF SetupInv, SetupTypesOK
<1>3. PICK a \in Steps : a = IF v = Absent THEN "hooks" ELSE "config" BY DEF Steps
<1>4. /\ setup' = [setup EXCEPT !.at = a, !.old = file, !.new = m, !.extra = config.extra, !.seen = TRUE]
      /\ setup.at = "locked" BY <1>1, <1>2, <1>3 DEF Reads
<1>5. /\ setup' \in SetupRecords /\ setup'.at = a /\ setup'.version = v /\ setup'.old = file
      /\ setup'.new = m /\ setup'.seen
  <2>1. config.extra \in BOOLEAN /\ file \in Groups /\ setup \in SetupRecords
    BY DEF SetupInv, SetupTypeOK, SetupTypesOK
  <2> QED BY <1>1, <1>4, <2>1 DEF SetupRecords
<1>6. UNCHANGED <<file, config, skill, copies, lock, wanted>> BY DEF Reads
<1>7. SetupTypeOK' /\ SetupTypesOK'
  <2>1. a # "idle" BY <1>3
  <2> QED BY <1>4, <1>5, <1>6, <2>1 DEF SetupInv, SetupTypeOK, SetupTypesOK
<1>8. OwnIn(file', ThereFor') BY <1>6 DEF SetupInv, OwnIn, ThereFor
<1>9. HasRead' BY <1>2, <1>5 DEF HasRead
<1>10. BeforeHooks' BY <1>5, <1>6, OwnOfIs DEF BeforeHooks
<1>11. ItsVersion' BY <1>1, <1>3, <1>4, <1>5, <1>6 DEF SetupInv, ItsVersion, AfterHooks
<1> QED BY <1>3, <1>5, <1>6, <1>7, <1>8, <1>9, <1>10, <1>11 DEF SetupInv, ThereFor

\* A step of the setup from one place to the next, with what it has read.
LEMMA SetupGoes ==
  ASSUME SetupInv, NEW a \in Steps \ {"idle", "locked"}, setup' = [setup EXCEPT !.at = a]
  PROVE  /\ setup' \in SetupRecords /\ setup'.at = a /\ setup'.version = setup.version
         /\ setup'.old = setup.old /\ setup'.new = setup.new /\ setup'.seen = setup.seen
<1>1. setup \in SetupRecords BY DEF SetupInv, SetupTypesOK
<1> QED BY <1>1 DEF SetupRecords

LEMMA WritesConfigKeeps == ASSUME SetupAssumption, SetupInv, WritesConfig PROVE SetupInv'
<1>1. PICK v \in Versions \cup {Absent} : v = setup.version BY DEF SetupInv, SetupTypesOK, SetupRecords
<1>2. PICK a \in Steps \ {"idle", "locked"} : a = IF v = Absent THEN "skill" ELSE "hooks" BY DEF Steps
<1>3. setup' = [setup EXCEPT !.at = a] /\ setup.at = "config" BY <1>1, <1>2 DEF WritesConfig
<1>4. /\ setup' \in SetupRecords /\ setup'.at = a /\ setup'.version = v
      /\ setup'.old = setup.old /\ setup'.new = setup.new /\ setup'.seen = setup.seen BY <1>1, <1>3, SetupGoes
<1>5. UNCHANGED <<file, skill, copies, lock, wanted>> BY DEF WritesConfig
<1>6. /\ config'.server = v /\ config'.trust = Trust(setup.new)
      /\ config'.extra \in BOOLEAN
      /\ config' = [server |-> config'.server, extra |-> config'.extra, trust |-> config'.trust]
  <2>1. config'.server = v /\ config'.trust = Trust(setup.new) /\ config'.extra \in BOOLEAN
        /\ config' = [server |-> config'.server, extra |-> config'.extra, trust |-> config'.trust]
    <3>1. CASE IsCurrent BY <1>1, <3>1 DEF WritesConfig, IsCurrent, SetupInv, SetupTypeOK, SetupTypesOK
    <3>2. CASE ~IsCurrent
      <4>1. PICK d : d = Trust(setup.new) OBVIOUS
      <4>2. PICK e \in BOOLEAN : e = setup.extra BY DEF SetupInv, SetupTypesOK, SetupRecords
      <4>3. config' = [server |-> v, extra |-> e, trust |-> d] BY <1>1, <3>2, <4>1, <4>2 DEF WritesConfig, Desired
      <4> QED BY <4>1, <4>3
    <3> QED BY <3>1, <3>2
  <2> QED BY <2>1
<1>7. SetupTypeOK' /\ SetupTypesOK'
  <2>1. \A p \in DOMAIN config'.trust : IsOurs(config'.trust[p]) BY <1>6, TrustIs
  <2> QED BY <1>2, <1>3, <1>4, <1>5, <1>6, <2>1 DEF SetupInv, SetupTypeOK, SetupTypesOK
<1>8. OwnIn(file', ThereFor') BY <1>5 DEF SetupInv, OwnIn, ThereFor
<1>9. HasRead' BY <1>3, <1>4 DEF SetupInv, HasRead, Steps
<1>10. BeforeHooks' BY <1>1, <1>2, <1>3, <1>4, <1>5 DEF SetupInv, BeforeHooks
<1>11. ItsVersion'
  <2>1. CASE v = Absent
    <3>1. OwnIn(file, {}) BY <1>1, <1>3, <2>1 DEF SetupInv, ItsVersion
    <3>2. OwnIn(file', {}) BY <1>5, <3>1
    <3> QED BY <1>4, <1>6, <2>1, <3>2 DEF ItsVersion
  <2>2. CASE v # Absent
    <3>1. copies[v] = "current" BY <1>1, <1>3, <2>2 DEF SetupInv, ItsVersion
    <3>2. ~AfterHooks' BY <1>2, <1>4, <2>2 DEF AfterHooks
    <3>3. config'.trust = Trust(setup'.new) BY <1>4, <1>6
    <3> QED BY <1>4, <1>5, <1>6, <2>2, <3>1, <3>2, <3>3 DEF ItsVersion
  <2> QED BY <2>1, <2>2
<1>12. config'.server # Absent => config'.server \in ThereFor'
  <2>. SUFFICES ASSUME v # Absent PROVE v \in ThereFor' BY <1>6
  <2>1. copies[v] = "current" /\ v \in Versions BY <1>1, <1>3 DEF SetupInv, ItsVersion
  <2> QED BY <1>5, <2>1 DEF ThereFor
<1> QED BY <1>2, <1>4, <1>7, <1>8, <1>9, <1>10, <1>11, <1>12 DEF SetupInv

LEMMA WritesHooksKeeps == ASSUME SetupAssumption, SetupInv, WritesHooks PROVE SetupInv'
<1>1. PICK v \in Versions \cup {Absent} : v = setup.version BY DEF SetupInv, SetupTypesOK, SetupRecords
<1>2. PICK a \in Steps \ {"idle", "locked"} : a = IF v = Absent THEN "config" ELSE "skill" BY DEF Steps
<1>3. setup' = [setup EXCEPT !.at = a] /\ setup.at = "hooks" BY <1>1, <1>2 DEF WritesHooks
<1>4. /\ setup' \in SetupRecords /\ setup'.at = a /\ setup'.version = v
      /\ setup'.old = setup.old /\ setup'.new = setup.new /\ setup'.seen = setup.seen BY <1>1, <1>3, SetupGoes
<1>5. UNCHANGED <<config, skill, copies, lock, wanted>> BY DEF WritesHooks
<1>6. PICK own : own = IF v = Absent THEN {} ELSE {v} OBVIOUS
<1>7. setup.old \in Groups /\ setup.new \in Groups /\ setup.new = Merged(setup.old, v)
  BY <1>1, <1>3 DEF SetupInv, SetupTypesOK, SetupRecords, HasRead, Steps
<1>8. OwnIn(setup.new, own) BY <1>6, <1>7, MergedIs
<1>9. file' \in Groups /\ OwnIn(file', own)
  <2>1. CASE setup.new = setup.old
    <3>1. OwnOf(setup.old) \subseteq own BY <1>8, <2>1, OwnOfIs
    <3>2. OwnIn(file, OwnOf(setup.old)) BY <1>3 DEF SetupInv, BeforeHooks
    <3> QED BY <2>1, <3>1, <3>2, OwnMore DEF WritesHooks, SetupInv, SetupTypesOK
  <2>2. CASE setup.new # setup.old BY <1>7, <1>8, <2>2 DEF WritesHooks
  <2> QED BY <2>1, <2>2
<1>10. SetupTypeOK' /\ SetupTypesOK' BY <1>2, <1>3, <1>4, <1>5, <1>9 DEF SetupInv, SetupTypeOK, SetupTypesOK
<1>11. v # Absent => v \in ThereFor /\ copies[v] = "current" /\ config.server = v
  BY <1>1, <1>3 DEF SetupInv, ItsVersion, ThereFor
<1>12. OwnIn(file', ThereFor')
  <2>1. own \subseteq ThereFor' BY <1>5, <1>6, <1>11 DEF ThereFor
  <2> QED BY <1>9, <2>1, OwnMore
<1>13. HasRead' BY <1>4, <1>7 DEF HasRead
<1>14. BeforeHooks' BY <1>2, <1>4 DEF BeforeHooks
<1>15. ItsVersion' BY <1>2, <1>4, <1>5, <1>6, <1>9, <1>11 DEF ItsVersion, AfterHooks
<1>16. config'.server # Absent => config'.server \in ThereFor' BY <1>5 DEF SetupInv, ThereFor
<1> QED BY <1>2, <1>4, <1>10, <1>12, <1>13, <1>14, <1>15, <1>16 DEF SetupInv

\* The skill's steps: hooks.json and config.toml are written.
LEMMA SkillKeeps == ASSUME SetupInv, Installs \/ Swaps PROVE SetupInv'
<1>1. PICK v \in Versions \cup {Absent} : v = setup.version BY DEF SetupInv, SetupTypesOK, SetupRecords
<1>2. PICK a \in {"swap", "prune"} : setup' = [setup EXCEPT !.at = a] /\ (a = "swap" => skill' = Absent)
  <2>1. CASE Installs
    <3>1. CASE MaySwap /\ skill # setup.version BY <2>1, <3>1 DEF Installs
    <3>2. CASE ~(MaySwap /\ skill # setup.version) BY <2>1, <3>2 DEF Installs
    <3> QED BY <3>1, <3>2
  <2>2. CASE Swaps BY <2>2 DEF Swaps
  <2> QED BY <2>1, <2>2
<1>3. a \in Steps \ {"idle", "locked"} BY DEF Steps
<1>4. /\ setup' \in SetupRecords /\ setup'.at = a /\ setup'.version = v
      /\ setup'.old = setup.old /\ setup'.new = setup.new /\ setup'.seen = setup.seen BY <1>1, <1>2, <1>3, SetupGoes
<1>5. UNCHANGED <<file, config, copies, lock, wanted>> /\ setup.at \in {"skill", "swap"} BY DEF Installs, Swaps
<1>6. SetupTypeOK' /\ SetupTypesOK' BY <1>3, <1>4, <1>5 DEF SetupInv, SetupTypeOK, SetupTypesOK
<1>7. OwnIn(file', ThereFor') BY <1>5 DEF SetupInv, OwnIn, ThereFor
<1>8. HasRead' BY <1>1, <1>4, <1>5 DEF SetupInv, HasRead, Steps
<1>9. BeforeHooks' BY <1>4 DEF BeforeHooks
<1>10. ItsVersion'
  <2>1. AfterHooks BY <1>5 DEF AfterHooks
  <2>2. CASE v = Absent
    <3>1. OwnIn(file, {}) /\ config.server = Absent BY <1>1, <2>1, <2>2 DEF SetupInv, ItsVersion
    <3> QED BY <1>4, <1>5, <2>2, <3>1 DEF ItsVersion
  <2>3. CASE v # Absent
    <3>1. OwnIn(file, {v}) /\ config.server = v /\ copies[v] = "current"
      BY <1>1, <1>5, <2>1, <2>3 DEF SetupInv, ItsVersion
    <3> QED BY <1>4, <1>5, <2>3, <3>1 DEF ItsVersion
  <2> QED BY <2>2, <2>3
<1>11. setup'.at = "swap" => skill' # UserSkill BY <1>2, <1>4 DEF Absent, UserSkill
<1>12. config'.server # Absent => config'.server \in ThereFor' BY <1>5 DEF SetupInv, ThereFor
<1> QED BY <1>6, <1>7, <1>8, <1>9, <1>10, <1>11, <1>12 DEF SetupInv

\* The setup ends, whole or not: what its prune may take is used by nothing.
LEMMA EndsKeeps ==
  ASSUME SetupInv, setup' = Idle, lock' = Nobody, UNCHANGED <<file, config, skill, wanted>>,
         copies' \in [Versions -> {"none", "current", "marked", "old"}],
         OwnIn(file, ThereFor'), config.server # Absent => config.server \in ThereFor'
  PROVE  SetupInv'
<1>1. SetupTypeOK' /\ SetupTypesOK' BY IdleIs DEF SetupInv, SetupTypeOK, SetupTypesOK, Steps, SetupRecords
<1>2. HasRead' /\ BeforeHooks' /\ ItsVersion' BY IdleIs DEF HasRead, BeforeHooks, ItsVersion, AfterHooks
<1> QED BY <1>1, <1>2, IdleIs DEF SetupInv

LEMMA PrunesKeeps == ASSUME SetupAssumption, SetupInv, Prunes PROVE SetupInv'
<1>1. PICK v \in Versions \cup {Absent} : v = setup.version BY DEF SetupInv, SetupTypesOK, SetupRecords
<1>2. AfterHooks /\ setup.at = "prune" BY DEF Prunes, AfterHooks
<1>3. copies' \in [Versions -> {"none", "current", "marked", "old"}]
  <2>1. CASE v = Absent BY <1>1, <2>1 DEF Prunes
  <2>2. CASE v # Absent
    <3>1. copies' = Pruned(v) BY <1>1, <2>2 DEF Prunes
    <3>2. ASSUME NEW w \in Versions
          PROVE  (CASE w = v -> copies[w]
                    [] w # v /\ copies[w] = "current" -> "marked"
                    [] w # v /\ copies[w] = "old" -> "none"
                    [] OTHER -> copies[w]) \in {"none", "current", "marked", "old"}
      <4>1. copies[w] \in {"none", "current", "marked", "old"} BY DEF SetupInv, SetupTypeOK
      <4> QED BY <4>1
    <3> QED BY <3>1, <3>2 DEF Pruned
  <2> QED BY <2>1, <2>2
<1>4. /\ OwnIn(file, ThereFor')
      /\ config.server # Absent => config.server \in ThereFor'
  <2>1. CASE v = Absent
    <3>1. OwnIn(file, {}) /\ config.server = Absent BY <1>1, <1>2, <2>1 DEF SetupInv, ItsVersion
    <3> QED BY <3>1, OwnMore
  <2>2. CASE v # Absent
    <3>1. OwnIn(file, {v}) /\ config.server = v /\ copies[v] = "current" /\ v \in Versions
      BY <1>1, <1>2, <2>2 DEF SetupInv, ItsVersion
    <3>2. copies'[v] = copies[v] BY <1>1, <2>2, <3>1 DEF Prunes, Pruned
    <3>3. v \in ThereFor' BY <3>1, <3>2 DEF ThereFor
    <3> QED BY <3>1, <3>3, OwnMore
  <2> QED BY <2>1, <2>2
<1> QED BY <1>3, <1>4, EndsKeeps DEF Prunes

LEMMA UserEditsKeeps == ASSUME SetupAssumption, SetupInv, UserEdits PROVE SetupInv'
<1>1. PICK b \in BOOLEAN : b = (setup.at = "idle") OBVIOUS
<1>2. setup' = [setup EXCEPT !.seen = b] BY <1>1 DEF UserEdits
<1>3. /\ setup' \in SetupRecords /\ setup'.at = setup.at /\ setup'.version = setup.version
      /\ setup'.old = setup.old /\ setup'.new = setup.new /\ setup'.seen = b
  <2>1. setup \in SetupRecords BY DEF SetupInv, SetupTypesOK
  <2> QED BY <1>2, <2>1 DEF SetupRecords
<1>4. UNCHANGED <<skill, copies, lock, wanted>> BY DEF UserEdits
<1>5. file \in Groups BY DEF SetupInv, SetupTypesOK
<1>6. PICK u \in Handlers : u = User /\ ~IsOurs(u) BY HandlersAre
<1>7. file' \in Groups /\ \A V : OwnIn(file, V) => OwnIn(file', V)
  <2>0. PICK f \in Groups : f = file BY <1>5
  <2>1. CASE file' \in {<<<<u>>>> \o f, Append(f, <<u>>)} BY <1>6, <2>0, <2>1, AddsGroup
  <2>4. ASSUME NEW g \in DOMAIN f, file' = [f EXCEPT ![g] = Append(@, u)]
        PROVE  file' \in Groups /\ \A V : OwnIn(file, V) => OwnIn(file', V) BY <1>6, <2>0, <2>4, AddsHandler
  <2>2. CASE file' = Without(file, {file[p[1]] : p \in OwnPlaces(file)}) BY <1>5, <2>2, LeavesOut
  <2>3. CASE file' = file BY <1>5, <2>3
  <2> QED BY <1>6, <2>0, <2>1, <2>2, <2>3, <2>4 DEF UserEdits
<1>8. /\ config'.server = config.server /\ config'.trust = config.trust
      /\ config'.extra \in BOOLEAN
      /\ config' = [server |-> config'.server, extra |-> config'.extra, trust |-> config'.trust]
  <2>1. config = [server |-> config.server, extra |-> config.extra, trust |-> config.trust]
        /\ config.extra \in BOOLEAN BY DEF SetupInv, SetupTypesOK, SetupTypeOK
  <2>2. CASE config' = config BY <2>1, <2>2
  <2>3. CASE config' = [config EXCEPT !.extra = ~@]
    <3>1. PICK x : x = config.server OBVIOUS
    <3>2. PICK y : y = config.trust OBVIOUS
    <3>3. PICK e \in BOOLEAN : e = ~config.extra OBVIOUS
    <3>4. config' = [server |-> x, extra |-> e, trust |-> y] BY <2>1, <2>3, <3>1, <3>2, <3>3
    <3> QED BY <3>1, <3>2, <3>4
  <2> QED BY <2>2, <2>3 DEF UserEdits
<1>9. SetupTypeOK' /\ SetupTypesOK' BY <1>3, <1>4, <1>7, <1>8 DEF SetupInv, SetupTypeOK, SetupTypesOK
<1>10. setup'.seen => setup.at = "idle" BY <1>1, <1>3
<1> QED BY <1>3, <1>4, <1>7, <1>8, <1>9, <1>10, OthersMove DEF ThereFor

LEMMA SetupKeeps == SetupAssumption /\ SetupInv /\ [SetupNext]_setupVars => SetupInv'
<1>. SUFFICES ASSUME SetupAssumption, SetupInv, [SetupNext]_setupVars PROVE SetupInv' OBVIOUS
<1>1. CASE UNCHANGED setupVars
  <2>1. SetupTypeOK' /\ SetupTypesOK' BY <1>1 DEF SetupInv, SetupTypeOK, SetupTypesOK, setupVars
  <2> QED BY <1>1, <2>1, OthersMove DEF setupVars, ThereFor
<1>2. CASE DaemonSetsUp
  <2>1. wanted \in Versions \cup {Absent} BY DEF SetupInv, SetupTypesOK
  <2> QED BY <1>2, <2>1, LocksKeeps DEF DaemonSetsUp
<1>3. ASSUME NEW v \in Versions \cup {Absent}, ByHand(v) PROVE SetupInv' BY <1>3, LocksKeeps DEF ByHand
<1>4. CASE SetupStep BY <1>4, ReadsKeeps, WritesConfigKeeps, WritesHooksKeeps, SkillKeeps, PrunesKeeps DEF SetupStep
<1>5. CASE Stops
  <2>1. ThereFor' = ThereFor /\ copies' = copies BY <1>5 DEF Stops, ThereFor
  <2> QED BY <1>5, <2>1, EndsKeeps DEF Stops, SetupInv, SetupTypeOK
<1>6. ASSUME NEW v \in Versions, Upgrades(v) PROVE SetupInv'
  <2>1. SetupTypeOK' /\ SetupTypesOK' BY <1>6 DEF SetupInv, SetupTypeOK, SetupTypesOK, Upgrades
  <2> QED BY <1>6, <2>1, OthersMove DEF Upgrades, ThereFor
<1>7. CASE OtherSetsUp
  <2>1. PICK o \in Handlers : o = Theirs /\ ~IsOurs(o) BY HandlersAre
  <2>2. file' \in {Append(file, <<o>>), <<<<o>>>> \o file} BY <1>7, <2>1 DEF OtherSetsUp, WithTheirs
  <2>3. file' \in Groups /\ \A V : OwnIn(file, V) => OwnIn(file', V)
    BY <2>1, <2>2, AddsGroup DEF SetupInv, SetupTypesOK
  <2>4. setup.at = "idle" BY <1>7 DEF OtherSetsUp, FreeLock, SetupInv, SetupTypeOK
  <2>5. SetupTypeOK' /\ SetupTypesOK' BY <1>7, <2>3 DEF SetupInv, SetupTypeOK, SetupTypesOK, OtherSetsUp
  <2> QED BY <1>7, <2>3, <2>4, <2>5, OthersMove DEF OtherSetsUp, ThereFor
<1>8. CASE UserEdits BY <1>8, UserEditsKeeps
<1>9. CASE Day
  <2>1. /\ copies' \in [Versions -> {"none", "current", "marked", "old"}]
        /\ \A v \in Versions : /\ copies[v] # "none" => copies'[v] # "none"
                               /\ copies[v] = "current" => copies'[v] = "current"
    BY <1>9 DEF Day, SetupInv, SetupTypeOK
  <2>2. ThereFor \subseteq ThereFor' BY <2>1 DEF ThereFor
  <2>3. SetupTypeOK' /\ SetupTypesOK' BY <1>9, <2>1 DEF SetupInv, SetupTypeOK, SetupTypesOK, Day
  <2>4. setup.version # Absent /\ setup.at # "idle" => copies'[setup.version] = copies[setup.version]
    <3>1. setup.version # Absent /\ setup.at # "idle" =>
            setup.version \in Versions /\ copies[setup.version] = "current"
      BY DEF SetupInv, SetupTypesOK, SetupRecords, ItsVersion
    <3> QED BY <2>1, <3>1
  <2> QED BY <1>9, <2>2, <2>3, <2>4, OthersMove DEF Day
<1> QED BY <1>1, <1>2, <1>3, <1>4, <1>5, <1>6, <1>7, <1>8, <1>9 DEF SetupNext

LEMMA SetupSafe == SetupInv => SetupTypeOK /\ RunsWhatExists
<1>. SUFFICES ASSUME SetupInv PROVE RunsWhatExists BY DEF SetupInv
<1>1. \A p \in OwnPlaces(file) : At(file, p).version \in ThereFor
  <2>1. OwnOf(file) \subseteq ThereFor BY OwnOfIs DEF SetupInv
  <2> QED BY <2>1 DEF OwnOf
<1> QED BY <1>1 DEF SetupInv, RunsWhatExists, ThereFor

Sound ==
  /\ WritesHooks /\ setup.version # Absent =>
       /\ setup.seen /\ (\A p, q \in OwnPlaces(file) : p = q) => Foreign(file') = Foreign(file)
       /\ file' # file => Trust(file') = config.trust
  /\ skill = UserSkill => skill' = UserSkill

LEMMA SoundStep == SetupAssumption /\ SetupInv /\ [SetupNext]_setupVars => [Sound]_setupVars
<1>. SUFFICES ASSUME SetupAssumption, SetupInv, SetupNext PROVE Sound OBVIOUS
<1>1. ASSUME WritesHooks, setup.version # Absent
      PROVE  /\ setup.seen /\ (\A p, q \in OwnPlaces(file) : p = q) => Foreign(file') = Foreign(file)
             /\ file' # file => Trust(file') = config.trust
  <2>1. PICK v \in Versions : v = setup.version BY <1>1 DEF SetupInv, SetupTypesOK, SetupRecords
  <2>2. setup.at = "hooks" /\ file' = IF setup.new = setup.old THEN file ELSE setup.new BY <1>1 DEF WritesHooks
  <2>3. setup.new = Merged(setup.old, v) BY <2>1, <2>2 DEF SetupInv, HasRead, Steps
  <2>4. config.trust = Trust(setup.new) BY <1>1, <2>2 DEF SetupInv, ItsVersion
  <2>5. ASSUME setup.seen, \A p, q \in OwnPlaces(file) : p = q PROVE Foreign(file') = Foreign(file)
    <3>1. file = setup.old /\ file \in Groups BY <2>2, <2>5 DEF SetupInv, BeforeHooks, SetupTypesOK
    <3>2. PICK f \in Groups : f = file BY <3>1
    <3>3. Foreign(Merged(f, v)) = Foreign(f) BY <2>5, <3>2, MergedLeaves
    <3>4. file' = f \/ file' = Merged(f, v) BY <2>2, <2>3, <3>1, <3>2
    <3> QED BY <3>2, <3>3, <3>4
  <2> QED BY <2>2, <2>4, <2>5
<1>2. ASSUME skill = UserSkill PROVE skill' = UserSkill
  <2>1. CASE Installs BY <1>2, <2>1 DEF Installs, MaySwap
  <2>2. CASE Swaps BY <1>2, <2>2 DEF Swaps, SetupInv
  <2>3. CASE UNCHANGED skill BY <1>2, <2>3
  <2> QED BY <2>1, <2>2, <2>3 DEF SetupNext, SetupStep, DaemonSetsUp, ByHand, Locks, Reads, WritesConfig, WritesHooks,
           Prunes, Stops, Upgrades, OtherSetsUp, UserEdits, Day
<1> QED BY <1>1, <1>2 DEF Sound

------------------------
(* What the turns spend (ExecutorTurns, TokenUsage) *)

\* A usage that says, with no rates, that so many tokens were spent.
SpendsWhole(u, spent) ==
  \/ u = NoUsage /\ spent = 0
  \/ /\ u.reported = TRUE /\ u.broken = FALSE /\ u.calls = << >>
     /\ u.input \in Nat /\ u.output \in Nat /\ u.reads \in Nat \cup {None}
     /\ OrZero(u.reads) <= u.input
     /\ spent = (u.input - OrZero(u.reads)) + u.output

\* The record's usage, the turn's, and Kimi's counters so far.
SpendInv ==
  /\ SpendsWhole(total, seen.spent) /\ seen.said \in Raws
  /\ fold.usage = NoUsage \/ SpendsWhole(fold.usage, Truth(seen.said))
  /\ spec.kind = "kimi" => fold.held = NoUsage \/ SpendsWhole(fold.held, Truth(seen.said))
  /\ spec.kind = "kimi" /\ ~fold.terminal => fold.usage = NoUsage

LEMMA NoUsageIs == NoUsage.reported = FALSE BY DEF NoUsage

LEMMA CountsAre ==
  ASSUME NEW n \in Nat \cup {None}
  PROVE  OrZero(n) \in Nat /\ (n \in Nat => OrZero(n) = n) /\ (n = None => OrZero(n) = 0) BY DEF OrZero, None

LEMMA SpendsUnrated ==
  ASSUME NEW u, NEW spent, SpendsWhole(u, spent)
  PROVE  spent \in Nat /\ SpentUnrated(u) = spent
<1>1. CASE u = NoUsage /\ spent = 0 BY <1>1, NoUsageIs DEF SpentUnrated
<1>2. CASE ~(u = NoUsage /\ spent = 0)
  <2>1. PICK i \in Nat : i = u.input BY <1>2 DEF SpendsWhole
  <2>2. PICK o \in Nat : o = u.output BY <1>2 DEF SpendsWhole
  <2>3. PICK r \in Nat : r = OrZero(u.reads) BY <1>2, CountsAre DEF SpendsWhole
  <2>4. u.reported = TRUE /\ r <= i /\ spent = (i - r) + o BY <1>2, <2>1, <2>2, <2>3 DEF SpendsWhole
  <2>5. OrZero(u.input) = i /\ OrZero(u.output) = o BY <2>1, <2>2, CountsAre
  <2>6. AtLeastZero(i - r) = i - r BY <2>4 DEF AtLeastZero, MaxOf
  <2> QED BY <2>3, <2>4, <2>5, <2>6 DEF SpentUnrated
<1> QED BY <1>1, <1>2

\* The usages of two turns spend together what each spends.
LEMMA SumSpends ==
  ASSUME NEW a, NEW b, NEW m, NEW n, SpendsWhole(a, m), SpendsWhole(b, n)
  PROVE  SpendsWhole(SumUsage(a, b), m + n)
<1>0. m \in Nat /\ n \in Nat BY SpendsUnrated
<1>1. CASE a = NoUsage /\ m = 0
  <2>1. SumUsage(a, b) = b BY <1>1, NoUsageIs DEF SumUsage
  <2> QED BY <1>0, <1>1, <2>1
<1>2. CASE ~(a = NoUsage /\ m = 0) /\ b = NoUsage /\ n = 0
  <2>1. SumUsage(a, b) = a BY <1>2, NoUsageIs DEF SumUsage, SpendsWhole
  <2> QED BY <1>0, <1>2, <2>1
<1>3. CASE ~(a = NoUsage /\ m = 0) /\ ~(b = NoUsage /\ n = 0)
  <2>1. PICK ai \in Nat, ao \in Nat, ar \in Nat \cup {None} :
          a.input = ai /\ a.output = ao /\ a.reads = ar /\ OrZero(ar) <= ai BY <1>3 DEF SpendsWhole
  <2>2. PICK bi \in Nat, bo \in Nat, br \in Nat \cup {None} :
          b.input = bi /\ b.output = bo /\ b.reads = br /\ OrZero(br) <= bi BY <1>3 DEF SpendsWhole
  <2>3. /\ a.reported = TRUE /\ a.broken = FALSE /\ m = (ai - OrZero(ar)) + ao
        /\ b.reported = TRUE /\ b.broken = FALSE /\ n = (bi - OrZero(br)) + bo BY <1>3, <2>1, <2>2 DEF SpendsWhole
  <2>4. AddOptional(ai, bi) = ai + bi /\ AddOptional(ao, bo) = ao + bo BY CountsAre DEF AddOptional, None
  <2>5. PICK r \in Nat \cup {None} : r = AddOptional(ar, br) /\ OrZero(r) = OrZero(ar) + OrZero(br)
    BY CountsAre DEF AddOptional, OrZero, None
  <2>. DEFINE w == AddOptional(a.writes, b.writes)
              h == IF SplitKnown(a) /\ SplitKnown(b) THEN AddOptional(a.hour, b.hour) ELSE None
              u == [reported |-> TRUE, input |-> ai + bi, output |-> ao + bo, reads |-> r,
                    writes |-> w, hour |-> h, broken |-> FALSE, calls |-> << >>, cut |-> FALSE]
  <2>6. SumUsage(a, b) = Cap(u) BY <2>1, <2>2, <2>3, <2>4, <2>5 DEF SumUsage
  <2>. HIDE DEF w, h
  <2>7. Cap(u) = u
    <3>1. Len(<< >>) = 0 /\ CallsCap \in Nat BY TokenUsageAssumption
    <3> QED BY <3>1 DEF Cap
  <2>8. /\ u.reported = TRUE /\ u.broken = FALSE /\ u.calls = << >>
        /\ u.input = ai + bi /\ u.output = ao + bo /\ u.reads = r OBVIOUS
  <2>9. PICK v : v = SumUsage(a, b) OBVIOUS
  <2>. HIDE DEF u
  <2>10. OrZero(ar) \in Nat /\ OrZero(br) \in Nat BY CountsAre
  <2>11. OrZero(r) <= ai + bi /\ m + n = ((ai + bi) - OrZero(r)) + (ao + bo) BY <2>1, <2>2, <2>3, <2>5, <2>10
  <2> QED BY <2>6, <2>7, <2>8, <2>9, <2>11 DEF SpendsWhole
<1> QED BY <1>1, <1>2, <1>3

\* What an adapter makes of a report is the whole of it.
LEMMA ReportIsWhole ==
  ASSUME NEW raw \in Raws
  PROVE  UsageFrom(raw) = NoUsage \/ SpendsWhole(UsageFrom(raw), Truth(raw))
<1>1. PICK i \in Nat, o \in Nat, r \in Nat \cup {None}, w \in Nat \cup {None} :
        raw.uncached = i /\ raw.output = o /\ raw.read = r /\ raw.write = w BY DEF Raws
<1>2. OrZero(r) \in Nat /\ OrZero(w) \in Nat BY CountsAre
<1>3. i # None BY DEF None
<1>. DEFINE all == i + OrZero(r) + OrZero(w)
            u == UsageOf(all, o, r, w, None)
<1>4. UsageFrom(raw) \in {NoUsage, u}
  <2>1. InclusiveInput(i, r, w) = all BY <1>3 DEF InclusiveInput
  <2> QED BY <1>1, <2>1 DEF UsageFrom
<1>5. /\ u.reported = TRUE /\ u.broken = FALSE /\ u.calls = << >>
      /\ u.input = all /\ u.output = o /\ u.reads = r BY DEF UsageOf
<1>6. Truth(raw) = i + o + OrZero(w) BY <1>1 DEF Truth
<1>. HIDE DEF u
<1>7. SpendsWhole(u, Truth(raw)) BY <1>1, <1>2, <1>5, <1>6 DEF SpendsWhole
<1> QED BY <1>4, <1>7

LEMMA NothingIs == Nothing \in Raws /\ NoFold.usage = NoUsage /\ NoFold.held = NoUsage
BY DEF Nothing, Raws, NoFold, None

LEMMA SpendStart == TurnsInit => SpendInv
<1>. SUFFICES ASSUME TurnsInit PROVE SpendInv OBVIOUS
<1>1. fold = NoFold BY DEF TurnsInit
<1>2. Seen.said = Nothing /\ Seen.spent = 0 BY DEF Seen
<1>3. CASE total = NoUsage /\ seen = Seen BY <1>1, <1>2, <1>3, NothingIs DEF SpendInv, SpendsWhole
<1>4. ASSUME NEW raw \in OldRows,
             spec.kind \in {"codex", "claude", "kimi", "headless"},
             total = LegacyUsage(OldRow(spec.kind, raw), Uncached(spec.kind)),
             seen = [Seen EXCEPT !.worked = 1, !.status = "suspended", !.spent = raw.uncached + raw.output]
      PROVE  SpendInv
  <2>0. raw \in Raws BY RawAssumption
  <2>1. PICK i \in Nat, o \in Nat, r \in Nat \cup {None} :
          raw.uncached = i /\ raw.output = o /\ raw.read = r BY <2>0 DEF Raws
  <2>2. seen.said = Nothing /\ seen.spent = i + o
    <3>1. PICK n : n = i + o OBVIOUS
    <3>2. PICK z : z = Seen OBVIOUS
    <3>3. DOMAIN z = {"worked", "unasked", "said", "texts", "error", "status", "spent"} BY <3>2 DEF Seen
    <3>4. seen = [z EXCEPT !.worked = 1, !.status = "suspended", !.spent = n] BY <1>4, <2>1, <3>1, <3>2
    <3>5. seen.said = z.said /\ seen.spent = n BY <3>3, <3>4
    <3>6. seen.said = Nothing BY <1>2, <3>2, <3>5
    <3> QED BY <3>1, <3>5, <3>6
  <2>3. PICK c \in BOOLEAN : c <=> Uncached(spec.kind) OBVIOUS
  <2>4. PICK n \in Nat : n = IF c THEN i ELSE i + OrZero(r) BY CountsAre
  <2>. DEFINE row == UsageOf(n, o, r, None, None)
  <2>5. OldRow(spec.kind, raw) = row BY <2>1, <2>3, <2>4 DEF OldRow
  <2>6. PICK u : u = row OBVIOUS
  <2>7. u = [reported |-> TRUE, input |-> n, output |-> o, reads |-> r, writes |-> None, hour |-> None,
             broken |-> FALSE, calls |-> << >>, cut |-> FALSE] BY <2>6 DEF UsageOf
  <2>8. total = LegacyUsage(u, Uncached(spec.kind)) BY <1>4, <2>5, <2>6
  <2>9. n # None BY DEF None
  <2>10. SpendsWhole(total, i + o)
    <3>1. CASE OrZero(r) = 0
      <4>1. total = u BY <2>3, <2>7, <2>8, <3>1 DEF LegacyUsage
      <4>2. n = i BY <2>4, <3>1
      <4> QED BY <2>7, <3>1, <4>1, <4>2 DEF SpendsWhole
    <3>2. CASE OrZero(r) # 0
      <4>1. r \in Nat /\ OrZero(r) = r BY <3>2, CountsAre
      <4>2. CASE c
        <5>1. total = [u EXCEPT !.input = @ + u.reads] BY <2>3, <2>7, <2>8, <2>9, <3>2, <4>2 DEF LegacyUsage
        <5>2. PICK s \in Nat : s = n + r BY <4>1
        <5>3. total = [u EXCEPT !.input = s] BY <2>7, <5>1, <5>2
        <5>4. /\ total.reported = TRUE /\ total.broken = FALSE /\ total.calls = << >>
              /\ total.input = s /\ total.output = o /\ total.reads = r BY <2>7, <5>3
        <5> QED BY <2>4, <4>1, <4>2, <5>2, <5>4 DEF SpendsWhole
      <4>3. CASE ~c
        <5>1. n = i + r BY <2>4, <4>1, <4>3
        <5>2. ~(r > n) BY <4>1, <5>1
        <5>3. total = u BY <2>3, <2>7, <2>8, <4>3, <5>2 DEF LegacyUsage
        <5> QED BY <2>7, <4>1, <5>1, <5>3 DEF SpendsWhole
      <4> QED BY <4>2, <4>3
    <3> QED BY <3>1, <3>2
  <2> QED BY <1>1, <2>2, <2>10, NothingIs DEF SpendInv
<1> QED BY <1>3, <1>4 DEF TurnsInit

\* What a payload adds to the fold, but for its usage.
LEMMA FoldsSpend ==
  ASSUME NEW f, DOMAIN f = {"output", "parts", "usage", "held", "failed", "terminal", "items", "tools",
                            "blocked"}
  PROVE  /\ \A text : /\ Message(f, text).usage = f.usage /\ Message(f, text).held = f.held
                      /\ Message(f, text).terminal = f.terminal
                      /\ DOMAIN Message(f, text) = DOMAIN f
         /\ Tool(f).usage = f.usage /\ Tool(f).held = f.held /\ Tool(f).terminal = f.terminal
         /\ Failed(f).usage = f.usage /\ Failed(f).held = f.held /\ Failed(f).terminal = TRUE
         /\ DOMAIN Failed(f) = DOMAIN f
         /\ \A n : /\ [f EXCEPT !.parts = n].usage = f.usage /\ [f EXCEPT !.parts = n].held = f.held
                   /\ [f EXCEPT !.parts = n].terminal = f.terminal
                   /\ DOMAIN [f EXCEPT !.parts = n] = DOMAIN f
         /\ \A ops : /\ [f EXCEPT !.blocked = ops].usage = f.usage
                     /\ [f EXCEPT !.blocked = ops].held = f.held
                     /\ [f EXCEPT !.blocked = ops].terminal = f.terminal
                     /\ DOMAIN [f EXCEPT !.blocked = ops] = DOMAIN f
         /\ \A u : /\ [f EXCEPT !.held = u].usage = f.usage /\ [f EXCEPT !.held = u].held = u
                   /\ [f EXCEPT !.held = u].terminal = f.terminal
                   /\ Completed(f, u).usage = u /\ Completed(f, u).held = f.held
                   /\ Completed(f, u).terminal = TRUE
<1>1. ASSUME NEW text
      PROVE  /\ Message(f, text).usage = f.usage /\ Message(f, text).held = f.held
             /\ Message(f, text).terminal = f.terminal /\ DOMAIN Message(f, text) = DOMAIN f BY DEF Message
<1>2. Tool(f).usage = f.usage /\ Tool(f).held = f.held /\ Tool(f).terminal = f.terminal BY DEF Tool
<1>3. /\ Failed(f).usage = f.usage /\ Failed(f).held = f.held /\ Failed(f).terminal = TRUE
      /\ DOMAIN Failed(f) = DOMAIN f BY DEF Failed
<1>4. ASSUME NEW n
      PROVE  /\ [f EXCEPT !.parts = n].usage = f.usage /\ [f EXCEPT !.parts = n].held = f.held
             /\ [f EXCEPT !.parts = n].terminal = f.terminal /\ DOMAIN [f EXCEPT !.parts = n] = DOMAIN f OBVIOUS
<1>5. ASSUME NEW ops
      PROVE  /\ [f EXCEPT !.blocked = ops].usage = f.usage /\ [f EXCEPT !.blocked = ops].held = f.held
             /\ [f EXCEPT !.blocked = ops].terminal = f.terminal
             /\ DOMAIN [f EXCEPT !.blocked = ops] = DOMAIN f OBVIOUS
<1>6. ASSUME NEW u
      PROVE  /\ [f EXCEPT !.held = u].usage = f.usage /\ [f EXCEPT !.held = u].held = u
             /\ [f EXCEPT !.held = u].terminal = f.terminal
             /\ Completed(f, u).usage = u /\ Completed(f, u).held = f.held
             /\ Completed(f, u).terminal = TRUE BY DEF Completed
<1> QED BY <1>1, <1>2, <1>3, <1>4, <1>5, <1>6

\* A step of a turn that reports no usage.
SameUsage(f) == f.usage = fold.usage /\ f.held = fold.held /\ (fold.terminal => f.terminal)

LEMMA SilentStep ==
  ASSUME TurnsInv, SpendInv, spec' = spec, total' = total,
         seen'.spent = seen.spent, seen'.said = seen.said, SameUsage(fold')
  PROVE  SpendInv'
<1>1. Truth(seen'.said) = Truth(seen.said) OBVIOUS
<1>2. ~fold'.terminal => ~fold.terminal BY DEF SameUsage
<1> QED BY <1>1, <1>2 DEF SpendInv, SameUsage

LEMMA SpendStep == TurnsInv /\ SpendInv /\ [TurnsNext]_turnVars => SpendInv'
<1>. SUFFICES ASSUME TurnsInv, SpendInv, [TurnsNext]_turnVars PROVE SpendInv' OBVIOUS
<1>0. /\ DOMAIN seen = {"worked", "unasked", "said", "texts", "error", "status", "spent"}
      /\ DOMAIN fold = {"output", "parts", "usage", "held", "failed", "terminal", "items", "tools",
                        "blocked"} BY DEF TurnsInv, TurnRecords
<1>f. SameUsage(fold) /\ SameUsage(Failed(fold)) BY <1>0, FoldsSpend DEF SameUsage
<1>1. CASE UNCHANGED turnVars BY <1>1, <1>f, SilentStep DEF turnVars
<1>2. CASE Begin
  <2>1. seen' = [seen EXCEPT !.said = Nothing, !.texts = 0, !.error = FALSE, !.status = "none"] BY <1>2 DEF Begin
  <2>2. seen'.said = Nothing /\ seen'.spent = seen.spent BY <1>0, <2>1
  <2>3. fold' = NoFold /\ total' = total BY <1>2 DEF Begin
  <2> QED BY <2>2, <2>3, NothingIs DEF SpendInv
<1>3. CASE Open BY <1>3, <1>f, SilentStep DEF Open
<1>4. CASE OpenFails \/ StreamBreaks \/ (ClaudeInit /\ UNCHANGED fold)
  <2>1. seen' = [seen EXCEPT !.error = TRUE] \/ seen' = seen BY <1>4 DEF OpenFails, StreamBreaks, ClaudeInit
  <2>2. seen'.said = seen.said /\ seen'.spent = seen.spent BY <1>0, <2>1
  <2> QED BY <1>4, <1>f, <2>2, SilentStep DEF OpenFails, StreamBreaks, ClaudeInit, Says
<1>5. CASE ClaudeInit BY <1>4, <1>5 DEF ClaudeInit, Says
<1>6. CASE Text
  <2>1. seen' = [seen EXCEPT !.worked = session, !.texts = @ + 1] BY <1>6 DEF Text
  <2>2. seen'.said = seen.said /\ seen'.spent = seen.spent BY <1>0, <2>1
  <2>. DEFINE p == [fold EXCEPT !.parts = @ + 1]
  <2>3. /\ p.usage = fold.usage /\ p.held = fold.held /\ p.terminal = fold.terminal
        /\ DOMAIN p = DOMAIN fold BY <1>0
  <2>4. SameUsage(p) /\ SameUsage(Tool(p)) /\ \A text : SameUsage(Message(fold, text))
    <3>. HIDE DEF p
    <3>1. Tool(p).usage = p.usage /\ Tool(p).held = p.held /\ Tool(p).terminal = p.terminal BY <1>0, <2>3, FoldsSpend
    <3>2. \A text : /\ Message(fold, text).usage = fold.usage
                    /\ Message(fold, text).held = fold.held
                    /\ Message(fold, text).terminal = fold.terminal BY <1>0, FoldsSpend
    <3> QED BY <2>3, <3>1, <3>2 DEF SameUsage
  <2>5. fold' \in {Tool(p), p} \/ \E text : fold' = Message(fold, text) BY <1>6 DEF Text, Says
  <2>6. SameUsage(fold')
    <3>. HIDE DEF p
    <3> QED BY <2>4, <2>5
  <2> QED BY <1>6, <2>2, <2>6, SilentStep DEF Text, Says
<1>7. ASSUME NEW op \in OpClasses, UseTool(op) PROVE SpendInv'
  <2>1. PICK ops : seen' = [seen EXCEPT !.worked = session, !.unasked = ops] BY <1>7 DEF UseTool
  <2>2. seen'.said = seen.said /\ seen'.spent = seen.spent BY <1>0, <2>1
  <2>3. PICK bs : fold' = fold \/ fold' = Tool([fold EXCEPT !.blocked = bs]) BY <1>7 DEF UseTool, Says
  <2>4. PICK p : p = [fold EXCEPT !.blocked = bs] OBVIOUS
  <2>5. p.usage = fold.usage /\ p.held = fold.held /\ p.terminal = fold.terminal /\ DOMAIN p = DOMAIN fold
    BY <1>0, <2>4, FoldsSpend
  <2>6. SameUsage(Tool(p)) BY <1>0, <2>5, FoldsSpend DEF SameUsage
  <2> QED BY <1>7, <1>f, <2>2, <2>3, <2>4, <2>6, SilentStep DEF UseTool, Says
<1>8. ASSUME NEW raw \in Raw, Report(raw) \/ EndsWell(raw) PROVE SpendInv'
  <2>0. raw \in Raws BY RawAssumption
  <2>1. seen' = [seen EXCEPT !.said = raw] /\ spec' = spec /\ total' = total BY <1>8 DEF Report, EndsWell, Says
  <2>2. seen'.said = raw /\ seen'.spent = seen.spent BY <1>0, <2>1
  <2>3. PICK u : u = UsageFrom(raw) OBVIOUS
  <2>4. u = NoUsage \/ SpendsWhole(u, Truth(raw)) BY <2>0, <2>3, ReportIsWhole
  <2>5. CASE Report(raw)
    <3>1. spec.kind = "kimi" /\ ~fold.terminal /\ fold' = [fold EXCEPT !.held = u] BY <2>3, <2>5 DEF Report, Says
    <3>2. fold'.usage = fold.usage /\ fold'.held = u BY <1>0, <3>1, FoldsSpend
    <3> QED BY <2>0, <2>1, <2>2, <2>4, <3>1, <3>2 DEF SpendInv
  <2>6. CASE EndsWell(raw)
    <3>1. spec.kind # "kimi" /\ fold' = Completed(fold, u) BY <2>3, <2>6 DEF EndsWell, Says
    <3>2. fold'.usage = u BY <1>0, <3>1 DEF Completed
    <3> QED BY <2>0, <2>1, <2>2, <2>4, <3>1, <3>2 DEF SpendInv
  <2> QED BY <1>8, <2>5, <2>6
<1>9. CASE EndsBadly
  <2>1. seen' = [seen EXCEPT !.error = TRUE] BY <1>9 DEF EndsBadly
  <2>2. seen'.said = seen.said /\ seen'.spent = seen.spent BY <1>0, <2>1
  <2> QED BY <1>9, <1>f, <2>2, SilentStep DEF EndsBadly, Says
<1>10. ASSUME NEW exit \in {0, 1}, StreamEnds(exit) PROVE SpendInv'
  <2>1. PICK e : seen' = [seen EXCEPT !.error = e] BY <1>10 DEF StreamEnds
  <2>2. seen'.said = seen.said /\ seen'.spent = seen.spent BY <1>0, <2>1
  <2>3. spec' = spec /\ total' = total /\ fold' = Closed(fold, exit) BY <1>10 DEF StreamEnds
  <2>4. ASSUME NEW f, SameUsage(f), DOMAIN f = DOMAIN fold
        PROVE  SameUsage(Joined(f)) /\ DOMAIN Joined(f) = DOMAIN fold /\ SameUsage(Failed(f))
    <3>1. /\ Message(f, "joined").usage = f.usage /\ Message(f, "joined").held = f.held
          /\ Message(f, "joined").terminal = f.terminal /\ DOMAIN Message(f, "joined") = DOMAIN f
      BY <1>0, <2>4, FoldsSpend
    <3>2. Failed(f).usage = f.usage /\ Failed(f).held = f.held /\ Failed(f).terminal = TRUE BY <1>0, <2>4, FoldsSpend
    <3> QED BY <2>4, <3>1, <3>2 DEF SameUsage, Joined
  <2>5. CASE spec.kind = "kimi"
    <3>1. fold' = Completed(fold, fold.held) BY <2>3, <2>5 DEF Closed
    <3>2. fold'.usage = fold.held /\ fold'.held = fold.held /\ fold'.terminal = TRUE BY <1>0, <3>1 DEF Completed
    <3> QED BY <2>2, <2>3, <2>5, <3>2 DEF SpendInv
  <2>6. CASE spec.kind = "spawn" /\ exit = 0
    <3>1. fold' = Completed(Joined(fold), NoUsage) BY <2>3, <2>6 DEF Closed
    <3>2. PICK j : j = Joined(fold) OBVIOUS
    <3>4. DOMAIN j = DOMAIN fold BY <1>f, <2>4, <3>2
    <3>5. PICK none : none = NoUsage OBVIOUS
    <3>3. fold'.usage = NoUsage BY <1>0, <3>1, <3>2, <3>4, <3>5 DEF Completed
    <3> QED BY <2>2, <2>3, <2>6, <3>3 DEF SpendInv
  <2>7. CASE spec.kind # "kimi" /\ ~(spec.kind = "spawn" /\ exit = 0)
    <3>1. SameUsage(Closed(fold, exit))
      <4>1. PICK f : f = Failed(fold) OBVIOUS
      <4>2. SameUsage(f) /\ DOMAIN f = DOMAIN fold BY <1>0, <1>f, <4>1, FoldsSpend
      <4>3. Closed(fold, exit) \in {f, fold, Joined(fold), Joined(f), Failed(Joined(fold)),
                                     Failed(Joined(f))} BY <2>7, <4>1 DEF Closed
      <4>4. DOMAIN Joined(fold) = DOMAIN fold /\ SameUsage(Joined(fold)) BY <1>f, <2>4
      <4>5. DOMAIN Joined(f) = DOMAIN fold /\ SameUsage(Joined(f)) BY <2>4, <4>2
      <4>6. SameUsage(Failed(Joined(fold))) /\ SameUsage(Failed(Joined(f))) BY <2>4, <4>4, <4>5
      <4> QED BY <1>f, <4>2, <4>3, <4>4, <4>5, <4>6
    <3> QED BY <2>2, <2>3, <3>1, SilentStep
  <2> QED BY <2>5, <2>6, <2>7
<1>11. CASE Finish
  <2>1. PICK s, n : n = seen.spent + Reported /\ seen' = [seen EXCEPT !.status = s, !.spent = n] BY <1>11 DEF Finish
  <2>2. seen'.said = seen.said /\ seen'.spent = n BY <1>0, <2>1
  <2>3. spec' = spec /\ fold' = NoFold /\ total' = SumUsage(total, fold.usage) BY <1>11 DEF Finish, Back
  <2>4. SpendsWhole(fold.usage, Reported)
    <3>1. CASE fold.usage = NoUsage BY <3>1, NoUsageIs DEF Reported, SpendsWhole
    <3>2. CASE fold.usage # NoUsage
      <4>1. SpendsWhole(fold.usage, Truth(seen.said)) BY <3>2 DEF SpendInv
      <4>2. fold.usage.reported BY <3>2, <4>1 DEF SpendsWhole
      <4> QED BY <4>1, <4>2 DEF Reported
    <3> QED BY <3>1, <3>2
  <2>5. SpendsWhole(total', seen'.spent)
    <3>1. PICK a, b, r : a = total /\ b = fold.usage /\ r = Reported OBVIOUS
    <3>2. PICK m : m = seen.spent OBVIOUS
    <3>3. SpendsWhole(a, m) /\ SpendsWhole(b, r) BY <2>4, <3>1, <3>2 DEF SpendInv
    <3>4. SpendsWhole(SumUsage(a, b), m + r) BY <3>3, SumSpends
    <3> QED BY <2>1, <2>2, <2>3, <3>1, <3>2, <3>4
  <2> QED BY <2>2, <2>3, <2>5, NothingIs DEF SpendInv
<1>12. CASE Cancelled
  <2>1. seen' = [seen EXCEPT !.status = "suspended"] BY <1>12 DEF Cancelled
  <2>2. seen'.said = seen.said /\ seen'.spent = seen.spent BY <1>0, <2>1
  <2> QED BY <1>12, <2>2, NothingIs DEF Cancelled, Back, SpendInv
<1> QED BY <1>1, <1>2, <1>3, <1>4, <1>5, <1>6, <1>7, <1>8, <1>9, <1>10, <1>11, <1>12 DEF TurnsNext

LEMMA SpendSafe == SpendInv => SpendingAddsUp
BY SpendsUnrated DEF SpendInv, SpendingAddsUp

------------------------
(* What no rate applies to (ModelRates, TokenUsage) *)

\* The function by which SumOf is defined, over the first m elements.
IsSum(sum, s, m) == sum = [n \in 0 .. m |-> IF n = 0 THEN 0 ELSE sum[n - 1] + s[n]]

LEMMA SumExists == ASSUME NEW s PROVE \A m \in Nat : \E sum : IsSum(sum, s, m)
<1>. DEFINE S == {m \in Nat : \E sum : IsSum(sum, s, m)}
<1>1. 0 \in S
  <2>1. IsSum([n \in 0 .. 0 |-> 0], s, 0) BY DEF IsSum
  <2> QED BY <2>1
<1>2. ASSUME NEW m \in Nat, m \in S PROVE m + 1 \in S
  <2>1. PICK sum : IsSum(sum, s, m) BY <1>2
  <2>. DEFINE more == [n \in 0 .. m + 1 |-> IF n = 0 THEN 0 ELSE sum[n - 1] + s[n]]
  <2>2. \A n \in 0 .. m + 1 : more[n] = IF n = 0 THEN 0 ELSE sum[n - 1] + s[n] OBVIOUS
  <2>3. more = [n \in 0 .. m + 1 |-> more[n]] OBVIOUS
  <2>. HIDE DEF more
  <2>4. ASSUME NEW n \in 0 .. m PROVE more[n] = sum[n]
    <3>1. sum[n] = IF n = 0 THEN 0 ELSE sum[n - 1] + s[n] BY <2>1 DEF IsSum
    <3>2. n \in 0 .. m + 1 OBVIOUS
    <3> QED BY <2>2, <3>1, <3>2
  <2>5. \A n \in 0 .. m + 1 : n # 0 => n - 1 \in 0 .. m OBVIOUS
  <2>6. \A n \in 0 .. m + 1 : n # 0 => more[n - 1] = sum[n - 1] BY <2>4, <2>5
  <2>7. \A n \in 0 .. m + 1 : more[n] = IF n = 0 THEN 0 ELSE more[n - 1] + s[n] BY <2>2, <2>6
  <2>8. IsSum(more, s, m + 1)
    <3>. DEFINE F == [n \in 0 .. m + 1 |-> IF n = 0 THEN 0 ELSE more[n - 1] + s[n]]
    <3>2. \A n \in 0 .. m + 1 : more[n] = F[n] BY <2>7
    <3>3. F = [n \in 0 .. m + 1 |-> F[n]] OBVIOUS
    <3>4. more = F
      <4>. HIDE DEF F
      <4> QED BY <2>3, <3>2, <3>3
    <3> QED BY <3>4 DEF IsSum
  <2> QED BY <2>8
<1>. HIDE DEF S
<1>3. \A m \in Nat : m \in S BY <1>1, <1>2, AllNumbers
<1> QED BY <1>3 DEF S

LEMMA SumIs ==
  ASSUME NEW s, NEW m \in Nat, Len(s) = m
  PROVE  \E sum : /\ SumOf(s) = sum[m] /\ sum[0] = 0
                  /\ \A n \in Nat : n < m => sum[n + 1] = sum[n] + s[n + 1]
<1>. DEFINE C == CHOOSE sum : IsSum(sum, s, Len(s))
<1>1. PICK sum : sum = C OBVIOUS
<1>2. IsSum(sum, s, Len(s)) BY <1>1, SumExists
<1>3. SumOf(s) = sum[Len(s)] BY <1>1 DEF SumOf, IsSum
<1>. HIDE DEF C
<1>4. sum[0] = 0 BY <1>2 DEF IsSum
<1>5. ASSUME NEW n \in Nat, n < Len(s) PROVE sum[n + 1] = sum[n] + s[n + 1]
  <2>1. n + 1 \in 0 .. Len(s) /\ n + 1 # 0 /\ (n + 1) - 1 = n BY <1>5
  <2> QED BY <1>2, <2>1 DEF IsSum
<1> QED BY <1>3, <1>4, <1>5

\* The sum of numbers is a number, and that of sums the sum of the sums.
LEMMA SumsAddUp ==
  ASSUME NEW f, NEW g, NEW h, Len(f) \in Nat, Len(g) = Len(f), Len(h) = Len(f),
         \A i \in 1 .. Len(f) : f[i] \in Nat /\ g[i] \in Nat /\ h[i] = f[i] + g[i]
  PROVE  SumOf(f) \in Nat /\ SumOf(g) \in Nat /\ SumOf(h) = SumOf(f) + SumOf(g)
<1>. PICK m \in Nat : m = Len(f) OBVIOUS
<1>1. PICK a : /\ SumOf(f) = a[m] /\ a[0] = 0 /\ \A n \in Nat : n < m => a[n + 1] = a[n] + f[n + 1] BY SumIs
<1>2. PICK b : /\ SumOf(g) = b[m] /\ b[0] = 0 /\ \A n \in Nat : n < m => b[n + 1] = b[n] + g[n + 1] BY SumIs
<1>3. PICK c : /\ SumOf(h) = c[m] /\ c[0] = 0 /\ \A n \in Nat : n < m => c[n + 1] = c[n] + h[n + 1] BY SumIs
<1>. DEFINE S == {n \in Nat : n <= m => a[n] \in Nat /\ b[n] \in Nat /\ c[n] = a[n] + b[n]}
<1>4. 0 \in S BY <1>1, <1>2, <1>3
<1>5. ASSUME NEW n \in Nat, n \in S PROVE n + 1 \in S
  <2>. SUFFICES ASSUME n + 1 <= m
                PROVE  a[n + 1] \in Nat /\ b[n + 1] \in Nat /\ c[n + 1] = a[n + 1] + b[n + 1] OBVIOUS
  <2>1. a[n] \in Nat /\ b[n] \in Nat /\ c[n] = a[n] + b[n] /\ n < m BY <1>5
  <2>2. n + 1 \in 1 .. m OBVIOUS
  <2>3. f[n + 1] \in Nat /\ g[n + 1] \in Nat /\ h[n + 1] = f[n + 1] + g[n + 1] BY <2>2
  <2>4. a[n + 1] = a[n] + f[n + 1] /\ b[n + 1] = b[n] + g[n + 1] /\ c[n + 1] = c[n] + h[n + 1]
    BY <1>1, <1>2, <1>3, <2>1
  <2>5. PICK p, q, r, x, y, z : /\ p = a[n] /\ q = b[n] /\ r = c[n]
                                /\ x = f[n + 1] /\ y = g[n + 1] /\ z = h[n + 1] OBVIOUS
  <2>6. p \in Nat /\ q \in Nat /\ x \in Nat /\ y \in Nat /\ r = p + q /\ z = x + y BY <2>1, <2>3, <2>5
  <2>7. p + x \in Nat /\ q + y \in Nat /\ r + z = (p + x) + (q + y) BY <2>6
  <2> QED BY <2>4, <2>5, <2>7
<1>. HIDE DEF S
<1>6. m \in S BY <1>4, <1>5, AllNumbers
<1> QED BY <1>1, <1>2, <1>3, <1>6 DEF S

\* A whole number of Units, rounded up.
LEMMA WholeUnits ==
  ASSUME NEW n \in Nat, NEW k \in Nat, k > 0
  PROVE  (n * k + k - 1) \div k = n OBVIOUS

LEMMA SumIsNumber ==
  ASSUME NEW m \in Nat, NEW f, DOMAIN f = 1 .. m, f = [i \in 1 .. m |-> f[i]],
         \A i \in 1 .. m : f[i] \in Nat
  PROVE  SumOf(f) \in Nat
<1>. DEFINE h == [i \in 1 .. m |-> f[i] + f[i]]
<1>1. Len(f) = m BY SeqTyped
<1>2. h = [i \in 1 .. m |-> h[i]] /\ \A i \in 1 .. m : h[i] = f[i] + f[i] /\ h[i] \in Nat OBVIOUS
<1>. HIDE DEF h
<1>3. Len(h) = m BY <1>2, SeqTyped
<1>4. \A i \in 1 .. m : f[i] \in Nat /\ f[i] \in Nat /\ h[i] = f[i] + f[i] BY <1>2
<1> QED BY <1>1, <1>3, <1>4, SumsAddUp

SliceModels(u) == {NoModel} \cup {u.calls[i].model : i \in DOMAIN u.calls}
IsSlice(s, u) ==
  /\ s.model \in SliceModels(u)
  /\ s.reads \in Nat /\ s.writes \in Nat /\ s.hour \in Count

\* The slices of a usage: its requests', and one of the rest.
LEMMA SlicesAre ==
  ASSUME NEW u \in Usages
  PROVE  \E n \in Nat : /\ DOMAIN Slices(u) = 1 .. n
                        /\ \A i \in 1 .. n : IsSlice(Slices(u)[i], u)
<1>. DEFINE m == Len(u.calls)
            calls == [i \in DOMAIN u.calls |-> CallSlice(u.calls[i])]
            Sum(f) == SumOf([i \in DOMAIN calls |-> OrZero(calls[i][f])])
            readsRest == AtLeastZero(OrZero(u.reads) - Sum("reads"))
            writesRest == AtLeastZero(OrZero(u.writes) - Sum("writes"))
            split == u.hour # None /\ \A i \in DOMAIN calls : calls[i].hour # None \/ calls[i].writes = 0
            rest == [model |-> NoModel, reads |-> readsRest, writes |-> writesRest,
                     hour |-> IF split THEN AtLeastZero(u.hour - Sum("hour")) ELSE None]
<1>1. /\ m \in Nat /\ DOMAIN u.calls = 1 .. m
      /\ u.reads \in Count /\ u.writes \in Count /\ u.hour \in Count
      /\ \A i \in 1 .. m : \A f \in {"reads", "writes", "hour"} : u.calls[i][f] \in Count BY RatesAssumption
<1>2. DOMAIN calls = 1 .. m BY <1>1
<1>3. ASSUME NEW i \in 1 .. m PROVE IsSlice(calls[i], u)
  <2>1. u.calls[i].reads \in Count /\ u.calls[i].writes \in Count /\ u.calls[i].hour \in Count BY <1>1
  <2>2. OrZero(u.calls[i].reads) \in Nat /\ OrZero(u.calls[i].writes) \in Nat BY <2>1, CountsAre DEF Count
  <2>3. calls[i] = CallSlice(u.calls[i]) BY <1>1
  <2> QED BY <1>1, <2>1, <2>2, <2>3 DEF IsSlice, SliceModels, CallSlice
<1>4. ASSUME NEW f \in {"reads", "writes", "hour"} PROVE Sum(f) \in Nat
  <2>1. PICK c : c = calls OBVIOUS
  <2>2. \A i \in 1 .. m : c[i][f] \in Count
    <3>. SUFFICES ASSUME NEW i \in 1 .. m PROVE c[i][f] \in Count OBVIOUS
    <3>1. IsSlice(c[i], u) BY <1>3, <2>1
    <3> QED BY <3>1 DEF IsSlice, Count
  <2>3. \A i \in 1 .. m : OrZero(c[i][f]) \in Nat BY <2>2, CountsAre DEF Count
  <2>4. PICK z : z = [i \in 1 .. m |-> OrZero(c[i][f])] OBVIOUS
  <2>5. DOMAIN z = 1 .. m /\ z = [i \in 1 .. m |-> z[i]] /\ \A i \in 1 .. m : z[i] \in Nat BY <2>3, <2>4
  <2>6. SumOf(z) \in Nat BY <1>1, <2>5, SumIsNumber
  <2> QED BY <1>2, <2>1, <2>4, <2>6
<1>5. readsRest \in Nat /\ writesRest \in Nat
  <2>1. PICK a, b : a = Sum("reads") /\ b = Sum("writes") OBVIOUS
  <2>2. a \in Nat /\ b \in Nat BY <1>4, <2>1
  <2>3. OrZero(u.reads) \in Nat /\ OrZero(u.writes) \in Nat BY <1>1, CountsAre DEF Count
  <2>4. AtLeastZero(OrZero(u.reads) - a) \in Nat /\ AtLeastZero(OrZero(u.writes) - b) \in Nat
    BY <2>2, <2>3 DEF AtLeastZero, MaxOf
  <2> QED BY <2>1, <2>4
<1>6. IsSlice(rest, u)
  <2>1. PICK a, r, w : a = Sum("hour") /\ r = readsRest /\ w = writesRest OBVIOUS
  <2>2. a \in Nat BY <1>4, <2>1
  <2>3. split => AtLeastZero(u.hour - a) \in Nat BY <1>1, <2>2 DEF AtLeastZero, MaxOf, Count
  <2>4. PICK h : h = IF split THEN AtLeastZero(u.hour - a) ELSE None OBVIOUS
  <2>5. h \in Count BY <2>3, <2>4 DEF Count
  <2>6. rest = [model |-> NoModel, reads |-> r, writes |-> w, hour |-> h] BY <2>1, <2>4
  <2>7. r \in Nat /\ w \in Nat BY <1>5, <2>1
  <2>. HIDE DEF rest
  <2> QED BY <2>5, <2>6, <2>7 DEF IsSlice, SliceModels
<1>7. Slices(u) = IF readsRest + writesRest > 0 THEN Append(calls, rest) ELSE calls BY DEF Slices
<1>8. PICK c, r, p : c = calls /\ r = rest /\ (p <=> readsRest + writesRest > 0) OBVIOUS
<1>9. Slices(u) = IF p THEN Append(c, r) ELSE c BY <1>7, <1>8
<1>10. c = [i \in 1 .. m |-> c[i]] /\ \A i \in 1 .. m : IsSlice(c[i], u) BY <1>2, <1>3, <1>8
<1>11. IsSlice(r, u) BY <1>6, <1>8
<1>. HIDE DEF calls, rest, readsRest, writesRest, Sum, split, m
<1>12. CASE p
  <2>1. c \in Seq({c[i] : i \in 1 .. m}) /\ Len(c) = m BY <1>1, <1>10, SeqTyped
  <2>2. PICK d : d = Append(c, r) OBVIOUS
  <2>3. DOMAIN d = 1 .. m + 1 /\ d[m + 1] = r /\ \A i \in 1 .. m : d[i] = c[i] BY <1>1, <2>1, <2>2
  <2>4. \A i \in 1 .. m + 1 : i = m + 1 \/ i \in 1 .. m BY <1>1
  <2>5. \A i \in 1 .. m + 1 : IsSlice(d[i], u) BY <1>10, <1>11, <2>3, <2>4
  <2>6. m + 1 \in Nat BY <1>1
  <2> QED BY <1>9, <1>12, <2>2, <2>3, <2>5, <2>6
<1>13. CASE ~p BY <1>1, <1>9, <1>10, <1>13
<1> QED BY <1>12, <1>13

\* A slice of a model that cannot be weighted spends its reads and its writes.
LEMMA SliceInFull ==
  ASSUME NEW u, NEW table, NEW run, NEW s, IsSlice(s, u),
         ~Rateable(table, Candidates(table, s.model, run))
  PROVE  SpentOf(table, run, s) = s.reads + s.writes
<1>1. BudgetWeights(table, s.model, run) = FullWeights BY DEF BudgetWeights
<1>2. FullWeights.read = Unit /\ FullWeights.write = Unit /\ FullWeights.hour = Unit BY DEF FullWeights
<1>3. s.reads \in Nat /\ s.writes \in Nat /\ (s.hour = None \/ s.hour \in Nat) /\ Unit \in Nat /\ Unit > 0
  BY TokenUsageAssumption DEF IsSlice, Count
<1>4. MaxOf(Unit, Unit) = Unit BY DEF MaxOf
<1>. DEFINE hour == IF s.hour < s.writes THEN s.hour ELSE s.writes
            writes == IF s.hour = None THEN s.writes * Unit
                      ELSE (s.writes - hour) * Unit + hour * Unit
<1>5. SpentOf(table, run, s) = (s.reads * Unit + writes + Unit - 1) \div Unit BY <1>1, <1>2, <1>4 DEF SpentOf
<1>6. writes = s.writes * Unit
  <2>1. CASE s.hour = None BY <2>1
  <2>2. CASE s.hour # None
    <3>1. hour \in Nat /\ s.writes - hour \in Nat /\ hour + (s.writes - hour) = s.writes BY <1>3, <2>2
    <3>2. PICK a, b : a = hour /\ b = s.writes - hour OBVIOUS
    <3>3. a * Unit + b * Unit = (a + b) * Unit BY <1>3, <3>1, <3>2
    <3> QED BY <1>3, <2>2, <3>1, <3>2, <3>3
  <2> QED BY <2>1, <2>2
<1>. HIDE DEF hour, writes
<1>7. PICK n, k, r, w : n = r + w /\ r = s.reads /\ w = s.writes /\ k = Unit OBVIOUS
<1>8. r * k + w * k + k - 1 = n * k + k - 1 BY <1>3, <1>7
<1>9. (n * k + k - 1) \div k = n
  <2>1. n \in Nat /\ k \in Nat /\ k > 0 BY <1>3, <1>7
  <2> QED BY <2>1, WholeUnits
<1> QED BY <1>5, <1>6, <1>7, <1>8, <1>9

LEMMA RatesSafe == UnratedCountsInFull
<1>. SUFFICES ASSUME kind # NoSource, NEW u \in Usages, NEW run \in Models, Unweighable(u, run)
              PROVE  Spent(u, run) >= OrZero(u.input) + OrZero(u.output) BY DEF UnratedCountsInFull
<1>1. PICK table : table = CurrentTable OBVIOUS
<1>2. table # NoTable BY <1>1, RatesAssumption DEF CurrentTable
<1>3. \A m \in SliceModels(u) : ~Rateable(table, Candidates(table, m, run)) BY <1>1, <1>2 DEF Unweighable, SliceModels
<1>4. PICK S : S = Slices(u) OBVIOUS
<1>5. PICK n \in Nat : DOMAIN S = 1 .. n /\ \A i \in 1 .. n : IsSlice(S[i], u) BY <1>4, SlicesAre
<1>6. PICK f, g, h : /\ f = [i \in DOMAIN S |-> S[i]["reads"]]
                     /\ g = [i \in DOMAIN S |-> S[i]["writes"]]
                     /\ h = [i \in DOMAIN S |-> SpentOf(table, run, S[i])] OBVIOUS
<1>7. ASSUME NEW i \in 1 .. n PROVE f[i] \in Nat /\ g[i] \in Nat /\ h[i] = f[i] + g[i]
  <2>1. S[i].reads \in Nat /\ S[i].writes \in Nat /\ S[i].model \in SliceModels(u) BY <1>5 DEF IsSlice
  <2>2. SpentOf(table, run, S[i]) = S[i].reads + S[i].writes BY <1>3, <1>5, <2>1, SliceInFull
  <2> QED BY <1>5, <1>6, <2>1, <2>2
<1>8. Len(f) = n /\ Len(g) = n /\ Len(h) = n
  <2>1. \A i \in 1 .. n : h[i] \in Nat BY <1>7
  <2> QED BY <1>5, <1>6, <1>7, <2>1, SeqTyped
<1>9. PICK a, b, c : a = SumOf(f) /\ b = SumOf(g) /\ c = SumOf(h) OBVIOUS
<1>10. a \in Nat /\ b \in Nat /\ c = a + b
  <2>0. Len(f) \in Nat /\ \A i \in 1 .. Len(f) : f[i] \in Nat /\ g[i] \in Nat /\ h[i] = f[i] + g[i] BY <1>7, <1>8
  <2>1. SumOf(f) \in Nat /\ SumOf(g) \in Nat /\ SumOf(h) = SumOf(f) + SumOf(g) BY <2>0, <1>8, SumsAddUp
  <2> QED BY <1>9, <2>1
<1>11. PICK i, o : i = OrZero(u.input) /\ o = OrZero(u.output) OBVIOUS
<1>12. i \in Nat /\ o \in Nat BY <1>11, CountsAre, RatesAssumption DEF Count
<1>13. Spent(u, run) = AtLeastZero(i - a - b) + o + c
  <2>1. Spent(u, run) = SpentRated(u, run, table) BY <1>1, <1>2 DEF Spent
  <2>2. u.reported BY RatesAssumption
  <2> QED BY <1>4, <1>6, <1>9, <1>11, <2>1, <2>2 DEF SpentRated
<1>14. AtLeastZero(i - a - b) \in Nat /\ AtLeastZero(i - a - b) >= i - a - b BY <1>10, <1>12 DEF AtLeastZero, MaxOf
<1> QED BY <1>10, <1>11, <1>12, <1>13, <1>14

RatesInv == RatesTypeOK /\ source \in [table : Tables, seen : 0 .. stamp]

LEMMA RatesStart == RatesInit => RatesInv
<1>. SUFFICES ASSUME RatesInit PROVE RatesInv OBVIOUS
<1>1. NoTable \in Tables /\ MaxChanges \in Nat /\ MaxStarts \in Nat BY RatesAssumption DEF Tables
<1> QED BY <1>1 DEF RatesInit, RatesInv, RatesTypeOK, Fresh

LEMMA RatesStep == RatesInv /\ [RatesNext]_ratesVars => RatesInv'
<1>. SUFFICES ASSUME RatesInv, [RatesNext]_ratesVars PROVE RatesInv' OBVIOUS
<1>0. /\ source.table \in Tables /\ source.seen \in 0 .. stamp /\ stamp \in 1 .. MaxChanges + 1
      /\ source = [table |-> source.table, seen |-> source.seen]
      /\ copy \in Tables /\ NoTable \in Tables /\ MaxChanges \in Nat /\ MaxStarts \in Nat
      /\ starts \in 0 .. MaxStarts
      /\ kind \in {NoSource, "file", "http"} /\ served \in {Broken, Gone} \cup Documents
  BY RatesAssumption DEF RatesInv, RatesTypeOK, Tables
<1>1. \A table \in Tables : Fetched(table) \in Tables BY DEF Fetched, Tables
<1>2. ASSUME NEW table \in Tables, NEW n \in 0 .. stamp', source' = [table |-> table, seen |-> n],
             copy' \in Tables, stamp' \in 1 .. MaxChanges + 1, starts' \in 0 .. MaxStarts,
             kind' = kind, served' \in {Broken, Gone} \cup Documents
      PROVE  RatesInv'
  <2>1. source' \in [table : Tables, seen : 0 .. stamp'] /\ source'.table = table /\ source'.seen = n BY <1>2
  <2> QED BY <1>0, <1>2, <2>1 DEF RatesInv, RatesTypeOK, Tables
<1>3. CASE Start
  <2>1. PICK table : /\ table = IF kind # "http" THEN NoTable
                                 ELSE IF copy = NoTable THEN Fetched(copy) ELSE copy
                     /\ source' = [Fresh EXCEPT !.table = table]
                     /\ copy' \in IF kind = "http" /\ copy = NoTable THEN {table, copy} ELSE {copy} BY <1>3 DEF Start
  <2>2. table \in Tables BY <1>0, <1>1, <2>1
  <2>3. source' = [table |-> table, seen |-> 0] BY <2>1 DEF Fresh
  <2>4. copy' \in Tables BY <1>0, <2>1, <2>2
  <2>5. /\ starts' = starts + 1 /\ starts < MaxStarts /\ kind' = kind /\ served' = served
        /\ stamp' = stamp BY <1>3 DEF Start
  <2>6. 0 \in 0 .. stamp' /\ starts' \in 0 .. MaxStarts BY <1>0, <2>5
  <2> QED BY <1>0, <1>2, <2>2, <2>3, <2>4, <2>5, <2>6
<1>4. CASE Refresh
  <2>1. PICK table : table = Fetched(source.table) OBVIOUS
  <2>2. source' = [table |-> table, seen |-> source.seen] BY <1>0, <1>4, <2>1 DEF Refresh
  <2>3. table \in Tables BY <1>0, <1>1, <2>1
  <2>4. copy' \in Tables BY <1>0, <1>4 DEF Refresh, Tables
  <2>5. kind' = kind /\ served' = served /\ stamp' = stamp /\ starts' = starts BY <1>4 DEF Refresh
  <2> QED BY <1>0, <1>2, <2>2, <2>3, <2>4, <2>5
<1>5. CASE FileCurrent
  <2>1. PICK table : table = Fetched(source.table) OBVIOUS
  <2>2. source' = [table |-> table, seen |-> stamp] BY <1>5, <2>1 DEF FileCurrent
  <2>3. table \in Tables BY <1>0, <1>1, <2>1
  <2>4. /\ kind' = kind /\ served' = served /\ stamp' = stamp /\ starts' = starts /\ copy' = copy
    BY <1>5 DEF FileCurrent
  <2>5. stamp \in 0 .. stamp' BY <1>0, <2>4
  <2> QED BY <1>0, <1>2, <2>2, <2>3, <2>4, <2>5
<1>6. CASE Publish
  <2>1. /\ stamp <= MaxChanges /\ stamp' = stamp + 1 /\ kind' = kind /\ source' = source
        /\ copy' = copy /\ starts' = starts /\ served' \in {Broken, Gone} \cup Documents BY <1>6 DEF Publish
  <2>2. source.seen \in 0 .. stamp' /\ stamp' \in 1 .. MaxChanges + 1 BY <1>0, <2>1
  <2> QED BY <1>0, <1>2, <2>1, <2>2
<1>7. CASE UNCHANGED ratesVars BY <1>0, <1>2, <1>7 DEF ratesVars
<1> QED BY <1>3, <1>4, <1>5, <1>6, <1>7 DEF RatesNext

------------------------
(* The types of a turn (ExecutorTurns) *)

FoldFields == {"output", "parts", "usage", "held", "failed", "terminal", "items", "tools", "blocked"}

\* What a turn of n messages can have gathered.
FoldOf(f, n) ==
  DOMAIN f = FoldFields /\ f.output \in Outputs /\ f.parts \in 0..n /\ f.tools \in 0..n

LEMMA FoldsGrow ==
  ASSUME NEW n \in Nat, NEW f, FoldOf(f, n)
  PROVE  /\ FoldOf(f, n + 1)
         /\ \A text \in Outputs : FoldOf(Message(f, text), n)
         /\ FoldOf(Failed(f), n) /\ \A u : FoldOf(Completed(f, u), n)
         /\ \A u : FoldOf([f EXCEPT !.held = u], n) /\ FoldOf([f EXCEPT !.blocked = u], n)
         /\ FoldOf(Tool(f), n + 1)
<1>0. f.parts \in 0..n + 1 /\ f.tools \in 0..n + 1 /\ f.tools + 1 \in 0..n + 1 BY DEF FoldOf
<1>1. FoldOf(f, n + 1) BY <1>0 DEF FoldOf
<1>2. \A text \in Outputs : FoldOf(Message(f, text), n) BY DEF FoldOf, Message, FoldFields
<1>3. FoldOf(Failed(f), n) BY DEF FoldOf, Failed, FoldFields
<1>4. ASSUME NEW u PROVE FoldOf(Completed(f, u), n) BY DEF FoldOf, Completed, FoldFields
<1>5. ASSUME NEW u PROVE FoldOf([f EXCEPT !.held = u], n) /\ FoldOf([f EXCEPT !.blocked = u], n)
  BY DEF FoldOf, FoldFields
<1>6. FoldOf(Tool(f), n + 1) BY <1>0 DEF FoldOf, Tool, FoldFields
<1> QED BY <1>1, <1>2, <1>3, <1>4, <1>5, <1>6

TurnTypes ==
  /\ FoldOf(fold, count.messages) /\ count.messages <= MaxMessages
  /\ session \in {NoThread} \cup Sessions
  /\ phase = "idle" => fold = NoFold

LEMMA NoFoldIs == ASSUME NEW n \in Nat PROVE FoldOf(NoFold, n)
BY DEF FoldOf, FoldFields, NoFold, Outputs

LEMMA TypesSafe == TurnsInv /\ TurnTypes => TurnsTypeOK
<1>. SUFFICES ASSUME TurnsInv, TurnTypes PROVE TurnsTypeOK OBVIOUS
<1>1. /\ spec \in Specs /\ phase \in Phases /\ count.turns \in 0..MaxTurns /\ count.messages \in Nat
      /\ thread \in {NoThread, Pending} \cup Sessions BY DEF TurnsInv, TurnRecords, OneHandle
<1>2. live \subseteq Sessions
  <2>1. PICK k \in 0..count.turns : live = 1..k BY DEF TurnsInv, SessionsOpened
  <2> QED BY <1>1, <2>1, HandlesAssumption DEF Sessions
<1>3. MaxMessages \in Nat BY HandlesAssumption
<1>4. /\ fold.output \in Outputs /\ fold.parts \in 0..MaxMessages /\ fold.tools \in 0..MaxMessages
      /\ count.messages \in 0..MaxMessages BY <1>1, <1>3 DEF TurnTypes, FoldOf
<1> QED BY <1>1, <1>2, <1>4 DEF TurnsTypeOK, TurnTypes

LEMMA TypesStart == TurnsInit => TurnTypes
<1>. SUFFICES ASSUME TurnsInit PROVE TurnTypes OBVIOUS
<1>1. fold = NoFold /\ session = NoThread BY DEF TurnsInit
<1>2. PICK k : count = [turns |-> k, messages |-> 0] BY DEF TurnsInit
<1>3. count.messages = 0 BY <1>2
<1> QED BY <1>1, <1>3, NoFoldIs, HandlesAssumption DEF TurnTypes

\* What the loop gathers of one more message.
LEMMA SaysTypes ==
  ASSUME TurnsInv, TurnTypes, NEW f, Says(f), FoldOf(f, count.messages + 1), phase' = phase
  PROVE  TurnTypes'
<1>1. /\ phase = "streaming" /\ count.messages < MaxMessages /\ fold' = f /\ session' = session
      /\ count' = [count EXCEPT !.messages = @ + 1] BY DEF Says
<1>2. count \in [turns : 0..MaxTurns, messages : Nat] BY DEF TurnsInv, TurnRecords
<1>3. count'.messages = count.messages + 1 /\ count.messages \in Nat /\ MaxMessages \in Nat
  BY <1>1, <1>2, HandlesAssumption
<1> QED BY <1>1, <1>3 DEF TurnTypes

LEMMA TypesStep == TurnsInv /\ TurnTypes /\ [TurnsNext]_turnVars => TurnTypes'
<1>. SUFFICES ASSUME TurnsInv, TurnTypes, [TurnsNext]_turnVars PROVE TurnTypes' OBVIOUS
<1>. DEFINE n == count.messages
<1>0. n \in Nat /\ n <= MaxMessages /\ FoldOf(fold, n) /\ DOMAIN fold = FoldFields
  BY DEF TurnsInv, TurnRecords, TurnTypes, FoldFields
<1>1. /\ FoldOf(fold, n + 1) /\ FoldOf(Failed(fold), n) /\ FoldOf(Failed(fold), n + 1)
      /\ FoldOf(Tool(fold), n + 1)
      /\ \A text \in Outputs : FoldOf(Message(fold, text), n + 1)
      /\ \A u : FoldOf(Completed(fold, u), n) /\ FoldOf(Completed(fold, u), n + 1)
      /\ \A u : FoldOf([fold EXCEPT !.held = u], n + 1)
  <2>1. FoldOf(fold, n + 1) BY <1>0, FoldsGrow
  <2>2. n + 1 \in Nat BY <1>0
  <2> QED BY <1>0, <2>1, <2>2, FoldsGrow
<1>2. CASE UNCHANGED turnVars BY <1>2 DEF turnVars, TurnTypes, FoldOf
<1>3. CASE Begin
  <2>1. fold' = NoFold /\ count' = [turns |-> count.turns + 1, messages |-> 0] /\ session' = NoThread
        /\ phase' = "opening" BY <1>3 DEF Begin
  <2>2. count'.messages = 0 BY <2>1
  <2> QED BY <2>1, <2>2, NoFoldIs, HandlesAssumption DEF TurnTypes
<1>4. CASE Open
  <2>1. phase' = "streaming" /\ fold' = fold /\ count' = count BY <1>4 DEF Open
  <2>2. session' \in Sessions
    <3>1. CASE thread \in live /\ session' = thread
      <4>1. NoThread \notin Sessions /\ Pending \notin Sessions /\ live \subseteq Sessions
        BY TypesSafe, HandlesAssumption DEF TurnsTypeOK, Sessions
      <4> QED BY <3>1, <4>1
    <3>2. CASE session' = IF spec.kind = "headless" THEN thread ELSE NewSession
      <4>1. PICK k \in 0..count.turns : live = 1..k /\ k < count.turns BY <1>4 DEF Open, TurnsInv, SessionsOpened
      <4>2. k < MaxTurns /\ k \in Nat
        <5>1. count.turns \in 0..MaxTurns BY DEF TurnsInv, TurnRecords
        <5> QED BY <4>1, <5>1, HandlesAssumption
      <4>3. NewSession \in Sessions BY <4>1, <4>2, NewSessionIsNext
      <4>4. spec.kind = "headless" => thread \in Sessions BY <1>4 DEF Open, TurnsInv, OneHandle
      <4> QED BY <3>2, <4>3, <4>4
    <3> QED BY <1>4, <3>1, <3>2 DEF Open
  <2> QED BY <1>0, <2>1, <2>2 DEF TurnTypes
<1>5. CASE OpenFails \/ StreamBreaks BY <1>0, <1>1, <1>5 DEF OpenFails, StreamBreaks, TurnTypes
<1>6. CASE ClaudeInit BY <1>1, <1>6, SaysTypes DEF ClaudeInit
<1>7. CASE Text
  <2>1. PICK p : p = [fold EXCEPT !.parts = @ + 1] OBVIOUS
  <2>2. FoldOf(p, n + 1) /\ FoldOf(Tool(p), n + 1)
    <3>1. /\ p.parts = fold.parts + 1 /\ p.tools = fold.tools /\ p.output = fold.output
          /\ DOMAIN p = FoldFields BY <1>0, <2>1 DEF FoldFields
    <3>2. p.parts \in 0..n + 1 /\ p.tools \in 0..n + 1 /\ p.tools + 1 \in 0..n + 1 BY <1>0, <3>1 DEF FoldOf
    <3>3. p.output \in Outputs BY <1>0, <3>1 DEF FoldOf
    <3> QED BY <3>1, <3>2, <3>3 DEF FoldOf, Tool, FoldFields
  <2>3. PICK text \in {"first", "last"} : Says(Tool(p)) \/ Says(p) \/ Says(Message(fold, text))
    <3>1. PICK text \in {"first", "last"} : text = IF seen.texts = 0 THEN "first" ELSE "last" OBVIOUS
    <3> QED BY <1>7, <2>1, <3>1 DEF Text
  <2>4. FoldOf(Message(fold, text), n + 1) BY <1>1 DEF Outputs
  <2>5. phase' = phase BY <1>7 DEF Text
  <2> QED BY <2>2, <2>3, <2>4, <2>5, SaysTypes
<1>8. ASSUME NEW op \in OpClasses, UseTool(op) PROVE TurnTypes'
  <2>1. PICK bs, p : /\ p = [fold EXCEPT !.blocked = bs] /\ (Says(fold) \/ Says(Tool(p))) BY <1>8 DEF UseTool
  <2>4. FoldOf(p, n)
    <3>1. FoldOf([fold EXCEPT !.blocked = bs], n) BY <1>0, FoldsGrow
    <3> QED BY <2>1, <3>1
  <2>2. FoldOf(Tool(p), n + 1) BY <1>0, <2>4, FoldsGrow
  <2>3. phase' = phase BY <1>8 DEF UseTool
  <2> QED BY <1>1, <2>1, <2>2, <2>3, SaysTypes
<1>9. ASSUME NEW raw \in Raw, Report(raw) \/ EndsWell(raw) PROVE TurnTypes'
  <2>1. PICK u : u = UsageFrom(raw) OBVIOUS
  <2>2. Says([fold EXCEPT !.held = u]) \/ Says(Completed(fold, u)) BY <1>9, <2>1 DEF Report, EndsWell
  <2>3. phase' = phase BY <1>9 DEF Report, EndsWell
  <2> QED BY <1>1, <2>2, <2>3, SaysTypes
<1>10. CASE EndsBadly BY <1>1, <1>10, SaysTypes DEF EndsBadly
<1>11. ASSUME NEW exit \in {0, 1}, StreamEnds(exit) PROVE TurnTypes'
  <2>1. phase' = "closing" /\ session' = session /\ count' = count /\ fold' = Closed(fold, exit)
    BY <1>11 DEF StreamEnds
  <2>2. ASSUME NEW f, FoldOf(f, n) PROVE FoldOf(Joined(f), n) /\ FoldOf(Failed(f), n)
    BY <1>0, <2>2, FoldsGrow DEF Joined, Outputs
  <2>3. FoldOf(Closed(fold, exit), n)
    <3>1. PICK f, g, h, j, none : /\ f = Failed(fold) /\ g = Joined(fold) /\ h = Joined(f) /\ j = Failed(g)
                            /\ none = NoUsage OBVIOUS
    <3>2. FoldOf(f, n) /\ FoldOf(g, n) /\ FoldOf(h, n) /\ FoldOf(j, n) /\ FoldOf(Failed(h), n)
      BY <1>0, <1>1, <2>2, <3>1
    <3>3. FoldOf(Completed(g, none), n) /\ FoldOf(Completed(fold, fold.held), n) BY <1>0, <1>1, <3>2, FoldsGrow
    <3>4. Closed(fold, exit) \in {f, fold, g, h, j, Failed(h), Completed(g, none),
                                  Completed(fold, fold.held)} BY <3>1 DEF Closed
    <3> QED BY <1>0, <3>2, <3>3, <3>4
  <2> QED BY <1>0, <2>1, <2>3 DEF TurnTypes
<1>12. CASE Finish \/ Cancelled
  <2>1. fold' = NoFold /\ session' = NoThread /\ count' = count BY <1>12 DEF Finish, Cancelled, Back
  <2> QED BY <1>0, <2>1, NoFoldIs DEF TurnTypes
<1> QED BY <1>2, <1>3, <1>4, <1>5, <1>6, <1>7, <1>8, <1>9, <1>10, <1>11, <1>12 DEF TurnsNext

------------------------
(* The inbox (Inbox) *)

InboxEntries == [seq : Nat, source : Sources, item : Items, version : ItemVersions]
ItemsSeen == [key : Items \X ItemVersions, item : Items, version : ItemVersions]
SourceRecords ==
  [status : {"never", "ok", "error"}, seen : SUBSET ItemsSeen, polled : BOOLEAN,
   overflow : BOOLEAN, edition : {0, 1}]
Windows == [Items -> ItemVersions]

\* A list of entries in the order of their numbers, the last of which is n or before.
Rising(list, n) ==
  /\ list \in Seq(InboxEntries)
  /\ \A j, k \in 1 .. Len(list) : j < k => list[j].seq < list[k].seq
  /\ \A k \in 1 .. Len(list) : list[k].seq <= n
Limited(list) ==
  \A s \in Sources : IsFiniteSet(Mine(list, s)) /\ Cardinality(Mine(list, s)) <= MaxEntries

\* What the code keeps in memory and in inbox.json.
KeyBy(ids, s, i, v) == IF s \in ids THEN <<i, 0>> ELSE <<i, v>>
RecordOK(new, ids) ==
  /\ new \in [seq : Nat, entries : Seq(InboxEntries), src : [Sources -> SourceRecords]]
  /\ Rising(new.entries, new.seq) /\ Limited(new.entries)
  /\ \A s \in Sources : \A e \in new.src[s].seen : e.key = KeyBy(ids, s, e.item, e.version)

InboxTypes ==
  /\ window \in [Sources -> Windows] /\ keyed \subseteq Sources
  /\ RecordOK(state, keyed) /\ RecordOK(inboxFile, keyed) /\ edition \in {0, 1}
  /\ polling \in [Sources -> {NoCall} \cup {<<w>> : w \in Windows}]
  /\ view \in [seq : Nat, entries : Seq(InboxEntries), overflow : SUBSET Sources]
  /\ \A f \in Range(view.entries) : f.seq <= view.seq
  /\ lastGood \in [Sources -> Windows] /\ DOMAIN told = Sources
  /\ edits \in 0..MaxItemEdits /\ troubles \in 0..MaxFaults

\* Nobody who is to be told of x is left without: it was told, has an entry, or the source says
\* that there may be more and goes on saying so until who acknowledges has been shown that, or x.
Pairs(es) == {<<e.item, e.version>> : e \in es}
EntriesOf(list, s) == {e \in Range(list) : e.source = s}
Excused(s, x, list, shown) ==
  \/ s \in shown.overflow
  \/ \A e \in EntriesOf(list, s) :
       e.seq <= shown.seq =>
         \E f \in EntriesOf(shown.entries, s) : <<f.item, f.version>> = x /\ f.seq <= e.seq
Accounted(s, x, new, shown, known) ==
  \/ x \in known[s] \/ x \in Pairs(EntriesOf(new.entries, s))
  \/ new.src[s].overflow /\ Excused(s, x, new.entries, shown)
Accounts(new, shown, known, good) ==
  /\ shown.seq <= new.seq
  /\ \A e \in Range(new.entries) : e.seq <= shown.seq => e \in Range(shown.entries)
  /\ \A s \in Sources :
       /\ \A x \in Pairs(new.src[s].seen) : Accounted(s, x, new, shown, known)
       /\ Shown(good[s]) \subseteq Pairs(new.src[s].seen)

InboxInv == InboxTypes /\ (~lost => Accounts(state, view, told, lastGood))

\* A list of so many things is one.
LEMMA RangeIs ==
  ASSUME NEW T, NEW s \in Seq(T)
  PROVE  /\ Range(s) \subseteq T /\ DOMAIN s = 1 .. Len(s) /\ Len(s) \in Nat
         /\ \A e \in Range(s) : \E k \in 1 .. Len(s) : s[k] = e
         /\ \A k \in 1 .. Len(s) : s[k] \in Range(s)
<1>1. DOMAIN s = 1 .. Len(s) /\ Len(s) \in Nat /\ \A k \in 1 .. Len(s) : s[k] \in T OBVIOUS
<1> QED BY <1>1 DEF Range

\* What is left of a rising list rises, and has no more of a source than was not to go.
LEMMA WithoutRises ==
  ASSUME NEW n, NEW list, Rising(list, n), NEW out
  PROVE  /\ Rising(Without(list, out), n)
         /\ Range(Without(list, out)) = Range(list) \ out
         /\ \A s : IsFiniteSet(Mine(list, s)) =>
              /\ IsFiniteSet(Mine(Without(list, out), s))
              /\ Cardinality(Mine(Without(list, out), s))
                   <= Cardinality({k \in Mine(list, s) : list[k] \notin out})
<1>0. list \in Seq(InboxEntries) BY DEF Rising
<1>1. PICK w : w = Without(list, out) OBVIOUS
<1>2. PICK f : Remains(w, list, out, Len(list), f) BY <1>0, <1>1, WithoutRemains
<1>3. /\ w \in Seq(InboxEntries) /\ DOMAIN w = 1 .. Len(w) /\ DOMAIN list = 1 .. Len(list)
      /\ Len(w) \in Nat /\ Len(list) \in Nat
  <2>1. w \in Seq(InboxEntries) BY <1>0, <1>1, WithoutIs
  <2> QED BY <1>0, <2>1, RangeIs
<1>4. \A k \in 1 .. Len(w) : f[k] \in 1 .. Len(list) /\ w[k] = list[f[k]] /\ w[k] \notin out BY <1>2 DEF Remains
<1>5. Rising(w, n)
  <2>1. \A j, k \in 1 .. Len(w) : j < k => f[j] < f[k] BY <1>2 DEF Remains
  <2>2. \A j, k \in 1 .. Len(w) : j < k => w[j].seq < w[k].seq BY <1>4, <2>1 DEF Rising
  <2>3. \A k \in 1 .. Len(w) : w[k].seq <= n BY <1>4 DEF Rising
  <2> QED BY <1>3, <2>2, <2>3 DEF Rising
<1>6. Range(w) = Range(list) \ out
  <2>1. ASSUME NEW e \in Range(w) PROVE e \in Range(list) \ out
    <3>1. PICK k \in 1 .. Len(w) : w[k] = e BY <1>3, RangeIs
    <3> QED BY <1>0, <1>4, <3>1, RangeIs
  <2>2. ASSUME NEW e \in Range(list), e \notin out PROVE e \in Range(w)
    <3>1. PICK k \in 1 .. Len(list) : list[k] = e BY <1>0, RangeIs
    <3>2. PICK j \in 1 .. Len(w) : f[j] = k BY <1>2, <2>2, <3>1 DEF Remains
    <3> QED BY <1>3, <1>4, <3>1, <3>2, RangeIs
  <2> QED BY <2>1, <2>2
<1>7. ASSUME NEW s, IsFiniteSet(Mine(list, s))
      PROVE  /\ IsFiniteSet(Mine(w, s))
             /\ Cardinality(Mine(w, s)) <= Cardinality({k \in Mine(list, s) : list[k] \notin out})
  <2>. DEFINE T == {k \in Mine(list, s) : list[k] \notin out}
              g == [k \in Mine(w, s) |-> f[k]]
  <2>1. IsFiniteSet(T) BY <1>7, FS_Subset
  <2>2. \A k \in Mine(w, s) : k \in 1 .. Len(w) /\ w[k].source = s BY <1>3 DEF Mine
  <2>3. \A k \in Mine(w, s) : f[k] \in T BY <1>3, <1>4, <2>2 DEF Mine
  <2>4. \A j, k \in Mine(w, s) : f[j] = f[k] => j = k
    <3>. SUFFICES ASSUME NEW j \in Mine(w, s), NEW k \in Mine(w, s), j # k PROVE f[j] # f[k] OBVIOUS
    <3>1. j \in 1 .. Len(w) /\ k \in 1 .. Len(w) BY <2>2
    <3>2. j < k => f[j] < f[k] BY <1>2, <3>1 DEF Remains
    <3>3. k < j => f[k] < f[j] BY <1>2, <3>1 DEF Remains
    <3>4. f[j] \in Nat /\ f[k] \in Nat BY <1>4, <3>1
    <3> QED BY <1>3, <3>1, <3>2, <3>3, <3>4
  <2>5. g \in Injection(Mine(w, s), T)
    <3>1. g \in [Mine(w, s) -> T] BY <2>3
    <3>2. DOMAIN g = Mine(w, s) /\ \A k \in Mine(w, s) : g[k] = f[k] OBVIOUS
    <3>3. IsInjective(g)
      <4>. HIDE DEF g
      <4> QED BY <2>4, <3>2 DEF IsInjective
    <3> QED BY <3>1, <3>3 DEF Injection
  <2>. HIDE DEF T, g
  <2>6. IsFiniteSet(Mine(w, s)) /\ Cardinality(Mine(w, s)) <= Cardinality(T) BY <2>1, <2>5, FS_Injection
  <2> QED BY <2>6 DEF T
<1> QED BY <1>1, <1>5, <1>6, <1>7

\* The entries past the limit are of that source, older than all that stay, and leave no more
\* than the limit.
LEMMA PastLimitIs ==
  ASSUME NEW n, NEW list, Rising(list, n), NEW s
  PROVE  /\ \A e \in PastLimit(list, s) : e \in Range(list) /\ e.source = s
         /\ \A d \in PastLimit(list, s) : \A e \in EntriesOf(list, s) \ PastLimit(list, s) :
              d.seq < e.seq
         /\ Cardinality({k \in Mine(list, s) : list[k] \notin PastLimit(list, s)}) <= MaxEntries
<1>. DEFINE own == Mine(list, s)
            since(m) == {k \in own : list[k].seq >= list[m].seq}
<1>0. list \in Seq(InboxEntries) /\ DOMAIN list = 1 .. Len(list) /\ Len(list) \in Nat
  <2>1. list \in Seq(InboxEntries) BY DEF Rising
  <2> QED BY <2>1, RangeIs
<1>1. PastLimit(list, s) = {list[k] : k \in {m \in own : Cardinality(since(m)) > MaxEntries}} BY DEF PastLimit
<1>8. \A k \in 1 .. Len(list) : list[k] \in InboxEntries BY <1>0
<1>9. \A k \in 1 .. Len(list) : list[k].seq \in Nat BY <1>8 DEF InboxEntries
<1>2. \A k : k \in own <=> k \in 1 .. Len(list) /\ list[k].source = s BY <1>0 DEF Mine
<1>10. \A m : \A k : k \in since(m) <=> k \in own /\ list[k].seq >= list[m].seq OBVIOUS
<1>11. \A m : since(m) \in SUBSET own OBVIOUS
<1>. HIDE DEF own, since
<1>3. IsFiniteSet(own)
  <2>1. IsFiniteSet(1 .. Len(list)) BY <1>0, FS_Interval
  <2>2. own \subseteq 1 .. Len(list) BY <1>2
  <2> QED BY <2>1, <2>2, FS_Subset
<1>4. ASSUME NEW m \in own PROVE IsFiniteSet(since(m)) /\ Cardinality(since(m)) \in Nat
  <2> QED BY <1>3, <1>11, FS_Subset, FS_CardinalityType
<1>5. ASSUME NEW e \in PastLimit(list, s) PROVE e \in Range(list) /\ e.source = s
  <2>1. PICK k \in own : e = list[k] BY <1>1
  <2> QED BY <1>0, <1>2, <2>1, RangeIs
<1>6. ASSUME NEW d \in PastLimit(list, s), NEW e \in EntriesOf(list, s) \ PastLimit(list, s)
      PROVE  d.seq < e.seq
  <2>1. PICK m \in own : d = list[m] /\ Cardinality(since(m)) > MaxEntries BY <1>1
  <2>2. PICK j \in 1 .. Len(list) : e = list[j] BY <1>0, RangeIs DEF EntriesOf
  <2>3. j \in own BY <1>2, <2>2 DEF EntriesOf
  <2>4. ~(Cardinality(since(j)) > MaxEntries) BY <1>1, <2>2, <2>3
  <2>5. SUFFICES ASSUME e.seq <= d.seq PROVE FALSE BY <1>2, <1>9, <2>1, <2>2, <2>3
  <2>6. since(m) \in SUBSET since(j)
    <3>. SUFFICES ASSUME NEW k \in since(m) PROVE k \in since(j) OBVIOUS
    <3>1. k \in own /\ list[k].seq >= list[m].seq BY <1>10
    <3>2. list[k].seq \in Nat /\ list[m].seq \in Nat /\ list[j].seq \in Nat BY <1>2, <1>9, <2>1, <2>3, <3>1
    <3>3. list[k].seq >= list[j].seq BY <2>1, <2>2, <2>5, <3>1, <3>2
    <3> QED BY <1>10, <3>1, <3>3
  <2>7. Cardinality(since(m)) <= Cardinality(since(j)) BY <1>4, <2>3, <2>6, FS_Subset
  <2>8. PICK a, b : a = Cardinality(since(m)) /\ b = Cardinality(since(j)) OBVIOUS
  <2>9. a \in Nat /\ b \in Nat /\ a > MaxEntries /\ ~(b > MaxEntries) /\ a <= b BY <1>4, <2>1, <2>3, <2>4, <2>7, <2>8
  <2> QED BY <2>9, InboxAssumption
<1>7. ASSUME NEW kept, kept = {k \in own : list[k] \notin PastLimit(list, s)}
      PROVE  Cardinality(kept) <= MaxEntries
  <2>1. CASE kept = {} BY <2>1, FS_EmptySet, InboxAssumption
  <2>2. CASE kept # {}
    <3>1. kept \subseteq Nat /\ kept \subseteq own BY <1>2, <1>7
    <3>2. PICK m \in kept : \A k \in kept : m <= k BY <2>2, <3>1, Least
    <3>3. \A k \in kept : list[m].seq <= list[k].seq
      <4>. SUFFICES ASSUME NEW k \in kept PROVE list[m].seq <= list[k].seq OBVIOUS
      <4>1. m <= k /\ m \in 1 .. Len(list) /\ k \in 1 .. Len(list) BY <1>2, <3>1, <3>2
      <4>2. m < k => list[m].seq < list[k].seq BY <4>1 DEF Rising
      <4>3. list[m].seq \in Nat /\ list[k].seq \in Nat BY <1>9, <4>1
      <4> QED BY <4>1, <4>2, <4>3
    <3>4. kept \in SUBSET since(m)
      <4>1. \A k \in kept : list[m].seq \in Nat /\ list[k].seq \in Nat BY <1>2, <1>9, <3>1
      <4>2. \A k \in kept : list[k].seq >= list[m].seq BY <3>3, <4>1
      <4> QED BY <1>10, <3>1, <4>2
    <3>5. ~(Cardinality(since(m)) > MaxEntries) BY <1>1, <1>7, <3>1
    <3>6. Cardinality(kept) <= Cardinality(since(m)) /\ Cardinality(kept) \in Nat
      BY <1>4, <3>1, <3>4, FS_Subset, FS_CardinalityType
    <3> QED BY <1>4, <3>1, <3>5, <3>6, InboxAssumption
  <2> QED BY <2>1, <2>2
<1> QED BY <1>5, <1>6, <1>7 DEF own

\* The items of a set, one after the other.
LEMMA ListedIs ==
  ASSUME NEW S \in SUBSET Items
  PROVE  SetToSeq(S) \in Seq(Items) /\ Range(SetToSeq(S)) = S
<1>1. IsFiniteSet(S) BY InboxAssumption, FS_Subset
<1>2. Cardinality(S) \in Nat /\ ExistsBijection(1 .. Cardinality(S), S) BY <1>1, FS_CardinalityType
<1>3. PICK n \in Nat : n = Cardinality(S) BY <1>2
<1>4. \E f \in [1 .. n -> S] : IsInjective(f) BY <1>2, <1>3 DEF ExistsBijection, Bijection, Injection
<1>5. PICK q : q = SetToSeq(S) OBVIOUS
<1>6. q \in [1 .. n -> S] /\ IsInjective(q) BY <1>3, <1>4, <1>5 DEF SetToSeq
<1>7. q \in Injection(1 .. n, S) BY <1>6 DEF Injection
<1>8. Cardinality(1 .. n) = Cardinality(S)
  <2>1. 1 \in Int /\ n \in Int OBVIOUS
  <2>2. Cardinality(1 .. n) = IF 1 > n THEN 0 ELSE n - 1 + 1 BY <2>1, FS_Interval
  <2> QED BY <1>3, <2>2
<1>9. q \in Surjection(1 .. n, S) BY <1>1, <1>7, <1>8, FS_Injection
<1>10. Range(q) = S BY <1>6, <1>9 DEF Range, Surjection
<1>11. q \in Seq(Items) BY <1>6
<1> QED BY <1>5, <1>10, <1>11

\* A poll's entries after those that were there.
Grown(list, n, s, r, w) == list \o [k \in DOMAIN r |-> NewEntry(n + k, s, r[k], w[r[k]])]
LEMMA GrownIs ==
  ASSUME NEW n \in Nat, NEW list, Rising(list, n), NEW s \in Sources, NEW w \in Windows,
         NEW r \in Seq(Items), NEW g,
         g = Grown(list, n, s, r, w)
  PROVE  /\ Rising(g, n + Len(r)) /\ Range(list) \subseteq Range(g)
         /\ \A e \in Range(g) : e \in Range(list) \/ (e.seq > n /\ e.source = s)
         /\ \A i \in Range(r) : \E e \in Range(g) : e.source = s /\ <<e.item, e.version>> = <<i, w[i]>>
         /\ \A t : t # s => Mine(g, t) = Mine(list, t)
         /\ \A t : IsFiniteSet(Mine(g, t))
<1>. DEFINE m == Len(list)
<1>0. /\ list \in Seq(InboxEntries) /\ DOMAIN list = 1 .. m /\ m \in Nat
      /\ DOMAIN r = 1 .. Len(r) /\ Len(r) \in Nat /\ \A k \in 1 .. Len(r) : r[k] \in Items
  <2>1. list \in Seq(InboxEntries) BY DEF Rising
  <2>2. DOMAIN list = 1 .. m /\ m \in Nat BY <2>1, RangeIs
  <2>3. DOMAIN r = 1 .. Len(r) /\ Len(r) \in Nat BY RangeIs
  <2>4. \A k \in 1 .. Len(r) : r[k] \in Items OBVIOUS
  <2> QED BY <2>1, <2>2, <2>3, <2>4
<1>1. PICK a : a = [k \in 1 .. Len(r) |-> NewEntry(n + k, s, r[k], w[r[k]])] OBVIOUS
<1>2. \A k \in 1 .. Len(r) :
        /\ a[k] = NewEntry(n + k, s, r[k], w[r[k]]) /\ a[k] \in InboxEntries
        /\ a[k].seq = n + k /\ a[k].source = s /\ a[k].item = r[k] /\ a[k].version = w[r[k]]
  <2>. SUFFICES ASSUME NEW k \in 1 .. Len(r)
                PROVE  /\ a[k] = NewEntry(n + k, s, r[k], w[r[k]]) /\ a[k] \in InboxEntries
                       /\ a[k].seq = n + k /\ a[k].source = s /\ a[k].item = r[k]
                       /\ a[k].version = w[r[k]] OBVIOUS
  <2>1. a[k] = NewEntry(n + k, s, r[k], w[r[k]]) BY <1>1
  <2>2. n + k \in Nat /\ r[k] \in Items /\ w[r[k]] \in ItemVersions BY <1>0 DEF Windows
  <2> QED BY <2>1, <2>2 DEF NewEntry, InboxEntries
<1>3. a \in Seq(InboxEntries) /\ Len(a) = Len(r)
  <2>1. a = [k \in 1 .. Len(r) |-> a[k]] BY <1>1
  <2> QED BY <1>0, <1>2, <2>1, SeqTyped
<1>4. g = list \o a BY <1>0, <1>1 DEF Grown
<1>5. g \in Seq(InboxEntries) /\ Len(g) = m + Len(r)
  <2>1. list \in Seq(InboxEntries) /\ a \in Seq(InboxEntries) BY <1>0, <1>3
  <2>2. list \o a \in Seq(InboxEntries) BY <2>1
  <2>3. Len(list \o a) = Len(list) + Len(a) BY <2>1
  <2> QED BY <1>3, <1>4, <2>2, <2>3
<1>6. /\ \A k \in 1 .. m : g[k] = list[k]
      /\ \A k \in 1 .. m + Len(r) : k > m => k - m \in 1 .. Len(r) /\ g[k] = a[k - m] BY <1>0, <1>3, <1>4
<1>7. ASSUME NEW k \in 1 .. m + Len(r)
      PROVE  \/ k \in 1 .. m /\ g[k] = list[k] /\ g[k].seq <= n /\ g[k].seq \in Nat
             \/ /\ k > m /\ g[k].seq = n + (k - m) /\ g[k].source = s
                /\ g[k] = a[k - m] /\ k - m \in 1 .. Len(r)
  <2>1. CASE k \in 1 .. m
    <3>1. list[k] \in InboxEntries BY <1>0, <2>1
    <3>2. g[k] = list[k] /\ list[k].seq <= n BY <1>6, <2>1 DEF Rising
    <3> QED BY <2>1, <3>1, <3>2 DEF InboxEntries
  <2>2. CASE k \notin 1 .. m BY <1>0, <1>2, <1>6, <2>2
  <2> QED BY <2>1, <2>2
<1>8. Rising(g, n + Len(r))
  <2>1. ASSUME NEW j \in 1 .. Len(g), NEW k \in 1 .. Len(g), j < k PROVE g[j].seq < g[k].seq
    <3>1. j \in 1 .. m + Len(r) /\ k \in 1 .. m + Len(r) BY <1>5
    <3>2. CASE k \in 1 .. m
      <4>1. j \in 1 .. m BY <1>0, <2>1, <3>1, <3>2
      <4> QED BY <1>6, <2>1, <3>2, <4>1 DEF Rising
    <3>3. CASE k \notin 1 .. m
      <4>1. g[k].seq = n + (k - m) /\ k > m BY <1>7, <3>1, <3>3
      <4>2. (g[j].seq <= n /\ g[j].seq \in Nat) \/ g[j].seq = n + (j - m) BY <1>7, <3>1
      <4> QED BY <1>0, <2>1, <3>1, <4>1, <4>2
    <3> QED BY <3>2, <3>3
  <2>2. ASSUME NEW k \in 1 .. Len(g) PROVE g[k].seq <= n + Len(r)
    <3>1. k \in 1 .. m + Len(r) BY <1>5
    <3> QED BY <1>0, <1>7, <3>1
  <2> QED BY <1>5, <2>1, <2>2 DEF Rising
<1>9. ASSUME NEW e \in Range(list) PROVE e \in Range(g)
  <2>1. PICK k \in 1 .. m : list[k] = e BY <1>0, RangeIs
  <2>2. k \in 1 .. Len(g) /\ g[k] = e BY <1>0, <1>5, <1>6, <2>1
  <2> QED BY <1>5, <2>2, RangeIs
<1>10. ASSUME NEW e \in Range(g) PROVE e \in Range(list) \/ (e.seq > n /\ e.source = s)
  <2>1. PICK k \in 1 .. Len(g) : g[k] = e BY <1>5, RangeIs
  <2>2. k \in 1 .. m + Len(r) BY <1>5, <2>1
  <2>3. CASE k \in 1 .. m BY <1>0, <1>6, <2>1, <2>3, RangeIs
  <2>4. CASE k \notin 1 .. m
    <3>1. e.seq = n + (k - m) /\ k > m /\ e.source = s BY <1>7, <2>1, <2>2, <2>4
    <3> QED BY <1>0, <3>1
  <2> QED BY <2>3, <2>4
<1>11. ASSUME NEW i \in Range(r)
       PROVE  \E e \in Range(g) : e.source = s /\ <<e.item, e.version>> = <<i, w[i]>>
  <2>1. PICK k \in 1 .. Len(r) : r[k] = i BY RangeIs
  <2>2. m + k \in 1 .. Len(g) /\ m + k > m /\ (m + k) - m = k BY <1>0, <1>5
  <2>3. g[m + k] = a[k] BY <1>0, <1>5, <1>6, <2>2
  <2>4. g[m + k] \in Range(g) BY <1>5, <2>2, RangeIs
  <2> QED BY <1>2, <2>1, <2>3, <2>4
<1>12. ASSUME NEW t, t # s PROVE Mine(g, t) = Mine(list, t)
  <2>1. DOMAIN g = 1 .. m + Len(r) BY <1>5, RangeIs
  <2>2. \A k \in 1 .. m + Len(r) : g[k].source = t => k \in 1 .. m /\ list[k].source = t BY <1>7, <1>12
  <2>3. \A k \in 1 .. m : list[k].source = t => k \in 1 .. m + Len(r) /\ g[k].source = t BY <1>0, <1>6
  <2> QED BY <1>0, <2>1, <2>2, <2>3 DEF Mine
<1>13. ASSUME NEW t PROVE IsFiniteSet(Mine(g, t))
  <2>1. DOMAIN g = 1 .. m + Len(r) BY <1>5, RangeIs
  <2>2. IsFiniteSet(1 .. m + Len(r)) BY <1>0, FS_Interval
  <2>3. Mine(g, t) \in SUBSET (1 .. m + Len(r)) BY <2>1 DEF Mine
  <2> QED BY <2>2, <2>3, FS_Subset
<1> QED BY <1>8, <1>9, <1>10, <1>11, <1>12, <1>13

LEMMA KeyIs == ASSUME NEW s, NEW i, NEW v PROVE Key(s, i, v) = KeyBy(keyed, s, i, v)
BY DEF Key, KeyBy

LEMMA RecordWith ==
  ASSUME NEW ids, NEW n \in Nat, NEW list, Rising(list, n), Limited(list),
         NEW src \in [Sources -> SourceRecords],
         \A s \in Sources : \A e \in src[s].seen : e.key = KeyBy(ids, s, e.item, e.version),
         NEW new, new = [seq |-> n, entries |-> list, src |-> src]
  PROVE  RecordOK(new, ids)
<1>1. new.seq = n /\ new.entries = list /\ new.src = src OBVIOUS
<1>2. list \in Seq(InboxEntries) BY DEF Rising
<1> QED BY <1>1, <1>2 DEF RecordOK

LEMMA RecordIs ==
  ASSUME NEW ids, NEW new, RecordOK(new, ids)
  PROVE  /\ new.seq \in Nat /\ Rising(new.entries, new.seq) /\ Limited(new.entries)
         /\ new.entries \in Seq(InboxEntries)
         /\ new.src \in [Sources -> SourceRecords]
         /\ new = [seq |-> new.seq, entries |-> new.entries, src |-> new.src]
         /\ \A s \in Sources :
              /\ new.src[s].status \in {"never", "ok", "error"} /\ new.src[s].seen \subseteq ItemsSeen
              /\ new.src[s].polled \in BOOLEAN /\ new.src[s].overflow \in BOOLEAN
              /\ new.src[s].edition \in {0, 1}
              /\ \A e \in new.src[s].seen : e.key = KeyBy(ids, s, e.item, e.version)
<1>1. new \in [seq : Nat, entries : Seq(InboxEntries), src : [Sources -> SourceRecords]] BY DEF RecordOK
<1>2. \A s \in Sources : new.src[s] \in SourceRecords BY <1>1
<1>3. ASSUME NEW s \in Sources
      PROVE  /\ new.src[s].status \in {"never", "ok", "error"} /\ new.src[s].seen \subseteq ItemsSeen
             /\ new.src[s].polled \in BOOLEAN /\ new.src[s].overflow \in BOOLEAN
             /\ new.src[s].edition \in {0, 1} BY <1>2 DEF SourceRecords
<1> QED BY <1>1, <1>3 DEF RecordOK

LEMMA InboxSafe == InboxInv => InboxTypeOK /\ NothingIsMissed
<1>. SUFFICES ASSUME InboxInv PROVE InboxTypeOK /\ NothingIsMissed OBVIOUS
<1>1. InboxTypeOK
  <2>1. ASSUME NEW new, RecordOK(new, keyed)
        PROVE  /\ \A e \in Range(new.entries) : e.seq <= new.seq /\ e.source \in Sources
               /\ \A s \in Sources : /\ new.src[s].status \in {"never", "ok", "error"}
                                     /\ Cardinality(Mine(new.entries, s)) <= MaxEntries
                                     /\ \A e \in new.src[s].seen :
                                          e.item \in Items /\ e.version \in ItemVersions
    <3>1. ASSUME NEW e \in Range(new.entries) PROVE e.seq <= new.seq /\ e.source \in Sources
      <4>1. new.entries \in Seq(InboxEntries) /\ Rising(new.entries, new.seq) BY <2>1, RecordIs
      <4>2. PICK k \in 1 .. Len(new.entries) : new.entries[k] = e BY <4>1, RangeIs
      <4>3. e \in InboxEntries BY <4>1, RangeIs
      <4> QED BY <4>1, <4>2, <4>3 DEF Rising, InboxEntries
    <3>2. ASSUME NEW s \in Sources
          PROVE  /\ new.src[s].status \in {"never", "ok", "error"}
                 /\ Cardinality(Mine(new.entries, s)) <= MaxEntries
                 /\ \A e \in new.src[s].seen : e.item \in Items /\ e.version \in ItemVersions
      <4>1. /\ new.src[s].status \in {"never", "ok", "error"} /\ new.src[s].seen \subseteq ItemsSeen
            /\ Limited(new.entries) BY <2>1, RecordIs
      <4> QED BY <4>1 DEF Limited, ItemsSeen
    <3> QED BY <3>1, <3>2
  <2>2. RecordOK(state, keyed) /\ RecordOK(inboxFile, keyed) BY DEF InboxInv, InboxTypes
  <2>3. /\ window \in [Sources -> [Items -> ItemVersions]] /\ keyed \subseteq Sources
        /\ lastGood \in [Sources -> [Items -> ItemVersions]]
        /\ edits \in 0..MaxItemEdits /\ troubles \in 0..MaxFaults BY DEF InboxInv, InboxTypes, Windows
  <2> QED BY <2>1, <2>2, <2>3 DEF InboxTypeOK
<1>2. NothingIsMissed
  <2>. SUFFICES ASSUME ~lost, NEW s \in Sources, NEW x \in Shown(lastGood[s])
                PROVE  \/ x \in told[s] \/ state.src[s].overflow
                       \/ \E e \in Range(state.entries) : e.source = s /\ <<e.item, e.version>> = x
    BY DEF NothingIsMissed
  <2>1. Accounted(s, x, state, view, told) BY DEF InboxInv, Accounts
  <2> QED BY <2>1 DEF Accounted, Pairs, EntriesOf
<1> QED BY <1>1, <1>2

LEMMA InboxStart == InboxInit => InboxInv
<1>. SUFFICES ASSUME InboxInit PROVE InboxInv OBVIOUS
<1>0. MaxItemEdits \in Nat /\ MaxFaults \in Nat /\ MaxEntries \in Nat BY InboxAssumption
<1>1. 0 \in ItemVersions /\ 1 \in ItemVersions BY <1>0 DEF ItemVersions
<1>2. /\ \A there \in SUBSET Items : [i \in Items |-> IF i \in there THEN 1 ELSE 0] \in Windows
      /\ EmptyWindow \in Windows BY <1>1 DEF Windows, EmptyWindow
<1>3. window \in [Sources -> Windows]
  <2>1. PICK W : W = {[i \in Items |-> IF i \in there THEN 1 ELSE 0] : there \in SUBSET Items} OBVIOUS
  <2>2. W \subseteq Windows BY <1>2, <2>1
  <2>3. window \in [Sources -> W] BY <2>1 DEF InboxInit
  <2> QED BY <2>2, <2>3
<1>4. PICK none : none = << >> OBVIOUS
<1>5. none \in Seq(InboxEntries) /\ Len(none) = 0 /\ Range(none) = {} /\ DOMAIN none = {} BY <1>4 DEF Range
<1>6. Rising(none, 0) /\ Limited(none)
  <2>1. \A s : Mine(none, s) = {} BY <1>5 DEF Mine
  <2>2. Limited(none) BY <1>0, <2>1, FS_EmptySet DEF Limited
  <2>3. \A k : k \notin 1 .. Len(none) BY <1>5
  <2> QED BY <1>5, <2>2, <2>3 DEF Rising
<1>7. PICK fresh : fresh = FreshSource OBVIOUS
<1>8. fresh \in SourceRecords /\ fresh.seen = {} BY <1>7 DEF FreshSource, SourceRecords
<1>9. PICK src : src = [s \in Sources |-> fresh] OBVIOUS
<1>10. src \in [Sources -> SourceRecords] /\ \A s \in Sources : src[s].seen = {} BY <1>8, <1>9
<1>11. state = [seq |-> 0, entries |-> none, src |-> src] /\ inboxFile = state BY <1>4, <1>7, <1>9 DEF InboxInit
<1>12. RecordOK(state, keyed) /\ RecordOK(inboxFile, keyed) BY <1>6, <1>10, <1>11, RecordWith
<1>13. view = [seq |-> 0, entries |-> none, overflow |-> {}] BY <1>4 DEF InboxInit
<1>14. /\ keyed \subseteq Sources /\ edition = 0 /\ polling = [s \in Sources |-> NoCall]
       /\ lastGood = [s \in Sources |-> EmptyWindow] /\ told = [s \in Sources |-> {}]
       /\ edits = 0 /\ troubles = 0 BY DEF InboxInit
<1>15. /\ view \in [seq : Nat, entries : Seq(InboxEntries), overflow : SUBSET Sources]
       /\ view.seq = 0 /\ view.entries = none BY <1>5, <1>13
<1>16. InboxTypes BY <1>0, <1>2, <1>3, <1>5, <1>12, <1>14, <1>15 DEF InboxTypes
<1>17. Accounts(state, view, told, lastGood)
  <2>1. state.seq = 0 /\ state.entries = none /\ state.src = src BY <1>11
  <2>2. Shown(EmptyWindow) = {} BY DEF Shown, EmptyWindow
  <2> QED BY <1>5, <1>10, <1>14, <1>15, <2>1, <2>2 DEF Accounts, Pairs
<1> QED BY <1>16, <1>17 DEF InboxInv

\* A record that says of every source's items what another did.
LEMMA SameAccounts ==
  ASSUME NEW new, NEW old, NEW shown, NEW known, NEW good,
         Accounts(old, shown, known, good), new.seq = old.seq, new.entries = old.entries,
         \A s \in Sources : /\ new.src[s].seen = old.src[s].seen
                            /\ old.src[s].overflow => new.src[s].overflow
  PROVE  Accounts(new, shown, known, good)
<1>1. ASSUME NEW s \in Sources, NEW x, Accounted(s, x, old, shown, known)
      PROVE  Accounted(s, x, new, shown, known) BY <1>1 DEF Accounted
<1>2. ASSUME NEW s \in Sources
      PROVE  /\ \A x \in Pairs(new.src[s].seen) : Accounted(s, x, new, shown, known)
             /\ Shown(good[s]) \subseteq Pairs(new.src[s].seen)
  <2>1. new.src[s].seen = old.src[s].seen OBVIOUS
  <2> QED BY <1>1, <2>1 DEF Accounts
<1> QED BY <1>2 DEF Accounts

LEMMA InboxSame == ASSUME InboxInv, UNCHANGED inboxVars PROVE InboxInv'
<1>1. InboxTypes' BY DEF inboxVars, InboxInv, InboxTypes
<1>2. ~lost' => Accounts(state, view, told, lastGood)' BY DEF inboxVars, InboxInv
<1> QED BY <1>1, <1>2 DEF InboxInv

LEMMA EditKeeps == ASSUME InboxInv, NEW s \in Sources, NEW i \in Items, Edit(s, i) PROVE InboxInv'
<1>1. PICK v \in {0, edits + 2} : window' = [window EXCEPT ![s][i] = v] BY DEF Edit
<1>2. edits \in 0..MaxItemEdits /\ edits < MaxItemEdits /\ MaxItemEdits \in Nat /\ edits' = edits + 1
  BY InboxAssumption DEF Edit, InboxInv, InboxTypes
<1>3. v \in ItemVersions /\ edits' \in 0..MaxItemEdits BY <1>2 DEF ItemVersions
<1>4. window' \in [Sources -> Windows]
  <2>1. window \in [Sources -> Windows] BY DEF InboxInv, InboxTypes
  <2> QED BY <1>1, <1>3, <2>1 DEF Windows
<1>5. UNCHANGED <<keyed, state, inboxFile, edition, polling, running, view, lastGood, told, lost, troubles>>
  BY DEF Edit
<1>6. InboxTypes' BY <1>3, <1>4, <1>5 DEF InboxInv, InboxTypes
<1> QED BY <1>5, <1>6 DEF InboxInv

LEMMA CallKeeps == ASSUME InboxInv, NEW s \in Sources, CallTool(s) PROVE InboxInv'
<1>1. polling' = [polling EXCEPT ![s] = <<window[s]>>] BY DEF CallTool
<1>2. window[s] \in Windows BY DEF InboxInv, InboxTypes
<1>3. polling' \in [Sources -> {NoCall} \cup {<<w>> : w \in Windows}] BY <1>1, <1>2 DEF InboxInv, InboxTypes
<1>4. UNCHANGED <<window, keyed, state, inboxFile, edition, running, view, lastGood, told, lost,
                  edits, troubles>> BY DEF CallTool
<1>5. InboxTypes' BY <1>3, <1>4 DEF InboxInv, InboxTypes
<1> QED BY <1>4, <1>5 DEF InboxInv

LEMMA PollEnds ==
  ASSUME InboxInv, NEW s, polling' = [polling EXCEPT ![s] = NoCall]
  PROVE  polling' \in [Sources -> {NoCall} \cup {<<w>> : w \in Windows}] BY DEF InboxInv, InboxTypes

LEMMA OneTrouble ==
  ASSUME InboxInv, Trouble \/ troubles' = troubles PROVE troubles' \in 0..MaxFaults
<1>1. troubles \in 0..MaxFaults /\ MaxFaults \in Nat BY InboxAssumption DEF InboxInv, InboxTypes
<1> QED BY <1>1 DEF Trouble

LEMMA PollFailsKeeps == ASSUME InboxInv, NEW s \in Sources, PollFails(s) PROVE InboxInv'
<1>1. PICK old : old = state OBVIOUS
<1>2. RecordOK(old, keyed) /\ RecordOK(inboxFile, keyed) BY <1>1 DEF InboxInv, InboxTypes
<1>3. PICK src : src = [old.src EXCEPT ![s].status = "error"] OBVIOUS
<1>4. /\ src \in [Sources -> SourceRecords]
      /\ \A t \in Sources : src[t].seen = old.src[t].seen /\ src[t].overflow = old.src[t].overflow
  <2>1. old.src \in [Sources -> SourceRecords] BY <1>2, RecordIs
  <2> QED BY <1>3, <2>1 DEF SourceRecords
<1>5. state' = [seq |-> old.seq, entries |-> old.entries, src |-> src]
  <2>1. state' = [old EXCEPT !.src[s].status = "error"] BY <1>1 DEF PollFails
  <2>2. old = [seq |-> old.seq, entries |-> old.entries, src |-> old.src] BY <1>2, RecordIs
  <2> QED BY <1>3, <2>1, <2>2
<1>6. PICK new : new = state' OBVIOUS
<1>7. RecordOK(new, keyed)
  <2>1. /\ old.seq \in Nat /\ Rising(old.entries, old.seq) /\ Limited(old.entries)
        /\ \A t \in Sources : \A e \in old.src[t].seen : e.key = KeyBy(keyed, t, e.item, e.version) BY <1>2, RecordIs
  <2> QED BY <1>4, <1>5, <1>6, <2>1, RecordWith
<1>8. /\ UNCHANGED <<window, keyed, edition, view, lastGood, told, lost, edits>>
      /\ inboxFile' \in {new, inboxFile} BY <1>6 DEF PollFails
<1>9. /\ polling' \in [Sources -> {NoCall} \cup {<<w>> : w \in Windows}]
      /\ troubles' \in 0..MaxFaults BY PollEnds, OneTrouble DEF PollFails
<1>10. InboxTypes' BY <1>2, <1>6, <1>7, <1>8, <1>9 DEF InboxInv, InboxTypes
<1>11. ~lost' => Accounts(new, view, told, lastGood)
  <2>1. new.seq = old.seq /\ new.entries = old.entries /\ new.src = src BY <1>5, <1>6
  <2> QED BY <1>1, <1>4, <1>8, <2>1, SameAccounts DEF InboxInv
<1> QED BY <1>6, <1>8, <1>10, <1>11 DEF InboxInv

LEMMA RestartKeeps == ASSUME InboxInv, Restart PROVE InboxInv'
<1>1. /\ state' = inboxFile /\ edition' \in {edition, 1} /\ polling' = [s \in Sources |-> NoCall]
      /\ lastGood' = IF state = inboxFile THEN lastGood ELSE [s \in Sources |-> EmptyWindow]
      /\ lost' = (lost \/ state # inboxFile)
      /\ UNCHANGED <<window, keyed, inboxFile, view, told, edits>> BY DEF Restart
<1>2. troubles' \in 0..MaxFaults BY OneTrouble DEF Restart
<1>3. lastGood' \in [Sources -> Windows]
  <2>1. EmptyWindow \in Windows BY InboxAssumption DEF Windows, EmptyWindow, ItemVersions
  <2> QED BY <1>1, <2>1 DEF InboxInv, InboxTypes
<1>4. InboxTypes' BY <1>1, <1>2, <1>3 DEF InboxInv, InboxTypes
<1>5. ~lost' => state' = state /\ lastGood' = lastGood /\ ~lost BY <1>1
<1> QED BY <1>1, <1>4, <1>5 DEF InboxInv

LEMMA LookKeeps == ASSUME InboxInv, Look PROVE InboxInv'
<1>1. /\ view' = [seq |-> state.seq, entries |-> state.entries, overflow |-> Overflowing(state)]
      /\ UNCHANGED <<window, keyed, state, inboxFile, edition, polling, running, lastGood, told, lost,
                     edits, troubles>> BY DEF Look
<1>2. state.seq \in Nat /\ state.entries \in Seq(InboxEntries) /\ Rising(state.entries, state.seq)
  BY RecordIs DEF InboxInv, InboxTypes
<1>3. PICK n, list, more : n = state.seq /\ list = state.entries /\ more = Overflowing(state) OBVIOUS
<1>4. view' = [seq |-> n, entries |-> list, overflow |-> more] BY <1>1, <1>3
<1>5. view'.seq = n /\ view'.entries = list /\ view'.overflow = more BY <1>4
<1>6. more \subseteq Sources BY <1>3 DEF Overflowing
<1>7. \A f \in Range(list) : f.seq <= n
  <2>. SUFFICES ASSUME NEW f \in Range(list) PROVE f.seq <= n OBVIOUS
  <2>1. PICK k \in 1 .. Len(list) : list[k] = f BY <1>2, <1>3, RangeIs
  <2> QED BY <1>2, <1>3, <2>1 DEF Rising
<1>8. view' \in [seq : Nat, entries : Seq(InboxEntries), overflow : SUBSET Sources] BY <1>2, <1>3, <1>4, <1>6
<1>9. InboxTypes' BY <1>1, <1>5, <1>7, <1>8 DEF InboxInv, InboxTypes
<1>10. ~lost => Accounts(state, view', told, lastGood)
  <2>. SUFFICES ASSUME ~lost PROVE Accounts(state, view', told, lastGood) OBVIOUS
  <2>0. PICK new, shown, old : new = state /\ shown = view' /\ old = view OBVIOUS
  <2>1. Accounts(new, old, told, lastGood) BY <2>0 DEF InboxInv
  <2>2. \A s \in Sources : new.src[s].overflow => s \in shown.overflow BY <1>3, <1>5, <2>0 DEF Overflowing
  <2>3. ASSUME NEW s \in Sources, NEW x, Accounted(s, x, new, old, told)
        PROVE  Accounted(s, x, new, shown, told) BY <2>2, <2>3 DEF Accounted, Excused
  <2>4. shown.seq = new.seq /\ shown.entries = new.entries /\ new.seq \in Nat BY <1>2, <1>3, <1>5, <2>0
  <2>5. Accounts(new, shown, told, lastGood) BY <2>1, <2>3, <2>4 DEF Accounts
  <2> QED BY <2>0, <2>5
<1> QED BY <1>1, <1>9, <1>10 DEF InboxInv

\* An acknowledgement takes what its consumer was shown, and clears what it was told.
LEMMA AckKeeps ==
  ASSUME InboxInv, NEW through \in {view.seq} \cup {e.seq : e \in Range(view.entries)}, Ack(through)
  PROVE  InboxInv'
<1>1. PICK old, shown, known : old = state /\ shown = view /\ known = told OBVIOUS
<1>2. PICK gone : gone = {e \in Range(old.entries) : Acknowledged(e, through)} OBVIOUS
<1>3. PICK sources : sources = {e.source : e \in gone} OBVIOUS
<1>4. PICK list : list = Without(old.entries, gone) OBVIOUS
<1>5. PICK src : src = [s \in Sources |->
                          [old.src[s] EXCEPT !.overflow = old.src[s].overflow /\ s \notin sources]] OBVIOUS
<1>6. /\ state' = [old EXCEPT !.entries = list, !.src = src] /\ inboxFile' \in {state', inboxFile}
      /\ \A s \in Sources : /\ known[s] \subseteq told'[s]
                            /\ {<<e.item, e.version>> : e \in {f \in Range(shown.entries) :
                                   f.source = s /\ f.seq <= through}} \subseteq told'[s]
                            /\ s \in sources /\ s \in shown.overflow => Items \X ItemVersions \subseteq told'[s]
      /\ DOMAIN told' = Sources
      /\ UNCHANGED <<window, keyed, edition, polling, running, view, lastGood, lost, edits>>
      /\ Trouble \/ troubles' = troubles BY <1>1, <1>2, <1>3, <1>4, <1>5 DEF Ack
<1>7. RecordOK(old, keyed) /\ RecordOK(inboxFile, keyed) BY <1>1 DEF InboxInv, InboxTypes
<1>8. /\ old.seq \in Nat /\ Rising(old.entries, old.seq) /\ Limited(old.entries)
      /\ old.entries \in Seq(InboxEntries) /\ Range(old.entries) \subseteq InboxEntries BY <1>7, RecordIs, RangeIs
<1>9. Rising(list, old.seq) /\ Range(list) = Range(old.entries) \ gone BY <1>4, <1>8, WithoutRises
<1>10. Limited(list)
  <2>. SUFFICES ASSUME NEW s \in Sources
                PROVE  IsFiniteSet(Mine(list, s)) /\ Cardinality(Mine(list, s)) <= MaxEntries BY DEF Limited
  <2>1. IsFiniteSet(Mine(old.entries, s)) /\ Cardinality(Mine(old.entries, s)) <= MaxEntries BY <1>8 DEF Limited
  <2>2. PICK T : T = {k \in Mine(old.entries, s) : old.entries[k] \notin gone} OBVIOUS
  <2>3. IsFiniteSet(Mine(list, s)) /\ Cardinality(Mine(list, s)) <= Cardinality(T)
    BY <1>4, <1>8, <2>1, <2>2, WithoutRises
  <2>4. T \in SUBSET Mine(old.entries, s) BY <2>2
  <2>5. IsFiniteSet(T) /\ Cardinality(T) <= Cardinality(Mine(old.entries, s)) BY <2>1, <2>4, FS_Subset
  <2>6. /\ Cardinality(T) \in Nat /\ Cardinality(Mine(old.entries, s)) \in Nat
        /\ Cardinality(Mine(list, s)) \in Nat BY <2>1, <2>3, <2>5, FS_CardinalityType
  <2> QED BY <2>1, <2>3, <2>5, <2>6, InboxAssumption
<1>11. ASSUME NEW s \in Sources
       PROVE  /\ src[s] \in SourceRecords /\ src[s].seen = old.src[s].seen
              /\ s \notin sources => (src[s].overflow <=> old.src[s].overflow)
  <2>1. PICK q, b : q = old.src[s] /\ b = (old.src[s].overflow /\ s \notin sources) OBVIOUS
  <2>2. q \in SourceRecords
    <3>1. old.src \in [Sources -> SourceRecords] BY <1>7, RecordIs
    <3> QED BY <2>1, <3>1
  <2>3. b \in BOOLEAN /\ (s \notin sources => (b <=> old.src[s].overflow)) BY <2>1
  <2>4. src[s] = [q EXCEPT !.overflow = b] BY <1>5, <2>1
  <2>5. src[s].overflow = b /\ src[s].seen = q.seen /\ src[s] \in SourceRecords BY <2>2, <2>3, <2>4 DEF SourceRecords
  <2> QED BY <2>1, <2>3, <2>5
<1>12. PICK new : new = state' OBVIOUS
<1>13. new = [seq |-> old.seq, entries |-> list, src |-> src]
  <2>1. old = [seq |-> old.seq, entries |-> old.entries, src |-> old.src] BY <1>7, RecordIs
  <2> QED BY <1>6, <1>12, <2>1
<1>14. RecordOK(new, keyed)
  <2>1. src \in [Sources -> SourceRecords] BY <1>5, <1>11
  <2>2. \A s \in Sources : \A e \in src[s].seen : e.key = KeyBy(keyed, s, e.item, e.version) BY <1>7, <1>11, RecordIs
  <2> QED BY <1>8, <1>9, <1>10, <1>13, <2>1, <2>2, RecordWith
<1>15. troubles' \in 0..MaxFaults BY <1>6, OneTrouble
<1>16. InboxTypes' BY <1>6, <1>7, <1>12, <1>14, <1>15 DEF InboxInv, InboxTypes
<1>17. ASSUME ~lost PROVE Accounts(new, shown, told', lastGood)
  <2>1. Accounts(old, shown, known, lastGood) BY <1>1, <1>17 DEF InboxInv
  <2>2. new.seq = old.seq /\ new.entries = list /\ new.src = src BY <1>13
  <2>3. /\ through <= shown.seq /\ through \in Nat /\ shown.seq \in Nat
        /\ \A f \in Range(shown.entries) : f.seq \in Nat
    <3>1. /\ shown.seq \in Nat /\ shown.entries \in Seq(InboxEntries)
          /\ \A f \in Range(shown.entries) : f.seq <= shown.seq BY <1>1 DEF InboxInv, InboxTypes
    <3>4. Range(shown.entries) \subseteq InboxEntries BY <3>1, RangeIs
    <3>2. \A f \in Range(shown.entries) : f.seq \in Nat BY <3>4 DEF InboxEntries
    <3>3. through = shown.seq \/ \E f \in Range(shown.entries) : through = f.seq BY <1>1
    <3> QED BY <3>1, <3>2, <3>3
  <2>4. \A e \in Range(old.entries) : e.seq \in Nat /\ (e \in gone <=> e.seq <= through)
    BY <1>2, <1>8 DEF InboxEntries, Acknowledged
  <2>5. ASSUME NEW s \in Sources, NEW x \in Items \X ItemVersions, Accounted(s, x, old, shown, known)
        PROVE  Accounted(s, x, new, shown, told')
    <3>1. CASE x \in known[s] BY <1>6, <3>1 DEF Accounted
    <3>2. ASSUME NEW e \in EntriesOf(old.entries, s), x = <<e.item, e.version>>
          PROVE  Accounted(s, x, new, shown, told')
      <4>0. e \in Range(old.entries) /\ e.source = s BY DEF EntriesOf
      <4>1. CASE e \in gone
        <5>1. e.seq <= through /\ e.seq <= shown.seq BY <2>3, <2>4, <4>0, <4>1
        <5>2. e \in Range(shown.entries) BY <2>1, <4>0, <5>1 DEF Accounts
        <5>3. x \in told'[s] BY <1>6, <3>2, <4>0, <5>1, <5>2
        <5> QED BY <5>3 DEF Accounted
      <4>2. CASE e \notin gone
        <5>1. e \in EntriesOf(new.entries, s) BY <1>9, <2>2, <4>0, <4>2 DEF EntriesOf
        <5> QED BY <3>2, <5>1 DEF Accounted, Pairs
      <4> QED BY <4>1, <4>2
    <3>3. CASE old.src[s].overflow /\ Excused(s, x, old.entries, shown)
      <4>1. CASE s \notin sources
        <5>1. EntriesOf(new.entries, s) \subseteq EntriesOf(old.entries, s) BY <1>9, <2>2 DEF EntriesOf
        <5>2. Excused(s, x, new.entries, shown) BY <3>3, <5>1 DEF Excused
        <5>3. new.src[s].overflow BY <1>11, <2>2, <3>3, <4>1
        <5> QED BY <5>2, <5>3 DEF Accounted
      <4>2. CASE s \in sources
        <5>1. PICK e \in gone : e.source = s BY <1>3, <4>2
        <5>2. e \in EntriesOf(old.entries, s) /\ e.seq <= through /\ e.seq \in Nat BY <1>2, <2>4, <5>1 DEF EntriesOf
        <5>3. x \in told'[s]
          <6>1. CASE s \in shown.overflow BY <1>6, <4>2, <6>1
          <6>2. CASE s \notin shown.overflow
            <7>1. e.seq <= shown.seq BY <2>3, <5>2
            <7>2. PICK f \in EntriesOf(shown.entries, s) : <<f.item, f.version>> = x /\ f.seq <= e.seq
              BY <3>3, <5>2, <6>2, <7>1 DEF Excused
            <7>3. f \in Range(shown.entries) /\ f.source = s /\ f.seq <= through BY <2>3, <5>2, <7>2 DEF EntriesOf
            <7> QED BY <1>6, <7>2, <7>3
          <6> QED BY <6>1, <6>2
        <5> QED BY <5>3 DEF Accounted
      <4> QED BY <4>1, <4>2
    <3> QED BY <2>5, <3>1, <3>2, <3>3 DEF Accounted, Pairs
  <2>6. ASSUME NEW s \in Sources
        PROVE  /\ \A x \in Pairs(new.src[s].seen) : Accounted(s, x, new, shown, told')
               /\ Shown(lastGood[s]) \subseteq Pairs(new.src[s].seen)
    <3>1. new.src[s].seen = old.src[s].seen BY <1>11, <2>2
    <3>2. \A x \in Pairs(old.src[s].seen) : x \in Items \X ItemVersions
      <4>1. old.src[s].seen \subseteq ItemsSeen BY <1>7, RecordIs
      <4> QED BY <4>1 DEF Pairs, ItemsSeen
    <3> QED BY <2>1, <2>5, <3>1, <3>2 DEF Accounts
  <2>7. \A e \in Range(new.entries) : e.seq <= shown.seq => e \in Range(shown.entries)
    BY <1>9, <2>1, <2>2 DEF Accounts
  <2> QED BY <2>1, <2>2, <2>6, <2>7 DEF Accounts
<1> QED BY <1>1, <1>6, <1>12, <1>16, <1>17 DEF InboxInv

\* The record of a source after a good poll.
LEMMA PolledIs ==
  ASSUME NEW src \in SourceRecords, NEW more, NEW ed, NEW b
  PROVE  [src EXCEPT !.status = "ok", !.polled = TRUE, !.edition = ed, !.seen = more, !.overflow = b]
           = [status |-> "ok", seen |-> more, polled |-> TRUE, overflow |-> b, edition |-> ed]
<1>0. PICK v1, v2, v3, v4, v5 :
        src = [status |-> v1, seen |-> v2, polled |-> v3, overflow |-> v4, edition |-> v5]
  <2>1. src = [status |-> src.status, seen |-> src.seen, polled |-> src.polled,
               overflow |-> src.overflow, edition |-> src.edition] BY DEF SourceRecords
  <2> QED BY <2>1
<1>1. PICK a : a = [src EXCEPT !.status = "ok"] OBVIOUS
<1>2. a = [status |-> "ok", seen |-> v2, polled |-> v3, overflow |-> v4, edition |-> v5] BY <1>0, <1>1
<1>3. PICK c : c = [a EXCEPT !.polled = TRUE] OBVIOUS
<1>4. c = [status |-> "ok", seen |-> v2, polled |-> TRUE, overflow |-> v4, edition |-> v5] BY <1>2, <1>3
<1>5. PICK e : e = [c EXCEPT !.edition = ed] OBVIOUS
<1>6. e = [status |-> "ok", seen |-> v2, polled |-> TRUE, overflow |-> v4, edition |-> ed] BY <1>4, <1>5
<1>7. PICK f : f = [e EXCEPT !.seen = more] OBVIOUS
<1>8. f = [status |-> "ok", seen |-> more, polled |-> TRUE, overflow |-> v4, edition |-> ed] BY <1>6, <1>7
<1>9. PICK h : h = [f EXCEPT !.overflow = b] OBVIOUS
<1>10. h = [status |-> "ok", seen |-> more, polled |-> TRUE, overflow |-> b, edition |-> ed] BY <1>8, <1>9
<1> QED BY <1>1, <1>3, <1>5, <1>7, <1>10, <1>9

\* A good poll: what it showed is reported, was known, or needed no telling.
LEMMA TakePollKeeps == ASSUME InboxInv, NEW s \in Sources, TakePoll(s) PROVE InboxInv'
<1>. DEFINE w0 == polling[s][1]
            src0 == state.src[s]
            R0 == ToReport(s, src0, w0)
            r0 == SetToSeq(R0)
            g0 == state.entries \o [n \in DOMAIN r0 |-> NewEntry(state.seq + n, s, r0[n], w0[r0[n]])]
            d0 == PastLimit(g0, s)
            absent0 == {e \in src0.seen : \A i \in There(w0) : e.key # Key(s, i, w0[i])}
            current0 == {[key |-> Key(s, i, w0[i]), item |-> i, version |-> w0[i]] : i \in There(w0)}
            b0 == src0.overflow \/ d0 # {} \/ Beyond(s, src0, w0)
            state0(out) ==
              [state EXCEPT !.seq = @ + Len(r0), !.entries = Without(g0, d0),
                 !.src[s] = [src0 EXCEPT !.status = "ok", !.polled = TRUE, !.edition = edition,
                                         !.seen = (absent0 \ out) \cup current0, !.overflow = b0]]
            told0 == IF ~src0.polled \/ Rehashed(src0)
                     THEN Shown(w0) \ {<<i, w0[i]>> : i \in R0} ELSE {}
<1>a. /\ polling[s] # NoCall
      /\ \E out \in {{}, absent0} : state' = state0(out)
      /\ told' = [told EXCEPT ![s] = @ \cup told0] /\ lastGood' = [lastGood EXCEPT ![s] = w0]
      /\ Save(state') /\ polling' = [polling EXCEPT ![s] = NoCall]
      /\ UNCHANGED <<window, keyed, edition, view, lost, edits>> BY DEF TakePoll
<1>b. absent0 \subseteq src0.seen OBVIOUS
<1>0. PICK old, shown, known : old = state /\ shown = view /\ known = told OBVIOUS
<1>1. PICK w \in Windows : polling[s] = <<w>>
  <2>1. polling[s] \in {NoCall} \cup {<<v>> : v \in Windows} BY DEF InboxInv, InboxTypes
  <2> QED BY <1>a, <2>1
<1>2. w = w0 BY <1>1
<1>3. PICK src : src = src0 OBVIOUS
<1>4. PICK R : R = R0 OBVIOUS
<1>5. PICK r : r = r0 OBVIOUS
<1>6. PICK g : g = g0 OBVIOUS
<1>7. PICK d, list : d = d0 /\ list = Without(g0, d0) OBVIOUS
<1>8. PICK current : current = current0 OBVIOUS
<1>9. PICK b : b = b0 OBVIOUS
<1>10. PICK kept \in SUBSET src.seen :
         state' = [old EXCEPT !.seq = @ + Len(r), !.entries = list,
                    !.src[s] = [src EXCEPT !.status = "ok", !.polled = TRUE, !.edition = edition,
                                           !.seen = kept \cup current, !.overflow = b]]
  <2>1. PICK out : state' = state0(out) BY <1>a
  <2>2. PICK kept : kept = absent0 \ out OBVIOUS
  <2>3. kept \in SUBSET src.seen BY <1>b, <1>3, <2>2
  <2>4. state' = [state EXCEPT !.seq = @ + Len(r0), !.entries = Without(g0, d0),
                    !.src[s] = [src0 EXCEPT !.status = "ok", !.polled = TRUE, !.edition = edition,
                                            !.seen = kept \cup current0, !.overflow = b0]] BY <2>1, <2>2
  <2>. HIDE DEF w0, src0, R0, r0, g0, d0, absent0, current0, b0, state0
  <2>5. state' = [old EXCEPT !.seq = @ + Len(r), !.entries = list,
                    !.src[s] = [src EXCEPT !.status = "ok", !.polled = TRUE, !.edition = edition,
                                           !.seen = kept \cup current, !.overflow = b]]
    BY <1>0, <1>3, <1>5, <1>7, <1>8, <1>9, <2>4
  <2> QED BY <2>3, <2>5
<1>c. /\ src = old.src[s] /\ R = ToReport(s, src, w) /\ r = SetToSeq(R)
      /\ g = old.entries \o [n \in DOMAIN r |-> NewEntry(old.seq + n, s, r[n], w[r[n]])]
      /\ d = PastLimit(g, s) /\ list = Without(g, d)
      /\ current = {[key |-> Key(s, i, w[i]), item |-> i, version |-> w[i]] : i \in There(w)}
      /\ (b <=> src.overflow \/ d # {} \/ Beyond(s, src, w)) /\ b \in BOOLEAN
  BY <1>0, <1>2, <1>3, <1>4, <1>5, <1>6, <1>7, <1>8, <1>9
<1>d. told0 = IF ~src.polled \/ Rehashed(src) THEN Shown(w) \ {<<i, w[i]>> : i \in R} ELSE {} BY <1>2, <1>3, <1>4
<1>11. /\ told' = [known EXCEPT ![s] = @ \cup
                     (IF ~src.polled \/ Rehashed(src)
                      THEN Shown(w) \ {<<i, w[i]>> : i \in R} ELSE {})]
       /\ lastGood' = [lastGood EXCEPT ![s] = w]
       /\ inboxFile' \in {state', inboxFile} /\ (Trouble \/ troubles' = troubles)
       /\ polling' = [polling EXCEPT ![s] = NoCall]
       /\ UNCHANGED <<window, keyed, edition, view, lost, edits>> BY <1>a, <1>d, <1>0, <1>2 DEF Save
<1>. HIDE DEF w0, src0, R0, r0, g0, d0, absent0, current0, b0, state0, told0
<1>12. RecordOK(old, keyed) /\ RecordOK(inboxFile, keyed) /\ edition \in {0, 1} BY <1>0 DEF InboxInv, InboxTypes
<1>13. /\ old.seq \in Nat /\ Rising(old.entries, old.seq) /\ Limited(old.entries)
       /\ old.src \in [Sources -> SourceRecords] /\ src \in SourceRecords
       /\ \A t \in Sources : \A e \in old.src[t].seen : e.key = KeyBy(keyed, t, e.item, e.version)
       /\ old = [seq |-> old.seq, entries |-> old.entries, src |-> old.src] BY <1>c, <1>12, RecordIs
<1>14. /\ DOMAIN known = Sources /\ DOMAIN told' = Sources
       /\ \A t \in Sources : known[t] \subseteq told'[t]
       /\ ~src.polled \/ Rehashed(src) => Shown(w) \ {<<i, w[i]>> : i \in R} \subseteq told'[s]
  BY <1>0, <1>11 DEF InboxInv, InboxTypes
<1>15. There(w) \subseteq Items /\ R \subseteq There(w) /\ \A i \in Items : w[i] \in ItemVersions
  BY <1>c DEF There, ToReport, Windows
<1>16. r \in Seq(Items) /\ Range(r) = R /\ Len(r) \in Nat
  <2>1. r \in Seq(Items) /\ Range(r) = R BY <1>c, <1>15, ListedIs
  <2> QED BY <2>1
<1>17. /\ Rising(g, old.seq + Len(r)) /\ Range(old.entries) \subseteq Range(g)
       /\ \A e \in Range(g) : e \in Range(old.entries) \/ (e.seq > old.seq /\ e.source = s)
       /\ \A i \in R : \E e \in Range(g) : e.source = s /\ <<e.item, e.version>> = <<i, w[i]>>
       /\ \A t : t # s => Mine(g, t) = Mine(old.entries, t)
       /\ \A t : IsFiniteSet(Mine(g, t))
  <2>1. r \in Seq(Items) BY <1>16
  <2>2. PICK z, l : z = old.seq /\ l = old.entries OBVIOUS
  <2>3. z \in Nat /\ Rising(l, z) BY <1>13, <2>2
  <2>4. g = Grown(l, z, s, r, w) BY <1>c, <2>2 DEF Grown
  <2>5. /\ Rising(g, z + Len(r)) /\ Range(l) \subseteq Range(g)
        /\ \A e \in Range(g) : e \in Range(l) \/ (e.seq > z /\ e.source = s)
        /\ \A i \in Range(r) : \E e \in Range(g) : e.source = s /\ <<e.item, e.version>> = <<i, w[i]>>
        /\ \A t : t # s => Mine(g, t) = Mine(l, t)
        /\ \A t : IsFiniteSet(Mine(g, t)) BY <1>1, <2>1, <2>3, <2>4, GrownIs
  <2>6. Range(r) = R BY <1>16
  <2> QED BY <2>2, <2>5, <2>6
<1>18. /\ \A e \in d : e \in Range(g) /\ e.source = s
       /\ \A e \in d : \A f \in EntriesOf(g, s) \ d : e.seq < f.seq
       /\ Cardinality({k \in Mine(g, s) : g[k] \notin d}) <= MaxEntries
  <2>1. PICK m : m = old.seq + Len(r) OBVIOUS
  <2>2. Rising(g, m) BY <1>17, <2>1
  <2>3. d = PastLimit(g, s) BY <1>c
  <2> QED BY <2>2, <2>3, PastLimitIs
<1>19. /\ Rising(list, old.seq + Len(r)) /\ Range(list) = Range(g) \ d
       /\ \A t : IsFiniteSet(Mine(g, t)) =>
            /\ IsFiniteSet(Mine(list, t))
            /\ Cardinality(Mine(list, t)) <= Cardinality({k \in Mine(g, t) : g[k] \notin d})
  <2>1. PICK m : m = old.seq + Len(r) OBVIOUS
  <2>2. Rising(g, m) BY <1>17, <2>1
  <2>3. list = Without(g, d) BY <1>c
  <2> QED BY <2>1, <2>2, <2>3, WithoutRises
<1>20. Limited(list)
  <2>. SUFFICES ASSUME NEW t \in Sources
                PROVE  IsFiniteSet(Mine(list, t)) /\ Cardinality(Mine(list, t)) <= MaxEntries BY DEF Limited
  <2>1. PICK T : T = {k \in Mine(g, t) : g[k] \notin d} OBVIOUS
  <2>7. IsFiniteSet(Mine(g, t)) BY <1>17
  <2>2. IsFiniteSet(Mine(list, t)) /\ Cardinality(Mine(list, t)) <= Cardinality(T) BY <1>19, <2>1, <2>7
  <2>3. T \in SUBSET Mine(g, t) /\ IsFiniteSet(Mine(g, t)) BY <1>17, <2>1
  <2>4. IsFiniteSet(T) /\ Cardinality(T) <= Cardinality(Mine(g, t)) BY <2>3, FS_Subset
  <2>5. Cardinality(T) <= MaxEntries
    <3>1. CASE t = s BY <1>18, <2>1, <3>1
    <3>2. CASE t # s
      <4>1. Mine(g, t) = Mine(old.entries, t) BY <1>17, <3>2
      <4>2. Cardinality(Mine(g, t)) <= MaxEntries BY <1>13, <4>1 DEF Limited
      <4>3. Cardinality(T) \in Nat /\ Cardinality(Mine(g, t)) \in Nat BY <2>3, <2>4, FS_CardinalityType
      <4> QED BY <2>4, <4>2, <4>3, InboxAssumption
    <3> QED BY <3>1, <3>2
  <2>6. Cardinality(T) \in Nat /\ Cardinality(Mine(list, t)) \in Nat BY <2>2, <2>4, FS_CardinalityType
  <2> QED BY <2>2, <2>5, <2>6, InboxAssumption
<1>21. /\ current \subseteq ItemsSeen
       /\ \A e \in current : e.key = KeyBy(keyed, s, e.item, e.version)
       /\ \A e \in current : e.item \in There(w) /\ e.version = w[e.item]
       /\ \A i \in There(w) : <<i, w[i]>> \in Pairs(current)
  <2>1. ASSUME NEW i \in There(w), NEW e, e = [key |-> Key(s, i, w[i]), item |-> i, version |-> w[i]]
        PROVE  /\ e \in ItemsSeen /\ e.key = KeyBy(keyed, s, e.item, e.version)
               /\ e.item = i /\ e.version = w[i]
    <3>1. e.item = i /\ e.version = w[i] /\ e.key = KeyBy(keyed, s, i, w[i]) BY <2>1, KeyIs
    <3>2. i \in Items /\ w[i] \in ItemVersions BY <1>15
    <3>3. 0 \in ItemVersions BY InboxAssumption DEF ItemVersions
    <3>4. KeyBy(keyed, s, i, w[i]) \in Items \X ItemVersions BY <3>2, <3>3 DEF KeyBy
    <3>5. PICK k : k = KeyBy(keyed, s, i, w[i]) OBVIOUS
    <3>6. e = [key |-> k, item |-> i, version |-> w[i]] BY <2>1, <3>5, KeyIs
    <3>7. e \in ItemsSeen BY <3>2, <3>4, <3>5, <3>6 DEF ItemsSeen
    <3> QED BY <3>1, <3>7
  <2>2. ASSUME NEW e \in current
        PROVE  /\ e \in ItemsSeen /\ e.key = KeyBy(keyed, s, e.item, e.version)
               /\ e.item \in There(w) /\ e.version = w[e.item]
    <3>1. PICK i \in There(w) : e = [key |-> Key(s, i, w[i]), item |-> i, version |-> w[i]] BY <1>c
    <3> QED BY <2>1, <3>1
  <2>3. ASSUME NEW i \in There(w) PROVE <<i, w[i]>> \in Pairs(current)
    <3>1. PICK e : e = [key |-> Key(s, i, w[i]), item |-> i, version |-> w[i]] OBVIOUS
    <3>2. e \in current BY <1>c, <3>1
    <3> QED BY <2>1, <3>1, <3>2 DEF Pairs
  <2> QED BY <2>2, <2>3
<1>22. PICK q : q = [status |-> "ok", seen |-> kept \cup current, polled |-> TRUE, overflow |-> b,
                     edition |-> edition] OBVIOUS
<1>23. q \in SourceRecords /\ q.seen = kept \cup current /\ (q.overflow <=> b)
  <2>1. b \in BOOLEAN BY <1>c
  <2>2. src.seen \subseteq ItemsSeen BY <1>13 DEF SourceRecords
  <2>3. kept \cup current \in SUBSET ItemsSeen BY <1>21, <2>2
  <2> QED BY <1>12, <1>22, <2>1, <2>3 DEF SourceRecords
<1>24. PICK n, srcs : n = old.seq + Len(r) /\ srcs = [old.src EXCEPT ![s] = q] OBVIOUS
<1>25. /\ srcs \in [Sources -> SourceRecords] /\ srcs[s] = q
       /\ \A t \in Sources : t # s => srcs[t] = old.src[t] BY <1>13, <1>23, <1>24
<1>26. PICK new : new = state' OBVIOUS
<1>27. new = [seq |-> n, entries |-> list, src |-> srcs]
  <2>1. [src EXCEPT !.status = "ok", !.polled = TRUE, !.edition = edition,
                    !.seen = kept \cup current, !.overflow = b] = q
    <3>1. PICK more : more = kept \cup current OBVIOUS
    <3>2. [src EXCEPT !.status = "ok", !.polled = TRUE, !.edition = edition, !.seen = more,
                      !.overflow = b]
            = [status |-> "ok", seen |-> more, polled |-> TRUE, overflow |-> b, edition |-> edition]
      <4>1. src \in SourceRecords BY <1>13
      <4> QED BY <4>1, PolledIs, Zenon
    <3> QED BY <1>22, <3>1, <3>2
  <2>2. new = [old EXCEPT !.seq = n, !.entries = list, !.src = srcs] BY <1>10, <1>13, <1>24, <1>26, <2>1
  <2> QED BY <1>13, <2>2
<1>28. RecordOK(new, keyed)
  <2>1. n \in Nat /\ Rising(list, n) BY <1>13, <1>16, <1>19, <1>24
  <2>2. \A t \in Sources : \A e \in srcs[t].seen : e.key = KeyBy(keyed, t, e.item, e.version)
    BY <1>c, <1>13, <1>21, <1>23, <1>25
  <2> QED BY <1>20, <1>25, <1>27, <2>1, <2>2, RecordWith
<1>29. /\ polling' \in [Sources -> {NoCall} \cup {<<v>> : v \in Windows}]
       /\ troubles' \in 0..MaxFaults BY <1>11, PollEnds, OneTrouble
<1>30. lastGood' \in [Sources -> Windows] /\ lastGood'[s] = w
       /\ \A t \in Sources : t # s => lastGood'[t] = lastGood[t] BY <1>11 DEF InboxInv, InboxTypes
<1>31. InboxTypes' BY <1>11, <1>12, <1>14, <1>26, <1>28, <1>29, <1>30 DEF InboxInv, InboxTypes
<1>32. ~lost' => Accounts(new, shown, told', lastGood')
  <2>. SUFFICES ASSUME ~lost PROVE Accounts(new, shown, told', lastGood') BY <1>11
  <2>0. PICK knows, good, goods : knows = told' /\ good = lastGood' /\ goods = lastGood OBVIOUS
  <2>1. Accounts(old, shown, known, goods) BY <1>0, <2>0 DEF InboxInv
  <2>2. new.seq = n /\ new.entries = list /\ new.src = srcs BY <1>27
  <2>3. shown.seq \in Nat /\ shown.seq <= old.seq /\ old.seq \in Nat
    BY <1>0, <1>13, <2>1 DEF Accounts, InboxInv, InboxTypes
  <2>4. /\ \A e \in Range(g) : e.seq \in Nat
        /\ \A e \in Range(g) : e.seq <= shown.seq => e \in Range(old.entries) /\ e \in Range(shown.entries)
        /\ Range(list) \subseteq Range(g)
    <3>1. g \in Seq(InboxEntries) BY <1>17 DEF Rising
    <3>2. Range(g) \subseteq InboxEntries BY <3>1, RangeIs
    <3>3. \A e \in Range(g) : e.seq \in Nat BY <3>2 DEF InboxEntries
    <3>4. \A e \in Range(old.entries) : e.seq <= shown.seq => e \in Range(shown.entries) BY <2>1 DEF Accounts
    <3>5. \A e \in Range(g) : e \in Range(old.entries) \/ (e.seq > old.seq /\ e.source = s) BY <1>17
    <3>6. Range(list) \subseteq Range(g) BY <1>19
    <3> QED BY <2>3, <3>3, <3>4, <3>5, <3>6
  <2>5. ASSUME NEW t \in Sources, t # s PROVE EntriesOf(list, t) = EntriesOf(old.entries, t)
    <3>1. Range(old.entries) \subseteq Range(g) BY <1>17
    <3>2. \A e \in Range(g) : e.source = t => e \in Range(old.entries) BY <1>17, <2>5
    <3>3. \A e \in d : e.source # t BY <1>18, <2>5
    <3>4. Range(list) = Range(g) \ d BY <1>19
    <3> QED BY <3>1, <3>2, <3>3, <3>4 DEF EntriesOf
  <2>6. ASSUME NEW t \in Sources, t # s
        PROVE  /\ \A x \in Pairs(new.src[t].seen) : Accounted(t, x, new, shown, knows)
               /\ Shown(good[t]) \subseteq Pairs(new.src[t].seen)
    <3>1. new.src[t] = old.src[t] /\ good[t] = goods[t] BY <1>25, <1>30, <2>0, <2>2, <2>6
    <3>2. EntriesOf(new.entries, t) = EntriesOf(old.entries, t) BY <2>2, <2>5, <2>6
    <3>3. known[t] \subseteq knows[t] BY <1>14, <2>0
    <3>4. \A x : Accounted(t, x, old, shown, known) => Accounted(t, x, new, shown, knows)
      BY <3>1, <3>2, <3>3 DEF Accounted, Excused
    <3> QED BY <2>1, <3>1, <3>4 DEF Accounts
  <2>7. new.src[s].seen = kept \cup current /\ (new.src[s].overflow <=> b) /\ good[s] = w
    BY <1>23, <1>25, <1>30, <2>0, <2>2
  <2>8. ASSUME NEW e \in EntriesOf(g, s), NEW x, x = <<e.item, e.version>>
        PROVE  Accounted(s, x, new, shown, knows)
    <3>1. CASE e \notin d
      <4>1. e \in EntriesOf(list, s) BY <1>19, <3>1 DEF EntriesOf
      <4> QED BY <2>2, <2>8, <4>1 DEF Accounted, Pairs
    <3>2. CASE e \in d
      <4>1. b BY <1>c, <3>2
      <4>2. ASSUME NEW f \in EntriesOf(list, s), f.seq <= shown.seq
            PROVE  e \in EntriesOf(shown.entries, s) /\ e.seq <= f.seq
        <5>1. f \in EntriesOf(g, s) \ d BY <1>19 DEF EntriesOf
        <5>2. e.seq < f.seq BY <1>18, <3>2, <5>1
        <5>3. e.seq \in Nat /\ f.seq \in Nat BY <2>4, <5>1 DEF EntriesOf
        <5>4. e.seq <= shown.seq BY <2>3, <4>2, <5>2, <5>3
        <5> QED BY <2>4, <5>2, <5>3, <5>4 DEF EntriesOf
      <4>3. Excused(s, x, new.entries, shown) BY <2>2, <2>8, <4>2 DEF Excused
      <4> QED BY <2>7, <4>1, <4>3 DEF Accounted
    <3> QED BY <3>1, <3>2
  <2>9. ASSUME NEW x, Accounted(s, x, old, shown, known) PROVE Accounted(s, x, new, shown, knows)
    <3>1. CASE x \in known[s]
      <4>1. known[s] \subseteq knows[s] BY <1>14, <2>0
      <4> QED BY <3>1, <4>1 DEF Accounted
    <3>2. CASE x \in Pairs(EntriesOf(old.entries, s))
      <4>1. PICK e \in EntriesOf(old.entries, s) : x = <<e.item, e.version>> BY <3>2 DEF Pairs
      <4>2. e \in EntriesOf(g, s) BY <1>17 DEF EntriesOf
      <4> QED BY <2>8, <4>1, <4>2
    <3>3. CASE old.src[s].overflow /\ Excused(s, x, old.entries, shown)
      <4>1. b BY <1>c, <3>3
      <4>2. \A e \in EntriesOf(list, s) : e.seq <= shown.seq => e \in EntriesOf(old.entries, s) BY <2>4 DEF EntriesOf
      <4>3. Excused(s, x, new.entries, shown) BY <2>2, <3>3, <4>2 DEF Excused
      <4> QED BY <2>7, <4>1, <4>3 DEF Accounted
    <3> QED BY <2>9, <3>1, <3>2, <3>3 DEF Accounted
  <2>10. ASSUME NEW x \in Pairs(src.seen) PROVE Accounted(s, x, new, shown, knows)
    <3>1. src = old.src[s] BY <1>c
    <3>2. Accounted(s, x, old, shown, known) BY <2>1, <3>1 DEF Accounts
    <3> QED BY <2>9, <3>2
  <2>11. ASSUME NEW i \in There(w), NEW x, x = <<i, w[i]>> PROVE Accounted(s, x, new, shown, knows)
    <3>1. CASE i \in R
      <4>1. PICK e \in Range(g) : e.source = s /\ <<e.item, e.version>> = x BY <1>17, <2>11, <3>1
      <4>2. e \in EntriesOf(g, s) BY <4>1 DEF EntriesOf
      <4> QED BY <2>8, <4>1, <4>2
    <3>2. CASE i \notin R /\ (~src.polled \/ Rehashed(src))
      <4>1. x \in Shown(w) /\ i \in Items BY <2>11 DEF Shown, There
      <4>2. x \notin {<<j, w[j]>> : j \in R} BY <2>11, <3>2
      <4>3. x \in knows[s] BY <1>14, <2>0, <3>2, <4>1, <4>2
      <4> QED BY <4>3 DEF Accounted
    <3>3. CASE i \notin R /\ src.polled /\ ~Rehashed(src)
      <4>1. ~Baseline(src) BY <3>3 DEF Baseline
      <4>2. R = {j \in There(w) : \/ Known(s, src, j, w) = {}
                                  \/ /\ ~Rehashed(src)
                                     /\ \A e \in Known(s, src, j, w) : e.version # w[j]} BY <1>c, <4>1 DEF ToReport
      <4>3. PICK e \in Known(s, src, i, w) : e.version = w[i] BY <3>3, <4>2
      <4>4. e \in src.seen /\ e.key = KeyBy(keyed, s, i, w[i]) BY KeyIs DEF Known
      <4>5. e.key = KeyBy(keyed, s, e.item, e.version)
        <5>1. src = old.src[s] BY <1>c
        <5> QED BY <1>13, <4>4, <5>1
      <4>6. e.item = i
        <5>1. CASE s \in keyed BY <4>4, <4>5, <5>1 DEF KeyBy
        <5>2. CASE s \notin keyed BY <4>4, <4>5, <5>2 DEF KeyBy
        <5> QED BY <5>1, <5>2
      <4>7. x \in Pairs(src.seen) BY <2>11, <4>3, <4>4, <4>6 DEF Pairs
      <4> QED BY <2>10, <4>7
    <3> QED BY <3>1, <3>2, <3>3
  <2>12. ASSUME NEW x \in Pairs(new.src[s].seen) PROVE Accounted(s, x, new, shown, knows)
    <3>1. PICK e \in kept \cup current : x = <<e.item, e.version>> BY <2>7 DEF Pairs
    <3>2. CASE e \in kept
      <4>1. x \in Pairs(src.seen) BY <1>10, <3>1, <3>2 DEF Pairs
      <4> QED BY <2>10, <4>1
    <3>3. CASE e \in current
      <4>1. e.item \in There(w) /\ e.version = w[e.item] BY <1>21, <3>3
      <4> QED BY <2>11, <3>1, <4>1
    <3> QED BY <3>1, <3>2, <3>3
  <2>13. Shown(good[s]) \subseteq Pairs(new.src[s].seen)
    <3>. SUFFICES ASSUME NEW x \in Shown(w) PROVE x \in Pairs(new.src[s].seen) BY <2>7
    <3>1. PICK i \in There(w) : x = <<i, w[i]>> BY DEF Shown, There
    <3>2. x \in Pairs(current) BY <1>21, <3>1
    <3> QED BY <2>7, <3>2 DEF Pairs
  <2>14. ASSUME NEW t \in Sources
         PROVE  /\ \A x \in Pairs(new.src[t].seen) : Accounted(t, x, new, shown, knows)
                /\ Shown(good[t]) \subseteq Pairs(new.src[t].seen)
    <3>1. CASE t = s BY <2>12, <2>13, <3>1
    <3>2. CASE t # s BY <2>6, <3>2
    <3> QED BY <3>1, <3>2
  <2>15. shown.seq <= new.seq BY <1>16, <1>24, <2>2, <2>3
  <2>16. \A e \in Range(new.entries) : e.seq <= shown.seq => e \in Range(shown.entries) BY <2>2, <2>4
  <2>17. Accounts(new, shown, knows, good) BY <2>14, <2>15, <2>16 DEF Accounts
  <2> QED BY <2>0, <2>17
<1> QED BY <1>0, <1>11, <1>26, <1>31, <1>32 DEF InboxInv

LEMMA InboxStep == InboxInv /\ [InboxNext]_inboxVars => InboxInv'
<1>. SUFFICES ASSUME InboxInv, [InboxNext]_inboxVars PROVE InboxInv' OBVIOUS
<1>1. CASE UNCHANGED inboxVars BY <1>1, InboxSame
<1>2. CASE InboxNext
  <2>1. ASSUME NEW s \in Sources, CallTool(s) PROVE InboxInv' BY <2>1, CallKeeps
  <2>2. ASSUME NEW s \in Sources, PollFails(s) PROVE InboxInv' BY <2>2, PollFailsKeeps
  <2>3. ASSUME NEW s \in Sources, TakePoll(s) PROVE InboxInv' BY <2>3, TakePollKeeps
  <2>4. ASSUME NEW s \in Sources, NEW i \in Items, Edit(s, i) PROVE InboxInv' BY <2>4, EditKeeps
  <2>5. ASSUME Look PROVE InboxInv' BY <2>5, LookKeeps
  <2>6. ASSUME Restart PROVE InboxInv' BY <2>6, RestartKeeps
  <2>7. ASSUME NEW through \in {view.seq} \cup {e.seq : e \in Range(view.entries)}, Ack(through)
        PROVE  InboxInv' BY <2>7, AckKeeps
  <2> QED BY <1>2, <2>1, <2>2, <2>3, <2>4, <2>5, <2>6, <2>7 DEF InboxNext
<1> QED BY <1>1, <1>2

------------------------
(* The parts side by side *)

PartsInv ==
  GatewayInv /\ TurnsInv /\ TurnTypes /\ SpendInv /\ RatesInv /\ SetupInv /\ InboxInv /\ LanesInv
  /\ DepthInv

LEMMA PartsStart == PartsInit => PartsInv
BY GatewayStart, TurnsStart, TypesStart, SpendStart, RatesStart, SetupStart, InboxStart, LanesStart,
   DepthStart DEF PartsInit, PartsInv

\* A step is one part's, and leaves the others' variables as they are.
LEMMA OnePartMoves ==
  [PartsNext]_partVars => /\ [Next]_vars /\ [TurnsNext]_turnVars /\ [RatesNext]_ratesVars
                          /\ [SetupNext]_setupVars /\ [InboxNext]_inboxVars
                          /\ [WorkspacesNext]_workspaceVars /\ [SubagentsNext]_subagentVars
BY DEF PartsNext, partVars, gatewayVars, Gateway, Turns, Rates, Setups, Polls, Lanes, Subagents

LEMMA PartsStep == PartsInv /\ [PartsNext]_partVars => PartsInv'
BY SetupAssumption, OnePartMoves, GatewayStep, TurnsStep, TypesStep, SpendStep, RatesStep, SetupKeeps,
   InboxStep, LanesStep, DepthStep DEF PartsInv

THEOREM Invariance == PartsSpec => []PartsInv
BY PartsStart, PartsStep, PTL DEF PartsSpec

\* For any number of requests, turns, posts, calls and levels, nothing runs that a human, the
\* leash or the profile had to allow first, and a client that polls for approvals sees them.
THEOREM GatesAreKept == PartsSpec => []GatesHold
<1>1. PartsInv => GatesHold BY GatewaySafe, TurnsSafe, DepthSafe DEF PartsInv, GatesHold
<1> QED BY <1>1, Invariance, PTL

\* Every variable of every part keeps its type.
THEOREM TypesAreKept == PartsSpec => []TypeOK
<1>1. PartsInv => GatewayTypeOK /\ SubagentsTypeOK /\ WorkspacesTypeOK /\ RatesTypeOK
  BY DEF PartsInv, GatewayInv, DepthInv, LanesInv, RatesInv
<1>2. PartsInv => TurnsTypeOK /\ SetupTypeOK /\ InboxTypeOK BY TypesSafe, SetupSafe, InboxSafe DEF PartsInv
<1>3. PartsInv => TypeOK BY <1>1, <1>2 DEF TypeOK
<1> QED BY <1>3, Invariance, PTL

\* What is recorded of a turn happened in it, and what it used is counted once and weighed in full
\* where no rate applies; no change a poll showed is missed; a process starts in worktrees that are
\* ready, with hooks that are there: for any list of models, any number of polls, failures and
\* restarts, and any history of a worktree.
THEOREM TurnsAreProved == PartsSpec => []TurnsAreAccounted
<1>1. PartsInv => HandleIsKept /\ FailureIsRecorded /\ SpendingAddsUp BY TurnsSafe, SpendSafe DEF PartsInv
<1>2. PartsInv => UnratedCountsInFull /\ NothingIsMissed /\ StartsReady /\ RunsWhatExists
  BY RatesSafe, InboxSafe, LanesSafe, SetupSafe DEF PartsInv
<1>3. PartsInv => TurnsAreAccounted BY <1>1, <1>2 DEF TurnsAreAccounted
<1> QED BY <1>3, Invariance, PTL

\* The run's record has the session its agent worked in and the failure its runtime showed, however
\* the turn ended: what TurnsAreAccounted says of the adapters, but for the numbers.
THEOREM TurnsAreRecorded == PartsSpec => [](HandleIsKept /\ FailureIsRecorded)
<1>1. PartsInv => HandleIsKept /\ FailureIsRecorded BY TurnsSafe DEF PartsInv
<1> QED BY <1>1, Invariance, PTL

\* An approved call runs in the turn that asked for it, with no other turn's credential, or not.
THEOREM NothingRunsForAGoneTurn == PartsSpec => NothingForAGoneTurn
<1>1. PartsInv /\ [PartsNext]_partVars => [RunsInItsTurn]_vars BY OnePartMoves, TurnIsOnStep DEF PartsInv
<1>2. PartsSpec => [][RunsInItsTurn]_vars BY <1>1, Invariance, PTL DEF PartsSpec
<1> QED BY <1>2 DEF NothingForAGoneTurn, RunsInItsTurn

\* Whatever is resumed, cut or refused, a run's agent works in one session.
THEOREM RunsKeepTheirSession == PartsSpec => OneSessionPerRun
<1>1. PartsInv /\ [PartsNext]_partVars => [WorksOn]_turnVars BY OnePartMoves, OneSessionStep DEF PartsInv
<1>2. PartsSpec => [][WorksOn]_turnVars BY <1>1, Invariance, PTL DEF PartsSpec
<1> QED BY <1>2 DEF OneSessionPerRun, WorksOn

\* An agent's process starts in worktrees that are checked out and as new as its turn, unless a
\* cancelled turn, a kill or a DELETE broke into their making.
THEOREM StartsAreReady == PartsSpec => []StartsReady
<1>1. PartsInv => StartsReady BY LanesSafe DEF PartsInv
<1> QED BY <1>1, Invariance, PTL

\* However many turns, failures, kills and deletions come, a worktree an agent has worked in goes
\* only with its instance, while no thread of a cancelled turn still provisions it.
THEOREM WorktreesAreKept == PartsSpec => WorkIsKept
<1>1. PartsInv /\ [PartsNext]_partVars => [KeepsWork]_workspaceVars BY OnePartMoves, WorkKeptStep DEF PartsInv
<1>2. PartsSpec => [][KeepsWork]_workspaceVars BY <1>1, Invariance, PTL DEF PartsSpec
<1> QED BY <1>2 DEF WorkIsKept, KeepsWork

\* Codex runs the hooks and the server of a copy that is there, whatever setup, upgrade, removal or
\* edit stopped half way.
THEOREM HarnessRunsWhatExists == PartsSpec => []RunsWhatExists
<1>1. PartsInv => RunsWhatExists BY SetupSafe DEF PartsInv
<1> QED BY <1>1, Invariance, PTL

\* No write of the setup moves another's handler that is trusted by its place, trusts what is not
\* there or takes the user's skill; with the three above: the promises of single steps, in full.
THEOREM StepsAreProved == PartsSpec => StepsAreSound
<1>1. PartsInv /\ [PartsNext]_partVars => [Sound]_setupVars BY SetupAssumption, OnePartMoves, SoundStep DEF PartsInv
<1>2. PartsSpec => [][Sound]_setupVars BY <1>1, Invariance, PTL DEF PartsSpec
<1>3. PartsSpec => WritesAreSound BY <1>2 DEF WritesAreSound, Sound
<1> QED BY <1>3, NothingRunsForAGoneTurn, RunsKeepTheirSession, WorktreesAreKept DEF StepsAreSound
========================
