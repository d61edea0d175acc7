------------ MODULE ToolGateway ------------
(***************************************************************************)
(* Tool calls that need approval: the gate (miragen/approval.py), the      *)
(* broker that queues requests (miragen/broker.py), the tool gateway that  *)
(* runs a harness's calls on behalf of a turn (miragen/harness/gateway.py) *)
(* and the routes people answer through (GET and POST /approvals).         *)
(*                                                                         *)
(* One instance, its turns one after the other, each a run. Every request  *)
(* is one gated call. An action runs between two awaits; the call waiting  *)
(* on its future wakes up in a later step than the one that answered it,   *)
(* and a turn may end in between. In process, a turn takes its calls with  *)
(* it when it is cancelled; a call that came in through the gateway lives  *)
(* on in the server.                                                       *)
(*                                                                         *)
(* Left out: calls no rule gates, what a tool does, results and their      *)
(* notes, the upstreams' OAuth tokens and their tool listings.             *)
(***************************************************************************)
EXTENDS Naturals, Sequences, FiniteSets

CONSTANTS
  Requests,
  MaxRuns,     \* bound: turns of the instance
  MaxPosts,    \* bound: answers people post
  OutcomesKept \* _OUTCOMES_KEPT

ASSUME GatewayAssumption == {MaxRuns, MaxPosts, OutcomesKept} \subseteq Nat

Runs == 1 .. MaxRuns
NoRun == 0
\* The profile: who runs the tools, who decides, whether a call waits. Only a
\* gateway harness with a queue may answer a call before it is decided.
Profiles ==
  {p \in [harness : {"in_process", "gateway"}, decider : {"open", "strict", "queue", "handler"},
          delivery : {"blocking", "async"}] :
     p.delivery = "async" => p.harness = "gateway" /\ p.decider = "queue"}

VARIABLES
  profile,
  carries,   \* runs whose turn brings its own upstream credential
  turn,      \* _active[instance]: the turn in progress
  last,      \* the newest run
  asked,     \* the run each request was made by
  call,      \* where the call is
  future,    \* _futures and the state of the one the call waits on
  pending,   \* _pending
  timers,    \* requests whose expiry timer is armed
  entries,   \* _async
  outcomes,  \* _outcomes
  version,
  changed,   \* _changed: there is an event the next change sets
  poller,    \* a client of GET /approvals
  posts,
  accepted,  \* history: answers the broker took, people's and timers'
  ran,       \* history: how often the tool was run
  used       \* history: whose credential the tool was run with

brokerVars == <<future, pending, timers, entries, outcomes, version, changed>>
inTurn == <<turn, last>>
vars == <<profile, carries, inTurn, asked, call, brokerVars, poller, posts, accepted, ran, used>>

Async == profile.delivery = "async"
Queued == profile.decider = "queue"

\* Every variable keeps its type, and outcomes their bound.
GatewayTypeOK ==
  /\ profile \in Profiles /\ carries \subseteq Runs
  /\ turn \in Runs \cup {NoRun} /\ last \in Runs \cup {NoRun} /\ turn \in {last, NoRun}
  /\ asked \in [Requests -> Runs \cup {NoRun}]
  /\ call \in [Requests -> {"none", "waiting", "queued", "running", "done", "denied",
                            "refused", "cancelled"}]
  /\ future \in [Requests -> {"none", "waiting", "approved", "denied", "cancelled"}]
  /\ pending \subseteq Requests /\ timers \subseteq Requests /\ entries \subseteq Requests
  /\ outcomes \in Seq(Requests) /\ Len(outcomes) <= OutcomesKept
  /\ version \in Nat /\ changed \in BOOLEAN
  /\ poller \in [at : {"idle", "waiting", "woken"}, since : Nat, saw : SUBSET Requests]
  /\ posts \in 0 .. MaxPosts
  /\ accepted \in [Requests -> SUBSET {"approved", "denied", "expired"}]
  /\ ran \in [Requests -> Nat] /\ used \in [Requests -> Runs \cup {NoRun}]

Init ==
  /\ profile \in Profiles /\ carries \in SUBSET Runs
  /\ turn = NoRun /\ last = NoRun
  /\ asked = [q \in Requests |-> NoRun] /\ call = [q \in Requests |-> "none"]
  /\ future = [q \in Requests |-> "none"]
  /\ pending = {} /\ timers = {} /\ entries = {} /\ outcomes = <<>>
  /\ version = 0 /\ changed = FALSE
  /\ poller = [at |-> "idle", since |-> 0, saw |-> {}]
  /\ posts = 0
  /\ accepted = [q \in Requests |-> {}] /\ ran = [q \in Requests |-> 0]
  /\ used = [q \in Requests |-> NoRun]

------------------------
(* The broker. *)

\* _bump: the version moves and whoever waits for a change is woken.
Bump ==
  /\ version' = version + 1 /\ changed' = FALSE
  /\ poller' = IF changed THEN [poller EXCEPT !.at = "woken"] ELSE poller
NoBump == UNCHANGED <<version, changed, poller>>

\* submit and submit_async: the request is parked with a timer.
Submit(q) ==
  /\ pending' = pending \cup {q} /\ timers' = timers \cup {q} /\ Bump
  /\ IF Async THEN entries' = entries \cup {q} /\ UNCHANGED future
     ELSE future' = [future EXCEPT ![q] = "waiting"] /\ UNCHANGED entries

M_StoredAll(q) == Append(outcomes, q)

\* _store: the oldest outcomes go.
Stored(q) ==
  LET all == Append(outcomes, q)
  IN IF Len(all) > OutcomesKept THEN Tail(all) ELSE all

\* resolve: the request goes whether or not anyone waits for it; an answer is
\* taken only while someone does. A future that is done disarms its timer.
Resolve(q, answer, kind) ==
  /\ pending' = pending \ {q}
  /\ IF q \in pending THEN Bump ELSE NoBump
  /\ IF future[q] = "waiting"
     THEN /\ future' = [future EXCEPT ![q] = answer] /\ timers' = timers \ {q}
          /\ accepted' = [accepted EXCEPT ![q] = @ \cup {kind}]
     ELSE UNCHANGED <<future, timers, accepted>>
  /\ UNCHANGED <<entries, outcomes>>

\* The timer of a blocking request denies it.
ExpireBlocking(q) ==
  /\ q \in timers /\ q \notin entries
  /\ Resolve(q, "denied", "expired")
  /\ UNCHANGED <<profile, carries, inTurn, asked, call, posts, ran, used>>

\* The timer of an async request takes its entry and keeps the outcome.
ExpireAsync(q) ==
  /\ q \in timers /\ q \in entries
  /\ entries' = entries \ {q} /\ timers' = timers \ {q}
  /\ pending' = pending \ {q} /\ outcomes' = Stored(q) /\ Bump
  /\ accepted' = [accepted EXCEPT ![q] = @ \cup {"expired"}]
  /\ call' = [call EXCEPT ![q] = "denied"]
  /\ UNCHANGED <<profile, carries, inTurn, asked, future, posts, ran, used>>

------------------------
(* Turns and calls. *)

BeginTurn ==
  /\ turn = NoRun /\ last < MaxRuns
  /\ last' = last + 1 /\ turn' = last + 1
  /\ UNCHANGED <<profile, carries, asked, call, brokerVars, poller, posts, accepted, ran, used>>

\* A turn ends or is cancelled. What waits in process is cancelled with it,
\* and a cancelled future disarms its timer.
EndTurn ==
  LET mine == {q \in Requests : asked[q] = turn /\ call[q] \in {"waiting", "running"}}
      cut == IF profile.harness = "in_process" THEN mine ELSE {}
      unanswered == {q \in cut : future[q] = "waiting"}
  IN /\ turn # NoRun /\ turn' = NoRun
     /\ call' = [q \in Requests |-> IF q \in cut THEN "cancelled" ELSE call[q]]
     /\ future' = [q \in Requests |-> IF q \in unanswered THEN "cancelled" ELSE future[q]]
     /\ timers' = timers \ unanswered
     /\ UNCHANGED <<profile, carries, last, asked, pending, entries, outcomes, version, changed,
                    poller, posts, accepted, ran, used>>

\* _session: the turn in progress may bring a credential for the upstream.
Credential == IF profile.harness = "gateway" /\ turn \in carries THEN turn ELSE NoRun

\* _execute: the tool runs, under the credential of this moment.
Execute(q) ==
  /\ call' = [call EXCEPT ![q] = "running"]
  /\ ran' = [ran EXCEPT ![q] = @ + 1]
  /\ used' = [used EXCEPT ![q] = Credential]

\* call_tool and the hook, for a gated call: it waits for a decision, or, when
\* answers come later, is queued and answered at once.
Ask(q) ==
  /\ turn # NoRun /\ asked[q] = NoRun
  /\ asked' = [asked EXCEPT ![q] = turn]
  /\ CASE profile.decider = "open" -> Execute(q) /\ UNCHANGED <<brokerVars, poller>>
       [] profile.decider = "strict" ->
            call' = [call EXCEPT ![q] = "denied"] /\ UNCHANGED <<brokerVars, poller, ran, used>>
       [] profile.decider = "handler" ->
            /\ call' = [call EXCEPT ![q] = "waiting"]
            /\ future' = [future EXCEPT ![q] = "waiting"]
            /\ UNCHANGED <<pending, timers, entries, outcomes, version, changed, poller, ran, used>>
       [] profile.decider = "queue" ->
            /\ call' = [call EXCEPT ![q] = IF Async THEN "queued" ELSE "waiting"]
            /\ Submit(q) /\ UNCHANGED <<outcomes, ran, used>>
  /\ UNCHANGED <<profile, carries, inTurn, posts, accepted>>

\* A registered handler or the approval webhook decides. One that fails ends
\* the call without running it, as a denial does.
Decide(q) ==
  /\ profile.decider = "handler" /\ future[q] = "waiting" /\ call[q] = "waiting"
  /\ \E answer \in {"approved", "denied"} :
       /\ future' = [future EXCEPT ![q] = answer]
       /\ accepted' = [accepted EXCEPT ![q] = @ \cup {answer}]
  /\ UNCHANGED <<profile, carries, inTurn, asked, call, pending, timers, entries, outcomes,
                 version, changed, poller, posts, ran, used>>

\* The turn the call was made in is still the one in progress.
TurnIsOn(q) == turn = asked[q]

\* The call wakes up with its answer. The gateway does not run it for a turn
\* that is gone.
Wake(q) ==
  /\ call[q] = "waiting" /\ future[q] \in {"approved", "denied"}
  /\ \/ /\ future[q] = "denied" /\ call' = [call EXCEPT ![q] = "denied"]
        /\ UNCHANGED <<ran, used>>
     \/ /\ future[q] = "approved" /\ (profile.harness = "gateway" => TurnIsOn(q))
        /\ Execute(q)
     \/ /\ future[q] = "approved" /\ profile.harness = "gateway" /\ ~TurnIsOn(q)
        /\ call' = [call EXCEPT ![q] = "refused"]
        /\ UNCHANGED <<ran, used>>
  /\ UNCHANGED <<profile, carries, inTurn, asked, brokerVars, poller, posts, accepted>>

\* The tool has run or failed; an async call's outcome is kept.
Return(q) ==
  /\ call[q] = "running" /\ call' = [call EXCEPT ![q] = "done"]
  /\ outcomes' = IF Async THEN Stored(q) ELSE outcomes
  /\ UNCHANGED <<profile, carries, inTurn, asked, future, pending, timers, entries, version,
                 changed, poller, posts, accepted, ran, used>>

------------------------
(* The routes. *)

M_TakeKeepsEntry(q) == entries' = entries /\ pending' = pending \ {q} /\ timers' = timers \ {q}

\* resolve_async takes the entry before anything awaits.
Take(q) == entries' = entries \ {q} /\ pending' = pending \ {q} /\ timers' = timers \ {q}

\* POST /approvals/{id} of an async request: it is run now, or denied.
PostAsync(q, answer) ==
  /\ q \in entries /\ Take(q) /\ Bump
  /\ accepted' = [accepted EXCEPT ![q] = @ \cup {answer}]
  /\ IF answer = "approved" THEN Execute(q) /\ outcomes' = outcomes
     ELSE /\ call' = [call EXCEPT ![q] = "denied"] /\ outcomes' = Stored(q)
          /\ UNCHANGED <<ran, used>>
  /\ UNCHANGED future

\* POST /approvals/{id}: of a blocking request, or one the broker has no more.
Post(q) ==
  /\ asked[q] # NoRun /\ Queued /\ posts < MaxPosts /\ posts' = posts + 1
  /\ \E answer \in {"approved", "denied"} :
       \/ PostAsync(q, answer)
       \/ q \notin entries /\ Resolve(q, answer, answer) /\ UNCHANGED <<call, ran, used>>
  /\ UNCHANGED <<profile, carries, inTurn, asked>>

\* GET /approvals?since=&wait=: at once when the version has moved, else the
\* request waits for the next change or for its time to run out.
Poll ==
  /\ poller.at = "idle" /\ Queued
  /\ IF version # poller.since
     THEN poller' = [poller EXCEPT !.since = version, !.saw = pending] /\ changed' = changed
     ELSE poller' = [poller EXCEPT !.at = "waiting"] /\ changed' = TRUE
  /\ UNCHANGED <<profile, carries, inTurn, asked, call, future, pending, timers, entries,
                 outcomes, version, posts, accepted, ran, used>>

Polled ==
  /\ poller.at \in {"waiting", "woken"}
  /\ poller' = [at |-> "idle", since |-> version, saw |-> pending]
  /\ UNCHANGED <<profile, carries, inTurn, asked, call, brokerVars, posts, accepted, ran, used>>

Expire(q) == ExpireBlocking(q) \/ ExpireAsync(q)

Next ==
  \/ BeginTurn \/ EndTurn \/ Poll \/ Polled
  \/ \E q \in Requests : Ask(q) \/ Decide(q) \/ Wake(q) \/ Return(q) \/ Expire(q) \/ Post(q)

\* Timers fire, and what is ready to run is run.
Fairness ==
  \A q \in Requests : WF_vars(Expire(q)) /\ WF_vars(Wake(q)) /\ WF_vars(Return(q))

Spec == Init /\ [][Next]_vars
FairSpec == Spec /\ Fairness

------------------------
(* Properties. *)

\* A tool behind the gate runs at most once, and only for a request that was
\* approved while it could be: not after a denial, its expiry or an earlier
\* answer (resolve_async takes the entry first; resolve pops the future).
RunsOnlyApproved ==
  \A q \in Requests :
    /\ ran[q] <= 1 /\ Cardinality(accepted[q]) <= 1
    /\ ran[q] > 0 /\ profile.decider # "open" => accepted[q] = {"approved"}

\* A call that waits for its approval runs only in the turn that made it, with
\* no credential but that turn's
\* (call_tool: the turn that asked may have ended while the approval waited).
NothingForAGoneTurn ==
  [][\A q \in Requests : ran'[q] > ran[q] /\ ~Async =>
        turn = asked'[q] /\ used'[q] \in {NoRun, asked'[q]}]_vars

\* The version a client has seen stands for the pending requests it was shown,
\* and a client that waits is woken by the next change (_bump: the version
\* moves whenever the pending set does).
PollersMissNothing ==
  /\ poller.since = version /\ poller.at # "woken" => poller.saw = pending
  /\ poller.at = "waiting" => changed /\ poller.since = version

\* An answer the broker has taken ends the call's wait: it is run, denied,
\* refused for its turn or cut with it; no request waits for ever unless
\* nobody waits for it any more (submit: a denial after timeout_s).
WaitsEnd ==
  \A q \in Requests : []<>(Queued => call[q] \notin {"waiting", "queued"})
========================
