------------ MODULE MCTurns ------------
(***************************************************************************)
(* What happens inside a turn and around it, side by side: the calls of    *)
(* the tool gateway and their approvals (ToolGateway), the adapters of the *)
(* executor tier (ExecutorTurns), the rates budgets use (ModelRates), the  *)
(* setup of a harness's own home (HarnessSetup), the inbox polled between  *)
(* turns (Inbox), an engineer lane's worktrees (Workspaces) and the depth  *)
(* of its subagents (SubagentDepth).  They share no state; a behaviour is  *)
(* one of one part, the others staying where they start.                   *)
(***************************************************************************)
EXTENDS ToolGateway, ExecutorTurns, ModelRates, HarnessSetup, Inbox, Workspaces, SubagentDepth

MCRaw == {[uncached |-> 1, output |-> 1, read |-> r, write |-> r] : r \in {None, 2}}
MCOldRows == {[uncached |-> 1, output |-> 1, read |-> 4, write |-> None]}

Named3(p, i, d) == [provider |-> p, id |-> i, dated |-> d]
RateEntry(i, c, w, h) == [input |-> i, cached |-> c, output |-> 1, write |-> w, hour |-> h]
MCDocuments ==
  {(Named3("p", "x", FALSE) :> RateEntry(2, 1, None, None)),
   (Named3("p", "x", FALSE) :> RateEntry(0, 0, None, None)) @@
     (Named3("q", "y", FALSE) :> RateEntry(2, Bad, None, None)),
   (Named3("p", "x", FALSE) :> RateEntry(2, 1, 2, 4)) @@
     (Named3("q", "x", FALSE) :> RateEntry(2, 0, 1, 2))}
MCModels == {NoModel, Named3("p", "x", FALSE), Named3("h", "x", FALSE), Named3("q", "y", FALSE)}
MCCalls == {[model |-> m, reads |-> 3, writes |-> 1, hour |-> h] :
              m \in {NoModel, Named3("", "x", TRUE), Named3("", "z", FALSE)}, h \in {None, 1}}
Total(reads, hour, calls) ==
  [UsageOf(4 + OrZero(reads), 1, reads, 2, hour) EXCEPT !.calls = calls, !.broken = calls # <<>>]
MCUsages ==
  {Total(r, h, cs) : r \in {None, 3}, h \in {None, 2},
                     cs \in {<<>>} \cup {<<c>> : c \in MCCalls} \cup
                            {<<c, d>> : c \in MCCalls, d \in {e \in MCCalls : e.model = NoModel}}}

VARIABLE part
gatewayVars == vars
partVars == <<part, gatewayVars, turnVars, ratesVars, setupVars, inboxVars, workspaceVars,
              subagentVars>>

\* A part that stays where it starts has one start.
PartsInit ==
  /\ part \in {"gateway", "turns", "rates", "setup", "inbox", "workspaces", "subagents"}
  /\ Init
  /\ part # "gateway" => carries = {} /\ profile = CHOOSE p \in Profiles : TRUE
  /\ TurnsInit
  /\ part # "turns" => spec = [kind |-> "codex", policy |-> "never", leash |-> {}] /\ thread = NoThread
  /\ RatesInit
  /\ part # "rates" => kind = NoSource /\ served = Gone
  /\ SetupInit
  /\ part # "setup" => file = << >> /\ skill = Absent
  /\ InboxInit
  /\ part # "inbox" => keyed = {} /\ \A s \in Sources : window[s] = EmptyWindow
  /\ WorkspacesInit
  /\ SubagentsInit
  /\ part # "subagents" => depthLimit = 0

Gateway == /\ part = "gateway" /\ Next
           /\ UNCHANGED <<part, turnVars, ratesVars, setupVars, inboxVars, workspaceVars, subagentVars>>
Turns == /\ part = "turns" /\ TurnsNext
         /\ UNCHANGED <<part, gatewayVars, ratesVars, setupVars, inboxVars, workspaceVars, subagentVars>>
Rates == /\ part = "rates" /\ RatesNext
         /\ UNCHANGED <<part, gatewayVars, turnVars, setupVars, inboxVars, workspaceVars, subagentVars>>
Setups == /\ part = "setup" /\ SetupNext
          /\ UNCHANGED <<part, gatewayVars, turnVars, ratesVars, inboxVars, workspaceVars, subagentVars>>
Polls == /\ part = "inbox" /\ InboxNext
         /\ UNCHANGED <<part, gatewayVars, turnVars, ratesVars, setupVars, workspaceVars, subagentVars>>
Lanes == /\ part = "workspaces" /\ WorkspacesNext
         /\ UNCHANGED <<part, gatewayVars, turnVars, ratesVars, setupVars, inboxVars, subagentVars>>
Subagents == /\ part = "subagents" /\ SubagentsNext
             /\ UNCHANGED <<part, gatewayVars, turnVars, ratesVars, setupVars, inboxVars, workspaceVars>>
PartsNext == Gateway \/ Turns \/ Rates \/ Setups \/ Polls \/ Lanes \/ Subagents

\* Each part's fairness, of the part that moves.
PartsFairness ==
  /\ \A q \in Requests : /\ WF_vars(part = "gateway" /\ Expire(q))
                         /\ WF_vars(part = "gateway" /\ Wake(q))
                         /\ WF_vars(part = "gateway" /\ Return(q))
  /\ WF_ratesVars(part = "rates" /\ Refresh) /\ WF_ratesVars(part = "rates" /\ FileCurrent)
  /\ WF_setupVars(part = "setup" /\ DaemonSetsUp) /\ WF_setupVars(part = "setup" /\ SetupStep)
  /\ \A s \in Sources : /\ WF_inboxVars(part = "inbox" /\ CallTool(s))
                        /\ WF_inboxVars(part = "inbox" /\ TakePoll(s))
  /\ \A t \in TurnIds : WF_workspaceVars(part = "workspaces" /\ Provisions(t))

PartsSpec == PartsInit /\ [][PartsNext]_partVars /\ PartsFairness

------------------------
\* Every variable of each part keeps its type.
TypeOK ==
  /\ GatewayTypeOK /\ TurnsTypeOK /\ RatesTypeOK /\ SetupTypeOK
  /\ InboxTypeOK /\ WorkspacesTypeOK /\ SubagentsTypeOK

\* Nothing runs that a human, the leash or the profile had to allow first, and
\* whoever waits for the approvals sees them (ToolGateway, ExecutorTurns,
\* SubagentDepth).
GatesHold == RunsOnlyApproved /\ PollersMissNothing /\ LeashHolds /\ DepthIsBounded

\* What the record says of a turn is what happened in it: its session, its
\* failure and what it used, weighed in full where no rate applies; what the
\* inbox says of a source is what its tool showed; a process starts in
\* worktrees that are ready, with hooks that run an adapter that is there
\* (ExecutorTurns, ModelRates, Inbox, Workspaces, HarnessSetup).
TurnsAreAccounted ==
  /\ HandleIsKept /\ FailureIsRecorded /\ SpendingAddsUp /\ UnratedCountsInFull
  /\ NothingIsMissed /\ StartsReady /\ RunsWhatExists

\* No step does anything in a turn that is gone or a session that is not the
\* run's, takes from a harness's home what is the user's, or an agent's work
\* from its worktree (ToolGateway, ExecutorTurns, HarnessSetup, Workspaces).
StepsAreSound ==
  NothingForAGoneTurn /\ OneSessionPerRun /\ WritesAreSound /\ WorkIsKept

\* What the parts promise in the end: an answered call returns (ToolGateway),
\* and what is to hold in the end of the part that moves comes to hold and
\* stays (ModelRates, HarnessSetup, Inbox, Workspaces).
EveryPartSettles ==
  /\ WaitsEnd
  /\ <>[](/\ part = "rates" => RatesCaughtUp
          /\ part = "setup" => SetupInPlace
          /\ part = "inbox" => InboxCaughtUp
          /\ part = "workspaces" => NobodyProvisions)
========================
