------------ MODULE SubagentDepth ------------
(***************************************************************************)
(* How deep an engineer's subagents may nest (SubagentDepthPolicy of       *)
(* miragen/harness/engineer.py): hooks of one `claude` process.  A call of *)
(* the Agent tool names its caller but not the subagent it starts, so a    *)
(* subagent that starts is given the deepest of the spawns in flight.      *)
(* Agents call in parallel; a call ends when its subagent has stopped.     *)
(***************************************************************************)
EXTENDS Integers, FiniteSets

CONSTANTS
  Calls,      \* calls of the Agent tool; the agent a call starts has its name
  Unnamed,    \* the calls whose subagents start with an event without an id
  MaxDepth    \* bound: the profile's subagent_depth

VARIABLES
  depthLimit,  \* SubagentDepthPolicy.limit
  spawns,      \* call -> where it is, and the agent that made it
  pendingDepth, \* _pending: call -> the child's depth
  recorded     \* _depth: agent -> depth
subagentVars == <<depthLimit, spawns, pendingDepth, recorded>>

Main == "main"
Unknown == -1
ASSUME DepthAssumption == IsFiniteSet(Calls) /\ Main \notin Calls /\ MaxDepth \in Nat
Agents == Calls \cup {Main}
StartedCalls == {c \in Calls : spawns[c].at = "started"}
Alive == StartedCalls \cup {Main}

\* Every variable keeps its type.
SubagentsTypeOK ==
  /\ depthLimit \in 0..MaxDepth
  /\ spawns \in [Calls -> [at: {"none", "asked", "started", "stopped", "over", "refused"}, by: Agents]]
  /\ \A c \in DOMAIN pendingDepth : c \in Calls /\ pendingDepth[c] \in 1..MaxDepth
  /\ \A c \in DOMAIN recorded : c \in Calls /\ recorded[c] \in 0..MaxDepth

SubagentsInit ==
  /\ depthLimit \in 0..MaxDepth
  /\ spawns = [c \in Calls |-> [at |-> "none", by |-> Main]]
  /\ pendingDepth = << >> /\ recorded = << >>

CallGoes(c, place) == spawns' = [spawns EXCEPT ![c].at = place]
Forgotten(f, c) == [d \in DOMAIN f \ {c} |-> f[d]]
With(f, c, v) == [d \in DOMAIN f \cup {c} |-> IF d = c THEN v ELSE f[d]]

\* _caller_depth; nothing is known of an agent whose start had no id.
CallerDepth(a) ==
  IF a = Main THEN 0 ELSE IF a \in DOMAIN recorded THEN recorded[a] ELSE Unknown

Allows(a) == CallerDepth(a) # Unknown /\ CallerDepth(a) + 1 <= depthLimit

\* PreToolUse.
PreToolUse(c, a) ==
  /\ spawns[c].at = "none" /\ a \in Alive
  /\ spawns' = [spawns EXCEPT ![c] = [at |-> IF Allows(a) THEN "asked" ELSE "refused", by |-> a]]
  /\ pendingDepth' = IF Allows(a) THEN With(pendingDepth, c, CallerDepth(a) + 1) ELSE pendingDepth
  /\ UNCHANGED <<depthLimit, recorded>>

InFlight == {pendingDepth[c] : c \in DOMAIN pendingDepth}
Given == IF InFlight = {} THEN depthLimit ELSE CHOOSE d \in InFlight : \A e \in InFlight : d >= e

SubagentStart(c) ==
  /\ spawns[c].at = "asked" /\ CallGoes(c, "started")
  /\ recorded' = IF c \in Unnamed THEN recorded ELSE With(recorded, c, Given)
  /\ UNCHANGED <<depthLimit, pendingDepth>>

SubagentStop(c) ==
  /\ spawns[c].at = "started" /\ \A d \in StartedCalls : spawns[d].by # c
  /\ CallGoes(c, "stopped")
  /\ recorded' = Forgotten(recorded, c)
  /\ UNCHANGED <<depthLimit, pendingDepth>>

\* PostToolUse, or PostToolUseFailure of a call whose subagent never started.
PostToolUse(c) ==
  /\ spawns[c].at \in {"asked", "stopped"} /\ CallGoes(c, "over")
  /\ pendingDepth' = Forgotten(pendingDepth, c)
  /\ UNCHANGED <<depthLimit, recorded>>

SubagentsNext ==
  \E c \in Calls : \/ SubagentStart(c) \/ SubagentStop(c) \/ PostToolUse(c)
                   \/ \E a \in Agents : PreToolUse(c, a)
SubagentsSpec == SubagentsInit /\ [][SubagentsNext]_subagentVars

------------------------
\* The agents above an agent, up to the main thread: the least set that holds its caller
\* and every member's.
HoldsCallers(agents, a) == \A c \in Calls \cap (agents \cup {a}) : spawns[c].by \in agents
Above(a) == {b \in Agents : \A agents \in SUBSET Agents : HoldsCallers(agents, a) => b \in agents}

\* However many agents call in parallel, none runs deeper than the profile
\* allows, for the hooks' depths overestimate, never less ("refuses more,
\* never less", engineer.py:327).
DepthIsBounded ==
  \A c \in StartedCalls : /\ Cardinality(Above(c)) <= depthLimit
                     /\ c \in DOMAIN recorded => Cardinality(Above(c)) <= recorded[c]
========================
