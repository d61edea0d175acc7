------------ MODULE MCManagement ------------
(***************************************************************************)
(* What is managed for the agents, side by side: the schedules and their   *)
(* reconcilers (ManagedSchedules), the agents a daemon owns                *)
(* (AgentDirectory), what a profile has to pass before it runs             *)
(* (AgentProfiles), and the memory scopes of the daemon's session plane    *)
(* (ScopeProvisioning).  They share no state; a behaviour is one of one    *)
(* part, the others staying where they start.                              *)
(***************************************************************************)
EXTENDS ManagedSchedules, AgentDirectory, AgentProfiles, ScopeProvisioning, TLC

Symmetry == Permutations(Clients) \cup Permutations(AgentNames) \cup Permutations(Handlers)

(* Profiles: some plain ones, those that differ from one of them in one    *)
(* field, and the combinations of backend, model, agent type and harness.  *)
Plain == [backend |-> {"spec"}, model |-> "p", agentType |-> "absent", api |-> 0,
          harness |-> "none", credentials |-> FALSE, needs |-> {}, memory |-> FALSE,
          capability |-> "none", post |-> "none", voice |-> "none", speaks |-> FALSE,
          approval |-> "none", mode |-> "http"]
Bases == {Plain, [Plain EXCEPT !.agentType = "external"],
          [Plain EXCEPT !.backend = {"executor"}, !.model = "none"],
          [Plain EXCEPT !.model = "claude-code", !.harness = "pin"]}
Values ==
  [backend |-> SUBSET {"spec", "executor"},
   model |-> {"p", "q", "${M}", "claude-code", "claude-code:"},
   agentType |-> {"absent", "internal", "external", "${M}"}, api |-> {0, 2, 3, 6},
   harness |-> {"none", "locked", "engineer", "pin", "pinDead"}, credentials |-> BOOLEAN,
   needs |-> SUBSET {"tool", "handler"}, memory |-> BOOLEAN,
   capability |-> {"none", "thinking", "mcp", "mcp elsewhere", "gateway mcp", "fetch",
                   "native fetch", "custom"},
   post |-> {"none", "there", "elsewhere"}, voice |-> {"none", "p", "q", "http", "${M}"},
   speaks |-> BOOLEAN, approval |-> {"none", "gated", "mode only", "async", "async, open"},
   mode |-> {"http", "interactive, cron", "autonomous, http only"}]
MCNewProfiles ==
  {p \in UNION {{[b EXCEPT ![f] = v] : v \in Values[f]} : b \in Bases, f \in DOMAIN Values} \cup
         {[Plain EXCEPT !.backend = b, !.model = m, !.agentType = a, !.harness = h] :
            b \in Values.backend, m \in Values.model, a \in Values.agentType,
            h \in Values.harness} :
     DOMAIN p = DOMAIN Values}
MCNextProfiles ==
  Bases \cup {[Plain EXCEPT !.needs = {"tool"}], [Plain EXCEPT !.model = "${M}"]}
Daemon(providers, hosts, var) == [providers |-> providers, hosts |-> hosts, var |-> var]
MCEnvs == {Daemon({}, FALSE, "forwarded"), Daemon({"p"}, TRUE, "held"), Daemon({"p"}, FALSE, "unset")}

VARIABLE part
scheduleVars == vars
partVars == <<part, scheduleVars, directoryVars, profileVars, scopeVars>>

\* A part that stays where it starts has one start.
PartsInit ==
  /\ part \in {"schedules", "directory", "profiles", "scopes"}
  /\ Init
  /\ part # "schedules" => mode = "hybrid"
  /\ DirectoryInit
  /\ part # "directory" => cached = 2 /\ cap = 1
  /\ ProfilesInit
  /\ part # "profiles" => daemonEnv.var = "unset" /\ baseLevel = 6
  /\ ScopesInit
  /\ part # "scopes" => hasOperator

Schedules ==
  /\ part = "schedules" /\ Next
  /\ UNCHANGED <<part, directoryVars, profileVars, scopeVars>>
Directory ==
  /\ part = "directory" /\ DirectoryNext
  /\ UNCHANGED <<part, scheduleVars, profileVars, scopeVars>>
ProfileChecks ==
  /\ part = "profiles" /\ ProfilesNext
  /\ UNCHANGED <<part, scheduleVars, directoryVars, scopeVars>>
Provisioning ==
  /\ part = "scopes" /\ ScopesNext
  /\ UNCHANGED <<part, scheduleVars, directoryVars, profileVars>>
PartsNext == Schedules \/ Directory \/ ProfileChecks \/ Provisioning

PartsSpec == PartsInit /\ [][PartsNext]_partVars

(* Nothing is promised of an agent whose requests overlapped, so states    *)
(* with such agents are checked but not continued; nor are, to keep the    *)
(* run small, those after a fault where there is room for two agents.      *)
Separate == mixed = {} /\ (cap = 2 => faults = 0)

------------------------
(* The agents a daemon owns are sound, together and each with its profile: *)
(* DirectoryIsSound of AgentDirectory, and of AgentProfiles that what the  *)
(* daemon accepts and leaves behind boots, and that a public-facing agent  *)
(* is held to the lists of the day (with the types of both).               *)
AgentsAreSound == DirectoryIsSound /\ ProfilesTypeOK /\ ProfilesAreSound

(* So are the scopes of its session plane: ScopesAreReady of               *)
(* ScopeProvisioning (with its types).                                     *)
OwnedIsSound == AgentsAreSound /\ ScopesTypeOK /\ ScopesAreReady
========================
