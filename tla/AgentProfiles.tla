------------ MODULE AgentProfiles ------------
(***************************************************************************)
(* What a profile has to pass before an agent runs it, and where: the      *)
(* daemon validates the text it is handed in its own environment           *)
(* (validate_profile_text of miragen/daemon/core.py), checks the tools     *)
(* source and the image it will spawn, and delivers an environment with    *)
(* the unit; the agent's own runtime, which may be older, loads the same   *)
(* text again where it boots (miragen/load.py, miragen/models.py,          *)
(* miragen/agent_type.py, the lifespan of miragen/app.py).  The operator   *)
(* changes the daemon's lists, its image and the agent's tools in between. *)
(*                                                                         *)
(* A profile is a record of what the checks look at.  One agent: how       *)
(* requests for several race is module AgentDirectory.                     *)
(***************************************************************************)
EXTENDS Integers, FiniteSets

CONSTANTS
  NewProfiles,   \* the profiles create is handed
  NextProfiles,  \* the profiles updates are handed
  FirstEnvs,     \* the environments the daemon starts in
  FirstLevels,   \* the base image: the highest contract it declares
  NoUnit,        \* no agent
  MaxSwitches    \* bound: updates, tool changes, upgrades and changes of the daemon's environment

VARIABLES
  daemonEnv,  \* the daemon's lists, and the variable M: not set, only its own, or forwarded
  baseLevel,  \* the base image: the highest contract it declares
  unit,       \* the agent: profile, tools.py, and the environment and image of its container
  was,        \* the unit before the change that boots now
  applying,   \* a create or update watches its boot
  switches
profileVars == <<daemonEnv, baseLevel, unit, was, applying, switches>>

(* Providers p and q, of which a deployment may list p; a host it may      *)
(* list; a model, agent type or speech provider may read ${M}, which holds *)
(* p's.                                                                    *)
Envs == [providers : SUBSET {"p"}, hosts : BOOLEAN, var : {"unset", "held", "forwarded"}]
Code == {"tool", "handler", "capability"}

(* What the checks look at in a profile; the others of a field's values    *)
(* make no difference to them.                                             *)
Texts ==
  [backend : SUBSET {"spec", "executor"},
   model : {"none", "p", "q", "${M}", "claude-code", "claude-code:"},
   agentType : {"absent", "internal", "external", "${M}"}, api : 0..6,
   harness : {"none", "locked", "engineer", "pin", "pinDead"}, credentials : BOOLEAN,
   needs : SUBSET {"tool", "handler"}, memory : BOOLEAN,
   capability : {"none", "thinking", "mcp", "mcp elsewhere", "gateway mcp", "fetch",
                 "native fetch", "custom"},
   post : {"none", "there", "elsewhere"}, voice : {"none", "p", "q", "http", "${M}"},
   speaks : BOOLEAN, approval : {"none", "gated", "mode only", "async", "async, open"},
   mode : {"http", "interactive, cron", "autonomous, http only"}]

ASSUME ProfilesAssumption ==
  /\ NewProfiles \subseteq Texts /\ NextProfiles \subseteq Texts
  /\ FirstEnvs \subseteq Envs /\ FirstLevels \subseteq 1..6 /\ MaxSwitches \in Nat

(* What docker hands the container: _shared_forward_env and the            *)
(* passthrough names.                                                      *)
Forwarded(env) == [env EXCEPT !.var = IF @ = "forwarded" THEN @ ELSE "unset"]

------------------------
(* The contract a profile needs. *)

(* inferred_contract: the first that applies, the newest first. *)
InferredContract(p) ==
  IF p.credentials THEN 6
  ELSE IF p.harness \in {"pin", "pinDead"} THEN 5
  ELSE IF p.harness # "none" THEN 4
  ELSE IF p.agentType # "absent" THEN 3
  ELSE IF "executor" \in p.backend THEN 2 ELSE 1

RequiredContract(p) ==
  IF p.api > InferredContract(p) THEN p.api ELSE InferredContract(p)

(* What an older runtime rejects: each feature by the level it came with. *)
Understands(level, p) ==
  /\ "executor" \in p.backend => level >= 2
  /\ p.agentType # "absent" => level >= 3
  /\ p.harness # "none" => level >= 4
  /\ p.harness = "pin" => level >= 5
  /\ p.credentials => level >= 6

------------------------
(* AgentProfile's validators, of the text with its variables filled in. *)

OnHarness(p) == p.model \in {"claude-code", "claude-code:"}
Public(p) == p.agentType = "external"

NotUnderstated(p) == p.api = 0 \/ p.api >= InferredContract(p)

OneBackend(p) == Cardinality(p.backend) = 1

HarnessFits(p) ==
  p.harness # "none" =>
    /\ "spec" \in p.backend /\ OnHarness(p)
    /\ p.harness # "locked" => ~Public(p)
    /\ p.harness = "pin" => p.model = "claude-code"
    /\ p.harness # "pinDead"

ExecutorFits(p) ==
  "executor" \in p.backend => "tool" \notin p.needs /\ p.approval = "none"

TriggersFit(p) == p.mode \notin {"autonomous, http only", "interactive, cron"}

SpeakHasVoice(p) == p.speaks => p.voice # "none"

ApprovalFits(p) == p.approval \notin {"mode only", "async, open"}

Valid(p) ==
  /\ NotUnderstated(p) /\ HarnessFits(p) /\ OneBackend(p) /\ ExecutorFits(p)
  /\ TriggersFit(p) /\ SpeakHasVoice(p) /\ ApprovalFits(p)

------------------------
(* The rules of a public-facing profile. *)

Listed(provider, env) == provider = "p" /\ "p" \in env.providers
HostListed(url, env) == env.hosts /\ url = "there"

ModelAllowed(p, env) == p.model # "${M}" /\ ~OnHarness(p) /\ Listed(p.model, env)

CapabilityAllowed(p, env) ==
  \/ p.capability \in {"none", "thinking", "native fetch"}
  \/ p.capability = "mcp" /\ env.hosts

VoiceAllowed(p, env) ==
  \/ p.voice = "none" \/ Listed(p.voice, env)
  \/ p.voice = "http" /\ env.hosts

(* check_agent_type, on the document as written. *)
PublicRules(p, env) ==
  /\ p.agentType # "${M}"
  /\ Public(p) =>
       /\ env.providers # {} /\ "spec" \in p.backend
       /\ "tool" \notin p.needs /\ ~p.memory
       /\ ModelAllowed(p, env) /\ CapabilityAllowed(p, env)
       /\ p.post = "none" \/ HostListed(p.post, env)
       /\ VoiceAllowed(p, env)

------------------------
(* load_profile. *)

(* interpolate_env: a variable that is not set refuses the profile. *)
Resolves(p, env) ==
  "${M}" \in {p.model, p.agentType, p.voice} => env.var # "unset"

Interpolated(p) ==
  [p EXCEPT !.model = IF @ = "${M}" THEN "p" ELSE @,
            !.agentType = IF @ = "${M}" THEN "internal" ELSE @,
            !.voice = IF @ = "${M}" THEN "p" ELSE @]

(* resolve_capabilities, for a model PydanticAI runs: the registry has the *)
(* built-in ones and what tools.py registered.                             *)
CapabilitiesResolve(p, code) ==
  "spec" \in p.backend /\ ~OnHarness(p) =>
    /\ p.capability # "gateway mcp"
    /\ p.capability = "custom" => "capability" \in code

AsyncFits(p) == p.approval = "async" => "spec" \in p.backend /\ OnHarness(p)

Loads(p, env, code) ==
  /\ Resolves(p, env)
  /\ Valid(Interpolated(p))
  /\ CapabilitiesResolve(Interpolated(p), code)
  /\ AsyncFits(Interpolated(p))
  /\ PublicRules(p, env)

(* The boot: tools.py is imported, the profile is loaded, its backend      *)
(* built, its handlers looked up.                                          *)
Carried(p) ==
  OnHarness(p) => p.capability \in {"none", "mcp", "gateway mcp", "fetch", "native fetch"}

Boots(u) ==
  /\ Understands(u.level, u.text)
  /\ Loads(u.text, u.env, u.code)
  /\ "spec" \in u.text.backend => Carried(Interpolated(u.text))
  /\ u.text.needs \subseteq u.code

------------------------

(* validate_profile_text: in the daemon, which imports no tools. *)
Validates(p) == Loads(p, daemonEnv, {})

Unit(p, code, env, level) == [text |-> p, code |-> code, env |-> env, level |-> level]

Switch == switches < MaxSwitches /\ switches' = switches + 1

ProfilesTypeOK ==
  /\ daemonEnv \in Envs /\ baseLevel \in 1..6
  /\ \A u \in {unit, was} \ {NoUnit} :
       /\ u.text.needs \subseteq Code
       /\ u.code \subseteq Code /\ u.env \in Envs /\ u.level \in 1..6
  /\ applying \in BOOLEAN /\ switches \in 0..MaxSwitches

ProfilesInit ==
  /\ daemonEnv \in FirstEnvs /\ baseLevel \in FirstLevels
  /\ unit = NoUnit /\ was = NoUnit
  /\ applying = FALSE /\ switches = 0

(* create_agent, with a tools source or without. *)
Create ==
  /\ unit = NoUnit
  /\ \E p \in NewProfiles, code \in {{}, {"tool"}, Code} :
       /\ Validates(p)
       /\ code # {} => ~Public(p)
       /\ p.needs \subseteq code
       /\ RequiredContract(p) <= baseLevel
       /\ unit' = Unit(p, code, Forwarded(daemonEnv), baseLevel)
  /\ was' = NoUnit /\ applying' = TRUE
  /\ UNCHANGED <<daemonEnv, baseLevel, switches>>

KindOf(p, env) == "executor" \in p.backend /\ Loads(p, Forwarded(env), {})

(* A change of kind, or of what the unit delivers. *)
Recreates(p) ==
  \/ KindOf(p, daemonEnv) # KindOf(unit.text, daemonEnv)
  \/ unit.env # Forwarded(daemonEnv)

(* update_agent_config: validated against the image that will run it. *)
Update(p) ==
  LET level == IF KindOf(p, daemonEnv) # KindOf(unit.text, daemonEnv) THEN baseLevel ELSE unit.level
  IN /\ unit # NoUnit /\ ~applying /\ Switch
     /\ Validates(p)
     /\ Public(p) => unit.code = {}
     /\ RequiredContract(p) <= level
     /\ unit' = IF Recreates(p) THEN Unit(p, unit.code, Forwarded(daemonEnv), level)
                                ELSE [unit EXCEPT !.text = p]
     /\ was' = unit /\ applying' = TRUE
     /\ UNCHANGED <<daemonEnv, baseLevel>>

(* _watch_first_boot, and the rollback of what it saw fail. *)
BootEnds ==
  /\ applying /\ applying' = FALSE
  /\ unit' = IF Boots(unit) THEN unit ELSE was
  /\ was' = NoUnit
  /\ UNCHANGED <<daemonEnv, baseLevel, switches>>

(* register_tool and delete_tool change tools.py and the profile's list    *)
(* and restart the agent.                                                  *)
ToolAdded ==
  /\ unit # NoUnit /\ ~applying /\ Switch
  /\ ~Public(unit.text)
  /\ unit' = [unit EXCEPT !.code = @ \cup {"tool"}, !.text.needs = @ \cup {"tool"}]
  /\ UNCHANGED <<daemonEnv, baseLevel, was, applying>>

ToolRemoved ==
  /\ unit # NoUnit /\ ~applying /\ Switch
  /\ "tool" \in unit.code
  /\ unit' = [unit EXCEPT !.code = @ \ {"tool"}, !.text.needs = @ \ {"tool"}]
  /\ UNCHANGED <<daemonEnv, baseLevel, was, applying>>

Deleted ==
  /\ unit # NoUnit /\ ~applying
  /\ unit' = NoUnit
  /\ Switch
  /\ UNCHANGED <<daemonEnv, baseLevel, was, applying>>

(* The daemon restarts in another environment, or on another base image. *)
DaemonRestarts(env, level) ==
  /\ ~applying /\ Switch
  /\ <<env, level>> # <<daemonEnv, baseLevel>>
  /\ daemonEnv' = env /\ baseLevel' = level
  /\ UNCHANGED <<unit, was, applying>>

ProfilesNext ==
  \/ Create
  \/ \E p \in NextProfiles : Update(p)
  \/ BootEnds \/ ToolAdded \/ ToolRemoved \/ Deleted
  \/ \E env \in FirstEnvs, level \in FirstLevels : DaemonRestarts(env, level)

ProfilesSpec == ProfilesInit /\ [][ProfilesNext]_profileVars

------------------------
(* What only shows where the agent boots: a variable the daemon has and    *)
(* does not forward, a capability a harness cannot carry, and tools or     *)
(* handlers an update (which has no tools source to check) names.          *)
OnlyBootTells(u) ==
  \/ (daemonEnv.var = "held" /\ ~Resolves(u.text, u.env))
  \/ ~Carried(Interpolated(u.text))
  \/ (was # NoUnit /\ ~(u.text.needs \subseteq u.code))

(* What create and update accept boots, on the image they checked and with *)
(* the lists they checked: the daemon and the runtime, of different ages,  *)
(* agree, but for what only a boot can tell.                               *)
AcceptedBoots == applying => (Boots(unit) \/ OnlyBootTells(unit))

(* What the daemon leaves behind boots: a profile that did not is gone or  *)
(* rolled back, and tools come and go with their place in the profile.     *)
(* Outside it: a tool registered with an executor's agent, whose profile   *)
(* may name none, stops that agent from booting (core.py, register_tool).  *)
LeftBehindBoots ==
  unit # NoUnit /\ ~applying =>
    \/ Boots(unit)
    \/ "executor" \in unit.text.backend /\ "tool" \in unit.text.needs

(* A public-facing agent runs on a listed provider, without code, memory   *)
(* or a harness, whatever its text said before its variables were filled   *)
(* in; and an update holds it to the lists of that day: its container has  *)
(* the daemon's, not those it was created with.                            *)
PublicIsHeld ==
  unit # NoUnit /\ Public(Interpolated(unit.text)) /\ Boots(unit) =>
    /\ Interpolated(unit.text).model \in unit.env.providers
    /\ unit.code = {} /\ unit.text.backend = {"spec"} /\ ~unit.text.memory
    /\ applying => unit.env = Forwarded(daemonEnv)

(* Profiles are sound: the three above. *)
ProfilesAreSound == AcceptedBoots /\ LeftBehindBoots /\ PublicIsHeld
========================
