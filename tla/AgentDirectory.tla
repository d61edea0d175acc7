------------ MODULE AgentDirectory ------------
(***************************************************************************)
(* The agents a lifecycle daemon owns (miragen/daemon/core.py over the     *)
(* Docker Compose spawn driver, driven by the sync routes of               *)
(* miragen/daemon/api.py, which run in a thread pool).                     *)
(*                                                                         *)
(* An agent is spread over five places no transaction spans: its workspace *)
(* directory, which the agent may rewrite, the daemon's last-known-good    *)
(* copy of its profile, its service in the one compose.yml and its         *)
(* container. A handler visits them in turn, `todo` being the steps it     *)
(* still has; a step that fails replaces them by the handler's rollback,   *)
(* whose steps fail too, and a kill of the daemon ends every handler where *)
(* it is (inside a step it leaves what that step leaves when it fails).    *)
(* Handlers run concurrently; only the count-and-create of a directory is  *)
(* under a lock, and compose.yml is read and written in two steps, the     *)
(* second of which truncates it first.                                     *)
(*                                                                         *)
(* A profile is what the daemon reads out of it. Left out: labels, logs,   *)
(* reading and exporting files, isolation's networks and secret files, and *)
(* requests refused before they change anything.                           *)
(***************************************************************************)
EXTENDS Naturals, FiniteSets, Sequences

CONSTANTS
  AgentNames, \* agent names
  Handlers,   \* threads serving requests
  None,       \* no such file, service, container
  Caps,       \* values of MIRAGEND_MAX_AGENTS
  MaxOps,     \* bound: requests accepted
  MaxFaults   \* bound: driver calls, writes and boots that fail, file rewrites, kills

ASSUME DirectoryBoundsAssumption ==
  IsFiniteSet(AgentNames) /\ Caps \subseteq Nat /\ MaxOps \in Nat /\ MaxFaults \in Nat

(* Profiles, by what sets them apart: an agent whose model needs a         *)
(* provider key, one with an executor, a public-facing one.                *)
Profiles == {"keyed", "executor", "public"}
Kind(p) == IF p = "executor" THEN "claude-code" ELSE ""
Keys(p) == IF p = "keyed" THEN {"API_KEY"} ELSE {}
Contract(p) == IF p = "executor" THEN 2 ELSE 1
IsPublic(p) == p = "public"

Images == 1 .. 2  \* an image, by the highest profile contract it supports
Specs == [image : Images, keys : SUBSET {"API_KEY"}]
Dirs == [yaml : Profiles \cup {None}, code : BOOLEAN]
Boxes == [image : Images, keys : SUBSET {"API_KEY"},
          text : Profiles \cup {None}, state : {"running", "stopped", "failed"}]
Steps == {"commit", "move", "write", "load", "store", "up", "restart", "stop", "boot",
          "save", "teardown", "discard", "unload", "unstore", "unlink", "rmtree",
          "restore", "reload", "restage", "reup", "rerestart", "tool", "untool"}
Kinds == {"create", "import", "update", "start", "stop", "restart", "delete",
          "register", "edit", "file"}

ASSUME NothingAssumption ==
  /\ None \notin AgentNames /\ None \notin Profiles /\ None \notin Specs
  /\ None \notin Dirs /\ None \notin Boxes
  /\ None \notin [AgentNames -> Specs \cup {None}]

VARIABLES
  dir,      \* agents/<name>/
  good,     \* .miragend/profiles/<name>.yaml
  compose,  \* compose.yml: name -> service definition
  box,      \* the container of that name
  cached,   \* the base image this host has
  upstream, \* the base image the registry has
  cap,      \* MIRAGEND_MAX_AGENTS of this daemon
  op,       \* thread -> the request it serves
  ops,      \* history: requests accepted
  faults,   \* history: faults so far
  applied,  \* history: the profile the last operation to succeed applied, and
            \* those of the requests since then that ended halfway
  halfway,  \* history: names a request of which ended halfway: killed, or its
            \* rollback or cleanup failed, or whose service a write of
            \* compose.yml that failed lost
  mixed     \* history: names two handlers worked on at once, or whose
            \* service two handlers rewrote at once

directoryVars ==
  <<dir, good, compose, box, cached, upstream, cap, op, ops, faults, applied, halfway, mixed>>

(* text: the profile applied; code: the workspace gets (register: had)     *)
(* code; spec: the service to define; was: the service before; file: the   *)
(* profile to put back; snap: compose.yml as read.                         *)
Idle == [kind |-> "none", name |-> None, todo |-> << >>, text |-> None, code |-> FALSE,
         spec |-> None, was |-> None, file |-> None, snap |-> None]

DirectoryTypeOK ==
  /\ dir \in [AgentNames -> Dirs \cup {None}]
  /\ good \in [AgentNames -> Profiles \cup {None}]
  /\ compose \in [AgentNames -> Specs \cup {None}]
  /\ box \in [AgentNames -> Boxes \cup {None}]
  /\ cached \in Images /\ upstream \in Images /\ cap \in Caps
  /\ \A h \in Handlers :
       \/ op[h] = Idle
       \/ /\ op[h].kind \in Kinds /\ op[h].name \in AgentNames
          /\ op[h].todo # << >>
          /\ \A i \in DOMAIN op[h].todo : op[h].todo[i] \in Steps
          /\ op[h].text \in Profiles \cup {None}
          /\ op[h].snap \in [AgentNames -> Specs \cup {None}] \cup {None}
  /\ ops \in 0 .. MaxOps /\ faults \in 0 .. MaxFaults
  /\ applied \in [AgentNames -> SUBSET Profiles]
  /\ halfway \subseteq AgentNames /\ mixed \subseteq AgentNames

DirectoryInit ==
  /\ dir = [n \in AgentNames |-> None]
  /\ good = [n \in AgentNames |-> None]
  /\ compose = [n \in AgentNames |-> None]
  /\ box = [n \in AgentNames |-> None]
  /\ cached \in Images
  /\ upstream \in Images /\ cached <= upstream
  /\ cap \in Caps
  /\ op = [h \in Handlers |-> Idle]
  /\ ops = 0 /\ faults = 0
  /\ applied = [n \in AgentNames |-> {}]
  /\ halfway = {} /\ mixed = {}

------------------------
At(h, step) == op[h].todo # << >> /\ Head(op[h].todo) = step

(* The handler goes on with these steps, or is done when there are none. *)
Follow(h, r, steps) ==
  op' = [op EXCEPT ![h] = IF steps = << >> THEN Idle ELSE [r EXCEPT !.todo = steps]]

Done(h, r) == Follow(h, r, Tail(op[h].todo))

Cleanup == <<"unload", "unstore", "rmtree">>

(* What a handler still does once the step it is at has failed. Only       *)
(* DaemonError rolls an update back: a driver error or an OSError out of   *)
(* define_service is none. In import's cleanup, an error out of            *)
(* remove_service skips the rmtree; create catches it and goes on.         *)
OnFailure(h) ==
  LET step == Head(op[h].todo)
      kind == op[h].kind IN
    CASE kind \in {"create", "import"} /\ step \in {"write", "load", "store"} -> <<"rmtree">>
      [] kind = "create" /\ step \in {"unload", "unstore"} -> <<"rmtree">>
      [] kind \in {"create", "import"} /\ step = "up" -> Cleanup
      [] kind \in {"create", "import"} /\ step = "boot" ->
           <<"discard", "unload", "unstore", "rmtree">>
      [] kind = "update" /\ step \in {"up", "restart", "boot"} ->
           IF op[h].spec = None THEN <<"restore", "rerestart">>
                                ELSE <<"restore", "reload", "restage", "reup">>
      [] kind = "register" /\ step = "restart" -> <<"untool">>
      [] OTHER -> << >>

Fails(h) == Follow(h, [op[h] EXCEPT !.snap = None], OnFailure(h))

Fault == faults < MaxFaults /\ faults' = faults + 1

(* These names end halfway; the handler's own may be left with its profile.*)
Halve(h, names) ==
  /\ halfway' = halfway \cup names
  /\ applied' = [applied EXCEPT ![op[h].name] = @ \cup ({op[h].text} \ {None})]

(* A step of a rollback, a cleanup or a deletion fails. *)
Breaks(h) == Fault /\ Fails(h) /\ Halve(h, {op[h].name})

(* Another request is at work on the agent; a create that waits for the    *)
(* lock has touched nothing yet.                                           *)
Busy(n, h) == \E g \in Handlers \ {h} : op[g].name = n /\ Head(op[g].todo) # "commit"

(* Accept a request. *)
Begin(h, r) ==
  /\ op[h] = Idle /\ ops < MaxOps
  /\ op' = [op EXCEPT ![h] = r]
  /\ ops' = ops + 1
  /\ mixed' = IF r.kind # "create" /\ Busy(r.name, h) THEN mixed \cup {r.name} ELSE mixed
  /\ UNCHANGED <<dir, good, compose, box, upstream, cap, faults, applied, halfway>>

------------------------
(* The contract gate: a cached base image that falls short is pulled once. *)
Pulled(p) == IF Contract(p) <= cached THEN cached ELSE upstream

ValidatedBase(p) == Contract(p) <= Pulled(p) /\ cached' = Pulled(p)

Request(kind, n, todo) == [Idle EXCEPT !.kind = kind, !.name = n, !.todo = todo]

Planned(p, image) == [image |-> image, keys |-> Keys(p)]

CreateAgent(h, n, p, code) ==
  /\ dir[n] = None
  /\ ~(IsPublic(p) /\ code)
  /\ ValidatedBase(p)
  /\ Begin(h, [Request("create", n,
                <<"commit", "write", "load", "store", "up", "boot", "save">>)
               EXCEPT !.text = p, !.code = code, !.spec = Planned(p, Pulled(p))])

Full == Cardinality({n \in AgentNames : dir[n] # None}) >= cap

ImportAgent(h, n, p, code, start) ==
  /\ dir[n] = None /\ ~Full
  /\ ~(IsPublic(p) /\ code)
  /\ ValidatedBase(p)
  /\ Begin(h, [Request("import", n, IF start
                  THEN <<"move", "load", "store", "up", "boot", "save">>
                  ELSE <<"move", "load", "store", "save">>)
               EXCEPT !.text = p, !.code = code, !.spec = Planned(p, Pulled(p))])

(* The profile the daemon last applied, else the workspace's. *)
ProfileText(n) == IF good[n] # None THEN good[n] ELSE dir[n].yaml

ProfileKind(p) == IF p = None THEN "" ELSE Kind(p)

(* A change of kind takes the base image, anything else keeps the one      *)
(* pinned in the service; the container is recreated when the kind or what *)
(* the unit delivers differs.                                              *)
UpdateAgentConfig(h, n, p) ==
  LET kindChanges == ProfileKind(p) # ProfileKind(ProfileText(n))
      fromBase == kindChanges \/ compose[n] = None
      image == IF fromBase THEN Pulled(p) ELSE compose[n].image
      recreate == \/ kindChanges \/ compose[n] = None
                  \/ compose[n].keys # Keys(p) IN
  /\ dir[n] # None /\ ProfileText(n) # None
  /\ IsPublic(p) => ~dir[n].code
  /\ IF fromBase THEN ValidatedBase(p)
                 ELSE Contract(p) <= image /\ UNCHANGED cached
  /\ Begin(h, [Request("update", n, IF recreate
                  THEN <<"write", "load", "store", "up", "boot", "save">>
                  ELSE <<"write", "restart", "boot", "save">>)
               EXCEPT !.text = p, !.was = compose[n], !.file = ProfileText(n),
                      !.spec = IF recreate THEN Planned(p, image) ELSE None])

StartAgent(h, n) ==
  dir[n] # None /\ UNCHANGED cached /\ Begin(h, Request("start", n, <<"up">>))

RestartAgent(h, n) ==
  dir[n] # None /\ UNCHANGED cached /\ Begin(h, Request("restart", n, <<"restart">>))

StopAgent(h, n) ==
  dir[n] # None /\ UNCHANGED cached /\ Begin(h, Request("stop", n, <<"stop">>))

DeleteAgent(h, n) ==
  /\ dir[n] # None /\ UNCHANGED cached
  /\ Begin(h, Request("delete", n, <<"teardown", "unload", "unstore", "unlink", "rmtree">>))

(* A public agent takes no code: the daemon's copy of its profile decides. *)
TakesCode(n) == ProfileText(n) = None \/ ~IsPublic(ProfileText(n))

RegisterTool(h, n) ==
  /\ dir[n] # None /\ TakesCode(n) /\ UNCHANGED cached
  /\ Begin(h, [Request("register", n, <<"tool", "restart">>)
               EXCEPT !.code = dir[n].code, !.file = dir[n].yaml])

(* edit_tool leaves code there; delete_tool may leave none, and is refused *)
(* to no agent.                                                            *)
EditTool(h, n, left) ==
  /\ dir[n] # None /\ dir[n].code /\ (left => TakesCode(n)) /\ UNCHANGED cached
  /\ Begin(h, [Request("edit", n, <<"tool", "restart">>) EXCEPT !.code = left])

WriteFile(h, n) ==
  /\ dir[n] # None /\ TakesCode(n) /\ UNCHANGED cached
  /\ Begin(h, Request("file", n, <<"tool">>))

------------------------
(* The steps. *)

(* Under _agent_creation_lock: count, then create the directory, which     *)
(* fails when it is there.                                                 *)
Commit(h) ==
  LET n == op[h].name IN
  /\ At(h, "commit")
  /\ IF Full \/ dir[n] # None
     THEN Fails(h) /\ UNCHANGED dir
     ELSE dir' = [dir EXCEPT ![n] = [yaml |-> None, code |-> FALSE]] /\ Done(h, op[h])
  /\ mixed' = IF Busy(n, h) THEN mixed \cup {n} ELSE mixed
  /\ UNCHANGED <<good, compose, box, cached, upstream, cap, ops, faults, applied, halfway>>

(* Import's commit under the same lock. shutil.move into a directory that  *)
(* has appeared meanwhile puts the archive inside it.                      *)
Move(h) ==
  LET n == op[h].name IN
  /\ At(h, "move")
  /\ IF Full
     THEN Fails(h) /\ UNCHANGED dir
     ELSE /\ dir' = [dir EXCEPT ![n] = IF @ = None
                        THEN [yaml |-> op[h].text, code |-> op[h].code] ELSE @]
          /\ Done(h, op[h])
  /\ UNCHANGED <<good, compose, box, cached, upstream, cap, ops, faults, applied, halfway, mixed>>

(* The profile, replaced by a rename; create also writes tools.py. *)
Write(h) ==
  LET n == op[h].name
      new == op[h].kind = "create" IN
  /\ At(h, "write")
  /\ \/ dir[n] = None /\ Fails(h) /\ UNCHANGED <<dir, faults>>
     \/ dir[n] # None /\ Fault /\ Fails(h) /\ UNCHANGED dir
     \/ /\ dir[n] # None
        /\ dir' = [dir EXCEPT ![n] = [yaml |-> op[h].text,
                                     code |-> IF new THEN op[h].code ELSE @.code]]
        /\ Done(h, op[h]) /\ UNCHANGED faults
  /\ UNCHANGED <<good, compose, box, cached, upstream, cap, ops, applied, halfway, mixed>>

(* compose.yml is read here and written in the next step. Two handlers     *)
(* between the two mix up both their agents.                               *)
ReadCompose(h, r) ==
  LET others == {g \in Handlers \ {h} : op[g].snap # None} IN
  /\ Done(h, [r EXCEPT !.snap = compose])
  /\ mixed' = IF others = {} THEN mixed
              ELSE mixed \cup {r.name} \cup {op[g].name : g \in others}

WriteCompose(h, spec) ==
  /\ compose' = [op[h].snap EXCEPT ![op[h].name] = spec]
  /\ Done(h, [op[h] EXCEPT !.snap = None])
  /\ UNCHANGED <<faults, mixed>>

(* The write fails: before it truncates the file, or with some services    *)
(* written, the others lost. One that a second handler is about to write   *)
(* back, or whose own request is at work, is rewritten by two at once.     *)
(* (Cut inside a service the file may not parse: it then reads as one      *)
(* without services, the requests after it as failing to read it.)         *)
LosesServices(h, spec) ==
  LET n == op[h].name
      new == [op[h].snap EXCEPT ![n] = spec]
      lost == {m \in AgentNames \ {n} : compose'[m] # compose[m]}
      others == {g \in Handlers \ {h} : op[g].snap # None} IN
  /\ Fault /\ Fails(h)
  /\ compose' \in {compose} \cup
        {[m \in AgentNames |-> IF m \in written THEN new[m] ELSE None] :
           written \in SUBSET AgentNames}
  /\ Halve(h, lost \cup {n})
  /\ mixed' = mixed \cup {m \in lost : others # {} \/ Busy(m, h)}

(* Import plans its service from the profile now in the workspace. The     *)
(* driver may refuse.                                                      *)
Load(h) ==
  LET n == op[h].name
      text == IF op[h].kind = "import" /\ dir[n] # None THEN dir[n].yaml ELSE op[h].text
      r == IF op[h].kind = "update" THEN op[h]
           ELSE [op[h] EXCEPT !.text = text,
                   !.spec.keys = IF text = None THEN {} ELSE Keys(text)] IN
  /\ At(h, "load")
  /\ \/ ReadCompose(h, r) /\ UNCHANGED faults
     \/ Fault /\ Fails(h) /\ UNCHANGED mixed
  /\ UNCHANGED <<dir, good, compose, box, cached, upstream, cap, ops, applied, halfway>>

Store(h) ==
  /\ At(h, "store")
  /\ \/ WriteCompose(h, op[h].spec) /\ UNCHANGED <<applied, halfway>>
     \/ LosesServices(h, op[h].spec)
  /\ UNCHANGED <<dir, good, box, cached, upstream, cap, ops>>

(* A container that starts reads the workspace's profile. One in three     *)
(* dies of it; without a profile it always does.                           *)
Starts(n, box0) ==
  LET text == IF dir[n] = None THEN None ELSE dir[n].yaml
      started == [image |-> box0.image, keys |-> box0.keys, text |-> text, state |-> "running"] IN
  \/ text # None /\ box' = [box EXCEPT ![n] = started] /\ UNCHANGED faults
  \/ text = None /\ box' = [box EXCEPT ![n] = [started EXCEPT !.state = "failed"]]
                  /\ UNCHANGED faults
  \/ text # None /\ Fault
     /\ box' = [box EXCEPT ![n] = [started EXCEPT !.state = "failed"]]

(* The running container already is what the service defines. *)
UpToDate(n) ==
  /\ box[n] # None /\ box[n].state = "running"
  /\ [image |-> box[n].image, keys |-> box[n].keys] = compose[n]

(* docker compose up -d: leaves an up-to-date container alone, creates or  *)
(* recreates any other, and makes a bind-mounted directory that is missing.*)
ComposeUp(n) ==
  /\ compose[n] # None
  /\ IF UpToDate(n) THEN UNCHANGED <<box, faults>> ELSE Starts(n, compose[n])
  /\ dir' = [dir EXCEPT ![n] = IF @ = None THEN [yaml |-> None, code |-> FALSE] ELSE @]

UpFails(n) ==
  /\ \/ compose[n] = None /\ UNCHANGED faults
     \/ compose[n] # None /\ Fault
  /\ UNCHANGED <<box, dir>>

Up(h) ==
  LET n == op[h].name IN
  /\ At(h, "up")
  /\ \/ ComposeUp(n) /\ Done(h, op[h])
     \/ UpFails(n) /\ Fails(h)
  /\ UNCHANGED <<good, compose, cached, upstream, cap, ops, applied, halfway, mixed>>

(* restart_agent: the workspace must be there, and the container; its      *)
(* environment stays.                                                      *)
CanRestart(n) == dir[n] # None /\ box[n] # None

RestartFails(n) ==
  /\ \/ ~CanRestart(n) /\ UNCHANGED faults
     \/ CanRestart(n) /\ Fault
  /\ UNCHANGED box

RestartBox(h) ==
  LET n == op[h].name IN
  /\ At(h, "restart")
  /\ \/ CanRestart(n) /\ Starts(n, box[n]) /\ Done(h, op[h])
     \/ RestartFails(n) /\ Fails(h)
  /\ UNCHANGED <<dir, good, compose, cached, upstream, cap, ops, applied, halfway, mixed>>

Stop(h) ==
  LET n == op[h].name IN
  /\ At(h, "stop")
  /\ box' = IF box[n] = None THEN box ELSE [box EXCEPT ![n].state = "stopped"]
  /\ Done(h, op[h])
  /\ UNCHANGED <<dir, good, compose, cached, upstream, cap, ops, faults, applied, halfway, mixed>>

(* _watch_first_boot: a container that died or was stopped fails it; one   *)
(* that is not there outlasts the probe.                                   *)
Boot(h) ==
  LET n == op[h].name IN
  /\ At(h, "boot")
  /\ IF box[n] # None /\ box[n].state # "running" THEN Fails(h) ELSE Done(h, op[h])
  /\ UNCHANGED <<dir, good, compose, box, cached, upstream, cap, ops, faults>>
  /\ UNCHANGED <<applied, halfway, mixed>>

(* Best effort: a full disk leaves the copy of before. The request is      *)
(* through, and the agent whole.                                           *)
SaveCopy(h) ==
  LET n == op[h].name IN
  /\ At(h, "save")
  /\ \/ good' = [good EXCEPT ![n] = op[h].text] /\ UNCHANGED faults
     \/ Fault /\ UNCHANGED good
  /\ applied' = [applied EXCEPT ![n] = {op[h].text} \ {None}]
  /\ halfway' = halfway \ {n}
  /\ Done(h, op[h])
  /\ UNCHANGED <<dir, compose, box, cached, upstream, cap, ops, mixed>>

(* Stop and remove the container. Deletion gives up when that fails, a     *)
(* rollback goes on.                                                       *)
Teardown(h) ==
  LET n == op[h].name
      rollback == At(h, "discard") IN
  /\ At(h, "teardown") \/ rollback
  /\ \/ /\ box' = [box EXCEPT ![n] = None]
        /\ Done(h, op[h])
        /\ UNCHANGED faults
     \/ /\ box[n] # None /\ Fault
        /\ \/ box' = [box EXCEPT ![n].state = "stopped"] \/ UNCHANGED box
        /\ IF rollback THEN Done(h, op[h]) ELSE Fails(h)
  /\ UNCHANGED <<dir, good, compose, cached, upstream, cap, ops, applied, halfway, mixed>>

Unload(h) ==
  /\ At(h, "unload")
  /\ \/ ReadCompose(h, op[h]) /\ UNCHANGED <<faults, applied, halfway>>
     \/ Breaks(h) /\ UNCHANGED mixed
  /\ UNCHANGED <<dir, good, compose, box, cached, upstream, cap, ops>>

(* With its service goes whatever was halfway. *)
Unstore(h) ==
  LET n == op[h].name IN
  /\ At(h, "unstore")
  /\ \/ /\ WriteCompose(h, None)
        /\ applied' = [applied EXCEPT ![n] = {}] /\ halfway' = halfway \ {n}
     \/ LosesServices(h, None)
  /\ UNCHANGED <<dir, good, box, cached, upstream, cap, ops>>

Unlink(h) ==
  /\ At(h, "unlink")
  /\ \/ /\ good' = [good EXCEPT ![op[h].name] = None]
        /\ Done(h, op[h]) /\ UNCHANGED <<faults, applied, halfway>>
     \/ Breaks(h) /\ UNCHANGED good
  /\ UNCHANGED <<dir, compose, box, cached, upstream, cap, ops, mixed>>

(* The whole directory, or what of it can be removed. *)
Rmtree(h) ==
  LET n == op[h].name IN
  /\ At(h, "rmtree")
  /\ \/ /\ dir' = [dir EXCEPT ![n] = None]
        /\ Done(h, op[h]) /\ UNCHANGED <<faults, applied, halfway>>
     \/ /\ dir[n] # None /\ Breaks(h)
        /\ \E yaml \in {dir[n].yaml, None}, code \in {dir[n].code, FALSE} :
             dir' = [dir EXCEPT ![n] = [yaml |-> yaml, code |-> code]]
  /\ UNCHANGED <<good, compose, box, cached, upstream, cap, ops, mixed>>

------------------------
(* _roll_back_config. *)

(* The previous profile back into the workspace, if that is still there. *)
Restore(h) ==
  LET n == op[h].name IN
  /\ At(h, "restore")
  /\ \/ /\ dir[n] = None /\ Follow(h, op[h], << >>)
        /\ UNCHANGED <<dir, faults, applied, halfway>>
     \/ /\ dir[n] # None /\ dir' = [dir EXCEPT ![n].yaml = op[h].file]
        /\ Done(h, op[h]) /\ UNCHANGED <<faults, applied, halfway>>
     \/ dir[n] # None /\ Breaks(h) /\ UNCHANGED dir
  /\ UNCHANGED <<good, compose, box, cached, upstream, cap, ops, mixed>>

(* The unit as the driver had it, never planned again from profile text;   *)
(* only without one is it composed from the previous profile.              *)
RollbackSpec(h) ==
  IF op[h].was # None THEN op[h].was ELSE Planned(op[h].file, cached)

(* (An agent without a unit before was halfway.) *)
Reload(h) ==
  /\ At(h, "reload")
  /\ \/ /\ ReadCompose(h, op[h]) /\ UNCHANGED <<faults, halfway>>
        /\ applied' = [applied EXCEPT ![op[h].name] =
                         IF op[h].was # None THEN @ ELSE @ \cup {op[h].file}]
     \/ Breaks(h) /\ UNCHANGED mixed
  /\ UNCHANGED <<dir, good, compose, box, cached, upstream, cap, ops>>

Restage(h) ==
  /\ At(h, "restage")
  /\ \/ WriteCompose(h, RollbackSpec(h)) /\ UNCHANGED <<applied, halfway>>
     \/ LosesServices(h, RollbackSpec(h))
  /\ UNCHANGED <<dir, good, box, cached, upstream, cap, ops>>

(* Whether or not the previous unit starts. *)
Reup(h) ==
  /\ At(h, "reup")
  /\ ComposeUp(op[h].name) \/ UpFails(op[h].name)
  /\ Done(h, op[h])
  /\ UNCHANGED <<good, compose, cached, upstream, cap, ops, applied, halfway, mixed>>

Rerestart(h) ==
  LET n == op[h].name IN
  /\ At(h, "rerestart")
  /\ \/ CanRestart(n) /\ Starts(n, box[n])
     \/ RestartFails(n)
  /\ Done(h, op[h])
  /\ UNCHANGED <<dir, good, compose, cached, upstream, cap, ops, applied, halfway, mixed>>

------------------------
(* A tool written, rewritten or removed, or a code file written. Another   *)
(* file of the workspace fails the same way when the workspace has gone.   *)
Tool(h) ==
  LET n == op[h].name IN
  /\ At(h, "tool")
  /\ IF dir[n] = None
     THEN Follow(h, op[h], << >>) /\ UNCHANGED dir
     ELSE /\ dir' = [dir EXCEPT ![n].code = op[h].kind # "edit" \/ op[h].code]
          /\ Done(h, op[h])
  /\ UNCHANGED <<good, compose, box, cached, upstream, cap, ops, faults, applied, halfway, mixed>>

(* register_tool puts both files back as it read them. *)
Untool(h) ==
  LET n == op[h].name IN
  /\ At(h, "untool")
  /\ dir' = IF dir[n] = None THEN dir
            ELSE [dir EXCEPT ![n].code = op[h].code,
                             ![n].yaml = IF op[h].file = None THEN @ ELSE op[h].file]
  /\ Done(h, op[h])
  /\ UNCHANGED <<good, compose, box, cached, upstream, cap, ops, faults, applied, halfway, mixed>>

(* The agent rewrites its own profile through its mount. *)
AgentWrites(n, p) ==
  /\ box[n] # None /\ box[n].state = "running" /\ dir[n] # None
  /\ Fault
  /\ dir' = [dir EXCEPT ![n].yaml = p]
  /\ UNCHANGED <<good, compose, box, cached, upstream, cap, op, ops, applied, halfway, mixed>>

(* The daemon is killed, and no start of it takes up what it was at. An    *)
(* agent with a request that had begun to change its places ends halfway.  *)
Kill ==
  LET cut == {h \in Handlers : /\ op[h].kind \in {"create", "import", "update", "delete"}
                               /\ Head(op[h].todo) # "commit"} IN
  /\ op # [h \in Handlers |-> Idle] /\ Fault
  /\ op' = [h \in Handlers |-> Idle]
  /\ halfway' = halfway \cup {op[h].name : h \in cut}
  /\ applied' = [n \in AgentNames |-> applied[n] \cup
                   ({op[h].text : h \in {g \in cut : op[g].name = n}} \ {None})]
  /\ UNCHANGED <<dir, good, compose, box, cached, upstream, cap, ops, mixed>>

Accept(h, n) ==
  \/ \E p \in Profiles, code \in BOOLEAN : CreateAgent(h, n, p, code)
  \/ \E p \in Profiles, code, start \in BOOLEAN : ImportAgent(h, n, p, code, start)
  \/ \E p \in Profiles : UpdateAgentConfig(h, n, p)
  \/ StartAgent(h, n) \/ RestartAgent(h, n) \/ StopAgent(h, n) \/ DeleteAgent(h, n)
  \/ RegisterTool(h, n) \/ WriteFile(h, n)
  \/ \E left \in BOOLEAN : EditTool(h, n, left)

Step(h) ==
  \/ Commit(h) \/ Move(h) \/ Write(h) \/ Load(h) \/ Store(h) \/ Up(h) \/ RestartBox(h)
  \/ Stop(h) \/ Boot(h) \/ SaveCopy(h) \/ Teardown(h) \/ Unload(h) \/ Unstore(h)
  \/ Unlink(h) \/ Rmtree(h) \/ Restore(h) \/ Reload(h) \/ Restage(h) \/ Reup(h)
  \/ Rerestart(h) \/ Tool(h) \/ Untool(h)

DirectoryNext ==
  \/ \E h \in Handlers : Step(h) \/ \E n \in AgentNames : Accept(h, n)
  \/ \E n \in AgentNames, p \in Profiles : AgentWrites(n, p)
  \/ Kill

DirectorySpec == DirectoryInit /\ [][DirectoryNext]_directoryVars

------------------------
Alone(n) == n \notin mixed /\ \A h \in Handlers : op[h].name # n

(* Creates and imports of different agents that race for the last place    *)
(* never get more directories than MIRAGEND_MAX_AGENTS allows.             *)
CapHolds == mixed = {} => Cardinality({n \in AgentNames : dir[n] # None}) <= cap

(* A service right for a profile: its keys, on an image that supports it. *)
Serves(c, p) == c # None /\ c.keys = Keys(p) /\ Contract(p) <= c.image

(* Of an agent whose requests never overlapped, at rest. Whatever step     *)
(* failed, once the last request that ended halfway (killed, or with a     *)
(* rollback or cleanup that failed too) was followed by one that went      *)
(* through, it is gone, without a service, or runs a service right for the *)
(* one profile last applied: a rollback neither widens nor narrows what it *)
(* holds, even after a profile copy that could not be saved. Until then    *)
(* its service may be missing, but holds no other keys than those of the   *)
(* last profile applied, of a request that ended halfway, or of the        *)
(* previous profile a rollback fell back on when there was no unit to put  *)
(* back. Never is a profile copy left where the directory is gone, for a   *)
(* later agent of that name to inherit.                                    *)
ServiceMatchesProfile ==
  \A n \in AgentNames : Alone(n) =>
    /\ compose[n] # None => \E p \in applied[n] : compose[n].keys = Keys(p)
    /\ dir[n] = None => good[n] = None
    /\ n \notin halfway => IF dir[n] = None THEN compose[n] = None
                           ELSE \E p \in Profiles : applied[n] = {p} /\ Serves(compose[n], p)

(* An agent the daemon's copy says is public has no code, whichever order  *)
(* tools, files, imports and config updates came in.                       *)
PublicTakesNoCode ==
  \A n \in AgentNames :
    Alone(n) /\ dir[n] # None /\ good[n] # None /\ IsPublic(good[n]) => ~dir[n].code

(* The directory, the services and the daemon's own profile copies agree,  *)
(* with requests for one agent that do not overlap: the types and the      *)
(* three above.                                                            *)
DirectoryIsSound == DirectoryTypeOK /\ CapHolds /\ ServiceMatchesProfile /\ PublicTakesNoCode
========================
