------------ MODULE Workspaces ------------
(***************************************************************************)
(* The workspaces of an engineer lane (miragen/harness/engineer.py under   *)
(* the Claude Code harness): one shared bare clone per repository, and for *)
(* every instance a worktree of each, made before its process starts.      *)
(* Provisioning holds the clones' locks and runs git in a thread; a turn   *)
(* that is cancelled lets go of the locks, the thread goes on.  Turns of   *)
(* different instances overlap, git fails, DELETE removes an instance, and *)
(* the process is killed.                                                  *)
(***************************************************************************)
EXTENDS Integers

CONSTANTS
  Instances,
  OneOffs,      \* the instances that are one run each, removed after it
  RepoCount,    \* the lane's repositories, in the order of their names
  MaxLaneTurns,     \* bound: turns
  MaxPushes,    \* bound: commits to a default branch, after which nobody pushes
  MaxMishaps    \* bound: git failures, cancelled turns, kills and deletions

ASSUME WorkspacesAssumption ==
  /\ Instances # {} /\ RepoCount \in Nat \ {0}
  /\ MaxLaneTurns \in Nat /\ MaxPushes \in Nat /\ MaxMishaps \in Nat

VARIABLES
  origin,    \* each repository's default branch: how many commits
  mirror,    \* the shared clone: the default branch as last fetched, NoClone without one
  tree,      \* instance -> repository -> its worktree
  turns,     \* turn -> where it is; an abandoned one's thread still runs
  locks,     \* each clone's lock: the turn that holds it
  slot,      \* _busy_instances: instance -> its turn
  warm,      \* instances whose process runs
  deleting,  \* instances with a DELETE under way
  broken,    \* for the properties: instances whose provisioning was cancelled, killed or ran into a DELETE
  mishaps
workspaceVars == <<origin, mirror, tree, turns, locks, slot, warm, deleting, broken, mishaps>>

Repos == 1 .. RepoCount
TurnIds == 1 .. MaxLaneTurns
NoTurn == 0
NoClone == -1
NoTree == [state |-> "none", base |-> 0, work |-> FALSE]
Unstarted == [at |-> "none", instance |-> CHOOSE i \in Instances : TRUE, repo |-> 1,
              cancelled |-> FALSE, since |-> [r \in Repos |-> 0], made |-> {}]
InThread == {"check", "fetch", "clear", "add", "checkout"}

\* Every variable keeps its type.
WorkspacesTypeOK ==
  /\ origin \in [Repos -> 0..MaxPushes] /\ mirror \in [Repos -> {NoClone} \cup 0..MaxPushes]
  /\ tree \in [Instances -> [Repos -> [state: {"none", "half", "whole"}, base: 0..MaxPushes, work: BOOLEAN]]]
  /\ turns \in [TurnIds -> [at: {"none", "locks", "spawn", "running", "over"} \cup InThread,
                            instance: Instances, repo: Repos, cancelled: BOOLEAN,
                            since: [Repos -> 0..MaxPushes], made: SUBSET Repos]]
  /\ locks \in [Repos -> {NoTurn} \cup TurnIds] /\ slot \in [Instances -> {NoTurn} \cup TurnIds]
  /\ warm \subseteq Instances /\ deleting \subseteq Instances /\ broken \subseteq Instances
  /\ mishaps \in 0..MaxMishaps

WorkspacesInit ==
  /\ origin = [r \in Repos |-> 0]
  /\ mirror = [r \in Repos |-> NoClone]
  /\ tree = [i \in Instances |-> [r \in Repos |-> NoTree]]
  /\ turns = [t \in TurnIds |-> Unstarted]
  /\ locks = [r \in Repos |-> NoTurn]
  /\ slot = [i \in Instances |-> NoTurn]
  /\ warm = {} /\ deleting = {} /\ broken = {}
  /\ mishaps = 0

Mishap == mishaps < MaxMishaps /\ mishaps' = mishaps + 1
TurnAt(t, place) == turns[t].at = place
TurnGoes(t, place) == turns' = [turns EXCEPT ![t].at = place]
Unlocked(t) == [r \in Repos |-> IF locks[r] = t THEN NoTurn ELSE locks[r]]
Removed(i) == [tree EXCEPT ![i] = [r \in Repos |-> NoTree]]
WithoutTree(i, r) == [tree EXCEPT ![i][r] = NoTree]

Push(r) ==
  /\ \A q \in Repos : origin[q] < MaxPushes
  /\ origin' = [origin EXCEPT ![r] = @ + 1]
  /\ UNCHANGED <<mirror, tree, turns, locks, slot, warm, deleting, broken, mishaps>>

\* A turn takes its instance's slot; with a process that runs it needs no workspace.
StartTurn(t, i) ==
  /\ TurnAt(t, "none") /\ \A u \in TurnIds : u < t => ~TurnAt(u, "none")
  /\ slot[i] = NoTurn
  /\ i \in OneOffs => \A u \in TurnIds : TurnAt(u, "none") \/ turns[u].instance # i
  /\ slot' = [slot EXCEPT ![i] = t]
  /\ turns' = [turns EXCEPT ![t] = [@ EXCEPT !.at = IF i \in warm THEN "running" ELSE "locks",
                                             !.instance = i, !.since = origin]]
  /\ UNCHANGED <<origin, mirror, tree, locks, warm, deleting, broken, mishaps>>

\* provision_workspace: the clones' locks in the order of their names, then the thread.
TakeLock(t) ==
  LET r == turns[t].repo IN
  /\ TurnAt(t, "locks") /\ locks[r] = NoTurn
  /\ locks' = [locks EXCEPT ![r] = t]
  /\ turns' = [turns EXCEPT ![t] = IF r = RepoCount THEN [@ EXCEPT !.at = "check", !.repo = 1]
                                   ELSE [@ EXCEPT !.repo = r + 1]]
  /\ UNCHANGED <<origin, mirror, tree, slot, warm, deleting, broken, mishaps>>

\* The next repository, or the workspace is there.
NextRepo(t, last, rest) ==
  IF last = RepoCount
  THEN /\ turns' = [turns EXCEPT ![t] = [rest EXCEPT !.at = IF rest.cancelled THEN "over" ELSE "spawn"]]
       /\ locks' = Unlocked(t)
  ELSE /\ turns' = [turns EXCEPT ![t] = [rest EXCEPT !.at = "check", !.repo = last + 1]]
       /\ UNCHANGED locks

\* WorkspaceError: the turn fails; a one-off run's directory goes.
Fails(t, left) ==
  LET i == turns[t].instance IN
  /\ TurnGoes(t, "over") /\ locks' = Unlocked(t)
  /\ IF turns[t].cancelled THEN tree' = left /\ UNCHANGED slot
     ELSE /\ tree' = IF i \in OneOffs THEN Removed(i) ELSE left
          /\ slot' = [slot EXCEPT ![i] = NoTurn]

\* `.git` is there from early on in `git worktree add`.
IsThere(worktree) == worktree.state # "none"

Check(t) ==
  LET i == turns[t].instance r == turns[t].repo IN
  /\ TurnAt(t, "check")
  /\ IF IsThere(tree[i][r]) THEN NextRepo(t, r, turns[t]) ELSE TurnGoes(t, "fetch") /\ UNCHANGED locks
  /\ UNCHANGED <<origin, mirror, tree, slot, warm, deleting, broken, mishaps>>

FetchedHead(r) == origin[r]

\* _ensure_mirror: a new clone is made aside and renamed into place.
Fetch(t) ==
  LET i == turns[t].instance r == turns[t].repo IN
  /\ TurnAt(t, "fetch")
  /\ \/ /\ mirror' = [mirror EXCEPT ![r] = FetchedHead(r)]
        /\ TurnGoes(t, "clear") /\ UNCHANGED <<tree, locks, slot, mishaps>>
     \/ Mishap /\ Fails(t, tree) /\ UNCHANGED mirror
  /\ UNCHANGED <<origin, warm, deleting, broken>>

\* A directory that is there is taken for a failed attempt's.
Clear(t) ==
  LET i == turns[t].instance r == turns[t].repo IN
  /\ TurnAt(t, "clear")
  /\ tree' = WithoutTree(i, r)
  /\ TurnGoes(t, "add")
  /\ UNCHANGED <<origin, mirror, locks, slot, warm, deleting, broken, mishaps>>

\* git worktree add makes the directory with its .git, then checks out; when it
\* fails, also over a directory that appeared meanwhile, the directory goes.
Add(t) ==
  LET i == turns[t].instance r == turns[t].repo IN
  /\ TurnAt(t, "add")
  /\ IF tree[i][r].state # "none"
     THEN Fails(t, WithoutTree(i, r))
     ELSE /\ tree' = [tree EXCEPT ![i][r] = [state |-> "half", base |-> mirror[r], work |-> FALSE]]
          /\ TurnGoes(t, "checkout") /\ UNCHANGED <<locks, slot>>
  /\ UNCHANGED <<origin, mirror, warm, deleting, broken, mishaps>>

Checkout(t) ==
  LET i == turns[t].instance r == turns[t].repo IN
  /\ TurnAt(t, "checkout")
  /\ \/ /\ tree[i][r].state # "none"
        /\ tree' = [tree EXCEPT ![i][r].state = "whole"]
        /\ NextRepo(t, r, [turns[t] EXCEPT !.made = @ \cup {r}])
        /\ UNCHANGED <<slot, mishaps>>
     \/ tree[i][r].state = "none" /\ Fails(t, WithoutTree(i, r)) /\ UNCHANGED mishaps
     \/ Mishap /\ Fails(t, WithoutTree(i, r))
  /\ UNCHANGED <<origin, mirror, warm, deleting, broken>>

\* _spawn: the only repository's worktree is the working directory.
Spawn(t) ==
  LET i == turns[t].instance IN
  /\ TurnAt(t, "spawn")
  /\ IF RepoCount = 1 /\ tree[i][1].state = "none"
     THEN TurnGoes(t, "over") /\ slot' = [slot EXCEPT ![i] = NoTurn] /\ UNCHANGED warm
     ELSE TurnGoes(t, "running") /\ warm' = warm \cup {i} /\ UNCHANGED slot
  /\ UNCHANGED <<origin, mirror, tree, locks, deleting, broken, mishaps>>

AgentWorks(t, r) ==
  LET i == turns[t].instance IN
  /\ TurnAt(t, "running") /\ tree[i][r].state # "none" /\ ~tree[i][r].work
  /\ tree' = [tree EXCEPT ![i][r].work = TRUE]
  /\ UNCHANGED <<origin, mirror, turns, locks, slot, warm, deleting, broken, mishaps>>

\* A turn ends, its process stays or, broken off or one-off, goes.
TurnEnds(t) ==
  LET i == turns[t].instance IN
  /\ TurnAt(t, "running") /\ TurnGoes(t, "over")
  /\ slot' = [slot EXCEPT ![i] = NoTurn]
  /\ IF i \in OneOffs THEN tree' = Removed(i) /\ warm' = warm \ {i}
     ELSE UNCHANGED tree /\ warm' \in {warm, warm \ {i}}
  /\ UNCHANGED <<origin, mirror, locks, deleting, broken, mishaps>>

\* The caller of a turn goes away (a dropped stream) before its process starts:
\* the locks are let go of, git is not stopped.
Cancel(t) ==
  LET i == turns[t].instance IN
  /\ turns[t].at \in {"locks", "spawn"} \cup InThread /\ ~turns[t].cancelled
  /\ Mishap
  /\ turns' = [turns EXCEPT ![t].at = IF turns[t].at \in InThread THEN @ ELSE "over",
                            ![t].cancelled = TRUE]
  /\ locks' = Unlocked(t)
  /\ slot' = [slot EXCEPT ![i] = NoTurn]
  /\ broken' = IF turns[t].at \in InThread THEN broken \cup {i} ELSE broken
  /\ UNCHANGED <<origin, mirror, tree, warm, deleting>>

\* An idle process is stopped.
Reap(i) ==
  /\ i \in warm /\ slot[i] = NoTurn
  /\ warm' = warm \ {i}
  /\ UNCHANGED <<origin, mirror, tree, turns, locks, slot, deleting, broken, mishaps>>

\* DELETE /instances/{name}: no turn may hold the slot then; it waits for the spawn lock.
Delete(i) ==
  /\ i \notin OneOffs /\ slot[i] = NoTurn /\ i \notin deleting
  /\ Mishap
  /\ deleting' = deleting \cup {i}
  /\ UNCHANGED <<origin, mirror, tree, turns, locks, slot, warm, broken>>

Stray(i) == \E t \in TurnIds : turns[t].at \in InThread /\ turns[t].cancelled /\ turns[t].instance = i

\* forget: refused while the process has a turn, else it and the directory go.
Forget(i) ==
  /\ i \in deleting /\ deleting' = deleting \ {i}
  /\ IF \E t \in TurnIds : TurnAt(t, "running") /\ turns[t].instance = i
     THEN UNCHANGED <<tree, warm, broken>>
     ELSE /\ tree' = Removed(i) /\ warm' = warm \ {i}
          /\ broken' = IF slot[i] # NoTurn THEN broken \cup {i} ELSE IF Stray(i) THEN broken ELSE broken \ {i}
  /\ UNCHANGED <<origin, mirror, turns, locks, slot, mishaps>>

\* The process is killed, its threads and git with it.
Kill ==
  /\ Mishap
  /\ broken' = broken \cup {i \in Instances : \E r \in Repos : tree[i][r].state = "half"}
  /\ turns' = [t \in TurnIds |-> IF TurnAt(t, "none") THEN turns[t] ELSE [turns[t] EXCEPT !.at = "over"]]
  /\ locks' = [r \in Repos |-> NoTurn]
  /\ slot' = [i \in Instances |-> NoTurn]
  /\ warm' = {} /\ deleting' = {}
  /\ UNCHANGED <<origin, mirror, tree>>

Provisions(t) ==
  TakeLock(t) \/ Check(t) \/ Fetch(t) \/ Clear(t) \/ Add(t) \/ Checkout(t) \/ Spawn(t)

WorkspacesNext ==
  \/ \E r \in Repos : Push(r)
  \/ \E t \in TurnIds : \/ Provisions(t) \/ Cancel(t) \/ TurnEnds(t)
                        \/ \E i \in Instances : StartTurn(t, i)
                        \/ \E r \in Repos : AgentWorks(t, r)
  \/ \E i \in Instances : Reap(i) \/ Delete(i) \/ Forget(i)
  \/ Kill

\* git ends, by its timeout; a lock that is free is taken.
WorkspacesFairness == \A t \in TurnIds : WF_workspaceVars(Provisions(t))
WorkspacesSpec == WorkspacesInit /\ [][WorkspacesNext]_workspaceVars /\ WorkspacesFairness

------------------------
Loses(i) == \E r \in Repos : tree[i][r].work /\ ~tree'[i][r].work

\* A worktree an agent has worked in goes only with its instance: by a DELETE,
\* or after a one-off run -- whatever turns, kills and failures of git come,
\* while no thread of a cancelled turn still provisions that instance.
WorkIsKept ==
  [][\A i \in Instances : Loses(i) => i \in deleting \cup OneOffs \/ Stray(i)]_workspaceVars

\* "An existing worktree is never reset: it is the agent's work in progress"
\* (docs/design/harnesses.md:403-404; engineer.py:234).
NeverReset == [][\A i \in Instances : Loses(i) => i \in deleting \cup OneOffs]_workspaceVars

\* A turn's process starts in worktrees that are checked out, and the ones it
\* made start from the default branch as it was at the turn's start or later.
StartsReady ==
  \A t \in TurnIds : LET i == turns[t].instance IN
    turns[t].at = "running" /\ i \notin broken =>
      \A r \in Repos : /\ tree[i][r].state = "whole"
                       /\ r \in turns[t].made => tree[i][r].base >= turns[t].since[r]

\* No turn waits for clones for ever, since the locks are taken in one order: to hold in the end.
NobodyProvisions == \A t \in TurnIds : turns[t].at \in {"none", "running", "over"}
========================
