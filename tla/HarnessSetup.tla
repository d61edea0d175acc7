------------ MODULE HarnessSetup ------------
(* The setup of Codex that the daemon keeps up in the harness's own home *)
(* (src/miragen_hook/harness_setup.py): the handlers of one event in *)
(* hooks.json, the MCP server and the trusted hooks in config.toml, a skill, *)
(* and a copy of the adapter for every version that may still be used.  The *)
(* daemon repeats it, `miragen-hook setup` does or undoes it once, another *)
(* daemon keeps its own handlers under the same lock, and the user edits the *)
(* files without one.  Every write replaces one file; a writer may stop *)
(* between any two.  A hook is trusted by its place and what it runs. *)
EXTENDS Integers, Sequences, Lists

CONSTANTS Versions,   \* adapter versions, natural numbers above 0
          MaxSetups,    \* bound: setups by hand, and by the other daemon
          MaxEdits,   \* bound: edits by the user
          MaxStops,   \* bound: setups that fail or are killed, and upgrades
          MaxDays     \* bound: days that pass

ASSUME SetupAssumption ==
  /\ Versions \subseteq Nat \ {0} /\ 1 \in Versions
  /\ MaxSetups \in Nat /\ MaxEdits \in Nat /\ MaxStops \in Nat /\ MaxDays \in Nat

VARIABLES
  file,     \* hooks.json: the groups of the event, each its handlers
  config,   \* config.toml: our server's version, the user's addition to it, our trust
  skill,    \* what the skill's directory holds: nothing, the user's skill, or a version
  copies,   \* the adapter copies
  lock,     \* who holds .mira-harness-setup.lock
  setup,    \* the setup in progress: where it is, its version, what it has read
  wanted,   \* the version of the daemon's snapshot
  budget    \* what is left of the bounds
setupVars == <<file, config, skill, copies, lock, setup, wanted, budget>>

Absent == 0   \* the version of a setup that removes, and of a skill that is not there
UserSkill == -1
Ours(v) == [who |-> "ours", version |-> v]
User == [who |-> "user", version |-> 0]
Theirs == [who |-> "theirs", version |-> 0]
IsOurs(h) == h.who = "ours"

------------------------
(* hooks.json *)

Places(groups) == UNION {{g} \X DOMAIN groups[g] : g \in DOMAIN groups}
At(groups, p) == groups[p[1]][p[2]]
OwnPlaces(groups) == {p \in Places(groups) : IsOurs(At(groups, p))}
Before(p, q) == p[1] < q[1] \/ (p[1] = q[1] /\ p[2] <= q[2])

\* Our handler is put where the first of ours was, or in a group at the end;
\* other handlers of ours go, and the groups they leave empty.
Dropped == [who |-> "none", version |-> 0]
Placed(groups, v) ==
  LET own == OwnPlaces(groups)
  IN [g \in DOMAIN groups |->
        [h \in DOMAIN groups[g] |->
           IF <<g, h>> \notin own THEN groups[g][h]
           ELSE IF v # Absent /\ \A q \in own : Before(<<g, h>>, q) THEN Ours(v) ELSE Dropped]]
Kept(groups) ==
  Without([g \in DOMAIN groups |-> Without(groups[g], {Dropped})], {<< >>})
Merged(groups, v) ==
  LET kept == Kept(Placed(groups, v))
  IN IF v = Absent \/ OwnPlaces(groups) # {} THEN kept ELSE Append(kept, <<Ours(v)>>)

\* codex_trust_states: the hash of exactly our handlers, by place.
Trust(groups) == [p \in OwnPlaces(groups) |-> At(groups, p)]
Foreign(groups) == {<<p, At(groups, p)>> : p \in Places(groups) \ OwnPlaces(groups)}

------------------------
Idle == [at |-> "idle", version |-> Absent, old |-> << >>, new |-> << >>, extra |-> FALSE,
         seen |-> TRUE]
Steps == {"idle", "locked", "config", "hooks", "skill", "swap", "prune"}
Nobody == "nobody"

SetupInit ==
  /\ file \in {<< >>, <<<<User>>>>, <<<<Ours(1), User>>, <<Ours(1)>>>>}
  /\ config = [server |-> Absent, extra |-> FALSE, trust |-> Trust(<< >>)]
  /\ skill \in {Absent, UserSkill}
  /\ copies = [v \in Versions |-> IF OwnPlaces(file) # {} /\ v = 1 THEN "current" ELSE "none"]
  /\ lock = Nobody /\ setup = Idle /\ wanted = 1
  /\ budget = [runs |-> MaxSetups, edits |-> MaxEdits, stops |-> MaxStops, days |-> MaxDays]

Has(what) == budget[what] > 0
Spends(what) == Has(what) /\ budget' = [budget EXCEPT ![what] = @ - 1]

\* A setup takes the lock; its copy is made, or found whole and used again.
FreeLock(who) == lock = Nobody
Copied(v) == IF v = Absent THEN copies ELSE [copies EXCEPT ![v] = "current"]
Locks(v) ==
  /\ setup.at = "idle" /\ FreeLock("setup")
  /\ lock' = "setup" /\ copies' = Copied(v)
  /\ setup' = [Idle EXCEPT !.at = "locked", !.version = v]
  /\ UNCHANGED <<file, config, skill, wanted>>
\* The daemon, at startup and every few minutes; a pure read when all is current.
DaemonSetsUp == Locks(wanted) /\ UNCHANGED budget
ByHand(v) == Spends("runs") /\ Locks(v)

\* Both files are read: what will be written is fixed now.  A removal writes
\* hooks.json first, a setup config.toml: no new hook without its trust.
Reads ==
  /\ setup.at = "locked"
  /\ setup' = [setup EXCEPT !.at = IF setup.version = Absent THEN "hooks" ELSE "config",
                            !.old = file, !.new = Merged(file, setup.version),
                            !.extra = config.extra, !.seen = TRUE]
  /\ UNCHANGED <<file, config, skill, copies, lock, wanted, budget>>

Desired == [server |-> setup.version, extra |-> setup.extra, trust |-> Trust(setup.new)]
IsCurrent == config.server = setup.version /\ config.trust = Trust(setup.new)
WritesConfig ==
  /\ setup.at = "config"
  /\ config' = IF IsCurrent THEN config ELSE Desired
  /\ setup' = [setup EXCEPT !.at = IF setup.version = Absent THEN "skill" ELSE "hooks"]
  /\ UNCHANGED <<file, skill, copies, lock, wanted, budget>>

\* hooks.json is written only when the merge changes what was read.
WritesHooks ==
  /\ setup.at = "hooks"
  /\ file' = IF setup.new = setup.old THEN file ELSE setup.new
  /\ setup' = [setup EXCEPT !.at = IF setup.version = Absent THEN "config" ELSE "skill"]
  /\ UNCHANGED <<config, skill, copies, lock, wanted, budget>>

\* The skill: the user's is left alone; ours is renamed away and the new one in.
MaySwap == skill # UserSkill
Installs ==
  /\ setup.at = "skill"
  /\ setup' = [setup EXCEPT !.at = IF MaySwap /\ skill # setup.version THEN "swap" ELSE "prune"]
  /\ skill' = IF MaySwap /\ skill # setup.version THEN Absent ELSE skill
  /\ UNCHANGED <<file, config, copies, lock, wanted, budget>>
Swaps ==
  /\ setup.at = "swap"
  /\ skill' = setup.version
  /\ setup' = [setup EXCEPT !.at = "prune"]
  /\ UNCHANGED <<file, config, copies, lock, wanted, budget>>

\* Copies other than the kept one: marked, and deleted when the mark is a day old.
Pruned(keep) ==
  [v \in Versions |->
     CASE v = keep -> copies[v]
       [] v # keep /\ copies[v] = "current" -> "marked"
       [] v # keep /\ copies[v] = "old" -> "none"
       [] OTHER -> copies[v]]
Prunes ==
  /\ setup.at = "prune"
  /\ copies' = IF setup.version = Absent THEN [v \in Versions |-> "none"] ELSE Pruned(setup.version)
  /\ setup' = Idle /\ lock' = Nobody
  /\ UNCHANGED <<file, config, skill, wanted, budget>>

\* A file that may not be edited, a full disk or a kill ends a setup anywhere.
Stops ==
  /\ setup.at # "idle" /\ Spends("stops")
  /\ setup' = Idle /\ lock' = Nobody
  /\ UNCHANGED <<file, config, skill, copies, wanted>>

------------------------
(* The others. *)

\* The daemon restarts with another version of the adapter.
Upgrades(v) ==
  /\ setup.at = "idle" /\ v # wanted /\ Spends("stops") /\ wanted' = v
  /\ UNCHANGED <<file, config, skill, copies, lock, setup>>

\* The other daemon, under the lock: it has one group of its own, first or last.
WithTheirs == {Append(file, <<Theirs>>), <<<<Theirs>>>> \o file}
OtherSetsUp ==
  /\ FreeLock("theirs") /\ Spends("runs")
  /\ \A p \in Places(file) : At(file, p) # Theirs
  /\ file' \in WithTheirs
  /\ UNCHANGED <<config, skill, copies, lock, setup, wanted>>

\* The user adds a handler next to ours or in a group of its own, takes one of
\* hers or ours out, or changes our server's table.  No lock is asked for.
UserEdits ==
  /\ Spends("edits")
  /\ setup' = [setup EXCEPT !.seen = setup.at = "idle"]
  /\ \/ /\ \A p \in Places(file) : At(file, p) # User
        /\ file' \in {<<<<User>>>> \o file, Append(file, <<User>>)} \cup
                     {[file EXCEPT ![g] = Append(@, User)] : g \in DOMAIN file}
        /\ UNCHANGED config
     \/ /\ file' = Without(file, {file[p[1]] : p \in OwnPlaces(file)})
        /\ file' # file /\ UNCHANGED config
     \/ /\ config.server # Absent /\ config' = [config EXCEPT !.extra = ~@] /\ UNCHANGED file
  /\ UNCHANGED <<skill, copies, lock, wanted>>

Day ==
  /\ Spends("days")
  /\ copies' = [v \in Versions |-> IF copies[v] = "marked" THEN "old" ELSE copies[v]]
  /\ UNCHANGED <<file, config, skill, lock, setup, wanted>>

SetupStep == Reads \/ WritesConfig \/ WritesHooks \/ Installs \/ Swaps \/ Prunes
SetupNext ==
  \/ DaemonSetsUp \/ SetupStep \/ Stops
  \/ \E v \in Versions : ByHand(v) \/ Upgrades(v)
  \/ ByHand(Absent) \/ OtherSetsUp \/ UserEdits \/ Day

\* The daemon's interval comes round, and a setup that is not stopped ends.
SetupFairness == WF_setupVars(DaemonSetsUp) /\ WF_setupVars(SetupStep)
SetupSpec == SetupInit /\ [][SetupNext]_setupVars /\ SetupFairness

------------------------
SetupTypeOK ==
  /\ config.server \in Versions \cup {Absent} /\ config.extra \in BOOLEAN
  /\ \A p \in DOMAIN config.trust : IsOurs(config.trust[p])
  /\ copies \in [Versions -> {"none", "current", "marked", "old"}]
  /\ lock \in {Nobody, "setup"} /\ setup.at \in Steps /\ wanted \in Versions
  /\ lock = Nobody <=> setup.at = "idle"

\* What the hooks and the server of the harness run is there, through upgrades,
\* downgrades by hand, removals and setups that stop half way (the prune: only
\* copies nothing has used for a day go).
RunsWhatExists ==
  /\ \A p \in OwnPlaces(file) : copies[At(file, p).version] # "none"
  /\ config.server # Absent => copies[config.server] # "none"

\* A write of hooks.json leaves every handler of others where it was, by group
\* and place, since Codex trusts it by its place (merge_owned_groups), as long
\* as there is at most one of ours to replace; only an edit of the user's made
\* since the file was read may be lost.  Every hook of ours it writes is
\* already trusted (ensure_codex: the trust first).  The user's skill is never
\* replaced.
WritesAreSound ==
  [][ /\ WritesHooks /\ setup.version # Absent =>
           /\ setup.seen /\ (\A p, q \in OwnPlaces(file) : p = q) => Foreign(file') = Foreign(file)
           /\ file' # file => Trust(file') = config.trust
      /\ skill = UserSkill => skill' = UserSkill ]_setupVars

\* When the edits, the other writers and the failures are over, the daemon's
\* setup is in place: one hook of its version, trusted where it is, the server
\* of that version, and the others' hooks as they are.  To hold in the end.
SetupInPlace ==
  /\ \E p \in Places(file) : OwnPlaces(file) = {p} /\ At(file, p) = Ours(wanted)
  /\ config.trust = Trust(file) /\ config.server = wanted
  /\ copies[wanted] = "current"
========================
