------------ MODULE ScopeProvisioning ------------
(***************************************************************************)
(* How the session plane gets at the memory it uses (ensure_principal,     *)
(* ensure_shared_scopes, lifecycle_for_project and _provision of           *)
(* miragen/daemon/sessions/plane.py): at its start a principal with a      *)
(* token and the shared scope; then, when a session's project is first     *)
(* used, a scope for it with the grants of the daemon and of the           *)
(* extraction worker, and a lifecycle bound to the scopes it reads.        *)
(*                                                                         *)
(* A call to the store is a step; sessions of several projects come in     *)
(* between, calls are refused or go unanswered, and the daemon is killed.  *)
(* A project's scope has the project's name.  One binding names a scope    *)
(* that is there and reads all projects; the others are templated and      *)
(* provisioned (provision: auto), with a fallback that no binding names.   *)
(***************************************************************************)
EXTENDS Integers

CONSTANTS
  Projects,     \* projects whose scope is provisioned
  Bound,        \* the project of the binding that reads all projects
  Shared,       \* shared_read
  Fallback,     \* fallback_write
  Callers,      \* sessions' handlers under way at once
  MaxLosses     \* bound: calls refused or unanswered, writes that fail, kills

ASSUME ScopesAssumption ==
  /\ MaxLosses \in Nat /\ Bound \notin Projects \cup {Fallback}

VARIABLES
  hasOperator, \* the operator's token is set, at every start
  there,       \* the store's scopes
  grants,      \* the store's grants: principal and scope
  minted,      \* the store's tokens of the daemon's principal, 0 without it
  hasToken,    \* principal.token is there
  knownFile,   \* known_projects.json
  startingAt,     \* where start() is, "up" after it
  credential,  \* principal_source
  sets,        \* _provisioned, _unprovisionable, _worker_ungranted, _known
  allReads,    \* _assignments: what the read-all one reads, {} when not cached
  lifecycles,  \* _lifecycles: what each write scope's one reads, {} without one
  caller,      \* caller -> its project and where it is
  wasted,      \* history: tokens minted whose answer never came to the file
  losses
storeSide == <<there, grants, minted, hasToken, knownFile, wasted>>
planeSide == <<credential, sets, allReads, lifecycles>>
scopeVars == <<hasOperator, storeSide, startingAt, planeSide, caller, losses>>

Scopes == Projects \cup {Bound, Shared, Fallback}
NoCaller == [project |-> Bound, at |-> "none"]
Empty == [provisioned |-> {}, refused |-> {}, ungranted |-> {}, known |-> {}]

ScopesTypeOK ==
  /\ there \subseteq Scopes /\ grants \subseteq {"daemon", "worker"} \X Scopes
  /\ minted \in 0..(2 + MaxLosses) /\ {hasToken, hasOperator} \subseteq BOOLEAN
  /\ knownFile \subseteq Scopes /\ allReads \subseteq Scopes
  /\ startingAt \in {"principal", "mint", "shared", "share", "up"}
  /\ credential \in {"missing", "state_dir", "created", "minted"}
  /\ sets \in [provisioned : SUBSET Scopes, refused : SUBSET Scopes,
               ungranted : SUBSET Scopes, known : SUBSET Scopes]
  /\ lifecycles \in [Scopes -> SUBSET Scopes]
  /\ caller \in [Callers -> [project : Projects \cup {Bound},
                             at : {"none", "regrant", "create", "grant", "worker"}]]
  /\ wasted \in 0..MaxLosses /\ losses \in 0..MaxLosses

Started == /\ startingAt = "principal" /\ credential = "missing"
           /\ allReads = {} /\ lifecycles = [s \in Scopes |-> {}]
           /\ caller = [c \in Callers |-> NoCaller]

ScopesInit ==
  /\ hasOperator \in BOOLEAN
  /\ there = {Bound, Fallback} /\ grants = {} /\ minted = 0
  /\ hasToken = FALSE /\ knownFile = {} /\ wasted = 0
  /\ Started /\ sets = Empty
  /\ losses = 0

Loss == losses < MaxLosses /\ losses' = losses + 1

(* A call is done and answered; done and not answered; not done and not    *)
(* answered; or refused.  409 is what a scope or grant that is there gets, *)
(* and counts as done.                                                     *)
ScopeAnswers == {"done", "lost", "down", "refused"}
Happens(a) == a \in {"done", "lost"}
Costs(a) == IF a = "done" THEN UNCHANGED losses ELSE Loss
Creates(s, a) == there' = IF Happens(a) THEN there \cup {s} ELSE there
Grants(who, s, a) == grants' = IF Happens(a) THEN grants \cup {<<who, s>>} ELSE grants

------------------------
(* start(). *)

(* ensure_principal, a token answered is written to the file at once. *)
Credential(source) == credential' = source /\ startingAt' = "shared"

FindToken ==
  /\ startingAt = "principal" /\ (hasToken \/ ~hasOperator)
  /\ Credential(IF hasToken THEN "state_dir" ELSE "missing")
  /\ UNCHANGED <<hasOperator, storeSide, sets, allReads, lifecycles, caller, losses>>

Mints(a, source) ==
  /\ Costs(a)
  /\ minted' = IF Happens(a) THEN minted + 1 ELSE minted
  /\ wasted' = IF a = "lost" THEN wasted + 1 ELSE wasted
  /\ hasToken' = (a = "done")
  /\ Credential(IF a = "done" THEN source ELSE "missing")
  /\ UNCHANGED <<hasOperator, there, grants, knownFile, sets, allReads, lifecycles, caller>>

CreatePrincipal(a) ==
  /\ startingAt = "principal" /\ ~hasToken /\ hasOperator
  /\ IF minted > 0 /\ a = "done"
     THEN startingAt' = "mint" /\ UNCHANGED <<hasOperator, storeSide, planeSide, caller, losses>>
     ELSE ~(minted > 0 /\ a = "lost") /\ Mints(a, "created")

MintToken(a) == startingAt = "mint" /\ Mints(a, "minted")

(* ensure_shared_scopes: created, then granted; reported when it fails. *)
EnsureShared(a) ==
  /\ startingAt \in {"shared", "share"} /\ hasOperator /\ Costs(a)
  /\ startingAt' = IF a = "done" /\ startingAt = "shared" THEN "share" ELSE "up"
  /\ IF startingAt = "shared" THEN Creates(Shared, a) /\ UNCHANGED grants
     ELSE Grants("daemon", Shared, a) /\ UNCHANGED there
  /\ UNCHANGED <<hasOperator, minted, hasToken, knownFile, wasted, planeSide, caller>>

SkipShared ==
  /\ startingAt = "shared" /\ ~hasOperator /\ startingAt' = "up"
  /\ UNCHANGED <<hasOperator, storeSide, planeSide, caller, losses>>

------------------------
(* lifecycle_for_project. *)

Assigned(known) == known \cup {Shared, Bound}

M_Forgotten(s, now) == lifecycles  \* its mutant: the lifecycle is not rebuilt

(* A scope that becomes known widens what the read-all binding reads: its  *)
(* lifecycle is made anew.                                                 *)
Forgotten(s, now) ==
  IF s \in now.known \/ allReads = {} THEN lifecycles
  ELSE [lifecycles EXCEPT ![Bound] = {}]

(* With the sets as they are now the caller gets its lifecycle: of its own *)
(* scope, which is then known, or, not provisioned, of the fallback.       *)
Answered(c, p, now) ==
  LET own == p = Bound \/ p \in now.provisioned
      after == IF own THEN [now EXCEPT !.known = @ \cup {p}] ELSE now
      kept == IF own THEN Forgotten(p, now) ELSE lifecycles
      cached == IF own /\ p \notin now.known THEN {} ELSE allReads
      all == IF cached = {} THEN Assigned(after.known) ELSE cached
      write == IF own THEN p ELSE Fallback
      reads == IF p = Bound THEN all ELSE {Shared, write}
  IN  /\ sets' = after
      /\ allReads' = IF p = Bound THEN all ELSE cached
      /\ lifecycles' = IF kept[write] = {} THEN [kept EXCEPT ![write] = reads] ELSE kept
      /\ caller' = [caller EXCEPT ![c] = NoCaller]

(* Provisioned first, unless it is, or may not be.  The known projects are *)
(* written when a caller is answered; the write may fail.                  *)
Decides(c, p, now) ==
  IF p = Bound \/ p \in now.provisioned \cup now.refused \/ ~hasOperator
  THEN /\ Answered(c, p, IF p = Bound \/ p \in now.provisioned THEN now
                         ELSE [now EXCEPT !.refused = @ \cup {p}])
       /\ knownFile' \in {knownFile, sets'.known}
  ELSE /\ caller' = [caller EXCEPT ![c] = [project |-> p, at |-> "create"]]
       /\ sets' = now /\ UNCHANGED <<allReads, lifecycles, knownFile>>

(* The worker's grant that failed is tried again on the scope's next use. *)
UseScope(c, p) ==
  /\ startingAt = "up" /\ caller[c].at = "none"
  /\ IF p \in sets.ungranted /\ hasOperator
     THEN /\ caller' = [caller EXCEPT ![c] = [project |-> p, at |-> "regrant"]]
          /\ UNCHANGED <<sets, allReads, lifecycles, knownFile>>
     ELSE Decides(c, p, sets)
  /\ UNCHANGED <<hasOperator, there, grants, minted, hasToken, wasted, startingAt, credential, losses>>

(* _grant_worker: best effort, noted when it fails. *)
Ungranted(s, a) == IF a = "done" THEN sets.ungranted \ {s} ELSE sets.ungranted \cup {s}
Noted(s, a) == [sets EXCEPT !.ungranted = Ungranted(s, a)]

GrantWorkerAgain(c, a) ==
  LET p == caller[c].project IN
  /\ caller[c].at = "regrant" /\ Costs(a) /\ Grants("worker", p, a)
  /\ Decides(c, p, Noted(p, a))
  /\ UNCHANGED <<hasOperator, there, minted, hasToken, wasted, startingAt, credential>>

(* _provision gives up: for good after a refusal, until the scope's next   *)
(* use when the store did not answer.                                      *)
LeavesIt(c, p, a) ==
  /\ Answered(c, p, IF a = "refused" THEN [sets EXCEPT !.refused = @ \cup {p}] ELSE sets)
  /\ knownFile' \in {knownFile, sets'.known}

GoesOn(c, p, a, place) ==
  IF a = "done"
  THEN /\ caller' = [caller EXCEPT ![c] = [project |-> p, at |-> place]]
       /\ UNCHANGED <<sets, allReads, lifecycles, knownFile>>
  ELSE LeavesIt(c, p, a)

CreateScope(c, a) ==
  LET p == caller[c].project IN
  /\ caller[c].at = "create" /\ Costs(a) /\ Creates(p, a)
  /\ GoesOn(c, p, a, "grant")
  /\ UNCHANGED <<hasOperator, grants, minted, hasToken, wasted, startingAt, credential>>

GrantDaemon(c, a) ==
  LET p == caller[c].project IN
  /\ caller[c].at = "grant" /\ Costs(a) /\ Grants("daemon", p, a)
  /\ GoesOn(c, p, a, "worker")
  /\ UNCHANGED <<hasOperator, there, minted, hasToken, wasted, startingAt, credential>>

GrantWorker(c, a) ==
  LET p == caller[c].project IN
  /\ caller[c].at = "worker" /\ Costs(a) /\ Grants("worker", p, a)
  /\ Answered(c, p, [Noted(p, a) EXCEPT !.provisioned = @ \cup {p}])
  /\ knownFile' \in {knownFile, sets'.known}
  /\ UNCHANGED <<hasOperator, there, minted, hasToken, wasted, startingAt, credential>>

------------------------
(* The daemon is killed and started again: the token's and the known       *)
(* projects' files are left.  A token may be minted for nobody.            *)
KillPlane ==
  /\ Loss
  /\ startingAt' = "principal" /\ credential' = "missing"
  /\ allReads' = {} /\ lifecycles' = [s \in Scopes |-> {}]
  /\ caller' = [c \in Callers |-> NoCaller]
  /\ sets' = [Empty EXCEPT !.known = knownFile]
  /\ IF startingAt = "mint" \/ (startingAt = "principal" /\ ~hasToken /\ hasOperator /\ minted = 0)
     THEN \E n \in {0, 1} : minted' = minted + n /\ wasted' = wasted + n
     ELSE UNCHANGED <<minted, wasted>>
  /\ UNCHANGED <<hasOperator, there, grants, hasToken, knownFile>>

ScopesNext ==
  \/ FindToken \/ SkipShared
  \/ \E a \in ScopeAnswers : CreatePrincipal(a) \/ MintToken(a) \/ EnsureShared(a)
  \/ \E c \in Callers, p \in Projects \cup {Bound} : UseScope(c, p)
  \/ \E c \in Callers, a \in ScopeAnswers :
       GrantWorkerAgain(c, a) \/ CreateScope(c, a) \/ GrantDaemon(c, a) \/ GrantWorker(c, a)
  \/ KillPlane

ScopesSpec == ScopesInit /\ [][ScopesNext]_scopeVars

------------------------
(* A scope the plane writes to is there and its principal may; so may the  *)
(* extraction worker, or the plane knows that it must try again -- however *)
(* the calls of several sessions for one project interleave and fail.      *)
GrantsAreTrue ==
  \A s \in sets.provisioned :
    /\ s \in there /\ <<"daemon", s>> \in grants
    /\ <<"worker", s>> \in grants \/ s \in sets.ungranted

(* The binding that reads all projects reads every one that became known,  *)
(* also while its lifecycle was in use, also of before a restart.          *)
AllKnownAreRead == lifecycles[Bound] # {} => sets.known \subseteq lifecycles[Bound]

(* Restarts use the token they find: another one is minted only when a     *)
(* token never reached the file.                                           *)
TokensAreReused == minted <= 1 + wasted

(* The plane has what it says it has at the store: the three above. *)
ScopesAreReady == GrantsAreTrue /\ AllKnownAreRead /\ TokensAreReused
========================
