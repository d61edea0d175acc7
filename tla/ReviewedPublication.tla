------------ MODULE ReviewedPublication ------------
(***************************************************************************)
(* Publishing the harvested diff of a succeeded run, after a human has     *)
(* reviewed it (miragen/publication.py, publish_run of miragen/app.py),    *)
(* composed with the runs of ExecutorJobs.  A request takes the in-process *)
(* lock of its idempotency key, claims the key with a file created         *)
(* exclusively, opens a run at the backend, stores the artifact, closes    *)
(* the run, and saves the publication; a failure on the way releases the   *)
(* claim so that the key can be retried.                                   *)
(***************************************************************************)
EXTENDS ExecutorJobs

CONSTANTS
  Keys,         \* idempotency keys
  MaxRequests,  \* bound: publication requests
  NoPub         \* a key without a publication

ASSUME PublicationAssumption == MaxRequests \in Nat /\ NoPub \notin [run: Runs, ext: Nat]

VARIABLES
  pubs,    \* PublicationStore: the saved publication of each key
  claims,  \* PublicationStore: the claim files, which outlive the process
  req,     \* the requests, in the order they come
  ext      \* the backend's runs: whose they are, the artifact stored, closed or not
pubVars == <<pubs, claims, req, ext>>
allVars == <<jobVars, pubVars>>

Publications == [run: Runs, ext: Nat]
InFlight == {"opening", "storing", "closing"}
Requests == [key: Keys, run: Runs, ext: Nat,
             at: {"waiting", "answered", "refused", "retry", "lost"} \cup InFlight]
External == [run: Runs, diff: {NoDiff} \cup SUBSET Repos, closed: BOOLEAN]

PubTypeOK ==
  /\ TypeOK
  /\ pubs \in [Keys -> Publications \cup {NoPub}]
  /\ claims \subseteq Keys
  /\ req \in Seq(Requests) /\ Len(req) <= MaxRequests
  /\ ext \in Seq(External)

PubInit ==
  /\ Init
  /\ pubs = [k \in Keys |-> NoPub] /\ claims = {}
  /\ req = <<>> /\ ext = <<>>

At(i, where) == req' = [req EXCEPT ![i].at = where]

\* publish_run: only a succeeded run with a harvested diff is published.
Request(r, k) ==
  /\ Len(req) < MaxRequests
  /\ rec[r].status = "succeeded" /\ rec[r].diff # NoDiff
  /\ req' = Append(req, [key |-> k, run |-> r, ext |-> 0, at |-> "waiting"])
  /\ UNCHANGED <<pubs, claims, ext>>

\* What try_begin finds under the key: the saved publication, someone's claim, or nothing.
Saved(k) == pubs[k]

\* The lock of the key is free: the request claims it, or answers with what it finds.
Begin(i) ==
  /\ req[i].at = "waiting"
  /\ \A j \in DOMAIN req : req[j].key = req[i].key => req[j].at \notin InFlight
  /\ LET k == req[i].key IN
     IF Saved(k) # NoPub
     THEN /\ IF Saved(k).run = req[i].run
             THEN req' = [req EXCEPT ![i].at = "answered", ![i].ext = Saved(k).ext]
             ELSE At(i, "refused")
          /\ UNCHANGED claims
     ELSE IF k \in claims THEN At(i, "retry") /\ UNCHANGED claims
     ELSE At(i, "opening") /\ claims' = claims \cup {k}
  /\ UNCHANGED <<pubs, ext>>

\* A failed attempt drops its claim before it answers.
Failed(i) == At(i, "retry") /\ claims' = claims \ {req[i].key} /\ UNCHANGED pubs

\* POST /v0/runs
Opened(i) == ext' = Append(ext, [run |-> req[i].run, diff |-> NoDiff, closed |-> FALSE])
OpenRun(i) ==
  /\ req[i].at = "opening" /\ Opened(i)
  /\ req' = [req EXCEPT ![i].at = "storing", ![i].ext = Len(ext) + 1]
  /\ UNCHANGED <<pubs, claims, count>>
OpenFails(i) ==
  /\ req[i].at = "opening" /\ Fault /\ Failed(i)
  /\ Opened(i) \/ UNCHANGED ext

\* POST /v0/artifacts, with the diff as it lies on disk
Stored(i) == ext' = [ext EXCEPT ![req[i].ext].diff = rec[req[i].run].diff]
StoreArtifact(i) ==
  /\ req[i].at = "storing" /\ Stored(i)
  /\ At(i, "closing")
  /\ UNCHANGED <<pubs, claims, count>>
StoreFails(i) ==
  /\ req[i].at = "storing" /\ Fault /\ Failed(i)
  /\ Stored(i) \/ UNCHANGED ext

\* PATCH /v0/runs/{id}, then the publication is saved and the claim dropped.
Closed(i) == ext' = [ext EXCEPT ![req[i].ext].closed = TRUE]
M_CloseRunUnpatched(i) ==
  /\ req[i].at = "closing" /\ UNCHANGED ext
  /\ pubs' = [pubs EXCEPT ![req[i].key] = [run |-> req[i].run, ext |-> req[i].ext]]
  /\ claims' = claims \ {req[i].key}
  /\ At(i, "answered")
  /\ UNCHANGED count
CloseRun(i) ==
  /\ req[i].at = "closing" /\ Closed(i)
  /\ pubs' = [pubs EXCEPT ![req[i].key] = [run |-> req[i].run, ext |-> req[i].ext]]
  /\ claims' = claims \ {req[i].key}
  /\ At(i, "answered")
  /\ UNCHANGED count
CloseFails(i) ==
  /\ req[i].at = "closing" /\ Fault /\ Failed(i)
  /\ Closed(i) \/ UNCHANGED ext

\* What a dead process leaves: its claims stay, its requests get no answer.
Cut == /\ req' = [i \in DOMAIN req |->
                    IF req[i].at \in InFlight \cup {"waiting"} THEN [req[i] EXCEPT !.at = "lost"]
                    ELSE req[i]]
       /\ UNCHANGED <<pubs, claims, ext>>

PubStep(i) == \/ Begin(i) /\ UNCHANGED count
              \/ OpenRun(i) \/ OpenFails(i)
              \/ StoreArtifact(i) \/ StoreFails(i)
              \/ CloseRun(i) \/ CloseFails(i)

PubNext ==
  \/ (\E r \in Runs : Launch(r) \/ TurnStep(r) \/ Resume(r) \/ Abandon(r)) /\ UNCHANGED pubVars
  \/ Restart /\ Cut
  \/ (\E r \in Runs, k \in Keys : Request(r, k)) /\ UNCHANGED jobVars
  \/ (\E i \in DOMAIN req : PubStep(i)) /\ UNCHANGED <<rec, ws, events, turn, blocks>>

PubSpec == PubInit /\ [][PubNext]_allVars

------------------------
\* Answers to one key name one publication, whoever asked and however often, and what
\* they name is complete at the backend: closed, with the whole diff of the run the
\* answer is about (try_begin, publish_reviewed_run).
AnswersAgree ==
  \A i, j \in DOMAIN req :
    req[i].at = "answered" /\ req[j].at = "answered" /\ req[i].key = req[j].key =>
      /\ req[i].ext = req[j].ext /\ req[i].run = req[j].run
      /\ ext[req[i].ext] = [run |-> req[i].run, diff |-> ws[req[i].run].work \cap Writable,
                            closed |-> TRUE]

\* A key is claimed only while a request works on it, unless a process died over it: a
\* failed attempt can be retried (release_claim).
ClaimsAreHeld ==
  count.boots = 0 =>
    \A k \in claims : \E i \in DOMAIN req : req[i].key = k /\ req[i].at \in InFlight

\* A key has one publication, whole and reachable, or none that blocks it: the two above.
PublicationsAgree == AnswersAgree /\ ClaimsAreHeld
========================
