------------ MODULE RunRecords ------------
(***************************************************************************)
(* What the run store promises of each run (miragen/runs.py), whatever     *)
(* turns, slots and coroutines stand behind it: a run is accepted, runs,   *)
(* settles or ends, may be reopened or abandoned once it is settled, is    *)
(* interrupted by a restart, and is forgotten by retention in the end,     *)
(* unless a publication of it writes it back once more.                    *)
(* RunLifecycle implements it (RunsFollowTheirRecords there).              *)
(***************************************************************************)
CONSTANT RunIds
VARIABLE status  \* run -> what its record says of it

(* "unrecorded": the run's file is gone but its turn still runs, and will  *)
(* write the record again. "publishing": the file of a run that succeeded  *)
(* is gone, but a publication of it may write the record again. "gone":    *)
(* forgotten, for good.                                                    *)
Running == {"running", "unrecorded"}
Waiting == {"suspended", "failed"}
Ended == {"succeeded", "abandoned", "interrupted"}
States == {"new", "gone", "publishing"} \cup Running \cup Waiting \cup Ended

Init == status = [r \in RunIds |-> "new"]

(* What retention may make of a run while another one's record is written. *)
AfterPruning(s) ==
  {s} \cup (IF s = "running" THEN {"unrecorded", "gone"}
            ELSE IF s = "succeeded" THEN {"publishing", "gone"}
            ELSE IF s \in Waiting \cup Ended THEN {"gone"} ELSE {})

(* Write a finished record, then prune: the written one may be the oldest. *)
Finish(r, s) ==
  /\ status' \in [RunIds -> States]
  /\ status'[r] \in {s, "gone"}
  /\ \A q \in RunIds \ {r} : status'[q] \in AfterPruning(status[q])

Start(r) == status[r] = "new" /\ status' = [status EXCEPT ![r] = "running"]

End(r) ==
  /\ status[r] \in Running
  /\ \E s \in Waiting \cup {"succeeded"} : Finish(r, s)

Reopen(r) == status[r] \in Waiting /\ status' = [status EXCEPT ![r] = "running"]

Abandon(r) == status[r] \in Waiting /\ Finish(r, "abandoned")

(* A publication of the run writes back the record it read when it began. *)
Annotate(r) ==
  status[r] = "publishing" /\ status' = [status EXCEPT ![r] = "succeeded"]

(* Retention had deleted the record, and the stream that would have        *)
(* written it again lost its client, or the publication is over.           *)
Forget(r) ==
  /\ status[r] \in {"unrecorded", "publishing"}
  /\ status' = [status EXCEPT ![r] = "gone"]

AfterRestart(s) ==
  CASE s = "running" -> "interrupted"
    [] s \in {"unrecorded", "publishing"} -> "gone"
    [] OTHER -> s

Restart == status' = [r \in RunIds |-> AfterRestart(status[r])]

Next ==
  \/ \E r \in RunIds : Start(r) \/ End(r) \/ Reopen(r) \/ Abandon(r)
  \/ \E r \in RunIds : Annotate(r) \/ Forget(r)
  \/ Restart

Spec == Init /\ [][Next]_status
========================
