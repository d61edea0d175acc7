------------ MODULE SpokeWorkloadsProofs ------------
(***************************************************************************)
(* What module SpokeWorkloads promises, for any number of generations,     *)
(* events, faults and restarts and any limit of a page.                    *)
(*                                                                         *)
(* The four safety properties need to know more than they say: what the    *)
(* loop has in hand at each of its places, that it deletes only what an    *)
(* intent or the end of a Job asks for, that a page ends inside the log,   *)
(* and that a generation is refused or applied but never both. Most        *)
(* variables are written by few of the 35 actions: lemma Writers says by   *)
(* which, and the step lemma of each part looks at those alone. Parts that *)
(* speak of the loop's place look at every action.                         *)
(***************************************************************************)
EXTENDS SpokeWorkloads, TLAPS

------------------------
(* The inductive invariant *)

Handling == {"handle", "refuse", "refused", "replace", "config", "create", "ack", "say", "status"}
Deleting == {"delete", "unconfig"}
Relaying == {"read", "push", "record", "final"}

\* What the loop has in hand at each place.
InHand ==
  /\ at \in Handling => intent # None
  /\ intent # None => at \in Handling \cup Deleting \cup Relaying \cup {"pump"}
  /\ back = "idle" => at \notin Deleting
  /\ back # "idle" => at \in {"pump", "ack", "say"} \cup Deleting \cup Relaying
  /\ at \in Relaying => relay # None
  /\ at = "status" => tracked # None
  /\ (at \in {"pump"} \cup Relaying /\ back = "idle") => intent = None

\* What a drain is for: the intent in hand, or the end of a Job that the hub was told of.
DrainIsAsked ==
  /\ back \in {"delete", "stop"} =>
       /\ intent # None /\ intent.allowed
       /\ IF back = "delete" THEN intent.state = "deleted" ELSE Leaves(intent)
  /\ back = "end" => intent = None /\ class = "ephemeral" /\ tracked # None

\* What is applied to the cluster is an intent it must run.
ApplyIsAsked ==
  /\ at \in {"replace", "config", "create"} =>
       intent.allowed /\ intent.state # "deleted" /\ ~Leaves(intent)
  /\ at = "replace" => class = "ephemeral"
  /\ at \in {"config", "create"} /\ class = "ephemeral" => unit = None
  /\ at = "create" => profile = intent.gen
  /\ at = "unconfig" \/ (at \in {"ack", "say"} /\ back # "idle") => unit = None
  /\ class = "ephemeral" /\ unit # None => profile = unit.gen

\* The relay: pages end inside the log, and a run seen stopped stays so.
PageOK ==
  /\ page.to <= log /\ page.pages < MaxPages
  /\ page.stopped => run \in {"stopped", "gone"}
  /\ at = "final" => page.stopped /\ cursor = log
  /\ letGo => run \in {"stopped", "gone"}

\* A generation is what its newest copy says it is, and is refused by the allowlist or
\* applied, never both.
OneMind(i) ==
  /\ i.gen \in applied => i.allowed
  /\ \A b \in BOOLEAN : <<i.gen, b>> \in refused => b = i.allowed
GensOK ==
  /\ \A g \in applied : g <= want.gen
  /\ \A r \in refused : r[1] <= want.gen
  /\ OneMind(want)
  /\ intent # None => OneMind(intent) /\ intent.gen <= want.gen
  /\ intent # None /\ intent.gen = want.gen =>
       intent.allowed = want.allowed /\ intent.state = want.state
  /\ intent # None /\ intent.gen # want.gen => want.gen \notin applied

\* What is acknowledged has been applied or refused.
Settled ==
  /\ at \in {"ack", "say", "status"} => intent.gen \in applied
  /\ at \in {"refuse", "refused"} => <<intent.gen, intent.allowed>> \in refused

\* What has been applied is in effect, acknowledged or not.
InEffect ==
  want.gen \in applied =>
    IF want.state = "deleted" \/ Leaves(want) THEN unit = None /\ profile = 0
    ELSE /\ class = "persistent" =>
              unit # None /\ (unit.phase = "stopped") = (want.state = "stopped")
         /\ unit # None => unit.gen = want.gen /\ profile = want.gen

\* The hub has been told that a Job failed once the spoke has noted it.
FailedIsTold ==
  /\ (/\ class = "ephemeral" /\ tracked # None /\ tracked.last = "failed"
      /\ unit # None /\ at # "ack") =>
       unit.phase = "failed" /\ told = [gen |-> tracked.gen, phase |-> "failed"]
  /\ back = "end" /\ unit # None => told = [gen |-> tracked.gen, phase |-> "failed"]

IInv ==
  /\ TypeOK /\ InHand /\ DrainIsAsked /\ ApplyIsAsked
  /\ NoGap /\ PageOK /\ FinalIsComplete
  /\ GensOK /\ Settled /\ AckedIsApplied /\ InEffect /\ FailedIsTold

\* Who writes what: a variable that none of these steps wrote is as it was.
LEMMA Writers ==
  ASSUME Next
  PROVE  /\ class' = class
         /\ want' = want \/ NewGeneration \/ Expire \/ ExpireEarly
         /\ lease' = lease \/ Claim \/ Ack \/ RetryAcks \/ NewGeneration \/ Expire
                    \/ ExpireEarly
         /\ told' = told \/ ReportStatus \/ Watch
         /\ cursor' = cursor \/ PushPage \/ PushFails
         /\ finished' = finished \/ PushPage \/ PushFails \/ PushFinal
         /\ unit' = unit \/ ReplaceJob \/ CreateUnit \/ DeleteUnit \/ PodStarts \/ PodEnds
         /\ profile' = profile \/ PutConfigMap \/ DeleteConfigMap
         /\ run' = run \/ ReplaceJob \/ CreateUnit \/ DeleteUnit \/ Deliver \/ PodEnds
                  \/ RunStops
         /\ log' = log \/ Append
         /\ tracked' = tracked \/ Recover \/ DeleteConfigMap \/ Ack \/ ReportStatus \/ Watch
                      \/ Restart
         /\ relay' = relay \/ Recover \/ BeginTick \/ Deliver \/ BeginPump \/ AgentFails
                    \/ PushPage \/ PushTooLarge \/ PushFails \/ PushFinal \/ ReadRecord
                    \/ Restart
         /\ pending' = pending \/ Ack \/ RetryAcks \/ Restart
         /\ applied' = applied \/ ReplaceJob \/ CreateUnit \/ DeleteConfigMap
         /\ refused' = refused \/ Handle
         /\ acked' = acked \/ Ack \/ RetryAcks
         /\ letGo' = letGo \/ PushFinal
         /\ restarts' = restarts \/ Restart
         /\ faults' = faults \/ Fault
         /\ intent' \in {intent, None} \/ Claim
         /\ back' \in {back, "idle"} \/ Handle \/ Watch
         /\ page' \in {page, NoPage} \/ ReadPage \/ PushPage \/ ReadRecord
         /\ at' \in {at} \cup Places
<1>. USE DEF Places, NoPage
<1>1. CASE Recover BY <1>1 DEF Recover, Fault, NoFault, Adopted, IsOpen, hubVars, clusterVars, local, history
<1>2. CASE BeginTick BY <1>2 DEF BeginTick, Fault, NoFault, Adopted, IsOpen, hubVars, clusterVars, local, history
<1>3. CASE Claim BY <1>3 DEF Claim, NoFault, Fault, Leave, clusterVars, memory, history
<1>4. CASE Handle BY <1>4 DEF Handle, Refusal, GoTo, Drain, MayBeLate, Leaves, hubVars, clusterVars, memory,
    local, counts
<1>5. CASE Refuse BY <1>5 DEF Refuse, Report, NoFault, Fault, GoTo, Leave, hubVars, clusterVars, memory,
    local, history
<1>6. CASE ApplyFails BY <1>6 DEF ApplyFails, Fault, Unapplied, Leave, hubVars, clusterVars, memory, history
<1>7. CASE ReplaceJob BY <1>7 DEF ReplaceJob, NoFault, GoTo, Gone, hubVars, memory, local
<1>8. CASE PutConfigMap BY <1>8 DEF PutConfigMap, NoFault, GoTo, hubVars, memory, local, history
<1>9. CASE CreateUnit BY <1>9 DEF CreateUnit, NoFault, UpToDate, Interrupted, GoTo, hubVars, memory, local
<1>10. CASE DeleteUnit BY <1>10 DEF DeleteUnit, NoFault, Gone, GoTo, hubVars, memory, local
<1>11. CASE DeleteConfigMap BY <1>11 DEF DeleteConfigMap, NoFault, Leave, GoTo, hubVars, local
<1>12. CASE DeleteFails BY <1>12 DEF DeleteFails, Fault, Leave, hubVars, clusterVars, memory, history
<1>13. CASE Ack BY <1>13 DEF Ack, NoFault, Fault, TakeAck, Holds, TrackedNow, Leave, GoTo, clusterVars, local
<1>14. CASE Say BY <1>14 DEF Say, Report, NoFault, Fault, GoTo, Leave, hubVars, clusterVars, memory, local,
    history
<1>15. CASE ReportStatus BY <1>15 DEF ReportStatus, StatusIsTold, StatusIsLost, StatusIsSkipped, NoFault, Fault,
    Leave, Status, Reported, clusterVars, history
<1>16. CASE RetryAcks BY <1>16 DEF RetryAcks, NoFault, Fault, GoTo, TakeAck, Holds, clusterVars, local
<1>17. CASE Watch BY <1>17 DEF Watch, NoFault, Fault, Status, Reported, Drain, GoTo, StatusIsLost,
    StatusIsSkipped, Leave, clusterVars, local, history
<1>18. CASE WatchNothing BY <1>18 DEF WatchNothing, GoTo, hubVars, clusterVars, memory, local, counts, history
<1>19. CASE Deliver BY <1>19 DEF Deliver, Reachable, GoTo, hubVars, local, counts, history
<1>20. CASE BeginPump BY <1>20 DEF BeginPump, NoFault, Reachable, GoTo, PumpOver, hubVars, clusterVars, local,
    history
<1>21. CASE AgentFails BY <1>21 DEF AgentFails, Answers, Reachable, NoFault, Fault, PumpOver, hubVars, clusterVars,
    history
<1>22. CASE ReadPage BY <1>22 DEF ReadPage, PageEnd, Answers, Reachable, hubVars, clusterVars, memory, counts,
    history
<1>23. CASE PushPage BY <1>23 DEF PushPage, Answers, Reachable, NoFault, Pushed, PumpOver, clusterVars, history
<1>24. CASE PushTooLarge BY <1>24 DEF PushTooLarge, Answers, Reachable, Fault, PumpOver, hubVars, clusterVars, history
<1>25. CASE PushFails BY <1>25 DEF PushFails, Answers, Reachable, Fault, Leave, UnansweredPush, Pushed, PumpOver,
    clusterVars, history
<1>26. CASE ReadRecord BY <1>26 DEF ReadRecord, Answers, Reachable, NoFault, IsStopped, OnceStopped, PumpOver,
    hubVars, clusterVars, history
<1>27. CASE PushFinal BY <1>27 DEF PushFinal, NoFault, PumpOver, clusterVars
<1>28. CASE NewGeneration BY <1>28 DEF NewGeneration, clusterVars, memory, local, counts, history
<1>29. CASE Expire BY <1>29 DEF Expire, NoFault, Reoffer, clusterVars, memory, local, history
<1>30. CASE ExpireEarly BY <1>30 DEF ExpireEarly, Fault, Reoffer, clusterVars, memory, local, history
<1>31. CASE PodStarts BY <1>31 DEF PodStarts, hubVars, memory, local, counts, history
<1>32. CASE PodEnds BY <1>32 DEF PodEnds, NoFault, Fault, Interrupted, hubVars, memory, local, history
<1>33. CASE Append BY <1>33 DEF Append, hubVars, memory, local, counts, history
<1>34. CASE RunStops BY <1>34 DEF RunStops, hubVars, memory, local, counts, history
<1>35. CASE Restart BY <1>35 DEF Restart, Leave, hubVars, clusterVars, history
<1> QED BY <1>1, <1>2, <1>3, <1>4, <1>5, <1>6, <1>7, <1>8, <1>9, <1>10, <1>11, <1>12, <1>13, <1>14,
    <1>15, <1>16, <1>17, <1>18, <1>19, <1>20, <1>21, <1>22, <1>23, <1>24, <1>25, <1>26, <1>27,
    <1>28, <1>29, <1>30, <1>31, <1>32, <1>33, <1>34, <1>35 DEF Next, Tick, HandleIntent, Pump, World

------------------------
(* Types *)

\* Every step keeps the types.
LEMMA TypeStep ==
  ASSUME TypeOK, InHand, DrainIsAsked, PageOK, Next
  PROVE  TypeOK'
<1>. USE NoneAssumption, BoundsAssumption
<1>1. class' \in {"ephemeral", "persistent"} BY Writers DEF TypeOK
<1>2. want' \in Intents
  <2>1. CASE NewGeneration BY <2>1 DEF NewGeneration
  <2>2. CASE Expire \/ ExpireEarly
    <3>1. want' = [want EXCEPT !.attempt = @ + 1] /\ want.attempt < MaxFaults + MaxRestarts
      BY <2>2 DEF Expire, ExpireEarly, Reoffer
    <3>2. want \in Intents BY DEF TypeOK
    <3>3. PICK a \in Nat : want.attempt = a BY <3>2 DEF Intents
    <3>4. a + 1 \in 0 .. (MaxFaults + MaxRestarts) BY <3>1, <3>3
    <3> QED BY <3>1, <3>2, <3>3, <3>4 DEF Intents
  <2> QED BY <2>1, <2>2, Writers DEF TypeOK
<1>3. lease' \in {"offered", "claimed", "done"}
  <2>1. CASE Claim BY <2>1 DEF Claim, TypeOK
  <2>2. CASE Ack \/ RetryAcks BY <2>2 DEF Ack, RetryAcks, TakeAck, TypeOK
  <2>3. CASE NewGeneration \/ Expire \/ ExpireEarly BY <2>3 DEF NewGeneration, Expire, ExpireEarly, Reoffer
  <2> QED BY <2>1, <2>2, <2>3, Writers DEF TypeOK
<1>4. Status \in Reports BY DEF Status, TypeOK, Units, Reports
<1>5. told' \in Observations \cup {None}
  <2>1. ASSUME tracked # None PROVE [gen |-> tracked.gen, phase |-> Status] \in Observations
    BY <1>4, <2>1 DEF TypeOK, Trackings, Observations
  <2>2. CASE ReportStatus
    <3>1. tracked # None BY <2>2 DEF ReportStatus, InHand
    <3> QED BY <2>1, <2>2, <3>1 DEF ReportStatus, StatusIsTold, StatusIsLost, StatusIsSkipped, Reported, TypeOK
  <2>3. CASE Watch BY <2>1, <2>3 DEF Watch, StatusIsLost, StatusIsSkipped, Reported, TypeOK
  <2> QED BY <2>2, <2>3, Writers DEF TypeOK
<1>6. tracked' \in Trackings \cup {None}
  <2>1. ASSUME tracked # None PROVE [tracked EXCEPT !.last = Status] \in Trackings BY <1>4, <2>1 DEF TypeOK, Trackings
  <2>2. ASSUME NEW g \in Gens PROVE [gen |-> g, last |-> None] \in Trackings BY DEF Trackings
  <2>3. CASE Recover
    <3>1. unit # None => unit.gen \in Gens BY DEF TypeOK, Units
    <3> QED BY <2>2, <2>3, <3>1 DEF Recover, TypeOK
  <2>4. CASE DeleteConfigMap BY <2>4 DEF DeleteConfigMap, TypeOK
  <2>5. CASE Ack
    <3>1. intent # None BY <2>5 DEF Ack, InHand, Handling
    <3>2. intent.gen \in Gens BY <3>1 DEF TypeOK, Intents
    <3>3. TrackedNow \in Trackings \cup {None} BY <2>2, <3>2 DEF TrackedNow, TypeOK
    <3> QED BY <2>5, <3>3 DEF Ack
  <2>6. CASE ReportStatus
    <3>1. tracked # None BY <2>6 DEF ReportStatus, InHand
    <3> QED BY <2>1, <2>6, <3>1 DEF ReportStatus, StatusIsTold, StatusIsLost, StatusIsSkipped, TypeOK
  <2>7. CASE Watch BY <2>1, <2>7 DEF Watch, StatusIsLost, StatusIsSkipped, TypeOK
  <2>8. CASE Restart BY <2>8 DEF Restart
  <2> QED BY <2>3, <2>4, <2>5, <2>6, <2>7, <2>8, Writers DEF TypeOK
<1>7. cursor' \in 0 .. MaxLog /\ finished' \in BOOLEAN
  <2>1. page.to \in 0 .. MaxLog BY DEF TypeOK
  <2>2. CASE PushPage \/ PushFails BY <2>1, <2>2 DEF PushPage, PushFails, Pushed, TypeOK
  <2>3. CASE PushFinal BY <2>3 DEF PushFinal, TypeOK
  <2> QED BY <2>2, <2>3, Writers DEF TypeOK
<1>8. unit' \in Units \cup {None}
  <2>1. CASE ReplaceJob BY <2>1 DEF ReplaceJob, TypeOK
  <2>2. CASE CreateUnit
    <3>1. intent.gen \in Gens BY <2>2 DEF CreateUnit, InHand, Handling, TypeOK, Intents
    <3> QED BY <2>2, <3>1 DEF CreateUnit, TypeOK, Units, Phases
  <2>3. CASE DeleteUnit BY <2>3 DEF DeleteUnit
  <2>4. CASE PodStarts \/ PodEnds BY <2>4 DEF PodStarts, PodEnds, TypeOK, Units, Phases
  <2> QED BY <2>1, <2>2, <2>3, <2>4, Writers DEF TypeOK
<1>9. profile' \in 0 .. MaxGen
  <2>1. CASE PutConfigMap BY <2>1 DEF PutConfigMap, InHand, Handling, TypeOK, Intents, Gens
  <2>2. CASE DeleteConfigMap BY <2>2 DEF DeleteConfigMap
  <2> QED BY <2>1, <2>2, Writers DEF TypeOK
<1>10. run' \in {"none", "running", "stopped", "gone"}
  <2>1. CASE ReplaceJob BY <2>1 DEF ReplaceJob, Gone, TypeOK
  <2>2. CASE CreateUnit BY <2>2 DEF CreateUnit, Interrupted, TypeOK
  <2>3. CASE DeleteUnit BY <2>3 DEF DeleteUnit, Gone, TypeOK
  <2>4. CASE Deliver BY <2>4 DEF Deliver, TypeOK
  <2>5. CASE PodEnds BY <2>5 DEF PodEnds, Interrupted, TypeOK
  <2>6. CASE RunStops BY <2>6 DEF RunStops, TypeOK
  <2> QED BY <2>1, <2>2, <2>3, <2>4, <2>5, <2>6, Writers DEF TypeOK
<1>11. log' \in 0 .. MaxLog
  <2>1. CASE Append BY <2>1 DEF Append, TypeOK
  <2> QED BY <2>1, Writers DEF TypeOK
<1>12. relay' \in Relays \cup {None}
  <2>1. CASE Recover \/ BeginTick
    <3>1. PageLimit \in 1 .. PageLimit OBVIOUS
    <3>2. Adopted \in Relays \cup {None} BY <3>1 DEF Adopted, TypeOK, Relays
    <3> QED BY <2>1, <3>2 DEF Recover, BeginTick, TypeOK
  <2>2. CASE Deliver
    <3>1. [after |-> 0, limit |-> PageLimit] \in Relays BY DEF Relays
    <3> QED BY <2>2, <3>1 DEF Deliver, TypeOK
  <2>3. CASE BeginPump \/ AgentFails \/ PushFails \/ PushFinal \/ ReadRecord
    BY <2>3 DEF BeginPump, AgentFails, PushFails, PushFinal, ReadRecord, PumpOver,
      UnansweredPush, TypeOK
  <2>4. CASE PushPage
    <3>1. relay \in Relays BY <2>4 DEF PushPage, InHand, Relaying, TypeOK
    <3>2. [relay EXCEPT !.after = cursor'] \in Relays BY <1>7, <3>1 DEF Relays
    <3> QED BY <2>4, <3>2 DEF PushPage, PumpOver
  <2>5. CASE PushTooLarge
    <3>1. relay \in Relays /\ relay.limit > 1 BY <2>5 DEF PushTooLarge, InHand, Relaying, TypeOK
    <3>2. PICK l \in 1 .. PageLimit : relay.limit = l BY <3>1 DEF Relays
    <3>3. l \div 2 \in 1 .. PageLimit BY <3>1, <3>2
    <3>4. [relay EXCEPT !.limit = @ \div 2] \in Relays BY <3>1, <3>2, <3>3 DEF Relays
    <3> QED BY <2>5, <3>4 DEF PushTooLarge, PumpOver
  <2>6. CASE Restart BY <2>6 DEF Restart
  <2> QED BY <2>1, <2>2, <2>3, <2>4, <2>5, <2>6, Writers DEF TypeOK
<1>13. pending' \in Intents \cup {None}
  <2>1. CASE Ack BY <2>1 DEF Ack, InHand, Handling, TypeOK
  <2>2. CASE RetryAcks \/ Restart BY <2>2 DEF RetryAcks, Restart, TypeOK
  <2> QED BY <2>1, <2>2, Writers DEF TypeOK
<1>14. /\ applied' \subseteq Gens /\ refused' \subseteq Gens \X BOOLEAN /\ acked' \subseteq Gens
       /\ letGo' \in BOOLEAN
  <2>1. intent # None => intent.gen \in Gens /\ intent.allowed \in BOOLEAN BY DEF TypeOK, Intents
  <2>2. pending # None => pending.gen \in Gens BY DEF TypeOK, Intents
  <2>3. applied' \subseteq Gens
    <3>1. CASE ReplaceJob \/ CreateUnit BY <2>1, <3>1 DEF ReplaceJob, CreateUnit, InHand, Handling, TypeOK
    <3>2. CASE DeleteConfigMap BY <2>1, <3>2 DEF DeleteConfigMap, InHand, DrainIsAsked, TypeOK, Deleting
    <3> QED BY <3>1, <3>2, Writers DEF TypeOK
  <2>4. refused' \subseteq Gens \X BOOLEAN
    <3>1. CASE Handle BY <2>1, <3>1 DEF Handle, Refusal, InHand, Handling, TypeOK
    <3> QED BY <3>1, Writers DEF TypeOK
  <2>5. acked' \subseteq Gens BY <2>1, <2>2, Writers DEF Ack, RetryAcks, TakeAck, InHand, Handling, TypeOK
  <2>6. letGo' \in BOOLEAN BY Writers DEF PushFinal, TypeOK
  <2> QED BY <2>3, <2>4, <2>5, <2>6
<1>15. faults' \in 0 .. MaxFaults
  <2>1. CASE Fault BY <2>1 DEF Fault, TypeOK
  <2> QED BY <2>1, Writers DEF TypeOK
<1>16. restarts' \in 0 .. MaxRestarts
  <2>1. CASE Restart BY <2>1 DEF Restart, TypeOK
  <2> QED BY <2>1, Writers DEF TypeOK
<1>17. intent' \in Intents \cup {None}
  <2>1. CASE Claim BY <2>1 DEF Claim, Leave, TypeOK
  <2> QED BY <2>1, Writers DEF TypeOK
<1>18. back' \in {"delete", "stop", "end", "idle"}
  <2>1. CASE Handle BY <2>1 DEF Handle, Refusal, Drain, GoTo, local, TypeOK
  <2>2. CASE Watch BY <2>2 DEF Watch, Drain, GoTo, local, StatusIsLost, StatusIsSkipped, Leave, TypeOK
  <2> QED BY <2>1, <2>2, Writers DEF TypeOK
<1>19. page' \in [to : 0 .. MaxLog, more : BOOLEAN, pages : 0 .. MaxPages, stopped : BOOLEAN]
  <2>. DEFINE Pages == [to : 0 .. MaxLog, more : BOOLEAN, pages : 0 .. MaxPages, stopped : BOOLEAN]
  <2>1. page \in Pages BY DEF TypeOK
  <2>2. NoPage \in Pages BY DEF NoPage
  <2>3. CASE ReadPage
    <3>1. relay \in Relays BY <2>3 DEF ReadPage, InHand, Relaying, TypeOK
    <3>2. PICK a \in 0 .. MaxLog, l \in 1 .. PageLimit : relay.after = a /\ relay.limit = l BY <3>1 DEF Relays
    <3>3. PageEnd(a, l) \in 0 .. MaxLog BY DEF PageEnd, TypeOK
    <3>4. (log > PageEnd(a, l)) \in BOOLEAN OBVIOUS
    <3>5. page' = [page EXCEPT !.to = PageEnd(a, l), !.more = log > PageEnd(a, l)] BY <2>3, <3>2 DEF ReadPage
    <3> QED BY <2>1, <3>3, <3>4, <3>5
  <2>4. CASE PushPage
    <3>1. page' = NoPage \/ (page' = [page EXCEPT !.pages = @ + 1] /\ page.pages + 1 < MaxPages)
      BY <2>4 DEF PushPage, PumpOver
    <3>2. PICK p \in 0 .. MaxPages : page.pages = p BY <2>1
    <3>3. CASE page.pages + 1 < MaxPages
      <4>1. p + 1 \in 0 .. MaxPages BY <3>2, <3>3
      <4> QED BY <2>1, <2>2, <3>1, <3>2, <4>1
    <3> QED BY <2>2, <3>1, <3>3
  <2>5. CASE ReadRecord
    <3>1. page' \in {NoPage, [NoPage EXCEPT !.stopped = TRUE]} BY <2>5 DEF ReadRecord, PumpOver
    <3> QED BY <2>2, <3>1 DEF NoPage
  <2> QED BY <2>1, <2>2, <2>3, <2>4, <2>5, Writers
<1>20. at' \in Places BY Writers DEF TypeOK
<1> QED BY <1>1, <1>2, <1>3, <1>5, <1>6, <1>7, <1>8, <1>9, <1>10, <1>11, <1>12, <1>13, <1>14, <1>15,
     <1>16, <1>17, <1>18, <1>19, <1>20 DEF TypeOK

------------------------
(* Where the loop is *)

\* Every step leaves the loop with what its next place needs in hand.
LEMMA HandStep ==
  ASSUME TypeOK, InHand, DrainIsAsked, PageOK, Next
  PROVE  InHand'
<1>. USE NoneAssumption DEF InHand, Handling, Deleting, Relaying, DrainIsAsked, NoPage
<1>1. CASE Recover BY <1>1 DEF Recover, Fault, NoFault, Adopted, IsOpen, hubVars, clusterVars, local, history
<1>2. CASE BeginTick BY <1>2 DEF BeginTick, Fault, NoFault, Adopted, IsOpen, hubVars, clusterVars, local, history
<1>3. CASE Claim
  <2>1. want # None BY NoneAssumption DEF TypeOK
  <2> QED BY <1>3, <2>1 DEF Claim, NoFault, Fault, Leave, clusterVars, memory, history
<1>4. CASE Handle BY <1>4 DEF Handle, Refusal, GoTo, Drain, MayBeLate, Leaves, hubVars, clusterVars, memory,
    local, counts
<1>5. CASE Refuse BY <1>5 DEF Refuse, Report, NoFault, Fault, GoTo, Leave, hubVars, clusterVars, memory,
    local, history
<1>6. CASE ApplyFails BY <1>6 DEF ApplyFails, Fault, Unapplied, Leave, hubVars, clusterVars, memory, history
<1>7. CASE ReplaceJob BY <1>7 DEF ReplaceJob, NoFault, GoTo, Gone, hubVars, memory, local
<1>8. CASE PutConfigMap BY <1>8 DEF PutConfigMap, NoFault, GoTo, hubVars, memory, local, history
<1>9. CASE CreateUnit BY <1>9 DEF CreateUnit, NoFault, UpToDate, Interrupted, GoTo, hubVars, memory, local
<1>10. CASE DeleteUnit BY <1>10 DEF DeleteUnit, NoFault, Gone, GoTo, hubVars, memory, local
<1>11. CASE DeleteConfigMap
  <2>1. back \in {"delete", "stop", "end", "idle"} BY DEF TypeOK
  <2> QED BY <1>11, <2>1 DEF DeleteConfigMap, NoFault, Leave, GoTo, hubVars, local
<1>12. CASE DeleteFails BY <1>12 DEF DeleteFails, Fault, Leave, hubVars, clusterVars, memory, history
<1>13. CASE Ack
  <2>1. back \in {"delete", "stop", "end", "idle"} BY DEF TypeOK
  <2>2. [gen |-> intent.gen, last |-> None] # None
    BY <1>13, NoneAssumption DEF Ack, InHand, Handling, TypeOK, Intents, Trackings
  <2> QED BY <1>13, <2>1, <2>2 DEF Ack, NoFault, Fault, TakeAck, Holds, TrackedNow, Leave, GoTo,
      clusterVars, local
<1>14. CASE Say BY <1>14 DEF Say, Report, NoFault, Fault, GoTo, Leave, hubVars, clusterVars, memory, local,
    history
<1>15. CASE ReportStatus BY <1>15 DEF ReportStatus, StatusIsTold, StatusIsLost, StatusIsSkipped, NoFault, Fault,
    Leave, Status, Reported, clusterVars, history
<1>16. CASE RetryAcks BY <1>16 DEF RetryAcks, NoFault, Fault, GoTo, TakeAck, Holds, clusterVars, local
<1>17. CASE Watch BY <1>17 DEF Watch, NoFault, Fault, Status, Reported, Drain, GoTo, StatusIsLost,
    StatusIsSkipped, Leave, clusterVars, local, history
<1>18. CASE WatchNothing BY <1>18 DEF WatchNothing, GoTo, hubVars, clusterVars, memory, local, counts, history
<1>19. CASE Deliver BY <1>19 DEF Deliver, Reachable, GoTo, hubVars, local, counts, history
<1>20. CASE BeginPump BY <1>20 DEF BeginPump, NoFault, Reachable, GoTo, PumpOver, hubVars, clusterVars, local,
    history
<1>21. CASE AgentFails BY <1>21 DEF AgentFails, Answers, Reachable, NoFault, Fault, PumpOver, hubVars, clusterVars,
    history
<1>22. CASE ReadPage BY <1>22 DEF ReadPage, PageEnd, Answers, Reachable, hubVars, clusterVars, memory, counts,
    history
<1>23. CASE PushPage
  <2>1. [relay EXCEPT !.after = cursor'] # None
    BY <1>23, NoneAssumption, TypeStep DEF PushPage, InHand, Relaying, TypeOK, Relays
  <2> QED BY <1>23, <2>1 DEF PushPage, Answers, Reachable, NoFault, Pushed, PumpOver, clusterVars,
      history
<1>24. CASE PushTooLarge BY <1>24 DEF PushTooLarge, Answers, Reachable, Fault, PumpOver, hubVars, clusterVars, history
<1>25. CASE PushFails BY <1>25 DEF PushFails, Answers, Reachable, Fault, Leave, UnansweredPush, Pushed, PumpOver,
    clusterVars, history
<1>26. CASE ReadRecord BY <1>26 DEF ReadRecord, Answers, Reachable, NoFault, IsStopped, OnceStopped, PumpOver,
    hubVars, clusterVars, history
<1>27. CASE PushFinal BY <1>27 DEF PushFinal, NoFault, PumpOver, clusterVars
<1>28. CASE NewGeneration BY <1>28 DEF NewGeneration, clusterVars, memory, local, counts, history
<1>29. CASE Expire BY <1>29 DEF Expire, NoFault, Reoffer, clusterVars, memory, local, history
<1>30. CASE ExpireEarly BY <1>30 DEF ExpireEarly, Fault, Reoffer, clusterVars, memory, local, history
<1>31. CASE PodStarts BY <1>31 DEF PodStarts, hubVars, memory, local, counts, history
<1>32. CASE PodEnds BY <1>32 DEF PodEnds, NoFault, Fault, Interrupted, hubVars, memory, local, history
<1>33. CASE Append BY <1>33 DEF Append, hubVars, memory, local, counts, history
<1>34. CASE RunStops BY <1>34 DEF RunStops, hubVars, memory, local, counts, history
<1>35. CASE Restart BY <1>35 DEF Restart, Leave, hubVars, clusterVars, history
<1> QED BY <1>1, <1>2, <1>3, <1>4, <1>5, <1>6, <1>7, <1>8, <1>9, <1>10, <1>11, <1>12, <1>13, <1>14,
    <1>15, <1>16, <1>17, <1>18, <1>19, <1>20, <1>21, <1>22, <1>23, <1>24, <1>25, <1>26, <1>27,
    <1>28, <1>29, <1>30, <1>31, <1>32, <1>33, <1>34, <1>35 DEF Next, Tick, HandleIntent, Pump, World

\* A drain stays asked for until it has ended.
LEMMA DrainStep ==
  ASSUME TypeOK, InHand, DrainIsAsked, PageOK, Next
  PROVE  DrainIsAsked'
<1>. USE NoneAssumption DEF InHand, Handling, Deleting, Relaying, DrainIsAsked, NoPage, Leaves
<1>1. CASE Recover BY <1>1 DEF Recover, Fault, NoFault, Adopted, IsOpen, hubVars, clusterVars, local, history
<1>2. CASE BeginTick BY <1>2 DEF BeginTick, Fault, NoFault, Adopted, IsOpen, hubVars, clusterVars, local, history
<1>3. CASE Claim BY <1>3 DEF Claim, NoFault, Fault, Leave, clusterVars, memory, history
<1>4. CASE Handle BY <1>4 DEF Handle, Refusal, GoTo, Drain, MayBeLate, hubVars, clusterVars, memory, local,
    counts
<1>5. CASE Refuse BY <1>5 DEF Refuse, Report, NoFault, Fault, GoTo, Leave, hubVars, clusterVars, memory,
    local, history
<1>6. CASE ApplyFails BY <1>6 DEF ApplyFails, Fault, Unapplied, Leave, hubVars, clusterVars, memory, history
<1>7. CASE ReplaceJob BY <1>7 DEF ReplaceJob, NoFault, GoTo, Gone, hubVars, memory, local
<1>8. CASE PutConfigMap BY <1>8 DEF PutConfigMap, NoFault, GoTo, hubVars, memory, local, history
<1>9. CASE CreateUnit BY <1>9 DEF CreateUnit, NoFault, UpToDate, Interrupted, GoTo, hubVars, memory, local
<1>10. CASE DeleteUnit BY <1>10 DEF DeleteUnit, NoFault, Gone, GoTo, hubVars, memory, local
<1>11. CASE DeleteConfigMap BY <1>11 DEF DeleteConfigMap, NoFault, Leave, GoTo, hubVars, local
<1>12. CASE DeleteFails BY <1>12 DEF DeleteFails, Fault, Leave, hubVars, clusterVars, memory, history
<1>13. CASE Ack BY <1>13 DEF Ack, NoFault, Fault, TakeAck, Holds, TrackedNow, Leave, GoTo, clusterVars, local
<1>14. CASE Say BY <1>14 DEF Say, Report, NoFault, Fault, GoTo, Leave, hubVars, clusterVars, memory, local,
    history
<1>15. CASE ReportStatus BY <1>15 DEF ReportStatus, StatusIsTold, StatusIsLost, StatusIsSkipped, NoFault, Fault,
    Leave, Status, Reported, clusterVars, history
<1>16. CASE RetryAcks BY <1>16 DEF RetryAcks, NoFault, Fault, GoTo, TakeAck, Holds, clusterVars, local
<1>17. CASE Watch
  <2>1. tracked' \in {None} \cup Trackings /\ (tracked = None => tracked' = None) BY <1>17, TypeStep DEF Watch, TypeOK
  <2>2. [tracked EXCEPT !.last = Status] # None
    BY <1>17, NoneAssumption DEF Watch, TypeOK, Trackings, Status, Units, Reports, Phases
  <2> QED BY <1>17, <2>1, <2>2 DEF Watch, NoFault, Fault, Status, Reported, Drain, GoTo,
      StatusIsLost, StatusIsSkipped, Leave, clusterVars, local, history
<1>18. CASE WatchNothing BY <1>18 DEF WatchNothing, GoTo, hubVars, clusterVars, memory, local, counts, history
<1>19. CASE Deliver BY <1>19 DEF Deliver, Reachable, GoTo, hubVars, local, counts, history
<1>20. CASE BeginPump BY <1>20 DEF BeginPump, NoFault, Reachable, GoTo, PumpOver, hubVars, clusterVars, local,
    history
<1>21. CASE AgentFails BY <1>21 DEF AgentFails, Answers, Reachable, NoFault, Fault, PumpOver, hubVars, clusterVars,
    history
<1>22. CASE ReadPage BY <1>22 DEF ReadPage, PageEnd, Answers, Reachable, hubVars, clusterVars, memory, counts,
    history
<1>23. CASE PushPage BY <1>23 DEF PushPage, Answers, Reachable, NoFault, Pushed, PumpOver, clusterVars, history
<1>24. CASE PushTooLarge BY <1>24 DEF PushTooLarge, Answers, Reachable, Fault, PumpOver, hubVars, clusterVars, history
<1>25. CASE PushFails BY <1>25 DEF PushFails, Answers, Reachable, Fault, Leave, UnansweredPush, Pushed, PumpOver,
    clusterVars, history
<1>26. CASE ReadRecord BY <1>26 DEF ReadRecord, Answers, Reachable, NoFault, IsStopped, OnceStopped, PumpOver,
    hubVars, clusterVars, history
<1>27. CASE PushFinal BY <1>27 DEF PushFinal, NoFault, PumpOver, clusterVars
<1>28. CASE NewGeneration BY <1>28 DEF NewGeneration, clusterVars, memory, local, counts, history
<1>29. CASE Expire BY <1>29 DEF Expire, NoFault, Reoffer, clusterVars, memory, local, history
<1>30. CASE ExpireEarly BY <1>30 DEF ExpireEarly, Fault, Reoffer, clusterVars, memory, local, history
<1>31. CASE PodStarts BY <1>31 DEF PodStarts, hubVars, memory, local, counts, history
<1>32. CASE PodEnds BY <1>32 DEF PodEnds, NoFault, Fault, Interrupted, hubVars, memory, local, history
<1>33. CASE Append BY <1>33 DEF Append, hubVars, memory, local, counts, history
<1>34. CASE RunStops BY <1>34 DEF RunStops, hubVars, memory, local, counts, history
<1>35. CASE Restart BY <1>35 DEF Restart, Leave, hubVars, clusterVars, history
<1> QED BY <1>1, <1>2, <1>3, <1>4, <1>5, <1>6, <1>7, <1>8, <1>9, <1>10, <1>11, <1>12, <1>13, <1>14,
    <1>15, <1>16, <1>17, <1>18, <1>19, <1>20, <1>21, <1>22, <1>23, <1>24, <1>25, <1>26, <1>27,
    <1>28, <1>29, <1>30, <1>31, <1>32, <1>33, <1>34, <1>35 DEF Next, Tick, HandleIntent, Pump, World

\* What is applied stays asked for while its intent is in hand.
LEMMA ApplyStep ==
  ASSUME TypeOK, InHand, DrainIsAsked, ApplyIsAsked, Next
  PROVE  ApplyIsAsked'
<1>. USE NoneAssumption DEF InHand, Handling, Deleting, Relaying, DrainIsAsked, NoPage, Leaves,
  ApplyIsAsked
<1>1. CASE Recover BY <1>1 DEF Recover, Fault, NoFault, Adopted, IsOpen, hubVars, clusterVars, local, history
<1>2. CASE BeginTick BY <1>2 DEF BeginTick, Fault, NoFault, Adopted, IsOpen, hubVars, clusterVars, local, history
<1>3. CASE Claim BY <1>3 DEF Claim, NoFault, Fault, Leave, clusterVars, memory, history
<1>4. CASE Handle BY <1>4 DEF Handle, Refusal, GoTo, Drain, MayBeLate, hubVars, clusterVars, memory, local,
    counts
<1>5. CASE Refuse BY <1>5 DEF Refuse, Report, NoFault, Fault, GoTo, Leave, hubVars, clusterVars, memory,
    local, history
<1>6. CASE ApplyFails BY <1>6 DEF ApplyFails, Fault, Unapplied, Leave, hubVars, clusterVars, memory, history
<1>7. CASE ReplaceJob BY <1>7 DEF ReplaceJob, NoFault, GoTo, Gone, hubVars, memory, local
<1>8. CASE PutConfigMap BY <1>8 DEF PutConfigMap, NoFault, GoTo, hubVars, memory, local, history
<1>9. CASE CreateUnit BY <1>9 DEF CreateUnit, NoFault, UpToDate, Interrupted, GoTo, hubVars, memory, local
<1>10. CASE DeleteUnit BY <1>10 DEF DeleteUnit, NoFault, Gone, GoTo, hubVars, memory, local
<1>11. CASE DeleteConfigMap BY <1>11 DEF DeleteConfigMap, NoFault, Leave, GoTo, hubVars, local
<1>12. CASE DeleteFails BY <1>12 DEF DeleteFails, Fault, Leave, hubVars, clusterVars, memory, history
<1>13. CASE Ack BY <1>13 DEF Ack, NoFault, Fault, TakeAck, Holds, TrackedNow, Leave, GoTo, clusterVars, local
<1>14. CASE Say BY <1>14 DEF Say, Report, NoFault, Fault, GoTo, Leave, hubVars, clusterVars, memory, local,
    history
<1>15. CASE ReportStatus BY <1>15 DEF ReportStatus, StatusIsTold, StatusIsLost, StatusIsSkipped, NoFault, Fault,
    Leave, Status, Reported, clusterVars, history
<1>16. CASE RetryAcks BY <1>16 DEF RetryAcks, NoFault, Fault, GoTo, TakeAck, Holds, clusterVars, local
<1>17. CASE Watch BY <1>17 DEF Watch, NoFault, Fault, Status, Reported, Drain, GoTo, StatusIsLost,
    StatusIsSkipped, Leave, clusterVars, local, history
<1>18. CASE WatchNothing BY <1>18 DEF WatchNothing, GoTo, hubVars, clusterVars, memory, local, counts, history
<1>19. CASE Deliver BY <1>19 DEF Deliver, Reachable, GoTo, hubVars, local, counts, history
<1>20. CASE BeginPump BY <1>20 DEF BeginPump, NoFault, Reachable, GoTo, PumpOver, hubVars, clusterVars, local,
    history
<1>21. CASE AgentFails BY <1>21 DEF AgentFails, Answers, Reachable, NoFault, Fault, PumpOver, hubVars, clusterVars,
    history
<1>22. CASE ReadPage BY <1>22 DEF ReadPage, PageEnd, Answers, Reachable, hubVars, clusterVars, memory, counts,
    history
<1>23. CASE PushPage BY <1>23 DEF PushPage, Answers, Reachable, NoFault, Pushed, PumpOver, clusterVars, history
<1>24. CASE PushTooLarge BY <1>24 DEF PushTooLarge, Answers, Reachable, Fault, PumpOver, hubVars, clusterVars, history
<1>25. CASE PushFails BY <1>25 DEF PushFails, Answers, Reachable, Fault, Leave, UnansweredPush, Pushed, PumpOver,
    clusterVars, history
<1>26. CASE ReadRecord BY <1>26 DEF ReadRecord, Answers, Reachable, NoFault, IsStopped, OnceStopped, PumpOver,
    hubVars, clusterVars, history
<1>27. CASE PushFinal BY <1>27 DEF PushFinal, NoFault, PumpOver, clusterVars
<1>28. CASE NewGeneration BY <1>28 DEF NewGeneration, clusterVars, memory, local, counts, history
<1>29. CASE Expire BY <1>29 DEF Expire, NoFault, Reoffer, clusterVars, memory, local, history
<1>30. CASE ExpireEarly BY <1>30 DEF ExpireEarly, Fault, Reoffer, clusterVars, memory, local, history
<1>31. CASE PodStarts BY <1>31 DEF PodStarts, hubVars, memory, local, counts, history
<1>32. CASE PodEnds
  <2>1. unit # None /\ unit'.gen = unit.gen /\ profile' = profile BY <1>32 DEF PodEnds, TypeOK, Units, hubVars
  <2> QED BY <1>32, <2>1 DEF PodEnds, NoFault, Fault, Interrupted, hubVars, memory, local, history
<1>33. CASE Append BY <1>33 DEF Append, hubVars, memory, local, counts, history
<1>34. CASE RunStops BY <1>34 DEF RunStops, hubVars, memory, local, counts, history
<1>35. CASE Restart BY <1>35 DEF Restart, Leave, hubVars, clusterVars, history
<1> QED BY <1>1, <1>2, <1>3, <1>4, <1>5, <1>6, <1>7, <1>8, <1>9, <1>10, <1>11, <1>12, <1>13, <1>14,
    <1>15, <1>16, <1>17, <1>18, <1>19, <1>20, <1>21, <1>22, <1>23, <1>24, <1>25, <1>26, <1>27,
    <1>28, <1>29, <1>30, <1>31, <1>32, <1>33, <1>34, <1>35 DEF Next, Tick, HandleIntent, Pump, World

------------------------
(* The relay *)

\* The last push follows an empty page, and nothing moves the cursor in between.
LEMMA FinalIsReached ==
  ASSUME InHand, Next
  PROVE  at' = "final" => ReadPage \/ (at = "final" /\ page' = page /\ cursor' = cursor)
<1>. USE NoneAssumption DEF InHand, Relaying
<1>1. CASE Recover BY <1>1 DEF Recover, Fault, NoFault, Adopted, IsOpen, hubVars, clusterVars, local, history
<1>2. CASE BeginTick BY <1>2 DEF BeginTick, Fault, NoFault, Adopted, IsOpen, hubVars, clusterVars, local, history
<1>3. CASE Claim BY <1>3 DEF Claim, NoFault, Fault, Leave, clusterVars, memory, history
<1>4. CASE Handle BY <1>4 DEF Handle, Refusal, GoTo, Drain, MayBeLate, Leaves, hubVars, clusterVars, memory,
    local, counts
<1>5. CASE Refuse BY <1>5 DEF Refuse, Report, NoFault, Fault, GoTo, Leave, hubVars, clusterVars, memory,
    local, history
<1>6. CASE ApplyFails BY <1>6 DEF ApplyFails, Fault, Unapplied, Leave, hubVars, clusterVars, memory, history
<1>7. CASE ReplaceJob BY <1>7 DEF ReplaceJob, NoFault, GoTo, Gone, hubVars, memory, local
<1>8. CASE PutConfigMap BY <1>8 DEF PutConfigMap, NoFault, GoTo, hubVars, memory, local, history
<1>9. CASE CreateUnit BY <1>9 DEF CreateUnit, NoFault, UpToDate, Interrupted, GoTo, hubVars, memory, local
<1>10. CASE DeleteUnit BY <1>10 DEF DeleteUnit, NoFault, Gone, GoTo, hubVars, memory, local
<1>11. CASE DeleteConfigMap BY <1>11 DEF DeleteConfigMap, NoFault, Leave, GoTo, hubVars, local
<1>12. CASE DeleteFails BY <1>12 DEF DeleteFails, Fault, Leave, hubVars, clusterVars, memory, history
<1>13. CASE Ack BY <1>13 DEF Ack, NoFault, Fault, TakeAck, Holds, TrackedNow, Leave, GoTo, clusterVars, local
<1>14. CASE Say BY <1>14 DEF Say, Report, NoFault, Fault, GoTo, Leave, hubVars, clusterVars, memory, local,
    history
<1>15. CASE ReportStatus BY <1>15 DEF ReportStatus, StatusIsTold, StatusIsLost, StatusIsSkipped, NoFault, Fault,
    Leave, Status, Reported, clusterVars, history
<1>16. CASE RetryAcks BY <1>16 DEF RetryAcks, NoFault, Fault, GoTo, TakeAck, Holds, clusterVars, local
<1>17. CASE Watch BY <1>17 DEF Watch, NoFault, Fault, Status, Reported, Drain, GoTo, StatusIsLost,
    StatusIsSkipped, Leave, clusterVars, local, history
<1>18. CASE WatchNothing BY <1>18 DEF WatchNothing, GoTo, hubVars, clusterVars, memory, local, counts, history
<1>19. CASE Deliver BY <1>19 DEF Deliver, Reachable, GoTo, hubVars, local, counts, history
<1>20. CASE BeginPump BY <1>20 DEF BeginPump, NoFault, Reachable, GoTo, PumpOver, hubVars, clusterVars, local,
    history
<1>21. CASE AgentFails BY <1>21 DEF AgentFails, Answers, Reachable, NoFault, Fault, PumpOver, hubVars, clusterVars,
    history
<1>22. CASE ReadPage BY <1>22 DEF ReadPage, PageEnd, Answers, Reachable, hubVars, clusterVars, memory, counts,
    history
<1>23. CASE PushPage BY <1>23 DEF PushPage, Answers, Reachable, NoFault, Pushed, PumpOver, clusterVars, history
<1>24. CASE PushTooLarge BY <1>24 DEF PushTooLarge, Answers, Reachable, Fault, PumpOver, hubVars, clusterVars, history
<1>25. CASE PushFails BY <1>25 DEF PushFails, Answers, Reachable, Fault, Leave, UnansweredPush, Pushed, PumpOver,
    clusterVars, history
<1>26. CASE ReadRecord BY <1>26 DEF ReadRecord, Answers, Reachable, NoFault, IsStopped, OnceStopped, PumpOver,
    hubVars, clusterVars, history
<1>27. CASE PushFinal BY <1>27 DEF PushFinal, NoFault, PumpOver, clusterVars
<1>28. CASE NewGeneration BY <1>28 DEF NewGeneration, clusterVars, memory, local, counts, history
<1>29. CASE Expire BY <1>29 DEF Expire, NoFault, Reoffer, clusterVars, memory, local, history
<1>30. CASE ExpireEarly BY <1>30 DEF ExpireEarly, Fault, Reoffer, clusterVars, memory, local, history
<1>31. CASE PodStarts BY <1>31 DEF PodStarts, hubVars, memory, local, counts, history
<1>32. CASE PodEnds BY <1>32 DEF PodEnds, NoFault, Fault, Interrupted, hubVars, memory, local, history
<1>33. CASE Append BY <1>33 DEF Append, hubVars, memory, local, counts, history
<1>34. CASE RunStops BY <1>34 DEF RunStops, hubVars, memory, local, counts, history
<1>35. CASE Restart BY <1>35 DEF Restart, Leave, hubVars, clusterVars, history
<1> QED BY <1>1, <1>2, <1>3, <1>4, <1>5, <1>6, <1>7, <1>8, <1>9, <1>10, <1>11, <1>12, <1>13, <1>14,
    <1>15, <1>16, <1>17, <1>18, <1>19, <1>20, <1>21, <1>22, <1>23, <1>24, <1>25, <1>26, <1>27,
    <1>28, <1>29, <1>30, <1>31, <1>32, <1>33, <1>34, <1>35 DEF Next, Tick, HandleIntent, Pump, World

\* The log of a run that has stopped is closed, and the run never starts again.
LEMMA StoppedStays ==
  ASSUME TypeOK, Next, run \in {"stopped", "gone"}
  PROVE  run' \in {"stopped", "gone"} /\ log' = log
<1>1. run' \in {"stopped", "gone"}
  <2>1. CASE ReplaceJob \/ DeleteUnit BY <2>1 DEF ReplaceJob, DeleteUnit, Gone
  <2>2. CASE CreateUnit \/ PodEnds BY <2>2 DEF CreateUnit, PodEnds, Interrupted
  <2>3. CASE Deliver \/ RunStops BY <2>3 DEF Deliver, RunStops
  <2> QED BY <2>1, <2>2, <2>3, Writers
<1> QED BY <1>1, Writers DEF Append

\* The hub's cursor never goes back, nor past the log.
LEMMA CursorMoves ==
  ASSUME TypeOK, NoGap, PageOK, Next
  PROVE  cursor <= cursor' /\ cursor' <= log /\ log <= log' /\ (finished => finished')
<1>1. cursor \in Nat /\ log \in Nat /\ page.to \in Nat /\ page.to <= log /\ cursor <= log BY DEF TypeOK, NoGap, PageOK
<1>2. cursor <= cursor' /\ cursor' <= log
  <2>1. cursor' \in {cursor, page.to} /\ (cursor' = page.to => page.to >= cursor)
    <3>1. CASE PushPage \/ PushFails
      <4>1. cursor' = cursor \/ cursor' = IF page.to > cursor THEN page.to ELSE cursor
        BY <3>1 DEF PushPage, PushFails, Pushed
      <4> QED BY <1>1, <4>1
    <3>2. CASE cursor' = cursor BY <1>1, <3>2
    <3> QED BY <3>1, <3>2, Writers
  <2> QED BY <1>1, <2>1
<1>3. log <= log'
  <2>1. log' = log \/ log' = log + 1 BY Writers DEF Append
  <2> QED BY <1>1, <2>1
<1>4. finished => finished' BY Writers DEF PushPage, PushFails, Pushed, PushFinal
<1> QED BY <1>2, <1>3, <1>4

\* No step reads past what the hub has, or lets a run go with an event missing.
LEMMA PageStep ==
  ASSUME TypeOK, InHand, DrainIsAsked, NoGap, PageOK, FinalIsComplete, Next
  PROVE  NoGap' /\ PageOK' /\ FinalIsComplete'
<1>. USE NoneAssumption
<1>1. /\ cursor \in Nat /\ log \in Nat /\ cursor <= log
      /\ page.to \in Nat /\ page.to <= log BY DEF TypeOK, NoGap, PageOK
<1>2. TypeOK' BY TypeStep
<1>3. PICK c \in Nat, l \in Nat : cursor' = c /\ log' = l BY <1>2 DEF TypeOK
<1>4. cursor <= c /\ c <= log /\ log <= l /\ c <= l BY <1>1, <1>3, CursorMoves
<1>5. relay' # None => relay'.after <= c
  <2>1. relay # None => relay.after \in Nat /\ relay.after <= cursor /\ relay \in Relays BY DEF TypeOK, NoGap, Relays
  <2>2. relay # None => relay.after <= c BY <1>1, <1>4, <2>1
  <2>3. CASE Recover \/ BeginTick
    <3>1. relay' = relay \/ relay'.after = cursor BY <2>3 DEF Recover, BeginTick, Adopted
    <3> QED BY <1>1, <1>4, <2>2, <3>1
  <2>4. CASE Deliver
    <3>1. relay' = relay \/ relay'.after = 0 BY <2>4 DEF Deliver
    <3> QED BY <2>2, <3>1
  <2>5. CASE BeginPump \/ AgentFails \/ PushFails \/ PushFinal \/ ReadRecord \/ Restart
    <3>1. relay' \in {relay, None}
      BY <2>5 DEF BeginPump, AgentFails, PushFails, PushFinal, ReadRecord, Restart, PumpOver,
        UnansweredPush
    <3> QED BY <2>2, <3>1
  <2>6. CASE PushPage
    <3>1. relay # None BY <2>6 DEF PushPage, InHand, Relaying
    <3>2. relay' \in {[relay EXCEPT !.after = c], None} BY <1>3, <2>6 DEF PushPage, PumpOver
    <3>3. relay \in Relays BY <2>1, <3>1
    <3>4. [relay EXCEPT !.after = c].after = c BY <3>3 DEF Relays
    <3>5. relay' # None => relay'.after = c BY <3>2, <3>4
    <3>6. c <= c OBVIOUS
    <3> QED BY <3>5, <3>6
  <2>7. CASE PushTooLarge
    <3>1. relay # None BY <2>7 DEF PushTooLarge, InHand, Relaying
    <3>2. relay' \in {[relay EXCEPT !.limit = @ \div 2], None} BY <2>7 DEF PushTooLarge, PumpOver
    <3>3. [relay EXCEPT !.limit = @ \div 2].after = relay.after BY <2>1, <3>1 DEF Relays
    <3> QED BY <2>2, <3>1, <3>2, <3>3
  <2> QED BY <2>2, <2>3, <2>4, <2>5, <2>6, <2>7, Writers
<1>6. NoGap' BY <1>3, <1>4, <1>5 DEF NoGap
<1>7. /\ page'.to <= log /\ page'.pages < MaxPages
      /\ page'.stopped => run' \in {"stopped", "gone"}
  <2>. DEFINE Pages == [to : 0 .. MaxLog, more : BOOLEAN, pages : 0 .. MaxPages, stopped : BOOLEAN]
  <2>1. page \in Pages /\ page.pages < MaxPages BY DEF TypeOK, PageOK
  <2>2. page.stopped => run' \in {"stopped", "gone"} BY StoppedStays DEF PageOK
  <2>3. CASE page' \in {page, NoPage}
    <3>1. MaxPages \in Nat /\ MaxPages > 0 BY BoundsAssumption
    <3> QED BY <1>1, <2>1, <2>2, <2>3, <3>1 DEF NoPage
  <2>4. CASE ReadPage
    <3>1. relay \in Relays BY <2>4 DEF ReadPage, InHand, Relaying, TypeOK
    <3>2. PICK a \in Nat, n \in Nat : relay.after = a /\ relay.limit = n BY <3>1 DEF Relays
    <3>3. PageEnd(a, n) <= log BY <1>1, <3>2 DEF PageEnd
    <3>4. page' = [page EXCEPT !.to = PageEnd(a, n), !.more = log > PageEnd(a, n)] BY <2>4, <3>2 DEF ReadPage
    <3>5. page'.to = PageEnd(a, n) /\ page'.pages = page.pages /\ page'.stopped = page.stopped BY <2>1, <3>4
    <3> QED BY <2>1, <2>2, <3>3, <3>5
  <2>5. CASE PushPage /\ page' # NoPage
    <3>1. page' = [page EXCEPT !.pages = @ + 1] /\ page.pages + 1 < MaxPages BY <2>5 DEF PushPage, PumpOver
    <3>2. page'.to = page.to /\ page'.pages = page.pages + 1 /\ page'.stopped = page.stopped BY <2>1, <3>1
    <3> QED BY <1>1, <2>2, <3>1, <3>2
  <2>6. CASE ReadRecord /\ page' # NoPage
    <3>1. page' = [NoPage EXCEPT !.stopped = TRUE] /\ run = "stopped" BY <2>6 DEF ReadRecord, PumpOver, IsStopped
    <3>2. page'.to = 0 /\ page'.pages = 0 BY <3>1 DEF NoPage
    <3>3. run' \in {"stopped", "gone"} BY <3>1, StoppedStays
    <3>4. MaxPages \in Nat /\ MaxPages > 0 BY BoundsAssumption
    <3> QED BY <1>1, <3>2, <3>3, <3>4
  <2> QED BY <2>3, <2>4, <2>5, <2>6, Writers
<1>8. at' = "final" => page'.stopped /\ cursor' = log'
  <2>1. CASE ReadPage /\ at' = "final"
    <3>1. page.stopped /\ PageEnd(relay.after, relay.limit) <= relay.after
      <4>1. relay \in Relays BY <2>1 DEF ReadPage, InHand, Relaying, TypeOK
      <4>2. PICK a \in Nat, n \in Nat : relay.after = a /\ relay.limit = n BY <4>1 DEF Relays
      <4>3. PageEnd(a, n) \in Nat BY <1>1 DEF PageEnd
      <4>4. ~(PageEnd(a, n) > a) /\ page.stopped BY <2>1, <4>2 DEF ReadPage
      <4> QED BY <4>2, <4>3, <4>4
    <3>2. relay \in Relays BY <2>1 DEF ReadPage, InHand, Relaying, TypeOK
    <3>3. PICK a \in Nat, n \in Nat \ {0} : relay.after = a /\ relay.limit = n BY <3>2 DEF Relays
    <3>4. a <= cursor BY <3>2, <3>3 DEF NoGap
    <3>5. log = a BY <1>1, <3>1, <3>3, <3>4 DEF PageEnd
    <3>6. cursor = log BY <1>1, <3>4, <3>5
    <3>7. cursor' = cursor /\ log' = log BY <2>1 DEF ReadPage, hubVars, clusterVars
    <3>8. page'.stopped = page.stopped BY <2>1 DEF ReadPage, TypeOK
    <3> QED BY <3>1, <3>6, <3>7, <3>8
  <2>2. CASE at = "final" /\ page' = page /\ cursor' = cursor BY <2>2, StoppedStays DEF PageOK
  <2> QED BY <2>1, <2>2, FinalIsReached
<1>9. letGo' => run' \in {"stopped", "gone"} /\ cursor' = log' /\ finished'
  <2>1. CASE letGo' = letGo
    <3>1. letGo => run \in {"stopped", "gone"} /\ cursor = log /\ finished BY DEF PageOK, FinalIsComplete
    <3>2. letGo => log' = log BY <3>1, StoppedStays
    <3>3. letGo => c = l BY <1>1, <1>3, <1>4, <3>1, <3>2
    <3> QED BY <1>3, <2>1, <3>1, <3>3, StoppedStays, CursorMoves
  <2>2. CASE PushFinal
    <3>1. page.stopped /\ cursor = log BY <2>2 DEF PushFinal, PageOK
    <3>2. run \in {"stopped", "gone"} BY <3>1 DEF PageOK
    <3>3. cursor' = cursor /\ finished' BY <2>2 DEF PushFinal
    <3> QED BY <3>1, <3>2, <3>3, StoppedStays
  <2> QED BY <2>1, <2>2, Writers
<1>10. page'.to <= l
  <2>1. PICK t \in Nat : page'.to = t BY <1>2 DEF TypeOK
  <2> QED BY <1>1, <1>4, <1>7, <2>1
<1> QED BY <1>3, <1>6, <1>7, <1>8, <1>9, <1>10 DEF PageOK, FinalIsComplete

------------------------
(* Generations *)

\* The place an acknowledgement is made from is reached by applying or refusing.
LEMMA SettledStep ==
  ASSUME TypeOK, InHand, Settled, Next
  PROVE  Settled'
<1>. USE NoneAssumption DEF InHand, Handling, Deleting, Settled
<1>1. CASE Recover BY <1>1 DEF Recover, Fault, NoFault, Adopted, IsOpen, hubVars, clusterVars, local, history
<1>2. CASE BeginTick BY <1>2 DEF BeginTick, Fault, NoFault, Adopted, IsOpen, hubVars, clusterVars, local, history
<1>3. CASE Claim BY <1>3 DEF Claim, NoFault, Fault, Leave, clusterVars, memory, history
<1>4. CASE Handle BY <1>4 DEF Handle, Refusal, GoTo, Drain, MayBeLate, Leaves, hubVars, clusterVars, memory,
    local, counts
<1>5. CASE Refuse BY <1>5 DEF Refuse, Report, NoFault, Fault, GoTo, Leave, hubVars, clusterVars, memory,
    local, history
<1>6. CASE ApplyFails BY <1>6 DEF ApplyFails, Fault, Unapplied, Leave, hubVars, clusterVars, memory, history
<1>7. CASE ReplaceJob BY <1>7 DEF ReplaceJob, NoFault, GoTo, Gone, hubVars, memory, local
<1>8. CASE PutConfigMap BY <1>8 DEF PutConfigMap, NoFault, GoTo, hubVars, memory, local, history
<1>9. CASE CreateUnit BY <1>9 DEF CreateUnit, NoFault, UpToDate, Interrupted, GoTo, hubVars, memory, local
<1>10. CASE DeleteUnit BY <1>10 DEF DeleteUnit, NoFault, Gone, GoTo, hubVars, memory, local
<1>11. CASE DeleteConfigMap BY <1>11 DEF DeleteConfigMap, NoFault, Leave, GoTo, hubVars, local
<1>12. CASE DeleteFails BY <1>12 DEF DeleteFails, Fault, Leave, hubVars, clusterVars, memory, history
<1>13. CASE Ack BY <1>13 DEF Ack, NoFault, Fault, TakeAck, Holds, TrackedNow, Leave, GoTo, clusterVars, local
<1>14. CASE Say BY <1>14 DEF Say, Report, NoFault, Fault, GoTo, Leave, hubVars, clusterVars, memory, local,
    history
<1>15. CASE ReportStatus BY <1>15 DEF ReportStatus, StatusIsTold, StatusIsLost, StatusIsSkipped, NoFault, Fault,
    Leave, Status, Reported, clusterVars, history
<1>16. CASE RetryAcks BY <1>16 DEF RetryAcks, NoFault, Fault, GoTo, TakeAck, Holds, clusterVars, local
<1>17. CASE Watch BY <1>17 DEF Watch, NoFault, Fault, Status, Reported, Drain, GoTo, StatusIsLost,
    StatusIsSkipped, Leave, clusterVars, local, history
<1>18. CASE WatchNothing BY <1>18 DEF WatchNothing, GoTo, hubVars, clusterVars, memory, local, counts, history
<1>19. CASE Deliver BY <1>19 DEF Deliver, Reachable, GoTo, hubVars, local, counts, history
<1>20. CASE BeginPump BY <1>20 DEF BeginPump, NoFault, Reachable, GoTo, PumpOver, hubVars, clusterVars, local,
    history
<1>21. CASE AgentFails BY <1>21 DEF AgentFails, Answers, Reachable, NoFault, Fault, PumpOver, hubVars, clusterVars,
    history
<1>22. CASE ReadPage BY <1>22 DEF ReadPage, PageEnd, Answers, Reachable, hubVars, clusterVars, memory, counts,
    history
<1>23. CASE PushPage BY <1>23 DEF PushPage, Answers, Reachable, NoFault, Pushed, PumpOver, clusterVars, history
<1>24. CASE PushTooLarge BY <1>24 DEF PushTooLarge, Answers, Reachable, Fault, PumpOver, hubVars, clusterVars, history
<1>25. CASE PushFails BY <1>25 DEF PushFails, Answers, Reachable, Fault, Leave, UnansweredPush, Pushed, PumpOver,
    clusterVars, history
<1>26. CASE ReadRecord BY <1>26 DEF ReadRecord, Answers, Reachable, NoFault, IsStopped, OnceStopped, PumpOver,
    hubVars, clusterVars, history
<1>27. CASE PushFinal BY <1>27 DEF PushFinal, NoFault, PumpOver, clusterVars
<1>28. CASE NewGeneration BY <1>28 DEF NewGeneration, clusterVars, memory, local, counts, history
<1>29. CASE Expire BY <1>29 DEF Expire, NoFault, Reoffer, clusterVars, memory, local, history
<1>30. CASE ExpireEarly BY <1>30 DEF ExpireEarly, Fault, Reoffer, clusterVars, memory, local, history
<1>31. CASE PodStarts BY <1>31 DEF PodStarts, hubVars, memory, local, counts, history
<1>32. CASE PodEnds BY <1>32 DEF PodEnds, NoFault, Fault, Interrupted, hubVars, memory, local, history
<1>33. CASE Append BY <1>33 DEF Append, hubVars, memory, local, counts, history
<1>34. CASE RunStops BY <1>34 DEF RunStops, hubVars, memory, local, counts, history
<1>35. CASE Restart BY <1>35 DEF Restart, Leave, hubVars, clusterVars, history
<1> QED BY <1>1, <1>2, <1>3, <1>4, <1>5, <1>6, <1>7, <1>8, <1>9, <1>10, <1>11, <1>12, <1>13, <1>14,
    <1>15, <1>16, <1>17, <1>18, <1>19, <1>20, <1>21, <1>22, <1>23, <1>24, <1>25, <1>26, <1>27,
    <1>28, <1>29, <1>30, <1>31, <1>32, <1>33, <1>34, <1>35 DEF Next, Tick, HandleIntent, Pump, World

\* Only the intent in hand is applied, and it is one to be applied.
LEMMA AppliedIsAsked ==
  ASSUME TypeOK, InHand, DrainIsAsked, ApplyIsAsked, Next
  PROVE  \/ applied' = applied
         \/ /\ intent # None /\ intent.allowed /\ applied' = applied \cup {intent.gen}
            /\ UNCHANGED <<want, intent, refused>>
<1>1. CASE ReplaceJob BY <1>1 DEF ReplaceJob, InHand, Handling, ApplyIsAsked, GoTo, local, hubVars
<1>2. CASE CreateUnit BY <1>2 DEF CreateUnit, InHand, Handling, ApplyIsAsked, GoTo, local, hubVars
<1>3. CASE DeleteConfigMap BY <1>3 DEF DeleteConfigMap, InHand, Deleting, DrainIsAsked, GoTo, local, hubVars, TypeOK
<1> QED BY <1>1, <1>2, <1>3, Writers

\* Only the intent in hand is refused.
LEMMA RefusedIsInHand ==
  ASSUME InHand, Next
  PROVE  \/ refused' = refused
         \/ /\ intent # None /\ refused' = refused \cup {<<intent.gen, intent.allowed>>}
            /\ UNCHANGED <<want, intent, applied>>
<1>1. CASE Handle BY <1>1 DEF Handle, Refusal, GoTo, InHand, Handling, local, hubVars
<1> QED BY <1>1, Writers

\* The hub makes a new generation, or offers the one it has again.
LEMMA WantedMoves ==
  ASSUME TypeOK, Next
  PROVE  \/ want' = want
         \/ /\ want'.gen \in {want.gen, want.gen + 1}
            /\ want'.gen = want.gen => want'.allowed = want.allowed /\ want'.state = want.state
            /\ UNCHANGED <<intent, applied, refused>>
<1>1. want \in Intents BY DEF TypeOK
<1>2. CASE NewGeneration
  <2>1. want'.gen = want.gen + 1 /\ UNCHANGED <<intent, applied, refused>> BY <1>2 DEF NewGeneration, local, history
  <2>2. want.gen \in Nat BY <1>1 DEF Intents, Gens
  <2> QED BY <2>1, <2>2
<1>3. CASE Expire \/ ExpireEarly
  <2>1. want' = [want EXCEPT !.attempt = @ + 1] /\ UNCHANGED <<intent, applied, refused>>
    BY <1>3 DEF Expire, ExpireEarly, Reoffer, local, history
  <2> QED BY <1>1, <2>1 DEF Intents
<1> QED BY <1>2, <1>3, Writers

\* What is claimed is the newest generation.
LEMMA ClaimedIsWanted ==
  ASSUME Next
  PROVE  \/ intent' \in {intent, None}
         \/ intent' = want /\ UNCHANGED <<want, applied, refused>> BY Writers DEF Claim, Leave, history

\* A generation stays of one mind through every step.
LEMMA GensStep ==
  ASSUME TypeOK, InHand, DrainIsAsked, ApplyIsAsked, PageOK, GensOK, Next
  PROVE  GensOK'
<1>1. TypeOK' BY TypeStep
<1>2. PICK w \in Nat, v \in Nat : w = want.gen /\ v = want'.gen BY <1>1 DEF TypeOK, Intents, Gens
<1>3. intent # None => intent.gen \in Nat BY DEF TypeOK, Intents, Gens
<1>4. (\A g \in applied : g \in Nat) /\ (\A r \in refused : r[1] \in Nat) BY DEF TypeOK, Gens
<1>5. CASE want' = want
  <2>1. CASE applied' = applied /\ refused' = refused
    <3>1. intent' \in {intent, None, want} BY ClaimedIsWanted
    <3>2. intent' # None => OneMind(intent)' /\ intent'.gen <= want'.gen BY <1>2, <1>5, <2>1, <3>1 DEF GensOK, OneMind
    <3>3. OneMind(want)' BY <1>5, <2>1 DEF GensOK, OneMind
    <3>4. /\ \A g \in applied' : g <= want'.gen
          /\ \A r \in refused' : r[1] <= want'.gen BY <1>5, <2>1 DEF GensOK
    <3>5. /\ intent' # None /\ intent'.gen = want'.gen =>
               intent'.allowed = want'.allowed /\ intent'.state = want'.state
          /\ intent' # None /\ intent'.gen # want'.gen => want'.gen \notin applied' BY <1>5, <2>1, <3>1 DEF GensOK
    <3> QED BY <3>2, <3>3, <3>4, <3>5 DEF GensOK
  <2>2. CASE applied' # applied BY <1>5, <2>2, AppliedIsAsked DEF GensOK, OneMind
  <2>3. CASE refused' # refused BY <1>5, <2>3, RefusedIsInHand DEF GensOK, OneMind
  <2> QED BY <2>1, <2>2, <2>3
<1>6. CASE want' # want
  <2>1. /\ v \in {w, w + 1}
        /\ v = w => want'.allowed = want.allowed /\ want'.state = want.state
        /\ UNCHANGED <<intent, applied, refused>> BY <1>2, <1>6, WantedMoves
  <2>2. (\A g \in applied : g <= w) /\ (\A r \in refused : r[1] <= w) BY <1>2 DEF GensOK
  <2>3. intent # None => OneMind(intent) /\ intent.gen <= w BY <1>2 DEF GensOK
  <2>4. CASE v = w BY <1>2, <1>6, <2>1, <2>4 DEF GensOK, OneMind
  <2>5. CASE v = w + 1
    <3>1. v \notin applied /\ (\A b \in BOOLEAN : <<v, b>> \notin refused) BY <1>2, <1>4, <2>2, <2>5
    <3>2. intent # None => intent.gen # v BY <1>2, <1>3, <2>3, <2>5
    <3>3. (\A g \in applied : g <= v) /\ (\A r \in refused : r[1] <= v) BY <1>2, <1>4, <2>2, <2>5
    <3>4. intent # None => intent.gen <= v BY <1>2, <1>3, <2>3, <2>5
    <3>5. OneMind(want)' BY <1>2, <2>1, <3>1 DEF OneMind
    <3>6. intent # None => OneMind(intent)' BY <2>1, <2>3 DEF OneMind
    <3> QED BY <1>2, <2>1, <3>1, <3>2, <3>3, <3>4, <3>5, <3>6 DEF GensOK, OneMind
  <2> QED BY <2>1, <2>4, <2>5
<1> QED BY <1>5, <1>6

\* What is acknowledged, or waits to be, stays applied or refused.
LEMMA AckedStep ==
  ASSUME TypeOK, InHand, DrainIsAsked, ApplyIsAsked, PageOK, GensOK, Settled, AckedIsApplied, Next
  PROVE  AckedIsApplied'
<1>. DEFINE settled == applied \cup {r[1] : r \in refused}
<1>1. settled \subseteq settled' BY AppliedIsAsked, RefusedIsInHand
<1>2. /\ acked \subseteq settled
      /\ pending # None => pending.gen \in settled BY DEF AckedIsApplied
<1>3. CASE Ack
  <2>1. intent.gen \in settled BY <1>3 DEF Ack, Settled
  <2>2. /\ acked' \subseteq acked \cup {intent.gen} /\ pending' \in {None, intent, pending}
        /\ applied' = applied /\ refused' = refused BY <1>3 DEF Ack, TakeAck
  <2> QED BY <1>2, <2>1, <2>2 DEF AckedIsApplied
<1>4. CASE RetryAcks
  <2>1. /\ acked' \subseteq acked \cup (IF pending = None THEN {} ELSE {pending.gen})
        /\ pending' \in {None, pending} /\ applied' = applied /\ refused' = refused BY <1>4 DEF RetryAcks, TakeAck
  <2> QED BY <1>2, <2>1 DEF AckedIsApplied
<1>5. \A g \in applied' : <<g, FALSE>> \notin refused'
  <2>1. \A g \in applied : <<g, FALSE>> \notin refused BY DEF AckedIsApplied
  <2>2. CASE applied' # applied BY <2>1, <2>2, AppliedIsAsked DEF GensOK, OneMind
  <2>3. CASE refused' # refused
    <3>1. /\ intent # None /\ refused' = refused \cup {<<intent.gen, intent.allowed>>}
          /\ applied' = applied BY <2>3, RefusedIsInHand
    <3>2. intent.gen \in applied => intent.allowed BY <3>1 DEF GensOK, OneMind
    <3>3. ASSUME NEW g \in applied, <<g, FALSE>> \in refused' PROVE FALSE
      <4>1. <<g, FALSE>> = <<intent.gen, intent.allowed>> BY <2>1, <3>1, <3>3
      <4>2. g = intent.gen /\ intent.allowed = FALSE BY <4>1
      <4> QED BY <3>2, <3>3, <4>2
    <3> QED BY <3>1, <3>3
  <2> QED BY <2>1, <2>2, <2>3
<1>6. CASE acked' = acked /\ pending' \in {pending, None} BY <1>1, <1>2, <1>5, <1>6 DEF AckedIsApplied
<1> QED BY <1>3, <1>4, <1>6, Writers DEF Restart

------------------------
(* What the cluster has *)

\* What has been applied stays in effect through every step.
LEMMA EffectStep ==
  ASSUME TypeOK, InHand, DrainIsAsked, ApplyIsAsked, PageOK, GensOK, InEffect, Next
  PROVE  InEffect'
<1>1. class' = class /\ class \in {"ephemeral", "persistent"} BY Writers DEF TypeOK
<1>2. CASE want' # want
  <2>1. UNCHANGED <<unit, profile, applied>>
    BY <1>2, Writers DEF NewGeneration, Expire, ExpireEarly, Reoffer, clusterVars, history
  <2>2. CASE want'.gen = want.gen
    <3>1. want'.state = want.state BY <1>2, <2>2, WantedMoves
    <3> QED BY <1>1, <2>1, <2>2, <3>1 DEF InEffect, Leaves
  <2>3. CASE want'.gen # want.gen
    <3>1. PICK w \in Nat : w = want.gen BY DEF TypeOK, Intents, Gens
    <3>2. want'.gen = w + 1 BY <1>2, <2>3, <3>1, WantedMoves
    <3>3. \A g \in applied : g \in Nat /\ g <= w BY <3>1 DEF GensOK, TypeOK, Gens
    <3>4. w + 1 \notin applied BY <3>3
    <3> QED BY <2>1, <3>2, <3>4 DEF InEffect
  <2> QED BY <2>2, <2>3
<1>3. ASSUME want' = want, want.gen \in applied, intent # None
      PROVE  intent.gen = want.gen /\ intent.state = want.state BY <1>3 DEF GensOK
<1>4. ASSUME want' = want, want.gen = intent.gen, intent # None
      PROVE  intent.state = want.state BY <1>4 DEF GensOK
<1>5. unit # None => unit \in Units BY DEF TypeOK
<1>6. CASE ReplaceJob
  <2>1. /\ intent # None /\ ~Leaves(intent) /\ intent.state # "deleted"
        /\ class = "ephemeral" /\ want' = want /\ profile' = profile
        /\ unit # None => profile = unit.gen BY <1>6 DEF ReplaceJob, InHand, Handling, ApplyIsAsked, hubVars
  <2>2. \/ /\ unit # None /\ unit.gen = intent.gen /\ unit' = unit
           /\ applied' = applied \cup {intent.gen}
        \/ unit' = None /\ applied' = applied BY <1>6 DEF ReplaceJob
  <2> QED BY <1>1, <1>3, <1>4, <2>1, <2>2 DEF InEffect, Leaves
<1>7. CASE PutConfigMap
  <2>1. /\ intent # None /\ ~Leaves(intent) /\ intent.state # "deleted"
        /\ class = "ephemeral" => unit = None
        /\ want' = want /\ profile' = intent.gen /\ UNCHANGED <<unit, applied>>
    BY <1>7 DEF PutConfigMap, InHand, Handling, ApplyIsAsked, hubVars, history
  <2> QED BY <1>1, <1>3, <2>1 DEF InEffect, Leaves
<1>8. CASE CreateUnit
  <2>1. /\ intent # None /\ ~Leaves(intent) /\ intent.state # "deleted"
        /\ profile = intent.gen
        /\ want' = want /\ profile' = profile /\ applied' = applied \cup {intent.gen}
    BY <1>8 DEF CreateUnit, InHand, Handling, ApplyIsAsked, hubVars
  <2>2. /\ unit' # None /\ unit'.gen = intent.gen
        /\ (unit'.phase = "stopped") = (intent.state = "stopped")
    <3>1. CASE UpToDate(intent) BY <1>8, <3>1 DEF CreateUnit, UpToDate
    <3>2. CASE ~UpToDate(intent)
      <4>1. unit' = [gen |-> intent.gen,
                     phase |-> IF intent.state = "stopped" THEN "stopped" ELSE "pending"] BY <1>8, <3>2 DEF CreateUnit
      <4>2. intent.gen \in Gens BY <2>1 DEF TypeOK, Intents
      <4>3. unit' \in Units BY <4>1, <4>2 DEF Units, Phases
      <4> QED BY <4>1, <4>3, NoneAssumption
    <3> QED BY <3>1, <3>2
  <2> QED BY <1>1, <1>3, <1>4, <2>1, <2>2 DEF InEffect, Leaves
<1>9. CASE DeleteUnit
  <2>1. /\ unit' = None /\ want' = want /\ UNCHANGED <<profile, applied>>
        /\ \/ intent # None /\ (intent.state = "deleted" \/ Leaves(intent))
           \/ class = "ephemeral" BY <1>9 DEF DeleteUnit, InHand, Deleting, DrainIsAsked, TypeOK, hubVars
  <2> QED BY <1>1, <1>3, <2>1 DEF InEffect, Leaves
<1>10. CASE DeleteConfigMap
  <2>1. unit = None /\ unit' = None /\ profile' = 0 /\ want' = want
    BY <1>10 DEF DeleteConfigMap, ApplyIsAsked, hubVars
  <2>2. \/ /\ intent # None /\ (intent.state = "deleted" \/ Leaves(intent))
           /\ applied' = applied \cup {intent.gen}
        \/ class = "ephemeral" /\ applied' = applied
    BY <1>10 DEF DeleteConfigMap, InHand, Deleting, DrainIsAsked, TypeOK
  <2> QED BY <1>1, <1>3, <1>4, <2>1, <2>2 DEF InEffect, Leaves
<1>11. CASE PodStarts \/ PodEnds
  <2>1. /\ (unit.phase # "stopped" \/ class = "ephemeral")
        /\ unit # None /\ unit' # None /\ unit'.gen = unit.gen
        /\ unit'.phase # "stopped"
    <3>1. unit \in Units BY <1>5, <1>11 DEF PodStarts, PodEnds
    <3>2. \E p \in {"running", "failed", "pending"} : unit' = [unit EXCEPT !.phase = p]
      BY <1>11 DEF PodStarts, PodEnds
    <3>3. unit' \in Units /\ unit'.gen = unit.gen /\ unit'.phase # "stopped" BY <3>1, <3>2 DEF Units, Phases
    <3>4. unit.phase # "stopped" \/ class = "ephemeral" BY <1>11 DEF PodStarts, PodEnds
    <3> QED BY <3>1, <3>3, <3>4, NoneAssumption
  <2>2. UNCHANGED <<want, profile, applied>> BY <1>11 DEF PodStarts, PodEnds, hubVars, history
  <2> QED BY <1>1, <2>1, <2>2 DEF InEffect, Leaves
<1>12. CASE UNCHANGED <<want, unit, profile, applied>> BY <1>1, <1>12 DEF InEffect, Leaves
<1> QED BY <1>2, <1>6, <1>7, <1>8, <1>9, <1>10, <1>11, <1>12, Writers

------------------------
(* The end of a Job *)

\* An acknowledgement is left only by being made, or by a restart.
LEMMA AckIsLeft ==
  ASSUME TRUE, Next
  PROVE  at = "ack" => at' = "ack" \/ Ack \/ Restart
<1>. USE DEF NoPage
<1>1. CASE Recover BY <1>1 DEF Recover, Fault, NoFault, Adopted, IsOpen, hubVars, clusterVars, local, history
<1>2. CASE BeginTick BY <1>2 DEF BeginTick, Fault, NoFault, Adopted, IsOpen, hubVars, clusterVars, local, history
<1>3. CASE Claim BY <1>3 DEF Claim, NoFault, Fault, Leave, clusterVars, memory, history
<1>4. CASE Handle BY <1>4 DEF Handle, Refusal, GoTo, Drain, MayBeLate, Leaves, hubVars, clusterVars, memory,
    local, counts
<1>5. CASE Refuse BY <1>5 DEF Refuse, Report, NoFault, Fault, GoTo, Leave, hubVars, clusterVars, memory,
    local, history
<1>6. CASE ApplyFails BY <1>6 DEF ApplyFails, Fault, Unapplied, Leave, hubVars, clusterVars, memory, history
<1>7. CASE ReplaceJob BY <1>7 DEF ReplaceJob, NoFault, GoTo, Gone, hubVars, memory, local
<1>8. CASE PutConfigMap BY <1>8 DEF PutConfigMap, NoFault, GoTo, hubVars, memory, local, history
<1>9. CASE CreateUnit BY <1>9 DEF CreateUnit, NoFault, UpToDate, Interrupted, GoTo, hubVars, memory, local
<1>10. CASE DeleteUnit BY <1>10 DEF DeleteUnit, NoFault, Gone, GoTo, hubVars, memory, local
<1>11. CASE DeleteConfigMap BY <1>11 DEF DeleteConfigMap, NoFault, Leave, GoTo, hubVars, local
<1>12. CASE DeleteFails BY <1>12 DEF DeleteFails, Fault, Leave, hubVars, clusterVars, memory, history
<1>13. CASE Ack BY <1>13 DEF Ack, NoFault, Fault, TakeAck, Holds, TrackedNow, Leave, GoTo, clusterVars, local
<1>14. CASE Say BY <1>14 DEF Say, Report, NoFault, Fault, GoTo, Leave, hubVars, clusterVars, memory, local,
    history
<1>15. CASE ReportStatus BY <1>15 DEF ReportStatus, StatusIsTold, StatusIsLost, StatusIsSkipped, NoFault, Fault,
    Leave, Status, Reported, clusterVars, history
<1>16. CASE RetryAcks BY <1>16 DEF RetryAcks, NoFault, Fault, GoTo, TakeAck, Holds, clusterVars, local
<1>17. CASE Watch BY <1>17 DEF Watch, NoFault, Fault, Status, Reported, Drain, GoTo, StatusIsLost,
    StatusIsSkipped, Leave, clusterVars, local, history
<1>18. CASE WatchNothing BY <1>18 DEF WatchNothing, GoTo, hubVars, clusterVars, memory, local, counts, history
<1>19. CASE Deliver BY <1>19 DEF Deliver, Reachable, GoTo, hubVars, local, counts, history
<1>20. CASE BeginPump BY <1>20 DEF BeginPump, NoFault, Reachable, GoTo, PumpOver, hubVars, clusterVars, local,
    history
<1>21. CASE AgentFails BY <1>21 DEF AgentFails, Answers, Reachable, NoFault, Fault, PumpOver, hubVars, clusterVars,
    history
<1>22. CASE ReadPage BY <1>22 DEF ReadPage, PageEnd, Answers, Reachable, hubVars, clusterVars, memory, counts,
    history
<1>23. CASE PushPage BY <1>23 DEF PushPage, Answers, Reachable, NoFault, Pushed, PumpOver, clusterVars, history
<1>24. CASE PushTooLarge BY <1>24 DEF PushTooLarge, Answers, Reachable, Fault, PumpOver, hubVars, clusterVars, history
<1>25. CASE PushFails BY <1>25 DEF PushFails, Answers, Reachable, Fault, Leave, UnansweredPush, Pushed, PumpOver,
    clusterVars, history
<1>26. CASE ReadRecord BY <1>26 DEF ReadRecord, Answers, Reachable, NoFault, IsStopped, OnceStopped, PumpOver,
    hubVars, clusterVars, history
<1>27. CASE PushFinal BY <1>27 DEF PushFinal, NoFault, PumpOver, clusterVars
<1>28. CASE NewGeneration BY <1>28 DEF NewGeneration, clusterVars, memory, local, counts, history
<1>29. CASE Expire BY <1>29 DEF Expire, NoFault, Reoffer, clusterVars, memory, local, history
<1>30. CASE ExpireEarly BY <1>30 DEF ExpireEarly, Fault, Reoffer, clusterVars, memory, local, history
<1>31. CASE PodStarts BY <1>31 DEF PodStarts, hubVars, memory, local, counts, history
<1>32. CASE PodEnds BY <1>32 DEF PodEnds, NoFault, Fault, Interrupted, hubVars, memory, local, history
<1>33. CASE Append BY <1>33 DEF Append, hubVars, memory, local, counts, history
<1>34. CASE RunStops BY <1>34 DEF RunStops, hubVars, memory, local, counts, history
<1>35. CASE Restart BY <1>35 DEF Restart, Leave, hubVars, clusterVars, history
<1> QED BY <1>1, <1>2, <1>3, <1>4, <1>5, <1>6, <1>7, <1>8, <1>9, <1>10, <1>11, <1>12, <1>13, <1>14,
    <1>15, <1>16, <1>17, <1>18, <1>19, <1>20, <1>21, <1>22, <1>23, <1>24, <1>25, <1>26, <1>27,
    <1>28, <1>29, <1>30, <1>31, <1>32, <1>33, <1>34, <1>35 DEF Next, Tick, HandleIntent, Pump, World

\* Only the watch starts the drain of an ended Job, having told the hub of its end.
LEMMA EndIsAsked ==
  ASSUME InHand, Next
  PROVE  back' = "end" =>
           \/ back = "end"
           \/ /\ Watch /\ class = "ephemeral" /\ Status = "failed"
              /\ tracked' = [tracked EXCEPT !.last = "failed"]
              /\ \/ told' = [gen |-> tracked.gen, phase |-> "failed"]
                 \/ told' = told /\ tracked.last = "failed"
<1>. USE DEF NoPage
<1>1. CASE Recover BY <1>1 DEF Recover, Fault, NoFault, Adopted, IsOpen, hubVars, clusterVars, local, history
<1>2. CASE BeginTick BY <1>2 DEF BeginTick, Fault, NoFault, Adopted, IsOpen, hubVars, clusterVars, local, history
<1>3. CASE Claim BY <1>3 DEF Claim, NoFault, Fault, Leave, clusterVars, memory, history
<1>4. CASE Handle BY <1>4 DEF Handle, Refusal, GoTo, Drain, MayBeLate, Leaves, hubVars, clusterVars, memory,
    local, counts
<1>5. CASE Refuse BY <1>5 DEF Refuse, Report, NoFault, Fault, GoTo, Leave, hubVars, clusterVars, memory,
    local, history
<1>6. CASE ApplyFails BY <1>6 DEF ApplyFails, Fault, Unapplied, Leave, hubVars, clusterVars, memory, history
<1>7. CASE ReplaceJob BY <1>7 DEF ReplaceJob, NoFault, GoTo, Gone, hubVars, memory, local
<1>8. CASE PutConfigMap BY <1>8 DEF PutConfigMap, NoFault, GoTo, hubVars, memory, local, history
<1>9. CASE CreateUnit BY <1>9 DEF CreateUnit, NoFault, UpToDate, Interrupted, GoTo, hubVars, memory, local
<1>10. CASE DeleteUnit BY <1>10 DEF DeleteUnit, NoFault, Gone, GoTo, hubVars, memory, local
<1>11. CASE DeleteConfigMap BY <1>11 DEF DeleteConfigMap, NoFault, Leave, GoTo, hubVars, local
<1>12. CASE DeleteFails BY <1>12 DEF DeleteFails, Fault, Leave, hubVars, clusterVars, memory, history
<1>13. CASE Ack BY <1>13 DEF Ack, NoFault, Fault, TakeAck, Holds, TrackedNow, Leave, GoTo, clusterVars, local
<1>14. CASE Say BY <1>14 DEF Say, Report, NoFault, Fault, GoTo, Leave, hubVars, clusterVars, memory, local,
    history
<1>15. CASE ReportStatus BY <1>15 DEF ReportStatus, StatusIsTold, StatusIsLost, StatusIsSkipped, NoFault, Fault,
    Leave, Status, Reported, clusterVars, history
<1>16. CASE RetryAcks BY <1>16 DEF RetryAcks, NoFault, Fault, GoTo, TakeAck, Holds, clusterVars, local
<1>17. CASE Watch BY <1>17 DEF Watch, NoFault, Fault, Status, Reported, Drain, GoTo, StatusIsLost,
    StatusIsSkipped, Leave, clusterVars, local, history
<1>18. CASE WatchNothing BY <1>18 DEF WatchNothing, GoTo, hubVars, clusterVars, memory, local, counts, history
<1>19. CASE Deliver BY <1>19 DEF Deliver, Reachable, GoTo, hubVars, local, counts, history
<1>20. CASE BeginPump BY <1>20 DEF BeginPump, NoFault, Reachable, GoTo, PumpOver, hubVars, clusterVars, local,
    history
<1>21. CASE AgentFails BY <1>21 DEF AgentFails, Answers, Reachable, NoFault, Fault, PumpOver, hubVars, clusterVars,
    history
<1>22. CASE ReadPage BY <1>22 DEF ReadPage, PageEnd, Answers, Reachable, hubVars, clusterVars, memory, counts,
    history
<1>23. CASE PushPage BY <1>23 DEF PushPage, Answers, Reachable, NoFault, Pushed, PumpOver, clusterVars, history
<1>24. CASE PushTooLarge BY <1>24 DEF PushTooLarge, Answers, Reachable, Fault, PumpOver, hubVars, clusterVars, history
<1>25. CASE PushFails BY <1>25 DEF PushFails, Answers, Reachable, Fault, Leave, UnansweredPush, Pushed, PumpOver,
    clusterVars, history
<1>26. CASE ReadRecord BY <1>26 DEF ReadRecord, Answers, Reachable, NoFault, IsStopped, OnceStopped, PumpOver,
    hubVars, clusterVars, history
<1>27. CASE PushFinal BY <1>27 DEF PushFinal, NoFault, PumpOver, clusterVars
<1>28. CASE NewGeneration BY <1>28 DEF NewGeneration, clusterVars, memory, local, counts, history
<1>29. CASE Expire BY <1>29 DEF Expire, NoFault, Reoffer, clusterVars, memory, local, history
<1>30. CASE ExpireEarly BY <1>30 DEF ExpireEarly, Fault, Reoffer, clusterVars, memory, local, history
<1>31. CASE PodStarts BY <1>31 DEF PodStarts, hubVars, memory, local, counts, history
<1>32. CASE PodEnds BY <1>32 DEF PodEnds, NoFault, Fault, Interrupted, hubVars, memory, local, history
<1>33. CASE Append BY <1>33 DEF Append, hubVars, memory, local, counts, history
<1>34. CASE RunStops BY <1>34 DEF RunStops, hubVars, memory, local, counts, history
<1>35. CASE Restart BY <1>35 DEF Restart, Leave, hubVars, clusterVars, history
<1> QED BY <1>1, <1>2, <1>3, <1>4, <1>5, <1>6, <1>7, <1>8, <1>9, <1>10, <1>11, <1>12, <1>13, <1>14,
    <1>15, <1>16, <1>17, <1>18, <1>19, <1>20, <1>21, <1>22, <1>23, <1>24, <1>25, <1>26, <1>27,
    <1>28, <1>29, <1>30, <1>31, <1>32, <1>33, <1>34, <1>35 DEF Next, Tick, HandleIntent, Pump, World

\* The hub stays told of a Job whose end the spoke has noted.
LEMMA FailedStep ==
  ASSUME TypeOK, InHand, DrainIsAsked, ApplyIsAsked, FailedIsTold, Next
  PROVE  FailedIsTold'
<1>. DEFINE Told == [gen |-> tracked.gen, phase |-> "failed"]
            Noted == tracked # None /\ tracked.last = "failed"
<1>1. class' = class BY Writers
<1>2. None # "failed" /\ None \notin Trackings /\ None \notin Units /\ "failed" # "absent"
  BY NoneAssumption DEF Reports, Phases
<1>3. /\ tracked # None => tracked \in Trackings
      /\ unit # None => unit \in Units
      /\ intent # None => intent \in Intents BY DEF TypeOK
<1>4. /\ class = "ephemeral" /\ Noted /\ unit # None /\ at # "ack" =>
           unit.phase = "failed" /\ told = Told
      /\ back = "end" /\ unit # None => told = Told BY DEF FailedIsTold
<1>5. CASE ReportStatus \/ Watch
  <2>. DEFINE Said == [gen |-> tracked.gen, phase |-> Status]
              Marked == [tracked EXCEPT !.last = Status]
  <2>1. /\ tracked # None /\ unit' = unit /\ at # "ack" /\ back = "idle"
    BY <1>5 DEF ReportStatus, Watch, InHand, Deleting, Relaying, clusterVars, TypeOK
  <2>2. Status = (IF unit = None THEN "absent" ELSE unit.phase) BY DEF Status
  <2>3. Marked.last = Status /\ Marked.gen = tracked.gen
    <3>1. tracked \in Trackings BY <1>3, <2>1
    <3> QED BY <3>1 DEF Trackings
  <2>4. \/ tracked' = None
        \/ tracked' = tracked /\ told' \in {told, Said}
        \/ tracked' = Marked /\ (told' = Said \/ (told' = told /\ Status = tracked.last))
    BY <1>5 DEF ReportStatus, Watch, StatusIsTold, StatusIsLost, StatusIsSkipped, Reported
  <2>5. tracked' # None /\ tracked'.last = "failed" /\ unit # None /\ class = "ephemeral" =>
          unit.phase = "failed" /\ told' = [gen |-> tracked'.gen, phase |-> "failed"] BY <1>4, <2>1, <2>2, <2>3, <2>4
  <2>6. back' = "end" /\ unit # None => told' = [gen |-> tracked'.gen, phase |-> "failed"]
    <3>1. SUFFICES ASSUME back' = "end", unit # None
                   PROVE  told' = [gen |-> tracked'.gen, phase |-> "failed"] OBVIOUS
    <3>2. /\ class = "ephemeral" /\ Status = "failed"
          /\ tracked' = Marked
          /\ told' = Told \/ (told' = told /\ tracked.last = "failed") BY <2>1, <3>1, EndIsAsked
    <3> QED BY <1>4, <2>1, <2>3, <3>1, <3>2
  <2> QED BY <1>1, <2>1, <2>5, <2>6 DEF FailedIsTold
<1>6. CASE UNCHANGED <<told, tracked>> /\ ~ReportStatus /\ ~Watch
  <2>1. \/ unit' \in {None, unit}
        \/ CreateUnit
        \/ PodStarts \/ PodEnds BY Writers DEF ReplaceJob, DeleteUnit
  <2>2. ASSUME unit' \in {None, unit} PROVE FailedIsTold'
    <3>1. at = "ack" => at' = "ack" \/ tracked' = None \/ tracked'.last # "failed" \/ unit' = None
      <4>1. CASE Ack /\ at = "ack"
        <5>1. back \in {"stop", "delete"} => unit = None BY <4>1 DEF ApplyIsAsked
        <5>2. intent # None /\ intent \in Intents BY <1>3, <4>1 DEF InHand, Handling
        <5> QED BY <1>2, <2>2, <4>1, <5>1, <5>2 DEF Ack, TrackedNow, clusterVars
      <4>2. CASE Restart BY <4>2 DEF Restart
      <4> QED BY <4>1, <4>2, AckIsLeft
    <3>2. back' = "end" => back = "end" BY <1>6, EndIsAsked
    <3> QED BY <1>1, <1>4, <1>6, <2>2, <3>1, <3>2 DEF FailedIsTold
  <2>3. ASSUME CreateUnit PROVE FailedIsTold'
    <3>1. at' = "ack" /\ back' = "idle" BY <2>3 DEF CreateUnit, GoTo, local, InHand, Deleting, Relaying
    <3> QED BY <3>1 DEF FailedIsTold
  <2>4. ASSUME PodStarts \/ PodEnds PROVE FailedIsTold'
    <3>1. unit # None /\ (class = "ephemeral" => unit.phase # "failed") /\ at' = at /\ back' = back
      BY <2>4 DEF PodStarts, PodEnds, local
    <3> QED BY <1>1, <1>4, <1>6, <3>1 DEF FailedIsTold
  <2> QED BY <2>1, <2>2, <2>3, <2>4
<1>7. CASE Recover \/ DeleteConfigMap \/ Ack \/ Restart
  <2>1. told' = told /\ unit' = unit BY <1>7 DEF Recover, DeleteConfigMap, Ack, Restart, hubVars, clusterVars
  <2>2. back' = "end" => back = "end" BY <1>7, EndIsAsked DEF Recover, DeleteConfigMap, Ack, Restart, Leave, Watch
  <2>3. CASE Recover \/ Restart
    <3>2. CASE Restart BY <3>2, <2>1, <2>2 DEF Restart, Leave, FailedIsTold
    <3>3. CASE Recover
      <4>1. back = "idle" /\ at # "ack" BY <3>3 DEF Recover, InHand, Deleting, Relaying
      <4>2. tracked' \in {None, tracked} \/ tracked'.last = None BY <3>3 DEF Recover
      <4> QED BY <1>1, <1>2, <1>4, <2>1, <2>2, <4>1, <4>2 DEF FailedIsTold
    <3> QED BY <2>3, <3>2, <3>3
  <2>4. CASE DeleteConfigMap
    <3>1. unit = None BY <2>4 DEF DeleteConfigMap, ApplyIsAsked
    <3> QED BY <2>1, <3>1 DEF FailedIsTold
  <2>5. CASE Ack
    <3>1. intent # None /\ back # "end" BY <2>5 DEF Ack, InHand, Handling, DrainIsAsked
    <3>2. CASE at = "refused"
      <4>1. back = "idle" BY <3>2 DEF InHand, Deleting, Relaying
      <4>2. tracked' \in {None, tracked} BY <2>5, <3>2, <4>1 DEF Ack, TrackedNow
      <4> QED BY <1>1, <1>4, <2>1, <2>2, <3>1, <3>2, <4>2 DEF FailedIsTold
    <3>3. CASE at = "ack" /\ back # "idle"
      <4>1. unit = None BY <3>3 DEF ApplyIsAsked
      <4> QED BY <2>1, <4>1 DEF FailedIsTold
    <3>4. CASE at = "ack" /\ back = "idle"
      <4>1. tracked' = None \/ tracked'.last = None BY <2>5, <3>4 DEF Ack, TrackedNow
      <4> QED BY <1>2, <2>2, <3>4, <4>1 DEF FailedIsTold
    <3> QED BY <2>5, <3>2, <3>3, <3>4 DEF Ack
  <2> QED BY <1>7, <2>3, <2>4, <2>5
<1> QED BY <1>5, <1>6, <1>7, Writers

------------------------
(* The theorems *)

\* A step that changes nothing keeps the invariant.
LEMMA Stutter ==
  ASSUME IInv, UNCHANGED vars
  PROVE  IInv'
<1>. USE DEF vars, hubVars, clusterVars, memory, local, counts, history
<1>1. TypeOK' BY DEF IInv, TypeOK
<1>2. InHand' /\ DrainIsAsked' /\ ApplyIsAsked' BY DEF IInv, InHand, DrainIsAsked, ApplyIsAsked, Leaves
<1>3. NoGap' /\ PageOK' /\ FinalIsComplete' BY DEF IInv, NoGap, PageOK, FinalIsComplete
<1>4. GensOK' /\ Settled' BY DEF IInv, GensOK, Settled, OneMind
<1>5. AckedIsApplied' BY DEF IInv, AckedIsApplied
<1>6. InEffect' BY DEF IInv, InEffect, Leaves
<1>7. FailedIsTold' BY DEF IInv, FailedIsTold
<1> QED BY <1>1, <1>2, <1>3, <1>4, <1>5, <1>6, <1>7 DEF IInv

\* The invariant holds before the first step.
LEMMA InitInv == Init => IInv
<1>. SUFFICES ASSUME Init PROVE IInv OBVIOUS
<1>. USE NoneAssumption, BoundsAssumption DEF Init
<1>1. TypeOK
  <2>1. page \in [to : 0 .. MaxLog, more : BOOLEAN, pages : 0 .. MaxPages, stopped : BOOLEAN] BY DEF NoPage
  <2>2. want \in Intents OBVIOUS
  <2>3. /\ profile \in 0 .. MaxGen /\ cursor \in 0 .. MaxLog /\ log \in 0 .. MaxLog
        /\ faults \in 0 .. MaxFaults /\ restarts \in 0 .. MaxRestarts OBVIOUS
  <2>4. /\ applied \subseteq Gens /\ refused \subseteq Gens \X BOOLEAN /\ acked \subseteq Gens
        /\ at \in Places BY DEF Places
  <2>5. /\ class \in {"ephemeral", "persistent"} /\ lease = "offered" /\ run = "none"
        /\ finished = FALSE /\ letGo = FALSE /\ back = "idle"
        /\ told = None /\ unit = None /\ tracked = None /\ relay = None /\ pending = None
        /\ intent = None OBVIOUS
  <2>. HIDE DEF Init
  <2> QED BY <2>1, <2>2, <2>3, <2>4, <2>5 DEF TypeOK
<1>2. InHand /\ DrainIsAsked /\ ApplyIsAsked BY DEF InHand, DrainIsAsked, ApplyIsAsked, Handling, Deleting, Relaying
<1>3. NoGap /\ PageOK /\ FinalIsComplete BY DEF NoGap, PageOK, FinalIsComplete, NoPage
<1>4. GensOK /\ Settled BY DEF GensOK, Settled, OneMind
<1>5. AckedIsApplied BY DEF AckedIsApplied
<1>6. InEffect /\ FailedIsTold BY DEF InEffect, FailedIsTold
<1> QED BY <1>1, <1>2, <1>3, <1>4, <1>5, <1>6 DEF IInv

\* Every step keeps the invariant.
LEMMA StepInv == IInv /\ [Next]_vars => IInv'
<1>. SUFFICES ASSUME IInv, Next PROVE IInv' BY Stutter
<1>1. /\ TypeOK' /\ InHand' /\ DrainIsAsked' /\ ApplyIsAsked' BY TypeStep, HandStep, DrainStep, ApplyStep DEF IInv
<1>2. NoGap' /\ PageOK' /\ FinalIsComplete' BY PageStep DEF IInv
<1>3. GensOK' /\ Settled' /\ AckedIsApplied' BY GensStep, SettledStep, AckedStep DEF IInv
<1>4. InEffect' /\ FailedIsTold' BY EffectStep, FailedStep DEF IInv
<1> QED BY <1>1, <1>2, <1>3, <1>4 DEF IInv

\* The invariant holds however calls fail and the spoke restarts.
THEOREM Invariance == Spec => []IInv
BY InitInv, StepInv, PTL DEF Spec

\* Every variable of the loop, the hub and the cluster keeps its type.
THEOREM TypeCorrect == Spec => []TypeOK
<1>1. IInv => TypeOK BY DEF IInv
<1> QED BY <1>1, Invariance, PTL

\* No event is skipped on its way to the hub, only what was applied or refused is
\* acknowledged, what is acknowledged is in effect in the cluster, and a run let go as
\* stopped has all its events at the hub (handle_intent, _ack, _relay, _pump).
THEOREM TheHubIsToldTheTruth == Spec => []HubIsToldTheTruth
<1>1. IInv => HubIsToldTheTruth BY DEF IInv, HubIsToldTheTruth, InEffect, AckedIsInEffect
<1> QED BY <1>1, Invariance, PTL

\* The watch deletes an ended Job only once the hub has taken the report of its end.
THEOREM EndsAreReported == Spec => ReportedBeforeDeleted
<1>1. ASSUME IInv, Next, unit # None, unit' = None, back = "end"
      PROVE  told # None /\ told.phase = "failed" /\ told.gen = tracked.gen
  <2>1. told = [gen |-> tracked.gen, phase |-> "failed"] BY <1>1 DEF IInv, FailedIsTold
  <2>2. tracked # None BY <1>1 DEF IInv, DrainIsAsked
  <2>3. tracked.gen \in Gens BY <1>1, <2>2 DEF IInv, TypeOK, Trackings
  <2>4. told \in Observations BY <2>1, <2>3 DEF Observations, Reports, Phases
  <2> QED BY <2>1, <2>4, NoneAssumption
<1>2. IInv /\ [Next]_vars =>
        [unit # None /\ unit' = None /\ back = "end"
           => told # None /\ told.phase = "failed" /\ told.gen = tracked.gen]_vars BY <1>1
<1> QED BY <1>2, Invariance, PTL DEF Spec, ReportedBeforeDeleted
========================
