------------ MODULE SpokeProofs ------------
(***************************************************************************)
(* Proofs about what a spoke brings to its agents (MCSpoke), for every     *)
(* value of the constants: the deliveries, then the model tokens.          *)
(***************************************************************************)
EXTENDS MCSpoke, FiniteSetTheorems, TLAPS

------------------------
(* The deliveries (SpokeDelivery).                                         *)
(*                                                                         *)
(* The inductive invariant IInv says what the loop knows at each point of  *)
(* a tick, what a delivery that must not be sent twice leaves behind, and  *)
(* that a verdict is true wherever it is kept: in `pending_settles`, in    *)
(* `sent_once`, on its way to the hub, and at the hub.                     *)

(* Claimed deliveries are handled in one phase of the tick, which no       *)
(* outstanding settle survives into. A workload that exists is tracked.    *)
TickOrder ==
  /\ pc # "deliver" => batch = {} /\ now = {}
  /\ pc \in {"deliver", "results"} => \A d \in Deliveries : pending[d] = NoVerdict
  /\ pc = "settles" => todo = {d \in Deliveries : pending[d] # NoVerdict}
  /\ \A e \in now : e.of \notin batch
  /\ workload => tracked

(* A delivery still to be handled is leased, or its lease ran out. *)
BatchUnsettled == \A d \in batch : hub[d] \in {"leased", "queued", "uncertain"}

(* A resume or abandon that took effect is remembered, or has been         *)
(* forgotten; and if it is offered or claimed, it was offered again.       *)
SentOnceKnown ==
  /\ \A e \in Recalled : Once(e.of)
  /\ \A d \in Deliveries : Once(d) /\ Taken(d) =>
       /\ Remembered(d) \/ d \in forgotten
       /\ hub[d] = "queued" \/ d \in batch => d \in reoffered
  /\ \A d \in batch : Once(d) /\ hub[d] = "queued" => d \in reoffered

(* What a verdict claims of a delivery. *)
Holds(d, v) ==
  /\ v = "accepted" => Taken(d)
  /\ v = "rejected" => ~Taken(d) \/ (IF Once(d) THEN d \in forgotten ELSE ~workload)

VerdictsHold ==
  /\ \A d \in Deliveries : Holds(d, hub[d]) /\ Holds(d, pending[d])
  /\ \A e \in now \cup Recalled : Holds(e.of, e.verdict)
  /\ \A d \in Deliveries : Taken(d) => kind[d] # "malformed"

(* The reply of a turn is on its way, or there, or a restart lost it. *)
ReplyKnown(d) ==
  kind[d] = "turn" /\ workload => d \in replied \cup results \cup cut

RepliesKnown ==
  /\ \A d \in Deliveries : "accepted" \in {hub[d], pending[d]} => ReplyKnown(d)
  /\ \A e \in now : e.verdict = "accepted" => ReplyKnown(e.of)

IInv ==
  /\ TypeOK
  /\ TickOrder
  /\ BatchUnsettled
  /\ SentOnceKnown
  /\ VerdictsHold
  /\ RepliesKnown

------------------------
(* Data. *)

\* A sequence without its first element.
LEMMA TailIs ==
  ASSUME NEW S, NEW s \in Seq(S), s # << >>
  PROVE  /\ Tail(s) \in Seq(S) /\ Len(Tail(s)) = Len(s) - 1
         /\ \A i \in 1 .. Len(s) - 1 : Tail(s)[i] = s[i + 1]
         /\ Head(s) = s[1] /\ Head(s) \in S OBVIOUS

(* An entry is a delivery and a verdict. *)
LEMMA EntryFields ==
  /\ \A d \in Deliveries, v \in Verdicts :
       Entry(d, v) \in Entries /\ Entry(d, v).of = d /\ Entry(d, v).verdict = v
  /\ \A e \in Entries : e.of \in Deliveries /\ e.verdict \in Verdicts BY DEF Entry, Entries

(* One delivery is handled at a time. *)
LEMMA OneEntry ==
  ASSUME NEW e \in Entries
  PROVE  {e} \in SUBSET Entries /\ Cardinality({e}) <= 1 BY FS_Singleton

LEMMA NoEntry == {} \in SUBSET Entries /\ Cardinality({}) <= 1
BY FS_EmptySet

(* What the spoke recalls are entries. *)
LEMMA RecalledType ==
  ASSUME sentOnce \in Seq(Entries)
  PROVE  Recalled \subseteq Entries BY DEF Recalled

(* _remember adds an entry, and loses at most one, which it notes. *)
LEMMA RememberEffect ==
  ASSUME TypeOK, NEW d \in Deliveries, NEW v \in Verdicts, Remember(d, v)
  PROVE  /\ sentOnce' \in Seq(Entries) /\ Len(sentOnce') <= MaxRemembered
         /\ forgotten' \in SUBSET Deliveries /\ forgotten \subseteq forgotten'
         /\ Recalled' \subseteq Recalled \cup {Entry(d, v)}
         /\ \A e \in Recalled \cup {Entry(d, v)} :
              e \in Recalled' \/ e.of \in forgotten'
<1> DEFINE all == Append(sentOnce, Entry(d, v))
<1>1. /\ sentOnce \in Seq(Entries) /\ Len(sentOnce) <= MaxRemembered
      /\ forgotten \subseteq Deliveries /\ MaxRemembered \in Nat BY BoundsAssumption DEF TypeOK
<1>2. Entry(d, v) \in Entries BY EntryFields
<1>3. /\ all \in Seq(Entries) /\ Len(all) = Len(sentOnce) + 1
      /\ \A i \in 1 .. Len(sentOnce) : all[i] = sentOnce[i]
      /\ all[Len(sentOnce) + 1] = Entry(d, v) BY <1>1, <1>2
<1>4. /\ \A i \in 1 .. Len(all) : all[i] \in Recalled \cup {Entry(d, v)}
      /\ \A e \in Recalled \cup {Entry(d, v)} : \E i \in 1 .. Len(all) : all[i] = e BY <1>1, <1>3 DEF Recalled
<1>5. CASE ~Evicts(all)
  <2>1. sentOnce' = all /\ forgotten' = forgotten BY <1>5 DEF Remember
  <2>2. Len(all) <= MaxRemembered BY <1>1, <1>3, <1>5 DEF Evicts
  <2> QED BY <1>1, <1>3, <1>4, <2>1, <2>2 DEF Recalled
<1>6. CASE Evicts(all)
  <2>1. sentOnce' = Tail(all) /\ forgotten' = forgotten \cup {Head(all).of} BY <1>6 DEF Remember
  <2>2. /\ Tail(all) \in Seq(Entries) /\ Len(Tail(all)) = Len(sentOnce)
        /\ \A i \in 1 .. Len(sentOnce) : Tail(all)[i] = all[i + 1]
        /\ Head(all) = all[1] /\ Head(all) \in Entries
    <3>1. Len(sentOnce) \in Nat BY <1>1
    <3>2. all # << >> /\ Len(all) - 1 = Len(sentOnce) BY <1>3, <3>1
    <3> QED BY <1>3, <3>2, TailIs
  <2>3. Head(all).of \in Deliveries BY <2>2, EntryFields
  <2>4. Recalled' \subseteq Recalled \cup {Entry(d, v)} BY <1>1, <1>3, <1>4, <2>1, <2>2 DEF Recalled
  <2>5. ASSUME NEW e \in Recalled \cup {Entry(d, v)}
        PROVE  e \in Recalled' \/ e.of \in forgotten'
    <3>1. PICK i \in 1 .. Len(all) : all[i] = e BY <1>4
    <3>2. CASE i = 1 BY <2>1, <2>2, <3>1, <3>2
    <3>3. CASE i > 1
      <4>1. i - 1 \in 1 .. Len(sentOnce) BY <1>1, <1>3, <3>1, <3>3
      <4>2. Tail(all)[i - 1] = e BY <1>1, <2>2, <3>1, <4>1
      <4> QED BY <1>1, <2>1, <2>2, <4>1, <4>2 DEF Recalled
    <3> QED BY <1>1, <1>3, <3>1, <3>2, <3>3
  <2> QED BY <1>1, <2>1, <2>2, <2>3, <2>4, <2>5
<1> QED BY <1>5, <1>6

(* A settle changes at most the delivery's state at the hub and what is    *)
(* outstanding of it.                                                      *)
LEMMA SettleEffect ==
  ASSUME TypeOK, NEW d \in Deliveries, NEW v \in Verdicts, NEW a \in Answers,
         Settle(d, v, a)
  PROVE  /\ hub' \in [Deliveries -> {"queued", "leased"} \cup Verdicts]
         /\ pending' \in [Deliveries -> Verdicts \cup {NoVerdict}]
         /\ live' \in SUBSET Deliveries
         /\ faults' \in 0 .. MaxFaults
         /\ hub'[d] \in {hub[d], v} /\ pending'[d] \in {v, NoVerdict}
         /\ \A e \in Deliveries \ {d} : hub'[e] = hub[e] /\ pending'[e] = pending[e]
         /\ a \notin Unanswered => pending'[d] = NoVerdict
<1>1. /\ hub' \in [Deliveries -> {"queued", "leased"} \cup Verdicts]
      /\ hub'[d] \in {hub[d], v}
      /\ \A e \in Deliveries \ {d} : hub'[e] = hub[e] BY DEF Settle, TypeOK
<1>2. /\ pending' \in [Deliveries -> Verdicts \cup {NoVerdict}]
      /\ pending'[d] \in {v, NoVerdict}
      /\ \A e \in Deliveries \ {d} : pending'[e] = pending[e]
      /\ a \notin Unanswered => pending'[d] = NoVerdict BY DEF Settle, TypeOK
<1>3. live' \in SUBSET Deliveries BY DEF Settle, TypeOK
<1>4. faults' \in 0 .. MaxFaults BY BoundsAssumption DEF Settle, TypeOK, Fault, NoFault
<1> QED BY <1>1, <1>2, <1>3, <1>4

(* Deciding a delivery leaves its entry to be settled. *)
LEMMA DecidedEffect ==
  ASSUME TypeOK, NEW d \in Deliveries, NEW v \in Verdicts, Decided(d, v)
  PROVE  /\ now' = {Entry(d, v)} /\ live' = live
         /\ sentOnce' \in Seq(Entries) /\ Len(sentOnce') <= MaxRemembered
         /\ forgotten' \in SUBSET Deliveries /\ forgotten \subseteq forgotten'
         /\ Recalled' \subseteq Recalled \cup {Entry(d, v)}
         /\ ~Once(d) => Recalled' = Recalled /\ forgotten' = forgotten
         /\ \A e \in Recalled : e \in Recalled' \/ e.of \in forgotten'
         /\ Once(d) => Entry(d, v) \in Recalled' \/ d \in forgotten'
<1>1. CASE Once(d)
  <2>1. Remember(d, v) BY <1>1 DEF Decided
  <2> QED BY <1>1, <2>1, RememberEffect, EntryFields DEF Decided
<1>2. CASE ~Once(d) BY <1>2 DEF Decided, memoryVars, TypeOK, Recalled
<1> QED BY <1>1, <1>2

(* Taking effect counts one more of the delivery at most. *)
LEMMA EffectCounts ==
  ASSUME TypeOK, NEW d \in Deliveries, TakeEffect(d)
  PROVE  /\ sent' \in [Deliveries -> Nat] /\ sent'[d] > 0
         /\ ~Once(d) /\ Taken(d) => sent'[d] = sent[d]
         /\ \A e \in Deliveries \ {d} : sent'[e] = sent[e] BY DEF TypeOK, TakeEffect, Taken

(* A tick that ends early handles and posts nothing more. *)
LEMMA AbortType ==
  ASSUME TypeOK,
         \/ Abort
         \/ /\ UNCHANGED <<pc, batch>> /\ now' \in {now, {}}
            /\ todo' \in SUBSET todo
  PROVE  /\ pc' \in Phases /\ {todo', batch'} \subseteq SUBSET Deliveries
         /\ now' \in SUBSET Entries /\ Cardinality(now') <= 1
<1>1. CASE Abort BY <1>1, NoEntry DEF Abort, Phases
<1>2. CASE now' = now /\ ~Abort BY <1>2 DEF TypeOK
<1>3. CASE now' = {} /\ ~Abort BY <1>3, NoEntry DEF TypeOK
<1> QED BY <1>1, <1>2, <1>3

------------------------
(* Type correctness. *)

(* A step of the loop that claims or settles preserves the types. *)
LEMMA TypeSettling ==
  ASSUME TypeOK, TickOrder, NEW a \in Answers,
         \/ \E d \in Deliveries : RetrySettle(d, a)
         \/ Claim(a)
         \/ \E e \in Entries : SettleHandled(e, a)
  PROVE  TypeOK'
<1> USE NoEntry
<1>1. ASSUME NEW d \in Deliveries, RetrySettle(d, a) PROVE TypeOK'
  <2>1. pending[d] \in Verdicts /\ Settle(d, pending[d], a) BY <1>1 DEF RetrySettle, TickOrder, TypeOK
  <2>2. /\ hub' \in [Deliveries -> {"queued", "leased"} \cup Verdicts]
        /\ pending' \in [Deliveries -> Verdicts \cup {NoVerdict}]
        /\ live' \in SUBSET Deliveries /\ faults' \in 0 .. MaxFaults BY <2>1, SettleEffect
  <2>3. /\ pc' \in Phases /\ {todo', batch'} \subseteq SUBSET Deliveries
        /\ now' \in SUBSET Entries /\ Cardinality(now') <= 1 BY <1>1, AbortType DEF RetrySettle
  <2> QED BY <1>1, <2>2, <2>3 DEF RetrySettle, TypeOK, agentVars, memoryVars
<1>2. ASSUME Claim(a) PROVE TypeOK'
  <2>1. hub' \in [Deliveries -> {"queued", "leased"} \cup Verdicts] BY <1>2 DEF Claim, TypeOK
  <2>2. {batch', live'} \subseteq SUBSET Deliveries /\ pc' \in Phases BY <1>2 DEF Claim, TypeOK, Phases
  <2>3. faults' \in 0 .. MaxFaults BY <1>2, BoundsAssumption DEF Claim, TypeOK, Fault, NoFault
  <2> QED BY <1>2, <2>1, <2>2, <2>3 DEF Claim, TypeOK, agentVars, memoryVars
<1>3. ASSUME NEW e \in Entries, SettleHandled(e, a) PROVE TypeOK'
  <2>1. e.of \in Deliveries /\ e.verdict \in Verdicts /\ Settle(e.of, e.verdict, a)
    BY <1>3, EntryFields DEF SettleHandled
  <2>2. /\ hub' \in [Deliveries -> {"queued", "leased"} \cup Verdicts]
        /\ pending' \in [Deliveries -> Verdicts \cup {NoVerdict}]
        /\ live' \in SUBSET Deliveries /\ faults' \in 0 .. MaxFaults BY <2>1, SettleEffect
  <2>3. /\ pc' \in Phases /\ {todo', batch'} \subseteq SUBSET Deliveries
        /\ now' \in SUBSET Entries /\ Cardinality(now') <= 1 BY <1>3, AbortType DEF SettleHandled
  <2> QED BY <1>3, <2>2, <2>3 DEF SettleHandled, TypeOK, agentVars, memoryVars
<1> QED BY <1>1, <1>2, <1>3

(* A step that handles a delivery preserves the types. *)
LEMMA TypeHandling ==
  ASSUME TypeOK, NEW d \in Deliveries,
         \/ HandleAgain(d) \/ RejectUnsent(d) \/ NotSent(d) \/ RefuseMalformed(d)
         \/ ForwardAccepted(d) \/ ForwardRefused(d) \/ ForwardUnknown(d)
  PROVE  TypeOK'
<1> USE NoEntry
<1>0. \A v \in Verdicts : {Entry(d, v)} \in SUBSET Entries /\ Cardinality({Entry(d, v)}) <= 1 BY EntryFields, OneEntry
<1>1. CASE HandleAgain(d)
  <2>1. now' \in SUBSET Entries /\ Cardinality(now') <= 1
    <3>1. CASE pending[d] # NoVerdict BY <1>0, <1>1, <3>1 DEF HandleAgain, TypeOK
    <3>2. CASE pending[d] = NoVerdict
      <4>1. PICK e \in Entries : now' = {e} BY <1>1, <3>2, RecalledType DEF HandleAgain, Remembered, TypeOK
      <4> QED BY <4>1, OneEntry
    <3> QED BY <3>1, <3>2
  <2> QED BY <1>1, <2>1 DEF HandleAgain, Handles, TypeOK, hubVars, agentVars, memoryVars
<1>2. CASE RejectUnsent(d) \/ RefuseMalformed(d)
  BY <1>0, <1>2 DEF RejectUnsent, RefuseMalformed, Handles, TypeOK, Verdicts,
     hubVars, agentVars, memoryVars
<1>3. CASE NotSent(d)
  <2>1. /\ now' \in SUBSET Entries /\ Cardinality(now') <= 1
        /\ live' \in SUBSET Deliveries BY <1>0, <1>3 DEF NotSent, Leave, TypeOK, Verdicts
  <2>2. faults' \in 0 .. MaxFaults BY <1>3, BoundsAssumption DEF NotSent, TypeOK, Fault, NoFault
  <2> QED BY <1>3, <2>1, <2>2 DEF NotSent, Handles, TypeOK, hubVars, agentVars, memoryVars
<1>4. ASSUME Forwards(d), NEW v \in Verdicts, Decided(d, v), sent' \in [Deliveries -> Nat],
             results' \in SUBSET Deliveries, Fault \/ NoFault
      PROVE  TypeOK'
  <2>1. /\ now' \in SUBSET Entries /\ Cardinality(now') <= 1 /\ live' \in SUBSET Deliveries
        /\ sentOnce' \in Seq(Entries) /\ Len(sentOnce') <= MaxRemembered
        /\ forgotten' \in SUBSET Deliveries BY <1>0, <1>4, DecidedEffect DEF TypeOK
  <2>2. faults' \in 0 .. MaxFaults BY <1>4, BoundsAssumption DEF TypeOK, Fault, NoFault
  <2> QED BY <1>4, <2>1, <2>2 DEF Forwards, Handles, TypeOK, hubVars
<1>5. CASE ForwardAccepted(d)
  <2>1. sent' \in [Deliveries -> Nat] BY <1>5, EffectCounts DEF ForwardAccepted
  <2>2. results' \in SUBSET Deliveries BY <1>5 DEF ForwardAccepted, TypeOK
  <2> QED BY <1>4, <1>5, <2>1, <2>2 DEF ForwardAccepted, Verdicts
<1>6. CASE ForwardRefused(d) BY <1>4, <1>6 DEF ForwardRefused, Verdicts, TypeOK
<1>7. CASE ForwardUnknown(d)
  <2>1. sent' \in [Deliveries -> Nat] BY <1>7, EffectCounts DEF ForwardUnknown, TypeOK
  <2>2. CASE Once(d) BY <1>4, <1>7, <2>1, <2>2 DEF ForwardUnknown, UnknownVerdict, Verdicts, TypeOK
  <2>3. CASE ~Once(d)
    <3>1. faults' \in 0 .. MaxFaults BY <1>7, BoundsAssumption DEF ForwardUnknown, TypeOK, Fault
    <3>2. now' = {} /\ live' \in SUBSET Deliveries BY <1>7, <2>3 DEF ForwardUnknown, Leave, TypeOK
    <3> QED BY <1>7, <2>1, <2>3, <3>1, <3>2 DEF ForwardUnknown, Forwards, Handles, TypeOK,
             hubVars, memoryVars
  <2> QED BY <2>2, <2>3
<1> QED BY <1>1, <1>2, <1>3, <1>5, <1>6, <1>7

(* Every step preserves the types. *)
LEMMA TypeStep ==
  ASSUME TypeOK, TickOrder, [Next]_vars
  PROVE  TypeOK'
<1> USE NoEntry
<1>1. CASE UNCHANGED vars BY <1>1 DEF vars, TypeOK
<1>2. CASE BeginTick \/ BeginResults \/ EndTick
  BY <1>2 DEF TypeOK, Phases, BeginTick, BeginResults, EndTick, hubVars, agentVars, memoryVars
<1>3. ASSUME NEW d \in Deliveries, NEW a \in Answers, PostResult(d, a) PROVE TypeOK'
  <2>1. {replied', results'} \subseteq SUBSET Deliveries BY <1>3 DEF PostResult, KeptResults, TypeOK
  <2>2. /\ pc' \in Phases /\ {todo', batch'} \subseteq SUBSET Deliveries
        /\ now' \in SUBSET Entries /\ Cardinality(now') <= 1 BY <1>3, AbortType DEF PostResult
  <2>3. faults' \in 0 .. MaxFaults BY <1>3, BoundsAssumption DEF PostResult, TypeOK, Fault, NoFault
  <2> QED BY <1>3, <2>1, <2>2, <2>3 DEF PostResult, TypeOK, hubVars, agentVars, memoryVars
<1>4. ASSUME NEW d \in Deliveries, KeepResult(d) \/ DropResult(d) PROVE TypeOK'
  <2>1. faults' \in 0 .. MaxFaults BY <1>4, BoundsAssumption DEF KeepResult, DropResult, TypeOK, Fault, NoFault
  <2> QED BY <1>4, <2>1 DEF KeepResult, DropResult, TypeOK, hubVars, agentVars, memoryVars
<1>5. CASE Restart
  <2>1. {e.of : e \in Recalled} \subseteq Deliveries BY RecalledType, EntryFields DEF TypeOK
  <2>2. sentOnce' \in Seq(Entries) /\ Len(sentOnce') <= MaxRemembered BY <1>5, BoundsAssumption DEF Restart
  <2>3. restarts' \in 0 .. MaxRestarts BY <1>5, BoundsAssumption DEF Restart, TypeOK
  <2> QED BY <1>5, <2>1, <2>2, <2>3 DEF Restart, TypeOK, Phases, hubVars, agentVars
<1>6. ASSUME NEW d \in Deliveries, Expire(d) PROVE TypeOK'
  <2>1. faults' \in 0 .. MaxFaults BY <1>6, BoundsAssumption DEF Expire, TypeOK, Fault, NoFault
  <2>2. /\ hub' \in [Deliveries -> {"queued", "leased"} \cup Verdicts]
        /\ {live', reoffered'} \subseteq SUBSET Deliveries BY <1>6 DEF Expire, TypeOK, Verdicts
  <2> QED BY <1>6, <2>1, <2>2 DEF Expire, TypeOK, agentVars, memoryVars
<1>7. ASSUME NEW d \in Deliveries, FinishTurn(d) PROVE TypeOK' BY <1>7 DEF FinishTurn, TypeOK, hubVars, memoryVars
<1>8. CASE EndWorkload BY <1>8 DEF EndWorkload, TypeOK, hubVars, memoryVars
<1> QED BY <1>1, <1>2, <1>3, <1>4, <1>5, <1>6, <1>7, <1>8, TypeSettling, TypeHandling DEF Next, Tick

------------------------
(* The order of a tick. *)

(* Every step keeps the order of the tick. *)
LEMMA TickOrderStep ==
  ASSUME TypeOK, TickOrder, [Next]_vars
  PROVE  TickOrder'
<1>1. CASE UNCHANGED vars BY <1>1 DEF vars, TickOrder
<1>2. CASE BeginTick BY <1>2 DEF TickOrder, BeginTick, TypeOK, agentVars
<1>3. ASSUME NEW d \in Deliveries, NEW a \in Answers, RetrySettle(d, a) PROVE TickOrder'
  <2>1. pending[d] \in Verdicts /\ Settle(d, pending[d], a) /\ pc = "settles" /\ d \in todo
    BY <1>3 DEF RetrySettle, TickOrder, TypeOK
  <2>2. /\ \A e \in Deliveries \ {d} : pending'[e] = pending[e]
        /\ a \notin Unanswered => pending'[d] = NoVerdict BY <2>1, SettleEffect
  <2>3. CASE a \in Unanswered BY <1>3, <2>1, <2>3 DEF RetrySettle, Abort, TickOrder, agentVars
  <2>4. CASE a \notin Unanswered BY <1>3, <2>1, <2>2, <2>4 DEF RetrySettle, TickOrder, agentVars
  <2> QED BY <2>3, <2>4
<1>4. ASSUME NEW a \in Answers, Claim(a) PROVE TickOrder' BY <1>4 DEF Claim, TickOrder, agentVars
<1>5. ASSUME NEW d \in Deliveries,
             \/ HandleAgain(d) \/ RejectUnsent(d) \/ NotSent(d) \/ RefuseMalformed(d)
             \/ ForwardAccepted(d) \/ ForwardRefused(d) \/ ForwardUnknown(d)
      PROVE  TickOrder'
  <2>1. /\ Handles(d)
        /\ UNCHANGED <<pc, todo, pending, workload, tracked>>
    BY <1>5 DEF HandleAgain, RejectUnsent, NotSent, RefuseMalformed, ForwardAccepted,
       ForwardRefused, ForwardUnknown, Forwards, agentVars
  <2>2. \A e \in now' : e.of = d
    <3>1. CASE HandleAgain(d)
      <4>1. CASE pending[d] # NoVerdict BY <3>1, <4>1 DEF HandleAgain, Entry
      <4>2. CASE pending[d] = NoVerdict BY <3>1, <4>2 DEF HandleAgain, Remembered
      <4> QED BY <4>1, <4>2
    <3>2. CASE RejectUnsent(d) \/ NotSent(d) \/ RefuseMalformed(d)
      BY <3>2 DEF RejectUnsent, NotSent, RefuseMalformed, Leave, Entry
    <3>3. CASE ForwardAccepted(d) \/ ForwardRefused(d) \/ ForwardUnknown(d)
      BY <3>3 DEF ForwardAccepted, ForwardRefused, ForwardUnknown, Decided, Leave, Entry
    <3> QED BY <1>5, <3>1, <3>2, <3>3
  <2> QED BY <2>1, <2>2 DEF Handles, TickOrder
<1>6. ASSUME NEW e \in Entries, NEW a \in Answers, SettleHandled(e, a) PROVE TickOrder'
  <2>1. /\ e.of \in Deliveries /\ e.verdict \in Verdicts /\ Settle(e.of, e.verdict, a)
        /\ pc = "deliver" /\ e \in now BY <1>6, EntryFields DEF SettleHandled
  <2>2. /\ \A d \in Deliveries \ {e.of} : pending'[d] = pending[d]
        /\ a \notin Unanswered => pending'[e.of] = NoVerdict BY <2>1, SettleEffect
  <2>3. CASE a \in Unanswered BY <1>6, <2>1, <2>3 DEF SettleHandled, Abort, TickOrder, agentVars
  <2>4. CASE a \notin Unanswered BY <1>6, <2>1, <2>2, <2>4 DEF SettleHandled, TickOrder, agentVars
  <2> QED BY <2>3, <2>4
<1>7. CASE BeginResults \/ EndTick BY <1>7 DEF BeginResults, EndTick, TickOrder, agentVars
<1>8. ASSUME NEW d \in Deliveries, NEW a \in Answers, PostResult(d, a) PROVE TickOrder'
  BY <1>8 DEF PostResult, Abort, TickOrder, agentVars
<1>9. ASSUME NEW d \in Deliveries, KeepResult(d) \/ DropResult(d) PROVE TickOrder'
  BY <1>9 DEF KeepResult, DropResult, TickOrder, agentVars
<1>10. CASE Restart BY <1>10 DEF Restart, TickOrder, agentVars
<1>11. CASE (\E d \in Deliveries : Expire(d) \/ FinishTurn(d)) \/ EndWorkload
  BY <1>11 DEF Expire, FinishTurn, EndWorkload, TickOrder, agentVars
<1> QED BY <1>1, <1>2, <1>3, <1>4, <1>5, <1>6, <1>7, <1>8, <1>9, <1>10, <1>11 DEF Next, Tick

(* What is still to be handled is not settled. *)
LEMMA BatchUnsettledStep ==
  ASSUME TypeOK, TickOrder, BatchUnsettled, [Next]_vars
  PROVE  BatchUnsettled'
<1>1. ASSUME batch' \subseteq batch, hub' = hub PROVE BatchUnsettled' BY <1>1 DEF BatchUnsettled
<1>2. ASSUME batch' = {} PROVE BatchUnsettled' BY <1>2 DEF BatchUnsettled
<1>3. ASSUME NEW d \in Deliveries, NEW a \in Answers, RetrySettle(d, a) PROVE BatchUnsettled'
  BY <1>2, <1>3 DEF RetrySettle, TickOrder, Abort
<1>4. ASSUME NEW a \in Answers, Claim(a) PROVE BatchUnsettled' BY <1>4 DEF Claim, BatchUnsettled, TypeOK
<1>5. ASSUME NEW e \in Entries, NEW a \in Answers, SettleHandled(e, a) PROVE BatchUnsettled'
  <2>1. /\ e.of \in Deliveries /\ e.verdict \in Verdicts /\ Settle(e.of, e.verdict, a)
        /\ e.of \notin batch /\ batch \subseteq Deliveries BY <1>5, EntryFields DEF SettleHandled, TickOrder, TypeOK
  <2>2. \A d \in batch : hub'[d] = hub[d] BY <2>1, SettleEffect
  <2>3. batch' \subseteq batch BY <1>5 DEF SettleHandled, Abort
  <2> QED BY <2>2, <2>3 DEF BatchUnsettled
<1>6. ASSUME NEW d \in Deliveries, Expire(d) PROVE BatchUnsettled' BY <1>6 DEF Expire, BatchUnsettled, TypeOK
<1>7. ASSUME NEW d \in Deliveries,
             \/ HandleAgain(d) \/ RejectUnsent(d) \/ NotSent(d) \/ RefuseMalformed(d)
             \/ ForwardAccepted(d) \/ ForwardRefused(d) \/ ForwardUnknown(d)
      PROVE  BatchUnsettled' BY <1>1, <1>7 DEF HandleAgain, RejectUnsent, NotSent, RefuseMalformed, ForwardAccepted,
     ForwardRefused, ForwardUnknown, Forwards, Handles, hubVars
<1>8. CASE \/ UNCHANGED vars \/ BeginTick \/ BeginResults \/ EndTick \/ EndWorkload
           \/ \E d \in Deliveries, a \in Answers : PostResult(d, a)
           \/ \E d \in Deliveries : KeepResult(d) \/ DropResult(d) \/ FinishTurn(d)
  BY <1>1, <1>8 DEF vars, BeginTick, BeginResults, EndTick, EndWorkload, PostResult, Abort,
     KeepResult, DropResult, FinishTurn, hubVars
<1>9. CASE Restart BY <1>2, <1>9 DEF Restart
<1> QED BY <1>3, <1>4, <1>5, <1>6, <1>7, <1>8, <1>9 DEF Next, Tick

------------------------
(* What was sent once is known. *)

(* What a step does that forwards a delivery to the agent. *)
LEMMA ForwardEffect ==
  ASSUME TypeOK, NEW d \in Deliveries,
         ForwardAccepted(d) \/ ForwardRefused(d) \/ ForwardUnknown(d)
  PROVE  /\ Forwards(d)
         /\ sent' \in [Deliveries -> Nat]
         /\ \A e \in Deliveries \ {d} : sent'[e] = sent[e]
         /\ ~Once(d) => Recalled' = Recalled /\ forgotten' = forgotten
         /\ Once(d) => \E v \in Verdicts : Decided(d, v)
<1>1. CASE ForwardAccepted(d)
  <2>1. Decided(d, "accepted") /\ TakeEffect(d) /\ Forwards(d) BY <1>1 DEF ForwardAccepted
  <2>2. "accepted" \in Verdicts BY DEF Verdicts
  <2> QED BY <2>1, <2>2, DecidedEffect, EffectCounts
<1>2. CASE ForwardRefused(d)
  <2>1. Decided(d, "rejected") /\ sent' = sent /\ Forwards(d) BY <1>2 DEF ForwardRefused
  <2>2. "rejected" \in Verdicts BY DEF Verdicts
  <2> QED BY <2>1, <2>2, DecidedEffect DEF TypeOK
<1>3. CASE ForwardUnknown(d)
  <2>1. Forwards(d) /\ (TakeEffect(d) \/ sent' = sent) BY <1>3 DEF ForwardUnknown
  <2>2. sent' \in [Deliveries -> Nat] /\ \A e \in Deliveries \ {d} : sent'[e] = sent[e]
    BY <2>1, EffectCounts DEF TypeOK
  <2>3. ~Once(d) => Recalled' = Recalled /\ forgotten' = forgotten BY <1>3 DEF ForwardUnknown, memoryVars, Recalled
  <2>4. Once(d) => \E v \in Verdicts : Decided(d, v) BY <1>3 DEF ForwardUnknown, UnknownVerdict, Verdicts
  <2> QED BY <2>1, <2>2, <2>3, <2>4
<1> QED BY <1>1, <1>2, <1>3

(* What was sent once stays known under every step. *)
LEMMA SentOnceStep ==
  ASSUME TypeOK, TickOrder, BatchUnsettled, SentOnceKnown, [Next]_vars
  PROVE  SentOnceKnown'
<1>1. ASSUME UNCHANGED <<kind, sent, memoryVars>>, reoffered \subseteq reoffered',
             batch' \subseteq batch,
             \A d \in Deliveries :
               Once(d) /\ hub'[d] = "queued" => hub[d] = "queued" \/ d \in reoffered'
      PROVE  SentOnceKnown'
  <2>1. Recalled' = Recalled BY <1>1 DEF Recalled, memoryVars
  <2>2. \A d \in Deliveries : Remembered(d) => Remembered(d)' BY <2>1 DEF Remembered
  <2>3. batch \subseteq Deliveries BY DEF TypeOK
  <2> QED BY <1>1, <2>1, <2>2, <2>3 DEF SentOnceKnown, Once, Taken, memoryVars
<1>2. ASSUME NEW d \in Deliveries, NEW v \in Verdicts, NEW a \in Answers, Settle(d, v, a),
             UNCHANGED <<kind, sent, memoryVars, reoffered>>, batch' \subseteq batch
      PROVE  SentOnceKnown'
  <2>1. \A e \in Deliveries : hub'[e] = hub[e] \/ (e = d /\ hub'[e] = v) BY <1>2, SettleEffect
  <2>2. v # "queued" BY DEF Verdicts
  <2> QED BY <1>1, <1>2, <2>1, <2>2
<1>3. ASSUME NEW d \in Deliveries, NEW a \in Answers, RetrySettle(d, a) PROVE SentOnceKnown'
  <2>1. pending[d] \in Verdicts /\ Settle(d, pending[d], a) BY <1>3 DEF RetrySettle, TickOrder, TypeOK
  <2> QED BY <1>2, <1>3, <2>1 DEF RetrySettle, Abort, agentVars
<1>4. ASSUME NEW e \in Entries, NEW a \in Answers, SettleHandled(e, a) PROVE SentOnceKnown'
  <2>1. e.of \in Deliveries /\ e.verdict \in Verdicts BY EntryFields
  <2> QED BY <1>2, <1>4, <2>1 DEF SettleHandled, Abort, agentVars
<1>5. ASSUME NEW a \in Answers, Claim(a) PROVE SentOnceKnown'
  <2>1. /\ UNCHANGED <<kind, sent, memoryVars, reoffered>>
        /\ batch' \subseteq {d \in Deliveries : hub[d] = "queued"}
        /\ a # "down" => \A d \in Deliveries : hub'[d] # "queued"
        /\ a = "down" => hub' = hub /\ batch' = {} BY <1>5 DEF Claim, agentVars, TypeOK, Unanswered, Verdicts
  <2>2. Recalled' = Recalled BY <2>1 DEF Recalled, memoryVars
  <2>3. \A d \in Deliveries : Remembered(d) => Remembered(d)' BY <2>2 DEF Remembered
  <2> QED BY <2>1, <2>2, <2>3 DEF SentOnceKnown, Once, Taken, memoryVars
<1>6. ASSUME NEW d \in Deliveries,
             ForwardAccepted(d) \/ ForwardRefused(d) \/ ForwardUnknown(d)
      PROVE  SentOnceKnown'
  <2>1. /\ d \in batch /\ batch' = batch \ {d}
        /\ UNCHANGED <<kind, hub, reoffered>> BY <1>6, ForwardEffect DEF Forwards, Handles, hubVars
  <2>2. \A e \in Deliveries \ {d} : sent'[e] = sent[e] BY <1>6, ForwardEffect
  <2>3. batch \subseteq Deliveries BY DEF TypeOK
  <2>4. CASE ~Once(d)
    <3>1. Recalled' = Recalled /\ forgotten' = forgotten BY <1>6, <2>4, ForwardEffect
    <3>2. \A e \in Deliveries : Remembered(e) => Remembered(e)' BY <3>1 DEF Remembered
    <3> QED BY <2>1, <2>2, <2>3, <2>4, <3>1, <3>2 DEF SentOnceKnown, Once, Taken
  <2>5. CASE Once(d)
    <3>1. PICK v \in Verdicts : Decided(d, v) BY <1>6, <2>5, ForwardEffect
    <3>2. /\ Recalled' \subseteq Recalled \cup {Entry(d, v)}
          /\ forgotten \subseteq forgotten'
          /\ \A e \in Recalled : e \in Recalled' \/ e.of \in forgotten'
          /\ Entry(d, v) \in Recalled' \/ d \in forgotten' BY <2>5, <3>1, DecidedEffect
    <3>3. \A e \in Recalled' : Once(e.of)' BY <2>1, <2>5, <3>2, EntryFields DEF SentOnceKnown, Once
    <3>4. \A e \in Deliveries : Remembered(e) => Remembered(e)' \/ e \in forgotten' BY <3>2 DEF Remembered
    <3>5. Remembered(d)' \/ d \in forgotten' BY <3>2, EntryFields DEF Remembered
    <3> QED BY <2>1, <2>2, <2>3, <3>2, <3>3, <3>4, <3>5 DEF SentOnceKnown, Once, Taken
  <2> QED BY <2>4, <2>5
<1>7. CASE Restart
  <2>1. Recalled' = {} BY <1>7 DEF Restart, Recalled
  <2>2. \A d \in Deliveries : Remembered(d) => d \in forgotten' BY <1>7 DEF Restart, Remembered
  <2>3. /\ UNCHANGED <<kind, hub, sent, reoffered>> /\ batch' = {}
        /\ forgotten \subseteq forgotten' BY <1>7 DEF Restart, hubVars, agentVars
  <2> QED BY <2>1, <2>2, <2>3 DEF SentOnceKnown, Once, Taken
<1>8. ASSUME NEW d \in Deliveries, Expire(d) PROVE SentOnceKnown' BY <1>1, <1>8 DEF Expire, agentVars, TypeOK
<1>9. ASSUME NEW d \in Deliveries,
             HandleAgain(d) \/ RejectUnsent(d) \/ NotSent(d) \/ RefuseMalformed(d)
      PROVE  SentOnceKnown' BY <1>1, <1>9 DEF HandleAgain, RejectUnsent, NotSent, RefuseMalformed, Handles,
     hubVars, agentVars
<1>10. CASE \/ UNCHANGED vars \/ BeginTick \/ BeginResults \/ EndTick \/ EndWorkload
            \/ \E d \in Deliveries, a \in Answers : PostResult(d, a)
            \/ \E d \in Deliveries : KeepResult(d) \/ DropResult(d) \/ FinishTurn(d)
  BY <1>1, <1>10 DEF vars, BeginTick, BeginResults, EndTick, EndWorkload, PostResult, Abort,
     KeepResult, DropResult, FinishTurn, hubVars, agentVars, memoryVars
<1> QED BY <1>3, <1>4, <1>5, <1>6, <1>7, <1>8, <1>9, <1>10 DEF Next, Tick

------------------------
(* Verdicts are true wherever they are kept. *)

(* A verdict that holds of a delivery goes on holding while nothing more   *)
(* of it takes effect.                                                     *)
LEMMA HoldsStable ==
  ASSUME UNCHANGED kind, workload' => workload, forgotten \subseteq forgotten',
         NEW d, NEW v, sent'[d] = sent[d], Holds(d, v)
  PROVE  Holds(d, v)' BY DEF Holds, Taken, Once

(* Verdicts stay true under every step. *)
LEMMA VerdictsStep ==
  ASSUME TypeOK, TickOrder, BatchUnsettled, SentOnceKnown, VerdictsHold, [Next]_vars
  PROVE  VerdictsHold'
<1>1. ASSUME UNCHANGED <<kind, sent>>, workload' => workload,
             forgotten \subseteq forgotten', Recalled' \subseteq Recalled,
             \A d \in Deliveries : /\ Holds(d, hub'[d])
                                   /\ Holds(d, pending'[d]),
             \A e \in now' : Holds(e.of, e.verdict)
      PROVE  VerdictsHold'
  <2>1. \A d \in Deliveries : Holds(d, hub[d])' /\ Holds(d, pending[d])' BY <1>1 DEF Holds, Taken, Once
  <2>2. \A e \in now' \cup Recalled' : Holds(e.of, e.verdict)'
    <3>1. \A e \in now' \cup Recalled' : Holds(e.of, e.verdict) BY <1>1 DEF VerdictsHold
    <3> QED BY <1>1, <3>1 DEF Holds, Taken, Once
  <2>3. \A d \in Deliveries : Taken(d)' => kind'[d] # "malformed" BY <1>1 DEF VerdictsHold, Taken
  <2> QED BY <2>1, <2>2, <2>3 DEF VerdictsHold
<1>2. \A d : /\ Holds(d, "queued") /\ Holds(d, "leased")
             /\ Holds(d, "uncertain") /\ Holds(d, NoVerdict) BY DEF Holds, NoVerdict
<1>3. ASSUME NEW d \in Deliveries, NEW v \in Verdicts, NEW a \in Answers, Settle(d, v, a),
             Holds(d, v), UNCHANGED <<kind, sent, workload, memoryVars>>, now' \subseteq now
      PROVE  VerdictsHold'
  <2>1. \A e \in Deliveries : /\ hub'[e] = hub[e] \/ (e = d /\ hub'[e] = v)
                              /\ \/ pending'[e] = pending[e]
                                 \/ e = d /\ pending'[e] \in {v, NoVerdict} BY <1>3, SettleEffect
  <2>2. Recalled' = Recalled /\ forgotten' = forgotten BY <1>3 DEF Recalled, memoryVars
  <2> QED BY <1>1, <1>2, <1>3, <2>1, <2>2 DEF VerdictsHold
<1>4. ASSUME NEW d \in Deliveries, NEW a \in Answers, RetrySettle(d, a) PROVE VerdictsHold'
  <2>1. pending[d] \in Verdicts /\ Settle(d, pending[d], a) BY <1>4 DEF RetrySettle, TickOrder, TypeOK
  <2>2. Holds(d, pending[d]) BY DEF VerdictsHold
  <2> QED BY <1>3, <1>4, <2>1, <2>2 DEF RetrySettle, Abort, agentVars
<1>5. ASSUME NEW e \in Entries, NEW a \in Answers, SettleHandled(e, a) PROVE VerdictsHold'
  <2>1. e.of \in Deliveries /\ e.verdict \in Verdicts /\ Holds(e.of, e.verdict)
    BY <1>5, EntryFields DEF SettleHandled, VerdictsHold
  <2> QED BY <1>3, <1>5, <2>1 DEF SettleHandled, Abort, agentVars
<1>6. ASSUME NEW a \in Answers, Claim(a) PROVE VerdictsHold'
  <2>1. \A d \in Deliveries : hub'[d] \in {hub[d], "leased"} BY <1>6 DEF Claim, TypeOK
  <2>2. Recalled' = Recalled /\ forgotten' = forgotten BY <1>6 DEF Claim, Recalled, memoryVars
  <2> QED BY <1>1, <1>2, <1>6, <2>1, <2>2 DEF Claim, VerdictsHold, agentVars
<1>7. ASSUME NEW d \in Deliveries, Expire(d) PROVE VerdictsHold'
  <2>1. \A e \in Deliveries : hub'[e] \in {hub[e], "queued", "uncertain"} BY <1>7 DEF Expire, TypeOK
  <2>2. Recalled' = Recalled /\ forgotten' = forgotten BY <1>7 DEF Expire, Recalled, memoryVars
  <2> QED BY <1>1, <1>2, <1>7, <2>1, <2>2 DEF Expire, VerdictsHold, agentVars
<1>8. ASSUME NEW d \in Deliveries, HandleAgain(d) PROVE VerdictsHold'
  <2>1. \A e \in now' : Holds(e.of, e.verdict)
    <3>1. CASE pending[d] # NoVerdict
      <4>1. now' = {Entry(d, pending[d])} BY <1>8, <3>1 DEF HandleAgain
      <4> QED BY <4>1 DEF Entry, VerdictsHold
    <3>2. CASE pending[d] = NoVerdict
      <4>1. now' \subseteq Recalled BY <1>8, <3>2 DEF HandleAgain, Remembered
      <4> QED BY <4>1 DEF VerdictsHold
    <3> QED BY <3>1, <3>2
  <2>2. Recalled' = Recalled /\ forgotten' = forgotten BY <1>8 DEF HandleAgain, Recalled, memoryVars
  <2> QED BY <1>1, <1>8, <2>1, <2>2 DEF HandleAgain, VerdictsHold, hubVars, agentVars
<1>9. ASSUME NEW d \in Deliveries, RejectUnsent(d) \/ NotSent(d) \/ RefuseMalformed(d)
      PROVE  VerdictsHold'
  <2>1. Once(d) => ~Taken(d) \/ d \in forgotten
    BY <1>9 DEF RejectUnsent, NotSent, RefuseMalformed, IsNew, SentOnceKnown
  <2>2. now' # {} => now' = {Entry(d, "rejected")} BY <1>9 DEF RejectUnsent, NotSent, RefuseMalformed, Leave
  <2>3. now' # {} => Holds(d, "rejected")
    <3>1. CASE RejectUnsent(d) BY <2>1, <3>1 DEF RejectUnsent, Rejects, LeaseIsGone, TickOrder, Holds
    <3>2. CASE NotSent(d) BY <2>1, <3>2 DEF NotSent, Leave, Holds
    <3>3. CASE RefuseMalformed(d) BY <3>3 DEF RefuseMalformed, VerdictsHold, Holds
    <3> QED BY <1>9, <3>1, <3>2, <3>3
  <2>4. \A e \in now' : Holds(e.of, e.verdict) BY <2>2, <2>3 DEF Entry
  <2>5. Recalled' = Recalled /\ forgotten' = forgotten
    BY <1>9 DEF RejectUnsent, NotSent, RefuseMalformed, Recalled, memoryVars
  <2> QED BY <1>1, <1>9, <2>4, <2>5 DEF RejectUnsent, NotSent, RefuseMalformed, VerdictsHold,
           hubVars, agentVars
<1>10. ASSUME NEW d \in Deliveries,
              ForwardAccepted(d) \/ ForwardRefused(d) \/ ForwardUnknown(d)
       PROVE  VerdictsHold'
  <2>1. /\ d \in batch /\ now = {} /\ IsNew(d) /\ kind[d] # "malformed"
        /\ UNCHANGED <<kind, hub, pending, workload>> BY <1>10, ForwardEffect DEF Forwards, Handles, hubVars
  <2>2. \A e \in Deliveries \ {d} : sent'[e] = sent[e] BY <1>10, ForwardEffect
  <2>3. /\ now' \subseteq {Entry(d, v) : v \in Verdicts}
        /\ Recalled' \subseteq Recalled \cup now'
        /\ forgotten \subseteq forgotten'
    <3>1. CASE Once(d)
      <4>1. PICK v \in Verdicts : Decided(d, v) BY <1>10, <3>1, ForwardEffect
      <4> QED BY <4>1, DecidedEffect
    <3>2. CASE ~Once(d)
      <4>1. now' \subseteq {Entry(d, v) : v \in Verdicts}
        BY <1>10, <3>2 DEF ForwardAccepted, ForwardRefused, ForwardUnknown, Decided, Leave,
           Verdicts
      <4> QED BY <1>10, <3>2, <4>1, ForwardEffect
    <3> QED BY <3>1, <3>2
  <2>4. \A e \in now' : Holds(e.of, e.verdict)'
    <3>1. CASE ForwardAccepted(d)
      <4>1. now' = {Entry(d, "accepted")} /\ sent'[d] > 0 BY <3>1, EffectCounts DEF ForwardAccepted, Decided
      <4> QED BY <4>1 DEF Entry, Holds, Taken
    <3>2. CASE ForwardRefused(d)
      <4>1. now' = {Entry(d, "rejected")} /\ sent' = sent BY <3>2 DEF ForwardRefused, Decided
      <4>2. ~Taken(d) \/ (Once(d) /\ d \in forgotten) BY <2>1, <3>2 DEF ForwardRefused, IsNew, SentOnceKnown
      <4> QED BY <2>1, <2>3, <4>1, <4>2 DEF Entry, Holds, Taken, Once
    <3>3. CASE ForwardUnknown(d)
      <4>1. now' \subseteq {Entry(d, "uncertain")} BY <3>3 DEF ForwardUnknown, Decided, Leave, UnknownVerdict
      <4> QED BY <4>1 DEF Entry, Holds
    <3> QED BY <1>10, <3>1, <3>2, <3>3
  <2>5. \A e \in Recalled : Holds(e.of, e.verdict)'
    <3>1. \A e \in Recalled : e.of \in Deliveries /\ e.of # d
      BY <2>1, RecalledType, EntryFields DEF IsNew, Remembered, TypeOK
    <3> QED BY <2>1, <2>2, <2>3, <3>1, HoldsStable DEF VerdictsHold
  <2>6. \A e \in Deliveries : Holds(e, hub[e])' /\ Holds(e, pending[e])'
    <3>1. hub'[d] \in {"queued", "leased", "uncertain"} /\ pending'[d] = NoVerdict BY <2>1 DEF BatchUnsettled, IsNew
    <3>2. Holds(d, hub[d])' /\ Holds(d, pending[d])' BY <3>1 DEF Holds, NoVerdict
    <3>3. \A e \in Deliveries \ {d} : Holds(e, hub[e])' /\ Holds(e, pending[e])'
      BY <2>1, <2>2, <2>3, HoldsStable DEF VerdictsHold
    <3> QED BY <3>2, <3>3
  <2>7. \A e \in Deliveries : Taken(e)' => kind'[e] # "malformed" BY <2>1, <2>2 DEF VerdictsHold, Taken
  <2> QED BY <2>3, <2>4, <2>5, <2>6, <2>7 DEF VerdictsHold
<1>11. CASE Restart
  <2>1. Recalled' = {} BY <1>11 DEF Restart, Recalled
  <2>2. \A d \in Deliveries : pending'[d] = NoVerdict BY <1>11 DEF Restart
  <2> QED BY <1>1, <1>2, <1>11, <2>1, <2>2 DEF Restart, VerdictsHold, hubVars, agentVars
<1>12. CASE \/ UNCHANGED vars \/ BeginTick \/ BeginResults \/ EndTick \/ EndWorkload
            \/ \E d \in Deliveries, a \in Answers : PostResult(d, a)
            \/ \E d \in Deliveries : KeepResult(d) \/ DropResult(d) \/ FinishTurn(d)
  <2>1. /\ UNCHANGED <<kind, sent, hub, pending, sentOnce, forgotten>>
        /\ workload' => workload
        /\ now' \subseteq now BY <1>12 DEF vars, BeginTick, BeginResults, EndTick, EndWorkload, PostResult, Abort,
       KeepResult, DropResult, FinishTurn, hubVars, agentVars, memoryVars
  <2>2. Recalled' = Recalled BY <2>1 DEF Recalled
  <2>3. /\ \A d \in Deliveries : Holds(d, hub'[d]) /\ Holds(d, pending'[d])
        /\ \A e \in now' : Holds(e.of, e.verdict) BY <2>1 DEF VerdictsHold
  <2> QED BY <1>1, <2>1, <2>2, <2>3
<1> QED BY <1>4, <1>5, <1>6, <1>7, <1>8, <1>9, <1>10, <1>11, <1>12 DEF Next, Tick

------------------------
(* Replies are known. *)

(* Every step keeps track of the replies. *)
LEMMA RepliesStep ==
  ASSUME TypeOK, TickOrder, SentOnceKnown, RepliesKnown, [Next]_vars
  PROVE  RepliesKnown'
<1>1. ASSUME UNCHANGED kind, workload' => workload,
             replied \cup results \cup cut \subseteq replied' \cup results' \cup cut',
             \A d \in Deliveries : "accepted" \in {hub'[d], pending'[d]} => ReplyKnown(d),
             \A e \in now' : e.verdict = "accepted" => ReplyKnown(e.of)
      PROVE  RepliesKnown'
  <2>1. \A d \in Deliveries : "accepted" \in {hub'[d], pending'[d]} => ReplyKnown(d)' BY <1>1 DEF ReplyKnown
  <2>2. \A e \in now' : e.verdict = "accepted" => ReplyKnown(e.of)' BY <1>1 DEF ReplyKnown
  <2> QED BY <2>1, <2>2 DEF RepliesKnown
<1>2. ASSUME NEW d \in Deliveries, NEW v \in Verdicts, NEW a \in Answers, Settle(d, v, a),
             v = "accepted" => ReplyKnown(d), now' \subseteq now,
             UNCHANGED <<kind, workload, replied, results, cut>>
      PROVE  RepliesKnown'
  <2>1. \A e \in Deliveries : /\ hub'[e] = hub[e] \/ (e = d /\ hub'[e] = v)
                              /\ \/ pending'[e] = pending[e]
                                 \/ e = d /\ pending'[e] \in {v, NoVerdict} BY <1>2, SettleEffect
  <2>2. \A e \in Deliveries : "accepted" \in {hub'[e], pending'[e]} => ReplyKnown(e)
    BY <1>2, <2>1 DEF RepliesKnown, NoVerdict
  <2>3. \A e \in now' : e.verdict = "accepted" => ReplyKnown(e.of) BY <1>2 DEF RepliesKnown
  <2> QED BY <1>1, <1>2, <2>2, <2>3
<1>3. ASSUME NEW d \in Deliveries, NEW a \in Answers, RetrySettle(d, a) PROVE RepliesKnown'
  <2>1. pending[d] \in Verdicts /\ Settle(d, pending[d], a) BY <1>3 DEF RetrySettle, TickOrder, TypeOK
  <2>2. pending[d] = "accepted" => ReplyKnown(d) BY DEF RepliesKnown
  <2> QED BY <1>2, <1>3, <2>1, <2>2 DEF RetrySettle, Abort, agentVars
<1>4. ASSUME NEW e \in Entries, NEW a \in Answers, SettleHandled(e, a) PROVE RepliesKnown'
  <2>1. e.of \in Deliveries /\ e.verdict \in Verdicts BY EntryFields
  <2>2. e.verdict = "accepted" => ReplyKnown(e.of) BY <1>4 DEF SettleHandled, RepliesKnown
  <2> QED BY <1>2, <1>4, <2>1, <2>2 DEF SettleHandled, Abort, agentVars
<1>5. ASSUME UNCHANGED <<kind, pending>>, workload' => workload, now' \subseteq now,
             replied \cup results \cup cut \subseteq replied' \cup results' \cup cut',
             \A d \in Deliveries : hub'[d] = "accepted" => hub[d] = "accepted"
      PROVE  RepliesKnown'
  <2>1. \A d \in Deliveries : "accepted" \in {hub'[d], pending'[d]} => ReplyKnown(d) BY <1>5 DEF RepliesKnown
  <2>2. \A e \in now' : e.verdict = "accepted" => ReplyKnown(e.of) BY <1>5 DEF RepliesKnown
  <2> QED BY <1>1, <1>5, <2>1, <2>2
<1>6. ASSUME NEW a \in Answers, Claim(a) PROVE RepliesKnown'
  <2>1. \A d \in Deliveries : hub'[d] \in {hub[d], "leased"} BY <1>6 DEF Claim, TypeOK
  <2> QED BY <1>5, <1>6, <2>1 DEF Claim, agentVars
<1>7. ASSUME NEW d \in Deliveries, Expire(d) PROVE RepliesKnown'
  <2>1. \A e \in Deliveries : hub'[e] \in {hub[e], "queued", "uncertain"} BY <1>7 DEF Expire, TypeOK
  <2> QED BY <1>5, <1>7, <2>1 DEF Expire, agentVars
<1>8. ASSUME NEW d \in Deliveries, HandleAgain(d) PROVE RepliesKnown'
  <2>1. \A e \in now' : e.verdict = "accepted" => ReplyKnown(e.of)
    <3>1. CASE pending[d] # NoVerdict
      <4>1. now' = {Entry(d, pending[d])} BY <1>8, <3>1 DEF HandleAgain
      <4> QED BY <4>1 DEF Entry, RepliesKnown
    <3>2. CASE pending[d] = NoVerdict
      <4>1. now' \subseteq Recalled BY <1>8, <3>2 DEF HandleAgain, Remembered
      <4>2. \A e \in Recalled : kind[e.of] # "turn" BY DEF SentOnceKnown, Once
      <4> QED BY <4>1, <4>2 DEF ReplyKnown
    <3> QED BY <3>1, <3>2
  <2>2. \A e \in Deliveries : "accepted" \in {hub'[e], pending'[e]} => ReplyKnown(e)
    BY <1>8 DEF HandleAgain, hubVars, RepliesKnown
  <2> QED BY <1>1, <1>8, <2>1, <2>2 DEF HandleAgain, hubVars, agentVars
<1>9. ASSUME NEW d \in Deliveries,
             \/ RejectUnsent(d) \/ NotSent(d) \/ RefuseMalformed(d)
             \/ ForwardRefused(d) \/ ForwardUnknown(d)
      PROVE  RepliesKnown'
  <2>1. \A e \in now' : e.verdict # "accepted"
    BY <1>9 DEF RejectUnsent, NotSent, RefuseMalformed, ForwardRefused, ForwardUnknown,
       Decided, Leave, UnknownVerdict, Entry
  <2>2. UNCHANGED <<kind, hub, pending, workload, replied, results, cut>>
    BY <1>9 DEF RejectUnsent, NotSent, RefuseMalformed, ForwardRefused, ForwardUnknown,
       Forwards, hubVars, agentVars
  <2>3. \A e \in Deliveries : "accepted" \in {hub'[e], pending'[e]} => ReplyKnown(e) BY <2>2 DEF RepliesKnown
  <2> QED BY <1>1, <2>1, <2>2, <2>3
<1>10. ASSUME NEW d \in Deliveries, ForwardAccepted(d) PROVE RepliesKnown'
  <2>1. /\ now' = {Entry(d, "accepted")}
        /\ results' = IF kind[d] = "turn" THEN results \cup {d} ELSE results
        /\ UNCHANGED <<kind, hub, pending, workload, replied, cut>>
    BY <1>10 DEF ForwardAccepted, Forwards, Decided, hubVars
  <2>2. ReplyKnown(d)' BY <2>1 DEF ReplyKnown
  <2>3. \A e \in Deliveries : ReplyKnown(e) => ReplyKnown(e)' BY <2>1 DEF ReplyKnown
  <2>4. \A e \in Deliveries : "accepted" \in {hub'[e], pending'[e]} => ReplyKnown(e)' BY <2>1, <2>3 DEF RepliesKnown
  <2>5. \A e \in now' : e.verdict = "accepted" => ReplyKnown(e.of)' BY <2>1, <2>2 DEF Entry
  <2> QED BY <2>4, <2>5 DEF RepliesKnown
<1>11. ASSUME NEW d \in Deliveries, NEW a \in Answers, PostResult(d, a) PROVE RepliesKnown'
  <2>1. /\ UNCHANGED <<kind, hub, pending, workload, cut>> /\ now' = {}
        /\ \A e \in Deliveries : pending[e] = NoVerdict BY <1>11 DEF PostResult, Abort, TickOrder, hubVars, agentVars
  <2>2. ASSUME NEW e \in Deliveries, hub[e] = "accepted" PROVE ReplyKnown(e)'
    <3>1. e \in replied \cup results \cup cut => e \in replied' \cup results' \cup cut'
      BY <1>11, <2>1, <2>2 DEF PostResult, KeptResults, Answers, Unanswered
    <3> QED BY <2>1, <2>2, <3>1 DEF RepliesKnown, ReplyKnown
  <2> QED BY <2>1, <2>2 DEF RepliesKnown, NoVerdict
<1>12. ASSUME NEW d \in Deliveries, DropResult(d) PROVE RepliesKnown'
  <2>1. ~workload' BY <1>12 DEF DropResult, TickOrder, agentVars
  <2> QED BY <2>1 DEF RepliesKnown, ReplyKnown
<1>13. CASE Restart
  <2>1. \A d \in Deliveries : pending'[d] = NoVerdict BY <1>13 DEF Restart
  <2>2. /\ UNCHANGED <<kind, hub, workload, replied>> /\ now' = {}
        /\ replied \cup results \cup cut \subseteq replied' \cup results' \cup cut'
    BY <1>13 DEF Restart, hubVars, agentVars
  <2>3. \A d \in Deliveries : "accepted" \in {hub'[d], pending'[d]} => ReplyKnown(d)
    BY <2>1, <2>2 DEF RepliesKnown, NoVerdict
  <2> QED BY <1>1, <2>2, <2>3
<1>14. CASE \/ UNCHANGED vars \/ BeginTick \/ BeginResults \/ EndTick \/ EndWorkload
            \/ \E d \in Deliveries : KeepResult(d) \/ FinishTurn(d)
  BY <1>5, <1>14 DEF vars, BeginTick, BeginResults, EndTick, EndWorkload, KeepResult,
     FinishTurn, hubVars, agentVars
<1> QED BY <1>3, <1>4, <1>6, <1>7, <1>8, <1>9, <1>10, <1>11, <1>12, <1>13, <1>14 DEF Next, Tick

------------------------
(* The theorems. *)

(* The initial state satisfies the invariant. *)
LEMMA InitIInv == Init => IInv
<1> SUFFICES ASSUME Init PROVE IInv OBVIOUS
<1>1. Recalled = {} BY DEF Init, Recalled
<1>2. TypeOK BY BoundsAssumption, NoEntry DEF Init, TypeOK, Phases
<1>3. TickOrder BY DEF Init, TickOrder
<1>4. BatchUnsettled BY DEF Init, BatchUnsettled
<1>5. SentOnceKnown BY <1>1 DEF Init, SentOnceKnown, Taken
<1>6. VerdictsHold BY <1>1 DEF Init, VerdictsHold, Holds, Taken, NoVerdict
<1>7. RepliesKnown BY DEF Init, RepliesKnown, NoVerdict
<1> QED BY <1>2, <1>3, <1>4, <1>5, <1>6, <1>7 DEF IInv

LEMMA IInvStep == IInv /\ [Next]_vars => IInv'
BY TypeStep, TickOrderStep, BatchUnsettledStep, SentOnceStep, VerdictsStep, RepliesStep DEF IInv

(* Every behaviour of the spoke satisfies the invariant. *)
THEOREM Invariance == Spec => []IInv
BY InitIInv, IInvStep, PTL DEF Spec

(* The variables have their types; the spoke remembers no more than it may.*)
THEOREM TypeCorrect == Spec => []TypeOK
<1>1. IInv => TypeOK BY DEF IInv
<1> QED BY <1>1, Invariance, PTL

\* A delivery that had taken effect and takes effect again was offered again.
LEMMA OnceStep ==
  IInv /\ [Next]_vars =>
    [\A d \in Deliveries :
       sent[d] > 0 /\ sent'[d] > sent[d] => d \in reoffered /\ d \in forgotten]_vars
<1>1. ASSUME IInv, [Next]_vars, NEW d \in Deliveries, sent[d] > 0, sent'[d] > sent[d]
      PROVE  d \in reoffered /\ d \in forgotten
  <2>1. PICK e \in Deliveries : ForwardAccepted(e) \/ ForwardRefused(e) \/ ForwardUnknown(e)
    BY <1>1 DEF Next, Tick, BeginTick, RetrySettle, Claim, HandleAgain, RejectUnsent, NotSent,
       RefuseMalformed, SettleHandled, BeginResults, PostResult, KeepResult, DropResult, EndTick,
       Restart, Expire, FinishTurn, EndWorkload, vars, agentVars, IInv, TypeOK
  <2>2. e = d BY <1>1, <2>1, ForwardEffect DEF IInv, TypeOK
  <2>3. TakeEffect(d) /\ Forwards(d)
    BY <1>1, <2>1, <2>2 DEF ForwardAccepted, ForwardRefused, ForwardUnknown, IInv, TypeOK
  <2>4. Once(d) BY <1>1, <2>3, EffectCounts DEF IInv, TypeOK, Taken
  <2>5. d \in batch /\ ~Remembered(d) BY <2>3 DEF Forwards, Handles, IsNew
  <2> QED BY <1>1, <2>4, <2>5 DEF IInv, SentOnceKnown, Taken
<1> QED BY <1>1

(* handle_delivery: a resume or abandon is not sent again unless the hub   *)
(* offers it again after the spoke has forgotten it.                       *)
THEOREM NothingIsSentTwice == Spec => AtMostOnce
BY OnceStep, Invariance, PTL DEF Spec, AtMostOnce

(* _settle: what the hub was told of a delivery is so. *)
THEOREM TheHubIsToldTheTruth == Spec => []VerdictsAreTrue
<1>1. IInv => VerdictsAreTrue BY DEF IInv, VerdictsHold, Holds, VerdictsAreTrue
<1> QED BY <1>1, Invariance, PTL

(* pump_turn_results: the reply of an accepted turn is not lost, but by a  *)
(* restart.                                                                *)
THEOREM OnlyRestartsLoseReplies == Spec => []RepliesAreTracked
<1>1. IInv => RepliesAreTracked BY DEF IInv, RepliesKnown, ReplyKnown, RepliesAreTracked
<1> QED BY <1>1, Invariance, PTL

(* The hub's picture of a delivery is true, and completes unless a restart *)
(* lost the reply: the two together.                                       *)
THEOREM TheHubIsRight == Spec => []HubIsRight
BY TheHubIsToldTheTruth, OnlyRestartsLoseReplies, PTL DEF HubIsRight

------------------------
(* The model tokens (ModelTokens).                                         *)
(*                                                                         *)
(* That no token of a live workload expires is a matter of time: TokensInv *)
(* bounds the pass in which the next renewal succeeds if no trouble comes  *)
(* in between (RenewedBy), and says that from there to the end of every    *)
(* token that the agent may have to live with there is room for all the    *)
(* troubles still to come.                                                 *)

(* The time by which the troubles still to come may put a renewal off. *)
Room == (MaxTroubles - troubles) * Setback

(* A token is handed over in the first pass p that no earlier failure puts *)
(* off, at once if it was minted before, else when it is due and the hub   *)
(* mints again, which it may have refused once before.                     *)
Later(a, b) == IF a > b THEN a ELSE b
Try(p, retryAt) == IF retryAt # NoToken THEN Later(retryAt, p) ELSE p
Mint(try, expires) == Later(expires - Margin, try)
Refused(at, mint) == mint # NoToken /\ mint + MintInterval > at
Minted(at, mint) == IF Refused(at, mint) THEN at + MintInterval ELSE at
Renewal(p, r, mint) ==
  IF r.unpushed # NoToken THEN Try(p, r.retryAt)
  ELSE Minted(Mint(Try(p, r.retryAt), r.expires), mint)

NextPass == IF passed THEN clock + 1 ELSE clock
NextTry == Try(NextPass, record.retryAt)
RenewedBy == Renewal(NextPass, record, lastMint)

(* The token t outlives the next renewal, whatever troubles come. *)
Outlasts(t) == RenewedBy + Room < Expiry(t)

------------------------
(* No token is newer than the clock, nor is anything due further ahead     *)
(* than the intervals say.                                                 *)
TokensPast ==
  /\ lastMint # NoToken => lastMint <= clock
  /\ held # NoToken => held <= clock
  /\ tokenFile # NoToken => tokenFile <= clock
  /\ \A t \in wire : t <= clock
  /\ record.unpushed # NoToken => record.unpushed <= clock
  /\ record.expires # NoToken => record.expires <= clock + Ttl
  /\ record.retryAt # NoToken => record.retryAt <= clock + MintInterval + PushRetry

(* The spoke renews the token of a workload it knows to have one. *)
Renews == alive /\ hubKnows /\ record.expires # NoToken

RecordKept ==
  /\ hubKnows /\ record.expires = NoToken => record = Untold
  /\ record.unpushed # NoToken => troubles >= 1

(* A token that waits to be handed over is still good when it is, and      *)
(* until it is renewed.                                                    *)
WaitingIsGood ==
  Renews /\ record.unpushed # NoToken =>
    NextTry + 1 + MintInterval + Room < Expiry(record.unpushed)

(* So is the token the helper reads, and the one that may come late, to an *)
(* agent that holds none.                                                  *)
FileIsGood ==
  alive /\ hubKnows /\ handed = "yes" =>
    /\ record.expires # NoToken
    /\ tokenFile # NoToken /\ Outlasts(tokenFile)
    /\ held = NoToken => \A t \in wire : Outlasts(t)

HeldInFile == held # NoToken => tokenFile = held

TokensInv ==
  /\ TokensTypeOK
  /\ HeldInFile
  /\ TokensPast
  /\ RecordKept
  /\ WaitingIsGood
  /\ FileIsGood

------------------------
(* Arithmetic: what is left of the margin, and what a trouble takes. *)
LEMMA SetbackType ==
  /\ Setback \in Nat /\ MintInterval < Setback /\ PushRetry <= Setback
  /\ MaxTroubles * Setback \in Nat BY TimesAssumption DEF Setback

LEMMA RoomType ==
  ASSUME troubles \in 0..MaxTroubles
  PROVE  /\ Room \in Nat /\ Room < Margin
         /\ troubles >= 1 => Room + Setback < Margin
<1> DEFINE n == MaxTroubles - troubles
<1>1. n \in Nat /\ n <= MaxTroubles BY TimesAssumption
<1>2. n * Setback \in Nat /\ n * Setback <= MaxTroubles * Setback BY <1>1, SetbackType, TimesAssumption
<1>3. troubles >= 1 => n + 1 <= MaxTroubles BY TimesAssumption
<1>4. troubles >= 1 => (n + 1) * Setback <= MaxTroubles * Setback BY <1>1, <1>3, SetbackType, TimesAssumption
<1>5. (n + 1) * Setback = n * Setback + Setback BY <1>1, SetbackType
<1> HIDE DEF n
<1>6. Room = n * Setback BY DEF Room, n
<1> QED BY <1>2, <1>4, <1>5, <1>6, MarginAssumption, SetbackType, TimesAssumption

LEMMA RoomTaken ==
  ASSUME troubles \in 0..MaxTroubles, Trouble
  PROVE  Room' = Room - Setback /\ Room' \in Nat /\ troubles' \in 0..MaxTroubles
<1> DEFINE n == MaxTroubles - troubles
<1>1. n \in Nat /\ n >= 1 /\ MaxTroubles - troubles' = n - 1 /\ troubles' \in 0..MaxTroubles
  BY TimesAssumption DEF Trouble
<1>2. (n - 1) * Setback = n * Setback - Setback BY <1>1, SetbackType
<1>3. (n - 1) * Setback \in Nat BY <1>1, SetbackType
<1> QED BY <1>1, <1>2, <1>3 DEF Room

------------------------

(* The constants, without the product that bounds the troubles. *)
LEMMA Times ==
  /\ Ttl \in Nat /\ Margin \in Nat /\ MintInterval \in Nat /\ PushRetry \in Nat
  /\ MaxTime \in Nat /\ MaxOffers \in Nat /\ MaxTroubles \in Nat
  /\ NoToken \notin Int /\ Setback \in Nat
  /\ MintInterval < Setback /\ PushRetry <= Setback
  /\ Margin + 2 * MintInterval + PushRetry < Ttl BY TimesAssumption, MarginAssumption, SetbackType

USE Times

MaybeTimes == Int \cup {NoToken}

(* A pass one tick later puts a renewal off by a tick at most. *)
LEMMA TryType ==
  ASSUME NEW p \in Int, NEW at \in MaybeTimes
  PROVE  Try(p, at) \in Int /\ Try(p, at) >= p BY DEF Try, Later, MaybeTimes

LEMMA TryShifts ==
  ASSUME NEW p \in Int, NEW at \in MaybeTimes
  PROVE  Try(p + 1, at) <= Try(p, at) + 1 BY DEF Try, Later, MaybeTimes

LEMMA MintType ==
  ASSUME NEW try \in Int, NEW expires \in Int
  PROVE  Mint(try, expires) \in Int /\ Mint(try, expires) >= try BY DEF Mint, Later

LEMMA MintedType ==
  ASSUME NEW at \in Int, NEW mint \in MaybeTimes
  PROVE  Minted(at, mint) \in Int /\ Minted(at, mint) >= at /\ Minted(at, mint) <= at + MintInterval
BY DEF Minted, Refused, MaybeTimes

LEMMA MintedGrows ==
  ASSUME NEW a \in Int, NEW b \in Int, NEW mint \in MaybeTimes, a <= b, b <= a + 1
  PROVE  Minted(b, mint) <= Minted(a, mint) + 1 BY DEF Minted, Refused, MaybeTimes

TimeRecords == [expires: MaybeTimes, retryAt: MaybeTimes, unpushed: MaybeTimes]

LEMMA RenewalType ==
  ASSUME NEW p \in Int, NEW r \in TimeRecords, NEW m \in MaybeTimes, r.expires # NoToken
  PROVE  /\ Try(p, r.retryAt) \in Int /\ Try(p, r.retryAt) >= p
         /\ Renewal(p, r, m) \in Int /\ Renewal(p, r, m) >= Try(p, r.retryAt)
<1>1. r.retryAt \in MaybeTimes /\ r.expires \in Int BY DEF TimeRecords, MaybeTimes
<1> DEFINE t == Try(p, r.retryAt)  u == Mint(t, r.expires)
<1>2. t \in Int /\ t >= p BY <1>1, TryType
<1> HIDE DEF t
<1>3. u \in Int /\ u >= t BY <1>1, <1>2, MintType
<1> HIDE DEF u
<1>4. Minted(u, m) \in Int /\ Minted(u, m) >= u BY <1>3, MintedType
<1> QED BY <1>2, <1>3, <1>4 DEF Renewal, t, u

LEMMA RenewalShifts ==
  ASSUME NEW p \in Int, NEW r \in TimeRecords, NEW m \in MaybeTimes, r.expires # NoToken
  PROVE  Renewal(p + 1, r, m) <= Renewal(p, r, m) + 1
<1>1. r.retryAt \in MaybeTimes /\ r.expires \in Int BY DEF TimeRecords, MaybeTimes
<1> DEFINE t == Try(p, r.retryAt)  t1 == Try(p + 1, r.retryAt)
<1>2. t \in Int /\ t1 \in Int /\ t <= t1 /\ t1 <= t + 1 BY <1>1 DEF Try, Later, MaybeTimes
<1> HIDE DEF t, t1
<1>3. /\ Mint(t, r.expires) \in Int /\ Mint(t1, r.expires) \in Int
      /\ Mint(t, r.expires) <= Mint(t1, r.expires)
      /\ Mint(t1, r.expires) <= Mint(t, r.expires) + 1 BY <1>1, <1>2 DEF Mint, Later
<1>4. Minted(Mint(t1, r.expires), m) <= Minted(Mint(t, r.expires), m) + 1 BY <1>3, MintedGrows
<1> QED BY <1>2, <1>4 DEF Renewal, t, t1

(* A mint the spoke does not know of puts it off by an interval at most. *)
LEMMA RenewalAgain ==
  ASSUME NEW p \in Int, NEW r \in TimeRecords, NEW m \in MaybeTimes, NEW n \in MaybeTimes,
         r.expires # NoToken
  PROVE  Renewal(p, r, n) <= Renewal(p, r, m) + MintInterval
<1>1. r.retryAt \in MaybeTimes /\ r.expires \in Int BY DEF TimeRecords, MaybeTimes
<1>2. Try(p, r.retryAt) \in Int BY <1>1, TryType
<1>3. Mint(Try(p, r.retryAt), r.expires) \in Int BY <1>1, <1>2, MintType
<1> QED BY <1>2, <1>3, MintedType DEF Renewal

(* A renewal is a margin ahead of the end of a token minted now. *)
LEMMA RenewalBound ==
  ASSUME NEW c \in Int, NEW p \in Int, NEW r \in TimeRecords, NEW m \in MaybeTimes,
         p <= c + 1, r.expires # NoToken, r.expires <= c + Ttl,
         r.retryAt # NoToken => r.retryAt <= c + MintInterval + PushRetry,
         m # NoToken => m <= c
  PROVE  Renewal(p, r, m) <= c + Ttl - Margin
<1>1. r.retryAt \in MaybeTimes /\ r.expires \in Int BY DEF TimeRecords, MaybeTimes
<1> DEFINE t == Try(p, r.retryAt)  u == Mint(t, r.expires)
<1>2. t \in Int /\ t <= c + Ttl - Margin BY <1>1 DEF Try, Later, MaybeTimes
<1> HIDE DEF t
<1>3. u \in Int /\ u <= c + Ttl - Margin BY <1>1, <1>2 DEF Mint, Later
<1> HIDE DEF u
<1>4. Minted(u, m) <= c + Ttl - Margin BY <1>3 DEF Minted, Refused, MaybeTimes
<1> QED BY <1>2, <1>4 DEF Renewal, t, u

------------------------
LEMMA InitHolds ==
  ASSUME TokensInit
  PROVE  TokensInv
<1> USE DEF TokensInit, Untold
<1>1. /\ clock \in Tokens /\ lastMint \in Tokens \cup {NoToken}
      /\ offers \in 0..MaxOffers /\ troubles \in 0..MaxTroubles BY DEF Tokens
<1>2. /\ hubKnows \in BOOLEAN /\ alive \in BOOLEAN /\ passed \in BOOLEAN
      /\ handed \in {"no", "yes", "forgotten"} OBVIOUS
<1>3. /\ held \in Tokens \cup {NoToken} /\ tokenFile \in Tokens \cup {NoToken}
      /\ wire \subseteq Tokens
      /\ record \in [expires: Moments \cup {NoToken}, retryAt: Moments \cup {NoToken},
                     unpushed: Tokens \cup {NoToken}] OBVIOUS
<1>4. HeldInFile /\ TokensPast /\ RecordKept /\ WaitingIsGood /\ FileIsGood
  BY DEF HeldInFile, TokensPast, RecordKept, WaitingIsGood, Renews, FileIsGood
<1> QED BY <1>1, <1>2, <1>3, <1>4 DEF TokensInv, TokensTypeOK

(* What every step starts from. *)
LEMMA Types ==
  ASSUME TokensTypeOK
  PROVE  /\ clock \in Nat /\ record \in TimeRecords /\ lastMint \in MaybeTimes
         /\ held \in MaybeTimes /\ tokenFile \in MaybeTimes /\ wire \subseteq Nat
         /\ NextPass \in Int /\ clock <= NextPass /\ NextPass <= clock + 1
BY DEF TokensTypeOK, Tokens, Moments, TimeRecords, MaybeTimes, NextPass

(* A pass, made or missed, leaves the next renewal where it was, or a tick *)
(* later for a trouble.                                                    *)
LEMMA TicksHold ==
  ASSUME TokensInv, ClockTicks
  PROVE  TokensInv'
<1> USE DEF TokensInv
<1>1. /\ clock' = clock + 1 /\ clock' \in Tokens /\ passed' = FALSE
      /\ troubles \in 0..MaxTroubles /\ troubles' \in 0..MaxTroubles /\ troubles <= troubles'
      /\ UNCHANGED <<lastMint, hubKnows, alive, record, held, tokenFile, wire, handed, offers>>
  BY DEF ClockTicks, Trouble, TokensTypeOK, Tokens
<1>2. TokensTypeOK' BY <1>1 DEF TokensTypeOK, Tokens, Moments
<1>3. HeldInFile' BY <1>1 DEF HeldInFile
<1>4. TokensPast' BY <1>1, Types DEF TokensPast, TimeRecords, MaybeTimes
<1>5. RecordKept' BY <1>1 DEF RecordKept, Untold
<1>6. /\ Room \in Nat /\ Room' \in Nat
      /\ \/ NextPass' = NextPass /\ Room' = Room
         \/ NextPass' = NextPass + 1 /\ Room' = Room - Setback
  <2>1. CASE passed BY <2>1, <1>1, RoomType DEF NextPass, Room, ClockTicks
  <2>2. CASE ~passed BY <2>2, <1>1, RoomType, RoomTaken DEF NextPass, ClockTicks
  <2> QED BY <2>1, <2>2
<1>7. ASSUME record.expires # NoToken
      PROVE  /\ NextTry \in Int /\ NextTry' \in Int /\ RenewedBy \in Int /\ RenewedBy' \in Int
             /\ NextTry' + Room' <= NextTry + Room /\ RenewedBy' + Room' <= RenewedBy + Room
  <2>1. /\ NextTry \in Int /\ RenewedBy \in Int
        /\ Try(NextPass + 1, record.retryAt) \in Int /\ Renewal(NextPass + 1, record, lastMint) \in Int
        /\ Try(NextPass + 1, record.retryAt) <= NextTry + 1
        /\ Renewal(NextPass + 1, record, lastMint) <= RenewedBy + 1
    BY <1>7, Types, RenewalType, RenewalShifts, TryShifts DEF NextTry, RenewedBy, TimeRecords
  <2>2. CASE NextPass' = NextPass /\ Room' = Room BY <2>1, <2>2, <1>1, <1>6 DEF NextTry, RenewedBy
  <2>3. CASE NextPass' = NextPass + 1 /\ Room' = Room - Setback
    <3>1. NextTry' = Try(NextPass + 1, record.retryAt) /\ RenewedBy' = Renewal(NextPass + 1, record, lastMint)
      BY <2>3, <1>1 DEF NextTry, RenewedBy
    <3> QED BY <2>1, <2>3, <3>1, <1>6
  <2> QED BY <2>2, <2>3, <1>6
<1>8. WaitingIsGood' BY <1>1, <1>6, <1>7, Types DEF WaitingIsGood, Renews, Expiry, TimeRecords, MaybeTimes
<1>9. FileIsGood' BY <1>1, <1>6, <1>7, Types DEF FileIsGood, Outlasts, Expiry, MaybeTimes
<1> QED BY <1>2, <1>3, <1>4, <1>5, <1>8, <1>9

LEMMA IntentHolds ==
  ASSUME TokensInv, IntentAgain
  PROVE  TokensInv'
<1> USE DEF TokensInv
<1>1. /\ offers' \in 0..MaxOffers /\ record' = Untold /\ handed' \in {"no", "yes", "forgotten"}
      /\ handed' # "yes"
      /\ UNCHANGED <<clock, lastMint, hubKnows, alive, passed, held, tokenFile, wire, troubles>>
  BY DEF IntentAgain, Offer, TokensTypeOK
<1>2. TokensTypeOK' BY <1>1 DEF TokensTypeOK, Tokens, Moments, Untold
<1>3. HeldInFile' BY <1>1 DEF HeldInFile
<1>4. TokensPast' BY <1>1 DEF TokensPast, Untold
<1>5. RecordKept' BY <1>1 DEF RecordKept, Untold
<1>6. WaitingIsGood' /\ FileIsGood' BY <1>1 DEF WaitingIsGood, Renews, FileIsGood, Untold
<1> QED BY <1>2, <1>3, <1>4, <1>5, <1>6

LEMMA SpokeRestartHolds ==
  ASSUME TokensInv, SpokeRestarts
  PROVE  TokensInv'
<1> USE DEF TokensInv
<1>1. /\ record' = [expires |-> clock, retryAt |-> NoToken, unpushed |-> NoToken]
      /\ Trouble
      /\ UNCHANGED <<clock, lastMint, hubKnows, alive, passed, held, tokenFile, wire, handed, offers>>
  BY DEF SpokeRestarts, Untold
<1>2. /\ Room \in Nat /\ Room' \in Nat /\ Room' = Room - Setback
      /\ troubles' \in 0..MaxTroubles BY <1>1, RoomType, RoomTaken DEF TokensTypeOK
<1>3. TokensTypeOK' BY <1>1, <1>2 DEF TokensTypeOK, Tokens, Moments
<1>4. HeldInFile' BY <1>1 DEF HeldInFile
<1>5. TokensPast' BY <1>1, Types DEF TokensPast
<1>6. RecordKept' BY <1>1, Types DEF RecordKept
<1>7. WaitingIsGood' BY <1>1 DEF WaitingIsGood, Renews
<1>8. NextPass' = NextPass BY <1>1 DEF NextPass
<1>9. RenewedBy' \in Int /\ RenewedBy' <= clock + Setback
  <2>1. Try(NextPass, NoToken) = NextPass /\ Mint(NextPass, clock) = NextPass BY Types DEF Try, Mint, Later
  <2>2. RenewedBy' = Minted(NextPass, lastMint) BY <1>1, <1>8, <2>1 DEF RenewedBy, Renewal
  <2> QED BY <2>2, MintedType, Types
<1>10. ASSUME record.expires # NoToken
       PROVE  RenewedBy \in Int /\ clock <= RenewedBy BY <1>10, Types, RenewalType DEF RenewedBy
<1>11. FileIsGood' BY <1>1, <1>2, <1>9, <1>10, Types DEF FileIsGood, Outlasts, Expiry, MaybeTimes
<1> QED BY <1>3, <1>4, <1>5, <1>6, <1>7, <1>11

LEMMA AgentRestartHolds ==
  ASSUME TokensInv, AgentRestarts
  PROVE  TokensInv'
<1> USE DEF TokensInv
<1>1. /\ held' = NoToken /\ wire' = {} /\ Trouble
      /\ UNCHANGED <<tokenFile, handed>> \/ (tokenFile' = NoToken /\ handed' = "no")
      /\ UNCHANGED <<clock, lastMint, hubKnows, alive, record, passed, offers>> BY DEF AgentRestarts
<1>2. /\ Room \in Nat /\ Room' \in Nat /\ Room' = Room - Setback
      /\ troubles' \in 0..MaxTroubles /\ troubles <= troubles' BY <1>1, RoomType, RoomTaken DEF TokensTypeOK, Trouble
<1>3. TokensTypeOK' BY <1>1, <1>2 DEF TokensTypeOK, Tokens, Moments
<1>4. HeldInFile' BY <1>1 DEF HeldInFile
<1>5. TokensPast' BY <1>1, Types DEF TokensPast
<1>6. RecordKept' BY <1>1, <1>2 DEF RecordKept, Untold, TokensTypeOK
<1>7. NextTry' = NextTry /\ RenewedBy' = RenewedBy BY <1>1 DEF NextTry, RenewedBy, NextPass
<1>8. ASSUME record.expires # NoToken
      PROVE  NextTry \in Int /\ RenewedBy \in Int BY <1>8, Types, RenewalType DEF RenewedBy, NextTry
<1>9. WaitingIsGood' BY <1>1, <1>2, <1>7, <1>8, Types DEF WaitingIsGood, Renews, Expiry, TimeRecords, MaybeTimes
<1>10. FileIsGood' BY <1>1, <1>2, <1>7, <1>8, Types DEF FileIsGood, Outlasts, Expiry, MaybeTimes
<1> QED BY <1>3, <1>4, <1>5, <1>6, <1>9, <1>10

LEMMA EndHolds ==
  ASSUME TokensInv, WorkloadEnds \/ HubForgets
  PROVE  TokensInv'
<1> USE DEF TokensInv
<1>1. /\ ~(alive /\ hubKnows)'
      /\ alive' \in BOOLEAN /\ hubKnows' \in BOOLEAN /\ handed' \in {"no", "yes", "forgotten"}
      /\ UNCHANGED <<held, tokenFile, wire>> \/ (held' = NoToken /\ tokenFile' = NoToken /\ wire' = {})
      /\ UNCHANGED <<clock, lastMint, record, passed, offers>>
      /\ UNCHANGED troubles \/ Trouble
      /\ hubKnows' => hubKnows
  <2>1. CASE WorkloadEnds BY <2>1 DEF WorkloadEnds, TokensTypeOK
  <2>2. CASE HubForgets BY <2>2 DEF HubForgets, TokensTypeOK
  <2> QED BY <2>1, <2>2
<1>1a. troubles' \in 0..MaxTroubles /\ troubles <= troubles' BY <1>1 DEF TokensTypeOK, Trouble
<1>2. TokensTypeOK' BY <1>1, <1>1a DEF TokensTypeOK, Tokens, Moments
<1>3. HeldInFile' BY <1>1 DEF HeldInFile
<1>4. TokensPast' BY <1>1, Types DEF TokensPast
<1>5. RecordKept'
  <2>1. record' = record /\ record'.unpushed = record.unpushed BY <1>1
  <2>2. record'.unpushed # NoToken => troubles' >= 1 BY <1>1a, <2>1 DEF RecordKept, TokensTypeOK
  <2>3. hubKnows' /\ record'.expires = NoToken => record' = Untold' BY <1>1, <2>1 DEF RecordKept, Untold
  <2> QED BY <2>2, <2>3 DEF RecordKept
<1>6. WaitingIsGood' /\ FileIsGood' BY <1>1 DEF WaitingIsGood, Renews, FileIsGood
<1> QED BY <1>2, <1>3, <1>4, <1>5, <1>6

(* What an agent does with a token that reaches it. *)
LEMMA TakesKeeps ==
  ASSUME TokensTypeOK, HeldInFile, TokensPast, NEW t \in Tokens, t <= clock, Takes(t)
  PROVE  \E h \in Tokens :
           /\ held' = h /\ tokenFile' = h /\ h <= clock /\ h >= t
           /\ held # NoToken => h >= held
           /\ held = NoToken => h = t
<1>1. CASE Newer(t) BY <1>1 DEF TokensTypeOK, Takes, Newer, Expiry, Tokens
<1>2. CASE ~Newer(t) BY <1>2 DEF TokensTypeOK, HeldInFile, TokensPast, Takes, Newer, Expiry, Tokens
<1> QED BY <1>1, <1>2

LEMMA LateHolds ==
  ASSUME TokensInv, NEW t \in Tokens, ArrivesLate(t)
  PROVE  TokensInv'
<1> USE DEF TokensInv
<1>1. /\ t \in wire /\ wire' = wire \ {t} /\ Takes(t)
      /\ UNCHANGED <<clock, lastMint, hubKnows, alive, record, passed, handed, offers, troubles>> BY DEF ArrivesLate
<1>2. t <= clock BY <1>1 DEF TokensPast
<1>3. PICK h \in Tokens :
        /\ held' = h /\ tokenFile' = h /\ h <= clock /\ h >= t
        /\ held # NoToken => h >= held
        /\ held = NoToken => h = t BY <1>1, <1>2, TakesKeeps
<1>4. TokensTypeOK' BY <1>1, <1>3 DEF TokensTypeOK, Tokens, Moments
<1>5. HeldInFile' BY <1>3 DEF HeldInFile
<1>6. TokensPast' BY <1>1, <1>3 DEF TokensPast
<1>7. RecordKept' BY <1>1 DEF RecordKept, Untold
<1>8. NextTry' = NextTry /\ RenewedBy' = RenewedBy /\ Room' = Room /\ Room \in Nat
  BY <1>1, RoomType DEF NextTry, RenewedBy, NextPass, Room, TokensTypeOK
<1>9. WaitingIsGood' BY <1>1, <1>8 DEF WaitingIsGood, Renews, Expiry
<1>10. ASSUME alive, hubKnows, handed = "yes"
       PROVE  record.expires # NoToken /\ RenewedBy + Room < Expiry(h)
  <2>1. /\ record.expires # NoToken /\ tokenFile # NoToken /\ Outlasts(tokenFile)
        /\ held = NoToken => Outlasts(t) BY <1>1, <1>10 DEF FileIsGood
  <2>2. RenewedBy \in Int BY <2>1, Types, RenewalType DEF RenewedBy
  <2>3. CASE held = NoToken BY <2>1, <2>3, <1>3 DEF Outlasts
  <2>4. CASE held # NoToken
    <3>1. tokenFile = held /\ held \in Int BY <2>4, Types DEF HeldInFile, MaybeTimes
    <3> QED BY <2>1, <2>2, <2>4, <3>1, <1>3, <1>8 DEF Outlasts, Expiry, Tokens
  <2> QED BY <2>3, <2>4
<1>11. FileIsGood' BY <1>1, <1>3, <1>8, <1>10 DEF FileIsGood, Outlasts, Expiry, Tokens
<1> QED BY <1>4, <1>5, <1>6, <1>7, <1>9, <1>11

------------------------
(* A renewal that starts from a token minted now has the whole margin. *)
LEMMA FreshOutlasts ==
  ASSUME NEW c \in Int, NEW p \in Int, NEW r \in TimeRecords, NEW m \in MaybeTimes, NEW k \in Int,
         p <= c + 1, r.expires # NoToken, r.expires <= c + Ttl, k < Margin,
         r.retryAt # NoToken => r.retryAt <= c + MintInterval + PushRetry,
         m # NoToken => m <= c
  PROVE  Renewal(p, r, m) + k < c + Ttl
<1>1. Renewal(p, r, m) <= c + Ttl - Margin BY RenewalBound
<1>2. Renewal(p, r, m) \in Int BY RenewalType
<1> QED BY <1>1, <1>2

LEMMA DeliverHolds ==
  ASSUME TokensInv, Deliver
  PROVE  TokensInv'
<1> USE DEF TokensInv
<1>1. /\ alive /\ ~passed /\ offers' \in 0..MaxOffers
      /\ UNCHANGED <<clock, hubKnows, alive, passed>> BY DEF Deliver, Offer, TokensTypeOK
<1>2. PICK m \in Tokens \cup {NoToken} : lastMint' = m /\ (m # NoToken => m <= clock)
  BY DEF Deliver, TokensTypeOK, TokensPast, Tokens
<1>3. clock \in Tokens /\ clock \in Int /\ m \in MaybeTimes /\ NextPass = clock /\ NextPass' = clock
  BY <1>1, <1>2 DEF NextPass, TokensTypeOK, Tokens, MaybeTimes
<1>4. Room \in Int /\ Room >= 0 /\ Room < Margin BY RoomType DEF TokensTypeOK
<1>5. ASSUME Takes(clock)
      PROVE  held' = clock /\ tokenFile' = clock
  <2>1. PICK h \in Tokens : held' = h /\ tokenFile' = h /\ h <= clock /\ h >= clock BY <1>3, <1>5, TakesKeeps
  <2> QED BY <2>1, <1>3 DEF Tokens
<1>6. CASE /\ Takes(clock) /\ handed' = "yes"
           /\ record' = [record EXCEPT !.expires = Expiry(clock), !.retryAt = NoToken]
           /\ UNCHANGED <<wire, troubles>>
  <2> DEFINE r == [record EXCEPT !.expires = Expiry(clock), !.retryAt = NoToken]
  <2>1. /\ r \in TimeRecords /\ r.expires = clock + Ttl /\ r.expires # NoToken
        /\ r.retryAt = NoToken /\ r.unpushed = record.unpushed /\ r.expires \in Moments
    <3>1. Expiry(clock) = clock + Ttl /\ Expiry(clock) \in Moments /\ Expiry(clock) \in MaybeTimes
      BY <1>3 DEF Expiry, Moments, Tokens, MaybeTimes
    <3>2. record \in TimeRecords /\ NoToken \in MaybeTimes BY Types DEF MaybeTimes
    <3>3. /\ r \in TimeRecords /\ r.expires = Expiry(clock)
          /\ r.retryAt = NoToken /\ r.unpushed = record.unpushed BY <3>1, <3>2 DEF TimeRecords
    <3> QED BY <1>3, <3>1, <3>3
  <2>2. record' = r /\ Room' = Room BY <1>6 DEF Room
  <2>3. TokensTypeOK' BY <1>1, <1>2, <1>3, <1>5, <1>6, <2>1 DEF TokensTypeOK, Moments
  <2>4. HeldInFile' BY <1>5, <1>6 DEF HeldInFile
  <2> HIDE DEF r
  <2>5. TokensPast'
    <3>1. record'.expires = clock + Ttl /\ record'.retryAt = NoToken /\ record'.unpushed = record.unpushed
      BY <2>1, <2>2
    <3> QED BY <1>1, <1>2, <1>3, <1>5, <1>6, <3>1 DEF TokensPast
  <2>6. RecordKept' BY <1>1, <1>6, <2>1, <2>2 DEF RecordKept
  <2>7. WaitingIsGood'
    <3>1. SUFFICES ASSUME hubKnows, record.unpushed # NoToken
                   PROVE  clock + 1 + MintInterval + Room < Expiry(record.unpushed)
      <4>1. NextTry' = clock BY <1>3, <2>1, <2>2 DEF NextTry, Try
      <4> QED BY <4>1, <1>1, <2>1, <2>2 DEF WaitingIsGood, Renews, Expiry
    <3>2. record.expires # NoToken BY <3>1 DEF RecordKept, Untold
    <3>3. NextTry + 1 + MintInterval + Room < Expiry(record.unpushed) BY <1>1, <3>1, <3>2 DEF WaitingIsGood, Renews
    <3>4. NextTry \in Int /\ clock <= NextTry /\ record.unpushed \in Int
      BY <1>3, <3>1, <3>2, Types, RenewalType DEF NextTry, TimeRecords, MaybeTimes
    <3> QED BY <1>3, <1>4, <3>3, <3>4 DEF Expiry
  <2>8. FileIsGood'
    <3>1. RenewedBy' = Renewal(clock, r, m) BY <1>2, <1>3, <2>2 DEF RenewedBy
    <3>2. Renewal(clock, r, m) + Room < clock + Ttl
      <4>1. clock <= clock + 1 /\ r.expires <= clock + Ttl BY <1>3, <2>1
      <4> QED BY <1>2, <1>3, <1>4, <2>1, <4>1, FreshOutlasts
    <3>3. held' # NoToken /\ tokenFile' # NoToken BY <1>3, <1>5, <1>6
    <3> QED BY <1>5, <1>6, <2>1, <2>2, <3>1, <3>2, <3>3 DEF FileIsGood, Outlasts, Expiry
  <2> QED BY <2>3, <2>4, <2>5, <2>6, <2>7, <2>8
<1>7. CASE Takes(clock) /\ UNCHANGED <<record, wire, handed, troubles>>
  <2>1. Room' = Room /\ NextTry' = NextTry BY <1>1, <1>7 DEF Room, NextTry, NextPass
  <2>2. TokensTypeOK' BY <1>1, <1>2, <1>3, <1>5, <1>7 DEF TokensTypeOK, Moments
  <2>3. HeldInFile' BY <1>5, <1>7 DEF HeldInFile
  <2>4. TokensPast' BY <1>1, <1>2, <1>3, <1>5, <1>7 DEF TokensPast
  <2>5. RecordKept' BY <1>1, <1>7 DEF RecordKept, Untold
  <2>6. WaitingIsGood' BY <1>1, <1>7, <2>1 DEF WaitingIsGood, Renews, Expiry
  <2>7. FileIsGood'
    <3>1. RenewedBy' = Renewal(clock, record, m) BY <1>2, <1>3, <1>7 DEF RenewedBy
    <3>2. ASSUME record.expires # NoToken
          PROVE  Renewal(clock, record, m) + Room < clock + Ttl
      <4>1. record \in TimeRecords /\ clock <= clock + 1 BY <1>3, Types
      <4> QED BY <1>2, <1>3, <1>4, <3>2, <4>1, FreshOutlasts DEF TokensPast
    <3>3. held' # NoToken /\ tokenFile' # NoToken BY <1>3, <1>5, <1>7
    <3> QED BY <1>1, <1>5, <1>7, <2>1, <3>1, <3>2, <3>3 DEF FileIsGood, Outlasts, Expiry
  <2> QED BY <2>2, <2>3, <2>4, <2>5, <2>6, <2>7
<1>8. CASE /\ Trouble /\ TakesNone /\ wire' \in {wire, wire \cup {clock}}
           /\ UNCHANGED <<record, handed>>
  <2>1. /\ NextTry' = NextTry /\ Room' = Room - Setback /\ Room' \in Nat
        /\ troubles' \in 0..MaxTroubles /\ troubles' >= troubles
        /\ UNCHANGED <<held, tokenFile>>
    BY <1>1, <1>8, RoomTaken DEF NextTry, NextPass, TokensTypeOK, Trouble, TakesNone
  <2>2. TokensTypeOK' BY <1>1, <1>2, <1>3, <1>8, <2>1 DEF TokensTypeOK, Moments
  <2>3. HeldInFile' BY <2>1 DEF HeldInFile
  <2>4. TokensPast' BY <1>1, <1>2, <1>3, <1>8, <2>1 DEF TokensPast
  <2>5. RecordKept' BY <1>1, <1>8, <2>1 DEF RecordKept, Untold, TokensTypeOK
  <2>6. ASSUME record.expires # NoToken
        PROVE  /\ NextTry \in Int /\ RenewedBy \in Int /\ RenewedBy' \in Int
               /\ RenewedBy' <= RenewedBy + MintInterval
               /\ RenewedBy' + Room' < clock + Ttl
    <3>1. RenewedBy' = Renewal(clock, record, m) /\ RenewedBy = Renewal(clock, record, lastMint)
      BY <1>2, <1>3, <1>8 DEF RenewedBy
    <3>2. Renewal(clock, record, m) + Room < clock + Ttl
      <4>1. record \in TimeRecords /\ clock <= clock + 1 BY <1>3, Types
      <4> QED BY <1>2, <1>3, <1>4, <2>6, <4>1, FreshOutlasts DEF TokensPast
    <3>3. /\ NextTry \in Int /\ Renewal(clock, record, lastMint) \in Int /\ Renewal(clock, record, m) \in Int
          /\ Renewal(clock, record, m) <= Renewal(clock, record, lastMint) + MintInterval
      BY <1>3, <2>6, Types, RenewalType, RenewalAgain DEF NextTry
    <3> QED BY <1>3, <1>4, <2>1, <3>1, <3>2, <3>3
  <2>7. WaitingIsGood'
    BY <1>1, <1>4, <1>8, <2>1, <2>6, Types DEF WaitingIsGood, Renews, Expiry, TimeRecords, MaybeTimes
  <2>8. FileIsGood' BY <1>1, <1>3, <1>4, <1>8, <2>1, <2>6, Types DEF FileIsGood, Outlasts, Expiry, MaybeTimes
  <2> QED BY <2>2, <2>3, <2>4, <2>5, <2>7, <2>8
<1> QED BY <1>6, <1>7, <1>8 DEF Deliver

------------------------
(* A pass. What is due is not put off; a token that waits has not expired. *)
LEMMA WaitsUnexpired ==
  ASSUME TokensInv, Renews
  PROVE  Unpushed = record.unpushed
<1>1. CASE record.unpushed = NoToken BY <1>1 DEF Unpushed
<1>2. CASE record.unpushed # NoToken
  <2>1. NextTry + 1 + MintInterval + Room < Expiry(record.unpushed) BY <1>2 DEF TokensInv, WaitingIsGood
  <2>2. /\ NextTry \in Int /\ clock <= NextTry /\ clock \in Int /\ Room \in Nat
        /\ record.unpushed \in Int
    <3>1. record.unpushed \in Int /\ Room \in Nat
      BY <1>2, Types, RoomType DEF TokensInv, TokensTypeOK, TimeRecords, MaybeTimes
    <3>2. NextTry \in Int /\ NextPass <= NextTry BY Types, RenewalType DEF TokensInv, Renews, NextTry
    <3> QED BY <3>1, <3>2, Types DEF TokensInv
  <2> QED BY <1>2, <2>1, <2>2 DEF Unpushed, Expired, Expiry
<1> QED BY <1>1, <1>2

LEMMA IdleRefreshHolds ==
  ASSUME TokensInv, ~passed, passed' = TRUE, ~(alive /\ Due), NoPush,
         UNCHANGED <<record, lastMint, troubles, clock, hubKnows, alive, offers>>
  PROVE  TokensInv'
<1> USE DEF TokensInv
<1>1. UNCHANGED <<held, tokenFile, wire, handed>> BY DEF NoPush, TakesNone
<1>2. TokensTypeOK' BY <1>1 DEF TokensTypeOK, Tokens, Moments
<1>3. HeldInFile' BY <1>1 DEF HeldInFile
<1>4. TokensPast' BY <1>1 DEF TokensPast
<1>5. RecordKept' BY DEF RecordKept, Untold
<1>6. Room' = Room /\ NextPass = clock /\ NextPass' = clock + 1 /\ clock \in Int BY Types DEF Room, NextPass
<1>7. ASSUME Renews
      PROVE  /\ RenewedBy' = RenewedBy
             /\ record.unpushed # NoToken => NextTry' = NextTry
  <2>1. Unpushed = record.unpushed /\ record \in TimeRecords /\ record.expires \in Int
    BY <1>7, Types, WaitsUnexpired DEF Renews, TimeRecords, MaybeTimes
  <2>2. CASE record.retryAt # NoToken /\ record.retryAt > clock
    <3>1. Try(clock + 1, record.retryAt) = Try(clock, record.retryAt)
      BY <2>1, <2>2, <1>6 DEF Try, Later, TimeRecords, MaybeTimes
    <3> QED BY <3>1, <1>6 DEF NextTry, RenewedBy, Renewal
  <2>3. CASE ~(record.retryAt # NoToken /\ record.retryAt > clock)
    <3>1. record.unpushed = NoToken /\ clock < record.expires - Margin
      BY <2>1, <2>3, <1>6, <1>7 DEF Due, Renews, TimeRecords, MaybeTimes
    <3>2. Try(clock + 1, record.retryAt) = clock + 1 /\ Try(clock, record.retryAt) = clock
      BY <2>1, <2>3, <1>6 DEF Try, Later, TimeRecords, MaybeTimes
    <3>3. Mint(clock + 1, record.expires) = Mint(clock, record.expires) BY <2>1, <3>1, <1>6 DEF Mint, Later
    <3> QED BY <3>1, <3>2, <3>3, <1>6 DEF RenewedBy, Renewal
  <2> QED BY <2>2, <2>3
<1>8. WaitingIsGood' BY <1>6, <1>7 DEF WaitingIsGood, Renews, Expiry
<1>9. FileIsGood' BY <1>1, <1>6, <1>7 DEF FileIsGood, Renews, Outlasts, Expiry
<1> QED BY <1>2, <1>3, <1>4, <1>5, <1>8, <1>9

(* A push, of a token that waited or of one minted in this pass. *)
PushStep(t) ==
  /\ ~passed /\ passed' = TRUE /\ alive /\ Due /\ Push(t)
  /\ UNCHANGED <<clock, hubKnows, alive, offers>>
  /\ \/ t = Unpushed /\ t # NoToken /\ UNCHANGED lastMint
     \/ Unpushed = NoToken /\ hubKnows /\ t = clock /\ lastMint' = clock

LEMMA PushTimes ==
  ASSUME TokensInv, NEW t \in Tokens, PushStep(t)
  PROVE  /\ record.expires # NoToken /\ clock \in Int /\ clock \in Tokens /\ t \in Int /\ t <= clock
         /\ NextPass = clock /\ NextPass' = clock + 1 /\ Try(clock, record.retryAt) = clock
         /\ Room \in Int /\ Room >= 0 /\ Room < Margin
         /\ t # clock => troubles >= 1
         /\ hubKnows => clock + 1 + MintInterval + Room < t + Ttl
         /\ hubKnows => RenewedBy >= clock /\ RenewedBy \in Int
<1> USE DEF TokensInv
<1>1. record.expires # NoToken /\ clock \in Int /\ clock \in Tokens /\ record \in TimeRecords /\ t \in Int
  BY Types DEF PushStep, Due, TokensTypeOK, Tokens
<1>2. NextPass = clock /\ NextPass' = clock + 1 BY DEF PushStep, NextPass
<1>3. Try(clock, record.retryAt) = clock BY <1>1 DEF PushStep, Due, Try, Later, TimeRecords, MaybeTimes
<1>4. Room \in Int /\ Room >= 0 /\ Room < Margin BY RoomType DEF TokensTypeOK
<1>5. CASE t = Unpushed /\ t # NoToken
  <2>1. t = record.unpushed BY <1>5 DEF Unpushed
  <2>2. t <= clock /\ troubles >= 1 BY <1>5, <2>1 DEF TokensPast, RecordKept
  <2>3. hubKnows => clock + 1 + MintInterval + Room < t + Ttl
    BY <1>1, <1>2, <1>3, <1>5, <2>1 DEF PushStep, WaitingIsGood, Renews, NextTry, Expiry
  <2> QED BY <1>1, <1>2, <1>3, <1>4, <2>2, <2>3, Types, RenewalType DEF RenewedBy
<1>6. CASE t = clock BY <1>1, <1>2, <1>3, <1>4, <1>6, Types, RenewalType DEF RenewedBy
<1> QED BY <1>5, <1>6 DEF PushStep

LEMMA PushHolds ==
  ASSUME TokensInv, NEW t \in Tokens, PushStep(t)
  PROVE  TokensInv'
<1> USE DEF TokensInv
<1>1. /\ record.expires # NoToken /\ clock \in Int /\ clock \in Tokens /\ t \in Int /\ t <= clock
      /\ NextPass = clock /\ NextPass' = clock + 1 /\ Try(clock, record.retryAt) = clock
      /\ Room \in Int /\ Room >= 0 /\ Room < Margin
      /\ t # clock => troubles >= 1
      /\ hubKnows => clock + 1 + MintInterval + Room < t + Ttl
      /\ hubKnows => RenewedBy >= clock /\ RenewedBy \in Int BY PushTimes
<1>2. /\ alive /\ passed' = TRUE
      /\ UNCHANGED <<clock, hubKnows, alive, offers>> BY DEF PushStep
<1>3. PICK m \in Tokens \cup {NoToken} : /\ lastMint' = m /\ (m # NoToken => m <= clock)
  BY <1>1 DEF PushStep, TokensTypeOK, TokensPast
<1>4. CASE /\ Takes(t) /\ handed' = "yes"
           /\ record' = [expires |-> Expiry(t), retryAt |-> NoToken, unpushed |-> NoToken]
           /\ UNCHANGED <<wire, troubles>>
  <2> DEFINE r == [expires |-> Expiry(t), retryAt |-> NoToken, unpushed |-> NoToken]
  <2>1. /\ Expiry(t) = t + Ttl /\ Expiry(t) \in Moments /\ Expiry(t) \in Int /\ NoToken # Expiry(t)
        /\ NoToken \in MaybeTimes /\ Expiry(t) \in MaybeTimes BY <1>1 DEF Expiry, Moments, Tokens, MaybeTimes
  <2>2. r \in TimeRecords /\ record' = r /\ Room' = Room BY <1>4, <2>1 DEF TimeRecords, Room
  <2>3. PICK h \in Tokens :
          /\ held' = h /\ tokenFile' = h /\ h <= clock /\ h >= t
          /\ held # NoToken => h >= held
          /\ held = NoToken => h = t BY <1>1, <1>4, TakesKeeps
  <2>4. TokensTypeOK' BY <1>1, <1>2, <1>3, <1>4, <2>1, <2>3 DEF TokensTypeOK
  <2>5. HeldInFile' BY <2>3 DEF HeldInFile
  <2>6. TokensPast' BY <1>1, <1>2, <1>3, <1>4, <2>1, <2>3 DEF TokensPast
  <2>7. RecordKept' BY <1>4, <2>1 DEF RecordKept
  <2>8. WaitingIsGood' BY <1>4 DEF WaitingIsGood
  <2>9. ASSUME hubKnows
        PROVE  Renewal(clock + 1, r, m) + Room < t + Ttl /\ Renewal(clock + 1, r, m) \in Int
    <3>1. m \in MaybeTimes /\ Try(clock + 1, NoToken) = clock + 1 BY <1>3 DEF MaybeTimes, Tokens, Try
    <3> DEFINE u == Mint(clock + 1, Expiry(t))
    <3>2. u \in Int /\ (u = clock + 1 \/ u = t + Ttl - Margin) BY <1>1, <2>1 DEF Mint, Later
    <3>3. Renewal(clock + 1, r, m) = Minted(u, m) BY <3>1 DEF Renewal
    <3> HIDE DEF u
    <3>4. Minted(u, m) \in Int /\ Minted(u, m) <= u + MintInterval BY <3>1, <3>2, MintedType
    <3>5. CASE u = clock + 1 BY <1>1, <2>9, <3>3, <3>4, <3>5
    <3>6. CASE u = t + Ttl - Margin /\ t # clock
      <4>1. Room + Setback < Margin BY <1>1, <3>6, RoomType DEF TokensTypeOK
      <4> QED BY <1>1, <3>3, <3>4, <3>6, <4>1
    <3>7. CASE u = t + Ttl - Margin /\ t = clock
      <4>1. Minted(u, m) = u BY <1>1, <1>3, <3>2, <3>7 DEF Minted, Refused, Tokens
      <4> QED BY <1>1, <3>3, <3>4, <3>7, <4>1
    <3> QED BY <3>2, <3>5, <3>6, <3>7
  <2>10. FileIsGood'
    <3>1. RenewedBy' = Renewal(clock + 1, r, m) BY <1>1, <1>3, <2>2 DEF RenewedBy
    <3>2. ASSUME hubKnows
          PROVE  Renewal(clock + 1, r, m) + Room < h + Ttl BY <1>1, <2>3, <2>9, <3>2 DEF Tokens
    <3>3. h # NoToken BY DEF Tokens
    <3> QED BY <1>2, <2>1, <2>2, <2>3, <3>1, <3>2, <3>3 DEF FileIsGood, Outlasts, Expiry
  <2> QED BY <2>4, <2>5, <2>6, <2>7, <2>8, <2>10
<1>5. CASE /\ Trouble /\ TakesNone
           /\ record' = [record EXCEPT !.retryAt = clock + PushRetry, !.unpushed = t]
           /\ wire' \in {wire, wire \cup {t}}
           /\ UNCHANGED handed
  <2> DEFINE r == [record EXCEPT !.retryAt = clock + PushRetry, !.unpushed = t]
  <2>1. /\ Room' = Room - Setback /\ Room' \in Nat /\ UNCHANGED <<held, tokenFile>>
        /\ troubles' \in 0..MaxTroubles /\ troubles' >= 1 BY <1>5, RoomTaken DEF TokensTypeOK, Trouble, TakesNone
  <2>2. /\ clock + PushRetry \in Moments /\ clock + PushRetry \in MaybeTimes /\ t \in MaybeTimes
        /\ clock + PushRetry # NoToken /\ t # NoToken BY <1>1 DEF Moments, Tokens, MaybeTimes
  <2>3. /\ record' = r /\ r.expires = record.expires /\ r.retryAt = clock + PushRetry /\ r.unpushed = t
        /\ r \in TimeRecords BY <1>5, <2>2, Types DEF TimeRecords
  <2>4. r \in [expires: Moments \cup {NoToken}, retryAt: Moments \cup {NoToken},
               unpushed: Tokens \cup {NoToken}] BY <2>2 DEF TokensTypeOK
  <2> HIDE DEF r
  <2>5. TokensTypeOK' BY <1>1, <1>2, <1>3, <1>5, <2>1, <2>3, <2>4 DEF TokensTypeOK
  <2>6. HeldInFile' BY <2>1 DEF HeldInFile
  <2>7. TokensPast' BY <1>1, <1>2, <1>3, <1>5, <2>1, <2>3 DEF TokensPast
  <2>8. RecordKept' BY <1>1, <2>1, <2>3 DEF RecordKept
  <2>9. Try(clock + 1, clock + PushRetry) \in Int /\ Try(clock + 1, clock + PushRetry) <= clock + Setback
    BY <1>1 DEF Try, Later
  <2>10. NextTry' = Try(clock + 1, clock + PushRetry) /\ RenewedBy' = Try(clock + 1, clock + PushRetry)
    BY <1>1, <2>2, <2>3 DEF NextTry, RenewedBy, Renewal
  <2>11. WaitingIsGood' BY <1>1, <1>2, <2>1, <2>3, <2>9, <2>10 DEF WaitingIsGood, Renews, Expiry
  <2>12. FileIsGood' BY <1>1, <1>2, <1>5, <2>1, <2>3, <2>9, <2>10, Types DEF FileIsGood, Outlasts, Expiry, MaybeTimes
  <2> QED BY <2>5, <2>6, <2>7, <2>8, <2>11, <2>12
<1> QED BY <1>4, <1>5 DEF PushStep, Push

(* A mint whose answer is lost: the hub refuses the next one for a while. *)
LEMMA LostMintHolds ==
  ASSUME TokensInv, ~passed, passed' = TRUE, alive, Due, Unpushed = NoToken, hubKnows, lastMint' = clock,
         Trouble, NoPush, record' = [record EXCEPT !.unpushed = NoToken],
         UNCHANGED <<clock, hubKnows, alive, offers>>
  PROVE  TokensInv'
<1> USE DEF TokensInv
<1>1. /\ UNCHANGED <<held, tokenFile, wire, handed>>
      /\ Room' = Room - Setback /\ Room' \in Nat /\ Room \in Nat
      /\ troubles' \in 0..MaxTroubles BY RoomType, RoomTaken DEF NoPush, TakesNone, TokensTypeOK
<1>2. /\ record.expires # NoToken /\ record.unpushed = NoToken
      /\ clock \in Int /\ clock \in Tokens /\ record \in TimeRecords /\ record' = record
  <2>1. record.expires # NoToken BY DEF Due
  <2>2. record.unpushed = NoToken BY <2>1, WaitsUnexpired DEF Renews
  <2> QED BY <2>1, <2>2, Types DEF TokensTypeOK, TimeRecords
<1>3. Try(clock, record.retryAt) = clock /\ Try(clock + 1, record.retryAt) = clock + 1
  BY <1>2 DEF Due, Try, Later, TimeRecords, MaybeTimes
<1>4. Mint(clock + 1, record.expires) = clock + 1 /\ record.expires \in Int
  BY <1>2 DEF Due, Mint, Later, TimeRecords, MaybeTimes
<1>5. NextPass = clock /\ NextPass' = clock + 1 BY DEF NextPass
<1>6. RenewedBy' = Minted(clock + 1, clock) BY <1>2, <1>3, <1>4, <1>5 DEF RenewedBy, Renewal
<1>7. Minted(clock + 1, clock) \in Int /\ Minted(clock + 1, clock) <= clock + 1 + MintInterval
  BY <1>2, MintedType DEF MaybeTimes
<1>8. RenewedBy \in Int /\ clock <= RenewedBy BY <1>2, <1>5, Types, RenewalType DEF RenewedBy
<1>9. TokensTypeOK' BY <1>1, <1>2 DEF TokensTypeOK
<1>10. HeldInFile' BY <1>1 DEF HeldInFile
<1>11. TokensPast' BY <1>1, <1>2 DEF TokensPast
<1>12. RecordKept' BY <1>2 DEF RecordKept
<1>13. WaitingIsGood' BY <1>2 DEF WaitingIsGood
<1>14. FileIsGood' BY <1>1, <1>2, <1>6, <1>7, <1>8, Types DEF FileIsGood, Outlasts, Expiry, MaybeTimes
<1> QED BY <1>9, <1>10, <1>11, <1>12, <1>13, <1>14

(* 429: the token is due again when the hub will mint, as was expected. *)
LEMMA RefusedHolds ==
  ASSUME TokensInv, ~passed, passed' = TRUE, alive, Due, Unpushed = NoToken, hubKnows, ~MayMint, NoPush,
         record' = [record EXCEPT !.retryAt = clock + MintInterval, !.unpushed = NoToken],
         UNCHANGED <<clock, lastMint, troubles, hubKnows, alive, offers>>
  PROVE  TokensInv'
<1> USE DEF TokensInv
<1> DEFINE r == [record EXCEPT !.retryAt = clock + MintInterval, !.unpushed = NoToken]
<1>1. /\ UNCHANGED <<held, tokenFile, wire, handed>> /\ Room' = Room BY DEF NoPush, TakesNone, Room
<1>2. /\ record.expires # NoToken /\ record.unpushed = NoToken
      /\ clock \in Int /\ clock \in Tokens /\ record \in TimeRecords /\ record.expires \in Int
  <2>1. record.expires # NoToken BY DEF Due
  <2>2. record.unpushed = NoToken BY <2>1, WaitsUnexpired DEF Renews
  <2> QED BY <2>1, <2>2, Types DEF TokensTypeOK, TimeRecords, MaybeTimes
<1>3. lastMint # NoToken /\ lastMint \in Int /\ lastMint <= clock /\ clock < lastMint + MintInterval
  BY <1>2, Types DEF MayMint, TokensPast, MaybeTimes
<1>4. /\ clock + MintInterval \in Moments /\ clock + MintInterval \in MaybeTimes
      /\ clock + MintInterval # NoToken BY <1>2 DEF Moments, Tokens, MaybeTimes
<1>5. /\ record' = r /\ r.expires = record.expires /\ r.retryAt = clock + MintInterval
      /\ r.unpushed = NoToken BY <1>2 DEF TimeRecords
<1>6. r \in [expires: Moments \cup {NoToken}, retryAt: Moments \cup {NoToken},
             unpushed: Tokens \cup {NoToken}] BY <1>4 DEF TokensTypeOK
<1> HIDE DEF r
<1>7. NextPass = clock /\ NextPass' = clock + 1 BY DEF NextPass
<1>8. RenewedBy = clock + MintInterval
  <2>1. Try(clock, record.retryAt) = clock BY <1>2 DEF Due, Try, Later, TimeRecords, MaybeTimes
  <2>2. Mint(clock, record.expires) = clock BY <1>2 DEF Due, Mint, Later
  <2>3. Minted(clock, lastMint) = clock + MintInterval BY <1>2, <1>3 DEF Minted, Refused
  <2> QED BY <1>2, <1>7, <2>1, <2>2, <2>3 DEF RenewedBy, Renewal
<1>9. RenewedBy' = clock + MintInterval
  <2>1. Try(clock + 1, clock + MintInterval) = clock + MintInterval BY <1>2, <1>3, <1>4 DEF Try, Later
  <2>2. Mint(clock + MintInterval, record.expires) = clock + MintInterval BY <1>2 DEF Due, Mint, Later
  <2>3. Minted(clock + MintInterval, lastMint) = clock + MintInterval BY <1>2, <1>3 DEF Minted, Refused
  <2> QED BY <1>5, <1>7, <2>1, <2>2, <2>3 DEF RenewedBy, Renewal
<1>10. TokensTypeOK' BY <1>1, <1>5, <1>6 DEF TokensTypeOK
<1>11. HeldInFile' BY <1>1 DEF HeldInFile
<1>12. TokensPast' BY <1>1, <1>2, <1>5 DEF TokensPast
<1>13. RecordKept' BY <1>2, <1>5 DEF RecordKept
<1>14. WaitingIsGood' BY <1>5 DEF WaitingIsGood
<1>15. FileIsGood' BY <1>1, <1>2, <1>5, <1>8, <1>9 DEF FileIsGood, Outlasts, Expiry
<1> QED BY <1>10, <1>11, <1>12, <1>13, <1>14, <1>15

(* 404: the workload is not renewed any more. *)
LEMMA UnknownHolds ==
  ASSUME TokensInv, ~passed, passed' = TRUE, ~hubKnows, NoPush,
         record' = [record EXCEPT !.expires = NoToken, !.unpushed = NoToken],
         UNCHANGED <<clock, lastMint, troubles, hubKnows, alive, offers>>
  PROVE  TokensInv'
<1> USE DEF TokensInv
<1>1. UNCHANGED <<held, tokenFile, wire, handed>> BY DEF NoPush, TakesNone
<1>2. /\ record'.expires = NoToken /\ record'.unpushed = NoToken /\ record'.retryAt = record.retryAt
      /\ record' \in [expires: Moments \cup {NoToken}, retryAt: Moments \cup {NoToken},
                      unpushed: Tokens \cup {NoToken}] BY DEF TokensTypeOK
<1>3. TokensTypeOK' BY <1>1, <1>2 DEF TokensTypeOK
<1>4. HeldInFile' BY <1>1 DEF HeldInFile
<1>5. TokensPast' BY <1>1, <1>2 DEF TokensPast
<1>6. RecordKept' /\ WaitingIsGood' /\ FileIsGood' BY <1>2 DEF RecordKept, WaitingIsGood, Renews, FileIsGood
<1> QED BY <1>3, <1>4, <1>5, <1>6

LEMMA RefreshHolds ==
  ASSUME TokensInv, Refresh
  PROVE  TokensInv'
<1>1. CASE ~(alive /\ Due) /\ NoPush /\ UNCHANGED <<record, lastMint, troubles>> BY <1>1, IdleRefreshHolds DEF Refresh
<1>2. CASE alive /\ Due /\ UNCHANGED lastMint /\ \E t \in {Unpushed} \ {NoToken} : Push(t)
  <2>1. Unpushed # NoToken /\ Push(Unpushed) BY <1>2
  <2>2. Unpushed \in Tokens BY <2>1 DEF Unpushed, TokensInv, TokensTypeOK
  <2>3. PushStep(Unpushed) BY <1>2, <2>1 DEF PushStep, Refresh
  <2> QED BY <2>2, <2>3, PushHolds
<1>3. CASE /\ alive /\ Due /\ Unpushed = NoToken /\ hubKnows /\ MayMint /\ lastMint' = clock
           /\ Push(clock)
  <2>1. clock \in Tokens /\ PushStep(clock) BY <1>3 DEF PushStep, Refresh, TokensInv, TokensTypeOK
  <2> QED BY <2>1, PushHolds
<1>4. CASE /\ alive /\ Due /\ Unpushed = NoToken /\ hubKnows /\ MayMint /\ lastMint' = clock
           /\ Trouble /\ NoPush /\ record' = [record EXCEPT !.unpushed = NoToken] BY <1>4, LostMintHolds DEF Refresh
<1>5. CASE /\ alive /\ Due /\ Unpushed = NoToken /\ hubKnows /\ ~MayMint /\ NoPush
           /\ record' = [record EXCEPT !.retryAt = clock + MintInterval, !.unpushed = NoToken]
           /\ UNCHANGED <<lastMint, troubles>> BY <1>5, RefusedHolds DEF Refresh
<1>6. CASE /\ alive /\ Due /\ Unpushed = NoToken /\ ~hubKnows /\ NoPush
           /\ record' = [record EXCEPT !.expires = NoToken, !.unpushed = NoToken]
           /\ UNCHANGED <<lastMint, troubles>> BY <1>6, UnknownHolds DEF Refresh
<1> QED BY <1>1, <1>2, <1>3, <1>4, <1>5, <1>6 DEF Refresh

LEMMA StepHolds ==
  ASSUME TokensInv, [TokensNext]_tokenVars
  PROVE  TokensInv'
<1>1. CASE UNCHANGED tokenVars
  <2>1. /\ TokensTypeOK' /\ HeldInFile' /\ TokensPast' /\ RecordKept'
    BY <1>1 DEF TokensInv, tokenVars, TokensTypeOK, HeldInFile, TokensPast, RecordKept, Untold
  <2>2. NextTry' = NextTry /\ RenewedBy' = RenewedBy /\ Room' = Room
    BY <1>1 DEF tokenVars, NextTry, RenewedBy, NextPass, Room
  <2>3. WaitingIsGood' /\ FileIsGood'
    BY <1>1, <2>2 DEF TokensInv, tokenVars, WaitingIsGood, Renews, FileIsGood, Outlasts, Expiry
  <2> QED BY <2>1, <2>3 DEF TokensInv
<1>2. CASE TokensNext
  BY <1>2, DeliverHolds, IntentHolds, RefreshHolds, SpokeRestartHolds, LateHolds, AgentRestartHolds,
     EndHolds, TicksHold DEF TokensNext
<1> QED BY <1>1, <1>2

------------------------
(* The invariant holds of every behaviour. *)
THEOREM TokensInvariance == TokensSpec => []TokensInv
<1>1. TokensInit => TokensInv BY InitHolds
<1>2. TokensInv /\ [TokensNext]_tokenVars => TokensInv' BY StepHolds
<1> QED BY <1>1, <1>2, PTL DEF TokensSpec

(* Whatever passes are missed, answers lost, hand-overs refused and        *)
(* restarts crossed, as many as the margin has room for, a live workload   *)
(* that was handed a token has a current one (refresh_model_tokens).       *)
THEOREM NoTokenExpires == TokensSpec => [](TokensTypeOK /\ HeldIsCurrent)
<1>1. TokensInv => HeldIsCurrent
  <2> SUFFICES ASSUME TokensInv, alive, handed = "yes", hubKnows
               PROVE  tokenFile # NoToken /\ ~Expired(tokenFile) BY DEF HeldIsCurrent
  <2>1. record.expires # NoToken /\ tokenFile # NoToken /\ Outlasts(tokenFile) BY DEF TokensInv, FileIsGood
  <2>2. /\ RenewedBy \in Int /\ clock <= RenewedBy /\ clock \in Int
        /\ Room \in Nat /\ tokenFile \in Int
    <3>1. Room \in Nat /\ tokenFile \in Int /\ clock \in Int /\ clock <= NextPass /\ NextPass \in Int
      BY <2>1, Types, RoomType DEF TokensInv, TokensTypeOK, MaybeTimes
    <3>2. RenewedBy \in Int /\ NextPass <= RenewedBy BY <2>1, <3>1, Types, RenewalType DEF TokensInv, RenewedBy
    <3> QED BY <3>1, <3>2
  <2> QED BY <2>1, <2>2 DEF Outlasts, Expired, Expiry
<1>2. TokensInv => TokensTypeOK BY DEF TokensInv
<1> QED BY <1>1, <1>2, TokensInvariance, PTL

(* The agent never goes back to an older token, and the helper reads the   *)
(* one its process holds (ModelTokenHolder).                               *)
THEOREM NoTokenGoesBack == TokensSpec => HeldIsNewest
<1>1. ASSUME TokensInv, [TokensNext]_tokenVars
      PROVE  [held # NoToken => /\ tokenFile = held
                                /\ held' # NoToken => held' >= held]_tokenVars
  <2>1. held # NoToken => tokenFile = held BY <1>1 DEF TokensInv, HeldInFile
  <2>2. CASE UNCHANGED held BY <2>1, <2>2, <1>1, Types DEF TokensInv, MaybeTimes
  <2>3. CASE held' = NoToken BY <2>1, <2>3
  <2>4. CASE \E t \in Tokens : t <= clock /\ Takes(t)
    <3>1. \E h \in Tokens : held' = h /\ (held # NoToken => h >= held) BY <1>1, <2>4, TakesKeeps DEF TokensInv
    <3> QED BY <2>1, <3>1
  <2>5. UNCHANGED held \/ held' = NoToken \/ \E t \in Tokens : t <= clock /\ Takes(t)
    <3>1. clock \in Tokens /\ clock <= clock /\ \A t \in wire : t \in Tokens /\ t <= clock
      BY <1>1 DEF TokensInv, TokensTypeOK, TokensPast, Tokens
    <3>2. Unpushed # NoToken => Unpushed \in Tokens /\ Unpushed <= clock
      BY <1>1 DEF TokensInv, TokensTypeOK, TokensPast, Unpushed
    <3>3. CASE UNCHANGED tokenVars BY <3>3 DEF tokenVars
    <3>4. CASE Deliver BY <3>1, <3>4 DEF Deliver, TakesNone
    <3>5. CASE Refresh BY <3>1, <3>2, <3>5 DEF Refresh, Push, NoPush, TakesNone
    <3>6. CASE \E t \in Tokens : ArrivesLate(t) BY <3>1, <3>6 DEF ArrivesLate
    <3>7. CASE IntentAgain \/ SpokeRestarts \/ AgentRestarts \/ WorkloadEnds \/ HubForgets \/ ClockTicks
      BY <3>7 DEF IntentAgain, SpokeRestarts, AgentRestarts, WorkloadEnds, HubForgets, ClockTicks
    <3> QED BY <1>1, <3>3, <3>4, <3>5, <3>6, <3>7 DEF TokensNext
  <2> QED BY <2>2, <2>3, <2>4, <2>5
<1> QED BY <1>1, TokensInvariance, PTL DEF TokensSpec, HeldIsNewest

(* Both, as the runs check them. *)
THEOREM TokensAreKept == TokensSpec => TokenIsKept
BY NoTokenExpires, NoTokenGoesBack DEF TokenIsKept

------------------------
(* Both, side by side: a behaviour of MCSpoke is one of each. *)
THEOREM TheSpokeIsSound ==
  PartsSpec => [](TypeOK /\ HubIsRight) /\ AtMostOnce /\ TokenIsKept
<1>1. PartsInit => Init /\ TokensInit BY DEF PartsInit
<1>2. [PartsNext]_partVars => [Next]_vars /\ [TokensNext]_tokenVars
  <2>1. CASE DeliveriesMove BY <2>1 DEF DeliveriesMove
  <2>2. CASE TokensMove BY <2>2 DEF TokensMove, deliveryVars
  <2>3. CASE UNCHANGED partVars BY <2>3 DEF partVars, deliveryVars
  <2> QED BY <2>1, <2>2, <2>3 DEF PartsNext
<1>3. IInv => TypeOK /\ HubIsRight
  BY DEF IInv, VerdictsHold, Holds, VerdictsAreTrue, RepliesKnown, ReplyKnown, RepliesAreTracked,
     HubIsRight
<1>4. PartsSpec => [](TypeOK /\ HubIsRight) BY <1>1, <1>2, <1>3, InitIInv, IInvStep, PTL DEF PartsSpec
<1>5. PartsSpec => AtMostOnce BY <1>1, <1>2, InitIInv, IInvStep, OnceStep, PTL DEF PartsSpec, AtMostOnce
<1>6. PartsSpec => TokensSpec BY <1>1, <1>2, PTL DEF PartsSpec, TokensSpec
<1> QED BY <1>4, <1>5, <1>6, TokensAreKept, PTL
========================
