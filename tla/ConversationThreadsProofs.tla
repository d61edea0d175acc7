------------ MODULE ConversationThreadsProofs ------------
(***************************************************************************)
(* Proofs about ConversationThreads, for every value of its constants.     *)
(*                                                                         *)
(* The inductive invariant IInv says who is in which queue, that nobody    *)
(* holds a process while one is being started, that the thread a start has *)
(* read is still the entry's, that of either harness a thread with a gap   *)
(* has an entry that says so, and that a turn under way that did not bring *)
(* the transcript along will leave that word standing.                     *)
(***************************************************************************)
EXTENDS ConversationThreads, TLAPS

(* Where each actor can be. Only the Codex harness maintains threads. *)
Places ==
  /\ pc["turn"] \in {"idle", "waiting", "woken", "spawning", "opening", "holding", "dropping"}
  /\ pc["task"] \in {"idle", "starting", "spawning", "opening", "holding", "renewing"}
  /\ pc["rotate"] \in {"idle", "waiting", "woken", "rotating", "ran", "failed", "dropping",
                       "closing"}
  /\ pc["forget"] \in {"idle", "dropping"}
  /\ pc["rotate"] = "woken" => pc["task"] = "idle"
  /\ Codex \/ /\ pc["task"] = "idle" /\ pc["turn"] \notin {"waiting", "woken"}
              /\ pc["rotate"] \in {"idle", "dropping", "closing"}

(* The queues hold whoever is where one waits in them. Who starts a process *)
(* has the spawn lock, and nobody has the process.                          *)
AtSpawnLock == {"spawning", "opening", "dropping"}
AtProcess == {"holding", "renewing"}

SpawnOK(q, p) ==
  /\ q \in Seq(Actors) /\ Distinct(q)
  /\ \A a \in Actors : In(a, q) <=> p[a] \in AtSpawnLock
  /\ \A a \in Users : p[a] = "opening" => q # <<>> /\ Head(q) = a

LockOK(l, p) ==
  /\ l \in Seq(Users) /\ Distinct(l)
  /\ \A a \in Users : In(a, l) <=> p[a] \in AtProcess
  /\ \A a \in Users : p[a] = "opening" => l = <<>>

(* What a process is when it serves, and which thread it is in. *)
ProcessOK ==
  /\ proc.up => proc.known /\ ~proc.dead
  /\ proc.known \/ lock # <<>> => proc.thread # NoThread
  /\ Warm /\ ~crossed => proc.thread = Mine.thread /\ pc["rotate"] # "closing"

(* While one is started there is none, and the entry is as it was read. *)
OpeningOK ==
  \A a \in Users : pc[a] = "opening" =>
    /\ proc = Gone
    /\ ~crossed => seen = Mine.thread /\ pc["rotate"] # "closing"

(* The thread a harness would go on with lacks more of the conversation    *)
(* than a carry cut; and what says so: its entry, or who served last.      *)
Held == whole \cup short
Gap(h) ==
  (begun \/ Kept(h).thread # NoThread) /\ Kept(h).thread \notin Held \cup leftover
Says(h) == Kept(h).lost \/ (h = "codex" /\ Kept(h).handoff)
Told(h) == Says(h) \/ Kept(h).rotated \/ (served # NoServed /\ served.harness # h)
GapsAreTold == overtaken \/ crossed \/ \A h \in Harnesses : Gap(h) => Told(h)

(* A turn that came without the transcript clears nothing that it needs. *)
TurnSees ==
  pc["turn"] \in {"spawning", "opening", "holding"} /\ ~carried.attached =>
    \/ overtaken \/ crossed
    \/ /\ ~carried.lost /\ ~carried.handoff
       /\ Gap(harness) => Says(harness)

(* Whoever served last has an entry that is as far, or further. *)
SeqOK ==
  served # NoServed =>
    /\ served.seq >= 1 /\ Kept(served.harness).seq >= served.seq
    /\ Kept(served.harness).rotated => Kept(served.harness).seq > served.seq

IInv ==
  /\ TypeOK /\ Places /\ SpawnOK(spawnQ, pc) /\ LockOK(lock, pc)
  /\ ProcessOK /\ OpeningOK
  /\ GapsAreTold /\ TurnSees /\ SeqOK

------------------------
(* Queues. *)

(* Whoever joins a queue is in it, at its end. *)
LEMMA Joined ==
  ASSUME NEW S, NEW q \in Seq(S), Distinct(q), NEW a \in S, ~In(a, q)
  PROVE  /\ Append(q, a) \in Seq(S) /\ Distinct(Append(q, a)) /\ Append(q, a) # <<>>
         /\ \A b : In(b, Append(q, a)) <=> b = a \/ In(b, q)
         /\ q # <<>> => Head(Append(q, a)) = Head(q)
<1>1. /\ Append(q, a) \in Seq(S) /\ Len(Append(q, a)) = Len(q) + 1
      /\ DOMAIN Append(q, a) = 1 .. Len(q) + 1 /\ DOMAIN q = 1 .. Len(q) /\ Len(q) \in Nat
      /\ \A i \in 1 .. Len(q) : Append(q, a)[i] = q[i]
      /\ Append(q, a)[Len(q) + 1] = a OBVIOUS
<1>2. Distinct(Append(q, a)) BY <1>1 DEF Distinct, In
<1>3. \A b : In(b, Append(q, a)) <=> b = a \/ In(b, q)
  <2>1. ASSUME NEW b, In(b, Append(q, a)) PROVE b = a \/ In(b, q) BY <1>1, <2>1 DEF In
  <2>2. ASSUME NEW b, In(b, q) PROVE In(b, Append(q, a)) BY <1>1, <2>2 DEF In
  <2>3. In(a, Append(q, a)) BY <1>1 DEF In
  <2> QED BY <2>1, <2>2, <2>3
<1>4. q # <<>> => Head(Append(q, a)) = Head(q) OBVIOUS
<1>5. Append(q, a) # <<>> BY <1>1
<1> QED BY <1>1, <1>2, <1>3, <1>4, <1>5

(* The first one leaves. *)
LEMMA FirstLeft ==
  ASSUME NEW S, NEW q \in Seq(S), Distinct(q), q # <<>>
  PROVE  /\ Tail(q) \in Seq(S) /\ Distinct(Tail(q))
         /\ In(Head(q), q) /\ Head(q) \in S
         /\ \A b : In(b, Tail(q)) <=> In(b, q) /\ b # Head(q)
<1>1. /\ Tail(q) \in Seq(S) /\ Len(Tail(q)) = Len(q) - 1 /\ Len(q) \in Nat /\ Len(q) >= 1
      /\ DOMAIN Tail(q) = 1 .. Len(q) - 1 /\ DOMAIN q = 1 .. Len(q)
      /\ \A i \in 1 .. Len(q) - 1 : Tail(q)[i] = q[i + 1]
      /\ Head(q) = q[1] OBVIOUS
<1>2. Distinct(Tail(q))
  <2>1. SUFFICES ASSUME NEW i \in DOMAIN Tail(q), NEW j \in DOMAIN Tail(q),
                        Tail(q)[i] = Tail(q)[j]
                 PROVE  i = j BY DEF Distinct
  <2>2. i + 1 \in DOMAIN q /\ j + 1 \in DOMAIN q /\ q[i + 1] = q[j + 1] BY <1>1, <2>1
  <2>3. i + 1 = j + 1 BY <2>2 DEF Distinct
  <2> QED BY <1>1, <2>1, <2>3
<1>3. ASSUME NEW b, In(b, Tail(q)) PROVE In(b, q) /\ b # Head(q)
  <2>1. PICK i \in DOMAIN Tail(q) : Tail(q)[i] = b BY <1>3 DEF In
  <2>2. i + 1 \in DOMAIN q /\ q[i + 1] = b /\ 1 \in DOMAIN q /\ i + 1 # 1 BY <1>1, <2>1
  <2> QED BY <1>1, <2>2 DEF In, Distinct
<1>4. ASSUME NEW b, In(b, q), b # Head(q) PROVE In(b, Tail(q))
  <2>1. PICK i \in DOMAIN q : q[i] = b BY <1>4 DEF In
  <2>2. i - 1 \in DOMAIN Tail(q) /\ Tail(q)[i - 1] = b BY <1>1, <1>4, <2>1
  <2> QED BY <2>2 DEF In
<1>5. In(Head(q), q) /\ Head(q) \in S BY <1>1 DEF In
<1> QED BY <1>1, <1>2, <1>3, <1>4, <1>5

(* Anyone leaves. *)
LEMMA AnyLeft ==
  ASSUME NEW S, NEW q \in Seq(S), Distinct(q), NEW a
  PROVE  /\ Without(q, a) \in Seq(S) /\ Distinct(Without(q, a))
         /\ \A b : In(b, Without(q, a)) <=> In(b, q) /\ b # a
         /\ q # <<>> /\ Head(q) # a => Without(q, a) # <<>> /\ Head(Without(q, a)) = Head(q)
<1>1. CASE ~In(a, q)
  <2>1. Without(q, a) = q BY <1>1 DEF Without
  <2> QED BY <1>1, <2>1
<1>2. CASE In(a, q)
  <2>. DEFINE k == CHOOSE i \in DOMAIN q : q[i] = a
              w == [i \in 1 .. Len(q) - 1 |-> q[IF i < k THEN i ELSE i + 1]]
  <2>1. k \in DOMAIN q /\ q[k] = a BY <1>2 DEF In
  <2>2. Without(q, a) = w BY <1>2 DEF Without
  <2>. HIDE DEF k
  <2>3. Len(q) \in Nat /\ Len(q) >= 1 /\ DOMAIN q = 1 .. Len(q) /\ k \in 1 .. Len(q) BY <2>1
  <2>4. /\ DOMAIN w = 1 .. Len(q) - 1
        /\ \A i \in 1 .. Len(q) - 1 : i < k => w[i] = q[i]
        /\ \A i \in 1 .. Len(q) - 1 : ~(i < k) => w[i] = q[i + 1] BY <2>3
  <2>5. w \in Seq(S) /\ Len(w) = Len(q) - 1
    <3>1. \A i \in 1 .. Len(q) - 1 : w[i] \in S BY <2>3, <2>4
    <3> QED BY <2>3, <3>1
  <2>. HIDE DEF w
  <2>6. Distinct(w)
    <3>1. SUFFICES ASSUME NEW i \in DOMAIN w, NEW j \in DOMAIN w, w[i] = w[j] PROVE i = j BY DEF Distinct
    <3>. DEFINE x == IF i < k THEN i ELSE i + 1
                y == IF j < k THEN j ELSE j + 1
    <3>2. x \in DOMAIN q /\ y \in DOMAIN q /\ q[x] = q[y] BY <2>3, <2>4, <3>1
    <3>3. x = y BY <3>2 DEF Distinct
    <3> QED BY <2>3, <2>4, <3>3
  <2>7. ASSUME NEW b, In(b, w) PROVE In(b, q) /\ b # a
    <3>1. PICK i \in DOMAIN w : w[i] = b BY <2>7 DEF In
    <3>. DEFINE x == IF i < k THEN i ELSE i + 1
    <3>2. x \in DOMAIN q /\ q[x] = b /\ x # k BY <2>3, <2>4, <3>1
    <3> QED BY <2>1, <3>2 DEF In, Distinct
  <2>8. ASSUME NEW b, In(b, q), b # a PROVE In(b, w)
    <3>1. PICK i \in DOMAIN q : q[i] = b BY <2>8 DEF In
    <3>2. i # k BY <2>1, <2>8, <3>1
    <3>. DEFINE x == IF i < k THEN i ELSE i - 1
    <3>3. x \in DOMAIN w /\ w[x] = b BY <2>3, <2>4, <3>1, <3>2
    <3> QED BY <3>3 DEF In
  <2>9. q # <<>> /\ Head(q) # a => w # <<>> /\ Head(w) = Head(q)
    <3>1. SUFFICES ASSUME q # <<>>, Head(q) # a PROVE w # <<>> /\ Head(w) = Head(q) OBVIOUS
    <3>2. k # 1 /\ Head(q) = q[1] BY <2>1, <3>1
    <3>3. 1 \in DOMAIN w /\ w[1] = q[1] BY <2>3, <2>4, <3>2
    <3> QED BY <2>5, <3>2, <3>3
  <2> QED BY <2>2, <2>5, <2>6, <2>7, <2>8, <2>9
<1> QED BY <1>1, <1>2

(* Nobody is in an empty queue. *)
LEMMA Nobody == Distinct(<<>>) /\ \A a : ~In(a, <<>>)
BY DEF Distinct, In

(* What an actor's step leaves of who waits for the spawn lock. *)
Stays(p, p2, b) ==
  /\ p2[b] \in AtSpawnLock <=> p[b] \in AtSpawnLock
  /\ p2[b] = "opening" => p[b] = "opening"

LEMMA SpawnJoins ==
  ASSUME NEW q, NEW p, NEW p2, NEW a \in Actors, SpawnOK(q, p), p[a] \notin AtSpawnLock,
         p2[a] \in {"spawning", "dropping"}, \A b \in Actors : b # a => Stays(p, p2, b)
  PROVE  SpawnOK(Append(q, a), p2)
<1>1. q \in Seq(Actors) /\ Distinct(q) /\ ~In(a, q) BY DEF SpawnOK
<1>2. /\ Append(q, a) \in Seq(Actors) /\ Distinct(Append(q, a)) /\ Append(q, a) # <<>>
      /\ \A b : In(b, Append(q, a)) <=> b = a \/ In(b, q)
      /\ q # <<>> => Head(Append(q, a)) = Head(q) BY <1>1, Joined
<1>3. \A b \in Actors : In(b, Append(q, a)) <=> p2[b] \in AtSpawnLock BY <1>2 DEF SpawnOK, Stays, AtSpawnLock
<1>4. \A b \in Users : p2[b] = "opening" => Append(q, a) # <<>> /\ Head(Append(q, a)) = b
  BY <1>2 DEF SpawnOK, Stays, Actors
<1> QED BY <1>2, <1>3, <1>4 DEF SpawnOK

LEMMA SpawnLeaves ==
  ASSUME NEW q, NEW p, NEW p2, NEW a, SpawnOK(q, p), q # <<>>, Head(q) = a,
         p2[a] \notin AtSpawnLock, \A b \in Actors : b # a => Stays(p, p2, b)
  PROVE  SpawnOK(Tail(q), p2) /\ \A b \in Users : p2[b] # "opening"
<1>1. q \in Seq(Actors) /\ Distinct(q) BY DEF SpawnOK
<1>2. /\ Tail(q) \in Seq(Actors) /\ Distinct(Tail(q))
      /\ \A b : In(b, Tail(q)) <=> In(b, q) /\ b # a BY <1>1, FirstLeft
<1>3. \A b \in Actors : In(b, Tail(q)) <=> p2[b] \in AtSpawnLock BY <1>2 DEF SpawnOK, Stays
<1>4. \A b \in Users : p2[b] # "opening" BY DEF SpawnOK, Stays, Actors, AtSpawnLock
<1> QED BY <1>2, <1>3, <1>4 DEF SpawnOK

LEMMA SpawnQuits ==
  ASSUME NEW q, NEW p, NEW p2, NEW a, SpawnOK(q, p),
         p2[a] \notin AtSpawnLock, \A b \in Actors : b # a => Stays(p, p2, b)
  PROVE  SpawnOK(Without(q, a), p2)
<1>1. q \in Seq(Actors) /\ Distinct(q) BY DEF SpawnOK
<1>2. /\ Without(q, a) \in Seq(Actors) /\ Distinct(Without(q, a))
      /\ \A b : In(b, Without(q, a)) <=> In(b, q) /\ b # a
      /\ q # <<>> /\ Head(q) # a => Without(q, a) # <<>> /\ Head(Without(q, a)) = Head(q) BY <1>1, AnyLeft
<1>3. \A b \in Actors : In(b, Without(q, a)) <=> p2[b] \in AtSpawnLock BY <1>2 DEF SpawnOK, Stays
<1>4. \A b \in Users : p2[b] = "opening" => Without(q, a) # <<>> /\ Head(Without(q, a)) = b
  BY <1>2 DEF SpawnOK, Stays, Actors, AtSpawnLock
<1> QED BY <1>2, <1>3, <1>4 DEF SpawnOK

LEMMA SpawnStays ==
  ASSUME NEW q, NEW p, NEW p2, SpawnOK(q, p),
         \A b \in Actors : p2[b] \in AtSpawnLock <=> p[b] \in AtSpawnLock,
         \A b \in Users : p2[b] = "opening" => p[b] = "opening" \/ (q # <<>> /\ Head(q) = b)
  PROVE  SpawnOK(q, p2)
<1>1. \A b \in Actors : In(b, q) <=> p2[b] \in AtSpawnLock BY DEF SpawnOK
<1>2. \A b \in Users : p2[b] = "opening" => q # <<>> /\ Head(q) = b BY DEF SpawnOK
<1> QED BY <1>1, <1>2 DEF SpawnOK

(* And of who has the process reserved, or waits for it. *)
Keeps(p, p2, b) == p2[b] \in AtProcess <=> p[b] \in AtProcess

LEMMA LockJoins ==
  ASSUME NEW l, NEW p, NEW p2, NEW a \in Users, LockOK(l, p), p[a] \notin AtProcess,
         p2[a] = "holding", \A b \in Users : b # a => Keeps(p, p2, b),
         \A b \in Users : p2[b] # "opening"
  PROVE  LockOK(Append(l, a), p2)
<1>1. l \in Seq(Users) /\ Distinct(l) /\ ~In(a, l) BY DEF LockOK
<1>2. /\ Append(l, a) \in Seq(Users) /\ Distinct(Append(l, a))
      /\ \A b : In(b, Append(l, a)) <=> b = a \/ In(b, l) BY <1>1, Joined
<1>3. \A b \in Users : In(b, Append(l, a)) <=> p2[b] \in AtProcess BY <1>2 DEF LockOK, Keeps, AtProcess
<1> QED BY <1>2, <1>3 DEF LockOK

LEMMA LockLeaves ==
  ASSUME NEW l, NEW p, NEW p2, NEW a \in Users, LockOK(l, p), p[a] \in AtProcess,
         p2[a] \notin AtProcess \cup {"opening"}, \A b \in Users : b # a => Keeps(p, p2, b),
         \A b \in Users : b # a => (p2[b] = "opening" => p[b] = "opening")
  PROVE  LockOK(Without(l, a), p2)
<1>1. l \in Seq(Users) /\ Distinct(l) /\ In(a, l) /\ l # <<>> BY Nobody DEF LockOK
<1>2. /\ Without(l, a) \in Seq(Users) /\ Distinct(Without(l, a))
      /\ \A b : In(b, Without(l, a)) <=> In(b, l) /\ b # a BY <1>1, AnyLeft
<1>3. \A b \in Users : In(b, Without(l, a)) <=> p2[b] \in AtProcess BY <1>2 DEF LockOK, Keeps
<1>4. \A b \in Users : p2[b] # "opening" BY <1>1 DEF LockOK
<1> QED BY <1>2, <1>3, <1>4 DEF LockOK

LEMMA LockStays ==
  ASSUME NEW l, NEW p, NEW p2, LockOK(l, p), \A b \in Users : Keeps(p, p2, b),
         \A b \in Users : p2[b] = "opening" => p[b] = "opening" \/ l = <<>>
  PROVE  LockOK(l, p2) BY DEF LockOK, Keeps

------------------------
(* Where everyone is after a step, and in which queue. *)
Steps == {"idle", "waiting", "starting", "spawning", "opening", "holding", "dropping",
          "renewing", "rotating", "woken", "ran", "failed", "closing"}

(* a takes the process that runs, or queues for the start of one. *)
LEMMA TakeQueues ==
  ASSUME IInv, NEW a \in Users, pc[a] \notin AtSpawnLock \cup AtProcess, TakeAgent(a)
  PROVE  /\ Go(a, "holding") \/ Go(a, "spawning")
         /\ SpawnOK(spawnQ', pc') /\ LockOK(lock', pc')
<1>1. pc \in [Actors -> Steps] /\ a \in Actors /\ Users \subseteq Actors
      /\ SpawnOK(spawnQ, pc) /\ LockOK(lock, pc) BY DEF IInv, TypeOK, Steps, Actors
<1>2. CASE Warm /\ spawnQ = <<>>
  <2>1. Go(a, "holding") /\ lock' = Append(lock, a) /\ spawnQ' = spawnQ BY <1>2 DEF TakeAgent, Reserve
  <2>2. pc' \in [Actors -> Steps] /\ pc'[a] = "holding" /\ \A b \in Actors : b # a => pc'[b] = pc[b]
    BY <1>1, <2>1 DEF Go, Steps
  <2>3. \A b \in Users : pc[b] # "opening" BY <1>2 DEF IInv, OpeningOK, Gone, Warm
  <2>4. SpawnOK(spawnQ, pc')
    <3>1. \A b \in Actors : pc'[b] \in AtSpawnLock <=> pc[b] \in AtSpawnLock BY <2>2 DEF AtSpawnLock
    <3>2. \A b \in Users : pc'[b] # "opening" BY <1>1, <2>2, <2>3
    <3> QED BY <1>1, <3>1, <3>2, SpawnStays
  <2>5. LockOK(Append(lock, a), pc')
    <3>1. \A b \in Users : b # a => Keeps(pc, pc', b) BY <1>1, <2>2 DEF Keeps
    <3>2. \A b \in Users : pc'[b] # "opening" BY <1>1, <2>2, <2>3
    <3> QED BY <1>1, <2>2, <3>1, <3>2, LockJoins
  <2> QED BY <2>1, <2>4, <2>5
<1>3. CASE ~(Warm /\ spawnQ = <<>>)
  <2>1. Go(a, "spawning") /\ spawnQ' = Append(spawnQ, a) /\ lock' = lock BY <1>3 DEF TakeAgent
  <2>2. pc' \in [Actors -> Steps] /\ pc'[a] = "spawning" /\ \A b \in Actors : b # a => pc'[b] = pc[b]
    BY <1>1, <2>1 DEF Go, Steps
  <2>3. SpawnOK(Append(spawnQ, a), pc')
    <3>1. \A b \in Actors : b # a => Stays(pc, pc', b) BY <2>2 DEF Stays
    <3> QED BY <1>1, <2>2, <3>1, SpawnJoins DEF AtSpawnLock
  <2>4. LockOK(lock, pc')
    <3>1. \A b \in Users : Keeps(pc, pc', b) BY <1>1, <2>2 DEF Keeps, AtProcess
    <3>2. \A b \in Users : pc'[b] = "opening" => pc[b] = "opening" \/ lock = <<>> BY <1>1, <2>2
    <3> QED BY <1>1, <3>1, <3>2, LockStays
  <2> QED BY <2>1, <2>3, <2>4
<1> QED BY <1>2, <1>3

(* a, first at the spawn lock, gets its process. *)
LEMMA GetsProcess ==
  ASSUME IInv, NEW a \in Users, pc[a] \in {"spawning", "opening"}, spawnQ # <<>>, Head(spawnQ) = a,
         spawnQ' = Tail(spawnQ), Reserve(a)
  PROVE  Go(a, "holding") /\ SpawnOK(spawnQ', pc') /\ LockOK(lock', pc')
<1>1. pc \in [Actors -> Steps] /\ a \in Actors /\ Users \subseteq Actors
      /\ SpawnOK(spawnQ, pc) /\ LockOK(lock, pc) BY DEF IInv, TypeOK, Steps, Actors
<1>2. Go(a, "holding") /\ lock' = Append(lock, a) BY DEF Reserve
<1>3. pc' \in [Actors -> Steps] /\ pc'[a] = "holding" /\ \A b \in Actors : b # a => pc'[b] = pc[b]
  BY <1>1, <1>2 DEF Go, Steps
<1>4. SpawnOK(Tail(spawnQ), pc') /\ \A b \in Users : pc'[b] # "opening"
  <2>1. \A b \in Actors : b # a => Stays(pc, pc', b) BY <1>3 DEF Stays
  <2> QED BY <1>1, <1>3, <2>1, SpawnLeaves DEF AtSpawnLock
<1>5. LockOK(Append(lock, a), pc')
  <2>1. \A b \in Users : b # a => Keeps(pc, pc', b) BY <1>1, <1>3 DEF Keeps
  <2> QED BY <1>1, <1>3, <1>4, <2>1, LockJoins DEF AtProcess
<1> QED BY <1>2, <1>4, <1>5

(* a, first at the spawn lock, leaves it without a process. *)
LEMMA LeavesSpawn ==
  ASSUME IInv, NEW a \in Actors, spawnQ # <<>>, Head(spawnQ) = a, spawnQ' = Tail(spawnQ),
         lock' = lock, pc[a] \notin AtProcess,
         pc' \in [Actors -> Steps], pc'[a] \notin AtSpawnLock \cup AtProcess,
         \A b \in Actors : b # a => Stays(pc, pc', b) /\ Keeps(pc, pc', b)
  PROVE  SpawnOK(spawnQ', pc') /\ LockOK(lock', pc')
<1>1. Users \subseteq Actors /\ SpawnOK(spawnQ, pc) /\ LockOK(lock, pc) BY DEF IInv, Actors
<1>2. SpawnOK(Tail(spawnQ), pc') /\ \A b \in Users : pc'[b] # "opening" BY <1>1, SpawnLeaves
<1>3. LockOK(lock, pc')
  <2>1. \A b \in Users : Keeps(pc, pc', b) BY <1>1 DEF Keeps
  <2> QED BY <1>1, <1>2, <2>1, LockStays
<1> QED BY <1>2, <1>3

(* a queues for the spawn lock. *)
LEMMA JoinsSpawn ==
  ASSUME IInv, NEW a \in Actors, pc[a] \notin AtSpawnLock \cup AtProcess,
         spawnQ' = Append(spawnQ, a), lock' = lock, Go(a, "dropping")
  PROVE  SpawnOK(spawnQ', pc') /\ LockOK(lock', pc')
<1>1. pc \in [Actors -> Steps] /\ Users \subseteq Actors
      /\ SpawnOK(spawnQ, pc) /\ LockOK(lock, pc) BY DEF IInv, TypeOK, Steps, Actors
<1>2. pc' \in [Actors -> Steps] /\ pc'[a] = "dropping" /\ \A b \in Actors : b # a => pc'[b] = pc[b]
  BY <1>1 DEF Go, Steps
<1>3. SpawnOK(Append(spawnQ, a), pc')
  <2>1. \A b \in Actors : b # a => Stays(pc, pc', b) BY <1>2 DEF Stays
  <2> QED BY <1>1, <1>2, <2>1, SpawnJoins
<1>4. LockOK(lock, pc')
  <2>1. \A b \in Users : Keeps(pc, pc', b) BY <1>1, <1>2 DEF Keeps, AtProcess
  <2>2. \A b \in Users : pc'[b] = "opening" => pc[b] = "opening" BY <1>1, <1>2
  <2> QED BY <1>1, <2>1, <2>2, LockStays
<1> QED BY <1>3, <1>4

(* a leaves the process. *)
LEMMA LeavesProcess ==
  ASSUME IInv, NEW a \in Users, pc[a] \in AtProcess, lock' = Without(lock, a), spawnQ' = spawnQ,
         pc' \in [Actors -> Steps], pc'[a] \notin AtSpawnLock \cup AtProcess,
         \A b \in Actors : b # a => Stays(pc, pc', b) /\ Keeps(pc, pc', b)
  PROVE  SpawnOK(spawnQ', pc') /\ LockOK(lock', pc')
<1>1. Users \subseteq Actors /\ a \in Actors /\ SpawnOK(spawnQ, pc) /\ LockOK(lock, pc) BY DEF IInv, Actors
<1>2. SpawnOK(spawnQ, pc')
  <2>1. pc[a] \notin AtSpawnLock BY DEF AtSpawnLock, AtProcess
  <2>2. \A b \in Actors : pc'[b] \in AtSpawnLock <=> pc[b] \in AtSpawnLock
    <3>1. ASSUME NEW b \in Actors PROVE pc'[b] \in AtSpawnLock <=> pc[b] \in AtSpawnLock
      <4>1. CASE b = a BY <2>1, <4>1
      <4>2. CASE b # a BY <4>2 DEF Stays
      <4> QED BY <4>1, <4>2
    <3> QED BY <3>1
  <2>3. \A b \in Users : pc'[b] = "opening" => pc[b] = "opening" BY <1>1 DEF Stays, AtSpawnLock
  <2> QED BY <1>1, <2>2, <2>3, SpawnStays
<1>3. LockOK(Without(lock, a), pc')
  <2>1. \A b \in Users : b # a => Keeps(pc, pc', b) BY <1>1
  <2>2. \A b \in Users : b # a => (pc'[b] = "opening" => pc[b] = "opening") BY <1>1 DEF Stays
  <2>3. pc'[a] \notin AtProcess \cup {"opening"} BY DEF AtSpawnLock
  <2> QED BY <1>1, <2>1, <2>2, <2>3, LockLeaves
<1> QED BY <1>2, <1>3

(* The queues stay as they are, and so do those in them. *)
LEMMA QueuesStay ==
  ASSUME IInv, lock' = lock, spawnQ' = spawnQ, pc' \in [Actors -> Steps],
         \A b \in Actors : Stays(pc, pc', b) /\ Keeps(pc, pc', b)
  PROVE  SpawnOK(spawnQ', pc') /\ LockOK(lock', pc')
<1>1. Users \subseteq Actors /\ SpawnOK(spawnQ, pc) /\ LockOK(lock, pc) BY DEF IInv, Actors
<1>2. \A b \in Actors : pc'[b] \in AtSpawnLock <=> pc[b] \in AtSpawnLock BY DEF Stays
<1>3. \A b \in Users : pc'[b] = "opening" => pc[b] = "opening" BY <1>1 DEF Stays
<1>4. SpawnOK(spawnQ, pc') BY <1>1, <1>2, <1>3, SpawnStays
<1>5. LockOK(lock, pc') BY <1>1, <1>3, LockStays
<1> QED BY <1>4, <1>5

LEMMA ActorsAre == Actors = {"turn", "task", "rotate", "forget"} /\ Users = {"turn", "task"}
BY DEF Actors, Users

(* Every step keeps the queues and the places. *)
QueuesKept ==
  /\ pc' \in [Actors -> Steps] /\ Places'
  /\ SpawnOK(spawnQ, pc)' /\ LockOK(lock, pc)'

(* Where the end of the task leaves the others. *)
LEMMA TaskOverGoes ==
  ASSUME NEW ok \in BOOLEAN, pc \in [Actors -> Steps], TaskOver(ok)
  PROVE  /\ pc' \in [Actors -> Steps] /\ pc'["task"] = "idle"
         /\ \A b \in Actors : b # "task" =>
              \/ pc'[b] = pc[b]
              \/ pc[b] = "waiting" /\ pc'[b] = "woken"
              \/ pc[b] = "rotating" /\ pc'[b] = IF ok THEN "ran" ELSE "failed"
<1>1. \A b \in Actors : pc'[b] = IF b = "task" THEN "idle"
                                ELSE IF pc[b] = "waiting" THEN "woken"
                                ELSE IF pc[b] = "rotating" THEN (IF ok THEN "ran" ELSE "failed")
                                ELSE pc[b] BY DEF TaskOver
<1>2. \A b \in Actors : pc'[b] \in Steps BY <1>1 DEF Steps
<1>3. pc' \in [Actors -> Steps] BY <1>2 DEF TaskOver
<1> QED BY <1>1, <1>3, ActorsAre

LEMMA StartQueues ==
  ASSUME IInv, NEW a \in Users, Open(a)
  PROVE  QueuesKept
<1>1. pc \in [Actors -> Steps] /\ a \in Actors /\ Places /\ harness' = harness
      /\ SpawnOK(spawnQ, pc) /\ LockOK(lock, pc)
  BY ActorsAre DEF IInv, TypeOK, Steps, Open, SpawnFound, SpawnBegin, Resume, StartThread, SpawnFails,
     Started
<1>2. pc[a] = "opening" => spawnQ # <<>> /\ Head(spawnQ) = a BY <1>1 DEF SpawnOK
<1>3. CASE SpawnFound(a) \/ Resume(a) \/ StartThread(a)
  <2>1. pc[a] \in {"spawning", "opening"} /\ spawnQ # <<>> /\ Head(spawnQ) = a
        /\ spawnQ' = Tail(spawnQ) /\ Reserve(a) BY <1>2, <1>3 DEF SpawnFound, Resume, StartThread, Started, AtSpawn
  <2>2. Go(a, "holding") /\ SpawnOK(spawnQ', pc') /\ LockOK(lock', pc') BY <2>1, GetsProcess
  <2>3. pc' \in [Actors -> Steps] BY <1>1, <2>2 DEF Go, Steps
  <2>4. Places' BY <1>1, <2>1, <2>2, ActorsAre DEF Go, Places, Codex
  <2> QED BY <2>2, <2>3, <2>4 DEF QueuesKept
<1>4. CASE SpawnBegin(a)
  <2>1. pc[a] = "spawning" /\ spawnQ # <<>> /\ Head(spawnQ) = a /\ Go(a, "opening")
        /\ lock = <<>> /\ lock' = lock /\ spawnQ' = spawnQ BY <1>4 DEF SpawnBegin, AtSpawn, Busy
  <2>2. pc' \in [Actors -> Steps] /\ pc'[a] = "opening" /\ \A b \in Actors : b # a => pc'[b] = pc[b]
    BY <1>1, <2>1 DEF Go, Steps
  <2>3. SpawnOK(spawnQ, pc')
    <3>1. \A b \in Actors : pc'[b] \in AtSpawnLock <=> pc[b] \in AtSpawnLock BY <2>1, <2>2 DEF AtSpawnLock
    <3>2. \A b \in Users :
            pc'[b] = "opening" => pc[b] = "opening" \/ (spawnQ # <<>> /\ Head(spawnQ) = b) BY <2>1, <2>2, ActorsAre
    <3> QED BY <1>1, <3>1, <3>2, SpawnStays
  <2>4. LockOK(lock, pc')
    <3>1. \A b \in Users : Keeps(pc, pc', b) BY <2>1, <2>2, ActorsAre DEF Keeps, AtProcess
    <3> QED BY <1>1, <2>1, <3>1, LockStays
  <2>5. Places' BY <1>1, <2>1, ActorsAre DEF Go, Places, Codex
  <2> QED BY <2>1, <2>2, <2>3, <2>4, <2>5 DEF QueuesKept
<1>5. CASE SpawnFails(a)
  <2>1. pc[a] = "opening" /\ spawnQ' = Tail(spawnQ) /\ lock' = lock
        /\ IF a = "task" THEN TaskOver(FALSE) ELSE Go(a, "idle") BY <1>5 DEF SpawnFails
  <2>2. /\ pc' \in [Actors -> Steps] /\ pc'[a] = "idle"
        /\ \A b \in Actors : b # a =>
             \/ pc'[b] = pc[b]
             \/ a = "task" /\ pc[b] = "waiting" /\ pc'[b] = "woken"
             \/ a = "task" /\ pc[b] = "rotating" /\ pc'[b] = "failed"
    <3>1. CASE a = "task"
      <4>1. TaskOver(FALSE) BY <2>1, <3>1
      <4>2. /\ pc' \in [Actors -> Steps] /\ pc'["task"] = "idle"
            /\ \A b \in Actors : b # "task" =>
                 \/ pc'[b] = pc[b]
                 \/ pc[b] = "waiting" /\ pc'[b] = "woken"
                 \/ pc[b] = "rotating" /\ pc'[b] = IF FALSE THEN "ran" ELSE "failed" BY <1>1, <4>1, TaskOverGoes
      <4> QED BY <3>1, <4>2
    <3>2. CASE a # "task"
      <4>1. Go(a, "idle") BY <2>1, <3>2
      <4>2. pc' \in [Actors -> Steps] /\ pc'[a] = "idle" /\ \A b \in Actors : b # a => pc'[b] = pc[b]
        BY <1>1, <4>1 DEF Go, Steps
      <4> QED BY <4>2
    <3> QED BY <3>1, <3>2
  <2>3. \A b \in Actors : b # a => Stays(pc, pc', b) /\ Keeps(pc, pc', b)
    BY <2>2 DEF Stays, Keeps, AtSpawnLock, AtProcess
  <2>4. SpawnOK(spawnQ', pc') /\ LockOK(lock', pc')
    BY <1>1, <1>2, <2>1, <2>2, <2>3, LeavesSpawn DEF AtSpawnLock, AtProcess
  <2>5. Places' BY <1>1, <2>1, <2>2, ActorsAre DEF Places, Codex
  <2> QED BY <2>2, <2>4, <2>5 DEF QueuesKept
<1> QED BY <1>3, <1>4, <1>5 DEF Open

LEMMA TurnQueues ==
  ASSUME IInv, \/ Submit \/ TurnResume \/ TurnFails \/ TurnBreaks \/ TurnDrops \/ TurnCancelled
               \/ TurnEnds /\ ~Woken
  PROVE  QueuesKept
<1>1. pc \in [Actors -> Steps] /\ "turn" \in Users /\ Places /\ harness' = harness
      /\ SpawnOK(spawnQ, pc) /\ LockOK(lock, pc)
  BY ActorsAre DEF IInv, TypeOK, Steps, Submit, TurnResume, TurnEnds, TurnFails, TurnBreaks, TurnDrops,
     TurnCancelled
<1>2. CASE Submit \/ TurnResume
  <2>1. CASE Go("turn", "waiting") /\ UNCHANGED <<lock, spawnQ>> /\ Maintaining /\ pc["turn"] = "idle"
    <3>1. pc' \in [Actors -> Steps] /\ \A b \in Actors : Stays(pc, pc', b) /\ Keeps(pc, pc', b)
      BY <1>1, <2>1, ActorsAre DEF Go, Steps, Stays, Keeps, AtSpawnLock, AtProcess
    <3>2. SpawnOK(spawnQ', pc') /\ LockOK(lock', pc') BY <2>1, <3>1, QueuesStay
    <3>3. Places' BY <1>1, <2>1, ActorsAre DEF Go, Places, Codex, Maintaining
    <3> QED BY <3>1, <3>2, <3>3 DEF QueuesKept
  <2>2. CASE pc["turn"] \in {"idle", "woken"} /\ TakeAgent("turn")
    <3>1. pc["turn"] \notin AtSpawnLock \cup AtProcess BY <2>2 DEF AtSpawnLock, AtProcess
    <3>2. /\ Go("turn", "holding") \/ Go("turn", "spawning")
          /\ SpawnOK(spawnQ', pc') /\ LockOK(lock', pc') BY <1>1, <2>2, <3>1, TakeQueues
    <3>3. pc' \in [Actors -> Steps] BY <1>1, <3>2 DEF Go, Steps
    <3>4. Places' BY <1>1, <3>2, ActorsAre DEF Go, Places, Codex
    <3> QED BY <3>2, <3>3, <3>4 DEF QueuesKept
  <2> QED BY <1>2, <2>1, <2>2 DEF Submit, TurnResume, Begin
<1>3. CASE (TurnEnds /\ ~Woken) \/ TurnFails
  <2>1. pc["turn"] = "holding" /\ lock' = Without(lock, "turn") /\ spawnQ' = spawnQ
    BY <1>3 DEF TurnEnds, TurnFails, HasLock, Leave
  <2>2. \/ Go("turn", "idle")
        \/ /\ Codex /\ ~Maintaining /\ pc["rotate"] # "woken"
           /\ pc' = [pc EXCEPT !["turn"] = "idle", !["task"] = "starting"]
    BY <1>3, ActorsAre DEF TurnEnds, TurnFails, Woken
  <2>3. /\ pc' \in [Actors -> Steps] /\ pc'["turn"] = "idle"
        /\ \A b \in Actors : b # "turn" =>
             \/ pc'[b] = pc[b]
             \/ /\ Codex /\ pc["rotate"] # "woken"
                /\ b = "task" /\ pc[b] = "idle" /\ pc'[b] = "starting"
    BY <1>1, <2>2, ActorsAre DEF Go, Steps, Maintaining
  <2>4. \A b \in Actors : b # "turn" => Stays(pc, pc', b) /\ Keeps(pc, pc', b)
    BY <2>3 DEF Stays, Keeps, AtSpawnLock, AtProcess
  <2>5. SpawnOK(spawnQ', pc') /\ LockOK(lock', pc')
    BY <1>1, <2>1, <2>3, <2>4, LeavesProcess DEF AtSpawnLock, AtProcess
  <2>6. Places' BY <1>1, <2>1, <2>3, ActorsAre DEF Places, Codex
  <2> QED BY <2>3, <2>5, <2>6 DEF QueuesKept
<1>4. CASE TurnBreaks
  <2>1. pc["turn"] = "holding" /\ lock' = Without(lock, "turn") /\ spawnQ' = Append(spawnQ, "turn")
        /\ Go("turn", "dropping") BY <1>4 DEF TurnBreaks, HasLock, Leave
  <2>2. pc' \in [Actors -> Steps] /\ pc'["turn"] = "dropping"
        /\ \A b \in Actors : b # "turn" => pc'[b] = pc[b] BY <1>1, <2>1, ActorsAre DEF Go, Steps
  <2>3. SpawnOK(Append(spawnQ, "turn"), pc')
    <3>1. \A b \in Actors : b # "turn" => Stays(pc, pc', b) BY <2>2 DEF Stays
    <3>2. "turn" \in Actors /\ pc["turn"] \notin AtSpawnLock /\ pc'["turn"] \in {"spawning", "dropping"}
      BY <2>1, <2>2, ActorsAre DEF AtSpawnLock
    <3> QED BY <1>1, <3>1, <3>2, SpawnJoins
  <2>4. LockOK(Without(lock, "turn"), pc')
    <3>1. \A b \in Users : b # "turn" => Keeps(pc, pc', b) /\ (pc'[b] = "opening" => pc[b] = "opening")
      BY <2>2, ActorsAre DEF Keeps
    <3>2. pc["turn"] \in AtProcess /\ pc'["turn"] \notin AtProcess \cup {"opening"} BY <2>1, <2>2 DEF AtProcess
    <3> QED BY <1>1, <3>1, <3>2, LockLeaves
  <2>5. Places' BY <1>1, <2>1, ActorsAre DEF Go, Places, Codex
  <2> QED BY <2>1, <2>2, <2>3, <2>4, <2>5 DEF QueuesKept
<1>5. CASE TurnDrops
  <2>1. pc["turn"] = "dropping" /\ spawnQ # <<>> /\ Head(spawnQ) = "turn" /\ Go("turn", "idle")
        /\ spawnQ' = Tail(spawnQ) /\ lock' = lock BY <1>5 DEF TurnDrops, AtSpawn
  <2>2. pc' \in [Actors -> Steps] /\ pc'["turn"] = "idle"
        /\ \A b \in Actors : b # "turn" => pc'[b] = pc[b] BY <1>1, <2>1, ActorsAre DEF Go, Steps
  <2>3. \A b \in Actors : b # "turn" => Stays(pc, pc', b) /\ Keeps(pc, pc', b) BY <2>2 DEF Stays, Keeps
  <2>4. SpawnOK(spawnQ', pc') /\ LockOK(lock', pc')
    BY <1>1, <2>1, <2>2, <2>3, ActorsAre, LeavesSpawn DEF AtSpawnLock, AtProcess
  <2>5. Places' BY <1>1, <2>1, ActorsAre DEF Go, Places, Codex
  <2> QED BY <2>2, <2>4, <2>5 DEF QueuesKept
<1>6. CASE TurnCancelled
  <2>1. Go("turn", "idle") /\ spawnQ' = Without(spawnQ, "turn") BY <1>6 DEF TurnCancelled
  <2>2. pc' \in [Actors -> Steps] /\ pc'["turn"] = "idle"
        /\ \A b \in Actors : b # "turn" => pc'[b] = pc[b] BY <1>1, <2>1, ActorsAre DEF Go, Steps
  <2>3. SpawnOK(spawnQ', pc')
    <3>1. \A b \in Actors : b # "turn" => Stays(pc, pc', b) BY <2>2 DEF Stays
    <3>2. pc'["turn"] \notin AtSpawnLock BY <2>2 DEF AtSpawnLock
    <3> QED BY <1>1, <2>1, <3>1, <3>2, SpawnQuits
  <2>4. LockOK(lock', pc')
    <3>1. \A b \in Users : b # "turn" => Keeps(pc, pc', b) /\ (pc'[b] = "opening" => pc[b] = "opening")
      BY <2>2, ActorsAre DEF Keeps
    <3>2. CASE pc["turn"] = "holding"
      <4>1. lock' = Without(lock, "turn") BY <1>6, <3>2 DEF TurnCancelled, Leave
      <4>2. pc["turn"] \in AtProcess /\ pc'["turn"] \notin AtProcess \cup {"opening"} BY <2>2, <3>2 DEF AtProcess
      <4> QED BY <1>1, <3>1, <4>1, <4>2, LockLeaves
    <3>3. CASE pc["turn"] # "holding"
      <4>1. lock' = lock BY <1>6, <3>3 DEF TurnCancelled
      <4>2. pc["turn"] \notin AtProcess BY <1>6, <3>3 DEF TurnCancelled, AtProcess
      <4>3. \A b \in Users : Keeps(pc, pc', b) BY <2>2, <3>1, <4>2 DEF Keeps, AtProcess
      <4>4. \A b \in Users : pc'[b] = "opening" => pc[b] = "opening" BY <2>2, <3>1
      <4> QED BY <1>1, <4>1, <4>3, <4>4, LockStays
    <3> QED BY <3>2, <3>3
  <2>5. Places' BY <1>1, <2>1, ActorsAre DEF Go, Places, Codex
  <2> QED BY <2>2, <2>3, <2>4, <2>5 DEF QueuesKept
<1> QED BY <1>2, <1>3, <1>4, <1>5, <1>6

LEMMA TaskQueues ==
  ASSUME IInv, MaintStart \/ Compacted \/ NoteWritten \/ Renewed \/ MaintFails
  PROVE  QueuesKept
<1>1. pc \in [Actors -> Steps] /\ "task" \in Users /\ Places /\ harness' = harness
      /\ SpawnOK(spawnQ, pc) /\ LockOK(lock, pc)
  BY ActorsAre DEF IInv, TypeOK, Steps, MaintStart, Compacted, NoteWritten, Renewed, MaintFails
<1>2. CASE MaintStart
  <2>1. pc["task"] = "starting" /\ TakeAgent("task") BY <1>2 DEF MaintStart
  <2>2. pc["task"] \notin AtSpawnLock \cup AtProcess BY <2>1 DEF AtSpawnLock, AtProcess
  <2>3. /\ Go("task", "holding") \/ Go("task", "spawning")
        /\ SpawnOK(spawnQ', pc') /\ LockOK(lock', pc') BY <1>1, <2>1, <2>2, TakeQueues
  <2>4. pc' \in [Actors -> Steps] BY <1>1, <2>3 DEF Go, Steps
  <2>5. Places' BY <1>1, <2>1, <2>3, ActorsAre DEF Go, Places, Codex
  <2> QED BY <2>3, <2>4, <2>5 DEF QueuesKept
<1>3. CASE Compacted \/ Renewed \/ MaintFails
  <2>1. pc["task"] \in AtProcess /\ lock' = Without(lock, "task") /\ spawnQ' = spawnQ
    BY <1>3 DEF Compacted, Renewed, MaintFails, MaintEnds, HasLock, Leave, AtProcess
  <2>2. PICK ok \in BOOLEAN : TaskOver(ok) BY <1>3 DEF Compacted, Renewed, MaintFails, MaintEnds
  <2>3. /\ pc' \in [Actors -> Steps] /\ pc'["task"] = "idle"
        /\ \A b \in Actors : b # "task" =>
             \/ pc'[b] = pc[b]
             \/ pc[b] = "waiting" /\ pc'[b] = "woken"
             \/ pc[b] = "rotating" /\ pc'[b] = IF ok THEN "ran" ELSE "failed" BY <1>1, <2>2, TaskOverGoes
  <2>4. \A b \in Actors : b # "task" => Stays(pc, pc', b) /\ Keeps(pc, pc', b)
    BY <2>3 DEF Stays, Keeps, AtSpawnLock, AtProcess
  <2>5. SpawnOK(spawnQ', pc') /\ LockOK(lock', pc')
    BY <1>1, <2>1, <2>3, <2>4, LeavesProcess DEF AtSpawnLock, AtProcess
  <2>6. Places' BY <1>1, <2>1, <2>3, ActorsAre DEF Places, Codex, AtProcess
  <2> QED BY <2>3, <2>5, <2>6 DEF QueuesKept
<1>4. CASE NoteWritten
  <2>1. pc["task"] = "holding" /\ Go("task", "renewing") /\ UNCHANGED <<lock, spawnQ>>
    BY <1>4 DEF NoteWritten, HasLock
  <2>2. pc' \in [Actors -> Steps] /\ pc'["task"] = "renewing"
        /\ \A b \in Actors : b # "task" => pc'[b] = pc[b] BY <1>1, <2>1, ActorsAre DEF Go, Steps
  <2>3. \A b \in Actors : Stays(pc, pc', b) /\ Keeps(pc, pc', b)
    BY <2>1, <2>2 DEF Stays, Keeps, AtSpawnLock, AtProcess
  <2>4. SpawnOK(spawnQ', pc') /\ LockOK(lock', pc') BY <2>1, <2>2, <2>3, QueuesStay
  <2>5. Places' BY <1>1, <2>1, ActorsAre DEF Go, Places, Codex
  <2> QED BY <2>2, <2>4, <2>5 DEF QueuesKept
<1> QED BY <1>2, <1>3, <1>4

LEMMA RequestQueues ==
  ASSUME IInv, \/ RotateCall \/ RotateResume \/ RotateEnds \/ RotateDrops \/ RotateClears
               \/ Forget \/ ForgetEnds
  PROVE  QueuesKept
<1>1. pc \in [Actors -> Steps] /\ Places /\ harness' = harness
      /\ SpawnOK(spawnQ, pc) /\ LockOK(lock, pc) /\ lock' = lock
  BY ActorsAre DEF IInv, TypeOK, Steps, RotateCall, RotateResume, RotateEnds, RotateDrops,
     RotateClears, Forget, ForgetEnds
<1>2. ASSUME NEW a \in {"rotate", "forget"}, pc[a] \in {"idle", "woken", "failed"},
             Go(a, "dropping"), spawnQ' = Append(spawnQ, a)
      PROVE  QueuesKept
  <2>1. a \in Actors /\ pc[a] \notin AtSpawnLock \cup AtProcess BY <1>2, ActorsAre DEF AtSpawnLock, AtProcess
  <2>2. SpawnOK(spawnQ', pc') /\ LockOK(lock', pc') BY <1>1, <1>2, <2>1, JoinsSpawn
  <2>3. pc' \in [Actors -> Steps] BY <1>1, <1>2, <2>1 DEF Go, Steps
  <2>4. Places' BY <1>1, <1>2, <2>1, ActorsAre DEF Go, Places, Codex
  <2> QED BY <2>2, <2>3, <2>4 DEF QueuesKept
<1>3. ASSUME NEW s \in {"idle", "waiting"}, pc["rotate"] \in {"idle", "woken", "ran", "closing"},
             Go("rotate", s), spawnQ' = spawnQ, s = "waiting" => Codex
      PROVE  QueuesKept
  <2>1. pc' \in [Actors -> Steps] /\ pc'["rotate"] = s
        /\ \A b \in Actors : b # "rotate" => pc'[b] = pc[b] BY <1>1, <1>3, ActorsAre DEF Go, Steps
  <2>2. \A b \in Actors : Stays(pc, pc', b) /\ Keeps(pc, pc', b)
    BY <1>3, <2>1 DEF Stays, Keeps, AtSpawnLock, AtProcess
  <2>3. SpawnOK(spawnQ', pc') /\ LockOK(lock', pc') BY <1>1, <1>3, <2>1, <2>2, QueuesStay
  <2>4. Places' BY <1>1, <1>3, ActorsAre DEF Go, Places, Codex
  <2> QED BY <2>1, <2>3, <2>4 DEF QueuesKept
<1>4. ASSUME NEW a \in {"rotate", "forget"}, NEW s \in {"idle", "closing"}, pc[a] = "dropping",
             spawnQ # <<>>, Head(spawnQ) = a, spawnQ' = Tail(spawnQ), Go(a, s),
             s = "closing" => a = "rotate"
      PROVE  QueuesKept
  <2>1. a \in Actors /\ pc' \in [Actors -> Steps] /\ pc'[a] = s
        /\ \A b \in Actors : b # a => pc'[b] = pc[b] BY <1>1, <1>4, ActorsAre DEF Go, Steps
  <2>2. \A b \in Actors : b # a => Stays(pc, pc', b) /\ Keeps(pc, pc', b) BY <2>1 DEF Stays, Keeps
  <2>3. SpawnOK(spawnQ', pc') /\ LockOK(lock', pc') BY <1>1, <1>4, <2>1, <2>2, LeavesSpawn DEF AtSpawnLock, AtProcess
  <2>4. Places' BY <1>1, <1>4, <2>1, ActorsAre DEF Go, Places, Codex
  <2> QED BY <2>1, <2>3, <2>4 DEF QueuesKept
<1>5. ASSUME RotateNow, pc["rotate"] \in {"idle", "woken"}, Codex, ~Maintaining PROVE QueuesKept
  <2>1. CASE Go("rotate", "idle") /\ spawnQ' = spawnQ BY <1>3, <1>5, <2>1
  <2>2. CASE Go("rotate", "dropping") /\ spawnQ' = Append(spawnQ, "rotate") BY <1>2, <1>5, <2>2
  <2>3. CASE /\ pc' = [pc EXCEPT !["rotate"] = "rotating", !["task"] = "starting"]
             /\ spawnQ' = spawnQ
    <3>1. pc' \in [Actors -> Steps] /\ pc'["rotate"] = "rotating" /\ pc'["task"] = "starting"
          /\ \A b \in Actors : b \notin {"rotate", "task"} => pc'[b] = pc[b] BY <1>1, <2>3, ActorsAre DEF Steps
    <3>2. \A b \in Actors : Stays(pc, pc', b) /\ Keeps(pc, pc', b)
      BY <1>5, <3>1, ActorsAre DEF Stays, Keeps, AtSpawnLock, AtProcess, Maintaining
    <3>3. SpawnOK(spawnQ', pc') /\ LockOK(lock', pc') BY <1>1, <2>3, <3>1, <3>2, QueuesStay
    <3>4. Places' BY <1>1, <1>5, <3>1, ActorsAre DEF Places, Codex
    <3> QED BY <3>1, <3>3, <3>4 DEF QueuesKept
  <2> QED BY <1>5, <2>1, <2>2, <2>3 DEF RotateNow
<1>6. CASE RotateCall
  <2>1. pc["rotate"] = "idle" BY <1>6 DEF RotateCall
  <2>2. CASE Codex /\ Maintaining BY <1>3, <1>6, <2>1, <2>2 DEF RotateCall
  <2>3. CASE Codex /\ ~Maintaining BY <1>5, <1>6, <2>1, <2>3 DEF RotateCall
  <2>4. CASE ~Codex
    <3>1. Go("rotate", "dropping") /\ spawnQ' = Append(spawnQ, "rotate") BY <1>6, <2>4 DEF RotateCall
    <3> QED BY <1>2, <2>1, <3>1
  <2> QED BY <2>2, <2>3, <2>4
<1>7. CASE RotateResume BY <1>1, <1>5, <1>7, ActorsAre DEF RotateResume, Places, Maintaining
<1>8. CASE RotateEnds
  <2>1. CASE pc["rotate"] = "ran" BY <1>3, <1>8, <2>1 DEF RotateEnds
  <2>2. CASE pc["rotate"] = "failed" BY <1>2, <1>8, <2>2 DEF RotateEnds
  <2> QED BY <1>8, <2>1, <2>2 DEF RotateEnds
<1>9. CASE RotateDrops BY <1>4, <1>9 DEF RotateDrops, AtSpawn
<1>10. CASE RotateClears BY <1>3, <1>10 DEF RotateClears
<1>11. CASE Forget BY <1>2, <1>11 DEF Forget
<1>12. CASE ForgetEnds BY <1>4, <1>12 DEF ForgetEnds, AtSpawn
<1> QED BY <1>6, <1>7, <1>8, <1>9, <1>10, <1>11, <1>12

LEMMA NextQueues ==
  ASSUME IInv, [Next]_vars
  PROVE  QueuesKept
<1>1. pc \in [Actors -> Steps] /\ Places /\ SpawnOK(spawnQ, pc) /\ LockOK(lock, pc) BY DEF IInv, TypeOK, Steps
<1>2. CASE UNCHANGED <<harness, pc, lock, spawnQ>> BY <1>1, <1>2 DEF QueuesKept, Places, Codex
<1>3. CASE Restart
  <2>1. /\ pc' = [a \in Actors |-> "idle"] /\ lock' = <<>> /\ spawnQ' = <<>> BY <1>3 DEF Restart
  <2>2. pc' \in [Actors -> Steps] BY <2>1 DEF Steps
  <2>3. Places' BY <2>1, ActorsAre DEF Places
  <2>4. SpawnOK(<<>>, pc') BY <2>1, Nobody, ActorsAre DEF SpawnOK, AtSpawnLock
  <2>5. LockOK(<<>>, pc') BY <2>1, Nobody, ActorsAre DEF LockOK, AtProcess
  <2> QED BY <2>1, <2>2, <2>3, <2>4, <2>5 DEF QueuesKept
<1>4. CASE Evict \/ Die \/ FileLost \/ UNCHANGED vars BY <1>2, <1>4 DEF Evict, Die, FileLost, vars
<1>5. CASE \E a \in Users : Open(a) BY <1>5, StartQueues
<1> QED BY <1>3, <1>4, <1>5, TurnQueues, TaskQueues, RequestQueues, ActorsAre
     DEF Next, Work, Ready, TurnWork, TaskWork

------------------------
(* Data. *)
DataOK ==
  /\ harness \in Harnesses
  /\ entry \in [Harnesses -> Entries \cup {NoEntry}]
  /\ served \in Servers \cup {NoServed}
  /\ whole \subseteq Threads /\ short \subseteq Threads
  /\ filed \subseteq Threads /\ begun \in BOOLEAN
  /\ proc \in Processes
  /\ seen \in Threads \cup {NoThread} /\ task \in {"compact", "rotate"}
  /\ carried \in [attached : BOOLEAN, lost : BOOLEAN, handoff : BOOLEAN]
  /\ overtaken \in BOOLEAN /\ crossed \in BOOLEAN /\ leftover \subseteq Threads
CountOK == count \in [DOMAIN Limit -> Nat] /\ \A k \in DOMAIN Limit : count[k] <= Limit[k]

(* What one thread holds changes, and no other. *)
LEMMA HoldsHeld ==
  ASSUME NEW t, NEW part, Holds(t, part)
  PROVE  /\ Held' = IF part \in {"all", "cut"} THEN Held \cup {t} ELSE Held \ {t}
         /\ t \in Threads /\ whole \subseteq Threads /\ short \subseteq Threads =>
              whole' \subseteq Threads /\ short' \subseteq Threads BY DEF Holds, Held

(* There is always a thread that nobody uses. *)
LEMMA FreshIsNew ==
  ASSUME DataOK
  PROVE  /\ FreshThread \in Threads /\ FreshThread # NoThread /\ FreshThread \notin InUse
         /\ \A h \in Harnesses : Kept(h) \in Entries /\ FreshThread # Kept(h).thread
<1>1. \A h \in Harnesses : Kept(h) \in Entries BY DEF DataOK, Kept, Blank, Entries, NoThread, Threads
<1>2. \A h \in Harnesses : Kept(h).thread \in Threads \cup {NoThread} BY <1>1 DEF Entries
<1>3. InUse = {Kept("codex").thread, Kept("claude-code").thread, proc.thread, seen} BY DEF InUse, Harnesses
<1>4. \E t \in Threads : t \notin InUse
  <2>. DEFINE a == Kept("codex").thread
              b == Kept("claude-code").thread
              c == proc.thread
  <2>1. \E t \in Threads : t # a /\ t # b /\ t # c /\ t # seen
    <3>. HIDE DEF a, b, c
    <3> QED BY DEF Threads
  <2> QED BY <1>3, <2>1
<1>5. FreshThread \in Threads /\ FreshThread \notin InUse BY <1>4 DEF FreshThread
<1>6. \A h \in Harnesses : Kept(h).thread \in InUse BY DEF InUse
<1> QED BY <1>1, <1>5, <1>6 DEF Threads, NoThread

(* What a turn or a rotation makes of an entry is one. *)
LEMMA EntriesStay ==
  ASSUME DataOK
  PROVE  /\ Mine \in Entries /\ Own \in Nat /\ Marked \in Nat /\ GivenUp \in Entries
         /\ Cleared \in Entries /\ [Mine EXCEPT !.rotation = TRUE] \in Entries
         /\ AfterTurn \in Entries
         /\ \A t \in Threads : Rotated(t) \in Entries
<1>1. Mine \in Entries BY FreshIsNew DEF Mine, DataOK
<1>2. Mine.seq \in Nat BY <1>1 DEF Entries
<1>3. served # NoServed => served.seq \in Nat BY DEF DataOK, Servers
<1>4. Own \in Nat BY <1>2, <1>3 DEF Own
<1>5. Marked \in Nat BY <1>3, <1>4 DEF Marked, PlaneSeq, Switched
<1>6. GivenUp \in Entries /\ [Mine EXCEPT !.rotation = TRUE] \in Entries BY <1>1 DEF GivenUp, Entries
<1>7. Cleared \in Entries
  <2>. DEFINE n == IF Mine.seq = 0 THEN 2 ELSE Mine.seq + 1
  <2>1. n \in Nat BY <1>2
  <2>2. Cleared = [Mine EXCEPT !.thread = NoThread, !.rotated = TRUE, !.rotation = FALSE, !.seq = n]
    BY <1>1 DEF Cleared, Entries
  <2>. HIDE DEF n
  <2> QED BY <1>1, <2>1, <2>2 DEF Entries
<1>8. AfterTurn \in Entries
  <2>. DEFINE l == StillLost(Mine)
              h == Mine.handoff /\ ~carried.handoff
  <2>1. l \in BOOLEAN /\ h \in BOOLEAN BY DEF StillLost
  <2>2. AfterTurn = [Mine EXCEPT !.seq = Marked, !.rotated = FALSE, !.lost = l, !.handoff = h]
    BY <1>1 DEF AfterTurn, Entries
  <2>3. PICK e \in Entries : e = Mine BY <1>1
  <2>4. PICK n \in Nat : n = Marked BY <1>5
  <2>5. AfterTurn = [e EXCEPT !.seq = n, !.rotated = FALSE, !.lost = l, !.handoff = h] BY <2>2, <2>3, <2>4
  <2>. HIDE DEF l, h
  <2>6. [e EXCEPT !.seq = n, !.rotated = FALSE, !.lost = l, !.handoff = h] \in Entries BY <2>1, <2>3, <2>4 DEF Entries
  <2> QED BY <2>5, <2>6
<1>9. ASSUME NEW t \in Threads PROVE Rotated(t) \in Entries
  <2>1. PICK n \in Nat : n = Own + 1 BY <1>4
  <2>2. Rotated(t) = [Mine EXCEPT !.thread = t, !.seq = n, !.rotated = FALSE, !.handoff = TRUE,
                                  !.rotation = FALSE] BY <2>1 DEF Rotated
  <2> QED BY <1>1, <2>1, <2>2 DEF Entries
<1> QED BY <1>1, <1>4, <1>5, <1>6, <1>7, <1>8, <1>9

(* A count that is within its bound. *)
LEMMA Counted ==
  ASSUME CountOK, NEW k \in DOMAIN Limit, Count(k)
  PROVE  CountOK'
<1>1. count[k] < Limit[k] /\ count' = [count EXCEPT ![k] = @ + 1] BY DEF Count
<1>2. \A l \in DOMAIN Limit : Limit[l] \in Nat BY BoundsAssumption DEF Limit
<1>3. count' \in [DOMAIN Limit -> Nat] BY <1>1 DEF CountOK
<1>4. \A l \in DOMAIN Limit : count'[l] <= Limit[l] BY <1>1, <1>2 DEF CountOK
<1> QED BY <1>3, <1>4 DEF CountOK

(* An entry that is one is put where entries are. *)
LEMMA PutOK ==
  ASSUME DataOK, NEW e \in Entries, Put(e)
  PROVE  entry' \in [Harnesses -> Entries \cup {NoEntry}] BY DEF DataOK, Put

LEMMA LeaveOK ==
  ASSUME NEW a, NEW p \in Processes, Leave(a, p)
  PROVE  proc' \in Processes BY DEF Leave, Gone, Processes, NoThread

(* What becomes of a process is one. *)
LEMMA ProcessesStay ==
  ASSUME DataOK
  PROVE  /\ proc \in Processes /\ Gone \in Processes
         /\ [proc EXCEPT !.up = FALSE] \in Processes
         /\ [proc EXCEPT !.up = FALSE, !.dead = TRUE] \in Processes
         /\ [proc EXCEPT !.up = FALSE, !.dead = TRUE, !.known = FALSE] \in Processes
         /\ \A t \in Threads :
              /\ [proc EXCEPT !.thread = t] \in Processes
              /\ [thread |-> t, up |-> TRUE, dead |-> FALSE, known |-> TRUE] \in Processes
BY DEF DataOK, Processes, Gone

(* What a turn carries. *)
LEMMA CarriedOK ==
  ASSUME DataOK
  PROVE  /\ Nothing \in [attached : BOOLEAN, lost : BOOLEAN, handoff : BOOLEAN]
         /\ Fresh \in BOOLEAN
         /\ \A b \in BOOLEAN :
              /\ [Nothing EXCEPT !.attached = b]
                   \in [attached : BOOLEAN, lost : BOOLEAN, handoff : BOOLEAN]
              /\ [attached |-> b, lost |-> Mine.lost, handoff |-> Codex /\ Mine.handoff]
                   \in [attached : BOOLEAN, lost : BOOLEAN, handoff : BOOLEAN]
<1>1. Mine.lost \in BOOLEAN BY EntriesStay DEF Entries
<1>2. (Codex /\ Mine.handoff) \in BOOLEAN OBVIOUS
<1>3. Fresh \in BOOLEAN BY DEF Fresh
<1> QED BY <1>1, <1>2, <1>3 DEF Nothing

LEMMA NextData ==
  ASSUME IInv, [Next]_vars
  PROVE  DataOK'
<1>1. DataOK BY DEF IInv, TypeOK, DataOK
<1>2. /\ FreshThread \in Threads /\ Mine \in Entries /\ Own \in Nat /\ Marked \in Nat
      /\ GivenUp \in Entries /\ Cleared \in Entries
      /\ [Mine EXCEPT !.rotation = TRUE] \in Entries /\ AfterTurn \in Entries
      /\ \A t \in Threads : Rotated(t) \in Entries BY <1>1, FreshIsNew, EntriesStay
<1>3. /\ proc \in Processes /\ Gone \in Processes
      /\ [proc EXCEPT !.up = FALSE] \in Processes
      /\ [proc EXCEPT !.up = FALSE, !.dead = TRUE] \in Processes
      /\ [proc EXCEPT !.up = FALSE, !.dead = TRUE, !.known = FALSE] \in Processes
      /\ \A t \in Threads :
           /\ [proc EXCEPT !.thread = t] \in Processes
           /\ [thread |-> t, up |-> TRUE, dead |-> FALSE, known |-> TRUE] \in Processes
      /\ Nothing \in [attached : BOOLEAN, lost : BOOLEAN, handoff : BOOLEAN]
      /\ Fresh \in BOOLEAN
      /\ \A b \in BOOLEAN :
           /\ [Nothing EXCEPT !.attached = b]
                \in [attached : BOOLEAN, lost : BOOLEAN, handoff : BOOLEAN]
           /\ [attached |-> b, lost |-> Mine.lost, handoff |-> Codex /\ Mine.handoff]
                \in [attached : BOOLEAN, lost : BOOLEAN, handoff : BOOLEAN] BY <1>1, ProcessesStay, CarriedOK
<1>4. lock # <<>> => proc.thread \in Threads BY <1>3 DEF IInv, ProcessOK, Processes
<1>. USE DEF DataOK, files, history, vars
<1>5. ASSUME NEW a \in Users, SpawnFound(a) PROVE DataOK' BY <1>1, <1>2, <1>3, <1>5 DEF SpawnFound, AtSpawn, Reserve
<1>6. ASSUME NEW a \in Users, SpawnBegin(a) PROVE DataOK'
  <2>. DEFINE e == [Mine EXCEPT !.thread = NoThread, !.lost = TRUE]
  <2>1. e \in Entries BY <1>2 DEF Entries
  <2>2. entry' = entry \/ Put(e) BY <1>6 DEF SpawnBegin
  <2>3. entry' \in [Harnesses -> Entries \cup {NoEntry}] BY <1>1, <2>1, <2>2, PutOK
  <2>4. seen' \in Threads \cup {NoThread} BY <1>2, <1>6 DEF SpawnBegin, Entries
  <2>5. crossed' \in BOOLEAN BY <1>6 DEF SpawnBegin
  <2> QED BY <1>1, <1>3, <1>6, <2>3, <2>4, <2>5 DEF SpawnBegin
<1>7. ASSUME NEW a \in Users, Resume(a) PROVE DataOK'
  <2>1. proc' \in Processes BY <1>1, <1>3, <1>7 DEF Resume, Started
  <2> QED BY <1>1, <1>7, <2>1 DEF Resume, Started
<1>8. ASSUME NEW a \in Users, StartThread(a) PROVE DataOK'
  <2>. DEFINE t == FreshThread
              opened == [Mine EXCEPT !.thread = t, !.seq = Own]
  <2>1. opened \in Entries /\ LostNow(opened) \in Entries
    <3>1. PICK n \in Nat : n = Own BY <1>2
    <3>2. [Mine EXCEPT !.thread = t, !.seq = n] \in Entries BY <1>2 DEF Entries
    <3>3. opened \in Entries BY <3>1, <3>2
    <3> QED BY <3>3 DEF LostNow, Entries
  <2>2. Put(opened) \/ Put(LostNow(opened)) BY <1>8 DEF StartThread
  <2>3. entry' \in [Harnesses -> Entries \cup {NoEntry}] BY <1>1, <2>1, <2>2, PutOK
  <2>4. proc' \in Processes BY <1>2, <1>3, <1>8 DEF StartThread, Started
  <2>5. whole' \subseteq Threads /\ short' \subseteq Threads BY <1>1, <1>2, <1>8, HoldsHeld DEF StartThread
  <2>6. filed' \subseteq Threads /\ leftover' \subseteq Threads BY <1>1, <1>2, <1>8 DEF StartThread
  <2>7. UNCHANGED <<harness, served, begun, task, carried, overtaken, crossed>> /\ seen' = NoThread
    BY <1>8 DEF StartThread, Started
  <2> QED BY <1>1, <2>3, <2>4, <2>5, <2>6, <2>7
<1>9. ASSUME NEW a \in Users, SpawnFails(a) PROVE DataOK'
  <2>1. ASSUME NEW e \in Entries PROVE [LostNow(e) EXCEPT !.thread = NoThread] \in Entries BY DEF LostNow, Entries
  <2>2. (IF a = "task" THEN GivenUp ELSE Mine) \in Entries BY <1>2
  <2>3. \/ entry' = entry \/ Put(IF a = "task" THEN GivenUp ELSE Mine)
        \/ Put([LostNow(IF a = "task" THEN GivenUp ELSE Mine) EXCEPT !.thread = NoThread]) BY <1>9 DEF SpawnFails
  <2>4. entry' \in [Harnesses -> Entries \cup {NoEntry}] BY <1>1, <2>1, <2>2, <2>3, PutOK
  <2>5. UNCHANGED <<harness, served, whole, short, filed, begun, task, history>> /\ seen' = NoThread
        /\ proc' = Gone /\ (carried' = Nothing \/ carried' = carried) BY <1>9 DEF SpawnFails
  <2> QED BY <1>1, <1>3, <2>4, <2>5
<1>10. CASE Submit
  <2>1. carried' \in [attached : BOOLEAN, lost : BOOLEAN, handoff : BOOLEAN]
    <3>1. \/ carried' = [Nothing EXCEPT !.attached = Fresh]
          \/ carried' = [attached |-> Fresh, lost |-> Mine.lost, handoff |-> Codex /\ Mine.handoff]
      BY <1>10 DEF Submit, Begin
    <3>2. PICK b \in BOOLEAN : b = Fresh BY <1>3
    <3> QED BY <1>3, <3>1, <3>2
  <2> QED BY <1>1, <1>10, <2>1 DEF Submit
<1>11. CASE TurnResume
  <2>1. overtaken' \in BOOLEAN BY <1>11 DEF TurnResume
  <2>2. carried.attached \in BOOLEAN BY <1>1
  <2> QED BY <1>1, <1>3, <1>11, <2>1, <2>2 DEF TurnResume, Begin
<1>12. CASE TurnEnds
  <2>1. proc.thread \in Threads BY <1>3, <1>12 DEF TurnEnds, IInv, ProcessOK, Processes
  <2>2. PICK e \in Entries : Put(e)
    <3>1. CASE Put(AfterTurn) BY <1>2, <3>1
    <3>2. CASE Put([AfterTurn EXCEPT !.rotation = @ \/ task' = "rotate"])
      <4>. DEFINE b == AfterTurn.rotation \/ task' = "rotate"
      <4>1. b \in BOOLEAN OBVIOUS
      <4>2. Put([AfterTurn EXCEPT !.rotation = b]) BY <1>2, <3>2 DEF Entries
      <4>. HIDE DEF b
      <4>3. [AfterTurn EXCEPT !.rotation = b] \in Entries BY <1>2, <4>1 DEF Entries
      <4> QED BY <4>2, <4>3
    <3> QED BY <1>12, <3>1, <3>2 DEF TurnEnds
  <2>3. entry' \in [Harnesses -> Entries \cup {NoEntry}] BY <1>1, <2>2, PutOK
  <2>4. proc' \in Processes BY <1>3, <1>12, LeaveOK DEF TurnEnds
  <2>5. served' \in Servers BY <1>1, <1>2, <1>12 DEF TurnEnds, Servers
  <2>6. whole' \subseteq Threads /\ short' \subseteq Threads
        /\ filed' \subseteq Threads /\ begun' \in BOOLEAN BY <1>1, <1>12, <2>1 DEF TurnEnds
  <2>7. UNCHANGED <<harness, seen, history>> /\ carried' = Nothing
        /\ task' \in {"compact", "rotate"} BY <1>1, <1>12 DEF TurnEnds
  <2> QED BY <1>1, <1>3, <2>3, <2>4, <2>5, <2>6, <2>7
<1>13. CASE TurnFails BY <1>1, <1>3, <1>13, LeaveOK DEF TurnFails
<1>14. CASE TurnBreaks
  <2>1. proc.thread \in Threads
    <3>1. In("turn", lock) BY <1>14, ActorsAre DEF TurnBreaks, HasLock, IInv, LockOK, AtProcess
    <3>2. lock # <<>> BY <3>1, Nobody
    <3> QED BY <1>4, <3>2
  <2>2. proc' \in Processes BY <1>3, <1>14, LeaveOK DEF TurnBreaks
  <2> QED BY <1>1, <1>3, <1>14, <2>1, <2>2 DEF TurnBreaks
<1>15. CASE TurnDrops BY <1>1, <1>2, <1>3, <1>4, <1>15 DEF TurnDrops
<1>16. CASE TurnCancelled BY <1>1, <1>3, <1>16, LeaveOK DEF TurnCancelled
<1>17. CASE MaintStart BY <1>1, <1>2, <1>3, <1>4, <1>17 DEF MaintStart
<1>18. CASE Compacted
  <2>1. proc' \in Processes BY <1>3, <1>18, LeaveOK DEF Compacted, MaintEnds
  <2>2. entry' = entry BY <1>18 DEF Compacted, MaintEnds
  <2> QED BY <1>1, <1>18, <2>1, <2>2 DEF Compacted
<1>19. CASE NoteWritten BY <1>1, <1>2, <1>3, <1>4, <1>19 DEF NoteWritten
<1>20. CASE Renewed
  <2>. DEFINE t == FreshThread
  <2>1. entry' \in [Harnesses -> Entries \cup {NoEntry}]
    <3>1. Put(Rotated(t)) BY <1>20 DEF Renewed
    <3> QED BY <1>1, <1>2, <3>1, PutOK
  <2>2. proc' \in Processes BY <1>2, <1>3, <1>20 DEF Renewed
  <2>3. whole' \subseteq Threads /\ short' \subseteq Threads BY <1>1, <1>2, <1>20, HoldsHeld DEF Renewed
  <2>4. /\ UNCHANGED <<harness, served, begun, seen, task, carried, overtaken, crossed>>
        /\ filed' \subseteq Threads /\ leftover' \subseteq Threads BY <1>1, <1>2, <1>20 DEF Renewed
  <2> QED BY <1>1, <2>1, <2>2, <2>3, <2>4
<1>21. CASE MaintFails
  <2>1. proc' \in Processes BY <1>3, <1>21, LeaveOK DEF MaintFails, MaintEnds
  <2>2. entry' = entry \/ Put(GivenUp) BY <1>21 DEF MaintFails, MaintEnds
  <2>3. entry' \in [Harnesses -> Entries \cup {NoEntry}] BY <1>1, <1>2, <2>2, PutOK
  <2> QED BY <1>1, <1>21, <2>1, <2>3 DEF MaintFails
<1>22. CASE RotateCall
  <2>1. entry' = entry \/ Put([Mine EXCEPT !.rotation = TRUE]) BY <1>22 DEF RotateCall, RotateNow
  <2>2. entry' \in [Harnesses -> Entries \cup {NoEntry}] BY <1>1, <1>2, <2>1, PutOK
  <2>3. task' \in {"compact", "rotate"} BY <1>1, <1>22 DEF RotateCall, RotateNow
  <2> QED BY <1>1, <1>22, <2>2, <2>3 DEF RotateCall
<1>23. CASE RotateResume
  <2>1. entry' = entry \/ Put([Mine EXCEPT !.rotation = TRUE]) BY <1>23 DEF RotateResume, RotateNow
  <2>2. entry' \in [Harnesses -> Entries \cup {NoEntry}] BY <1>1, <1>2, <2>1, PutOK
  <2>3. task' \in {"compact", "rotate"} BY <1>1, <1>23 DEF RotateResume, RotateNow
  <2> QED BY <1>1, <1>23, <2>2, <2>3 DEF RotateResume
<1>24. CASE RotateEnds BY <1>1, <1>2, <1>3, <1>4, <1>24 DEF RotateEnds
<1>25. CASE RotateDrops BY <1>1, <1>2, <1>3, <1>4, <1>25 DEF RotateDrops
<1>26. CASE RotateClears
  <2>1. entry' \in [Harnesses -> Entries \cup {NoEntry}] BY <1>1, <1>2, <1>26, PutOK DEF RotateClears
  <2>2. crossed' \in BOOLEAN BY <1>26 DEF RotateClears
  <2> QED BY <1>1, <1>26, <2>1, <2>2 DEF RotateClears
<1>27. CASE Forget BY <1>1, <1>2, <1>3, <1>4, <1>27 DEF Forget
<1>28. CASE ForgetEnds
  <2>1. CASE UNCHANGED <<files, proc, leftover>> BY <1>1, <1>28, <2>1 DEF ForgetEnds
  <2>2. CASE ~UNCHANGED <<files, proc, leftover>>
    <3>1. /\ proc' \in {proc, Gone} /\ entry' = Unforgotten /\ served' = NoServed /\ begun' = FALSE
          /\ leftover' = {e.thread : e \in {Unforgotten[h] : h \in Harnesses} \ {NoEntry}} \ {NoThread}
          /\ filed' = filed \cap leftover' /\ whole' = Threads \ leftover' /\ short' = {}
          /\ UNCHANGED <<harness, seen, task, carried, overtaken, crossed>> BY <1>28, <2>2 DEF ForgetEnds
    <3>2. Unforgotten \in [Harnesses -> Entries \cup {NoEntry}] BY <1>1 DEF Unforgotten
    <3>3. leftover' \subseteq Threads BY <3>1, <3>2 DEF Entries
    <3> QED BY <1>1, <1>3, <3>1, <3>2, <3>3
  <2> QED BY <2>1, <2>2
<1>29. CASE Evict BY <1>1, <1>2, <1>3, <1>4, <1>29 DEF Evict
<1>30. CASE Die BY <1>1, <1>2, <1>3, <1>4, <1>30 DEF Die
<1>31. CASE FileLost BY <1>1, <1>2, <1>3, <1>4, <1>31 DEF FileLost
<1>32. CASE Restart BY <1>1, <1>2, <1>3, <1>4, <1>32 DEF Restart, Nothing
<1>33. CASE UNCHANGED vars BY <1>1, <1>33
<1> QED BY <1>5, <1>6, <1>7, <1>8, <1>9, <1>10, <1>11, <1>12, <1>13, <1>14, <1>15, <1>16,
       <1>17, <1>18, <1>19, <1>20, <1>21, <1>22, <1>23, <1>24, <1>25, <1>26, <1>27, <1>28, <1>29, <1>30,
       <1>31, <1>32, <1>33, ActorsAre
     DEF Next, Work, Ready, TurnWork, TaskWork, Open

LEMMA NextCounts ==
  ASSUME IInv, [Next]_vars
  PROVE  CountOK'
<1>1. CountOK BY DEF IInv, TypeOK, CountOK
<1>2. {"turns", "rotates", "forgets", "faults", "restarts"} \subseteq DOMAIN Limit BY DEF Limit
<1>3. ASSUME NEW a \in Users, Open(a) PROVE count' = count \/ Count("faults")
  BY <1>3 DEF Open, SpawnFound, SpawnBegin, Resume, StartThread, SpawnFails, Fault
<1>4. TurnEnds \/ TurnFails \/ TurnBreaks \/ TurnDrops => count' = count \/ Count("faults")
  BY DEF TurnEnds, TurnFails, TurnBreaks, TurnDrops, Fault, history
<1>5. MaintStart \/ Compacted \/ NoteWritten \/ Renewed \/ MaintFails
      => count' = count \/ Count("faults") BY DEF MaintStart, Compacted, NoteWritten, Renewed, MaintFails, Fault
<1>6. Ready \/ RotateDrops \/ RotateClears \/ ForgetEnds \/ Evict => count' = count
  BY DEF Ready, TurnResume, RotateResume, RotateEnds, RotateDrops, RotateClears, ForgetEnds, Evict
<1>7. Submit \/ TurnCancelled \/ RotateCall \/ Forget \/ Die \/ FileLost \/ Restart
      => \E k \in {"turns", "rotates", "forgets", "faults", "restarts"} : Count(k)
  BY DEF Submit, TurnCancelled, RotateCall, Forget, Die, FileLost, Restart, Fault
<1>8. count' = count \/ \E k \in DOMAIN Limit : Count(k)
  BY <1>2, <1>3, <1>4, <1>5, <1>6, <1>7, ActorsAre DEF Next, Work, TurnWork, TaskWork, vars
<1>9. CASE count' = count BY <1>1, <1>9 DEF CountOK
<1>10. CASE \E k \in DOMAIN Limit : Count(k) BY <1>1, <1>10, Counted
<1> QED BY <1>8, <1>9, <1>10

LEMMA NextTypeOK ==
  ASSUME IInv, [Next]_vars
  PROVE  TypeOK'
<1>1. QueuesKept /\ DataOK' /\ CountOK' BY NextQueues, NextData, NextCounts
<1> QED BY <1>1 DEF TypeOK, QueuesKept, SpawnOK, LockOK, DataOK, CountOK, Steps

------------------------
(* The process. *)

(* A process that is left is as it was, or gone with its queue. *)
LEMMA LeaveKeeps ==
  ASSUME IInv, NEW a, NEW p \in Processes, Leave(a, p)
  PROVE  \/ proc' = p
         \/ proc' = Gone /\ lock' = <<>>
<1>1. CASE p.known \/ lock # <<a>> BY <1>1 DEF Leave
<1>2. CASE ~(p.known \/ lock # <<a>>)
  <2>1. lock \in Seq(Users) /\ Distinct(lock) BY DEF IInv, LockOK
  <2>2. lock' = Without(lock, a) /\ lock' \in Seq(Users)
        /\ \A b : In(b, lock') <=> In(b, lock) /\ b # a BY <2>1, AnyLeft DEF Leave
  <2>3. \A b : ~In(b, lock') BY <1>2, <2>2 DEF In
  <2>4. lock' = <<>>
    <3>1. ASSUME lock' # <<>> PROVE FALSE
      <4>1. 1 \in DOMAIN lock' BY <2>2, <3>1
      <4> QED BY <2>3, <4>1 DEF In
    <3> QED BY <3>1
  <2> QED BY <1>2, <2>4 DEF Leave
<1> QED BY <1>1, <1>2

(* What a step may do to the process, the queue for it and what both hang  *)
(* on: the process stays, breaks or is gone, and the thread stays.         *)
Calm ==
  /\ harness' = harness /\ Mine'.thread = Mine.thread /\ (crossed => crossed')
  /\ pc'["rotate"] = "closing" => pc["rotate"] = "closing"
  /\ \/ proc' = Gone /\ lock' = <<>>
     \/ /\ proc' \in {proc, [proc EXCEPT !.up = FALSE], [proc EXCEPT !.up = FALSE, !.dead = TRUE]}
        /\ lock' # <<>> => lock # <<>> \/ proc.known

LEMMA CalmProcess ==
  ASSUME IInv, Calm
  PROVE  ProcessOK'
<1>1. proc \in Processes /\ ProcessOK BY DEF IInv, TypeOK
<1>2. CASE proc' = Gone /\ lock' = <<>> BY <1>2 DEF ProcessOK, Gone, Warm
<1>3. CASE /\ proc' \in {proc, [proc EXCEPT !.up = FALSE], [proc EXCEPT !.up = FALSE, !.dead = TRUE]}
           /\ lock' # <<>> => lock # <<>> \/ proc.known
  <2>1. /\ proc'.thread = proc.thread /\ proc'.known = proc.known
        /\ (proc'.up => proc.up /\ proc'.dead = proc.dead) /\ (~proc'.dead => ~proc.dead) BY <1>1, <1>3 DEF Processes
  <2>2. proc'.up => proc'.known /\ ~proc'.dead BY <1>1, <2>1 DEF ProcessOK
  <2>3. proc'.known \/ lock' # <<>> => proc'.thread # NoThread BY <1>1, <1>3, <2>1 DEF ProcessOK
  <2>4. Warm' => Warm BY <2>1 DEF Warm, Codex, Calm
  <2>5. Warm' /\ ~crossed' => proc'.thread = Mine'.thread /\ pc'["rotate"] # "closing"
    BY <1>1, <2>1, <2>4 DEF ProcessOK, Calm
  <2> QED BY <2>2, <2>3, <2>5 DEF ProcessOK
<1> QED BY <1>2, <1>3 DEF Calm

(* A start under way goes on undisturbed. *)
LEMMA CalmOpening ==
  ASSUME IInv, Calm, seen' = seen, proc = Gone => proc' = Gone,
         \A b \in Users : pc'[b] = "opening" => pc[b] = "opening"
  PROVE  OpeningOK' BY DEF IInv, OpeningOK, Calm

(* Nobody starts a process that someone has. *)
LEMMA HeldOpening ==
  ASSUME IInv, lock # <<>>, \A b \in Users : pc'[b] = "opening" => pc[b] = "opening"
  PROVE  OpeningOK' BY DEF IInv, LockOK, OpeningOK

(* One starts a process at a time. *)
LEMMA OneOpens ==
  ASSUME IInv, NEW a \in Actors, spawnQ # <<>>, Head(spawnQ) = a
  PROVE  \A b \in Users : b # a => pc[b] # "opening" BY DEF IInv, SpawnOK

(* The process is kept by taking it or queueing for it. *)
LEMMA TakeCalm ==
  ASSUME IInv, NEW a \in Users, TakeAgent(a), UNCHANGED <<harness, entry, proc, crossed>>
  PROVE  Calm
<1>1. pc \in [Actors -> Steps] BY DEF IInv, TypeOK, Steps
<1>2. lock' # <<>> => lock # <<>> \/ proc.known BY DEF TakeAgent, Warm
<1>3. Mine'.thread = Mine.thread BY DEF Mine, Kept
<1>4. pc'["rotate"] = pc["rotate"] BY <1>1, ActorsAre DEF TakeAgent, Reserve, Go
<1> QED BY <1>2, <1>3, <1>4 DEF Calm

LEMMA LeaveCalm ==
  ASSUME IInv, NEW a, NEW p \in Processes, Leave(a, p), lock # <<>>,
         p \in {proc, [proc EXCEPT !.up = FALSE, !.dead = TRUE]},
         harness' = harness, Mine'.thread = Mine.thread, crossed' = crossed,
         pc'["rotate"] = "closing" => pc["rotate"] = "closing"
  PROVE  Calm BY LeaveKeeps DEF Calm

(* What is put is what the harness has then; the other's entry stays. *)
LEMMA PutIs ==
  ASSUME DataOK, NEW e \in Entries, Put(e), harness' = harness
  PROVE  /\ Mine' = e
         /\ \A h \in Harnesses : Kept(h)' = IF h = harness THEN e ELSE Kept(h)
<1>1. /\ entry'[harness] = e /\ e # NoEntry
      /\ \A h \in Harnesses : h # harness => entry'[h] = entry[h] BY NoEntryAssumption DEF DataOK, Put
<1>2. \A h \in Harnesses : Kept(h)' = IF h = harness THEN e ELSE Kept(h) BY <1>1 DEF Kept
<1>3. Mine' = e BY <1>1 DEF Mine, Kept
<1> QED BY <1>2, <1>3

(* The fields of what is put. *)
LEMMA Fields ==
  ASSUME DataOK
  PROVE  /\ AfterTurn.thread = Mine.thread /\ AfterTurn.seq = Marked /\ ~AfterTurn.rotated
         /\ AfterTurn.lost <=> Mine.lost /\ ~carried.lost
         /\ AfterTurn.handoff <=> Mine.handoff /\ ~carried.handoff
         /\ \A b \in BOOLEAN :
              LET e == [AfterTurn EXCEPT !.rotation = b]
              IN /\ e \in Entries /\ e.thread = Mine.thread /\ e.seq = Marked /\ ~e.rotated
                 /\ e.lost <=> Mine.lost /\ ~carried.lost
                 /\ e.handoff <=> Mine.handoff /\ ~carried.handoff
<1>1. Mine \in Entries /\ AfterTurn \in Entries BY EntriesStay
<1>. DEFINE l == StillLost(Mine)
            h == Mine.handoff /\ ~carried.handoff
<1>2. AfterTurn = [Mine EXCEPT !.seq = Marked, !.rotated = FALSE, !.lost = l, !.handoff = h]
  BY <1>1 DEF AfterTurn, Entries
<1>3. (l <=> Mine.lost /\ ~carried.lost) /\ (h <=> Mine.handoff /\ ~carried.handoff) BY DEF StillLost
<1>4. l \in BOOLEAN /\ h \in BOOLEAN BY DEF StillLost
<1>. HIDE DEF l, h
<1>5. /\ AfterTurn.thread = Mine.thread /\ AfterTurn.seq = Marked /\ AfterTurn.rotated = FALSE
      /\ AfterTurn.lost = l /\ AfterTurn.handoff = h BY <1>1, <1>2 DEF Entries
<1>6. ASSUME NEW b \in BOOLEAN
      PROVE  LET e == [AfterTurn EXCEPT !.rotation = b]
             IN /\ e \in Entries /\ e.thread = AfterTurn.thread /\ e.seq = AfterTurn.seq
                /\ e.rotated = AfterTurn.rotated /\ e.lost = AfterTurn.lost
                /\ e.handoff = AfterTurn.handoff BY <1>1 DEF Entries
<1> QED BY <1>3, <1>5, <1>6

(* What the end of a turn puts. *)
LEMMA TurnPuts ==
  ASSUME DataOK, TurnEnds
  PROVE  \E e \in Entries :
           /\ Put(e) /\ e.thread = Mine.thread /\ e.seq = Marked /\ ~e.rotated
           /\ e.lost <=> Mine.lost /\ ~carried.lost
           /\ e.handoff <=> Mine.handoff /\ ~carried.handoff
<1>1. AfterTurn \in Entries BY EntriesStay
<1>2. CASE Put(AfterTurn) BY <1>1, <1>2, Fields
<1>3. CASE Put([AfterTurn EXCEPT !.rotation = @ \/ task' = "rotate"])
  <2>. DEFINE b == AfterTurn.rotation \/ task' = "rotate"
  <2>1. b \in BOOLEAN OBVIOUS
  <2>2. Put([AfterTurn EXCEPT !.rotation = b]) BY <1>1, <1>3 DEF Entries
  <2>. HIDE DEF b
  <2> QED BY <2>1, <2>2, Fields
<1> QED BY <1>2, <1>3 DEF TurnEnds

ProcessKept == ProcessOK' /\ OpeningOK'

LEMMA StartProcess ==
  ASSUME IInv, NEW a \in Users, Open(a)
  PROVE  ProcessKept
<1>1. /\ DataOK /\ ProcessOK /\ OpeningOK /\ pc \in [Actors -> Steps] /\ a \in Actors
      /\ SpawnOK(spawnQ, pc) /\ LockOK(lock, pc) /\ Mine \in Entries
  BY ActorsAre, EntriesStay DEF IInv, TypeOK, DataOK, Steps
<1>2. pc[a] = "opening" => lock = <<>> /\ spawnQ # <<>> /\ Head(spawnQ) = a BY <1>1 DEF SpawnOK, LockOK
<1>3. AtSpawn(a, "spawning") => spawnQ # <<>> /\ Head(spawnQ) = a BY DEF AtSpawn
<1>4. AtSpawn(a, "spawning") \/ pc[a] = "opening" => \A b \in Users : b # a => pc[b] # "opening"
  BY <1>1, <1>2, <1>3, OneOpens
<1>5. CASE SpawnFound(a)
  <2>1. AtSpawn(a, "spawning") /\ Warm /\ Go(a, "holding") /\ proc' = proc
        /\ UNCHANGED <<harness, entry, crossed, seen>> BY <1>5 DEF SpawnFound, Reserve, files, history
  <2>2. \A b \in Users : pc'[b] # "opening" BY <1>1, <1>4, <2>1, ActorsAre DEF Go, AtSpawn
  <2>3. Calm BY <1>1, <2>1, ActorsAre DEF Calm, Warm, Mine, Kept, Go
  <2> QED BY <2>2, <2>3, CalmProcess DEF ProcessKept, OpeningOK
<1>6. CASE SpawnBegin(a)
  <2>1. AtSpawn(a, "spawning") /\ lock = <<>> /\ lock' = lock /\ Go(a, "opening") /\ proc' = Gone
        /\ harness' = harness /\ crossed' = (crossed \/ pc["rotate"] = "closing") BY <1>6 DEF SpawnBegin, Busy
  <2>2. seen' = Mine'.thread
    <3>1. CASE ~Codex /\ Mine.thread # NoThread /\ Mine.thread \notin filed
      <4>. DEFINE e == [Mine EXCEPT !.thread = NoThread, !.lost = TRUE]
      <4>1. seen' = NoThread /\ Put(e) BY <1>6, <3>1 DEF SpawnBegin
      <4>2. e \in Entries /\ e.thread = NoThread BY <1>1 DEF Entries
      <4> QED BY <1>1, <2>1, <4>1, <4>2, PutIs
    <3>2. CASE ~(~Codex /\ Mine.thread # NoThread /\ Mine.thread \notin filed)
      <4>1. seen' = Mine.thread /\ entry' = entry BY <1>6, <3>2 DEF SpawnBegin
      <4> QED BY <2>1, <4>1 DEF Mine, Kept
    <3> QED BY <3>1, <3>2
  <2>3. pc'["rotate"] = pc["rotate"] BY <1>1, <2>1, ActorsAre DEF Go
  <2>4. OpeningOK' BY <2>1, <2>2, <2>3 DEF OpeningOK
  <2>5. ProcessOK' BY <2>1 DEF ProcessOK, Gone, Warm
  <2> QED BY <2>4, <2>5 DEF ProcessKept
<1>7. CASE Resume(a) \/ StartThread(a)
  <2>1. pc[a] = "opening" /\ Go(a, "holding") /\ UNCHANGED <<harness, crossed>>
    BY <1>7 DEF Resume, StartThread, Started, Reserve
  <2>2. PICK t : /\ proc' = [thread |-> t, up |-> TRUE, dead |-> FALSE, known |-> TRUE]
                 /\ (Resume(a) /\ t = seen) \/ (StartThread(a) /\ t = FreshThread)
    <3>1. CASE Resume(a)
      <4>1. proc' = [thread |-> seen, up |-> TRUE, dead |-> FALSE, known |-> TRUE] BY <3>1 DEF Resume, Started
      <4> QED BY <3>1, <4>1
    <3>2. CASE StartThread(a)
      <4>1. proc' = [thread |-> FreshThread, up |-> TRUE, dead |-> FALSE, known |-> TRUE]
        BY <3>2 DEF StartThread, Started
      <4> QED BY <3>2, <4>1
    <3> QED BY <1>7, <3>1, <3>2
  <2>3. t # NoThread BY <1>1, <2>2, FreshIsNew DEF Resume
  <2>4. ~crossed => t = Mine'.thread
    <3>1. CASE Resume(a) /\ t = seen
      <4>1. entry' = entry BY <3>1 DEF Resume
      <4>2. ~crossed => seen = Mine.thread BY <1>1, <2>1 DEF OpeningOK
      <4> QED BY <2>1, <3>1, <4>1, <4>2 DEF Mine, Kept
    <3>2. CASE StartThread(a) /\ t = FreshThread
      <4>. DEFINE e == [Mine EXCEPT !.thread = t, !.seq = Own]
      <4>1. e \in Entries /\ e.thread = t /\ LostNow(e) \in Entries /\ LostNow(e).thread = t
        <5>1. PICK n \in Nat : n = Own BY <1>1, EntriesStay
        <5>2. t \in Threads BY <1>1, <3>2, FreshIsNew
        <5>3. [Mine EXCEPT !.thread = t, !.seq = n] \in Entries BY <1>1, <5>1, <5>2 DEF Entries
        <5>4. [Mine EXCEPT !.thread = t, !.seq = n].thread = t BY <1>1 DEF Entries
        <5>5. e \in Entries /\ e.thread = t BY <5>1, <5>3, <5>4
        <5>. HIDE DEF e
        <5> QED BY <5>5 DEF LostNow, Entries
      <4>2. Put(e) \/ Put(LostNow(e)) BY <3>2 DEF StartThread
      <4>. HIDE DEF e
      <4>3. Mine' = e \/ Mine' = LostNow(e) BY <1>1, <2>1, <4>1, <4>2, PutIs
      <4> QED BY <4>1, <4>3
    <3> QED BY <2>2, <3>1, <3>2
  <2>5. \A b \in Users : pc'[b] # "opening" BY <1>1, <1>4, <2>1, ActorsAre DEF Go
  <2>6. ~crossed => pc'["rotate"] # "closing" BY <1>1, <2>1, ActorsAre DEF OpeningOK, Go
  <2>7. /\ proc'.thread = t /\ proc'.up /\ ~proc'.dead /\ proc'.known BY <2>2
  <2>8. ProcessOK' BY <2>1, <2>3, <2>4, <2>6, <2>7 DEF ProcessOK
  <2> QED BY <2>5, <2>8 DEF ProcessKept, OpeningOK
<1>8. CASE SpawnFails(a)
  <2>1. pc[a] = "opening" /\ proc' = Gone /\ lock' = lock BY <1>8 DEF SpawnFails
  <2>2. \A b \in Users : pc'[b] # "opening" BY <1>1, <1>4, <1>8, <2>1, ActorsAre DEF SpawnFails, TaskOver, Go
  <2>3. ProcessOK' BY <1>2, <2>1 DEF ProcessOK, Gone, Warm
  <2> QED BY <2>2, <2>3 DEF ProcessKept, OpeningOK
<1> QED BY <1>5, <1>6, <1>7, <1>8 DEF Open

LEMMA NextProcess ==
  ASSUME IInv, [Next]_vars
  PROVE  ProcessKept
<1>1. /\ DataOK /\ ProcessOK /\ OpeningOK /\ pc \in [Actors -> Steps]
      /\ SpawnOK(spawnQ, pc) /\ LockOK(lock, pc) /\ Mine \in Entries /\ proc \in Processes
      /\ [proc EXCEPT !.up = FALSE, !.dead = TRUE] \in Processes
  BY EntriesStay, ProcessesStay DEF IInv, TypeOK, DataOK, Steps
<1>2. UNCHANGED <<harness, entry>> => Mine'.thread = Mine.thread BY DEF Mine, Kept
<1>3. ASSUME NEW a \in Users, HasLock(a) PROVE lock # <<>>
  <2>1. In(a, lock) BY <1>1, <1>3 DEF HasLock, LockOK, AtProcess
  <2> QED BY <2>1, Nobody
<1>4. pc["task"] = "renewing" => lock # <<>>
  <2>1. pc["task"] = "renewing" => In("task", lock) BY <1>1, ActorsAre DEF LockOK, AtProcess
  <2> QED BY <2>1, Nobody
<1>5. ASSUME NEW a \in Users, TakeAgent(a), UNCHANGED <<harness, entry, proc, crossed, seen>>
      PROVE  ProcessKept
  <2>1. Calm BY <1>5, TakeCalm
  <2>2. \A b \in Users : pc'[b] = "opening" => pc[b] = "opening" BY <1>1, <1>5, ActorsAre DEF TakeAgent, Reserve, Go
  <2> QED BY <1>5, <2>1, <2>2, CalmProcess, CalmOpening DEF ProcessKept
<1>6. ASSUME UNCHANGED <<harness, entry, crossed, seen, lock>>, proc = Gone => proc' = Gone,
             pc'["rotate"] = "closing" => pc["rotate"] = "closing",
             \A b \in Users : pc'[b] = "opening" => pc[b] = "opening",
             proc' \in {proc, [proc EXCEPT !.up = FALSE]}
      PROVE  ProcessKept
  <2>1. Calm BY <1>2, <1>6 DEF Calm
  <2> QED BY <1>6, <2>1, CalmProcess, CalmOpening DEF ProcessKept
<1>7. CASE \E a \in Users : Open(a) BY <1>7, StartProcess
<1>8. CASE Submit
  <2>1. CASE TakeAgent("turn") BY <1>5, <1>8, <2>1, ActorsAre DEF Submit, files, history
  <2>2. CASE Go("turn", "waiting") /\ lock' = lock BY <1>1, <1>6, <1>8, <2>2, ActorsAre DEF Submit, files, history, Go
  <2> QED BY <1>8, <2>1, <2>2 DEF Submit, Begin
<1>9. CASE TurnResume BY <1>5, <1>9, ActorsAre DEF TurnResume, Begin, files
<1>10. CASE MaintStart BY <1>5, <1>10, ActorsAre DEF MaintStart, files, history
<1>11. CASE TurnEnds
  <2>1. Mine'.thread = Mine.thread BY <1>1, <1>11, TurnPuts, PutIs DEF TurnEnds
  <2>2. lock # <<>> BY <1>3, <1>11, ActorsAre DEF TurnEnds
  <2>3. pc'["rotate"] = pc["rotate"] /\ \A b \in Users : pc'[b] = "opening" => pc[b] = "opening"
    BY <1>1, <1>11, ActorsAre DEF TurnEnds, Go
  <2>4. Calm BY <1>1, <1>11, <2>1, <2>2, <2>3, LeaveCalm DEF TurnEnds, history
  <2> QED BY <2>2, <2>3, <2>4, CalmProcess, HeldOpening DEF ProcessKept
<1>12. CASE TurnFails \/ TurnBreaks
  <2>1. Mine'.thread = Mine.thread BY <1>2, <1>12 DEF TurnFails, TurnBreaks, files
  <2>2. lock # <<>> BY <1>3, <1>12, ActorsAre DEF TurnFails, TurnBreaks
  <2>3. pc'["rotate"] = pc["rotate"] /\ \A b \in Users : pc'[b] = "opening" => pc[b] = "opening"
    BY <1>1, <1>12, ActorsAre DEF TurnFails, TurnBreaks, Go
  <2>4. Calm BY <1>1, <1>12, <2>1, <2>2, <2>3, LeaveCalm DEF TurnFails, TurnBreaks, history
  <2> QED BY <2>2, <2>3, <2>4, CalmProcess, HeldOpening DEF ProcessKept
<1>13. CASE TurnDrops
  <2>1. AtSpawn("turn", "dropping") /\ Go("turn", "idle") /\ lock' = lock
        /\ UNCHANGED <<harness, entry, crossed, seen>>
        /\ ((proc' = Gone /\ lock = <<>>) \/ proc' = proc) BY <1>13 DEF TurnDrops, files, history, Busy
  <2>2. \A b \in Users : pc'[b] # "opening" BY <1>1, <2>1, OneOpens, ActorsAre DEF AtSpawn, Go
  <2>3. pc'["rotate"] = pc["rotate"] BY <1>1, <2>1, ActorsAre DEF Go
  <2>4. Calm BY <1>2, <2>1, <2>3 DEF Calm
  <2> QED BY <2>2, <2>4, CalmProcess DEF ProcessKept, OpeningOK
<1>14. CASE TurnCancelled
  <2>1. Go("turn", "idle") /\ UNCHANGED <<harness, entry, crossed>> BY <1>14 DEF TurnCancelled, files, history
  <2>2. pc'["rotate"] = pc["rotate"] /\ \A b \in Users : pc'[b] = "opening" => pc[b] = "opening"
    BY <1>1, <2>1, ActorsAre DEF Go
  <2>3. CASE pc["turn"] = "holding"
    <3>1. lock # <<>>
      <4>1. In("turn", lock) BY <1>1, <2>3, ActorsAre DEF LockOK, AtProcess
      <4> QED BY <4>1, Nobody
    <3>2. Leave("turn", proc) BY <1>14, <2>3 DEF TurnCancelled
    <3>3. Calm BY <1>1, <1>2, <2>1, <2>2, <3>1, <3>2, LeaveCalm
    <3> QED BY <2>2, <3>1, <3>3, CalmProcess, HeldOpening DEF ProcessKept
  <2>4. CASE pc["turn"] = "opening"
    <3>1. \A b \in Users : pc'[b] # "opening" BY <1>1, <2>1, <2>4, OneOpens, ActorsAre DEF Go, SpawnOK
    <3>2. UNCHANGED <<proc, lock>> BY <1>14, <2>4 DEF TurnCancelled
    <3>3. Calm BY <1>2, <2>1, <2>2, <3>2 DEF Calm
    <3> QED BY <3>1, <3>3, CalmProcess DEF ProcessKept, OpeningOK
  <2>5. CASE pc["turn"] \notin {"holding", "opening"}
    <3>1. UNCHANGED <<proc, lock, seen>> BY <1>14, <2>5 DEF TurnCancelled
    <3> QED BY <1>6, <2>1, <2>2, <3>1
  <2> QED BY <2>3, <2>4, <2>5
<1>15. CASE Compacted \/ MaintFails
  <2>1. lock # <<>> BY <1>3, <1>4, <1>15, ActorsAre DEF Compacted, MaintFails
  <2>2. Mine'.thread = Mine.thread
    <3>1. CASE entry' = entry BY <1>2, <1>15, <3>1 DEF Compacted, MaintFails
    <3>2. CASE Put(GivenUp)
      <4>1. GivenUp \in Entries /\ GivenUp.thread = Mine.thread BY <1>1, EntriesStay DEF GivenUp, Entries
      <4> QED BY <1>1, <1>15, <3>2, <4>1, PutIs DEF Compacted, MaintFails
    <3> QED BY <1>15, <3>1, <3>2 DEF Compacted, MaintFails, MaintEnds
  <2>3. /\ Leave("task", proc) /\ TaskOver(FALSE) /\ UNCHANGED <<harness, crossed>>
    BY <1>15 DEF Compacted, MaintFails, MaintEnds, history
  <2>4. (pc'["rotate"] = "closing" => pc["rotate"] = "closing")
        /\ \A b \in Users : pc'[b] = "opening" => pc[b] = "opening" BY <2>3, ActorsAre DEF TaskOver
  <2>5. Calm BY <1>1, <2>1, <2>2, <2>3, <2>4, LeaveCalm
  <2> QED BY <2>1, <2>4, <2>5, CalmProcess, HeldOpening DEF ProcessKept
<1>16. CASE NoteWritten
  <2>1. Go("task", "renewing") /\ UNCHANGED <<harness, entry, crossed, seen, lock>>
        /\ proc' \in {proc, [proc EXCEPT !.up = FALSE]} BY <1>16 DEF NoteWritten, files, history
  <2>2. pc'["rotate"] = pc["rotate"] /\ \A b \in Users : pc'[b] = "opening" => pc[b] = "opening"
    BY <1>1, <2>1, ActorsAre DEF Go
  <2>3. proc = Gone => proc' = Gone BY <2>1 DEF Gone
  <2> QED BY <1>6, <2>1, <2>2, <2>3
<1>17. CASE Renewed
  <2>. DEFINE t == FreshThread
  <2>1. /\ Put(Rotated(t)) /\ proc.up /\ proc' = [proc EXCEPT !.thread = t] /\ TaskOver(TRUE)
        /\ harness' = harness /\ crossed' = crossed BY <1>17 DEF Renewed
  <2>2. t \in Threads /\ t # NoThread /\ Rotated(t) \in Entries BY <1>1, FreshIsNew, EntriesStay
  <2>3. Mine' = Rotated(t) /\ Rotated(t).thread = t BY <1>1, <2>1, <2>2, PutIs DEF Rotated, Entries
  <2>. HIDE DEF t
  <2>4. proc'.thread = t /\ proc'.up = proc.up /\ proc'.known = proc.known /\ proc'.dead = proc.dead
    BY <1>1, <2>1 DEF Processes
  <2>5. (pc'["rotate"] = "closing" => pc["rotate"] = "closing")
        /\ \A b \in Users : pc'[b] = "opening" => pc[b] = "opening" BY <2>1, ActorsAre DEF TaskOver
  <2>6. lock # <<>> BY <1>4, <1>17 DEF Renewed
  <2>7. Warm' = Warm BY <2>1, <2>4 DEF Warm, Codex
  <2>8. ProcessOK' BY <1>1, <2>1, <2>2, <2>3, <2>4, <2>5, <2>7 DEF ProcessOK
  <2> QED BY <2>5, <2>6, <2>8, HeldOpening DEF ProcessKept
<1>18. CASE RotateCall \/ RotateResume \/ RotateEnds \/ Forget
  <2>1. UNCHANGED <<harness, crossed, seen, lock, proc>>
    BY <1>18 DEF RotateCall, RotateResume, RotateEnds, Forget, history
  <2>2. (pc'["rotate"] = "closing" => pc["rotate"] = "closing")
        /\ \A b \in Users : pc'[b] = "opening" => pc[b] = "opening"
    BY <1>1, <1>18, ActorsAre DEF RotateCall, RotateResume, RotateNow, RotateEnds, Forget, Go
  <2>3. Mine'.thread = Mine.thread
    <3>1. CASE entry' = entry BY <1>2, <2>1, <3>1
    <3>2. CASE Put([Mine EXCEPT !.rotation = TRUE])
      <4>1. [Mine EXCEPT !.rotation = TRUE] \in Entries
            /\ [Mine EXCEPT !.rotation = TRUE].thread = Mine.thread BY <1>1 DEF Entries
      <4> QED BY <1>1, <2>1, <3>2, <4>1, PutIs
    <3> QED BY <1>18, <3>1, <3>2 DEF RotateCall, RotateResume, RotateNow, RotateEnds, Forget, files
  <2>4. Calm BY <2>1, <2>2, <2>3 DEF Calm
  <2> QED BY <2>1, <2>2, <2>4, CalmProcess, CalmOpening DEF ProcessKept
<1>19. CASE RotateDrops
  <2>1. AtSpawn("rotate", "dropping") /\ UNCHANGED <<harness, entry, crossed, seen, lock>>
        /\ (Go("rotate", "idle") \/ Go("rotate", "closing")) BY <1>19 DEF RotateDrops, files, history
  <2>2. \A b \in Users : pc'[b] # "opening" BY <1>1, <2>1, OneOpens, ActorsAre DEF AtSpawn, Go
  <2>3. CASE Go("rotate", "idle") /\ proc' = proc
    <3>1. pc'["rotate"] = "idle" BY <1>1, <2>3, ActorsAre DEF Go
    <3>2. Calm BY <1>2, <2>1, <2>3, <3>1 DEF Calm
    <3> QED BY <2>2, <3>2, CalmProcess DEF ProcessKept, OpeningOK
  <2>4. CASE proc' = [proc EXCEPT !.up = FALSE, !.dead = TRUE, !.known = FALSE] /\ lock # <<>>
    <3>1. ~proc'.up /\ ~proc'.known /\ proc'.thread = proc.thread BY <1>1, <2>4 DEF Processes
    <3>2. ProcessOK' BY <1>1, <2>4, <3>1 DEF ProcessOK, Warm
    <3> QED BY <2>2, <3>2 DEF ProcessKept, OpeningOK
  <2>5. CASE proc' = Gone /\ lock = <<>>
    <3>1. ProcessOK' BY <2>1, <2>5 DEF ProcessOK, Gone, Warm
    <3> QED BY <2>2, <3>1 DEF ProcessKept, OpeningOK
  <2> QED BY <1>19, <2>3, <2>4, <2>5 DEF RotateDrops, Busy
<1>20. CASE RotateClears
  <2>1. pc["rotate"] = "closing" /\ Go("rotate", "idle") /\ UNCHANGED <<harness, proc, lock>>
        /\ crossed' = (crossed \/ \E a \in Users : pc[a] # "idle") BY <1>20 DEF RotateClears
  <2>2. Warm' = Warm BY <2>1 DEF Warm, Codex
  <2>3. Warm => crossed BY <1>1, <2>1 DEF ProcessOK
  <2>4. ProcessOK' BY <1>1, <2>1, <2>2, <2>3 DEF ProcessOK
  <2>5. \A b \in Users : pc'[b] = "opening" => pc[b] = "opening" /\ crossed' BY <1>1, <2>1, ActorsAre DEF Go
  <2>6. OpeningOK' BY <1>1, <2>1, <2>5 DEF OpeningOK
  <2> QED BY <2>4, <2>6 DEF ProcessKept
<1>21. CASE ForgetEnds
  <2>1. AtSpawn("forget", "dropping") /\ Go("forget", "idle") /\ UNCHANGED <<harness, lock, crossed>>
    BY <1>21 DEF ForgetEnds
  <2>2. \A b \in Users : pc'[b] # "opening" BY <1>1, <2>1, OneOpens, ActorsAre DEF AtSpawn, Go
  <2>3. CASE UNCHANGED <<files, proc, leftover>>
    <3>1. pc'["rotate"] = pc["rotate"] BY <1>1, <2>1, ActorsAre DEF Go
    <3>2. Calm BY <1>2, <2>1, <2>3, <3>1 DEF Calm, files
    <3> QED BY <2>2, <3>2, CalmProcess DEF ProcessKept, OpeningOK
  <2>4. CASE proc' = Gone /\ lock = <<>>
    <3>1. ProcessOK' BY <2>1, <2>4 DEF ProcessOK, Gone, Warm
    <3> QED BY <2>2, <3>1 DEF ProcessKept, OpeningOK
  <2>5. CASE proc' = proc /\ ~proc.known
    <3>1. ProcessOK' BY <1>1, <2>1, <2>5 DEF ProcessOK, Warm
    <3> QED BY <2>2, <3>1 DEF ProcessKept, OpeningOK
  <2> QED BY <1>21, <2>3, <2>4, <2>5 DEF ForgetEnds, Busy
<1>22. CASE Evict
  <2>1. proc' = Gone /\ lock' = <<>> /\ UNCHANGED <<harness, entry, crossed, seen, pc>>
    BY <1>22 DEF Evict, Busy, files, history
  <2>2. Calm BY <1>2, <2>1 DEF Calm
  <2> QED BY <2>1, <2>2, CalmProcess, CalmOpening DEF ProcessKept
<1>23. CASE Die \/ FileLost \/ UNCHANGED vars
  <2>1. UNCHANGED <<harness, entry, crossed, seen, pc, lock>>
        /\ (proc' = proc \/ (proc.up /\ proc' = [proc EXCEPT !.up = FALSE]))
    BY <1>23 DEF Die, FileLost, vars, files, history
  <2> QED BY <1>6, <2>1 DEF Gone
<1>24. CASE Restart
  <2>1. proc' = Gone /\ lock' = <<>> /\ pc' = [a \in Actors |-> "idle"] BY <1>24 DEF Restart
  <2>2. ProcessOK' BY <2>1 DEF ProcessOK, Gone, Warm
  <2> QED BY <2>1, <2>2, ActorsAre DEF ProcessKept, OpeningOK
<1> QED BY <1>7, <1>8, <1>9, <1>10, <1>11, <1>12, <1>13, <1>14, <1>15, <1>16, <1>17, <1>18, <1>19, <1>20,
     <1>21, <1>22, <1>23, <1>24, ActorsAre DEF Next, Work, Ready, TurnWork, TaskWork

------------------------
(* What is said of the threads. *)

(* A gap that a step makes is said in the entry, and what was said stays;  *)
(* of who served last the entry goes on, past a rotation for good.         *)
GapStep(h) ==
  /\ Gap(h)' => Gap(h) \/ Says(h)'
  /\ Says(h) => Says(h)'
  /\ Told(h) => Told(h)'
SeqStep(h) ==
  /\ Kept(h)'.seq >= Kept(h).seq
  /\ Kept(h)'.rotated => Kept(h).rotated \/ Kept(h)'.seq > Kept(h).seq
WordsStep ==
  /\ served' = served /\ (overtaken => overtaken') /\ (crossed => crossed')
  /\ overtaken \/ crossed \/ \A h \in Harnesses : GapStep(h)
  /\ \A h \in Harnesses : SeqStep(h)

LEMMA WordsTold ==
  ASSUME IInv, WordsStep
  PROVE  GapsAreTold'
<1>1. GapsAreTold BY DEF IInv
<1>2. CASE overtaken \/ crossed BY <1>2 DEF WordsStep, GapsAreTold
<1>3. CASE ~(overtaken \/ crossed)
  <2>1. ASSUME NEW h \in Harnesses, Gap(h)' PROVE Told(h)'
    <3>1. GapStep(h) /\ (Gap(h) => Told(h)) BY <1>1, <1>3 DEF GapsAreTold, WordsStep
    <3>2. Says(h)' => Told(h)' BY DEF Told
    <3> QED BY <2>1, <3>1, <3>2 DEF GapStep
  <2> QED BY <2>1 DEF GapsAreTold
<1> QED BY <1>2, <1>3

(* So the entry of who served last goes on. *)
LEMMA WordsSeq ==
  ASSUME IInv, served' = served, \A h \in Harnesses : SeqStep(h), DataOK'
  PROVE  SeqOK'
<1>1. SeqOK /\ DataOK BY DEF IInv, TypeOK, DataOK
<1>2. SUFFICES ASSUME served # NoServed,
                      NEW h \in Harnesses, h = served.harness
               PROVE  /\ served.seq >= 1 /\ Kept(h)'.seq >= served.seq
                      /\ Kept(h)'.rotated => Kept(h)'.seq > served.seq
  <2>1. ASSUME served # NoServed PROVE served.harness \in Harnesses BY <1>1, <2>1 DEF DataOK, Servers
  <2> QED BY <2>1 DEF SeqOK, Kept
<1>3. Kept(h) \in Entries /\ Kept(h)' \in Entries
  <2>1. Kept(h)' \in Entries BY DEF DataOK, Kept, Blank, Entries, NoThread, Threads
  <2> QED BY <1>1, <2>1, FreshIsNew
<1>4. PICK s \in Nat, o \in Nat, n \in Nat : s = served.seq /\ o = Kept(h).seq /\ n = Kept(h)'.seq
  BY <1>1, <1>2, <1>3 DEF DataOK, Servers, Entries
<1>5. /\ s >= 1 /\ o >= s /\ (Kept(h).rotated => o > s)
      /\ n >= o /\ (Kept(h)'.rotated => Kept(h).rotated \/ n > o) BY <1>1, <1>2, <1>4 DEF SeqOK, SeqStep
<1>6. n >= s /\ (Kept(h)'.rotated => n > s) BY <1>5
<1> QED BY <1>2, <1>4, <1>5, <1>6

(* A turn under way has its place, and what it carries, since before. *)
LEMMA WordsTurn ==
  ASSUME IInv, WordsStep, UNCHANGED <<harness, carried>>,
         pc'["turn"] \in {"spawning", "opening", "holding"}
           => pc["turn"] \in {"spawning", "opening", "holding"}
  PROVE  TurnSees'
<1>1. TurnSees /\ harness \in Harnesses BY DEF IInv, TypeOK
<1>2. SUFFICES ASSUME pc'["turn"] \in {"spawning", "opening", "holding"}, ~carried.attached,
                      ~overtaken', ~crossed'
               PROVE  ~carried.lost /\ ~carried.handoff /\ (Gap(harness)' => Says(harness)') BY DEF TurnSees
<1>3. ~overtaken /\ ~crossed BY <1>2 DEF WordsStep
<1>4. ~carried.lost /\ ~carried.handoff /\ (Gap(harness) => Says(harness)) BY <1>1, <1>2, <1>3 DEF TurnSees
<1>5. GapStep(harness) BY <1>1, <1>3 DEF WordsStep
<1>6. (Gap(harness)' => Gap(harness) \/ Says(harness)') /\ (Says(harness) => Says(harness)') BY <1>5 DEF GapStep
<1> QED BY <1>4, <1>6

LEMMA WordsSame ==
  ASSUME IInv, UNCHANGED <<entry, served, Held, begun, leftover>>,
         overtaken => overtaken', crossed => crossed'
  PROVE  WordsStep
<1>1. \A h : Kept(h)' = Kept(h) BY DEF Kept
<1>2. \A h \in Harnesses : GapStep(h) BY <1>1 DEF GapStep, Gap, Says, Told
<1>3. ASSUME NEW h \in Harnesses PROVE SeqStep(h)
  <2>1. Kept(h).seq \in Nat BY FreshIsNew DEF IInv, TypeOK, DataOK, Entries
  <2> QED BY <1>1, <2>1 DEF SeqStep
<1> QED BY <1>2, <1>3 DEF WordsStep

(* What is put is as far as what was there. *)
LEMMA PutSeq ==
  ASSUME DataOK, harness' = harness, NEW e \in Entries, Put(e),
         e.seq >= Mine.seq, e.rotated => Mine.rotated \/ e.seq > Mine.seq
  PROVE  \A h \in Harnesses : SeqStep(h)
<1>1. PICK g \in Harnesses : g = harness BY DEF DataOK
<1>2. \A h \in Harnesses : Kept(h)' = IF h = g THEN e ELSE Kept(h) BY <1>1, PutIs
<1>3. Kept(g) = Mine /\ Kept(g)' = e BY <1>1, <1>2 DEF Mine
<1>4. ASSUME NEW h \in Harnesses PROVE SeqStep(h)
  <2>1. CASE h = g BY <1>3, <2>1 DEF SeqStep
  <2>2. CASE h # g
    <3>1. Kept(h)' = Kept(h) BY <1>2, <2>2
    <3>2. Kept(h).seq \in Nat BY FreshIsNew DEF Entries
    <3> QED BY <3>1, <3>2 DEF SeqStep
  <2> QED BY <2>1, <2>2
<1> QED BY <1>4

(* What is put tells what was told, and the threads are what they were, or *)
(* whatever changed is told.                                               *)
LEMMA WordsPut ==
  ASSUME IInv, harness' = harness, NEW e \in Entries, Put(e), served' = served, begun' = begun,
         overtaken => overtaken', crossed => crossed',
         e.seq >= Mine.seq,
         e.rotated => Mine.rotated \/ e.seq > Mine.seq,
         \/ overtaken \/ crossed
         \/ /\ Gap(harness)' => Gap(harness) \/ e.lost \/ (Codex /\ e.handoff)
            /\ Mine.lost => e.lost \/ (Codex /\ e.handoff)
            /\ Codex /\ Mine.handoff => e.lost \/ e.handoff
            /\ Mine.rotated => e.lost \/ (Codex /\ e.handoff) \/ e.rotated
            /\ \A h \in Harnesses \ {harness} : Gap(h)' => Gap(h)
  PROVE  WordsStep
<1>1. DataOK /\ harness \in Harnesses /\ SeqOK BY DEF IInv, TypeOK, DataOK
<1>2. PICK g \in Harnesses : g = harness BY <1>1
<1>3. \A h \in Harnesses : Kept(h)' = IF h = g THEN e ELSE Kept(h) BY <1>1, <1>2, PutIs
<1>4. Kept(g) = Mine /\ Kept(g)' = e BY <1>2, <1>3 DEF Mine
<1>5. ASSUME ~(overtaken \/ crossed) PROVE \A h \in Harnesses : GapStep(h)
  <2>1. ASSUME NEW h \in Harnesses, h # g PROVE GapStep(h)
    <3>1. Kept(h)' = Kept(h) BY <1>3, <2>1
    <3>2. Gap(h)' => Gap(h) BY <1>2, <1>5, <2>1
    <3> QED BY <3>1, <3>2 DEF GapStep, Says, Told
  <2>2. /\ Says(g)' <=> e.lost \/ (Codex /\ e.handoff)
        /\ Says(g) <=> Mine.lost \/ (Codex /\ Mine.handoff) BY <1>2, <1>4 DEF Says, Codex
  <2>3. Gap(g)' => Gap(g) \/ Says(g)'
    <3>1. (Gap(g)' <=> Gap(harness)') /\ (Gap(g) <=> Gap(harness)) BY <1>2
    <3> QED BY <1>5, <2>2, <3>1
  <2>4. Says(g) => Says(g)' BY <1>5, <2>2
  <2>5. Told(g) => Told(g)'
    <3>1. Mine.rotated => Says(g)' \/ e.rotated BY <1>5, <2>2
    <3>2. /\ Told(g)' <=> Says(g)' \/ e.rotated \/ (served # NoServed /\ served.harness # g)
          /\ Told(g) <=> Says(g) \/ Mine.rotated \/ (served # NoServed /\ served.harness # g) BY <1>4 DEF Told
    <3> QED BY <2>4, <3>1, <3>2
  <2>6. GapStep(g) BY <2>3, <2>4, <2>5 DEF GapStep
  <2> QED BY <2>1, <2>6
<1>6. \A h \in Harnesses : SeqStep(h) BY <1>1, PutSeq
<1> QED BY <1>5, <1>6 DEF WordsStep

(* What a step puts changes neither the thread nor what is said of it. *)
LEMMA WordsPlain ==
  ASSUME IInv, harness' = harness, NEW e \in Entries, Put(e),
         UNCHANGED <<served, begun, Held, leftover, overtaken, crossed>>,
         e.thread = Mine.thread, e.seq = Mine.seq, e.rotated = Mine.rotated, e.lost = Mine.lost,
         e.handoff = Mine.handoff
  PROVE  WordsStep
<1>1. DataOK /\ harness \in Harnesses BY DEF IInv, TypeOK, DataOK
<1>2. PICK g \in Harnesses : g = harness BY <1>1
<1>3. \A h \in Harnesses : Kept(h)' = IF h = g THEN e ELSE Kept(h) BY <1>1, <1>2, PutIs
<1>4. \A h \in Harnesses : Kept(h)'.thread = Kept(h).thread BY <1>2, <1>3 DEF Mine
<1>5. \A h \in Harnesses : Gap(h)' => Gap(h) BY <1>4 DEF Gap
<1>6. Gap(harness)' => Gap(harness) BY <1>2, <1>5
<1>7. Mine.seq \in Nat BY <1>1, EntriesStay DEF Entries
<1> QED BY <1>5, <1>6, <1>7, WordsPut

LEMMA StartWords ==
  ASSUME IInv, NEW a \in Users, Open(a)
  PROVE  WordsStep
<1>1. /\ DataOK /\ OpeningOK /\ Mine \in Entries /\ Own \in Nat /\ harness \in Harnesses
      /\ GapsAreTold /\ harness' = harness
  BY EntriesStay DEF IInv, TypeOK, DataOK, Open, SpawnFound, SpawnBegin, Resume, StartThread,
     SpawnFails, Started
<1>2. PICK g \in Harnesses : g = harness BY <1>1
<1>3. Kept(g) = Mine BY <1>2 DEF Mine
<1>4. ASSUME NEW e \in Entries, Put(e), e.lost, e.seq >= Mine.seq, e.rotated = Mine.rotated,
             UNCHANGED <<served, begun, overtaken>>, crossed => crossed',
             \A h \in Harnesses \ {harness} : Gap(h)' => Gap(h)
      PROVE  WordsStep BY <1>1, <1>4, WordsPut
<1>5. CASE SpawnFound(a) \/ Resume(a) BY <1>5, WordsSame DEF SpawnFound, Resume, Started, files, history, Held
<1>6. CASE SpawnBegin(a)
  <2>1. UNCHANGED <<served, begun, Held, leftover, overtaken>> /\ (crossed => crossed') BY <1>6 DEF SpawnBegin, Held
  <2>2. CASE entry' = entry BY <2>1, <2>2, WordsSame
  <2>3. CASE Put([Mine EXCEPT !.thread = NoThread, !.lost = TRUE])
    <3>. DEFINE e == [Mine EXCEPT !.thread = NoThread, !.lost = TRUE]
    <3>1. e \in Entries /\ e.lost /\ e.seq = Mine.seq /\ e.rotated = Mine.rotated BY <1>1 DEF Entries
    <3>2. \A h \in Harnesses \ {harness} : Gap(h)' => Gap(h) BY <1>1, <2>1, <2>3, <3>1, PutIs DEF Gap
    <3>3. Mine.seq \in Nat BY <1>1 DEF Entries
    <3>. HIDE DEF e
    <3>4. e.seq >= Mine.seq BY <3>1, <3>3
    <3> QED BY <1>4, <2>1, <2>3, <3>1, <3>2, <3>4 DEF e
  <2> QED BY <1>6, <2>2, <2>3 DEF SpawnBegin
<1>7. CASE SpawnFails(a)
  <2>. DEFINE e == IF a = "task" THEN GivenUp ELSE Mine
              f == [LostNow(e) EXCEPT !.thread = NoThread]
  <2>1. UNCHANGED <<served, begun, Held, leftover, overtaken, crossed>>
        /\ (entry' = entry \/ Put(e) \/ Put(f)) BY <1>7 DEF SpawnFails, history, Held
  <2>2. /\ e \in Entries /\ e.thread = Mine.thread /\ e.seq = Mine.seq /\ e.rotated = Mine.rotated
        /\ e.lost = Mine.lost /\ e.handoff = Mine.handoff BY <1>1, EntriesStay DEF GivenUp, Entries
  <2>. HIDE DEF e
  <2>3. f \in Entries /\ f.lost /\ f.seq = e.seq /\ f.rotated = e.rotated BY <2>2 DEF LostNow, Entries
  <2>. HIDE DEF f
  <2>4. CASE entry' = entry BY <2>1, <2>4, WordsSame
  <2>5. CASE Put(e) BY <1>1, <2>1, <2>2, <2>5, WordsPlain
  <2>6. CASE Put(f)
    <3>1. \A h \in Harnesses \ {harness} : Gap(h)' => Gap(h) BY <1>1, <2>1, <2>3, <2>6, PutIs DEF Gap
    <3>2. f.seq >= Mine.seq BY <1>1, <2>2, <2>3 DEF Entries
    <3> QED BY <1>4, <2>1, <2>2, <2>3, <2>6, <3>1, <3>2
  <2> QED BY <2>1, <2>4, <2>5, <2>6
<1>8. CASE StartThread(a)
  <2>. DEFINE t == FreshThread
              e == [Mine EXCEPT !.thread = t, !.seq = Own]
              f == LostNow(e)
  <2>1. /\ t \in Threads /\ t # NoThread /\ t \notin InUse
        /\ \A h \in Harnesses : t # Kept(h).thread BY <1>1, FreshIsNew
  <2>2. /\ e \in Entries /\ e.thread = t /\ e.seq = Own /\ e.rotated = Mine.rotated
        /\ e.lost = Mine.lost /\ e.handoff = Mine.handoff
    <3>1. PICK n \in Nat : n = Own BY <1>1
    <3>2. PICK c \in Threads : c = t BY <2>1
    <3>3. e = [Mine EXCEPT !.thread = c, !.seq = n] BY <3>1, <3>2
    <3> QED BY <1>1, <3>1, <3>2, <3>3 DEF Entries
  <2>3. e.seq >= Mine.seq
    <3>1. PICK m \in Nat, n \in Nat : m = Mine.seq /\ n = Own BY <1>1 DEF Entries
    <3>2. m = 0 \/ n = m BY <3>1 DEF Own
    <3>3. n >= m BY <3>2
    <3> QED BY <2>2, <3>1, <3>3
  <2>4. /\ UNCHANGED <<served, begun, overtaken, crossed>>
        /\ leftover' = IF seen \in leftover /\ ~entry'[harness].lost THEN leftover \cup {t}
                       ELSE leftover \ {t}
        /\ Held' \in {Held \cup {t}, Held \ {t}} BY <1>8, HoldsHeld DEF StartThread, Started
  <2>5. Put(e) \/ Put(f) BY <1>8 DEF StartThread
  <2>6. pc[a] = "opening" /\ (~crossed => seen = Mine.thread) BY <1>1, <1>8 DEF StartThread, OpeningOK
  <2>7. \/ seen = NoThread /\ Put(e) /\ (~begun => t \in Held')
        \/ seen # NoThread /\ Put(e) /\ (seen \in Held => t \in Held')
        \/ Put(f)
    <3>1. CASE seen = NoThread /\ Put(e) /\ Holds(t, Empty) BY <3>1, HoldsHeld DEF Empty
    <3>2. CASE seen # NoThread /\ Put(e) /\ \E part \in CarryOf(seen) : Holds(t, part)
      BY <3>2, HoldsHeld DEF CarryOf, Held
    <3> QED BY <1>8, <3>1, <3>2 DEF StartThread
  <2>8. ASSUME NEW h \in Harnesses, h # harness, Put(e) \/ Put(f), f \in Entries PROVE Gap(h)' => Gap(h)
    <3>1. Kept(h)' = Kept(h) BY <1>1, <2>2, <2>8, PutIs
    <3>2. t # Kept(h).thread BY <2>1
    <3>. HIDE DEF t
    <3> QED BY <2>4, <3>1, <3>2 DEF Gap
  <2>. HIDE DEF e
  <2>9. f \in Entries /\ f.lost /\ f.seq = e.seq /\ f.rotated = e.rotated BY <2>2 DEF LostNow, Entries
  <2>. HIDE DEF f, t
  <2>10. CASE Put(f)
    <3>1. \A h \in Harnesses \ {harness} : Gap(h)' => Gap(h) BY <2>8, <2>9, <2>10
    <3>2. f.seq >= Mine.seq BY <2>3, <2>9
    <3> QED BY <1>4, <2>2, <2>4, <2>9, <2>10, <3>1, <3>2
  <2>11. CASE Put(e) /\ ~Put(f)
    <3>1. entry'[harness].lost = e.lost BY <1>1, <2>11 DEF Put, DataOK
    <3>2. Kept(g)' = e BY <1>1, <1>2, <2>2, <2>11, PutIs
    <3>3. \A h \in Harnesses \ {harness} : Gap(h)' => Gap(h) BY <2>8, <2>9, <2>11
    <3>4. ASSUME ~crossed PROVE Gap(g)' => Gap(g) \/ e.lost
      <4>1. seen = Kept(g).thread BY <1>3, <2>6, <3>4
      <4>2. CASE begun \/ seen # NoThread
        <5>1. CASE seen = NoThread BY <1>1, <4>1, <4>2, <5>1 DEF Gap, DataOK, Held, NoThread, Threads
        <5>2. CASE seen \in Held
          <6>1. seen # NoThread BY <1>1, <5>2 DEF DataOK, Held, NoThread, Threads
          <6>2. t \in Held' BY <2>7, <2>11, <5>2, <6>1
          <6> QED BY <2>2, <3>2, <6>2 DEF Gap
        <5>3. CASE seen \in leftover
          <6>1. ~e.lost => t \in leftover' BY <2>4, <3>1, <5>3
          <6> QED BY <2>2, <3>2, <6>1 DEF Gap
        <5>4. CASE seen # NoThread /\ seen \notin Held \cup leftover BY <4>1, <5>4 DEF Gap
        <5> QED BY <5>1, <5>2, <5>3, <5>4
      <4>3. CASE ~begun /\ seen = NoThread
        <5>1. t \in Held' BY <2>7, <2>11, <4>3
        <5> QED BY <2>2, <3>2, <5>1 DEF Gap
      <4> QED BY <4>2, <4>3
    <3>5. ~crossed => (Gap(harness)' => Gap(harness) \/ e.lost)
      <4>1. harness' = harness BY <1>1
      <4> QED BY <1>2, <3>4, <4>1
    <3>6. served' = served /\ begun' = begun /\ overtaken' = overtaken /\ crossed' = crossed BY <2>4
    <3>7. e.rotated => Mine.rotated \/ e.seq > Mine.seq BY <2>2
    <3>8. CASE crossed BY <1>1, <2>2, <2>3, <2>11, <3>6, <3>7, <3>8, WordsPut
    <3>9. CASE ~crossed BY <1>1, <2>2, <2>3, <2>11, <3>3, <3>5, <3>6, <3>7, <3>9, WordsPut
    <3> QED BY <3>8, <3>9
  <2> QED BY <2>5, <2>10, <2>11
<1> QED BY <1>5, <1>6, <1>7, <1>8 DEF Open

(* What is told is fresh: a client that asks hears of it. *)
LEMMA ToldIsFresh ==
  ASSUME Told(harness)
  PROVE  Fresh BY DEF Told, Says, Fresh, Mine, Codex, Switched

LEMMA TaskWords ==
  ASSUME IInv, MaintStart \/ Compacted \/ NoteWritten \/ Renewed \/ MaintFails
  PROVE  WordsStep
<1>1. /\ DataOK /\ Mine \in Entries /\ Own \in Nat /\ harness \in Harnesses /\ GivenUp \in Entries
      /\ Places BY EntriesStay DEF IInv, TypeOK, DataOK
<1>2. CASE MaintStart \/ Compacted \/ NoteWritten
  <2>1. UNCHANGED <<entry, served, Held, begun, leftover, overtaken, crossed>>
    BY <1>2 DEF MaintStart, Compacted, NoteWritten, MaintEnds, files, history, Held
  <2> QED BY <2>1, WordsSame
<1>3. CASE MaintFails
  <2>1. /\ UNCHANGED <<harness, served, begun, Held, leftover, overtaken, crossed>>
        /\ entry' = entry \/ Put(GivenUp) BY <1>3 DEF MaintFails, MaintEnds, history, Held
  <2>2. /\ GivenUp.thread = Mine.thread /\ GivenUp.seq = Mine.seq
        /\ GivenUp.rotated = Mine.rotated /\ GivenUp.lost = Mine.lost
        /\ GivenUp.handoff = Mine.handoff BY <1>1 DEF GivenUp, Entries
  <2>3. CASE entry' = entry BY <2>1, <2>3, WordsSame
  <2>4. CASE Put(GivenUp) BY <1>1, <2>1, <2>2, <2>4, WordsPlain
  <2> QED BY <2>1, <2>3, <2>4
<1>4. CASE Renewed
  <2>. DEFINE t == FreshThread
              e == Rotated(t)
  <2>1. /\ t \in Threads /\ \A h \in Harnesses : t # Kept(h).thread BY <1>1, FreshIsNew
  <2>2. /\ Put(e) /\ UNCHANGED <<harness, served, begun, overtaken, crossed>>
        /\ Held' \in {Held \cup {t}, Held \ {t}} /\ leftover' = leftover \ {t}
        /\ pc["task"] = "renewing" BY <1>4, HoldsHeld DEF Renewed
  <2>3. Codex BY <1>1, <2>2 DEF Places
  <2>4. PICK n \in Nat : n = Own BY <1>1
  <2>5. e \in Entries /\ e.seq = n + 1 /\ ~e.rotated /\ e.handoff
    <3>1. PICK m \in Nat : m = Own + 1 BY <1>1
    <3>2. PICK c \in Threads : c = t BY <2>1
    <3>3. e = [Mine EXCEPT !.thread = c, !.seq = m, !.rotated = FALSE, !.handoff = TRUE,
                           !.rotation = FALSE] BY <3>1, <3>2 DEF Rotated
    <3>4. e \in Entries /\ e.seq = m /\ e.rotated = FALSE /\ e.handoff = TRUE BY <1>1, <3>1, <3>2, <3>3 DEF Entries
    <3> QED BY <2>4, <3>1, <3>4
  <2>. HIDE DEF e
  <2>6. e.seq >= Mine.seq
    <3>1. PICK m \in Nat : m = Mine.seq BY <1>1 DEF Entries
    <3>2. m = 0 \/ n = m BY <2>4, <3>1 DEF Own
    <3> QED BY <2>4, <2>5, <3>1, <3>2
  <2>7. ASSUME NEW h \in Harnesses, h # harness PROVE Gap(h)' => Gap(h)
    <3>1. Kept(h)' = Kept(h) BY <1>1, <2>2, <2>5, <2>7, PutIs
    <3>2. t # Kept(h).thread BY <2>1
    <3>. HIDE DEF t
    <3> QED BY <2>2, <3>1, <3>2 DEF Gap
  <2>8. \A h \in Harnesses \ {harness} : Gap(h)' => Gap(h) BY <2>7
  <2> QED BY <2>2, <2>3, <2>5, <2>6, <2>8, WordsPut
<1> QED BY <1>2, <1>3, <1>4

LEMMA RequestWords ==
  ASSUME IInv, \/ RotateCall \/ RotateResume \/ RotateEnds \/ RotateDrops \/ Forget
               \/ Submit \/ TurnResume \/ TurnFails \/ TurnBreaks \/ TurnDrops \/ TurnCancelled
               \/ Evict \/ Die \/ FileLost \/ Restart \/ UNCHANGED vars
  PROVE  WordsStep
<1>1. DataOK /\ Mine \in Entries BY EntriesStay DEF IInv, TypeOK, DataOK
<1>2. CASE RotateCall \/ RotateResume
  <2>. DEFINE e == [Mine EXCEPT !.rotation = TRUE]
  <2>1. /\ UNCHANGED <<harness, served, begun, Held, leftover, overtaken, crossed>>
        /\ entry' = entry \/ Put(e) BY <1>2 DEF RotateCall, RotateResume, RotateNow, history, Held
  <2>2. /\ e \in Entries /\ e.thread = Mine.thread /\ e.seq = Mine.seq
        /\ e.rotated = Mine.rotated /\ e.lost = Mine.lost /\ e.handoff = Mine.handoff BY <1>1 DEF Entries
  <2>. HIDE DEF e
  <2>3. CASE entry' = entry BY <2>1, <2>3, WordsSame
  <2>4. CASE Put(e) BY <1>1, <2>1, <2>2, <2>4, WordsPlain
  <2> QED BY <2>1, <2>3, <2>4
<1>3. CASE \/ RotateEnds \/ RotateDrops \/ Forget \/ Evict \/ Die \/ FileLost \/ Restart
           \/ UNCHANGED vars
  BY <1>3, WordsSame DEF RotateEnds, RotateDrops, Forget, Evict, Die, FileLost, Restart, vars,
     files, history, Held
<1>4. CASE Submit \/ TurnFails \/ TurnBreaks \/ TurnDrops \/ TurnCancelled
  <2>1. UNCHANGED <<entry, served, Held, begun, leftover, crossed, overtaken>>
    BY <1>4 DEF Submit, TurnFails, TurnBreaks, TurnDrops, TurnCancelled, files, history, Held
  <2> QED BY <2>1, WordsSame
<1>5. CASE TurnResume
  <2>1. UNCHANGED <<entry, served, Held, begun, leftover, crossed>> BY <1>5 DEF TurnResume, files, Held
  <2>2. overtaken => overtaken' BY <1>5 DEF TurnResume
  <2> QED BY <2>1, <2>2, WordsSame
<1> QED BY <1>2, <1>3, <1>4, <1>5

WordsKept == GapsAreTold' /\ TurnSees' /\ SeqOK'

(* The thread that a rotation drops is told as rotated; a turn that is     *)
(* under way has crossed it.                                               *)
LEMMA ClearWords ==
  ASSUME IInv, RotateClears, DataOK'
  PROVE  WordsKept
<1>1. /\ DataOK /\ Cleared \in Entries /\ Mine \in Entries /\ GapsAreTold
      /\ pc \in [Actors -> Steps] BY EntriesStay DEF IInv, TypeOK, DataOK, Steps
<1>2. /\ UNCHANGED <<harness, served, begun, Held, leftover, overtaken>> /\ Put(Cleared)
      /\ crossed' = (crossed \/ \E a \in Users : pc[a] # "idle")
      /\ pc' = [pc EXCEPT !["rotate"] = "idle"] BY DEF RotateClears, Go, Held
<1>3. PICK n \in Nat : n = Mine.seq BY <1>1 DEF Entries
<1>4. Cleared.rotated /\ Cleared.seq = IF n = 0 THEN 2 ELSE n + 1 BY <1>1, <1>3 DEF Cleared, Entries
<1>5. SeqOK'
  <2>1. Cleared.seq >= Mine.seq /\ Cleared.seq > Mine.seq BY <1>3, <1>4
  <2>2. \A h \in Harnesses : SeqStep(h) BY <1>1, <1>2, <2>1, PutSeq
  <2> QED BY <1>2, <2>2, WordsSeq
<1>6. PICK g \in Harnesses : g = harness BY <1>1 DEF DataOK
<1>7. \A h \in Harnesses : Kept(h)' = IF h = g THEN Cleared ELSE Kept(h) BY <1>1, <1>2, <1>6, PutIs
<1>8. GapsAreTold'
  <2>1. CASE overtaken \/ crossed' BY <1>2, <2>1 DEF GapsAreTold
  <2>2. CASE ~(overtaken \/ crossed')
    <3>1. ASSUME NEW h \in Harnesses, Gap(h)' PROVE Told(h)'
      <4>1. CASE h = g
        <5>1. Kept(h)' = Cleared BY <1>7, <4>1
        <5> QED BY <1>4, <5>1 DEF Told
      <4>2. CASE h # g
        <5>1. Kept(h)' = Kept(h) BY <1>7, <4>2
        <5>2. Gap(h) BY <1>2, <3>1, <5>1 DEF Gap
        <5>3. Told(h) BY <1>1, <1>2, <2>2, <5>2 DEF GapsAreTold
        <5> QED BY <1>2, <5>1, <5>3 DEF Told, Says
      <4> QED BY <4>1, <4>2
    <3> QED BY <3>1 DEF GapsAreTold
  <2> QED BY <2>1, <2>2
<1>9. TurnSees'
  <2>1. pc["turn"] # "idle" => crossed' BY <1>2, ActorsAre
  <2>2. pc'["turn"] = pc["turn"] BY <1>1, <1>2, ActorsAre
  <2> QED BY <2>1, <2>2 DEF TurnSees
<1> QED BY <1>5, <1>8, <1>9 DEF WordsKept

(* The turn leaves its thread with the whole conversation, or with what is *)
(* said of it since; the other harness's thread is behind.                 *)
LEMMA EndWords ==
  ASSUME IInv, TurnEnds
  PROVE  WordsKept
<1>1. /\ DataOK /\ Mine \in Entries /\ GapsAreTold /\ TurnSees /\ ProcessOK /\ Own \in Nat
      /\ Marked \in Nat /\ pc \in [Actors -> Steps] /\ LockOK(lock, pc) BY EntriesStay DEF IInv, TypeOK, DataOK, Steps
<1>2. PICK e \in Entries :
        /\ Put(e) /\ e.thread = Mine.thread /\ e.seq = Marked /\ ~e.rotated
        /\ e.lost <=> Mine.lost /\ ~carried.lost
        /\ e.handoff <=> Mine.handoff /\ ~carried.handoff BY <1>1, TurnPuts
<1>3. /\ harness' = harness /\ begun' = TRUE /\ UNCHANGED <<leftover, overtaken, crossed>>
      /\ served' = [harness |-> harness, seq |-> Marked]
      /\ Held' = (IF carried.attached THEN {proc.thread} ELSE Held \cap {proc.thread})
      /\ pc["turn"] = "holding" /\ proc.up BY DEF TurnEnds, HasLock, history, Held
<1>4. PICK g \in Harnesses : g = harness BY <1>1 DEF DataOK
<1>5. \A h \in Harnesses : Kept(h)' = IF h = g THEN e ELSE Kept(h) BY <1>1, <1>2, <1>3, <1>4, PutIs
<1>6. /\ served' \in Servers /\ served' # NoServed /\ served'.harness = g /\ served'.seq = Marked
  BY <1>1, <1>3, <1>4, NoServedAssumption DEF Servers
<1>7. SeqOK'
  <2>1. Own >= 1
    <3>1. PICK m \in Nat : m = Mine.seq BY <1>1 DEF Entries
    <3>2. served # NoServed => served.seq \in Nat BY <1>1 DEF DataOK, Servers
    <3>3. CASE m # 0 BY <3>1, <3>3 DEF Own
    <3>4. CASE m = 0 /\ served = NoServed BY <3>1, <3>4 DEF Own
    <3>5. CASE m = 0 /\ served # NoServed
      <4>1. PICK s \in Nat : s = served.seq BY <3>2, <3>5
      <4> QED BY <3>1, <3>5, <4>1 DEF Own
    <3> QED BY <3>3, <3>4, <3>5
  <2>2. Marked >= 1
    <3>1. CASE Switched /\ Own <= served.seq
      <4>1. PICK s \in Nat : s = served.seq BY <1>1, <3>1 DEF Switched, DataOK, Servers
      <4> QED BY <3>1, <4>1 DEF Marked, PlaneSeq
    <3>2. CASE ~(Switched /\ Own <= served.seq) BY <2>1, <3>2 DEF Marked, PlaneSeq
    <3> QED BY <3>1, <3>2
  <2>3. Kept(g)' = e BY <1>5
  <2>4. Kept(served.harness)' = Kept(g)'
    <3>1. served'.harness = g BY <1>6
    <3> QED BY <3>1 DEF Kept
  <2> QED BY <1>1, <1>2, <1>6, <2>2, <2>3, <2>4 DEF SeqOK
<1>8. GapsAreTold'
  <2>1. CASE overtaken \/ crossed BY <1>3, <2>1 DEF GapsAreTold
  <2>2. CASE ~(overtaken \/ crossed)
    <3>1. Kept(g)' = e /\ Kept(g) = Mine BY <1>4, <1>5 DEF Mine
    <3>2. proc.thread = Mine.thread
      <4>1. Warm BY <1>1, <1>3 DEF ProcessOK, Warm
      <4> QED BY <1>1, <2>2, <4>1 DEF ProcessOK
    <3>3. proc.thread # NoThread
      <4>1. proc.known BY <1>1, <1>3 DEF ProcessOK
      <4> QED BY <1>1, <4>1 DEF ProcessOK
    <3>4. Gap(g)' => Told(g)'
      <4>1. CASE carried.attached BY <1>2, <1>3, <3>1, <3>2, <4>1 DEF Gap
      <4>2. CASE ~carried.attached
        <5>1. SUFFICES ASSUME Gap(g)' PROVE Says(g)' BY DEF Told
        <5>2. Mine.thread \notin Held \cup leftover BY <1>2, <1>3, <3>1, <3>2, <4>2, <5>1 DEF Gap
        <5>3. Gap(g) BY <3>1, <3>2, <3>3, <5>2 DEF Gap
        <5>4. ~carried.lost /\ ~carried.handoff /\ Says(g) BY <1>1, <1>3, <1>4, <2>2, <4>2, <5>3 DEF TurnSees
        <5> QED BY <1>2, <3>1, <5>4 DEF Says
      <4> QED BY <4>1, <4>2
    <3>5. ASSUME NEW h \in Harnesses, h # g PROVE Told(h)' BY <1>6, <3>5 DEF Told
    <3> QED BY <3>4, <3>5 DEF GapsAreTold
  <2> QED BY <2>1, <2>2
<1>9. TurnSees'
  <2>1. pc'["turn"] = "idle" BY <1>1, ActorsAre DEF TurnEnds, Go
  <2> QED BY <2>1 DEF TurnSees
<1> QED BY <1>7, <1>8, <1>9 DEF WordsKept

(* A deletion leaves no thread with a gap. *)
LEMMA ForgetWords ==
  ASSUME IInv, ForgetEnds, DataOK'
  PROVE  WordsKept
<1>1. DataOK /\ TurnSees /\ pc \in [Actors -> Steps] /\ harness \in Harnesses BY DEF IInv, TypeOK, DataOK, Steps
<1>2. /\ pc'["turn"] = pc["turn"] /\ UNCHANGED <<harness, carried, overtaken, crossed>>
  BY <1>1, ActorsAre DEF ForgetEnds, Go
<1>3. CASE UNCHANGED <<files, leftover>>
  <2>1. WordsStep BY <1>2, <1>3, WordsSame DEF files, Held
  <2> QED BY <1>2, <2>1, WordsTold, WordsSeq, WordsTurn DEF WordsKept, WordsStep
<1>4. CASE /\ entry' = Unforgotten /\ served' = NoServed /\ begun' = FALSE
           /\ leftover' = {e.thread : e \in {Unforgotten[h] : h \in Harnesses} \ {NoEntry}}
                          \ {NoThread}
           /\ Held' = Threads \ leftover'
  <2>1. ASSUME NEW h \in Harnesses PROVE ~Gap(h)'
    <3>1. Kept(h)' \in Entries BY DEF DataOK, Kept, Blank, Entries, NoThread, Threads
    <3>2. Kept(h)'.thread \in Threads \/ Kept(h)'.thread = NoThread BY <3>1 DEF Entries
    <3>3. Kept(h)'.thread # NoThread => Kept(h)'.thread \in Held' \cup leftover' BY <1>4, <3>2
    <3> QED BY <1>4, <3>2, <3>3 DEF Gap
  <2>2. ~Gap(harness)' BY <1>1, <1>2, <2>1
  <2> QED BY <1>1, <1>2, <1>4, <2>1, <2>2 DEF WordsKept, GapsAreTold, TurnSees, SeqOK
<1> QED BY <1>3, <1>4 DEF ForgetEnds, Held

(* A turn is sent with what its client saw, or has waited for what the     *)
(* client could not see.                                                   *)
LEMMA SubmitWords ==
  ASSUME IInv, Submit \/ TurnResume
  PROVE  TurnSees'
<1>1. GapsAreTold /\ harness \in Harnesses /\ pc \in [Actors -> Steps]
      /\ UNCHANGED <<harness, files, leftover, crossed>> BY DEF IInv, TypeOK, Steps, Submit, TurnResume, history
<1>2. ASSUME ~overtaken, ~crossed, ~Fresh
      PROVE  ~Mine.lost /\ ~(Codex /\ Mine.handoff) /\ ~Gap(harness)
  <2>1. ~Told(harness) BY <1>2, ToldIsFresh
  <2>2. ~Gap(harness) BY <1>1, <1>2, <2>1 DEF GapsAreTold
  <2> QED BY <1>2, <2>2 DEF Fresh
<1>3. Gap(harness)' => Gap(harness) BY <1>1 DEF Gap, Held, Kept, files
<1>4. CASE Submit /\ Maintaining
  <2>1. pc'["turn"] = "waiting" BY <1>1, <1>4, ActorsAre DEF Submit, Go
  <2> QED BY <2>1 DEF TurnSees
<1>5. CASE Submit /\ ~Maintaining
  <2>1. carried' = [attached |-> Fresh, lost |-> Mine.lost, handoff |-> Codex /\ Mine.handoff]
        /\ overtaken' = overtaken BY <1>5 DEF Submit, Begin, history
  <2> QED BY <1>1, <1>2, <1>3, <2>1 DEF TurnSees
<1>6. CASE TurnResume
  <2>1. /\ carried' = [attached |-> carried.attached, lost |-> Mine.lost,
                       handoff |-> Codex /\ Mine.handoff]
        /\ overtaken' = (overtaken \/ (Fresh /\ ~carried.attached)) BY <1>6 DEF TurnResume, Begin
  <2> QED BY <1>1, <1>2, <1>3, <2>1 DEF TurnSees
<1> QED BY <1>4, <1>5, <1>6

LEMMA NextWords ==
  ASSUME IInv, [Next]_vars
  PROVE  WordsKept
<1>1. DataOK' /\ pc \in [Actors -> Steps] /\ pc["turn"] # "rotating" BY NextData DEF Places, IInv, TypeOK, Steps
<1>2. ASSUME WordsStep, TurnSees' PROVE WordsKept BY <1>1, <1>2, WordsTold, WordsSeq DEF WordsKept, WordsStep
<1>3. ASSUME WordsStep, UNCHANGED <<harness, carried>>,
             pc'["turn"] = pc["turn"] \/ pc'["turn"] \in {"idle", "waiting", "woken", "dropping"}
      PROVE  WordsKept
  <2>1. TurnSees' BY <1>3, WordsTurn
  <2> QED BY <1>2, <1>3, <2>1
<1>4. ASSUME WordsStep, pc'["turn"] \in {"idle", "dropping"} PROVE WordsKept BY <1>2, <1>4 DEF TurnSees
<1>5. CASE \E a \in Users : Open(a)
  <2>1. PICK a \in Users : Open(a) BY <1>5
  <2>2. WordsStep BY <2>1, StartWords
  <2>3. CASE SpawnFound(a) \/ SpawnBegin(a) \/ Resume(a) \/ StartThread(a)
    <3>1. /\ UNCHANGED <<harness, carried>> /\ pc[a] \in {"spawning", "opening"}
          /\ Go(a, "holding") \/ Go(a, "opening")
      BY <2>3 DEF SpawnFound, SpawnBegin, Resume, StartThread, Started, Reserve, AtSpawn
    <3>2. pc'["turn"] \in {"spawning", "opening", "holding"}
            => pc["turn"] \in {"spawning", "opening", "holding"} BY <1>1, <3>1, ActorsAre DEF Go
    <3>3. TurnSees' BY <2>2, <3>1, <3>2, WordsTurn
    <3> QED BY <1>2, <2>2, <3>3
  <2>4. CASE SpawnFails(a) /\ a = "turn"
    <3>1. pc'["turn"] = "idle" BY <1>1, <2>4, ActorsAre DEF SpawnFails, Go
    <3> QED BY <1>4, <2>2, <3>1
  <2>5. CASE SpawnFails(a) /\ a = "task"
    <3>1. UNCHANGED <<harness, carried>> /\ TaskOver(FALSE) BY <2>5 DEF SpawnFails
    <3>2. pc'["turn"] = pc["turn"] \/ pc'["turn"] = "woken" BY <1>1, <3>1, TaskOverGoes, ActorsAre
    <3> QED BY <1>3, <2>2, <3>1, <3>2
  <2> QED BY <2>1, <2>3, <2>4, <2>5, ActorsAre DEF Open
<1>6. CASE MaintStart \/ NoteWritten
  <2>1. UNCHANGED <<harness, carried>>
        /\ (Go("task", "holding") \/ Go("task", "spawning") \/ Go("task", "renewing"))
    BY <1>6 DEF MaintStart, NoteWritten, TakeAgent, Reserve
  <2>2. pc'["turn"] = pc["turn"] BY <1>1, <2>1, ActorsAre DEF Go
  <2> QED BY <1>3, <1>6, <2>1, <2>2, TaskWords
<1>7. CASE Compacted \/ Renewed \/ MaintFails
  <2>1. UNCHANGED <<harness, carried>> /\ (TaskOver(FALSE) \/ TaskOver(TRUE))
    BY <1>7 DEF Compacted, Renewed, MaintFails, MaintEnds
  <2>2. pc'["turn"] = pc["turn"] \/ pc'["turn"] = "woken" BY <1>1, <2>1, TaskOverGoes, ActorsAre
  <2> QED BY <1>3, <1>7, <2>1, <2>2, TaskWords
<1>8. CASE RotateCall \/ RotateResume
  <2>1. UNCHANGED <<harness, carried>> BY <1>8 DEF RotateCall, RotateResume
  <2>2. pc'["turn"] = pc["turn"] BY <1>1, <1>8, ActorsAre DEF RotateCall, RotateResume, RotateNow, Go
  <2> QED BY <1>3, <1>8, <2>1, <2>2, RequestWords
<1>9. CASE RotateEnds \/ RotateDrops \/ Forget
  <2>1. UNCHANGED <<harness, carried>> BY <1>9 DEF RotateEnds, RotateDrops, Forget
  <2>2. pc'["turn"] = pc["turn"] BY <1>1, <1>9, ActorsAre DEF RotateEnds, RotateDrops, Forget, Go
  <2> QED BY <1>3, <1>9, <2>1, <2>2, RequestWords
<1>10. CASE Evict \/ Die \/ FileLost \/ UNCHANGED vars
  <2>1. UNCHANGED <<harness, carried, pc>> BY <1>10 DEF Evict, Die, FileLost, vars
  <2> QED BY <1>3, <1>10, <2>1, RequestWords
<1>11. CASE TurnFails \/ TurnBreaks \/ TurnDrops \/ TurnCancelled \/ Restart
  <2>1. pc'["turn"] \in {"idle", "dropping"}
    BY <1>1, <1>11, ActorsAre DEF TurnFails, TurnBreaks, TurnDrops, TurnCancelled, Restart, Go
  <2> QED BY <1>4, <1>11, <2>1, RequestWords
<1>12. CASE Submit \/ TurnResume BY <1>2, <1>12, RequestWords, SubmitWords
<1>13. CASE TurnEnds BY <1>13, EndWords
<1>14. CASE RotateClears BY <1>1, <1>14, ClearWords
<1>15. CASE ForgetEnds BY <1>1, <1>15, ForgetWords
<1> QED BY <1>5, <1>6, <1>7, <1>8, <1>9, <1>10, <1>11, <1>12, <1>13, <1>14, <1>15, ActorsAre
  DEF Next, Work, Ready, TurnWork, TaskWork

------------------------
LEMMA InitIInv == Init => IInv
<1>. SUFFICES ASSUME Init PROVE IInv OBVIOUS
<1>1. /\ lock = <<>> /\ spawnQ = <<>> /\ \A a \in Actors : pc[a] = "idle"
      /\ pc \in [Actors -> Steps] /\ \A h \in Harnesses : Kept(h) = Blank BY DEF Init, Steps, Kept
<1>2. TypeOK
  <2>1. DataOK BY DEF Init, DataOK, Gone, Nothing, Processes, NoThread
  <2>2. count \in [DOMAIN Limit -> Nat] /\ \A k \in DOMAIN Limit : count[k] <= Limit[k]
    <3>1. \A k \in DOMAIN Limit : Limit[k] \in Nat BY BoundsAssumption DEF Limit
    <3>2. \A k \in DOMAIN Limit : count[k] = 0 BY DEF Init
    <3> QED BY <3>1, <3>2 DEF Init
  <2> QED BY <1>1, <2>1, <2>2, Nobody DEF TypeOK, DataOK, Steps
<1>3. Places BY <1>1, ActorsAre DEF Places
<1>4. SpawnOK(spawnQ, pc) /\ LockOK(lock, pc) BY <1>1, Nobody, ActorsAre DEF SpawnOK, LockOK, AtSpawnLock, AtProcess
<1>5. ProcessOK /\ OpeningOK BY <1>1, ActorsAre DEF Init, ProcessOK, OpeningOK, Gone, Warm
<1>6. GapsAreTold /\ TurnSees /\ SeqOK BY <1>1, ActorsAre DEF Init, GapsAreTold, TurnSees, SeqOK, Gap, Blank
<1> QED BY <1>2, <1>3, <1>4, <1>5, <1>6 DEF IInv

LEMMA NextIInv == IInv /\ [Next]_vars => IInv'
<1>. SUFFICES ASSUME IInv, [Next]_vars PROVE IInv' OBVIOUS
<1> QED BY NextTypeOK, NextQueues, NextProcess, NextWords DEF IInv, QueuesKept, ProcessKept, WordsKept

(* Whatever is asked of a conversation, breaks or is restarted, the queues *)
(* of its process, its entries and what is told of them are as IInv says   *)
(* (codex.py, claude_code.py: _agent_for, _after_turn, rotate, forget).    *)
THEOREM Invariance == Spec => []IInv
<1>1. Init => IInv BY InitIInv
<1>2. IInv /\ [Next]_vars => IInv' BY NextIInv
<1> QED BY <1>1, <1>2, PTL DEF Spec

(* Every variable keeps its type. *)
THEOREM TypeCorrect == Spec => []TypeOK
<1>1. IInv => TypeOK BY DEF IInv
<1> QED BY <1>1, Invariance, PTL

(* The thread the next turn continues holds the conversation, but for what *)
(* a carry cut from it, or the client is told that it does not             *)
(* (session_info), and the process serves the thread its entry names, but  *)
(* for a turn that maintenance overtook or that crossed a rotation.        *)
THEOREM ThreadsAreFollowed == Spec => []ThreadsAreKnown
<1>1. IInv => ThreadsAreKnown
  <2>. SUFFICES ASSUME IInv PROVE ThreadsAreKnown OBVIOUS
  <2>1. GapsAreTold /\ ProcessOK /\ harness \in Harnesses BY DEF IInv, TypeOK
  <2>2. GapIsTold
    <3>1. SUFFICES ASSUME begun, Mine.thread \notin Held \cup leftover, ~overtaken, ~crossed
                   PROVE  Fresh BY DEF GapIsTold, Held
    <3>2. Gap(harness) BY <3>1 DEF Gap, Mine
    <3>3. Told(harness) BY <2>1, <3>1, <3>2 DEF GapsAreTold
    <3> QED BY <3>3, ToldIsFresh
  <2>3. ProcessIsMapped BY <2>1 DEF ProcessOK, ProcessIsMapped
  <2> QED BY <2>2, <2>3 DEF ThreadsAreKnown
<1> QED BY <1>1, Invariance, PTL

(* The session a turn is marked with. *)
LEMMA MarkedMovesOn ==
  ASSUME IInv, served # NoServed
  PROVE  Marked >= served.seq /\ (Switched \/ Mine.rotated => Marked > served.seq)
<1>1. SeqOK /\ Own \in Nat /\ Mine \in Entries /\ served \in Servers BY EntriesStay DEF IInv, TypeOK, DataOK
<1>2. PICK s \in Nat, o \in Nat, m \in Nat : s = served.seq /\ o = Own /\ m = Mine.seq BY <1>1 DEF Servers, Entries
<1>3. CASE Switched
  <2>1. Marked = IF o <= s THEN s + 1 ELSE o BY <1>2, <1>3 DEF Marked, PlaneSeq
  <2> QED BY <1>2, <2>1
<1>4. CASE ~Switched
  <2>1. Kept(served.harness) = Mine BY <1>4 DEF Switched, Mine
  <2>2. s >= 1 /\ m >= s /\ (Mine.rotated => m > s) BY <1>1, <1>2, <2>1 DEF SeqOK
  <2>3. o = m BY <1>2, <2>2 DEF Own
  <2>4. Marked = o BY <1>2, <1>4 DEF Marked, PlaneSeq
  <2> QED BY <1>2, <1>4, <2>2, <2>3, <2>4
<1> QED BY <1>3, <1>4

(* The memory plane's session number never goes back, and moves on past a  *)
(* switched harness and a rotation (ServedLedger.seq_for).                 *)
THEOREM SessionsMoveOn == Spec => PlaneMovesOn
<1>. DEFINE MovesOn ==
       served # NoServed /\ served' \notin {served, NoServed} =>
         /\ served'.seq >= served.seq
         /\ Switched \/ Mine.rotated => served'.seq > served.seq
<1>1. IInv /\ [Next]_vars => [MovesOn]_vars
  <2>. SUFFICES ASSUME IInv, [Next]_vars, served # NoServed, served' \notin {served, NoServed}
                PROVE  /\ served'.seq >= served.seq
                       /\ Switched \/ Mine.rotated => served'.seq > served.seq OBVIOUS
  <2>1. TurnEnds
    <3>1. CASE \E a \in Users : Open(a)
      BY <3>1 DEF Open, SpawnFound, SpawnBegin, Resume, StartThread, SpawnFails, Started, files
    <3>2. CASE TaskWork /\ ~Open("task")
      BY <3>2 DEF TaskWork, MaintStart, Compacted, NoteWritten, Renewed, MaintFails, files
    <3>3. CASE Ready \/ RotateDrops \/ RotateClears \/ RotateCall \/ Forget
      BY <3>3 DEF Ready, TurnResume, RotateResume, RotateEnds, RotateDrops, RotateClears, RotateCall,
         Forget, files
    <3>4. CASE Submit \/ TurnFails \/ TurnBreaks \/ TurnDrops \/ TurnCancelled
      BY <3>4 DEF Submit, TurnFails, TurnBreaks, TurnDrops, TurnCancelled, files
    <3>5. CASE ForgetEnds BY <3>5 DEF ForgetEnds, files
    <3>6. CASE Evict \/ Die \/ FileLost \/ Restart \/ UNCHANGED vars
      BY <3>6 DEF Evict, Die, FileLost, Restart, vars, files
    <3> QED BY <3>1, <3>2, <3>3, <3>4, <3>5, <3>6, ActorsAre DEF Next, Work, TurnWork, TaskWork
  <2>2. served'.seq = Marked BY <2>1 DEF TurnEnds
  <2> QED BY <2>2, MarkedMovesOn
<1> QED BY <1>1, Invariance, PTL DEF Spec, PlaneMovesOn
========================
