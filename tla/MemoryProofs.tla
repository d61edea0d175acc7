------------ MODULE MemoryProofs ------------
(***************************************************************************)
(* Proofs about the session plane and its memory (MCMemory), for every     *)
(* value of the constants: the lives of a session, the extraction worker,  *)
(* a recall on its way to the model, the contexts of the lifecycle and the *)
(* store's records, each with its inductive invariant, and then the five   *)
(* side by side.                                                           *)
(***************************************************************************)
EXTENDS MCMemory, FiniteSetTheorems, TLAPS

------------------------
(* The lives of a session (SessionLives).                                  *)
(*                                                                         *)
(* LivesInv says where each event is until it is journaled, and that it is *)
(* journaled once, which bounds the lives that are counted; who may hold   *)
(* the lock where; that the entry, its saved copy and the finalization     *)
(* know their run, and that an open run is somebody's; that a session      *)
(* which is over with its run open has a finalization to come, and will    *)
(* have it again after a kill; and what is left of the last life while one *)
(* goes on.                                                                *)

\* What the lists of events hold, and how far lives have been counted: an event is in one place
\* until its handler has the lock, and is journaled once.
Untaken(k) == queue[k].kind = "event" /\ (k = 1 => step = "idle")
NumbersAreOK ==
  /\ \A i \in 1..Len(journal) : journal[i].no \in 1..sent
  /\ \A i, j \in 1..Len(journal) : journal[i].no = journal[j].no => i = j
  /\ \A e \in attaching :
       e.no \in 1..sent /\ \A i \in 1..Len(journal) : journal[i].no # e.no
  /\ \A d, e \in attaching : d.no = e.no => d = e
  /\ \A k \in 1..Len(queue) : Untaken(k) =>
       /\ queue[k].of.no \in 1..sent
       /\ \A i \in 1..Len(journal) : journal[i].no # queue[k].of.no
       /\ \A e \in attaching : e.no # queue[k].of.no
       /\ \A m \in 1..Len(queue) : Untaken(m) /\ queue[m].of.no = queue[k].of.no => m = k
CountOK(s) == s # NoSession => s.lives + Len(replay) <= sent + restarts * MaxEvents
CountsAreOK == life <= sent /\ Len(replay) <= MaxEvents /\ CountOK(sess) /\ CountOK(saved)

\* Who holds the lock where, and what is empty when.
PlacesAreOK ==
  /\ step = "answering" => Holder.kind = "event"
  /\ step \in {"filing", "reopening", "storing", "closing", "finishing"} => Holder.kind = "final"
  /\ step \in {"ensuring", "reopening"} => sess.run = NoRun
  /\ step = "filing" => sess.busy
  /\ step = "storing" => fin.run # NoRun
  /\ booting => attaching = {} /\ Len(queue) <= 1 /\ Waiting("event") = {}
  /\ ~booting => replay = <<>>
  /\ restarts = 0 => ~booting
  /\ sess = NoSession => saved = NoSession /\ attaching = {} /\ queue = <<>>

\* A run, by what the session, its saved copy and a finalization have of it.
Minted(r) == r # NoRun => runs[r] # "none"
Lost(r) == r # NoRun => runs[r] # "open" \/ r \in orphans
RunsAreOK ==
  /\ sess # NoSession => Minted(sess.run)
  /\ saved # NoSession => Minted(saved.run)
  /\ Minted(fin.run) /\ \A r \in orphans : Minted(r)
  /\ \A r \in RunNos : runs[r] = "none" => artifacts[r] = 0
  /\ sess # NoSession /\ sess.run # NoRun /\ ~sess.stored =>
       artifacts[sess.run] = 0 \/ sess.run \in orphans
  /\ step = "storing" => artifacts[fin.run] = 0 \/ fin.run \in orphans
  /\ OpenRunsAreTracked /\ OneArtifactPerRun

\* A session that is over with its run open has a finalization to come; one that the last save
\* has as over will have it again after a kill.
EndIsComing == Waiting("final") # {} \/ \E e \in ToSet(replay) : e.kind = "close"
EndComesBack == Waiting("final") # {} \/ \E e \in ToSet(journal) : e.kind = "close"
EndsAreOK ==
  /\ step = "finishing" => Lost(sess.run)
  /\ sess # NoSession /\ sess.state # "active" /\ ~Lost(sess.run) => EndIsComing
  /\ saved # NoSession /\ saved.state # "active" /\ ~Lost(saved.run) /\ sess.run = saved.run
       => EndComesBack

\* While a life goes on that began after the last was settled, no end is anywhere, its journaled
\* events are in the journal, and a replay that finds the session over or gone is still to come to them.
Sitting == attaching \cup Waiting("event")
JournalIsOK ==
  ~overlapped /\ ~over =>
    /\ Waiting("final") = {}
    /\ \A e \in Sitting \cup ToSet(journal) \cup ToSet(replay) : e.kind # "close"
    /\ noted \subseteq ToSet(journal)
    /\ sess = NoSession \/ sess.state # "active" => Sitting = {} /\ noted \subseteq ToSet(replay)

\* In the first boot, and without overlap, all ends are of the current life, and what is filed for it is
\* under the number the session has, or the session was forgotten since.
FilesAreOK ==
  restarts = 0 /\ ~overlapped =>
    /\ sess = NoSession \/ sess.state # "active" => over
    /\ \A e \in Waiting("final") : e.life = life
    /\ \A e \in Sitting : e.kind = "close" => e.life = life
    /\ \A n \in Lives : filed[n] <= life
    /\ step = "filing" => fin.key = sess.lives
    /\ \A n \in Lives : filed[n] = life /\ life # 0 =>
         \/ sess = NoSession
         \/ sess.lives = n
         \/ ~sess.busy /\ over /\ \A e \in Sitting : e.kind # "work"

LivesInv ==
  /\ LivesTypeOK /\ NumbersAreOK /\ CountsAreOK /\ PlacesAreOK /\ RunsAreOK /\ EndsAreOK
  /\ JournalIsOK /\ FilesAreOK /\ LivesAreFiled

\* What is finalized has been closed.
EndsAreCloses == \A e \in Waiting("final") : e.kind = "close"

------------------------
(* Data. *)

LEMMA LivesBounds ==
  /\ MaxEvents \in Nat /\ MaxInFlight \in Nat /\ MaxRuns \in Nat /\ MaxLifeFaults \in Nat
  /\ MaxRestarts \in Nat
  /\ MaxEvents * (1 + MaxRestarts) \in Nat
  /\ \A n \in 0..MaxEvents, m \in 0..MaxRestarts :
       n + m * MaxEvents \in 0..(MaxEvents * (1 + MaxRestarts)) /\ m * MaxEvents \in Nat
  /\ \A m \in Nat : (m + 1) * MaxEvents = m * MaxEvents + MaxEvents
<1>1. /\ MaxEvents \in Nat /\ MaxInFlight \in Nat /\ MaxRuns \in Nat /\ MaxLifeFaults \in Nat
      /\ MaxRestarts \in Nat BY LivesBoundsAssumption
<1>2. \A m \in Nat : (m + 1) * MaxEvents = m * MaxEvents + MaxEvents /\ m * MaxEvents \in Nat BY <1>1
<1>3. MaxEvents * (1 + MaxRestarts) = MaxEvents + MaxRestarts * MaxEvents BY <1>1
<1>4. \A m \in 0..MaxRestarts : m * MaxEvents <= MaxRestarts * MaxEvents
  <2> SUFFICES ASSUME NEW m \in 0..MaxRestarts PROVE m * MaxEvents <= MaxRestarts * MaxEvents OBVIOUS
  <2>1. PICK d \in Nat : MaxRestarts = m + d
    <3>1. MaxRestarts - m \in Nat /\ MaxRestarts = m + (MaxRestarts - m) BY <1>1
    <3> QED BY <3>1
  <2>2. MaxRestarts * MaxEvents = m * MaxEvents + d * MaxEvents BY <1>1, <2>1
  <2>3. d * MaxEvents \in Nat /\ m * MaxEvents \in Nat BY <1>1, <2>1
  <2> QED BY <2>2, <2>3
<1> QED BY <1>1, <1>2, <1>3, <1>4

\* A session's fields.
LEMMA SessionIs ==
  ASSUME NEW s \in Sessions
  PROVE  /\ s # NoSession /\ s.state \in {"active", "stale", "ended"} /\ s.lives \in Lives
         /\ s.run \in RunNos \cup {NoRun} /\ s.running \in BOOLEAN /\ s.busy \in BOOLEAN
         /\ s.stored \in BOOLEAN BY NoSessionAssumption DEF Sessions

\* Events and jobs.
LEMMA EventHas ==
  ASSUME NEW e \in Events
  PROVE  e.no \in 0..MaxEvents /\ e.kind \in Kinds /\ e.life \in Lives BY DEF Events

LEMMA JobHas ==
  ASSUME NEW j \in LockJobs
  PROVE  j.kind \in {"event", "capture", "final"} /\ j.of \in Events BY DEF LockJobs

LEMMA JobMade ==
  ASSUME NEW k \in {"event", "capture", "final"}, NEW e \in Events
  PROVE  Job(k, e) \in LockJobs /\ Job(k, e).kind = k /\ Job(k, e).of = e BY DEF Job, LockJobs

LEMMA SameElements == ASSUME NEW A, NEW B, \A e : e \in A <=> e \in B PROVE A = B
OBVIOUS

\* Who waits, by places of the queue.
LEMMA WaitingIs ==
  ASSUME queue \in Seq(LockJobs), NEW k, NEW e
  PROVE  e \in Waiting(k) <=> \E i \in 1..Len(queue) : queue[i].kind = k /\ queue[i].of = e
<1>1. Len(queue) \in Nat /\ DOMAIN queue = 1..Len(queue) OBVIOUS
<1>2. ToSet(queue) = {queue[i] : i \in 1..Len(queue)} BY <1>1 DEF ToSet
<1> QED BY <1>2 DEF Waiting

LEMMA WaitingLater ==
  ASSUME queue' \in Seq(LockJobs), NEW k, NEW e
  PROVE  e \in Waiting(k)' <=> \E i \in 1..Len(queue') : queue'[i].kind = k /\ queue'[i].of = e
<1>1. Len(queue') \in Nat /\ DOMAIN queue' = 1..Len(queue') OBVIOUS
<1>2. ToSet(queue') = {queue'[i] : i \in 1..Len(queue')} BY <1>1 DEF ToSet
<1> QED BY <1>2 DEF Waiting

\* A job joins the queue.
LEMMA Enqueued ==
  ASSUME queue \in Seq(LockJobs), NEW j \in LockJobs, queue' = Append(queue, j)
  PROVE  /\ queue' \in Seq(LockJobs) /\ queue' # <<>> /\ Len(queue) \in Nat /\ Len(queue') = Len(queue) + 1
         /\ \A i \in 1..Len(queue) : queue'[i] = queue[i]
         /\ queue'[Len(queue) + 1] = j
         /\ queue # <<>> => Holder' = Holder
         /\ \A k : j.kind # k => Waiting(k)' = Waiting(k)
         /\ \A k : j.kind = k => Waiting(k)' = Waiting(k) \cup {j.of}
<1>1. PICK q \in Seq(LockJobs) : q = queue OBVIOUS
<1>2. PICK p \in Seq(LockJobs) : p = queue' BY <1>1
<1>3. /\ Len(q) \in Nat /\ p = Append(q, j) /\ Len(p) = Len(q) + 1 /\ p # <<>>
      /\ \A i \in 1..Len(q) : p[i] = q[i]
      /\ p[Len(q) + 1] = j
      /\ q # <<>> => Head(p) = Head(q) BY <1>1, <1>2
<1>4. ASSUME NEW k, NEW e
      PROVE  e \in Waiting(k)' <=> (e \in Waiting(k) \/ (j.kind = k /\ j.of = e))
  <2>1. e \in Waiting(k) <=> \E i \in 1..Len(q) : q[i].kind = k /\ q[i].of = e BY <1>1, WaitingIs
  <2>2. e \in Waiting(k)' <=> \E i \in 1..Len(p) : p[i].kind = k /\ p[i].of = e BY <1>2, WaitingLater
  <2>3. \A i \in 1..Len(p) : i \in 1..Len(q) \/ i = Len(q) + 1 BY <1>3
  <2>4. Len(q) + 1 \in 1..Len(p) /\ \A i \in 1..Len(q) : i \in 1..Len(p) BY <1>3
  <2> QED BY <2>1, <2>2, <2>3, <2>4, <1>3
<1>5. ASSUME NEW k, j.kind # k PROVE Waiting(k)' = Waiting(k)
  <2>1. \A e : e \in Waiting(k)' <=> e \in Waiting(k) BY <1>4, <1>5
  <2> QED BY <2>1, SameElements
<1>6. ASSUME NEW k, j.kind = k PROVE Waiting(k)' = Waiting(k) \cup {j.of}
  <2>1. \A e : e \in Waiting(k)' <=> e \in Waiting(k) \cup {j.of} BY <1>4, <1>6
  <2> QED BY <2>1, SameElements
<1>7. queue # <<>> => Holder' = Holder BY <1>1, <1>2, <1>3 DEF Holder
<1> QED BY <1>1, <1>2, <1>3, <1>5, <1>6, <1>7

\* The holder of the lock leaves.
LEMMA Dequeued ==
  ASSUME queue \in Seq(LockJobs), queue # <<>>, queue' = Tail(queue)
  PROVE  /\ queue' \in Seq(LockJobs) /\ Len(queue') = Len(queue) - 1 /\ Len(queue) \in Nat /\ Len(queue) > 0
         /\ \A i \in 1..Len(queue') : queue'[i] = queue[i + 1]
         /\ Holder = queue[1] /\ Holder \in LockJobs
         /\ Holder.of \in Waiting(Holder.kind)
         /\ \A k : Waiting(k)' \subseteq Waiting(k)
         /\ \A k : Holder.kind # k => Waiting(k)' = Waiting(k)
         /\ Len(queue) <= 1 => queue' = <<>>
<1>1. PICK q \in Seq(LockJobs) : q = queue /\ q # <<>> OBVIOUS
<1>2. PICK p \in Seq(LockJobs) : p = queue' /\ p = Tail(q) BY <1>1
<1>3. /\ Len(q) \in Nat /\ Len(q) > 0 /\ Len(p) = Len(q) - 1 /\ \A i \in 1..Len(p) : p[i] = q[i + 1]
      /\ Head(q) = q[1] /\ q[1] \in LockJobs /\ (Len(q) <= 1 => p = <<>>) BY <1>1, <1>2
<1>4. ASSUME NEW k, NEW e, e \in Waiting(k)' PROVE e \in Waiting(k)
  <2>1. PICK i \in 1..Len(p) : p[i].kind = k /\ p[i].of = e BY <1>2, <1>4, WaitingLater
  <2>2. i + 1 \in 1..Len(q) /\ q[i + 1].kind = k /\ q[i + 1].of = e BY <1>3, <2>1
  <2> QED BY <1>1, <2>2, WaitingIs
<1>5. ASSUME NEW k, NEW e, q[1].kind # k, e \in Waiting(k) PROVE e \in Waiting(k)'
  <2>1. PICK i \in 1..Len(q) : q[i].kind = k /\ q[i].of = e BY <1>1, <1>5, WaitingIs
  <2>2. i # 1 /\ i - 1 \in 1..Len(p) /\ p[i - 1] = q[i]
    <3>1. i # 1 BY <1>5, <2>1
    <3>2. i - 1 \in 1..Len(p) /\ (i - 1) + 1 = i BY <1>3, <3>1
    <3> QED BY <1>3, <3>1, <3>2
  <2>3. p[i - 1].kind = k /\ p[i - 1].of = e BY <2>1, <2>2
  <2>4. \E n \in 1..Len(queue') : queue'[n].kind = k /\ queue'[n].of = e BY <1>2, <2>2, <2>3
  <2>5. queue' \in Seq(LockJobs) BY <1>2
  <2> QED BY <2>4, <2>5, WaitingLater
<1>6. q[1].of \in Waiting(q[1].kind)
  <2>1. 1 \in 1..Len(q) BY <1>3
  <2> QED BY <1>1, <2>1, WaitingIs
<1>7. Holder = q[1] BY <1>1, <1>3 DEF Holder
<1>8. \A k : Waiting(k)' \subseteq Waiting(k) BY <1>4
<1>9. ASSUME NEW k, Holder.kind # k PROVE Waiting(k)' = Waiting(k)
  <2>1. \A e : e \in Waiting(k)' <=> e \in Waiting(k) BY <1>4, <1>5, <1>7, <1>9
  <2> QED BY <2>1, SameElements
<1> QED BY <1>1, <1>2, <1>3, <1>6, <1>7, <1>8, <1>9

\* The first in the queue.
LEMMA HolderIs ==
  ASSUME queue \in Seq(LockJobs), queue # <<>>
  PROVE  /\ Len(queue) \in Nat /\ Len(queue) > 0 /\ Holder = queue[1] /\ Holder \in LockJobs
         /\ Holder.of \in Waiting(Holder.kind) /\ Holder.of \in Events
         /\ Holder.kind \in {"event", "capture", "final"}
<1>1. PICK q \in Seq(LockJobs) : q = queue /\ q # <<>> OBVIOUS
<1>2. Len(q) \in Nat /\ Len(q) > 0 /\ Head(q) = q[1] /\ q[1] \in LockJobs /\ 1 \in 1..Len(q) BY <1>1
<1>3. q[1].of \in Waiting(q[1].kind) BY <1>1, <1>2, WaitingIs
<1> QED BY <1>1, <1>2, <1>3, JobHas DEF Holder

LEMMA SameQueue == ASSUME queue' = queue PROVE (\A k : Waiting(k)' = Waiting(k)) /\ Holder' = Holder
BY DEF Waiting, Holder

\* Without a queue nobody waits.
LEMMA NobodyWaits == ASSUME queue' = <<>> PROVE \A k : Waiting(k)' = {}
<1>1. <<>> \in Seq(LockJobs) /\ Len(<<>>) = 0 OBVIOUS
<1>2. ASSUME NEW k, NEW e PROVE e \notin Waiting(k)' BY <1>1, WaitingLater
<1> QED BY <1>2

LEMMA NobodyWaited == ASSUME queue = <<>> PROVE \A k : Waiting(k) = {}
<1>1. <<>> \in Seq(LockJobs) /\ Len(<<>>) = 0 OBVIOUS
<1>2. ASSUME NEW k, NEW e PROVE e \notin Waiting(k) BY <1>1, WaitingIs
<1> QED BY <1>2

LEMMA OneWaits ==
  ASSUME NEW j \in LockJobs, queue' = <<j>>
  PROVE  /\ queue' \in Seq(LockJobs) /\ Len(queue') = 1 /\ queue'[1] = j /\ Holder' = j /\ queue' # <<>>
         /\ \A k : j.kind # k => Waiting(k)' = {}
         /\ \A k : j.kind = k => Waiting(k)' = {j.of}
<1>1. <<j>> \in Seq(LockJobs) /\ Len(<<j>>) = 1 /\ <<j>>[1] = j /\ Head(<<j>>) = j /\ <<j>> # <<>> OBVIOUS
<1>2. /\ queue' \in Seq(LockJobs) /\ Len(queue') = 1 /\ queue'[1] = j /\ Holder' = j /\ queue' # <<>>
  BY <1>1 DEF Holder
<1>3. ASSUME NEW k, NEW e PROVE e \in Waiting(k)' <=> (j.kind = k /\ j.of = e)
  <2>1. e \in Waiting(k)' <=> \E i \in 1..Len(queue') : queue'[i].kind = k /\ queue'[i].of = e BY <1>2, WaitingLater
  <2>2. 1..Len(queue') = {1} BY <1>2
  <2> QED BY <1>2, <2>1, <2>2
<1> QED BY <1>2, <1>3

\* The events of a list.
LEMMA ListedIs ==
  ASSUME NEW s \in Seq(Events)
  PROVE  /\ Len(s) \in Nat /\ ToSet(s) = {s[i] : i \in 1..Len(s)} /\ ToSet(s) \subseteq Events
         /\ s # <<>> => /\ Head(s) = s[1] /\ Head(s) \in ToSet(s) /\ Head(s) \in Events
                        /\ Tail(s) \in Seq(Events) /\ Len(Tail(s)) = Len(s) - 1 /\ Len(s) > 0
                        /\ ToSet(Tail(s)) \subseteq ToSet(s) /\ ToSet(s) \subseteq ToSet(Tail(s)) \cup {Head(s)}
         /\ \A e \in Events : /\ Append(s, e) \in Seq(Events) /\ Len(Append(s, e)) = Len(s) + 1
                              /\ \A i \in 1..Len(s) : Append(s, e)[i] = s[i]
                              /\ Append(s, e)[Len(s) + 1] = e
                              /\ ToSet(Append(s, e)) = ToSet(s) \cup {e}
<1>1. \A t \in Seq(Events) : Len(t) \in Nat /\ ToSet(t) = {t[i] : i \in 1..Len(t)} BY DEF ToSet
<1>2. \A i \in 1..Len(s) : s[i] \in Events OBVIOUS
<1>3. ASSUME s # <<>>
      PROVE  /\ Head(s) = s[1] /\ Head(s) \in ToSet(s) /\ Head(s) \in Events
             /\ Tail(s) \in Seq(Events) /\ Len(Tail(s)) = Len(s) - 1 /\ Len(s) > 0
             /\ ToSet(Tail(s)) \subseteq ToSet(s) /\ ToSet(s) \subseteq ToSet(Tail(s)) \cup {Head(s)}
  <2>1. PICK t \in Seq(Events) : t = Tail(s) /\ Len(t) = Len(s) - 1 /\ \A i \in 1..Len(t) : t[i] = s[i + 1]
    <3>1. Tail(s) \in Seq(Events) /\ Len(Tail(s)) = Len(s) - 1 /\ \A i \in 1..(Len(s) - 1) : Tail(s)[i] = s[i + 1]
      BY <1>3
    <3> QED BY <3>1, Zenon
  <2>2. Len(s) \in Nat /\ Len(s) > 0 /\ Head(s) = s[1] /\ 1 \in 1..Len(s) BY <1>3
  <2>3. \A i \in 1..Len(t) : i + 1 \in 1..Len(s) BY <2>1, <2>2
  <2>4. \A i \in 1..Len(s) : i = 1 \/ (i - 1 \in 1..Len(t) /\ t[i - 1] = s[i]) BY <2>1, <2>2
  <2>a. ToSet(t) = {t[i] : i \in 1..Len(t)} /\ ToSet(s) = {s[i] : i \in 1..Len(s)} BY <1>1
  <2>5. ToSet(t) \subseteq ToSet(s) BY <2>a, <2>1, <2>3
  <2>6. ToSet(s) \subseteq ToSet(t) \cup {s[1]}
    <3> SUFFICES ASSUME NEW i \in 1..Len(s), i # 1 PROVE s[i] \in ToSet(t) BY <2>a
    <3>1. i - 1 \in 1..Len(t) /\ t[i - 1] = s[i] BY <2>4
    <3> QED BY <2>a, <3>1
  <2> QED BY <1>1, <1>2, <2>1, <2>2, <2>5, <2>6
<1>4. ASSUME NEW e \in Events
      PROVE  /\ Append(s, e) \in Seq(Events) /\ Len(Append(s, e)) = Len(s) + 1
             /\ \A i \in 1..Len(s) : Append(s, e)[i] = s[i]
             /\ Append(s, e)[Len(s) + 1] = e
             /\ ToSet(Append(s, e)) = ToSet(s) \cup {e}
  <2>1. PICK t \in Seq(Events) : /\ t = Append(s, e) /\ Len(t) = Len(s) + 1 /\ t[Len(s) + 1] = e
                                 /\ \A i \in 1..Len(s) : t[i] = s[i]
    <3>1. /\ Append(s, e) \in Seq(Events) /\ Len(Append(s, e)) = Len(s) + 1
          /\ Append(s, e)[Len(s) + 1] = e /\ \A i \in 1..Len(s) : Append(s, e)[i] = s[i] OBVIOUS
    <3> QED BY <3>1
  <2>2. Len(s) \in Nat /\ Len(s) + 1 \in 1..Len(t) BY <2>1
  <2>3. \A i \in 1..Len(t) : i \in 1..Len(s) \/ i = Len(s) + 1 BY <2>1, <2>2
  <2>4. \A i \in 1..Len(s) : i \in 1..Len(t) BY <2>1, <2>2
  <2>a. ToSet(t) = {t[i] : i \in 1..Len(t)} /\ ToSet(s) = {s[i] : i \in 1..Len(s)} BY <1>1
  <2>5. ToSet(t) = ToSet(s) \cup {e} BY <2>a, <2>1, <2>2, <2>3, <2>4
  <2> QED BY <2>1, <2>5
<1> QED BY <1>1, <1>2, <1>3, <1>4

LEMMA EmptyList == ToSet(<<>>) = {} /\ <<>> \in Seq(Events) /\ Len(<<>>) = 0 /\ 1..0 = {}
BY DEF ToSet

------------------------
(* The registry's entry. *)

LEMMA LivesIs == Lives \subseteq Nat /\ 0 \in Lives /\ NoRun = 0 /\ NoRun \notin RunNos /\ RunNos \subseteq Nat
BY LivesBounds DEF Lives, NoRun, RunNos

LEMMA NewSessionIs ==
  /\ NewSession \in Sessions /\ NewSession.state = "active" /\ NewSession.lives = 0
  /\ NewSession.run = NoRun /\ NewSession.running = FALSE /\ NewSession.busy = FALSE
  /\ NewSession.stored = FALSE /\ NewSession # NoSession
<1>1. NewSession \in Sessions BY LivesIs DEF NewSession, Sessions
<1> QED BY <1>1, NoSessionAssumption DEF NewSession

LEMMA NewLifeIs ==
  ASSUME NEW s \in Sessions
  PROVE  /\ NewLife(s).state = "active" /\ NewLife(s).lives = s.lives + 1 /\ NewLife(s).busy = s.busy
         /\ NewLife(s).running = s.running
         /\ s.run # NoRun /\ ~s.running => NewLife(s).run = NoRun /\ NewLife(s).stored = FALSE
         /\ s.run = NoRun \/ s.running => NewLife(s).run = s.run /\ NewLife(s).stored = s.stored
         /\ s.lives + 1 \in Lives => NewLife(s) \in Sessions
<1>1. PICK t : t = [s EXCEPT !.state = "active", !.lives = s.lives + 1] OBVIOUS
<1>2. /\ t.state = "active" /\ t.lives = s.lives + 1 /\ t.busy = s.busy /\ t.running = s.running
      /\ t.run = s.run /\ t.stored = s.stored /\ (s.lives + 1 \in Lives => t \in Sessions) BY <1>1 DEF Sessions
<1>3. NewLife(s) = IF s.run # NoRun /\ ~s.running THEN [t EXCEPT !.run = NoRun, !.stored = FALSE] ELSE t
  BY <1>1 DEF NewLife
<1>4. PICK u : u = [t EXCEPT !.run = NoRun, !.stored = FALSE] OBVIOUS
<1>5. /\ u.state = "active" /\ u.lives = s.lives + 1 /\ u.busy = s.busy /\ u.running = s.running
      /\ u.run = NoRun /\ u.stored = FALSE /\ (s.lives + 1 \in Lives => u \in Sessions) BY <1>1, <1>4 DEF Sessions
<1> QED BY <1>2, <1>3, <1>4, <1>5

LEMMA EndedIs ==
  ASSUME NEW s \in Sessions
  PROVE  /\ EndedNow(s) \in Sessions /\ EndedNow(s).state = "ended" /\ EndedNow(s).lives = s.lives
         /\ EndedNow(s).run = s.run /\ EndedNow(s).running = s.running /\ EndedNow(s).busy = s.busy
         /\ EndedNow(s).stored = s.stored BY DEF EndedNow, Sessions

\* What an event makes of the entry, as far as the runs are concerned: a run goes on as it is, or is
\* left behind when it is no longer running.
RunGoesOn(s, t) ==
  /\ t.running = s.running
  /\ \/ t.run = s.run /\ t.stored = s.stored
     \/ t.run = NoRun /\ t.stored = FALSE /\ s.run # NoRun /\ ~s.running

LEMMA UpsertedIs ==
  ASSUME LivesTypeOK, NEW k \in Kinds,
         sess # NoSession /\ sess.state # "active" /\ k # "close" => sess.lives + 1 \in Lives
  PROVE  /\ Upserted(k) \in Sessions
         /\ sess = NoSession => Upserted(k) = NewSession
         /\ sess # NoSession => RunGoesOn(sess, Upserted(k)) /\ Upserted(k).busy = sess.busy
         /\ sess # NoSession /\ (sess.state = "active" \/ k = "close") => Upserted(k) = sess
         /\ sess # NoSession /\ sess.state # "active" /\ k # "close" =>
              Upserted(k).state = "active" /\ Upserted(k).lives = sess.lives + 1
<1>1. sess = NoSession \/ sess \in Sessions BY DEF LivesTypeOK
<1>2. CASE sess = NoSession BY <1>2, NewSessionIs DEF Upserted
<1>3. CASE sess # NoSession /\ sess.state # "active" /\ k # "close"
  <2>1. Upserted(k) = NewLife(sess) BY <1>3 DEF Upserted
  <2> QED BY <1>1, <1>3, <2>1, NewLifeIs DEF RunGoesOn
<1>4. CASE sess # NoSession /\ (sess.state = "active" \/ k = "close") BY <1>1, <1>4 DEF Upserted, RunGoesOn
<1> QED BY <1>2, <1>3, <1>4

------------------------
(* What several steps have in common. *)

LEMMA InvHas ==
  ASSUME LivesInv
  PROVE  /\ LivesTypeOK /\ NumbersAreOK /\ CountsAreOK /\ PlacesAreOK /\ RunsAreOK /\ EndsAreOK
         /\ JournalIsOK /\ FilesAreOK /\ LivesAreFiled
         /\ sess # NoSession => sess \in Sessions
         /\ saved # NoSession => saved \in Sessions
         /\ journal \in Seq(Events) /\ replay \in Seq(Events) /\ queue \in Seq(LockJobs)
         /\ attaching \subseteq Events /\ fin \in Finals BY DEF LivesInv, LivesTypeOK

\* The numbers stay where nothing is journaled or comes in, and the holder at most leaves.
LEMMA NumbersStay ==
  ASSUME NumbersAreOK, journal' = journal \/ journal' = <<>>, attaching' = attaching, sent' = sent,
         queue' = queue, step' = step \/ step' # "idle"
  PROVE  NumbersAreOK'
<1>1. \A k : Untaken(k)' => Untaken(k) BY DEF Untaken
<1>2. CASE journal' = journal BY <1>1, <1>2 DEF NumbersAreOK
<1>3. CASE journal' = <<>>
  <2>1. 1..Len(journal') = {} BY <1>3, EmptyList
  <2> QED BY <1>1, <2>1 DEF NumbersAreOK
<1> QED BY <1>2, <1>3

\* A job that is no event joins.
LEMMA NumbersJoin ==
  ASSUME NumbersAreOK, queue \in Seq(LockJobs), NEW j \in LockJobs, j.kind # "event", journal' = journal,
         attaching' = attaching, sent' = sent, queue' = Append(queue, j), step' = step
  PROVE  NumbersAreOK'
<1>1. /\ Len(queue) \in Nat /\ Len(queue') = Len(queue) + 1
      /\ \A i \in 1..Len(queue) : queue'[i] = queue[i]
      /\ queue'[Len(queue) + 1] = j BY Enqueued
<1>2. \A i \in 1..Len(queue') : Untaken(i)' => i \in 1..Len(queue) /\ Untaken(i) /\ queue'[i] = queue[i]
  BY <1>1 DEF Untaken
<1> QED BY <1>2 DEF NumbersAreOK

\* The holder leaves.
LEMMA NumbersLeave ==
  ASSUME NumbersAreOK, queue \in Seq(LockJobs), queue # <<>>,
         journal' = journal \/ journal' = <<>>, attaching' = attaching, sent' = sent,
         queue' = Tail(queue)
  PROVE  NumbersAreOK'
<1>1. /\ Len(queue) \in Nat /\ Len(queue) > 0 /\ Len(queue') = Len(queue) - 1
      /\ \A i \in 1..Len(queue') : queue'[i] = queue[i + 1] BY Dequeued
<1>2. \A i \in 1..Len(queue') : Untaken(i)' => i + 1 \in 1..Len(queue) /\ Untaken(i + 1) /\ queue'[i] = queue[i + 1]
  BY <1>1 DEF Untaken
<1>3. \A k \in 1..Len(queue') : Untaken(k)' =>
        /\ queue'[k].of.no \in 1..sent
        /\ \A i \in 1..Len(journal) : journal[i].no # queue'[k].of.no
        /\ \A e \in attaching : e.no # queue'[k].of.no
        /\ \A m \in 1..Len(queue') : Untaken(m)' /\ queue'[m].of.no = queue'[k].of.no => m = k
  <2> SUFFICES ASSUME NEW k \in 1..Len(queue'), Untaken(k)'
               PROVE  /\ queue'[k].of.no \in 1..sent
                      /\ \A i \in 1..Len(journal) : journal[i].no # queue'[k].of.no
                      /\ \A e \in attaching : e.no # queue'[k].of.no
                      /\ \A m \in 1..Len(queue') : Untaken(m)' /\ queue'[m].of.no = queue'[k].of.no => m = k OBVIOUS
  <2>1. k + 1 \in 1..Len(queue) /\ Untaken(k + 1) /\ queue'[k] = queue[k + 1] BY <1>2
  <2>2. /\ queue[k + 1].of.no \in 1..sent
        /\ \A i \in 1..Len(journal) : journal[i].no # queue[k + 1].of.no
        /\ \A e \in attaching : e.no # queue[k + 1].of.no
        /\ \A m \in 1..Len(queue) : Untaken(m) /\ queue[m].of.no = queue[k + 1].of.no => m = k + 1
    BY <2>1 DEF NumbersAreOK
  <2>3. ASSUME NEW m \in 1..Len(queue'), Untaken(m)', queue'[m].of.no = queue'[k].of.no PROVE m = k
    <3>1. m + 1 \in 1..Len(queue) /\ Untaken(m + 1) /\ queue'[m] = queue[m + 1] BY <1>2, <2>3
    <3>2. m + 1 = k + 1 BY <2>1, <2>2, <2>3, <3>1
    <3> QED BY <3>2
  <2> QED BY <2>1, <2>2, <2>3
<1>4. CASE journal' = journal BY <1>3, <1>4 DEF NumbersAreOK
<1>5. CASE journal' = <<>>
  <2>1. 1..Len(journal') = {} BY <1>5, EmptyList
  <2> QED BY <1>3, <2>1 DEF NumbersAreOK
<1> QED BY <1>4, <1>5

\* The journal names each event once, so it is no longer than what was sent.
LEMMA JournalIsShort ==
  ASSUME LivesTypeOK, NumbersAreOK
  PROVE  Len(journal) \in Nat /\ Len(journal) <= sent /\ Len(journal) <= MaxEvents
<1>1. journal \in Seq(Events) /\ sent \in Nat /\ sent <= MaxEvents BY LivesBounds DEF LivesTypeOK
<1>2. Len(journal) \in Nat BY <1>1
<1>3. PICK f \in [1..Len(journal) -> 1..sent] : \A i \in 1..Len(journal) : f[i] = journal[i].no
  <2>1. [i \in 1..Len(journal) |-> journal[i].no] \in [1..Len(journal) -> 1..sent] BY DEF NumbersAreOK
  <2> QED BY <2>1
<1>4. f \in Injection(1..Len(journal), 1..sent)
  <2>1. \A i, j \in 1..Len(journal) : f[i] = f[j] => i = j BY <1>3 DEF NumbersAreOK
  <2> QED BY <2>1 DEF Injection, IsInjective
<1>5. /\ IsFiniteSet(1..sent) /\ Cardinality(1..sent) = sent
      /\ IsFiniteSet(1..Len(journal)) /\ Cardinality(1..Len(journal)) = Len(journal)
  <2> SUFFICES ASSUME NEW n \in Nat PROVE IsFiniteSet(1..n) /\ Cardinality(1..n) = n BY <1>1, <1>2
  <2>1. Cardinality(1..n) = IF 1 > n THEN 0 ELSE n - 1 + 1 BY FS_Interval
  <2> QED BY <2>1, FS_Interval
<1>6. Cardinality(1..Len(journal)) <= Cardinality(1..sent) BY <1>4, <1>5, FS_Injection
<1> QED BY <1>1, <1>2, <1>5, <1>6, LivesBounds

\* A life more can be counted.
LEMMA LifeFits ==
  ASSUME LivesTypeOK, CountsAreOK, sess # NoSession, replay # <<>> \/ sent < MaxEvents
  PROVE  sess.lives + 1 \in Lives
<1>1. /\ sent \in 0..MaxEvents /\ restarts \in 0..MaxRestarts /\ sess \in Sessions /\ replay \in Seq(Events)
      /\ sess.lives + Len(replay) <= sent + restarts * MaxEvents BY DEF LivesTypeOK, CountsAreOK, CountOK
<1>2. sess.lives \in Nat /\ Len(replay) \in Nat /\ (replay # <<>> => Len(replay) > 0)
  <2>1. sess.lives \in Nat BY <1>1, LivesIs, SessionIs
  <2>2. Len(replay) \in Nat /\ (replay # <<>> => Len(replay) > 0) BY <1>1
  <2> QED BY <2>1, <2>2
<1>3. PICK m \in Nat : m = restarts * MaxEvents BY <1>1, LivesBounds
<1>4. PICK bound \in Nat : bound = MaxEvents * (1 + MaxRestarts) BY LivesBounds
<1>5. CASE replay # <<>>
  <2>1. sent + m <= bound BY <1>1, <1>3, <1>4, LivesBounds
  <2> QED BY <1>1, <1>2, <1>3, <1>4, <1>5, <2>1 DEF Lives
<1>6. CASE sent < MaxEvents
  <2>1. sent + 1 \in 0..MaxEvents BY <1>1, <1>6, LivesBounds
  <2>2. (sent + 1) + m <= bound BY <2>1, <1>1, <1>3, <1>4, LivesBounds
  <2> QED BY <1>1, <1>2, <1>3, <1>4, <2>2 DEF Lives
<1> QED BY <1>5, <1>6

\* The runs stay as they are, and a run in the entry goes on or is left behind.
LEMMA RunsGoOn ==
  ASSUME LivesInv, UNCHANGED <<runs, artifacts, orphans>>, fin'.run \in {fin.run, NoRun},
         step' = "storing" => step = "storing" /\ fin' = fin,
         sess' \in Sessions, saved' \in {saved, sess'},
         sess = NoSession => sess'.run = NoRun /\ ~sess'.running,
         sess # NoSession => RunGoesOn(sess, sess')
  PROVE  RunsAreOK'
<1>1. RunsAreOK /\ sess' # NoSession BY InvHas, SessionIs
<1>2. sess # NoSession => Minted(sess.run) BY <1>1 DEF RunsAreOK
<1>3. Minted(sess'.run) BY <1>2 DEF Minted, RunGoesOn
<1>4. /\ sess' # NoSession => Minted(sess.run)'
      /\ saved' # NoSession => Minted(saved.run)'
      /\ Minted(fin.run)' /\ (\A r \in orphans : Minted(r))' BY <1>1, <1>3 DEF RunsAreOK, Minted
<1>5. /\ sess'.run # NoRun /\ ~sess'.stored => artifacts[sess'.run] = 0 \/ sess'.run \in orphans
  BY <1>1 DEF RunsAreOK, RunGoesOn
<1>6. OpenRunsAreTracked'
  <2>1. OpenRunsAreTracked BY <1>1 DEF RunsAreOK
  <2>2. \A r \in RunNos : sess # NoSession /\ sess.run = r /\ sess.running => sess'.run = r /\ sess'.running
    BY DEF RunGoesOn
  <2> QED BY <1>1, <2>1, <2>2 DEF OpenRunsAreTracked
<1>7. OneArtifactPerRun' BY <1>1 DEF RunsAreOK, OneArtifactPerRun
<1> QED BY <1>1, <1>4, <1>5, <1>6, <1>7 DEF RunsAreOK

\* No end goes away, and who is over was so, or has an end to come.
LEMMA EndsGoOn ==
  ASSUME LivesInv, UNCHANGED <<runs, orphans, replay>>, step' = "finishing" => step = "finishing",
         sess' \in Sessions, saved' = saved \/ (saved' = sess' /\ replay = <<>>),
         sess = NoSession => sess'.run = NoRun,
         sess # NoSession => RunGoesOn(sess, sess'),
         sess # NoSession /\ sess'.state # "active" => sess.state # "active" \/ Waiting("final")' # {},
         Waiting("final") \subseteq Waiting("final")', ToSet(journal) \subseteq ToSet(journal')
  PROVE  EndsAreOK'
<1>1. EndsAreOK /\ PlacesAreOK BY InvHas
<1>2. step = "finishing" => sess # NoSession
  <2>1. step # "idle" => queue # <<>> BY InvHas DEF LivesTypeOK
  <2> QED BY <1>1, <2>1 DEF PlacesAreOK
<1>3. Lost(sess.run) /\ sess # NoSession => Lost(sess.run)' BY DEF Lost, RunGoesOn
<1>4. ~Lost(sess.run)' => sess # NoSession /\ ~Lost(sess.run) /\ sess'.run = sess.run BY DEF Lost, RunGoesOn
<1>5. step' = "finishing" => Lost(sess.run)' BY <1>1, <1>2, <1>3 DEF EndsAreOK
<1>6. EndIsComing => EndIsComing' BY DEF EndIsComing
<1>7. sess'.state # "active" /\ ~Lost(sess.run)' => EndIsComing'
  <2>1. Waiting("final")' # {} => EndIsComing' BY DEF EndIsComing
  <2> QED BY <1>1, <1>4, <1>6, <2>1 DEF EndsAreOK
<1>8. EndComesBack => EndComesBack' BY DEF EndComesBack
<1>9. saved' # NoSession /\ saved'.state # "active" /\ ~Lost(saved.run)' /\ sess'.run = saved'.run => EndComesBack'
  <2>1. CASE saved' = saved
    <3>1. sess = NoSession => saved = NoSession BY <1>1 DEF PlacesAreOK
    <3> QED BY <1>1, <1>4, <1>8, <2>1, <3>1 DEF EndsAreOK, Lost
  <2>2. CASE saved' = sess' /\ replay = <<>>
    <3>1. ToSet(replay)' = {} BY <2>2, EmptyList
    <3>2. EndIsComing' => EndComesBack' BY <3>1 DEF EndIsComing, EndComesBack
    <3> QED BY <1>7, <2>2, <3>2
  <2> QED BY <2>1, <2>2
<1> QED BY <1>5, <1>7, <1>9 DEF EndsAreOK

\* Nothing is written to the journal or put into it, and nobody comes.
LEMMA JournalStays ==
  ASSUME JournalIsOK, UNCHANGED <<over, overlapped, noted, journal, replay>>,
         Waiting("final")' \subseteq Waiting("final"), Sitting' \subseteq Sitting,
         sess' = NoSession \/ sess'.state # "active" => sess = NoSession \/ sess.state # "active"
  PROVE  JournalIsOK' BY DEF JournalIsOK

\* Nothing is filed, and the entry stays in its life.
LEMMA FilesStay ==
  ASSUME FilesAreOK, UNCHANGED <<over, overlapped, life, filed, restarts>>,
         Sitting' \subseteq Sitting,
         restarts = 0 /\ ~overlapped => \A e \in Waiting("final")' : e \in Waiting("final") \/ e.life = life,
         sess # NoSession /\ sess' # NoSession /\ sess'.lives = sess.lives /\ sess'.busy = sess.busy,
         sess'.state # "active" => sess.state # "active" \/ over,
         step' = "filing" => fin'.key = sess'.lives \/ (step = "filing" /\ fin'.key = fin.key)
  PROVE  FilesAreOK' BY DEF FilesAreOK

LEMMA FiledStay == ASSUME LivesAreFiled, UNCHANGED <<filed, restarts, overlapped>> PROVE LivesAreFiled'
BY DEF LivesAreFiled

\* The holder's event is journaled, and those behind it stay.
LEMMA NumbersJournal ==
  ASSUME LivesTypeOK, NumbersAreOK, queue # <<>>, step = "idle", Holder.kind = "event",
         journal' = Append(journal, Holder.of), attaching' = attaching, sent' = sent,
         NEW d \in {0, 1},
         \A i \in 1..Len(queue') : Untaken(i)' =>
           i + d \in 1..Len(queue) /\ i + d # 1 /\ Untaken(i + d) /\ queue'[i] = queue[i + d]
  PROVE  NumbersAreOK'
<1>1. journal \in Seq(Events) /\ queue \in Seq(LockJobs) BY DEF LivesTypeOK
<1>2. /\ 1 \in 1..Len(queue) /\ Holder = queue[1] /\ Holder.of \in Events /\ Untaken(1) BY <1>1, HolderIs DEF Untaken
<1>3. /\ Len(journal) \in Nat /\ Len(journal') = Len(journal) + 1
      /\ \A i \in 1..Len(journal) : journal'[i] = journal[i]
      /\ journal'[Len(journal) + 1] = Holder.of BY <1>1, <1>2, ListedIs
<1>4. \A i \in 1..Len(journal') : i \in 1..Len(journal) \/ i = Len(journal) + 1 BY <1>3
<1>5. /\ Holder.of.no \in 1..sent
      /\ \A i \in 1..Len(journal) : journal[i].no # Holder.of.no
      /\ \A e \in attaching : e.no # Holder.of.no
      /\ \A m \in 1..Len(queue) : Untaken(m) /\ queue[m].of.no = Holder.of.no => m = 1 BY <1>2 DEF NumbersAreOK
<1>6. \A i \in 1..Len(journal') : journal'[i].no \in 1..sent BY <1>3, <1>4, <1>5 DEF NumbersAreOK
<1>7. \A i, j \in 1..Len(journal') : journal'[i].no = journal'[j].no => i = j
  <2> SUFFICES ASSUME NEW i \in 1..Len(journal'), NEW j \in 1..Len(journal'), journal'[i].no = journal'[j].no
               PROVE  i = j OBVIOUS
  <2>1. CASE i \in 1..Len(journal) /\ j \in 1..Len(journal) BY <1>3, <2>1 DEF NumbersAreOK
  <2>2. CASE i = Len(journal) + 1 \/ j = Len(journal) + 1 BY <1>3, <1>4, <1>5, <2>2
  <2> QED BY <1>4, <2>1, <2>2
<1>8. \A e \in attaching : e.no \in 1..sent /\ \A i \in 1..Len(journal') : journal'[i].no # e.no
  BY <1>3, <1>4, <1>5 DEF NumbersAreOK
<1>9. ASSUME NEW k \in 1..Len(queue'), Untaken(k)'
      PROVE  /\ queue'[k].of.no \in 1..sent
             /\ \A i \in 1..Len(journal') : journal'[i].no # queue'[k].of.no
             /\ \A e \in attaching : e.no # queue'[k].of.no
             /\ \A m \in 1..Len(queue') : Untaken(m)' /\ queue'[m].of.no = queue'[k].of.no => m = k
  <2>1. k + d \in 1..Len(queue) /\ k + d # 1 /\ Untaken(k + d) /\ queue'[k] = queue[k + d] BY <1>9
  <2>2. /\ queue[k + d].of.no \in 1..sent
        /\ \A i \in 1..Len(journal) : journal[i].no # queue[k + d].of.no
        /\ \A e \in attaching : e.no # queue[k + d].of.no
        /\ \A m \in 1..Len(queue) : Untaken(m) /\ queue[m].of.no = queue[k + d].of.no => m = k + d
    BY <2>1 DEF NumbersAreOK
  <2>3. queue[k + d].of.no # Holder.of.no BY <1>5, <2>1
  <2>4. ASSUME NEW m \in 1..Len(queue'), Untaken(m)', queue'[m].of.no = queue'[k].of.no PROVE m = k
    <3>1. m + d \in 1..Len(queue) /\ Untaken(m + d) /\ queue'[m] = queue[m + d] BY <2>4
    <3>2. m + d = k + d BY <2>1, <2>2, <2>4, <3>1
    <3> QED BY <3>2
  <2> QED BY <1>3, <1>4, <2>1, <2>2, <2>3, <2>4
<1>10. \A c, e \in attaching : c.no = e.no => c = e BY DEF NumbersAreOK
<1> QED BY <1>6, <1>7, <1>8, <1>9, <1>10 DEF NumbersAreOK

\* No life begins.
LEMMA CountsStay ==
  ASSUME CountsAreOK, UNCHANGED <<life, sent, restarts, replay>>,
         sess' # NoSession => sess # NoSession /\ sess'.lives = sess.lives,
         saved' \in {saved, sess'}
  PROVE  CountsAreOK' BY DEF CountsAreOK, CountOK

\* What a busy entry is.
LEMMA BusyIs ==
  ASSUME NEW s \in Sessions, NEW t, t = [s EXCEPT !.busy = TRUE]
  PROVE  /\ t \in Sessions /\ t.state = s.state /\ t.lives = s.lives /\ t.run = s.run
         /\ t.running = s.running /\ t.busy = TRUE /\ t.stored = s.stored BY DEF Sessions

------------------------
(* Events. *)

LEMMA SentIsLife == \A n \in 0..MaxEvents : n \in Lives
<1>1. 0 \in 0..MaxRestarts /\ 0 * MaxEvents = 0 BY LivesBounds
<1> QED BY <1>1, LivesBounds DEF Lives

LEMMA EventMade ==
  ASSUME NEW n \in 0..MaxEvents, NEW k \in Kinds, NEW l \in Lives
  PROVE  /\ Event(n, k, l) \in Events /\ Event(n, k, l).no = n /\ Event(n, k, l).kind = k
         /\ Event(n, k, l).life = l BY DEF Event, Events

LEMMA LivesStart == LivesInit => LivesInv
<1> SUFFICES ASSUME LivesInit PROVE LivesInv OBVIOUS
<1>1. \A k : Waiting(k) = {} BY NobodyWaited DEF LivesInit
<1>2. ToSet(journal) = {} /\ ToSet(replay) = {} /\ Len(journal) = 0 /\ Len(queue) = 0 /\ 1..0 = {}
  BY EmptyList DEF LivesInit
<1>3. LivesTypeOK
  <2>1. NoFinal \in Finals BY LivesIs DEF NoFinal, Finals
  <2>2. <<>> \in Seq(Events) /\ <<>> \in Seq(LockJobs) OBVIOUS
  <2>3. filed \in [Lives -> Lives] /\ artifacts \in [RunNos -> Nat] /\ runs \in [RunNos -> {"none", "open", "closed"}]
    BY LivesIs DEF LivesInit
  <2>4. sent \in 0..MaxEvents /\ lifeFaults \in 0..MaxLifeFaults /\ restarts \in 0..MaxRestarts /\ life \in Lives
    BY LivesIs, LivesBounds DEF LivesInit
  <2>5. {booting, over, overlapped} \subseteq BOOLEAN /\ step = "idle" BY DEF LivesInit
  <2>6. /\ {sess, saved} \subseteq Sessions \cup {NoSession}
        /\ journal \in Seq(Events) /\ replay \in Seq(Events) /\ attaching \subseteq Events
        /\ queue \in Seq(LockJobs) /\ fin \in Finals /\ noted \subseteq Events /\ orphans \subseteq RunNos
    BY <2>1, <2>2 DEF LivesInit
  <2> QED BY <2>3, <2>4, <2>5, <2>6 DEF LivesTypeOK, LockSteps
<1>4. NumbersAreOK BY <1>2 DEF LivesInit, NumbersAreOK
<1>5. CountsAreOK BY <1>2, LivesBounds DEF LivesInit, CountsAreOK, CountOK
<1>6. PlacesAreOK BY <1>1 DEF LivesInit, PlacesAreOK
<1>7. RunsAreOK BY DEF LivesInit, RunsAreOK, Minted, NoFinal, OpenRunsAreTracked, OneArtifactPerRun
<1>8. EndsAreOK /\ JournalIsOK BY DEF LivesInit, EndsAreOK, JournalIsOK
<1>9. FilesAreOK BY <1>1 DEF LivesInit, FilesAreOK, Sitting
<1>10. LivesAreFiled BY DEF LivesInit, LivesAreFiled
<1> QED BY <1>3, <1>4, <1>5, <1>6, <1>7, <1>8, <1>9, <1>10 DEF LivesInv

LEMMA ArriveKeeps == ASSUME LivesInv, NEW k \in Kinds, Arrive(k) PROVE LivesInv'
<1>1. /\ LivesTypeOK /\ NumbersAreOK /\ CountsAreOK /\ PlacesAreOK /\ RunsAreOK /\ EndsAreOK
      /\ JournalIsOK /\ FilesAreOK /\ LivesAreFiled
      /\ (sess # NoSession => sess \in Sessions) /\ (saved # NoSession => saved \in Sessions)
      /\ journal \in Seq(Events) /\ replay \in Seq(Events) /\ queue \in Seq(LockJobs)
      /\ attaching \subseteq Events /\ fin \in Finals BY InvHas
<1>2. PICK e : e = Event(sent', k, life') OBVIOUS
<1>3. /\ ~booting /\ sent < MaxEvents /\ sent' = sent + 1 /\ sess' = Upserted(k)
      /\ life' = (IF over /\ k # "close" THEN life + 1 ELSE life)
      /\ attaching' = attaching \cup {e}
      /\ over' = (k = "close" \/ (over /\ ~(over /\ k # "close")))
      /\ noted' = (IF over /\ k # "close" THEN {} ELSE noted)
      /\ overlapped' = (overlapped \/ (over /\ k # "close" /\ ~LastLifeIsSettled)) BY <1>2 DEF Arrive
<1>4. /\ UNCHANGED <<saved, journal, queue, step, fin, runs, artifacts, filed, orphans, lifeFaults>>
      /\ UNCHANGED <<booting, replay, restarts>> BY DEF Arrive, storeVars, bootVars
<1>5. sent \in 0..MaxEvents /\ sent' \in 0..MaxEvents /\ life <= sent /\ life \in Nat /\ over \in BOOLEAN
  BY <1>1, <1>3, LivesIs, LivesBounds DEF LivesTypeOK, CountsAreOK
<1>6. life' <= sent' /\ life' \in Lives
  <2>1. life' <= sent' /\ life' \in Nat BY <1>3, <1>5
  <2>2. life' \in 0..MaxEvents BY <1>5, <2>1, LivesBounds
  <2> QED BY <2>1, <2>2, SentIsLife
<1>7. e \in Events /\ e.no = sent + 1 /\ e.kind = k /\ e.life = life' BY <1>2, <1>3, <1>5, <1>6, EventMade
<1>8. /\ sess' \in Sessions /\ sess' # NoSession
      /\ sess = NoSession => sess' = NewSession
      /\ sess # NoSession => RunGoesOn(sess, sess') /\ sess'.busy = sess.busy
      /\ sess # NoSession /\ (sess.state = "active" \/ k = "close") => sess' = sess
      /\ sess # NoSession /\ sess.state # "active" /\ k # "close" =>
           sess'.state = "active" /\ sess'.lives = sess.lives + 1
  <2>1. sess # NoSession /\ sess.state # "active" /\ k # "close" => sess.lives + 1 \in Lives BY <1>1, <1>3, LifeFits
  <2>2. Upserted(k) \in Sessions /\ Upserted(k) # NoSession BY <1>1, <2>1, UpsertedIs, SessionIs
  <2> QED BY <1>1, <1>3, <2>1, <2>2, UpsertedIs
<1>9. replay = <<>> /\ (restarts = 0 \/ restarts # 0) BY <1>1, <1>3 DEF PlacesAreOK
<1>10. (\A j : Waiting(j)' = Waiting(j)) /\ Holder' = Holder /\ Sitting' = Sitting \cup {e}
  <2>1. (\A j : Waiting(j)' = Waiting(j)) /\ Holder' = Holder BY <1>4, SameQueue
  <2> QED BY <1>3, <2>1 DEF Sitting
<1>11. LivesTypeOK'
  <2>1. {over', overlapped'} \subseteq BOOLEAN BY <1>1, <1>3 DEF LivesTypeOK
  <2>2. noted' \subseteq Events BY <1>1, <1>3 DEF LivesTypeOK
  <2> QED BY <1>1, <1>3, <1>4, <1>5, <1>6, <1>7, <1>8, <2>1, <2>2 DEF LivesTypeOK
<1>12. NumbersAreOK'
  <2>1. \A i : Untaken(i)' <=> Untaken(i) BY <1>4 DEF Untaken
  <2> QED BY <1>1, <1>3, <1>4, <1>5, <1>7, <2>1 DEF NumbersAreOK
<1>13. CountsAreOK'
  <2>1. PICK m \in Nat : m = restarts * MaxEvents BY <1>1, LivesBounds DEF LivesTypeOK
  <2>2. Len(replay) = 0 BY <1>9
  <2>3. sess # NoSession => sess.lives \in Nat /\ sess.lives <= sent + m
    <3> SUFFICES ASSUME sess # NoSession PROVE sess.lives \in Nat /\ sess.lives <= sent + m OBVIOUS
    <3>1. sess.lives \in Nat BY <1>1, SessionIs, LivesIs
    <3>2. sess.lives + Len(replay) <= sent + restarts * MaxEvents BY <1>1 DEF CountsAreOK, CountOK
    <3> QED BY <2>1, <2>2, <3>1, <3>2
  <2>4. sess'.lives <= sent' + m
    <3>1. CASE sess = NoSession BY <1>3, <1>5, <1>8, <2>1, <3>1, NewSessionIs
    <3>2. CASE sess # NoSession BY <1>3, <1>5, <1>8, <2>1, <2>3, <3>2
    <3> QED BY <3>1, <3>2
  <2>5. saved # NoSession => saved.lives \in Nat /\ saved.lives <= sent' + m
    <3> SUFFICES ASSUME saved # NoSession PROVE saved.lives \in Nat /\ saved.lives <= sent' + m OBVIOUS
    <3>1. saved.lives \in Nat BY <1>1, SessionIs, LivesIs
    <3>2. saved.lives + Len(replay) <= sent + restarts * MaxEvents BY <1>1 DEF CountsAreOK, CountOK
    <3> QED BY <1>3, <1>5, <2>1, <2>2, <3>1, <3>2
  <2>6. sess'.lives \in Nat BY <1>8, SessionIs, LivesIs
  <2> QED BY <1>4, <1>6, <2>1, <2>2, <2>4, <2>5, <2>6, LivesBounds DEF CountsAreOK, CountOK
<1>14. PlacesAreOK'
  <2>1. step # "idle" => queue # <<>> BY <1>1 DEF LivesTypeOK
  <2>2. step # "idle" => sess # NoSession BY <1>1, <2>1 DEF PlacesAreOK
  <2>3. step \in {"ensuring", "reopening"} => sess'.run = NoRun BY <1>1, <1>8, <2>2 DEF PlacesAreOK, RunGoesOn
  <2>4. step = "filing" => sess'.busy BY <1>1, <1>8, <2>2 DEF PlacesAreOK
  <2> QED BY <1>1, <1>3, <1>4, <1>8, <1>10, <2>3, <2>4 DEF PlacesAreOK
<1>15. RunsAreOK' BY <1>4, <1>8, NewSessionIs, RunsGoOn
<1>16. EndsAreOK'
  <2>1. sess # NoSession /\ sess'.state # "active" => sess.state # "active" BY <1>8
  <2> QED BY <1>4, <1>8, <1>10, <2>1, NewSessionIs, EndsGoOn
<1>17. JournalIsOK'
  <2> SUFFICES ASSUME ~overlapped', ~over' PROVE JournalIsOK' BY DEF JournalIsOK
  <2>1. ~overlapped /\ k # "close" /\ (over => LastLifeIsSettled) BY <1>3, <1>5
  <2>2. sess'.state = "active" BY <1>8, <2>1, NewSessionIs
  <2>3. /\ Waiting("final") = {}
        /\ \A d \in Sitting \cup ToSet(journal) \cup ToSet(replay) : d.kind # "close"
    <3>1. CASE over
      <4>1. ToSet(replay) = {} BY <1>9, EmptyList
      <4> QED BY <2>1, <3>1, <4>1 DEF LastLifeIsSettled, Sitting
    <3>2. CASE ~over BY <1>1, <2>1, <3>2 DEF JournalIsOK
    <3> QED BY <3>1, <3>2
  <2>4. noted' \subseteq ToSet(journal)
    <3>1. CASE over BY <1>3, <2>1, <3>1
    <3>2. CASE ~over BY <1>1, <1>3, <2>1, <3>2 DEF JournalIsOK
    <3> QED BY <3>1, <3>2
  <2>5. \A d \in Sitting' : d.kind # "close" BY <1>7, <1>10, <2>1, <2>3
  <2> QED BY <1>4, <1>8, <1>10, <2>2, <2>3, <2>4, <2>5 DEF JournalIsOK
<1>18. FilesAreOK'
  <2> SUFFICES ASSUME restarts = 0, ~overlapped' PROVE FilesAreOK' BY <1>4 DEF FilesAreOK
  <2>1. ~overlapped /\ (over /\ k # "close" => LastLifeIsSettled) BY <1>3, <1>5
  <2>2. /\ sess = NoSession \/ sess.state # "active" => over
        /\ \A d \in Waiting("final") : d.life = life
        /\ \A d \in Sitting : d.kind = "close" => d.life = life
        /\ \A n \in Lives : filed[n] <= life
        /\ step = "filing" => fin.key = sess.lives
        /\ \A n \in Lives : filed[n] = life /\ life # 0 =>
             \/ sess = NoSession
             \/ sess.lives = n
             \/ ~sess.busy /\ over /\ \A d \in Sitting : d.kind # "work" BY <1>1, <2>1 DEF FilesAreOK
  <2>3. filed \in [Lives -> Lives] BY <1>1 DEF LivesTypeOK
  <2>4. step = "filing" => Holder.kind = "final" /\ queue # <<>> /\ sess # NoSession /\ Waiting("final") # {}
    <3>1. step # "idle" => queue # <<>> BY <1>1 DEF LivesTypeOK
    <3> QED BY <1>1, <3>1, HolderIs DEF PlacesAreOK
  <2>5. CASE over /\ k # "close"
    <3>1. life' = life + 1 /\ LastLifeIsSettled /\ ~over' /\ sess'.state = "active"
      BY <1>3, <1>8, <2>1, <2>5, NewSessionIs
    <3>2. Waiting("final") = {} /\ \A d \in Sitting : d.kind # "close" BY <3>1 DEF LastLifeIsSettled, Sitting
    <3>3. \A d \in Sitting' : d.kind # "close" BY <1>7, <1>10, <2>5, <3>2
    <3>4. \A n \in Lives : filed[n] <= life' /\ filed[n] # life'
      <4> SUFFICES ASSUME NEW n \in Lives PROVE filed[n] <= life' /\ filed[n] # life' OBVIOUS
      <4>1. filed[n] \in Nat /\ filed[n] <= life BY <2>2, <2>3, LivesIs
      <4> QED BY <1>5, <3>1, <4>1
    <3>5. step # "filing" BY <2>4, <3>2
    <3> QED BY <1>4, <1>8, <1>10, <3>1, <3>2, <3>3, <3>4, <3>5 DEF FilesAreOK
  <2>6. CASE ~(over /\ k # "close")
    <3>1. life' = life /\ (over' <=> (k = "close" \/ over)) BY <1>3, <1>5, <2>6
    <3>2. sess # NoSession => sess' = sess BY <1>5, <1>8, <2>2, <2>6
    <3>3. sess'.state # "active" => over' BY <1>8, <2>2, <3>1, <3>2, NewSessionIs
    <3>4. \A d \in Sitting' : d.kind = "close" => d.life = life BY <1>7, <1>10, <2>2, <3>1
    <3>5. step = "filing" => fin.key = sess'.lives BY <2>2, <2>4, <3>2
    <3>6. ASSUME NEW n \in Lives, filed[n] = life, life # 0
          PROVE  \/ sess'.lives = n
                 \/ ~sess'.busy /\ over' /\ \A d \in Sitting' : d.kind # "work"
      <4>1. CASE sess = NoSession
        <5>1. k = "close" /\ over' BY <1>5, <2>2, <2>6, <3>1, <4>1
        <5>2. Sitting = {}
          <6>1. attaching = {} /\ queue = <<>> BY <1>1, <4>1 DEF PlacesAreOK
          <6> QED BY <6>1, NobodyWaited DEF Sitting
        <5>3. \A d \in Sitting' : d.kind # "work" BY <1>7, <1>10, <5>1, <5>2
        <5> QED BY <1>8, <4>1, <5>1, <5>3, NewSessionIs
      <4>2. CASE sess # NoSession
        <5>1. sess.lives = n \/ (~sess.busy /\ over /\ \A d \in Sitting : d.kind # "work") BY <2>2, <3>6, <4>2
        <5>2. CASE sess.lives = n BY <3>2, <4>2, <5>2
        <5>3. CASE ~sess.busy /\ over /\ \A d \in Sitting : d.kind # "work"
          <6>1. k = "close" BY <2>6, <5>3
          <6> QED BY <1>7, <1>10, <3>1, <3>2, <4>2, <5>3, <6>1
        <5> QED BY <5>1, <5>2, <5>3
      <4> QED BY <4>1, <4>2
    <3> QED BY <1>4, <1>8, <1>10, <2>2, <3>1, <3>3, <3>4, <3>5, <3>6 DEF FilesAreOK
  <2> QED BY <2>5, <2>6
<1>19. LivesAreFiled' BY <1>1, <1>3, <1>4 DEF LivesAreFiled
<1> QED BY <1>11, <1>12, <1>13, <1>14, <1>15, <1>16, <1>17, <1>18, <1>19 DEF LivesInv

LEMMA EnterKeeps == ASSUME LivesInv, NEW e \in attaching, Enter(e) PROVE LivesInv'
<1>1. /\ LivesTypeOK /\ NumbersAreOK /\ CountsAreOK /\ PlacesAreOK /\ RunsAreOK
      /\ JournalIsOK /\ FilesAreOK /\ LivesAreFiled
      /\ (sess # NoSession => sess \in Sessions)
      /\ journal \in Seq(Events) /\ queue \in Seq(LockJobs) /\ attaching \subseteq Events BY InvHas
<1>2. /\ attaching' = attaching \ {e} /\ queue' = Append(queue, Job("event", e))
      /\ UNCHANGED <<sess, saved, journal, step, fin, runs, artifacts, filed, orphans, lifeFaults>>
      /\ UNCHANGED <<booting, replay, restarts, sent, life, over, noted, overlapped>>
  BY DEF Enter, regVars, bootVars, storeVars, harnessVars
<1>3. e \in Events /\ Job("event", e) \in LockJobs /\ Job("event", e).kind = "event" /\ Job("event", e).of = e
  BY <1>1, JobMade
<1>4. sess \in Sessions /\ sess # NoSession /\ ~booting BY <1>1 DEF PlacesAreOK, LivesTypeOK
<1>5. /\ queue' \in Seq(LockJobs) /\ queue' # <<>> /\ Len(queue) \in Nat /\ Len(queue') = Len(queue) + 1
      /\ \A i \in 1..Len(queue) : queue'[i] = queue[i]
      /\ queue'[Len(queue) + 1] = Job("event", e)
      /\ queue # <<>> => Holder' = Holder
      /\ Waiting("final")' = Waiting("final") /\ Waiting("capture")' = Waiting("capture")
      /\ Waiting("event")' = Waiting("event") \cup {e} BY <1>1, <1>2, <1>3, Enqueued
<1>6. step # "idle" => queue # <<>> BY <1>1 DEF LivesTypeOK
<1>7. LivesTypeOK' BY <1>1, <1>2, <1>5 DEF LivesTypeOK
<1>8. NumbersAreOK'
  <2>1. \A i \in 1..Len(queue') : Untaken(i)' => (i \in 1..Len(queue) /\ Untaken(i) /\ queue'[i] = queue[i])
                                              \/ i = Len(queue) + 1 BY <1>2, <1>5 DEF Untaken
  <2>2. /\ e.no \in 1..sent /\ \A i \in 1..Len(journal) : journal[i].no # e.no
        /\ \A d \in attaching : d.no = e.no => d = e
        /\ \A i \in 1..Len(queue) : Untaken(i) => queue[i].of.no # e.no BY <1>1 DEF NumbersAreOK
  <2>3. ASSUME NEW k \in 1..Len(queue'), Untaken(k)'
        PROVE  /\ queue'[k].of.no \in 1..sent
               /\ \A i \in 1..Len(journal) : journal[i].no # queue'[k].of.no
               /\ \A d \in attaching' : d.no # queue'[k].of.no
               /\ \A m \in 1..Len(queue') : Untaken(m)' /\ queue'[m].of.no = queue'[k].of.no => m = k
    <3>1. CASE k = Len(queue) + 1
      <4>1. queue'[k].of = e BY <1>3, <1>5, <3>1
      <4>2. \A m \in 1..Len(queue') : Untaken(m)' /\ queue'[m].of.no = e.no => m = k BY <2>1, <2>2, <3>1
      <4> QED BY <1>2, <2>2, <4>1, <4>2
    <3>2. CASE k \in 1..Len(queue) /\ Untaken(k) /\ queue'[k] = queue[k]
      <4>1. /\ queue[k].of.no \in 1..sent
            /\ \A i \in 1..Len(journal) : journal[i].no # queue[k].of.no
            /\ \A d \in attaching : d.no # queue[k].of.no
            /\ \A m \in 1..Len(queue) : Untaken(m) /\ queue[m].of.no = queue[k].of.no => m = k
        BY <1>1, <3>2 DEF NumbersAreOK
      <4>2. ASSUME NEW m \in 1..Len(queue'), Untaken(m)', queue'[m].of.no = queue'[k].of.no PROVE m = k
        <5>1. CASE m = Len(queue) + 1 BY <1>3, <1>5, <2>2, <3>2, <4>2, <5>1
        <5>2. CASE m \in 1..Len(queue) /\ Untaken(m) /\ queue'[m] = queue[m] BY <3>2, <4>1, <4>2, <5>2
        <5> QED BY <2>1, <4>2, <5>1, <5>2
      <4> QED BY <1>2, <3>2, <4>1, <4>2
    <3> QED BY <2>1, <2>3, <3>1, <3>2
  <2> QED BY <1>1, <1>2, <2>3 DEF NumbersAreOK
<1>9. CountsAreOK' BY <1>1, <1>2, CountsStay
<1>10. PlacesAreOK' BY <1>1, <1>2, <1>4, <1>5, <1>6 DEF PlacesAreOK
<1>11. RunsAreOK' BY <1>2, <1>4, RunsGoOn DEF RunGoesOn
<1>12. EndsAreOK' BY <1>2, <1>4, <1>5, EndsGoOn DEF RunGoesOn
<1>13. Sitting' = Sitting BY <1>2, <1>5 DEF Sitting
<1>14. JournalIsOK' BY <1>1, <1>2, <1>5, <1>13, JournalStays
<1>15. FilesAreOK'
  <2>1. FilesAreOK' = FilesAreOK BY <1>2, <1>5, <1>13 DEF FilesAreOK
  <2> QED BY <1>1, <2>1
<1>16. LivesAreFiled' BY <1>1, <1>2, FiledStay
<1> QED BY <1>7, <1>8, <1>9, <1>10, <1>11, <1>12, <1>14, <1>15, <1>16 DEF LivesInv

\* The holder of a free lock, when it is an event.
LEMMA EventHolds ==
  ASSUME LivesInv, NEW k \in Kinds, Starts("event", k)
  PROVE  /\ step = "idle" /\ queue # <<>> /\ Holder.kind = "event" /\ Holder.of.kind = k
         /\ Holder.of \in Waiting("event") /\ Holder.of \in Sitting /\ Holder.of \in Events
         /\ sess \in Sessions /\ sess # NoSession /\ ~booting /\ replay = <<>>
<1>1. step = "idle" /\ queue # <<>> /\ Holder.kind = "event" /\ Holder.of.kind = k BY DEF Starts
<1>2. Holder.of \in Waiting("event") /\ Holder.of \in Events BY <1>1, InvHas, HolderIs
<1>3. sess # NoSession /\ ~booting /\ replay = <<>> BY <1>1, <1>2, InvHas DEF PlacesAreOK
<1> QED BY <1>1, <1>2, <1>3, InvHas DEF Sitting

\* The holder is done, whatever it was, and the entry is saved, or not.
LEMMA DoneKeeps ==
  ASSUME LivesInv, Done, queue # <<>>, Holder.kind # "final", UNCHANGED <<sess, journal, attaching>>,
         UNCHANGED <<booting, replay, restarts, runs, artifacts, filed, orphans, lifeFaults>>,
         UNCHANGED <<sent, life, over, noted, overlapped>>, saved' = saved \/ (saved' = sess /\ ~booting)
  PROVE  LivesInv'
<1>1. /\ LivesTypeOK /\ NumbersAreOK /\ CountsAreOK /\ PlacesAreOK /\ RunsAreOK
      /\ JournalIsOK /\ FilesAreOK /\ LivesAreFiled
      /\ (sess # NoSession => sess \in Sessions)
      /\ journal \in Seq(Events) /\ queue \in Seq(LockJobs) /\ attaching \subseteq Events BY InvHas
<1>2. queue' = Tail(queue) /\ step' = "idle" /\ fin' = NoFinal BY DEF Done
<1>3. sess \in Sessions /\ sess # NoSession BY <1>1 DEF PlacesAreOK
<1>4. /\ queue' \in Seq(LockJobs) /\ Len(queue') = Len(queue) - 1 /\ Len(queue) \in Nat /\ Len(queue) > 0
      /\ \A k : Waiting(k)' \subseteq Waiting(k)
      /\ Waiting("final")' = Waiting("final")
      /\ Len(queue) <= 1 => queue' = <<>> BY <1>1, <1>2, Dequeued
<1>5. NoFinal \in Finals /\ NoFinal.run = NoRun BY LivesIs DEF NoFinal, Finals
<1>6. LivesTypeOK' BY <1>1, <1>2, <1>3, <1>4, <1>5 DEF LivesTypeOK, LockSteps
<1>7. NumbersAreOK' BY <1>1, <1>2, NumbersLeave
<1>8. CountsAreOK' BY <1>1, CountsStay
<1>9. PlacesAreOK' BY <1>1, <1>2, <1>3, <1>4 DEF PlacesAreOK
<1>10. RunsAreOK' BY <1>2, <1>3, <1>5, RunsGoOn DEF RunGoesOn
<1>11. saved' = saved \/ (saved' = sess' /\ replay = <<>>) BY <1>1 DEF PlacesAreOK
<1>12. EndsAreOK' BY <1>2, <1>3, <1>4, <1>11, EndsGoOn DEF RunGoesOn
<1>13. Sitting' \subseteq Sitting BY <1>4 DEF Sitting
<1>14. JournalIsOK' BY <1>1, <1>4, <1>13, JournalStays
<1>15. FilesAreOK' BY <1>1, <1>2, <1>3, <1>4, <1>13, FilesStay DEF FilesAreOK
<1>16. LivesAreFiled' BY <1>1, FiledStay
<1> QED BY <1>6, <1>7, <1>8, <1>9, <1>10, <1>12, <1>14, <1>15, <1>16 DEF LivesInv

\* The holder goes on to make a call.
LEMMA EnsuringKeeps ==
  ASSUME LivesInv, step = "idle", step' = "ensuring", queue # <<>>, sess.run = NoRun,
         UNCHANGED <<sess, saved, journal, attaching, queue, fin>>,
         UNCHANGED <<booting, replay, restarts, runs, artifacts, filed, orphans, lifeFaults>>,
         UNCHANGED <<sent, life, over, noted, overlapped>>
  PROVE  LivesInv'
<1>1. /\ LivesTypeOK /\ NumbersAreOK /\ CountsAreOK /\ PlacesAreOK /\ RunsAreOK
      /\ JournalIsOK /\ FilesAreOK /\ LivesAreFiled
      /\ (sess # NoSession => sess \in Sessions) BY InvHas
<1>2. sess \in Sessions /\ sess # NoSession BY <1>1 DEF PlacesAreOK
<1>3. (\A j : Waiting(j)' = Waiting(j)) /\ Sitting' = Sitting BY SameQueue DEF Sitting
<1>4. LivesTypeOK' BY <1>1 DEF LivesTypeOK, LockSteps
<1>5. NumbersAreOK' /\ CountsAreOK' BY <1>1, <1>2, NumbersStay, CountsStay
<1>6. PlacesAreOK' BY <1>1, <1>2, <1>3 DEF PlacesAreOK
<1>7. RunsAreOK' BY <1>2, RunsGoOn DEF RunGoesOn
<1>8. EndsAreOK' BY <1>2, <1>3, EndsGoOn DEF RunGoesOn
<1>9. JournalIsOK' BY <1>1, <1>3, JournalStays
<1>10. FilesAreOK' BY <1>1, <1>2, <1>3, FilesStay DEF FilesAreOK
<1>11. LivesAreFiled' BY <1>1, FiledStay
<1> QED BY <1>4, <1>5, <1>6, <1>7, <1>8, <1>9, <1>10, <1>11 DEF LivesInv

LEMMA DispatchOpenKeeps == ASSUME LivesInv, DispatchOpen PROVE LivesInv'
<1>1. Starts("event", "open") /\ OpenContext BY DEF DispatchOpen
<1>2. /\ UNCHANGED <<sess, journal, attaching>>
      /\ UNCHANGED <<booting, replay, restarts, runs, artifacts, filed, orphans, lifeFaults>>
      /\ UNCHANGED <<sent, life, over, noted, overlapped>>
  BY DEF DispatchOpen, OpenContext, bootVars, storeVars, harnessVars
<1>3. step = "idle" /\ queue # <<>> /\ Holder.kind = "event" /\ ~booting BY <1>1, EventHolds DEF Kinds
<1>4. CASE sess.run = NoRun BY <1>1, <1>2, <1>3, <1>4, EnsuringKeeps DEF OpenContext
<1>5. CASE sess.run # NoRun BY <1>1, <1>2, <1>3, <1>5, DoneKeeps DEF OpenContext
<1> QED BY <1>4, <1>5

LEMMA AnswerWorkKeeps == ASSUME LivesInv, AnswerWork PROVE LivesInv'
<1>1. /\ step = "answering" /\ Done /\ saved' = sess /\ UNCHANGED <<sess, journal, attaching>>
      /\ UNCHANGED <<booting, replay, restarts, runs, artifacts, filed, orphans, lifeFaults>>
      /\ UNCHANGED <<sent, life, over, noted, overlapped>> BY DEF AnswerWork, bootVars, storeVars, harnessVars
<1>2. queue # <<>> /\ Holder.kind = "event" BY <1>1, InvHas DEF LivesTypeOK, PlacesAreOK
<1>3. ~booting
  <2>1. Holder.of \in Waiting("event") BY <1>2, InvHas, HolderIs
  <2> QED BY <2>1, InvHas DEF PlacesAreOK
<1> QED BY <1>1, <1>2, <1>3, DoneKeeps

\* The holder leaves and a job joins.
LEMMA Requeued ==
  ASSUME queue \in Seq(LockJobs), queue # <<>>, NEW j \in LockJobs, queue' = Append(Tail(queue), j)
  PROVE  /\ queue' \in Seq(LockJobs) /\ queue' # <<>> /\ Len(queue') = Len(queue) /\ Len(queue) \in Nat
         /\ \A i \in 1..(Len(queue) - 1) : queue'[i] = queue[i + 1]
         /\ queue'[Len(queue)] = j
         /\ j.of \in Waiting(j.kind)'
         /\ \A k : k # j.kind => Waiting(k)' \subseteq Waiting(k)
         /\ \A k : \A e \in Waiting(k)' : e \in Waiting(k) \/ e = j.of
         /\ \A k : k # Holder.kind => Waiting(k) \subseteq Waiting(k)'
<1>1. PICK q \in Seq(LockJobs) : q = queue /\ q # <<>> OBVIOUS
<1>2. PICK t \in Seq(LockJobs) : t = Tail(q) /\ Len(t) = Len(q) - 1 /\ \A i \in 1..Len(t) : t[i] = q[i + 1]
  <2>1. Tail(q) \in Seq(LockJobs) /\ Len(Tail(q)) = Len(q) - 1 /\ \A i \in 1..(Len(q) - 1) : Tail(q)[i] = q[i + 1]
    BY <1>1
  <2> QED BY <2>1, Zenon
<1>3. PICK p \in Seq(LockJobs) : p = queue' /\ p = Append(t, j)
  <2>1. Append(t, j) \in Seq(LockJobs) OBVIOUS
  <2> QED BY <1>1, <1>2, <2>1
<1>4. Len(q) \in Nat /\ Len(q) > 0 /\ Head(q) = q[1] /\ 1 \in 1..Len(q) BY <1>1
<1>5. /\ Len(p) = Len(t) + 1 /\ p # <<>> /\ p[Len(t) + 1] = j
      /\ \A i \in 1..Len(t) : p[i] = t[i]
  <2>1. /\ Len(Append(t, j)) = Len(t) + 1 /\ Append(t, j) # <<>> /\ Append(t, j)[Len(t) + 1] = j
        /\ \A i \in 1..Len(t) : Append(t, j)[i] = t[i] OBVIOUS
  <2> QED BY <1>3, <2>1
<1>6. /\ Len(p) = Len(q) /\ p[Len(q)] = j /\ Len(q) \in 1..Len(p)
      /\ \A i \in 1..(Len(q) - 1) : p[i] = q[i + 1] BY <1>2, <1>4, <1>5
<1>7. Holder = q[1] BY <1>1, <1>4 DEF Holder
<1>8. j.of \in Waiting(j.kind)' BY <1>3, <1>6, WaitingLater
<1>9. ASSUME NEW k, NEW e \in Waiting(k)' PROVE e \in Waiting(k) \/ (e = j.of /\ k = j.kind)
  <2>1. PICK i \in 1..Len(p) : p[i].kind = k /\ p[i].of = e BY <1>3, WaitingLater
  <2>2. CASE i = Len(q) BY <1>6, <2>1, <2>2
  <2>3. CASE i # Len(q)
    <3>1. i \in 1..(Len(q) - 1) /\ i + 1 \in 1..Len(q) BY <1>4, <1>6, <2>3
    <3>2. q[i + 1].kind = k /\ q[i + 1].of = e BY <1>6, <2>1, <3>1
    <3>3. \E n \in 1..Len(queue) : queue[n].kind = k /\ queue[n].of = e BY <1>1, <3>1, <3>2
    <3> QED BY <3>3, WaitingIs
  <2> QED BY <2>2, <2>3
<1>10. ASSUME NEW k, k # Holder.kind, NEW e \in Waiting(k) PROVE e \in Waiting(k)'
  <2>1. PICK i \in 1..Len(q) : q[i].kind = k /\ q[i].of = e BY <1>1, WaitingIs
  <2>2. i # 1 BY <1>7, <1>10, <2>1
  <2>3. i - 1 \in 1..(Len(q) - 1) /\ (i - 1) + 1 = i /\ i - 1 \in 1..Len(p) BY <1>4, <1>6, <2>2
  <2>4. p[i - 1] = q[i] BY <1>6, <2>3
  <2>5. \E n \in 1..Len(queue') : queue'[n].kind = k /\ queue'[n].of = e BY <1>3, <2>1, <2>3, <2>4
  <2> QED BY <1>3, <2>5, WaitingLater
<1> QED BY <1>1, <1>3, <1>4, <1>5, <1>6, <1>8, <1>9, <1>10

LEMMA DispatchWorkKeeps == ASSUME LivesInv, DispatchWork PROVE LivesInv'
<1>1. /\ LivesTypeOK /\ NumbersAreOK /\ CountsAreOK /\ PlacesAreOK /\ RunsAreOK
      /\ JournalIsOK /\ FilesAreOK /\ LivesAreFiled
      /\ journal \in Seq(Events) /\ queue \in Seq(LockJobs) /\ attaching \subseteq Events BY InvHas
<1>2. Starts("event", "work") BY DEF DispatchWork
<1>3. /\ step = "idle" /\ queue # <<>> /\ Holder.kind = "event" /\ Holder.of.kind = "work"
      /\ Holder.of \in Waiting("event") /\ Holder.of \in Sitting /\ Holder.of \in Events
      /\ sess \in Sessions /\ sess # NoSession /\ ~booting /\ replay = <<>> BY <1>2, EventHolds DEF Kinds
<1>4. PICK e \in Events : e = Holder.of BY <1>3
<1>5. /\ sess' = [sess EXCEPT !.busy = TRUE] /\ journal' = Append(journal, e)
      /\ noted' = (IF e.life = life THEN noted \cup {e} ELSE noted)
      /\ queue' = Append(queue, Job("capture", e))
      /\ step' = "answering" \/ (step' = "ensuring" /\ sess.run = NoRun) BY <1>4 DEF DispatchWork, Journal
<1>6. /\ UNCHANGED <<saved, attaching, fin, booting, replay, restarts, runs, artifacts, filed>>
      /\ UNCHANGED <<sent, life, over, overlapped, orphans, lifeFaults>> BY DEF DispatchWork, bootVars, storeVars
<1>7. /\ sess' \in Sessions /\ sess' # NoSession /\ sess'.state = sess.state /\ sess'.lives = sess.lives
      /\ sess'.run = sess.run /\ sess'.running = sess.running /\ sess'.busy /\ sess'.stored = sess.stored
  <2>1. PICK t : t = sess' OBVIOUS
  <2>2. t = [sess EXCEPT !.busy = TRUE] BY <1>5, <2>1
  <2>3. /\ t \in Sessions /\ t.state = sess.state /\ t.lives = sess.lives /\ t.run = sess.run
        /\ t.running = sess.running /\ t.busy = TRUE /\ t.stored = sess.stored BY <1>3, <2>2, BusyIs
  <2> QED BY <2>1, <2>3, SessionIs
<1>8. Job("capture", e) \in LockJobs /\ Job("capture", e).kind = "capture" /\ Job("capture", e).of = e BY JobMade
<1>9. /\ queue' \in Seq(LockJobs) /\ queue' # <<>> /\ Len(queue) \in Nat /\ Len(queue') = Len(queue) + 1
      /\ \A i \in 1..Len(queue) : queue'[i] = queue[i]
      /\ queue'[Len(queue) + 1] = Job("capture", e)
      /\ Holder' = Holder
      /\ Waiting("final")' = Waiting("final") /\ Waiting("event")' = Waiting("event")
  BY <1>1, <1>3, <1>5, <1>8, Enqueued
<1>10. /\ journal' \in Seq(Events) /\ ToSet(journal') = ToSet(journal) \cup {e} BY <1>1, <1>5, ListedIs
<1>11. Sitting' = Sitting BY <1>6, <1>9 DEF Sitting
<1>12. LivesTypeOK' BY <1>1, <1>5, <1>6, <1>7, <1>9, <1>10 DEF LivesTypeOK, LockSteps
<1>13. NumbersAreOK'
  <2>1. \A i \in 1..Len(queue') : Untaken(i)' =>
          i + 0 \in 1..Len(queue) /\ i + 0 # 1 /\ Untaken(i + 0) /\ queue'[i] = queue[i + 0]
    BY <1>3, <1>5, <1>8, <1>9 DEF Untaken
  <2> QED BY <1>1, <1>3, <1>4, <1>5, <1>6, <2>1, NumbersJournal
<1>14. CountsAreOK' BY <1>1, <1>3, <1>6, <1>7, CountsStay
<1>15. PlacesAreOK' BY <1>1, <1>3, <1>5, <1>6, <1>7, <1>9 DEF PlacesAreOK
<1>16. RunsAreOK' BY <1>3, <1>5, <1>6, <1>7, RunsGoOn DEF RunGoesOn
<1>17. EndsAreOK' BY <1>3, <1>5, <1>6, <1>7, <1>9, <1>10, EndsGoOn DEF RunGoesOn
<1>18. JournalIsOK'
  <2> SUFFICES ASSUME ~overlapped, ~over PROVE JournalIsOK' BY <1>6 DEF JournalIsOK
  <2>1. sess.state = "active" BY <1>1, <1>3 DEF JournalIsOK
  <2>2. noted' \subseteq noted \cup {e} BY <1>5
  <2> QED BY <1>1, <1>3, <1>4, <1>6, <1>7, <1>9, <1>10, <1>11, <2>1, <2>2 DEF JournalIsOK
<1>19. FilesAreOK'
  <2> SUFFICES ASSUME restarts = 0, ~overlapped PROVE FilesAreOK' BY <1>6 DEF FilesAreOK
  <2>1. \A n \in Lives : filed[n] = life /\ life # 0 => sess.lives = n BY <1>1, <1>3 DEF FilesAreOK
  <2> QED BY <1>1, <1>3, <1>5, <1>6, <1>7, <1>9, <1>11, <2>1 DEF FilesAreOK
<1>20. LivesAreFiled' BY <1>1, <1>6, FiledStay
<1> QED BY <1>12, <1>13, <1>14, <1>15, <1>16, <1>17, <1>18, <1>19, <1>20 DEF LivesInv

LEMMA DispatchCloseKeeps == ASSUME LivesInv, DispatchClose PROVE LivesInv'
<1>1. /\ LivesTypeOK /\ NumbersAreOK /\ CountsAreOK /\ PlacesAreOK /\ RunsAreOK
      /\ JournalIsOK /\ FilesAreOK /\ LivesAreFiled
      /\ journal \in Seq(Events) /\ queue \in Seq(LockJobs) /\ attaching \subseteq Events BY InvHas
<1>2. Starts("event", "close") BY DEF DispatchClose
<1>3. /\ step = "idle" /\ queue # <<>> /\ Holder.kind = "event" /\ Holder.of.kind = "close"
      /\ Holder.of \in Waiting("event") /\ Holder.of \in Sitting /\ Holder.of \in Events
      /\ sess \in Sessions /\ sess # NoSession /\ ~booting /\ replay = <<>> BY <1>2, EventHolds DEF Kinds
<1>4. PICK e \in Events : e = Holder.of BY <1>3
<1>5. /\ sess' = EndedNow(sess) /\ saved' = sess' /\ journal' = Append(journal, e)
      /\ noted' = (IF e.life = life THEN noted \cup {e} ELSE noted)
      /\ queue' = Append(Tail(queue), Job("final", e)) BY <1>4 DEF DispatchClose, Journal
<1>6. /\ UNCHANGED <<attaching, step, fin, booting, replay, restarts, runs, artifacts, filed>>
      /\ UNCHANGED <<sent, life, over, overlapped, orphans, lifeFaults>> BY DEF DispatchClose, bootVars, storeVars
<1>7. /\ sess' \in Sessions /\ sess' # NoSession /\ sess'.state = "ended" /\ sess'.lives = sess.lives
      /\ sess'.run = sess.run /\ sess'.running = sess.running /\ sess'.busy = sess.busy
      /\ sess'.stored = sess.stored BY <1>3, <1>5, EndedIs, SessionIs
<1>8. Job("final", e) \in LockJobs /\ Job("final", e).kind = "final" /\ Job("final", e).of = e BY JobMade
<1>9. /\ queue' \in Seq(LockJobs) /\ queue' # <<>> /\ Len(queue') = Len(queue) /\ Len(queue) \in Nat
      /\ \A i \in 1..(Len(queue) - 1) : queue'[i] = queue[i + 1]
      /\ queue'[Len(queue)] = Job("final", e)
      /\ e \in Waiting("final")' /\ Waiting("event")' \subseteq Waiting("event")
      /\ \A d \in Waiting("final")' : d \in Waiting("final") \/ d = e
      /\ Waiting("final") \subseteq Waiting("final")' BY <1>1, <1>3, <1>5, <1>8, Requeued
<1>10. /\ journal' \in Seq(Events) /\ ToSet(journal') = ToSet(journal) \cup {e} BY <1>1, <1>5, ListedIs
<1>11. Sitting' \subseteq Sitting BY <1>6, <1>9 DEF Sitting
<1>12. LivesTypeOK' BY <1>1, <1>5, <1>6, <1>7, <1>9, <1>10 DEF LivesTypeOK
<1>13. NumbersAreOK'
  <2>1. \A i \in 1..Len(queue') : Untaken(i)' =>
          i + 1 \in 1..Len(queue) /\ i + 1 # 1 /\ Untaken(i + 1) /\ queue'[i] = queue[i + 1]
    <3> SUFFICES ASSUME NEW i \in 1..Len(queue'), Untaken(i)'
                 PROVE  i + 1 \in 1..Len(queue) /\ i + 1 # 1 /\ Untaken(i + 1) /\ queue'[i] = queue[i + 1] OBVIOUS
    <3>1. i # Len(queue) BY <1>8, <1>9 DEF Untaken
    <3>2. i \in 1..(Len(queue) - 1) /\ i + 1 \in 1..Len(queue) /\ i + 1 # 1 BY <1>9, <3>1
    <3> QED BY <1>9, <3>2 DEF Untaken
  <2> QED BY <1>1, <1>3, <1>4, <1>5, <1>6, <2>1, NumbersJournal
<1>14. CountsAreOK' BY <1>1, <1>3, <1>5, <1>6, <1>7, CountsStay
<1>15. PlacesAreOK' BY <1>1, <1>3, <1>5, <1>6, <1>7, <1>9 DEF PlacesAreOK
<1>16. RunsAreOK' BY <1>3, <1>5, <1>6, <1>7, RunsGoOn DEF RunGoesOn
<1>17. EndsAreOK' BY <1>3, <1>5, <1>6, <1>7, <1>9, <1>10, EndsGoOn DEF RunGoesOn
<1>18. JournalIsOK'
  <2> SUFFICES ASSUME ~overlapped, ~over PROVE FALSE BY <1>6 DEF JournalIsOK
  <2> QED BY <1>1, <1>3 DEF JournalIsOK
<1>19. FilesAreOK'
  <2> SUFFICES ASSUME restarts = 0, ~overlapped PROVE FilesAreOK' BY <1>6 DEF FilesAreOK
  <2>1. e.life = life BY <1>1, <1>3, <1>4 DEF FilesAreOK
  <2>2. over
    <3>1. over \in BOOLEAN /\ overlapped \in BOOLEAN BY <1>1 DEF LivesTypeOK
    <3>2. ~over => FALSE BY <1>1, <1>3 DEF JournalIsOK
    <3> QED BY <3>1, <3>2
  <2>3. \A d \in Waiting("final")' : d \in Waiting("final") \/ d.life = life BY <1>9, <2>1
  <2>4. step # "filing" BY <1>3
  <2> QED BY <1>1, <1>3, <1>6, <1>7, <1>11, <2>2, <2>3, <2>4, FilesStay
<1>20. LivesAreFiled' BY <1>1, <1>6, FiledStay
<1> QED BY <1>12, <1>13, <1>14, <1>15, <1>16, <1>17, <1>18, <1>19, <1>20 DEF LivesInv

LEMMA SaveByOtherKeeps == ASSUME LivesInv, SaveByOther PROVE LivesInv'
<1>1. /\ LivesTypeOK /\ NumbersAreOK /\ CountsAreOK /\ PlacesAreOK /\ RunsAreOK
      /\ JournalIsOK /\ FilesAreOK /\ LivesAreFiled
      /\ (sess # NoSession => sess \in Sessions) BY InvHas
<1>2. /\ ~booting /\ saved' = sess /\ UNCHANGED <<sess, journal, attaching, queue, step, fin, lifeFaults>>
      /\ UNCHANGED <<booting, replay, restarts, runs, artifacts, filed, orphans>>
      /\ UNCHANGED <<sent, life, over, noted, overlapped>>
  BY DEF SaveByOther, lockVars, bootVars, storeVars, harnessVars
<1>3. sess # NoSession /\ replay = <<>> /\ sess \in Sessions BY <1>1, <1>2 DEF PlacesAreOK, SaveByOther
<1>4. (\A j : Waiting(j)' = Waiting(j)) /\ Holder' = Holder /\ Sitting' = Sitting BY <1>2, SameQueue DEF Sitting
<1>5. LivesTypeOK' BY <1>1, <1>2, <1>3 DEF LivesTypeOK
<1>6. NumbersAreOK' /\ CountsAreOK' BY <1>1, <1>2, <1>3, NumbersStay, CountsStay
<1>7. PlacesAreOK' BY <1>1, <1>2, <1>3, <1>4 DEF PlacesAreOK
<1>8. RunsAreOK' BY <1>2, <1>3, RunsGoOn DEF RunGoesOn
<1>9. EndsAreOK' BY <1>2, <1>3, <1>4, EndsGoOn DEF RunGoesOn
<1>10. JournalIsOK' BY <1>1, <1>2, <1>4, JournalStays
<1>11. FilesAreOK' BY <1>1, <1>2, <1>3, <1>4, FilesStay DEF FilesAreOK
<1>12. LivesAreFiled' BY <1>1, <1>2, FiledStay
<1> QED BY <1>5, <1>6, <1>7, <1>8, <1>9, <1>10, <1>11, <1>12 DEF LivesInv

------------------------
(* Jobs. *)

\* Who is at work holds the lock of a session that is known.
LEMMA HolderWorks ==
  ASSUME LivesInv, step # "idle" \/ queue # <<>>
  PROVE  /\ queue # <<>> /\ sess \in Sessions /\ sess # NoSession
         /\ Holder \in LockJobs /\ Holder.of \in Waiting(Holder.kind) /\ Holder.of \in Events
         /\ Holder.kind \in {"event", "capture", "final"}
         /\ Holder.kind = "event" => ~booting
         /\ sess.lives \in Lives
<1>1. queue # <<>> BY InvHas DEF LivesTypeOK
<1>2. sess \in Sessions /\ sess # NoSession BY <1>1, InvHas DEF PlacesAreOK
<1>3. /\ Holder \in LockJobs /\ Holder.of \in Waiting(Holder.kind) /\ Holder.of \in Events
      /\ Holder.kind \in {"event", "capture", "final"} BY <1>1, InvHas, HolderIs
<1>4. Holder.kind = "event" => ~booting BY <1>3, InvHas DEF PlacesAreOK
<1> QED BY <1>1, <1>2, <1>3, <1>4, SessionIs

\* What the holder of the lock does to the queue and to the places, apart from what it does to the runs.
LEMMA HolderSteps ==
  ASSUME LivesInv, queue # <<>>,
         UNCHANGED <<attaching, booting, replay, restarts, sent, life, over, noted, overlapped>>,
         journal' = journal \/ (journal' = <<>> /\ Holder.kind = "final"),
         sess' \in Sessions, sess'.state = sess.state, sess'.lives = sess.lives, sess'.busy = sess.busy,
         \/ queue' = queue /\ step' \in LockSteps \ {"idle", "answering"}
         \/ queue' = Tail(queue) /\ step' = "idle",
         fin' \in Finals, saved' \in {saved, sess'},
         step' \in {"filing", "reopening", "storing", "closing", "finishing"} => Holder.kind = "final",
         step' \in {"ensuring", "reopening"} => sess'.run = NoRun,
         step' = "filing" => sess'.busy /\ fin'.key = sess'.lives,
         step' = "storing" => fin'.run # NoRun,
         runs' \in [RunNos -> {"none", "open", "closed"}], artifacts' \in [RunNos -> Nat],
         orphans' \subseteq RunNos, lifeFaults' \in 0..MaxLifeFaults, filed' \in [Lives -> Lives],
         RunsAreOK', EndsAreOK', filed' = filed \/ (FilesAreOK' /\ LivesAreFiled')
  PROVE  LivesInv'
<1>1. /\ LivesTypeOK /\ NumbersAreOK /\ CountsAreOK /\ PlacesAreOK
      /\ JournalIsOK /\ FilesAreOK /\ LivesAreFiled
      /\ journal \in Seq(Events) /\ queue \in Seq(LockJobs) BY InvHas
<1>2. sess \in Sessions /\ sess # NoSession /\ sess' # NoSession /\ Holder.of \in Waiting(Holder.kind)
  BY HolderWorks, SessionIs
<1>3. /\ queue' \in Seq(LockJobs) /\ Len(queue) \in Nat /\ Len(queue') \in Nat /\ Len(queue') <= Len(queue)
      /\ \A k : Waiting(k)' \subseteq Waiting(k)
      /\ queue' = queue => Holder' = Holder
  <2>1. CASE queue' = queue
    <3>1. \A k : Waiting(k)' = Waiting(k) BY <2>1, SameQueue
    <3> QED BY <1>1, <2>1, <3>1, SameQueue
  <2>2. CASE queue' = Tail(queue)
    <3>1. /\ queue' \in Seq(LockJobs) /\ Len(queue') = Len(queue) - 1 /\ Len(queue) \in Nat /\ Len(queue) > 0
          /\ \A k : Waiting(k)' \subseteq Waiting(k) BY <1>1, <2>2, Dequeued, Zenon
    <3>2. queue' # queue BY <3>1
    <3> QED BY <3>1, <3>2
  <2> QED BY <2>1, <2>2
<1>4. Sitting' \subseteq Sitting BY <1>3 DEF Sitting
<1>5. LivesTypeOK'
  <2>1. step' \in LockSteps /\ (step' # "idle" => queue' # <<>>) BY DEF LockSteps
  <2>2. journal' \in Seq(Events) BY <1>1, EmptyList
  <2> QED BY <1>1, <1>3, <2>1, <2>2 DEF LivesTypeOK
<1>6. NumbersAreOK'
  <2>1. CASE queue' = queue /\ step' # "idle" BY <1>1, <2>1, NumbersStay
  <2>2. CASE queue' = Tail(queue) BY <1>1, <2>2, NumbersLeave
  <2> QED BY <2>1, <2>2
<1>7. CountsAreOK' BY <1>1, <1>2, CountsStay
<1>8. PlacesAreOK'
  <2>1. booting => Len(queue') <= 1 /\ Waiting("event")' = {} /\ attaching' = {} BY <1>1, <1>3 DEF PlacesAreOK
  <2>2. step' # "answering" OBVIOUS
  <2>3. step' # "idle" => Holder' = Holder BY <1>3
  <2> QED BY <1>1, <1>2, <2>1, <2>2, <2>3 DEF PlacesAreOK
<1>9. JournalIsOK'
  <2>1. CASE journal' = journal BY <1>1, <1>2, <1>3, <1>4, <2>1, JournalStays
  <2>2. CASE Holder.kind = "final" BY <1>1, <1>2, <2>2 DEF JournalIsOK
  <2> QED BY <2>1, <2>2
<1>10. FilesAreOK' /\ LivesAreFiled'
  <2>1. CASE filed' = filed
    <3>1. sess.state # "active" \/ over \/ sess'.state = "active" BY <1>2
    <3> QED BY <1>1, <1>2, <1>3, <1>4, <2>1, FilesStay, FiledStay
  <2> QED BY <2>1
<1> QED BY <1>5, <1>6, <1>7, <1>8, <1>9, <1>10 DEF LivesInv

\* What a finalization knows when it starts.
LEMMA FilingIs ==
  ASSUME NEW l \in Lives
  PROVE  /\ NoFinal \in Finals /\ NoFinal.run = NoRun
         /\ [NoFinal EXCEPT !.key = l] \in Finals
         /\ [NoFinal EXCEPT !.key = l].key = l /\ [NoFinal EXCEPT !.key = l].run = NoRun
BY LivesIs DEF NoFinal, Finals

LEMMA StartJobKeeps == ASSUME LivesInv, StartJob PROVE LivesInv'
<1>1. /\ step = "idle" /\ queue # <<>> /\ Holder.kind # "event"
      /\ UNCHANGED <<sess, saved, journal, attaching, lifeFaults>>
      /\ UNCHANGED <<booting, replay, restarts, runs, artifacts, filed, orphans>>
      /\ UNCHANGED <<sent, life, over, noted, overlapped>> BY DEF StartJob, regVars, bootVars, storeVars, harnessVars
<1>2. /\ sess \in Sessions /\ sess # NoSession /\ sess.lives \in Lives
      /\ Holder.kind \in {"event", "capture", "final"} BY <1>1, HolderWorks
<1>3. CASE Holder.of.no # 0 /\ sess.run = NoRun BY <1>1, <1>3, EnsuringKeeps DEF StartJob
<1>4. CASE ~(Holder.of.no # 0 /\ sess.run = NoRun) /\ Holder.kind = "final"
  <2>1. /\ queue' = queue /\ step' = (IF sess.busy THEN "filing" ELSE "closing")
        /\ fin' = [NoFinal EXCEPT !.key = sess.lives] BY <1>4 DEF StartJob, Filing
  <2>2. fin' \in Finals /\ fin'.key = sess.lives /\ fin'.run = NoRun BY <1>2, <2>1, FilingIs
  <2>3. RunsAreOK' BY <1>1, <1>2, <2>1, <2>2, RunsGoOn DEF RunGoesOn
  <2>4. Waiting("final")' = Waiting("final") BY <2>1, SameQueue
  <2>5. EndsAreOK' BY <1>1, <1>2, <2>1, <2>4, EndsGoOn DEF RunGoesOn
  <2>6. /\ runs' \in [RunNos -> {"none", "open", "closed"}] /\ artifacts' \in [RunNos -> Nat]
        /\ orphans' \subseteq RunNos /\ lifeFaults' \in 0..MaxLifeFaults /\ filed' \in [Lives -> Lives]
    BY <1>1, InvHas DEF LivesTypeOK
  <2>7. step' \in LockSteps \ {"idle", "answering"} BY <2>1 DEF LockSteps
  <2>8. step' = "filing" => sess.busy BY <2>1
  <2>9. step' \notin {"ensuring", "reopening", "storing"} BY <2>1
  <2> QED BY <1>1, <1>2, <1>4, <2>1, <2>2, <2>3, <2>5, <2>6, <2>7, <2>8, <2>9, HolderSteps
<1>5. CASE ~(Holder.of.no # 0 /\ sess.run = NoRun) /\ Holder.kind # "final" BY <1>1, <1>5, DoneKeeps DEF StartJob
<1> QED BY <1>3, <1>4, <1>5

\* A call to memory or to the store.
LEMMA CallIs == ASSUME LivesTypeOK, NEW a \in Answers, Call(a) PROVE lifeFaults' \in 0..MaxLifeFaults
BY LivesBounds DEF LivesTypeOK, Call

\* The store opens a run, or does not.
Opens(r) ==
  /\ runs[r] = "none" /\ runs' = [runs EXCEPT ![r] = "open"]
  /\ orphans' \in {orphans, orphans \cup {r}}
  /\ \/ sess' = sess /\ r \in orphans'
     \/ /\ sess'.run = r /\ sess'.running /\ sess'.stored = sess.stored
        /\ sess.state = "active" \/ Holder.kind = "final" \/ r \in orphans'
OpensOne == UNCHANGED <<sess, runs, orphans>> \/ \E r \in RunNos : Opens(r)

LEMMA OpenRunIs ==
  ASSUME LivesInv, NEW a \in Answers, OpenRun(a), step \in {"ensuring", "reopening"}
  PROVE  /\ sess' \in Sessions /\ sess'.state = sess.state /\ sess'.lives = sess.lives /\ sess'.busy = sess.busy
         /\ OpensOne
         /\ a = "ok" => sess'.run # NoRun
         /\ a # "ok" => sess' = sess
         /\ runs' \in [RunNos -> {"none", "open", "closed"}] /\ orphans' \subseteq RunNos
         /\ lifeFaults' \in 0..MaxLifeFaults
<1>1. sess \in Sessions /\ sess # NoSession BY HolderWorks
<1>2. /\ runs \in [RunNos -> {"none", "open", "closed"}] /\ orphans \subseteq RunNos BY InvHas DEF LivesTypeOK
<1>3. Call(a) BY DEF OpenRun
<1>4. lifeFaults' \in 0..MaxLifeFaults BY <1>3, InvHas, CallIs
<1>5. CASE a = "refused" BY <1>1, <1>2, <1>4, <1>5 DEF OpenRun, OpensOne
<1>6. CASE a # "refused"
  <2>1. PICK r \in RunNos :
          /\ runs[r] = "none" /\ runs' = [runs EXCEPT ![r] = "open"]
          /\ sess' = (IF a = "ok" THEN [sess EXCEPT !.run = r, !.running = TRUE] ELSE sess)
          /\ orphans' = (IF a = "ok" /\ (sess.state = "active" \/ Holder.kind = "final")
                         THEN orphans ELSE orphans \cup {r}) BY <1>6 DEF OpenRun
  <2>2. PICK t : t = [sess EXCEPT !.run = r, !.running = TRUE] OBVIOUS
  <2>3. /\ t \in Sessions /\ t.state = sess.state /\ t.lives = sess.lives /\ t.busy = sess.busy
        /\ t.run = r /\ t.running = TRUE /\ t.stored = sess.stored BY <1>1, <2>2 DEF Sessions
  <2>4. r # NoRun BY LivesIs
  <2>5. CASE a = "ok" BY <1>2, <1>4, <2>1, <2>2, <2>3, <2>4, <2>5 DEF Opens, OpensOne
  <2>6. CASE a # "ok" BY <1>1, <1>2, <1>4, <2>1, <2>6 DEF Opens, OpensOne
  <2> QED BY <2>5, <2>6
<1> QED BY <1>5, <1>6

\* The runs, when one more is opened.
LEMMA RunsOpen ==
  ASSUME LivesInv, step \in {"ensuring", "reopening"}, OpensOne, artifacts' = artifacts,
         sess' \in Sessions, saved' \in {saved, sess'}, fin'.run \in {NoRun, sess'.run},
         step' = "storing" => fin'.run = sess'.run /\ sess'.run # NoRun
  PROVE  RunsAreOK'
<1>1. /\ RunsAreOK /\ PlacesAreOK /\ sess \in Sessions /\ sess # NoSession /\ sess.run = NoRun
      /\ runs \in [RunNos -> {"none", "open", "closed"}] /\ sess' # NoSession /\ orphans \subseteq RunNos
  <2>1. sess.run = NoRun BY InvHas DEF PlacesAreOK
  <2> QED BY <2>1, InvHas, HolderWorks, SessionIs DEF LivesTypeOK
<1>2. CASE UNCHANGED <<sess, runs, orphans>>
  BY <1>1, <1>2 DEF RunsAreOK, Minted, OpenRunsAreTracked, OneArtifactPerRun
<1>3. ASSUME NEW r \in RunNos, Opens(r) PROVE RunsAreOK'
  <2>1. /\ runs[r] = "none" /\ runs' = [runs EXCEPT ![r] = "open"] /\ r # NoRun
        /\ orphans' \in {orphans, orphans \cup {r}}
        /\ sess'.run \in {NoRun, r}
        /\ sess'.run = NoRun => sess' = sess /\ r \in orphans'
        /\ sess'.run = r => sess'.running BY <1>1, <1>3, LivesIs DEF Opens
  <2>2. artifacts[r] = 0 BY <1>1, <2>1 DEF RunsAreOK
  <2>3. \A q : Minted(q) => Minted(q)'
    <3> SUFFICES ASSUME NEW q, q # NoRun, runs[q] # "none" PROVE runs'[q] # "none" BY DEF Minted
    <3>1. CASE q \in RunNos BY <1>1, <2>1, <3>1
    <3>2. CASE q \notin RunNos BY <1>1, <2>1, <3>2
    <3> QED BY <3>1, <3>2
  <2>4. Minted(sess.run)' BY <1>1, <2>1 DEF Minted
  <2>5. /\ sess' # NoSession => Minted(sess.run)'
        /\ saved' # NoSession => Minted(saved.run)'
        /\ Minted(fin.run)' BY <1>1, <2>3, <2>4 DEF RunsAreOK, Minted
  <2>6. \A q \in orphans' : Minted(q)'
    <3>1. Minted(r)' BY <1>1, <2>1 DEF Minted
    <3>2. \A q \in orphans : Minted(q)' BY <1>1, <2>3 DEF RunsAreOK
    <3> QED BY <2>1, <3>1, <3>2
  <2>7. \A q \in RunNos : runs'[q] = "none" => artifacts[q] = 0 BY <1>1, <2>1 DEF RunsAreOK
  <2>8. sess'.run # NoRun => artifacts[sess'.run] = 0 BY <2>1, <2>2
  <2>9. OpenRunsAreTracked'
    <3> SUFFICES ASSUME NEW q \in RunNos, runs'[q] = "open"
                 PROVE  (sess'.run = q /\ sess'.running) \/ q \in orphans' BY <1>1 DEF OpenRunsAreTracked
    <3>1. CASE q = r BY <2>1, <3>1
    <3>2. CASE q # r
      <4>1. runs[q] = "open" BY <1>1, <2>1, <3>2
      <4>2. q \in orphans BY <1>1, <4>1, LivesIs DEF RunsAreOK, OpenRunsAreTracked
      <4> QED BY <2>1, <4>2
    <3> QED BY <3>1, <3>2
  <2>10. OneArtifactPerRun' BY <1>1, <2>1 DEF RunsAreOK, OneArtifactPerRun
  <2>11. step' = "storing" => artifacts'[fin'.run] = 0 BY <2>8
  <2> QED BY <2>5, <2>6, <2>7, <2>8, <2>9, <2>10, <2>11 DEF RunsAreOK
<1> QED BY <1>2, <1>3 DEF OpensOne

\* Who is over gets a run only from its finalization.
LEMMA EndsOpen ==
  ASSUME LivesInv, step \in {"ensuring", "reopening"}, OpensOne, UNCHANGED <<journal, replay>>,
         step' # "finishing", sess' \in Sessions, sess'.state = sess.state,
         saved' = saved \/ (saved' = sess' /\ replay = <<>>),
         Waiting("final") \subseteq Waiting("final")'
  PROVE  EndsAreOK'
<1>1. /\ RunsAreOK /\ PlacesAreOK /\ EndsAreOK /\ sess \in Sessions /\ sess # NoSession /\ sess.run = NoRun
      /\ runs \in [RunNos -> {"none", "open", "closed"}] /\ Holder.of \in Waiting(Holder.kind)
  <2>1. sess.run = NoRun BY InvHas DEF PlacesAreOK
  <2> QED BY <2>1, InvHas, HolderWorks DEF LivesTypeOK
<1>2. sess'.state # "active" /\ ~Lost(sess.run)' => Waiting("final")' # {}
  <2> SUFFICES ASSUME sess'.state # "active", sess'.run # NoRun, sess'.run \notin orphans'
               PROVE  Waiting("final")' # {} BY DEF Lost
  <2>1. PICK r \in RunNos : Opens(r) BY <1>1 DEF OpensOne
  <2>2. Holder.kind = "final" BY <1>1, <2>1 DEF Opens
  <2> QED BY <1>1, <2>2
<1>3. ASSUME saved' = saved, saved # NoSession, sess'.run = saved.run, saved.run # NoRun PROVE FALSE
  <2>1. PICK r \in RunNos : Opens(r) BY <1>1, <1>3 DEF OpensOne
  <2>2. sess'.run = r /\ runs[r] = "none" BY <1>1, <1>3, <2>1 DEF Opens
  <2> QED BY <1>1, <1>3, <2>2 DEF RunsAreOK, Minted
<1>4. sess'.state # "active" /\ ~Lost(sess.run)' => EndIsComing' /\ EndComesBack'
  BY <1>2 DEF EndIsComing, EndComesBack
<1>5. saved' # NoSession /\ saved'.state # "active" /\ ~Lost(saved.run)' /\ sess'.run = saved'.run => EndComesBack'
  <2>1. CASE saved' = saved BY <1>3, <2>1 DEF Lost
  <2>2. CASE saved' = sess' BY <1>4, <2>2
  <2> QED BY <2>1, <2>2
<1> QED BY <1>4, <1>5 DEF EndsAreOK

LEMMA EnsureRunKeeps == ASSUME LivesInv, NEW a \in Answers, EnsureRun(a) PROVE LivesInv'
<1>1. /\ step = "ensuring" /\ OpenRun(a) /\ UNCHANGED <<journal, attaching, artifacts, filed>>
      /\ UNCHANGED <<booting, replay, restarts, sent, life, over, noted, overlapped>>
  BY DEF EnsureRun, bootVars, harnessVars
<1>2. /\ queue # <<>> /\ sess \in Sessions /\ sess.lives \in Lives
      /\ Holder.of \in Waiting(Holder.kind) /\ Holder.kind \in {"event", "capture", "final"}
      /\ Holder.kind = "event" => ~booting BY <1>1, HolderWorks
<1>3. /\ sess' \in Sessions /\ sess'.state = sess.state /\ sess'.lives = sess.lives /\ sess'.busy = sess.busy
      /\ OpensOne
      /\ runs' \in [RunNos -> {"none", "open", "closed"}] /\ orphans' \subseteq RunNos
      /\ lifeFaults' \in 0..MaxLifeFaults BY <1>1, OpenRunIs
<1>4. artifacts' \in [RunNos -> Nat] /\ filed' \in [Lives -> Lives] /\ queue \in Seq(LockJobs)
  BY <1>1, InvHas DEF LivesTypeOK
<1>5. CASE Holder.kind = "final"
  <2>1. /\ queue' = queue /\ saved' = saved /\ step' = (IF sess.busy THEN "filing" ELSE "closing")
        /\ fin' = [NoFinal EXCEPT !.key = sess.lives] BY <1>5 DEF EnsureRun, Filing
  <2>2. fin' \in Finals /\ fin'.key = sess.lives /\ fin'.run = NoRun BY <1>2, <2>1, FilingIs
  <2>3. /\ step' \in LockSteps \ {"idle", "answering"} /\ step' \notin {"ensuring", "reopening", "storing", "finishing"}
        /\ step' = "filing" => sess.busy BY <2>1 DEF LockSteps
  <2>4. RunsAreOK' BY <1>1, <1>3, <2>1, <2>2, <2>3, RunsOpen
  <2>5. Waiting("final")' = Waiting("final") BY <2>1, SameQueue
  <2>6. EndsAreOK' BY <1>1, <1>3, <2>1, <2>3, <2>5, EndsOpen
  <2> QED BY <1>1, <1>2, <1>3, <1>4, <1>5, <2>1, <2>2, <2>3, <2>4, <2>6, HolderSteps
<1>6. CASE Holder.kind # "final"
  <2>1. /\ queue' = Tail(queue) /\ step' = "idle" /\ fin' = NoFinal
        /\ saved' = saved \/ (saved' = sess' /\ Holder.kind = "event") BY <1>2, <1>6 DEF EnsureRun, Done
  <2>2. fin' \in Finals /\ fin'.run = NoRun BY <1>2, <2>1, FilingIs
  <2>3. RunsAreOK' BY <1>1, <1>3, <2>1, <2>2, RunsOpen
  <2>4. Waiting("final")' = Waiting("final") BY <1>2, <1>4, <1>6, <2>1, Dequeued
  <2>5. saved' = saved \/ (saved' = sess' /\ replay = <<>>) BY <1>2, <2>1, InvHas DEF PlacesAreOK
  <2>6. EndsAreOK' BY <1>1, <1>3, <2>1, <2>4, <2>5, EndsOpen
  <2> QED BY <1>1, <1>2, <1>3, <1>4, <2>1, <2>2, <2>3, <2>6, HolderSteps
<1> QED BY <1>5, <1>6

\* What a finalization has after its episode was filed, and the run its artifact goes to.
LEMMA FinalIs ==
  ASSUME NEW f \in Finals, NEW r \in RunNos \cup {NoRun}
  PROVE  /\ f.run \in RunNos \cup {NoRun} /\ f.key \in Lives
         /\ [f EXCEPT !.run = r] \in Finals /\ [f EXCEPT !.run = r].run = r BY DEF Finals

LEMMA FileKeeps == ASSUME LivesInv, NEW a \in Answers, File(a) PROVE LivesInv'
<1>1. /\ step = "filing" /\ Call(a)
      /\ filed' = (IF a = "refused" \/ filed[fin.key] # 0 THEN filed
                   ELSE [filed EXCEPT ![fin.key] = Holder.of.life])
      /\ step' = (IF sess.run = NoRun THEN "reopening" ELSE IF sess.stored THEN "closing" ELSE "storing")
      /\ fin' = [fin EXCEPT !.captured = (a = "ok"), !.run = sess.run]
      /\ UNCHANGED <<sess, saved, journal, attaching, queue, runs, artifacts, orphans>>
      /\ UNCHANGED <<booting, replay, restarts, sent, life, over, noted, overlapped>>
  BY DEF File, regVars, bootVars, harnessVars
<1>2. /\ queue # <<>> /\ sess \in Sessions /\ sess # NoSession
      /\ Holder.of \in Waiting(Holder.kind) /\ Holder.of \in Events BY <1>1, HolderWorks
<1>3. /\ Holder.kind = "final" /\ sess.busy /\ fin \in Finals /\ filed \in [Lives -> Lives]
      /\ artifacts' \in [RunNos -> Nat] /\ runs' \in [RunNos -> {"none", "open", "closed"}]
      /\ orphans' \subseteq RunNos BY <1>1, InvHas DEF PlacesAreOK, LivesTypeOK
<1>4. lifeFaults' \in 0..MaxLifeFaults BY <1>1, InvHas, CallIs
<1>5. fin' \in Finals /\ fin'.run = sess.run /\ fin.key \in Lives
  <2>1. (a = "ok") \in BOOLEAN /\ sess.run \in RunNos \cup {NoRun} BY <1>2, SessionIs
  <2>2. PICK c \in BOOLEAN : c = (a = "ok") BY <2>1
  <2>3. PICK r \in RunNos \cup {NoRun} : r = sess.run BY <2>1
  <2>4. fin' = [fin EXCEPT !.captured = c, !.run = r] BY <1>1, <2>2, <2>3
  <2>5. PICK f \in Finals : f = fin BY <1>3
  <2>6. fin' = [f EXCEPT !.captured = c, !.run = r] BY <2>4, <2>5
  <2>7. PICK g : g = [f EXCEPT !.captured = c, !.run = r] OBVIOUS
  <2>8. g \in Finals /\ g.run = r /\ f.key \in Lives BY <2>7 DEF Finals
  <2> QED BY <2>3, <2>5, <2>6, <2>7, <2>8
<1>6. /\ step' \in LockSteps \ {"idle", "answering"} /\ step' \notin {"ensuring", "filing", "finishing"}
      /\ step' = "reopening" => sess.run = NoRun
      /\ step' = "storing" => sess.run # NoRun /\ ~sess.stored BY <1>1 DEF LockSteps
<1>7. RunsAreOK' BY <1>1, <1>2, <1>5, <1>6, InvHas DEF RunsAreOK, Minted, OpenRunsAreTracked, OneArtifactPerRun
<1>8. Waiting("final")' = Waiting("final") /\ Sitting' = Sitting BY <1>1, SameQueue DEF Sitting
<1>9. EndsAreOK' BY <1>1, <1>2, <1>6, <1>8, EndsGoOn DEF RunGoesOn
<1>10. PICK l \in Lives : l = Holder.of.life BY <1>2, EventHas
<1>11. filed' \in [Lives -> Lives] BY <1>1, <1>3, <1>10
<1>12. ASSUME restarts = 0, ~overlapped
       PROVE  /\ l = life
              /\ \A n \in Lives : filed[n] <= life
              /\ \A n \in Lives : filed[n] = life /\ life # 0 => n = fin.key
  BY <1>1, <1>2, <1>3, <1>10, <1>12, InvHas DEF FilesAreOK
<1>13. \A n \in Lives : filed'[n] = filed[n] \/ (n = fin.key /\ filed[n] = 0 /\ filed'[n] = l)
  BY <1>1, <1>3, <1>5, <1>10
<1>14. FilesAreOK'
  <2> SUFFICES ASSUME restarts = 0, ~overlapped PROVE FilesAreOK' BY <1>1 DEF FilesAreOK
  <2>1. life \in Nat BY InvHas, LivesIs DEF LivesTypeOK
  <2>2. \A n \in Lives : filed'[n] <= life BY <1>12, <1>13, <2>1
  <2>3. fin.key = sess.lives BY <1>1, InvHas DEF FilesAreOK
  <2>4. \A n \in Lives : filed'[n] = life /\ life # 0 => sess.lives = n BY <1>12, <1>13, <2>3
  <2> QED BY <1>1, <1>2, <1>6, <1>8, <2>2, <2>4, InvHas DEF FilesAreOK
<1>15. LivesAreFiled'
  <2> SUFFICES ASSUME restarts = 0, ~overlapped, NEW n \in Lives, NEW m \in Lives,
                      filed'[n] = filed'[m], filed'[n] # 0
               PROVE  n = m BY <1>1 DEF LivesAreFiled
  <2>1. filed[n] = filed[m] /\ filed[n] # 0 => n = m BY InvHas DEF LivesAreFiled
  <2> QED BY <1>12, <1>13, <2>1
<1> QED BY <1>1, <1>2, <1>3, <1>4, <1>5, <1>6, <1>7, <1>9, <1>11, <1>14, <1>15, HolderSteps

LEMMA ReopenKeeps == ASSUME LivesInv, NEW a \in Answers, Reopen(a) PROVE LivesInv'
<1>1. /\ step = "reopening" /\ OpenRun(a) /\ step' = (IF a = "ok" THEN "storing" ELSE "closing")
      /\ fin' = [fin EXCEPT !.run = sess'.run]
      /\ UNCHANGED <<saved, journal, attaching, queue, artifacts, filed>>
      /\ UNCHANGED <<booting, replay, restarts, sent, life, over, noted, overlapped>>
  BY DEF Reopen, bootVars, harnessVars
<1>2. queue # <<>> /\ Holder.kind = "final" BY <1>1, HolderWorks, InvHas DEF PlacesAreOK
<1>3. /\ sess' \in Sessions /\ sess'.state = sess.state /\ sess'.lives = sess.lives /\ sess'.busy = sess.busy
      /\ OpensOne /\ (a = "ok" => sess'.run # NoRun)
      /\ runs' \in [RunNos -> {"none", "open", "closed"}] /\ orphans' \subseteq RunNos
      /\ lifeFaults' \in 0..MaxLifeFaults BY <1>1, OpenRunIs
<1>4. artifacts' \in [RunNos -> Nat] /\ filed' \in [Lives -> Lives] /\ fin \in Finals BY <1>1, InvHas DEF LivesTypeOK
<1>5. fin' \in Finals /\ fin'.run = sess'.run
  <2>1. sess'.run \in RunNos \cup {NoRun} BY <1>3, SessionIs
  <2> QED BY <1>1, <1>4, <2>1, FinalIs
<1>6. step' \in LockSteps \ {"idle", "answering"} /\ step' \notin {"ensuring", "reopening", "filing", "finishing"}
  BY <1>1 DEF LockSteps
<1>7. RunsAreOK' BY <1>1, <1>3, <1>5, RunsOpen
<1>8. Waiting("final")' = Waiting("final") BY <1>1, SameQueue
<1>9. EndsAreOK' BY <1>1, <1>3, <1>6, <1>8, EndsOpen
<1>10. step' = "storing" => fin'.run # NoRun BY <1>1, <1>3, <1>5
<1> QED BY <1>1, <1>2, <1>3, <1>4, <1>5, <1>6, <1>7, <1>9, <1>10, HolderSteps

\* An entry whose artifact is noted.
LEMMA MarkedIs ==
  ASSUME NEW s \in Sessions
  PROVE  /\ [s EXCEPT !.stored = TRUE] \in Sessions /\ [s EXCEPT !.stored = TRUE].stored = TRUE
         /\ [s EXCEPT !.stored = TRUE].state = s.state /\ [s EXCEPT !.stored = TRUE].lives = s.lives
         /\ [s EXCEPT !.stored = TRUE].busy = s.busy /\ [s EXCEPT !.stored = TRUE].run = s.run
         /\ [s EXCEPT !.stored = TRUE].running = s.running BY DEF Sessions

LEMMA StoreEpisodeKeeps == ASSUME LivesInv, NEW a \in Answers, StoreEpisode(a) PROVE LivesInv'
<1>1. /\ step = "storing" /\ Call(a) /\ step' = "closing"
      /\ artifacts' = (IF a = "refused" THEN artifacts ELSE [artifacts EXCEPT ![fin.run] = @ + 1])
      /\ sess' = (IF a = "ok" THEN MarkedStored ELSE sess)
      /\ orphans' = (IF a = "unanswered" THEN orphans \cup {fin.run} ELSE orphans)
      /\ UNCHANGED <<saved, journal, attaching, queue, fin, runs, filed>>
      /\ UNCHANGED <<booting, replay, restarts, sent, life, over, noted, overlapped>>
  BY DEF StoreEpisode, bootVars, harnessVars
<1>2. queue # <<>> /\ Holder.kind = "final" /\ sess \in Sessions /\ sess # NoSession
  BY <1>1, HolderWorks, InvHas DEF PlacesAreOK
<1>3. /\ fin \in Finals /\ filed' \in [Lives -> Lives] /\ runs' \in [RunNos -> {"none", "open", "closed"}]
      /\ artifacts \in [RunNos -> Nat] /\ orphans \subseteq RunNos /\ RunsAreOK BY <1>1, InvHas DEF LivesTypeOK
<1>4. PICK f \in RunNos : f = fin.run /\ runs[f] # "none" /\ (artifacts[f] = 0 \/ f \in orphans)
  <2>1. fin.run # NoRun /\ fin.run \in RunNos \cup {NoRun} BY <1>1, <1>3, InvHas, FinalIs DEF PlacesAreOK
  <2> QED BY <1>1, <1>3, <2>1 DEF RunsAreOK, Minted
<1>5. lifeFaults' \in 0..MaxLifeFaults BY <1>1, InvHas, CallIs
<1>6. /\ sess' \in Sessions /\ sess'.state = sess.state /\ sess'.lives = sess.lives /\ sess'.busy = sess.busy
      /\ sess'.run = sess.run /\ sess'.running = sess.running /\ sess' # NoSession
      /\ ~sess'.stored => ~sess.stored /\ (a = "ok" => sess.run # f)
  <2>1. CASE a = "ok" /\ sess.run = f
    <3>1. sess' = [sess EXCEPT !.stored = TRUE] BY <1>1, <1>4, <2>1 DEF MarkedStored
    <3> QED BY <1>2, <3>1, MarkedIs, SessionIs
  <2>2. CASE ~(a = "ok" /\ sess.run = f)
    <3>1. sess' = sess BY <1>1, <1>4, <2>2 DEF MarkedStored
    <3> QED BY <1>2, <2>2, <3>1
  <2> QED BY <2>1, <2>2
<1>7. artifacts' \in [RunNos -> Nat] /\ orphans' \subseteq RunNos BY <1>1, <1>3, <1>4
<1>8. /\ \A q \in RunNos \ {f} : artifacts'[q] = artifacts[q]
      /\ artifacts'[f] = (IF a = "refused" THEN artifacts[f] ELSE artifacts[f] + 1)
      /\ orphans \subseteq orphans' /\ orphans' \subseteq orphans \cup {f} /\ (a = "unanswered" => f \in orphans')
  BY <1>1, <1>3, <1>4
<1>9. RunsAreOK'
  <2>1. /\ sess' # NoSession => Minted(sess.run)'
        /\ saved' # NoSession => Minted(saved.run)'
        /\ Minted(fin.run)' /\ (\A r \in orphans : Minted(r))'
    BY <1>1, <1>2, <1>3, <1>4, <1>6, <1>8 DEF RunsAreOK, Minted
  <2>2. \A r \in RunNos : runs'[r] = "none" => artifacts'[r] = 0 BY <1>1, <1>3, <1>4, <1>8 DEF RunsAreOK
  <2>3. sess'.run # NoRun /\ ~sess'.stored => artifacts'[sess'.run] = 0 \/ sess'.run \in orphans'
    <3> SUFFICES ASSUME sess'.run # NoRun, ~sess'.stored
                 PROVE  artifacts'[sess'.run] = 0 \/ sess'.run \in orphans' OBVIOUS
    <3>1. sess.run \in RunNos /\ ~sess.stored /\ (artifacts[sess.run] = 0 \/ sess.run \in orphans)
      BY <1>2, <1>3, <1>6, SessionIs DEF RunsAreOK
    <3>2. CASE sess.run = f
      <4>1. a \in {"refused", "unanswered"} BY <1>6, <3>2 DEF Answers
      <4> QED BY <1>6, <1>8, <3>1, <3>2, <4>1
    <3>3. CASE sess.run # f BY <1>6, <1>8, <3>1, <3>3
    <3> QED BY <3>2, <3>3
  <2>4. OpenRunsAreTracked' BY <1>1, <1>2, <1>3, <1>6, <1>8 DEF RunsAreOK, OpenRunsAreTracked
  <2>5. OneArtifactPerRun'
    <3> SUFFICES ASSUME NEW q \in RunNos PROVE artifacts'[q] <= 1 \/ q \in orphans' BY DEF OneArtifactPerRun
    <3>1. artifacts[q] <= 1 \/ q \in orphans BY <1>3 DEF RunsAreOK, OneArtifactPerRun
    <3>2. CASE q = f BY <1>3, <1>4, <1>8, <3>1, <3>2
    <3>3. CASE q # f BY <1>8, <3>1, <3>3
    <3> QED BY <3>2, <3>3
  <2> QED BY <1>1, <2>1, <2>2, <2>3, <2>4, <2>5 DEF RunsAreOK
<1>10. EndsAreOK'
  <2>1. Waiting("final")' = Waiting("final") BY <1>1, SameQueue
  <2>2. (EndIsComing => EndIsComing') /\ (EndComesBack => EndComesBack') BY <1>1, <2>1 DEF EndIsComing, EndComesBack
  <2>3. \A r : Lost(r) => Lost(r)' BY <1>1, <1>8 DEF Lost
  <2> QED BY <1>1, <1>2, <1>6, <2>2, <2>3, InvHas DEF EndsAreOK
<1>11. /\ step' \in LockSteps \ {"idle", "answering"}
       /\ step' \notin {"ensuring", "filing", "reopening", "storing", "finishing"} BY <1>1 DEF LockSteps
<1>12. fin' \in Finals BY <1>1, <1>3
<1> QED BY <1>1, <1>2, <1>3, <1>5, <1>6, <1>7, <1>9, <1>10, <1>11, <1>12, HolderSteps

\* Nothing is asked of the ends while the entry's run is lost or closed.
LEMMA EndsLost ==
  ASSUME Lost(sess.run)', saved' = sess' \/ saved' = saved
  PROVE  EndsAreOK'
<1>1. saved' # NoSession /\ ~Lost(saved.run)' => sess'.run # saved'.run BY DEF Lost
<1> QED BY <1>1 DEF EndsAreOK

\* An entry whose run is closed.
LEMMA ClosedEntryIs ==
  ASSUME NEW s \in Sessions
  PROVE  /\ [s EXCEPT !.running = FALSE] \in Sessions /\ [s EXCEPT !.running = FALSE].running = FALSE
         /\ [s EXCEPT !.running = FALSE].state = s.state /\ [s EXCEPT !.running = FALSE].lives = s.lives
         /\ [s EXCEPT !.running = FALSE].busy = s.busy /\ [s EXCEPT !.running = FALSE].run = s.run
         /\ [s EXCEPT !.running = FALSE].stored = s.stored BY DEF Sessions

LEMMA CloseRunKeeps == ASSUME LivesInv, NEW a \in Answers, CloseRun(a) PROVE LivesInv'
<1>1. /\ step = "closing" /\ UNCHANGED <<attaching, artifacts, filed>>
      /\ UNCHANGED <<booting, replay, restarts, sent, life, over, noted, overlapped>>
  BY DEF CloseRun, bootVars, harnessVars
<1>2. queue # <<>> /\ Holder.kind = "final" /\ sess \in Sessions /\ sess # NoSession
  BY <1>1, HolderWorks, InvHas DEF PlacesAreOK
<1>3. /\ fin \in Finals /\ filed' \in [Lives -> Lives] /\ runs \in [RunNos -> {"none", "open", "closed"}]
      /\ artifacts' \in [RunNos -> Nat] /\ orphans \subseteq RunNos /\ RunsAreOK
      /\ lifeFaults \in 0..MaxLifeFaults BY <1>1, InvHas DEF LivesTypeOK
<1>4. PICK r : r = sess.run /\ r \in RunNos \cup {NoRun} BY <1>2, SessionIs
<1>5. \/ /\ r \in RunNos /\ lifeFaults' \in 0..MaxLifeFaults
         /\ runs' = (IF a = "refused" THEN runs ELSE [runs EXCEPT ![r] = "closed"])
         /\ sess' = (IF a = "ok" THEN [sess EXCEPT !.running = FALSE] ELSE sess)
         /\ orphans' = (IF a = "ok" THEN orphans ELSE orphans \cup {r})
      \/ UNCHANGED <<sess, runs, orphans, lifeFaults>> /\ (r = NoRun \/ ~sess.running)
  <2>1. CASE Closes
    <3>1. Call(a) /\ r \in RunNos BY <1>4, <2>1 DEF CloseRun, Closes
    <3>2. lifeFaults' \in 0..MaxLifeFaults BY <3>1, InvHas, CallIs
    <3> QED BY <1>4, <2>1, <3>1, <3>2 DEF CloseRun
  <2>2. CASE ~Closes BY <1>4, <2>2 DEF CloseRun, Closes
  <2> QED BY <2>1, <2>2
<1>6. /\ sess' \in Sessions /\ sess'.state = sess.state /\ sess'.lives = sess.lives /\ sess'.busy = sess.busy
      /\ sess'.run = sess.run /\ sess'.stored = sess.stored /\ sess' # NoSession
      /\ sess'.running = sess.running \/ (r \in RunNos /\ runs'[r] = "closed")
  <2>1. CASE sess' = sess BY <1>2, <2>1
  <2>2. CASE sess' # sess
    <3>1. sess' = [sess EXCEPT !.running = FALSE] /\ r \in RunNos /\ runs' = [runs EXCEPT ![r] = "closed"]
      BY <1>5, <2>2
    <3>2. runs'[r] = "closed" BY <1>3, <3>1
    <3> QED BY <1>2, <3>1, <3>2, ClosedEntryIs, SessionIs
  <2> QED BY <2>1, <2>2
<1>7. /\ runs' \in [RunNos -> {"none", "open", "closed"}] /\ orphans' \subseteq RunNos
      /\ orphans \subseteq orphans' /\ orphans' \subseteq orphans \cup {r}
      /\ lifeFaults' \in 0..MaxLifeFaults
      /\ \A q \in RunNos : runs'[q] = runs[q] \/ (q = r /\ runs'[q] = "closed")
  <2>1. CASE UNCHANGED <<sess, runs, orphans, lifeFaults>> BY <1>3, <2>1
  <2>2. CASE ~UNCHANGED <<sess, runs, orphans, lifeFaults>>
    <3>1. /\ r \in RunNos /\ lifeFaults' \in 0..MaxLifeFaults
          /\ runs' \in {runs, [runs EXCEPT ![r] = "closed"]} /\ orphans' \in {orphans, orphans \cup {r}} BY <1>5, <2>2
    <3>2. runs' \in [RunNos -> {"none", "open", "closed"}] BY <1>3, <3>1
    <3>3. \A q \in RunNos : runs'[q] = runs[q] \/ (q = r /\ runs'[q] = "closed") BY <1>3, <3>1
    <3> QED BY <1>3, <3>1, <3>2, <3>3
  <2> QED BY <2>1, <2>2
<1>8. r # NoRun => runs[r] # "none" BY <1>2, <1>3, <1>4 DEF RunsAreOK, Minted
<1>9. Lost(sess.run)'
  <2> SUFFICES ASSUME r \in RunNos PROVE runs'[r] # "open" \/ r \in orphans' BY <1>4, <1>6 DEF Lost
  <2>1. CASE UNCHANGED <<sess, runs, orphans, lifeFaults>> /\ (r = NoRun \/ ~sess.running)
    <3>1. ~sess.running BY <2>1, LivesIs
    <3> QED BY <1>3, <1>4, <2>1, <3>1 DEF RunsAreOK, OpenRunsAreTracked
  <2>2. CASE ~(UNCHANGED <<sess, runs, orphans, lifeFaults>> /\ (r = NoRun \/ ~sess.running))
    BY <1>3, <1>5, <2>2 DEF Answers
  <2> QED BY <2>1, <2>2
<1>10. /\ \/ queue' = queue /\ step' = "finishing" /\ fin' = fin /\ journal' = journal /\ saved' = saved
          \/ queue' = Tail(queue) /\ step' = "idle" /\ fin' = NoFinal /\ journal' = <<>>
       /\ saved' \in {saved, sess'} BY DEF CloseRun, Finalized, Done
<1>11. fin' \in Finals /\ fin'.run \in {fin.run, NoRun} BY <1>3, <1>10, FilingIs, LivesIs
<1>12. RunsAreOK'
  <2>1. \A q : q \in RunNos \cup {NoRun} /\ Minted(q) => Minted(q)' BY <1>7 DEF Minted
  <2>2. sess' # NoSession => Minted(sess.run)' BY <1>4, <1>6, <1>7, <1>8 DEF Minted
  <2>3. saved' # NoSession => Minted(saved.run)'
    <3>1. saved # NoSession => saved.run \in RunNos \cup {NoRun} /\ Minted(saved.run)
      BY <1>3, InvHas, SessionIs DEF RunsAreOK
    <3> QED BY <1>10, <2>1, <2>2, <3>1, <1>6 DEF Minted
  <2>4. Minted(fin.run)'
    <3>1. fin.run \in RunNos \cup {NoRun} /\ Minted(fin.run) BY <1>3, FinalIs DEF RunsAreOK
    <3> QED BY <1>11, <2>1, <3>1 DEF Minted
  <2>5. (\A q \in orphans : Minted(q))' BY <1>3, <1>4, <1>7, <1>8 DEF RunsAreOK, Minted
  <2>6. \A q \in RunNos : runs'[q] = "none" => artifacts'[q] = 0 BY <1>1, <1>3, <1>7 DEF RunsAreOK
  <2>7. sess'.run # NoRun /\ ~sess'.stored => artifacts'[sess'.run] = 0 \/ sess'.run \in orphans'
    BY <1>1, <1>2, <1>3, <1>6, <1>7 DEF RunsAreOK
  <2>8. OpenRunsAreTracked'
    <3> SUFFICES ASSUME NEW q \in RunNos, runs'[q] = "open"
                 PROVE  (sess'.run = q /\ sess'.running) \/ q \in orphans' BY <1>6 DEF OpenRunsAreTracked
    <3>1. runs[q] = "open" BY <1>7
    <3>2. (sess.run = q /\ sess.running) \/ q \in orphans BY <1>3, <3>1 DEF RunsAreOK, OpenRunsAreTracked
    <3> QED BY <1>4, <1>6, <1>7, <3>2
  <2>9. OneArtifactPerRun' BY <1>1, <1>3, <1>7 DEF RunsAreOK, OneArtifactPerRun
  <2>10. step' # "storing" BY <1>10
  <2> QED BY <2>2, <2>3, <2>4, <2>5, <2>6, <2>7, <2>8, <2>9, <2>10 DEF RunsAreOK
<1>13. EndsAreOK' BY <1>9, <1>10, EndsLost
<1>14. step' = "finishing" => step' \in LockSteps \ {"idle", "answering"} BY DEF LockSteps
<1> QED BY <1>1, <1>2, <1>3, <1>6, <1>7, <1>10, <1>11, <1>12, <1>13, <1>14, HolderSteps

LEMMA FinishLifeKeeps == ASSUME LivesInv, FinishLife PROVE LivesInv'
<1>1. /\ step = "finishing" /\ UNCHANGED <<sess, attaching, runs, artifacts, filed, orphans, lifeFaults>>
      /\ UNCHANGED <<booting, replay, restarts, sent, life, over, noted, overlapped>>
      /\ queue' = Tail(queue) /\ step' = "idle" /\ fin' = NoFinal /\ journal' \in {journal, <<>>}
      /\ saved' \in {saved, sess'} BY DEF FinishLife, Finalized, Done, bootVars, storeVars, harnessVars
<1>2. queue # <<>> /\ Holder.kind = "final" /\ sess \in Sessions /\ sess # NoSession
  BY <1>1, HolderWorks, InvHas DEF PlacesAreOK
<1>3. fin' \in Finals /\ fin'.run = NoRun BY <1>1, FilingIs, LivesIs
<1>4. RunsAreOK' BY <1>1, <1>2, <1>3, RunsGoOn DEF RunGoesOn
<1>5. Lost(sess.run)' BY <1>1, InvHas DEF EndsAreOK, Lost
<1>6. EndsAreOK' BY <1>1, <1>5, EndsLost
<1>7. /\ runs' \in [RunNos -> {"none", "open", "closed"}] /\ artifacts' \in [RunNos -> Nat]
      /\ orphans' \subseteq RunNos /\ lifeFaults' \in 0..MaxLifeFaults /\ filed' \in [Lives -> Lives]
  BY <1>1, InvHas DEF LivesTypeOK
<1> QED BY <1>1, <1>2, <1>3, <1>4, <1>6, <1>7, HolderSteps

------------------------
(* The sweeper, a kill and the replay. *)

LEMMA SweepKeeps == ASSUME LivesInv, Sweep PROVE LivesInv'
<1>1. /\ LivesTypeOK /\ NumbersAreOK /\ CountsAreOK /\ PlacesAreOK /\ RunsAreOK
      /\ FilesAreOK /\ LivesAreFiled
      /\ (sess # NoSession => sess \in Sessions) /\ queue \in Seq(LockJobs) BY InvHas
<1>2. PICK e : e = Event(0, "close", life) OBVIOUS
<1>3. /\ ~booting /\ sess # NoSession /\ sess.state = "active"
      /\ sess' = [sess EXCEPT !.state = "stale"] /\ saved' = sess'
      /\ queue' = Append(queue, Job("final", e)) /\ over' = TRUE
      /\ UNCHANGED <<journal, attaching, step, fin, runs, artifacts, filed, orphans, lifeFaults>>
      /\ UNCHANGED <<booting, replay, restarts, sent, life, noted, overlapped>> BY <1>2 DEF Sweep, bootVars, storeVars
<1>4. sess \in Sessions /\ replay = <<>> BY <1>1, <1>3 DEF PlacesAreOK
<1>5. /\ sess' \in Sessions /\ sess'.state = "stale" /\ sess'.lives = sess.lives /\ sess'.busy = sess.busy
      /\ sess'.run = sess.run /\ sess'.running = sess.running /\ sess'.stored = sess.stored
  <2>1. PICK t : t = [sess EXCEPT !.state = "stale"] OBVIOUS
  <2>2. /\ t \in Sessions /\ t.state = "stale" /\ t.lives = sess.lives /\ t.busy = sess.busy
        /\ t.run = sess.run /\ t.running = sess.running /\ t.stored = sess.stored BY <1>4, <2>1 DEF Sessions
  <2> QED BY <1>3, <2>1, <2>2
<1>6. e \in Events /\ e.life = life /\ e.kind = "close"
  <2>1. 0 \in 0..MaxEvents /\ "close" \in Kinds /\ life \in Lives BY <1>1, LivesBounds DEF LivesTypeOK, Kinds
  <2> QED BY <1>2, <2>1, EventMade
<1>7. Job("final", e) \in LockJobs /\ Job("final", e).kind = "final" /\ Job("final", e).of = e BY <1>6, JobMade
<1>8. /\ queue' \in Seq(LockJobs) /\ queue' # <<>>
      /\ queue # <<>> => Holder' = Holder
      /\ Waiting("event")' = Waiting("event") /\ Waiting("final")' = Waiting("final") \cup {e}
  BY <1>1, <1>3, <1>7, Enqueued
<1>9. Sitting' = Sitting /\ sess' # NoSession BY <1>3, <1>5, <1>8, SessionIs DEF Sitting
<1>10. LivesTypeOK'
  <2>1. {booting', over', overlapped'} \subseteq BOOLEAN BY <1>1, <1>3 DEF LivesTypeOK
  <2> QED BY <1>1, <1>3, <1>5, <1>8, <2>1 DEF LivesTypeOK
<1>11. NumbersAreOK' /\ CountsAreOK' BY <1>1, <1>3, <1>5, <1>7, NumbersJoin, CountsStay
<1>12. PlacesAreOK'
  <2>1. step # "idle" => queue # <<>> BY <1>1 DEF LivesTypeOK
  <2> QED BY <1>1, <1>3, <1>5, <1>8, <1>9, <2>1 DEF PlacesAreOK
<1>13. RunsAreOK' BY <1>3, <1>5, RunsGoOn DEF RunGoesOn
<1>14. EndsAreOK' BY <1>3, <1>4, <1>5, <1>8, EndsGoOn DEF RunGoesOn
<1>15. JournalIsOK' BY <1>3 DEF JournalIsOK
<1>16. FilesAreOK'
  <2>1. restarts = 0 /\ ~overlapped => \A d \in Waiting("final")' : d \in Waiting("final") \/ d.life = life
    BY <1>6, <1>8
  <2> SUFFICES ASSUME restarts = 0, ~overlapped PROVE FilesAreOK' BY <1>3 DEF FilesAreOK
  <2>2. /\ \A d \in Waiting("final") : d.life = life
        /\ \A d \in Sitting : d.kind = "close" => d.life = life
        /\ \A n \in Lives : filed[n] <= life
        /\ step = "filing" => fin.key = sess.lives
        /\ \A n \in Lives : filed[n] = life /\ life # 0 =>
             \/ sess.lives = n
             \/ ~sess.busy /\ over /\ \A d \in Sitting : d.kind # "work" BY <1>1, <1>3 DEF FilesAreOK
  <2> QED BY <1>3, <1>5, <1>9, <2>1, <2>2 DEF FilesAreOK
<1>17. LivesAreFiled' BY <1>1, <1>3, FiledStay
<1> QED BY <1>10, <1>11, <1>12, <1>13, <1>14, <1>15, <1>16, <1>17 DEF LivesInv

LEMMA PruneKeeps == ASSUME LivesInv, Prune PROVE LivesInv'
<1>1. /\ LivesTypeOK /\ NumbersAreOK /\ CountsAreOK /\ PlacesAreOK /\ RunsAreOK /\ EndsAreOK
      /\ JournalIsOK /\ FilesAreOK /\ LivesAreFiled BY InvHas
<1>2. /\ ~booting /\ attaching = {} /\ queue = <<>> /\ sess # NoSession /\ sess.state # "active"
      /\ sess' = NoSession /\ saved' = NoSession /\ journal' = <<>>
      /\ UNCHANGED <<attaching, queue, step, fin, runs, artifacts, filed, orphans, lifeFaults>>
      /\ UNCHANGED <<booting, replay, restarts, sent, life, over, noted, overlapped>>
  BY DEF Prune, lockVars, bootVars, storeVars, harnessVars
<1>3. step = "idle" /\ replay = <<>> /\ ToSet(replay) = {} BY <1>1, <1>2, EmptyList DEF LivesTypeOK, PlacesAreOK
<1>4. (\A k : Waiting(k) = {}) /\ (\A k : Waiting(k)' = {}) /\ Sitting' = {}
  BY <1>2, NobodyWaited, NobodyWaits DEF Sitting
<1>5. LivesTypeOK' BY <1>1, <1>2, EmptyList DEF LivesTypeOK
<1>6. NumbersAreOK' BY <1>1, <1>2, NumbersStay
<1>7. CountsAreOK' /\ PlacesAreOK' BY <1>1, <1>2, <1>3, <1>4 DEF CountsAreOK, CountOK, PlacesAreOK
<1>8. Lost(sess.run) BY <1>1, <1>2, <1>3, <1>4 DEF EndsAreOK, EndIsComing
<1>9. OpenRunsAreTracked'
  <2> SUFFICES ASSUME NEW r \in RunNos, runs[r] = "open" PROVE r \in orphans BY <1>2 DEF OpenRunsAreTracked
  <2>1. sess.run = r \/ r \in orphans BY <1>1 DEF RunsAreOK, OpenRunsAreTracked
  <2> QED BY <1>8, <2>1, LivesIs DEF Lost
<1>10. RunsAreOK' BY <1>1, <1>2, <1>3, <1>9 DEF RunsAreOK, Minted, OneArtifactPerRun
<1>11. EndsAreOK' BY <1>2, <1>3 DEF EndsAreOK
<1>12. JournalIsOK' BY <1>1, <1>2, <1>3, <1>4, EmptyList DEF JournalIsOK
<1>13. FilesAreOK' BY <1>1, <1>2, <1>3, <1>4 DEF FilesAreOK
<1>14. LivesAreFiled' BY <1>1, <1>2, FiledStay
<1> QED BY <1>5, <1>6, <1>7, <1>10, <1>11, <1>12, <1>13, <1>14 DEF LivesInv

\* A run that the file does not have as the session had it is lost track of.
LEMMA CutIs ==
  ASSUME LivesInv
  PROVE  /\ \A r \in Cut \ {NoRun} : r \in RunNos /\ runs[r] # "none"
         /\ sess # NoSession /\ sess.run \notin Cut =>
              \/ sess.run = NoRun /\ ~sess.running
              \/ saved # NoSession /\ saved.run = sess.run /\ saved.running = sess.running
         /\ saved # NoSession /\ saved.run \notin Cut =>
              sess # NoSession /\ saved.run = sess.run /\ saved.running = sess.running /\ saved.stored = sess.stored
         /\ saved # NoSession /\ saved.run \notin Cut => Waiting("final") \subseteq ToSet(journal)
<1>1. /\ (sess # NoSession => sess \in Sessions) /\ (saved # NoSession => saved \in Sessions)
      /\ (sess = NoSession => saved = NoSession) BY InvHas DEF PlacesAreOK
<1>2. ASSUME NEW r \in Cut \ {NoRun} PROVE r \in RunNos /\ runs[r] # "none"
  <2>1. (sess # NoSession /\ r = sess.run) \/ (saved # NoSession /\ r = saved.run) BY <1>2 DEF Cut, RunOf
  <2>2. r \in RunNos \cup {NoRun} BY <1>1, <2>1, SessionIs
  <2> QED BY <1>2, <2>1, <2>2, InvHas DEF RunsAreOK, Minted
<1>3. ASSUME sess # NoSession, sess.run \notin Cut
      PROVE  \/ sess.run = NoRun /\ ~sess.running
             \/ saved # NoSession /\ saved.run = sess.run /\ saved.running = sess.running
  <2>1. RunOf(sess) = RunOf(saved) BY <1>3 DEF Cut, RunOf
  <2> QED BY <1>3, <2>1 DEF RunOf
<1>4. ASSUME saved # NoSession, saved.run \notin Cut
      PROVE  /\ sess # NoSession /\ saved.run = sess.run /\ saved.running = sess.running
             /\ saved.stored = sess.stored /\ Waiting("final") \subseteq ToSet(journal)
  <2>1. RunOf(sess) = RunOf(saved) BY <1>4 DEF Cut, RunOf
  <2>2. sess # NoSession BY <1>1, <1>4
  <2>3. saved.run = sess.run /\ saved.running = sess.running /\ saved.stored = sess.stored
    BY <1>4, <2>1, <2>2 DEF RunOf
  <2>4. Waiting("final") \subseteq ToSet(journal) BY <1>4, <2>1, <2>2, <2>3 DEF Cut, RunOf
  <2> QED BY <2>2, <2>3, <2>4
<1> QED BY <1>2, <1>3, <1>4

LEMMA CrashKeeps == ASSUME LivesInv, EndsAreCloses, Crash PROVE LivesInv'
<1>1. /\ LivesTypeOK /\ NumbersAreOK /\ CountsAreOK /\ PlacesAreOK /\ RunsAreOK /\ EndsAreOK
      /\ JournalIsOK /\ (sess # NoSession => sess \in Sessions) /\ (saved # NoSession => saved \in Sessions) BY InvHas
<1>2. PICK lost : lost = Cut \ {NoRun} OBVIOUS
<1>3. /\ restarts < MaxRestarts /\ restarts' = restarts + 1 /\ sess' = saved /\ saved' = saved
      /\ attaching' = {} /\ queue' = <<>> /\ step' = "idle" /\ fin' = NoFinal
      /\ booting' = TRUE /\ replay' = journal /\ orphans' = orphans \cup lost
      /\ UNCHANGED <<journal, runs, artifacts, filed, sent, life, over, noted, overlapped, lifeFaults>>
  BY <1>2 DEF Crash, storeVars, harnessVars
<1>4. restarts \in 0..MaxRestarts /\ restarts' \in 0..MaxRestarts /\ restarts \in Nat /\ restarts' # 0
  BY <1>1, <1>3, LivesBounds DEF LivesTypeOK
<1>5. (\A k : Waiting(k)' = {}) /\ Sitting' = {} /\ ToSet(replay)' = ToSet(journal) BY <1>3, NobodyWaits DEF Sitting
<1>6. /\ \A r \in lost : r \in RunNos /\ runs[r] # "none"
      /\ sess # NoSession /\ sess.run \notin lost =>
           \/ sess.run = NoRun
           \/ saved # NoSession /\ saved.run = sess.run /\ saved.running = sess.running
      /\ saved # NoSession /\ saved.run # NoRun /\ saved.run \notin lost =>
           /\ sess # NoSession /\ saved.run = sess.run /\ saved.running = sess.running
           /\ saved.stored = sess.stored /\ Waiting("final") \subseteq ToSet(journal) BY <1>2, CutIs
<1>7. NoFinal \in Finals /\ NoFinal.run = NoRun BY LivesIs DEF NoFinal, Finals
<1>8. LivesTypeOK'
  <2>1. /\ journal \in Seq(Events) /\ orphans' \subseteq RunNos /\ <<>> \in Seq(LockJobs)
        /\ {booting', over', overlapped'} \subseteq BOOLEAN BY <1>1, <1>3, <1>6 DEF LivesTypeOK
  <2> QED BY <1>1, <1>3, <1>4, <1>7, <2>1 DEF LivesTypeOK, LockSteps
<1>9. NumbersAreOK'
  <2>1. Len(queue') = 0 /\ 1..0 = {} BY <1>3, EmptyList
  <2> QED BY <1>1, <1>3, <2>1 DEF NumbersAreOK
<1>10. CountsAreOK'
  <2>1. PICK m \in Nat : m = restarts * MaxEvents BY <1>4, LivesBounds
  <2>2. restarts' * MaxEvents = m + MaxEvents BY <1>3, <1>4, <2>1, LivesBounds
  <2>3. Len(journal) \in Nat /\ Len(journal) <= MaxEvents /\ sent \in Nat /\ MaxEvents \in Nat
    BY <1>1, JournalIsShort, LivesBounds DEF LivesTypeOK
  <2>4. saved # NoSession => saved.lives + Len(journal) <= sent + restarts' * MaxEvents
    <3> SUFFICES ASSUME saved # NoSession PROVE saved.lives + Len(journal) <= sent + restarts' * MaxEvents OBVIOUS
    <3>1. saved.lives \in Nat BY <1>1, SessionIs, LivesIs
    <3>2. PICK n \in Nat : n = Len(replay) BY InvHas
    <3>3. saved.lives + n <= sent + m BY <1>1, <2>1, <3>2 DEF CountsAreOK, CountOK
    <3> QED BY <2>2, <2>3, <3>1, <3>2, <3>3
  <2> QED BY <1>1, <1>3, <2>3, <2>4 DEF CountsAreOK, CountOK
<1>11. PlacesAreOK'
  <2>1. Len(queue') = 0 BY <1>3, EmptyList
  <2> QED BY <1>3, <1>4, <1>5, <2>1 DEF PlacesAreOK
<1>12. RunsAreOK'
  <2>1. (\A r \in orphans : Minted(r))' BY <1>1, <1>3, <1>6 DEF RunsAreOK, Minted
  <2>2. /\ sess' # NoSession => Minted(sess.run)'
        /\ saved' # NoSession => Minted(saved.run)'
        /\ Minted(fin.run)' BY <1>1, <1>3, <1>7 DEF RunsAreOK, Minted
  <2>3. saved # NoSession /\ saved.run # NoRun /\ ~saved.stored => artifacts[saved.run] = 0 \/ saved.run \in orphans'
    BY <1>1, <1>3, <1>6 DEF RunsAreOK
  <2>4. OpenRunsAreTracked'
    <3> SUFFICES ASSUME NEW r \in RunNos, runs[r] = "open"
                 PROVE  (saved # NoSession /\ saved.run = r /\ saved.running) \/ r \in orphans'
      BY <1>3 DEF OpenRunsAreTracked
    <3>1. (sess # NoSession /\ sess.run = r /\ sess.running) \/ r \in orphans
      BY <1>1 DEF RunsAreOK, OpenRunsAreTracked
    <3> QED BY <1>3, <1>6, <3>1, LivesIs
  <2>5. OneArtifactPerRun' BY <1>1, <1>3 DEF RunsAreOK, OneArtifactPerRun
  <2> QED BY <1>1, <1>3, <2>1, <2>2, <2>3, <2>4, <2>5 DEF RunsAreOK
<1>13. EndsAreOK'
  <2>1. ASSUME saved # NoSession, saved.state # "active", ~Lost(saved.run)'
        PROVE  \E e \in ToSet(journal) : e.kind = "close"
    <3>1. saved.run # NoRun /\ saved.run \notin lost /\ ~Lost(saved.run) BY <1>3, <2>1 DEF Lost
    <3>2. EndComesBack /\ Waiting("final") \subseteq ToSet(journal) BY <1>1, <1>6, <2>1, <3>1 DEF EndsAreOK
    <3> QED BY <3>2 DEF EndComesBack, EndsAreCloses
  <2> QED BY <1>3, <1>5, <2>1 DEF EndsAreOK, EndIsComing, EndComesBack
<1>14. JournalIsOK' BY <1>1, <1>3, <1>5 DEF JournalIsOK
<1>15. FilesAreOK' /\ LivesAreFiled' BY <1>4 DEF FilesAreOK, LivesAreFiled
<1> QED BY <1>8, <1>9, <1>10, <1>11, <1>12, <1>13, <1>14, <1>15 DEF LivesInv

LEMMA ReplayNextKeeps == ASSUME LivesInv, ReplayNext PROVE LivesInv'
<1>1. /\ LivesTypeOK /\ NumbersAreOK /\ CountsAreOK /\ PlacesAreOK /\ RunsAreOK /\ EndsAreOK
      /\ JournalIsOK /\ (sess # NoSession => sess \in Sessions) /\ (saved # NoSession => saved \in Sessions)
      /\ journal \in Seq(Events) /\ replay \in Seq(Events) BY InvHas
<1>2. PICK e : e = Head(replay) OBVIOUS
<1>3. /\ booting /\ replay # <<>> /\ queue = <<>>
      /\ sess' = (IF e.kind = "close" THEN EndedNow(Upserted(e.kind)) ELSE Upserted(e.kind))
      /\ queue' = <<ReplayJob(e)>> /\ replay' = Tail(replay)
      /\ UNCHANGED <<saved, journal, attaching, step, fin, booting, restarts, runs, artifacts, filed>>
      /\ UNCHANGED <<sent, life, over, noted, overlapped, orphans, lifeFaults>>
  BY <1>2 DEF ReplayNext, storeVars, harnessVars
<1>4. /\ e \in Events /\ e \in ToSet(replay) /\ e.kind \in Kinds
      /\ replay' \in Seq(Events) /\ Len(replay') = Len(replay) - 1 /\ Len(replay) \in Nat /\ Len(replay) > 0
      /\ ToSet(replay)' \subseteq ToSet(replay) /\ ToSet(replay) \subseteq ToSet(replay)' \cup {e}
  BY <1>1, <1>2, <1>3, ListedIs, EventHas
<1>5. step = "idle" /\ attaching = {} /\ restarts # 0 BY <1>1, <1>3 DEF LivesTypeOK, PlacesAreOK
<1>6. PICK k \in {"capture", "final"} : k = (IF e.kind = "close" THEN "final" ELSE "capture") OBVIOUS
<1>7. /\ queue' \in Seq(LockJobs) /\ Len(queue') = 1 /\ queue'[1] = Job(k, e) /\ queue'[1].kind = k
      /\ queue' # <<>> /\ Waiting("event")' = {}
      /\ e.kind = "close" => Waiting("final")' = {e}
      /\ e.kind # "close" => Waiting("final")' = {}
  <2>1. queue' = <<Job(k, e)>> BY <1>3, <1>6 DEF ReplayJob
  <2>2. Job(k, e) \in LockJobs /\ Job(k, e).kind = k /\ Job(k, e).of = e BY <1>4, JobMade
  <2> QED BY <1>6, <2>1, <2>2, OneWaits
<1>8. Sitting' = {} BY <1>3, <1>5, <1>7 DEF Sitting
<1>9. PICK t : t = Upserted(e.kind) OBVIOUS
<1>10. /\ t \in Sessions
       /\ sess = NoSession => t = NewSession
       /\ sess # NoSession => RunGoesOn(sess, t) /\ t.lives \in {sess.lives, sess.lives + 1}
       /\ e.kind # "close" => t.state = "active"
  <2>1. sess # NoSession => sess.lives + 1 \in Lives BY <1>1, <1>3, LifeFits
  <2> QED BY <1>1, <1>4, <1>9, <2>1, UpsertedIs, NewSessionIs
<1>11. /\ sess' \in Sessions /\ sess' # NoSession /\ sess'.run = t.run /\ sess'.running = t.running
       /\ sess'.stored = t.stored /\ sess'.lives = t.lives
       /\ e.kind # "close" => sess'.state = "active" BY <1>3, <1>9, <1>10, EndedIs, SessionIs
<1>12. /\ sess = NoSession => sess'.run = NoRun /\ ~sess'.running /\ sess'.lives = 0
       /\ sess # NoSession => RunGoesOn(sess, sess') /\ sess'.lives \in {sess.lives, sess.lives + 1}
  BY <1>10, <1>11, NewSessionIs DEF RunGoesOn
<1>13. LivesTypeOK' BY <1>1, <1>3, <1>4, <1>7, <1>11 DEF LivesTypeOK
<1>14. NumbersAreOK'
  <2>1. \A i \in 1..Len(queue') : ~Untaken(i)'
    <3> SUFFICES ASSUME NEW i \in 1..1 PROVE ~Untaken(i)' BY <1>7
    <3>1. i = 1 OBVIOUS
    <3> QED BY <1>6, <1>7, <3>1 DEF Untaken
  <2> QED BY <1>1, <1>3, <2>1 DEF NumbersAreOK
<1>15. CountsAreOK'
  <2>1. restarts \in Nat /\ sent \in Nat /\ MaxEvents \in Nat BY <1>1, LivesBounds DEF LivesTypeOK
  <2>2. PICK m \in Nat : m = (restarts - 1) * MaxEvents
    <3>1. restarts - 1 \in 0..MaxRestarts BY <1>1, <1>5, LivesBounds DEF LivesTypeOK
    <3> QED BY <3>1, LivesBounds
  <2>3. restarts * MaxEvents = m + MaxEvents
    <3>1. restarts - 1 \in Nat /\ (restarts - 1) + 1 = restarts BY <1>5, <2>1
    <3> QED BY <2>2, <3>1, LivesBounds
  <2>4. Len(replay) <= MaxEvents /\ life <= sent BY <1>1 DEF CountsAreOK
  <2>5. sess'.lives + Len(replay') <= sent + restarts * MaxEvents
    <3>1. CASE sess = NoSession BY <1>4, <1>12, <2>1, <2>2, <2>3, <2>4, <3>1
    <3>2. CASE sess # NoSession
      <4>1. sess.lives \in Nat /\ sess.lives + Len(replay) <= sent + restarts * MaxEvents
        BY <1>1, <3>2, SessionIs, LivesIs DEF CountsAreOK, CountOK
      <4> QED BY <1>4, <1>12, <2>1, <2>2, <2>3, <3>2, <4>1
    <3> QED BY <3>1, <3>2
  <2>6. saved # NoSession => saved.lives + Len(replay') <= sent + restarts * MaxEvents
    <3> SUFFICES ASSUME saved # NoSession PROVE saved.lives + Len(replay') <= sent + restarts * MaxEvents OBVIOUS
    <3>1. saved.lives \in Nat /\ saved.lives + Len(replay) <= sent + restarts * MaxEvents
      BY <1>1, SessionIs, LivesIs DEF CountsAreOK, CountOK
    <3> QED BY <1>4, <2>1, <2>2, <2>3, <3>1
  <2> QED BY <1>3, <1>4, <2>1, <2>4, <2>5, <2>6 DEF CountsAreOK, CountOK
<1>16. PlacesAreOK' BY <1>3, <1>5, <1>7, <1>11 DEF PlacesAreOK
<1>17. RunsAreOK' BY <1>3, <1>5, <1>11, <1>12, RunsGoOn
<1>18. EndsAreOK'
  <2>1. sess'.state # "active" => EndIsComing' BY <1>7, <1>11 DEF EndIsComing
  <2>2. ASSUME saved # NoSession, saved.state # "active", ~Lost(saved.run)', sess'.run = saved.run
        PROVE  EndComesBack'
    <3>1. saved.run # NoRun /\ ~Lost(saved.run) BY <1>3, <2>2 DEF Lost
    <3>2. sess # NoSession /\ sess.run = saved.run BY <1>12, <2>2, <3>1 DEF RunGoesOn
    <3>3. EndComesBack BY <1>1, <2>2, <3>1, <3>2 DEF EndsAreOK
    <3>4. Waiting("final") = {} BY <1>3, NobodyWaited
    <3> QED BY <1>3, <3>3, <3>4 DEF EndComesBack
  <2> QED BY <1>3, <1>5, <2>1, <2>2 DEF EndsAreOK
<1>19. JournalIsOK'
  <2> SUFFICES ASSUME ~overlapped, ~over PROVE JournalIsOK' BY <1>3 DEF JournalIsOK
  <2>1. /\ \A d \in ToSet(journal) \cup ToSet(replay) : d.kind # "close"
        /\ noted \subseteq ToSet(journal) BY <1>1 DEF JournalIsOK
  <2>2. e.kind # "close" /\ sess'.state = "active" /\ Waiting("final")' = {} BY <1>4, <1>7, <1>11, <2>1
  <2> QED BY <1>3, <1>4, <1>8, <1>11, <2>1, <2>2 DEF JournalIsOK
<1>20. FilesAreOK' /\ LivesAreFiled' BY <1>3, <1>5 DEF FilesAreOK, LivesAreFiled
<1> QED BY <1>13, <1>14, <1>15, <1>16, <1>17, <1>18, <1>19, <1>20 DEF LivesInv

LEMMA EndReplayKeeps == ASSUME LivesInv, EndReplay PROVE LivesInv'
<1>1. /\ LivesTypeOK /\ NumbersAreOK /\ CountsAreOK /\ PlacesAreOK /\ RunsAreOK /\ EndsAreOK
      /\ JournalIsOK /\ (sess # NoSession => sess \in Sessions) BY InvHas
<1>2. /\ booting /\ replay = <<>> /\ queue = <<>> /\ booting' = FALSE /\ saved' = sess
      /\ UNCHANGED <<sess, journal, attaching, queue, step, fin, replay, restarts, runs, artifacts, filed>>
      /\ UNCHANGED <<sent, life, over, noted, overlapped, orphans, lifeFaults>>
  BY DEF EndReplay, lockVars, storeVars, harnessVars
<1>3. step = "idle" /\ attaching = {} /\ restarts # 0 /\ (sess = NoSession => saved = NoSession)
  BY <1>1, <1>2 DEF LivesTypeOK, PlacesAreOK
<1>4. (\A k : Waiting(k)' = Waiting(k)) /\ Sitting' = Sitting BY <1>2, SameQueue DEF Sitting
<1>5. LivesTypeOK' BY <1>1, <1>2 DEF LivesTypeOK
<1>6. NumbersAreOK' /\ CountsAreOK' BY <1>1, <1>2, NumbersStay, CountsStay
<1>7. PlacesAreOK' BY <1>1, <1>2, <1>3 DEF PlacesAreOK
<1>8. RunsAreOK' /\ EndsAreOK'
  <2>1. CASE sess = NoSession
    BY <1>1, <1>2, <1>3, <2>1 DEF RunsAreOK, EndsAreOK, Minted, OpenRunsAreTracked, OneArtifactPerRun
  <2>2. CASE sess # NoSession BY <1>1, <1>2, <1>3, <1>4, <2>2, RunsGoOn, EndsGoOn DEF RunGoesOn
  <2> QED BY <2>1, <2>2
<1>9. JournalIsOK' BY <1>1, <1>2, <1>4, JournalStays
<1>10. FilesAreOK' /\ LivesAreFiled' BY <1>2, <1>3 DEF FilesAreOK, LivesAreFiled
<1> QED BY <1>5, <1>6, <1>7, <1>8, <1>9, <1>10 DEF LivesInv

LEMMA LivesRest == ASSUME LivesInv, UNCHANGED livesVars PROVE LivesInv'
<1>1. /\ LivesTypeOK /\ NumbersAreOK /\ CountsAreOK /\ PlacesAreOK /\ RunsAreOK /\ EndsAreOK
      /\ JournalIsOK /\ FilesAreOK /\ LivesAreFiled BY InvHas
<1>2. /\ UNCHANGED <<sess, saved, journal, attaching, queue, step, fin, lifeFaults, orphans>>
      /\ UNCHANGED <<booting, replay, restarts, runs, artifacts, filed>>
      /\ UNCHANGED <<sent, life, over, noted, overlapped>>
  BY DEF livesVars, regVars, lockVars, bootVars, storeVars, harnessVars
<1>3. (\A k : Waiting(k)' = Waiting(k)) /\ Holder' = Holder /\ Sitting' = Sitting BY <1>2, SameQueue DEF Sitting
<1>4. LivesTypeOK' BY <1>1, <1>2 DEF LivesTypeOK
<1>5. NumbersAreOK' BY <1>1, <1>2, NumbersStay
<1>6. CountsAreOK' BY <1>1, <1>2 DEF CountsAreOK, CountOK
<1>7. PlacesAreOK' BY <1>1, <1>2, <1>3 DEF PlacesAreOK
<1>8. RunsAreOK' BY <1>1, <1>2 DEF RunsAreOK, Minted, OpenRunsAreTracked, OneArtifactPerRun
<1>9. EndsAreOK' BY <1>1, <1>2, <1>3 DEF EndsAreOK, EndIsComing, EndComesBack, Lost
<1>10. JournalIsOK' BY <1>1, <1>2, <1>3 DEF JournalIsOK
<1>11. FilesAreOK' BY <1>1, <1>2, <1>3 DEF FilesAreOK
<1>12. LivesAreFiled' BY <1>1, <1>2 DEF LivesAreFiled
<1> QED BY <1>4, <1>5, <1>6, <1>7, <1>8, <1>9, <1>10, <1>11, <1>12 DEF LivesInv

------------------------
(* All steps. *)

\* Who waits to be finalized after a step waited before it, or has just been closed.
LEMMA EndsStep == ASSUME LivesInv, EndsAreCloses, [LivesNext]_livesVars PROVE EndsAreCloses'
<1>1. queue \in Seq(LockJobs) /\ (step # "idle" => queue # <<>>) BY InvHas DEF LivesTypeOK
<1>2. CASE queue' = queue
  <2>1. Waiting("final")' = Waiting("final") BY <1>2, SameQueue
  <2> QED BY <2>1 DEF EndsAreCloses
<1>3. CASE queue # <<>> /\ queue' = Tail(queue)
  <2>1. Waiting("final")' \subseteq Waiting("final") BY <1>1, <1>3, Dequeued
  <2> QED BY <2>1 DEF EndsAreCloses
<1>4. CASE queue' = <<>>
  <2>1. Waiting("final")' = {} BY <1>4, NobodyWaits
  <2> QED BY <2>1 DEF EndsAreCloses
<1>5. ASSUME NEW e \in Events, NEW k \in {"event", "capture", "final"}, queue' = Append(queue, Job(k, e)),
             k = "final" => e.kind = "close"
      PROVE  EndsAreCloses'
  <2>1. Job(k, e) \in LockJobs /\ Job(k, e).kind = k /\ Job(k, e).of = e BY JobMade
  <2>2. /\ k # "final" => Waiting("final")' = Waiting("final")
        /\ k = "final" => Waiting("final")' = Waiting("final") \cup {e} BY <1>1, <1>5, <2>1, Enqueued
  <2> QED BY <1>5, <2>2 DEF EndsAreCloses
<1>6. ASSUME DispatchClose PROVE EndsAreCloses'
  <2>1. Starts("event", "close") /\ queue' = Append(Tail(queue), Job("final", Holder.of)) BY <1>6 DEF DispatchClose
  <2>2. queue # <<>> /\ Holder.of \in Events /\ Holder.of.kind = "close" BY <2>1, EventHolds DEF Kinds
  <2>3. Job("final", Holder.of) \in LockJobs /\ Job("final", Holder.of).of = Holder.of BY <2>2, JobMade
  <2>4. \A e \in Waiting("final")' : e \in Waiting("final") \/ e = Holder.of BY <1>1, <2>1, <2>2, <2>3, Requeued
  <2> QED BY <2>2, <2>4 DEF EndsAreCloses
<1>7. ASSUME ReplayNext PROVE EndsAreCloses'
  <2>1. PICK e \in Events : e = Head(replay) BY <1>7, InvHas, ListedIs DEF ReplayNext
  <2>2. PICK k \in {"capture", "final"} : k = (IF e.kind = "close" THEN "final" ELSE "capture") OBVIOUS
  <2>3. queue' = <<Job(k, e)>> BY <1>7, <2>1, <2>2 DEF ReplayNext, ReplayJob
  <2>4. Job(k, e) \in LockJobs /\ Job(k, e).kind = k /\ Job(k, e).of = e BY JobMade
  <2>5. (k # "final" => Waiting("final")' = {}) /\ (k = "final" => Waiting("final")' = {e}) BY <2>3, <2>4, OneWaits
  <2> QED BY <2>2, <2>5 DEF EndsAreCloses
<1>8. ASSUME Sweep PROVE EndsAreCloses'
  <2>1. PICK e : e = Event(0, "close", life) OBVIOUS
  <2>2. e \in Events /\ e.kind = "close"
    <3>1. 0 \in 0..MaxEvents /\ "close" \in Kinds /\ life \in Lives BY InvHas, LivesBounds DEF LivesTypeOK, Kinds
    <3> QED BY <2>1, <3>1, EventMade
  <2> QED BY <1>5, <1>8, <2>1, <2>2 DEF Sweep
<1>9. ASSUME NEW e \in attaching, Enter(e) PROVE EndsAreCloses'
  <2>1. e \in Events BY InvHas
  <2> QED BY <1>5, <1>9, <2>1 DEF Enter
<1>10. ASSUME DispatchWork PROVE EndsAreCloses'
  <2>1. Holder.of \in Events /\ queue' = Append(queue, Job("capture", Holder.of))
    BY <1>10, EventHolds DEF DispatchWork, Kinds
  <2> QED BY <1>5, <2>1
<1>11. ASSUME NEW k \in Kinds, Arrive(k) PROVE EndsAreCloses' BY <1>2, <1>11 DEF Arrive
<1>12. ASSUME DispatchOpen PROVE EndsAreCloses' BY <1>2, <1>3, <1>12 DEF DispatchOpen, OpenContext, Done, Starts
<1>13. ASSUME AnswerWork \/ StartJob \/ FinishLife PROVE EndsAreCloses'
  BY <1>1, <1>2, <1>3, <1>13 DEF AnswerWork, StartJob, FinishLife, Finalized, Done
<1>14. ASSUME NEW a \in Answers, EnsureRun(a) PROVE EndsAreCloses'
  <2>1. Holder.kind \in {"event", "capture", "final"} /\ queue # <<>> BY <1>14, HolderWorks DEF EnsureRun
  <2>2. queue' = queue \/ queue' = Tail(queue) BY <1>14, <2>1 DEF EnsureRun, Done
  <2> QED BY <1>2, <1>3, <2>1, <2>2
<1>15. ASSUME NEW a \in Answers, File(a) \/ Reopen(a) \/ StoreEpisode(a) \/ CloseRun(a) PROVE EndsAreCloses'
  BY <1>1, <1>2, <1>3, <1>15 DEF File, Reopen, StoreEpisode, CloseRun, Finalized, Done
<1>16. ASSUME SaveByOther \/ Prune \/ EndReplay \/ UNCHANGED livesVars PROVE EndsAreCloses'
  BY <1>2, <1>16 DEF SaveByOther, Prune, EndReplay, livesVars, lockVars
<1>17. ASSUME Crash PROVE EndsAreCloses' BY <1>4, <1>17 DEF Crash
<1> QED BY <1>6, <1>7, <1>8, <1>9, <1>10, <1>11, <1>12, <1>13, <1>14, <1>15, <1>16, <1>17 DEF LivesNext, Work

LEMMA LivesStep == ASSUME LivesInv, EndsAreCloses, [LivesNext]_livesVars PROVE LivesInv'
<1>1. CASE \E k \in Kinds : Arrive(k) BY <1>1, ArriveKeeps
<1>2. CASE Work
  <2>1. CASE \E e \in attaching : Enter(e) BY <2>1, EnterKeeps
  <2>2. CASE DispatchOpen \/ DispatchWork \/ AnswerWork \/ DispatchClose
    BY <2>2, DispatchOpenKeeps, DispatchWorkKeeps, AnswerWorkKeeps, DispatchCloseKeeps
  <2>3. CASE StartJob \/ FinishLife BY <2>3, StartJobKeeps, FinishLifeKeeps
  <2>4. CASE \E a \in Answers : EnsureRun(a) \/ File(a) \/ Reopen(a) \/ StoreEpisode(a) \/ CloseRun(a)
    BY <2>4, EnsureRunKeeps, FileKeeps, ReopenKeeps, StoreEpisodeKeeps, CloseRunKeeps
  <2>5. CASE ReplayNext \/ EndReplay BY <2>5, ReplayNextKeeps, EndReplayKeeps
  <2> QED BY <1>2, <2>1, <2>2, <2>3, <2>4, <2>5 DEF Work
<1>3. CASE SaveByOther \/ Sweep \/ Prune \/ Crash BY <1>3, SaveByOtherKeeps, SweepKeeps, PruneKeeps, CrashKeeps
<1>4. CASE UNCHANGED livesVars BY <1>4, LivesRest
<1> QED BY <1>1, <1>2, <1>3, <1>4 DEF LivesNext

\* What the invariant says of a session's lives.
LEMMA LivesFollow == ASSUME LivesInv PROVE LivesTypeOK /\ LivesAreAccounted
<1>1. /\ LivesTypeOK /\ PlacesAreOK /\ RunsAreOK /\ EndsAreOK /\ JournalIsOK /\ LivesAreFiled
      /\ (sess # NoSession => sess \in Sessions) BY InvHas
<1>2. OpenRunsAreTracked /\ OneArtifactPerRun BY <1>1 DEF RunsAreOK
<1>3. EndedRunsClose
  <2> SUFFICES ASSUME queue = <<>>, ~booting, sess # NoSession, sess.state # "active", sess.run # NoRun,
                      sess.run \notin orphans
               PROVE  runs[sess.run] = "closed" BY DEF EndedRunsClose
  <2>1. replay = <<>> /\ ToSet(replay) = {} /\ Waiting("final") = {} BY <1>1, EmptyList, NobodyWaited DEF PlacesAreOK
  <2>2. Lost(sess.run) BY <1>1, <2>1 DEF EndsAreOK, EndIsComing
  <2>3. runs[sess.run] # "none" /\ runs[sess.run] # "open" BY <1>1, <2>2 DEF RunsAreOK, Minted, Lost
  <2>4. sess.run \in RunNos BY <1>1, SessionIs
  <2> QED BY <1>1, <2>3, <2>4 DEF LivesTypeOK
<1>4. JournalKeepsOpenLife BY <1>1 DEF JournalIsOK, JournalKeepsOpenLife
<1> QED BY <1>1, <1>2, <1>3, <1>4 DEF LivesAreAccounted

------------------------
(* The extraction worker (ExtractionJobs).                                 *)
(*                                                                         *)
(* JobsInv says what the worker holds and knows at each point of a sweep:  *)
(* the jobs it has claimed and not come to yet, each once, and of the job  *)
(* in hand what it has read of it and how much of its event is still to be *)
(* proposed; and of every job that its failures were its own, and that it  *)
(* ended for one of the two reasons a job may end for.                     *)

Reach == MaxAttempts + MaxJobFaults
JobRecords == [kind : JobKinds, status : {"pending", "claimed", "done", "failed"}, attempts : 0..Reach,
               failures : 0..MaxAttempts, live : BOOLEAN, supported : 0..MaxProposals]
Places == {"between", "event", "extract", "propose", "complete"}
Workers == [sweep : BOOLEAN, todo : Seq(Jobs), at : Places, prior : 0..Reach, left : 0..MaxProposals,
            limit : BOOLEAN]
JobTypes ==
  /\ store \in {"errors", "attempts"} /\ jobs \in [Jobs -> JobRecords] /\ worker \in Workers
  /\ limited \in [Jobs -> Nat] /\ said \in [Jobs -> 0..MaxProposals]
  /\ genuine \in [Jobs -> 0..MaxAttempts] /\ jobFaults \in 0..MaxJobFaults

\* A sweep has a job to go and holds the lease of each of its jobs, which are different ones.
SweepOK ==
  /\ worker.sweep => worker.todo # <<>>
  /\ ~worker.sweep => worker = Nothing
  /\ Len(worker.todo) <= ClaimLimit
  /\ \A i, k \in 1..Len(worker.todo) : worker.todo[i] = worker.todo[k] => i = k
  /\ \A i \in 1..Len(worker.todo) : jobs[worker.todo[i]].status = "claimed"

\* What the worker has found out of the job in hand is still so.
HandOK(j) ==
  /\ store = "errors" => worker.prior = jobs[j].failures
  /\ worker.at = "propose" => worker.left > 0 /\ said[j] + worker.left >= jobs[j].supported
  /\ worker.at = "complete" /\ jobs[j].live => said[j] >= jobs[j].supported

JobOK(j) ==
  /\ jobs[j].kind # "plain" => jobs[j].supported = 0
  /\ store = "errors" => jobs[j].failures <= genuine[j]
  /\ jobs[j].status = "failed" /\ store = "errors" => genuine[j] >= MaxAttempts
  /\ jobs[j].status = "done" /\ jobs[j].live => said[j] >= jobs[j].supported

JobsInv ==
  /\ JobTypes /\ SweepOK
  /\ worker.sweep /\ worker.at # "between" => HandOK(Hand)
  /\ \A j \in Jobs : JobOK(j)

LEMMA JobsBounds ==
  /\ MaxAttempts \in Nat /\ MaxJobFaults \in Nat /\ MaxProposals \in Nat /\ ClaimLimit \in Nat
  /\ Reach \in Nat /\ MaxAttempts <= Reach BY JobsAssumption DEF Reach

\* A finite set, put in a sequence.
LEMMA ClaimedInOrder ==
  ASSUME NEW claimed \in SUBSET Jobs, claimed # {}
  PROVE  /\ SetToSeq(claimed) \in Seq(Jobs) /\ SetToSeq(claimed) # <<>>
         /\ Len(SetToSeq(claimed)) = Cardinality(claimed)
         /\ \A i \in 1..Len(SetToSeq(claimed)) : SetToSeq(claimed)[i] \in claimed
         /\ \A i, k \in 1..Len(SetToSeq(claimed)) : SetToSeq(claimed)[i] = SetToSeq(claimed)[k] => i = k
<1>1. IsFiniteSet(claimed) BY JobsAssumption, FS_Subset
<1>2. Cardinality(claimed) \in Nat /\ ExistsBijection(1..Cardinality(claimed), claimed) BY <1>1, FS_CardinalityType
<1>3. Cardinality(claimed) # 0 BY <1>1, FS_EmptySet
<1>4. \E f \in [1..Cardinality(claimed) -> claimed] : IsInjective(f)
  BY <1>2 DEF ExistsBijection, Bijection, Injection, IsInjective
<1>5. /\ SetToSeq(claimed) \in [1..Cardinality(claimed) -> claimed]
      /\ IsInjective(SetToSeq(claimed)) BY <1>4 DEF SetToSeq
<1>6. PICK f \in [1..Cardinality(claimed) -> claimed] : f = SetToSeq(claimed) /\ IsInjective(f) BY <1>5
<1>7. PICK n \in Nat : n = Cardinality(claimed) /\ n # 0 BY <1>2, <1>3
<1>8. f \in Seq(Jobs) /\ Len(f) = n /\ DOMAIN f = 1..n BY <1>6, <1>7
<1>9. f # <<>> BY <1>7, <1>8
<1>10. \A i \in 1..n : f[i] \in claimed BY <1>6, <1>7
<1>11. \A i, k \in 1..n : f[i] = f[k] => i = k BY <1>6, <1>8 DEF IsInjective
<1> QED BY <1>6, <1>7, <1>8, <1>9, <1>10, <1>11

LEMMA RestIs ==
  ASSUME NEW S, NEW s \in Seq(S), s # <<>>
  PROVE  /\ Tail(s) \in Seq(S) /\ Len(Tail(s)) = Len(s) - 1 /\ Len(s) \in Nat /\ Len(s) > 0
         /\ \A i \in 1..(Len(s) - 1) : Tail(s)[i] = s[i + 1] OBVIOUS

\* The job in hand.
LEMMA HandIs ==
  ASSUME JobTypes, SweepOK, worker.sweep
  PROVE  /\ worker.todo \in Seq(Jobs) /\ worker.todo # <<>> /\ Len(worker.todo) \in Nat /\ Len(worker.todo) > 0
         /\ Hand = worker.todo[1] /\ Hand \in Jobs /\ jobs[Hand].status = "claimed"
<1>1. worker.todo \in Seq(Jobs) /\ worker.todo # <<>> BY DEF JobTypes, Workers, SweepOK
<1>2. PICK s \in Seq(Jobs) : s = worker.todo /\ s # <<>> BY <1>1
<1>3. Len(s) \in Nat /\ Len(s) > 0 /\ Head(s) = s[1] /\ s[1] \in Jobs BY <1>2
<1>4. jobs[s[1]].status = "claimed" BY <1>2, <1>3 DEF SweepOK
<1> QED BY <1>2, <1>3, <1>4 DEF Hand

\* The worker goes on to the next job and leaves the others as they are.
LEMMA HandIsLeft ==
  ASSUME JobTypes, SweepOK, worker.sweep, NEW b \in BOOLEAN,
         worker' = NextJob([worker EXCEPT !.limit = b]), jobs' \in [Jobs -> JobRecords],
         \A j \in Jobs \ {Hand} : jobs'[j] = jobs[j]
  PROVE  worker' \in Workers /\ SweepOK' /\ (worker'.sweep => worker'.at = "between")
<1>1. PICK s \in Seq(Jobs) : s = worker.todo /\ s # <<>> /\ Hand = s[1] BY HandIs
<1>2. Len(s) \in Nat /\ Len(s) > 0 /\ Len(s) <= ClaimLimit BY <1>1 DEF SweepOK
<1>a. PICK w \in Workers : w = [worker EXCEPT !.limit = b] /\ w.todo = s /\ w.sweep
  <2>1. PICK v \in Workers : v = worker /\ v.todo = s /\ v.sweep BY <1>1 DEF JobTypes
  <2>2. [v EXCEPT !.limit = b] \in Workers BY <2>1 DEF Workers
  <2>3. [v EXCEPT !.limit = b].todo = s /\ [v EXCEPT !.limit = b].sweep
    <3>1. v.sweep = TRUE BY <2>1 DEF Workers
    <3>2. [v EXCEPT !.limit = b].sweep = TRUE /\ [v EXCEPT !.limit = b].todo = v.todo BY <3>1, <2>1 DEF Workers
    <3> QED BY <3>2, <2>1
  <2> QED BY <2>1, <2>2, <2>3
<1>3. CASE Len(s) = 1
  <2>1. worker' = Nothing BY <1>3, <1>a DEF NextJob
  <2>2. Nothing \in Workers BY JobsBounds DEF Nothing, Workers, Places
  <2>3. worker'.todo = <<>> /\ ~worker'.sweep
    <3>1. Nothing.todo = <<>> /\ Nothing.sweep = FALSE BY DEF Nothing
    <3> QED BY <3>1, <2>1
  <2>4. SweepOK'
    <3>1. Len(<<>>) = 0 /\ 0 <= ClaimLimit /\ 1..0 = {} BY JobsBounds
    <3>2. Len(worker'.todo) <= ClaimLimit /\ 1..Len(worker'.todo) = {} BY <3>1, <2>3
    <3> QED BY <2>1, <2>3, <3>2 DEF SweepOK
  <2> QED BY <2>1, <2>2, <2>3, <2>4
<1>4. CASE Len(s) # 1
  <2>1. worker' = [w EXCEPT !.todo = Tail(@), !.at = "between", !.left = 0] BY <1>4, <1>a DEF NextJob
  <2>2. PICK t \in Seq(Jobs) : t = Tail(s) /\ Len(t) = Len(s) - 1 /\ \A i \in 1..Len(t) : t[i] = s[i + 1]
    <3>1. /\ Tail(s) \in Seq(Jobs) /\ Len(Tail(s)) = Len(s) - 1
          /\ \A i \in 1..(Len(s) - 1) : Tail(s)[i] = s[i + 1] BY <1>1, RestIs
    <3> QED BY <3>1, Zenon
  <2>3. /\ worker'.todo = t /\ worker'.sweep /\ worker'.at = "between" /\ worker' \in Workers
    <3>1. worker' = [w EXCEPT !.todo = t, !.at = "between", !.left = 0] BY <2>1, <2>2, <1>a
    <3>2. 0 \in 0..MaxProposals /\ "between" \in Places BY JobsBounds DEF Places
    <3>3. worker' \in Workers BY <3>1, <3>2 DEF Workers
    <3>4. worker'.todo = t /\ worker'.at = "between" /\ worker'.sweep = TRUE
      <4>1. w.sweep = TRUE BY <1>a DEF Workers
      <4> QED BY <3>1, <4>1 DEF Workers
    <3> QED BY <3>3, <3>4
  <2>4. t # <<>> /\ Len(t) <= ClaimLimit
    <3>1. Len(t) \in Nat /\ Len(t) # 0 BY <2>2, <1>2, <1>4
    <3>2. t # <<>> BY <3>1
    <3> QED BY <2>2, <3>2, <1>2, JobsBounds
  <2>5. \A i, k \in 1..Len(s) : s[i] = s[k] => i = k BY <1>1 DEF SweepOK
  <2>6. \A i, k \in 1..Len(t) : t[i] = t[k] => i = k BY <2>5, <2>2, <1>2
  <2>7. \A i \in 1..Len(t) : t[i] \in Jobs \ {Hand} /\ jobs[t[i]].status = "claimed"
    <3> SUFFICES ASSUME NEW i \in 1..Len(t) PROVE t[i] \in Jobs \ {Hand} /\ jobs[t[i]].status = "claimed" OBVIOUS
    <3>1. i + 1 \in 1..Len(s) /\ t[i] = s[i + 1] /\ i + 1 # 1 /\ 1 \in 1..Len(s) BY <2>2, <1>2
    <3>2. s[i + 1] # s[1] BY <3>1, <2>5
    <3>3. jobs[s[i + 1]].status = "claimed" BY <3>1, <1>1 DEF SweepOK
    <3> QED BY <3>1, <3>2, <3>3, <1>1
  <2>8. \A i \in 1..Len(t) : jobs'[t[i]].status = "claimed" BY <2>7
  <2>9. SweepOK'
    <3>1. worker'.todo # <<>> /\ Len(worker'.todo) <= ClaimLimit BY <2>3, <2>4
    <3>2. \A i, k \in 1..Len(worker'.todo) : worker'.todo[i] = worker'.todo[k] => i = k BY <2>3, <2>6
    <3>3. \A i \in 1..Len(worker'.todo) : jobs'[worker'.todo[i]].status = "claimed" BY <2>3, <2>8
    <3> QED BY <2>3, <3>1, <3>2, <3>3 DEF SweepOK
  <2> QED BY <2>3, <2>9
<1> QED BY <1>3, <1>4

LEMMA JobsStart == JobsInit => JobsInv
<1> SUFFICES ASSUME JobsInit PROVE JobsInv OBVIOUS
<1>1. JobTypes
  <2>1. 0 \in 0..Reach /\ 0 \in 0..MaxProposals /\ 0 \in 0..MaxAttempts /\ 0 \in 0..MaxJobFaults /\ 0 \in Nat
    BY JobsBounds
  <2>2. worker \in Workers BY <2>1 DEF JobsInit, Workers, Nothing, Places
  <2>3. ASSUME NEW j \in Jobs PROVE jobs[j] \in JobRecords
    <3>1. jobs[j] \in [kind: JobKinds, status: {"pending"}, attempts: {0}, failures: {0},
                        live: {TRUE}, supported: 0..MaxProposals] BY DEF JobsInit
    <3> QED BY <3>1, <2>1 DEF JobRecords
  <2>4. jobs \in [Jobs -> JobRecords] BY <2>3 DEF JobsInit
  <2> QED BY <2>1, <2>2, <2>4 DEF JobsInit, JobTypes
<1>2. SweepOK BY JobsBounds DEF JobsInit, SweepOK, Nothing
<1>3. \A j \in Jobs : JobOK(j)
  <2> SUFFICES ASSUME NEW j \in Jobs PROVE JobOK(j) OBVIOUS
  <2>1. jobs[j].status = "pending" /\ jobs[j].failures = 0 BY DEF JobsInit
  <2> QED BY <2>1 DEF JobsInit, JobOK
<1> QED BY <1>1, <1>2, <1>3 DEF JobsInv, JobsInit, Nothing

LEMMA ClaimKeeps ==
  ASSUME JobsInv, NEW claimed \in SUBSET Jobs, ClaimJobs(claimed)
  PROVE  JobsInv'
<1> USE DEF JobsInv
<1>0. JobTypes OBVIOUS
<1>1. PICK s \in Seq(Jobs) : /\ s = SetToSeq(claimed) /\ s # <<>> /\ Len(s) = Cardinality(claimed)
                             /\ \A i \in 1..Len(s) : s[i] \in claimed
                             /\ \A i, k \in 1..Len(s) : s[i] = s[k] => i = k BY ClaimedInOrder DEF ClaimJobs
<1>2. /\ worker'.todo = s /\ worker'.sweep /\ worker'.at = "between" /\ worker' \in Workers
  <2>1. worker' = [Nothing EXCEPT !.sweep = TRUE, !.todo = s] BY <1>1 DEF ClaimJobs
  <2>2. 0 \in 0..Reach /\ 0 \in 0..MaxProposals BY JobsBounds
  <2>3. worker' = [sweep |-> TRUE, todo |-> s, at |-> "between", prior |-> 0, left |-> 0, limit |-> FALSE]
    BY <2>1 DEF Nothing
  <2> QED BY <2>2, <2>3 DEF Workers, Places
<1>3. \A n \in Nat : Capped(n) \in 0..Reach BY JobsBounds DEF Capped, Reach
<1>4. \A j \in Jobs : jobs'[j] = IF j \in claimed THEN [jobs[j] EXCEPT !.status = "claimed", !.attempts = Capped(@ + 1)]
                                 ELSE jobs[j] BY DEF ClaimJobs
<1>5. \A j \in Jobs : /\ jobs'[j] \in JobRecords /\ (j \in claimed => jobs'[j].status = "claimed")
                      /\ (j \notin claimed => jobs'[j] = jobs[j])
                      /\ jobs'[j].failures = jobs[j].failures /\ jobs'[j].kind = jobs[j].kind
                      /\ jobs'[j].live = jobs[j].live /\ jobs'[j].supported = jobs[j].supported
  <2> SUFFICES ASSUME NEW j \in Jobs
               PROVE  /\ jobs'[j] \in JobRecords /\ (j \in claimed => jobs'[j].status = "claimed")
                      /\ (j \notin claimed => jobs'[j] = jobs[j])
                      /\ jobs'[j].failures = jobs[j].failures /\ jobs'[j].kind = jobs[j].kind
                      /\ jobs'[j].live = jobs[j].live /\ jobs'[j].supported = jobs[j].supported OBVIOUS
  <2>1. PICK q \in JobRecords : q = jobs[j] BY DEF JobTypes
  <2>2. PICK n \in 0..Reach : n = Capped(q.attempts + 1)
    <3>1. q.attempts + 1 \in Nat BY <2>1, JobsBounds DEF JobRecords
    <3> QED BY <3>1, <1>3
  <2>3. jobs'[j] = IF j \in claimed THEN [q EXCEPT !.status = "claimed", !.attempts = n] ELSE q BY <1>4, <2>1, <2>2
  <2>4. CASE j \in claimed
    <3>1. PICK z \in JobRecords : z = [q EXCEPT !.status = "claimed", !.attempts = n] BY DEF JobRecords
    <3>2. /\ z.status = "claimed" /\ z.failures = q.failures /\ z.kind = q.kind
          /\ z.live = q.live /\ z.supported = q.supported BY <3>1 DEF JobRecords
    <3>3. jobs'[j] = z BY <2>3, <2>4, <3>1
    <3> QED BY <2>1, <2>4, <3>2, <3>3
  <2>5. CASE j \notin claimed
    <3>1. jobs'[j] = q BY <2>3, <2>5
    <3> QED BY <2>1, <2>5, <3>1
  <2> QED BY <2>4, <2>5
<1>6. jobs' \in [Jobs -> JobRecords] BY <1>5 DEF ClaimJobs
<1>7. JobTypes' BY <1>2, <1>6 DEF JobTypes, ClaimJobs
<1>8. SweepOK'
  <2>1. Len(s) <= ClaimLimit BY <1>1 DEF ClaimJobs
  <2>2. \A i \in 1..Len(s) : jobs'[s[i]].status = "claimed" BY <1>1, <1>5
  <2>3. worker'.todo # <<>> /\ worker'.todo = s /\ worker'.sweep BY <1>1, <1>2
  <2> QED BY <1>1, <2>1, <2>2, <2>3 DEF SweepOK
<1>9. ASSUME NEW j \in Jobs PROVE JobOK(j)'
  <2>1. JobOK(j) /\ said' = said /\ genuine' = genuine /\ store' = store BY DEF ClaimJobs
  <2> QED BY <2>1, <1>5, <1>9 DEF JobOK
<1> QED BY <1>2, <1>7, <1>8, <1>9

\* A step of the worker on its job.
LEMMA HandMoves ==
  ASSUME JobsInv, Working, NEW a \in Places \ {"between"}, NEW m \in 0..MaxProposals,
         worker' = [worker EXCEPT !.at = a, !.left = m], jobs' = jobs,
         UNCHANGED <<store, limited, genuine, jobFaults>>, said' \in [Jobs -> 0..MaxProposals],
         \A j \in Jobs : said'[j] >= said[j],
         a = "propose" => m > 0 /\ said'[Hand] + m >= jobs[Hand].supported,
         a = "complete" /\ jobs[Hand].live => said'[Hand] >= jobs[Hand].supported
  PROVE  JobsInv'
<1> USE DEF JobsInv
<1>1. JobTypes /\ SweepOK /\ worker.sweep /\ worker.at # "between" /\ HandOK(Hand) BY DEF Working
<1>2. PICK j \in Jobs : j = Hand BY <1>1, HandIs
<1>3. /\ worker' \in Workers /\ worker'.sweep /\ worker'.todo = worker.todo /\ worker'.at = a
      /\ worker'.left = m /\ worker'.prior = worker.prior BY <1>1 DEF JobTypes, Workers
<1>4. JobTypes' BY <1>1, <1>3 DEF JobTypes
<1>5. SweepOK' BY <1>1, <1>3 DEF SweepOK
<1>6. Hand' = j BY <1>2, <1>3 DEF Hand
<1>7. HandOK(j)' BY <1>1, <1>2, <1>3 DEF HandOK
<1>8. ASSUME NEW i \in Jobs PROVE JobOK(i)'
  <2>1. JobOK(i) /\ said'[i] >= said[i] /\ said[i] \in Nat /\ said'[i] \in Nat /\ jobs[i].supported \in Nat
    BY <1>1, <1>8, JobsBounds DEF JobTypes, JobRecords
  <2> QED BY <2>1 DEF JobOK
<1> QED BY <1>4, <1>5, <1>6, <1>7, <1>8

LEMMA TakeKeeps == ASSUME JobsInv, Take PROVE JobsInv'
<1> USE DEF JobsInv
<1>1. JobTypes /\ SweepOK /\ worker.sweep BY DEF Take
<1>2. PICK j \in Jobs : j = Hand BY <1>1, HandIs
<1>3. PICK q \in JobRecords : q = jobs[j] BY <1>1 DEF JobTypes
<1>4. Prior(j) \in 0..Reach /\ (store = "errors" => Prior(j) = q.failures)
  <2>1. limited[j] \in Nat /\ q.attempts \in 0..Reach /\ q.failures \in 0..MaxAttempts
    BY <1>1, <1>3 DEF JobTypes, JobRecords
  <2> QED BY <2>1, <1>3, JobsBounds DEF Prior, AtLeastZero
<1>5. PICK p \in 0..Reach : p = Prior(j) BY <1>4
<1>6. worker' = [worker EXCEPT !.at = "event", !.prior = p] BY <1>2, <1>5 DEF Take
<1>7. /\ worker' \in Workers /\ worker'.sweep /\ worker'.todo = worker.todo /\ worker'.at = "event" /\ worker'.prior = p
  BY <1>1, <1>6 DEF JobTypes, Workers, Places
<1>8. JobTypes' BY <1>1, <1>7 DEF JobTypes, Take
<1>9. SweepOK' BY <1>1, <1>7 DEF SweepOK, Take
<1>10. Hand' = j BY <1>2, <1>7 DEF Hand
<1>11. HandOK(j)' BY <1>3, <1>4, <1>5, <1>7 DEF HandOK, Take
<1>12. \A i \in Jobs : JobOK(i)' BY DEF JobOK, Take
<1> QED BY <1>8, <1>9, <1>10, <1>11, <1>12

LEMMA GetEventKeeps == ASSUME JobsInv, GetEvent PROVE JobsInv'
<1> USE DEF JobsInv
<1>1. JobTypes /\ SweepOK /\ worker.sweep /\ Working BY DEF GetEvent, Working
<1>2. PICK j \in Jobs : j = Hand BY <1>1, HandIs
<1>3. PICK a \in Places \ {"between"} : /\ a = IF jobs[Hand].kind = "skipped" \/ ~jobs[Hand].live THEN "complete" ELSE "extract"
                                       /\ worker' = [worker EXCEPT !.at = a] BY DEF GetEvent, Places
<1>4. PICK m \in 0..MaxProposals : m = worker.left BY <1>1 DEF JobTypes, Workers
<1>5. worker' = [worker EXCEPT !.at = a, !.left = m] BY <1>1, <1>3, <1>4 DEF JobTypes, Workers
<1>6. JobOK(j) /\ said[j] \in Nat BY <1>1 DEF JobTypes
<1>7. a = "complete" /\ jobs[Hand].live => said[Hand] >= jobs[Hand].supported BY <1>2, <1>3, <1>6 DEF JobOK
<1>8. /\ said' \in [Jobs -> 0..MaxProposals] /\ \A i \in Jobs : said'[i] >= said[i]
      /\ said' = said /\ jobs' = jobs /\ UNCHANGED <<store, limited, genuine, jobFaults>>
  <2>1. said' = said /\ jobs' = jobs /\ UNCHANGED <<store, limited, genuine, jobFaults>> BY DEF GetEvent
  <2>2. \A i \in Jobs : said[i] \in Nat BY <1>1 DEF JobTypes
  <2> QED BY <1>1, <2>1, <2>2 DEF JobTypes
<1> QED BY <1>1, <1>3, <1>5, <1>7, <1>8, HandMoves

LEMMA ExtractKeeps == ASSUME JobsInv, Extract PROVE JobsInv'
<1> USE DEF JobsInv
<1>1. JobTypes /\ SweepOK /\ worker.sweep /\ Working BY DEF Extract, Working
<1>2. PICK j \in Jobs : j = Hand BY <1>1, HandIs
<1>4. PICK m \in 0..MaxProposals : m = jobs[Hand].supported BY <1>1, <1>2 DEF JobTypes, JobRecords
<1>3. PICK a \in Places \ {"between"} : a = IF m = 0 THEN "complete" ELSE "propose" BY DEF Places
<1>5. worker' = [worker EXCEPT !.at = a, !.left = m] BY <1>1, <1>3, <1>4 DEF JobTypes, Workers, Extract
<1>6. said[j] \in Nat /\ m \in Nat BY <1>1, JobsBounds DEF JobTypes
<1>8. /\ said' \in [Jobs -> 0..MaxProposals] /\ \A i \in Jobs : said'[i] >= said[i]
      /\ said' = said /\ jobs' = jobs /\ UNCHANGED <<store, limited, genuine, jobFaults>>
  <2>1. said' = said /\ jobs' = jobs /\ UNCHANGED <<store, limited, genuine, jobFaults>> BY DEF Extract
  <2>2. \A i \in Jobs : said[i] \in Nat BY <1>1 DEF JobTypes
  <2> QED BY <1>1, <2>1, <2>2 DEF JobTypes
<1>9. /\ a = "propose" => m > 0 /\ said'[Hand] + m >= jobs[Hand].supported
      /\ a = "complete" /\ jobs[Hand].live => said'[Hand] >= jobs[Hand].supported BY <1>2, <1>3, <1>4, <1>6, <1>8
<1> QED BY <1>1, <1>5, <1>8, <1>9, HandMoves

LEMMA ProposeNextKeeps == ASSUME JobsInv, ProposeNext PROVE JobsInv'
<1> USE DEF JobsInv
<1>1. /\ JobTypes /\ SweepOK /\ worker.sweep /\ Working /\ worker.at = "propose" /\ HandOK(Hand)
  BY DEF ProposeNext, Working
<1>2. PICK j \in Jobs : j = Hand BY <1>1, HandIs
<1>3. PICK l \in 0..MaxProposals : l = worker.left /\ l > 0 /\ said[j] + l >= jobs[j].supported
  BY <1>1, <1>2 DEF JobTypes, Workers, HandOK
<1>4. PICK m \in 0..MaxProposals : m = l - 1 BY <1>3, JobsBounds
<1>5. PICK a \in Places \ {"between"} : a = IF l = 1 THEN "complete" ELSE "propose" BY DEF Places
<1>6. worker' = [worker EXCEPT !.left = l - 1, !.at = a] BY <1>1, <1>3, <1>5 DEF JobTypes, Workers, ProposeNext
<1>7. worker' = [worker EXCEPT !.at = a, !.left = m] BY <1>1, <1>4, <1>6 DEF JobTypes, Workers
<1>8. PICK v \in 0..MaxProposals : v = (IF said[j] < MaxProposals THEN said[j] + 1 ELSE said[j])
  BY <1>1, JobsBounds DEF JobTypes
<1>9. said' = [said EXCEPT ![j] = v] BY <1>2, <1>8 DEF ProposeNext
<1>10. said \in [Jobs -> 0..MaxProposals] /\ jobs[j].supported \in 0..MaxProposals BY <1>1 DEF JobTypes, JobRecords
<1>11. said' \in [Jobs -> 0..MaxProposals] /\ said'[j] = v /\ \A i \in Jobs \ {j} : said'[i] = said[i] BY <1>9, <1>10
<1>12. \A i \in Jobs : said'[i] >= said[i] BY <1>8, <1>10, <1>11, JobsBounds
<1>13. v + m >= jobs[j].supported BY <1>3, <1>4, <1>8, <1>10, JobsBounds
<1>14. jobs' = jobs /\ UNCHANGED <<store, limited, genuine, jobFaults>> BY DEF ProposeNext
<1>15. /\ a = "propose" => m > 0 /\ said'[Hand] + m >= jobs[Hand].supported
       /\ a = "complete" /\ jobs[Hand].live => said'[Hand] >= jobs[Hand].supported
  BY <1>2, <1>3, <1>4, <1>5, <1>11, <1>13, JobsBounds
<1> QED BY <1>1, <1>7, <1>11, <1>12, <1>14, <1>15, HandMoves

\* The worker is done with a job: it answers the store, or not.
LEMMA LeavingKeeps ==
  ASSUME JobsInv, worker.sweep, NEW b \in BOOLEAN, worker' = NextJob([worker EXCEPT !.limit = b]),
         NEW q \in JobRecords, jobs' = jobs \/ jobs' = [jobs EXCEPT ![Hand] = q],
         q.kind = jobs[Hand].kind, q.live = jobs[Hand].live, q.supported = jobs[Hand].supported,
         UNCHANGED <<store, said>>, limited' \in [Jobs -> Nat], genuine' \in [Jobs -> 0..MaxAttempts],
         jobFaults' \in 0..MaxJobFaults, \A i \in Jobs : genuine'[i] >= genuine[i],
         store = "errors" => q.failures <= genuine'[Hand],
         q.status = "failed" /\ store = "errors" => genuine'[Hand] >= MaxAttempts,
         q.status = "done" /\ q.live => said[Hand] >= q.supported
  PROVE  JobsInv'
<1> USE DEF JobsInv
<1>1. JobTypes /\ SweepOK OBVIOUS
<1>2. PICK j \in Jobs : j = Hand BY <1>1, HandIs
<1>3. jobs' \in [Jobs -> JobRecords] /\ (\A i \in Jobs \ {j} : jobs'[i] = jobs[i]) /\ jobs'[j] \in {jobs[j], q}
  <2>1. jobs \in [Jobs -> JobRecords] BY <1>1 DEF JobTypes
  <2> QED BY <2>1, <1>2
<1>4. worker' \in Workers /\ SweepOK' /\ (worker'.sweep => worker'.at = "between") BY <1>1, <1>2, <1>3, HandIsLeft
<1>5. JobTypes' BY <1>1, <1>3, <1>4 DEF JobTypes
<1>6. ASSUME NEW i \in Jobs PROVE JobOK(i)'
  <2>1. /\ JobOK(i) /\ genuine'[i] \in Nat /\ genuine[i] \in Nat /\ genuine'[i] >= genuine[i]
        /\ jobs[i].failures \in Nat /\ jobs'[i].failures \in Nat /\ MaxAttempts \in Nat
    BY <1>1, <1>3, <1>6, JobsBounds DEF JobTypes, JobRecords
  <2>2. CASE jobs'[i] = jobs[i] BY <2>1, <2>2 DEF JobOK
  <2>3. CASE i = j /\ jobs'[i] = q BY <2>1, <2>3, <1>2 DEF JobOK
  <2> QED BY <1>3, <1>6, <2>2, <2>3
<1> QED BY <1>4, <1>5, <1>6

\* What fail_job leaves of a job.
LEMMA FailedBackIs ==
  ASSUME jobs \in [Jobs -> JobRecords], NEW j \in Jobs, NEW n \in 0..MaxAttempts, NEW retry \in BOOLEAN
  PROVE  \E q \in JobRecords :
           /\ FailedBack(j, n, retry) = [jobs EXCEPT ![j] = q] /\ q.failures = n
           /\ q.status = (IF retry THEN "pending" ELSE "failed")
           /\ q.kind = jobs[j].kind /\ q.live = jobs[j].live /\ q.supported = jobs[j].supported
<1>1. PICK p \in JobRecords : p = jobs[j] OBVIOUS
<1>2. PICK st \in {"pending", "failed"} : st = (IF retry THEN "pending" ELSE "failed") OBVIOUS
<1>3. PICK q \in JobRecords : q = [p EXCEPT !.status = st, !.failures = n] BY DEF JobRecords
<1>4. FailedBack(j, n, retry) = [jobs EXCEPT ![j] = q] BY <1>1, <1>2, <1>3 DEF FailedBack
<1>5. /\ q.failures = n /\ q.status = st /\ q.kind = p.kind /\ q.live = p.live /\ q.supported = p.supported
  BY <1>3 DEF JobRecords
<1> QED BY <1>1, <1>2, <1>4, <1>5

\* What the worker knows of the failures of the job in hand.
LEMMA PriorIs ==
  ASSUME JobsInv, Working
  PROVE  /\ worker.prior \in 0..Reach
         /\ store = "errors" => worker.prior = jobs[Hand].failures
         /\ (IF store = "errors" THEN worker.prior ELSE jobs[Hand].failures) = jobs[Hand].failures
<1>1. JobTypes /\ SweepOK /\ worker.sweep /\ worker.at # "between" /\ HandOK(Hand) BY DEF Working, JobsInv
<1> QED BY <1>1 DEF JobTypes, Workers, HandOK

LEMMA SameLimit ==
  ASSUME JobTypes
  PROVE  worker = [worker EXCEPT !.limit = worker.limit] /\ worker.limit \in BOOLEAN
<1>1. PICK w \in Workers : w = worker BY DEF JobTypes
<1>2. w.limit \in BOOLEAN BY DEF Workers
<1>3. w = [w EXCEPT !.limit = w.limit] BY DEF Workers
<1> QED BY <1>1, <1>2, <1>3

\* The job goes back uncounted, or the store hears nothing.
LEMMA UncountedKeeps ==
  ASSUME JobsInv, worker.sweep, NEW b \in BOOLEAN, worker' = NextJob([worker EXCEPT !.limit = b]),
         jobs' = jobs \/ jobs' = FailedBack(Hand, jobs[Hand].failures, TRUE),
         UNCHANGED <<store, said, genuine>>, limited' \in [Jobs -> Nat], jobFaults' \in 0..MaxJobFaults
  PROVE  JobsInv'
<1>1. JobTypes /\ SweepOK BY DEF JobsInv
<1>2. PICK j \in Jobs : j = Hand BY <1>1, HandIs
<1>3. jobs \in [Jobs -> JobRecords] /\ jobs[j].failures \in 0..MaxAttempts BY <1>1 DEF JobTypes, JobRecords
<1>4. PICK q \in JobRecords :
           /\ FailedBack(j, jobs[j].failures, TRUE) = [jobs EXCEPT ![j] = q] /\ q.failures = jobs[j].failures
           /\ q.status = "pending"
           /\ q.kind = jobs[j].kind /\ q.live = jobs[j].live /\ q.supported = jobs[j].supported
  <2>1. PICK n \in 0..MaxAttempts, yes \in BOOLEAN : n = jobs[j].failures /\ yes = TRUE BY <1>3
  <2>2. PICK q \in JobRecords :
           /\ FailedBack(j, n, yes) = [jobs EXCEPT ![j] = q] /\ q.failures = n
           /\ q.status = (IF yes THEN "pending" ELSE "failed")
           /\ q.kind = jobs[j].kind /\ q.live = jobs[j].live /\ q.supported = jobs[j].supported BY <1>3, FailedBackIs
  <2> QED BY <2>1, <2>2
<1>5. JobOK(j) /\ genuine' = genuine /\ genuine \in [Jobs -> 0..MaxAttempts] /\ store' = store /\ said' = said
  BY <1>1 DEF JobsInv, JobTypes
<1>6. \A i \in Jobs : genuine'[i] >= genuine[i] BY <1>5, JobsBounds
<1>7. store = "errors" => q.failures <= genuine'[Hand] BY <1>2, <1>4, <1>5 DEF JobOK
<1>8. jobs' = jobs \/ jobs' = [jobs EXCEPT ![Hand] = q] BY <1>2, <1>4
<1>9. q.kind = jobs[Hand].kind /\ q.live = jobs[Hand].live /\ q.supported = jobs[Hand].supported BY <1>2, <1>4
<1>10. q.status # "failed" /\ q.status # "done" BY <1>4
<1>11. genuine' \in [Jobs -> 0..MaxAttempts] BY <1>5
<1> QED BY <1>5, <1>6, <1>7, <1>8, <1>9, <1>10, <1>11, LeavingKeeps

\* A count of claims lost to a limit.
LEMMA LimitedIs ==
  ASSUME JobTypes, NEW j \in Jobs
  PROVE  /\ [limited EXCEPT ![j] = @ + 1] \in [Jobs -> Nat] /\ [limited EXCEPT ![j] = 0] \in [Jobs -> Nat]
         /\ limited \in [Jobs -> Nat] BY DEF JobTypes

LEMMA ReleaseKeeps == ASSUME JobsInv, Release PROVE JobsInv'
<1>1. JobTypes /\ SweepOK /\ worker.sweep BY DEF JobsInv, Release
<1>2. PICK j \in Jobs : j = Hand BY <1>1, HandIs
<1>3. limited' \in [Jobs -> Nat] BY <1>1, <1>2, LimitedIs DEF Release
<1>4. (IF store = "errors" THEN Prior(Hand) ELSE jobs[Hand].failures) = jobs[Hand].failures BY DEF Prior
<1>5. jobs' = jobs \/ jobs' = FailedBack(Hand, jobs[Hand].failures, TRUE) BY <1>4 DEF Release, Store
<1>6. jobFaults' \in 0..MaxJobFaults
  <2>1. jobFaults' = jobFaults \/ (jobFaults < MaxJobFaults /\ jobFaults' = jobFaults + 1)
    BY DEF Release, Store, JobFault
  <2> QED BY <2>1, <1>1, JobsBounds DEF JobTypes
<1>7. worker' = NextJob([worker EXCEPT !.limit = worker.limit]) /\ worker.limit \in BOOLEAN
  BY <1>1, SameLimit DEF Release
<1>8. UNCHANGED <<store, said, genuine>> BY DEF Release
<1> QED BY <1>1, <1>3, <1>5, <1>6, <1>7, <1>8, UncountedKeeps

LEMMA HitsLimitKeeps == ASSUME JobsInv, HitsLimit PROVE JobsInv'
<1>1. JobTypes /\ SweepOK /\ worker.sweep /\ Working BY DEF JobsInv, HitsLimit, Working
<1>2. PICK j \in Jobs : j = Hand BY <1>1, HandIs
<1>3. limited' \in [Jobs -> Nat] BY <1>1, <1>2, LimitedIs DEF HitsLimit
<1>5. jobs' = FailedBack(Hand, jobs[Hand].failures, TRUE) BY <1>1, PriorIs DEF HitsLimit
<1>6. jobFaults' \in 0..MaxJobFaults BY <1>1, JobsBounds DEF HitsLimit, JobFault, JobTypes
<1>7. worker' = NextJob([worker EXCEPT !.limit = TRUE]) /\ UNCHANGED <<store, said, genuine>> BY DEF HitsLimit
<1> QED BY <1>1, <1>3, <1>5, <1>6, <1>7, UncountedKeeps

LEMMA StoreAwayKeeps == ASSUME JobsInv, StoreAway PROVE JobsInv'
<1>1. JobTypes /\ SweepOK /\ worker.sweep /\ Working BY DEF JobsInv, StoreAway, Working
<1>3. limited' \in [Jobs -> Nat] BY <1>1 DEF StoreAway, JobTypes
<1>5. jobs' = jobs \/ jobs' = FailedBack(Hand, jobs[Hand].failures, TRUE) BY <1>1, PriorIs DEF StoreAway
<1>6. jobFaults' \in 0..MaxJobFaults BY <1>1, JobsBounds DEF StoreAway, JobFault, JobTypes
<1>7. worker' = NextJob([worker EXCEPT !.limit = worker.limit]) /\ worker.limit \in BOOLEAN
  BY <1>1, SameLimit DEF StoreAway
<1>8. UNCHANGED <<store, said, genuine>> BY DEF StoreAway
<1> QED BY <1>1, <1>3, <1>5, <1>6, <1>7, <1>8, UncountedKeeps

LEMMA CompleteKeeps == ASSUME JobsInv, Complete PROVE JobsInv'
<1>1. JobTypes /\ SweepOK /\ worker.sweep /\ worker.at = "complete" /\ HandOK(Hand) BY DEF JobsInv, Complete, Working
<1>2. PICK j \in Jobs : j = Hand BY <1>1, HandIs
<1>3. limited' \in [Jobs -> Nat] BY <1>1, <1>2, LimitedIs DEF Complete
<1>4. PICK p \in JobRecords : p = jobs[j] BY <1>1 DEF JobTypes
<1>5. PICK q \in JobRecords : q = [p EXCEPT !.status = "done"] BY DEF JobRecords
<1>6. jobs' = [jobs EXCEPT ![Hand] = q] BY <1>2, <1>4, <1>5 DEF Complete
<1>7. /\ q.failures = p.failures /\ q.status = "done" /\ q.kind = p.kind /\ q.live = p.live
      /\ q.supported = p.supported BY <1>5 DEF JobRecords
<1>8. JobOK(j) /\ genuine' = genuine /\ store' = store /\ said' = said /\ genuine \in [Jobs -> 0..MaxAttempts]
      /\ jobFaults' \in 0..MaxJobFaults BY <1>1 DEF JobsInv, JobTypes, Complete
<1>9. \A i \in Jobs : genuine'[i] >= genuine[i] BY <1>8, JobsBounds
<1>10. store = "errors" => q.failures <= genuine'[Hand] BY <1>2, <1>4, <1>7, <1>8 DEF JobOK
<1>11. q.status = "done" /\ q.live => said[Hand] >= q.supported BY <1>1, <1>2, <1>4, <1>7 DEF HandOK
<1>12. worker' = NextJob([worker EXCEPT !.limit = worker.limit]) /\ worker.limit \in BOOLEAN
  BY <1>1, SameLimit DEF Complete
<1>13. genuine' \in [Jobs -> 0..MaxAttempts] /\ UNCHANGED <<store, said>> BY <1>8
<1>14. q.kind = jobs[Hand].kind /\ q.live = jobs[Hand].live /\ q.supported = jobs[Hand].supported BY <1>2, <1>4, <1>7
<1>15. q.status # "failed" BY <1>7
<1> QED BY <1>1, <1>3, <1>6, <1>8, <1>9, <1>10, <1>11, <1>12, <1>13, <1>14, <1>15, LeavingKeeps

LEMMA JobFailsKeeps == ASSUME JobsInv, JobFails PROVE JobsInv'
<1>1. JobTypes /\ SweepOK /\ worker.sweep /\ Working BY DEF JobsInv, JobFails, Working
<1>2. PICK j \in Jobs : j = Hand BY <1>1, HandIs
<1>3. limited' \in [Jobs -> Nat] BY <1>1, <1>2, LimitedIs DEF JobFails
<1>4. PICK c \in Nat : c = CountedFailures BY <1>1, PriorIs, JobsBounds DEF CountedFailures
<1>5. PICK n \in 0..MaxAttempts : n = (IF c > MaxAttempts THEN MaxAttempts ELSE c) BY <1>4, JobsBounds
<1>6. PICK retry \in BOOLEAN : retry = ~Final(c) OBVIOUS
<1>7. jobs \in [Jobs -> JobRecords] BY <1>1 DEF JobTypes
<1>8. PICK q \in JobRecords :
           /\ FailedBack(j, n, retry) = [jobs EXCEPT ![j] = q] /\ q.failures = n
           /\ q.status = (IF retry THEN "pending" ELSE "failed")
           /\ q.kind = jobs[j].kind /\ q.live = jobs[j].live /\ q.supported = jobs[j].supported BY <1>7, FailedBackIs
<1>9. jobs' = jobs \/ jobs' = [jobs EXCEPT ![Hand] = q] BY <1>2, <1>4, <1>5, <1>6, <1>8 DEF JobFails, Store
<1>10. PICK g \in 0..MaxAttempts : g = (IF genuine[j] < MaxAttempts THEN genuine[j] + 1 ELSE genuine[j])
  BY <1>1, JobsBounds DEF JobTypes
<1>11. genuine' = [genuine EXCEPT ![j] = g] BY <1>2, <1>10 DEF JobFails
<1>12. genuine \in [Jobs -> 0..MaxAttempts] /\ genuine[j] \in Nat /\ jobs[j].failures \in Nat
  BY <1>1, <1>7, JobsBounds DEF JobTypes, JobRecords
<1>13. genuine' \in [Jobs -> 0..MaxAttempts] /\ genuine'[j] = g /\ \A i \in Jobs \ {j} : genuine'[i] = genuine[i]
  BY <1>11, <1>12
<1>14. \A i \in Jobs : genuine'[i] >= genuine[i] BY <1>10, <1>12, <1>13, JobsBounds
<1>15. store = "errors" => c = jobs[j].failures + 1 /\ jobs[j].failures <= genuine[j]
  BY <1>1, <1>2, <1>4, PriorIs DEF CountedFailures, JobOK, JobsInv
<1>16. store = "errors" => q.failures <= genuine'[Hand] BY <1>2, <1>5, <1>8, <1>10, <1>12, <1>13, <1>15, JobsBounds
<1>17. q.status = "failed" => c >= MaxAttempts BY <1>6, <1>8 DEF Final
<1>18. q.status = "failed" /\ store = "errors" => genuine'[Hand] >= MaxAttempts
  BY <1>2, <1>10, <1>12, <1>13, <1>15, <1>17, JobsBounds
<1>19. worker' = NextJob([worker EXCEPT !.limit = worker.limit]) /\ worker.limit \in BOOLEAN
  BY <1>1, SameLimit DEF JobFails
<1>20. q.kind = jobs[Hand].kind /\ q.live = jobs[Hand].live /\ q.supported = jobs[Hand].supported BY <1>2, <1>8
<1>21. q.status # "done" BY <1>8
<1>22. jobFaults' \in 0..MaxJobFaults /\ UNCHANGED <<store, said>>
  BY <1>1, JobsBounds DEF JobFails, Store, JobFault, JobTypes
<1> QED BY <1>1, <1>3, <1>9, <1>13, <1>14, <1>16, <1>18, <1>19, <1>20, <1>21, <1>22, LeavingKeeps

\* Outside the worker: one job changes, and not what the worker knows of it.
LEMMA OutsideKeeps ==
  ASSUME JobsInv, NEW j \in Jobs, NEW q \in JobRecords, jobs' = [jobs EXCEPT ![j] = q],
         UNCHANGED <<store, worker, limited, said, genuine>>, jobFaults' \in 0..MaxJobFaults,
         q.failures = jobs[j].failures, q.kind = jobs[j].kind, q.supported = jobs[j].supported,
         q.live => jobs[j].live, q.status \in {jobs[j].status, "pending"},
         q.status = jobs[j].status \/ \A i \in 1..Len(worker.todo) : worker.todo[i] # j
  PROVE  JobsInv'
<1> USE DEF JobsInv
<1>1. JobTypes /\ SweepOK OBVIOUS
<1>2. jobs' \in [Jobs -> JobRecords] /\ jobs'[j] = q /\ \A i \in Jobs \ {j} : jobs'[i] = jobs[i] BY <1>1 DEF JobTypes
<1>3. JobTypes' BY <1>1, <1>2 DEF JobTypes
<1>4. \A i \in Jobs : /\ jobs'[i].failures = jobs[i].failures /\ jobs'[i].supported = jobs[i].supported
                      /\ jobs'[i].kind = jobs[i].kind /\ (jobs'[i].live => jobs[i].live)
                      /\ jobs'[i].status \in {jobs[i].status, "pending"} BY <1>2
<1>5. \A i \in Jobs : JobOK(i)'
  <2> SUFFICES ASSUME NEW i \in Jobs PROVE JobOK(i)' OBVIOUS
  <2>1. JobOK(i) /\ store' = store /\ said' = said /\ genuine' = genuine OBVIOUS
  <2> QED BY <2>1, <1>4 DEF JobOK
<1>6. worker.todo \in Seq(Jobs) BY <1>1 DEF JobTypes, Workers
<1>7. SweepOK'
  <2>1. ASSUME NEW i \in 1..Len(worker.todo) PROVE jobs'[worker.todo[i]].status = "claimed"
    <3>1. PICK n \in Jobs : n = worker.todo[i] BY <1>6
    <3>2. jobs[n].status = "claimed" BY <1>1, <3>1 DEF SweepOK
    <3> QED BY <1>2, <3>1, <3>2
  <2>2. worker' = worker OBVIOUS
  <2> QED BY <1>1, <2>1, <2>2 DEF SweepOK
<1>8. ASSUME worker'.sweep /\ worker'.at # "between" PROVE HandOK(Hand)'
  <2>1. worker' = worker /\ worker.sweep /\ worker.at # "between" /\ HandOK(Hand) /\ Hand' = Hand BY <1>8 DEF Hand
  <2>2. PICK i \in Jobs : i = Hand BY <1>1, <2>1, HandIs
  <2>3. HandOK(i)' BY <1>4, <2>1, <2>2 DEF HandOK
  <2> QED BY <2>1, <2>2, <2>3
<1> QED BY <1>3, <1>5, <1>7, <1>8

LEMMA RetractKeeps == ASSUME JobsInv, NEW j \in Jobs, Retract(j) PROVE JobsInv'
<1>1. JobTypes BY DEF JobsInv
<1>2. PICK p \in JobRecords : p = jobs[j] BY <1>1 DEF JobTypes
<1>3. PICK q \in JobRecords : q = [p EXCEPT !.live = FALSE] BY DEF JobRecords
<1>4. jobs' = [jobs EXCEPT ![j] = q] BY <1>2, <1>3 DEF Retract
<1>5. q.failures = p.failures /\ q.status = p.status /\ q.kind = p.kind /\ q.supported = p.supported /\ q.live = FALSE
  BY <1>3 DEF JobRecords
<1>6. jobFaults' \in 0..MaxJobFaults /\ UNCHANGED <<store, worker, limited, said, genuine>>
  BY <1>1, JobsBounds DEF Retract, JobFault, JobTypes
<1>7. q.failures = jobs[j].failures /\ q.kind = jobs[j].kind /\ q.supported = jobs[j].supported /\ q.status = jobs[j].status
  BY <1>2, <1>5
<1> QED BY <1>4, <1>5, <1>6, <1>7, OutsideKeeps

LEMMA LeaseExpiresKeeps == ASSUME JobsInv, NEW j \in Jobs, LeaseExpires(j) PROVE JobsInv'
<1>1. JobTypes BY DEF JobsInv
<1>2. PICK p \in JobRecords : p = jobs[j] BY <1>1 DEF JobTypes
<1>3. PICK q \in JobRecords : q = [p EXCEPT !.status = "pending"] BY DEF JobRecords
<1>4. jobs' = [jobs EXCEPT ![j] = q] BY <1>2, <1>3 DEF LeaseExpires
<1>5. q.failures = p.failures /\ q.status = "pending" /\ q.kind = p.kind /\ q.supported = p.supported /\ q.live = p.live
  BY <1>3 DEF JobRecords
<1>6. jobFaults' \in 0..MaxJobFaults /\ UNCHANGED <<store, worker, limited, said, genuine>>
  BY <1>1 DEF LeaseExpires, JobTypes
<1>7. q.failures = jobs[j].failures /\ q.kind = jobs[j].kind /\ q.supported = jobs[j].supported /\ (q.live => jobs[j].live)
  BY <1>2, <1>5
<1>8. worker.todo \in Seq(Jobs) BY <1>1 DEF JobTypes, Workers
<1>9. \A i \in 1..Len(worker.todo) : worker.todo[i] # j BY <1>8 DEF LeaseExpires
<1> QED BY <1>4, <1>5, <1>6, <1>7, <1>9, OutsideKeeps

LEMMA WorkerRestartsKeeps == ASSUME JobsInv, WorkerRestarts PROVE JobsInv'
<1> USE DEF JobsInv
<1>1. JobTypes /\ worker' = Nothing /\ jobs' = jobs /\ said' = said /\ genuine' = genuine /\ store' = store
  BY DEF WorkerRestarts
<1>2. Nothing.sweep = FALSE /\ Nothing.todo = <<>> /\ Len(<<>>) = 0 /\ 1..0 = {} /\ 0 <= ClaimLimit
  BY JobsBounds DEF Nothing
<1>3. worker' \in Workers
  <2>1. 0 \in 0..Reach /\ 0 \in 0..MaxProposals BY JobsBounds
  <2> QED BY <1>1, <2>1 DEF Nothing, Workers, Places
<1>4. limited' \in [Jobs -> Nat] /\ jobFaults' \in 0..MaxJobFaults
  BY <1>1, JobsBounds DEF WorkerRestarts, JobFault, JobTypes
<1>5. JobTypes' BY <1>1, <1>3, <1>4 DEF JobTypes
<1>6. worker'.sweep = FALSE /\ Len(worker'.todo) = 0 BY <1>1, <1>2
<1>7. SweepOK' BY <1>1, <1>2, <1>6 DEF SweepOK
<1>8. ASSUME NEW j \in Jobs PROVE JobOK(j)'
  <2>1. JobOK(j) OBVIOUS
  <2> QED BY <1>1, <2>1 DEF JobOK
<1> QED BY <1>5, <1>6, <1>7, <1>8

LEMMA JobsStep == JobsInv /\ [JobsNext]_jobVars => JobsInv'
<1> SUFFICES ASSUME JobsInv, [JobsNext]_jobVars PROVE JobsInv' OBVIOUS
<1>1. ASSUME NEW claimed \in SUBSET Jobs, ClaimJobs(claimed) PROVE JobsInv' BY <1>1, ClaimKeeps
<1>2. ASSUME NEW j \in Jobs, Retract(j) \/ LeaseExpires(j) PROVE JobsInv' BY <1>2, RetractKeeps, LeaseExpiresKeeps
<1>3. CASE UNCHANGED jobVars
  <2>1. UNCHANGED <<store, jobs, worker, limited, said, genuine, jobFaults>> BY <1>3 DEF jobVars
  <2>2. JobTypes' /\ SweepOK' BY <2>1 DEF JobsInv, JobTypes, SweepOK
  <2>3. HandOK(Hand)' = HandOK(Hand) /\ Hand' = Hand BY <2>1 DEF HandOK, Hand
  <2>4. \A j \in Jobs : JobOK(j)' BY <2>1 DEF JobsInv, JobOK
  <2> QED BY <2>1, <2>2, <2>3, <2>4 DEF JobsInv
<1>4. CASE Take \/ Release \/ GetEvent \/ Extract \/ ProposeNext \/ Complete \/ HitsLimit \/ StoreAway \/ JobFails
  BY <1>4, TakeKeeps, ReleaseKeeps, GetEventKeeps, ExtractKeeps, ProposeNextKeeps, CompleteKeeps, HitsLimitKeeps,
     StoreAwayKeeps, JobFailsKeeps
<1>5. CASE WorkerRestarts BY <1>5, WorkerRestartsKeeps
<1> QED BY <1>1, <1>2, <1>3, <1>4, <1>5 DEF JobsNext, WorkerStep

LEMMA JobsFollow == JobsInv => JobsTypeOK /\ JobsAreAccounted
<1> SUFFICES ASSUME JobsInv PROVE JobsTypeOK /\ JobsAreAccounted OBVIOUS
<1>1. JobTypes /\ SweepOK /\ \A j \in Jobs : JobOK(j) BY DEF JobsInv
<1>2. \A j \in Jobs : jobs[j] \in JobRecords BY <1>1 DEF JobTypes
<1>3. JobsTypeOK BY <1>1, <1>2 DEF JobTypes, JobRecords, Workers, SweepOK, JobsTypeOK, Reach
<1>4. JobsAreAccounted BY <1>1 DEF JobOK, JobsAreAccounted
<1> QED BY <1>3, <1>4

------------------------
(* A recall on its way (RecallDelivery).                                   *)
(*                                                                         *)
(* RecallInv says what the marker's number may name at each point of a     *)
(* turn, and what the model was told or is being told: nothing twice and   *)
(* nothing through two hooks, a prompt's recall in its own turn and        *)
(* context, and a recall that was told once is never again one that a hook *)
(* may claim.                                                              *)

JobStates == {"none", "running", "found", "empty", "delivered"}
RecallJobs == [seq : NoMarker..MaxTurns, turn : 0..MaxTurns, context : 0..MaxOpenings, state : JobStates]
Tales == [job : RecallJobs, turn : 0..MaxTurns, context : 0..MaxOpenings]
HookRecords == [at : {"idle", "read", "answered", "done"}, seq : NoMarker..MaxTurns,
                answer : {"none", "deferred", "pending", "ready", "empty", "delivered", "stale"},
                next : {NoMarker, OpenSeq}, jobs : Seq(RecallJobs), nudged : BOOLEAN]
NudgeRecords == [state : {"none", "asked", "reasked"}, fired : 0..MaxNudges, prompts : 0..MaxTurns,
                 saved : BOOLEAN, compacted : BOOLEAN]
RecallTypes ==
  /\ turn \in 0..MaxTurns /\ context \in 0..MaxOpenings /\ phase \in Phases
  /\ opened \in BOOLEAN /\ recall \in RecallJobs /\ opening \in RecallJobs
  /\ seqs \in 0..MaxTurns /\ marker \in NoMarker..MaxTurns /\ hooks \in [Hooks -> HookRecords]
  /\ nudge \in NudgeRecords /\ shown \in Seq(Tales) /\ faults \in 0..MaxFaults

\* Hooks run in a turn only, and that of the stop alone.
HookOK(h) ==
  /\ hooks[h].at = "idle" => hooks[h] = IdleHook
  /\ hooks[h].at = "done" => hooks[h] = DoneHook
  /\ hooks[h].at = "read" => hooks[h].jobs = << >>
  /\ hooks[h] # IdleHook => phase = "turn"
HooksOK ==
  /\ \A h \in Hooks : HookOK(h)
  /\ hooks[Stop] # IdleHook => \A h \in Tools : hooks[h] = IdleHook

\* Which number and which states the two jobs have.
RecallsOK ==
  /\ recall # NoJob => recall.seq >= 1 /\ recall.state # "none"
  /\ opening # NoJob => opening.seq = OpenSeq /\ opening.state \in {"running", "found", "empty"}
  /\ seqs <= turn /\ opening.context <= context

\* A number that names the prompt's job names one of this turn and this context.
Names(s) == s > 0 /\ recall # NoJob /\ recall.seq = s => recall.turn = turn /\ recall.context = context
MarkersOK ==
  /\ phase = "turn" => Names(marker)
  /\ phase = "compacted" => marker = NoMarker
  /\ \A h \in Hooks : Names(hooks[h].seq)

\* What the model was or is being told.
ToldShown == {shown[i].job : i \in DOMAIN shown}
ToldBy(h) == {hooks[h].jobs[i] : i \in DOMAIN hooks[h].jobs}
TaleOK(t) ==
  /\ t.seq # OpenSeq => recall = NoJob \/ recall.state = "delivered"
  /\ t.seq = OpenSeq /\ opening # NoJob => t.turn # opening.turn \/ t.context # opening.context
  /\ t.context <= context /\ (phase = "compacted" => t.context < context)
Distinct(s) == \A i, k \in DOMAIN s : s[i] = s[k] => i = k
ShownDiffer == \A i, k \in DOMAIN shown : shown[i].job = shown[k].job => i = k
ToldOnce ==
  /\ ShownDiffer
  /\ \A h \in Hooks : Distinct(hooks[h].jobs) /\ ToldBy(h) \cap ToldShown = {}
  /\ \A g, h \in Hooks : g # h => ToldBy(g) \cap ToldBy(h) = {}
ToldNow ==
  /\ \A i \in DOMAIN shown :
       shown[i].job.seq # OpenSeq => shown[i].turn = shown[i].job.turn /\ shown[i].context = shown[i].job.context
  /\ \A h \in Hooks : \A t \in ToldBy(h) : t.seq # OpenSeq => t.turn = turn /\ t.context = context
ToldOK ==
  /\ \A t \in ToldShown : TaleOK(t)
  /\ \A h \in Hooks : \A t \in ToldBy(h) : TaleOK(t)

RecallInv == RecallTypes /\ HooksOK /\ RecallsOK /\ MarkersOK /\ ToldOnce /\ ToldNow /\ ToldOK

LEMMA RecallBounds ==
  /\ MaxTurns \in Nat /\ MaxOpenings \in Nat /\ MaxFaults \in Nat /\ MaxNudges \in Nat
  /\ NoMarker \in NoMarker..MaxTurns /\ OpenSeq \in NoMarker..MaxTurns /\ OpenSeq = 0 /\ NoMarker = -1
  /\ 0 \in 0..MaxTurns /\ 0 \in 0..MaxOpenings /\ Stop \notin Tools /\ Stop \in Hooks /\ Tools \subseteq Hooks
BY RecallAssumption DEF NoMarker, OpenSeq, Stop, Hooks

LEMMA NoJobIs ==
  /\ NoJob \in RecallJobs /\ NoJob.seq = NoMarker /\ NoJob.state = "none" /\ NoJob.context = 0 /\ NoJob.turn = 0
BY RecallBounds DEF NoJob, RecallJobs, JobStates

LEMMA RestingHooks ==
  /\ IdleHook \in HookRecords /\ IdleHook.at = "idle" /\ IdleHook.seq = NoMarker /\ IdleHook.jobs = << >>
  /\ DoneHook \in HookRecords /\ DoneHook.at = "done" /\ DoneHook.seq = NoMarker /\ DoneHook.jobs = << >>
  /\ DoneHook # IdleHook
<1>1. NoMarker \in NoMarker..MaxTurns BY RecallBounds
<1>2. IdleHook \in HookRecords BY <1>1 DEF IdleHook, HookRecords
<1>3. IdleHook.at = "idle" /\ IdleHook.seq = NoMarker /\ IdleHook.jobs = << >> BY DEF IdleHook
<1>4. PICK k \in HookRecords : k = IdleHook BY <1>2
<1>5. DoneHook = [k EXCEPT !.at = "done"] BY <1>4 DEF DoneHook
<1>6. DoneHook \in HookRecords /\ DoneHook.at = "done" /\ DoneHook.seq = k.seq /\ DoneHook.jobs = k.jobs
  BY <1>5 DEF HookRecords
<1> QED BY <1>2, <1>3, <1>4, <1>6

\* A running job.
LEMMA JobIs ==
  ASSUME NEW n \in 0..MaxTurns, NEW u \in 0..MaxTurns, NEW c \in 0..MaxOpenings
  PROVE  \E q \in RecallJobs : /\ q = [seq |-> n, turn |-> u, context |-> c, state |-> "running"]
                              /\ q.seq = n /\ q.turn = u /\ q.context = c /\ q.state = "running"
<1> DEFINE q == [seq |-> n, turn |-> u, context |-> c, state |-> "running"]
<1>1. n \in NoMarker..MaxTurns BY RecallBounds
<1>2. q \in RecallJobs BY <1>1 DEF RecallJobs, JobStates
<1> QED BY <1>2

\* Of hooks that show nothing nothing is told.
LEMMA NothingTold ==
  ASSUME NEW h, hooks[h].jobs = << >>
  PROVE  ToldBy(h) = {} /\ Distinct(hooks[h].jobs) BY DEF ToldBy, Distinct

\* While all hooks are idle nothing is asked and nothing told.
LEMMA IdleHooks ==
  ASSUME \A h \in Hooks : hooks[h] = IdleHook
  PROVE  /\ HooksOK /\ \A h \in Hooks : /\ hooks[h].seq = NoMarker /\ ToldBy(h) = {} /\ Distinct(hooks[h].jobs)
                                        /\ Names(hooks[h].seq)
<1>1. \A h \in Hooks : HookOK(h) BY RestingHooks DEF HookOK
<1>2. ASSUME NEW h \in Hooks
      PROVE  hooks[h].seq = NoMarker /\ ToldBy(h) = {} /\ Distinct(hooks[h].jobs) /\ Names(hooks[h].seq)
  BY RestingHooks, NothingTold, RecallBounds DEF Names
<1> QED BY <1>1, <1>2, RecallBounds DEF HooksOK

\* With idle hooks, the invariant speaks of what was shown and of the jobs only.
ShownNow ==
  \A i \in DOMAIN shown :
    shown[i].job.seq # OpenSeq => shown[i].turn = shown[i].job.turn /\ shown[i].context = shown[i].job.context
Resting ==
  /\ RecallTypes /\ RecallsOK /\ \A h \in Hooks : hooks[h] = IdleHook
  /\ phase = "turn" => Names(marker)
  /\ phase = "compacted" => marker = NoMarker
  /\ ShownDiffer /\ ShownNow /\ \A t \in ToldShown : TaleOK(t)
LEMMA IdleInv == Resting => RecallInv
<1> SUFFICES ASSUME Resting PROVE RecallInv OBVIOUS
<1> USE DEF Resting
<1>1. /\ HooksOK /\ \A h \in Hooks : /\ hooks[h].seq = NoMarker /\ ToldBy(h) = {} /\ Distinct(hooks[h].jobs)
                                     /\ Names(hooks[h].seq) BY IdleHooks
<1>2. ToldOnce /\ ToldNow /\ ToldOK BY <1>1 DEF ToldOnce, ToldNow, ToldOK, ShownNow
<1>3. MarkersOK BY <1>1 DEF MarkersOK
<1> QED BY <1>1, <1>2, <1>3 DEF RecallInv

LEMMA RecallStarts == RecallInit => RecallInv
<1> SUFFICES ASSUME RecallInit PROVE RecallInv OBVIOUS
<1>1. nudge \in NudgeRecords BY RecallBounds DEF RecallInit, NudgeRecords
<1>2. RecallTypes
  <2>1. turn \in 0..MaxTurns /\ context \in 0..MaxOpenings /\ seqs \in 0..MaxTurns /\ faults \in 0..MaxFaults
    BY RecallBounds DEF RecallInit
  <2>2. phase \in Phases /\ opened \in BOOLEAN /\ shown \in Seq(Tales) /\ marker \in NoMarker..MaxTurns
    <3>1. phase \in Phases /\ marker \in NoMarker..MaxTurns BY RecallBounds DEF RecallInit, Phases
    <3>2. opened \in BOOLEAN BY DEF RecallInit
    <3>3. << >> \in Seq(Tales) OBVIOUS
    <3> QED BY <3>1, <3>2, <3>3 DEF RecallInit
  <2>3. hooks \in [Hooks -> HookRecords] /\ recall \in RecallJobs /\ opening \in RecallJobs
    BY NoJobIs, RestingHooks DEF RecallInit
  <2> QED BY <1>1, <2>1, <2>2, <2>3 DEF RecallTypes
<1>3. ToldShown = {} /\ DOMAIN shown = {} /\ \A h \in Hooks : hooks[h] = IdleHook BY DEF RecallInit, ToldShown
<1>4. RecallsOK BY NoJobIs, RecallBounds DEF RecallInit, RecallsOK
<1>5. ShownDiffer /\ ShownNow BY <1>3 DEF ShownDiffer, ShownNow
<1> QED BY <1>2, <1>3, <1>4, <1>5, IdleInv DEF RecallInit, Resting

LEMMA IdleFacts ==
  ASSUME RecallInv, HooksIdle
  PROVE  /\ \A h \in Hooks : hooks[h] = IdleHook
         /\ RecallTypes /\ RecallsOK /\ MarkersOK /\ ShownDiffer /\ ShownNow /\ \A t \in ToldShown : TaleOK(t)
BY DEF RecallInv, HooksIdle, ToldOnce, ToldNow, ToldOK, ShownNow

\* Jobs may be dropped while no hook runs.
LEMMA FaultsCount ==
  ASSUME RecallTypes, NEW reach \in Reaches, Counted(reach)
  PROVE  faults' \in 0..MaxFaults
<1>1. faults' = faults + (IF reach = "answered" THEN 0 ELSE 1) /\ (reach # "answered" => faults < MaxFaults)
  BY DEF Counted
<1>2. CASE reach = "answered" BY <1>1, <1>2, RecallBounds DEF RecallTypes
<1>3. CASE reach # "answered" BY <1>1, <1>3, RecallBounds DEF RecallTypes
<1> QED BY <1>2, <1>3

LEMMA SameShown ==
  ASSUME shown' = shown, ShownDiffer, ShownNow
  PROVE  ShownDiffer' /\ ToldShown' = ToldShown /\ ShownNow' BY DEF ShownDiffer, ToldShown, ShownNow

LEMMA StartKeeps ==
  ASSUME RecallInv, NEW reach \in Reaches, NEW started \in BOOLEAN, Start(reach, started)
  PROVE  RecallInv'
<1>1. /\ \A h \in Hooks : hooks[h] = IdleHook
      /\ RecallTypes /\ RecallsOK /\ MarkersOK /\ ShownDiffer /\ ShownNow /\ \A t \in ToldShown : TaleOK(t)
  BY IdleFacts DEF Start
<1>2. /\ turn' = turn /\ recall' = recall /\ seqs' = seqs /\ hooks' = hooks /\ nudge' = nudge /\ shown' = shown
      /\ phase' \in {"idle", "turn"} /\ (phase = "closed" => phase' = "idle") /\ phase \in {"closed", "compacted"}
      /\ context' = IF phase = "closed" THEN context + 1 ELSE context
      /\ (phase = "closed" => context < MaxOpenings) BY DEF Start
<1>3. context' \in 0..MaxOpenings /\ context' >= context /\ (phase = "closed" => context' > context)
  BY <1>1, <1>2, RecallBounds DEF RecallTypes
<1>4. PICK q \in RecallJobs : /\ q = [seq |-> OpenSeq, turn |-> turn', context |-> context', state |-> "running"]
                              /\ q.seq = OpenSeq /\ q.turn = turn' /\ q.context = context' /\ q.state = "running"
  <2>1. PICK n \in 0..MaxTurns, u \in 0..MaxTurns, c \in 0..MaxOpenings : n = OpenSeq /\ u = turn' /\ c = context'
    BY <1>1, <1>2, <1>3, RecallBounds DEF RecallTypes
  <2> QED BY <2>1, JobIs
<1>5. opening' \in {q, NoJob, opening} /\ (opening' = opening \/ opening' = NoJob \/ opening' = q)
  BY <1>4 DEF Start, Opened, Running
<1>6. marker' \in {marker, OpenSeq, NoMarker} /\ opened' \in BOOLEAN BY <1>1 DEF Start, StartMarker, RecallTypes
<1>7. faults' \in 0..MaxFaults BY <1>1, FaultsCount DEF Start
<1>8. RecallTypes'
  <2>1. phase' \in Phases BY <1>2 DEF Phases
  <2>2. opening' \in RecallJobs BY <1>1, <1>5, NoJobIs DEF RecallTypes
  <2>3. marker' \in NoMarker..MaxTurns BY <1>1, <1>6, RecallBounds DEF RecallTypes
  <2> QED BY <1>1, <1>2, <1>3, <1>6, <1>7, <2>1, <2>2, <2>3 DEF RecallTypes
<1>9. RecallsOK'
  <2>1. opening' # NoJob => opening'.seq = OpenSeq /\ opening'.state \in {"running", "found", "empty"}
    BY <1>1, <1>4, <1>5 DEF RecallsOK
  <2>2. opening.context \in Nat /\ context \in Nat /\ context' \in Nat
    BY <1>1, <1>3, RecallBounds DEF RecallTypes, RecallJobs
  <2>3. opening'.context <= context' BY <1>1, <1>3, <1>4, <1>5, <2>2, NoJobIs DEF RecallsOK
  <2> QED BY <1>1, <1>2, <2>1, <2>3 DEF RecallsOK
<1>10. phase' = "turn" => Names(marker)'
  <2>1. ASSUME phase' = "turn" PROVE marker' \in {OpenSeq, NoMarker} BY <1>1, <1>2, <1>6, <2>1 DEF MarkersOK
  <2> QED BY <2>1, RecallBounds DEF Names
<1>11. ASSUME NEW t \in ToldShown PROVE TaleOK(t)'
  <2>1. TaleOK(t) /\ t.context <= context /\ (phase = "compacted" => t.context < context) BY <1>1, <1>11 DEF TaleOK
  <2>2. t \in RecallJobs
    <3>1. PICK i \in DOMAIN shown : t = shown[i].job BY <1>11 DEF ToldShown
    <3>2. shown[i] \in Tales BY <1>1, <3>1 DEF RecallTypes
    <3> QED BY <3>1, <3>2 DEF Tales
  <2>3. t.context \in Nat /\ context \in Nat /\ context' \in Nat
    BY <2>2, <1>1, <1>3, RecallBounds DEF RecallTypes, RecallJobs
  <2>4. t.context < context' BY <2>1, <2>3, <1>2, <1>3
  <2>5. CASE opening' = q BY <1>2, <1>4, <2>1, <2>3, <2>4, <2>5 DEF TaleOK
  <2>6. CASE opening' \in {opening, NoJob} BY <1>2, <2>1, <2>3, <2>4, <2>6 DEF TaleOK
  <2> QED BY <1>5, <2>5, <2>6
<1>12. ShownDiffer' /\ ToldShown' = ToldShown /\ ShownNow' BY <1>1, <1>2, SameShown
<1>13. (\A h \in Hooks : hooks[h] = IdleHook)' /\ phase' # "compacted" BY <1>1, <1>2
<1>14. (\A t \in ToldShown : TaleOK(t))' BY <1>11, <1>12
<1>15. Resting' BY <1>8, <1>9, <1>10, <1>12, <1>13, <1>14 DEF Resting
<1> QED BY <1>15, IdleInv, PTL

\* The one tale that goes with the answer to a prompt.
LEMMA OneTale ==
  ASSUME NEW q \in RecallJobs, NEW u \in 0..MaxTurns, NEW c \in 0..MaxOpenings
  PROVE  \E s \in Seq(Tales) : /\ s = << [job |-> q, turn |-> u, context |-> c] >> /\ DOMAIN s = {1} /\ s[1].job = q
<1> DEFINE t == [job |-> q, turn |-> u, context |-> c]
<1>1. t \in Tales /\ t.job = q BY DEF Tales
<1>2. <<t>> \in Seq(Tales) /\ DOMAIN <<t>> = 1..1 /\ <<t>>[1] = t BY <1>1
<1>3. 1..1 = {1} OBVIOUS
<1> QED BY <1>1, <1>2, <1>3

LEMMA PromptKeeps ==
  ASSUME RecallInv, NEW reach \in Reaches, NEW started \in BOOLEAN, NEW found \in BOOLEAN,
         Prompt(reach, started, found)
  PROVE  RecallInv'
<1>1. /\ \A h \in Hooks : hooks[h] = IdleHook
      /\ RecallTypes /\ RecallsOK BY IdleFacts DEF Prompt
<1>2. /\ turn < MaxTurns /\ turn' = turn + 1 /\ context' = context /\ phase' = "turn" /\ hooks' = hooks
      /\ ~Handled(reach) => ~started /\ ~found BY DEF Prompt
<1>3. turn' \in 0..MaxTurns /\ turn' \in Nat /\ turn \in Nat /\ context \in Nat /\ seqs \in Nat /\ turn' > turn
  BY <1>1, <1>2, RecallBounds DEF RecallTypes
<1>4. faults' \in 0..MaxFaults BY <1>1, FaultsCount DEF Prompt
<1>5. nudge' \in NudgeRecords BY <1>1 DEF Prompt, Unasked, NudgeRecords, RecallTypes
<1>6. PICK open : open = IF opened THEN opening ELSE Opened(started) OBVIOUS
<1>7. PICK q \in RecallJobs : /\ q = [seq |-> OpenSeq, turn |-> turn', context |-> context', state |-> "running"]
                              /\ q.seq = OpenSeq /\ q.turn = turn' /\ q.context = context' /\ q.state = "running"
  <2>1. PICK n \in 0..MaxTurns, u \in 0..MaxTurns, c \in 0..MaxOpenings : n = OpenSeq /\ u = turn' /\ c = context'
    BY <1>1, <1>2, <1>3, RecallBounds DEF RecallTypes
  <2> QED BY <2>1, JobIs
<1>8. open = opening \/ open = NoJob \/ open = q BY <1>6, <1>7 DEF Opened, Running
<1>9. /\ open \in RecallJobs /\ open.context <= context
      /\ open # NoJob => open.seq = OpenSeq /\ open.state \in {"running", "found", "empty"}
  <2>1. NoJob.context <= context BY <1>3, NoJobIs
  <2>2. q.context <= context BY <1>2, <1>3, <1>7
  <2> QED BY <1>1, <1>7, <1>8, <2>1, <2>2, NoJobIs DEF RecallTypes, RecallsOK
<1>10. CASE ~Handled(reach)
  <2>1. /\ shown' = << >> /\ opened' = opened /\ opening' = opening /\ recall' = recall /\ seqs' = seqs
        /\ marker' = NoMarker BY <1>10 DEF Prompt, PromptMarker, Handled
  <2>2. RecallTypes'
    <3>1. phase' \in Phases /\ marker' \in NoMarker..MaxTurns BY <1>2, <2>1, RecallBounds DEF Phases
    <3>2. shown' \in Seq(Tales) BY <2>1
    <3> QED BY <1>1, <1>2, <1>3, <1>4, <1>5, <2>1, <3>1, <3>2 DEF RecallTypes
  <2>3. RecallsOK' BY <1>1, <1>2, <1>3, <2>1 DEF RecallsOK
  <2>4. ToldShown' = {} /\ ShownDiffer' /\ ShownNow' /\ Names(marker)'
    BY <2>1, RecallBounds DEF ToldShown, ShownDiffer, ShownNow, Names
  <2>5. Resting' BY <1>1, <1>2, <2>2, <2>3, <2>4 DEF Resting
  <2> QED BY <2>5, IdleInv, PTL
<1>11. CASE Handled(reach)
  <2>1. /\ opened' = (opened \/ started) /\ recall' = Asked(found)
        /\ seqs' = IF found THEN seqs + 1 ELSE seqs
        /\ opening' = IF Finished(open) THEN NoJob ELSE open
        /\ shown' = IF open.state = "found" /\ reach = "answered" THEN <<ShowNow(open)>> ELSE << >>
        /\ marker' = PromptMarker(reach, IF found THEN seqs' ELSE Claimable(opening')) BY <1>6, <1>11 DEF Prompt
  <2>2. seqs + 1 \in 0..MaxTurns /\ seqs + 1 \in Nat /\ seqs + 1 > 0 /\ seqs <= turn /\ seqs' \in 0..MaxTurns /\ seqs' <= turn'
    BY <1>1, <1>2, <1>3, <2>1, RecallBounds DEF RecallsOK, RecallTypes
  <2>3. PICK p \in RecallJobs : /\ p = [seq |-> seqs + 1, turn |-> turn', context |-> context', state |-> "running"]
                                /\ p.seq = seqs + 1 /\ p.turn = turn' /\ p.context = context' /\ p.state = "running"
    <3>1. PICK n \in 0..MaxTurns, u \in 0..MaxTurns, c \in 0..MaxOpenings : n = seqs + 1 /\ u = turn' /\ c = context'
      BY <1>1, <1>2, <1>3, <2>2 DEF RecallTypes
    <3> QED BY <3>1, JobIs
  <2>4. recall' = IF found THEN p ELSE NoJob BY <2>1, <2>3 DEF Asked, Running
  <2>5. opening' \in RecallJobs /\ (opening' # NoJob => opening'.seq = OpenSeq /\ opening'.state \in {"running", "found", "empty"})
        /\ opening'.context <= context' BY <1>2, <1>3, <1>9, <2>1, NoJobIs
  <2>6. Claimable(opening') \in {OpenSeq, NoMarker} BY <2>5, NoJobIs DEF Claimable
  <2>7. marker' \in {OpenSeq, NoMarker} \/ (found /\ marker' = seqs + 1) BY <2>1, <2>6 DEF PromptMarker
  <2>8. RecallTypes'
    <3>1. phase' \in Phases /\ opened' \in BOOLEAN BY <1>1, <1>2, <2>1 DEF Phases, RecallTypes
    <3>2. marker' \in NoMarker..MaxTurns BY <2>2, <2>7, RecallBounds
    <3>3. recall' \in RecallJobs BY <2>3, <2>4, NoJobIs
    <3>4. shown' \in Seq(Tales)
      <4>1. PICK u \in 0..MaxTurns, c \in 0..MaxOpenings : u = turn' /\ c = context'
        BY <1>1, <1>2, <1>3 DEF RecallTypes
      <4>2. << [job |-> open, turn |-> u, context |-> c] >> \in Seq(Tales) BY <1>9, OneTale
      <4>3. << ShowNow(open) >> \in Seq(Tales) BY <4>1, <4>2 DEF ShowNow
      <4> QED BY <2>1, <4>3
    <3> QED BY <1>1, <1>2, <1>3, <1>4, <1>5, <2>2, <2>5, <3>1, <3>2, <3>3, <3>4 DEF RecallTypes
  <2>9. RecallsOK'
    <3>1. recall' # NoJob => recall'.seq >= 1 /\ recall'.state # "none" BY <2>2, <2>3, <2>4
    <3> QED BY <2>2, <2>5, <3>1 DEF RecallsOK
  <2>10. Names(marker)'
    <3>1. marker' > 0 => recall' = p BY <2>4, <2>7, RecallBounds
    <3>2. p.turn = turn' /\ p.context = context' BY <2>3
    <3> QED BY <3>1, <3>2 DEF Names
  <2>11. ShownDiffer' /\ ShownNow' /\ (\A t \in ToldShown : TaleOK(t))'
    <3>1. CASE shown' = << >> BY <3>1 DEF ShownDiffer, ShownNow, ToldShown
    <3>2. CASE shown' = <<ShowNow(open)>> /\ open.state = "found"
      <4>1. PICK u \in 0..MaxTurns, c \in 0..MaxOpenings : u = turn' /\ c = context'
        BY <1>1, <1>2, <1>3 DEF RecallTypes
      <4>2. PICK s \in Seq(Tales) : /\ s = << [job |-> open, turn |-> u, context |-> c] >> /\ DOMAIN s = {1}
                                    /\ s[1].job = open BY <1>9, OneTale
      <4>3. shown' = s BY <3>2, <4>1, <4>2 DEF ShowNow
      <4>4. ToldShown' = {open} /\ ShownDiffer' BY <4>2, <4>3 DEF ToldShown, ShownDiffer
      <4>5. open # NoJob /\ open.seq = OpenSeq BY <1>9, <3>2, NoJobIs
      <4>6. opening' = NoJob BY <2>1, <3>2 DEF Finished
      <4>7. TaleOK(open)' BY <1>2, <1>9, <4>5, <4>6 DEF TaleOK
      <4>8. ShownNow' BY <4>2, <4>3, <4>5 DEF ShownNow
      <4> QED BY <4>4, <4>7, <4>8
    <3> QED BY <2>1, <3>1, <3>2
  <2>12. Resting' BY <1>1, <1>2, <2>8, <2>9, <2>10, <2>11 DEF Resting
  <2> QED BY <2>12, IdleInv, PTL
<1> QED BY <1>10, <1>11

\* Steps that drop or end jobs while no hook runs, or as all hooks are ended.
LEMMA EndsKeep ==
  ASSUME RecallInv, (\A h \in Hooks : hooks[h] = IdleHook)', shown' = shown, turn' = turn,
         nudge' \in NudgeRecords, faults' \in 0..MaxFaults, opened' \in BOOLEAN,
         context' \in 0..MaxOpenings, context' >= context, phase' \in Phases, hooks' \in [Hooks -> HookRecords],
         phase' = "compacted" => context' > context \/ phase = "compacted",
         seqs' \in {seqs, 0}, marker' \in {marker, NoMarker},
         recall' \in {recall, NoJob}, opening' \in {opening, NoJob},
         phase' = "turn" => Names(marker)',
         phase' = "compacted" => marker' = NoMarker
  PROVE  RecallInv'
<1>1. RecallTypes /\ RecallsOK /\ ShownDiffer /\ ShownNow /\ \A t \in ToldShown : TaleOK(t)
  BY DEF RecallInv, ToldOnce, ToldNow, ToldOK, ShownNow
<1>2. RecallTypes'
  <2>1. seqs' \in 0..MaxTurns /\ marker' \in NoMarker..MaxTurns /\ recall' \in RecallJobs /\ opening' \in RecallJobs
    BY <1>1, NoJobIs, RecallBounds DEF RecallTypes
  <2> QED BY <1>1, <2>1 DEF RecallTypes
<1>3. context \in Nat /\ context' \in Nat /\ turn \in Nat /\ opening.context \in Nat
  BY <1>1, RecallBounds DEF RecallTypes, RecallJobs
<1>4. RecallsOK'
  <2>1. recall' # NoJob => recall'.seq >= 1 /\ recall'.state # "none" BY <1>1 DEF RecallsOK
  <2>2. opening' # NoJob => opening'.seq = OpenSeq /\ opening'.state \in {"running", "found", "empty"}
    BY <1>1 DEF RecallsOK
  <2>3. seqs' <= turn' BY <1>1, <1>3 DEF RecallsOK
  <2>4. opening'.context <= context' BY <1>1, <1>3, NoJobIs DEF RecallsOK
  <2> QED BY <2>1, <2>2, <2>3, <2>4 DEF RecallsOK
<1>5. ASSUME NEW t \in ToldShown PROVE TaleOK(t)'
  <2>1. TaleOK(t) BY <1>1, <1>5
  <2>2. t \in RecallJobs
    <3>1. PICK i \in DOMAIN shown : t = shown[i].job BY <1>5 DEF ToldShown
    <3>2. shown[i] \in Tales BY <1>1, <3>1 DEF RecallTypes
    <3> QED BY <3>1, <3>2 DEF Tales
  <2>3. t.context \in Nat BY <2>2, RecallBounds DEF RecallJobs
  <2>4. t.context <= context' /\ (phase' = "compacted" => t.context < context') BY <1>3, <2>1, <2>3 DEF TaleOK
  <2>5. t.seq # OpenSeq => recall' = NoJob \/ recall'.state = "delivered" BY <2>1 DEF TaleOK
  <2>6. t.seq = OpenSeq /\ opening' # NoJob => t.turn # opening'.turn \/ t.context # opening'.context
    BY <2>1 DEF TaleOK
  <2> QED BY <2>4, <2>5, <2>6 DEF TaleOK
<1>6. ShownDiffer' /\ ToldShown' = ToldShown /\ ShownNow' BY <1>1, SameShown
<1>7. (\A t \in ToldShown : TaleOK(t))' BY <1>5, <1>6
<1>8. Resting' BY <1>2, <1>4, <1>6, <1>7 DEF Resting
<1> QED BY <1>8, IdleInv, PTL

\* A job drops out, stays, or goes from state to state.
LaterJob(p, q) ==
  q = NoJob \/ (p # NoJob /\ q.seq = p.seq /\ q.turn = p.turn /\ q.context = p.context /\ q.state # "none"
                 /\ (p.state = "delivered" => q = p))
LaterJobs ==
  /\ recall' \in RecallJobs /\ LaterJob(recall, recall')
  /\ opening' \in RecallJobs /\ LaterJob(opening, opening')
  /\ opening' # NoJob => opening'.state \in {"running", "found", "empty"}

LEMMA JobsGoOn ==
  ASSUME RecallTypes, RecallsOK, LaterJobs, turn' = turn, context' = context, seqs' = seqs \/ seqs' = 0
  PROVE  /\ RecallsOK'
         /\ \A s \in NoMarker..MaxTurns : Names(s) => Names(s)'
         /\ (phase' # "compacted" \/ phase' = phase) => \A t \in RecallJobs : TaleOK(t) => TaleOK(t)'
<1>1. context \in Nat /\ turn \in Nat BY RecallBounds DEF RecallTypes
<1>2. RecallsOK'
  <2>1. recall' # NoJob => recall'.seq >= 1 /\ recall'.state # "none" BY DEF LaterJobs, LaterJob, RecallsOK
  <2>2. opening' # NoJob => opening'.seq = OpenSeq /\ opening'.state \in {"running", "found", "empty"}
    BY DEF LaterJobs, LaterJob, RecallsOK
  <2>3. seqs' <= turn' BY <1>1 DEF RecallsOK
  <2>4. opening'.context <= context' BY <1>1, NoJobIs DEF RecallsOK, LaterJobs, LaterJob
  <2> QED BY <2>1, <2>2, <2>3, <2>4 DEF RecallsOK
<1>3. ASSUME NEW s \in NoMarker..MaxTurns, Names(s) PROVE Names(s)'
  <2>1. CASE recall' = NoJob BY <2>1 DEF Names
  <2>2. CASE recall' # NoJob
    <3>1. recall # NoJob /\ recall'.seq = recall.seq /\ recall'.turn = recall.turn /\ recall'.context = recall.context
      BY <2>2 DEF LaterJobs, LaterJob
    <3> QED BY <1>3, <3>1 DEF Names
  <2> QED BY <2>1, <2>2
<1>4. ASSUME phase' # "compacted" \/ phase' = phase, NEW t \in RecallJobs, TaleOK(t) PROVE TaleOK(t)'
  <2>1. t.seq # OpenSeq => recall' = NoJob \/ recall'.state = "delivered" BY <1>4 DEF TaleOK, LaterJobs, LaterJob
  <2>2. t.seq = OpenSeq /\ opening' # NoJob => t.turn # opening'.turn \/ t.context # opening'.context
    BY <1>4 DEF TaleOK, LaterJobs, LaterJob
  <2>3. t.context <= context' /\ (phase' = "compacted" => t.context < context') BY <1>4 DEF TaleOK
  <2> QED BY <2>1, <2>2, <2>3 DEF TaleOK
<1> QED BY <1>2, <1>3, <1>4

\* What is told are jobs.
LEMMA ToldAreJobs ==
  ASSUME RecallTypes
  PROVE  /\ \A t \in ToldShown : t \in RecallJobs
         /\ \A h \in Hooks : \A t \in ToldBy(h) : t \in RecallJobs
<1>1. ASSUME NEW t \in ToldShown PROVE t \in RecallJobs
  <2>1. PICK i \in DOMAIN shown : t = shown[i].job BY <1>1 DEF ToldShown
  <2>2. shown[i] \in Tales BY <2>1 DEF RecallTypes
  <2> QED BY <2>1, <2>2 DEF Tales
<1>2. ASSUME NEW h \in Hooks, NEW t \in ToldBy(h) PROVE t \in RecallJobs
  <2>1. hooks[h].jobs \in Seq(RecallJobs) BY DEF RecallTypes, HookRecords
  <2>2. PICK s \in Seq(RecallJobs) : s = hooks[h].jobs BY <2>1
  <2>3. PICK i \in DOMAIN s : t = s[i] BY <1>2, <2>2 DEF ToldBy
  <2> QED BY <2>2, <2>3
<1> QED BY <1>1, <1>2

\* Steps of the plane and of the clock, under which hooks may run.
LEMMA SteadyKeeps ==
  ASSUME RecallInv, UNCHANGED <<turn, context, phase, opened, hooks, shown>>, LaterJobs,
         seqs' = seqs \/ seqs' = 0, marker' \in {marker, NoMarker}, nudge' \in NudgeRecords,
         faults' \in 0..MaxFaults
  PROVE  RecallInv'
<1>0. RecallTypes /\ HooksOK /\ RecallsOK /\ MarkersOK /\ ToldOnce /\ ToldNow /\ ToldOK BY DEF RecallInv
<1>1. RecallTypes'
  <2>1. seqs' \in 0..MaxTurns /\ marker' \in NoMarker..MaxTurns BY <1>0, RecallBounds DEF RecallTypes
  <2> QED BY <1>0, <2>1 DEF RecallTypes, LaterJobs
<1>2. HooksOK' BY <1>0 DEF HooksOK, HookOK
<1>3. /\ RecallsOK'
      /\ \A s \in NoMarker..MaxTurns : Names(s) => Names(s)'
      /\ \A t \in RecallJobs : TaleOK(t) => TaleOK(t)' BY <1>0, JobsGoOn
<1>4. MarkersOK'
  <2>1. ASSUME NEW h \in Hooks PROVE Names(hooks[h].seq)'
    <3>1. PICK s \in NoMarker..MaxTurns : s = hooks[h].seq /\ Names(s) BY <1>0 DEF RecallTypes, HookRecords, MarkersOK
    <3>2. Names(s)' /\ hooks'[h].seq = s BY <1>3, <3>1
    <3> QED BY <3>2 DEF Names
  <2>2. ASSUME phase' = "turn" PROVE Names(marker)'
    <3>1. PICK s \in NoMarker..MaxTurns : s = marker /\ Names(s) BY <1>0, <2>2 DEF RecallTypes, MarkersOK
    <3>2. Names(s)' BY <1>3, <3>1
    <3>3. marker' = s \/ marker' = NoMarker BY <3>1
    <3> QED BY <3>2, <3>3, RecallBounds DEF Names
  <2>3. phase' = "compacted" => marker' = NoMarker BY <1>0 DEF MarkersOK
  <2> QED BY <2>1, <2>2, <2>3 DEF MarkersOK
<1>5. ToldShown' = ToldShown /\ \A h : ToldBy(h)' = ToldBy(h) BY DEF ToldShown, ToldBy
<1>6. ToldOnce' BY <1>0, <1>5 DEF ToldOnce, ShownDiffer, Distinct
<1>7. ToldNow' BY <1>0, <1>5 DEF ToldNow
<1>8. ToldOK' BY <1>0, <1>3, <1>5, ToldAreJobs DEF ToldOK
<1> QED BY <1>1, <1>2, <1>3, <1>4, <1>6, <1>7, <1>8 DEF RecallInv

LEMMA JobsStand == ASSUME RecallTypes, RecallsOK, recall' \in {recall, NoJob}, opening' \in {opening, NoJob} PROVE LaterJobs
<1>1. recall' \in RecallJobs /\ opening' \in RecallJobs BY NoJobIs DEF RecallTypes
<1>2. LaterJob(recall, recall') BY DEF LaterJob, RecallsOK
<1>3. LaterJob(opening, opening')
  <2>1. CASE opening' = NoJob BY <2>1 DEF LaterJob
  <2>2. CASE opening' = opening /\ opening # NoJob
    <3>1. opening.state \in {"running", "found", "empty"} BY <2>2 DEF RecallsOK
    <3> QED BY <2>2, <3>1 DEF LaterJob
  <2> QED BY <2>1, <2>2
<1> QED BY <1>1, <1>2, <1>3 DEF LaterJobs, RecallsOK

LEMMA RestartKeeps == ASSUME RecallInv, Restart PROVE RecallInv'
<1>1. RecallTypes /\ RecallsOK BY DEF RecallInv
<1>2. LaterJobs BY <1>1, JobsStand DEF Restart
<1>3. faults' \in 0..MaxFaults /\ nudge' \in NudgeRecords /\ marker' = marker
  BY <1>1, RecallBounds DEF Restart, RecallTypes
<1> QED BY <1>2, <1>3, SteadyKeeps DEF Restart

LEMMA ExpiresKeeps == ASSUME RecallInv, Expires PROVE RecallInv'
<1>1. RecallTypes /\ RecallsOK BY DEF RecallInv
<1>2. LaterJobs BY <1>1, JobsStand DEF Expires
<1>3. faults' \in 0..MaxFaults /\ nudge' \in NudgeRecords BY <1>1, RecallBounds DEF Expires, RecallTypes
<1> QED BY <1>2, <1>3, SteadyKeeps DEF Expires

LEMMA SaveKeeps == ASSUME RecallInv, Save PROVE RecallInv'
<1>1. RecallTypes /\ RecallsOK BY DEF RecallInv
<1>2. LaterJobs BY <1>1, JobsStand DEF Save
<1>3. nudge' \in NudgeRecords BY <1>1 DEF Save, RecallTypes, NudgeRecords
<1>4. faults' \in 0..MaxFaults BY <1>1 DEF Save, RecallTypes
<1> QED BY <1>2, <1>3, <1>4, SteadyKeeps DEF Save

LEMMA FinishKeeps == ASSUME RecallInv, NEW state \in {"found", "empty"}, Finish(state) PROVE RecallInv'
<1>1. RecallTypes /\ RecallsOK BY DEF RecallInv
<1>2. \A q \in RecallJobs : LET p == [q EXCEPT !.state = state]
                             IN  p \in RecallJobs /\ p.seq = q.seq /\ p.turn = q.turn /\ p.context = q.context /\ p.state = state
  BY DEF RecallJobs, JobStates
<1>3. \A q \in RecallJobs : q.state = "running" => q # NoJob BY NoJobIs
<1>4. LaterJobs
  <2>1. LaterJob(recall, recall) /\ LaterJob(opening, opening) BY <1>1 DEF LaterJob, RecallsOK
  <2>2. PICK p \in RecallJobs, o \in RecallJobs : p = recall /\ o = opening BY <1>1 DEF RecallTypes
  <2>3. CASE recall.state = "running" /\ recall' = [recall EXCEPT !.state = state] /\ opening' = opening
    <3>1. /\ recall' \in RecallJobs /\ recall'.seq = p.seq /\ recall'.turn = p.turn /\ recall'.context = p.context
          /\ recall'.state = state /\ p # NoJob BY <1>2, <1>3, <2>2, <2>3
    <3>2. LaterJob(recall, recall') BY <2>2, <2>3, <3>1 DEF LaterJob
    <3> QED BY <1>1, <2>1, <2>2, <2>3, <3>1, <3>2 DEF LaterJobs, RecallsOK
  <2>4. CASE opening.state = "running" /\ opening' = [opening EXCEPT !.state = state] /\ recall' = recall
    <3>1. /\ opening' \in RecallJobs /\ opening'.seq = o.seq /\ opening'.turn = o.turn /\ opening'.context = o.context
          /\ opening'.state = state /\ o # NoJob BY <1>2, <1>3, <2>2, <2>4
    <3>2. LaterJob(opening, opening') BY <2>2, <2>4, <3>1 DEF LaterJob
    <3> QED BY <1>1, <2>1, <2>2, <2>4, <3>1, <3>2 DEF LaterJobs, RecallsOK
  <2> QED BY <2>3, <2>4 DEF Finish
<1>5. UNCHANGED <<turn, context, phase, opened, seqs, marker, hooks, nudge, shown, faults>> BY DEF Finish
<1>6. faults' \in 0..MaxFaults /\ nudge' \in NudgeRecords BY <1>1, <1>5 DEF RecallTypes
<1> QED BY <1>4, <1>5, <1>6, SteadyKeeps

------------------------
\* All hooks are ended, or none runs.
LEMMA HooksEnded ==
  ASSUME hooks' = [h \in Hooks |-> IdleHook]
  PROVE  (\A h \in Hooks : hooks[h] = IdleHook)' /\ hooks' \in [Hooks -> HookRecords] BY RestingHooks

LEMMA KillKeeps == ASSUME RecallInv, Kill PROVE RecallInv'
<1>1. RecallTypes BY DEF RecallInv
<1>2. (\A h \in Hooks : hooks[h] = IdleHook)' /\ hooks' \in [Hooks -> HookRecords] BY HooksEnded DEF Kill
<1>3. faults' \in 0..MaxFaults BY <1>1, RecallBounds DEF Kill, RecallTypes
<1>4. context \in Nat /\ context' \in 0..MaxOpenings /\ context' >= context
  BY <1>1, RecallBounds DEF Kill, RecallTypes
<1> QED BY <1>1, <1>2, <1>3, <1>4, EndsKeep DEF Kill, RecallTypes, Phases

LEMMA InterruptKeeps == ASSUME RecallInv, Interrupt PROVE RecallInv'
<1>1. RecallTypes BY DEF RecallInv
<1>2. (\A h \in Hooks : hooks[h] = IdleHook)' /\ hooks' \in [Hooks -> HookRecords] BY HooksEnded DEF Interrupt
<1>4. context \in Nat /\ context' \in 0..MaxOpenings /\ context' >= context
  BY <1>1, RecallBounds DEF Interrupt, RecallTypes
<1> QED BY <1>1, <1>2, <1>4, EndsKeep DEF Interrupt, RecallTypes, Phases

LEMMA NextToolsKeeps == ASSUME RecallInv, NextTools PROVE RecallInv'
<1>1. RecallTypes /\ MarkersOK BY DEF RecallInv
<1>2. (\A h \in Hooks : hooks[h] = IdleHook)' /\ hooks' \in [Hooks -> HookRecords] BY HooksEnded DEF NextTools
<1>3. UNCHANGED <<turn, context, phase, opened, recall, opening, seqs, marker, nudge, shown, faults>> BY DEF NextTools
<1>4. context \in Nat /\ context' \in 0..MaxOpenings /\ context' >= context
  BY <1>1, <1>3, RecallBounds DEF RecallTypes
<1>5. (phase' = "turn" => Names(marker)') /\ (phase' = "compacted" => marker' = NoMarker)
  BY <1>1, <1>3 DEF MarkersOK, Names
<1>6. phase' = "compacted" => context' > context \/ phase = "compacted" BY <1>3
<1> QED BY <1>1, <1>2, <1>3, <1>4, <1>5, <1>6, EndsKeep DEF RecallTypes

LEMMA CompactKeeps == ASSUME RecallInv, NEW reach \in Reaches, Compact(reach) PROVE RecallInv'
<1>1. RecallTypes /\ \A h \in Hooks : hooks[h] = IdleHook BY IdleFacts DEF Compact
<1>2. faults' \in 0..MaxFaults BY <1>1, FaultsCount DEF Compact
<1>3. context' \in 0..MaxOpenings /\ context' >= context /\ context' > context
  BY <1>1, RecallBounds DEF Compact, RecallTypes
<1>4. nudge' \in NudgeRecords BY <1>1 DEF Compact, RecallTypes, NudgeRecords
<1>5. recall' \in {recall, NoJob} /\ opening' \in {opening, NoJob} BY DEF Compact
<1>6. /\ phase' = "compacted" /\ marker' = NoMarker /\ UNCHANGED <<turn, opened, seqs, hooks, shown>> BY DEF Compact
<1>7. hooks' \in [Hooks -> HookRecords] /\ opened' \in BOOLEAN /\ phase' \in Phases
  BY <1>1, <1>6 DEF RecallTypes, Phases
<1> QED BY <1>1, <1>2, <1>3, <1>4, <1>5, <1>6, <1>7, EndsKeep

LEMMA CloseKeeps == ASSUME RecallInv, NEW reach \in Reaches, Close(reach) PROVE RecallInv'
<1>1. RecallTypes /\ \A h \in Hooks : hooks[h] = IdleHook BY IdleFacts DEF Close
<1>2. faults' \in 0..MaxFaults BY <1>1, FaultsCount DEF Close
<1>3. context' \in 0..MaxOpenings /\ context' >= context BY <1>1, RecallBounds DEF Close, RecallTypes
<1>4. nudge' \in NudgeRecords BY <1>1 DEF Close, RecallTypes
<1>5. recall' \in {recall, NoJob} /\ opening' \in {opening, NoJob} /\ seqs' \in {seqs, 0} BY DEF Close
<1>6. /\ phase' = "closed" /\ marker' = NoMarker /\ UNCHANGED <<turn, opened, hooks, shown>> BY DEF Close
<1>7. hooks' \in [Hooks -> HookRecords] /\ opened' \in BOOLEAN /\ phase' \in Phases
  BY <1>1, <1>6 DEF RecallTypes, Phases
<1> QED BY <1>1, <1>2, <1>3, <1>4, <1>5, <1>6, <1>7, EndsKeep

------------------------
\* A hook moves: what does not concern the tales.
LEMMA HookMovesOn ==
  ASSUME RecallInv, phase = "turn", NEW h \in Hooks, NEW r \in HookRecords, hooks' = [hooks EXCEPT ![h] = r],
         UNCHANGED <<turn, context, opened, seqs>>, LaterJobs, nudge' = nudge, faults' \in 0..MaxFaults,
         phase' = "turn" \/ (phase' = "idle" /\ h = Stop /\ r = IdleHook /\ hooks[Stop] # IdleHook),
         marker' \in NoMarker..MaxTurns, Names(marker)', Names(r.seq)', shown' \in Seq(Tales),
         r.at = "idle" => r = IdleHook, r.at = "done" => r = DoneHook, r.at = "read" => r.jobs = << >>,
         h = Stop /\ r # IdleHook => \A g \in Tools : hooks[g] = IdleHook,
         h # Stop /\ r # IdleHook => hooks[Stop] = IdleHook
  PROVE  /\ RecallTypes' /\ HooksOK' /\ RecallsOK' /\ MarkersOK'
         /\ \A t \in RecallJobs : TaleOK(t) => TaleOK(t)'
         /\ hooks'[h] = r /\ \A g \in Hooks \ {h} : hooks'[g] = hooks[g] /\ ToldBy(g)' = ToldBy(g)
<1>0. RecallTypes /\ HooksOK /\ RecallsOK /\ MarkersOK BY DEF RecallInv
<1>1. hooks' \in [Hooks -> HookRecords] /\ hooks'[h] = r /\ \A g \in Hooks \ {h} : hooks'[g] = hooks[g]
  BY <1>0 DEF RecallTypes
<1>2. phase' \in Phases /\ phase' # "compacted" BY DEF Phases
<1>3. RecallTypes' BY <1>0, <1>1, <1>2 DEF RecallTypes, LaterJobs
<1>4. /\ RecallsOK'
      /\ \A s \in NoMarker..MaxTurns : Names(s) => Names(s)'
      /\ \A t \in RecallJobs : TaleOK(t) => TaleOK(t)' BY <1>0, <1>2, JobsGoOn
<1>5. MarkersOK'
  <2>1. ASSUME NEW g \in Hooks \ {h} PROVE Names(hooks[g].seq)'
    <3>1. PICK s \in NoMarker..MaxTurns : s = hooks[g].seq /\ Names(s) BY <1>0 DEF RecallTypes, HookRecords, MarkersOK
    <3>2. Names(s)' /\ hooks'[g].seq = s BY <1>1, <1>4, <3>1
    <3> QED BY <3>2 DEF Names
  <2>2. Names(hooks[h].seq)' BY <1>1 DEF Names
  <2> QED BY <1>2, <2>1, <2>2 DEF MarkersOK
<1>6. HooksOK'
  <2>1. ASSUME NEW g \in Hooks \ {h} PROVE HookOK(g)'
    <3>1. hooks'[g] = hooks[g] /\ HookOK(g) BY <1>0, <1>1 DEF HooksOK
    <3>2. CASE phase' = "turn" BY <3>1, <3>2 DEF HookOK
    <3>3. CASE phase' = "idle" /\ h = Stop /\ r = IdleHook /\ hooks[Stop] # IdleHook
      <4>1. hooks[g] = IdleHook BY <1>0, <3>3 DEF HooksOK, Hooks
      <4> QED BY <3>1, <4>1, RestingHooks DEF HookOK
    <3> QED BY <3>2, <3>3
  <2>2. HookOK(h)' BY <1>1, RestingHooks DEF HookOK
  <2>3. hooks'[Stop] # IdleHook => \A g \in Tools : hooks'[g] = IdleHook
    <3>1. CASE h = Stop BY <1>1, <3>1, RecallBounds
    <3>2. CASE h # Stop BY <1>0, <1>1, <3>2, RecallBounds DEF HooksOK, Hooks
    <3> QED BY <3>1, <3>2
  <2> QED BY <2>1, <2>2, <2>3 DEF HooksOK
<1>7. \A g \in Hooks \ {h} : ToldBy(g)' = ToldBy(g) BY <1>1 DEF ToldBy
<1> QED BY <1>1, <1>3, <1>4, <1>5, <1>6, <1>7

LEMMA HookFacts ==
  ASSUME RecallInv, NEW h \in Hooks
  PROVE  /\ RecallTypes /\ HooksOK /\ RecallsOK /\ MarkersOK /\ ToldOnce /\ ToldNow /\ ToldOK
         /\ HookOK(h) /\ hooks[h] \in HookRecords /\ Names(hooks[h].seq) /\ hooks[h].seq \in NoMarker..MaxTurns
         /\ LaterJob(recall, recall) /\ LaterJob(opening, opening)
         /\ opening # NoJob => opening.state \in {"running", "found", "empty"}
<1>1. RecallTypes /\ HooksOK /\ RecallsOK /\ MarkersOK /\ ToldOnce /\ ToldNow /\ ToldOK BY DEF RecallInv
<1>2. HookOK(h) /\ hooks[h] \in HookRecords /\ Names(hooks[h].seq) BY <1>1 DEF HooksOK, RecallTypes, MarkersOK
<1>3. hooks[h].seq \in NoMarker..MaxTurns BY <1>2 DEF HookRecords
<1>4. /\ LaterJob(recall, recall) /\ LaterJob(opening, opening)
      /\ opening # NoJob => opening.state \in {"running", "found", "empty"} BY <1>1 DEF RecallsOK, LaterJob
<1> QED BY <1>1, <1>2, <1>3, <1>4

LEMMA ToolReadsKeeps == ASSUME RecallInv, NEW h \in Tools, ToolReads(h) PROVE RecallInv'
<1>1. h \in Hooks /\ h # Stop BY RecallBounds
<1>2. /\ RecallTypes /\ HooksOK /\ RecallsOK /\ MarkersOK /\ ToldOnce /\ ToldNow /\ ToldOK
      /\ HookOK(h) /\ hooks[h] \in HookRecords BY <1>1, HookFacts
<1>3. /\ phase = "turn" /\ hooks[h].at = "idle" /\ hooks[Stop].at = "idle"
      /\ UNCHANGED <<turn, context, phase, opened, recall, opening, seqs, marker, nudge, shown, faults>>
  BY DEF ToolReads
<1>4. hooks[Stop] = IdleHook /\ hooks[h] = IdleHook BY <1>2, <1>3, RecallBounds DEF HooksOK, HookOK
<1>5. PICK k \in HookRecords, s \in NoMarker..MaxTurns : k = IdleHook /\ s = marker /\ Names(s)
  BY <1>2, <1>3, RestingHooks DEF RecallTypes, MarkersOK
<1>6. PICK r \in HookRecords : r = [k EXCEPT !.at = "read", !.seq = s] BY <1>5 DEF HookRecords
<1>7. hooks' = [hooks EXCEPT ![h] = r] BY <1>2, <1>4, <1>5, <1>6 DEF ToolReads, RecallTypes
<1>8. r.at = "read" /\ r.seq = s /\ r.jobs = << >> BY <1>5, <1>6, RestingHooks DEF HookRecords
<1>9. LaterJobs BY <1>2, <1>3, JobsStand
<1>10. Names(marker)' /\ Names(r.seq)' /\ marker' \in NoMarker..MaxTurns BY <1>3, <1>5, <1>8 DEF Names
<1>11. faults' \in 0..MaxFaults /\ shown' \in Seq(Tales) BY <1>2, <1>3 DEF RecallTypes
<1>12. /\ RecallTypes' /\ HooksOK' /\ RecallsOK' /\ MarkersOK'
       /\ \A t \in RecallJobs : TaleOK(t) => TaleOK(t)'
       /\ hooks'[h] = r /\ \A g \in Hooks \ {h} : hooks'[g] = hooks[g] /\ ToldBy(g)' = ToldBy(g)
  BY <1>1, <1>3, <1>4, <1>7, <1>8, <1>9, <1>10, <1>11, HookMovesOn
<1>13. ToldShown' = ToldShown /\ ToldBy(h)' = {} /\ Distinct(hooks[h].jobs)' /\ ShownDiffer' = ShownDiffer
  BY <1>3, <1>8, <1>12 DEF ToldShown, ToldBy, Distinct, ShownDiffer
<1>14. ToldOnce' BY <1>2, <1>12, <1>13 DEF ToldOnce, Distinct
<1>15. ToldNow' BY <1>2, <1>3, <1>12, <1>13 DEF ToldNow
<1>16. ToldOK' BY <1>2, <1>12, <1>13, ToldAreJobs DEF ToldOK
<1> QED BY <1>12, <1>14, <1>15, <1>16 DEF RecallInv

------------------------
\* What an answer tells, and what it leaves behind.
Told(t, seq, waits) ==
  \/ t = opening /\ opening # NoJob /\ opening.state = "found" /\ Taken(seq, waits) = NoJob
  \/ /\ t = recall /\ recall # NoJob /\ recall.state = "found" /\ recall.seq = seq
     /\ Delivered(seq).state = "delivered"
AnswerNames == {"none", "deferred", "pending", "ready", "empty", "delivered", "stale"}
OpenAnswers == [answer : AnswerNames, jobs : Seq(RecallJobs), next : {NoMarker, OpenSeq}]
AnswerOK(a, seq, waits) ==
  /\ a \in OpenAnswers /\ Distinct(a.jobs)
  /\ \A i \in DOMAIN a.jobs : Told(a.jobs[i], seq, waits)

LEMMA AnswerIs ==
  ASSUME NEW n \in AnswerNames, NEW js \in Seq(RecallJobs), NEW m \in {NoMarker, OpenSeq}
  PROVE  /\ Answer(n, js, m) \in OpenAnswers /\ Answer(n, js, m).jobs = js
         /\ Answer(n, js, m).answer = n /\ Answer(n, js, m).next = m BY DEF Answer, OpenAnswers

LEMMA SilentAnswer ==
  ASSUME NEW n \in AnswerNames, NEW m \in {NoMarker, OpenSeq}, NEW seq, NEW waits
  PROVE  AnswerOK(Answer(n, << >>, m), seq, waits)
<1>1. PICK js \in Seq(RecallJobs) : js = << >> /\ DOMAIN js = {}
  <2>1. << >> \in Seq(RecallJobs) /\ DOMAIN << >> = {} OBVIOUS
  <2> QED BY <2>1
<1>2. Answer(n, js, m) \in OpenAnswers /\ Answer(n, js, m).jobs = js BY AnswerIs
<1> QED BY <1>1, <1>2 DEF AnswerOK, Distinct

LEMMA OneJob ==
  ASSUME NEW n \in AnswerNames, NEW m \in {NoMarker, OpenSeq}, NEW seq, NEW waits, NEW t \in RecallJobs,
         Told(t, seq, waits)
  PROVE  AnswerOK(Answer(n, <<t>>, m), seq, waits)
<1>1. PICK js \in Seq(RecallJobs) : js = <<t>> /\ DOMAIN js = 1..1 /\ js[1] = t
  <2>1. <<t>> \in Seq(RecallJobs) /\ DOMAIN <<t>> = 1..1 /\ <<t>>[1] = t OBVIOUS
  <2> QED BY <2>1
<1>2. Answer(n, js, m) \in OpenAnswers /\ Answer(n, js, m).jobs = js BY AnswerIs
<1>3. 1..1 = {1} OBVIOUS
<1> QED BY <1>1, <1>2, <1>3 DEF AnswerOK, Distinct

LEMMA TwoJobs ==
  ASSUME NEW n \in AnswerNames, NEW m \in {NoMarker, OpenSeq}, NEW seq, NEW waits, NEW t \in RecallJobs,
         NEW u \in RecallJobs, Told(t, seq, waits), Told(u, seq, waits), t # u
  PROVE  AnswerOK(Answer(n, <<t>> \o <<u>>, m), seq, waits)
<1>1. <<t>> \in Seq(RecallJobs) /\ <<u>> \in Seq(RecallJobs) /\ Len(<<t>>) = 1 /\ Len(<<u>>) = 1
      /\ <<t>>[1] = t /\ <<u>>[1] = u OBVIOUS
<1>2. PICK a \in Seq(RecallJobs), b \in Seq(RecallJobs) :
           a = <<t>> /\ b = <<u>> /\ Len(a) = 1 /\ Len(b) = 1 /\ a[1] = t /\ b[1] = u BY <1>1
<1>3. PICK js \in Seq(RecallJobs) : js = a \o b /\ Len(js) = 2 /\ DOMAIN js = 1..2 /\ js[1] = t /\ js[2] = u
  <2>1. a \o b \in Seq(RecallJobs) /\ Len(a \o b) = 2 BY <1>2
  <2>2. (a \o b)[1] = a[1] /\ (a \o b)[2] = b[1] BY <1>2
  <2>3. DOMAIN (a \o b) = 1..2 BY <2>1
  <2> QED BY <1>2, <2>1, <2>2, <2>3
<1>4. Answer(n, js, m) \in OpenAnswers /\ Answer(n, js, m).jobs = js BY AnswerIs
<1>5. 1..2 = {1, 2} OBVIOUS
<1>6. \A i \in DOMAIN js : (i = 1 /\ js[i] = t) \/ (i = 2 /\ js[i] = u) BY <1>3, <1>5
<1>7. Distinct(js) BY <1>6 DEF Distinct
<1>8. \A i \in DOMAIN js : Told(js[i], seq, waits) BY <1>6
<1>9. AnswerOK(Answer(n, js, m), seq, waits) BY <1>4, <1>7, <1>8 DEF AnswerOK
<1> QED BY <1>2, <1>3, <1>9

LEMMA OpenAnswerIs ==
  ASSUME RecallTypes, RecallsOK, NEW seq, ForOpening(seq), NEW waits \in BOOLEAN
  PROVE  AnswerOK(OpenAnswer(waits), seq, waits)
<1>1. opening # NoJob /\ opening.state \in {"running", "found", "empty"} /\ opening \in RecallJobs
  BY DEF ForOpening, RecallsOK, RecallTypes
<1>2. NoMarker \in {NoMarker, OpenSeq} /\ {"deferred", "pending", "ready", "empty"} \subseteq AnswerNames
  BY DEF AnswerNames
<1>3. CASE waits
  <2>1. OpenAnswer(waits) = Answer("deferred", << >>, NoMarker) BY <1>3, <1>1 DEF OpenAnswer
  <2> QED BY <2>1, <1>2, SilentAnswer
<1>4. CASE ~waits /\ opening.state = "running"
  <2>1. OpenAnswer(waits) = Answer("pending", << >>, NoMarker) BY <1>4, <1>1 DEF OpenAnswer
  <2> QED BY <2>1, <1>2, SilentAnswer
<1>5. CASE ~waits /\ opening.state = "empty"
  <2>1. OpenAnswer(waits) = Answer("empty", << >>, NoMarker) BY <1>5, <1>1 DEF OpenAnswer
  <2> QED BY <2>1, <1>2, SilentAnswer
<1>6. CASE ~waits /\ opening.state = "found"
  <2>1. OpenAnswer(waits) = Answer("ready", <<opening>>, NoMarker) BY <1>6, <1>1 DEF OpenAnswer
  <2>2. Told(opening, seq, waits) BY <1>1, <1>6 DEF Told, Taken, Finished
  <2> QED BY <2>1, <2>2, <1>1, <1>2, OneJob
<1> QED BY <1>1, <1>3, <1>4, <1>5, <1>6

LEMMA RecallAnswerIs ==
  ASSUME RecallTypes, RecallsOK, NEW seq, ~ForOpening(seq), ForRecall(seq), NEW waits \in BOOLEAN
  PROVE  AnswerOK(RecallAnswer(waits), seq, waits)
<1>1. /\ recall # NoJob /\ recall.seq = seq /\ recall \in RecallJobs /\ opening \in RecallJobs /\ recall.seq >= 1
      /\ recall.state \in {"running", "found", "empty", "delivered"}
      /\ opening # NoJob => opening.seq = OpenSeq BY DEF ForRecall, RecallsOK, RecallTypes, RecallJobs, JobStates
<1>2. NoMarker \in {NoMarker, OpenSeq} /\ {"deferred", "pending", "ready", "empty", "delivered"} \subseteq AnswerNames
  BY DEF AnswerNames
<1>3. Points(waits) \in {NoMarker, OpenSeq} BY <1>1, NoJobIs DEF Points, Claimable
<1>4. CASE recall.state = "running"
  <2>1. RecallAnswer(waits) = Answer("pending", << >>, NoMarker) BY <1>4 DEF RecallAnswer
  <2> QED BY <2>1, <1>2, SilentAnswer
<1>5. CASE recall.state = "delivered"
  <2>1. RecallAnswer(waits) = Answer("delivered", << >>, Points(waits)) BY <1>5 DEF RecallAnswer
  <2> QED BY <2>1, <1>2, <1>3, SilentAnswer
<1>6. CASE recall.state = "found"
  <2>1. RecallAnswer(waits) = Answer("ready", Along(waits, TRUE) \o <<recall>>,
                                     IF Along(waits, TRUE) = << >> THEN Points(waits) ELSE NoMarker)
    BY <1>6 DEF RecallAnswer
  <2>2. Told(recall, seq, waits)
    <3>1. [recall EXCEPT !.state = "delivered"].state = "delivered" BY <1>1 DEF RecallJobs
    <3> QED BY <1>1, <1>6, <3>1 DEF Told, Delivered, Finished
  <2>3. PICK m \in {NoMarker, OpenSeq} : m = IF Along(waits, TRUE) = << >> THEN Points(waits) ELSE NoMarker BY <1>3
  <2>4. CASE opening.state = "found"
    <3>1. opening # NoJob BY <2>4, NoJobIs
    <3>2. Along(waits, TRUE) = <<opening>> BY <2>4 DEF Along, Finished
    <3>3. Told(opening, seq, waits) BY <1>1, <1>6, <2>4, <3>1 DEF Told, Taken, Finished
    <3>4. opening # recall BY <1>1, <3>1, RecallBounds
    <3> QED BY <1>1, <1>2, <2>1, <2>2, <2>3, <3>2, <3>3, <3>4, TwoJobs
  <2>5. CASE opening.state # "found"
    <3>1. Along(waits, TRUE) = << >> BY <2>5 DEF Along
    <3>2. << >> \o <<recall>> = <<recall>> BY <1>1
    <3> QED BY <1>1, <1>2, <2>1, <2>2, <2>3, <3>1, <3>2, OneJob
  <2> QED BY <2>4, <2>5
<1>7. CASE recall.state = "empty"
  <2>1. CASE opening.state = "found" /\ ~waits
    <3>1. opening # NoJob BY <2>1, NoJobIs
    <3>2. Along(waits, FALSE) = <<opening>> /\ <<opening>> # << >> BY <2>1 DEF Along, Finished
    <3>3. RecallAnswer(waits) = Answer("ready", <<opening>>, NoMarker) BY <1>7, <3>2 DEF RecallAnswer
    <3>4. Told(opening, seq, waits) BY <1>1, <1>7, <2>1, <3>1 DEF Told, Taken, Finished
    <3> QED BY <1>1, <1>2, <3>3, <3>4, OneJob
  <2>2. CASE ~(opening.state = "found" /\ ~waits)
    <3>1. Along(waits, FALSE) = << >> BY <2>2 DEF Along
    <3>2. RecallAnswer(waits) = Answer("empty", << >>, Points(waits)) BY <1>7, <3>1 DEF RecallAnswer
    <3> QED BY <3>2, <1>2, <1>3, SilentAnswer
  <2> QED BY <2>1, <2>2
<1> QED BY <1>1, <1>4, <1>5, <1>6, <1>7

LEMMA ClaimedIs ==
  ASSUME RecallTypes, RecallsOK, NEW seq, NEW waits \in BOOLEAN
  PROVE  AnswerOK(Claimed(seq, waits), seq, waits)
<1>1. CASE ForOpening(seq)
  <2>1. Claimed(seq, waits) = OpenAnswer(waits) BY <1>1 DEF Claimed
  <2> QED BY <1>1, <2>1, OpenAnswerIs
<1>2. CASE ~ForOpening(seq) /\ ForRecall(seq)
  <2>1. Claimed(seq, waits) = RecallAnswer(waits) BY <1>2 DEF Claimed
  <2> QED BY <1>2, <2>1, RecallAnswerIs
<1>3. CASE ~ForOpening(seq) /\ ~ForRecall(seq)
  <2>1. Claimed(seq, waits) = Answer("stale", << >>, NoMarker) BY <1>3 DEF Claimed
  <2>2. "stale" \in AnswerNames /\ NoMarker \in {NoMarker, OpenSeq} BY DEF AnswerNames
  <2> QED BY <2>1, <2>2, SilentAnswer
<1> QED BY <1>1, <1>2, <1>3

LEMMA ClaimedJobs ==
  ASSUME RecallTypes, RecallsOK, NEW seq, NEW waits,
         (recall' = Delivered(seq) /\ opening' = Taken(seq, waits)) \/ UNCHANGED <<recall, opening>>
  PROVE  LaterJobs
<1>1. recall \in RecallJobs /\ opening \in RecallJobs BY DEF RecallTypes
<1>2. opening' \in {opening, NoJob} BY DEF Taken
<1>3. CASE recall' = recall BY <1>2, <1>3, JobsStand
<1>4. CASE recall' # recall
  <2>1. recall' = [recall EXCEPT !.state = "delivered"] /\ Finished(recall) /\ recall # NoJob
    BY <1>4 DEF Delivered, ForRecall
  <2>2. PICK p \in RecallJobs : p = recall BY <1>1
  <2>3. PICK q \in RecallJobs : q = [p EXCEPT !.state = "delivered"] BY DEF RecallJobs, JobStates
  <2>4. q.seq = p.seq /\ q.turn = p.turn /\ q.context = p.context /\ q.state = "delivered" BY <2>3 DEF RecallJobs
  <2>5. p.state # "delivered" BY <2>1, <2>2 DEF Finished
  <2>6. LaterJob(recall, recall') BY <2>1, <2>2, <2>3, <2>4, <2>5 DEF LaterJob
  <2>7. LaterJob(opening, opening') /\ opening' \in RecallJobs
        /\ (opening' # NoJob => opening'.state \in {"running", "found", "empty"})
    <3>1. LaterJob(opening, opening) BY DEF LaterJob, RecallsOK
    <3>2. LaterJob(opening, NoJob) BY DEF LaterJob
    <3> QED BY <1>1, <1>2, <3>1, <3>2, NoJobIs DEF RecallsOK
  <2> QED BY <2>1, <2>2, <2>3, <2>6, <2>7 DEF LaterJobs
<1> QED BY <1>3, <1>4

LEMMA ClaimKeepsRecall ==
  ASSUME RecallInv, NEW h \in Hooks, NEW reach \in Reaches, Claim(h, reach)
  PROVE  RecallInv'
<1>2. /\ RecallTypes /\ HooksOK /\ RecallsOK /\ MarkersOK /\ ToldOnce /\ ToldNow /\ ToldOK
      /\ HookOK(h) /\ hooks[h] \in HookRecords /\ Names(hooks[h].seq) /\ hooks[h].seq \in NoMarker..MaxTurns
  BY HookFacts
<1>3. PICK seq \in NoMarker..MaxTurns, waits \in BOOLEAN : seq = hooks[h].seq /\ waits = (h = Stop) BY <1>2
<1>4. PICK a : a = IF reach = "answered" THEN Claimed(seq, waits) ELSE Answer("none", << >>, NoMarker) OBVIOUS
<1>5. AnswerOK(a, seq, waits)
  <2>1. "none" \in AnswerNames /\ NoMarker \in {NoMarker, OpenSeq} BY DEF AnswerNames
  <2> QED BY <1>2, <1>4, <2>1, ClaimedIs, SilentAnswer
<1>6. /\ hooks[h].at = "read" /\ hooks' = Got(h, a) /\ Counted(reach)
      /\ UNCHANGED <<turn, context, phase, opened, seqs, marker, nudge, shown>>
      /\ IF Handled(reach) THEN recall' = Delivered(seq) /\ opening' = Taken(seq, waits)
         ELSE UNCHANGED <<recall, opening>> BY <1>3, <1>4 DEF Claim
<1>7. PICK k \in HookRecords : k = hooks[h] /\ k.at = "read" /\ k # IdleHook /\ k.jobs = << >>
  BY <1>2, <1>6, RestingHooks DEF HookOK
<1>8. phase = "turn" /\ phase' = "turn" BY <1>2, <1>6, <1>7 DEF HookOK
<1>9. PICK n \in AnswerNames, js \in Seq(RecallJobs), m \in {NoMarker, OpenSeq} :
           n = a.answer /\ js = a.jobs /\ m = a.next BY <1>5 DEF AnswerOK, OpenAnswers
<1>10. NoMarker \in NoMarker..MaxTurns BY RecallBounds
<1>11. PICK r \in HookRecords : r = [k EXCEPT !.at = "answered", !.answer = n, !.jobs = js, !.next = m, !.seq = NoMarker]
  BY <1>10 DEF HookRecords, AnswerNames
<1>12. hooks' = [hooks EXCEPT ![h] = r]
  <2>1. hooks \in [Hooks -> HookRecords] BY <1>2 DEF RecallTypes
  <2> QED BY <2>1, <1>6, <1>7, <1>9, <1>11 DEF Got
<1>13. r.at = "answered" /\ r.jobs = js /\ r.seq = NoMarker BY <1>11 DEF HookRecords
<1>14. LaterJobs BY <1>2, <1>6, ClaimedJobs
<1>15. faults' \in 0..MaxFaults /\ shown' \in Seq(Tales) /\ marker' \in NoMarker..MaxTurns
  BY <1>2, <1>6, FaultsCount DEF RecallTypes
<1>16. Names(NoMarker)' /\ Names(r.seq)' BY <1>13, RecallBounds DEF Names
<1>17. Names(marker)'
  <2>1. PICK x \in NoMarker..MaxTurns : x = marker /\ Names(x) BY <1>2, <1>8 DEF RecallTypes, MarkersOK
  <2>2. Names(x)' BY <1>2, <1>6, <1>14, <2>1, JobsGoOn
  <2> QED BY <1>6, <2>1, <2>2 DEF Names
<1>18. /\ h = Stop => \A g \in Tools : hooks[g] = IdleHook
       /\ h # Stop => hooks[Stop] = IdleHook BY <1>2, <1>7 DEF HooksOK, Hooks
<1>19. /\ RecallTypes' /\ HooksOK' /\ RecallsOK' /\ MarkersOK'
       /\ \A t \in RecallJobs : TaleOK(t) => TaleOK(t)'
       /\ hooks'[h] = r /\ \A g \in Hooks \ {h} : hooks'[g] = hooks[g] /\ ToldBy(g)' = ToldBy(g)
  BY <1>6, <1>8, <1>12, <1>13, <1>14, <1>15, <1>16, <1>17, <1>18, HookMovesOn
\* What the answer tells was not told before.
<1>20. ToldShown' = ToldShown /\ ShownDiffer' = ShownDiffer BY <1>6 DEF ToldShown, ShownDiffer
<1>21. ToldBy(h)' = {js[i] : i \in DOMAIN js} /\ Distinct(hooks[h].jobs)' /\ ToldBy(h) = {}
  <2>1. Distinct(js) BY <1>5, <1>9 DEF AnswerOK
  <2> QED BY <1>7, <1>13, <1>19, <2>1 DEF ToldBy, Distinct
<1>22. ASSUME NEW t \in ToldBy(h)'
       PROVE  /\ t \in RecallJobs /\ TaleOK(t)' /\ (t.seq # OpenSeq => t.turn = turn /\ t.context = context)
              /\ \A u \in RecallJobs : TaleOK(u) => u # t
  <2>1. PICK i \in DOMAIN js : t = js[i] BY <1>21, <1>22
  <2>2. t \in RecallJobs /\ Told(t, seq, waits) BY <1>5, <1>9, <2>1 DEF AnswerOK
  <2>3. CASE reach # "answered"
    <3>1. js = << >> /\ DOMAIN << >> = {}
      <4>1. a = Answer("none", << >>, NoMarker) BY <1>4, <2>3
      <4>2. a.jobs = << >> BY <4>1 DEF Answer
      <4> QED BY <4>2, <1>9
    <3> QED BY <2>1, <3>1
  <2>4. CASE reach = "answered"
    <3>1. recall' = Delivered(seq) /\ opening' = Taken(seq, waits) BY <1>6, <2>4 DEF Handled
    <3>2. CASE t = opening /\ opening # NoJob /\ opening.state = "found" /\ Taken(seq, waits) = NoJob
      <4>1. t.seq = OpenSeq /\ t.context <= context BY <1>2, <3>2 DEF RecallsOK
      <4>2. opening' = NoJob BY <3>1, <3>2
      <4>3. TaleOK(t)' BY <1>6, <1>8, <4>1, <4>2 DEF TaleOK
      <4>4. \A u \in RecallJobs : TaleOK(u) => u # t BY <3>2, <4>1 DEF TaleOK
      <4> QED BY <2>2, <4>1, <4>3, <4>4
    <3>3. CASE /\ t = recall /\ recall # NoJob /\ recall.state = "found" /\ recall.seq = seq
               /\ Delivered(seq).state = "delivered"
      <4>1. t.seq # OpenSeq /\ t.seq > 0 BY <1>2, <3>3, RecallBounds DEF RecallsOK, RecallTypes, RecallJobs
      <4>2. t.turn = turn /\ t.context = context BY <1>2, <1>3, <3>3, <4>1 DEF Names
      <4>3. context <= context BY <1>2, RecallBounds DEF RecallTypes
      <4>4. TaleOK(t)' BY <1>6, <1>8, <3>1, <3>3, <4>1, <4>2, <4>3 DEF TaleOK
      <4>5. \A u \in RecallJobs : TaleOK(u) => u # t BY <3>3, <4>1 DEF TaleOK
      <4> QED BY <2>2, <4>1, <4>2, <4>4, <4>5
    <3> QED BY <2>2, <3>2, <3>3 DEF Told
  <2> QED BY <2>3, <2>4
<1>23. \A t \in ToldBy(h)' : t \notin ToldShown /\ \A g \in Hooks : t \notin ToldBy(g)
  BY <1>2, <1>22, ToldAreJobs DEF ToldOK
<1>24. ToldOnce'
  <2>1. ASSUME NEW g \in Hooks PROVE Distinct(hooks[g].jobs)' /\ ToldBy(g)' \cap ToldShown' = {}
    <3>1. CASE g = h BY <1>20, <1>21, <1>23, <3>1
    <3>2. CASE g # h BY <1>2, <1>19, <1>20, <3>2 DEF ToldOnce, Distinct
    <3> QED BY <3>1, <3>2
  <2>2. ASSUME NEW f \in Hooks, NEW g \in Hooks, f # g PROVE ToldBy(f)' \cap ToldBy(g)' = {}
    <3>1. CASE f # h /\ g # h BY <1>2, <1>19, <2>2, <3>1 DEF ToldOnce
    <3>2. CASE f = h BY <1>19, <1>23, <2>2, <3>2
    <3>3. CASE g = h BY <1>19, <1>23, <2>2, <3>3
    <3> QED BY <3>1, <3>2, <3>3
  <2> QED BY <1>2, <1>20, <2>1, <2>2 DEF ToldOnce
<1>25. ToldNow'
  <2>1. ASSUME NEW g \in Hooks, NEW t \in ToldBy(g)' PROVE t.seq # OpenSeq => t.turn = turn' /\ t.context = context'
    <3>1. CASE g = h BY <1>6, <1>22, <2>1, <3>1
    <3>2. CASE g # h BY <1>2, <1>6, <1>19, <2>1, <3>2 DEF ToldNow
    <3> QED BY <3>1, <3>2
  <2> QED BY <1>2, <1>6, <2>1 DEF ToldNow
<1>26. ToldOK'
  <2>1. ASSUME NEW g \in Hooks, NEW t \in ToldBy(g)' PROVE TaleOK(t)'
    <3>1. CASE g = h BY <1>22, <2>1, <3>1
    <3>2. CASE g # h BY <1>2, <1>19, <2>1, <3>2, ToldAreJobs DEF ToldOK
    <3> QED BY <3>1, <3>2
  <2>2. \A t \in ToldShown' : TaleOK(t)' BY <1>2, <1>19, <1>20, ToldAreJobs DEF ToldOK
  <2> QED BY <2>1, <2>2 DEF ToldOK
<1> QED BY <1>19, <1>24, <1>25, <1>26 DEF RecallInv

------------------------
\* What a hook shows is added to what was shown.
LEMMA JoinIs ==
  ASSUME NEW S, NEW s \in Seq(S), NEW t \in Seq(S)
  PROVE  /\ s \o t \in Seq(S)
         /\ DOMAIN (s \o t) = 1..(Len(s) + Len(t)) /\ Len(s) \in Nat /\ Len(t) \in Nat
         /\ \A i \in 1..Len(s) : (s \o t)[i] = s[i]
         /\ \A i \in 1..Len(t) : (s \o t)[Len(s) + i] = t[i]
         /\ DOMAIN s = 1..Len(s) /\ DOMAIN t = 1..Len(t) OBVIOUS

LEMMA DisplayedIs ==
  ASSUME RecallTypes, ToldOnce, ToldNow, NEW h \in Hooks, shown' = Displayed(h)
  PROVE  /\ shown' \in Seq(Tales) /\ ToldShown' = ToldShown \cup ToldBy(h)
         /\ ShownDiffer' /\ ShownNow'
<1>1. PICK js \in Seq(RecallJobs), u \in 0..MaxTurns, c \in 0..MaxOpenings, s \in Seq(Tales) :
           js = hooks[h].jobs /\ u = turn /\ c = context /\ s = shown BY DEF RecallTypes, HookRecords
<1> DEFINE d == [i \in 1..Len(js) |-> [job |-> js[i], turn |-> u, context |-> c]]
<1>2. Len(js) \in Nat /\ DOMAIN js = 1..Len(js) OBVIOUS
<1>3. \A i \in 1..Len(js) : [job |-> js[i], turn |-> u, context |-> c] \in Tales BY <1>2 DEF Tales
<1>4. d \in Seq(Tales) /\ Len(d) = Len(js) BY <1>2, <1>3
<1>5. PICK t \in Seq(Tales) : /\ t = d /\ Len(t) = Len(js)
                              /\ \A i \in 1..Len(js) : t[i].job = js[i] /\ t[i].turn = u /\ t[i].context = c BY <1>4
<1>6. PICK w \in Seq(Tales) : w = s \o t BY JoinIs
<1>7. shown' = w BY <1>1, <1>5, <1>6 DEF Displayed
<1>8. /\ DOMAIN w = 1..(Len(s) + Len(js)) /\ Len(s) \in Nat /\ DOMAIN s = 1..Len(s)
      /\ \A i \in 1..Len(s) : w[i] = s[i]
      /\ \A i \in 1..Len(js) : w[Len(s) + i] = t[i] BY <1>5, <1>6, JoinIs
<1> HIDE DEF d
<1>9. \A i \in DOMAIN w : \/ i \in DOMAIN s /\ w[i] = s[i]
                        \/ \E k \in DOMAIN js : i = Len(s) + k /\ w[i].job = js[k] /\ w[i].turn = u /\ w[i].context = c
  <2> SUFFICES ASSUME NEW i \in 1..(Len(s) + Len(js))
               PROVE  \/ i \in 1..Len(s) /\ w[i] = s[i]
                      \/ \E k \in 1..Len(js) : i = Len(s) + k /\ w[i].job = js[k] /\ w[i].turn = u /\ w[i].context = c
    BY <1>2, <1>8
  <2>1. CASE i <= Len(s) BY <1>2, <1>8, <2>1
  <2>2. CASE i > Len(s)
    <3>1. i - Len(s) \in 1..Len(js) /\ i = Len(s) + (i - Len(s)) BY <1>2, <1>8, <2>2
    <3>2. PICK k \in 1..Len(js) : i = Len(s) + k BY <3>1
    <3>3. w[i] = t[k] BY <1>8, <3>2
    <3> QED BY <1>5, <3>2, <3>3
  <2> QED BY <1>2, <1>8, <2>1, <2>2
<1>10. /\ \A i \in DOMAIN s : i \in DOMAIN w /\ w[i] = s[i]
       /\ \A k \in DOMAIN js : Len(s) + k \in DOMAIN w /\ w[Len(s) + k].job = js[k]
  <2>1. Len(s) \in Nat /\ Len(js) \in Nat OBVIOUS
  <2>2. \A i \in 1..Len(s) : i \in 1..(Len(s) + Len(js)) BY <2>1
  <2>3. \A k \in 1..Len(js) : Len(s) + k \in 1..(Len(s) + Len(js)) BY <2>1
  <2> QED BY <1>2, <1>5, <1>8, <2>2, <2>3
<1>11. ToldShown' = {w[i].job : i \in DOMAIN w} /\ ToldShown = {s[i].job : i \in DOMAIN s}
       /\ ToldBy(h) = {js[k] : k \in DOMAIN js} BY <1>1, <1>7 DEF ToldShown, ToldBy
<1>12. ToldShown' = ToldShown \cup ToldBy(h)
  <2>1. \A i \in DOMAIN w : w[i].job \in ToldShown \cup ToldBy(h) BY <1>9, <1>11
  <2>2. \A i \in DOMAIN s : s[i].job \in ToldShown' BY <1>10, <1>11
  <2>3. \A k \in DOMAIN js : js[k] \in ToldShown' BY <1>10, <1>11
  <2> QED BY <1>11, <2>1, <2>2, <2>3
<1>13. /\ \A i, k \in DOMAIN s : s[i].job = s[k].job => i = k
       /\ \A i, k \in DOMAIN js : js[i] = js[k] => i = k
       /\ \A i \in DOMAIN s, k \in DOMAIN js : s[i].job # js[k]
  <2>1. ShownDiffer /\ Distinct(hooks[h].jobs) /\ ToldBy(h) \cap ToldShown = {} BY DEF ToldOnce
  <2>2. \A i, k \in DOMAIN s : s[i].job = s[k].job => i = k BY <1>1, <2>1 DEF ShownDiffer
  <2>3. \A i, k \in DOMAIN js : js[i] = js[k] => i = k BY <1>1, <2>1 DEF Distinct
  <2>4. \A i \in DOMAIN s, k \in DOMAIN js : s[i].job # js[k]
    <3>1. \A i \in DOMAIN s : s[i].job \in ToldShown BY <1>11
    <3>2. \A k \in DOMAIN js : js[k] \in ToldBy(h) BY <1>11
    <3> QED BY <2>1, <3>1, <3>2
  <2> QED BY <2>2, <2>3, <2>4
<1>14. \A i, k \in DOMAIN w : w[i].job = w[k].job => i = k
  <2> SUFFICES ASSUME NEW i \in DOMAIN w, NEW k \in DOMAIN w, w[i].job = w[k].job PROVE i = k OBVIOUS
  <2>1. CASE i \in DOMAIN s /\ w[i] = s[i] /\ k \in DOMAIN s /\ w[k] = s[k] BY <1>13, <2>1
  <2>2. CASE i \in DOMAIN s /\ w[i] = s[i] /\ \E n \in DOMAIN js : k = Len(s) + n /\ w[k].job = js[n] BY <1>13, <2>2
  <2>3. CASE k \in DOMAIN s /\ w[k] = s[k] /\ \E n \in DOMAIN js : i = Len(s) + n /\ w[i].job = js[n] BY <1>13, <2>3
  <2>4. CASE /\ \E n \in DOMAIN js : i = Len(s) + n /\ w[i].job = js[n]
             /\ \E n \in DOMAIN js : k = Len(s) + n /\ w[k].job = js[n] BY <1>13, <2>4
  <2> QED BY <1>9, <2>1, <2>2, <2>3, <2>4
<1>15. ShownDiffer' BY <1>7, <1>14 DEF ShownDiffer
<1>16. /\ \A i \in DOMAIN s : s[i].job.seq # OpenSeq => s[i].turn = s[i].job.turn /\ s[i].context = s[i].job.context
       /\ \A k \in DOMAIN js : js[k].seq # OpenSeq => js[k].turn = u /\ js[k].context = c BY <1>1, <1>11 DEF ToldNow
<1>17. ShownNow'
  <2>1. ASSUME NEW i \in DOMAIN w, w[i].job.seq # OpenSeq
        PROVE  w[i].turn = w[i].job.turn /\ w[i].context = w[i].job.context BY <1>9, <1>16, <2>1
  <2> QED BY <1>7, <2>1 DEF ShownNow
<1> QED BY <1>7, <1>12, <1>15, <1>17

LEMMA HookEnds ==
  ASSUME RecallInv, NEW h \in Hooks, hooks[h].at = "answered", NEW r \in {IdleHook, DoneHook},
         hooks' = [hooks EXCEPT ![h] = r], marker' = Moved(h), shown' = Displayed(h),
         UNCHANGED <<turn, context, opened, recall, opening, seqs, nudge, faults>>,
         phase' = "turn" \/ (phase' = "idle" /\ h = Stop /\ r = IdleHook),
         h = Stop => r = IdleHook
  PROVE  RecallInv'
<1>1. /\ RecallTypes /\ HooksOK /\ RecallsOK /\ MarkersOK /\ ToldOnce /\ ToldNow /\ ToldOK
      /\ HookOK(h) /\ hooks[h] \in HookRecords BY HookFacts
<1>2. hooks[h] # IdleHook /\ phase = "turn" BY <1>1, RestingHooks DEF HookOK
<1>3. r \in HookRecords /\ r.seq = NoMarker /\ r.jobs = << >> /\ r.at \in {"idle", "done"}
      /\ (r.at = "idle" => r = IdleHook) /\ (r.at = "done" => r = DoneHook) BY RestingHooks
<1>4. LaterJobs BY <1>1, JobsStand
<1>5. /\ shown' \in Seq(Tales) /\ ToldShown' = ToldShown \cup ToldBy(h) /\ ShownDiffer' /\ ShownNow'
  BY <1>1, DisplayedIs
<1>6. marker' \in {marker, NoMarker, OpenSeq}
  <2>1. hooks[h].next \in {NoMarker, OpenSeq} BY <1>1 DEF HookRecords
  <2> QED BY <2>1 DEF Moved
<1>7. Names(marker)' /\ Names(r.seq)' /\ marker' \in NoMarker..MaxTurns
  <2>1. Names(marker) BY <1>1, <1>2 DEF MarkersOK
  <2>2. marker' \in NoMarker..MaxTurns BY <1>1, <1>6, RecallBounds DEF RecallTypes
  <2>3. Names(marker)' BY <1>6, <2>1, RecallBounds DEF Names
  <2>4. Names(r.seq)' BY <1>3, RecallBounds DEF Names
  <2> QED BY <2>2, <2>3, <2>4
<1>8. faults' \in 0..MaxFaults BY <1>1 DEF RecallTypes
<1>9. h # Stop => hooks[Stop] = IdleHook BY <1>1, <1>2 DEF HooksOK, Hooks
<1>10. /\ RecallTypes' /\ HooksOK' /\ RecallsOK' /\ MarkersOK'
       /\ \A t \in RecallJobs : TaleOK(t) => TaleOK(t)'
       /\ hooks'[h] = r /\ \A g \in Hooks \ {h} : hooks'[g] = hooks[g] /\ ToldBy(g)' = ToldBy(g)
  BY <1>2, <1>3, <1>4, <1>5, <1>7, <1>8, <1>9, HookMovesOn
<1>11. ToldBy(h)' = {} /\ Distinct(hooks[h].jobs)' BY <1>3, <1>10 DEF ToldBy, Distinct
<1>12. ToldOnce'
  <2>1. ASSUME NEW g \in Hooks PROVE Distinct(hooks[g].jobs)' /\ ToldBy(g)' \cap ToldShown' = {}
    <3>1. CASE g = h BY <1>11, <3>1
    <3>2. CASE g # h
      <4>1. ToldBy(g) \cap ToldShown = {} /\ ToldBy(g) \cap ToldBy(h) = {} /\ Distinct(hooks[g].jobs)
        BY <1>1, <3>2 DEF ToldOnce
      <4>2. ToldBy(g)' = ToldBy(g) /\ hooks'[g] = hooks[g] BY <1>10, <3>2
      <4>3. Distinct(hooks[g].jobs)' BY <4>1, <4>2 DEF Distinct
      <4> QED BY <1>5, <4>1, <4>2, <4>3
    <3> QED BY <3>1, <3>2
  <2>2. ASSUME NEW f \in Hooks, NEW g \in Hooks, f # g PROVE ToldBy(f)' \cap ToldBy(g)' = {}
    <3>1. CASE f # h /\ g # h BY <1>1, <1>10, <2>2, <3>1 DEF ToldOnce
    <3>2. CASE f = h \/ g = h BY <1>11, <3>2
    <3> QED BY <3>1, <3>2
  <2> QED BY <1>5, <2>1, <2>2 DEF ToldOnce
<1>13. ToldNow'
  <2>1. ASSUME NEW g \in Hooks, NEW t \in ToldBy(g)' PROVE t.seq # OpenSeq => t.turn = turn' /\ t.context = context'
    <3>1. CASE g = h BY <1>11, <2>1, <3>1
    <3>2. CASE g # h BY <1>1, <1>10, <2>1, <3>2 DEF ToldNow
    <3> QED BY <3>1, <3>2
  <2> QED BY <1>5, <2>1 DEF ToldNow, ShownNow
<1>14. ToldOK'
  <2>1. ASSUME NEW g \in Hooks, NEW t \in ToldBy(g)' PROVE TaleOK(t)'
    <3>1. CASE g = h BY <1>11, <2>1, <3>1
    <3>2. CASE g # h BY <1>1, <1>10, <2>1, <3>2, ToldAreJobs DEF ToldOK
    <3> QED BY <3>1, <3>2
  <2>2. ASSUME NEW t \in ToldShown' PROVE TaleOK(t)'
    <3>1. t \in RecallJobs /\ TaleOK(t) BY <1>1, <1>5, <2>2, ToldAreJobs DEF ToldOK
    <3> QED BY <1>10, <3>1
  <2> QED BY <2>1, <2>2 DEF ToldOK
<1> QED BY <1>10, <1>12, <1>13, <1>14 DEF RecallInv

LEMMA ToolEndsKeeps == ASSUME RecallInv, NEW h \in Hooks, ToolEnds(h) PROVE RecallInv'
<1>1. phase = "turn" BY HookFacts, RestingHooks DEF HookOK, ToolEnds
<1>2. /\ hooks[h].at = "answered" /\ h # Stop /\ hooks' = [hooks EXCEPT ![h] = DoneHook]
      /\ marker' = Moved(h) /\ shown' = Displayed(h) /\ phase' = "turn"
      /\ UNCHANGED <<turn, context, opened, recall, opening, seqs, nudge, faults>> BY <1>1 DEF ToolEnds
<1>3. DoneHook \in {IdleHook, DoneHook} OBVIOUS
<1> QED BY <1>2, <1>3, HookEnds

LEMMA StopEndsKeeps == ASSUME RecallInv, StopEnds PROVE RecallInv'
<1>1. /\ hooks[Stop].at = "answered" /\ hooks' = [hooks EXCEPT ![Stop] = IdleHook]
      /\ marker' = Moved(Stop) /\ shown' = Displayed(Stop) /\ phase' \in {"turn", "idle"}
      /\ UNCHANGED <<turn, context, opened, recall, opening, seqs, nudge, faults>> BY DEF StopEnds
<1>2. IdleHook \in {IdleHook, DoneHook} /\ Stop \in Hooks BY RecallBounds
<1> QED BY <1>1, <1>2, HookEnds

\* The nudge asks at most as often as it may.
LEMMA NudgedIs ==
  ASSUME RecallTypes, NEW answered \in BOOLEAN
  PROVE  Nudged(answered) \in NudgeRecords
<1>1. PICK n \in NudgeRecords : n = nudge BY DEF RecallTypes
<1>2. turn \in 0..MaxTurns BY DEF RecallTypes
<1>3. /\ \A s \in {"none", "asked", "reasked"} : [n EXCEPT !.state = s] \in NudgeRecords
      /\ [n EXCEPT !.state = "none", !.saved = FALSE] \in NudgeRecords BY DEF NudgeRecords
<1>4. \A s \in {"none", "asked", "reasked"}, f \in 0..MaxNudges :
        [n EXCEPT !.prompts = turn, !.compacted = FALSE, !.saved = FALSE, !.state = s, !.fired = f] \in NudgeRecords
  BY <1>2 DEF NudgeRecords
<1>5. CASE Nudging /\ (n.saved \/ answered)
  <2>1. Nudged(answered) = [n EXCEPT !.state = "none", !.saved = FALSE] BY <1>1, <1>5 DEF Nudged
  <2> QED BY <1>3, <2>1
<1>6. CASE Nudging /\ ~(n.saved \/ answered)
  <2>1. Nudged(answered) = [n EXCEPT !.state = IF @ = "asked" THEN "reasked" ELSE "none"] BY <1>1, <1>6 DEF Nudged
  <2>2. PICK s \in {"none", "asked", "reasked"} : s = IF n.state = "asked" THEN "reasked" ELSE "none" OBVIOUS
  <2>3. Nudged(answered) = [n EXCEPT !.state = s] BY <2>1, <2>2
  <2> QED BY <1>3, <2>3
<1>7. CASE ~Nudging /\ Due
  <2>1. PICK s \in {"none", "asked", "reasked"} : s = IF n.saved THEN "none" ELSE "asked" OBVIOUS
  <2>2. n.fired < MaxNudges /\ n.fired \in 0..MaxNudges BY <1>1, <1>7 DEF Due, NudgeRecords
  <2>3. PICK f \in 0..MaxNudges : f = IF n.saved THEN n.fired ELSE n.fired + 1 BY <2>2, RecallBounds
  <2>4. Nudged(answered) = [n EXCEPT !.prompts = turn, !.compacted = FALSE, !.saved = FALSE,
                              !.state = IF n.saved THEN "none" ELSE "asked", !.fired = IF n.saved THEN @ ELSE @ + 1]
    BY <1>1, <1>7 DEF Nudged
  <2>5. Nudged(answered) = [n EXCEPT !.prompts = turn, !.compacted = FALSE, !.saved = FALSE, !.state = s, !.fired = f]
    BY <2>1, <2>3, <2>4
  <2> QED BY <1>4, <2>5
<1>8. CASE ~Nudging /\ ~Due BY <1>1, <1>8 DEF Nudged
<1> QED BY <1>1, <1>5, <1>6, <1>7, <1>8

LEMMA StopEventKeeps ==
  ASSUME RecallInv, NEW reach \in Reaches, NEW answered \in BOOLEAN, StopEvent(reach, answered)
  PROVE  RecallInv'
<1>1. RecallTypes /\ HooksOK /\ RecallsOK /\ MarkersOK /\ ToldOnce /\ ToldNow /\ ToldOK BY DEF RecallInv
<1>2. /\ phase = "turn" /\ NoneRuns /\ Counted(reach)
      /\ nudge' = IF Handled(reach) THEN Nudged(answered) ELSE nudge
      /\ UNCHANGED <<turn, context, phase, opened, recall, opening, seqs, marker, shown>> BY DEF StopEvent
<1>3. faults' \in 0..MaxFaults /\ nudge' \in NudgeRecords BY <1>1, <1>2, FaultsCount, NudgedIs DEF RecallTypes
<1>4. PICK asks \in BOOLEAN : asks = (reach = "answered" /\ nudge'.state \in {"asked", "reasked"}) OBVIOUS
<1>5. PICK s \in NoMarker..MaxTurns, at \in {"read", "answered"} :
           s = marker /\ Names(s) /\ at = IF marker = NoMarker THEN "answered" ELSE "read"
  BY <1>1, <1>2 DEF RecallTypes, MarkersOK
<1>6. PICK k \in HookRecords : k = IdleHook /\ k.jobs = << >> BY RestingHooks
<1>7. PICK r \in HookRecords : r = [k EXCEPT !.nudged = asks, !.seq = s, !.at = at] BY DEF HookRecords
<1>8. r.at = at /\ r.seq = s /\ r.jobs = << >> BY <1>6, <1>7 DEF HookRecords
<1>9. hooks' = [[h \in Hooks |-> IdleHook] EXCEPT ![Stop] = r] BY <1>2, <1>4, <1>5, <1>6, <1>7 DEF StopEvent
<1>10. hooks' \in [Hooks -> HookRecords] /\ hooks'[Stop] = r /\ \A h \in Tools : hooks'[h] = IdleHook
  BY <1>9, RestingHooks, RecallBounds DEF Hooks
<1>11. RecallTypes' BY <1>1, <1>2, <1>3, <1>10 DEF RecallTypes
<1>12. HooksOK'
  <2>1. HookOK(Stop)' BY <1>2, <1>5, <1>8, <1>10 DEF HookOK
  <2>2. ASSUME NEW h \in Tools PROVE HookOK(h)' BY <1>2, <1>10, RestingHooks DEF HookOK
  <2> QED BY <1>10, <2>1, <2>2 DEF HooksOK, Hooks
<1>13. RecallsOK' BY <1>1, <1>2 DEF RecallsOK
<1>14. MarkersOK'
  <2>1. Names(marker)' /\ Names(s)' BY <1>2, <1>5 DEF Names
  <2>2. ASSUME NEW h \in Hooks PROVE Names(hooks[h].seq)'
    <3>1. hooks'[h].seq = s \/ hooks'[h].seq = NoMarker BY <1>8, <1>10, RestingHooks DEF Hooks
    <3> QED BY <2>1, <3>1, RecallBounds DEF Names
  <2> QED BY <1>2, <2>1, <2>2 DEF MarkersOK
<1>15. ASSUME NEW h \in Hooks PROVE ToldBy(h)' = {} /\ Distinct(hooks[h].jobs)'
  <2>1. hooks'[h].jobs = << >> BY <1>8, <1>10, RestingHooks DEF Hooks
  <2> QED BY <2>1 DEF ToldBy, Distinct
<1>16. ToldShown' = ToldShown /\ ShownDiffer' = ShownDiffer /\ ShownNow' = ShownNow
  BY <1>2 DEF ToldShown, ShownDiffer, ShownNow
<1>17. ToldOnce' BY <1>1, <1>15, <1>16 DEF ToldOnce
<1>18. ToldNow' BY <1>1, <1>15, <1>16 DEF ToldNow, ShownNow
<1>19. ToldOK'
  <2>1. ASSUME NEW t \in ToldShown PROVE TaleOK(t)'
    <3>1. TaleOK(t) BY <1>1, <2>1 DEF ToldOK
    <3> QED BY <1>2, <3>1 DEF TaleOK
  <2> QED BY <1>15, <1>16, <2>1 DEF ToldOK
<1> QED BY <1>11, <1>12, <1>13, <1>14, <1>17, <1>18, <1>19 DEF RecallInv

------------------------
LEMMA RecallRests == ASSUME RecallInv, UNCHANGED recallVars PROVE RecallInv'
<1>1. RecallTypes /\ RecallsOK BY DEF RecallInv
<1>2. /\ UNCHANGED <<turn, context, phase, opened, hooks, shown>> /\ recall' = recall /\ opening' = opening
      /\ seqs' = seqs /\ marker' = marker /\ nudge' = nudge /\ faults' = faults BY DEF recallVars
<1>3. LaterJobs BY <1>1, <1>2, JobsStand
<1>4. nudge' \in NudgeRecords /\ faults' \in 0..MaxFaults BY <1>1, <1>2 DEF RecallTypes
<1> QED BY <1>2, <1>3, <1>4, SteadyKeeps

LEMMA RecallStep == ASSUME RecallInv, [RecallNext]_recallVars PROVE RecallInv'
<1>1. ASSUME NEW reach \in Reaches, NEW started \in BOOLEAN, Start(reach, started) PROVE RecallInv'
  BY <1>1, StartKeeps
<1>2. ASSUME NEW reach \in Reaches, NEW started \in BOOLEAN, NEW found \in BOOLEAN, Prompt(reach, started, found)
      PROVE  RecallInv' BY <1>2, PromptKeeps
<1>3. ASSUME NEW state \in {"found", "empty"}, Finish(state) PROVE RecallInv' BY <1>3, FinishKeeps
<1>4. ASSUME NEW h \in Tools, ToolReads(h) PROVE RecallInv' BY <1>4, ToolReadsKeeps
<1>5. ASSUME HookStep PROVE RecallInv' BY <1>5, ClaimKeepsRecall, ToolEndsKeeps DEF HookStep
<1>6. ASSUME StopStep PROVE RecallInv' BY <1>6, StopEventKeeps, StopEndsKeeps DEF StopStep
<1>7. ASSUME NEW reach \in Reaches, Compact(reach) \/ Close(reach) PROVE RecallInv' BY <1>7, CompactKeeps, CloseKeeps
<1>8. CASE NextTools \/ Save \/ Interrupt \/ Kill \/ Restart \/ Expires
  BY <1>8, NextToolsKeeps, SaveKeeps, InterruptKeeps, KillKeeps, RestartKeeps, ExpiresKeeps
<1>9. CASE UNCHANGED recallVars BY <1>9, RecallRests
<1> QED BY <1>1, <1>2, <1>3, <1>4, <1>5, <1>6, <1>7, <1>8, <1>9 DEF RecallNext

LEMMA RecallFollow == ASSUME RecallInv PROVE RecallTypeOK /\ ShownWhereAsked
<1>1. RecallTypes /\ ToldOnce /\ ToldNow BY DEF RecallInv
<1>2. \A job \in {recall, opening} : job.state \in {"none", "running", "found", "empty", "delivered"}
  BY <1>1 DEF RecallTypes, RecallJobs, JobStates
<1>3. nudge.fired \in 0..MaxNudges BY <1>1 DEF RecallTypes, NudgeRecords
<1>4. RecallTypeOK BY <1>1, <1>2, <1>3 DEF RecallTypeOK, RecallTypes
<1>5. ShownWhereAsked BY <1>1 DEF ShownWhereAsked, ToldOnce, ToldNow, ShownDiffer
<1> QED BY <1>4, <1>5

------------------------
(* The contexts of the lifecycle (WorkContexts).                           *)
(*                                                                         *)
(* ContextsInv says that an operation which is to patch holds a context    *)
(* and, while that context is still at the revision it has read, what was  *)
(* written to it until then; that only an operation which is done and was  *)
(* not refused has written; and that a context was revised at most once by *)
(* each operation that is done.                                            *)

Revs == 1..(Cardinality(Ops) + 1)
Writers == [Fields -> {Nobody} \cup Ops]
ContextRecords == [revision : Revs, writer : Writers, there : BOOLEAN]
OpRecords == [kind : OpKinds, field : Fields, step : Steps, context : 0..MaxContexts,
              read : 0..(Cardinality(Ops) + 1), result : Results, base : Writers]
ContextTypes ==
  /\ contexts \in Seq(ContextRecords) /\ Len(contexts) <= MaxContexts /\ entry \in 0..Len(contexts)
  /\ ops \in [Ops -> OpRecords] /\ storeFaults \in 0..MaxStoreFaults

\* An operation that is to patch holds a context, and what it read of it unless it was patched since;
\* only one that is done, and was not refused, has written.
ReadOK(o) ==
  LET c == ops[o].context
  IN  /\ ops[o].read <= contexts[c].revision
      /\ ops[o].read = contexts[c].revision => ops[o].base = contexts[c].writer
OpOK(o) ==
  /\ ops[o].step \in {"get", "again", "patch", "repatch"} => ops[o].context \in Created
  /\ ops[o].step \in {"patch", "repatch"} => ReadOK(o)
  /\ Wrote(o) => ops[o].step = "done" /\ ops[o].result \in {"accepted", "unavailable"}

\* Each operation that is done may have patched a context once.
DoneOps == {o \in Ops : ops[o].step = "done"}
ContextsInv ==
  /\ ContextTypes
  /\ \A o \in Ops : OpOK(o)
  /\ \A c \in Created : contexts[c].revision <= Cardinality(DoneOps) + 1

LEMMA ContextsBounds ==
  /\ IsFiniteSet(Ops) /\ Cardinality(Ops) \in Nat /\ MaxContexts \in Nat /\ MaxStoreFaults \in Nat
  /\ Nobody \notin Ops /\ 1 \in Revs
<1>1. IsFiniteSet(Ops) /\ MaxContexts \in Nat /\ MaxStoreFaults \in Nat /\ Nobody \notin Ops
  BY ContextsAssumption DEF Nobody
<1>2. Cardinality(Ops) \in Nat BY <1>1, FS_CardinalityType
<1> QED BY <1>1, <1>2 DEF Revs

\* One more operation is done.
LEMMA OneMoreDone ==
  ASSUME NEW o \in Ops, o \notin DoneOps, ops'[o].step = "done",
         \A p \in Ops \ {o} : ops'[p].step = ops[p].step
  PROVE  /\ Cardinality(DoneOps) \in Nat /\ Cardinality(DoneOps') = Cardinality(DoneOps) + 1
         /\ Cardinality(DoneOps) + 1 <= Cardinality(Ops)
<1>1. IsFiniteSet(DoneOps) /\ Cardinality(DoneOps) \in Nat
  BY ContextsBounds, FS_Subset, FS_CardinalityType DEF DoneOps
<1>2. DoneOps' = DoneOps \cup {o} BY DEF DoneOps
<1>3. Cardinality(DoneOps') = Cardinality(DoneOps) + 1 BY <1>1, <1>2, FS_AddElement
<1>4. Cardinality(DoneOps') <= Cardinality(Ops)
  <2>1. DoneOps' \subseteq Ops BY DEF DoneOps
  <2> QED BY <2>1, ContextsBounds, FS_Subset
<1> QED BY <1>1, <1>3, <1>4

LEMMA DoneStay ==
  ASSUME \A p \in Ops : ops'[p].step = "done" <=> ops[p].step = "done"
  PROVE  DoneOps' = DoneOps BY DEF DoneOps

LEMMA DoneCount == Cardinality(DoneOps) \in Nat
BY ContextsBounds, FS_Subset, FS_CardinalityType DEF DoneOps

\* A sequence that grows by one.
LEMMA OneMore ==
  ASSUME NEW S, NEW s \in Seq(S), NEW x \in S
  PROVE  /\ Append(s, x) \in Seq(S) /\ Len(Append(s, x)) = Len(s) + 1 /\ Len(s) \in Nat /\ DOMAIN s = 1..Len(s)
         /\ DOMAIN Append(s, x) = 1..(Len(s) + 1) /\ Append(s, x)[Len(s) + 1] = x
         /\ \A i \in 1..Len(s) : Append(s, x)[i] = s[i] OBVIOUS

LEMMA Longer == ASSUME NEW n \in Nat PROVE 1..(n + 1) = (1..n) \cup {n + 1}
OBVIOUS

LEMMA ContextIs ==
  ASSUME ContextTypes, NEW c \in Created
  PROVE  /\ contexts[c] \in ContextRecords /\ contexts[c].revision \in Revs /\ contexts[c].writer \in Writers
         /\ c \in 1..Len(contexts) /\ c \in 0..MaxContexts
<1>1. DOMAIN contexts = 1..Len(contexts) /\ Len(contexts) \in Nat /\ contexts[c] \in ContextRecords
  BY DEF ContextTypes, Created
<1> QED BY <1>1, ContextsBounds DEF ContextRecords, ContextTypes, Created

\* What the store's step leaves true of every other operation.
Later(c) ==
  /\ c \in Created'
  /\ contexts'[c].revision >= contexts[c].revision
  /\ contexts'[c].revision = contexts[c].revision => contexts'[c].writer = contexts[c].writer
LEMMA OthersKeep ==
  ASSUME ContextsInv, NEW p \in Ops, ops'[p] = ops[p], \A c \in Created : Later(c), ContextTypes',
         Wrote(p)' => Wrote(p)
  PROVE  OpOK(p)'
<1>1. OpOK(p) BY DEF ContextsInv
<1>2. ops[p].context \in Created => Later(ops[p].context) OBVIOUS
<1>3. ASSUME ops[p].step \in {"patch", "repatch"} PROVE ReadOK(p)'
  <2>1. ReadOK(p) /\ ops[p].context \in Created BY <1>1, <1>3 DEF OpOK
  <2>2. ops[p].read \in Nat /\ contexts[ops[p].context].revision \in Nat /\ contexts'[ops[p].context].revision \in Nat
    <3>1. ops[p] \in OpRecords /\ Cardinality(Ops) \in Nat BY ContextsBounds DEF ContextsInv, ContextTypes
    <3>2. contexts[ops[p].context] \in ContextRecords BY <2>1, ContextIs DEF ContextsInv
    <3>3. contexts'[ops[p].context] \in ContextRecords BY <1>2, <2>1 DEF Later, ContextTypes, Created
    <3> QED BY <3>1, <3>2, <3>3 DEF OpRecords, ContextRecords, Revs
  <2> QED BY <1>2, <2>1, <2>2 DEF ReadOK, Later
<1> QED BY <1>1, <1>2, <1>3 DEF OpOK, Later

\* One operation moves; the store's contexts are as the lemma's hypotheses say.
LEMMA OpMoves ==
  ASSUME ContextsInv, NEW o \in Ops, NEW r \in OpRecords, ops' = [ops EXCEPT ![o] = r], ops[o].step # "done",
         \A c \in Created : Later(c), \A p \in Ops \ {o} : Wrote(p)' => Wrote(p),
         contexts' \in Seq(ContextRecords), Len(contexts') <= MaxContexts, entry' \in 0..Len(contexts'),
         storeFaults' \in 0..MaxStoreFaults, OpOK(o)',
         \A c \in Created' : \/ contexts'[c].revision = 1
                             \/ c \in Created /\ contexts'[c].revision = contexts[c].revision
                             \/ c \in Created /\ contexts'[c].revision = contexts[c].revision + 1 /\ r.step = "done"
  PROVE  ContextsInv'
<1>1. ops' \in [Ops -> OpRecords] /\ ops'[o] = r /\ \A p \in Ops \ {o} : ops'[p] = ops[p]
  BY DEF ContextsInv, ContextTypes
<1>2. ContextTypes' BY <1>1 DEF ContextTypes
<1>3. \A p \in Ops : OpOK(p)' BY <1>1, <1>2, OthersKeep
<1>4. ASSUME NEW c \in Created' PROVE contexts'[c].revision <= Cardinality(DoneOps') + 1
  <2>1. CASE r.step = "done"
    <3>1. Cardinality(DoneOps') = Cardinality(DoneOps) + 1 /\ Cardinality(DoneOps) \in Nat
      <4>1. o \notin DoneOps /\ ops'[o].step = "done" /\ \A p \in Ops \ {o} : ops'[p].step = ops[p].step
        BY <1>1, <2>1 DEF DoneOps
      <4> QED BY <4>1, OneMoreDone
    <3>2. c \in Created => contexts[c].revision <= Cardinality(DoneOps) + 1 /\ contexts[c].revision \in Nat
      <4>1. ASSUME c \in Created PROVE contexts[c].revision \in Nat
        BY <4>1, ContextIs, ContextsBounds DEF ContextsInv, Revs
      <4> QED BY <4>1 DEF ContextsInv
    <3> QED BY <3>1, <3>2
  <2>2. CASE r.step # "done"
    <3>1. DoneOps' = DoneOps
      <4>1. \A p \in Ops : ops'[p].step = "done" <=> ops[p].step = "done" BY <1>1, <2>2
      <4> QED BY <4>1, DoneStay
    <3>2. c \in Created => contexts[c].revision <= Cardinality(DoneOps) + 1 BY DEF ContextsInv
    <3> QED BY <2>2, <3>1, <3>2, DoneCount
  <2> QED BY <2>1, <2>2
<1> QED BY <1>2, <1>3, <1>4 DEF ContextsInv

\* No context of the store changes.
LEMMA QuietStore ==
  ASSUME ContextsInv, contexts' = contexts
  PROVE  /\ \A c \in Created : Later(c)
         /\ contexts' \in Seq(ContextRecords) /\ Len(contexts') <= MaxContexts /\ Len(contexts') = Len(contexts)
         /\ \A c \in Created' : c \in Created /\ contexts'[c].revision = contexts[c].revision
<1>1. \A c \in Created : contexts[c].revision \in Int BY ContextIs DEF ContextsInv, Revs
<1> QED BY <1>1 DEF ContextsInv, ContextTypes, Created, Later

LEMMA QuietMove ==
  ASSUME ContextsInv, NEW o \in Ops, NEW r \in OpRecords, ops' = [ops EXCEPT ![o] = r], ops[o].step # "done",
         contexts' = contexts, entry' = entry, storeFaults' \in 0..MaxStoreFaults, r.field = ops[o].field,
         r.step \in {"get", "again", "patch", "repatch"} => r.context \in Created,
         r.step \in {"patch", "repatch"} => /\ r.read <= contexts[r.context].revision
                                            /\ r.read = contexts[r.context].revision => r.base = contexts[r.context].writer
  PROVE  ContextsInv' /\ ~Wrote(o)'
<1>1. ops'[o] = r /\ \A p \in Ops \ {o} : ops'[p] = ops[p] BY DEF ContextsInv, ContextTypes
<1>2. \A p \in Ops : Wrote(p)' => Wrote(p)
  <2>1. \A p \in Ops : ops'[p].field = ops[p].field BY <1>1
  <2> QED BY <2>1 DEF Wrote, Created
<1>3. ~Wrote(o)' BY <1>2 DEF ContextsInv, OpOK
<1>4. OpOK(o)' BY <1>1, <1>3 DEF OpOK, ReadOK, Created
<1>5. entry' \in 0..Len(contexts') BY DEF ContextsInv, ContextTypes
<1> QED BY <1>2, <1>3, <1>4, <1>5, QuietStore, OpMoves

LEMMA OpIs ==
  ASSUME ContextsInv, NEW o \in Ops
  PROVE  /\ ops \in [Ops -> OpRecords] /\ ops[o] \in OpRecords /\ OpOK(o) /\ ContextTypes
BY DEF ContextsInv, ContextTypes

LEMMA ContextsStart == ContextsInit => ContextsInv
<1> SUFFICES ASSUME ContextsInit PROVE ContextsInv OBVIOUS
<1>1. Blank \in Writers BY DEF Blank, Writers
<1>2. ops \in [Ops -> OpRecords] /\ \A o \in Ops : ops[o].step = "start"
  <2>1. ops \in [Ops -> [kind: OpKinds, field: Fields, step: {"start"}, context: {0}, read: {0},
                      result: {"none"}, base: {Blank}]] BY DEF ContextsInit
  <2>2. 0 \in 0..MaxContexts /\ 0 \in 0..(Cardinality(Ops) + 1) BY ContextsBounds
  <2>3. ASSUME NEW o \in Ops PROVE ops[o] \in OpRecords /\ ops[o].step = "start"
    BY <1>1, <2>1, <2>2 DEF OpRecords, Steps, Results
  <2> QED BY <2>1, <2>3
<1>3. contexts \in Seq(ContextRecords) /\ Len(contexts) = 0 /\ DOMAIN contexts = {} /\ entry = 0 /\ storeFaults = 0
  BY DEF ContextsInit
<1>4. ContextTypes BY <1>2, <1>3, ContextsBounds DEF ContextTypes
<1>5. \A o \in Ops : OpOK(o) BY <1>2, <1>3 DEF OpOK, Wrote, Created
<1> QED BY <1>3, <1>4, <1>5 DEF ContextsInv, Created

LEMMA ReadMapKeeps == ASSUME ContextsInv, NEW o \in Ops, ReadMap(o) PROVE ContextsInv' /\ ~Wrote(o)'
<1>1. ops \in [Ops -> OpRecords] /\ ops[o] \in OpRecords /\ OpOK(o) /\ ContextTypes BY OpIs
<1>2. ops[o].step = "start" /\ UNCHANGED <<contexts, entry, storeFaults>> BY DEF ReadMap, At
<1>3. DOMAIN contexts = 1..Len(contexts) /\ Len(contexts) \in Nat /\ Len(contexts) <= MaxContexts /\ entry \in 0..Len(contexts)
  BY <1>1 DEF ContextTypes
<1>4. PICK k \in OpRecords, s \in {"create", "get"} : k = ops[o] /\ s = IF entry = 0 THEN "create" ELSE "get" BY <1>1
<1>5. PICK e \in 0..MaxContexts : e = entry BY <1>3, ContextsBounds
<1>6. PICK r \in OpRecords : r = [k EXCEPT !.step = s, !.context = e] BY DEF OpRecords, Steps
<1>7. r.step = s /\ r.context = entry /\ r.field = ops[o].field BY <1>4, <1>5, <1>6 DEF OpRecords
<1>8. ops' = [ops EXCEPT ![o] = r] BY <1>1, <1>4, <1>5, <1>6 DEF ReadMap
<1>9. s = "get" => entry \in Created BY <1>3, <1>4 DEF Created
<1>10. storeFaults' \in 0..MaxStoreFaults BY <1>1, <1>2 DEF ContextTypes
<1> QED BY <1>1, <1>2, <1>4, <1>7, <1>8, <1>9, <1>10, QuietMove

\* An operation that ends, or goes on to read or to create a context.
LEMMA EndMove ==
  ASSUME ContextsInv, NEW o \in Ops, ops[o].step # "done", NEW s \in Steps, NEW x \in Results,
         \/ Ends(o, x) /\ s = "done"
         \/ Goes(o, s) /\ s \in {"create", "again"} /\ (s = "again" => ops[o].context \in Created),
         contexts' = contexts, entry' = entry, storeFaults' \in 0..MaxStoreFaults
  PROVE  ContextsInv' /\ ~Wrote(o)'
<1>1. ops \in [Ops -> OpRecords] /\ ops[o] \in OpRecords /\ OpOK(o) /\ ContextTypes BY OpIs
<1>2. PICK k \in OpRecords : k = ops[o] BY <1>1
<1>3. CASE Ends(o, x) /\ s = "done"
  <2>1. "done" \in Steps BY DEF Steps
  <2>2. PICK r \in OpRecords : r = [k EXCEPT !.step = "done", !.result = x] BY <2>1 DEF OpRecords
  <2>3. r.step = "done" /\ r.field = ops[o].field BY <1>2, <2>2 DEF OpRecords
  <2>4. ops' = [ops EXCEPT ![o] = r] BY <1>1, <1>2, <1>3, <2>2 DEF Ends
  <2> QED BY <2>3, <2>4, QuietMove
<1>4. CASE Goes(o, s) /\ s \in {"create", "again"}
  <2>1. PICK r \in OpRecords : r = [k EXCEPT !.step = s] BY DEF OpRecords
  <2>2. r.step = s /\ r.field = ops[o].field /\ r.context = ops[o].context BY <1>2, <2>1 DEF OpRecords
  <2>3. ops' = [ops EXCEPT ![o] = r] BY <1>1, <1>2, <1>4, <2>1 DEF Goes
  <2> QED BY <1>4, <2>2, <2>3, QuietMove
<1> QED BY <1>3, <1>4

\* The record of an operation that has a context in hand.
LEMMA HoldsIs ==
  ASSUME ContextTypes, NEW o \in Ops, NEW c \in 0..MaxContexts, NEW v \in Revs, NEW w \in Writers, Holds(o, c, v, w)
  PROVE  \E r \in OpRecords : /\ ops' = [ops EXCEPT ![o] = r] /\ r.field = ops[o].field /\ r.context = c
                             /\ r.read = v /\ r.base = w /\ r.step \in {"repatch", "done", "patch"}
                             /\ r.result \in {"ok", ops[o].result}
<1>1. ops \in [Ops -> OpRecords] /\ ops[o] \in OpRecords BY DEF ContextTypes
<1>2. PICK k \in OpRecords : k = ops[o] BY <1>1
<1>3. v \in 0..(Cardinality(Ops) + 1) BY ContextsBounds DEF Revs
<1>4. PICK s \in Steps : /\ s = IF k.step = "again" THEN "repatch" ELSE IF k.kind = "open" THEN "done" ELSE "patch"
                         /\ s \in {"repatch", "done", "patch"} BY DEF Steps
<1>5. PICK x \in Results : x = IF k.kind = "open" THEN "ok" ELSE k.result BY DEF OpRecords, Results
<1>6. PICK r \in OpRecords : r = [k EXCEPT !.context = c, !.read = v, !.base = w, !.step = s, !.result = x]
  BY <1>3 DEF OpRecords
<1>7. ops' = [ops EXCEPT ![o] = [k EXCEPT !.context = c, !.read = v, !.base = w, !.step = s, !.result = x]]
  BY <1>1, <1>2, <1>4, <1>5 DEF Holds, At, OpRecords
<1>8. ops' = [ops EXCEPT ![o] = r] BY <1>6, <1>7
<1>9. r.field = k.field /\ r.context = c /\ r.read = v /\ r.base = w /\ r.step = s /\ r.result = x
  BY <1>6 DEF OpRecords
<1> QED BY <1>2, <1>4, <1>5, <1>8, <1>9

LEMMA GetContextKeeps == ASSUME ContextsInv, NEW o \in Ops, GetContext(o) PROVE ContextsInv' /\ ~Wrote(o)'
<1>1. ops \in [Ops -> OpRecords] /\ ops[o] \in OpRecords /\ OpOK(o) /\ ContextTypes BY OpIs
<1>2. ops[o].step \in {"get", "again"} /\ UNCHANGED <<contexts, entry, storeFaults>> BY DEF GetContext, At
<1>3. ops[o].context \in Created /\ storeFaults' \in 0..MaxStoreFaults BY <1>1, <1>2 DEF OpOK, ContextTypes
<1>4. CASE There(ops[o].context)
  <2>1. PICK c \in Created : c = ops[o].context BY <1>3
  <2>2. PICK v \in Revs, w \in Writers : v = contexts[c].revision /\ w = contexts[c].writer BY <1>1, ContextIs
  <2>3. c \in 0..MaxContexts /\ v \in Int BY <1>1, ContextIs DEF Revs
  <2>4. Holds(o, c, v, w) BY <1>4, <2>1, <2>2 DEF GetContext
  <2>5. PICK r \in OpRecords : /\ ops' = [ops EXCEPT ![o] = r] /\ r.field = ops[o].field /\ r.context = c
                               /\ r.read = v /\ r.base = w BY <1>1, <2>3, <2>4, HoldsIs
  <2>6. v <= v BY <2>3
  <2> QED BY <1>2, <1>3, <2>2, <2>5, <2>6, QuietMove
<1>5. CASE ~There(ops[o].context) /\ ops[o].step = "get"
  <2>1. Goes(o, "create") /\ "create" \in Steps /\ "none" \in Results BY <1>5 DEF GetContext, At, Steps, Results
  <2> QED BY <1>2, <1>3, <2>1, EndMove
<1>6. CASE ~There(ops[o].context) /\ ops[o].step # "get"
  <2>1. Ends(o, "rejected") /\ "done" \in Steps /\ "rejected" \in Results BY <1>6 DEF GetContext, At, Steps, Results
  <2> QED BY <1>2, <1>3, <2>1, EndMove
<1> QED BY <1>4, <1>5, <1>6

LEMMA UnreachedKeeps == ASSUME ContextsInv, NEW o \in Ops, Unreached(o) PROVE ContextsInv' /\ ~Wrote(o)'
<1>1. storeFaults' \in 0..MaxStoreFaults BY ContextsBounds DEF Unreached, StoreFault, ContextsInv, ContextTypes
<1>2. Ends(o, "unavailable") /\ "done" \in Steps /\ "unavailable" \in Results /\ contexts' = contexts /\ entry' = entry
      /\ ops[o].step # "done" BY DEF Unreached, Steps, Results
<1> QED BY <1>1, <1>2, EndMove

\* A new context.
NewContext == [revision |-> 1, writer |-> Blank, there |-> TRUE]
LEMMA NewContextIs == NewContext \in ContextRecords /\ NewContext.revision = 1 /\ NewContext.writer = Blank /\ Blank \in Writers
<1>1. Blank \in Writers BY DEF Blank, Writers
<1> QED BY <1>1, ContextsBounds DEF NewContext, ContextRecords

LEMMA CreatesMove ==
  ASSUME ContextsInv, NEW o \in Ops, NEW r \in OpRecords, ops' = [ops EXCEPT ![o] = r], ops[o].step # "done",
         Len(contexts) < MaxContexts, contexts' = Append(contexts, NewContext), entry' \in {entry, Len(contexts')},
         storeFaults' \in 0..MaxStoreFaults, r.field = ops[o].field,
         r.step \in {"patch", "repatch", "done"},
         r.step # "done" => r.context = Len(contexts') /\ r.read = 1 /\ r.base = Blank
  PROVE  ContextsInv' /\ ~Wrote(o)' /\ \A p \in Ops : Wrote(p)' => Wrote(p)
<1>1. ops'[o] = r /\ \A p \in Ops \ {o} : ops'[p] = ops[p] BY DEF ContextsInv, ContextTypes
<1>2. PICK n \in Nat : n = Len(contexts) /\ DOMAIN contexts = 1..n /\ entry \in 0..n /\ n + 1 <= MaxContexts
  BY ContextsBounds DEF ContextsInv, ContextTypes
<1>3. /\ contexts' \in Seq(ContextRecords) /\ Len(contexts') = n + 1 /\ DOMAIN contexts' = 1..(n + 1)
      /\ contexts'[n + 1] = NewContext /\ \A i \in 1..n : contexts'[i] = contexts[i]
  <2>1. contexts \in Seq(ContextRecords) BY DEF ContextsInv, ContextTypes
  <2> QED BY <1>2, <2>1, NewContextIs, OneMore
<1>4. Created = 1..n /\ Created' = Created \cup {n + 1} BY <1>2, <1>3, Longer DEF Created
<1>5. \A c \in Created : Later(c)
  <2>1. \A c \in Created : contexts[c].revision \in Int BY ContextIs DEF ContextsInv, Revs
  <2> QED BY <1>3, <1>4, <2>1 DEF Later
<1>6. \A p \in Ops : Wrote(p)' => Wrote(p)
  <2> SUFFICES ASSUME NEW p \in Ops, Wrote(p)' PROVE Wrote(p) OBVIOUS
  <2>1. PICK c \in Created' : contexts'[c].writer[ops'[p].field] = p BY DEF Wrote
  <2>2. ops'[p].field = ops[p].field /\ ops[p].field \in Fields BY <1>1 DEF ContextsInv, ContextTypes, OpRecords
  <2>3. c # n + 1
    <3>1. contexts'[n + 1].writer[ops[p].field] = Nobody BY <1>3, <2>2, NewContextIs DEF Blank
    <3> QED BY <2>1, <2>2, <3>1, ContextsBounds
  <2> QED BY <1>3, <1>4, <2>1, <2>2, <2>3 DEF Wrote
<1>7. ~Wrote(o)' BY <1>6 DEF ContextsInv, OpOK
<1>8. OpOK(o)'
  <2>1. ASSUME r.step # "done" PROVE r.context = n + 1 /\ r.read = 1 /\ r.base = Blank BY <1>3, <2>1
  <2> QED BY <1>1, <1>3, <1>4, <1>7, <2>1, NewContextIs DEF OpOK, ReadOK
<1>9. entry' \in 0..Len(contexts') /\ Len(contexts') <= MaxContexts BY <1>2, <1>3
<1>10. \A c \in Created' : contexts'[c].revision = 1 \/ (c \in Created /\ contexts'[c].revision = contexts[c].revision)
  BY <1>3, <1>4, NewContextIs
<1> QED BY <1>3, <1>5, <1>6, <1>7, <1>8, <1>9, <1>10, OpMoves

LEMMA CreateContextKeeps == ASSUME ContextsInv, NEW o \in Ops, CreateContext(o) PROVE ContextsInv' /\ ~Wrote(o)'
<1>1. /\ contexts' = Append(contexts, NewContext) /\ entry' = Len(contexts') /\ storeFaults' = storeFaults
      /\ Len(contexts) < MaxContexts /\ ops[o].step = "create" /\ Holds(o, Len(contexts'), 1, Blank)
  BY DEF CreateContext, NewContext, At
<1>2. ContextTypes /\ storeFaults' \in 0..MaxStoreFaults BY <1>1 DEF ContextsInv, ContextTypes
<1>3. Len(contexts') \in 0..MaxContexts
  <2>1. Len(contexts) \in Nat /\ Len(contexts') = Len(contexts) + 1
    BY <1>1, <1>2, NewContextIs, OneMore DEF ContextTypes
  <2> QED BY <1>1, <2>1, ContextsBounds
<1>4. PICK r \in OpRecords : /\ ops' = [ops EXCEPT ![o] = r] /\ r.field = ops[o].field /\ r.context = Len(contexts')
                             /\ r.read = 1 /\ r.base = Blank /\ r.step \in {"repatch", "done", "patch"}
  BY <1>1, <1>2, <1>3, HoldsIs, NewContextIs, ContextsBounds
<1> QED BY <1>1, <1>2, <1>4, CreatesMove

\* A patch.
LEMMA PatchMove ==
  ASSUME ContextsInv, NEW o \in Ops, NEW x \in {"accepted", "unavailable"}, Ends(o, x),
         ops[o].step \in {"patch", "repatch"}, Matches(o), contexts' = Patched(o),
         entry' = entry, storeFaults' \in 0..MaxStoreFaults
  PROVE  /\ ContextsInv' /\ ops'[o].result = x
         /\ ops[o].context \in Created /\ contexts[ops[o].context].writer = ops[o].base
         /\ contexts' = [contexts EXCEPT ![ops[o].context].revision = @ + 1, ![ops[o].context].writer[ops[o].field] = o]
<1>1. ops \in [Ops -> OpRecords] /\ ops[o] \in OpRecords /\ OpOK(o) /\ ContextTypes BY OpIs
<1>2. PICK c \in Created : c = ops[o].context /\ ReadOK(o) BY <1>1 DEF OpOK
<1>3. PICK n \in Nat, k \in ContextRecords : /\ n = Len(contexts) /\ DOMAIN contexts = 1..n /\ c \in 1..n
                                             /\ entry \in 0..n /\ n <= MaxContexts /\ k = contexts[c]
  BY <1>1, ContextIs DEF ContextTypes, Created
<1>4. ops[o].read = contexts[c].revision /\ ops[o].base = contexts[c].writer BY <1>2 DEF Matches, ReadOK
<1>5. PICK f \in Fields : f = ops[o].field BY <1>1 DEF OpRecords
<1>6. /\ k.revision <= Cardinality(DoneOps) + 1 /\ k.revision \in Nat /\ Cardinality(DoneOps) + 1 <= Cardinality(Ops)
      /\ k.revision >= 1 /\ Cardinality(DoneOps) \in Nat
  <2>1. ops'[o].step = "done" /\ \A p \in Ops \ {o} : ops'[p].step = ops[p].step BY <1>1 DEF Ends, OpRecords
  <2>2. Cardinality(DoneOps) + 1 <= Cardinality(Ops) /\ Cardinality(DoneOps) \in Nat BY <2>1, OneMoreDone DEF DoneOps
  <2>3. k.revision \in Revs BY DEF ContextRecords
  <2> QED BY <1>2, <1>3, <2>2, <2>3, ContextsBounds DEF Revs, ContextsInv
<1>7. k.revision + 1 \in Revs BY <1>6, ContextsBounds DEF Revs
<1>8. [k.writer EXCEPT ![f] = o] \in Writers BY DEF ContextRecords, Writers
<1>9. PICK q \in ContextRecords : /\ q = [k EXCEPT !.revision = k.revision + 1, !.writer = [k.writer EXCEPT ![f] = o]]
                                  /\ q.revision = k.revision + 1 /\ q.writer = [k.writer EXCEPT ![f] = o]
  <2>1. PICK v \in Revs, w \in Writers : v = k.revision + 1 /\ w = [k.writer EXCEPT ![f] = o] BY <1>7, <1>8
  <2>2. PICK q \in ContextRecords : q = [k EXCEPT !.revision = v, !.writer = w] BY DEF ContextRecords
  <2>3. q.revision = v /\ q.writer = w BY <2>2 DEF ContextRecords
  <2> QED BY <2>1, <2>2, <2>3
<1>10. contexts' = [contexts EXCEPT ![c] = q] BY <1>2, <1>3, <1>5, <1>9 DEF Patched, ContextRecords
<1>11. contexts' \in Seq(ContextRecords) /\ Len(contexts') = n /\ DOMAIN contexts' = 1..n
       /\ contexts'[c] = q /\ \A i \in (1..n) \ {c} : contexts'[i] = contexts[i]
  <2>1. contexts \in [1..n -> ContextRecords] BY <1>1, <1>3 DEF ContextTypes
  <2>2. contexts' \in [1..n -> ContextRecords] BY <1>10, <2>1
  <2> QED BY <1>3, <1>10, <2>1, <2>2
<1>12. Created = 1..n /\ Created' = 1..n BY <1>3, <1>11 DEF Created
<1>13. \A i \in Created : Later(i)
  <2>1. \A i \in Created : contexts[i].revision \in Int BY <1>1, ContextIs DEF Revs
  <2>2. Later(c) BY <1>3, <1>6, <1>9, <1>11, <1>12 DEF Later
  <2> QED BY <1>11, <1>12, <2>1, <2>2 DEF Later
<1>14. PICK m \in OpRecords : m = ops[o] BY <1>1
<1>15. PICK r \in OpRecords : r = [m EXCEPT !.step = "done", !.result = x] BY DEF OpRecords, Steps, Results
<1>16. ops' = [ops EXCEPT ![o] = r] /\ r.step = "done" /\ r.result = x /\ r.field = f
  <2>1. ops' = [ops EXCEPT ![o] = r] BY <1>1, <1>14, <1>15 DEF Ends
  <2> QED BY <1>5, <1>14, <1>15, <2>1 DEF OpRecords
<1>17. ops'[o] = r /\ \A p \in Ops \ {o} : ops'[p] = ops[p] BY <1>1, <1>16
<1>18. ASSUME NEW p \in Ops \ {o}, Wrote(p)' PROVE Wrote(p)
  <2>1. PICK i \in Created' : contexts'[i].writer[ops[p].field] = p BY <1>17, <1>18 DEF Wrote
  <2>2. CASE i # c BY <1>11, <1>12, <2>1, <2>2 DEF Wrote
  <2>3. CASE i = c
    <3>1. ops[p].field \in Fields BY <1>1 DEF OpRecords
    <3>2. k.writer \in Writers BY DEF ContextRecords
    <3>4. contexts'[c].writer[ops[p].field] = p BY <2>1, <2>3
    <3>3. k.writer[ops[p].field] = p BY <1>9, <1>11, <3>1, <3>2, <3>4 DEF Writers
    <3> QED BY <1>3, <3>3 DEF Wrote
  <2> QED BY <2>2, <2>3
<1>19. OpOK(o)' BY <1>16, <1>17 DEF OpOK
<1>20. entry' \in 0..Len(contexts') /\ Len(contexts') <= MaxContexts BY <1>3, <1>11
<1>21. \A i \in Created' : \/ i \in Created /\ contexts'[i].revision = contexts[i].revision
                           \/ i \in Created /\ contexts'[i].revision = contexts[i].revision + 1 /\ r.step = "done"
  BY <1>3, <1>9, <1>11, <1>12, <1>16
<1>22. ContextsInv' BY <1>11, <1>13, <1>16, <1>18, <1>19, <1>20, <1>21, OpMoves
<1> QED BY <1>2, <1>4, <1>16, <1>17, <1>22 DEF Patched

LEMMA PatchContextKeeps ==
  ASSUME ContextsInv, NEW o \in Ops, PatchContext(o)
  PROVE  /\ ContextsInv'
         /\ \/ ~Wrote(o)' /\ ops'[o].result \in {"conflict", "rejected", ops[o].result}
            \/ /\ ops'[o].result = "accepted" /\ ops[o].context \in Created /\ contexts[ops[o].context].writer = ops[o].base
               /\ contexts' = [contexts EXCEPT ![ops[o].context].revision = @ + 1,
                                               ![ops[o].context].writer[ops[o].field] = o]
<1>1. ops \in [Ops -> OpRecords] /\ ops[o] \in OpRecords /\ OpOK(o) /\ ContextTypes BY OpIs
<1>2. ops[o].step \in {"patch", "repatch"} /\ entry' = entry /\ storeFaults' \in 0..MaxStoreFaults
  BY <1>1 DEF PatchContext, At, ContextTypes
<1>3. {"accepted", "conflict", "rejected", "none"} \subseteq Results /\ {"done", "again"} \subseteq Steps
  BY DEF Results, Steps
<1>4. CASE Matches(o) BY <1>2, <1>4, PatchMove DEF PatchContext
<1>5. CASE ~Matches(o) /\ ~There(ops[o].context)
  <2>1. Ends(o, "rejected") /\ contexts' = contexts BY <1>5 DEF PatchContext
  <2>2. ops'[o].result = "rejected" BY <1>1, <2>1 DEF Ends, OpRecords
  <2> QED BY <1>2, <1>3, <2>1, <2>2, EndMove
<1>6. CASE ~Matches(o) /\ There(ops[o].context) /\ ops[o].step = "patch"
  <2>1. Goes(o, "again") /\ contexts' = contexts BY <1>6 DEF PatchContext, At
  <2>2. ops'[o].result = ops[o].result BY <1>1, <2>1 DEF Goes, OpRecords
  <2>3. ops[o].context \in Created BY <1>1, <1>2 DEF OpOK
  <2> QED BY <1>2, <1>3, <2>1, <2>2, <2>3, EndMove
<1>7. CASE ~Matches(o) /\ There(ops[o].context) /\ ops[o].step # "patch"
  <2>1. Ends(o, "conflict") /\ contexts' = contexts BY <1>7 DEF PatchContext, At
  <2>2. ops'[o].result = "conflict" BY <1>1, <2>1 DEF Ends, OpRecords
  <2> QED BY <1>2, <1>3, <2>1, <2>2, EndMove
<1> QED BY <1>4, <1>5, <1>6, <1>7

LEMMA AnswerLostKeeps == ASSUME ContextsInv, NEW o \in Ops, AnswerLost(o) PROVE ContextsInv' /\ ops'[o].result = "unavailable"
<1>1. ops \in [Ops -> OpRecords] /\ ops[o] \in OpRecords /\ OpOK(o) /\ ContextTypes BY OpIs
<1>2. Ends(o, "unavailable") /\ entry' = entry /\ storeFaults' \in 0..MaxStoreFaults
  BY <1>1, ContextsBounds DEF AnswerLost, StoreFault, ContextTypes
<1>3. CASE (At(o, "patch") \/ At(o, "repatch")) /\ Matches(o) /\ contexts' = Patched(o)
  BY <1>2, <1>3, PatchMove DEF At
<1>4. CASE /\ At(o, "create") /\ Len(contexts) < MaxContexts
           /\ contexts' = Append(contexts, [revision |-> 1, writer |-> Blank, there |-> TRUE])
  <2>1. PICK k \in OpRecords : k = ops[o] BY <1>1
  <2>2. PICK r \in OpRecords : r = [k EXCEPT !.step = "done", !.result = "unavailable"]
    BY DEF OpRecords, Steps, Results
  <2>3. r.step = "done" /\ r.field = ops[o].field /\ r.result = "unavailable" BY <2>1, <2>2 DEF OpRecords
  <2>4. ops' = [ops EXCEPT ![o] = r] /\ ops'[o] = r BY <1>1, <1>2, <2>1, <2>2 DEF Ends
  <2> QED BY <1>2, <1>4, <2>3, <2>4, CreatesMove DEF At, NewContext
<1> QED BY <1>3, <1>4 DEF AnswerLost

\* The store loses a context, or the map its entry.
LEMMA OutsideContexts ==
  ASSUME ContextsInv, (\E c \in Created : ContextIsLost(c)) \/ EntryIsLost
  PROVE  ContextsInv' /\ ops' = ops /\ \A o \in Ops : Wrote(o)' => Wrote(o)
<1>1. ContextTypes BY DEF ContextsInv
<1>2. PICK n \in Nat : n = Len(contexts) /\ DOMAIN contexts = 1..n /\ contexts \in [1..n -> ContextRecords] /\ n <= MaxContexts
  BY <1>1 DEF ContextTypes
<1>3. storeFaults' \in 0..MaxStoreFaults /\ ops' = ops
  BY <1>1, ContextsBounds DEF ContextIsLost, EntryIsLost, StoreFault, ContextTypes
<1>4. /\ contexts' \in [1..n -> ContextRecords] /\ entry' \in 0..n
      /\ \A c \in 1..n : contexts'[c].revision = contexts[c].revision /\ contexts'[c].writer = contexts[c].writer
  <2>1. CASE EntryIsLost
    <3>1. contexts' = contexts /\ entry' = 0 BY <2>1 DEF EntryIsLost
    <3> QED BY <1>2, <3>1
  <2>2. ASSUME NEW c \in Created, ContextIsLost(c)
        PROVE  /\ contexts' \in [1..n -> ContextRecords] /\ entry' \in 0..n
               /\ \A i \in 1..n : contexts'[i].revision = contexts[i].revision /\ contexts'[i].writer = contexts[i].writer
    <3>1. contexts' = [contexts EXCEPT ![c].there = FALSE] /\ entry' = entry /\ c \in 1..n
      BY <1>2, <2>2 DEF ContextIsLost, Created
    <3>2. PICK k \in ContextRecords : k = contexts[c] BY <1>2, <3>1
    <3>3. PICK q \in ContextRecords : q = [k EXCEPT !.there = FALSE] /\ q.revision = k.revision /\ q.writer = k.writer
      <4>1. PICK q \in ContextRecords : q = [k EXCEPT !.there = FALSE] BY DEF ContextRecords
      <4>2. q.revision = k.revision /\ q.writer = k.writer BY <4>1 DEF ContextRecords
      <4> QED BY <4>1, <4>2
    <3>4. contexts' = [contexts EXCEPT ![c] = q] BY <1>2, <3>1, <3>2, <3>3
    <3> QED BY <1>1, <1>2, <3>1, <3>2, <3>3, <3>4 DEF ContextTypes
  <2> QED BY <2>1, <2>2
<1>5. contexts' \in Seq(ContextRecords) /\ Len(contexts') = n /\ DOMAIN contexts' = 1..n BY <1>2, <1>4
<1>6. ContextTypes' BY <1>1, <1>2, <1>3, <1>4, <1>5 DEF ContextTypes
<1>7. \A o \in Ops : Wrote(o)' => Wrote(o) BY <1>2, <1>3, <1>4, <1>5 DEF Wrote, Created
<1>8. \A c \in Created : Later(c)
  <2>1. \A c \in Created : contexts[c].revision \in Int BY <1>1, ContextIs DEF Revs
  <2> QED BY <1>2, <1>4, <1>5, <2>1 DEF Later, Created
<1>9. \A o \in Ops : OpOK(o)' BY <1>3, <1>6, <1>7, <1>8, OthersKeep
<1>10. DoneOps' = DoneOps BY <1>3 DEF DoneOps
<1>11. \A c \in Created' : contexts'[c].revision <= Cardinality(DoneOps') + 1
  BY <1>2, <1>4, <1>5, <1>10 DEF ContextsInv, Created
<1> QED BY <1>3, <1>6, <1>7, <1>9, <1>11 DEF ContextsInv

LEMMA ContextsRest == ASSUME ContextsInv, UNCHANGED contextVars PROVE ContextsInv'
<1>1. contexts' = contexts /\ entry' = entry /\ ops' = ops /\ storeFaults' = storeFaults BY DEF contextVars
<1>2. ContextTypes' /\ (\A o \in Ops : OpOK(o)') /\ DoneOps' = DoneOps /\ Created' = Created
  BY <1>1 DEF ContextsInv, ContextTypes, OpOK, ReadOK, Wrote, Created, DoneOps
<1> QED BY <1>1, <1>2 DEF ContextsInv

\* What a step of an operation may do.
TrueStep(o) ==
  /\ ops'[o].result = "accepted" /\ ops[o].result = "none" =>
       \E c \in Created : /\ contexts[c].writer = ops[o].base
                          /\ contexts' = [contexts EXCEPT ![c].revision = @ + 1, ![c].writer[ops[o].field] = o]
  /\ ops'[o].result \in {"conflict", "rejected"} => ~Wrote(o)'
LEMMA TrueOfOthers ==
  ASSUME ContextsInv, ContextsInv', NEW o \in Ops, ops'[o] = ops[o]
  PROVE  TrueStep(o)
<1>1. OpOK(o)' BY DEF ContextsInv
<1> QED BY <1>1 DEF TrueStep, OpOK
LEMMA MoverIs ==
  ASSUME ContextsInv, NEW o \in Ops, ReadMap(o) \/ GetContext(o) \/ CreateContext(o) \/ PatchContext(o) \/ Unreached(o) \/ AnswerLost(o)
  PROVE  \A p \in Ops \ {o} : ops'[p] = ops[p]
<1>1. ops \in [Ops -> OpRecords] BY OpIs
<1> QED BY <1>1 DEF ReadMap, GetContext, CreateContext, PatchContext, Unreached, AnswerLost, Holds, Goes, Ends

\* Only a patch is accepted.
LEMMA AcceptedIs ==
  ASSUME ContextsInv, NEW o \in Ops, ops'[o].result = "accepted", ops[o].result = "none",
         ReadMap(o) \/ GetContext(o) \/ CreateContext(o) \/ Unreached(o) \/ AnswerLost(o)
  PROVE  FALSE
<1>1. ops \in [Ops -> OpRecords] /\ ops[o] \in OpRecords /\ ContextTypes BY OpIs
<1>2. CASE ReadMap(o) BY <1>1, <1>2 DEF ReadMap, OpRecords
<1>3. \A s : Goes(o, s) => ops'[o].result = ops[o].result BY <1>1 DEF Goes, OpRecords
<1>4. \A x : Ends(o, x) => ops'[o].result = x BY <1>1 DEF Ends, OpRecords
<1>5. \A c, v, w : Holds(o, c, v, w) => ops'[o].result \in {"ok", ops[o].result} BY <1>1 DEF Holds, At, OpRecords
<1>6. CASE GetContext(o) BY <1>3, <1>4, <1>5, <1>6 DEF GetContext
<1>7. CASE CreateContext(o) BY <1>5, <1>7 DEF CreateContext
<1>8. CASE Unreached(o) \/ AnswerLost(o) BY <1>4, <1>8 DEF Unreached, AnswerLost
<1> QED BY <1>2, <1>6, <1>7, <1>8

LEMMA ContextsStep ==
  ASSUME ContextsInv, ContextsNext
  PROVE  ContextsInv' /\ \A o \in Ops : TrueStep(o)
<1>1. ASSUME NEW o \in Ops, ReadMap(o) \/ GetContext(o) \/ CreateContext(o) \/ Unreached(o)
      PROVE  ContextsInv' /\ \A p \in Ops : TrueStep(p)
  <2>1. ContextsInv' /\ ~Wrote(o)' BY <1>1, ReadMapKeeps, GetContextKeeps, CreateContextKeeps, UnreachedKeeps
  <2>2. TrueStep(o) BY <1>1, <2>1, AcceptedIs DEF TrueStep
  <2> QED BY <1>1, <2>1, <2>2, MoverIs, TrueOfOthers
<1>2. ASSUME NEW o \in Ops, AnswerLost(o) PROVE ContextsInv' /\ \A p \in Ops : TrueStep(p)
  <2>1. ContextsInv' /\ ops'[o].result = "unavailable" BY <1>2, AnswerLostKeeps
  <2>2. TrueStep(o) BY <2>1 DEF TrueStep
  <2> QED BY <1>2, <2>1, <2>2, MoverIs, TrueOfOthers
<1>3. ASSUME NEW o \in Ops, PatchContext(o) PROVE ContextsInv' /\ \A p \in Ops : TrueStep(p)
  <2>1. /\ ContextsInv'
        /\ \/ ~Wrote(o)' /\ ops'[o].result \in {"conflict", "rejected", ops[o].result}
           \/ /\ ops'[o].result = "accepted" /\ ops[o].context \in Created /\ contexts[ops[o].context].writer = ops[o].base
              /\ contexts' = [contexts EXCEPT ![ops[o].context].revision = @ + 1,
                                              ![ops[o].context].writer[ops[o].field] = o] BY <1>3, PatchContextKeeps
  <2>2. TrueStep(o) BY <2>1 DEF TrueStep
  <2> QED BY <1>3, <2>1, <2>2, MoverIs, TrueOfOthers
<1>4. CASE (\E c \in Created : ContextIsLost(c)) \/ EntryIsLost
  <2>1. ContextsInv' /\ ops' = ops BY <1>4, OutsideContexts
  <2> QED BY <2>1, TrueOfOthers
<1> QED BY <1>1, <1>2, <1>3, <1>4 DEF ContextsNext

LEMMA ContextsFollow == ASSUME ContextsInv PROVE ContextsTypeOK
<1>1. ContextTypes BY DEF ContextsInv
<1>2. entry \in 0..MaxContexts BY <1>1, ContextsBounds DEF ContextTypes
<1>3. \A c \in Created : contexts[c].revision \in 1..(Cardinality(Ops) + 1) /\ contexts[c].writer \in [Fields -> {Nobody} \cup Ops]
  BY <1>1, ContextIs DEF Revs, Writers
<1> QED BY <1>1, <1>2, <1>3 DEF ContextsTypeOK, ContextTypes, OpRecords, Writers

------------------------
(* The store's records (MemoryRecords).                                    *)
(*                                                                         *)
(* MemoryInv says that the roots of a record are events of the store, that *)
(* a record whose current revision is retracted or erased is archived,     *)
(* that segments name revisions that exist, that the slot's version counts *)
(* no more than the requests (a correction that is on its way has not      *)
(* counted yet), and that a recall and a client hold what the store has.   *)

Gens == 1..(MaxRequests + 1)
EventRecords == [key : Keys, content : Contents, status : {"live", "retracted", "erased"}, generation : Gens]
RevisionRecords == [lifecycle : {"active", "superseded", "retracted"}, erased : BOOLEAN]
RootMaps == UNION {[D -> Gens] : D \in SUBSET Nat}
MemoRecords == [kind : RecordKinds, admission : Admissions, roots : RootMaps, revisions : Seq(RevisionRecords)]
SlotSegments == [lower : Times, upper : Times \cup {Open}, kind : {"resolved", "conflict"}, revisions : SUBSET (Nat \X Nat)]

\* A record whose current revision is retracted or erased is admitted no more.
RevisionGone(rev) == rev.lifecycle = "retracted" \/ rev.erased
RecordOK(r) ==
  /\ Len(records[r].revisions) \in 1..MaxRevisions
  /\ DOMAIN records[r].roots \subseteq EventIds
  /\ RevisionGone(Current(r)) => records[r].admission = "archived"
EventsOK == events \in Seq(EventRecords) /\ \A e \in EventIds : events[e].generation <= requests + 1
RecordsOK == records \in Seq(MemoRecords) /\ Len(records) <= MaxRecords /\ \A r \in Known : RecordOK(r)
SegmentsOK == segments \subseteq SlotSegments /\ \A s \in segments : s.revisions \subseteq RevisionIds
\* The request of a correction that is under way has not yet made a version.
VersionOK ==
  /\ version \in Nat /\ requests \in 0..MaxRequests /\ version <= requests
  /\ client.at = "correct" => version < requests
CacheOK ==
  cache.picks \subseteq Known /\ Cardinality(cache.picks) <= MaxSelected
LaneOK ==
  \/ lane = Idle
  \/ lane \in [at : {"select"}, query : Queries, cards : SUBSET Known]
  \/ lane \in [at : {"render"}, todo : SUBSET Known, shown : SUBSET Known]
ClientOK ==
  \/ client = Idle
  \/ client \in [at : {"propose"}, event : EventIds]
  \/ client \in [at : {"evidence"}, record : Known, seq : Nat]
  \/ client \in [at : {"correct"}, record : Known, seq : Nat, event : EventIds, again : BOOLEAN]
MemoryInv == EventsOK /\ RecordsOK /\ SegmentsOK /\ VersionOK /\ CacheOK /\ LaneOK /\ ClientOK

LEMMA MemoryBounds ==
  MaxRecords \in Nat /\ MaxTime \in Nat /\ MaxRequests \in Nat /\ MaxSelected \in Nat /\ MaxRevisions \in Nat /\ MaxRevisions >= 1
BY MemoryAssumption

LEMMA MemoryStart == MemoryInit => MemoryInv
<1> SUFFICES ASSUME MemoryInit PROVE MemoryInv OBVIOUS
<1>0. events = <<>> /\ records = <<>> /\ version = 0 /\ requests = 0 /\ client = Idle /\ cache = [query |-> "", picks |-> {}]
  BY DEF MemoryInit
<1>1. DOMAIN events = {} /\ events \in Seq(EventRecords) /\ DOMAIN records = {} /\ records \in Seq(MemoRecords) /\ Len(records) = 0
  <2>1. DOMAIN <<>> = {} /\ Len(<<>>) = 0 OBVIOUS
  <2>2. <<>> \in Seq(EventRecords) /\ <<>> \in Seq(MemoRecords) OBVIOUS
  <2> QED BY <1>0, <2>1, <2>2
<1>2. EventsOK BY <1>1 DEF EventsOK, EventIds
<1>3. RecordsOK BY <1>1, MemoryBounds DEF RecordsOK, Known
<1>4. SegmentsOK BY DEF SegmentsOK, MemoryInit
<1>5. VersionOK
  <2>1. client.at # "correct" BY <1>0 DEF Idle
  <2>2. version = 0 /\ requests = 0 BY <1>0
  <2> QED BY <2>1, <2>2, MemoryBounds DEF VersionOK
<1>6. CacheOK
  <2>2. cache.picks = {} BY <1>0
  <2>3. Cardinality(cache.picks) = 0 BY <2>2, FS_EmptySet
  <2>4. Cardinality(cache.picks) <= MaxSelected BY <2>3, MemoryBounds
  <2> QED BY <2>2, <2>4 DEF CacheOK
<1>7. LaneOK /\ ClientOK BY DEF LaneOK, ClientOK, MemoryInit
<1> QED BY <1>2, <1>3, <1>4, <1>5, <1>6, <1>7 DEF MemoryInv

LEMMA EventIs ==
  ASSUME EventsOK, NEW e \in EventIds
  PROVE  /\ events[e] \in EventRecords /\ events[e].generation \in Gens /\ events[e].generation \in Nat
         /\ events[e].generation <= requests + 1 /\ EventIds = 1..Len(events) /\ Len(events) \in Nat
<1>1. events[e] \in EventRecords /\ EventIds = 1..Len(events) /\ Len(events) \in Nat BY DEF EventsOK, EventIds
<1>2. events[e].generation \in Gens BY <1>1 DEF EventRecords
<1>3. events[e].generation \in Nat BY <1>2, MemoryBounds DEF Gens
<1> QED BY <1>1, <1>2, <1>3 DEF EventsOK

\* What stays when events, records and revisions are only added.
LEMMA MemoryGrows ==
  ASSUME MemoryInv, EventIds \subseteq EventIds', Known \subseteq Known', RevisionIds \subseteq RevisionIds',
         requests' \in 0..MaxRequests, requests' >= requests
  PROVE  /\ events' = events => EventsOK'
         /\ records' = records => RecordsOK'
         /\ segments' = segments => SegmentsOK'
         /\ version' = version /\ client'.at # "correct" => VersionOK'
         /\ version' = version /\ client' = client => VersionOK'
         /\ cache' = cache => CacheOK'
         /\ lane' = lane => LaneOK'
         /\ client' = client => ClientOK'
<1> USE DEF MemoryInv
<1>1. requests \in Nat /\ requests' \in Nat BY MemoryBounds DEF VersionOK
<1>2. ASSUME events' = events PROVE EventsOK'
  <2>1. ASSUME NEW e \in EventIds PROVE events[e].generation <= requests' + 1
    <3>1. events[e].generation <= requests + 1 /\ events[e].generation \in Nat BY EventIs
    <3> QED BY <1>1, <3>1
  <2> QED BY <1>2, <2>1 DEF EventsOK, EventIds
<1>3. ASSUME records' = records PROVE RecordsOK' BY <1>3 DEF RecordsOK, RecordOK, Known, Current
<1>4. ASSUME segments' = segments PROVE SegmentsOK' BY <1>4 DEF SegmentsOK
<1>5. ASSUME version' = version, client'.at # "correct" PROVE VersionOK' BY <1>1, <1>5 DEF VersionOK
<1>6. ASSUME version' = version, client' = client PROVE VersionOK' BY <1>1, <1>6 DEF VersionOK
<1>7. ASSUME cache' = cache PROVE CacheOK' BY <1>7 DEF CacheOK
<1>8. ASSUME lane' = lane PROVE LaneOK' BY <1>8 DEF LaneOK
<1>9. ASSUME client' = client PROVE ClientOK' BY <1>9 DEF ClientOK
<1> QED BY <1>2, <1>3, <1>4, <1>5, <1>6, <1>7, <1>8, <1>9

\* A request counts itself.
LEMMA RequestIs ==
  ASSUME MemoryInv, Request
  PROVE  /\ requests' \in 0..MaxRequests
         /\ requests' > requests /\ requests \in Nat /\ requests' = requests + 1 /\ requests < MaxRequests
BY MemoryBounds DEF Request, MemoryInv, VersionOK

\* The events of the store when a producer appends one: no event changes.
LEMMA AppendedIs ==
  ASSUME MemoryInv, NEW key \in Keys, NEW content \in Contents, events' = Appended(key, content),
         requests' \in 0..MaxRequests, requests' >= requests
  PROVE  /\ EventsOK' /\ EventIds \subseteq EventIds' /\ EventOf(key, content) \in EventIds'
         /\ \A e \in EventIds : events'[e] = events[e]
<1>1. PICK n \in Nat : n = Len(events) /\ DOMAIN events = 1..n /\ events \in Seq(EventRecords) /\ EventIds = 1..n
  BY DEF MemoryInv, EventsOK, EventIds
<1>2. requests \in Nat /\ requests' \in Nat BY MemoryBounds DEF MemoryInv, VersionOK
<1>3. CASE KeyHolder(key) # {}
  <2>1. events' = events /\ EventIds' = EventIds BY <1>3 DEF Appended, EventIds
  <2>2. EventOf(key, content) \in EventIds BY <1>3 DEF EventOf, KeyHolder
  <2>3. ASSUME NEW e \in EventIds PROVE events[e].generation <= requests' + 1
    <3>1. events[e].generation <= requests + 1 /\ events[e].generation \in Nat BY EventIs DEF MemoryInv
    <3> QED BY <1>2, <3>1
  <2> QED BY <2>1, <2>2, <2>3 DEF EventsOK, MemoryInv
<1>4. CASE KeyHolder(key) = {}
  <2>1. PICK x \in EventRecords : /\ x = [key |-> key, content |-> content, status |-> "live", generation |-> 1]
                                  /\ x.generation = 1
    <3>1. 1 \in Gens BY MemoryBounds DEF Gens
    <3>2. PICK g \in Gens : g = 1 BY <3>1
    <3>3. [key |-> key, content |-> content, status |-> "live", generation |-> g] \in EventRecords BY DEF EventRecords
    <3> QED BY <3>2, <3>3
  <2>2. events' = Append(events, x) /\ EventOf(key, content) = n + 1 BY <1>1, <1>4, <2>1 DEF Appended, EventOf
  <2>3. /\ events' \in Seq(EventRecords) /\ DOMAIN events' = 1..(n + 1) /\ events'[n + 1] = x
        /\ \A e \in 1..n : events'[e] = events[e] BY <1>1, <2>2, OneMore
  <2>4. EventIds' = EventIds \cup {n + 1} BY <1>1, <2>3, Longer DEF EventIds
  <2>5. ASSUME NEW e \in EventIds' PROVE events'[e].generation <= requests' + 1
    <3>1. CASE e = n + 1 BY <1>2, <2>1, <2>3, <3>1
    <3>2. CASE e \in EventIds
      <4>1. events[e].generation <= requests + 1 /\ events[e].generation \in Nat BY <3>2, EventIs DEF MemoryInv
      <4> QED BY <1>1, <1>2, <2>3, <3>2, <4>1
    <3> QED BY <2>4, <3>1, <3>2
  <2> QED BY <1>1, <2>2, <2>3, <2>4, <2>5 DEF EventsOK
<1> QED BY <1>3, <1>4

LEMMA SameRecords == ASSUME records' = records PROVE Known' = Known /\ RevisionIds' = RevisionIds
BY DEF Known, RevisionIds
LEMMA SameEvents == ASSUME events' = events PROVE EventIds' = EventIds
BY DEF EventIds

\* Of what the properties are about, nothing moves.
WithdrawnStep == \A r \in Shown(lane') \ Shown(lane) : ~Withdrawn(r)
LocalAt(t) ==
  LET before == Holding(segments, t)
      after == Holding(segments', t)
      all == UNION {h.revisions : h \in before}
  IN  \/ after = before
      \/ \E id \in RevisionIds' : after = {[kind |-> "resolved", revisions |-> {id}]} /\ Fresh(id)
                                  /\ Cardinality(before) <= 1
      \/ \E h \in after : h.kind = "conflict" /\ all \subseteq h.revisions /\ before \subseteq after
                          /\ \E id \in h.revisions : Fresh(id)
      \/ \E old \in RevisionIds : after = {[h EXCEPT !.revisions = InPlace(@, old, <<old[1], old[2] + 1>>)] : h \in before}
      \/ \E id \in RevisionIds, i \in Intervals : Resolve(id, i)
MemoryStep == MemoryInv' /\ WithdrawnStep /\ \A t \in Times : LocalAt(t)

LEMMA QuietSegments == ASSUME segments' = segments PROVE \A t \in Times : LocalAt(t)
BY DEF LocalAt
LEMMA QuietLane == ASSUME Shown(lane') \subseteq Shown(lane) PROVE WithdrawnStep
BY DEF WithdrawnStep

------------------------
\* Events.
LEMMA AppendEventKeeps ==
  ASSUME MemoryInv, NEW key \in Keys, NEW content \in Contents, AppendEvent(key, content) PROVE MemoryStep
<1>1. /\ events' = Appended(key, content) /\ UNCHANGED <<records, segments, version, cache, lane, client>>
      /\ requests' \in 0..MaxRequests /\ requests' >= requests BY RequestIs DEF AppendEvent
<1>2. EventsOK' /\ EventIds \subseteq EventIds' BY <1>1, AppendedIs
<1>3. MemoryInv' BY <1>1, <1>2, SameRecords, MemoryGrows DEF MemoryInv
<1> QED BY <1>1, <1>3, QuietSegments, QuietLane DEF MemoryStep

LEMMA RememberKeeps ==
  ASSUME MemoryInv, NEW key \in Keys, NEW content \in Contents, Remember(key, content) PROVE MemoryStep
<1>1. /\ events' = Appended(key, content) /\ UNCHANGED <<records, segments, version, cache, lane>>
      /\ client' = [at |-> "propose", event |-> EventOf(key, content)]
      /\ requests' \in 0..MaxRequests /\ requests' >= requests BY RequestIs DEF Remember
<1>2. EventsOK' /\ EventIds \subseteq EventIds' /\ EventOf(key, content) \in EventIds' BY <1>1, AppendedIs
<1>3. ClientOK' /\ client'.at # "correct" BY <1>1, <1>2 DEF ClientOK
<1>4. MemoryInv' BY <1>1, <1>2, <1>3, SameRecords, MemoryGrows DEF MemoryInv
<1> QED BY <1>1, <1>4, QuietSegments, QuietLane DEF MemoryStep

LEMMA CorrectAppendsKeeps ==
  ASSUME MemoryInv, NEW key \in Keys, NEW content \in Contents, CorrectAppends(key, content) PROVE MemoryStep
<1>1. /\ UNCHANGED <<records, segments, version, cache, lane>> /\ client.at = "evidence"
      /\ requests' \in 0..MaxRequests /\ requests' > requests /\ requests \in Nat BY RequestIs DEF CorrectAppends
<1>2. Known' = Known /\ RevisionIds' = RevisionIds /\ requests' >= requests BY <1>1, SameRecords, MemoryBounds
<1>3. CASE Refused(key, content)
  <2>1. client' = Idle /\ events' = events BY <1>3 DEF CorrectAppends
  <2>2. ClientOK' /\ client'.at # "correct" BY <2>1 DEF ClientOK, Idle
  <2>3. MemoryInv' BY <1>1, <1>2, <2>1, <2>2, SameEvents, MemoryGrows DEF MemoryInv
  <2> QED BY <1>1, <2>3, QuietSegments, QuietLane DEF MemoryStep
<1>4. CASE ~Refused(key, content)
  <2>1. /\ events' = Appended(key, content)
        /\ client' = [at |-> "correct", record |-> client.record, seq |-> client.seq,
                      event |-> EventOf(key, content), again |-> TRUE] BY <1>4 DEF CorrectAppends
  <2>2. EventsOK' /\ EventIds \subseteq EventIds' /\ EventOf(key, content) \in EventIds'
    BY <1>2, <1>1, <2>1, AppendedIs
  <2>3. client.record \in Known /\ client.seq \in Nat BY <1>1 DEF MemoryInv, ClientOK, Idle
  <2>4. ClientOK' BY <1>2, <2>1, <2>2, <2>3 DEF ClientOK
  <2>5. VersionOK' BY <1>1 DEF MemoryInv, VersionOK
  <2>6. MemoryInv' BY <1>1, <1>2, <2>2, <2>4, <2>5, MemoryGrows DEF MemoryInv
  <2> QED BY <1>1, <2>6, QuietSegments, QuietLane DEF MemoryStep
<1> QED BY <1>3, <1>4

\* One event changes its state.
LEMMA EventChanges ==
  ASSUME MemoryInv, Request, NEW e \in EventIds, NEW s \in {"live", "retracted", "erased"},
         events' = [events EXCEPT ![e].status = s, ![e].generation = @ + 1]
  PROVE  EventsOK' /\ EventIds' = EventIds
<1>1. PICK n \in Nat : n = Len(events) /\ DOMAIN events = 1..n /\ events \in [1..n -> EventRecords] /\ EventIds = 1..n
  BY DEF MemoryInv, EventsOK, EventIds
<1>2. requests' \in Nat /\ requests \in Nat /\ requests' = requests + 1 /\ requests' <= MaxRequests
  BY RequestIs, MemoryBounds
<1>3. PICK k \in EventRecords : k = events[e] BY <1>1
<1>4. \A d \in EventIds : events[d].generation \in Nat /\ events[d].generation >= 1 /\ events[d].generation <= requests + 1
  <2>1. \A d \in EventIds : events[d].generation \in Gens BY <1>1 DEF EventRecords
  <2> QED BY <2>1, MemoryBounds DEF Gens, MemoryInv, EventsOK
<1>5. k.generation + 1 \in Gens /\ k.generation + 1 <= requests' + 1 BY <1>2, <1>3, <1>4, MemoryBounds DEF Gens
<1>6. PICK g \in Gens : g = k.generation + 1 BY <1>5
<1>7. PICK q \in EventRecords : q = [k EXCEPT !.status = s, !.generation = g] BY DEF EventRecords
<1>8. q.generation = g BY <1>7 DEF EventRecords
<1>9. events' = [events EXCEPT ![e] = q] BY <1>1, <1>3, <1>6, <1>7 DEF EventRecords
<1>10. events' \in [1..n -> EventRecords] /\ events'[e] = q /\ \A d \in EventIds \ {e} : events'[d] = events[d]
  BY <1>1, <1>9
<1>11. events' \in Seq(EventRecords) /\ EventIds' = EventIds
  <2>1. \A f \in [1..n -> EventRecords] : f \in Seq(EventRecords) /\ DOMAIN f = 1..n OBVIOUS
  <2> QED BY <1>1, <1>10, <2>1 DEF EventIds
<1>12. ASSUME NEW d \in EventIds PROVE events'[d].generation <= requests' + 1
  <2>1. CASE d = e BY <1>5, <1>6, <1>8, <1>10, <2>1
  <2>2. CASE d # e
    <3>1. events[d].generation \in Nat /\ events[d].generation <= requests + 1 BY <1>4
    <3>2. events[d].generation <= requests' + 1 BY <1>2, <3>1
    <3> QED BY <1>10, <2>2, <3>2
  <2> QED BY <2>1, <2>2
<1> QED BY <1>11, <1>12 DEF EventsOK

LEMMA RetractEventKeeps == ASSUME MemoryInv, NEW e \in EventIds, RetractEvent(e) PROVE MemoryStep
<1>1. /\ UNCHANGED <<records, segments, version, cache, lane, client>> /\ Request
      /\ requests' \in 0..MaxRequests /\ requests' >= requests BY RequestIs DEF RetractEvent
<1>2. PICK s \in {"live", "retracted", "erased"} : s = IF events[e].status = "live" THEN "retracted" ELSE events[e].status
  <2>1. events[e].status \in {"live", "retracted", "erased"} BY EventIs DEF MemoryInv, EventRecords
  <2> QED BY <2>1
<1>3. events' = [events EXCEPT ![e].status = s, ![e].generation = @ + 1]
  BY <1>2 DEF RetractEvent, MemoryInv, EventsOK, EventIds
<1>4. EventsOK' /\ EventIds' = EventIds BY <1>1, <1>3, EventChanges
<1>5. MemoryInv' BY <1>1, <1>4, SameRecords, MemoryGrows DEF MemoryInv
<1> QED BY <1>1, <1>5, QuietSegments, QuietLane DEF MemoryStep

------------------------
\* Records.
LEMMA RevisionIdIs ==
  ASSUME NEW r \in Known, NEW s \in 1..MaxRevisions, s <= Len(records[r].revisions) PROVE <<r, s>> \in RevisionIds
BY DEF RevisionIds
LEMMA RecordIs ==
  ASSUME RecordsOK, NEW r \in Known
  PROVE  /\ records[r] \in MemoRecords /\ RecordOK(r) /\ records[r].revisions \in Seq(RevisionRecords)
         /\ Len(records[r].revisions) \in 1..MaxRevisions
         /\ Current(r) \in RevisionRecords /\ Known = 1..Len(records) /\ Len(records) \in Nat /\ Len(records) <= MaxRecords
<1>1. records[r] \in MemoRecords /\ RecordOK(r) /\ Known = 1..Len(records) /\ Len(records) \in Nat /\ Len(records) <= MaxRecords
  BY DEF RecordsOK, Known
<1>2. records[r].revisions \in Seq(RevisionRecords) /\ Len(records[r].revisions) \in 1..MaxRevisions
  BY <1>1 DEF MemoRecords, RecordOK
<1>3. PICK s \in Seq(RevisionRecords) : s = records[r].revisions BY <1>2
<1>4. s[Len(s)] \in RevisionRecords BY <1>2, <1>3, MemoryBounds
<1> QED BY <1>1, <1>2, <1>3, <1>4 DEF Current

\* One record changes.
LEMMA RecordChanges ==
  ASSUME RecordsOK, NEW r \in Known, NEW q \in MemoRecords, records' = [records EXCEPT ![r] = q],
         EventIds' = EventIds, Len(q.revisions) \in 1..MaxRevisions, Len(q.revisions) >= Len(records[r].revisions),
         DOMAIN q.roots \subseteq EventIds,
         RevisionGone(q.revisions[Len(q.revisions)]) => q.admission = "archived"
  PROVE  RecordsOK' /\ Known' = Known /\ RevisionIds \subseteq RevisionIds'
<1>1. PICK n \in Nat : n = Len(records) /\ Known = 1..n /\ records \in [1..n -> MemoRecords] /\ n <= MaxRecords
  BY MemoryBounds DEF RecordsOK, Known
<1>2. records' \in [1..n -> MemoRecords] /\ records'[r] = q /\ \A d \in Known \ {r} : records'[d] = records[d] BY <1>1
<1>3. records' \in Seq(MemoRecords) /\ Len(records') = n /\ Known' = Known BY <1>1, <1>2 DEF Known
<1>4. RecordOK(r)' BY <1>2 DEF RecordOK, Current
<1>5. ASSUME NEW d \in Known \ {r} PROVE RecordOK(d)'
  <2>1. RecordOK(d) /\ records'[d] = records[d] BY <1>2 DEF RecordsOK
  <2> QED BY <2>1 DEF RecordOK, Current
<1>6. RecordsOK' BY <1>1, <1>3, <1>4, <1>5 DEF RecordsOK
<1>7. ASSUME NEW id \in RevisionIds PROVE id \in RevisionIds'
  <2>1. id \in Known \X (1..MaxRevisions) /\ id[2] <= Len(records[id[1]].revisions) BY DEF RevisionIds
  <2>2. id[1] \in Known /\ id[2] \in 1..MaxRevisions BY <2>1
  <2>3. Len(records[id[1]].revisions) \in 1..MaxRevisions /\ Len(records[r].revisions) \in 1..MaxRevisions
    BY <2>2, RecordIs
  <2>4. id[2] <= Len(records'[id[1]].revisions)
    <3>1. CASE id[1] = r BY <1>2, <2>1, <2>2, <2>3, <3>1, MemoryBounds
    <3>2. CASE id[1] # r BY <1>2, <2>1, <2>2, <3>2
    <3> QED BY <3>1, <3>2
  <2> QED BY <1>3, <2>1, <2>4 DEF RevisionIds
<1> QED BY <1>3, <1>6, <1>7

\* A new record.
LEMMA RecordAdded ==
  ASSUME RecordsOK, NEW q \in MemoRecords, records' = Append(records, q), Len(records) < MaxRecords,
         EventIds' = EventIds, Len(q.revisions) = 1, DOMAIN q.roots \subseteq EventIds, ~RevisionGone(q.revisions[1])
  PROVE  /\ RecordsOK' /\ Known \subseteq Known' /\ RevisionIds \subseteq RevisionIds'
         /\ <<Len(records) + 1, 1>> \in RevisionIds' /\ <<Len(records) + 1, 1>> \notin RevisionIds
         /\ <<Len(records) + 1, 1>> \in Nat \X Nat
<1>1. PICK n \in Nat : n = Len(records) /\ Known = 1..n /\ records \in Seq(MemoRecords) /\ n + 1 <= MaxRecords /\ DOMAIN records = 1..n
  BY MemoryBounds DEF RecordsOK, Known
<1>2. /\ records' \in Seq(MemoRecords) /\ Len(records') = n + 1 /\ DOMAIN records' = 1..(n + 1) /\ records'[n + 1] = q
      /\ \A d \in Known : records'[d] = records[d] BY <1>1, OneMore
<1>3. Known' = Known \cup {n + 1} /\ n + 1 \notin Known BY <1>1, <1>2, Longer DEF Known
<1>4. RecordOK(n + 1)'
  <2>1. 1 \in 1..MaxRevisions BY MemoryBounds
  <2> QED BY <1>2, <2>1 DEF RecordOK, Current
<1>5. ASSUME NEW d \in Known PROVE RecordOK(d)'
  <2>1. RecordOK(d) /\ records'[d] = records[d] BY <1>2 DEF RecordsOK
  <2> QED BY <2>1 DEF RecordOK, Current
<1>6. RecordsOK' BY <1>1, <1>2, <1>3, <1>4, <1>5 DEF RecordsOK
<1>7. ASSUME NEW id \in RevisionIds PROVE id \in RevisionIds' /\ id[1] \in Known
  <2>1. id \in Known \X (1..MaxRevisions) /\ id[2] <= Len(records[id[1]].revisions) BY DEF RevisionIds
  <2>2. id[1] \in Known BY <2>1
  <2> QED BY <1>2, <1>3, <2>1, <2>2 DEF RevisionIds
<1>8. <<n + 1, 1>> \in RevisionIds'
  <2>1. <<n + 1, 1>> \in Known' \X (1..MaxRevisions) /\ 1 <= Len(records'[n + 1].revisions)
    BY <1>2, <1>3, MemoryBounds
  <2> QED BY <2>1 DEF RevisionIds
<1>9. <<n + 1, 1>> \notin RevisionIds BY <1>3, <1>7
<1> QED BY <1>1, <1>3, <1>6, <1>7, <1>8, <1>9

LEMMA RevisionIs == Revision \in RevisionRecords /\ ~RevisionGone(Revision)
BY DEF Revision, RevisionRecords, RevisionGone

LEMMA SupersededIs ==
  ASSUME NEW revs \in Seq(RevisionRecords), Len(revs) >= 1
  PROVE  /\ Superseded(revs) \in Seq(RevisionRecords) /\ Len(Superseded(revs)) = Len(revs) + 1
         /\ Superseded(revs)[Len(revs) + 1] = Revision /\ Len(revs) \in Nat
<1>1. PICK n \in Nat : n = Len(revs) /\ n >= 1 /\ revs \in [1..n -> RevisionRecords] OBVIOUS
<1>2. PICK k \in RevisionRecords : k = revs[n] BY <1>1
<1>3. PICK q \in RevisionRecords : q = [k EXCEPT !.lifecycle = "superseded"] BY Zenon DEF RevisionRecords
<1>4. PICK t \in [1..n -> RevisionRecords] : t = [revs EXCEPT ![n] = q] BY <1>1, Zenon
<1>5. t = [revs EXCEPT ![Len(revs)].lifecycle = "superseded"] BY <1>1, <1>2, <1>3, <1>4
<1>6. t \in Seq(RevisionRecords) /\ Len(t) = n BY <1>4
<1>7. /\ Append(t, Revision) \in Seq(RevisionRecords) /\ Len(Append(t, Revision)) = n + 1
      /\ Append(t, Revision)[n + 1] = Revision BY <1>6, RevisionIs, OneMore
<1> QED BY <1>1, <1>5, <1>7, Zenon DEF Superseded

LEMMA RetractedIs ==
  ASSUME NEW revs \in Seq(RevisionRecords)
  PROVE  Retracted(revs) \in Seq(RevisionRecords) /\ Len(Retracted(revs)) = Len(revs)
<1>1. PICK n \in Nat : n = Len(revs) /\ revs \in [1..n -> RevisionRecords] /\ DOMAIN revs = 1..n OBVIOUS
<1>2. ASSUME NEW s \in 1..n PROVE [revs[s] EXCEPT !.lifecycle = "retracted"] \in RevisionRecords
  <2>1. PICK k \in RevisionRecords : k = revs[s] BY <1>1
  <2>2. [k EXCEPT !.lifecycle = "retracted"] \in RevisionRecords BY DEF RevisionRecords
  <2> QED BY <2>1, <2>2
<1>3. Retracted(revs) \in [1..n -> RevisionRecords] BY <1>1, <1>2 DEF Retracted
<1>4. \A t \in [1..n -> RevisionRecords] : t \in Seq(RevisionRecords) /\ Len(t) = n OBVIOUS
<1> QED BY <1>1, <1>3, <1>4

LEMMA RootMapIs ==
  ASSUME EventsOK, NEW D \in SUBSET EventIds
  PROVE  /\ \A f \in [D -> Gens] : f \in RootMaps /\ DOMAIN f = D
         /\ \A e \in EventIds : events[e].generation \in Gens
<1>1. EventIds \subseteq Nat BY DEF EventsOK, EventIds
<1>2. D \in SUBSET Nat BY <1>1
<1>3. \A e \in EventIds : events[e].generation \in Gens BY EventIs
<1> QED BY <1>2, <1>3 DEF RootMaps

LEMMA LinkedIs ==
  ASSUME EventsOK, NEW old \in RootMaps, DOMAIN old \subseteq EventIds, NEW roots \in SUBSET EventIds
  PROVE  Linked(old, roots) \in RootMaps /\ DOMAIN Linked(old, roots) \subseteq EventIds
<1>1. PICK D \in SUBSET EventIds : D = DOMAIN old \cup roots OBVIOUS
<1>2. \A e \in DOMAIN old : old[e] \in Gens BY DEF RootMaps
<1>3. \A e \in EventIds : events[e].generation \in Gens BY RootMapIs
<1>4. Linked(old, roots) \in [D -> Gens] BY <1>1, <1>2, <1>3 DEF Linked
<1> QED BY <1>4, RootMapIs

\* A record gets a new current revision.
LEMMA SupersedingIs ==
  ASSUME MemoryInv, NEW r \in Known, NEW a \in Admissions, NEW roots \in SUBSET EventIds, EventIds' = EventIds,
         Len(records[r].revisions) < MaxRevisions, records' = Superseding(r, a, roots)
  PROVE  /\ RecordsOK' /\ Known' = Known /\ RevisionIds \subseteq RevisionIds'
         /\ <<r, Len(records[r].revisions) + 1>> \in RevisionIds' /\ CurrentId(r) \in RevisionIds
<1>1. RecordsOK /\ EventsOK BY DEF MemoryInv
<1>2. PICK k \in MemoRecords : /\ k = records[r] /\ k.revisions \in Seq(RevisionRecords) /\ k.roots \in RootMaps
                               /\ Len(k.revisions) \in 1..MaxRevisions /\ DOMAIN k.roots \subseteq EventIds
  BY <1>1, RecordIs DEF MemoRecords, RecordOK
<1>3. PICK m \in RootMaps : m = Linked(k.roots, roots) /\ DOMAIN m \subseteq EventIds BY <1>1, <1>2, LinkedIs
<1>4. PICK n \in Nat : n = Len(k.revisions) /\ n >= 1 /\ n + 1 <= MaxRevisions BY <1>2, MemoryBounds
<1>5. PICK s \in Seq(RevisionRecords) : s = Superseded(k.revisions) /\ Len(s) = n + 1 /\ s[n + 1] = Revision
  BY <1>2, <1>4, SupersededIs
<1>6. PICK q \in MemoRecords : q = [k EXCEPT !.admission = a, !.roots = m, !.revisions = s] BY DEF MemoRecords
<1>7. q.admission = a /\ q.roots = m /\ q.revisions = s BY <1>6 DEF MemoRecords
<1>8. records' = [records EXCEPT ![r] = q]
  <2>1. records \in [Known -> MemoRecords] BY <1>1 DEF RecordsOK, Known
  <2>2. records' = [records EXCEPT ![r].admission = a, ![r].roots = Linked(k.roots, roots),
                                   ![r].revisions = Superseded(k.revisions)]
    BY <1>2, <2>1 DEF Superseding, MemoRecords
  <2>3. records' = [records EXCEPT ![r].admission = a, ![r].roots = m, ![r].revisions = s] BY <1>3, <1>5, <2>2
  <2> QED BY <1>2, <1>6, <2>1, <2>3 DEF MemoRecords
<1>9. RecordsOK' /\ Known' = Known /\ RevisionIds \subseteq RevisionIds'
  <2>1. Len(q.revisions) \in 1..MaxRevisions /\ Len(q.revisions) >= Len(records[r].revisions)
    BY <1>2, <1>4, <1>5, <1>7, MemoryBounds
  <2>2. ~RevisionGone(q.revisions[Len(q.revisions)]) BY <1>5, <1>7, RevisionIs
  <2>3. DOMAIN q.roots \subseteq EventIds BY <1>3, <1>7
  <2> QED BY <1>1, <1>8, <2>1, <2>2, <2>3, RecordChanges
<1>10. records'[r] = q
  <2>1. records \in [Known -> MemoRecords] BY <1>1 DEF RecordsOK, Known
  <2> QED BY <1>8, <2>1
<1>11. <<r, n + 1>> \in RevisionIds'
  <2>1. <<r, n + 1>> \in Known' \X (1..MaxRevisions) /\ n + 1 <= Len(records'[r].revisions)
    BY <1>4, <1>5, <1>7, <1>9, <1>10, MemoryBounds
  <2> QED BY <2>1 DEF RevisionIds
<1>12. CurrentId(r) \in RevisionIds BY <1>2, <1>4, MemoryBounds, RevisionIdIs DEF CurrentId
<1> QED BY <1>2, <1>4, <1>9, <1>11, <1>12

LEMMA ReviseKeeps ==
  ASSUME MemoryInv, NEW r \in Known, NEW seq \in 1..MaxRevisions, NEW roots \in SUBSET EventIds, NEW q \in BOOLEAN,
         Revise(r, seq, roots, q)
  PROVE  MemoryStep
<1>1. /\ UNCHANGED <<events, segments, version, cache, lane, client>>
      /\ requests' \in 0..MaxRequests /\ requests' >= requests
      /\ records' = Superseding(r, Admitted(roots, q), roots) /\ Len(records[r].revisions) < MaxRevisions
  BY RequestIs DEF Revise, Grows
<1>2. Admitted(roots, q) \in Admissions BY DEF Admitted, Admissions
<1>3. EventIds' = EventIds BY <1>1, SameEvents
<1>4. RecordsOK' /\ Known' = Known /\ RevisionIds \subseteq RevisionIds' BY <1>1, <1>2, <1>3, SupersedingIs
<1>5. MemoryInv' BY <1>1, <1>3, <1>4, MemoryGrows DEF MemoryInv
<1> QED BY <1>1, <1>5, QuietSegments, QuietLane DEF MemoryStep

LEMMA RetractRecordKeeps == ASSUME MemoryInv, NEW r \in Known, RetractRecord(r) PROVE MemoryStep
<1>1. /\ UNCHANGED <<events, segments, version, cache, lane, client>>
      /\ requests' \in 0..MaxRequests /\ requests' >= requests
      /\ records' = [records EXCEPT ![r].admission = "archived", ![r].revisions = Retracted(@)]
  BY RequestIs DEF RetractRecord
<1>2. RecordsOK /\ EventIds' = EventIds BY <1>1, SameEvents DEF MemoryInv
<1>3. PICK k \in MemoRecords : /\ k = records[r] /\ k.revisions \in Seq(RevisionRecords)
                               /\ Len(k.revisions) \in 1..MaxRevisions /\ DOMAIN k.roots \subseteq EventIds
  BY <1>2, RecordIs DEF MemoRecords, RecordOK
<1>4. PICK s \in Seq(RevisionRecords) : s = Retracted(k.revisions) /\ Len(s) = Len(k.revisions) BY <1>3, RetractedIs
<1>5. PICK q \in MemoRecords : q = [k EXCEPT !.admission = "archived", !.revisions = s] BY DEF MemoRecords, Admissions
<1>6. q.admission = "archived" /\ q.roots = k.roots /\ q.revisions = s BY <1>5 DEF MemoRecords
<1>7. records' = [records EXCEPT ![r] = q]
  <2>1. records \in [Known -> MemoRecords] BY <1>2 DEF RecordsOK, Known
  <2>2. records' = [records EXCEPT ![r].admission = "archived", ![r].revisions = Retracted(k.revisions)]
    BY <1>1, <1>3, <2>1 DEF MemoRecords
  <2>3. records' = [records EXCEPT ![r].admission = "archived", ![r].revisions = s] BY <1>4, <2>2
  <2> QED BY <1>3, <1>5, <2>1, <2>3 DEF MemoRecords
<1>8. Len(q.revisions) \in 1..MaxRevisions /\ Len(q.revisions) >= Len(records[r].revisions)
  BY <1>3, <1>4, <1>6, MemoryBounds
<1>9. RecordsOK' /\ Known' = Known /\ RevisionIds \subseteq RevisionIds'
  BY <1>2, <1>3, <1>6, <1>7, <1>8, RecordChanges
<1>10. MemoryInv' BY <1>1, <1>2, <1>9, MemoryGrows DEF MemoryInv
<1> QED BY <1>1, <1>10, QuietSegments, QuietLane DEF MemoryStep

\* The current revision of a record is erased, and the record archived, when one of its roots is.
LEMMA ErasedIs ==
  ASSUME NEW k \in MemoRecords, Len(k.revisions) \in 1..MaxRevisions
  PROVE  /\ Erased(k) \in MemoRecords /\ Erased(k).admission = "archived" /\ Erased(k).roots = k.roots
         /\ Len(Erased(k).revisions) = Len(k.revisions)
<1>1. k.revisions \in Seq(RevisionRecords) BY DEF MemoRecords
<1>2. PICK n \in Nat : n = Len(k.revisions) /\ n >= 1 /\ k.revisions \in [1..n -> RevisionRecords]
  BY <1>1, MemoryBounds
<1>3. PICK v \in RevisionRecords : v = k.revisions[n] BY <1>2
<1>4. PICK w \in RevisionRecords : w = [v EXCEPT !.erased = TRUE] BY DEF RevisionRecords
<1>5. PICK s \in [1..n -> RevisionRecords] : s = [k.revisions EXCEPT ![n] = w] BY <1>2
<1>6. \A t \in [1..n -> RevisionRecords] : t \in Seq(RevisionRecords) /\ Len(t) = n OBVIOUS
<1>7. PICK q \in MemoRecords : q = [k EXCEPT !.admission = "archived", !.revisions = s]
  BY <1>5, <1>6 DEF MemoRecords, Admissions
<1>8. q.admission = "archived" /\ q.roots = k.roots /\ q.revisions = s BY <1>7 DEF MemoRecords
<1>9. q = Erased(k)
  <2>1. PICK a \in MemoRecords : a = [k EXCEPT !.admission = "archived"] /\ a.revisions = k.revisions
    <3>1. PICK a \in MemoRecords : a = [k EXCEPT !.admission = "archived"] BY DEF MemoRecords, Admissions
    <3> QED BY <3>1 DEF MemoRecords
  <2>2. s = [k.revisions EXCEPT ![n].erased = TRUE] BY <1>2, <1>3, <1>4, <1>5
  <2>3. [a EXCEPT !.revisions = s] = [a EXCEPT !.revisions[n].erased = TRUE] BY <2>1, <2>2 DEF MemoRecords
  <2>4. q = [a EXCEPT !.revisions = s] BY <1>7, <2>1 DEF MemoRecords
  <2>5. [k EXCEPT !.admission = "archived", !.revisions[n].erased = TRUE] = [a EXCEPT !.revisions[n].erased = TRUE]
    BY <2>1 DEF MemoRecords
  <2> QED BY <1>2, <2>3, <2>4, <2>5 DEF Erased
<1> QED BY <1>2, <1>6, <1>8, <1>9

LEMMA EraseEventKeeps == ASSUME MemoryInv, NEW e \in EventIds, EraseEvent(e) PROVE MemoryStep
<1>1. /\ UNCHANGED <<segments, version, cache, lane, client>> /\ Request
      /\ requests' \in 0..MaxRequests /\ requests' >= requests BY RequestIs DEF EraseEvent
<1>2. EventsOK' /\ EventIds' = EventIds BY <1>1, EventChanges DEF EraseEvent
<1>3. PICK n \in Nat : n = Len(records) /\ Known = 1..n /\ records \in [1..n -> MemoRecords] /\ n <= MaxRecords
  BY MemoryBounds DEF MemoryInv, RecordsOK, Known
<1>4. records' = [r \in 1..n |-> IF e \in DOMAIN records[r].roots THEN Erased(records[r]) ELSE records[r]]
  BY <1>3 DEF EraseEvent
<1>5. ASSUME NEW r \in 1..n
      PROVE  /\ records'[r] \in MemoRecords /\ Len(records'[r].revisions) = Len(records[r].revisions)
             /\ Len(records'[r].revisions) \in 1..MaxRevisions
             /\ DOMAIN records'[r].roots \subseteq EventIds
             /\ RevisionGone(records'[r].revisions[Len(records'[r].revisions)]) => records'[r].admission = "archived"
  <2>1. records[r] \in MemoRecords /\ RecordOK(r) BY <1>3, RecordIs DEF MemoryInv
  <2>2. PICK k \in MemoRecords : k = records[r] BY <2>1
  <2>3. Len(k.revisions) \in 1..MaxRevisions /\ DOMAIN k.roots \subseteq EventIds BY <2>1, <2>2 DEF RecordOK
  <2>4. CASE e \notin DOMAIN k.roots
    <3>1. records'[r] = records[r] BY <1>4, <2>2, <2>4
    <3> QED BY <2>1, <3>1 DEF RecordOK, Current
  <2>5. CASE e \in DOMAIN k.roots
    <3>1. records'[r] = Erased(k) BY <1>4, <2>2, <2>5
    <3> QED BY <2>2, <2>3, <3>1, ErasedIs
  <2> QED BY <2>4, <2>5
<1>6. records' \in [1..n -> MemoRecords] BY <1>4, <1>5
<1>7. records' \in Seq(MemoRecords) /\ Len(records') = n /\ Known' = Known
  <2>1. \A f \in [1..n -> MemoRecords] : f \in Seq(MemoRecords) /\ Len(f) = n /\ DOMAIN f = 1..n OBVIOUS
  <2> QED BY <1>3, <1>6, <2>1 DEF Known
<1>8. RecordsOK' BY <1>2, <1>3, <1>5, <1>7 DEF RecordsOK, RecordOK, Current
<1>9. RevisionIds \subseteq RevisionIds'
  <2>1. ASSUME NEW id \in RevisionIds PROVE id \in RevisionIds'
    <3>1. id \in Known \X (1..MaxRevisions) /\ id[2] <= Len(records[id[1]].revisions) /\ id[1] \in Known
      BY DEF RevisionIds
    <3>2. Len(records'[id[1]].revisions) = Len(records[id[1]].revisions) BY <1>3, <1>5, <3>1
    <3> QED BY <1>7, <3>1, <3>2 DEF RevisionIds
  <2> QED BY <2>1
<1>10. MemoryInv' BY <1>1, <1>2, <1>7, <1>8, <1>9, MemoryGrows DEF MemoryInv
<1> QED BY <1>1, <1>10, QuietSegments, QuietLane DEF MemoryStep

------------------------
\* Valid time.
Held(s) == [kind |-> s.kind, revisions |-> s.revisions]
LEMMA HoldingJoins == ASSUME NEW A, NEW B, NEW t PROVE Holding(A \cup B, t) = Holding(A, t) \cup Holding(B, t)
BY DEF Holding
LEMMA HoldingOne == ASSUME NEW x, NEW t PROVE Holding({x}, t) = IF Covers(x, t) THEN {Held(x)} ELSE {}
BY DEF Holding, Held
LEMMA HoldingNone == ASSUME NEW A, NEW t, \A s \in A : ~Covers(s, t) PROVE Holding(A, t) = {}
BY DEF Holding

LEMMA TimeIs == \A t \in Times : t \in Nat /\ t # Open /\ t >= 1
BY MemoryBounds DEF Times, Open
LEMMA SegmentIs ==
  ASSUME NEW s \in SlotSegments
  PROVE  s.lower \in Times /\ s.upper \in Times \cup {Open} /\ s.revisions \in SUBSET (Nat \X Nat) BY DEF SlotSegments

\* A segment that covers an instant of an interval overlaps the interval.
LEMMA Meets ==
  ASSUME NEW s \in SlotSegments, NEW t \in Times, NEW lower \in Times, NEW upper \in Times \cup {Open},
         Covers(s, t), lower <= t, ~EndsBy(upper, t)
  PROVE  Overlaps(s, lower, upper)
<1>1. s.lower \in Times /\ s.upper \in Times \cup {Open} BY SegmentIs
<1> QED BY <1>1, MemoryBounds DEF Overlaps, Covers, EndsBy, Times, Open

LEMMA ClosedIs ==
  ASSUME MemoryInv, NEW lower \in Times, NEW upper \in Times \cup {Open}
  PROVE  \A c \in Closed(lower, upper) : c \in SlotSegments /\ c.upper = lower /\ c.revisions \subseteq RevisionIds
<1> SUFFICES ASSUME NEW s \in segments
             PROVE  LET c == [s EXCEPT !.upper = lower]
                    IN  c \in SlotSegments /\ c.upper = lower /\ c.revisions \subseteq RevisionIds
  BY DEF Closed, Overlapping
<1>1. s \in SlotSegments /\ s.revisions \subseteq RevisionIds BY DEF MemoryInv, SegmentsOK
<1>2. PICK c \in SlotSegments : c = [s EXCEPT !.upper = lower] BY <1>1 DEF SlotSegments
<1>3. c.upper = lower /\ c.revisions = s.revisions BY <1>1, <1>2 DEF SlotSegments
<1> QED BY <1>1, <1>2, <1>3

LEMMA ResolvedIs ==
  ASSUME MemoryInv, NEW id \in RevisionIds', id \notin RevisionIds, id \in Nat \X Nat, RevisionIds \subseteq RevisionIds',
         NEW lower \in Times, NEW upper \in Times \cup {Open}, upper = Open \/ lower < upper,
         segments' = Resolved(id, lower, upper)
  PROVE  SegmentsOK' /\ \A t \in Times : LocalAt(t)
<1> DEFINE O == Overlapping(lower, upper)
           C == Closed(lower, upper)
<1>1. segments \subseteq SlotSegments /\ (\A s \in segments : s.revisions \subseteq RevisionIds) /\ O \subseteq segments
  BY DEF MemoryInv, SegmentsOK, Overlapping
<1>2. \A c \in C : c \in SlotSegments /\ c.upper = lower /\ c.revisions \subseteq RevisionIds BY ClosedIs
<1>3. Contenders(lower, upper) \subseteq RevisionIds /\ Contenders(lower, upper) \subseteq Nat \X Nat
  <2>1. \A s \in O : s.revisions \subseteq RevisionIds /\ s.revisions \subseteq Nat \X Nat BY <1>1, SegmentIs
  <2> QED BY <2>1 DEF Contenders
<1>4. \A kind \in {"resolved", "conflict"}, revs \in SUBSET (Nat \X Nat) :
        LET g == Segment(lower, upper, kind, revs)
        IN  g \in SlotSegments /\ g.kind = kind /\ g.revisions = revs /\ g.lower = lower /\ g.upper = upper
  BY DEF Segment, SlotSegments
<1>5. ASSUME NEW t \in Times, lower <= t, ~EndsBy(upper, t)
      PROVE  Holding(segments \ O, t) = {}
  <2>1. \A s \in segments \ O : ~Covers(s, t) BY <1>1, <1>5, Meets DEF Overlapping
  <2> QED BY <2>1, HoldingNone
<1>6. ASSUME NEW t \in Times PROVE Holding(segments, t) = Holding(segments \ O, t) \cup Holding(O, t)
  <2>1. PICK A : A = segments \ O OBVIOUS
  <2>2. segments = A \cup O BY <1>1, <2>1
  <2>3. Holding(A \cup O, t) = Holding(A, t) \cup Holding(O, t) BY HoldingJoins
  <2> HIDE DEF O
  <2> QED BY <2>1, <2>2, <2>3
<1>7. CASE O = {} \/ Continues(lower, upper)
  <2>1. PICK g \in SlotSegments : /\ g = Segment(lower, upper, "resolved", {id}) /\ g.kind = "resolved"
                                   /\ g.revisions = {id} /\ g.lower = lower /\ g.upper = upper BY <1>4
  <2>2. segments' = ((segments \ O) \cup C) \cup {g} BY <1>7, <2>1 DEF Resolved
  <2>3. SegmentsOK' BY <1>1, <1>2, <2>1, <2>2 DEF SegmentsOK
  <2>4. ASSUME NEW t \in Times
        PROVE  Holding(segments', t) = (Holding(segments \ O, t) \cup Holding(C, t)) \cup (IF Covers(g, t) THEN {Held(g)} ELSE {})
    <3>1. PICK A : A = segments \ O OBVIOUS
    <3>2. Holding((A \cup C) \cup {g}, t) = Holding(A \cup C, t) \cup Holding({g}, t) BY HoldingJoins
    <3>3. Holding(A \cup C, t) = Holding(A, t) \cup Holding(C, t) BY HoldingJoins
    <3>4. Holding({g}, t) = IF Covers(g, t) THEN {Held(g)} ELSE {} BY HoldingOne
    <3> HIDE DEF O, C
    <3> QED BY <2>2, <3>1, <3>2, <3>3, <3>4
  <2>5. (C = {} /\ O = {}) \/ \E s \in segments : O = {s} /\ s.upper = Open /\ s.lower <= lower /\ upper = Open
    BY <1>7 DEF Closed, Continues
  <2>6. ASSUME NEW t \in Times, Covers(g, t) PROVE LocalAt(t)
    <3>1. lower <= t /\ ~EndsBy(upper, t) BY <2>1, <2>6 DEF Covers
    <3>2. Holding(C, t) = {}
      <4>1. \A c \in C : ~Covers(c, t) BY <1>2, <3>1, TimeIs DEF Covers, EndsBy
      <4> QED BY <4>1, HoldingNone
    <3>3. Holding(segments', t) = {Held(g)} /\ Holding(segments, t) = Holding(O, t)
      BY <1>5, <1>6, <2>4, <2>6, <3>1, <3>2
    <3>4. Held(g) = [kind |-> "resolved", revisions |-> {id}] BY <2>1 DEF Held
    <3>5. Cardinality(Holding(O, t)) <= 1
      <4>1. Holding(O, t) = {} \/ \E h : Holding(O, t) = {h}
        <5>1. ASSUME O = {} PROVE Holding(O, t) = {} BY <5>1, HoldingNone
        <5>2. ASSUME NEW s \in segments, O = {s} PROVE Holding(O, t) = {} \/ Holding(O, t) = {Held(s)}
          BY <5>2, HoldingOne
        <5> QED BY <2>5, <5>1, <5>2
      <4>2. \A h : Cardinality({h}) = 1 BY FS_Singleton
      <4>3. Cardinality({}) = 0 BY FS_EmptySet
      <4>4. PICK H : H = Holding(O, t) OBVIOUS
      <4>5. H = {} \/ \E h : H = {h} BY <4>1, <4>4
      <4>6. Cardinality(H) = 0 \/ Cardinality(H) = 1 BY <4>2, <4>3, <4>5
      <4>7. Cardinality(H) <= 1 BY <4>6
      <4> QED BY <4>4, <4>7
    <3> QED BY <3>3, <3>4, <3>5 DEF LocalAt, Fresh
  <2>7. ASSUME NEW t \in Times, ~Covers(g, t) PROVE LocalAt(t)
    <3>1. Holding(C, t) = Holding(O, t)
      <4>1. CASE C = {} /\ O = {} BY <4>1
      <4>2. ASSUME NEW s \in segments, O = {s}, s.upper = Open, s.lower <= lower, upper = Open PROVE Holding(C, t) = Holding(O, t)
        <5>1. t < lower /\ t \in Nat /\ lower \in Nat /\ s.lower \in Nat /\ s \in SlotSegments
          BY <1>1, <2>1, <2>7, <4>2, SegmentIs, TimeIs DEF Covers, EndsBy
        <5>2. CASE s.lower < lower
          <6>1. PICK c : c = [s EXCEPT !.upper = lower] OBVIOUS
          <6>2. C = {c} BY <4>2, <5>2, <6>1 DEF Closed
          <6>3. c.lower = s.lower /\ c.upper = lower /\ Held(c) = Held(s) BY <5>1, <6>1 DEF SlotSegments, Held
          <6>4. Covers(c, t) <=> Covers(s, t) BY <4>2, <5>1, <6>3 DEF Covers, EndsBy
          <6>5. Holding({c}, t) = (IF Covers(c, t) THEN {Held(c)} ELSE {}) /\ Holding({s}, t) = (IF Covers(s, t) THEN {Held(s)} ELSE {})
            BY HoldingOne
          <6> HIDE DEF O, C
          <6> QED BY <4>2, <6>2, <6>3, <6>4, <6>5
        <5>3. CASE ~(s.lower < lower)
          <6>1. C = {} BY <4>2, <5>3 DEF Closed
          <6>2. ~Covers(s, t) BY <4>2, <5>1, <5>3 DEF Covers
          <6>3. Holding(C, t) = {} BY <6>1, HoldingNone
          <6>4. Holding(O, t) = {} BY <4>2, <6>2, HoldingNone
          <6> QED BY <6>3, <6>4
        <5> QED BY <5>2, <5>3
      <4> QED BY <2>5, <4>1, <4>2
    <3>2. Holding(segments', t) = Holding(segments, t) BY <1>6, <2>4, <2>7, <3>1
    <3> QED BY <3>2 DEF LocalAt
  <2> QED BY <2>3, <2>6, <2>7
<1>8. CASE ~(O = {} \/ Continues(lower, upper))
  <2>1. PICK g \in SlotSegments : /\ g = Segment(lower, upper, "conflict", {id} \cup Contenders(lower, upper))
                                   /\ g.kind = "conflict" /\ g.revisions = {id} \cup Contenders(lower, upper)
                                   /\ g.lower = lower /\ g.upper = upper
    <3>1. {id} \cup Contenders(lower, upper) \in SUBSET (Nat \X Nat) BY <1>3
    <3> QED BY <1>4, <3>1
  <2>2. segments' = segments \cup {g} BY <1>8, <2>1 DEF Resolved
  <2>3. SegmentsOK' BY <1>1, <1>3, <2>1, <2>2 DEF SegmentsOK
  <2>4. ASSUME NEW t \in Times PROVE Holding(segments', t) = Holding(segments, t) \cup (IF Covers(g, t) THEN {Held(g)} ELSE {})
    <3>1. Holding(segments \cup {g}, t) = Holding(segments, t) \cup Holding({g}, t) BY HoldingJoins
    <3>2. Holding({g}, t) = IF Covers(g, t) THEN {Held(g)} ELSE {} BY HoldingOne
    <3> QED BY <2>2, <3>1, <3>2
  <2>5. ASSUME NEW t \in Times, ~Covers(g, t) PROVE LocalAt(t) BY <2>4, <2>5 DEF LocalAt
  <2>6. ASSUME NEW t \in Times, Covers(g, t) PROVE LocalAt(t)
    <3>1. lower <= t /\ ~EndsBy(upper, t) BY <2>1, <2>6 DEF Covers
    <3>2. Holding(segments, t) = Holding(O, t) BY <1>5, <1>6, <3>1
    <3>3. PICK h : h = Held(g) OBVIOUS
    <3>7. h.kind = "conflict" /\ h.revisions = {id} \cup Contenders(lower, upper) BY <2>1, <3>3 DEF Held
    <3>4. UNION {b.revisions : b \in Holding(O, t)} \subseteq h.revisions
      <4>1. \A b \in Holding(O, t) : b.revisions \subseteq Contenders(lower, upper) BY DEF Holding, Contenders
      <4> QED BY <3>7, <4>1
    <3>5. h \in Holding(segments', t) /\ Holding(segments, t) \subseteq Holding(segments', t) BY <2>4, <2>6, <3>3
    <3>6. id \in h.revisions /\ Fresh(id) BY <3>7 DEF Fresh
    <3> QED BY <3>2, <3>4, <3>5, <3>6, <3>7 DEF LocalAt
  <2> QED BY <2>3, <2>5, <2>6
<1> QED BY <1>7, <1>8

LEMMA ProposedIs ==
  ASSUME MemoryInv, EventIds' = EventIds, NEW kind \in RecordKinds, NEW roots \in SUBSET EventIds, NEW q \in BOOLEAN,
         NEW i, NEW w, kind = "claim" => i \in Intervals, Proposed(kind, roots, q, i, w)
  PROVE  /\ RecordsOK' /\ SegmentsOK' /\ Known \subseteq Known' /\ RevisionIds \subseteq RevisionIds'
         /\ \A t \in Times : LocalAt(t)
         /\ version' = version \/ version' = version + 1
         /\ kind # "claim" => version' = version
<1> DEFINE id == <<Len(records) + 1, 1>>
           heads == kind = "claim" /\ Admitted(roots, q) = "accepted" /\ ~w
<1>1. /\ Len(records) < MaxRecords
      /\ segments' = IF heads THEN Resolved(id, i[1], i[2]) ELSE segments
      /\ version' = IF heads THEN version + 1 ELSE version BY DEF Proposed
<1>2. RecordsOK /\ EventsOK /\ SegmentsOK BY DEF MemoryInv
<1>3. Admitted(roots, q) \in Admissions BY DEF Admitted, Admissions
<1>4. PICK f \in RootMaps : f = Generations(roots) /\ DOMAIN f = roots
  <2>1. Generations(roots) \in [roots -> Gens] BY <1>2, RootMapIs DEF Generations
  <2> QED BY <1>2, <2>1, RootMapIs
<1>5. PICK s \in Seq(RevisionRecords) : s = <<Revision>> /\ Len(s) = 1 /\ s[1] = Revision
  <2>1. \A x \in RevisionRecords : <<x>> \in Seq(RevisionRecords) /\ Len(<<x>>) = 1 /\ <<x>>[1] = x OBVIOUS
  <2> QED BY <2>1, RevisionIs
<1>6. PICK k \in MemoRecords : k = [kind |-> kind, admission |-> Admitted(roots, q), roots |-> f, revisions |-> s]
  BY <1>3 DEF MemoRecords
<1>7. k.roots = f /\ k.revisions = s BY <1>6 DEF MemoRecords
<1>8. records' = Append(records, k) BY <1>4, <1>5, <1>6 DEF Proposed
<1>9. /\ RecordsOK' /\ Known \subseteq Known' /\ RevisionIds \subseteq RevisionIds'
      /\ id \in RevisionIds' /\ id \notin RevisionIds /\ id \in Nat \X Nat
  <2>1. Len(k.revisions) = 1 /\ DOMAIN k.roots \subseteq EventIds /\ ~RevisionGone(k.revisions[1])
    BY <1>4, <1>5, <1>7, RevisionIs
  <2> QED BY <1>1, <1>2, <1>8, <2>1, RecordAdded
<1>10. CASE ~heads
  <2>1. segments' = segments BY <1>1, <1>10
  <2>2. SegmentsOK' BY <1>2, <1>9, <2>1 DEF SegmentsOK
  <2>3. \A t \in Times : LocalAt(t) BY <2>1, QuietSegments
  <2> QED BY <1>1, <1>9, <1>10, <2>2, <2>3
<1>11. CASE heads
  <2>1. i[1] \in Times /\ i[2] \in Times \cup {Open} /\ (i[2] = Open \/ i[1] < i[2]) BY <1>11 DEF Intervals
  <2>2. segments' = Resolved(id, i[1], i[2]) BY <1>1, <1>11
  <2>3. SegmentsOK' /\ \A t \in Times : LocalAt(t)
    <3> HIDE DEF id, heads
    <3> QED BY <1>9, <2>1, <2>2, ResolvedIs
  <2> QED BY <1>1, <1>9, <1>11, <2>3
<1> QED BY <1>10, <1>11

LEMMA ProposeKeeps ==
  ASSUME MemoryInv, NEW kind \in RecordKinds, NEW roots \in SUBSET EventIds, NEW q \in BOOLEAN,
         NEW i \in Asserted(kind), NEW w, Propose(kind, roots, q, i, w)
  PROVE  MemoryStep
<1>1. /\ UNCHANGED <<events, cache, lane, client>> /\ Proposed(kind, roots, q, i, w) /\ EventIds' = EventIds
      /\ requests' \in 0..MaxRequests /\ requests' >= requests /\ requests' = requests + 1 /\ requests \in Nat
  BY RequestIs, SameEvents DEF Propose
<1>2. kind = "claim" => i \in Intervals BY DEF Asserted
<1>3. /\ RecordsOK' /\ SegmentsOK' /\ Known \subseteq Known' /\ RevisionIds \subseteq RevisionIds'
      /\ \A t \in Times : LocalAt(t)
      /\ version' = version \/ version' = version + 1 BY <1>1, <1>2, ProposedIs
<1>4. VersionOK' BY <1>1, <1>3, MemoryBounds DEF MemoryInv, VersionOK
<1>5. MemoryInv' BY <1>1, <1>3, <1>4, MemoryGrows DEF MemoryInv
<1> QED BY <1>1, <1>3, <1>5, QuietLane DEF MemoryStep

\* A request that is none: what a client does between its requests.
LEMMA NoRequest ==
  ASSUME MemoryInv, requests' = requests PROVE requests' \in 0..MaxRequests /\ requests' >= requests /\ requests \in Nat
BY MemoryBounds DEF MemoryInv, VersionOK

LEMMA RememberProposesKeeps == ASSUME MemoryInv, RememberProposes PROVE MemoryStep
<1>1. /\ UNCHANGED <<events, cache, lane, requests>> /\ client.at = "propose" /\ client' = Idle
      /\ EventIds' = EventIds BY SameEvents DEF RememberProposes
<1>2. client.event \in EventIds BY <1>1 DEF MemoryInv, ClientOK, Idle
<1>3. /\ RecordsOK' /\ SegmentsOK' /\ Known \subseteq Known' /\ RevisionIds \subseteq RevisionIds'
      /\ (\A t \in Times : LocalAt(t)) /\ version' = version
  <2>1. CASE Proposed("observation", {client.event}, FALSE, Ever, FALSE)
    <3>1. PICK kind \in RecordKinds : kind = "observation" BY DEF RecordKinds
    <3>2. PICK roots \in SUBSET EventIds : roots = {client.event} BY <1>2
    <3>3. kind # "claim" /\ Proposed(kind, roots, FALSE, Ever, FALSE) BY <2>1, <3>1, <3>2
    <3> QED BY <1>1, <3>3, ProposedIs
  <2>2. CASE UNCHANGED <<records, segments, version>>
    BY <2>2, SameRecords, QuietSegments DEF MemoryInv, RecordsOK, RecordOK, SegmentsOK, Current, EventIds, Known, RememberProposes
  <2> QED BY <2>1, <2>2 DEF RememberProposes
<1>4. ClientOK' /\ client'.at # "correct" BY <1>1 DEF ClientOK, Idle
<1>5. MemoryInv' BY <1>1, <1>3, <1>4, NoRequest, MemoryGrows DEF MemoryInv
<1> QED BY <1>1, <1>3, <1>5, QuietLane DEF MemoryStep

LEMMA ResolveKeeps == ASSUME MemoryInv, NEW id \in RevisionIds, NEW i \in Intervals, Resolve(id, i) PROVE MemoryStep
<1>1. /\ UNCHANGED <<events, records, cache, lane, client>> /\ EventIds' = EventIds
      /\ Known' = Known /\ RevisionIds' = RevisionIds /\ version' = version + 1
      /\ segments' = {Segment(i[1], i[2], "resolved", {id})}
      /\ requests' \in 0..MaxRequests /\ requests' >= requests /\ requests' = requests + 1 /\ requests \in Nat
  BY RequestIs, SameEvents, SameRecords DEF Resolve
<1>2. i[1] \in Times /\ i[2] \in Times \cup {Open} BY DEF Intervals
<1>3. id \in Nat \X Nat
  <2>1. id \in Known \X (1..MaxRevisions) BY DEF RevisionIds
  <2>2. Known \subseteq Nat BY DEF MemoryInv, RecordsOK, Known
  <2>3. (1..MaxRevisions) \subseteq Nat BY MemoryBounds
  <2> QED BY <2>1, <2>2, <2>3
<1>4. PICK g \in SlotSegments : g = Segment(i[1], i[2], "resolved", {id}) /\ g.revisions = {id}
  <2>1. \A a \in Times, b \in Times \cup {Open}, revs \in SUBSET (Nat \X Nat) :
          Segment(a, b, "resolved", revs) \in SlotSegments /\ Segment(a, b, "resolved", revs).revisions = revs
    BY DEF Segment, SlotSegments
  <2> QED BY <1>2, <1>3, <2>1
<1>5. SegmentsOK' BY <1>1, <1>4 DEF SegmentsOK
<1>6. VersionOK' BY <1>1, MemoryBounds DEF MemoryInv, VersionOK
<1>7. MemoryInv' BY <1>1, <1>5, <1>6, MemoryGrows DEF MemoryInv
<1>8. \A t \in Times : LocalAt(t) BY DEF LocalAt
<1> QED BY <1>1, <1>7, <1>8, QuietLane DEF MemoryStep

------------------------
\* Corrections.
LEMMA CorrectReadsKeeps == ASSUME MemoryInv, NEW r \in Known, CorrectReads(r) PROVE MemoryStep
<1>1. /\ UNCHANGED <<events, records, segments, version, cache, lane, requests>> /\ EventIds' = EventIds
      /\ Known' = Known /\ RevisionIds' = RevisionIds
      /\ client' = [at |-> "evidence", record |-> r, seq |-> Len(records[r].revisions)]
  BY SameEvents, SameRecords DEF CorrectReads
<1>2. Len(records[r].revisions) \in Nat BY RecordIs, MemoryBounds DEF MemoryInv
<1>3. ClientOK' /\ client'.at # "correct" BY <1>1, <1>2 DEF ClientOK
<1>4. MemoryInv' BY <1>1, <1>3, NoRequest, MemoryGrows DEF MemoryInv
<1> QED BY <1>1, <1>4, QuietSegments, QuietLane DEF MemoryStep

Relocated(h, old, new) == [h EXCEPT !.revisions = InPlace(@, old, new)]
AllRelocated(held, old, new) == {Relocated(h, old, new) : h \in held}
LEMMA SubstitutedIs ==
  ASSUME NEW segs \in SUBSET SlotSegments, NEW old \in Nat \X Nat, NEW new \in Nat \X Nat
  PROVE  /\ \A c \in Substituted(segs, old, new) : c \in SlotSegments /\ \E s \in segs : c.revisions = InPlace(s.revisions, old, new)
         /\ \A t \in Times : Holding(Substituted(segs, old, new), t)
                             = AllRelocated(Holding(segs, t), old, new)
<1>1. ASSUME NEW s \in segs
      PROVE  /\ [s EXCEPT !.revisions = InPlace(s.revisions, old, new)] \in SlotSegments
             /\ [s EXCEPT !.revisions = InPlace(s.revisions, old, new)].revisions = InPlace(s.revisions, old, new)
             /\ [s EXCEPT !.revisions = InPlace(s.revisions, old, new)].kind = s.kind
             /\ \A t \in Times : Covers([s EXCEPT !.revisions = InPlace(s.revisions, old, new)], t) <=> Covers(s, t)
  <2>1. s \in SlotSegments OBVIOUS
  <2>2. PICK k \in SUBSET (Nat \X Nat) : k = InPlace(s.revisions, old, new)
    <3>1. s.revisions \in SUBSET (Nat \X Nat) BY SegmentIs
    <3> QED BY <3>1 DEF InPlace
  <2>3. PICK c \in SlotSegments : c = [s EXCEPT !.revisions = k] BY <2>1 DEF SlotSegments
  <2>4. c.revisions = k /\ c.kind = s.kind /\ c.lower = s.lower /\ c.upper = s.upper BY <2>1, <2>3 DEF SlotSegments
  <2>5. \A t \in Times : Covers(c, t) <=> Covers(s, t) BY <2>4 DEF Covers
  <2> QED BY <2>2, <2>3, <2>4, <2>5
<1>2. \A c \in Substituted(segs, old, new) : c \in SlotSegments /\ \E s \in segs : c.revisions = InPlace(s.revisions, old, new)
  BY <1>1 DEF Substituted
<1>3. ASSUME NEW t \in Times
      PROVE  Holding(Substituted(segs, old, new), t) = AllRelocated(Holding(segs, t), old, new)
  <2> DEFINE New(s) == [s EXCEPT !.revisions = InPlace(s.revisions, old, new)]
  <2>1. \A s \in segs : Held(New(s)) = Relocated(Held(s), old, new) /\ (Covers(New(s), t) <=> Covers(s, t))
    <3>1. ASSUME NEW s \in segs PROVE Held(New(s)) = Relocated(Held(s), old, new)
      <4>1. Held(New(s)) = [kind |-> s.kind, revisions |-> InPlace(s.revisions, old, new)] BY <1>1 DEF Held
      <4> QED BY <4>1 DEF Held, Relocated
    <3> QED BY <1>1, <3>1
  <2>2. Substituted(segs, old, new) = {New(s) : s \in segs} BY DEF Substituted
  <2>3. \A A : Holding(A, t) = {Held(s) : s \in {x \in A : Covers(x, t)}} BY DEF Holding, Held
  <2> HIDE DEF New
  <2>4. Holding({New(s) : s \in segs}, t) = AllRelocated(Holding(segs, t), old, new) BY <2>1, <2>3 DEF AllRelocated
  <2> QED BY <2>2, <2>4
<1> QED BY <1>2, <1>3

LEMMA SegmentsCorrected ==
  ASSUME MemoryInv, NEW r \in Nat, NEW n \in Nat, <<r, n>> \in RevisionIds, <<r, n + 1>> \in RevisionIds',
         RevisionIds \subseteq RevisionIds', segments' = Substituted(segments, <<r, n>>, <<r, n + 1>>)
  PROVE  SegmentsOK' /\ \A t \in Times : LocalAt(t)
<1>1. PICK old \in Nat \X Nat : old = <<r, n>> OBVIOUS
<1>2. PICK z \in Nat \X Nat : z = <<r, n + 1>> OBVIOUS
<1>3. segments' = Substituted(segments, old, z) /\ old \in RevisionIds /\ z \in RevisionIds' /\ z = <<old[1], old[2] + 1>>
  BY <1>1, <1>2
<1>4. segments \in SUBSET SlotSegments /\ \A s \in segments : s.revisions \subseteq RevisionIds
  BY DEF MemoryInv, SegmentsOK
<1>5. \A c \in Substituted(segments, old, z) : c \in SlotSegments /\ \E s \in segments : c.revisions = InPlace(s.revisions, old, z)
  BY <1>4, SubstitutedIs
<1>6. SegmentsOK'
  <2>1. ASSUME NEW s \in segments PROVE InPlace(s.revisions, old, z) \subseteq RevisionIds' BY <1>3, <1>4 DEF InPlace
  <2> QED BY <1>3, <1>5, <2>1 DEF SegmentsOK
<1>7. ASSUME NEW t \in Times PROVE LocalAt(t)
  <2>1. Holding(Substituted(segments, old, z), t) = AllRelocated(Holding(segments, t), old, z) BY <1>4, SubstitutedIs
  <2>2. Holding(segments', t) = AllRelocated(Holding(segments, t), old, <<old[1], old[2] + 1>>) BY <1>3, <2>1
  <2> QED BY <1>3, <2>2 DEF LocalAt, AllRelocated, Relocated
<1> QED BY <1>6, <1>7

LEMMA CorrectsIs ==
  ASSUME MemoryInv, EventIds' = EventIds, NEW r \in Known, NEW seq, NEW e \in EventIds, Corrects(r, seq, e)
  PROVE  /\ RecordsOK' /\ SegmentsOK' /\ Known \subseteq Known' /\ RevisionIds \subseteq RevisionIds'
         /\ \A t \in Times : LocalAt(t)
         /\ version' = version \/ version' = version + 1
<1> DEFINE new == <<r, Len(records[r].revisions) + 1>>
<1>1. /\ Len(records[r].revisions) < MaxRevisions /\ seq = Len(records[r].revisions)
      /\ records' = Superseding(r, "accepted", {e})
      /\ segments' = IF records[r].kind = "claim" THEN Substituted(segments, CurrentId(r), new) ELSE segments
      /\ version' = version \/ version' = version + 1 BY DEF Corrects, Grows
<1>2. RecordsOK /\ SegmentsOK /\ Len(records[r].revisions) \in Nat /\ r \in Nat
  BY RecordIs, MemoryBounds DEF MemoryInv
<1>3. /\ RecordsOK' /\ Known' = Known /\ RevisionIds \subseteq RevisionIds'
      /\ new \in RevisionIds' /\ CurrentId(r) \in RevisionIds
  <2>1. PICK a \in Admissions : a = "accepted" BY DEF Admissions
  <2>2. PICK roots \in SUBSET EventIds : roots = {e} OBVIOUS
  <2>3. records' = Superseding(r, a, roots) BY <1>1, <2>1, <2>2
  <2> QED BY <1>1, <2>3, SupersedingIs
<1>4. CASE records[r].kind = "claim"
  <2>1. PICK n \in Nat : n = Len(records[r].revisions) BY <1>2
  <2>2. CurrentId(r) = <<r, n>> /\ new = <<r, n + 1>> BY <2>1 DEF CurrentId
  <2>3. segments' = Substituted(segments, <<r, n>>, <<r, n + 1>>) BY <1>1, <1>4, <2>2
  <2>4. <<r, n>> \in RevisionIds /\ <<r, n + 1>> \in RevisionIds' BY <1>3, <2>2
  <2>5. SegmentsOK' /\ \A t \in Times : LocalAt(t) BY <1>2, <1>3, <2>3, <2>4, SegmentsCorrected
  <2> QED BY <1>1, <1>3, <2>5
<1>5. CASE records[r].kind # "claim"
  <2>1. segments' = segments BY <1>1, <1>5
  <2>2. SegmentsOK' BY <1>2, <1>3, <2>1 DEF SegmentsOK
  <2> QED BY <1>1, <1>3, <2>1, <2>2, QuietSegments
<1> QED BY <1>4, <1>5

LEMMA CorrectAppliesKeeps == ASSUME MemoryInv, CorrectApplies PROVE MemoryStep
<1> DEFINE r == client.record
<1>1. UNCHANGED <<events, cache, lane, requests>> /\ client.at = "correct" /\ EventIds' = EventIds
  BY SameEvents DEF CorrectApplies
<1>2. client \in [at : {"correct"}, record : Known, seq : Nat, event : EventIds, again : BOOLEAN]
  BY <1>1 DEF MemoryInv, ClientOK, Idle
<1>3. r \in Known /\ client.event \in EventIds /\ version < requests BY <1>1, <1>2 DEF MemoryInv, VersionOK
<1>4. requests' \in 0..MaxRequests /\ requests' >= requests /\ requests \in Nat /\ version \in Nat
  BY <1>1, NoRequest DEF MemoryInv, VersionOK
<1>5. CASE Corrects(r, client.seq, client.event) /\ client' = Idle
  <2>1. /\ RecordsOK' /\ SegmentsOK' /\ Known \subseteq Known' /\ RevisionIds \subseteq RevisionIds'
        /\ \A t \in Times : LocalAt(t)
        /\ version' = version \/ version' = version + 1
    <3>1. PICK d \in Known : d = r BY <1>3
    <3>2. PICK e \in EventIds : e = client.event BY <1>3
    <3>3. Corrects(d, client.seq, e) BY <1>5, <3>1, <3>2
    <3> QED BY <1>1, <3>3, CorrectsIs
  <2>2. ClientOK' /\ client'.at # "correct" BY <1>5 DEF ClientOK, Idle
  <2>3. VersionOK' BY <1>1, <1>3, <1>4, <2>1, <2>2 DEF VersionOK
  <2>4. MemoryInv' BY <1>1, <1>4, <2>1, <2>2, <2>3, MemoryGrows DEF MemoryInv
  <2> QED BY <1>1, <2>1, <2>4, QuietLane DEF MemoryStep
<1>6. CASE client' = [client EXCEPT !.seq = Len(records[r].revisions), !.again = FALSE] /\ UNCHANGED <<records, segments, version>>
  <2>1. Len(records[r].revisions) \in Nat
    <3>1. PICK d \in Known : d = r BY <1>3
    <3> QED BY <3>1, RecordIs, MemoryBounds DEF MemoryInv
  <2>2. client' \in [at : {"correct"}, record : Known, seq : Nat, event : EventIds, again : BOOLEAN]
    BY <1>2, <1>6, <2>1
  <2>3. Known' = Known /\ RevisionIds' = RevisionIds BY <1>6, SameRecords
  <2>4. ClientOK' BY <1>1, <2>2, <2>3 DEF ClientOK
  <2>5. VersionOK' BY <1>1, <1>3, <1>6 DEF MemoryInv, VersionOK
  <2>6. MemoryInv' BY <1>1, <1>4, <1>6, <2>3, <2>4, <2>5, MemoryGrows DEF MemoryInv
  <2> QED BY <1>1, <1>6, <2>6, QuietSegments, QuietLane DEF MemoryStep
<1>7. CASE client' = Idle /\ UNCHANGED <<records, segments, version>>
  <2>1. Known' = Known /\ RevisionIds' = RevisionIds BY <1>7, SameRecords
  <2>2. ClientOK' /\ client'.at # "correct" BY <1>7 DEF ClientOK, Idle
  <2>3. MemoryInv' BY <1>1, <1>4, <1>7, <2>1, <2>2, MemoryGrows DEF MemoryInv
  <2> QED BY <1>1, <1>7, <2>3, QuietSegments, QuietLane DEF MemoryStep
<1> QED BY <1>5, <1>6, <1>7 DEF CorrectApplies

------------------------
\* Recalls: the store does not change.
LEMMA LaneRests ==
  ASSUME MemoryInv, UNCHANGED <<events, records, segments, version, client, requests>>
  PROVE  /\ Known' = Known /\ RevisionIds' = RevisionIds
         /\ EventsOK' /\ RecordsOK' /\ SegmentsOK' /\ VersionOK' /\ ClientOK'
         /\ cache' = cache => CacheOK'
         /\ \A t \in Times : LocalAt(t)
<1>1. Known' = Known /\ RevisionIds' = RevisionIds /\ EventIds' = EventIds BY SameEvents, SameRecords
<1> QED BY <1>1, NoRequest, MemoryGrows, QuietSegments DEF MemoryInv

LEMMA StartRecallKeeps == ASSUME MemoryInv, NEW query \in Queries, StartRecall(query) PROVE MemoryStep
<1>1. UNCHANGED <<events, records, segments, version, client, requests>> /\ lane.at = "idle" BY DEF StartRecall
<1>2. Known' = Known /\ RevisionIds' = RevisionIds /\ cache.picks \subseteq Known /\ Found \subseteq Known
  BY <1>1, LaneRests DEF MemoryInv, CacheOK, Found
<1>3. CASE lane' = [at |-> "render", todo |-> cache.picks, shown |-> {}] /\ cache' = cache
  <2>1. LaneOK' /\ Shown(lane') = {} BY <1>2, <1>3 DEF LaneOK, Shown
  <2> QED BY <1>1, <1>3, <2>1, LaneRests, QuietLane DEF MemoryStep, MemoryInv
<1>4. CASE lane' = [at |-> "select", query |-> query, cards |-> Found] /\ cache' = cache
  <2>1. LaneOK' /\ Shown(lane') = {} BY <1>2, <1>4 DEF LaneOK, Shown
  <2> QED BY <1>1, <1>4, <2>1, LaneRests, QuietLane DEF MemoryStep, MemoryInv
<1>5. CASE cache' = [query |-> query, picks |-> {}] /\ lane' = lane
  <2>1. lane' = Idle BY <1>1, <1>5 DEF MemoryInv, LaneOK
  <2>2. LaneOK' /\ Shown(lane') = {} BY <2>1 DEF LaneOK, Shown, Idle
  <2>3. CacheOK'
    <3>2. cache'.picks = {} BY <1>5
    <3>3. Cardinality(cache'.picks) = 0 BY <3>2, FS_EmptySet
    <3>4. Cardinality(cache'.picks) <= MaxSelected BY <3>3, MemoryBounds
    <3> QED BY <3>2, <3>4 DEF CacheOK
  <2> QED BY <1>1, <2>2, <2>3, LaneRests, QuietLane DEF MemoryStep, MemoryInv
<1> QED BY <1>3, <1>4, <1>5 DEF StartRecall

LEMMA SelectKeeps == ASSUME MemoryInv, NEW picks \in SUBSET Known, Select(picks) PROVE MemoryStep
<1>1. /\ UNCHANGED <<events, records, segments, version, client, requests>> /\ lane.at = "select"
      /\ Cardinality(picks) <= MaxSelected /\ cache' = [query |-> lane.query, picks |-> picks]
      /\ lane' = IF picks = {} THEN Idle ELSE [at |-> "render", todo |-> picks, shown |-> {}] BY DEF Select, Clamped
<1>2. Known' = Known BY <1>1, LaneRests
<1>3. lane.query \in Queries BY <1>1 DEF MemoryInv, LaneOK, Idle
<1>4. CacheOK' BY <1>1, <1>2, <1>3 DEF CacheOK
<1>5. LaneOK' /\ Shown(lane') = {}
  <2>1. CASE picks = {} BY <1>1, <2>1 DEF LaneOK, Shown, Idle
  <2>2. CASE picks # {}
    <3>1. lane' = [at |-> "render", todo |-> picks, shown |-> {}] BY <1>1, <2>2
    <3> QED BY <1>2, <3>1 DEF LaneOK, Shown
  <2> QED BY <2>1, <2>2
<1> QED BY <1>1, <1>4, <1>5, LaneRests, QuietLane DEF MemoryStep, MemoryInv

LEMMA LaneEnds ==
  ASSUME MemoryInv, lane' = Idle, UNCHANGED <<events, records, segments, version, cache, client, requests>> PROVE MemoryStep
<1>1. LaneOK' /\ Shown(lane') = {} BY DEF LaneOK, Shown, Idle
<1> QED BY <1>1, LaneRests, QuietLane DEF MemoryStep, MemoryInv

\* What is read again as admitted, with its roots valid, is not withdrawn.
LEMMA ShownIsAdmitted == ASSUME MemoryInv, NEW r \in Known, Shows(r) PROVE ~Withdrawn(r)
<1>1. \A e \in DOMAIN records[r].roots : events[e].status = "live" BY DEF Shows, RootsValid
<1>2. RecordOK(r) /\ records[r].admission = "accepted" BY DEF MemoryInv, RecordsOK, Shows
<1>3. ~RevisionGone(Current(r)) BY <1>2 DEF RecordOK
<1> QED BY <1>1, <1>3 DEF Withdrawn, RevisionGone

LEMMA RenderKeeps == ASSUME MemoryInv, NEW r \in Known, Render(r) PROVE MemoryStep
<1>1. /\ UNCHANGED <<events, records, segments, version, cache, client, requests>> /\ lane.at = "render"
      /\ lane' = [lane EXCEPT !.todo = lane.todo \ {r}, !.shown = IF Shows(r) THEN lane.shown \cup {r} ELSE lane.shown]
  BY DEF Render
<1>2. Known' = Known BY <1>1, LaneRests
<1>3. lane \in [at : {"render"}, todo : SUBSET Known, shown : SUBSET Known] BY <1>1 DEF MemoryInv, LaneOK, Idle
<1>4. PICK n \in SUBSET Known : n = IF Shows(r) THEN lane.shown \cup {r} ELSE lane.shown BY <1>3
<1>5. PICK m \in SUBSET Known : m = lane.todo \ {r} BY <1>3
<1>6. lane' = [lane EXCEPT !.todo = m, !.shown = n] BY <1>1, <1>4, <1>5
<1>7. lane' \in [at : {"render"}, todo : SUBSET Known, shown : SUBSET Known] /\ lane'.at = "render" /\ lane'.shown = n
  BY <1>3, <1>6
<1>8. LaneOK' BY <1>2, <1>7 DEF LaneOK
<1>9. WithdrawnStep
  <2>1. Shown(lane') = n /\ Shown(lane) = lane.shown BY <1>1, <1>7 DEF Shown
  <2>2. \A x \in n \ lane.shown : x = r /\ Shows(r) BY <1>4
  <2> QED BY <2>1, <2>2, ShownIsAdmitted DEF WithdrawnStep
<1> QED BY <1>1, <1>8, <1>9, LaneRests DEF MemoryStep, MemoryInv

------------------------
LEMMA MemoryKeeps == ASSUME MemoryInv, MemoryNext PROVE MemoryStep
<1>1. ASSUME NEW k \in Keys, NEW c \in Contents, AppendEvent(k, c) \/ Remember(k, c) \/ CorrectAppends(k, c) PROVE MemoryStep
  BY <1>1, AppendEventKeeps, RememberKeeps, CorrectAppendsKeeps
<1>2. ASSUME NEW e \in EventIds, RetractEvent(e) \/ EraseEvent(e) PROVE MemoryStep
  BY <1>2, RetractEventKeeps, EraseEventKeeps
<1>3. ASSUME NEW kind \in RecordKinds, NEW roots \in SUBSET EventIds, NEW q \in BOOLEAN,
             NEW i \in Asserted(kind), NEW w \in Authorities(kind), Propose(kind, roots, q, i, w) PROVE MemoryStep
  BY <1>3, ProposeKeeps
<1>4. ASSUME NEW r \in Known, NEW seq \in 1..MaxRevisions, NEW roots \in SUBSET EventIds, NEW q \in BOOLEAN,
             Revise(r, seq, roots, q) PROVE MemoryStep BY <1>4, ReviseKeeps
<1>5. ASSUME NEW r \in Known, RetractRecord(r) \/ CorrectReads(r) \/ Render(r) PROVE MemoryStep
  BY <1>5, RetractRecordKeeps, CorrectReadsKeeps, RenderKeeps
<1>6. ASSUME NEW id \in RevisionIds, NEW i \in Intervals, Resolve(id, i) PROVE MemoryStep BY <1>6, ResolveKeeps
<1>7. ASSUME RememberProposes \/ CorrectApplies PROVE MemoryStep BY <1>7, RememberProposesKeeps, CorrectAppliesKeeps
<1>8. ASSUME NEW query \in Queries, StartRecall(query) PROVE MemoryStep BY <1>8, StartRecallKeeps
<1>9. ASSUME NEW picks \in SUBSET Known, Select(picks) PROVE MemoryStep BY <1>9, SelectKeeps
<1>10. ASSUME RecallFails \/ Deliver PROVE MemoryStep BY <1>10, LaneEnds DEF RecallFails, Deliver
<1> QED BY <1>1, <1>2, <1>3, <1>4, <1>5, <1>6, <1>7, <1>8, <1>9, <1>10 DEF MemoryNext

LEMMA MemoryRests == ASSUME MemoryInv, UNCHANGED memoryVars PROVE MemoryStep
<1>1. UNCHANGED <<events, records, segments, version, cache, lane, client, requests>> BY DEF memoryVars
<1>2. LaneOK'
  <2>1. Known' = Known BY <1>1, SameRecords
  <2> QED BY <1>1, <2>1 DEF MemoryInv, LaneOK
<1> QED BY <1>1, <1>2, LaneRests, QuietLane DEF MemoryStep, MemoryInv

LEMMA MemoryFollow == MemoryInv => MemoryTypeOK
<1> SUFFICES ASSUME MemoryInv PROVE MemoryTypeOK OBVIOUS
<1>1. \A e \in EventIds : events[e].status \in {"live", "retracted", "erased"} /\ events[e].generation \in 1..(MaxRequests + 1)
  BY EventIs DEF MemoryInv, EventRecords, Gens
<1>2. ASSUME NEW r \in Known
      PROVE  /\ r \in RecordIds /\ records[r].admission \in Admissions /\ records[r].kind \in RecordKinds
             /\ records[r].roots \in [DOMAIN records[r].roots -> 1..(MaxRequests + 1)]
             /\ DOMAIN records[r].roots \subseteq EventIds
             /\ Len(records[r].revisions) \in 1..MaxRevisions
  <2>1. records[r] \in MemoRecords /\ RecordOK(r) /\ r \in 1..Len(records) /\ Len(records) \in Nat /\ Len(records) <= MaxRecords
    BY RecordIs DEF MemoryInv
  <2>2. r \in RecordIds BY <2>1, MemoryBounds DEF RecordIds
  <2>3. records[r].roots \in RootMaps BY <2>1 DEF MemoRecords
  <2>4. records[r].roots \in [DOMAIN records[r].roots -> 1..(MaxRequests + 1)] BY <2>3 DEF RootMaps, Gens
  <2> QED BY <2>1, <2>2, <2>4 DEF RecordOK, MemoRecords
<1>3. version \in 0..MaxRequests /\ requests \in 0..MaxRequests BY MemoryBounds DEF MemoryInv, VersionOK
<1> QED BY <1>1, <1>2, <1>3 DEF MemoryTypeOK, MemoryInv, SegmentsOK, CacheOK

------------------------
(* The parts side by side. *)

PartsInv == LivesInv /\ EndsAreCloses /\ MemoryInv /\ ContextsInv /\ JobsInv /\ RecallInv

LEMMA PartsStart == Init => PartsInv
<1>1. LivesInit => EndsAreCloses BY NobodyWaited DEF LivesInit, EndsAreCloses
<1> QED BY <1>1, LivesStart, MemoryStart, ContextsStart, JobsStart, RecallStarts DEF Init, PartsInv

\* A part keeps its invariant when it moves, and when another moves.
LEMMA PartsStep ==
  PartsInv /\ [Next]_vars =>
    /\ PartsInv'
    /\ UNCHANGED memoryVars \/ (WithdrawnStep /\ \A t \in Times : LocalAt(t))
    /\ UNCHANGED contextVars \/ \A o \in Ops : TrueStep(o)
<1> SUFFICES ASSUME PartsInv, [Next]_vars
             PROVE  /\ PartsInv'
                    /\ UNCHANGED memoryVars \/ (WithdrawnStep /\ \A t \in Times : LocalAt(t))
                    /\ UNCHANGED contextVars \/ \A o \in Ops : TrueStep(o) OBVIOUS
<1>1. LivesInv /\ EndsAreCloses /\ MemoryInv /\ ContextsInv /\ JobsInv /\ RecallInv BY DEF PartsInv
<1>2. /\ LivesNext \/ UNCHANGED livesVars
      /\ MemoryNext \/ UNCHANGED memoryVars
      /\ ContextsNext \/ UNCHANGED contextVars
      /\ JobsNext \/ UNCHANGED jobVars
      /\ RecallNext \/ UNCHANGED recallVars BY DEF Next, SessionPlane, Records, Contexts, Extraction, Recalls, vars
<1>3. MemoryInv' /\ (UNCHANGED memoryVars \/ (WithdrawnStep /\ \A t \in Times : LocalAt(t)))
  <2>1. MemoryStep BY <1>1, <1>2, MemoryKeeps, MemoryRests
  <2> QED BY <2>1 DEF MemoryStep
<1>4. ContextsInv' /\ (UNCHANGED contextVars \/ \A o \in Ops : TrueStep(o)) BY <1>1, <1>2, ContextsStep, ContextsRest
<1>5. JobsInv' BY <1>1, <1>2, JobsStep
<1>6. RecallInv' BY <1>1, <1>2, RecallStep
<1>7. LivesInv' /\ EndsAreCloses' BY <1>1, <1>2, LivesStep, EndsStep
<1> QED BY <1>3, <1>4, <1>5, <1>6, <1>7 DEF PartsInv

LEMMA PartsAlways == Spec => []PartsInv
<1>1. Init => PartsInv BY PartsStart
<1>2. PartsInv /\ [Next]_vars => PartsInv' BY PartsStep
<1> QED BY <1>1, <1>2, PTL DEF Spec

\* Every variable of the session's lives, of the store's records, of the contexts, of the
\* extraction worker and of a recall's delivery keeps its type.
THEOREM TypeCorrect == Spec => []TypeOK
<1>1. PartsInv => TypeOK BY LivesFollow, MemoryFollow, ContextsFollow, JobsFollow, RecallFollow DEF PartsInv, TypeOK
<1> QED BY <1>1, PartsAlways, PTL

\* A session's runs, artifacts, journal and episodes are accounted for, whichever of sweeper, late
\* close, resume, kill and replay come in which order (sessions/plane.py, sessions/registry.py).
THEOREM LivesAreProved == Spec => []LivesAreAccounted
<1>1. PartsInv => LivesAreAccounted BY LivesFollow DEF PartsInv
<1> QED BY <1>1, PartsAlways, PTL

\* A finished job of the extraction worker has failed within its attempts or is counted once with
\* all it proposed (extraction.py), and a hook is shown a recall in the turn and context that
\* asked for it, once (recall.py, sessions/plane.py).
THEOREM ExtractedAndShownAreProved == Spec => []ExtractedAndShownOnce
<1>1. PartsInv => ExtractedAndShownOnce BY JobsFollow, RecallFollow DEF PartsInv, ExtractedAndShownOnce
<1> QED BY <1>1, PartsAlways, PTL

\* No step of the store puts what was withdrawn into a prompt or changes the slot outside the
\* times of the claim it is about (ephemeral.py), and none of the lifecycle writes a context
\* other than the one its operation read (contexts.py).
THEOREM MemoryIsProved == Spec => MemoryIsTrue
<1>1. PartsInv /\ [Next]_vars => [\A r \in Shown(lane') \ Shown(lane) : ~Withdrawn(r)]_memoryVars
  BY PartsStep DEF WithdrawnStep
<1>2. Spec => WithdrawnIsNotRecalled BY <1>1, PartsAlways, PTL DEF Spec, WithdrawnIsNotRecalled
<1>3. PartsInv /\ [Next]_vars => [\A t \in Times : LocalAt(t)]_memoryVars BY PartsStep
<1>4. Spec => [][\A t \in Times : LocalAt(t)]_memoryVars BY <1>3, PartsAlways, PTL DEF Spec
<1>5. Spec => ReplacementIsLocal BY <1>4 DEF ReplacementIsLocal, LocalAt
<1>6. PartsInv /\ [Next]_vars => [\A o \in Ops : TrueStep(o)]_contextVars BY PartsStep
<1>7. Spec => [][\A o \in Ops : TrueStep(o)]_contextVars BY <1>6, PartsAlways, PTL DEF Spec
<1>8. Spec => CheckpointsAreTrue BY <1>7 DEF CheckpointsAreTrue, TrueStep
<1> QED BY <1>2, <1>5, <1>8 DEF MemoryIsTrue
========================
