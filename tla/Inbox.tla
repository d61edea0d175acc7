------------ MODULE Inbox ------------
(***************************************************************************)
(* The inbox of an agent (miragen/watch.py, served by miragen/app.py):     *)
(* between turns the host calls each source's read-only tool, compares the *)
(* result with what it has seen and keeps an entry for every item that is  *)
(* new or changed until the consumer acknowledges it.  Calls fail or hang, *)
(* the file cannot always be written, the process restarts, with another   *)
(* definition of a source or without, and a consumer acknowledges what it  *)
(* was shown some time ago.                                                *)
(***************************************************************************)
EXTENDS Naturals, FiniteSets, Sequences, SequencesExt, Lists

CONSTANTS
  Sources,      \* the profile's watch sources
  Items,        \* what a source may hold
  MaxEntries,   \* MAX_ENTRIES_PER_SOURCE
  MaxItemEdits, \* bound: items that come, change or go
  MaxFaults     \* bound: failed polls, failed writes and restarts

ASSUME InboxAssumption ==
  IsFiniteSet(Items) /\ MaxEntries \in Nat /\ MaxItemEdits \in Nat /\ MaxFaults \in Nat

VARIABLES
  window,   \* what each source's tool would return: item -> its version, 0 = not there
  keyed,    \* the sources with an `id`
  state,    \* Inbox.state: the number of the last entry, the entries, each source's record
  inboxFile, \* inbox.json
  edition,  \* which definition of its sources the running profile has
  polling,  \* the calls in progress: source -> the items it answers with
  running,  \* does the task that polls still run?
  view,     \* the answer of GET /inbox a consumer holds
  lastGood, \* for the properties: what the last good poll of a source showed
  told,     \* for the properties: the versions a consumer need not be shown any more
  lost,     \* for the properties: a restart lost what could not be written
  edits, troubles
inboxVars == <<window, keyed, state, inboxFile, edition, polling, running, view, lastGood, told,
               lost, edits, troubles>>

NoCall == << >>
EmptyWindow == [i \in Items |-> 0]
ItemVersions == 0 .. MaxItemEdits + 1
Shown(w) == {<<i, w[i]>> : i \in {j \in Items : w[j] # 0}}
NewEntry(n, s, i, v) == [seq |-> n, source |-> s, item |-> i, version |-> v]

\* How an item is known: by its id, or by its whole content.
Key(s, i, v) == IF s \in keyed THEN <<i, 0>> ELSE <<i, v>>
FreshSource == [status |-> "never", seen |-> {}, polled |-> FALSE, overflow |-> FALSE, edition |-> 0]

Mine(entries, s) == {n \in DOMAIN entries : entries[n].source = s}
Overflowing(new) == {s \in Sources : new.src[s].overflow}

\* Every variable keeps its type, and no source has more entries than the limit.
InboxTypeOK ==
  /\ window \in [Sources -> [Items -> ItemVersions]] /\ keyed \subseteq Sources
  /\ \A new \in {state, inboxFile} :
       /\ \A e \in Range(new.entries) : e.seq <= new.seq /\ e.source \in Sources
       /\ \A s \in Sources : /\ new.src[s].status \in {"never", "ok", "error"}
                             /\ Cardinality(Mine(new.entries, s)) <= MaxEntries
                             /\ \A e \in new.src[s].seen : e.item \in Items /\ e.version \in ItemVersions
  /\ lastGood \in [Sources -> [Items -> ItemVersions]]
  /\ edits \in 0..MaxItemEdits /\ troubles \in 0..MaxFaults

InboxInit ==
  /\ window \in [Sources -> {[i \in Items |-> IF i \in there THEN 1 ELSE 0] : there \in SUBSET Items}]
  /\ keyed \in SUBSET Sources
  /\ state = [seq |-> 0, entries |-> << >>, src |-> [s \in Sources |-> FreshSource]]
  /\ inboxFile = state
  /\ edition = 0
  /\ polling = [s \in Sources |-> NoCall]
  /\ running = TRUE
  /\ view = [seq |-> 0, entries |-> << >>, overflow |-> {}]
  /\ lastGood = [s \in Sources |-> EmptyWindow]
  /\ told = [s \in Sources |-> {}]
  /\ lost = FALSE
  /\ edits = 0 /\ troubles = 0

Trouble == troubles < MaxFaults /\ troubles' = troubles + 1

\* The source changes: an item comes, is edited or leaves the result window.
Edit(s, i) ==
  /\ edits < MaxItemEdits /\ edits' = edits + 1
  /\ \E v \in {0, edits + 2} : v # window[s][i] /\ window' = [window EXCEPT ![s][i] = v]
  /\ UNCHANGED <<keyed, state, inboxFile, edition, polling, running, view, lastGood, told, lost, troubles>>

\* _save: the file is replaced, or the error ends the task that polls.
Save(new) ==
  \/ inboxFile' = new /\ UNCHANGED <<running, troubles>>
  \/ Trouble /\ running' = FALSE /\ UNCHANGED inboxFile

\* The tool is called; polls run in turn.
CallTool(s) ==
  /\ running /\ \A t \in Sources : polling[t] = NoCall
  /\ polling' = [polling EXCEPT ![s] = <<window[s]>>]
  /\ UNCHANGED <<window, keyed, state, inboxFile, edition, running, view, lastGood, told, lost,
                 edits, troubles>>

\* The call fails, times out or returns what is no list of items.
PollFails(s) ==
  /\ running /\ polling[s] # NoCall /\ Trouble
  /\ polling' = [polling EXCEPT ![s] = NoCall]
  /\ state' = [state EXCEPT !.src[s].status = "error"]
  /\ \/ inboxFile' = state' /\ UNCHANGED running
     \/ running' = FALSE /\ UNCHANGED inboxFile
  /\ UNCHANGED <<window, keyed, edition, view, lastGood, told, lost, edits>>

\* The first good poll of a source reports nothing.
Baseline(src) == ~src.polled

Rehashed(src) == ~Baseline(src) /\ src.edition # edition
Known(s, src, i, w) == {e \in src.seen : e.key = Key(s, i, w[i])}
There(w) == {i \in Items : w[i] # 0}

\* What a good poll reports: items of no known key, and known ones that changed
\* unless the source's definition did.
ToReport(s, src, w) ==
  IF Baseline(src) THEN {}
  ELSE {i \in There(w) : \/ Known(s, src, i, w) = {}
                         \/ /\ ~Rehashed(src)
                            /\ \A e \in Known(s, src, i, w) : e.version # w[i]}

\* Entries of a source past the limit go, the oldest first.
PastLimit(entries, s) ==
  LET own == Mine(entries, s)
  IN  {entries[n] : n \in {m \in own : Cardinality({k \in own : entries[k].seq >= entries[m].seq})
                                        > MaxEntries}}

\* Every item of the window is new: more may lie beyond it.
Beyond(s, src, w) ==
  There(w) # {} /\ src.seen # {} /\ \A i \in There(w) : Known(s, src, i, w) = {}

\* A good poll.  `old`: what was not in the window for SEEN_RETENTION_S.
TakePoll(s) ==
  /\ running /\ polling[s] # NoCall
  /\ LET w == polling[s][1]
         src == state.src[s]
         reported == SetToSeq(ToReport(s, src, w))
         grown == state.entries \o
                    [n \in DOMAIN reported |-> NewEntry(state.seq + n, s, reported[n], w[reported[n]])]
         dropped == PastLimit(grown, s)
         absent == {e \in src.seen : \A i \in There(w) : e.key # Key(s, i, w[i])}
         current == {[key |-> Key(s, i, w[i]), item |-> i, version |-> w[i]] : i \in There(w)}
     IN /\ \E old \in {{}, absent} :
             state' = [state EXCEPT
               !.seq = @ + Len(reported), !.entries = Without(grown, dropped),
               !.src[s] = [src EXCEPT !.status = "ok", !.polled = TRUE, !.edition = edition,
                                      !.seen = (absent \ old) \cup current,
                                      !.overflow = src.overflow \/ dropped # {} \/ Beyond(s, src, w)]]
        /\ told' = [told EXCEPT ![s] = @ \cup
              (IF ~src.polled \/ Rehashed(src)
               THEN Shown(w) \ {<<i, w[i]>> : i \in ToReport(s, src, w)} ELSE {})]
        /\ lastGood' = [lastGood EXCEPT ![s] = w]
  /\ Save(state')
  /\ polling' = [polling EXCEPT ![s] = NoCall]
  /\ UNCHANGED <<window, keyed, edition, view, lost, edits>>

\* GET /inbox.
Look ==
  /\ view' = [seq |-> state.seq, entries |-> state.entries, overflow |-> Overflowing(state)]
  /\ view' # view
  /\ UNCHANGED <<window, keyed, state, inboxFile, edition, polling, running, lastGood, told, lost,
                 edits, troubles>>

Acknowledged(e, through) == e.seq <= through

\* POST /inbox/ack: the entries up to a number the consumer was shown, and the
\* overflow of their sources.  What was not written comes back with a restart.
Ack(through) ==
  LET gone == {e \in Range(state.entries) : Acknowledged(e, through)}
      sources == {e.source : e \in gone}
  IN /\ gone # {}
     /\ state' = [state EXCEPT
           !.entries = Without(@, gone),
           !.src = [s \in Sources |->
                      [state.src[s] EXCEPT !.overflow = state.src[s].overflow /\ s \notin sources]]]
     /\ \/ inboxFile' = state' /\ UNCHANGED troubles
        \/ Trouble /\ UNCHANGED inboxFile
     /\ told' = [s \in Sources |-> told[s] \cup
           {<<e.item, e.version>> : e \in {f \in Range(view.entries) : f.source = s /\ f.seq <= through}} \cup
           (IF s \in sources \cap view.overflow THEN Items \X ItemVersions ELSE {})]
     /\ UNCHANGED <<window, keyed, edition, polling, running, view, lastGood, lost, edits>>

\* The process restarts, perhaps with another definition of its sources.
Restart ==
  /\ Trouble
  /\ state' = inboxFile
  /\ edition' \in {edition, 1}
  /\ running' = TRUE
  /\ polling' = [s \in Sources |-> NoCall]
  /\ lastGood' = IF state = inboxFile THEN lastGood ELSE [s \in Sources |-> EmptyWindow]
  /\ lost' = (lost \/ state # inboxFile)
  /\ UNCHANGED <<window, keyed, inboxFile, view, told, edits>>

InboxNext ==
  \/ \E s \in Sources : \/ CallTool(s) \/ PollFails(s) \/ TakePoll(s)
                         \/ \E i \in Items : Edit(s, i)
  \/ Look \/ Restart
  \/ \E through \in {view.seq} \cup {e.seq : e \in Range(view.entries)} : Ack(through)

\* A call ends, by its timeout, and every source is polled again after a while.
InboxFairness == \A s \in Sources : WF_inboxVars(CallTool(s)) /\ WF_inboxVars(TakePoll(s))
InboxSpec == InboxInit /\ [][InboxNext]_inboxVars /\ InboxFairness

------------------------
\* "Observed is not seen": after a good poll, every item it showed was there at
\* the baseline, or was acknowledged by a consumer that had been shown it, or has
\* an entry, or the source says that there may be more -- through edits,
\* failed polls, restarts, entries past the limit and late acknowledgements.
\* Outside it: entry numbers used again after a write was lost.
NothingIsMissed ==
  \A s \in Sources :
    state.src[s].status = "ok" /\ ~lost =>
      \A shown \in Shown(lastGood[s]) :
        \/ shown \in told[s] \/ state.src[s].overflow
        \/ \E e \in Range(state.entries) : e.source = s /\ <<e.item, e.version>> = shown

\* While the task that polls runs, the inbox catches up with every source: to hold in the end.
InboxCaughtUp ==
  running => \A s \in Sources : state.src[s].status = "ok" /\ lastGood[s] = window[s]
========================
