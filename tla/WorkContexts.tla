------------ MODULE WorkContexts ------------
(***************************************************************************)
(* The working state of an instance (miragen/memory/lifecycle.py, with the *)
(* contexts of ephemeral.py): a context in the store, found by a map of    *)
(* instances to ids on the agent's volume, read into a prompt when a turn  *)
(* opens and patched by checkpoints under compare-and-set.  Every request  *)
(* may fail before it reaches the store, or its answer may be lost; the    *)
(* map may lose an entry and the store a context.                          *)
(***************************************************************************)
EXTENDS Integers, Sequences, FiniteSets

CONSTANTS
  Ops,          \* operations of this process: turns that open, checkpoints
  Fields,       \* fields of a working state
  MaxContexts,  \* bound: contexts created
  MaxStoreFaults     \* bound: failed requests and lost answers, entries and contexts

ASSUME ContextsAssumption ==
  IsFiniteSet(Ops) /\ "nobody" \notin Ops /\ {MaxContexts, MaxStoreFaults} \subseteq Nat

VARIABLES
  contexts,  \* the contexts of the store: revision, who wrote each field, whether it is there
  entry,     \* the map's entry for the instance, 0 without one
  ops,       \* each operation: what it does, how far it is, what it read and answers
  storeFaults
contextVars == <<contexts, entry, ops, storeFaults>>

Nobody == "nobody"
Created == DOMAIN contexts
OpKinds == {"open", "checkpoint"}
Steps == {"start", "get", "create", "patch", "again", "repatch", "done"}
Results == {"none", "ok", "accepted", "conflict", "rejected", "unavailable"}
ContextsTypeOK ==
  /\ \A c \in Created : /\ contexts[c].revision \in 1..(Cardinality(Ops) + 1)
                        /\ contexts[c].writer \in [Fields -> {Nobody} \cup Ops]
  /\ entry \in 0..MaxContexts
  /\ ops \in [Ops -> [kind: OpKinds, field: Fields, step: Steps, context: 0..MaxContexts,
                      read: 0..(Cardinality(Ops) + 1), result: Results,
                      base: [Fields -> {Nobody} \cup Ops]]]
  /\ storeFaults \in 0..MaxStoreFaults

Blank == [f \in Fields |-> Nobody]
ContextsInit ==
  /\ contexts = <<>> /\ entry = 0 /\ storeFaults = 0
  /\ ops \in [Ops -> [kind: OpKinds, field: Fields, step: {"start"}, context: {0}, read: {0},
                      result: {"none"}, base: {Blank}]]

At(o, step) == ops[o].step = step
Goes(o, step) == ops' = [ops EXCEPT ![o].step = step]
Ends(o, result) == ops' = [ops EXCEPT ![o].step = "done", ![o].result = result]
StoreFault == storeFaults < MaxStoreFaults /\ storeFaults' = storeFaults + 1
There(c) == c # 0 /\ contexts[c].there

\* The context is in hand: a turn that opens renders it, a checkpoint patches the revision it read.
Holds(o, c, revision, writer) ==
  ops' = [ops EXCEPT ![o].context = c, ![o].read = revision, ![o].base = writer,
                        ![o].step = IF At(o, "again") THEN "repatch"
                                    ELSE IF ops[o].kind = "open" THEN "done" ELSE "patch",
                        ![o].result = IF ops[o].kind = "open" THEN "ok" ELSE @]

\* _ensure_context: the map, the context it names, or a new context and a new entry.
ReadMap(o) ==
  /\ At(o, "start")
  /\ ops' = [ops EXCEPT ![o].step = IF entry = 0 THEN "create" ELSE "get", ![o].context = entry]
  /\ UNCHANGED <<contexts, entry, storeFaults>>
GetContext(o) ==
  /\ At(o, "get") \/ At(o, "again")
  /\ LET c == ops[o].context
     IN  IF There(c) THEN Holds(o, c, contexts[c].revision, contexts[c].writer)
         ELSE IF At(o, "get") THEN Goes(o, "create") ELSE Ends(o, "rejected")
  /\ UNCHANGED <<contexts, entry, storeFaults>>
CreateContext(o) ==
  /\ At(o, "create") /\ Len(contexts) < MaxContexts
  /\ contexts' = Append(contexts, [revision |-> 1, writer |-> Blank, there |-> TRUE])
  /\ entry' = Len(contexts')
  /\ Holds(o, Len(contexts'), 1, Blank)
  /\ UNCHANGED storeFaults

\* The store merges a patch into the revision it was made for, and refuses it for another.
Matches(o) == There(ops[o].context) /\ contexts[ops[o].context].revision = ops[o].read
Patched(o) ==
  [contexts EXCEPT ![ops[o].context].revision = @ + 1, ![ops[o].context].writer[ops[o].field] = o]
\* checkpoint: a conflict reads the context again and tries once more; a second one is reported.
PatchContext(o) ==
  /\ At(o, "patch") \/ At(o, "repatch")
  /\ IF Matches(o) THEN contexts' = Patched(o) /\ Ends(o, "accepted")
     ELSE /\ UNCHANGED contexts
          /\ IF ~There(ops[o].context) THEN Ends(o, "rejected")
             ELSE IF At(o, "patch") THEN Goes(o, "again") ELSE Ends(o, "conflict")
  /\ UNCHANGED <<entry, storeFaults>>

\* The store cannot be reached, or it acts and its answer is lost: the operation says so.
Unreached(o) ==
  /\ StoreFault /\ ops[o].step \in {"get", "again", "create", "patch", "repatch"}
  /\ Ends(o, "unavailable")
  /\ UNCHANGED <<contexts, entry>>
AnswerLost(o) ==
  /\ StoreFault
  /\ \/ (At(o, "patch") \/ At(o, "repatch")) /\ Matches(o) /\ contexts' = Patched(o)
     \/ /\ At(o, "create") /\ Len(contexts) < MaxContexts
        /\ contexts' = Append(contexts, [revision |-> 1, writer |-> Blank, there |-> TRUE])
  /\ Ends(o, "unavailable")
  /\ UNCHANGED entry
ContextIsLost(c) ==
  /\ StoreFault /\ contexts[c].there
  /\ contexts' = [contexts EXCEPT ![c].there = FALSE]
  /\ UNCHANGED <<entry, ops>>
EntryIsLost ==
  /\ StoreFault /\ entry # 0 /\ entry' = 0 /\ UNCHANGED <<contexts, ops>>

ContextsNext ==
  \/ \E o \in Ops : \/ ReadMap(o) \/ GetContext(o) \/ CreateContext(o) \/ PatchContext(o)
                    \/ Unreached(o) \/ AnswerLost(o)
  \/ \E c \in Created : ContextIsLost(c)
  \/ EntryIsLost

------------------------
(* Properties *)

\* What a checkpoint answers is what became of it: an accepted one is the one change made to
\* exactly the state it had read, so no writer's field is lost under it; one that answers conflict
\* or rejected changed nothing, whatever failed, raced or was retried.
Wrote(o) == \E c \in Created : contexts[c].writer[ops[o].field] = o
CheckpointsAreTrue ==
  [][\A o \in Ops : /\ ops'[o].result = "accepted" /\ ops[o].result = "none" =>
                         \E c \in Created : /\ contexts[c].writer = ops[o].base
                                            /\ contexts' = [contexts EXCEPT ![c].revision = @ + 1,
                                                                            ![c].writer[ops[o].field] = o]
                    /\ ops'[o].result \in {"conflict", "rejected"} => ~Wrote(o)']_contextVars
========================
