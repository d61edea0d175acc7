------------ MODULE TokenUsage ------------
(***************************************************************************)
(* What a turn's tokens cost (miragen/models.py, miragen/model_rates.py):  *)
(* the usage of a turn, how the usages of a run's turns add up, the rates  *)
(* of a model, and the tokens a usage spends of a budget.                  *)
(*                                                                         *)
(* A count is a natural number or None, "not reported".  A model string is *)
(* its provider prefix, its id and whether it carries a snapshot date.  A  *)
(* weight is a number of 1/Unit-ths of a budget token.                     *)
(***************************************************************************)
EXTENDS Integers, Sequences, SequencesExt, Lists

CONSTANTS
  CallsCap,  \* models.py CALLS_CAP
  Unit       \* bound: every nonzero input rate divides Unit, so that the code's fractions are exact

ASSUME TokenUsageAssumption == CallsCap \in Nat /\ Unit \in Nat \ {0}

None == -1
Bad == -2   \* a rate that is no finite non-negative decimal
OrZero(n) == IF n = None THEN 0 ELSE n
AddOptional(a, b) == IF a = None /\ b = None THEN None ELSE OrZero(a) + OrZero(b)
MaxOf(a, b) == IF a < b THEN b ELSE a
AtLeastZero(n) == MaxOf(n, 0)

------------------------
(* Usage *)

\* The usage of a turn that reported none, and a per-request breakdown nobody reported.
NoUsage == [reported |-> FALSE]
Cap(u) == IF Len(u.calls) > CallsCap
          THEN [u EXCEPT !.calls = SubSeq(@, 1, CallsCap), !.cut = TRUE] ELSE u
UsageOf(input, output, reads, writes, hour) ==
  [reported |-> TRUE, input |-> input, output |-> output, reads |-> reads, writes |-> writes,
   hour |-> hour, broken |-> FALSE, calls |-> <<>>, cut |-> FALSE]

\* A provider that counts the uncached part of the prompt apart from its cache reads and writes.
M_InclusiveInputCacheOnly(uncached, read, write) == OrZero(uncached) + OrZero(read)
InclusiveInput(uncached, read, write) ==
  IF uncached = None THEN None ELSE uncached + OrZero(read) + OrZero(write)

\* A row stored before the inclusive convention; uncachedAdapter: its adapter left cache reads out.
LegacyUsage(u, uncachedAdapter) ==
  IF u.input = None \/ OrZero(u.reads) = 0 THEN u
  ELSE IF uncachedAdapter \/ u.reads > u.input THEN [u EXCEPT !.input = @ + u.reads] ELSE u

SplitKnown(u) == u.hour # None \/ OrZero(u.writes) = 0
SumUsage(a, b) ==
  IF ~a.reported THEN b ELSE IF ~b.reported THEN a
  ELSE LET both == a.broken /\ b.broken
       IN  Cap([reported |-> TRUE,
                input |-> AddOptional(a.input, b.input), output |-> AddOptional(a.output, b.output),
                reads |-> AddOptional(a.reads, b.reads), writes |-> AddOptional(a.writes, b.writes),
                hour |-> IF SplitKnown(a) /\ SplitKnown(b) THEN AddOptional(a.hour, b.hour) ELSE None,
                broken |-> both, calls |-> IF both THEN a.calls \o b.calls ELSE <<>>,
                cut |-> both /\ (a.cut \/ b.cut)])

------------------------
(* Rates.  An entry of a document has [input, cached, output, write, hour],*)
(* each a rate, None or Bad; a table maps models to entries.               *)

NoModel == [provider |-> "", id |-> "", dated |-> FALSE]
Bare(m) == [m EXCEPT !.provider = ""]
Forms(m) == {m, [m EXCEPT !.dated = FALSE]}

Readable(entry) ==
  /\ \A f \in {"input", "cached", "output"} : entry[f] \in Nat
  /\ \A f \in {"write", "hour"} : entry[f] \in Nat \cup {None}
Parse(doc) == [m \in {k \in DOMAIN doc : Readable(doc[k])} |-> doc[m]]

FullWeights == [read |-> Unit, write |-> Unit, hour |-> Unit]
Ratio(rate, input) == (rate * Unit) \div input
WeightsFor(rates) ==
  LET write == IF rates.write = None THEN Unit ELSE Ratio(rates.write, rates.input)
  IN  [read |-> Ratio(rates.cached, rates.input), write |-> write,
       hour |-> IF rates.hour = None THEN MaxOf(write, Unit) ELSE Ratio(rates.hour, rates.input)]

Found(table, models) == models \cap DOMAIN table
Behind(table, forms) == {k \in DOMAIN table : k.provider # "" /\ Bare(k) \in forms}
FirstFound(a, b) == IF a # {} THEN a ELSE b
\* The entries a request may have used, by the first of the rules that finds any.
Candidates(table, reported, run) ==
  IF reported # NoModel
  THEN LET forms == Forms(reported)
           same == IF run # NoModel /\ run \in DOMAIN table /\ Bare(run) \in forms THEN {run} ELSE {}
           sibling == IF run.provider = "" THEN {}
                      ELSE Found(table, {[f EXCEPT !.provider = run.provider] :
                                           f \in {g \in forms : g.provider = ""}})
       IN  FirstFound(Found(table, forms), FirstFound(same, FirstFound(sibling, Behind(table, forms))))
  ELSE IF run = NoModel THEN {}
  ELSE LET forms == Forms(Bare(run))
       IN  FirstFound(Found(table, {run}), FirstFound(Found(table, forms), Behind(table, forms)))

Rateable(table, models) == models # {} /\ \A m \in models : table[m].input > 0
Highest(f, ws) == CHOOSE x \in {w[f] : w \in ws} : \A w \in ws : w[f] <= x
BudgetWeights(table, reported, run) ==
  LET models == Candidates(table, reported, run)
  IN  IF ~Rateable(table, models) THEN FullWeights
      ELSE LET ws == {WeightsFor(table[m]) : m \in models}
           IN  [read |-> Highest("read", ws), write |-> Highest("write", ws), hour |-> Highest("hour", ws)]

------------------------
(* What a usage spends of a budget *)

\* A slice: the model, its cache reads and writes, and the 1-hour part of the writes or None.
CallSlice(c) == [model |-> c.model, reads |-> OrZero(c.reads), writes |-> OrZero(c.writes), hour |-> c.hour]
Slices(u) ==
  LET calls == [i \in DOMAIN u.calls |-> CallSlice(u.calls[i])]
      Sum(f) == SumOf([i \in DOMAIN calls |-> OrZero(calls[i][f])])
      readsRest == AtLeastZero(OrZero(u.reads) - Sum("reads"))
      writesRest == AtLeastZero(OrZero(u.writes) - Sum("writes"))
      split == u.hour # None /\ \A i \in DOMAIN calls : calls[i].hour # None \/ calls[i].writes = 0
      rest == [model |-> NoModel, reads |-> readsRest, writes |-> writesRest,
               hour |-> IF split THEN AtLeastZero(u.hour - Sum("hour")) ELSE None]
  IN  IF readsRest + writesRest > 0 THEN Append(calls, rest) ELSE calls

\* Writes of an unknown split count at the dearer weight; every slice rounds up.
SpentOf(table, run, s) ==
  LET w == BudgetWeights(table, s.model, run)
      hour == IF s.hour < s.writes THEN s.hour ELSE s.writes
      writes == IF s.hour = None THEN s.writes * MaxOf(w.write, w.hour)
                ELSE (s.writes - hour) * w.write + hour * w.hour
  IN  (s.reads * w.read + writes + Unit - 1) \div Unit

\* With no rates source: the input that was not read from the cache, and the output.
SpentUnrated(u) ==
  IF ~u.reported THEN 0
  ELSE AtLeastZero(OrZero(u.input) - OrZero(u.reads)) + OrZero(u.output)
\* With a source's table.
SpentRated(u, run, table) ==
  IF ~u.reported THEN 0
  ELSE LET slices == Slices(u)
           Sum(f) == SumOf([i \in DOMAIN slices |-> slices[i][f]])
       IN  AtLeastZero(OrZero(u.input) - Sum("reads") - Sum("writes")) + OrZero(u.output)
           + SumOf([i \in DOMAIN slices |-> SpentOf(table, run, slices[i])])
========================
