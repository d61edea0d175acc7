------------ MODULE ModelRates ------------
(***************************************************************************)
(* Where the rates of TokenUsage come from (miragen/model_rates.py): no    *)
(* source, a local file that is read again when its mtime changes, or an   *)
(* HTTP endpoint fetched at startup and then by a background thread, its   *)
(* last good table kept on disk.  The document that is served changes, is  *)
(* broken or gone at any time, and the process may restart.                *)
(***************************************************************************)
EXTENDS TokenUsage

CONSTANTS
  Documents,   \* the rates documents that may be served
  Broken,      \* what is served cannot be read as one
  Gone,        \* there is no file, or the endpoint does not answer
  NoTable,     \* there has never been a good table
  Models,      \* the models runs may use
  Usages,      \* the usages a run may have
  MaxChanges,  \* bound: changes of what is served
  MaxStarts    \* bound: starts of the process

\* A usage as the budgets read it, with the requests it consists of where they are known; the table
\* of an empty document is a table.
Count == Nat \cup {None}
ASSUME RatesAssumption ==
  /\ \A u \in Usages :
       /\ u.reported /\ u.input \in Count /\ u.output \in Count /\ u.reads \in Count
       /\ u.writes \in Count /\ u.hour \in Count
       /\ DOMAIN u.calls = 1 .. Len(u.calls)
       /\ \A i \in DOMAIN u.calls : \A f \in {"reads", "writes", "hour"} : u.calls[i][f] \in Count
  /\ MaxChanges \in Nat /\ MaxStarts \in Nat /\ NoTable # Parse(<< >>)

VARIABLES
  kind,    \* the configured source
  served,  \* what the file or the endpoint holds now
  stamp,   \* the file's mtime
  source,  \* the source: its table and the mtime it has read
  copy,    \* the copy of the last good table on disk
  starts   \* starts so far
ratesVars == <<kind, served, stamp, source, copy, starts>>

NoSource == "none"
Fresh == [table |-> NoTable, seen |-> 0]
Tables == {NoTable} \cup {Parse(d) : d \in Documents}

RatesTypeOK ==
  /\ kind \in {NoSource, "file", "http"}
  /\ served \in {Broken, Gone} \cup Documents
  /\ stamp \in 1..(MaxChanges + 1)
  /\ source.table \in Tables /\ source.seen \in 0..stamp
  /\ copy \in Tables
  /\ starts \in 0..MaxStarts

RatesInit ==
  /\ kind \in {NoSource, "file", "http"}
  /\ served \in {Broken, Gone} \cup Documents
  /\ stamp = 1
  /\ source = Fresh
  /\ copy = NoTable
  /\ starts = 0

\* A fetch or a read that fails keeps the last good table.
Fetched(table) == IF served \in Documents THEN Parse(served) ELSE table

\* The process starts: an HTTP source loads its copy, and fetches before the first budget check
\* when there is none.
Start ==
  /\ starts < MaxStarts
  /\ LET table == IF kind # "http" THEN NoTable ELSE IF copy = NoTable THEN Fetched(copy) ELSE copy
     IN  /\ source' = [Fresh EXCEPT !.table = table]
         /\ copy' \in IF kind = "http" /\ copy = NoTable THEN {table, copy} ELSE {copy}
  /\ starts' = starts + 1
  /\ UNCHANGED <<kind, served, stamp>>

\* The background thread fetches; the copy may fail to be written.
Refresh ==
  /\ kind = "http" /\ starts > 0
  /\ source' = [source EXCEPT !.table = Fetched(@)]
  /\ copy' \in IF served \in Documents THEN {copy, Parse(served)} ELSE {copy}
  /\ UNCHANGED <<kind, served, stamp, starts>>

\* A budget check asks a file source for its table.
M_FileReadOnce ==
  /\ kind = "file" /\ starts > 0 /\ served # Gone /\ source.seen = 0
  /\ source' = [table |-> Fetched(source.table), seen |-> stamp]
  /\ UNCHANGED <<kind, served, stamp, copy, starts>>
FileCurrent ==
  /\ kind = "file" /\ starts > 0 /\ served # Gone /\ source.seen # stamp
  /\ source' = [table |-> Fetched(source.table), seen |-> stamp]
  /\ UNCHANGED <<kind, served, stamp, copy, starts>>

\* The operator, or the control plane, changes what is served.
Publish ==
  /\ stamp <= MaxChanges
  /\ served' \in ({Broken, Gone} \cup Documents) \ {served}
  /\ stamp' = stamp + 1
  /\ UNCHANGED <<kind, source, copy, starts>>

RatesNext == Start \/ Refresh \/ FileCurrent \/ Publish
RatesFairness == WF_ratesVars(Refresh) /\ WF_ratesVars(FileCurrent)

\* The table budgets read: NoTable only when no source is configured.
CurrentTable ==
  IF kind = NoSource THEN NoTable ELSE IF source.table = NoTable THEN Parse(<<>>) ELSE source.table
Spent(u, run) == IF CurrentTable = NoTable THEN SpentUnrated(u) ELSE SpentRated(u, run, CurrentTable)

------------------------
(* Properties *)

\* With a source configured, whatever it serves and before it has served anything, every token of
\* a usage counts in full where its models cannot be weighted: never less than with no source.
Unweighable(u, run) ==
  \A s \in {NoModel} \cup {u.calls[i].model : i \in DOMAIN u.calls} :
     CurrentTable = NoTable \/ ~Rateable(CurrentTable, Candidates(CurrentTable, s, run))
UnratedCountsInFull ==
  starts > 0 /\ kind # NoSource =>
    \A u \in Usages, run \in Models :
      Unweighable(u, run) => Spent(u, run) >= OrZero(u.input) + OrZero(u.output)

\* Once the served document stays good, the budgets come to use it: to hold in the end.
RatesCaughtUp == starts > 0 /\ kind # NoSource /\ served \in Documents => source.table = Parse(served)
========================
