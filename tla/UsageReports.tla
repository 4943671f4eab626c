----------------------------- MODULE UsageReports -----------------------------
(***************************************************************************)
(* What becomes of the usage records: the upload task (node_user_report.go) *)
(* hands each report to an IPFS agent, LocalFileAgent or PinataService     *)
(* (ipfs_agent/), the gateway may die at any step and be started again,    *)
(* and the report generator (cmd/report_generator) walks the directory of  *)
(* the local agent meanwhile.                                              *)
(*                                                                         *)
(* A stored report is the usage in it.  A file that was cut short does not *)
(* unmarshal (Torn), or does, with fewer records; an empty one unmarshals  *)
(* as a report without records.  Files are named at random, so that the    *)
(* walk may come to them in any order.                                     *)
(***************************************************************************)
EXTENDS UsageRecords, Sequences

CONSTANTS
    Agents,       \* subset of {"local", "pinata"}
    Torn,         \* content that does not unmarshal
    MaxStarts     \* bound: starts of the gateway

ASSUME ReportsAssumption ==
    /\ Agents \subseteq {"local", "pinata"}
    /\ Torn \notin Nat
    /\ MaxStarts \in Nat \ {0}

VARIABLES
    agent,        \* the agent of the gateway
    stored,       \* stored[i]: content of the i-th file or pin
    pinned,       \* usage in the reports PinContent has returned for
    starts,       \* starts of the gateway
    gen,          \* the report generator
    walk,         \* files it still has to read
    due,          \* pinned when the generator started
    listed        \* usage it has listed

pinVars == <<agent, stored, pinned, starts>>
genVars == <<gen, walk, due, listed>>
vars == <<recordVars, pinVars, genVars>>

TypeOK ==
    /\ RecordsTypeOK
    /\ agent \in Agents
    /\ stored \in Seq(Nat \cup {Torn})
    /\ pinned \in Nat
    /\ starts \in 1..MaxStarts
    /\ gen \in {"off", "walking", "done", "failed"}
    /\ walk \in SUBSET (1..Len(stored))
    /\ due \in Nat
    /\ listed \in Nat

Init ==
    /\ RecordsInit
    /\ agent \in Agents
    /\ stored = <<>>
    /\ pinned = 0
    /\ starts = 1
    /\ gen = "off"
    /\ walk = {}
    /\ due = 0
    /\ listed = 0

\* What is left of a report with this usage when its bytes are cut short.
Cut(usage) == 0..usage \cup {Torn}

Pinning(label) == alive /\ pc[Exporter] = label
-------------------------------------------------------------------------------
(* The upload task and its agent                                           *)

\* The agent has an error, or cannot even begin: log.Fatal, after the records
\* have been deleted.  The answer of Pinata may also come too late, or not
\* unmarshal, when the report has been pinned.
PinFails ==
    /\ Pinning("pin") \/ Pinning("answer")
    /\ Crash
    /\ UNCHANGED <<pinVars, genVars>>

\* LocalFileAgent: the file is there, but empty.
TempFile ==
    /\ Pinning("pin")
    /\ agent = "local"
    /\ stored' = Append(stored, 0)
    /\ Goto(Exporter, "write")
    /\ UNCHANGED <<mapVars, units, owner, next, loc, exportVars, recorded, alive,
                   agent, pinned, starts, genVars>>

\* PinContent returns, with content c in the file.
WriteReturns(c) ==
    /\ Pinning("write")
    /\ stored' = [stored EXCEPT ![Len(stored)] = c]
    /\ pinned' = pinned + report
    /\ report' = 0
    /\ Goto(Exporter, "idle")
    /\ UNCHANGED <<mapVars, units, owner, next, loc, todo, recorded, alive, agent,
                   starts, genVars>>

\* Wrong variant: a write error is ignored, as in the socks5 service agent.
WriteErrorIgnored == \E c \in Cut(report) : WriteReturns(c)

Write == WriteReturns(report)

\* A write error: log.Fatal, and what was written stays.
WriteFails ==
    /\ Pinning("write")
    /\ \E c \in Cut(report) : stored' = [stored EXCEPT ![Len(stored)] = c]
    /\ Crash
    /\ UNCHANGED <<agent, pinned, starts, genVars>>

\* PinataService: the goroutine that copies the file into the request ends
\* early after a read error, and the request with it, in good order.
Upload ==
    /\ Pinning("pin")
    /\ agent = "pinata"
    /\ \E c \in Cut(report) : stored' = Append(stored, c)
    /\ Goto(Exporter, "answer")
    /\ UNCHANGED <<mapVars, units, owner, next, loc, exportVars, recorded, alive,
                   agent, pinned, starts, genVars>>

\* The answer has an IpfsHash.
Hash ==
    /\ Pinning("answer")
    /\ pinned' = pinned + report
    /\ report' = 0
    /\ Goto(Exporter, "idle")
    /\ UNCHANGED <<mapVars, units, owner, next, loc, todo, recorded, alive, agent,
                   stored, starts, genVars>>

\* The gateway is started again, with nothing but the files.
Restart ==
    /\ ~alive
    /\ starts < MaxStarts
    /\ alive' = TRUE
    /\ starts' = starts + 1
    /\ UNCHANGED <<mapVars, units, owner, next, pc, loc, exportVars, recorded,
                   agent, stored, pinned, genVars>>
-------------------------------------------------------------------------------
(* The report generator, a process of its own                              *)

\* filepath.Walk lists the directory first.
GenStart ==
    /\ gen = "off"
    /\ agent = "local"
    /\ gen' = "walking"
    /\ walk' = 1..Len(stored)
    /\ due' = pinned
    /\ UNCHANGED <<recordVars, pinVars, listed>>

\* There is no directory yet: the FileInfo is nil.
GenPanics ==
    /\ gen = "off"
    /\ agent = "local"
    /\ stored = <<>>
    /\ gen' = "failed"
    /\ UNCHANGED <<recordVars, pinVars, walk, due, listed>>

\* A file unmarshals; rest is what is read after it.
GenLists(i, rest) ==
    /\ gen = "walking"
    /\ i \in walk
    /\ stored[i] # Torn
    /\ walk' = rest
    /\ listed' = listed + stored[i]
    /\ UNCHANGED <<recordVars, pinVars, gen, due>>

\* Wrong variant: a file without records ends the walk.
GenStopsAtEmpty(i) == GenLists(i, IF stored[i] = 0 THEN {} ELSE walk \ {i})

GenRead(i) == GenLists(i, walk \ {i})

\* One file that does not unmarshal ends the walk: log.Fatal.
GenFails(i) ==
    /\ gen = "walking"
    /\ i \in walk
    /\ stored[i] = Torn
    /\ gen' = "failed"
    /\ UNCHANGED <<recordVars, pinVars, walk, due, listed>>

GenDone ==
    /\ gen = "walking"
    /\ walk = {}
    /\ gen' = "done"
    /\ UNCHANGED <<recordVars, pinVars, walk, due, listed>>

Manager == ManagerStep /\ UNCHANGED <<pinVars, genVars>>
Generator ==
    \/ GenStart \/ GenPanics \/ GenDone
    \/ \E i \in walk : GenRead(i) \/ GenFails(i)
Pin == PinFails \/ TempFile \/ Write \/ WriteFails \/ Upload \/ Hash

Next == Manager \/ Pin \/ Restart \/ Generator

Spec == Init /\ [][Next]_vars

\* Goroutines run, and a mutex is passed on to those who wait for it.
Fairness ==
    /\ \A g \in Recorders :
         /\ WF_recordVars(alive /\ RecorderRuns(g))
         /\ SF_recordVars(alive /\ Acquire(g))
    /\ WF_recordVars(alive /\ ExporterStep)
    /\ SF_recordVars(alive /\ ExportLock)

FairSpec == Spec /\ Fairness
-------------------------------------------------------------------------------
(* Properties                                                              *)

\* The total of F[x] over the members x of S, as a number of units.
Units(F, S) == UNION {{x} \X (1..F[x]) : x \in S}
Total(F, S) == Cardinality(Units(F, S))

\* Usage in the records the next export would find; what a running export has
\* copied and not yet deleted is not counted again.
InRecord == [k \in Keys |-> IF records[k] = Nil THEN 0 ELSE units[records[k]]]
Copied == IF pc[Exporter] = "delete" THEN {loc[Exporter].key} ELSE {}
Held == Total(InRecord, Keys \ Copied)

\* Usage in the report that is in memory and not yet with the agent.
Reported == IF pc[Exporter] = "answer" THEN 0 ELSE report

\* Usage in the files or pins that unmarshal.
UsageIn(c) == IF c = Torn THEN 0 ELSE c
Contents(files) == [i \in 1..Len(files) |-> UsageIn(files[i])]
Stored == Total(Contents(stored), 1..Len(stored))

\* Nothing is billed twice: what is stored, what is in the report and what the
\* next export would find never exceed what was recorded, whatever recorders,
\* export, failed uploads and restarts do to each other
\* (usage_record_manager.go:86-103, node_user_report.go:13-25).
NothingBilledTwice == Stored + Reported + Held <= recorded

\* With the local agent every unit PinContent has returned for is in a file,
\* whatever crashes follow (local_file_agent.go:49-62).
PinnedIsStored == agent = "local" => pinned <= Stored

\* A walk of the report generator that ends without an error has listed all
\* that had been pinned when it began, and nothing that was not recorded,
\* although the gateway goes on, dies and leaves empty and torn files meanwhile
\* (report_generator/main.go:21-51).
ListingComplete == gen = "done" => due <= listed /\ listed <= recorded

Waits(g) == pc[g] \in {"acquire", "dataAcquire", "lock"}

\* Nobody waits for ever for a lock that is still the one in the map: only a
\* lock that another recorder has replaced or the export has deleted may never
\* be released (usage_record_manager.go:24, 29, 49, 93).
LocksAreReleased ==
    \A g \in Procs :
      Waits(g) ~> ~Waits(g) \/ locks[loc[g].key] # loc[g].lock
===============================================================================
