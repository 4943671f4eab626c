----------------------------- MODULE UsageRecords -----------------------------
(***************************************************************************)
(* The usage records of a gateway (models/usage_record_manager.go) and the *)
(* part of the upload task that exports them.  UsageReports composes this  *)
(* with what happens to the report.                                        *)
(*                                                                         *)
(* records and locks are plain maps.  A request is recorded by a goroutine *)
(* of its own: once when it starts (RecordUsageFromInitHttpProxyRequest or *)
(* RecordUsageFromSocket), once when its data passes                       *)
(* (RecordUsageHttpProxyData).  Every access to a map is a step; the       *)
(* per-key lock is found through a map that nothing protects.              *)
(*                                                                         *)
(* Usage is counted in units, one for each recording.  The calls are       *)
(* commented out in the stream handlers at this commit; the module is      *)
(* about the manager as they would use it.                                 *)
(***************************************************************************)
EXTENDS Naturals, FiniteSets

CONSTANTS
    Keys,         \* service and user
    Recorders,    \* goroutines that record a request
    Exporter,     \* StartUploadUsageReportTask
    Nil,          \* no entry in a map, no pointer
    MaxRequests   \* bound: requests recorded

ASSUME UsageAssumption ==
    /\ IsFiniteSet(Keys)
    /\ Exporter \notin Recorders
    /\ Nil \notin Recorders \cup {Exporter}
    /\ Nil \notin Nat
    /\ MaxRequests \in Nat

VARIABLES
    records,      \* records[k]: pointer to the record of k
    locks,        \* locks[k]: pointer to the lock of k
    units,        \* units[p]: usage in the record p points to
    owner,        \* owner[p]: who holds the lock p points to
    next,         \* requests so far; also the next free pointer
    pc,           \* where each goroutine is
    loc,          \* loc[g]: its key, its new objects, and the pointers it read
    todo,         \* keys ExportAllUsage still has to come to
    report,       \* usage in the report being built
    recorded,     \* history: usage recorded
    alive

mapVars == <<records, locks>>
exportVars == <<todo, report>>
recordVars == <<mapVars, units, owner, next, pc, loc, exportVars, recorded, alive>>

Ptrs == 1..MaxRequests
Procs == Recorders \cup {Exporter}
Locals == [key : Keys \cup {Nil}, new : Ptrs \cup {Nil}, rec : Ptrs \cup {Nil},
           lock : Ptrs \cup {Nil}, unlock : Ptrs \cup {Nil}]
NoLocals == [key |-> Nil, new |-> Nil, rec |-> Nil, lock |-> Nil, unlock |-> Nil]

RecordsTypeOK ==
    /\ records \in [Keys -> Ptrs \cup {Nil}]
    /\ locks \in [Keys -> Ptrs \cup {Nil}]
    /\ units \in [Ptrs -> Nat]
    /\ owner \in [Ptrs -> Procs \cup {Nil}]
    /\ next \in 0..MaxRequests
    /\ pc \in [Procs -> {"idle", "check", "newLock", "fetch", "acquire", "defer",
                         "store", "add", "dataCheck", "dataFetch", "dataAcquire",
                         "dataDefer", "dataAdd", "next", "lock", "clone", "delete",
                         "deleteLock", "pin", "write", "answer"}]
    /\ loc \in [Procs -> Locals]
    /\ todo \in SUBSET Keys
    /\ report \in Nat
    /\ recorded \in Nat
    /\ alive \in BOOLEAN

RecordsInit ==
    /\ records = [k \in Keys |-> Nil]
    /\ locks = [k \in Keys |-> Nil]
    /\ units = [p \in Ptrs |-> 0]
    /\ owner = [p \in Ptrs |-> Nil]
    /\ next = 0
    /\ pc = [g \in Procs |-> "idle"]
    /\ loc = [g \in Procs |-> NoLocals]
    /\ todo = {}
    /\ report = 0
    /\ recorded = 0
    /\ alive = TRUE

Goto(g, label) == pc' = [pc EXCEPT ![g] = label]

\* A nil pointer dereferenced, a lock unlocked that nobody holds, log.Fatal:
\* the process ends, and its memory is gone.
Crash ==
    /\ alive' = FALSE
    /\ records' = [k \in Keys |-> Nil]
    /\ locks' = [k \in Keys |-> Nil]
    /\ units' = [p \in Ptrs |-> 0]
    /\ owner' = [p \in Ptrs |-> Nil]
    /\ pc' = [g \in Procs |-> "idle"]
    /\ loc' = [g \in Procs |-> NoLocals]
    /\ todo' = {}
    /\ report' = 0
    /\ UNCHANGED <<next, recorded>>
-------------------------------------------------------------------------------
(* Recording the start of a request                                        *)

Request(g, k) ==
    /\ pc[g] = "idle"
    /\ next < MaxRequests
    /\ next' = next + 1
    /\ loc' = [loc EXCEPT ![g] = [NoLocals EXCEPT !.key = k, !.new = next + 1]]
    /\ Goto(g, "check")
    /\ UNCHANGED <<mapVars, units, owner, exportVars, recorded, alive>>

\* rcd, ok := m.records[recordKey]
Check(g) ==
    /\ pc[g] = "check"
    /\ loc' = [loc EXCEPT ![g].rec = records[loc[g].key]]
    /\ Goto(g, IF records[loc[g].key] = Nil THEN "newLock" ELSE "fetch")
    /\ UNCHANGED <<mapVars, units, owner, next, exportVars, recorded, alive>>

\* m.locks[recordKey] = &sync.RWMutex{}
NewLock(g) ==
    /\ pc[g] = "newLock"
    /\ locks' = [locks EXCEPT ![loc[g].key] = loc[g].new]
    /\ Goto(g, "fetch")
    /\ UNCHANGED <<records, units, owner, next, loc, exportVars, recorded, alive>>

Data(g) == pc[g] \in {"dataFetch", "dataAcquire", "dataDefer"}

\* m.locks[recordKey].Lock(): the map is read, then the lock waited for.
FetchLock(g) ==
    /\ pc[g] \in {"fetch", "dataFetch"}
    /\ locks[loc[g].key] # Nil
    /\ loc' = [loc EXCEPT ![g].lock = locks[loc[g].key]]
    /\ Goto(g, IF Data(g) THEN "dataAcquire" ELSE "acquire")
    /\ UNCHANGED <<mapVars, units, owner, next, exportVars, recorded, alive>>

Acquire(g) ==
    /\ pc[g] \in {"acquire", "dataAcquire"}
    /\ owner[loc[g].lock] = Nil
    /\ owner' = [owner EXCEPT ![loc[g].lock] = g]
    /\ Goto(g, IF Data(g) THEN "dataDefer" ELSE "defer")
    /\ UNCHANGED <<mapVars, units, next, loc, exportVars, recorded, alive>>

\* defer m.locks[recordKey].Unlock(): the map is read again.
FetchUnlock(g) ==
    /\ pc[g] \in {"defer", "dataDefer"}
    /\ locks[loc[g].key] # Nil
    /\ loc' = [loc EXCEPT ![g].unlock = locks[loc[g].key]]
    /\ Goto(g, IF Data(g) THEN "dataAdd"
               ELSE IF loc[g].rec = Nil THEN "store" ELSE "add")
    /\ UNCHANGED <<mapVars, units, owner, next, exportVars, recorded, alive>>

\* The lock is gone from the map: a method of a nil *RWMutex.
NilLock(g) ==
    /\ pc[g] \in {"fetch", "dataFetch", "defer", "dataDefer"}
    /\ locks[loc[g].key] = Nil
    /\ Crash

\* Wrong variant: there is no defer.
UnlocksNothing(g) == owner[loc[g].unlock] # Nil /\ UNCHANGED owner

\* The deferred Unlock.
Unlocks(g) ==
    /\ owner[loc[g].unlock] # Nil
    /\ owner' = [owner EXCEPT ![loc[g].unlock] = Nil]

\* m.records[recordKey] = &ApronUsageRecord{...}
Store(g) ==
    /\ pc[g] = "store"
    /\ Unlocks(g)
    /\ records' = [records EXCEPT ![loc[g].key] = loc[g].new]
    /\ units' = [units EXCEPT ![loc[g].new] = 1]
    /\ recorded' = recorded + 1
    /\ Goto(g, "dataCheck")
    /\ UNCHANGED <<locks, next, loc, exportVars, alive>>

\* rcd.DoRecord(1, ..., 0)
Add(g) ==
    /\ pc[g] = "add"
    /\ Unlocks(g)
    /\ units' = [units EXCEPT ![loc[g].rec] = @ + 1]
    /\ recorded' = recorded + 1
    /\ Goto(g, "dataCheck")
    /\ UNCHANGED <<mapVars, next, loc, exportVars, alive>>

\* The lock found at the defer, or the one the export has taken, is held by
\* nobody any more: a fatal error.
UnlockFails(g) ==
    /\ \/ pc[g] \in {"store", "add", "dataAdd"} /\ owner[loc[g].unlock] = Nil
       \/ pc[g] = "deleteLock" /\ owner[loc[g].lock] = Nil
    /\ Crash
-------------------------------------------------------------------------------
(* Recording the data of a request: RecordUsageHttpProxyData               *)

\* rcd, _ := m.records[recordKey]; the result of the lookup is not checked.
DataCheck(g) ==
    /\ pc[g] = "dataCheck"
    /\ loc' = [loc EXCEPT ![g].rec = records[loc[g].key]]
    /\ Goto(g, "dataFetch")
    /\ UNCHANGED <<mapVars, units, owner, next, exportVars, recorded, alive>>

DataAdd(g) ==
    /\ pc[g] = "dataAdd"
    /\ loc[g].rec # Nil
    /\ Unlocks(g)
    /\ units' = [units EXCEPT ![loc[g].rec] = @ + 1]
    /\ recorded' = recorded + 1
    /\ loc' = [loc EXCEPT ![g] = NoLocals]
    /\ Goto(g, "idle")
    /\ UNCHANGED <<mapVars, next, exportVars, alive>>

\* DoRecord of a nil record.
DataAddPanics(g) ==
    /\ pc[g] = "dataAdd"
    /\ loc[g].rec = Nil
    /\ Crash
-------------------------------------------------------------------------------
(* ExportAllUsage and the upload                                           *)

StartExport ==
    /\ pc[Exporter] = "idle"
    /\ todo' = {k \in Keys : locks[k] # Nil}
    /\ todo' # {}
    /\ Goto(Exporter, "next")
    /\ UNCHANGED <<mapVars, units, owner, next, loc, report, recorded, alive>>

\* for recordKey, lock := range m.locks: the entries there at the start, and
\* possibly entries made since, even of a key that was exported already.
ExportPair(k, key, lock) ==
    /\ pc[Exporter] = "next"
    /\ locks[k] # Nil
    /\ todo' = todo \ {k}
    /\ loc' = [loc EXCEPT ![Exporter] = [NoLocals EXCEPT !.key = key, !.lock = lock]]
    /\ Goto(Exporter, "lock")
    /\ UNCHANGED <<mapVars, units, owner, next, report, recorded, alive>>

\* Wrong variant: key and value of the range are mixed up.
ExportNextSwapped(k) == ExportPair(k, locks[k], k)

ExportNext(k) == ExportPair(k, k, locks[k])

ExportLock ==
    /\ pc[Exporter] = "lock"
    /\ owner[loc[Exporter].lock] = Nil
    /\ owner' = [owner EXCEPT ![loc[Exporter].lock] = Exporter]
    /\ Goto(Exporter, "clone")
    /\ UNCHANGED <<mapVars, units, next, loc, exportVars, recorded, alive>>

\* A clone of the record goes into the report.
ExportClone ==
    /\ pc[Exporter] = "clone"
    /\ records[loc[Exporter].key] # Nil
    /\ report' = report + units[records[loc[Exporter].key]]
    /\ Goto(Exporter, "delete")
    /\ UNCHANGED <<mapVars, units, owner, next, loc, todo, recorded, alive>>

\* The lock is in the map and the record is not: EndTs of a nil record.
ExportPanics ==
    /\ pc[Exporter] = "clone"
    /\ records[loc[Exporter].key] = Nil
    /\ Crash

\* Wrong variant: the record stays in the map.
ExportDeleteForgotten ==
    /\ pc[Exporter] = "delete"
    /\ Goto(Exporter, "deleteLock")
    /\ UNCHANGED <<mapVars, units, owner, next, loc, exportVars, recorded, alive>>

ExportDelete ==
    /\ pc[Exporter] = "delete"
    /\ records' = [records EXCEPT ![loc[Exporter].key] = Nil]
    /\ Goto(Exporter, "deleteLock")
    /\ UNCHANGED <<locks, units, owner, next, loc, exportVars, recorded, alive>>

\* The lock is deleted from the map and released.
ExportDeleteLock ==
    /\ pc[Exporter] = "deleteLock"
    /\ owner[loc[Exporter].lock] # Nil
    /\ locks' = [locks EXCEPT ![loc[Exporter].key] = Nil]
    /\ owner' = [owner EXCEPT ![loc[Exporter].lock] = Nil]
    /\ loc' = [loc EXCEPT ![Exporter] = NoLocals]
    /\ Goto(Exporter, "next")
    /\ UNCHANGED <<records, units, next, exportVars, recorded, alive>>

\* The iteration is over; an empty report is not uploaded.
ExportDone ==
    /\ pc[Exporter] = "next"
    /\ todo = {}
    /\ Goto(Exporter, IF report = 0 THEN "idle" ELSE "pin")
    /\ UNCHANGED <<mapVars, units, owner, next, loc, exportVars, recorded, alive>>

-------------------------------------------------------------------------------
\* The maps have no protection: a write next to another access may end the
\* process.
ConcurrentMapThrow ==
    /\ \E g, h \in Procs :
         /\ g # h
         /\ pc[g] \in {"newLock", "store", "delete", "deleteLock"}
         /\ pc[h] \in {"check", "newLock", "fetch", "defer", "store", "dataCheck",
                       "dataFetch", "dataDefer", "next", "clone", "delete",
                       "deleteLock"}
    /\ Crash

RecorderRuns(g) ==
    \/ Check(g) \/ NewLock(g) \/ FetchLock(g) \/ Acquire(g) \/ FetchUnlock(g)
    \/ NilLock(g) \/ Store(g) \/ Add(g) \/ UnlockFails(g)
    \/ DataCheck(g) \/ DataAdd(g) \/ DataAddPanics(g)
RecorderStep(g) == RecorderRuns(g) \/ \E k \in Keys : Request(g, k)

ExporterStep ==
    \/ StartExport
    \/ \E k \in Keys : ExportNext(k)
    \/ ExportLock \/ ExportClone \/ ExportPanics \/ ExportDelete \/ ExportDeleteLock
    \/ ExportDone \/ UnlockFails(Exporter)

\* A running gateway.
ManagerStep ==
    /\ alive
    /\ (\E g \in Recorders : RecorderStep(g)) \/ ExporterStep \/ ConcurrentMapThrow
===============================================================================
