-------------------------- MODULE UsageReportsProofs --------------------------
(***************************************************************************)
(* Theorems about the usage records and reports (UsageReports), for every  *)
(* finite set of keys, every number of recorders, requests and restarts.   *)
(*                                                                         *)
(* A total is a number of units, so that the facts about totals are facts  *)
(* about the cardinality of finite sets; an action changes one record or   *)
(* one file, and the lemmas say what that does to the total.               *)
(***************************************************************************)
EXTENDS UsageReports, FiniteSetTheorems, FunctionTheorems, SequenceTheorems, TLAPS

-------------------------------------------------------------------------------
(* Totals                                                                  *)

\* The total over a finite set is a number.
LEMMA TotalIsNat ==
    ASSUME NEW S, IsFiniteSet(S), NEW F, \A x \in S : F[x] \in Nat
    PROVE  IsFiniteSet(Units(F, S)) /\ Total(F, S) \in Nat
<1> DEFINE Part == [x \in S |-> {x} \X (1..F[x])]
           Parts == {{x} \X (1..F[x]) : x \in S}
<1>1. Part \in Surjection(S, Parts)
  BY DEF Surjection
<1>2. IsFiniteSet(Parts)
  <2> HIDE DEF Part, Parts
  <2> QED BY <1>1, FS_Surjection
<1>3. ASSUME NEW T \in Parts PROVE IsFiniteSet(T)
  <2>1. PICK x \in S : T = {x} \X (1..F[x])
    OBVIOUS
  <2>2. IsFiniteSet({x})
    BY FS_Singleton
  <2>3. IsFiniteSet(1..F[x])
    BY FS_Interval
  <2> QED BY <2>1, <2>2, <2>3, FS_Product
<1>4. IsFiniteSet(UNION Parts)
  <2> HIDE DEF Parts
  <2> QED BY <1>2, <1>3, FS_UNION
<1> QED BY <1>4, FS_CardinalityType DEF Total, Units

\* Nothing has no units.
LEMMA TotalOfNone ==
    ASSUME NEW F
    PROVE  Total(F, {}) = 0
<1>1. Units(F, {}) = {}
  BY DEF Units
<1> QED BY <1>1, FS_EmptySet DEF Total

\* A member counts for itself.
LEMMA TotalSplits ==
    ASSUME NEW S, IsFiniteSet(S), NEW F, \A x \in S : F[x] \in Nat, NEW x \in S
    PROVE  /\ Total(F, S \ {x}) \in Nat
           /\ Total(F, S) = F[x] + Total(F, S \ {x})
<1> DEFINE Own == {x} \X (1..F[x])
           Rest == Units(F, S \ {x})
<1>1. IsFiniteSet(S \ {x})
  BY FS_RemoveElement
<1>2. IsFiniteSet(Rest) /\ Cardinality(Rest) \in Nat
  BY <1>1, TotalIsNat DEF Total
<1>3. IsFiniteSet(Own) /\ Cardinality(Own) = F[x]
  <2>1. IsFiniteSet({x}) /\ Cardinality({x}) = 1
    BY FS_Singleton
  <2>2. IsFiniteSet(1..F[x]) /\ Cardinality(1..F[x]) = F[x]
    BY FS_Interval
  <2> QED BY <2>1, <2>2, FS_Product
<1>4. Units(F, S) = Own \cup Rest
  BY DEF Units
<1>5. Own \cap Rest = {}
  BY DEF Units
<1>6. Cardinality(Own \cup Rest) = Cardinality(Own) + Cardinality(Rest) - Cardinality(Own \cap Rest)
  <2> HIDE DEF Own, Rest
  <2> QED BY <1>2, <1>3, FS_Union
<1>7. Cardinality(Own \cap Rest) = 0
  BY <1>5, FS_EmptySet
<1> HIDE DEF Own, Rest
<1>8. Cardinality(Units(F, S)) = F[x] + Cardinality(Rest)
  BY <1>2, <1>3, <1>4, <1>6, <1>7
<1> QED BY <1>2, <1>8 DEF Total, Rest

\* The total depends on the members only.
LEMMA TotalIsLocal ==
    ASSUME NEW S, NEW F, NEW G, \A x \in S : F[x] = G[x]
    PROVE  Total(F, S) = Total(G, S)
<1>1. Units(F, S) = Units(G, S)
  BY DEF Units
<1> QED BY <1>1 DEF Total

\* One entry that grows by at most n makes the total grow by at most n.
LEMMA TotalGrows ==
    ASSUME NEW S, IsFiniteSet(S), NEW F, NEW G, NEW x, NEW n \in Nat,
           \A y \in S : F[y] \in Nat /\ G[y] \in Nat,
           \A y \in S \ {x} : G[y] = F[y],
           x \in S => G[x] <= F[x] + n
    PROVE  Total(G, S) <= Total(F, S) + n
<1>1. CASE x \in S
  <2>1. Total(F, S \ {x}) = Total(G, S \ {x})
    BY TotalIsLocal
  <2>2. Total(F, S \ {x}) \in Nat /\ Total(F, S) = F[x] + Total(F, S \ {x})
    BY <1>1, TotalSplits
  <2>3. Total(G, S) = G[x] + Total(G, S \ {x})
    BY <1>1, TotalSplits
  <2>4. F[x] \in Nat /\ G[x] \in Nat /\ G[x] <= F[x] + n
    BY <1>1
  <2> QED BY <2>1, <2>2, <2>3, <2>4
<1>2. CASE x \notin S
  <2>1. Total(F, S) = Total(G, S)
    BY <1>2, TotalIsLocal
  <2>2. Total(F, S) \in Nat
    BY TotalIsNat
  <2> QED BY <2>1, <2>2
<1> QED BY <1>1, <1>2
-------------------------------------------------------------------------------
(* The inductive invariant                                                 *)

\* Whoever is on the way to a map has a key to look up.
KeysKnown ==
    /\ \A g \in Recorders : pc[g] # "idle" => loc[g].key \in Keys
    /\ pc[Exporter] \in {"lock", "clone", "delete", "deleteLock"} =>
         loc[Exporter].key \in Keys

\* A recorder that has not recorded the start of its request.
Early(g) == pc[g] \in {"check", "newLock", "fetch", "acquire", "defer", "store", "add"}

\* No record is shared by two keys, and the record a recorder may store is
\* its own until then.
PointersApart ==
    /\ \A j, k \in Keys : records[j] = records[k] => j = k \/ records[j] = Nil
    /\ \A k \in Keys : records[k] # Nil => records[k] <= next
    /\ \A g \in Recorders : Early(g) =>
         /\ loc[g].new \in 1..next
         /\ \A k \in Keys : records[k] # loc[g].new
         /\ \A h \in Recorders : Early(h) /\ loc[h].new = loc[g].new => g = h

\* What the upload task waits for is what its agent does.
AgentPhases ==
    /\ pc[Exporter] = "write" =>
         agent = "local" /\ stored # <<>> /\ stored[Len(stored)] = 0
    /\ pc[Exporter] = "answer" => agent = "pinata"

\* What the report generator has listed and what it has still to read make up
\* for what was pinned when it started, and for no more than is stored.
Walking ==
    /\ gen = "off" => listed = 0
    /\ gen = "done" => walk = {}
    /\ due <= listed + Total(Contents(stored), walk)
    /\ listed + Total(Contents(stored), walk) <= Stored

UsageInv ==
    /\ TypeOK
    /\ KeysKnown
    /\ PointersApart
    /\ AgentPhases
    /\ NothingBilledTwice
    /\ PinnedIsStored
    /\ Walking

-------------------------------------------------------------------------------
(* The steps of the gateway, those that end it apart                       *)

Recording(g) ==
    \/ \E k \in Keys : Request(g, k)
    \/ Check(g) \/ NewLock(g) \/ FetchLock(g) \/ Acquire(g) \/ FetchUnlock(g)
    \/ Store(g) \/ Add(g) \/ DataCheck(g) \/ DataAdd(g)

Exporting ==
    \/ StartExport
    \/ \E k \in Keys : ExportNext(k)
    \/ ExportLock \/ ExportClone \/ ExportDelete \/ ExportDeleteLock \/ ExportDone

\* A gateway records, exports or ends.
LEMMA ManagerCases ==
    ASSUME ManagerStep
    PROVE  (\E g \in Recorders : Recording(g)) \/ Exporting \/ Crash
BY DEF ManagerStep, RecorderStep, RecorderRuns, ExporterStep, ConcurrentMapThrow,
       NilLock, UnlockFails, DataAddPanics, ExportPanics, Recording, Exporting

-------------------------------------------------------------------------------
(* Types                                                                   *)

Labels == {"idle", "check", "newLock", "fetch", "acquire", "defer", "store", "add",
           "dataCheck", "dataFetch", "dataAcquire", "dataDefer", "dataAdd", "next",
           "lock", "clone", "delete", "deleteLock", "pin", "write", "answer"}

\* The parts of RecordsTypeOK: the heap, and the goroutines.
HeapTypes ==
    /\ records \in [Keys -> Ptrs \cup {Nil}]
    /\ locks \in [Keys -> Ptrs \cup {Nil}]
    /\ units \in [Ptrs -> Nat]
    /\ owner \in [Ptrs -> Procs \cup {Nil}]
    /\ next \in 0..MaxRequests
    /\ todo \in SUBSET Keys
    /\ report \in Nat
    /\ recorded \in Nat
GoroutineTypes ==
    /\ pc \in [Procs -> Labels]
    /\ loc \in [Procs -> Locals]

LEMMA TypeParts == RecordsTypeOK <=> HeapTypes /\ GoroutineTypes /\ alive \in BOOLEAN
BY DEF RecordsTypeOK, HeapTypes, GoroutineTypes, Labels

\* A recorder's step keeps the types of the records.
LEMMA RecordingTypes ==
    ASSUME HeapTypes, GoroutineTypes, KeysKnown, NEW g \in Recorders, Recording(g)
    PROVE  HeapTypes' /\ GoroutineTypes' /\ KeysKnown' /\ alive' = alive
<1> USE UsageAssumption DEF Procs, Ptrs, Goto, mapVars, exportVars
<1>1. ASSUME NEW k \in Keys, Request(g, k)
      PROVE  HeapTypes' /\ GoroutineTypes' /\ KeysKnown' /\ alive' = alive
  <2>1. HeapTypes'
    BY <1>1 DEF HeapTypes, GoroutineTypes, Locals, KeysKnown, Request
  <2>2. pc' \in [Procs -> Labels]
    BY <1>1 DEF GoroutineTypes, Labels, Request
  <2>3. loc' \in [Procs -> Locals]
    <3>1. next + 1 \in Ptrs \cup {Nil}
      BY <1>1 DEF HeapTypes, Request
    <3>2. [NoLocals EXCEPT !.key = k, !.new = next + 1] \in Locals
      BY <3>1 DEF Locals, NoLocals
    <3> QED BY <1>1, <3>2 DEF GoroutineTypes, Request
  <2>4. KeysKnown'
    BY <1>1 DEF GoroutineTypes, KeysKnown, Locals, NoLocals, Request
  <2> QED BY <1>1, <2>1, <2>2, <2>3, <2>4 DEF GoroutineTypes, Request
<1>2. CASE Check(g)
  <2>1. HeapTypes'
    BY <1>2 DEF HeapTypes, GoroutineTypes, Locals, KeysKnown, Check
  <2>2. pc' \in [Procs -> Labels]
    BY <1>2 DEF GoroutineTypes, Labels, Check
  <2>3. loc' \in [Procs -> Locals]
    <3>1. loc[g] \in Locals /\ records[loc[g].key] \in Ptrs \cup {Nil}
      BY <1>2 DEF HeapTypes, GoroutineTypes, KeysKnown, Check
    <3>2. [loc[g] EXCEPT !.rec = records[loc[g].key]] \in Locals
      BY <3>1 DEF Locals
    <3>3. loc' = [loc EXCEPT ![g] = [loc[g] EXCEPT !.rec = records[loc[g].key]]]
      BY <1>2 DEF Check
    <3> QED BY <3>2, <3>3 DEF GoroutineTypes
  <2>4. KeysKnown'
    BY <1>2 DEF GoroutineTypes, KeysKnown, Locals, NoLocals, Check
  <2> QED BY <1>2, <2>1, <2>2, <2>3, <2>4 DEF GoroutineTypes, Check
<1>3. CASE NewLock(g)
  <2>1. HeapTypes'
    BY <1>3 DEF HeapTypes, GoroutineTypes, Locals, KeysKnown, NewLock
  <2>2. pc' \in [Procs -> Labels]
    BY <1>3 DEF GoroutineTypes, Labels, NewLock
  <2>3. loc' \in [Procs -> Locals]
    BY <1>3 DEF HeapTypes, GoroutineTypes, KeysKnown, Locals, NoLocals, NewLock
  <2>4. KeysKnown'
    BY <1>3 DEF GoroutineTypes, KeysKnown, Locals, NoLocals, NewLock
  <2> QED BY <1>3, <2>1, <2>2, <2>3, <2>4 DEF GoroutineTypes, NewLock
<1>4. CASE FetchLock(g)
  <2>1. HeapTypes'
    BY <1>4 DEF HeapTypes, GoroutineTypes, Locals, KeysKnown, FetchLock, Data
  <2>2. pc' \in [Procs -> Labels]
    BY <1>4 DEF GoroutineTypes, Labels, FetchLock, Data
  <2>3. loc' \in [Procs -> Locals]
    <3>1. loc[g] \in Locals /\ locks[loc[g].key] \in Ptrs \cup {Nil}
      BY <1>4 DEF HeapTypes, GoroutineTypes, KeysKnown, FetchLock, Data
    <3>2. [loc[g] EXCEPT !.lock = locks[loc[g].key]] \in Locals
      BY <3>1 DEF Locals
    <3>3. loc' = [loc EXCEPT ![g] = [loc[g] EXCEPT !.lock = locks[loc[g].key]]]
      BY <1>4 DEF FetchLock, Data
    <3> QED BY <3>2, <3>3 DEF GoroutineTypes
  <2>4. KeysKnown'
    BY <1>4 DEF GoroutineTypes, KeysKnown, Locals, NoLocals, FetchLock, Data
  <2> QED BY <1>4, <2>1, <2>2, <2>3, <2>4 DEF GoroutineTypes, FetchLock, Data
<1>5. CASE Acquire(g)
  <2>1. HeapTypes'
    BY <1>5 DEF HeapTypes, GoroutineTypes, Locals, KeysKnown, Acquire, Data
  <2>2. pc' \in [Procs -> Labels]
    BY <1>5 DEF GoroutineTypes, Labels, Acquire, Data
  <2>3. loc' \in [Procs -> Locals]
    BY <1>5 DEF HeapTypes, GoroutineTypes, KeysKnown, Locals, NoLocals, Acquire, Data
  <2>4. KeysKnown'
    BY <1>5 DEF GoroutineTypes, KeysKnown, Locals, NoLocals, Acquire, Data
  <2> QED BY <1>5, <2>1, <2>2, <2>3, <2>4 DEF GoroutineTypes, Acquire, Data
<1>6. CASE FetchUnlock(g)
  <2>1. HeapTypes'
    BY <1>6 DEF HeapTypes, GoroutineTypes, Locals, KeysKnown, FetchUnlock, Data
  <2>2. pc' \in [Procs -> Labels]
    BY <1>6 DEF GoroutineTypes, Labels, FetchUnlock, Data
  <2>3. loc' \in [Procs -> Locals]
    <3>1. loc[g] \in Locals /\ locks[loc[g].key] \in Ptrs \cup {Nil}
      BY <1>6 DEF HeapTypes, GoroutineTypes, KeysKnown, FetchUnlock, Data
    <3>2. [loc[g] EXCEPT !.unlock = locks[loc[g].key]] \in Locals
      BY <3>1 DEF Locals
    <3>3. loc' = [loc EXCEPT ![g] = [loc[g] EXCEPT !.unlock = locks[loc[g].key]]]
      BY <1>6 DEF FetchUnlock, Data
    <3> QED BY <3>2, <3>3 DEF GoroutineTypes
  <2>4. KeysKnown'
    BY <1>6 DEF GoroutineTypes, KeysKnown, Locals, NoLocals, FetchUnlock, Data
  <2> QED BY <1>6, <2>1, <2>2, <2>3, <2>4 DEF GoroutineTypes, FetchUnlock, Data
<1>7. CASE Store(g)
  <2>1. HeapTypes'
    <3>1. units' \in [Ptrs -> Nat]
      BY <1>7 DEF HeapTypes, Store, Unlocks
    <3>2. owner' \in [Ptrs -> Procs \cup {Nil}]
      BY <1>7 DEF HeapTypes, Store, Unlocks
    <3>3. loc[g].new \in Ptrs \cup {Nil}
      BY DEF GoroutineTypes, Locals
    <3>4. records' \in [Keys -> Ptrs \cup {Nil}]
      BY <1>7, <3>3 DEF HeapTypes, Store, Unlocks
    <3> QED BY <1>7, <3>1, <3>2, <3>4 DEF HeapTypes, Store, Unlocks
  <2>2. pc' \in [Procs -> Labels]
    BY <1>7 DEF GoroutineTypes, Labels, Store, Unlocks
  <2>3. loc' \in [Procs -> Locals]
    BY <1>7 DEF HeapTypes, GoroutineTypes, KeysKnown, Locals, NoLocals, Store, Unlocks
  <2>4. KeysKnown'
    BY <1>7 DEF GoroutineTypes, KeysKnown, Locals, NoLocals, Store, Unlocks
  <2> QED BY <1>7, <2>1, <2>2, <2>3, <2>4 DEF GoroutineTypes, Store, Unlocks
<1>8. CASE Add(g)
  <2>1. HeapTypes'
    <3>1. units' \in [Ptrs -> Nat]
      <4> HIDE DEF Ptrs
      <4>1. ASSUME NEW p \in Ptrs PROVE units[p] \in Nat /\ units[p] + 1 \in Nat
        BY DEF HeapTypes
      <4>2. units' = [p \in Ptrs |-> IF p = loc[g].rec THEN units[p] + 1 ELSE units[p]]
        BY <1>8 DEF HeapTypes, Add, Unlocks
      <4> QED BY <4>1, <4>2
    <3>2. owner' \in [Ptrs -> Procs \cup {Nil}]
      BY <1>8 DEF HeapTypes, Add, Unlocks
    <3>3. loc[g].new \in Ptrs \cup {Nil}
      BY DEF GoroutineTypes, Locals
    <3>4. records' \in [Keys -> Ptrs \cup {Nil}]
      BY <1>8, <3>3 DEF HeapTypes, Add, Unlocks
    <3> QED BY <1>8, <3>1, <3>2, <3>4 DEF HeapTypes, Add, Unlocks
  <2>2. pc' \in [Procs -> Labels]
    BY <1>8 DEF GoroutineTypes, Labels, Add, Unlocks
  <2>3. loc' \in [Procs -> Locals]
    BY <1>8 DEF HeapTypes, GoroutineTypes, KeysKnown, Locals, NoLocals, Add, Unlocks
  <2>4. KeysKnown'
    BY <1>8 DEF GoroutineTypes, KeysKnown, Locals, NoLocals, Add, Unlocks
  <2> QED BY <1>8, <2>1, <2>2, <2>3, <2>4 DEF GoroutineTypes, Add, Unlocks
<1>9. CASE DataCheck(g)
  <2>1. HeapTypes'
    BY <1>9 DEF HeapTypes, GoroutineTypes, Locals, KeysKnown, DataCheck
  <2>2. pc' \in [Procs -> Labels]
    BY <1>9 DEF GoroutineTypes, Labels, DataCheck
  <2>3. loc' \in [Procs -> Locals]
    <3>1. loc[g] \in Locals /\ records[loc[g].key] \in Ptrs \cup {Nil}
      BY <1>9 DEF HeapTypes, GoroutineTypes, KeysKnown, DataCheck
    <3>2. [loc[g] EXCEPT !.rec = records[loc[g].key]] \in Locals
      BY <3>1 DEF Locals
    <3>3. loc' = [loc EXCEPT ![g] = [loc[g] EXCEPT !.rec = records[loc[g].key]]]
      BY <1>9 DEF DataCheck
    <3> QED BY <3>2, <3>3 DEF GoroutineTypes
  <2>4. KeysKnown'
    BY <1>9 DEF GoroutineTypes, KeysKnown, Locals, NoLocals, DataCheck
  <2> QED BY <1>9, <2>1, <2>2, <2>3, <2>4 DEF GoroutineTypes, DataCheck
<1>10. CASE DataAdd(g)
  <2>1. HeapTypes'
    <3>1. units' \in [Ptrs -> Nat]
      <4> HIDE DEF Ptrs
      <4>1. ASSUME NEW p \in Ptrs PROVE units[p] \in Nat /\ units[p] + 1 \in Nat
        BY DEF HeapTypes
      <4>2. units' = [p \in Ptrs |-> IF p = loc[g].rec THEN units[p] + 1 ELSE units[p]]
        BY <1>10 DEF HeapTypes, DataAdd, Unlocks
      <4> QED BY <4>1, <4>2
    <3>2. owner' \in [Ptrs -> Procs \cup {Nil}]
      BY <1>10 DEF HeapTypes, DataAdd, Unlocks
    <3>3. loc[g].new \in Ptrs \cup {Nil}
      BY DEF GoroutineTypes, Locals
    <3>4. records' \in [Keys -> Ptrs \cup {Nil}]
      BY <1>10, <3>3 DEF HeapTypes, DataAdd, Unlocks
    <3> QED BY <1>10, <3>1, <3>2, <3>4 DEF HeapTypes, DataAdd, Unlocks
  <2>2. pc' \in [Procs -> Labels]
    BY <1>10 DEF GoroutineTypes, Labels, DataAdd, Unlocks
  <2>3. loc' \in [Procs -> Locals]
    BY <1>10 DEF HeapTypes, GoroutineTypes, KeysKnown, Locals, NoLocals, DataAdd, Unlocks
  <2>4. KeysKnown'
    BY <1>10 DEF GoroutineTypes, KeysKnown, Locals, NoLocals, DataAdd, Unlocks
  <2> QED BY <1>10, <2>1, <2>2, <2>3, <2>4 DEF GoroutineTypes, DataAdd, Unlocks
<1> QED BY <1>1, <1>2, <1>3, <1>4, <1>5, <1>6, <1>7, <1>8, <1>9, <1>10 DEF Recording

\* A step of the export keeps the types of the records.
LEMMA ExportingTypes ==
    ASSUME HeapTypes, GoroutineTypes, KeysKnown, Exporting
    PROVE  HeapTypes' /\ GoroutineTypes' /\ KeysKnown' /\ alive' = alive
<1> USE UsageAssumption DEF Procs, Ptrs, Goto, mapVars, exportVars
<1>1. CASE StartExport
  <2>1. HeapTypes'
    BY <1>1 DEF HeapTypes, GoroutineTypes, Locals, KeysKnown, StartExport
  <2>2. pc' \in [Procs -> Labels]
    BY <1>1 DEF GoroutineTypes, Labels, StartExport
  <2>3. loc' \in [Procs -> Locals]
    BY <1>1 DEF HeapTypes, GoroutineTypes, KeysKnown, Locals, NoLocals, StartExport
  <2>4. KeysKnown'
    BY <1>1 DEF GoroutineTypes, KeysKnown, Locals, NoLocals, StartExport
  <2> QED BY <1>1, <2>1, <2>2, <2>3, <2>4 DEF GoroutineTypes, StartExport
<1>2. ASSUME NEW k \in Keys, ExportNext(k)
      PROVE  HeapTypes' /\ GoroutineTypes' /\ KeysKnown' /\ alive' = alive
  <2>1. HeapTypes'
    BY <1>2 DEF HeapTypes, GoroutineTypes, Locals, KeysKnown, ExportNext, ExportPair
  <2>2. pc' \in [Procs -> Labels]
    BY <1>2 DEF GoroutineTypes, Labels, ExportNext, ExportPair
  <2>3. loc' \in [Procs -> Locals]
    <3>1. locks[k] \in Ptrs \cup {Nil}
      BY <1>2 DEF HeapTypes, ExportNext, ExportPair
    <3>2. [NoLocals EXCEPT !.key = k, !.lock = locks[k]] \in Locals
      BY <3>1 DEF Locals, NoLocals
    <3> QED BY <1>2, <3>2 DEF GoroutineTypes, ExportNext, ExportPair
  <2>4. KeysKnown'
    BY <1>2 DEF GoroutineTypes, KeysKnown, Locals, NoLocals, ExportNext, ExportPair
  <2> QED BY <1>2, <2>1, <2>2, <2>3, <2>4 DEF GoroutineTypes, ExportNext, ExportPair
<1>3. CASE ExportLock
  <2>1. HeapTypes'
    BY <1>3 DEF HeapTypes, GoroutineTypes, Locals, KeysKnown, ExportLock
  <2>2. pc' \in [Procs -> Labels]
    BY <1>3 DEF GoroutineTypes, Labels, ExportLock
  <2>3. loc' \in [Procs -> Locals]
    BY <1>3 DEF HeapTypes, GoroutineTypes, KeysKnown, Locals, NoLocals, ExportLock
  <2>4. KeysKnown'
    BY <1>3 DEF GoroutineTypes, KeysKnown, Locals, NoLocals, ExportLock
  <2> QED BY <1>3, <2>1, <2>2, <2>3, <2>4 DEF GoroutineTypes, ExportLock
<1>4. CASE ExportClone
  <2>1. HeapTypes'
    BY <1>4 DEF HeapTypes, GoroutineTypes, Locals, KeysKnown, ExportClone
  <2>2. pc' \in [Procs -> Labels]
    BY <1>4 DEF GoroutineTypes, Labels, ExportClone
  <2>3. loc' \in [Procs -> Locals]
    BY <1>4 DEF HeapTypes, GoroutineTypes, KeysKnown, Locals, NoLocals, ExportClone
  <2>4. KeysKnown'
    BY <1>4 DEF GoroutineTypes, KeysKnown, Locals, NoLocals, ExportClone
  <2> QED BY <1>4, <2>1, <2>2, <2>3, <2>4 DEF GoroutineTypes, ExportClone
<1>5. CASE ExportDelete
  <2>1. HeapTypes'
    BY <1>5 DEF HeapTypes, GoroutineTypes, Locals, KeysKnown, ExportDelete
  <2>2. pc' \in [Procs -> Labels]
    BY <1>5 DEF GoroutineTypes, Labels, ExportDelete
  <2>3. loc' \in [Procs -> Locals]
    BY <1>5 DEF HeapTypes, GoroutineTypes, KeysKnown, Locals, NoLocals, ExportDelete
  <2>4. KeysKnown'
    BY <1>5 DEF GoroutineTypes, KeysKnown, Locals, NoLocals, ExportDelete
  <2> QED BY <1>5, <2>1, <2>2, <2>3, <2>4 DEF GoroutineTypes, ExportDelete
<1>6. CASE ExportDeleteLock
  <2>1. HeapTypes'
    BY <1>6 DEF HeapTypes, GoroutineTypes, Locals, KeysKnown, ExportDeleteLock
  <2>2. pc' \in [Procs -> Labels]
    BY <1>6 DEF GoroutineTypes, Labels, ExportDeleteLock
  <2>3. loc' \in [Procs -> Locals]
    BY <1>6 DEF HeapTypes, GoroutineTypes, KeysKnown, Locals, NoLocals, ExportDeleteLock
  <2>4. KeysKnown'
    BY <1>6 DEF GoroutineTypes, KeysKnown, Locals, NoLocals, ExportDeleteLock
  <2> QED BY <1>6, <2>1, <2>2, <2>3, <2>4 DEF GoroutineTypes, ExportDeleteLock
<1>7. CASE ExportDone
  <2>1. HeapTypes'
    BY <1>7 DEF HeapTypes, GoroutineTypes, Locals, KeysKnown, ExportDone
  <2>2. pc' \in [Procs -> Labels]
    BY <1>7 DEF GoroutineTypes, Labels, ExportDone
  <2>3. loc' \in [Procs -> Locals]
    BY <1>7 DEF HeapTypes, GoroutineTypes, KeysKnown, Locals, NoLocals, ExportDone
  <2>4. KeysKnown'
    BY <1>7 DEF GoroutineTypes, KeysKnown, Locals, NoLocals, ExportDone
  <2> QED BY <1>7, <2>1, <2>2, <2>3, <2>4 DEF GoroutineTypes, ExportDone
<1> QED BY <1>1, <1>2, <1>3, <1>4, <1>5, <1>6, <1>7 DEF Exporting

\* A gateway that ends leaves nothing behind.
LEMMA CrashTypes ==
    ASSUME HeapTypes, Crash
    PROVE  HeapTypes' /\ GoroutineTypes' /\ KeysKnown' /\ alive' = FALSE
BY UsageAssumption DEF HeapTypes, GoroutineTypes, KeysKnown, Labels, Procs, Ptrs, Locals,
                       NoLocals, Crash

-------------------------------------------------------------------------------
(* Pointers                                                                *)

\* A step of a recorder keeps the records apart.
LEMMA RecordingPointers ==
    ASSUME HeapTypes, GoroutineTypes, KeysKnown, PointersApart,
           NEW g \in Recorders, Recording(g)
    PROVE  PointersApart'
<1> USE UsageAssumption DEF Goto, mapVars, exportVars, PointersApart, Early
<1>0. /\ pc \in [Procs -> Labels]
      /\ loc \in [Procs -> Locals]
      /\ Recorders \subseteq Procs
      /\ next \in Nat
  BY DEF GoroutineTypes, HeapTypes, Procs
<1>1. ASSUME NEW k \in Keys, Request(g, k) PROVE PointersApart'
  <2>1. next' = next + 1 /\ records' = records
    BY <1>1 DEF Request
  <2>2. /\ loc'[g].new = next + 1
        /\ pc'[g] = "check"
        /\ \A h \in Recorders \ {g} : loc'[h] = loc[h] /\ pc'[h] = pc[h]
    BY <1>0, <1>1 DEF Request, NoLocals
  <2>3. \A j \in Keys : records[j] # Nil => records[j] \in Nat /\ records[j] <= next
    BY DEF HeapTypes, Ptrs
  <2>4. \A h \in Recorders : Early(h) => loc[h].new \in 1..next
    OBVIOUS
  <2>5. \A h \in Recorders : Early(h)' => loc'[h].new \in 1..(next + 1)
    BY <1>0, <2>2, <2>4
  <2>6. \A h \in Recorders \ {g} : Early(h)' => Early(h) /\ loc'[h].new # next + 1
    BY <1>0, <2>2, <2>4
  <2>7. \A j \in Keys : records[j] # next + 1
    BY <1>0, <2>3
  <2>8. \A h \in Recorders : Early(h)' => \A j \in Keys : records[j] # loc'[h].new
    BY <2>2, <2>6, <2>7
  <2>9. \A h, i \in Recorders : Early(h)' /\ Early(i)' /\ loc'[h].new = loc'[i].new => h = i
    BY <2>2, <2>6
  <2>10. \A j \in Keys : records[j] # Nil => records[j] <= next + 1
    BY <1>0, <2>3
  <2> QED BY <2>1, <2>5, <2>8, <2>9, <2>10
<1>2. CASE Store(g)
  <2>1. next' = next /\ loc' = loc /\ records' = [records EXCEPT ![loc[g].key] = loc[g].new]
    BY <1>2 DEF Store
  <2>2. \A h \in Recorders : Early(h)' => Early(h) /\ h # g
    BY <1>0, <1>2 DEF Store
  <2>3. Early(g) /\ loc[g].new \in 1..next
    BY <1>2 DEF Store
  <2>4. \A j \in Keys : \/ records'[j] = records[j]
                        \/ j = loc[g].key /\ records'[j] = loc[g].new
    BY <2>1 DEF HeapTypes
  <2>5. \A j, k \in Keys : records'[j] = records'[k] => j = k \/ records'[j] = Nil
    BY <2>3, <2>4
  <2>6. \A k \in Keys : records'[k] # Nil => records'[k] <= next
    BY <1>0, <2>3, <2>4
  <2>7. ASSUME NEW h \in Recorders, Early(h)'
        PROVE  \A k \in Keys : records'[k] # loc[h].new
    BY <2>2, <2>3, <2>4, <2>7
  <2> QED BY <2>1, <2>2, <2>5, <2>6, <2>7
<1>3. CASE Check(g) \/ NewLock(g) \/ FetchLock(g) \/ Acquire(g) \/ FetchUnlock(g) \/ Add(g)
             \/ DataCheck(g) \/ DataAdd(g)
  <2>1. next' = next /\ records' = records
    BY <1>3 DEF Check, NewLock, FetchLock, Acquire, FetchUnlock, Add, DataCheck, DataAdd
  <2>2. \A h \in Recorders : Early(h)' => Early(h)
    BY <1>0, <1>3 DEF Check, NewLock, FetchLock, Acquire, FetchUnlock, Add, DataCheck, DataAdd, Data
  <2>3. \A h \in Recorders : Early(h)' => loc'[h].new = loc[h].new
    BY <1>0, <1>3 DEF Check, NewLock, FetchLock, Acquire, FetchUnlock, Add, DataCheck, DataAdd, Data,
                      Locals
  <2> QED BY <2>1, <2>2, <2>3
<1> QED BY <1>1, <1>2, <1>3 DEF Recording

\* A step of the export keeps the records apart: it only deletes.
LEMMA ExportingPointers ==
    ASSUME HeapTypes, GoroutineTypes, PointersApart, Exporting
    PROVE  PointersApart'
<1>1. next' = next
  BY DEF Exporting, StartExport, ExportNext, ExportPair, ExportLock, ExportClone, ExportDelete,
         ExportDeleteLock, ExportDone
<1>2. \A k \in Keys : records'[k] = records[k] \/ records'[k] = Nil
  BY DEF Exporting, StartExport, ExportNext, ExportPair, ExportLock, ExportClone, ExportDelete,
         ExportDeleteLock, ExportDone, HeapTypes, mapVars
<1>3. \A g \in Recorders : pc'[g] = pc[g] /\ loc'[g] = loc[g]
  BY UsageAssumption
     DEF Exporting, StartExport, ExportNext, ExportPair, ExportLock, ExportClone, ExportDelete,
         ExportDeleteLock, ExportDone, Goto, GoroutineTypes, Procs
<1>4. \A g \in Recorders : Early(g) => loc[g].new # Nil
  BY UsageAssumption DEF PointersApart, HeapTypes
<1> QED BY <1>1, <1>2, <1>3, <1>4 DEF PointersApart, Early

\* After the end of the gateway there are no records.
LEMMA CrashPointers ==
    ASSUME Crash
    PROVE  PointersApart'
BY DEF PointersApart, Early, Crash, Procs

-------------------------------------------------------------------------------
(* What a step does to the usage that is held and reported                 *)

\* Usage that is held or reported is a number.
LEMMA HeldTypes ==
    ASSUME HeapTypes
    PROVE  /\ \A k \in Keys : InRecord[k] \in Nat
           /\ IsFiniteSet(Keys \ Copied)
           /\ Held \in Nat
           /\ Reported \in Nat
           /\ report \in Nat /\ recorded \in Nat
<1>1. ASSUME NEW k \in Keys PROVE InRecord[k] \in Nat
  BY DEF HeapTypes, InRecord
<1>2. IsFiniteSet(Keys \ Copied)
  BY UsageAssumption, FS_Difference
<1>3. Held \in Nat
  BY <1>1, <1>2, TotalIsNat DEF Held
<1> QED BY <1>1, <1>2, <1>3 DEF Reported, HeapTypes

\* One record that grows by n adds at most n to what is held.
LEMMA HeldGrows ==
    ASSUME HeapTypes, HeapTypes', NEW n \in Nat, NEW x, Copied' = Copied,
           \A k \in Keys \ {x} : InRecord'[k] = InRecord[k],
           x \in Keys => InRecord'[x] <= InRecord[x] + n
    PROVE  Held' <= Held + n
<1> DEFINE S == Keys \ Copied
<1>1. /\ \A k \in Keys : InRecord[k] \in Nat
      /\ IsFiniteSet(S)
  BY HeldTypes
<1>2. \A k \in Keys : InRecord'[k] \in Nat
  BY DEF HeapTypes, InRecord
<1>3. Held = Total(InRecord, S) /\ Held' = Total(InRecord', S)
  BY DEF Held
<1>4. Total(InRecord', S) <= Total(InRecord, S) + n
  <2>1. \A k \in S : InRecord[k] \in Nat /\ InRecord'[k] \in Nat
    BY <1>1, <1>2
  <2>2. \A k \in S \ {x} : InRecord'[k] = InRecord[k]
    OBVIOUS
  <2>3. x \in S => InRecord'[x] <= InRecord[x] + n
    OBVIOUS
  <2> HIDE DEF S
  <2> QED BY <1>1, <2>1, <2>2, <2>3, TotalGrows
<1> QED BY <1>3, <1>4

\* A recorder adds to what is held no more than it records.
LEMMA RecordingBills ==
    ASSUME HeapTypes, HeapTypes', GoroutineTypes, KeysKnown, PointersApart,
           NEW g \in Recorders, Recording(g)
    PROVE  /\ recorded' - recorded \in Nat
           /\ Held' <= Held + (recorded' - recorded)
           /\ Reported' = Reported
           /\ pc'[Exporter] = pc[Exporter]
<1> USE DEF Goto, mapVars, exportVars
<1>1. /\ pc'[Exporter] = pc[Exporter]
      /\ loc'[Exporter] = loc[Exporter]
      /\ report' = report
  BY UsageAssumption
     DEF Recording, Request, Check, NewLock, FetchLock, Acquire, FetchUnlock, Store, Add, DataCheck,
         DataAdd, Procs, GoroutineTypes
<1>2. Copied' = Copied /\ Reported' = Reported
  BY <1>1 DEF Copied, Reported
<1>3. recorded \in Nat
  BY DEF HeapTypes
<1>4. CASE Store(g)
  <2>1. Early(g) /\ loc[g].key \in Keys
    BY <1>4 DEF Store, Early, KeysKnown
  <2>2. \A k \in Keys : records[k] # loc[g].new
    BY <2>1 DEF PointersApart
  <2>3. loc[g].new \in Ptrs
    <3>1. loc[g].new \in 1..next /\ next \in 0..MaxRequests /\ MaxRequests \in Nat
      BY <2>1, UsageAssumption DEF PointersApart, HeapTypes
    <3> QED BY <3>1 DEF Ptrs
  <2>4. /\ records' = [records EXCEPT ![loc[g].key] = loc[g].new]
        /\ units' = [units EXCEPT ![loc[g].new] = 1]
        /\ recorded' = recorded + 1
    BY <1>4 DEF Store
  <2>5. \A k \in Keys \ {loc[g].key} : InRecord'[k] = InRecord[k]
    BY <2>2, <2>3, <2>4 DEF InRecord, HeapTypes
  <2>6. InRecord'[loc[g].key] <= 1
    BY <2>1, <2>3, <2>4 DEF InRecord, HeapTypes
  <2>7. InRecord[loc[g].key] \in Nat /\ InRecord'[loc[g].key] \in Nat
    BY <2>1 DEF InRecord, HeapTypes
  <2>8. InRecord'[loc[g].key] <= InRecord[loc[g].key] + 1
    BY <2>6, <2>7
  <2>9. Held' <= Held + 1
    BY <1>2, <2>5, <2>8, HeldGrows
  <2> QED BY <1>1, <1>2, <1>3, <2>4, <2>9
<1>5. CASE Add(g) \/ DataAdd(g)
  <2> DEFINE p == loc[g].rec
  <2>1. /\ records' = records
        /\ units' = [units EXCEPT ![p] = units[p] + 1]
        /\ recorded' = recorded + 1
    BY <1>5 DEF Add, DataAdd
  <2>2. ASSUME NEW k \in Keys
        PROVE  /\ records[k] # p => InRecord'[k] = InRecord[k]
               /\ InRecord'[k] <= InRecord[k] + 1
    BY <2>1 DEF InRecord, HeapTypes
  <2>3. Held' <= Held + 1
    <3>1. CASE \E x \in Keys : records[x] = p /\ p # Nil
      <4>1. PICK x \in Keys : records[x] = p /\ p # Nil
        BY <3>1
      <4>2. \A k \in Keys \ {x} : records[k] # p
        BY <4>1 DEF PointersApart
      <4> QED BY <1>2, <2>2, <4>2, HeldGrows
    <3>2. CASE ~ \E x \in Keys : records[x] = p /\ p # Nil
      <4>1. \A k \in Keys : InRecord'[k] = InRecord[k]
        BY <2>1, <2>2, <3>2 DEF InRecord
      <4> QED BY <1>2, <2>2, <4>1, HeldGrows
    <3> QED BY <3>1, <3>2
  <2> QED BY <1>1, <1>2, <1>3, <2>1, <2>3
<1>6. CASE (\E k \in Keys : Request(g, k)) \/ Check(g) \/ NewLock(g) \/ FetchLock(g) \/ Acquire(g)
             \/ FetchUnlock(g) \/ DataCheck(g)
  <2>1. records' = records /\ units' = units /\ recorded' = recorded
    BY <1>6 DEF Request, Check, NewLock, FetchLock, Acquire, FetchUnlock, DataCheck
  <2>2. InRecord' = InRecord
    BY <2>1 DEF InRecord
  <2>3. Held' = Held
    BY <1>2, <2>2 DEF Held
  <2> QED BY <1>1, <1>2, <1>3, <2>1, <2>3, HeldTypes
<1> QED BY <1>4, <1>5, <1>6 DEF Recording

\* The export moves usage from the records to the report and adds none.
LEMMA ExportingBills ==
    ASSUME HeapTypes, HeapTypes', GoroutineTypes, KeysKnown, Exporting
    PROVE  /\ recorded' = recorded
           /\ Held' + Reported' <= Held + Reported
           /\ pc'[Exporter] \notin {"write", "answer"}
<1> USE DEF Goto, mapVars, exportVars
<1>1. Exporter \in Procs /\ pc \in [Procs -> Labels] /\ loc \in [Procs -> Locals]
  BY DEF Procs, GoroutineTypes
<1>2. /\ \A k \in Keys : InRecord[k] \in Nat
      /\ Held \in Nat
      /\ report \in Nat
  BY HeldTypes
<1>3. pc[Exporter] # "answer" /\ pc'[Exporter] \notin {"write", "answer"} /\ recorded' = recorded
  BY <1>1 DEF Exporting, StartExport, ExportNext, ExportPair, ExportLock, ExportClone, ExportDelete,
              ExportDeleteLock, ExportDone
<1>4. Reported' = report' /\ Reported = report
  BY <1>3 DEF Reported
<1>5. CASE ExportClone
  <2> DEFINE x == loc[Exporter].key
  <2>1. x \in Keys /\ records[x] # Nil
    BY <1>5 DEF ExportClone, KeysKnown
  <2>2. /\ records' = records /\ units' = units /\ loc' = loc
        /\ pc[Exporter] = "clone" /\ pc'[Exporter] = "delete"
        /\ report' = report + units[records[x]]
    BY <1>1, <1>5 DEF ExportClone
  <2>3. Copied = {} /\ Copied' = {x}
    BY <2>2 DEF Copied
  <2>4. InRecord' = InRecord /\ InRecord[x] = units[records[x]]
    BY <2>1, <2>2 DEF InRecord
  <2>5. Keys \ {} = Keys
    OBVIOUS
  <2>6. Held = Total(InRecord, Keys)
    BY <2>3, <2>5 DEF Held
  <2>7. Held' = Total(InRecord, Keys \ {x})
    BY <2>3, <2>4 DEF Held
  <2>8. /\ Total(InRecord, Keys \ {x}) \in Nat
        /\ Total(InRecord, Keys) = InRecord[x] + Total(InRecord, Keys \ {x})
    <3> HIDE DEF x
    <3> QED BY <1>2, <2>1, UsageAssumption, TotalSplits
  <2>9. InRecord[x] \in Nat
    BY <1>2, <2>1
  <2> HIDE DEF x
  <2> QED BY <1>2, <1>3, <1>4, <2>2, <2>4, <2>6, <2>7, <2>8, <2>9
<1>6. CASE ExportDelete
  <2> DEFINE x == loc[Exporter].key
  <2>1. x \in Keys
    BY <1>6 DEF ExportDelete, KeysKnown
  <2>2. /\ records' = [records EXCEPT ![x] = Nil] /\ units' = units
        /\ pc[Exporter] = "delete" /\ pc'[Exporter] = "deleteLock"
        /\ report' = report
    BY <1>1, <1>6 DEF ExportDelete
  <2>3. Copied = {x} /\ Copied' = {}
    BY <2>2 DEF Copied
  <2>4. InRecord'[x] = 0 /\ \A k \in Keys \ {x} : InRecord'[k] = InRecord[k]
    BY <2>1, <2>2 DEF InRecord, HeapTypes
  <2>5. \A k \in Keys : InRecord'[k] \in Nat
    BY DEF InRecord, HeapTypes
  <2>6. Held' = Total(InRecord', Keys)
    <3>1. Keys \ {} = Keys
      OBVIOUS
    <3> QED BY <2>3, <3>1 DEF Held
  <2>7. Total(InRecord', Keys) = InRecord'[x] + Total(InRecord', Keys \ {x})
        /\ Total(InRecord', Keys \ {x}) \in Nat
    <3> HIDE DEF x
    <3> QED BY <2>1, <2>5, UsageAssumption, TotalSplits
  <2>8. Total(InRecord', Keys \ {x}) = Total(InRecord, Keys \ {x})
    BY <2>4, TotalIsLocal
  <2>9. Held = Total(InRecord, Keys \ {x})
    BY <2>3 DEF Held
  <2> HIDE DEF x
  <2>10. Held' = Held
    BY <1>2, <2>4, <2>6, <2>7, <2>8, <2>9
  <2> QED BY <1>2, <1>3, <1>4, <2>2, <2>10
<1>7. CASE StartExport \/ (\E k \in Keys : ExportNext(k)) \/ ExportLock \/ ExportDeleteLock
             \/ ExportDone
  <2>1. records' = records /\ units' = units /\ report' = report
    BY <1>7 DEF StartExport, ExportNext, ExportPair, ExportLock, ExportDeleteLock, ExportDone
  <2>2. pc[Exporter] # "delete" /\ pc'[Exporter] # "delete"
    BY <1>1, <1>7 DEF StartExport, ExportNext, ExportPair, ExportLock, ExportDeleteLock, ExportDone
  <2>3. Copied' = Copied /\ InRecord' = InRecord
    BY <2>1, <2>2 DEF Copied, InRecord
  <2>4. Held' = Held
    BY <2>3 DEF Held
  <2> QED BY <1>2, <1>3, <1>4, <2>1, <2>4
<1> QED BY <1>5, <1>6, <1>7 DEF Exporting

\* Nothing is held or reported after the end of a gateway.
LEMMA CrashBills ==
    ASSUME Crash
    PROVE  Held' = 0 /\ Reported' = 0 /\ recorded' = recorded /\ pc'[Exporter] = "idle"
<1>1. \A k \in Keys : InRecord'[k] = 0
  BY DEF Crash, InRecord
<1>2. Units(InRecord', (Keys \ Copied)') = {}
  BY <1>1 DEF Units
<1>3. Held' = 0
  BY <1>2, FS_EmptySet DEF Held, Total
<1>4. pc'[Exporter] = "idle" /\ report' = 0
  BY DEF Crash, Procs
<1> QED BY <1>3, <1>4 DEF Reported, Crash

-------------------------------------------------------------------------------
(* Files                                                                   *)

Content == Nat \cup {Torn}

\* Usage in files is a number.
LEMMA FilesTypes ==
    ASSUME NEW q \in Seq(Content), NEW W \in SUBSET (1..Len(q))
    PROVE  /\ \A i \in 1..Len(q) : Contents(q)[i] = UsageIn(q[i]) /\ Contents(q)[i] \in Nat
           /\ IsFiniteSet(W) /\ IsFiniteSet(1..Len(q))
           /\ Total(Contents(q), W) \in Nat
<1>1. ASSUME NEW i \in 1..Len(q)
      PROVE  Contents(q)[i] = UsageIn(q[i]) /\ Contents(q)[i] \in Nat
  <2>1. q[i] \in Content
    BY ElementOfSeq
  <2> QED BY <2>1 DEF Contents, UsageIn, Content
<1>2. IsFiniteSet(1..Len(q))
  BY LenProperties, FS_Interval
<1>3. IsFiniteSet(W)
  BY <1>2, FS_Subset
<1>4. \A i \in W : Contents(q)[i] \in Nat
  BY <1>1
<1>5. Total(Contents(q), W) \in Nat
  BY <1>3, <1>4, TotalIsNat
<1> QED BY <1>1, <1>2, <1>3, <1>5

\* A new file adds what is in it.
LEMMA AppendedFile ==
    ASSUME NEW q \in Seq(Content), NEW c \in Content
    PROVE  /\ Append(q, c) \in Seq(Content)
           /\ Total(Contents(Append(q, c)), 1..Len(Append(q, c)))
                = Total(Contents(q), 1..Len(q)) + UsageIn(c)
           /\ \A W \in SUBSET (1..Len(q)) :
                Total(Contents(Append(q, c)), W) = Total(Contents(q), W)
<1> DEFINE r == Append(q, c)
           n == Len(q)
<1>1. /\ r \in Seq(Content) /\ Len(r) = n + 1 /\ r[n + 1] = c
      /\ \A i \in 1..n : r[i] = q[i]
      /\ n \in Nat
  BY AppendProperties, LenProperties
<1> HIDE DEF r, n
<1>2. /\ \A i \in 1..n : Contents(q)[i] = UsageIn(q[i])
      /\ IsFiniteSet(1..n) /\ Total(Contents(q), 1..n) \in Nat
  BY FilesTypes DEF n
<1>3. /\ \A i \in 1..(n + 1) : Contents(r)[i] = UsageIn(r[i]) /\ Contents(r)[i] \in Nat
      /\ IsFiniteSet(1..(n + 1))
  BY <1>1, FilesTypes
<1>4. ASSUME NEW W \in SUBSET (1..n)
      PROVE  Total(Contents(r), W) = Total(Contents(q), W)
  <2>1. \A i \in W : i \in 1..n /\ i \in 1..(n + 1)
    BY <1>1
  <2>2. \A i \in W : Contents(r)[i] = Contents(q)[i]
    BY <1>1, <1>2, <1>3, <2>1
  <2> QED BY <2>2, TotalIsLocal
<1>5. n + 1 \in 1..(n + 1) /\ (1..(n + 1)) \ {n + 1} = 1..n
  BY <1>1
<1>6. Total(Contents(r), 1..(n + 1)) = Contents(r)[n + 1] + Total(Contents(r), (1..(n + 1)) \ {n + 1})
  BY <1>3, <1>5, TotalSplits
<1>7. Contents(r)[n + 1] = UsageIn(c) /\ Contents(r)[n + 1] \in Nat
  BY <1>1, <1>3, <1>5
<1>8. Total(Contents(r), (1..(n + 1)) \ {n + 1}) = Total(Contents(q), 1..n)
  BY <1>4, <1>5
<1>9. Total(Contents(r), 1..(n + 1)) = Total(Contents(q), 1..n) + UsageIn(c)
  BY <1>2, <1>6, <1>7, <1>8
<1> QED BY <1>1, <1>4, <1>9 DEF r, n

\* What is written to the last file, which was empty, is added to every total
\* the file is in.
LEMMA WrittenFile ==
    ASSUME NEW q \in Seq(Content), NEW c \in Content, q # <<>>, q[Len(q)] = 0,
           NEW W \in SUBSET (1..Len(q))
    PROVE  /\ [q EXCEPT ![Len(q)] = c] \in Seq(Content)
           /\ Len([q EXCEPT ![Len(q)] = c]) = Len(q)
           /\ Total(Contents([q EXCEPT ![Len(q)] = c]), W)
                = Total(Contents(q), W) + (IF Len(q) \in W THEN UsageIn(c) ELSE 0)
<1> DEFINE n == Len(q)
           r == [q EXCEPT ![n] = c]
<1>1. n \in 1..Len(q)
  BY EmptySeq, LenProperties
<1>2. r \in Seq(Content) /\ Len(r) = n /\ \A i \in 1..n : r[i] = IF i = n THEN c ELSE q[i]
  BY <1>1, ExceptSeq
<1>3. /\ \A i \in 1..n : Contents(q)[i] = UsageIn(q[i]) /\ Contents(q)[i] \in Nat
      /\ IsFiniteSet(W) /\ Total(Contents(q), W) \in Nat
  BY FilesTypes
<1> HIDE DEF r
<1>4. \A i \in 1..n : Contents(r)[i] = UsageIn(r[i]) /\ Contents(r)[i] \in Nat
  BY <1>2, FilesTypes
<1>5. Torn # 0
  BY ReportsAssumption
<1>6. Contents(q)[n] = 0 /\ Contents(r)[n] = UsageIn(c) /\ Contents(r)[n] \in Nat
  BY <1>1, <1>2, <1>3, <1>4, <1>5 DEF UsageIn
<1>7. \A i \in W \ {n} : Contents(r)[i] = Contents(q)[i]
  BY <1>2, <1>3, <1>4
<1> HIDE DEF n
<1>8. CASE n \in W
  <2>1. /\ Total(Contents(q), W) = Contents(q)[n] + Total(Contents(q), W \ {n})
        /\ Total(Contents(q), W \ {n}) \in Nat
    BY <1>3, <1>8, TotalSplits DEF n
  <2>2. Total(Contents(r), W) = Contents(r)[n] + Total(Contents(r), W \ {n})
    BY <1>3, <1>4, <1>8, TotalSplits DEF n
  <2>3. Total(Contents(r), W \ {n}) = Total(Contents(q), W \ {n})
    BY <1>7, TotalIsLocal
  <2>4. Total(Contents(r), W) = Total(Contents(q), W) + UsageIn(c)
    BY <1>6, <2>1, <2>2, <2>3
  <2> QED BY <1>2, <1>8, <2>4 DEF n, r
<1>9. CASE n \notin W
  <2>1. \A i \in W : Contents(r)[i] = Contents(q)[i]
    BY <1>7, <1>9
  <2>2. Total(Contents(r), W) = Total(Contents(q), W)
    BY <2>1, TotalIsLocal
  <2> QED BY <1>2, <1>3, <1>9, <2>2 DEF n, r
<1> QED BY <1>8, <1>9

\* A report that was cut short has no more usage than the report.
LEMMA CutUsage ==
    ASSUME NEW u \in Nat, NEW c \in Cut(u)
    PROVE  c \in Content /\ UsageIn(c) \in Nat /\ UsageIn(c) <= u
BY DEF Cut, Content, UsageIn

-------------------------------------------------------------------------------
(* The invariant is inductive                                              *)

PinTypes ==
    /\ agent \in Agents
    /\ stored \in Seq(Content)
    /\ pinned \in Nat
    /\ starts \in 1..MaxStarts
GenTypes ==
    /\ gen \in {"off", "walking", "done", "failed"}
    /\ walk \in SUBSET (1..Len(stored))
    /\ due \in Nat
    /\ listed \in Nat

LEMMA AllTypes ==
    TypeOK <=> HeapTypes /\ GoroutineTypes /\ alive \in BOOLEAN /\ PinTypes /\ GenTypes
<1>1. TypeOK <=> RecordsTypeOK /\ PinTypes /\ GenTypes
  BY DEF TypeOK, PinTypes, GenTypes, Content
<1> QED BY <1>1, TypeParts

LEMMA AllTypesNext ==
    TypeOK' <=> HeapTypes' /\ GoroutineTypes' /\ (alive \in BOOLEAN)' /\ PinTypes' /\ GenTypes'
BY AllTypes, PTL

\* What there is to count.
Counts ==
    /\ Stored \in Nat /\ Held \in Nat /\ Reported \in Nat
    /\ Total(Contents(stored), walk) \in Nat
    /\ due \in Nat /\ listed \in Nat /\ pinned \in Nat
    /\ report \in Nat /\ recorded \in Nat

LEMMA Numbers == HeapTypes /\ PinTypes /\ GenTypes => Counts
<1> SUFFICES ASSUME HeapTypes, PinTypes, GenTypes PROVE Counts
  OBVIOUS
<1>1. Held \in Nat /\ Reported \in Nat /\ report \in Nat /\ recorded \in Nat
  BY HeldTypes
<1>2. stored \in Seq(Content) /\ walk \in SUBSET (1..Len(stored))
  BY DEF PinTypes, GenTypes
<1>3. Total(Contents(stored), walk) \in Nat
  BY <1>2, FilesTypes
<1>4. Stored \in Nat
  BY <1>2, FilesTypes DEF Stored
<1> QED BY <1>1, <1>3, <1>4 DEF PinTypes, GenTypes, Counts

LEMMA NumbersNext == HeapTypes' /\ PinTypes' /\ GenTypes' => Counts'
BY Numbers, PTL

\* The files, and those who count them, when a step leaves them alone.
LEMMA FilesUnchanged ==
    ASSUME UNCHANGED <<pinVars, genVars>>, PinTypes, GenTypes, PinnedIsStored, Walking
    PROVE  PinTypes' /\ GenTypes' /\ PinnedIsStored' /\ Walking' /\ Stored' = Stored
<1>1. /\ agent' = agent /\ stored' = stored /\ pinned' = pinned /\ starts' = starts
      /\ gen' = gen /\ walk' = walk /\ due' = due /\ listed' = listed
  BY DEF pinVars, genVars
<1>2. Stored' = Stored
  BY <1>1 DEF Stored
<1> QED BY <1>1, <1>2 DEF PinTypes, GenTypes, PinnedIsStored, Walking

\* s is stored, r reported, h held and c recorded; r1, h1 and c1 are the same
\* after a step.
LEMMA MoreRecorded ==
    ASSUME NEW s \in Nat, NEW r \in Nat, NEW h \in Nat, NEW c \in Nat,
           NEW h1 \in Nat, NEW c1 \in Nat,
           s + r + h <= c, c1 - c \in Nat, h1 <= h + (c1 - c)
    PROVE  s + r + h1 <= c1
OBVIOUS

LEMMA NoMoreHeld ==
    ASSUME NEW s \in Nat, NEW r \in Nat, NEW h \in Nat, NEW c \in Nat,
           NEW r1 \in Nat, NEW h1 \in Nat,
           s + r + h <= c, h1 + r1 <= h + r
    PROVE  s + r1 + h1 <= c
OBVIOUS

\* A step of the running gateway.
LEMMA ManagerInv ==
    ASSUME UsageInv, Manager
    PROVE  UsageInv'
<1>1. /\ HeapTypes /\ GoroutineTypes /\ alive \in BOOLEAN /\ PinTypes /\ GenTypes
      /\ KeysKnown /\ PointersApart /\ AgentPhases /\ NothingBilledTwice /\ PinnedIsStored
      /\ Walking
  BY AllTypes DEF UsageInv
<1>2. /\ Stored \in Nat /\ Held \in Nat /\ Reported \in Nat /\ recorded \in Nat
      /\ Stored + Reported + Held <= recorded
  BY <1>1, Numbers DEF NothingBilledTwice, Counts
<1>3. ManagerStep /\ UNCHANGED <<pinVars, genVars>>
  BY DEF Manager
<1>4. PinTypes' /\ GenTypes' /\ PinnedIsStored' /\ Walking' /\ Stored' = Stored
  BY <1>1, <1>3, FilesUnchanged
<1>5. agent' = agent /\ stored' = stored
  BY <1>3 DEF pinVars
<1>6. ASSUME NEW g \in Recorders, Recording(g) PROVE UsageInv'
  <2>1. HeapTypes' /\ GoroutineTypes' /\ KeysKnown' /\ alive' = alive
    BY <1>1, <1>6, RecordingTypes
  <2>2. TypeOK'
    BY <1>1, <1>4, <2>1, AllTypesNext
  <2>3. PointersApart'
    BY <1>1, <1>6, RecordingPointers
  <2>4. Held' \in Nat /\ Reported' \in Nat /\ recorded' \in Nat
    BY <1>4, <2>1, NumbersNext DEF Counts
  <2>5. /\ recorded' - recorded \in Nat
        /\ Held' <= Held + (recorded' - recorded)
        /\ Reported' = Reported
        /\ pc'[Exporter] = pc[Exporter]
    BY <1>1, <1>6, <2>1, RecordingBills
  <2>6. AgentPhases'
    BY <1>1, <1>5, <2>5 DEF AgentPhases
  <2>7. Stored + Reported' + Held' <= recorded'
    BY <1>2, <2>4, <2>5, MoreRecorded, Zenon
  <2> QED BY <1>4, <2>1, <2>2, <2>3, <2>6, <2>7 DEF UsageInv, NothingBilledTwice
<1>7. CASE Exporting
  <2>1. HeapTypes' /\ GoroutineTypes' /\ KeysKnown' /\ alive' = alive
    BY <1>1, <1>7, ExportingTypes
  <2>2. TypeOK'
    BY <1>1, <1>4, <2>1, AllTypesNext
  <2>3. PointersApart'
    BY <1>1, <1>7, ExportingPointers
  <2>4. Held' \in Nat /\ Reported' \in Nat
    BY <1>4, <2>1, NumbersNext DEF Counts
  <2>5. /\ recorded' = recorded
        /\ Held' + Reported' <= Held + Reported
        /\ pc'[Exporter] \notin {"write", "answer"}
    BY <1>1, <1>7, <2>1, ExportingBills
  <2>6. AgentPhases'
    BY <2>5 DEF AgentPhases
  <2>7. Stored + Reported' + Held' <= recorded'
    BY <1>2, <2>4, <2>5, NoMoreHeld, Zenon
  <2> QED BY <1>4, <2>1, <2>2, <2>3, <2>6, <2>7 DEF UsageInv, NothingBilledTwice
<1>8. CASE Crash
  <2>1. HeapTypes' /\ GoroutineTypes' /\ KeysKnown' /\ alive' = FALSE
    BY <1>1, <1>8, CrashTypes
  <2>2. TypeOK'
    BY <1>1, <1>4, <2>1, AllTypesNext
  <2>3. PointersApart'
    BY <1>8, CrashPointers
  <2>4. Held' = 0 /\ Reported' = 0 /\ recorded' = recorded /\ pc'[Exporter] = "idle"
    BY <1>8, CrashBills
  <2>5. AgentPhases'
    BY <2>4 DEF AgentPhases
  <2>6. Stored' + Reported' + Held' <= recorded'
    BY <1>2, <1>4, <2>4
  <2> QED BY <1>4, <2>1, <2>2, <2>3, <2>5, <2>6 DEF UsageInv, NothingBilledTwice
<1> QED BY <1>3, <1>6, <1>7, <1>8, ManagerCases

\* A step of the agent in which the gateway goes on: the maps and the
\* recorders are left alone, and the export is not at a key.
LEMMA PinningSteps ==
    ASSUME HeapTypes, GoroutineTypes, KeysKnown, PointersApart,
           UNCHANGED <<mapVars, units, owner, next, loc, todo, recorded, alive>>,
           report' \in Nat,
           NEW old, pc[Exporter] = old, old # "delete",
           NEW label \in {"idle", "write", "answer"}, Goto(Exporter, label)
    PROVE  /\ HeapTypes' /\ GoroutineTypes' /\ KeysKnown' /\ PointersApart'
           /\ Held' = Held
           /\ pc'[Exporter] = label
<1>1. /\ records' = records /\ locks' = locks /\ units' = units /\ owner' = owner
      /\ next' = next /\ loc' = loc /\ todo' = todo /\ recorded' = recorded
  BY DEF mapVars
<1>2. HeapTypes'
  BY <1>1 DEF HeapTypes
<1>3. label \in Labels
  BY DEF Labels
<1>4. GoroutineTypes' /\ pc'[Exporter] = label /\ \A g \in Recorders : pc'[g] = pc[g]
  BY <1>1, <1>3, UsageAssumption DEF GoroutineTypes, Goto, Procs
<1>5. KeysKnown'
  BY <1>1, <1>4 DEF KeysKnown
<1>6. PointersApart'
  BY <1>1, <1>4 DEF PointersApart, Early
<1>7. Copied' = {} /\ Copied = {}
  BY <1>4 DEF Copied
<1>8. InRecord' = InRecord
  BY <1>1 DEF InRecord
<1>9. Held' = Held
  BY <1>7, <1>8 DEF Held
<1> QED BY <1>2, <1>4, <1>5, <1>6, <1>9

\* The agent fails, and the gateway with it.
LEMMA PinFailsInv ==
    ASSUME UsageInv, PinFails
    PROVE  UsageInv'
<1>1. /\ HeapTypes /\ GoroutineTypes /\ alive \in BOOLEAN /\ PinTypes /\ GenTypes
      /\ NothingBilledTwice /\ PinnedIsStored /\ Walking
  BY AllTypes DEF UsageInv
<1>2. Crash /\ UNCHANGED <<pinVars, genVars>>
  BY DEF PinFails
<1>3. PinTypes' /\ GenTypes' /\ PinnedIsStored' /\ Walking' /\ Stored' = Stored
  BY <1>1, <1>2, FilesUnchanged
<1>4. HeapTypes' /\ GoroutineTypes' /\ KeysKnown' /\ alive' = FALSE
  BY <1>1, <1>2, CrashTypes
<1>5. TypeOK'
  BY <1>1, <1>3, <1>4, AllTypesNext
<1>6. PointersApart'
  BY <1>2, CrashPointers
<1>7. Held' = 0 /\ Reported' = 0 /\ recorded' = recorded /\ pc'[Exporter] = "idle"
  BY <1>2, CrashBills
<1>8. AgentPhases'
  BY <1>7 DEF AgentPhases
<1>9. Stored + 0 + 0 <= recorded
  BY <1>1, Numbers DEF NothingBilledTwice, Counts
<1> QED BY <1>3, <1>4, <1>5, <1>6, <1>7, <1>8, <1>9 DEF UsageInv, NothingBilledTwice

\* A file is made, or a report arrives at Pinata.
LEMMA AppendInv ==
    ASSUME UsageInv, TempFile \/ Upload
    PROVE  UsageInv'
<1>1. /\ HeapTypes /\ GoroutineTypes /\ alive \in BOOLEAN /\ PinTypes /\ GenTypes
      /\ KeysKnown /\ PointersApart /\ NothingBilledTwice /\ PinnedIsStored /\ Walking
  BY AllTypes DEF UsageInv
<1>2. Counts
  BY <1>1, Numbers
<1>3. /\ pc[Exporter] = "pin"
      /\ UNCHANGED <<mapVars, units, owner, next, loc, todo, recorded, alive>>
      /\ report' = report /\ agent' = agent /\ pinned' = pinned /\ starts' = starts
      /\ gen' = gen /\ walk' = walk /\ due' = due /\ listed' = listed
  BY DEF TempFile, Upload, Pinning, exportVars, genVars
<1>4. /\ recorded' = recorded /\ alive' = alive
      /\ report \in Nat
  BY <1>2, <1>3 DEF Counts
<1>5. PICK label \in {"write", "answer"}, c \in Cut(report) :
        /\ Goto(Exporter, label)
        /\ stored' = Append(stored, c)
        /\ label = "write" => agent = "local" /\ c = 0
        /\ label = "answer" => agent = "pinata"
  <2>1. 0 \in Cut(report)
    BY <1>4 DEF Cut
  <2> QED BY <2>1 DEF TempFile, Upload
<1>6. c \in Content /\ UsageIn(c) \in Nat /\ UsageIn(c) <= report
  BY <1>4, CutUsage
<1>7. /\ HeapTypes' /\ GoroutineTypes' /\ KeysKnown' /\ PointersApart'
      /\ Held' = Held
      /\ pc'[Exporter] = label
  BY <1>1, <1>3, <1>4, <1>5, PinningSteps
<1>8. stored \in Seq(Content) /\ walk \in SUBSET (1..Len(stored))
  BY <1>1 DEF PinTypes, GenTypes
<1>9. /\ stored' \in Seq(Content)
      /\ Stored' = Stored + UsageIn(c)
      /\ Total(Contents(stored'), walk) = Total(Contents(stored), walk)
  BY <1>5, <1>6, <1>8, AppendedFile DEF Stored
<1>10. Len(stored') = Len(stored) + 1 /\ stored' # <<>> /\ stored'[Len(stored) + 1] = c
       /\ Len(stored) \in Nat
  BY <1>5, <1>6, <1>8, AppendProperties, LenProperties
<1>11. PinTypes'
  BY <1>1, <1>3, <1>9 DEF PinTypes
<1>12. GenTypes'
  <2>1. 1..Len(stored) \subseteq 1..(Len(stored) + 1)
    BY <1>10
  <2>2. walk \in SUBSET (1..(Len(stored) + 1))
    BY <1>8, <2>1
  <2> QED BY <1>1, <1>3, <1>10, <2>2 DEF GenTypes
<1>13. TypeOK'
  BY <1>1, <1>4, <1>7, <1>11, <1>12, AllTypesNext
<1>14. AgentPhases'
  <2>1. pc'[Exporter] = "write" => agent' = "local" /\ stored' # <<>> /\ stored'[Len(stored')] = 0
    BY <1>3, <1>5, <1>7, <1>10
  <2> QED BY <1>3, <1>5, <1>7, <2>1 DEF AgentPhases
<1>15. Reported = report /\ (label = "write" => Reported' = report) /\ (label = "answer" => Reported' = 0)
  BY <1>3, <1>7 DEF Reported
<1>16. NothingBilledTwice'
  <2>1. Stored + report + Held <= recorded
    BY <1>1, <1>15 DEF NothingBilledTwice
  <2>2. CASE label = "write"
    <3>1. UsageIn(c) = 0
      BY <1>5, <2>2, ReportsAssumption DEF UsageIn
    <3>2. (Stored + 0) + report + Held <= recorded
      BY <1>2, <2>1 DEF Counts
    <3> QED BY <1>4, <1>7, <1>9, <1>15, <2>2, <3>1, <3>2 DEF NothingBilledTwice
  <2>3. CASE label = "answer"
    <3>1. (Stored + UsageIn(c)) + 0 + Held <= recorded
      BY <1>2, <1>6, <2>1 DEF Counts
    <3> QED BY <1>4, <1>7, <1>9, <1>15, <2>3, <3>1 DEF NothingBilledTwice
  <2> QED BY <2>2, <2>3
<1>17. PinnedIsStored'
  <2>1. agent = "local" => pinned <= Stored + UsageIn(c)
    BY <1>1, <1>2, <1>6 DEF PinnedIsStored, Counts
  <2> QED BY <1>3, <1>9, <2>1 DEF PinnedIsStored
<1>18. Walking'
  <2>1. /\ gen = "off" => listed = 0
        /\ gen = "done" => walk = {}
        /\ due <= listed + Total(Contents(stored), walk)
        /\ listed + Total(Contents(stored), walk) <= Stored + UsageIn(c)
    BY <1>1, <1>2, <1>6 DEF Walking, Counts
  <2> QED BY <1>3, <1>9, <2>1 DEF Walking
<1> QED BY <1>7, <1>13, <1>14, <1>16, <1>17, <1>18 DEF UsageInv

\* What a write of content c does to the files, and to those who count them.
LEMMA WriteFiles ==
    ASSUME HeapTypes, PinTypes, GenTypes, AgentPhases, Walking,
           pc[Exporter] = "write", NEW c \in Cut(report),
           stored' = [stored EXCEPT ![Len(stored)] = c],
           agent' = agent, starts' = starts, pinned' \in Nat, UNCHANGED genVars
    PROVE  /\ PinTypes' /\ GenTypes' /\ Walking'
           /\ UsageIn(c) \in Nat /\ UsageIn(c) <= report
           /\ Stored' = Stored + UsageIn(c)
<1>1. Counts
  BY Numbers
<1>2. c \in Content /\ UsageIn(c) \in Nat /\ UsageIn(c) <= report
  BY <1>1, CutUsage DEF Counts
<1>3. /\ stored \in Seq(Content) /\ walk \in SUBSET (1..Len(stored))
      /\ stored # <<>> /\ stored[Len(stored)] = 0
  BY DEF PinTypes, GenTypes, AgentPhases
<1>4. /\ stored' \in Seq(Content)
      /\ Len(stored') = Len(stored)
      /\ Total(Contents(stored'), walk)
           = Total(Contents(stored), walk) + (IF Len(stored) \in walk THEN UsageIn(c) ELSE 0)
  BY <1>2, <1>3, WrittenFile
<1>5. Len(stored) \in 1..Len(stored)
  BY <1>3, EmptySeq, LenProperties
<1>6. Total(Contents(stored'), 1..Len(stored)) = Total(Contents(stored), 1..Len(stored)) + UsageIn(c)
  BY <1>2, <1>3, <1>5, WrittenFile
<1>7. Stored' = Stored + UsageIn(c)
  BY <1>4, <1>6 DEF Stored
<1>8. gen' = gen /\ walk' = walk /\ due' = due /\ listed' = listed
  BY DEF genVars
<1>9. PinTypes'
  BY <1>4 DEF PinTypes
<1>10. GenTypes'
  BY <1>4, <1>8 DEF GenTypes
<1>11. Walking'
  <2> DEFINE t == Total(Contents(stored), walk)
             u == IF Len(stored) \in walk THEN UsageIn(c) ELSE 0
  <2>1. /\ gen = "off" => listed = 0
        /\ gen = "done" => walk = {}
        /\ due <= listed + t /\ listed + t <= Stored
        /\ t \in Nat /\ Stored \in Nat /\ due \in Nat /\ listed \in Nat
    BY <1>1 DEF Walking, Counts
  <2>2. u \in Nat /\ u <= UsageIn(c)
    BY <1>2
  <2>3. Total(Contents(stored'), walk) = t + u
    BY <1>4
  <2> HIDE DEF t, u
  <2>4. due <= listed + (t + u) /\ listed + (t + u) <= Stored + UsageIn(c)
    BY <1>2, <2>1, <2>2
  <2> QED BY <1>7, <1>8, <2>1, <2>3, <2>4 DEF Walking
<1> QED BY <1>2, <1>7, <1>9, <1>10, <1>11

\* PinContent of the local agent returns.
LEMMA WriteInv ==
    ASSUME UsageInv, Write
    PROVE  UsageInv'
<1>1. /\ HeapTypes /\ GoroutineTypes /\ alive \in BOOLEAN /\ PinTypes /\ GenTypes
      /\ KeysKnown /\ PointersApart /\ AgentPhases /\ NothingBilledTwice /\ PinnedIsStored
      /\ Walking
  BY AllTypes DEF UsageInv
<1>2. Counts
  BY <1>1, Numbers
<1>3. /\ pc[Exporter] = "write"
      /\ UNCHANGED <<mapVars, units, owner, next, loc, todo, recorded, alive>>
      /\ stored' = [stored EXCEPT ![Len(stored)] = report]
      /\ pinned' = pinned + report /\ report' = 0
      /\ agent' = agent /\ starts' = starts /\ UNCHANGED genVars
      /\ Goto(Exporter, "idle")
  BY DEF Write, WriteReturns, Pinning
<1>4. report \in Cut(report) /\ UsageIn(report) = report /\ pinned' \in Nat
  BY <1>2, <1>3, ReportsAssumption DEF Counts, Cut, UsageIn
<1>5. /\ PinTypes' /\ GenTypes' /\ Walking'
      /\ Stored' = Stored + report
  BY <1>1, <1>3, <1>4, WriteFiles
<1>6. 0 \in Nat /\ report' \in Nat
  BY <1>3
<1>7. /\ HeapTypes' /\ GoroutineTypes' /\ KeysKnown' /\ PointersApart'
      /\ Held' = Held
      /\ pc'[Exporter] = "idle"
  BY <1>1, <1>3, <1>6, PinningSteps
<1>8. TypeOK'
  BY <1>1, <1>3, <1>5, <1>7, AllTypesNext
<1>9. AgentPhases'
  BY <1>7 DEF AgentPhases
<1>10. Reported = report /\ Reported' = 0
  BY <1>3, <1>7 DEF Reported
<1>11. NothingBilledTwice'
  <2>1. (Stored + report) + 0 + Held <= recorded
    BY <1>1, <1>2, <1>10 DEF NothingBilledTwice, Counts
  <2> QED BY <1>3, <1>5, <1>7, <1>10, <2>1 DEF NothingBilledTwice
<1>12. PinnedIsStored'
  <2>1. agent = "local" => pinned + report <= Stored + report
    BY <1>1, <1>2 DEF PinnedIsStored, Counts
  <2> QED BY <1>3, <1>5, <2>1 DEF PinnedIsStored
<1> QED BY <1>5, <1>7, <1>8, <1>9, <1>11, <1>12 DEF UsageInv

\* A write fails, and the gateway with it.
LEMMA WriteFailsInv ==
    ASSUME UsageInv, WriteFails
    PROVE  UsageInv'
<1>1. /\ HeapTypes /\ GoroutineTypes /\ alive \in BOOLEAN /\ PinTypes /\ GenTypes
      /\ AgentPhases /\ NothingBilledTwice /\ PinnedIsStored /\ Walking
  BY AllTypes DEF UsageInv
<1>2. Counts
  BY <1>1, Numbers
<1>3. PICK c \in Cut(report) : stored' = [stored EXCEPT ![Len(stored)] = c]
  BY DEF WriteFails
<1>4. /\ pc[Exporter] = "write"
      /\ Crash
      /\ agent' = agent /\ starts' = starts /\ pinned' = pinned /\ UNCHANGED genVars
  BY DEF WriteFails, Pinning
<1>5. pinned' \in Nat
  BY <1>2, <1>4 DEF Counts
<1>6. /\ PinTypes' /\ GenTypes' /\ Walking'
      /\ UsageIn(c) \in Nat /\ UsageIn(c) <= report
      /\ Stored' = Stored + UsageIn(c)
  BY <1>1, <1>3, <1>4, <1>5, WriteFiles
<1>7. HeapTypes' /\ GoroutineTypes' /\ KeysKnown' /\ alive' = FALSE
  BY <1>1, <1>4, CrashTypes
<1>8. TypeOK'
  BY <1>6, <1>7, AllTypesNext
<1>9. PointersApart'
  BY <1>4, CrashPointers
<1>10. Held' = 0 /\ Reported' = 0 /\ recorded' = recorded /\ pc'[Exporter] = "idle"
  BY <1>4, CrashBills
<1>11. AgentPhases'
  BY <1>10 DEF AgentPhases
<1>12. NothingBilledTwice'
  <2>1. Reported = report
    BY <1>4 DEF Reported
  <2>2. (Stored + UsageIn(c)) + 0 + 0 <= recorded
    BY <1>1, <1>2, <1>6, <2>1 DEF NothingBilledTwice, Counts
  <2> QED BY <1>6, <1>10, <2>2 DEF NothingBilledTwice
<1>13. PinnedIsStored'
  <2>1. agent = "local" => pinned <= Stored + UsageIn(c)
    BY <1>1, <1>2, <1>6 DEF PinnedIsStored, Counts
  <2> QED BY <1>4, <1>6, <2>1 DEF PinnedIsStored
<1> QED BY <1>6, <1>7, <1>8, <1>9, <1>11, <1>12, <1>13 DEF UsageInv

\* PinContent of PinataService returns.
LEMMA HashInv ==
    ASSUME UsageInv, Hash
    PROVE  UsageInv'
<1>1. /\ HeapTypes /\ GoroutineTypes /\ alive \in BOOLEAN /\ PinTypes /\ GenTypes
      /\ KeysKnown /\ PointersApart /\ AgentPhases /\ NothingBilledTwice /\ Walking
  BY AllTypes DEF UsageInv
<1>2. Counts
  BY <1>1, Numbers
<1>3. /\ pc[Exporter] = "answer"
      /\ UNCHANGED <<mapVars, units, owner, next, loc, todo, recorded, alive>>
      /\ pinned' = pinned + report /\ report' = 0
      /\ agent' = agent /\ stored' = stored /\ starts' = starts
      /\ gen' = gen /\ walk' = walk /\ due' = due /\ listed' = listed
      /\ Goto(Exporter, "idle")
  BY DEF Hash, Pinning, genVars
<1>4. report' \in Nat /\ pinned' \in Nat
  BY <1>2, <1>3 DEF Counts
<1>5. /\ HeapTypes' /\ GoroutineTypes' /\ KeysKnown' /\ PointersApart'
      /\ Held' = Held
      /\ pc'[Exporter] = "idle"
  BY <1>1, <1>3, <1>4, PinningSteps
<1>6. PinTypes' /\ GenTypes'
  BY <1>1, <1>3, <1>4 DEF PinTypes, GenTypes
<1>7. TypeOK'
  BY <1>1, <1>3, <1>5, <1>6, AllTypesNext
<1>8. AgentPhases'
  BY <1>5 DEF AgentPhases
<1>9. Stored' = Stored /\ Reported' = 0 /\ Reported = 0
  BY <1>3, <1>5 DEF Stored, Reported
<1>10. NothingBilledTwice'
  <2>1. Stored + 0 + Held <= recorded
    BY <1>1, <1>9 DEF NothingBilledTwice
  <2> QED BY <1>3, <1>5, <1>9, <2>1 DEF NothingBilledTwice
<1>11. PinnedIsStored'
  BY <1>1, <1>3 DEF PinnedIsStored, AgentPhases
<1>12. Walking'
  BY <1>1, <1>3, <1>9 DEF Walking
<1> QED BY <1>5, <1>7, <1>8, <1>10, <1>11, <1>12 DEF UsageInv

\* A step that leaves the memory of the gateway and the files alone, as those of
\* the report generator do.
LEMMA MemoryUnchanged ==
    ASSUME UsageInv,
           UNCHANGED <<mapVars, units, owner, next, pc, loc, exportVars, recorded>>,
           UNCHANGED <<agent, stored, pinned>>,
           alive' \in BOOLEAN, starts' \in 1..MaxStarts, GenTypes', Walking'
    PROVE  UsageInv'
<1>1. /\ records' = records /\ locks' = locks /\ units' = units /\ owner' = owner
      /\ next' = next /\ pc' = pc /\ loc' = loc /\ todo' = todo /\ report' = report
      /\ recorded' = recorded
      /\ agent' = agent /\ stored' = stored /\ pinned' = pinned
  BY DEF mapVars, exportVars
<1>2. HeapTypes /\ GoroutineTypes /\ PinTypes
  BY AllTypes DEF UsageInv
<1>3. HeapTypes' /\ GoroutineTypes' /\ PinTypes'
  BY <1>1, <1>2 DEF HeapTypes, GoroutineTypes, PinTypes
<1>4. (alive \in BOOLEAN)'
  OBVIOUS
<1>5. TypeOK'
  BY <1>3, <1>4, AllTypesNext
<1>6. KeysKnown' /\ PointersApart' /\ AgentPhases'
  BY <1>1 DEF UsageInv, KeysKnown, PointersApart, Early, AgentPhases
<1>7. Stored' = Stored /\ Held' = Held /\ Reported' = Reported
  BY <1>1 DEF Stored, Held, InRecord, Copied, Reported
<1>8. NothingBilledTwice' /\ PinnedIsStored'
  BY <1>1, <1>7 DEF UsageInv, NothingBilledTwice, PinnedIsStored
<1> QED BY <1>5, <1>6, <1>8 DEF UsageInv

\* The gateway is started again.
LEMMA RestartInv ==
    ASSUME UsageInv, Restart
    PROVE  UsageInv'
<1>1. UNCHANGED <<agent, stored, pinned>> /\ UNCHANGED genVars /\ alive' = TRUE
  BY DEF Restart
<1>2. starts' \in 1..MaxStarts
  BY ReportsAssumption, AllTypes DEF Restart, UsageInv, PinTypes
<1>3. GenTypes /\ Walking
  BY AllTypes DEF UsageInv
<1>4. GenTypes' /\ Walking'
  BY <1>1, <1>3 DEF genVars, GenTypes, Walking, Stored
<1> QED BY <1>1, <1>2, <1>4, MemoryUnchanged DEF Restart

\* The report generator lists what was pinned and no more than is stored.
LEMMA GeneratorInv ==
    ASSUME UsageInv, Generator
    PROVE  UsageInv'
<1>1. /\ HeapTypes /\ alive \in BOOLEAN /\ PinTypes /\ GenTypes /\ PinnedIsStored /\ Walking
  BY AllTypes DEF UsageInv
<1>2. Counts
  BY <1>1, Numbers
<1>3. UNCHANGED <<recordVars, pinVars>>
  BY DEF Generator, GenStart, GenPanics, GenDone, GenRead, GenLists, GenFails
<1>4. /\ UNCHANGED <<mapVars, units, owner, next, pc, loc, exportVars, recorded>>
      /\ UNCHANGED <<agent, stored, pinned>>
      /\ alive' = alive /\ starts' = starts
  BY <1>3 DEF recordVars, pinVars
<1>5. alive' \in BOOLEAN /\ starts' \in 1..MaxStarts
  BY <1>1, <1>4 DEF PinTypes
<1>6. stored' = stored /\ Stored' = Stored
  BY <1>4 DEF Stored
<1>7. stored \in Seq(Content) /\ walk \in SUBSET (1..Len(stored))
  BY <1>1 DEF PinTypes, GenTypes
<1>8. CASE GenStart
  <2>1. gen' = "walking" /\ walk' = 1..Len(stored) /\ due' = pinned /\ listed' = listed
        /\ gen = "off" /\ agent = "local"
    BY <1>8 DEF GenStart
  <2>2. GenTypes'
    BY <1>1, <1>2, <1>6, <2>1 DEF GenTypes, Counts
  <2>3. listed = 0 /\ pinned <= Stored
    BY <1>1, <2>1 DEF Walking, PinnedIsStored
  <2>4. pinned <= listed + Stored /\ listed + Stored <= Stored
    BY <1>2, <2>3 DEF Counts
  <2>5. Total(Contents(stored'), walk') = Stored
    BY <1>6, <2>1 DEF Stored
  <2>6. Walking'
    BY <1>6, <2>1, <2>4, <2>5 DEF Walking
  <2> QED BY <1>4, <1>5, <2>2, <2>6, MemoryUnchanged
<1>9. CASE GenPanics \/ GenDone \/ \E i \in walk : GenFails(i)
  <2>1. /\ gen' \in {"done", "failed"} /\ (gen' = "done" => walk = {})
        /\ walk' = walk /\ due' = due /\ listed' = listed
    BY <1>9 DEF GenPanics, GenDone, GenFails
  <2>2. GenTypes'
    BY <1>1, <1>6, <2>1 DEF GenTypes
  <2>3. Walking'
    BY <1>1, <1>6, <2>1 DEF Walking
  <2> QED BY <1>4, <1>5, <2>2, <2>3, MemoryUnchanged
<1>10. ASSUME NEW i \in walk, GenRead(i) PROVE UsageInv'
  <2> DEFINE t == Total(Contents(stored), walk)
             rest == Total(Contents(stored), walk \ {i})
             u == UsageIn(stored[i])
  <2>1. /\ gen = "walking" /\ gen' = gen /\ due' = due
        /\ walk' = walk \ {i} /\ listed' = listed + u
    BY <1>10 DEF GenRead, GenLists, UsageIn
  <2>2. /\ \A j \in walk : Contents(stored)[j] \in Nat
        /\ IsFiniteSet(walk)
        /\ Contents(stored)[i] = u
    BY <1>7, FilesTypes
  <2>3. /\ rest \in Nat
        /\ t = Contents(stored)[i] + rest
    BY <2>2, TotalSplits
  <2>4. u \in Nat
    BY <2>2
  <2>5. /\ due <= listed + t /\ listed + t <= Stored
        /\ listed \in Nat /\ Stored \in Nat /\ due \in Nat
    BY <1>1, <1>2 DEF Walking, Counts
  <2>6. Total(Contents(stored'), walk') = rest
    BY <1>6, <2>1
  <2> HIDE DEF t, rest, u
  <2>7. due <= (listed + u) + rest /\ (listed + u) + rest <= Stored /\ listed + u \in Nat
    BY <2>2, <2>3, <2>4, <2>5
  <2>8. Walking'
    BY <1>6, <2>1, <2>6, <2>7 DEF Walking
  <2>9. GenTypes'
    BY <1>1, <1>6, <2>1, <2>7 DEF GenTypes
  <2> QED BY <1>4, <1>5, <2>8, <2>9, MemoryUnchanged
<1> QED BY <1>8, <1>9, <1>10 DEF Generator

\* The gateway starts with nothing recorded and nothing stored.
LEMMA InitInv == Init => UsageInv
<1> SUFFICES ASSUME Init PROVE UsageInv
  OBVIOUS
<1>1. HeapTypes /\ GoroutineTypes /\ alive \in BOOLEAN
  BY UsageAssumption DEF Init, RecordsInit, HeapTypes, GoroutineTypes, Labels, Procs, Ptrs, Locals,
                         NoLocals
<1>2. <<>> \in Seq(Content) /\ Len(<<>>) = 0
  BY EmptySeq
<1>3. PinTypes /\ GenTypes
  BY <1>2, ReportsAssumption DEF Init, PinTypes, GenTypes
<1>4. TypeOK
  BY <1>1, <1>3, AllTypes
<1>5. KeysKnown /\ PointersApart /\ AgentPhases
  BY DEF Init, RecordsInit, KeysKnown, PointersApart, Early, AgentPhases, Procs
<1>6. \A k \in Keys : InRecord[k] = 0
  BY DEF Init, RecordsInit, InRecord
<1>7. Units(InRecord, Keys \ Copied) = {}
  BY <1>6 DEF Units
<1>8. Held = 0
  BY <1>7, FS_EmptySet DEF Held, Total
<1>9. 1..Len(stored) = {} /\ walk = {} /\ pinned = 0 /\ due = 0 /\ listed = 0 /\ report = 0
      /\ recorded = 0
  BY <1>2 DEF Init, RecordsInit
<1>10. Stored = 0 /\ Total(Contents(stored), walk) = 0
  BY <1>9, TotalOfNone DEF Stored
<1>11. Reported = 0
  BY <1>9 DEF Reported
<1>12. NothingBilledTwice /\ PinnedIsStored /\ Walking
  BY <1>8, <1>9, <1>10, <1>11 DEF NothingBilledTwice, PinnedIsStored, Walking
<1> QED BY <1>4, <1>5, <1>12 DEF UsageInv

\* Every step keeps the invariant.
LEMMA NextInv == UsageInv /\ [Next]_vars => UsageInv'
<1> SUFFICES ASSUME UsageInv, [Next]_vars PROVE UsageInv'
  OBVIOUS
<1>1. CASE UNCHANGED vars
  <2>1. /\ UNCHANGED <<mapVars, units, owner, next, pc, loc, exportVars, recorded>>
        /\ UNCHANGED <<agent, stored, pinned>>
        /\ alive' = alive /\ starts' = starts /\ UNCHANGED genVars
    BY <1>1 DEF vars, recordVars, pinVars
  <2>2. alive \in BOOLEAN /\ PinTypes /\ GenTypes /\ Walking
    BY AllTypes DEF UsageInv
  <2>3. alive' \in BOOLEAN /\ starts' \in 1..MaxStarts
    BY <2>1, <2>2 DEF PinTypes
  <2>4. GenTypes' /\ Walking'
    BY <2>1, <2>2 DEF genVars, GenTypes, Walking, Stored
  <2> QED BY <2>1, <2>3, <2>4, MemoryUnchanged
<1>2. CASE Next
  BY <1>2, ManagerInv, PinFailsInv, AppendInv, WriteInv, WriteFailsInv, HashInv, RestartInv,
     GeneratorInv DEF Next, Pin
<1> QED BY <1>1, <1>2

-------------------------------------------------------------------------------
(* Theorems                                                                *)

\* The invariant holds in every state of every behaviour.
THEOREM UsageInvariant == Spec => []UsageInv
BY InitInv, NextInv, PTL DEF Spec

\* Types: the maps, the locals of the goroutines, the files and the generator's
\* walk stay what the code declares (usage_record_manager.go, ipfs_agent/,
\* report_generator/main.go).
THEOREM UsageTypes == Spec => []TypeOK
<1>1. UsageInv => TypeOK
  BY DEF UsageInv
<1> QED BY <1>1, UsageInvariant, PTL

\* Nothing is billed twice, however many keys, recorders, requests and restarts
\* there are: ExportAllUsage takes from the map what it puts into the report,
\* and no two keys share a record (usage_record_manager.go:17-103,
\* node_user_report.go:13-25).
THEOREM NothingIsBilledTwice == Spec => []NothingBilledTwice
<1>1. UsageInv => NothingBilledTwice
  BY DEF UsageInv
<1> QED BY <1>1, UsageInvariant, PTL

\* What the local agent has acknowledged is in its files, whatever crashes
\* follow (local_file_agent.go:49-62).
THEOREM PinnedStaysStored == Spec => []PinnedIsStored
<1>1. UsageInv => PinnedIsStored
  BY DEF UsageInv
<1> QED BY <1>1, UsageInvariant, PTL

\* A walk of the report generator that ends without an error has listed all that
\* was pinned when it began, and nothing that was not recorded
\* (report_generator/main.go:21-51).
THEOREM ListingsAreComplete == Spec => []ListingComplete
<1>1. UsageInv => ListingComplete
  <2> SUFFICES ASSUME UsageInv, gen = "done" PROVE due <= listed /\ listed <= recorded
    BY DEF ListingComplete
  <2>1. Counts
    BY AllTypes, Numbers DEF UsageInv
  <2>2. Total(Contents(stored), walk) = 0
    BY TotalOfNone DEF UsageInv, Walking
  <2> QED BY <2>1, <2>2 DEF UsageInv, Walking, NothingBilledTwice, Counts
<1> QED BY <1>1, UsageInvariant, PTL
===============================================================================
