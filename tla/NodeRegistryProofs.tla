-------------------------- MODULE NodeRegistryProofs --------------------------
(***************************************************************************)
(* Proofs about NodeRegistry, for any number of services, peers, handlers, *)
(* clients and proxies.                                                    *)
(***************************************************************************)
EXTENDS NodeRegistry, TLAPS

\* Each kind of goroutine stays at its own labels.
PcOK ==
    /\ \A w \in Writers : pc[w] \in {"idle", "apply", "mapping", "publish"}
    /\ pc[Monitor] \in {"idle", "scan", "evict", "evictPeer"}
    /\ \A c \in Clients : pc[c] \in {"idle", "dump", "lookup", "service", "done"}
    /\ \A x \in Proxies : pc[x] \in {"idle", "read"}

\* The mutex is held by exactly the goroutine that is in its critical section.
LockOK ==
    \A p \in Procs :
      mutex = p <=> pc[p] \in {"mapping", "evict", "evictPeer", "service"}

\* A goroutine that applies an update or looks a service up has its argument.
ArgOK ==
    /\ \A w \in Writers : pc[w] # "idle" => arg[w] \in Messages
    /\ \A r \in Readers : pc[r] \in {"dump", "lookup", "service", "read"} =>
                            want[r] \in ServiceIds
    /\ pc[Monitor] = "evictPeer" <=> victim # NoService

\* Between the two writes of an update the first one is in place, whoever
\* makes it.
MidOK ==
    /\ \A w \in Writers : pc[w] = "mapping" => services[arg[w].id] = arg[w].svc
    /\ pc[Monitor] = "evictPeer" => services[victim] = NoService

\* What UpdatePeers has decided to evict is still mapped to another peer.
VictimsOK ==
    /\ \A id \in invalidServices : servicePeerMapping[id] \notin {Self, NoPeer}
    /\ pc[Monitor] \in {"idle", "scan"} => invalidServices = {}
    /\ pc[Monitor] = "evictPeer" =>
         /\ victim \notin invalidServices
         /\ servicePeerMapping[victim] \notin {Self, NoPeer}

\* A lookup between its two reads holds the peer that is still mapped, and
\* only a lookup that is over has an outcome.
LookupOK ==
    \A c \in Clients :
      /\ pc[c] = "service" => /\ peerFound[c] = servicePeerMapping[want[c]]
                              /\ peerFound[c] # NoPeer
      /\ pc[c] # "done" => result[c] = NoOutcome

\* The inductive invariant.
RegistryInv ==
    /\ TypeOK
    /\ PcOK
    /\ LockOK
    /\ ArgOK
    /\ MidOK
    /\ MapsAgree
    /\ VictimsOK
    /\ LookupOK
    /\ NoDataMissing

LEMMA InitInv == Init => RegistryInv
  BY RegistryAssumption
  DEF Init, RegistryInv, TypeOK, PcOK, LockOK, ArgOK, MidOK, MapsAgree, MidWrite,
      VictimsOK, LookupOK, NoDataMissing, Procs, Writers, Readers, NoOutcome,
      NoUpdate, Outcomes

\* Every step that keeps the process alive, and a crash, preserves the
\* invariant.
LEMMA NextInv == RegistryInv /\ [Next]_vars => RegistryInv'
<1> USE RegistryAssumption
<1> SUFFICES ASSUME RegistryInv, [Next]_vars PROVE RegistryInv'
  OBVIOUS
<1> USE DEF RegistryInv, TypeOK, PcOK, LockOK, ArgOK, MidOK, MapsAgree, MidWrite,
          VictimsOK, LookupOK, NoDataMissing, Procs, Writers, Readers, Goto,
          tables, monitorVars, readerVars
<1>1. CASE UNCHANGED vars
  BY <1>1 DEF vars
<1>2. CASE Crash
  BY <1>2 DEF Crash
<1>3. CASE \E p \in Peers : PeerJoin(p) \/ PeerLeave(p)
  BY <1>3 DEF PeerJoin, PeerLeave
<1>4. CASE \E p \in Peers, m \in Messages \cup Garbled : RemoteMessage(p, m)
  BY <1>4 DEF RemoteMessage
<1>5. ASSUME NEW h \in Handlers, NEW id \in ServiceIds,
             NEW svc \in Contents \cup {NoService}, MgmtRequest(h, id, svc)
      PROVE  RegistryInv'
  BY <1>5 DEF MgmtRequest, Messages
<1>6. CASE ListenerNext
  BY <1>6 DEF ListenerNext
<1>7. ASSUME NEW w \in Writers, WriteServices(w) PROVE RegistryInv'
  BY <1>7 DEF WriteServices, LockedWrite, Messages
<1>8. ASSUME NEW w \in Writers, WriteMapping(w) PROVE RegistryInv'
  BY <1>8 DEF WriteMapping, Messages
<1>9. ASSUME NEW h \in Handlers, Publish(h) PROVE RegistryInv'
  BY <1>9 DEF Publish, PublishUpTo
<1>10. CASE Tick
  BY <1>10 DEF Tick
<1>11. CASE Scan
  BY <1>11 DEF Scan, Invalid
<1>12. ASSUME NEW id \in ServiceIds, EvictService(id) PROVE RegistryInv'
  BY <1>12 DEF EvictService
<1>13. CASE EvictMapping
  BY <1>13 DEF EvictMapping
<1>14. CASE EvictDone
  BY <1>14 DEF EvictDone, EvictEnds
<1>15. ASSUME NEW kind \in Kinds, List(kind) PROVE RegistryInv'
  BY <1>15 DEF List, Lists, Reply
<1>16. ASSUME NEW c \in Clients, NEW id \in ServiceIds, ClientRequest(c, id)
       PROVE  RegistryInv'
  BY <1>16 DEF ClientRequest
<1>17. ASSUME NEW c \in Clients, ClientLogged(c) PROVE RegistryInv'
  BY <1>17 DEF ClientLogged
<1>18. ASSUME NEW c \in Clients, LookupPeer(c) PROVE RegistryInv'
  <2>1. want[c] \in ServiceIds /\ mutex = Free /\ pc[c] = "lookup"
    BY <1>18 DEF LookupPeer, LookupPeerAs
  <2>2. CASE servicePeerMapping[want[c]] = NoPeer
    <3>1. /\ result' = [result EXCEPT ![c] = [tag |-> "notFound"]]
          /\ pc' = [pc EXCEPT ![c] = "done"]
          /\ mutex' = mutex
      BY <1>18, <2>2 DEF LookupPeer, LookupPeerAs
    <3>2. [tag |-> "notFound"] \in Outcomes
      BY DEF Outcomes
    <3>. QED  BY <1>18, <2>1, <3>1, <3>2 DEF LookupPeer, LookupPeerAs
  <2>3. CASE servicePeerMapping[want[c]] # NoPeer
    <3>1. /\ mutex' = c
          /\ pc' = [pc EXCEPT ![c] = "service"]
          /\ peerFound' = [peerFound EXCEPT ![c] = servicePeerMapping[want[c]]]
          /\ UNCHANGED <<result, tables, alive, arg, inbox, topicPeers,
                         monitorVars, want, listing>>
      BY <1>18, <2>3 DEF LookupPeer, LookupPeerAs
    <3>2. TypeOK' /\ PcOK' /\ ArgOK' /\ MidOK' /\ VictimsOK' /\ NoDataMissing'
      BY <2>1, <3>1
    <3>3. LockOK'
      BY <2>1, <3>1
    <3>4. MapsAgree'
      BY <2>1, <3>1
    <3>5. LookupOK'
      BY <2>1, <2>3, <3>1
    <3>. QED  BY <3>2, <3>3, <3>4, <3>5
  <2>. QED  BY <2>2, <2>3
<1>19. ASSUME NEW c \in Clients, LookupService(c) PROVE RegistryInv'
  BY <1>19 DEF LookupService, Outcomes
<1>20. ASSUME NEW c \in Clients, ClientDone(c) PROVE RegistryInv'
  BY <1>20 DEF ClientDone, Outcomes, NoOutcome
<1>21. ASSUME NEW x \in Proxies, NEW id \in ServiceIds, ProxyRequest(x, id)
       PROVE  RegistryInv'
  BY <1>21 DEF ProxyRequest
<1>22. ASSUME NEW x \in Proxies, ProxyRead(x) PROVE RegistryInv'
  BY <1>22 DEF ProxyRead
<1>. QED
  BY <1>1, <1>2, <1>3, <1>4, <1>5, <1>6, <1>7, <1>8, <1>9, <1>10, <1>11, <1>12,
     <1>13, <1>14, <1>15, <1>16, <1>17, <1>18, <1>19, <1>20, <1>21, <1>22
  DEF Next, Environment, System, WriterStep, MonitorStep, ClientStep, ProxyStep,
      MgmtBadBody, PublishFails, ProxyReadPanics, ConcurrentMapThrow

LEMMA Invariance == Spec => []RegistryInv
  BY InitInv, NextInv, PTL DEF Spec

\* The tables and the goroutines' variables keep their types.
THEOREM TypeCorrect == Spec => []TypeOK
  BY Invariance, PTL DEF RegistryInv

\* The two maps have the same keys except between the two writes of an update.
THEOREM MapsStayInStep == Spec => []MapsAgree
  BY Invariance, PTL DEF RegistryInv

\* The forwarder's "Service data missing" branch is never taken.
THEOREM DataNeverMissing == Spec => []NoDataMissing
  BY Invariance, PTL DEF RegistryInv

\* The critical sections of the mutex exclude one another: only the two reads
\* that do without it can race with a write.
THEOREM CriticalSectionsExclude == Spec => []OnlyUnlockedReadsRace
<1>1. RegistryInv => OnlyUnlockedReadsRace
  BY RegistryAssumption DEF RegistryInv, LockOK, OnlyUnlockedReadsRace, InLock
<1>. QED
  BY <1>1, Invariance, PTL

\* UpdatePeers never removes a service of this gateway.
THEOREM LocalServicesStay == Spec => LocalLeavesByDeletion
<1> DEFINE Leaves(id) == /\ servicePeerMapping[id] = Self
                         /\ services[id] # NoService
                         /\ services'[id] = NoService
           Deleted(id) == \E w \in Writers :
                            mutex' = w /\ arg[w].id = id /\ arg[w].svc = NoService
<1>1. RegistryInv /\ [Next]_vars => [\A id \in ServiceIds : Leaves(id) => Deleted(id)]_vars
  <2> SUFFICES ASSUME RegistryInv, Next, NEW id \in ServiceIds, Leaves(id)
               PROVE  Deleted(id)
    OBVIOUS
  <2>1. \/ \E w \in Writers : WriteServices(w)
        \/ \E k \in ServiceIds : EvictService(k)
        \/ services' = services
    BY DEF Next, Environment, System, WriterStep, MonitorStep, ClientStep, ProxyStep,
           MgmtBadBody, PublishFails, ProxyReadPanics, ConcurrentMapThrow, Crash,
           PeerJoin, PeerLeave, RemoteMessage, MgmtRequest, ListenerNext, WriteMapping,
           Publish, PublishUpTo, Tick, Scan, EvictMapping, EvictDone, EvictEnds,
           List, Lists, ClientRequest, ClientLogged, LookupPeer, LookupPeerAs,
           LookupService, ClientDone, ProxyRequest, ProxyRead, tables
  <2>2. CASE \E w \in Writers : WriteServices(w)
    <3>1. PICK w \in Writers : WriteServices(w)
      BY <2>2
    <3>2. services' = [services EXCEPT ![arg[w].id] = arg[w].svc] /\ mutex' = w
      BY <3>1 DEF WriteServices, LockedWrite
    <3>3. arg[w].id = id /\ arg[w].svc = NoService
      BY <3>2 DEF RegistryInv, TypeOK
    <3>. QED  BY <3>2, <3>3
  <2>3. CASE \E k \in ServiceIds : EvictService(k)
    BY <2>3 DEF EvictService, RegistryInv, TypeOK, VictimsOK
  <2>. QED  BY <2>1, <2>2, <2>3
<1>. QED  BY <1>1, Invariance, PTL DEF Spec, LocalLeavesByDeletion

\* The GET handlers never show half of an entry.
THEOREM ListingsAreWhole == Spec => ListingsWhole
<1> DEFINE Whole == listing' # listing =>
                      /\ NoService \notin listing'.records
                      /\ \A id \in listing'.ids : services[id] # NoService
<1>1. RegistryInv /\ [Next]_vars => [Whole]_vars
  <2> SUFFICES ASSUME RegistryInv, Next, listing' # listing
               PROVE  Whole
    OBVIOUS
  <2>1. PICK kind \in Kinds : List(kind)
    BY DEF Next, Environment, System, WriterStep, MonitorStep, ClientStep, ProxyStep,
           MgmtBadBody, PublishFails, ProxyReadPanics, ConcurrentMapThrow, Crash,
           PeerJoin, PeerLeave, RemoteMessage, MgmtRequest, ListenerNext,
           WriteServices, LockedWrite, WriteMapping, Publish, PublishUpTo, Tick,
           Scan, EvictService, EvictMapping, EvictDone, EvictEnds, ClientRequest,
           ClientLogged, LookupPeer, LookupPeerAs, LookupService, ClientDone,
           ProxyRequest, ProxyRead
  <2>2. \A id \in ServiceIds : services[id] = NoService <=> servicePeerMapping[id] = NoPeer
    BY <2>1, RegistryAssumption
    DEF List, Lists, RegistryInv, MapsAgree, MidWrite, Procs, Writers
  <2>3. listing' = Reply(kind)
    BY <2>1 DEF List, Lists
  <2>. QED
    BY <2>1, <2>2, <2>3, RegistryAssumption DEF Reply, RegistryInv, TypeOK
<1>. QED  BY <1>1, Invariance, PTL DEF Spec, ListingsWhole

-------------------------------------------------------------------------------
(* Refinement.  Every step is a step of ServiceDirectory, or changes        *)
(* neither of its variables.                                               *)

\* A step that leaves the tables and every writer in its critical section
\* alone leaves the directory alone.
LEMMA DirectoryKept ==
    ASSUME UNCHANGED <<services, servicePeerMapping>>,
           mutex \in Writers <=> mutex' \in Writers,
           mutex \in Writers => mutex' = mutex /\ arg'[mutex] = arg[mutex]
    PROVE  AbsDirectory' = AbsDirectory
  BY DEF AbsDirectory

\* A step that leaves the outcomes alone leaves the answers alone.
LEMMA AnswersKept == ASSUME result' = result PROVE AbsAnswers' = AbsAnswers
  BY DEF AbsAnswers

\* A writer's first write is a Put or a Remove.
LEMMA FirstWriteMaps ==
    ASSUME RegistryInv, NEW w \in Writers, WriteServices(w)
    PROVE  Dir!DirNext
<1> DEFINE id == arg[w].id
           svc == arg[w].svc
           entry == [svc |-> svc, peer |-> arg[w].from]
<1>1. arg[w] \in Messages
  BY DEF WriteServices, LockedWrite, RegistryInv, ArgOK
<1>2. /\ id \in ServiceIds
      /\ svc \in Contents \cup {NoService}
      /\ arg[w].from \in Peers \cup {Self}
  BY <1>1 DEF Messages
<1>3. /\ mutex \notin Writers
      /\ mutex' = w
      /\ services' = [services EXCEPT ![id] = svc]
      /\ servicePeerMapping' = servicePeerMapping
      /\ arg' = arg
      /\ result' = result
  BY RegistryAssumption DEF WriteServices, LockedWrite, readerVars, Procs, Writers
<1>4. AbsAnswers' = AbsAnswers
  BY <1>3, AnswersKept
<1>5. services \in [ServiceIds -> Contents \cup {NoService}]
  BY DEF RegistryInv, TypeOK
<1>6. CASE svc = NoService
  <2>1. AbsDirectory' = [AbsDirectory EXCEPT ![id] = NoService]
    BY <1>2, <1>3, <1>5, <1>6 DEF AbsDirectory
  <2>. QED  BY <1>2, <1>4, <2>1 DEF Dir!DirNext, Dir!Remove
<1>7. CASE svc # NoService
  <2>1. AbsDirectory' = [AbsDirectory EXCEPT ![id] = entry]
    BY <1>2, <1>3, <1>5, <1>7 DEF AbsDirectory
  <2>2. entry \in Dir!Entries
    BY <1>2, <1>7 DEF Dir!Entries
  <2>. QED  BY <1>2, <1>4, <2>1, <2>2 DEF Dir!DirNext, Dir!Put
<1>. QED  BY <1>6, <1>7

\* A writer's second write only makes the first one permanent.
LEMMA SecondWriteMaps ==
    ASSUME RegistryInv, NEW w \in Writers, WriteMapping(w)
    PROVE  AbsDirectory' = AbsDirectory /\ AbsAnswers' = AbsAnswers
<1>1. arg[w] \in Messages /\ mutex = w /\ services[arg[w].id] = arg[w].svc
  BY DEF WriteMapping, RegistryInv, ArgOK, LockOK, MidOK, Procs
<1>2. /\ mutex' \notin Writers
      /\ services' = services
      /\ servicePeerMapping' = [servicePeerMapping EXCEPT ![arg[w].id] =
                                  IF arg[w].svc = NoService THEN NoPeer ELSE arg[w].from]
      /\ result' = result
  BY RegistryAssumption DEF WriteMapping, readerVars, Procs, Writers
<1>3. servicePeerMapping \in [ServiceIds -> Peers \cup {Self, NoPeer}]
  BY DEF RegistryInv, TypeOK
<1>4. AbsDirectory' = AbsDirectory
  BY <1>1, <1>2, <1>3 DEF AbsDirectory, Messages
<1>. QED  BY <1>2, <1>4, AnswersKept

\* Evicting a service removes it when its record goes; the rest of the
\* eviction changes nothing a client can see.
LEMMA EvictionMaps ==
    ASSUME RegistryInv
    PROVE  /\ \A id \in ServiceIds : EvictService(id) => Dir!DirNext
           /\ EvictMapping => AbsDirectory' = AbsDirectory /\ AbsAnswers' = AbsAnswers
<1>1. ASSUME NEW id \in ServiceIds, EvictService(id) PROVE Dir!DirNext
  <2>1. /\ mutex \notin Writers /\ mutex' = mutex
        /\ services' = [services EXCEPT ![id] = NoService]
        /\ servicePeerMapping' = servicePeerMapping
        /\ result' = result
    BY <1>1, RegistryAssumption
    DEF EvictService, RegistryInv, LockOK, Procs, Writers, readerVars
  <2>2. AbsDirectory' = [AbsDirectory EXCEPT ![id] = NoService]
    BY <2>1 DEF AbsDirectory, RegistryInv, TypeOK
  <2>. QED  BY <2>1, <2>2, AnswersKept DEF Dir!DirNext, Dir!Remove
<1>2. ASSUME EvictMapping PROVE AbsDirectory' = AbsDirectory /\ AbsAnswers' = AbsAnswers
  <2>1. /\ mutex \notin Writers /\ mutex' = mutex
        /\ services' = services
        /\ services[victim] = NoService
        /\ servicePeerMapping' = [servicePeerMapping EXCEPT ![victim] = NoPeer]
        /\ result' = result
    BY <1>2, RegistryAssumption
    DEF EvictMapping, RegistryInv, LockOK, MidOK, Procs, Writers, readerVars
  <2>2. AbsDirectory' = AbsDirectory
    BY <2>1 DEF AbsDirectory, RegistryInv, TypeOK
  <2>. QED  BY <2>1, <2>2, AnswersKept
<1>. QED  BY <1>1, <1>2

\* The second read of a lookup is the Lookup of the whole entry.
LEMMA LookupMaps ==
    ASSUME RegistryInv, NEW c \in Clients, LookupService(c)
    PROVE  Dir!DirNext
<1> DEFINE id == want[c]
<1>1. /\ id \in ServiceIds
      /\ mutex = c /\ mutex' = Free
      /\ peerFound[c] = servicePeerMapping[id]
      /\ servicePeerMapping[id] # NoPeer
  BY DEF LookupService, RegistryInv, ArgOK, LockOK, LookupOK, Procs, Readers
<1>2. mutex \notin Writers /\ mutex' \notin Writers
  BY <1>1, RegistryAssumption DEF Procs, Writers, Readers
<1>3. services[id] # NoService
  BY <1>1, <1>2, RegistryAssumption DEF RegistryInv, MapsAgree, MidWrite, Readers
<1>4. AbsDirectory' = AbsDirectory
  BY <1>2, DirectoryKept DEF LookupService, tables
<1>5. AbsDirectory[id] = [svc |-> services[id], peer |-> peerFound[c]]
  BY <1>1, <1>2, <1>3 DEF AbsDirectory
<1>6. PICK t \in {"dataError", "forward"} :
         result' = [result EXCEPT ![c] =
                      [tag |-> t, svc |-> services[id], peer |-> peerFound[c]]]
  BY <1>3 DEF LookupService
<1>7. AbsAnswers' = [AbsAnswers EXCEPT ![c] = AbsDirectory[id]]
  BY <1>5, <1>6 DEF AbsAnswers, RegistryInv, TypeOK
<1>. QED  BY <1>1, <1>4, <1>7 DEF Dir!DirNext, Dir!Lookup

\* Every step of the gateway is a step of the directory or leaves it alone.
LEMMA StepMaps ==
    ASSUME RegistryInv, [Next]_vars
    PROVE  [Dir!DirNext]_<<AbsDirectory, AbsAnswers>>
<1> DEFINE Kept == AbsDirectory' = AbsDirectory /\ AbsAnswers' = AbsAnswers
<1>1. ASSUME UNCHANGED <<services, servicePeerMapping, mutex, arg>> PROVE AbsDirectory' = AbsDirectory
  BY <1>1 DEF AbsDirectory
<1>2. CASE UNCHANGED vars \/ Crash
  BY <1>1, <1>2, AnswersKept DEF vars, Crash, tables, readerVars
<1>3. CASE \/ \E p \in Peers : PeerJoin(p) \/ PeerLeave(p)
           \/ \E p \in Peers, m \in Messages \cup Garbled : RemoteMessage(p, m)
           \/ \E kind \in Kinds : List(kind)
           \/ Tick
  BY <1>1, <1>3, AnswersKept
  DEF PeerJoin, PeerLeave, RemoteMessage, List, Lists, Tick, tables, readerVars
<1>4. CASE \/ \E c \in Clients, id \in ServiceIds : ClientRequest(c, id)
           \/ \E c \in Clients : ClientLogged(c)
           \/ \E x \in Proxies, id \in ServiceIds : ProxyRequest(x, id)
           \/ \E x \in Proxies : ProxyRead(x)
  BY <1>1, <1>4, AnswersKept
  DEF ClientRequest, ClientLogged, ProxyRequest, ProxyRead, tables, readerVars
<1>5. ASSUME NEW h \in Handlers,
             \/ \E id \in ServiceIds, svc \in Contents \cup {NoService} :
                  MgmtRequest(h, id, svc)
             \/ Publish(h)
      PROVE  Kept
  <2>1. mutex # h /\ mutex' = mutex
    BY <1>5 DEF MgmtRequest, Publish, PublishUpTo, RegistryInv, LockOK, Procs, Writers
  <2>2. \A w \in Writers : w # h => arg'[w] = arg[w]
    BY <1>5 DEF MgmtRequest, Publish, PublishUpTo, RegistryInv, TypeOK
  <2>. QED
    BY <1>5, <2>1, <2>2, DirectoryKept, AnswersKept
    DEF MgmtRequest, Publish, PublishUpTo, tables, readerVars
<1>6. CASE ListenerNext
  <2>1. mutex # Listener /\ mutex' = mutex
    BY <1>6 DEF ListenerNext, RegistryInv, LockOK, Procs, Writers
  <2>2. \A w \in Writers : w # Listener => arg'[w] = arg[w]
    BY <1>6 DEF ListenerNext, RegistryInv, TypeOK
  <2>. QED
    BY <1>6, <2>1, <2>2, DirectoryKept, AnswersKept
    DEF ListenerNext, tables, readerVars
<1>7. CASE \E w \in Writers : WriterStep(w)
  BY <1>7, FirstWriteMaps, SecondWriteMaps DEF WriterStep
<1>8. CASE Scan \/ EvictDone
  <2>1. mutex \notin Writers /\ mutex' \notin Writers
    BY <1>8, RegistryAssumption
    DEF Scan, EvictDone, EvictEnds, RegistryInv, LockOK, Procs, Writers
  <2>. QED
    BY <1>8, <2>1, DirectoryKept, AnswersKept DEF Scan, EvictDone, EvictEnds, tables, readerVars
<1>9. CASE EvictMapping \/ \E id \in ServiceIds : EvictService(id)
  BY <1>9, EvictionMaps
<1>10. ASSUME NEW c \in Clients, LookupPeer(c) PROVE Kept
  <2>1. mutex \notin Writers /\ mutex' \notin Writers
    BY <1>10, RegistryAssumption DEF LookupPeer, LookupPeerAs, Procs, Writers, Readers
  <2>2. AbsDirectory' = AbsDirectory
    BY <1>10, <2>1, DirectoryKept DEF LookupPeer, LookupPeerAs, tables
  <2>3. result[c] = NoOutcome
    BY <1>10 DEF LookupPeer, LookupPeerAs, RegistryInv, LookupOK
  <2>4. result' = result \/ result' = [result EXCEPT ![c] = [tag |-> "notFound"]]
    BY <1>10 DEF LookupPeer, LookupPeerAs
  <2>5. AbsAnswers' = AbsAnswers
    BY <2>3, <2>4 DEF AbsAnswers, NoOutcome, RegistryInv, TypeOK
  <2>. QED  BY <2>2, <2>5
<1>11. CASE \E c \in Clients : LookupService(c)
  BY <1>11, LookupMaps
<1>12. ASSUME NEW c \in Clients, ClientDone(c) PROVE Dir!DirNext
  <2>1. AbsDirectory' = AbsDirectory
    BY <1>1, <1>12 DEF ClientDone, tables
  <2>2. AbsAnswers' = [AbsAnswers EXCEPT ![c] = NoService]
    BY <1>12 DEF ClientDone, AbsAnswers, NoOutcome, RegistryInv, TypeOK
  <2>. QED  BY <2>1, <2>2 DEF Dir!DirNext, Dir!Forget
<1>. QED
  BY <1>2, <1>3, <1>4, <1>5, <1>6, <1>7, <1>8, <1>9, <1>10, <1>11, <1>12
  DEF Next, Environment, System, MonitorStep, ClientStep, ProxyStep, MgmtBadBody,
      PublishFails, ProxyReadPanics, ConcurrentMapThrow

\* The two maps implement the atomic directory.
THEOREM DirectoryImplemented == Spec => ImplementsDirectory
<1>1. Init => Dir!DirInit
  BY DEF Init, Dir!DirInit, AbsDirectory, AbsAnswers, NoOutcome
<1>2. RegistryInv /\ [Next]_vars => [Dir!DirNext]_<<AbsDirectory, AbsAnswers>>
  BY StepMaps
<1>. QED
  BY <1>1, <1>2, Invariance, PTL
  DEF Spec, ImplementsDirectory, Dir!DirSpec, Dir!dirVars
===============================================================================
