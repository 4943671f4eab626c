----------------------------- MODULE NodeRegistry -----------------------------
(***************************************************************************)
(* The service tables of one gateway (internal/trans_network/node.go and   *)
(* node_mgmt_handler.go) and the goroutines that share them:               *)
(*                                                                         *)
(*   - management handlers (POST and DELETE /service/), any number at      *)
(*     once, which run RegisterLocalService;                               *)
(*   - the broadcast listener, which runs RegisterRemoteService;           *)
(*   - UpdatePeers, which every second evicts the services of peers that   *)
(*     are not in the pubsub topic;                                        *)
(*   - the GET handlers of the management API;                             *)
(*   - the lookups of the HTTP forwarder, under the mutex, after it has    *)
(*     logged servicePeerMapping without it;                               *)
(*   - the stream handlers of a service side gateway, which read services  *)
(*     without the mutex.                                                  *)
(*                                                                         *)
(* A step is one access to a shared map; taking the mutex goes with the    *)
(* first access it protects and releasing it with the last.                *)
(* A panic ends the process: alive becomes FALSE and nothing moves again.  *)
(***************************************************************************)
EXTENDS Naturals, Sequences

CONSTANTS
    Self,         \* selfID
    Peers,        \* the other gateways
    ServiceIds,
    Contents,     \* service records (models.ApronService)
    Bare,         \* the records whose Providers list is empty
    NoService,    \* no entry in services
    NoPeer,       \* no entry in servicePeerMapping
    Handlers,     \* goroutines that serve POST and DELETE /service/
    Listener,     \* StartListeningOnServiceBroadcast
    Monitor,      \* UpdatePeers
    Clients,      \* goroutines that serve a client request
    Proxies,      \* stream handlers that serve another gateway's request
    Free,         \* nobody holds the mutex
    Kinds,        \* which of the four GET handlers are called
    MaxInbox      \* slots of the pubsub subscription

Writers == Handlers \cup {Listener}
Procs == Writers \cup {Monitor} \cup Clients \cup Proxies
Readers == Clients \cup Proxies

ASSUME RegistryAssumption ==
    /\ Self \notin Peers
    /\ NoPeer \notin Peers \cup {Self}
    /\ NoService \notin Contents \cup ServiceIds
    /\ Bare \subseteq Contents
    /\ Free \notin Procs
    /\ Listener \notin Handlers \cup Readers \cup {Monitor}
    /\ Monitor \notin Handlers \cup Readers
    /\ Handlers \cap Readers = {}
    /\ Clients \cap Proxies = {}
    /\ Kinds \subseteq {"all", "peers", "local", "remote"}
    /\ MaxInbox \in Nat

VARIABLES
    services,            \* Node.services
    servicePeerMapping,  \* Node.servicePeerMapping
    mutex,               \* Node.mutex: its holder or Free
    alive,               \* FALSE once a panic has ended the process
    pc,                  \* where each goroutine is
    arg,                 \* arg[w]: the update writer w applies
    inbox,               \* messages waiting in serviceBroadcastSub
    topicPeers,          \* the peers pubsub has in the topic now
    availablePeers,      \* UpdatePeers: the result of its ListPeers call
    invalidServices,     \* UpdatePeers: what is left of invaildService
    victim,              \* UpdatePeers: the service being removed
    want,                \* want[r]: the service a reader asks for
    peerFound,           \* peerFound[c]: servicePeerId of a lookup
    result,              \* result[c]: the outcome of the lookup
    listing              \* the latest reply of a GET handler

tables == <<services, servicePeerMapping>>
monitorVars == <<availablePeers, invalidServices, victim>>
readerVars == <<want, peerFound, result>>
vars == <<tables, mutex, alive, pc, arg, inbox, topicPeers, monitorVars,
          readerVars, listing>>

\* A broadcast ApronService: svc is NoService when is_deleted is set and the
\* record otherwise; from is the message's ReceivedFrom.
Messages == [id : ServiceIds, svc : Contents \cup {NoService},
             from : Peers \cup {Self}]
\* A message whose data does not unmarshal.
Garbled == [from : Peers]

Outcomes == [tag : {"none", "notFound", "dataMissing"}]
            \cup [tag : {"dataError", "forward"}, svc : Contents,
                  peer : Peers \cup {Self}]
NoOutcome == [tag |-> "none"]
NoUpdate == [tag |-> "none"]

TypeOK ==
    /\ services \in [ServiceIds -> Contents \cup {NoService}]
    /\ servicePeerMapping \in [ServiceIds -> Peers \cup {Self, NoPeer}]
    /\ mutex \in Procs \cup {Free}
    /\ alive \in BOOLEAN
    /\ pc \in [Procs -> {"idle", "apply", "mapping", "publish", "scan", "evict",
                         "evictPeer", "dump", "lookup", "service", "done", "read"}]
    /\ arg \in [Writers -> Messages \cup {NoUpdate}]
    /\ inbox \in Seq(Messages \cup Garbled)
    /\ Len(inbox) <= MaxInbox
    /\ topicPeers \in SUBSET Peers
    /\ availablePeers \in SUBSET Peers
    /\ invalidServices \in SUBSET ServiceIds
    /\ victim \in ServiceIds \cup {NoService}
    /\ want \in [Readers -> ServiceIds \cup {NoService}]
    /\ peerFound \in [Clients -> Peers \cup {Self, NoPeer}]
    /\ result \in [Clients -> Outcomes]
    /\ listing \in [ids : SUBSET ServiceIds,
                    records : SUBSET (Contents \cup {NoService})]

Init ==
    /\ services = [id \in ServiceIds |-> NoService]
    /\ servicePeerMapping = [id \in ServiceIds |-> NoPeer]
    /\ mutex = Free
    /\ alive = TRUE
    /\ pc = [p \in Procs |-> "idle"]
    /\ arg = [w \in Writers |-> NoUpdate]
    /\ inbox = <<>>
    /\ topicPeers = {}
    /\ availablePeers = {}
    /\ invalidServices = {}
    /\ victim = NoService
    /\ want = [r \in Readers |-> NoService]
    /\ peerFound = [c \in Clients |-> NoPeer]
    /\ result = [c \in Clients |-> NoOutcome]
    /\ listing = [ids |-> {}, records |-> {}]

Goto(p, label) == pc' = [pc EXCEPT ![p] = label]

\* panic, log.Fatal or the runtime's "concurrent map ..." throw.
Crash ==
    /\ alive' = FALSE
    /\ UNCHANGED <<tables, mutex, pc, arg, inbox, topicPeers, monitorVars,
                   readerVars, listing>>
-------------------------------------------------------------------------------
(* RegisterLocalService and RegisterRemoteService                          *)

\* POST or DELETE /service/ reaches its handler with a body that decodes.
MgmtRequest(h, id, svc) ==
    /\ pc[h] = "idle"
    /\ arg' = [arg EXCEPT ![h] = [id |-> id, svc |-> svc, from |-> Self]]
    /\ Goto(h, "apply")
    /\ UNCHANGED <<tables, mutex, alive, inbox, topicPeers, monitorVars,
                   readerVars, listing>>

\* json.Unmarshal failed: CheckError panics, before the mutex is taken.
MgmtBadBody(h) ==
    /\ pc[h] = "idle"
    /\ Crash

\* The listener takes the next message; its own and unreadable ones are
\* dropped.
ListenerNext ==
    /\ pc[Listener] = "idle"
    /\ inbox # <<>>
    /\ inbox' = Tail(inbox)
    /\ IF Head(inbox) \in Messages /\ Head(inbox).from # Self
         THEN /\ arg' = [arg EXCEPT ![Listener] = Head(inbox)]
              /\ Goto(Listener, "apply")
         ELSE UNCHANGED <<arg, pc>>
    /\ UNCHANGED <<tables, mutex, alive, topicPeers, monitorVars, readerVars,
                   listing>>

\* mutex.Lock, then services is written or deleted from.
LockedWrite(w) ==
    /\ pc[w] = "apply"
    /\ mutex' = w
    /\ services' = [services EXCEPT ![arg[w].id] = arg[w].svc]
    /\ Goto(w, "mapping")
    /\ UNCHANGED <<servicePeerMapping, alive, arg, inbox, topicPeers,
                   monitorVars, readerVars, listing>>

\* Wrong variant: the mutex is taken although somebody else holds it.
WriteServicesUnlocked(w) == LockedWrite(w)

WriteServices(w) == mutex = Free /\ LockedWrite(w)

\* servicePeerMapping is written or deleted from, then mutex.Unlock.
WriteMapping(w) ==
    /\ pc[w] = "mapping"
    /\ servicePeerMapping' = [servicePeerMapping EXCEPT ![arg[w].id] =
                                IF arg[w].svc = NoService THEN NoPeer
                                                          ELSE arg[w].from]
    /\ mutex' = Free
    /\ IF w = Listener
         THEN Goto(w, "idle") /\ arg' = [arg EXCEPT ![w] = NoUpdate]
         ELSE Goto(w, "publish") /\ UNCHANGED arg
    /\ UNCHANGED <<services, alive, inbox, topicPeers, monitorVars,
                   readerVars, listing>>

\* BroadcastService, without the mutex.  pubsub hands the message back to
\* this gateway's own subscription too, unless it already holds limit messages.
PublishUpTo(h, limit) ==
    /\ pc[h] = "publish"
    /\ inbox' = IF Len(inbox) < limit THEN Append(inbox, arg[h]) ELSE inbox
    /\ arg' = [arg EXCEPT ![h] = NoUpdate]
    /\ Goto(h, "idle")
    /\ UNCHANGED <<tables, mutex, alive, topicPeers, monitorVars,
                   readerVars, listing>>

\* Wrong variant: the limit of its buffer is missed by one.
PublishOneTooMany(h) == PublishUpTo(h, MaxInbox + 1)

Publish(h) == PublishUpTo(h, MaxInbox)

PublishFails(h) ==
    /\ pc[h] = "publish"
    /\ Crash
-------------------------------------------------------------------------------
(* UpdatePeers                                                             *)

\* The ticker fires: ListPeers, without the mutex.
Tick ==
    /\ pc[Monitor] = "idle"
    /\ availablePeers' = topicPeers
    /\ Goto(Monitor, "scan")
    /\ UNCHANGED <<tables, mutex, alive, arg, inbox, topicPeers,
                   invalidServices, victim, readerVars, listing>>

\* Wrong variants: this gateway's own services count as well; nothing is
\* evicted while the topic is empty.
InvalidSelfToo == {id \in ServiceIds : servicePeerMapping[id]
                                         \notin availablePeers \cup {NoPeer}}
InvalidUnlessAlone == {id \in ServiceIds :
                         /\ availablePeers # {}
                         /\ servicePeerMapping[id]
                              \notin availablePeers \cup {Self, NoPeer}}

Invalid == {id \in ServiceIds : servicePeerMapping[id]
                                  \notin availablePeers \cup {Self, NoPeer}}

\* mutex.Lock, then every entry is compared with the peers listed.
Scan ==
    /\ pc[Monitor] = "scan"
    /\ mutex = Free
    /\ mutex' = Monitor
    /\ invalidServices' = Invalid
    /\ Goto(Monitor, "evict")
    /\ UNCHANGED <<tables, alive, arg, inbox, topicPeers, availablePeers,
                   victim, readerVars, listing>>

\* The loop over invaildService deletes from services, then from
\* servicePeerMapping; the mutex is released when it is done.
EvictService(id) ==
    /\ pc[Monitor] = "evict"
    /\ id \in invalidServices
    /\ services' = [services EXCEPT ![id] = NoService]
    /\ invalidServices' = invalidServices \ {id}
    /\ victim' = id
    /\ Goto(Monitor, "evictPeer")
    /\ UNCHANGED <<servicePeerMapping, mutex, alive, arg, inbox, topicPeers,
                   availablePeers, readerVars, listing>>

\* Wrong variant: only services is deleted from.
EvictMappingForgotten ==
    /\ pc[Monitor] = "evictPeer"
    /\ victim' = NoService
    /\ Goto(Monitor, "evict")
    /\ UNCHANGED <<tables, mutex, alive, arg, inbox, topicPeers,
                   availablePeers, invalidServices, readerVars, listing>>

EvictMapping ==
    /\ pc[Monitor] = "evictPeer"
    /\ servicePeerMapping' = [servicePeerMapping EXCEPT ![victim] = NoPeer]
    /\ victim' = NoService
    /\ Goto(Monitor, "evict")
    /\ UNCHANGED <<services, mutex, alive, arg, inbox, topicPeers,
                   availablePeers, invalidServices, readerVars, listing>>

\* The loop is over and m is what becomes of the mutex.
EvictEnds(m) ==
    /\ pc[Monitor] = "evict"
    /\ invalidServices = {}
    /\ mutex' = m
    /\ availablePeers' = {}
    /\ Goto(Monitor, "idle")
    /\ UNCHANGED <<tables, alive, arg, inbox, topicPeers, invalidServices,
                   victim, readerVars, listing>>

\* Wrong variant: the mutex is not released.
EvictDoneLocked == EvictEnds(mutex)

EvictDone == EvictEnds(Free)
-------------------------------------------------------------------------------
(* Readers                                                                 *)

\* The reply of a GET handler: the keys of servicePeerMapping, or the records
\* of services, all of them or those the other map selects.
Reply(kind) ==
    LET Mapped(P) == {id \in ServiceIds : servicePeerMapping[id] \in P}
        Records(ids) == [ids |-> {}, records |-> {services[id] : id \in ids}]
    IN  CASE kind = "all"    -> Records({id \in ServiceIds : services[id] # NoService})
          [] kind = "local"  -> Records(Mapped({Self}))
          [] kind = "remote" -> Records(Mapped(Peers))
          [] kind = "peers"  -> [ids |-> Mapped(Peers \cup {Self}), records |-> {}]

Lists(kind) ==
    /\ listing' = Reply(kind)
    /\ UNCHANGED <<tables, mutex, alive, pc, arg, inbox, topicPeers,
                   monitorVars, readerVars>>

\* Wrong variant: the maps are copied without the mutex.
ListUnlocked(kind) == Lists(kind)

\* The GET handlers of the management API copy the maps under the mutex.
List(kind) == mutex = Free /\ Lists(kind)

\* The HTTP forwarder has the service's name and starts to log the whole of
\* servicePeerMapping, without the mutex.
ClientRequest(c, id) ==
    /\ pc[c] = "idle"
    /\ want' = [want EXCEPT ![c] = id]
    /\ Goto(c, "dump")
    /\ UNCHANGED <<tables, mutex, alive, arg, inbox, topicPeers, monitorVars,
                   peerFound, result, listing>>

ClientLogged(c) ==
    /\ pc[c] = "dump"
    /\ Goto(c, "lookup")
    /\ UNCHANGED <<tables, mutex, alive, arg, inbox, topicPeers, monitorVars,
                   readerVars, listing>>

\* mutex.Lock and servicePeerMapping; 404 when it has no entry.  The mutex is
\* then at missing, and otherwise at found.
LookupPeerAs(c, missing, found) ==
    /\ pc[c] = "lookup"
    /\ mutex = Free
    /\ peerFound' = [peerFound EXCEPT ![c] = servicePeerMapping[want[c]]]
    /\ IF servicePeerMapping[want[c]] = NoPeer
         THEN /\ result' = [result EXCEPT ![c] = [tag |-> "notFound"]]
              /\ Goto(c, "done")
              /\ mutex' = missing
         ELSE /\ mutex' = found
              /\ Goto(c, "service")
              /\ UNCHANGED result
    /\ UNCHANGED <<tables, alive, arg, inbox, topicPeers, monitorVars, want,
                   listing>>

\* Wrong variants: the mutex is released between the two reads; it stays
\* locked when the service is not found.
LookupPeerReleases(c) == LookupPeerAs(c, Free, Free)
LookupPeerKeepsLock(c) == LookupPeerAs(c, c, c)

LookupPeer(c) == LookupPeerAs(c, Free, c)

\* services, Unlock, then the check that the record has a provider.
LookupService(c) ==
    /\ pc[c] = "service"
    /\ LET svc == services[want[c]]
       IN  result' = [result EXCEPT ![c] =
             IF svc = NoService THEN [tag |-> "dataMissing"]
             ELSE [tag |-> IF svc \in Bare THEN "dataError" ELSE "forward",
                   svc |-> svc, peer |-> peerFound[c]]]
    /\ mutex' = Free
    /\ Goto(c, "done")
    /\ UNCHANGED <<tables, alive, arg, inbox, topicPeers, monitorVars, want,
                   peerFound, listing>>

\* The request goes on with the answer (HttpForward); its goroutine may be
\* used for another request.
ClientDone(c) ==
    /\ pc[c] = "done"
    /\ result' = [result EXCEPT ![c] = NoOutcome]
    /\ peerFound' = [peerFound EXCEPT ![c] = NoPeer]
    /\ want' = [want EXCEPT ![c] = NoService]
    /\ Goto(c, "idle")
    /\ UNCHANGED <<tables, mutex, alive, arg, inbox, topicPeers, monitorVars,
                   listing>>

\* A service side gateway is asked for a service and reads its record
\* without the mutex.
ProxyRequest(x, id) ==
    /\ pc[x] = "idle"
    /\ want' = [want EXCEPT ![x] = id]
    /\ Goto(x, "read")
    /\ UNCHANGED <<tables, mutex, alive, arg, inbox, topicPeers, monitorVars,
                   peerFound, result, listing>>

ProxyRead(x) ==
    /\ pc[x] = "read"
    /\ services[want[x]] \notin Bare \cup {NoService}
    /\ want' = [want EXCEPT ![x] = NoService]
    /\ Goto(x, "idle")
    /\ UNCHANGED <<tables, mutex, alive, arg, inbox, topicPeers, monitorVars,
                   peerFound, result, listing>>

\* Providers[0] of a record without providers, or of the zero record of a
\* service that is gone: index out of range.
ProxyReadPanics(x) ==
    /\ pc[x] = "read"
    /\ services[want[x]] \in Bare \cup {NoService}
    /\ Crash

\* The runtime may notice that a map is written while it is read without
\* the mutex, and then ends the process.
ConcurrentMapThrow ==
    /\ \/ /\ \E c \in Clients : pc[c] = "dump"
          /\ \E p \in Procs : pc[p] \in {"mapping", "evictPeer"}
       \/ /\ \E x \in Proxies : pc[x] = "read"
          /\ \/ mutex = Free /\ \E w \in Writers : pc[w] = "apply"
             \/ pc[Monitor] = "evict" /\ invalidServices # {}
    /\ Crash
-------------------------------------------------------------------------------
(* The network                                                             *)

PeerJoin(p) ==
    /\ p \notin topicPeers
    /\ topicPeers' = topicPeers \cup {p}
    /\ UNCHANGED <<tables, mutex, alive, pc, arg, inbox, monitorVars,
                   readerVars, listing>>

PeerLeave(p) ==
    /\ p \in topicPeers
    /\ topicPeers' = topicPeers \ {p}
    /\ UNCHANGED <<tables, mutex, alive, pc, arg, inbox, monitorVars,
                   readerVars, listing>>

\* pubsub delivers a message it received from p; it drops the message when
\* the subscription's buffer is full.
RemoteMessage(p, m) ==
    /\ p \in topicPeers
    /\ Len(inbox) < MaxInbox
    /\ m.from = p
    /\ inbox' = Append(inbox, m)
    /\ UNCHANGED <<tables, mutex, alive, pc, arg, topicPeers, monitorVars,
                   readerVars, listing>>
-------------------------------------------------------------------------------
Environment ==
    \/ \E p \in Peers : PeerJoin(p) \/ PeerLeave(p)
    \/ \E p \in Peers, m \in Messages \cup Garbled : RemoteMessage(p, m)
    \/ \E h \in Handlers, id \in ServiceIds, svc \in Contents \cup {NoService} :
         MgmtRequest(h, id, svc)
    \/ \E h \in Handlers : MgmtBadBody(h) \/ PublishFails(h)
    \/ \E kind \in Kinds : List(kind)
    \/ \E c \in Clients, id \in ServiceIds : ClientRequest(c, id)
    \/ \E x \in Proxies, id \in ServiceIds : ProxyRequest(x, id)
    \/ ConcurrentMapThrow

WriterStep(w) == WriteServices(w) \/ WriteMapping(w)
MonitorStep ==
    \/ Tick
    \/ Scan
    \/ \E id \in ServiceIds : EvictService(id)
    \/ EvictMapping
    \/ EvictDone
ClientStep(c) ==
    ClientLogged(c) \/ LookupPeer(c) \/ LookupService(c) \/ ClientDone(c)
ProxyStep(x) == ProxyRead(x) \/ ProxyReadPanics(x)

System ==
    \/ \E w \in Writers : WriterStep(w)
    \/ \E h \in Handlers : Publish(h)
    \/ ListenerNext
    \/ MonitorStep
    \/ \E c \in Clients : ClientStep(c)
    \/ \E x \in Proxies : ProxyStep(x)

Next == alive /\ (Environment \/ System)

Spec == Init /\ [][Next]_vars

(***************************************************************************)
(* Every goroutine that can run does run.  A goroutine that waits for the  *)
(* mutex gets it although others take it in between: a Go mutex hands      *)
(* itself to a waiter that has been starving (hence strong fairness).      *)
(***************************************************************************)
Fairness ==
    /\ \A w \in Writers :
         SF_vars(alive /\ WriteServices(w)) /\ WF_vars(alive /\ WriteMapping(w))
    /\ \A h \in Handlers : WF_vars(alive /\ (Publish(h) \/ PublishFails(h)))
    /\ WF_vars(alive /\ ListenerNext)
    /\ SF_vars(alive /\ Scan)
    /\ WF_vars(alive /\ MonitorStep)
    /\ \A c \in Clients :
         SF_vars(alive /\ LookupPeer(c)) /\ WF_vars(alive /\ ClientStep(c))
    /\ \A x \in Proxies : WF_vars(alive /\ ProxyStep(x))

FairSpec == Spec /\ Fairness
-------------------------------------------------------------------------------
(* Properties                                                              *)

\* Somebody holds the mutex and has changed services[id] but not yet
\* servicePeerMapping[id].
MidWrite(id) ==
    \/ mutex \in Writers /\ arg[mutex].id = id
    \/ mutex = Monitor /\ victim = id

\* The two maps have the same keys whenever nobody is between the two
\* writes of a registration, deletion or eviction (node.go:164-176,
\* 185-197, 235-241).
MapsAgree ==
    \A id \in ServiceIds :
      MidWrite(id) \/ (services[id] = NoService <=> servicePeerMapping[id] = NoPeer)

\* No interleaving of registrations, deletions and evictions takes a client
\* request to the "Service data missing" branch that the forwarder keeps for
\* an internal error (csgw_http.go:129-135).
NoDataMissing == \A c \in Clients : result[c].tag # "dataMissing"

\* Goroutines between mutex.Lock and the last access it protects.
InLock == {p \in Procs : pc[p] \in {"mapping", "evict", "evictPeer", "service"}}

\* Writers, the monitor and lookups exclude one another on all of their paths,
\* so that an access at the same time as a write is always one of the reads
\* that do without the mutex: the log line of the forwarder and the stream
\* handlers (csgw_http.go:118, node_proxy_handler.go:49, 217).
OnlyUnlockedReadsRace ==
    \A p, q \in Procs : p \in InLock /\ (q \in InLock \/ q = mutex) => p = q

\* A reply of GET /service/, /service/local or /service/remote has no blank
\* record (the zero value of a key that is in one map only), and GET
\* /service/peers names no service that has no record
\* (node_mgmt_handler.go:29-61, 86-118).
ListingsWhole ==
    [][listing' # listing =>
         /\ NoService \notin listing'.records
         /\ \A id \in listing'.ids : services[id] # NoService]_vars

\* A service registered through this gateway's own management API leaves
\* the table only when a deletion of it is applied, by a management handler
\* or by the listener: never because UpdatePeers evicts services of other
\* peers at the same time (node.go:217-220).
LocalLeavesByDeletion ==
    [][\A id \in ServiceIds :
         (/\ servicePeerMapping[id] = Self
          /\ services[id] # NoService
          /\ services'[id] = NoService)
         => \E w \in Writers : mutex' = w /\ arg[w].id = id /\ arg[w].svc = NoService
      ]_vars

\* The directory the two maps stand for: while a registration is between its
\* two writes, the peer it is about to store counts as stored.
AbsDirectory ==
    [id \in ServiceIds |->
       IF services[id] = NoService THEN NoService
       ELSE [svc |-> services[id],
             peer |-> IF mutex \in Writers /\ arg[mutex].id = id
                        THEN arg[mutex].from
                        ELSE servicePeerMapping[id]]]

AbsAnswers ==
    [c \in Clients |->
       IF result[c].tag \in {"dataError", "forward"}
         THEN [svc |-> result[c].svc, peer |-> result[c].peer]
         ELSE NoService]

Dir == INSTANCE ServiceDirectory WITH
         directory <- AbsDirectory, answers <- AbsAnswers, None <- NoService

\* The two maps, written one after the other by several goroutines, behave
\* as one directory with atomic updates, and a client never gets the record
\* of one registration with the peer of another (csgw_http.go:120-136).
ImplementsDirectory == Dir!DirSpec

\* A management request is done in the end, unless the process dies: the
\* handler gets the mutex, applies the update and broadcasts it
\* (node.go:163-181).
RequestsComplete ==
    \A h \in Handlers : pc[h] # "idle" ~> (pc[h] = "idle" \/ ~alive)

\* A client's lookup gets an answer in the end (csgw_http.go:118-141).
LookupsComplete ==
    \A c \in Clients : pc[c] # "idle" ~> (pc[c] \in {"done", "idle"} \/ ~alive)

\* Once a peer is gone for good, no service stays mapped to it: whatever was
\* still in the subscription when it left is applied and evicted again
\* (node.go:206-244).
DepartedPeersEvicted ==
    \A p \in Peers :
      <>[](p \notin topicPeers) =>
        <>[](~alive \/ \A id \in ServiceIds : servicePeerMapping[id] # p)
===============================================================================
