---------------------------- MODULE GossipRegistry ----------------------------
(***************************************************************************)
(* The service tables of a network of gateways, and the pubsub topic       *)
(* broadcast_local_services that is all that keeps them alike.             *)
(*                                                                         *)
(* A gateway applies a registration to its own table and then broadcasts   *)
(* it, once (node.go:163-181).  pubsub puts the messages a gateway         *)
(* receives, and its own, into the buffer of its subscription, from which  *)
(* its listener takes one at a time, skips its own and stores the service  *)
(* under the peer it was received from (node.go:128-150); pubsub passes    *)
(* messages on whatever the listener does.  Each gateway's two maps are    *)
(* one table here: NodeRegistryProofs shows that they act as one.          *)
(*                                                                         *)
(* pubsub (github.com/libp2p/go-libp2p-pubsub) is external.  What the      *)
(* model uses of it: a message goes to every peer of the topic but the one *)
(* it came from and its author; a message seen before, or written by the   *)
(* gateway itself, is ignored; signatures are verified by several workers, *)
(* so messages overtake each other; messages on a broken connection are    *)
(* lost unless they have been read already; a recent message may be        *)
(* offered again to a peer that lacks it; a message for a subscription     *)
(* whose buffer is full is dropped there.                                  *)
(***************************************************************************)
EXTENDS Naturals, Sequences

CONSTANTS
    Nodes,        \* gateways
    Registrars,   \* gateways whose clients register services
    ServiceIds,
    Contents,     \* service records
    NoService,    \* a deleted service, and no entry in a table
    StartLinks,   \* the connections at the start
    MaxInbox,     \* slots of the pubsub subscription
    MaxUpdates,   \* bound: management requests
    MaxChurn,     \* bound: crashes, restarts, connections made and broken
    MaxEvents     \* bound: the two together

ASSUME GossipAssumption ==
    /\ Registrars \subseteq Nodes
    /\ NoService \notin Contents
    /\ \A l \in StartLinks : \E a, b \in Nodes : a # b /\ l = {a, b}
    /\ MaxInbox \in Nat
    /\ MaxUpdates \in Nat
    /\ MaxChurn \in Nat

VARIABLES
    table,        \* table[n][id]: [svc, peer], or NoService
    unsent,       \* unsent[n]: updates applied at n that wait for Publish
    wire,         \* copies of messages between two gateways
    seen,         \* seen[n]: pubsub's seen cache
    inbox,        \* inbox[n]: what waits in serviceBroadcastSub of n
    links,        \* pairs of gateways connected and in each other's topic
    up,           \* gateways that run
    updates,      \* management requests so far
    churn,        \* changes of the network so far
    missed        \* <<n, id>>: n's subscription dropped an update of id (history)

vars == <<table, unsent, wire, seen, inbox, links, up, updates, churn, missed>>

Updates == [seq : 1..MaxUpdates, id : ServiceIds, svc : Contents \cup {NoService},
            origin : Nodes]
Copies == [msg : Updates, from : Nodes, to : Nodes]
Messages == [msg : Updates, from : Nodes]     \* from: ReceivedFrom
Entries == [svc : Contents, peer : Nodes]
Pairs == {{a, b} : a, b \in Nodes} \ {{a} : a \in Nodes}

TypeOK ==
    /\ table \in [Nodes -> [ServiceIds -> Entries \cup {NoService}]]
    /\ unsent \in [Nodes -> SUBSET Updates]
    /\ wire \in SUBSET Copies
    /\ seen \in [Nodes -> SUBSET Updates]
    /\ inbox \in [Nodes -> Seq(Messages)]
    /\ \A n \in Nodes : Len(inbox[n]) <= MaxInbox
    /\ links \in SUBSET Pairs
    /\ up \in SUBSET Nodes
    /\ updates \in 0..MaxUpdates
    /\ churn \in 0..MaxChurn
    /\ missed \in SUBSET (Nodes \X ServiceIds)

Init ==
    /\ table = [n \in Nodes |-> [id \in ServiceIds |-> NoService]]
    /\ unsent = [n \in Nodes |-> {}]
    /\ wire = {}
    /\ seen = [n \in Nodes |-> {}]
    /\ inbox = [n \in Nodes |-> <<>>]
    /\ links = StartLinks
    /\ up = Nodes
    /\ updates = 0
    /\ churn = 0
    /\ missed = {}

\* ListPeers: the gateways n is connected to.
Neighbours(n) == {m \in Nodes : {n, m} \in links /\ m # n}

\* Wrong variant: a deletion leaves an entry behind.
EntryKeepsDeleted(m, p) == [svc |-> m.svc, peer |-> p]

\* What a table holds of a service after the update m, received from p.
Entry(m, p) == IF m.svc = NoService THEN NoService ELSE [svc |-> m.svc, peer |-> p]

\* The table of n after the update m, received from p.
Applied(n, m, p) == [table EXCEPT ![n][m.id] = Entry(m, p)]

\* Copies of m that n sends to the peers in P.
CopiesTo(n, m, P) == {[msg |-> m, from |-> n, to |-> q] : q \in P}

\* pubsub hands m, received from p, to the subscription of n.
Notify(n, m, p) ==
    IF Len(inbox[n]) < MaxInbox
      THEN /\ inbox' = [inbox EXCEPT ![n] = Append(@, [msg |-> m, from |-> p])]
           /\ UNCHANGED missed
      ELSE /\ missed' = IF p = n THEN missed ELSE missed \cup {<<n, m.id>>}
           /\ UNCHANGED inbox
-------------------------------------------------------------------------------
\* RegisterLocalService up to Unlock, for a POST or DELETE at gateway n.
RegisterLocalService(n, id, svc) ==
    /\ n \in up
    /\ updates < MaxUpdates /\ updates + churn < MaxEvents
    /\ LET m == [seq |-> updates + 1, id |-> id, svc |-> svc, origin |-> n]
       IN  /\ table' = Applied(n, m, n)
           /\ unsent' = [unsent EXCEPT ![n] = @ \cup {m}]
    /\ updates' = updates + 1
    /\ UNCHANGED <<wire, seen, inbox, links, up, churn, missed>>

\* BroadcastService, by the handler that applied m; other handlers of n may
\* have applied and broadcast later updates in between.
BroadcastService(n, m) ==
    /\ m \in unsent[n]
    /\ unsent' = [unsent EXCEPT ![n] = @ \ {m}]
    /\ seen' = [seen EXCEPT ![n] = @ \cup {m}]
    /\ wire' = wire \cup CopiesTo(n, m, Neighbours(n))
    /\ Notify(n, m, n)
    /\ UNCHANGED <<table, links, up, updates, churn>>

\* Wrong variant: messages are not passed on.
ReceiveWithoutForwarding(c) ==
    /\ c \in wire
    /\ wire' = wire \ {c}
    /\ IF c.msg \in seen[c.to] \/ c.msg.origin = c.to
         THEN UNCHANGED <<seen, inbox, missed>>
         ELSE /\ seen' = [seen EXCEPT ![c.to] = @ \cup {c.msg}]
              /\ Notify(c.to, c.msg, c.from)
    /\ UNCHANGED <<table, unsent, links, up, updates, churn>>

\* pubsub of c.to receives a copy; a new message goes to the subscription and
\* to the other peers.
Receive(c) ==
    /\ c \in wire
    /\ IF c.msg \in seen[c.to] \/ c.msg.origin = c.to
         THEN /\ wire' = wire \ {c}
              /\ UNCHANGED <<seen, inbox, missed>>
         ELSE /\ seen' = [seen EXCEPT ![c.to] = @ \cup {c.msg}]
              /\ Notify(c.to, c.msg, c.from)
              /\ wire' = (wire \ {c}) \cup
                         CopiesTo(c.to, c.msg,
                                  Neighbours(c.to) \ {c.from, c.msg.origin})
    /\ UNCHANGED <<table, unsent, links, up, updates, churn>>

\* Wrong variant: the listener applies the gateway's own broadcasts too.
ListenToOwnToo(n) ==
    /\ inbox[n] # <<>>
    /\ inbox' = [inbox EXCEPT ![n] = Tail(@)]
    /\ table' = Applied(n, Head(inbox[n]).msg, Head(inbox[n]).from)
    /\ UNCHANGED <<unsent, wire, seen, links, up, updates, churn, missed>>

\* An iteration of StartListeningOnServiceBroadcast at n, which skips what n
\* sent itself and runs RegisterRemoteService with the sender of the rest.
Listen(n) ==
    /\ inbox[n] # <<>>
    /\ inbox' = [inbox EXCEPT ![n] = Tail(@)]
    /\ table' = IF Head(inbox[n]).from = n
                  THEN table
                  ELSE Applied(n, Head(inbox[n]).msg, Head(inbox[n]).from)
    /\ UNCHANGED <<unsent, wire, seen, links, up, updates, churn, missed>>

\* pubsub offers a recent message to a peer that does not have it, which may
\* be its author, started again.
OfferAgain(a, b, m) ==
    /\ b \in Neighbours(a)
    /\ m \in seen[a] \ seen[b]
    /\ wire' = wire \cup CopiesTo(a, m, {b})
    /\ UNCHANGED <<table, unsent, seen, inbox, links, up, updates, churn, missed>>

\* Wrong variant: only the services of gateways that have stopped are stale.
StaleIfStopped(n) == {id \in ServiceIds :
                        /\ table[n][id] # NoService
                        /\ table[n][id].peer \notin up}

\* A round of UpdatePeers at n: the services whose peer is neither n nor a
\* neighbour.
Stale(n) == {id \in ServiceIds :
               /\ table[n][id] # NoService
               /\ table[n][id].peer \notin Neighbours(n) \cup {n}}

UpdatePeers(n) ==
    /\ n \in up
    /\ Stale(n) # {}
    /\ table' = [table EXCEPT ![n] =
                   [id \in ServiceIds |-> IF id \in Stale(n) THEN NoService ELSE @[id]]]
    /\ UNCHANGED <<unsent, wire, seen, inbox, links, up, updates, churn, missed>>
-------------------------------------------------------------------------------
(* The network                                                             *)

Connect(a, b) ==
    /\ a # b
    /\ {a, b} \subseteq up
    /\ {a, b} \notin links
    /\ churn < MaxChurn /\ updates + churn < MaxEvents
    /\ links' = links \cup {{a, b}}
    /\ churn' = churn + 1
    /\ UNCHANGED <<table, unsent, wire, seen, inbox, up, updates, missed>>

Disconnect(a, b) ==
    /\ {a, b} \in links
    /\ churn < MaxChurn /\ updates + churn < MaxEvents
    /\ links' = links \ {{a, b}}
    /\ \E read \in SUBSET {c \in wire : {c.from, c.to} = {a, b}} :
         wire' = {c \in wire : {c.from, c.to} # {a, b}} \cup read
    /\ churn' = churn + 1
    /\ UNCHANGED <<table, unsent, seen, inbox, up, updates, missed>>

\* The process of n ends; it keeps nothing.
Stop(n) ==
    /\ n \in up
    /\ churn < MaxChurn /\ updates + churn < MaxEvents
    /\ up' = up \ {n}
    /\ links' = {l \in links : n \notin l}
    /\ \E read \in SUBSET {c \in wire : c.from = n} :
         wire' = {c \in wire : n \notin {c.from, c.to}} \cup read
    /\ table' = [table EXCEPT ![n] = [id \in ServiceIds |-> NoService]]
    /\ unsent' = [unsent EXCEPT ![n] = {}]
    /\ seen' = [seen EXCEPT ![n] = {}]
    /\ inbox' = [inbox EXCEPT ![n] = <<>>]
    /\ churn' = churn + 1
    /\ UNCHANGED <<updates, missed>>

\* It is started again under the same identity (-secret-key).
Start(n) ==
    /\ n \notin up
    /\ churn < MaxChurn /\ updates + churn < MaxEvents
    /\ up' = up \cup {n}
    /\ churn' = churn + 1
    /\ UNCHANGED <<table, unsent, wire, seen, inbox, links, updates, missed>>
-------------------------------------------------------------------------------
Pubsub ==
    \/ \E c \in wire : Receive(c)
    \/ \E n \in Nodes : \E m \in unsent[n] : BroadcastService(n, m)

Next ==
    \/ \E n \in Registrars, id \in ServiceIds, svc \in Contents \cup {NoService} :
         RegisterLocalService(n, id, svc)
    \/ Pubsub
    \/ \E a, b \in Nodes : \E m \in seen[a] : OfferAgain(a, b, m)
    \/ \E n \in Nodes : Listen(n) \/ UpdatePeers(n)
    \/ \E a, b \in Nodes : Connect(a, b) \/ Disconnect(a, b)
    \/ \E n \in Nodes : Stop(n) \/ Start(n)

Spec == Init /\ [][Next]_vars

(***************************************************************************)
(* Handlers, listeners and pubsub make progress and UpdatePeers runs every *)
(* second.                                                                 *)
(* Nothing makes pubsub offer a message again once it is a few seconds     *)
(* old, nor anybody connect, so those actions are not fair.                *)
(***************************************************************************)
Fairness ==
    /\ WF_vars(Pubsub)
    /\ \A n \in Nodes : WF_vars(Listen(n)) /\ WF_vars(UpdatePeers(n))

FairSpec == Spec /\ Fairness
-------------------------------------------------------------------------------
(* Properties                                                              *)

\* What n knows of id since it started: updates of its own clients and updates
\* it received.
Known(n, id) == {m \in seen[n] \cup unsent[n] : m.id = id}

\* A gateway that knows of no updates of a service but those of its own
\* clients holds it exactly as the last of them left it: neither its own
\* broadcasts, which reach its listener while later requests are handled,
\* nor echoes of what it broadcast before a restart, nor UpdatePeers undo
\* that (node.go:138, 166-174, 216-218).
LocalUpdatesStand ==
    \A n \in Nodes, id \in ServiceIds :
      (\A m \in Known(n, id) : m.origin = n) =>
        /\ Known(n, id) = {} => table[n][id] = NoService
        /\ \A m \in Known(n, id) :
             (\A k \in Known(n, id) : k.seq <= m.seq) => table[n][id] = Entry(m, n)

\* When the network has stopped changing, every gateway ends up with
\* services of itself and of its neighbours only, whatever was still being
\* delivered when a connection broke (node.go:206-244).
TablesSettle ==
    <>[](\A n \in up, id \in ServiceIds :
           table[n][id] = NoService \/ table[n][id].peer \in Neighbours(n) \cup {n})

\* All updates of id that anybody has applied.
UpdatesOf(id) == {m \in UNION {seen[n] \cup unsent[n] : n \in Nodes} : m.id = id}

\* n has the service as update m left it.
Carries(n, m) ==
    IF m.svc = NoService THEN table[n][m.id] = NoService
    ELSE table[n][m.id] # NoService /\ table[n][m.id].svc = m.svc

\* In a network that is connected at the start and does not change, every
\* gateway whose subscription dropped no update of a service ends up, over
\* several hops where need be and whatever other subscriptions dropped, with
\* the service as one of its updates left it, for good (node.go:128-161,
\* 183-198).  When there is only one update that is the one; which of several
\* it is may differ between gateways, since messages overtake each other.
RegistrationSpreads ==
    <>[](\/ churn > 0
         \/ \A n \in Nodes, id \in ServiceIds :
              UpdatesOf(id) # {} /\ <<n, id>> \notin missed
                => \E m \in UpdatesOf(id) : Carries(n, m))

\* "forward http service request from client to correct gateway that
\* registered the service" (csgw_http.go:96): the peer stored for a service
\* is a gateway at which that record was registered.
ForwardsToRegistrar ==
    \A n \in Nodes, id \in ServiceIds :
      table[n][id] # NoService =>
        \E m \in UpdatesOf(id) : m.svc = table[n][id].svc /\ m.origin = table[n][id].peer
===============================================================================
