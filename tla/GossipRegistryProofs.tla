------------------------- MODULE GossipRegistryProofs -------------------------
(***************************************************************************)
(* Proofs about GossipRegistry, for any network of gateways and any number *)
(* of updates and changes of the network.                                  *)
(***************************************************************************)
EXTENDS GossipRegistry, TLAPS

LEMMA GossipInitInv == Init => TypeOK
<1> SUFFICES ASSUME Init PROVE TypeOK
  OBVIOUS
<1>1. links \in SUBSET Pairs
  <2>1. \A l \in StartLinks : \E a, b \in Nodes : a # b /\ l = {a, b}
    BY GossipAssumption
  <2>2. ASSUME NEW l \in StartLinks PROVE l \in Pairs
    <3>1. PICK a \in Nodes, b \in Nodes : a # b /\ l = {a, b}
      BY <2>1
    <3>2. l \notin {{n} : n \in Nodes}
      BY <3>1
    <3> QED
      BY <3>1, <3>2 DEF Pairs
  <2> QED
    BY <2>2 DEF Init
<1>2. updates \in 0..MaxUpdates /\ churn \in 0..MaxChurn
  BY GossipAssumption DEF Init
<1>3. inbox \in [Nodes -> Seq(Messages)] /\ \A n \in Nodes : Len(inbox[n]) <= MaxInbox
  BY GossipAssumption DEF Init
<1> QED
  BY <1>1, <1>2, <1>3 DEF Init, TypeOK

\* An update leaves the table a table.
LEMMA AppliedType ==
    ASSUME TypeOK, NEW n \in Nodes, NEW m \in Updates, NEW p \in Nodes
    PROVE  Applied(n, m, p) \in [Nodes -> [ServiceIds -> Entries \cup {NoService}]]
<1>1. m.id \in ServiceIds /\ Entry(m, p) \in Entries \cup {NoService}
  BY DEF Updates, Entries, Entry
<1> QED
  BY <1>1 DEF Applied, TypeOK

\* What is sent are copies of updates between gateways.
LEMMA CopiesType ==
    ASSUME NEW n \in Nodes, NEW m \in Updates, NEW P \in SUBSET Nodes
    PROVE  CopiesTo(n, m, P) \in SUBSET Copies
  BY DEF CopiesTo, Copies

\* A notification leaves the subscriptions within their bounds.
LEMMA NotifyType ==
    ASSUME TypeOK, NEW n \in Nodes, NEW m \in Updates, NEW p \in Nodes, Notify(n, m, p)
    PROVE  /\ inbox' \in [Nodes -> Seq(Messages)]
           /\ \A k \in Nodes : Len(inbox'[k]) <= MaxInbox
           /\ missed' \in SUBSET (Nodes \X ServiceIds)
<1> USE GossipAssumption
<1> DEFINE e == [msg |-> m, from |-> p]
<1>1. e \in Messages /\ <<n, m.id>> \in Nodes \X ServiceIds
  BY DEF Messages, Updates
<1>2. missed' \in SUBSET (Nodes \X ServiceIds)
  BY <1>1 DEF Notify, TypeOK
<1>3. CASE Len(inbox[n]) < MaxInbox
  <2>1. inbox' = [inbox EXCEPT ![n] = Append(inbox[n], e)]
    BY <1>3 DEF Notify
  <2> HIDE DEF e
  <2>2. inbox[n] \in Seq(Messages)
    BY DEF TypeOK
  <2>3. Append(inbox[n], e) \in Seq(Messages) /\ Len(Append(inbox[n], e)) = Len(inbox[n]) + 1
    BY <1>1, <2>2
  <2>4. Len(inbox[n]) + 1 <= MaxInbox
    BY <1>3, <2>2
  <2> QED
    BY <1>2, <2>1, <2>3, <2>4 DEF TypeOK
<1>4. CASE ~(Len(inbox[n]) < MaxInbox)
  BY <1>2, <1>4 DEF Notify, TypeOK
<1> QED
  BY <1>3, <1>4

\* What the listener takes is a message, and one message fewer waits.
LEMMA TakeType ==
    ASSUME TypeOK, NEW n \in Nodes, inbox[n] # <<>>,
           inbox' = [inbox EXCEPT ![n] = Tail(@)]
    PROVE  /\ inbox' \in [Nodes -> Seq(Messages)]
           /\ \A k \in Nodes : Len(inbox'[k]) <= MaxInbox
           /\ Head(inbox[n]) \in Messages
           /\ Head(inbox[n]) = inbox[n][1] /\ 1 \in 1..Len(inbox[n])
<1> USE GossipAssumption
<1>1. inbox[n] \in Seq(Messages) /\ Len(inbox[n]) <= MaxInbox
  BY DEF TypeOK
<1>2. /\ Tail(inbox[n]) \in Seq(Messages) /\ Len(Tail(inbox[n])) = Len(inbox[n]) - 1
      /\ Head(inbox[n]) \in Messages /\ Head(inbox[n]) = inbox[n][1]
      /\ 1 \in 1..Len(inbox[n])
  BY <1>1
<1>3. Len(Tail(inbox[n])) <= MaxInbox
  BY <1>1, <1>2
<1> QED
  BY <1>2, <1>3 DEF TypeOK

LEMMA GossipNextInv == TypeOK /\ [Next]_vars => TypeOK'
<1> SUFFICES ASSUME TypeOK, [Next]_vars PROVE TypeOK'
  OBVIOUS
<1> USE GossipAssumption
<1>1. CASE UNCHANGED vars
  BY <1>1 DEF vars, TypeOK
<1>2. ASSUME NEW n \in Registrars, NEW id \in ServiceIds, NEW svc \in Contents \cup {NoService},
             RegisterLocalService(n, id, svc)
      PROVE  TypeOK'
  <2> DEFINE m == [seq |-> updates + 1, id |-> id, svc |-> svc, origin |-> n]
  <2>1. /\ updates + 1 \in 1..MaxUpdates /\ updates + 1 \in 0..MaxUpdates
        /\ n \in Nodes
    BY <1>2 DEF RegisterLocalService, TypeOK
  <2>2. m \in Updates
    BY <2>1 DEF Updates
  <2>3. /\ table' = Applied(n, m, n)
        /\ unsent' = [unsent EXCEPT ![n] = @ \cup {m}]
        /\ updates' = updates + 1
        /\ UNCHANGED <<wire, seen, inbox, links, up, churn, missed>>
    BY <1>2 DEF RegisterLocalService
  <2> HIDE DEF m
  <2>4. table' \in [Nodes -> [ServiceIds -> Entries \cup {NoService}]]
    BY <2>1, <2>2, <2>3, AppliedType
  <2> QED
    BY <2>1, <2>2, <2>3, <2>4 DEF TypeOK
<1>3. ASSUME NEW c \in wire, Receive(c) PROVE TypeOK'
  <2>1. /\ c \in Copies /\ c.msg \in Updates /\ c.from \in Nodes /\ c.to \in Nodes
    BY DEF TypeOK, Copies
  <2>2. /\ inbox' \in [Nodes -> Seq(Messages)]
        /\ \A k \in Nodes : Len(inbox'[k]) <= MaxInbox
        /\ missed' \in SUBSET (Nodes \X ServiceIds)
    <3>1. CASE c.msg \in seen[c.to] \/ c.msg.origin = c.to
      BY <1>3, <3>1 DEF Receive, TypeOK
    <3>2. CASE ~(c.msg \in seen[c.to] \/ c.msg.origin = c.to)
      BY <1>3, <2>1, <3>2, NotifyType DEF Receive
    <3> QED
      BY <3>1, <3>2
  <2>3. wire' \in SUBSET Copies
    <3>1. CopiesTo(c.to, c.msg, Neighbours(c.to) \ {c.from, c.msg.origin}) \in SUBSET Copies
      BY <2>1, CopiesType DEF Neighbours
    <3> QED
      BY <1>3, <3>1 DEF Receive, TypeOK
  <2>4. seen' \in [Nodes -> SUBSET Updates]
    <3>1. seen' = seen \/ seen' = [seen EXCEPT ![c.to] = @ \cup {c.msg}]
      BY <1>3 DEF Receive
    <3>2. seen \in [Nodes -> SUBSET Updates]
      BY DEF TypeOK
    <3> QED
      BY <2>1, <3>1, <3>2
  <2> QED
    BY <1>3, <2>2, <2>3, <2>4 DEF Receive, TypeOK
<1>4. ASSUME NEW n \in Nodes, NEW m \in unsent[n], BroadcastService(n, m) PROVE TypeOK'
  <2>1. m \in Updates
    BY DEF TypeOK
  <2>2. CopiesTo(n, m, Neighbours(n)) \in SUBSET Copies
    BY <2>1, CopiesType DEF Neighbours
  <2>3. /\ inbox' \in [Nodes -> Seq(Messages)]
        /\ \A k \in Nodes : Len(inbox'[k]) <= MaxInbox
        /\ missed' \in SUBSET (Nodes \X ServiceIds)
    BY <1>4, <2>1, NotifyType DEF BroadcastService
  <2> QED
    BY <1>4, <2>1, <2>2, <2>3 DEF BroadcastService, TypeOK
<1>5. ASSUME NEW a \in Nodes, NEW b \in Nodes, NEW m \in seen[a], OfferAgain(a, b, m)
      PROVE  TypeOK'
  <2>1. m \in Updates
    BY DEF TypeOK
  <2>2. CopiesTo(a, m, {b}) \in SUBSET Copies
    BY <2>1, CopiesType
  <2> QED
    BY <1>5, <2>2 DEF OfferAgain, TypeOK
<1>6. ASSUME NEW n \in Nodes, UpdatePeers(n) PROVE TypeOK'
  BY <1>6 DEF UpdatePeers, TypeOK
<1>7. ASSUME NEW a \in Nodes, NEW b \in Nodes, Connect(a, b) PROVE TypeOK'
  <2>1. {a, b} \in Pairs
    BY <1>7 DEF Connect, Pairs
  <2>2. churn + 1 \in 0..MaxChurn
    BY <1>7 DEF Connect, TypeOK
  <2> QED
    BY <1>7, <2>1, <2>2 DEF Connect, TypeOK
<1>8. ASSUME NEW a \in Nodes, NEW b \in Nodes, Disconnect(a, b) PROVE TypeOK'
  <2>1. churn + 1 \in 0..MaxChurn
    BY <1>8 DEF Disconnect, TypeOK
  <2>2. wire' \subseteq wire
    BY <1>8 DEF Disconnect
  <2> QED
    BY <1>8, <2>1, <2>2 DEF Disconnect, TypeOK
<1>9. ASSUME NEW n \in Nodes, Stop(n) PROVE TypeOK'
  <2>1. churn + 1 \in 0..MaxChurn
    BY <1>9 DEF Stop, TypeOK
  <2>2. wire' \subseteq wire
    BY <1>9 DEF Stop
  <2>3. /\ inbox' \in [Nodes -> Seq(Messages)]
        /\ \A k \in Nodes : Len(inbox'[k]) <= MaxInbox
    BY <1>9 DEF Stop, TypeOK
  <2> QED
    BY <1>9, <2>1, <2>2, <2>3 DEF Stop, TypeOK
<1>10. ASSUME NEW n \in Nodes, Start(n) PROVE TypeOK'
  <2>1. churn + 1 \in 0..MaxChurn
    BY <1>10 DEF Start, TypeOK
  <2> QED
    BY <1>10, <2>1 DEF Start, TypeOK
<1>11. ASSUME NEW n \in Nodes, Listen(n) PROVE TypeOK'
  <2>1. /\ inbox' \in [Nodes -> Seq(Messages)]
        /\ \A k \in Nodes : Len(inbox'[k]) <= MaxInbox
        /\ Head(inbox[n]) \in Messages
    BY <1>11, TakeType DEF Listen
  <2>2. Head(inbox[n]).msg \in Updates /\ Head(inbox[n]).from \in Nodes
    BY <2>1 DEF Messages
  <2>3. table' \in [Nodes -> [ServiceIds -> Entries \cup {NoService}]]
    BY <1>11, <2>2, AppliedType DEF Listen, TypeOK
  <2> QED
    BY <1>11, <2>1, <2>3 DEF Listen, TypeOK
<1> QED
  BY <1>1, <1>2, <1>3, <1>4, <1>5, <1>6, <1>7, <1>8, <1>9, <1>10, <1>11 DEF Next, Pubsub

\* The tables hold services attributed to gateways, the wire carries copies
\* of updates between gateways, and connections are between two of them,
\* whatever stops, starts and breaks (node.go:121-244).
THEOREM GossipTypes == Spec => []TypeOK
  BY GossipInitInv, GossipNextInv, PTL DEF Spec

(***************************************************************************)
(* LocalUpdatesStand.  The strengthening says that whatever waits for a    *)
(* listener is known to its gateway and was written elsewhere unless it    *)
(* came from the gateway itself, that updates are numbered in the order    *)
(* they were made, and that what a gateway's own clients alone manage is   *)
(* never attributed to a peer.                                             *)
(***************************************************************************)
FromElsewhere ==
    \A n \in Nodes : \A i \in 1..Len(inbox[n]) :
      /\ inbox[n][i].msg \in seen[n]
      /\ inbox[n][i].from # n => inbox[n][i].msg.origin # n

Numbered ==
    /\ \A n \in Nodes : \A m \in seen[n] \cup unsent[n] : m.seq <= updates
    /\ \A c \in wire : c.msg.seq <= updates

\* All that n knows of id was written by its own clients.
OnlyOwn(n, id) == \A m \in Known(n, id) : m.origin = n

\* m is the last update of id that n knows of.
Last(n, id, m) == m \in Known(n, id) /\ \A k \in Known(n, id) : k.seq <= m.seq

\* The entry of id at n is what n's own clients made it.
Stands(n, id) ==
    /\ table[n][id] = NoService \/ table[n][id].peer = n
    /\ Known(n, id) = {} => table[n][id] = NoService
    /\ \A m : Last(n, id, m) => table[n][id] = Entry(m, n)

OwnEntries == \A n \in Nodes, id \in ServiceIds : OnlyOwn(n, id) => Stands(n, id)

GossipInv == TypeOK /\ FromElsewhere /\ Numbered /\ OwnEntries

LEMMA GossipStart == Init => GossipInv
<1> SUFFICES ASSUME Init PROVE GossipInv
  OBVIOUS
<1>1. TypeOK
  BY GossipInitInv
<1>2. FromElsewhere
  BY DEF Init, FromElsewhere
<1>3. Numbered
  BY DEF Init, Numbered
<1>4. OwnEntries
  BY DEF Init, OwnEntries, OnlyOwn, Stands, Last, Known
<1> QED
  BY <1>1, <1>2, <1>3, <1>4 DEF GossipInv

\* A notification of a message that the gateway knows keeps FromElsewhere.
LEMMA NotifyFrom ==
    ASSUME TypeOK, FromElsewhere, NEW n \in Nodes, NEW m \in Updates, NEW p \in Nodes,
           Notify(n, m, p), p # n => m.origin # n,
           seen' = [seen EXCEPT ![n] = @ \cup {m}]
    PROVE  FromElsewhere'
<1> DEFINE e == [msg |-> m, from |-> p]
<1>1. /\ seen \in [Nodes -> SUBSET Updates] /\ inbox \in [Nodes -> Seq(Messages)]
  BY DEF TypeOK
<1>2. e.msg = m /\ e.from = p /\ e \in Messages
  BY DEF Messages
<1> HIDE DEF e
<1>3. \A k \in Nodes : seen[k] \subseteq seen'[k]
  BY <1>1
<1>4. m \in seen'[n]
  BY <1>1
<1>5. CASE Len(inbox[n]) < MaxInbox
  <2>1. inbox' = [inbox EXCEPT ![n] = Append(inbox[n], e)]
    BY <1>5 DEF Notify, e
  <2>2. SUFFICES ASSUME NEW k \in Nodes, NEW i \in 1..Len(inbox'[k])
                 PROVE  /\ inbox'[k][i].msg \in seen'[k]
                        /\ inbox'[k][i].from # k => inbox'[k][i].msg.origin # k
    BY DEF FromElsewhere
  <2>3. CASE k # n
    BY <1>1, <1>3, <2>1, <2>3 DEF FromElsewhere
  <2>4. CASE k = n
    <3>1. inbox'[k] = Append(inbox[n], e) /\ inbox[n] \in Seq(Messages)
      BY <1>1, <2>1, <2>4
    <3>2. i \in 1..(Len(inbox[n]) + 1)
      BY <1>2, <3>1
    <3>3. CASE i \in 1..Len(inbox[n])
      <4>1. inbox'[k][i] = inbox[n][i]
        BY <1>2, <3>1, <3>3
      <4> QED
        BY <1>3, <2>4, <3>3, <4>1 DEF FromElsewhere
    <3>4. CASE i = Len(inbox[n]) + 1
      <4>1. inbox'[k][i] = e
        BY <1>2, <3>1, <3>4
      <4> QED
        BY <1>2, <1>4, <2>4, <4>1
    <3> QED
      BY <3>1, <3>2, <3>3, <3>4
  <2> QED
    BY <2>3, <2>4
<1>6. CASE ~(Len(inbox[n]) < MaxInbox)
  <2>1. inbox' = inbox
    BY <1>6 DEF Notify
  <2> QED
    BY <1>3, <2>1 DEF FromElsewhere
<1> QED
  BY <1>5, <1>6

\* What does not touch the subscriptions, and forgets no message, keeps it.
LEMMA FromKept ==
    ASSUME FromElsewhere, UNCHANGED <<inbox, seen>>
    PROVE  FromElsewhere'
  BY DEF FromElsewhere

\* A service stands as it did when neither its entry nor what the gateway
\* knows of it changes.
LEMMA StandsKept ==
    ASSUME NEW n \in Nodes, NEW id \in ServiceIds,
           OnlyOwn(n, id) => Stands(n, id),
           Known(n, id)' = Known(n, id), table'[n][id] = table[n][id]
    PROVE  (OnlyOwn(n, id) => Stands(n, id))'
  BY DEF OnlyOwn, Stands, Last

LEMMA RegisterKeeps ==
    ASSUME GossipInv, NEW n \in Nodes, NEW id \in ServiceIds,
           NEW svc \in Contents \cup {NoService}, RegisterLocalService(n, id, svc)
    PROVE  (FromElsewhere /\ Numbered /\ OwnEntries)'
<1> DEFINE m == [seq |-> updates + 1, id |-> id, svc |-> svc, origin |-> n]
<1>1. /\ table' = [table EXCEPT ![n][m.id] = Entry(m, n)]
      /\ unsent' = [unsent EXCEPT ![n] = @ \cup {m}]
      /\ updates' = updates + 1
      /\ UNCHANGED <<wire, seen, inbox>>
  BY DEF RegisterLocalService, Applied
<1>2. m.seq = updates + 1 /\ m.id = id /\ m.origin = n
  OBVIOUS
<1>3. Entry(m, n) = NoService \/ Entry(m, n).peer = n
  BY DEF Entry
<1> HIDE DEF m
<1>4. /\ table \in [Nodes -> [ServiceIds -> Entries \cup {NoService}]]
      /\ unsent \in [Nodes -> SUBSET Updates] /\ seen \in [Nodes -> SUBSET Updates]
      /\ wire \in SUBSET Copies
      /\ updates \in Nat
  BY DEF GossipInv, TypeOK
<1>5. FromElsewhere'
  BY <1>1, FromKept DEF GossipInv
<1>6. /\ \A k \in Nodes : \A u \in seen[k] \cup unsent[k] : u.seq \in Nat /\ u.seq <= updates
      /\ \A c \in wire : c.msg.seq \in Nat /\ c.msg.seq <= updates
  BY <1>4 DEF GossipInv, Numbered, Updates, Copies
<1>7. \A z \in Nat : z <= updates => z <= updates + 1 /\ ~(updates + 1 <= z)
  BY <1>4
<1>8. Numbered'
  <2>1. ASSUME NEW k \in Nodes, NEW u \in (seen[k] \cup unsent[k])' PROVE u.seq <= updates + 1
    <3>1. u \in seen[k] \cup unsent[k] \/ u = m
      BY <1>1, <1>4
    <3>2. updates + 1 <= updates + 1
      BY <1>4
    <3> QED
      BY <1>2, <1>6, <1>7, <3>1, <3>2
  <2> QED
    BY <1>1, <1>6, <1>7, <2>1 DEF Numbered
<1>9. OwnEntries'
  <2> SUFFICES ASSUME NEW k \in Nodes, NEW i \in ServiceIds
               PROVE  (OnlyOwn(k, i) => Stands(k, i))'
    BY DEF OwnEntries
  <2>1. CASE ~(k = n /\ i = id)
    <3>1. table'[k][i] = table[k][i]
      BY <1>1, <1>2, <1>4, <2>1
    <3>2. Known(k, i)' = Known(k, i)
      BY <1>1, <1>2, <1>4, <2>1 DEF Known
    <3> QED
      BY <3>1, <3>2, StandsKept DEF GossipInv, OwnEntries
  <2>2. CASE k = n /\ i = id
    <3>1. table'[n][id] = Entry(m, n)
      BY <1>1, <1>2, <1>4
    <3>2. Known(n, id)' = Known(n, id) \cup {m}
      BY <1>1, <1>2, <1>4 DEF Known
    <3>3. ASSUME NEW u, u \in Known(n, id)', \A v \in Known(n, id)' : v.seq <= u.seq
          PROVE  u = m
      <4>1. updates + 1 <= u.seq
        BY <1>2, <3>2, <3>3
      <4>2. CASE u \in Known(n, id)
        <5>1. u.seq \in Nat /\ u.seq <= updates
          BY <1>6, <4>2 DEF Known
        <5> QED
          BY <1>7, <4>1, <5>1
      <4> QED
        BY <3>2, <3>3, <4>2
    <3> QED
      BY <1>3, <2>2, <3>1, <3>2, <3>3 DEF Stands, Last
  <2> QED
    BY <2>1, <2>2
<1> QED
  BY <1>5, <1>8, <1>9

LEMMA BroadcastKeeps ==
    ASSUME GossipInv, NEW n \in Nodes, NEW m \in unsent[n], BroadcastService(n, m)
    PROVE  (FromElsewhere /\ Numbered /\ OwnEntries)'
<1>1. /\ unsent \in [Nodes -> SUBSET Updates] /\ seen \in [Nodes -> SUBSET Updates]
      /\ m \in Updates
  BY DEF GossipInv, TypeOK
<1>2. FromElsewhere'
  BY <1>1, NotifyFrom DEF GossipInv, BroadcastService
<1>3. \A k \in Nodes : (seen[k] \cup unsent[k])' = seen[k] \cup unsent[k]
  BY <1>1 DEF BroadcastService
<1>4. Numbered'
  <2>1. \A c \in wire' : c \in wire \/ c.msg = m
    BY DEF BroadcastService, CopiesTo
  <2>2. m.seq <= updates
    BY DEF GossipInv, Numbered
  <2> QED
    BY <1>3, <2>1, <2>2 DEF BroadcastService, GossipInv, Numbered
<1>5. OwnEntries'
  <2> SUFFICES ASSUME NEW k \in Nodes, NEW i \in ServiceIds
               PROVE  (OnlyOwn(k, i) => Stands(k, i))'
    BY DEF OwnEntries
  <2>1. Known(k, i)' = Known(k, i)
    BY <1>3 DEF Known
  <2> QED
    BY <2>1, StandsKept DEF GossipInv, OwnEntries, BroadcastService
<1> QED
  BY <1>2, <1>4, <1>5

LEMMA ReceiveKeeps ==
    ASSUME GossipInv, NEW c \in wire, Receive(c)
    PROVE  (FromElsewhere /\ Numbered /\ OwnEntries)'
<1>1. /\ unsent \in [Nodes -> SUBSET Updates] /\ seen \in [Nodes -> SUBSET Updates]
      /\ c \in Copies /\ c.msg \in Updates /\ c.from \in Nodes /\ c.to \in Nodes
  BY DEF GossipInv, TypeOK, Copies
<1>2. \A d \in wire' : d \in wire \/ d.msg = c.msg
  BY DEF Receive, CopiesTo
<1>3. c.msg.seq <= updates
  BY DEF GossipInv, Numbered
<1>4. UNCHANGED <<table, unsent, updates>>
  BY DEF Receive
<1>5. CASE c.msg \in seen[c.to] \/ c.msg.origin = c.to
  <2>1. UNCHANGED <<seen, inbox>>
    BY <1>5 DEF Receive
  <2>2. FromElsewhere'
    BY <2>1, FromKept DEF GossipInv
  <2>3. Numbered'
    BY <1>2, <1>3, <1>4, <2>1 DEF GossipInv, Numbered
  <2>4. OwnEntries'
    BY <1>4, <2>1 DEF GossipInv, OwnEntries, OnlyOwn, Stands, Last, Known
  <2> QED
    BY <2>2, <2>3, <2>4
<1>6. CASE ~(c.msg \in seen[c.to] \/ c.msg.origin = c.to)
  <2>1. /\ seen' = [seen EXCEPT ![c.to] = @ \cup {c.msg}]
        /\ Notify(c.to, c.msg, c.from)
    BY <1>6 DEF Receive
  <2>2. FromElsewhere'
    BY <1>1, <1>6, <2>1, NotifyFrom DEF GossipInv
  <2>3. Numbered'
    <3>1. \A k \in Nodes : \A u \in seen'[k] : u \in seen[k] \/ u = c.msg
      BY <1>1, <2>1
    <3> QED
      BY <1>2, <1>3, <1>4, <3>1 DEF GossipInv, Numbered
  <2>4. OwnEntries'
    <3> SUFFICES ASSUME NEW k \in Nodes, NEW i \in ServiceIds
                 PROVE  (OnlyOwn(k, i) => Stands(k, i))'
      BY DEF OwnEntries
    <3>1. CASE ~(k = c.to /\ i = c.msg.id)
      <4>1. Known(k, i)' = Known(k, i)
        BY <1>1, <1>4, <2>1, <3>1 DEF Known
      <4> QED
        BY <1>4, <4>1, StandsKept DEF GossipInv, OwnEntries
    <3>2. CASE k = c.to /\ i = c.msg.id
      <4>1. c.msg \in Known(k, i)'
        BY <1>1, <2>1, <3>2 DEF Known
      <4> QED
        BY <1>6, <3>2, <4>1 DEF OnlyOwn
    <3> QED
      BY <3>1, <3>2
  <2> QED
    BY <2>2, <2>3, <2>4
<1> QED
  BY <1>5, <1>6

LEMMA ListenKeeps ==
    ASSUME GossipInv, NEW n \in Nodes, Listen(n)
    PROVE  (FromElsewhere /\ Numbered /\ OwnEntries)'
<1> DEFINE e == Head(inbox[n])
<1>1. /\ inbox[n] \in Seq(Messages) /\ inbox[n] # <<>>
      /\ inbox \in [Nodes -> Seq(Messages)]
      /\ table \in [Nodes -> [ServiceIds -> Entries \cup {NoService}]]
  BY DEF GossipInv, TypeOK, Listen
<1>2. /\ inbox' = [inbox EXCEPT ![n] = Tail(inbox[n])]
      /\ UNCHANGED <<unsent, wire, seen, updates>>
  BY DEF Listen
<1>3. e \in Messages /\ e = inbox[n][1] /\ 1 \in 1..Len(inbox[n])
  BY <1>1
<1>4. table' = IF e.from = n THEN table ELSE [table EXCEPT ![n][e.msg.id] = Entry(e.msg, e.from)]
  BY DEF Listen, Applied
<1> HIDE DEF e
<1>5. FromElsewhere'
  <2> SUFFICES ASSUME NEW k \in Nodes, NEW i \in 1..Len(inbox'[k])
               PROVE  /\ inbox'[k][i].msg \in seen[k]
                      /\ inbox'[k][i].from # k => inbox'[k][i].msg.origin # k
    BY <1>2 DEF FromElsewhere
  <2>1. CASE k # n
    BY <1>1, <1>2, <2>1 DEF GossipInv, FromElsewhere
  <2>2. CASE k = n
    <3>1. inbox'[k] = Tail(inbox[n])
      BY <1>1, <1>2, <2>2
    <3>2. i + 1 \in 1..Len(inbox[n]) /\ inbox'[k][i] = inbox[n][i + 1]
      BY <1>1, <3>1
    <3> QED
      BY <2>2, <3>2 DEF GossipInv, FromElsewhere
  <2> QED
    BY <2>1, <2>2
<1>6. Numbered'
  BY <1>2 DEF GossipInv, Numbered
<1>7. OwnEntries'
  <2> SUFFICES ASSUME NEW k \in Nodes, NEW i \in ServiceIds
               PROVE  (OnlyOwn(k, i) => Stands(k, i))'
    BY DEF OwnEntries
  <2>1. Known(k, i)' = Known(k, i)
    BY <1>2 DEF Known
  <2>2. CASE e.from = n \/ ~(k = n /\ i = e.msg.id)
    <3>1. table'[k][i] = table[k][i]
      BY <1>1, <1>4, <2>2
    <3> QED
      BY <2>1, <3>1, StandsKept DEF GossipInv, OwnEntries
  <2>3. CASE e.from # n /\ k = n /\ i = e.msg.id
    <3>1. e.msg \in seen[n] /\ e.msg.origin # n
      BY <1>3, <2>3 DEF GossipInv, FromElsewhere
    <3> QED
      BY <2>1, <2>3, <3>1 DEF OnlyOwn, Known
  <2> QED
    BY <2>2, <2>3
<1> QED
  BY <1>5, <1>6, <1>7

LEMMA UpdatePeersKeeps ==
    ASSUME GossipInv, NEW n \in Nodes, UpdatePeers(n)
    PROVE  (FromElsewhere /\ Numbered /\ OwnEntries)'
<1>1. /\ table \in [Nodes -> [ServiceIds -> Entries \cup {NoService}]]
      /\ UNCHANGED <<unsent, wire, seen, inbox, updates>>
  BY DEF GossipInv, TypeOK, UpdatePeers
<1>2. FromElsewhere' /\ Numbered'
  BY <1>1 DEF GossipInv, FromElsewhere, Numbered
<1>3. OwnEntries'
  <2> SUFFICES ASSUME NEW k \in Nodes, NEW i \in ServiceIds
               PROVE  (OnlyOwn(k, i) => Stands(k, i))'
    BY DEF OwnEntries
  <2>1. Known(k, i)' = Known(k, i)
    BY <1>1 DEF Known
  <2>2. CASE OnlyOwn(k, i)
    <3>1. table[k][i] = NoService \/ table[k][i].peer = k
      BY <2>2 DEF GossipInv, OwnEntries, Stands
    <3>2. table'[k][i] = table[k][i]
      BY <1>1, <3>1 DEF UpdatePeers, Stale
    <3> QED
      BY <2>1, <3>2, StandsKept DEF GossipInv, OwnEntries
  <2>3. CASE ~OnlyOwn(k, i)
    BY <2>1, <2>3 DEF OnlyOwn
  <2> QED
    BY <2>2, <2>3
<1> QED
  BY <1>2, <1>3

LEMMA StopKeeps ==
    ASSUME GossipInv, NEW n \in Nodes, Stop(n)
    PROVE  (FromElsewhere /\ Numbered /\ OwnEntries)'
<1>1. /\ table \in [Nodes -> [ServiceIds -> Entries \cup {NoService}]]
      /\ unsent \in [Nodes -> SUBSET Updates] /\ seen \in [Nodes -> SUBSET Updates]
      /\ inbox \in [Nodes -> Seq(Messages)]
  BY DEF GossipInv, TypeOK
<1>2. /\ table'[n] = [id \in ServiceIds |-> NoService]
      /\ unsent'[n] = {} /\ seen'[n] = {} /\ inbox'[n] = <<>>
      /\ updates' = updates
      /\ \A c \in wire' : c \in wire
  BY <1>1 DEF Stop
<1>3. ASSUME NEW k \in Nodes, k # n
      PROVE  /\ table'[k] = table[k] /\ unsent'[k] = unsent[k]
             /\ seen'[k] = seen[k] /\ inbox'[k] = inbox[k]
  BY <1>1, <1>3 DEF Stop
<1>4. FromElsewhere'
  <2> SUFFICES ASSUME NEW k \in Nodes, NEW i \in 1..Len(inbox'[k])
               PROVE  /\ inbox'[k][i].msg \in seen'[k]
                      /\ inbox'[k][i].from # k => inbox'[k][i].msg.origin # k
    BY DEF FromElsewhere
  <2>1. k # n
    BY <1>2
  <2> QED
    BY <1>3, <2>1 DEF GossipInv, FromElsewhere
<1>5. Numbered'
  BY <1>2, <1>3 DEF GossipInv, Numbered
<1>6. OwnEntries'
  <2> SUFFICES ASSUME NEW k \in Nodes, NEW i \in ServiceIds
               PROVE  (OnlyOwn(k, i) => Stands(k, i))'
    BY DEF OwnEntries
  <2>1. CASE k = n
    BY <1>2, <2>1 DEF Stands, Last, Known
  <2>2. CASE k # n
    <3>1. Known(k, i)' = Known(k, i) /\ table'[k][i] = table[k][i]
      BY <1>3, <2>2 DEF Known
    <3> QED
      BY <3>1, StandsKept DEF GossipInv, OwnEntries
  <2> QED
    BY <2>1, <2>2
<1> QED
  BY <1>4, <1>5, <1>6

LEMMA GossipStep == GossipInv /\ [Next]_vars => GossipInv'
<1> SUFFICES ASSUME GossipInv, [Next]_vars PROVE GossipInv'
  OBVIOUS
<1>1. TypeOK'
  BY GossipNextInv DEF GossipInv
<1>2. (FromElsewhere /\ Numbered /\ OwnEntries)'
  <2>1. ASSUME UNCHANGED <<table, unsent, seen, inbox, updates>>,
               \A c \in wire' : c \in wire \/ \E k \in Nodes : c.msg \in seen[k]
        PROVE  (FromElsewhere /\ Numbered /\ OwnEntries)'
    <3>1. FromElsewhere' /\ Numbered'
      BY <2>1 DEF GossipInv, FromElsewhere, Numbered
    <3>2. OwnEntries'
      BY <2>1 DEF GossipInv, OwnEntries, OnlyOwn, Stands, Last, Known
    <3> QED
      BY <3>1, <3>2
  <2>2. CASE UNCHANGED vars
    BY <2>1, <2>2 DEF vars
  <2>3. CASE \E n \in Registrars, id \in ServiceIds, svc \in Contents \cup {NoService} :
               RegisterLocalService(n, id, svc)
    BY <2>3, RegisterKeeps, GossipAssumption
  <2>4. CASE Pubsub
    BY <2>4, BroadcastKeeps, ReceiveKeeps DEF Pubsub
  <2>5. CASE \E a, b \in Nodes : \E m \in seen[a] : OfferAgain(a, b, m)
    BY <2>1, <2>5 DEF OfferAgain, CopiesTo
  <2>6. CASE \E n \in Nodes : Listen(n) \/ UpdatePeers(n)
    BY <2>6, ListenKeeps, UpdatePeersKeeps
  <2>7. CASE \E a, b \in Nodes : Connect(a, b) \/ Disconnect(a, b)
    BY <2>1, <2>7 DEF Connect, Disconnect
  <2>8. CASE \E n \in Nodes : Start(n)
    BY <2>1, <2>8 DEF Start
  <2>9. CASE \E n \in Nodes : Stop(n)
    BY <2>9, StopKeeps
  <2> QED
    BY <2>2, <2>3, <2>4, <2>5, <2>6, <2>7, <2>8, <2>9 DEF Next
<1> QED
  BY <1>1, <1>2 DEF GossipInv

\* In any network, through any restarts and lost connections: a gateway that
\* knows of no updates of a service but those of its own clients holds it as
\* the last of them left it.  Its own broadcasts, which its listener gets back
\* after later requests have been handled, do not undo them (node.go:138,
\* 166-174, 216-218).
THEOREM OwnServicesStand == Spec => []LocalUpdatesStand
<1>1. GossipInv => LocalUpdatesStand
  BY DEF GossipInv, OwnEntries, OnlyOwn, Stands, Last, LocalUpdatesStand
<1> QED
  BY <1>1, GossipStart, GossipStep, PTL DEF Spec
===============================================================================
