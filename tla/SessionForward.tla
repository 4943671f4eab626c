----------------------------- MODULE SessionForward ---------------------------
(***************************************************************************)
(* Websocket and socket sessions through two gateways (csgw_http.go,       *)
(* csgw_socket.go, node_proxy_handler.go).                                 *)
(*                                                                         *)
(* The client side gateway (CSGW) writes an init request on one stream,    *)
(* opens a second one for the client's data, stores the client's           *)
(* connection in a map and forwards what it reads from it.  The service    *)
(* side gateway (SSGW) connects to the service, stores that connection in  *)
(* a map and opens a stream back.  The handlers of the two data streams    *)
(* find the connection they write to in these maps, under the request id   *)
(* of the data.  The two kinds of session differ in the order of the       *)
(* SSGW's steps and in which errors they survive.  Nothing is ever removed *)
(* from the maps and no stream is closed.                                  *)
(*                                                                         *)
(* A panic ends the whole gateway; one that has died stays down.  With it, *)
(* and when the connection between two living gateways is lost, streams    *)
(* break.  What was written to a broken stream may have arrived or not,    *)
(* nothing written later does; the goroutine that reads it still gets what *)
(* has arrived, and panics after that, which may be at once.               *)
(***************************************************************************)
EXTENDS Naturals, Sequences, FiniteSets, Functions

CONSTANTS
    Gateways,
    Sessions,     \* request ids (user.service.uuid, all different)
    Kinds,        \* functions from sessions to "ws" or "socket"
    Entry,        \* Entry[s]: the gateway the client is connected to (CSGW)
    Target,       \* Target[s]: the peer the lookup found (SSGW)
    NoSession,    \* no request id
    MaxUp,        \* bound: messages of all clients together
    MaxDown,      \* bound: messages of all services together
    MaxEvents     \* bound: sessions accepted and connections lost, together

ASSUME SessionAssumption ==
    /\ Kinds \subseteq [Sessions -> {"ws", "socket"}]
    /\ Entry \in [Sessions -> Gateways]
    /\ Target \in [Sessions -> Gateways]
    /\ NoSession \notin Sessions
    /\ MaxUp \in Nat
    /\ MaxDown \in Nat
    /\ MaxEvents \in Nat

VARIABLES
    kind,           \* kind[s]: what the client of session s speaks
    up,             \* gateways that run
    losses,         \* connections lost so far
    client,         \* client[s]: the goroutine of the client's connection
    initStream,     \* initStream[s]: the stream of the init request
    dataStream,     \* dataStream[s]: the stream of the client's data
    backStream,     \* backStream[s]: the stream the SSGW opened
    clientConns,    \* sessions in clientWsConns or clientSocketConns
    server,         \* server[s]: the handler of the init request
    serviceConns,   \* sessions in serviceWsConns or serviceSocketConns
    upHandler,      \* sessions whose data stream has a handler at the SSGW
    downHandler,    \* sessions whose stream back has a handler at the CSGW
    sent,           \* sent[s]: messages the CSGW has taken from the client
    upData,         \* upData[s]: data on the data stream
    toService,      \* toService[s]: what the service has got
    produced,       \* produced[s]: messages the SSGW has taken from the service
    downData,       \* downData[s]: data on the stream back
    toClient        \* toClient[s]: what the client has got

upVars == <<upHandler, sent, upData, toService>>
downVars == <<downHandler, produced, downData, toClient>>
csgwVars == <<client, initStream, dataStream, clientConns>>
ssgwVars == <<server, backStream, serviceConns>>
vars == <<kind, up, losses, csgwVars, ssgwVars, upVars, downVars>>

ClientStates == {"idle", "note", "connect", "write", "openData", "register",
                 "serving", "closed", "lost"}
ServerStates == {"none", "read", "dialBack", "dialService", "register",
                 "serving"}
\* The stream of an init request is "gone" when it broke before it was written,
\* else "broken".  A data stream is "failed" when NewStream returned an error
\* and the nil stream is used all the same.
InitStates == {"none", "opened", "written", "broken", "gone"}
DataStates == {"none", "failed", "open", "broken"}
\* ApronServiceData: a request id and a message.
Data == [session : Sessions, n : Nat]

TypeOK ==
    /\ kind \in Kinds
    /\ up \in SUBSET Gateways
    /\ losses \in Nat
    /\ client \in [Sessions -> ClientStates]
    /\ initStream \in [Sessions -> InitStates]
    /\ dataStream \in [Sessions -> DataStates]
    /\ backStream \in [Sessions -> DataStates]
    /\ clientConns \in SUBSET Sessions
    /\ server \in [Sessions -> ServerStates]
    /\ serviceConns \in SUBSET Sessions
    /\ upHandler \in SUBSET Sessions
    /\ downHandler \in SUBSET Sessions
    /\ sent \in [Sessions -> Nat]
    /\ produced \in [Sessions -> Nat]
    /\ upData \in [Sessions -> Seq(Data)]
    /\ downData \in [Sessions -> Seq(Data)]
    /\ toService \in [Sessions -> Seq(Nat)]
    /\ toClient \in [Sessions -> Seq(Nat)]

Each(v) == [s \in Sessions |-> v]

Init ==
    /\ kind \in Kinds
    /\ up = Gateways
    /\ losses = 0
    /\ client = Each("idle")
    /\ initStream = Each("none")
    /\ dataStream = Each("none")
    /\ backStream = Each("none")
    /\ clientConns = {}
    /\ server = Each("none")
    /\ serviceConns = {}
    /\ upHandler = {}
    /\ downHandler = {}
    /\ sent = Each(0)
    /\ upData = Each(<<>>)
    /\ toService = Each(<<>>)
    /\ produced = Each(0)
    /\ downData = Each(<<>>)
    /\ toClient = Each(<<>>)

\* Messages of all sessions.
Total(f) == FoldFunction(LAMBDA x, y : x + y, 0, f)

\* Wrong variant: what is written last is read first.
SentFirst(q, state, d) == IF state = "open" THEN <<d>> \o q ELSE q

\* q after d has been written to its stream.
Sent(q, state, d) == IF state = "open" THEN Append(q, d) ELSE q

At(f, s, v) == f' = [f EXCEPT ![s] = v]

\* One more session, or one more lost connection, is within the bound.
MoreEvents == Cardinality({s \in Sessions : client[s] # "idle"}) + losses < MaxEvents

Broken(state) == state \in {"broken", "gone"}

\* The state of a stream after it broke.
Lost(state) ==
    IF state \in {"written", "open"} THEN "broken"
    ELSE IF state = "opened" THEN "gone" ELSE state

\* The streams of the sessions S break.
StreamsBreak(S) ==
    LET Break(f) == f' = [s \in Sessions |-> IF s \in S THEN Lost(f[s]) ELSE f[s]]
    IN  Break(initStream) /\ Break(dataStream) /\ Break(backStream)

\* The process of g ends: its goroutines and maps are gone, with what was on
\* its way to it, and its streams break.
ProcessEnds(g) ==
    LET mine == {s \in Sessions : Entry[s] = g}
        theirs == {s \in Sessions : Target[s] = g}
        Reset(f, S, v) == f' = [s \in Sessions |-> IF s \in S THEN v ELSE f[s]]
    IN  /\ up' = up \ {g}
        /\ Reset(client, {s \in mine : client[s] \notin {"idle", "closed"}}, "lost")
        /\ clientConns' = clientConns \ mine
        /\ downHandler' = downHandler \ mine
        /\ Reset(server, theirs, "none")
        /\ serviceConns' = serviceConns \ theirs
        /\ upHandler' = upHandler \ theirs
        /\ Reset(upData, theirs, <<>>)
        /\ Reset(downData, mine, <<>>)
        /\ StreamsBreak(mine \cup theirs)
        /\ UNCHANGED <<kind, losses, toService, toClient>>

Crash(g) == ProcessEnds(g) /\ UNCHANGED <<sent, produced>>
-------------------------------------------------------------------------------
(* The client side gateway                                                 *)

\* The goroutine of the client's connection gets from one place to another.
ClientGoes(s, from, to) ==
    /\ client[s] = from
    /\ At(client, s, to)
    /\ UNCHANGED <<kind, up, losses, ssgwVars, upVars, downVars>>

\* A client whose service was found.
Accept(s) ==
    /\ Entry[s] \in up
    /\ MoreEvents
    /\ ClientGoes(s, "idle", "note")
    /\ UNCHANGED <<initStream, dataStream, clientConns>>

\* requestIdChanMapping[requestId] is set (nothing reads or removes it).
NoteRequest(s) ==
    ClientGoes(s, "note", "connect") /\ UNCHANGED <<initStream, dataStream, clientConns>>

\* NewStream; a gateway cannot dial itself.
Connect(s) ==
    /\ Target[s] \in up \ {Entry[s]}
    /\ ClientGoes(s, "connect", "write")
    /\ At(initStream, s, "opened")
    /\ UNCHANGED <<dataStream, clientConns>>

\* It failed: status 500, or the connection is just closed.
ConnectFails(s) ==
    ClientGoes(s, "connect", "closed") /\ UNCHANGED <<initStream, dataStream, clientConns>>

WriteInit(s) ==
    /\ ClientGoes(s, "write", "openData")
    /\ At(initStream, s, IF Broken(initStream[s]) THEN "gone" ELSE "written")
    /\ UNCHANGED <<dataStream, clientConns>>

WriteInitPanics(s) ==
    /\ client[s] = "write"
    /\ Broken(initStream[s])
    /\ Crash(Entry[s])

OpenData(s) ==
    /\ Target[s] \in up
    /\ ClientGoes(s, "openData", "register")
    /\ At(dataStream, s, "open")
    /\ UNCHANGED <<initStream, clientConns>>

\* NewStream failed: a websocket session ignores the error, a socket session
\* ends.
OpenDataFails(s) ==
    /\ ClientGoes(s, "openData", IF kind[s] = "ws" THEN "register" ELSE "closed")
    /\ At(dataStream, s, "failed")
    /\ UNCHANGED <<initStream, clientConns>>

\* The websocket handshake failed: CheckError.
UpgradeFails(s) ==
    /\ client[s] = "register"
    /\ kind[s] = "ws"
    /\ Crash(Entry[s])

\* The client's connection is stored, then its reader starts.
RegisterClient(s) ==
    /\ ClientGoes(s, "register", "serving")
    /\ clientConns' = clientConns \cup {s}
    /\ UNCHANGED <<initStream, dataStream>>

\* A message of the client goes to the data stream; that it is broken may not
\* have been noticed.
ForwardUp(s) ==
    /\ client[s] = "serving"
    /\ dataStream[s] \in {"open", "broken"}
    /\ Total(sent) < MaxUp
    /\ At(sent, s, sent[s] + 1)
    /\ At(upData, s, Sent(upData[s], dataStream[s], [session |-> s, n |-> sent[s] + 1]))
    /\ UNCHANGED <<kind, up, losses, csgwVars, ssgwVars, upHandler, toService, downVars>>

\* A message was read, but the stream is nil or the write fails: the message
\* is lost.  The reader of a websocket recovers from the panic and closes the
\* connection.
ForwardUpRecovers(s) ==
    /\ kind[s] = "ws"
    /\ dataStream[s] \in {"failed", "broken"}
    /\ Total(sent) < MaxUp
    /\ client[s] = "serving"
    /\ At(client, s, "closed")
    /\ At(sent, s, sent[s] + 1)
    /\ UNCHANGED <<kind, up, losses, initStream, dataStream, clientConns, ssgwVars,
                   upHandler, upData, toService, downVars>>

\* The reader of a socket does not recover.
ForwardUpPanics(s) ==
    /\ client[s] = "serving"
    /\ kind[s] = "socket"
    /\ dataStream[s] = "broken"
    /\ Total(sent) < MaxUp
    /\ At(sent, s, sent[s] + 1)
    /\ ProcessEnds(Entry[s])
    /\ UNCHANGED produced

\* The client goes away: its connection is closed but stays in the map.
ClientCloses(s) ==
    ClientGoes(s, "serving", "closed") /\ UNCHANGED <<initStream, dataStream, clientConns>>
-------------------------------------------------------------------------------
(* The service side gateway                                                *)

\* The handler of the init request gets from one place to another.
ServerGoes(s, from, to) ==
    /\ server[s] = from
    /\ At(server, s, to)
    /\ UNCHANGED <<kind, up, losses, csgwVars, upVars, downVars>>

\* libp2p starts the handler, at the latest when data arrives.
ServerStarts(s) ==
    /\ Target[s] \in up
    /\ initStream[s] \in {"opened", "written", "broken"}
    /\ ServerGoes(s, "none", "read")
    /\ UNCHANGED <<backStream, serviceConns>>

\* The init request is read and the provider of the service looked up.  For a
\* websocket the stream back comes next and the service after it; for a socket
\* it is the other way round.
ServerRead(s) ==
    /\ initStream[s] \in {"written", "broken"}
    /\ ServerGoes(s, "read", IF kind[s] = "ws" THEN "dialBack" ELSE "dialService")
    /\ UNCHANGED <<backStream, serviceConns>>

\* A read error, or no provider: index out of range.
ServerReadPanics(s) ==
    /\ server[s] = "read"
    /\ initStream[s] \in {"written", "broken", "gone"}
    /\ Crash(Target[s])

DialBack(s) ==
    /\ Entry[s] \in up
    /\ ServerGoes(s, "dialBack", IF kind[s] = "ws" THEN "dialService" ELSE "serving")
    /\ At(backStream, s, "open")
    /\ UNCHANGED serviceConns

DialBackPanics(s) ==
    /\ server[s] = "dialBack"
    /\ kind[s] = "ws"
    /\ Crash(Target[s])

\* The handler of a socket session ignores the error.
DialBackFails(s) ==
    /\ kind[s] = "socket"
    /\ ServerGoes(s, "dialBack", "serving")
    /\ At(backStream, s, "failed")
    /\ UNCHANGED serviceConns

DialService(s) ==
    ServerGoes(s, "dialService", "register") /\ UNCHANGED <<backStream, serviceConns>>

DialServicePanics(s) ==
    /\ server[s] = "dialService"
    /\ Crash(Target[s])

RegisterService(s) ==
    /\ ServerGoes(s, "register", IF kind[s] = "ws" THEN "serving" ELSE "dialBack")
    /\ serviceConns' = serviceConns \cup {s}
    /\ UNCHANGED backStream

\* A message of the service goes to the stream back, under the request id.
ForwardDownAs(s, id) ==
    /\ server[s] = "serving"
    /\ backStream[s] \in {"open", "broken"}
    /\ Total(produced) < MaxDown
    /\ At(produced, s, produced[s] + 1)
    /\ At(downData, s,
          Sent(downData[s], backStream[s], [session |-> id, n |-> produced[s] + 1]))
    /\ UNCHANGED <<kind, up, losses, csgwVars, ssgwVars, upVars, downHandler, toClient>>

\* Wrong variant: the data has no request id.
ForwardDownWithoutId(s) == ForwardDownAs(s, NoSession)

ForwardDown(s) == ForwardDownAs(s, s)

\* A message was read, but the stream back is nil or the write fails:
\* CheckError.
ForwardDownPanics(s) ==
    /\ server[s] = "serving"
    /\ backStream[s] \in {"failed", "broken"}
    /\ Total(produced) < MaxDown
    /\ At(produced, s, produced[s] + 1)
    /\ ProcessEnds(Target[s])
    /\ UNCHANGED sent

\* The service closes its connection: CheckError.
ServiceCloses(s) ==
    /\ server[s] = "serving"
    /\ Crash(Target[s])
-------------------------------------------------------------------------------
(* ProxyWsDataHandler and ProxySocketDataHandler                           *)

UpStarts(s) ==
    /\ Target[s] \in up
    /\ dataStream[s] \in {"open", "broken"}
    /\ s \notin upHandler
    /\ upHandler' = upHandler \cup {s}
    /\ UNCHANGED <<kind, up, losses, csgwVars, ssgwVars, sent, upData, toService, downVars>>

UpArrived(s) == s \in upHandler /\ upData[s] # <<>>

\* Data of the client is written to the service's connection, n times.
UpDeliverTimes(s, n) ==
    /\ UpArrived(s)
    /\ LET d == Head(upData[s])
       IN  /\ d.session \in serviceConns
           /\ At(toService, d.session, toService[d.session] \o [i \in 1..n |-> d.n])
    /\ At(upData, s, Tail(upData[s]))
    /\ UNCHANGED <<kind, up, losses, csgwVars, ssgwVars, upHandler, sent, downVars>>

\* Wrong variant: the data is written once more.
UpDeliverTwice(s) == UpDeliverTimes(s, 2)

UpDeliver(s) == UpDeliverTimes(s, 1)

\* There is no connection yet: a nil pointer.
UpTooEarly(s) ==
    /\ UpArrived(s)
    /\ Head(upData[s]).session \notin serviceConns
    /\ Crash(Target[s])

\* The service has closed its connection: a write error.
UpWritePanics(s) ==
    /\ UpArrived(s)
    /\ Head(upData[s]).session \in serviceConns
    /\ Crash(Target[s])

\* Wrong variant: the handler just ends.
UpBreaksQuietly(s) ==
    /\ s \in upHandler
    /\ dataStream[s] = "broken"
    /\ upHandler' = upHandler \ {s}
    /\ UNCHANGED <<kind, up, losses, csgwVars, ssgwVars, sent, upData, toService, downVars>>

\* A read error of the stream: logger.Panic.
UpBreaks(s) ==
    /\ s \in upHandler
    /\ dataStream[s] = "broken"
    /\ Crash(Target[s])

DownStarts(s) ==
    /\ Entry[s] \in up
    /\ backStream[s] \in {"open", "broken"}
    /\ s \notin downHandler
    /\ downHandler' = downHandler \cup {s}
    /\ UNCHANGED <<kind, up, losses, csgwVars, ssgwVars, upVars, produced, downData, toClient>>

DownArrived(s) == s \in downHandler /\ downData[s] # <<>>

\* The client's connection is stored and open.
Reachable(id) == id \in clientConns /\ client[id] = "serving"

\* The data is taken from the stream; the client gets q.
DownRead(s, q) ==
    /\ DownArrived(s)
    /\ At(downData, s, Tail(downData[s]))
    /\ At(toClient, Head(downData[s]).session, q)
    /\ UNCHANGED <<kind, up, losses, csgwVars, ssgwVars, upVars, downHandler, produced>>

\* Data of the service is written to the client's connection.
DownDeliver(s) ==
    /\ DownArrived(s)
    /\ LET d == Head(downData[s])
       IN  Reachable(d.session) /\ DownRead(s, Append(toClient[d.session], d.n))

\* Wrong variant: data for a closed connection is dropped.
DownUnwantedDropped(s) ==
    /\ DownArrived(s)
    /\ LET id == Head(downData[s]).session
       IN  ~Reachable(id) /\ DownRead(s, toClient[id])

\* There is no connection yet, or it has been closed: a nil pointer, or a
\* write error.
DownUnwanted(s) ==
    /\ DownArrived(s)
    /\ ~Reachable(Head(downData[s]).session)
    /\ Crash(Entry[s])

DownBreaks(s) ==
    /\ s \in downHandler
    /\ backStream[s] = "broken"
    /\ Crash(Entry[s])
-------------------------------------------------------------------------------
(* The network, and what the gateways share                                *)

\* The connection between g and h, and with it all streams between them.
ConnectionLost(g, h) ==
    LET S == {s \in Sessions : {Entry[s], Target[s]} = {g, h}}
    IN  /\ {g, h} \subseteq up
        /\ MoreEvents
        /\ losses' = losses + 1
        /\ \E s \in S : \/ initStream[s] \in {"opened", "written"}
                        \/ "open" \in {dataStream[s], backStream[s]}
        /\ StreamsBreak(S)
    /\ UNCHANGED <<kind, up, client, clientConns, server, serviceConns, upVars, downVars>>

\* Maps shared without a mutex: when one goroutine writes while another
\* reads or writes, the runtime may notice and end the process.
ConcurrentMapThrow(g) ==
    /\ \E q, s \in Sessions :
         \/ /\ q # s /\ Entry[q] = g /\ Entry[s] = g
            /\ client[q] = "note" /\ client[s] = "note"
         \/ /\ kind[q] = kind[s] /\ Entry[q] = g /\ Entry[s] = g
            /\ client[q] = "register"
            /\ (q # s /\ client[s] = "register") \/ DownArrived(s)
         \/ /\ kind[q] = kind[s] /\ Target[q] = g /\ Target[s] = g
            /\ server[q] = "register"
            /\ (q # s /\ server[s] = "register") \/ UpArrived(s)
    /\ Crash(g)

ClientStep(s) ==
    \/ NoteRequest(s) \/ Connect(s) \/ ConnectFails(s)
    \/ WriteInit(s) \/ WriteInitPanics(s) \/ OpenData(s) \/ OpenDataFails(s)
    \/ UpgradeFails(s) \/ RegisterClient(s)
ServerStep(s) ==
    \/ ServerRead(s) \/ ServerReadPanics(s) \/ DialBack(s) \/ DialBackPanics(s)
    \/ DialBackFails(s) \/ DialService(s) \/ DialServicePanics(s) \/ RegisterService(s)
UpStep(s) == UpDeliver(s) \/ UpTooEarly(s) \/ UpWritePanics(s) \/ UpBreaks(s)
DownStep(s) == DownDeliver(s) \/ DownUnwanted(s) \/ DownBreaks(s)
HandlerStarts(s) == ServerStarts(s) \/ UpStarts(s) \/ DownStarts(s)
Traffic(s) ==
    \/ Accept(s) \/ ForwardUp(s) \/ ForwardUpRecovers(s) \/ ForwardUpPanics(s)
    \/ ClientCloses(s) \/ ForwardDown(s) \/ ForwardDownPanics(s) \/ ServiceCloses(s)

Next ==
    \/ \E s \in Sessions :
         \/ Traffic(s) \/ HandlerStarts(s)
         \/ ClientStep(s) \/ ServerStep(s) \/ UpStep(s) \/ DownStep(s)
    \/ \E g \in up : ConcurrentMapThrow(g)
    \/ \E g, h \in Gateways : ConnectionLost(g, h)

Spec == Init /\ [][Next]_vars

\* Every goroutine that can run does run, one that reads a broken stream
\* notices, and a handler starts when data is on a stream that is not broken.
\* Clients and services need not say anything, nor close their connections,
\* and connections need not be lost.
Fairness ==
    \A s \in Sessions :
      /\ WF_vars(ClientStep(s)) /\ WF_vars(ServerStep(s))
      /\ WF_vars(UpStep(s)) /\ WF_vars(DownStep(s))
      /\ WF_vars(initStream[s] = "written" /\ ServerStarts(s))
      /\ WF_vars(dataStream[s] = "open" /\ upData[s] # <<>> /\ UpStarts(s))
      /\ WF_vars(backStream[s] = "open" /\ downData[s] # <<>> /\ DownStarts(s))

FairSpec == Spec /\ Fairness
-------------------------------------------------------------------------------
(* Properties                                                              *)

\* Each end of a session gets what the other end has said in this very
\* session, in order and without gaps or repetitions, although the
\* connections are found by request id in maps that all sessions of a gateway
\* share (node_proxy_handler.go:159, 164, 283, 290).
SessionsInOrder ==
    \A s \in Sessions :
      /\ Len(toService[s]) <= sent[s] /\ toService[s] = [i \in 1..Len(toService[s]) |-> i]
      /\ Len(toClient[s]) <= produced[s] /\ toClient[s] = [i \in 1..Len(toClient[s]) |-> i]

\* The channels of the sessions: what has been taken, what the receiver has
\* got and what may still reach it, and which channels are cut off, because
\* their stream could not be opened or broke.
Ends == Sessions \X {"up", "down"}
Chan == INSTANCE SessionChannels WITH
    Channels <- Ends,
    taken <- [c \in Ends |-> IF c[2] = "up" THEN sent[c[1]] ELSE produced[c[1]]],
    got <- [c \in Ends |-> IF c[2] = "up" THEN toService[c[1]] ELSE toClient[c[1]]],
    due <- [c \in Ends |-> IF c[2] = "up" THEN Len(toService[c[1]]) + Len(upData[c[1]])
                                          ELSE Len(toClient[c[1]]) + Len(downData[c[1]])],
    cut <- {c \in Ends : (IF c[2] = "up" THEN dataStream[c[1]] ELSE backStream[c[1]])
                           \in {"failed", "broken"}}

\* The sessions are pairs of ordered channels: whatever the two handlers, the
\* shared maps, the panics and the network do, every step hands over the next
\* message of one channel to its own receiver, or takes one, or cuts channels
\* off, and what is taken from then on is lost (csgw_http.go:52-78,
\* csgw_socket.go:118-151, node_proxy_handler.go:143-173, 259-302).
ImplementsChannels == Chan!Spec

\* What a gateway has taken from a client or a service reaches the other end,
\* unless the stream to it could not be opened, broke with a lost connection,
\* or broke because one of the two gateways died: as long as both live and are
\* connected, neither the handlers nor the shared maps lose anything
\* (node_proxy_handler.go:83-110, 236-255, 159, 165).
TakenIsDelivered == Chan!Arrives

\* No session stays half open: when one of its gateways dies, or its data
\* stream breaks while both are reading from each other, both gateways die,
\* and with them all of their other sessions (node_proxy_handler.go:171, 299).
NoHalfOpenSessions ==
    \A s \in Sessions :
      (\/ s \in upHandler /\ Entry[s] \notin up
       \/ s \in downHandler /\ Target[s] \notin up
       \/ s \in upHandler \cap downHandler /\ dataStream[s] = "broken")
        ~> {Entry[s], Target[s]} \cap up = {}
===============================================================================
