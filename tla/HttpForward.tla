------------------------------ MODULE HttpForward -----------------------------
(***************************************************************************)
(* One HTTP request from a client through two gateways to a service and    *)
(* back (csgw_http.go, node_proxy_handler.go), for several requests and    *)
(* gateways at once.                                                       *)
(*                                                                         *)
(* The client side gateway (CSGW) looked the service up (NodeRegistry),    *)
(* opens a stream to the service side gateway (SSGW), writes the request,  *)
(* and only then makes the channel clientHttpDataChan[requestId] on which  *)
(* it waits.  The SSGW opens a stream of its own back to the CSGW, calls   *)
(* the service and writes the answer; the handler of that stream at the    *)
(* CSGW sends it to the channel it finds under the request id.             *)
(*                                                                         *)
(* A panic in any of these goroutines ends the whole gateway: the requests *)
(* it serves are lost, and its streams break at the other end, where a     *)
(* read or write error is a panic too.  A gateway that has died stays      *)
(* down; one started again shares nothing with it.  The connection between *)
(* two gateways that live may be lost as well: the streams over it break   *)
(* at both ends, and what was on them arrives or does not.                 *)
(***************************************************************************)
EXTENDS Naturals, FiniteSets

CONSTANTS
    Gateways,
    Requests,     \* request ids (user.service.uuid, all different)
    Entry,        \* Entry[r]: the gateway the client of r asks (CSGW)
    Target,       \* Target[r]: the peer the lookup found for r (SSGW)
    NoAnswer      \* nothing

ASSUME ForwardAssumption ==
    /\ Entry \in [Requests -> Gateways]
    /\ Target \in [Requests -> Gateways]
    /\ NoAnswer \notin Requests

VARIABLES
    up,           \* gateways that run
    client,       \* client[r]: the handler of r at its CSGW
    chan,         \* chan[r]: clientHttpDataChan has a channel for r
    stream,       \* stream[r]: the stream the CSGW opened for r
    back,         \* back[r]: the stream the SSGW opened for r
    server,       \* server[r]: ProxyHttpInitRequestHandler for r at its SSGW
    answer,       \* answer[r]: the request id in the data on the stream back
    relay,        \* relay[r]: ProxyHttpRespHandler for r at its CSGW
    reply         \* reply[r]: the request on whose stream the answer came that
                  \*   the client of r got

vars == <<up, client, chan, stream, back, server, answer, relay, reply>>

ClientStates == {"idle", "register", "connect", "write", "makeChan", "wait",
                 "cleanup", "replied", "refused", "lost"}
ServerStates == {"none", "read", "build", "dialBack", "call", "respond", "done"}
\* A stream whose connection was lost is "arrived" or "gone": what was written
\* to it has reached the other end, or never will.
StreamStates == {"none", "opened", "written", "arrived", "gone"}
BackStates == {"none", "opened", "arrived", "gone"}
RelayStates == {"none", "open", "lookup", "send", "stuck"}

TypeOK ==
    /\ up \in SUBSET Gateways
    /\ client \in [Requests -> ClientStates]
    /\ chan \in [Requests -> BOOLEAN]
    /\ stream \in [Requests -> StreamStates]
    /\ back \in [Requests -> BackStates]
    /\ server \in [Requests -> ServerStates]
    /\ answer \in [Requests -> Requests \cup {NoAnswer}]
    /\ relay \in [Requests -> RelayStates]
    /\ reply \in [Requests -> Requests \cup {NoAnswer}]

Init ==
    /\ up = Gateways
    /\ client = [r \in Requests |-> "idle"]
    /\ chan = [r \in Requests |-> FALSE]
    /\ stream = [r \in Requests |-> "none"]
    /\ back = [r \in Requests |-> "none"]
    /\ server = [r \in Requests |-> "none"]
    /\ answer = [r \in Requests |-> NoAnswer]
    /\ relay = [r \in Requests |-> "none"]
    /\ reply = [r \in Requests |-> NoAnswer]

\* The process of g ends: its goroutines and maps are gone.
Crash(g) ==
    /\ up' = up \ {g}
    /\ client' = [r \in Requests |->
                    IF Entry[r] = g /\ client[r] \notin {"idle", "replied", "refused"}
                      THEN "lost" ELSE client[r]]
    /\ chan' = [r \in Requests |-> chan[r] /\ Entry[r] # g]
    /\ relay' = [r \in Requests |-> IF Entry[r] = g THEN "none" ELSE relay[r]]
    /\ server' = [r \in Requests |-> IF Target[r] = g THEN "none" ELSE server[r]]
    /\ UNCHANGED <<stream, back, answer, reply>>

At(f, r, state) == f' = [f EXCEPT ![r] = state]

\* The connection of a stream in this state was lost.
Broken(state) == state \in {"arrived", "gone"}
-------------------------------------------------------------------------------
(* The client side gateway: StartForwardService and serveHttpRequest       *)

\* A request whose service was found reaches the gateway.
Accept(r) ==
    /\ Entry[r] \in up
    /\ client[r] = "idle"
    /\ At(client, r, "register")
    /\ UNCHANGED <<up, chan, stream, back, server, answer, relay, reply>>

\* requestIdChanMapping[requestId] is set (nothing reads or removes it).
Register(r) ==
    /\ client[r] = "register"
    /\ At(client, r, "connect")
    /\ UNCHANGED <<up, chan, stream, back, server, answer, relay, reply>>

\* NewStream; a gateway cannot dial itself.
Connect(r) ==
    /\ client[r] = "connect"
    /\ Target[r] \in up \ {Entry[r]}
    /\ At(stream, r, "opened")
    /\ At(client, r, "write")
    /\ UNCHANGED <<up, chan, back, server, answer, relay, reply>>

\* NewStream failed: the client gets status 500.
ConnectFails(r) ==
    /\ client[r] = "connect"
    /\ At(client, r, "refused")
    /\ UNCHANGED <<up, chan, stream, back, server, answer, relay, reply>>

\* WriteBytesViaStream; that the peer has died or the connection was lost may
\* not have been noticed yet.
Write(r) ==
    /\ client[r] = "write"
    /\ At(stream, r, IF Broken(stream[r]) THEN "gone" ELSE "written")
    /\ At(client, r, "makeChan")
    /\ UNCHANGED <<up, chan, back, server, answer, relay, reply>>

WritePanics(r) ==
    /\ client[r] = "write"
    /\ Target[r] \notin up \/ Broken(stream[r])
    /\ Crash(Entry[r])

\* serveHttpRequest: the channel is made and waited on, without a timeout.
MakeChan(r) ==
    /\ client[r] = "makeChan"
    /\ At(chan, r, TRUE)
    /\ At(client, r, "wait")
    /\ UNCHANGED <<up, stream, back, server, answer, relay, reply>>

\* Wrong variant: the channel stays in the map.
CleanupForgotten(r) ==
    /\ client[r] = "cleanup"
    /\ At(client, r, "replied")
    /\ UNCHANGED <<up, chan, stream, back, server, answer, relay, reply>>

\* The answer has been written to the client; the channel is deleted.
Cleanup(r) ==
    /\ client[r] = "cleanup"
    /\ At(chan, r, FALSE)
    /\ At(client, r, "replied")
    /\ UNCHANGED <<up, stream, back, server, answer, relay, reply>>
-------------------------------------------------------------------------------
(* The service side gateway: ProxyHttpInitRequestHandler                   *)

\* libp2p starts the handler, at the latest when data arrives.
ServerStarts(r) ==
    /\ Target[r] \in up
    /\ \/ stream[r] \in {"written", "arrived"}
       \/ stream[r] = "opened" /\ Entry[r] \in up
    /\ server[r] = "none"
    /\ At(server, r, "read")
    /\ UNCHANGED <<up, client, chan, stream, back, answer, relay, reply>>

ServerRead(r) ==
    /\ server[r] = "read"
    /\ stream[r] \in {"written", "arrived"}
    /\ At(server, r, "build")
    /\ UNCHANGED <<up, client, chan, stream, back, answer, relay, reply>>

\* The CSGW has died or the connection was lost, and the request cannot be
\* read: logger.Panic.
ServerReadPanics(r) ==
    /\ server[r] = "read"
    /\ Entry[r] \notin up \/ Broken(stream[r])
    /\ Crash(Target[r])

\* The service's record, read without the mutex, has a provider.
Build(r) ==
    /\ server[r] = "build"
    /\ At(server, r, "dialBack")
    /\ UNCHANGED <<up, client, chan, stream, back, answer, relay, reply>>

\* Wrong variant: the handler just returns.
BuildGivesUp(r) ==
    /\ server[r] = "build"
    /\ At(server, r, "done")
    /\ UNCHANGED <<up, client, chan, stream, back, answer, relay, reply>>

\* It has none, or is gone: Providers[0] is out of range.
BuildPanics(r) ==
    /\ server[r] = "build"
    /\ Crash(Target[r])

DialBack(r) ==
    /\ server[r] = "dialBack"
    /\ Entry[r] \in up
    /\ At(back, r, "opened")
    /\ At(server, r, "call")
    /\ UNCHANGED <<up, client, chan, stream, answer, relay, reply>>

DialBackPanics(r) ==
    /\ server[r] = "dialBack"
    /\ Crash(Target[r])

\* fasthttp.Do, which has no timeout.
Call(r) ==
    /\ server[r] = "call"
    /\ At(server, r, "respond")
    /\ UNCHANGED <<up, client, chan, stream, back, answer, relay, reply>>

CallPanics(r) ==
    /\ server[r] = "call"
    /\ Crash(Target[r])

\* The answer, with a request id; the stream back stays open.  That it is
\* broken may not have been noticed yet.
RespondAs(r, id, next) ==
    /\ server[r] = "respond"
    /\ At(answer, r, IF Broken(back[r]) THEN answer[r] ELSE id)
    /\ At(server, r, next)
    /\ UNCHANGED <<up, client, chan, stream, back, relay, reply>>

\* Wrong variants: the answer carries no request id; it is written again and
\* again; it carries the id of another request of the same gateway.
RespondWithoutId(r) == RespondAs(r, "", "done")
RespondAgain(r) == RespondAs(r, r, "respond")
RespondMixedUp(r) == \E q \in Requests : Entry[q] = Entry[r] /\ RespondAs(r, q, "done")

Respond(r) == RespondAs(r, r, "done")

RespondPanics(r) ==
    /\ server[r] = "respond"
    /\ Entry[r] \notin up \/ Broken(back[r])
    /\ Crash(Target[r])
-------------------------------------------------------------------------------
(* The stream back: ProxyHttpRespHandler at the CSGW                       *)

RelayStarts(r) ==
    /\ Entry[r] \in up
    /\ back[r] \in {"opened", "arrived"}
    /\ relay[r] = "none"
    /\ At(relay, r, "open")
    /\ UNCHANGED <<up, client, chan, stream, back, server, answer, reply>>

RelayRead(r) ==
    /\ relay[r] = "open"
    /\ answer[r] # NoAnswer
    /\ At(relay, r, "lookup")
    /\ UNCHANGED <<up, client, chan, stream, back, server, answer, reply>>

\* clientHttpDataChan[requestId]: sending on the nil channel of a request
\* that has none blocks for ever.
RelayLookup(r) ==
    /\ relay[r] = "lookup"
    /\ At(relay, r, IF chan[answer[r]] THEN "send" ELSE "stuck")
    /\ UNCHANGED <<up, client, chan, stream, back, server, answer, reply>>

\* The send and the receive of the waiting request meet.
Deliver(r) ==
    /\ relay[r] = "send"
    /\ client[answer[r]] = "wait"
    /\ At(reply, answer[r], r)
    /\ At(client, answer[r], "cleanup")
    /\ At(answer, r, NoAnswer)
    /\ At(relay, r, "open")
    /\ UNCHANGED <<up, chan, stream, back, server>>

\* The SSGW has died or the connection was lost, and the handler is reading,
\* before the answer or after it: logger.Panic.
RelayReadPanics(r) ==
    /\ relay[r] = "open"
    /\ Target[r] \notin up \/ Broken(back[r])
    /\ Crash(Entry[r])
-------------------------------------------------------------------------------
(* The network, and what the gateways share                                *)

\* The state of a stream whose connection is lost; ok: what was written to it
\* has arrived.
Lost(state, ok) ==
    IF state = "none" \/ Broken(state) THEN state
    ELSE IF ok THEN "arrived" ELSE "gone"

\* The connection between g and h, and with it all streams between them.  An
\* answer that its handler has not read is lost unless it has arrived.
ConnectionLost(g, h) ==
    LET R == {r \in Requests : {Entry[r], Target[r]} = {g, h}}
    IN  /\ \E r \in R : stream[r] \in {"opened", "written"} \/ back[r] = "opened"
        /\ \E arrived \in SUBSET R :
             /\ stream' = [r \in Requests |->
                             IF r \notin R THEN stream[r]
                             ELSE Lost(stream[r], r \in arrived /\ stream[r] = "written")]
             /\ back' = [r \in Requests |->
                           IF r \notin R THEN back[r] ELSE Lost(back[r], r \in arrived)]
             /\ answer' = [r \in Requests |->
                             IF r \in R /\ back'[r] = "gone" /\ relay[r] \in {"none", "open"}
                               THEN NoAnswer ELSE answer[r]]
    /\ UNCHANGED <<up, client, chan, server, relay, reply>>

\* Maps shared without a mutex: when one goroutine writes while another
\* reads or writes, the runtime may notice and end the process.
ConcurrentMapThrow(g) ==
    /\ \E q, r \in {x \in Requests : Entry[x] = g} :
         \/ q # r /\ client[q] = "register" /\ client[r] = "register"
         \/ /\ client[q] \in {"makeChan", "cleanup"}
            /\ \/ q # r /\ client[r] \in {"makeChan", "cleanup"}
               \/ relay[r] = "lookup"
    /\ Crash(g)

ClientStep(r) ==
    \/ Register(r) \/ Connect(r) \/ ConnectFails(r)
    \/ Write(r) \/ WritePanics(r) \/ MakeChan(r) \/ Cleanup(r)
ServerStep(r) ==
    \/ ServerStarts(r) \/ ServerRead(r) \/ ServerReadPanics(r)
    \/ Build(r) \/ BuildPanics(r) \/ DialBack(r) \/ DialBackPanics(r)
    \/ Respond(r) \/ RespondPanics(r)
ServiceStep(r) == Call(r) \/ CallPanics(r)
RelayStep(r) ==
    \/ RelayStarts(r) \/ RelayRead(r) \/ RelayLookup(r)
    \/ Deliver(r) \/ RelayReadPanics(r)

Next ==
    \/ \E r \in Requests : Accept(r) \/ ClientStep(r) \/ ServerStep(r)
                           \/ ServiceStep(r) \/ RelayStep(r)
    \/ \E g \in up : ConcurrentMapThrow(g)
    \/ \E g, h \in Gateways : ConnectionLost(g, h)

Spec == Init /\ [][Next]_vars

\* Every goroutine that can run does run.  Clients need not ask anything, a
\* service that was called need not answer, and connections need not be lost.
Fairness ==
    \A r \in Requests :
      WF_vars(ClientStep(r)) /\ WF_vars(ServerStep(r)) /\ WF_vars(RelayStep(r))

FairSpec == Spec /\ Fairness
-------------------------------------------------------------------------------
(* Properties                                                              *)

\* The answer a client gets is the one its own SSGW wrote for this very
\* request, on this request's stream, after it was done with it: the request
\* id leads every answer to the client that waits for it, however the
\* requests of a gateway interleave (node_proxy_handler.go:122-135, 191,
\* csgw_http.go:86-92).
AnswersReachTheirClient ==
    \A r \in Requests :
      reply[r] # NoAnswer => /\ reply[r] = r
                             /\ stream[r] \notin {"none", "opened"}
                             /\ Target[r] \in up => server[r] = "done"

\* clientHttpDataChan holds only channels somebody waits on or is about to
\* delete: finished requests leave nothing behind, and a dead gateway has no
\* waiting clients (csgw_http.go:86-92).
ChannelsInUse ==
    \A r \in Requests : chan[r] => Entry[r] \in up /\ client[r] \in {"wait", "cleanup"}

\* An answer that found no channel is lost for good: the client it was for
\* gets nothing at all, and never a second copy (node_proxy_handler.go:191).
StuckMeansUnanswered ==
    \A r \in Requests : relay[r] = "stuck" => reply[r] = NoAnswer /\ client[r] # "replied"

\* A stream of r broke with its connection.
CutOff(r) == Broken(stream[r]) \/ Broken(back[r])

\* A client that was accepted is answered or refused, or loses its
\* connection with its gateway, unless one of four things happened: its answer
\* overtook the making of its channel, the SSGW died or the connection to it
\* was lost and the CSGW did not notice, or the service never answers.  There
\* is no other way to wait for ever (csgw_http.go:85-94,
\* node_proxy_handler.go:119, 191).
OnlyFourWaysToHang ==
    \A r \in Requests :
      client[r] = "register" ~>
        \/ client[r] \in {"replied", "refused", "lost"}
        \/ relay[r] = "stuck"
        \/ Target[r] \notin up
        \/ CutOff(r)
        \/ [](server[r] = "call")

\* "all response from remote node for this request will have this id
\* attached, then the sender node can pass the request to correct client"
\* (models.proto:123-125): an accepted request is answered or refused as long
\* as no gateway dies, no connection is lost and its service answers.
AcceptedIsAnswered ==
    \A r \in Requests :
      [](up = Gateways /\ ~CutOff(r)) /\ []<>(server[r] # "call") =>
        (client[r] = "register" ~> client[r] \in {"replied", "refused"})
===============================================================================
