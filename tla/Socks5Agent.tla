------------------------------- MODULE Socks5Agent ----------------------------
(***************************************************************************)
(* The socks5 agents (apron_agent_server.go, apron_client_agent.go).       *)
(*                                                                         *)
(* The client agent opens a connection to the client side gateway for      *)
(* each of its clients, but keeps it in one field, RemoteSocketConn, which *)
(* the goroutine of a client reads again when it sends the connect message *)
(* and when it starts the two copying goroutines.  The two gateways join   *)
(* each such connection to one of the service agent's: a line, named after *)
(* the client it was opened for.  The service agent keeps the connections  *)
(* to the service of each line by request id.                              *)
(*                                                                         *)
(* Framing loses bytes: the gateway and the client agent make a new        *)
(* bufio.Reader for every frame (see Framing), and the service agent sends *)
(* its answers without frames, so that several may be read as one.         *)
(***************************************************************************)
EXTENDS Naturals, Sequences

CONSTANTS
    Clients,      \* clients of the client agent, and their request ids
    NoLine,       \* RemoteSocketConn before the first client
    Garbled,      \* bytes that are no message
    MaxUp,        \* bound: messages of a client
    MaxDown       \* bound: answers of the service to a client

ASSUME AgentAssumption ==
    /\ NoLine \notin Clients
    /\ MaxUp \in Nat
    /\ MaxDown \in Nat

VARIABLES
    clientAgent,    \* "up" or "down"
    serviceAgent,   \* "start", "registered", "listening" or "down"
    agent,          \* agent[c]: where the goroutine of client c is
    remoteConn,     \* agentConfig.RemoteSocketConn
    upLine,         \* upLine[c]: the line the goroutine from c writes to
    downLine,       \* downLine[c]: the line the goroutine to c reads from
    line,           \* line[l]: its state
    upFrames,       \* upFrames[l]: frames on their way to the service agent
    services,       \* serviceConnections: <<line, request id>>
    back,           \* back[l]: answers on their way to the client agent
    sent,           \* sent[c]: messages the client agent has taken from c
    toService,      \* toService[c]: messages the service has got for c
    answered,       \* answered[c]: answers the service agent has taken for c
    toClient,       \* toClient[c]: answers c has got (garbage left out)
    overlapped      \* history: a client came while another was being set up

connVars == <<remoteConn, upLine, downLine, overlapped>>
caVars == <<clientAgent, agent, connVars>>
saVars == <<serviceAgent, services>>
dataVars == <<sent, toService, answered, toClient>>
vars == <<caVars, saVars, line, upFrames, back, dataVars>>

\* RemoteSocketConn is c's, and the goroutine of c has yet to use it.
SettingUp == {"init", "build", "connect", "bindUp", "bindDown"}
AgentStates == SettingUp \cup {"idle", "dial", "store", "serving"}
\* ExtServiceData and, as the first frame, the init request.
Frame == [type : {"init", "connect", "data"}, client : Clients, n : 0..MaxUp]
Answer == [client : Clients, n : 1..MaxDown]

TypeOK ==
    /\ clientAgent \in {"up", "down"}
    /\ serviceAgent \in {"start", "registered", "listening", "down"}
    /\ agent \in [Clients -> AgentStates]
    /\ remoteConn \in Clients \cup {NoLine}
    /\ upLine \in [Clients -> Clients \cup {NoLine}]
    /\ downLine \in [Clients -> Clients \cup {NoLine}]
    /\ line \in [Clients -> {"none", "open", "served", "refused", "broken"}]
    /\ upFrames \in [Clients -> Seq(Frame \cup {Garbled})]
    /\ services \in SUBSET (Clients \X Clients)
    /\ back \in [Clients -> Seq(Answer)]
    /\ sent \in [Clients -> 0..MaxUp]
    /\ toService \in [Clients -> Seq(Frame)]
    /\ answered \in [Clients -> 0..MaxDown]
    /\ toClient \in [Clients -> Seq(Answer)]
    /\ overlapped \in BOOLEAN

Each(v) == [c \in Clients |-> v]

Init ==
    /\ clientAgent = "up"
    /\ serviceAgent = "start"
    /\ agent = Each("idle")
    /\ remoteConn = NoLine
    /\ upLine = Each(NoLine)
    /\ downLine = Each(NoLine)
    /\ line = Each("none")
    /\ upFrames = Each(<<>>)
    /\ services = {}
    /\ back = Each(<<>>)
    /\ sent = Each(0)
    /\ toService = Each(<<>>)
    /\ answered = Each(0)
    /\ toClient = Each(<<>>)
    /\ overlapped = FALSE

At(f, c, v) == f' = [f EXCEPT ![c] = v]
Working(l) == line[l] \in {"open", "served"}

\* What the line carries after a write: behind garbage everything is garbage.
Written(l, f) ==
    IF upFrames[l] # <<>> /\ upFrames[l][Len(upFrames[l])] = Garbled
      THEN upFrames[l] ELSE Append(upFrames[l], f)

\* The first frame of line l is of this type.
Carries(l, type) ==
    /\ upFrames[l] # <<>>
    /\ upFrames[l][1] # Garbled
    /\ upFrames[l][1].type = type

\* What is left when the gateway has read the first frame of q: the reader
\* that it then throws away may hold some of the next ones, and a part of one.
Rest(q) ==
    {SubSeq(q, k, Len(q)) : k \in 2..Len(q) + 1}
      \cup {r \in {<<Garbled>>} : Len(q) > 1}
FirstRead(l) == \E r \in Rest(upFrames[l]) : At(upFrames, l, r)

\* The process ends, with its goroutines and what they know.
ClientAgentPanics ==
    /\ clientAgent' = "down"
    /\ agent' = Each("idle")
    /\ remoteConn' = NoLine
    /\ upLine' = Each(NoLine)
    /\ downLine' = Each(NoLine)
    /\ UNCHANGED <<overlapped, saVars, line, upFrames, back, dataVars>>

\* The service side gateway, which reads from the service agent, goes with it.
\* Nobody reads the frames on broken lines.
ServiceAgentPanics ==
    /\ serviceAgent' = "down"
    /\ services' = {}
    /\ line' = [l \in Clients |-> IF line[l] = "served" THEN "broken" ELSE line[l]]
    /\ upFrames' = [l \in Clients |-> IF line[l] = "served" THEN <<>> ELSE upFrames[l]]
    /\ UNCHANGED <<caVars, back, dataVars>>
-------------------------------------------------------------------------------
(* The client agent                                                        *)

\* The goroutine of client c gets from one place to another.
AgentGoes(c, from, to) ==
    /\ clientAgent = "up"
    /\ agent[c] = from
    /\ At(agent, c, to)
    /\ UNCHANGED <<clientAgent, saVars, back, dataVars>>

AgentPanicsAt(c, place) == clientAgent = "up" /\ agent[c] = place /\ ClientAgentPanics

Accept(c) == AgentGoes(c, "idle", "dial") /\ UNCHANGED <<connVars, line, upFrames>>

Dial(c) ==
    /\ AgentGoes(c, "dial", "store")
    /\ At(line, c, "open")
    /\ UNCHANGED <<connVars, upFrames>>

DialPanics(c) == AgentPanicsAt(c, "dial")

\* The field is set to l.
StoreConnAs(c, l) ==
    /\ AgentGoes(c, "store", "init")
    /\ remoteConn' = l
    /\ overlapped' = (overlapped \/ \E d \in Clients : agent[d] \in SettingUp)
    /\ UNCHANGED <<upLine, downLine, line, upFrames>>

\* Wrong variant: a connection is made only once.
StoreConnOnce(c) == StoreConnAs(c, IF remoteConn = NoLine THEN c ELSE remoteConn)

\* s.agentConfig.RemoteSocketConn = csgwConn
StoreConn(c) == StoreConnAs(c, c)

\* A frame of client c is written to line l.
Writes(l, c, type, n) ==
    /\ Working(l)
    /\ At(upFrames, l, Written(l, [type |-> type, client |-> c, n |-> n]))

\* The init request goes to the connection just made.
WriteInit(c) ==
    AgentGoes(c, "init", "build") /\ Writes(c, c, "init", 0) /\ UNCHANGED <<connVars, line>>

\* Greeting and connect request of the client.
Build(c) == AgentGoes(c, "build", "connect") /\ UNCHANGED <<connVars, line, upFrames>>

\* A client that goes away or does not speak socks5 ends the agent.
BuildPanics(c) == AgentPanicsAt(c, "build")

\* The connect message goes to the connection stored last; the client is told
\* that it is connected.
WriteConnect(c) ==
    /\ AgentGoes(c, "connect", "bindUp")
    /\ Writes(remoteConn, c, "connect", 0)
    /\ UNCHANGED <<connVars, line>>

\* The arguments of the two goroutines are taken one after the other.
BindUp(c) ==
    /\ AgentGoes(c, "bindUp", "bindDown")
    /\ At(upLine, c, remoteConn)
    /\ UNCHANGED <<remoteConn, downLine, overlapped, line, upFrames>>

BindDown(c) ==
    /\ AgentGoes(c, "bindDown", "serving")
    /\ At(downLine, c, remoteConn)
    /\ UNCHANGED <<remoteConn, upLine, overlapped, line, upFrames>>

\* A message of the client.  (When it closes the connection, none follows.)
ForwardUp(c) ==
    /\ clientAgent = "up"
    /\ agent[c] \in {"bindDown", "serving"}
    /\ sent[c] < MaxUp
    /\ At(sent, c, sent[c] + 1)
    /\ Writes(upLine[c], c, "data", sent[c] + 1)
    /\ UNCHANGED <<caVars, saVars, line, back, toService, answered, toClient>>

\* The lines client c may be writing a frame to.
WritesTo(c) ==
    {l \in Clients : \/ agent[c] = "init" /\ l = c
                     \/ agent[c] = "connect" /\ l = remoteConn
                     \/ agent[c] \in {"bindDown", "serving"} /\ l = upLine[c]
                          /\ sent[c] < MaxUp}

\* A write error: CheckError.
WritePanics(c) ==
    /\ clientAgent = "up"
    /\ \E l \in WritesTo(c) : ~Working(l)
    /\ ClientAgentPanics

\* Length and content are two writes: frames of two goroutines may mix.
WritesMix(l) ==
    /\ clientAgent = "up"
    /\ Working(l)
    /\ \E c, d \in Clients : c # d /\ l \in WritesTo(c) \cap WritesTo(d)
    /\ At(upFrames, l, Written(l, Garbled))
    /\ UNCHANGED <<caVars, saVars, line, back, dataVars>>

\* The goroutine to the client.  Up to k answers are read as one message, of
\* which the last content counts, or as something that cannot be unmarshalled,
\* or are lost with a reader; the client may also be gone.
ReadBack(c) ==
    /\ clientAgent = "up"
    /\ agent[c] = "serving"
    /\ LET l == downLine[c]
       IN  \E k \in 1..Len(back[l]) :
             /\ At(back, l, SubSeq(back[l], k + 1, Len(back[l])))
             /\ \/ UNCHANGED toClient
                \/ At(toClient, c, Append(toClient[c], back[l][k]))
    /\ UNCHANGED <<caVars, saVars, line, upFrames, sent, toService, answered>>
-------------------------------------------------------------------------------
(* The gateways between the agents                                         *)

\* The init request leads to a connection with the service agent.
LineServed(l) ==
    /\ line[l] = "open"
    /\ serviceAgent = "listening"
    /\ Carries(l, "init")
    /\ At(line, l, "served")
    /\ FirstRead(l)
    /\ UNCHANGED <<caVars, saVars, back, dataVars>>

\* No service, no init request, or a gateway that dies.
LineBreaks(l) ==
    /\ Working(l)
    /\ At(line, l, IF line[l] = "open" THEN "refused" ELSE "broken")
    /\ At(upFrames, l, <<>>)
    /\ UNCHANGED <<caVars, saVars, back, dataVars>>
-------------------------------------------------------------------------------
(* The service agent                                                       *)

StartGoes(from, to) ==
    /\ serviceAgent = from
    /\ serviceAgent' = to
    /\ UNCHANGED <<caVars, services, line, upFrames, back, dataVars>>

\* prepareAgent: the agent is a service of its gateway.
Register == StartGoes("start", "registered")

Listen == StartGoes("registered", "listening")

\* The gateway cannot be reached, or the address is in use.
StartPanics ==
    /\ serviceAgent \in {"start", "registered"}
    /\ ServiceAgentPanics

\* A message of this type has come on line l.
Arrived(l, type) ==
    serviceAgent = "listening" /\ line[l] = "served" /\ Carries(l, type)

\* A connect message: connectToSocks5Service.
ConnectService(l) ==
    /\ Arrived(l, "connect")
    /\ services' = services \cup {<<l, upFrames[l][1].client>>}
    /\ FirstRead(l)
    /\ UNCHANGED <<caVars, serviceAgent, line, back, dataVars>>

ConnectServicePanics(l) == Arrived(l, "connect") /\ ServiceAgentPanics

\* Wrong variant: data goes to some connection of the line.
DataOfLine(l) ==
    /\ Arrived(l, "data")
    /\ \E c \in Clients :
         /\ <<l, c>> \in services
         /\ At(toService, c, Append(toService[c], upFrames[l][1]))
    /\ FirstRead(l)
    /\ UNCHANGED <<caVars, saVars, line, back, sent, answered, toClient>>

\* A data message, for the connection of its request id.  A write error is
\* ignored.
DataToService(l) ==
    /\ Arrived(l, "data")
    /\ LET f == upFrames[l][1]
       IN  /\ <<l, f.client>> \in services
           /\ \/ UNCHANGED toService
              \/ At(toService, f.client, Append(toService[f.client], f))
    /\ FirstRead(l)
    /\ UNCHANGED <<caVars, saVars, line, back, sent, answered, toClient>>

\* The connect message went elsewhere or was lost: a nil connection.
DataTooEarly(l) ==
    /\ Arrived(l, "data")
    /\ <<l, upFrames[l][1].client>> \notin services
    /\ ServiceAgentPanics

\* What cannot be unmarshalled, or is not for socks5.
GarbageArrives(l) ==
    /\ serviceAgent = "listening"
    /\ line[l] = "served"
    /\ upFrames[l] # <<>> /\ upFrames[l][1] = Garbled
    /\ ServiceAgentPanics

\* The reader of a line gets an error.
LineLost(l) ==
    serviceAgent = "listening" /\ line[l] = "broken" /\ ServiceAgentPanics

\* The goroutine that was started with the connection c of line l takes an
\* answer and sends it back under a request id.
ServiceAnswersAs(l, c, id) ==
    /\ serviceAgent = "listening"
    /\ <<l, c>> \in services
    /\ answered[c] < MaxDown
    /\ At(answered, c, answered[c] + 1)
    /\ At(back, l, Append(back[l], [client |-> id, n |-> answered[c] + 1]))
    /\ UNCHANGED <<caVars, saVars, line, upFrames, sent, toService, toClient>>

\* Wrong variant: the answer has no request id.
ServiceAnswersNobody(l, c) == ServiceAnswersAs(l, c, NoLine)

ServiceAnswers(l, c) == ServiceAnswersAs(l, c, c)

\* The service closes one of its connections: CheckError.
ServiceCloses ==
    serviceAgent = "listening" /\ services # {} /\ ServiceAgentPanics
-------------------------------------------------------------------------------
ClientStep(c) ==
    \/ Accept(c) \/ Dial(c) \/ DialPanics(c) \/ StoreConn(c) \/ WriteInit(c)
    \/ Build(c) \/ BuildPanics(c) \/ WriteConnect(c) \/ BindUp(c) \/ BindDown(c)
    \/ ForwardUp(c) \/ WritePanics(c) \/ ReadBack(c)

LineStep(l) ==
    \/ WritesMix(l) \/ LineServed(l) \/ LineBreaks(l)
    \/ ConnectService(l) \/ ConnectServicePanics(l) \/ DataToService(l)
    \/ DataTooEarly(l) \/ GarbageArrives(l) \/ LineLost(l)
    \/ \E c \in Clients : ServiceAnswers(l, c)

Next ==
    \/ \E c \in Clients : ClientStep(c) \/ LineStep(c)
    \/ Register \/ Listen \/ StartPanics \/ ServiceCloses

Spec == Init /\ [][Next]_vars
-------------------------------------------------------------------------------
(* Properties                                                              *)

Increasing(q) == \A i, j \in DOMAIN q : i < j => q[i].n < q[j].n

\* The connection the service agent keeps for a client gets messages of this
\* client only, each at most once and in order, even when the goroutines of two
\* clients have taken each other's line and several clients share one
\* ("request_id used to identify connection with service in SA side",
\* src/proto/ext_service.proto:11; apron_agent_server.go:316).
ServiceGetsOwnData ==
    \A c \in Clients :
      /\ \A i \in DOMAIN toService[c] : toService[c][i].client = c
      /\ Increasing(toService[c])

\* As long as no client comes while another is being set up, the one field
\* RemoteSocketConn is enough: a client gets only answers to itself, each at
\* most once and in order, and besides them only garbage
\* (apron_agent_server.go:224, apron_client_agent.go:151, 210, 266).  The
\* request id of an answer is not looked at (apron_client_agent.go:251).
ClientsGetOwnAnswers ==
    ~overlapped =>
      \A c \in Clients :
        /\ \A i \in DOMAIN toClient[c] : toClient[c][i].client = c
        /\ Increasing(toClient[c])
===============================================================================
