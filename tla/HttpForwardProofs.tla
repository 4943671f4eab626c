--------------------------- MODULE HttpForwardProofs --------------------------
(***************************************************************************)
(* Proofs about HttpForward, for any gateways and requests.                *)
(***************************************************************************)
EXTENDS HttpForward, TLAPS

\* Nothing runs at a gateway that is down.
DeadIsGone ==
    \A r \in Requests :
      /\ Entry[r] \notin up => /\ client[r] \in {"idle", "replied", "refused", "lost"}
                               /\ relay[r] = "none"
                               /\ ~chan[r]
      /\ server[r] # "none" => Target[r] \in up

\* How far the request has got at the CSGW, on its stream and at the SSGW.
RequestFlow ==
    \A r \in Requests :
      /\ stream[r] = "none" => client[r] \in {"idle", "register", "connect",
                                              "refused", "lost"}
      /\ stream[r] = "opened" => client[r] \in {"write", "lost"}
      /\ stream[r] \in {"written", "arrived"} =>
           client[r] \in {"makeChan", "wait", "cleanup", "replied", "lost"}
      /\ stream[r] = "gone" =>
           client[r] \in {"write", "makeChan", "wait", "cleanup", "replied", "lost"}
      /\ server[r] \notin {"none", "read"} => stream[r] \notin {"none", "opened"}

\* How far its answer has got: an SSGW that is still up has answered once,
\* and the answer is on its stream, or with the client, never both.
AnswerFlow ==
    \A r \in Requests :
      /\ answer[r] \in {r, NoAnswer}
      /\ reply[r] \in {r, NoAnswer}
      /\ answer[r] = r => reply[r] = NoAnswer
      /\ (answer[r] = r \/ reply[r] = r) =>
           stream[r] \notin {"none", "opened"} /\ (Target[r] \in up => server[r] = "done")
      /\ relay[r] \in {"lookup", "send", "stuck"} => answer[r] = r
      /\ reply[r] = r => client[r] \in {"cleanup", "replied", "lost"}
      /\ client[r] \in {"cleanup", "replied"} => reply[r] = r

\* The inductive invariant.
ForwardInv ==
    /\ TypeOK
    /\ DeadIsGone
    /\ RequestFlow
    /\ AnswerFlow
    /\ ChannelsInUse

LEMMA ForwardInitInv == Init => ForwardInv
  BY ForwardAssumption
  DEF Init, ForwardInv, TypeOK, DeadIsGone, RequestFlow, AnswerFlow, ChannelsInUse,
      ClientStates, ServerStates, RelayStates, StreamStates, BackStates

\* A gateway that dies takes its part of every request with it, and only that.
LEMMA CrashInv ==
    ASSUME ForwardInv, NEW g \in Gateways, Crash(g)
    PROVE  ForwardInv'
  BY ForwardAssumption
  DEF Crash, ForwardInv, TypeOK, DeadIsGone, RequestFlow, AnswerFlow, ChannelsInUse,
      ClientStates, ServerStates, RelayStates, StreamStates, BackStates

\* A lost connection takes no request back: it only keeps what is on its
\* streams from arriving.
LEMMA ConnectionLostInv ==
    ASSUME ForwardInv, NEW g \in Gateways, NEW h \in Gateways, ConnectionLost(g, h)
    PROVE  ForwardInv'
<1> USE ForwardAssumption
<1>1. UNCHANGED <<up, client, chan, server, relay, reply>>
  BY DEF ConnectionLost
<1>2. /\ stream' \in [Requests -> StreamStates] /\ back' \in [Requests -> BackStates]
      /\ answer' \in [Requests -> Requests \cup {NoAnswer}]
  BY DEF ConnectionLost, Lost, Broken, ForwardInv, TypeOK, StreamStates, BackStates
<1>3. ASSUME NEW r \in Requests
      PROVE  /\ stream'[r] = "none" <=> stream[r] = "none"
             /\ stream'[r] = "opened" => stream[r] = "opened"
             /\ stream'[r] \in {"written", "arrived"} => stream[r] \in {"written", "arrived"}
             /\ answer'[r] \in {answer[r], NoAnswer}
             /\ relay[r] \in {"lookup", "send", "stuck"} => answer'[r] = answer[r]
  BY DEF ConnectionLost, Lost, Broken, ForwardInv, TypeOK, StreamStates, BackStates
<1>4. TypeOK' /\ DeadIsGone' /\ ChannelsInUse'
  BY <1>1, <1>2 DEF ForwardInv, TypeOK, DeadIsGone, ChannelsInUse
<1>5. RequestFlow'
  BY <1>1, <1>2, <1>3 DEF ForwardInv, TypeOK, RequestFlow, StreamStates
<1>6. AnswerFlow'
  BY <1>1, <1>3 DEF ForwardInv, AnswerFlow
<1> QED
  BY <1>4, <1>5, <1>6 DEF ForwardInv

LEMMA ForwardNextInv == ForwardInv /\ [Next]_vars => ForwardInv'
<1> SUFFICES ASSUME ForwardInv, [Next]_vars PROVE ForwardInv'
  OBVIOUS
<1> USE ForwardAssumption
<1>1. CASE UNCHANGED vars
  BY <1>1
  DEF vars, ForwardInv, TypeOK, DeadIsGone, RequestFlow, AnswerFlow, ChannelsInUse
<1>2. CASE \E g \in up : ConcurrentMapThrow(g)
  BY <1>2, CrashInv DEF ConcurrentMapThrow, ForwardInv, TypeOK
<1>3. ASSUME NEW r \in Requests,
             \/ WritePanics(r) \/ ServerReadPanics(r) \/ BuildPanics(r)
             \/ DialBackPanics(r) \/ CallPanics(r) \/ RespondPanics(r)
             \/ RelayReadPanics(r)
      PROVE  ForwardInv'
  BY <1>3, CrashInv
  DEF WritePanics, ServerReadPanics, BuildPanics, DialBackPanics, CallPanics,
      RespondPanics, RelayReadPanics
<1>4. ASSUME NEW r \in Requests,
             \/ Accept(r) \/ ClientStep(r) \/ ServerStep(r)
             \/ ServiceStep(r) \/ RelayStep(r)
      PROVE  ForwardInv'
  <2> USE DEF ForwardInv, TypeOK, DeadIsGone, RequestFlow, AnswerFlow, ChannelsInUse,
              ClientStates, ServerStates, RelayStates, StreamStates, BackStates,
              At, Broken
  <2>1. CASE Accept(r)
    BY <2>1 DEF Accept
  <2>2. CASE Register(r)
    BY <2>2 DEF Register
  <2>3. CASE Connect(r)
    BY <2>3 DEF Connect
  <2>4. CASE ConnectFails(r)
    BY <2>4 DEF ConnectFails
  <2>5. CASE Write(r)
    BY <2>5 DEF Write
  <2>6. CASE MakeChan(r)
    BY <2>6 DEF MakeChan
  <2>7. CASE Cleanup(r)
    BY <2>7 DEF Cleanup
  <2>8. CASE ServerStarts(r)
    BY <2>8 DEF ServerStarts
  <2>9. CASE ServerRead(r)
    BY <2>9 DEF ServerRead
  <2>10. CASE Build(r)
    BY <2>10 DEF Build
  <2>11. CASE DialBack(r)
    BY <2>11 DEF DialBack
  <2>12. CASE Call(r)
    BY <2>12 DEF Call
  <2>13. CASE Respond(r)
    BY <2>13 DEF Respond, RespondAs
  <2>14. CASE RelayStarts(r)
    BY <2>14 DEF RelayStarts
  <2>15. CASE RelayRead(r)
    BY <2>15 DEF RelayRead
  <2>16. CASE RelayLookup(r)
    BY <2>16 DEF RelayLookup
  <2>17. CASE Deliver(r)
    BY <2>17 DEF Deliver
  <2>. QED
    BY <1>3, <1>4, <2>1, <2>2, <2>3, <2>4, <2>5, <2>6, <2>7, <2>8, <2>9, <2>10, <2>11, <2>12, <2>13, <2>14, <2>15, <2>16, <2>17
    DEF ClientStep, ServerStep, ServiceStep, RelayStep
<1>5. CASE \E g, h \in Gateways : ConnectionLost(g, h)
  BY <1>5, ConnectionLostInv
<1>. QED  BY <1>1, <1>2, <1>4, <1>5 DEF Next

LEMMA ForwardInvariance == Spec => []ForwardInv
  BY ForwardInitInv, ForwardNextInv, PTL DEF Spec

\* The state of every request and stream has its type.
THEOREM ForwardTypeCorrect == Spec => []TypeOK
  BY ForwardInvariance, PTL DEF ForwardInv

\* Every answer a client gets came on the stream of its own request, from an
\* SSGW that was done with it.
THEOREM AnswersAreRight == Spec => []AnswersReachTheirClient
<1>1. ForwardInv => AnswersReachTheirClient
  BY ForwardAssumption DEF ForwardInv, AnswerFlow, AnswersReachTheirClient
<1>. QED  BY <1>1, ForwardInvariance, PTL

\* clientHttpDataChan holds the channels of waiting requests only.
THEOREM NoLeakedChannels == Spec => []ChannelsInUse
  BY ForwardInvariance, PTL DEF ForwardInv

\* A client whose answer found no channel never gets one.
THEOREM StuckAnswersAreLost == Spec => []StuckMeansUnanswered
<1>1. ForwardInv => StuckMeansUnanswered
  BY ForwardAssumption DEF ForwardInv, AnswerFlow, StuckMeansUnanswered
<1>. QED  BY <1>1, ForwardInvariance, PTL
===============================================================================
