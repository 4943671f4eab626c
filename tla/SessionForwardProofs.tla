-------------------------- MODULE SessionForwardProofs ------------------------
(***************************************************************************)
(* Proofs about SessionForward, for any gateways and sessions: what the    *)
(* ends of a session get, and that the sessions are the channels of        *)
(* SessionChannels.                                                        *)
(***************************************************************************)
EXTENDS SessionForward, SequenceTheorems, TLAPS

\* One direction of session s: q is on its stream, the receiver has got what
\* was before it, and n messages have been taken from the sender.  All of them
\* are on the stream or with the receiver as long as the stream is whole.
InFlow(s, q, got, n, state) ==
    /\ \A i \in 1..Len(got) : got[i] = i
    /\ \A i \in 1..Len(q) : q[i] = [session |-> s, n |-> Len(got) + i]
    /\ Len(got) + Len(q) <= n
    /\ state = "open" => Len(got) + Len(q) = n
    /\ state = "none" => n = 0

UpFlow ==
    \A s \in Sessions :
      InFlow(s, upData[s], toService[s], sent[s], dataStream[s])
DownFlow ==
    \A s \in Sessions :
      InFlow(s, downData[s], toClient[s], produced[s], backStream[s])

\* The handler of the init request has come past NewStream, which the two kinds
\* of session call at different places.
DialledBack(s) ==
    \/ server[s] = "serving"
    \/ kind[s] = "ws" /\ server[s] \in {"dialService", "register"}

\* A data stream is opened once: a goroutine that has yet to open it finds none.
OpenedOnce ==
    \A s \in Sessions :
      /\ client[s] \in {"idle", "note", "connect", "write", "openData"}
           => dataStream[s] = "none"
      /\ server[s] # "none" => Target[s] \in up
      /\ Target[s] \in up /\ ~DialledBack(s) => backStream[s] = "none"

\* The inductive invariant.
SessionInv == TypeOK /\ UpFlow /\ DownFlow /\ OpenedOnce
-------------------------------------------------------------------------------
(* One direction of a session                                              *)

\* A message is taken from the sender and written to a stream that is open, or
\* lost on a broken one.
LEMMA FlowTakes ==
    ASSUME NEW s \in Sessions, NEW q \in Seq(Data), NEW got \in Seq(Nat),
           NEW n \in Nat, NEW state \in {"open", "broken"}, InFlow(s, q, got, n, state)
    PROVE  LET p == Sent(q, state, [session |-> s, n |-> n + 1])
           IN  p \in Seq(Data) /\ InFlow(s, p, got, n + 1, state)
<1> DEFINE d == [session |-> s, n |-> n + 1]
<1>1. d \in Data
  BY DEF Data
<1>2. Len(got) \in Nat /\ Len(q) \in Nat
  BY LenProperties
<1>3. CASE state = "open"
  <2> DEFINE p == Append(q, d)
  <2>1. /\ p \in Seq(Data)
        /\ Len(p) = Len(q) + 1
        /\ \A i \in 1..Len(q) : p[i] = q[i]
        /\ p[Len(q) + 1] = d
    BY <1>1, AppendProperties
  <2>2. n + 1 = Len(got) + Len(p)
    BY <1>2, <1>3, <2>1 DEF InFlow
  <2>3. ASSUME NEW i \in 1..Len(p) PROVE p[i] = [session |-> s, n |-> Len(got) + i]
    <3>1. CASE i \in 1..Len(q)
      BY <2>1, <3>1 DEF InFlow
    <3>2. CASE i = Len(q) + 1
      BY <1>2, <2>1, <2>2, <3>2
    <3> QED
      BY <1>2, <2>1, <3>1, <3>2
  <2> HIDE DEF p
  <2>4. InFlow(s, p, got, n + 1, state)
    BY <1>2, <1>3, <2>1, <2>2, <2>3 DEF InFlow
  <2> QED
    BY <1>3, <2>1, <2>4 DEF Sent, p
<1>4. CASE state = "broken"
  BY <1>2, <1>4 DEF Sent, InFlow
<1> QED
  BY <1>3, <1>4

\* What is first on the stream is the next message of this very session, and
\* the receiver gets it.
LEMMA FlowHands ==
    ASSUME NEW s \in Sessions, NEW q \in Seq(Data), NEW got \in Seq(Nat),
           NEW n \in Nat, NEW state, InFlow(s, q, got, n, state), q # <<>>
    PROVE  LET p == Append(got, Head(q).n)
           IN  /\ Head(q) = [session |-> s, n |-> Len(got) + 1]
               /\ p \in Seq(Nat)
               /\ Tail(q) \in Seq(Data)
               /\ Len(p) + Len(Tail(q)) = Len(got) + Len(q)
               /\ Len(got) < Len(got) + Len(q)
               /\ InFlow(s, Tail(q), p, n, state)
<1> DEFINE p == Append(got, Head(q).n)
           t == Tail(q)
<1>1. Len(got) \in Nat /\ Len(q) \in Nat
  BY LenProperties
<1>2. /\ Len(q) \in Nat \ {0}
      /\ Head(q) = q[1]
      /\ t \in Seq(Data)
      /\ Len(t) = Len(q) - 1
      /\ \A i \in 1..Len(t) : t[i] = q[i + 1]
  BY HeadTailProperties, EmptySeq, <1>1
<1>3. Head(q) = [session |-> s, n |-> Len(got) + 1]
  BY <1>1, <1>2 DEF InFlow
<1>4. Head(q).n = Len(got) + 1
  BY <1>3
<1>5. /\ p \in Seq(Nat)
      /\ Len(p) = Len(got) + 1
      /\ \A i \in 1..Len(got) : p[i] = got[i]
      /\ p[Len(got) + 1] = Len(got) + 1
  BY <1>1, <1>4, AppendProperties
<1> HIDE DEF p, t
<1>6. ASSUME NEW i \in 1..Len(p) PROVE p[i] = i
  <2>1. CASE i \in 1..Len(got)
    BY <1>5, <2>1 DEF InFlow
  <2>2. CASE i = Len(got) + 1
    BY <1>5, <2>2
  <2> QED
    BY <1>1, <1>5, <2>1, <2>2
<1>7. ASSUME NEW i \in 1..Len(t) PROVE t[i] = [session |-> s, n |-> Len(p) + i]
  <2>1. i + 1 \in 1..Len(q)
    BY <1>1, <1>2
  <2>2. t[i] = [session |-> s, n |-> Len(got) + (i + 1)]
    BY <1>2, <2>1 DEF InFlow
  <2> QED
    BY <1>1, <1>5, <2>2
<1>8. Len(p) + Len(t) = Len(got) + Len(q)
  <2>1. Len(p) = Len(got) + 1 /\ Len(t) = Len(q) - 1
    BY <1>2, <1>5
  <2> QED
    BY <1>1, <2>1
<1>9. InFlow(s, t, p, n, state)
  BY <1>6, <1>7, <1>8 DEF InFlow
<1>10. Len(got) < Len(got) + Len(q)
  BY <1>1, <1>2
<1> QED
  BY <1>2, <1>3, <1>5, <1>8, <1>9, <1>10 DEF p, t

\* A stream breaks or cannot be opened, what was on it may be lost, and a
\* message may be taken that is lost as well: q becomes p, n becomes m and the
\* stream gets from one state to another.
Loss(q, p, n, m, from, to) ==
    /\ p = q \/ (p = <<>> /\ to = Lost(from))
    /\ to \in {from, Lost(from)} \/ (from = "none" /\ to = "failed")
    /\ m = n \/ (m = n + 1 /\ from \in {"failed", "broken"})

LEMMA FlowLoses ==
    ASSUME NEW s \in Sessions, NEW q \in Seq(Data), NEW got \in Seq(Nat),
           NEW n \in Nat, NEW from \in DataStates, InFlow(s, q, got, n, from),
           NEW p, NEW m, NEW to, Loss(q, p, n, m, from, to)
    PROVE  /\ p \in Seq(Data)
           /\ m \in Nat
           /\ to \in DataStates
           /\ InFlow(s, p, got, m, to)
           /\ Len(got) + Len(p) \in Nat
           /\ Len(got) <= Len(got) + Len(p)
           /\ Len(got) + Len(p) <= Len(got) + Len(q)
           /\ from \in {"failed", "broken"} => to \in {"failed", "broken"}
<1>1. Len(got) \in Nat /\ Len(q) \in Nat
  BY LenProperties
<1>2. m \in Nat /\ n <= m /\ (from \in {"none", "open"} => m = n)
  BY DEF Loss
<1>3. to \in DataStates /\ (to = "open" => from = "open") /\ (to = "none" => from = "none")
  BY DEF Loss, Lost, DataStates
<1>4. from \in {"failed", "broken"} => to \in {"failed", "broken"}
  BY DEF Loss, Lost
<1>5. CASE p = q
  <2>1. InFlow(s, p, got, m, to)
    <3>1. Len(got) + Len(q) <= m
      BY <1>1, <1>2 DEF InFlow
    <3>2. to = "open" => Len(got) + Len(q) = m
      BY <1>2, <1>3 DEF InFlow
    <3>3. to = "none" => m = 0
      BY <1>2, <1>3 DEF InFlow
    <3> QED
      BY <1>5, <3>1, <3>2, <3>3 DEF InFlow
  <2> QED
    BY <1>1, <1>2, <1>3, <1>4, <1>5, <2>1
<1>6. CASE p = <<>> /\ to = Lost(from)
  <2>1. p \in Seq(Data) /\ Len(p) = 0
    BY <1>6
  <2>2. to # "open"
    BY <1>6 DEF Lost
  <2>3. to = "none" => m = 0
    BY <1>1, <1>2, <1>3 DEF InFlow
  <2>4. InFlow(s, p, got, m, to)
    <3>1. Len(got) + Len(p) <= m
      BY <1>1, <1>2, <2>1 DEF InFlow
    <3>2. \A i \in 1..Len(p) : p[i] = [session |-> s, n |-> Len(got) + i]
      BY <2>1
    <3> QED
      BY <2>2, <2>3, <3>1, <3>2 DEF InFlow
  <2> QED
    BY <1>1, <1>2, <1>3, <1>4, <2>1, <2>3, <2>4
<1> QED
  BY <1>5, <1>6 DEF Loss

\* Nothing is lost on a stream that is whole.
LEMMA FlowKept ==
    ASSUME NEW s \in Sessions, NEW q \in Seq(Data), NEW got \in Seq(Nat),
           NEW n \in Nat, NEW from \in DataStates, InFlow(s, q, got, n, from),
           NEW p, NEW m, NEW to, Loss(q, p, n, m, from, to),
           to \notin {"failed", "broken"}
    PROVE  p = q
<1>1. CASE p = <<>> /\ to = Lost(from)
  <2>1. from = "none"
    BY <1>1 DEF Lost, DataStates
  <2>2. Len(got) \in Nat /\ Len(q) \in Nat
    BY LenProperties
  <2>3. Len(q) = 0
    BY <2>1, <2>2 DEF InFlow
  <2> QED
    BY <1>1, <2>3, EmptySeq
<1> QED
  BY <1>1 DEF Loss

\* Appending a one-element sequence of n.
LEMMA OnceMore ==
    ASSUME NEW q \in Seq(Nat), NEW n \in Nat
    PROVE  q \o [i \in 1..1 |-> n] = Append(q, n)
<1>1. [i \in 1..1 |-> n] = <<n>>
  OBVIOUS
<1> QED
  BY <1>1
-------------------------------------------------------------------------------
(* The invariant                                                           *)

LEMMA SessionInitInv == Init => SessionInv
<1> SUFFICES ASSUME Init PROVE SessionInv
  OBVIOUS
<1>1. TypeOK
  BY SessionAssumption
  DEF Init, TypeOK, Each, ClientStates, ServerStates, InitStates, DataStates
<1>2. UpFlow /\ DownFlow
  BY DEF Init, UpFlow, DownFlow, InFlow, Each
<1>3. OpenedOnce
  BY DEF Init, OpenedOnce, DialledBack, Each
<1> QED
  BY <1>1, <1>2, <1>3 DEF SessionInv

\* What a step does that breaks streams or fails to open one, in any direction
\* of any session.
Losing ==
    /\ \A s \in Sessions :
         /\ Loss(upData[s], upData'[s], sent[s], sent'[s], dataStream[s], dataStream'[s])
         /\ Loss(downData[s], downData'[s], produced[s], produced'[s],
                 backStream[s], backStream'[s])
    /\ UNCHANGED <<toService, toClient>>

LEMMA LosingFlow ==
    ASSUME SessionInv, Losing
    PROVE  UpFlow' /\ DownFlow'
<1> SUFFICES ASSUME NEW s \in Sessions
             PROVE  /\ InFlow(s, upData'[s], toService'[s], sent'[s], dataStream'[s])
                    /\ InFlow(s, downData'[s], toClient'[s], produced'[s], backStream'[s])
  BY DEF UpFlow, DownFlow
<1>1. /\ upData[s] \in Seq(Data) /\ downData[s] \in Seq(Data)
      /\ toService[s] \in Seq(Nat) /\ toClient[s] \in Seq(Nat)
      /\ sent[s] \in Nat /\ produced[s] \in Nat
      /\ dataStream[s] \in DataStates /\ backStream[s] \in DataStates
  BY DEF SessionInv, TypeOK
<1>2. /\ InFlow(s, upData[s], toService[s], sent[s], dataStream[s])
      /\ InFlow(s, downData[s], toClient[s], produced[s], backStream[s])
  BY DEF SessionInv, UpFlow, DownFlow
<1>3. /\ Loss(upData[s], upData'[s], sent[s], sent'[s], dataStream[s], dataStream'[s])
      /\ Loss(downData[s], downData'[s], produced[s], produced'[s],
              backStream[s], backStream'[s])
      /\ toService' = toService /\ toClient' = toClient
  BY DEF Losing
<1>4. InFlow(s, upData'[s], toService[s], sent'[s], dataStream'[s])
  BY <1>1, <1>2, <1>3, FlowLoses
<1>5. InFlow(s, downData'[s], toClient[s], produced'[s], backStream'[s])
  BY <1>1, <1>2, <1>3, FlowLoses
<1> QED
  BY <1>3, <1>4, <1>5

\* A step that ends a gateway, with the message that is lost, if any.
Ending(g) ==
    /\ ProcessEnds(g)
    /\ \/ UNCHANGED <<sent, produced>>
       \/ \E s \in Sessions : ForwardUpPanics(s)
       \/ \E s \in Sessions : ForwardDownPanics(s)

LEMMA EndingLoses ==
    ASSUME SessionInv, NEW g \in Gateways, Ending(g)
    PROVE  /\ Losing
           /\ sent' \in [Sessions -> Nat] /\ produced' \in [Sessions -> Nat]
<1>1. UNCHANGED <<toService, toClient>>
  BY DEF Ending, ProcessEnds
<1>2. ASSUME NEW s \in Sessions
      PROVE  /\ \/ upData'[s] = upData[s] /\ dataStream'[s] = dataStream[s]
                \/ /\ upData'[s] \in {upData[s], <<>>}
                   /\ dataStream'[s] = Lost(dataStream[s])
             /\ \/ downData'[s] = downData[s] /\ backStream'[s] = backStream[s]
                \/ /\ downData'[s] \in {downData[s], <<>>}
                   /\ backStream'[s] = Lost(backStream[s])
  BY DEF Ending, ProcessEnds, StreamsBreak
<1>3. sent \in [Sessions -> Nat] /\ produced \in [Sessions -> Nat]
  BY DEF SessionInv, TypeOK
<1>4. /\ sent' \in [Sessions -> Nat]
      /\ \A s \in Sessions : \/ sent'[s] = sent[s]
                             \/ /\ sent'[s] = sent[s] + 1
                                /\ dataStream[s] \in {"failed", "broken"}
  BY <1>3 DEF Ending, ForwardUpPanics, ForwardDownPanics, At
<1>5. /\ produced' \in [Sessions -> Nat]
      /\ \A s \in Sessions : \/ produced'[s] = produced[s]
                             \/ /\ produced'[s] = produced[s] + 1
                                /\ backStream[s] \in {"failed", "broken"}
  BY <1>3 DEF Ending, ForwardUpPanics, ForwardDownPanics, At
<1>6. ASSUME NEW s \in Sessions
      PROVE  Loss(upData[s], upData'[s], sent[s], sent'[s], dataStream[s], dataStream'[s])
  BY <1>2, <1>4 DEF Loss
<1>7. ASSUME NEW s \in Sessions
      PROVE  Loss(downData[s], downData'[s], produced[s], produced'[s],
                  backStream[s], backStream'[s])
  BY <1>2, <1>5 DEF Loss
<1> QED
  BY <1>1, <1>4, <1>5, <1>6, <1>7 DEF Losing

\* A gateway that dies takes its goroutines, its maps and the data on its way
\* to it along, and leaves what was delivered alone.
LEMMA EndingInv ==
    ASSUME SessionInv, NEW g \in Gateways, Ending(g)
    PROVE  SessionInv'
<1> USE SessionAssumption
<1>1. sent' \in [Sessions -> Nat] /\ produced' \in [Sessions -> Nat]
  BY EndingLoses
<1>2. /\ upData' \in [Sessions -> Seq(Data)] /\ downData' \in [Sessions -> Seq(Data)]
      /\ toService' \in [Sessions -> Seq(Nat)] /\ toClient' \in [Sessions -> Seq(Nat)]
  BY DEF SessionInv, TypeOK, Ending, ProcessEnds
<1>3. /\ initStream' \in [Sessions -> InitStates]
      /\ dataStream' \in [Sessions -> DataStates]
      /\ backStream' \in [Sessions -> DataStates]
  BY DEF SessionInv, TypeOK, Ending, ProcessEnds, StreamsBreak, Lost, InitStates,
         DataStates
<1>4. /\ client' \in [Sessions -> ClientStates] /\ server' \in [Sessions -> ServerStates]
      /\ kind' \in Kinds /\ up' \in SUBSET Gateways /\ losses' \in Nat
      /\ clientConns' \in SUBSET Sessions /\ serviceConns' \in SUBSET Sessions
      /\ upHandler' \in SUBSET Sessions /\ downHandler' \in SUBSET Sessions
  BY DEF SessionInv, TypeOK, Ending, ProcessEnds, ClientStates, ServerStates
<1>5. TypeOK'
  BY <1>1, <1>2, <1>3, <1>4 DEF TypeOK
<1>6. UpFlow' /\ DownFlow'
  BY EndingLoses, LosingFlow
<1>7. OpenedOnce'
  <2> SUFFICES ASSUME NEW s \in Sessions
               PROVE  /\ client'[s] \in {"idle", "note", "connect", "write", "openData"}
                           => dataStream'[s] = "none"
                      /\ server'[s] # "none" => Target[s] \in up'
                      /\ Target[s] \in up' /\ ~DialledBack(s)' => backStream'[s] = "none"
    BY DEF OpenedOnce
  <2>1. /\ client'[s] \in {client[s], "lost"}
        /\ dataStream[s] = "none" => dataStream'[s] = "none"
        /\ backStream[s] = "none" => backStream'[s] = "none"
        /\ server'[s] = IF Target[s] = g THEN "none" ELSE server[s]
        /\ up' = up \ {g}
        /\ kind' = kind
    BY DEF Ending, ProcessEnds, StreamsBreak, Lost
  <2>2. /\ client[s] \in {"idle", "note", "connect", "write", "openData"}
             => dataStream[s] = "none"
        /\ server[s] # "none" => Target[s] \in up
        /\ Target[s] \in up /\ ~DialledBack(s) => backStream[s] = "none"
    BY DEF SessionInv, OpenedOnce
  <2> QED
    BY <2>1, <2>2 DEF DialledBack
<1> QED
  BY <1>5, <1>6, <1>7 DEF SessionInv

LEMMA ConnectionLostLoses ==
    ASSUME SessionInv, NEW g \in Gateways, NEW h \in Gateways, ConnectionLost(g, h)
    PROVE  Losing /\ UNCHANGED <<sent, produced>>
<1>1. UNCHANGED <<sent, upData, toService, produced, downData, toClient>>
  BY DEF ConnectionLost, upVars, downVars
<1>2. \A s \in Sessions : /\ dataStream'[s] \in {dataStream[s], Lost(dataStream[s])}
                          /\ backStream'[s] \in {backStream[s], Lost(backStream[s])}
  BY DEF ConnectionLost, StreamsBreak
<1>3. ASSUME NEW s \in Sessions
      PROVE  Loss(upData[s], upData'[s], sent[s], sent'[s], dataStream[s], dataStream'[s])
  BY <1>1, <1>2 DEF Loss
<1>4. ASSUME NEW s \in Sessions
      PROVE  Loss(downData[s], downData'[s], produced[s], produced'[s],
                  backStream[s], backStream'[s])
  BY <1>1, <1>2 DEF Loss
<1> QED
  BY <1>1, <1>3, <1>4 DEF Losing

LEMMA ConnectionLostInv ==
    ASSUME SessionInv, NEW g \in Gateways, NEW h \in Gateways, ConnectionLost(g, h)
    PROVE  SessionInv'
<1>1. /\ initStream' \in [Sessions -> InitStates]
      /\ dataStream' \in [Sessions -> DataStates]
      /\ backStream' \in [Sessions -> DataStates]
  BY DEF SessionInv, TypeOK, ConnectionLost, StreamsBreak, Lost, InitStates, DataStates
<1>2. /\ losses' \in Nat
      /\ UNCHANGED <<kind, up, client, clientConns, server, serviceConns, upVars, downVars>>
  BY DEF SessionInv, TypeOK, ConnectionLost
<1>3. TypeOK'
  BY <1>1, <1>2 DEF SessionInv, TypeOK, upVars, downVars
<1>4. UpFlow' /\ DownFlow'
  BY ConnectionLostLoses, LosingFlow
<1>5. \A s \in Sessions : /\ dataStream[s] = "none" => dataStream'[s] = "none"
                          /\ backStream[s] = "none" => backStream'[s] = "none"
  BY DEF ConnectionLost, StreamsBreak, Lost
<1>6. OpenedOnce'
  BY <1>2, <1>5 DEF SessionInv, OpenedOnce, DialledBack
<1> QED
  BY <1>3, <1>4, <1>6 DEF SessionInv

\* The steps that end a gateway, without those that lose a message.
Panics(s) ==
    \/ WriteInitPanics(s) \/ UpgradeFails(s) \/ ServerReadPanics(s) \/ DialBackPanics(s)
    \/ DialServicePanics(s) \/ ServiceCloses(s) \/ UpTooEarly(s) \/ UpWritePanics(s)
    \/ UpBreaks(s) \/ DownUnwanted(s) \/ DownBreaks(s)

\* The steps of the goroutines that carry and lose no data.
QuietClient(s) ==
    \/ Accept(s) \/ NoteRequest(s) \/ Connect(s) \/ ConnectFails(s) \/ WriteInit(s)
    \/ OpenData(s) \/ RegisterClient(s) \/ ClientCloses(s)
QuietServer(s) ==
    ServerStarts(s) \/ ServerRead(s) \/ DialBack(s) \/ DialService(s) \/ RegisterService(s)
Quiet(s) == QuietClient(s) \/ QuietServer(s) \/ UpStarts(s) \/ DownStarts(s)

\* A message or a channel is lost and nothing ends.
Unnoticed(s) == ForwardUpRecovers(s) \/ OpenDataFails(s) \/ DialBackFails(s)

\* What a step may do to the two directions of the sessions.
LEMMA Steps ==
    ASSUME SessionInv, Next
    PROVE  \/ \E g \in Gateways : Ending(g)
           \/ \E g, h \in Gateways : ConnectionLost(g, h)
           \/ \E s \in Sessions : \/ Quiet(s) \/ Unnoticed(s) \/ ForwardUp(s)
                                  \/ ForwardDown(s) \/ UpDeliver(s) \/ DownDeliver(s)
<1>1. CASE \E g \in up : ConcurrentMapThrow(g)
  BY <1>1 DEF ConcurrentMapThrow, SessionInv, TypeOK, Crash, Ending
<1>2. ASSUME NEW s \in Sessions, Panics(s) PROVE \E g \in Gateways : Ending(g)
  <2>1. Crash(Entry[s]) \/ Crash(Target[s])
    BY <1>2
    DEF Panics, WriteInitPanics, UpgradeFails, ServerReadPanics, DialBackPanics,
        DialServicePanics, ServiceCloses, UpTooEarly, UpWritePanics, UpBreaks,
        DownUnwanted, DownBreaks
  <2> QED
    BY <2>1, SessionAssumption DEF Crash, Ending
<1>3. ASSUME NEW s \in Sessions, ForwardUpPanics(s) \/ ForwardDownPanics(s)
      PROVE  \E g \in Gateways : Ending(g)
  <2>1. CASE ForwardUpPanics(s)
    <3>1. ProcessEnds(Entry[s])
      BY <2>1 DEF ForwardUpPanics
    <3> QED
      BY <2>1, <3>1, SessionAssumption DEF Ending
  <2>2. CASE ForwardDownPanics(s)
    <3>1. ProcessEnds(Target[s])
      BY <2>2 DEF ForwardDownPanics
    <3> QED
      BY <2>2, <3>1, SessionAssumption DEF Ending
  <2> QED
    BY <1>3, <2>1, <2>2
<1>4. ASSUME NEW s \in Sessions,
             \/ Traffic(s) \/ HandlerStarts(s)
             \/ ClientStep(s) \/ ServerStep(s) \/ UpStep(s) \/ DownStep(s)
      PROVE  \/ Panics(s) \/ ForwardUpPanics(s) \/ ForwardDownPanics(s)
             \/ Quiet(s) \/ Unnoticed(s) \/ ForwardUp(s) \/ ForwardDown(s)
             \/ UpDeliver(s) \/ DownDeliver(s)
  BY <1>4
  DEF Traffic, HandlerStarts, ClientStep, ServerStep, UpStep, DownStep, Panics, Quiet,
      QuietClient, QuietServer, Unnoticed
<1> QED
  BY <1>1, <1>2, <1>3, <1>4 DEF Next

\* Quiet steps leave the data alone, and a data stream at most gets opened.
LEMMA QuietKeeps ==
    ASSUME SessionInv, NEW s \in Sessions, Quiet(s)
    PROVE  /\ UNCHANGED <<sent, upData, toService, produced, downData, toClient>>
           /\ \A t \in Sessions :
                /\ \/ dataStream'[t] = dataStream[t]
                   \/ dataStream[t] = "none" /\ dataStream'[t] = "open"
                /\ \/ backStream'[t] = backStream[t]
                   \/ backStream[t] = "none" /\ backStream'[t] = "open"
<1>1. dataStream \in [Sessions -> DataStates] /\ backStream \in [Sessions -> DataStates]
  BY DEF SessionInv, TypeOK
<1>2. CASE QuietClient(s)
  <2>1. UNCHANGED <<sent, upData, toService, produced, downData, toClient, backStream>>
    BY <1>2
    DEF QuietClient, Accept, NoteRequest, Connect, ConnectFails, WriteInit, OpenData,
        RegisterClient, ClientCloses, ClientGoes, ssgwVars, upVars, downVars
  <2>2. CASE OpenData(s)
    <3>1. dataStream[s] = "none"
      BY <2>2 DEF OpenData, ClientGoes, SessionInv, OpenedOnce
    <3>2. dataStream' = [dataStream EXCEPT ![s] = "open"]
      BY <2>2 DEF OpenData, At
    <3> QED
      BY <1>1, <2>1, <3>1, <3>2
  <2>3. CASE ~OpenData(s)
    <3>1. UNCHANGED dataStream
      BY <1>2, <2>3
      DEF QuietClient, Accept, NoteRequest, Connect, ConnectFails, WriteInit,
          RegisterClient, ClientCloses
    <3> QED
      BY <2>1, <3>1
  <2> QED
    BY <2>2, <2>3
<1>3. CASE QuietServer(s)
  <2>1. UNCHANGED <<sent, upData, toService, produced, downData, toClient, dataStream>>
    BY <1>3
    DEF QuietServer, ServerStarts, ServerRead, DialBack, DialService, RegisterService,
        ServerGoes, csgwVars, upVars, downVars
  <2>2. CASE DialBack(s)
    <3>1. server[s] = "dialBack"
      BY <2>2 DEF DialBack, ServerGoes
    <3>2. backStream[s] = "none"
      BY <3>1 DEF SessionInv, OpenedOnce, DialledBack
    <3>3. backStream' = [backStream EXCEPT ![s] = "open"]
      BY <2>2 DEF DialBack, At
    <3> QED
      BY <1>1, <2>1, <3>2, <3>3
  <2>3. CASE ~DialBack(s)
    <3>1. UNCHANGED backStream
      BY <1>3, <2>3 DEF QuietServer, ServerStarts, ServerRead, DialService, RegisterService
    <3> QED
      BY <2>1, <3>1
  <2> QED
    BY <2>2, <2>3
<1>4. CASE UpStarts(s) \/ DownStarts(s)
  BY <1>4 DEF UpStarts, DownStarts, csgwVars, ssgwVars, upVars, downVars
<1> QED
  BY <1>2, <1>3, <1>4 DEF Quiet

LEMMA QuietInv ==
    ASSUME SessionInv, NEW s \in Sessions, Quiet(s)
    PROVE  SessionInv'
<1>1. TypeOK'
  <2> USE DEF SessionInv, TypeOK, At, ClientGoes, ServerGoes, ClientStates, ServerStates,
              InitStates, DataStates, csgwVars, ssgwVars, upVars, downVars
  <2>1. CASE Accept(s) \/ NoteRequest(s) \/ Connect(s) \/ ConnectFails(s)
    BY <2>1 DEF Accept, NoteRequest, Connect, ConnectFails
  <2>2. CASE WriteInit(s) \/ OpenData(s) \/ RegisterClient(s) \/ ClientCloses(s)
    BY <2>2 DEF WriteInit, OpenData, RegisterClient, ClientCloses
  <2>3. CASE ServerStarts(s) \/ ServerRead(s) \/ DialBack(s)
    BY <2>3 DEF ServerStarts, ServerRead, DialBack
  <2>4. CASE DialService(s) \/ RegisterService(s)
    BY <2>4 DEF DialService, RegisterService
  <2>5. CASE UpStarts(s) \/ DownStarts(s)
    BY <2>5 DEF UpStarts, DownStarts
  <2> QED
    BY <2>1, <2>2, <2>3, <2>4, <2>5 DEF Quiet, QuietClient, QuietServer
<1>2. UpFlow' /\ DownFlow'
  <2> SUFFICES ASSUME NEW t \in Sessions
               PROVE  /\ InFlow(t, upData'[t], toService'[t], sent'[t], dataStream'[t])
                      /\ InFlow(t, downData'[t], toClient'[t], produced'[t], backStream'[t])
    BY DEF UpFlow, DownFlow
  <2>1. ASSUME NEW q \in Seq(Data), NEW got \in Seq(Nat), NEW n \in Nat, NEW from, NEW to,
               InFlow(t, q, got, n, from),
               to = from \/ (from = "none" /\ to = "open")
        PROVE  InFlow(t, q, got, n, to)
    <3>1. Len(q) \in Nat /\ Len(got) \in Nat
      BY LenProperties
    <3> QED
      BY <2>1, <3>1 DEF InFlow
  <2>2. /\ upData[t] \in Seq(Data) /\ downData[t] \in Seq(Data)
        /\ toService[t] \in Seq(Nat) /\ toClient[t] \in Seq(Nat)
        /\ sent[t] \in Nat /\ produced[t] \in Nat
    BY DEF SessionInv, TypeOK
  <2>3. /\ InFlow(t, upData[t], toService[t], sent[t], dataStream[t])
        /\ InFlow(t, downData[t], toClient[t], produced[t], backStream[t])
    BY DEF SessionInv, UpFlow, DownFlow
  <2>4. /\ UNCHANGED <<sent, upData, toService, produced, downData, toClient>>
        /\ \A x \in Sessions :
             /\ \/ dataStream'[x] = dataStream[x]
                \/ dataStream[x] = "none" /\ dataStream'[x] = "open"
             /\ \/ backStream'[x] = backStream[x]
                \/ backStream[x] = "none" /\ backStream'[x] = "open"
    BY QuietKeeps
  <2>5. InFlow(t, upData[t], toService[t], sent[t], dataStream'[t])
    BY <2>1, <2>2, <2>3, <2>4
  <2>6. InFlow(t, downData[t], toClient[t], produced[t], backStream'[t])
    BY <2>1, <2>2, <2>3, <2>4
  <2> QED
    BY <2>4, <2>5, <2>6
<1>3. OpenedOnce'
  <2> USE DEF SessionInv, OpenedOnce, DialledBack, At
  <2>1. CASE QuietClient(s)
    <3>1. UNCHANGED <<kind, up, server, backStream>>
      BY <2>1
      DEF QuietClient, Accept, NoteRequest, Connect, ConnectFails, WriteInit, OpenData,
          RegisterClient, ClientCloses, ClientGoes, ssgwVars
    <3>2. /\ client \in [Sessions -> ClientStates]
          /\ dataStream \in [Sessions -> DataStates]
      BY DEF TypeOK
    <3>3. \A t \in Sessions \ {s} : client'[t] = client[t] /\ dataStream'[t] = dataStream[t]
      BY <2>1, <3>2
      DEF QuietClient, Accept, NoteRequest, Connect, ConnectFails, WriteInit, OpenData,
          RegisterClient, ClientCloses, ClientGoes
    <3>4. \/ client'[s] \in {"register", "serving", "closed"}
          \/ /\ client[s] \in {"idle", "note", "connect", "write"}
             /\ dataStream'[s] = dataStream[s]
      BY <2>1, <3>2
      DEF QuietClient, Accept, NoteRequest, Connect, ConnectFails, WriteInit, OpenData,
          RegisterClient, ClientCloses, ClientGoes
    <3> QED
      BY <3>1, <3>3, <3>4
  <2>2. CASE QuietServer(s)
    <3>1. UNCHANGED <<kind, up, client, dataStream>>
      BY <2>2
      DEF QuietServer, ServerStarts, ServerRead, DialBack, DialService, RegisterService,
          ServerGoes, csgwVars
    <3>2. /\ server \in [Sessions -> ServerStates]
          /\ backStream \in [Sessions -> DataStates]
      BY DEF TypeOK
    <3>3. \A t \in Sessions \ {s} : server'[t] = server[t] /\ backStream'[t] = backStream[t]
      BY <2>2, <3>2
      DEF QuietServer, ServerStarts, ServerRead, DialBack, DialService, RegisterService,
          ServerGoes
    <3>4. /\ Target[s] \in up
          /\ DialledBack(s)' \/ (~DialledBack(s) /\ backStream'[s] = backStream[s])
      <4>1. CASE ServerStarts(s)
        BY <3>1, <3>2, <4>1 DEF ServerStarts, ServerGoes
      <4>2. CASE ServerRead(s)
        BY <3>1, <3>2, <4>2 DEF ServerRead, ServerGoes
      <4>3. CASE DialBack(s)
        BY <3>1, <3>2, <4>3 DEF DialBack, ServerGoes
      <4>4. CASE DialService(s)
        BY <3>1, <3>2, <4>4 DEF DialService, ServerGoes
      <4>5. CASE RegisterService(s)
        BY <3>1, <3>2, <4>5 DEF RegisterService, ServerGoes
      <4> QED
        BY <2>2, <4>1, <4>2, <4>3, <4>4, <4>5 DEF QuietServer
    <3> QED
      BY <3>1, <3>3, <3>4
  <2>3. CASE UpStarts(s) \/ DownStarts(s)
    BY <2>3 DEF UpStarts, DownStarts, csgwVars, ssgwVars
  <2> QED
    BY <2>1, <2>2, <2>3 DEF Quiet
<1> QED
  BY <1>1, <1>2, <1>3 DEF SessionInv

\* A websocket session goes on without its data stream, a socket session
\* without its stream back; a message may be lost without a gateway's end.
LEMMA UnnoticedLoses ==
    ASSUME SessionInv, NEW s \in Sessions, Unnoticed(s)
    PROVE  /\ Losing
           /\ UNCHANGED produced
           /\ \/ UNCHANGED sent
              \/ /\ sent' = [sent EXCEPT ![s] = sent[s] + 1]
                 /\ dataStream[s] \in {"failed", "broken"}
<1>1. /\ dataStream \in [Sessions -> DataStates] /\ backStream \in [Sessions -> DataStates]
      /\ sent \in [Sessions -> Nat]
  BY DEF SessionInv, TypeOK
<1>2. CASE ForwardUpRecovers(s)
  <2>1. /\ UNCHANGED <<upData, toService, produced, downData, toClient, dataStream, backStream>>
        /\ sent' = [sent EXCEPT ![s] = sent[s] + 1]
        /\ dataStream[s] \in {"failed", "broken"}
    BY <1>2 DEF ForwardUpRecovers, At, ssgwVars, downVars
  <2> QED
    BY <1>1, <2>1 DEF Losing, Loss
<1>3. CASE OpenDataFails(s)
  <2>1. dataStream[s] = "none"
    BY <1>3 DEF OpenDataFails, ClientGoes, SessionInv, OpenedOnce
  <2>2. /\ UNCHANGED <<sent, upData, toService, produced, downData, toClient, backStream>>
        /\ dataStream' = [dataStream EXCEPT ![s] = "failed"]
    BY <1>3 DEF OpenDataFails, ClientGoes, At, ssgwVars, upVars, downVars
  <2> QED
    BY <1>1, <2>1, <2>2 DEF Losing, Loss
<1>4. CASE DialBackFails(s)
  <2>1. backStream[s] = "none"
    <3>1. server[s] = "dialBack"
      BY <1>4 DEF DialBackFails, ServerGoes
    <3> QED
      BY <3>1 DEF SessionInv, OpenedOnce, DialledBack
  <2>2. /\ UNCHANGED <<sent, upData, toService, produced, downData, toClient, dataStream>>
        /\ backStream' = [backStream EXCEPT ![s] = "failed"]
    BY <1>4 DEF DialBackFails, ServerGoes, At, csgwVars, upVars, downVars
  <2> QED
    BY <1>1, <2>1, <2>2 DEF Losing, Loss
<1> QED
  BY <1>2, <1>3, <1>4 DEF Unnoticed

LEMMA UnnoticedInv ==
    ASSUME SessionInv, NEW s \in Sessions, Unnoticed(s)
    PROVE  SessionInv'
<1>1. TypeOK'
  <2> USE DEF SessionInv, TypeOK, At, ClientGoes, ServerGoes, ClientStates, ServerStates,
              DataStates, csgwVars, ssgwVars, upVars, downVars
  <2>1. CASE ForwardUpRecovers(s)
    BY <2>1 DEF ForwardUpRecovers
  <2>2. CASE OpenDataFails(s)
    BY <2>2 DEF OpenDataFails
  <2>3. CASE DialBackFails(s)
    BY <2>3 DEF DialBackFails
  <2> QED
    BY <2>1, <2>2, <2>3 DEF Unnoticed
<1>2. UpFlow' /\ DownFlow'
  BY UnnoticedLoses, LosingFlow
<1>3. OpenedOnce'
  <2> USE DEF SessionInv, TypeOK, OpenedOnce, DialledBack, At
  <2>1. CASE ForwardUpRecovers(s)
    BY <2>1 DEF ForwardUpRecovers, ssgwVars
  <2>2. CASE OpenDataFails(s)
    BY <2>2 DEF OpenDataFails, ClientGoes, ssgwVars
  <2>3. CASE DialBackFails(s)
    BY <2>3 DEF DialBackFails, ServerGoes, csgwVars
  <2> QED
    BY <2>1, <2>2, <2>3 DEF Unnoticed
<1> QED
  BY <1>1, <1>2, <1>3 DEF SessionInv

\* The sender's gateway takes a message, upwards or downwards.
LEMMA ForwardUpInv ==
    ASSUME SessionInv, NEW s \in Sessions, ForwardUp(s)
    PROVE  SessionInv'
<1> USE DEF SessionInv
<1> DEFINE q == Sent(upData[s], dataStream[s], [session |-> s, n |-> sent[s] + 1])
<1>1. /\ dataStream[s] \in {"open", "broken"}
      /\ sent' = [sent EXCEPT ![s] = sent[s] + 1]
      /\ upData' = [upData EXCEPT ![s] = q]
      /\ UNCHANGED <<kind, up, losses, csgwVars, ssgwVars, upHandler, toService, downVars>>
  BY DEF ForwardUp, At
<1>2. q \in Seq(Data) /\ InFlow(s, q, toService[s], sent[s] + 1, dataStream[s])
  BY <1>1, FlowTakes DEF TypeOK, UpFlow
<1> HIDE DEF q
<1>3. TypeOK'
  BY <1>1, <1>2 DEF TypeOK, csgwVars, ssgwVars, downVars
<1>4. UpFlow'
  BY <1>1, <1>2 DEF TypeOK, UpFlow, csgwVars
<1>5. DownFlow' /\ OpenedOnce'
  BY <1>1 DEF DownFlow, OpenedOnce, DialledBack, csgwVars, ssgwVars, downVars
<1> QED
  BY <1>3, <1>4, <1>5

LEMMA ForwardDownInv ==
    ASSUME SessionInv, NEW s \in Sessions, ForwardDown(s)
    PROVE  SessionInv'
<1> USE DEF SessionInv
<1> DEFINE q == Sent(downData[s], backStream[s], [session |-> s, n |-> produced[s] + 1])
<1>1. /\ backStream[s] \in {"open", "broken"}
      /\ produced' = [produced EXCEPT ![s] = produced[s] + 1]
      /\ downData' = [downData EXCEPT ![s] = q]
      /\ UNCHANGED <<kind, up, losses, csgwVars, ssgwVars, upVars, downHandler, toClient>>
  BY DEF ForwardDown, ForwardDownAs, At
<1>2. q \in Seq(Data) /\ InFlow(s, q, toClient[s], produced[s] + 1, backStream[s])
  BY <1>1, FlowTakes DEF TypeOK, DownFlow
<1> HIDE DEF q
<1>3. TypeOK'
  BY <1>1, <1>2 DEF TypeOK, csgwVars, ssgwVars, upVars
<1>4. DownFlow'
  BY <1>1, <1>2 DEF TypeOK, DownFlow, ssgwVars
<1>5. UpFlow' /\ OpenedOnce'
  BY <1>1 DEF UpFlow, OpenedOnce, DialledBack, csgwVars, ssgwVars, upVars
<1> QED
  BY <1>3, <1>4, <1>5

\* The connection found in the map is the one of the session whose stream the
\* data came on, and what is written to it is the next message.
LEMMA UpDelivers ==
    ASSUME SessionInv, NEW s \in Sessions, UpDeliver(s)
    PROVE  /\ upData[s] # <<>>
           /\ toService' = [toService EXCEPT ![s] = Append(@, Len(@) + 1)]
           /\ upData' = [upData EXCEPT ![s] = Tail(@)]
           /\ UNCHANGED <<kind, up, losses, csgwVars, ssgwVars, upHandler, sent, downVars>>
           /\ toService'[s] \in Seq(Nat)
           /\ upData'[s] \in Seq(Data)
           /\ Len(toService'[s]) + Len(upData'[s]) = Len(toService[s]) + Len(upData[s])
           /\ Len(toService[s]) < Len(toService[s]) + Len(upData[s])
           /\ InFlow(s, upData'[s], toService'[s], sent[s], dataStream[s])
<1> USE DEF SessionInv
<1> DEFINE d == Head(upData[s])
<1>1. /\ upData[s] # <<>>
      /\ toService' = [toService EXCEPT ![d.session] =
                                            toService[d.session] \o [i \in 1..1 |-> d.n]]
      /\ upData' = [upData EXCEPT ![s] = Tail(upData[s])]
      /\ UNCHANGED <<kind, up, losses, csgwVars, ssgwVars, upHandler, sent, downVars>>
  BY DEF UpDeliver, UpDeliverTimes, UpArrived, At
<1>2. /\ upData[s] \in Seq(Data) /\ toService[s] \in Seq(Nat) /\ sent[s] \in Nat
      /\ upData \in [Sessions -> Seq(Data)] /\ toService \in [Sessions -> Seq(Nat)]
  BY DEF TypeOK
<1>3. InFlow(s, upData[s], toService[s], sent[s], dataStream[s])
  BY DEF UpFlow
<1> DEFINE p == Append(toService[s], d.n)
<1>4. /\ d = [session |-> s, n |-> Len(toService[s]) + 1]
      /\ p \in Seq(Nat)
      /\ Tail(upData[s]) \in Seq(Data)
      /\ Len(p) + Len(Tail(upData[s])) = Len(toService[s]) + Len(upData[s])
      /\ Len(toService[s]) < Len(toService[s]) + Len(upData[s])
      /\ InFlow(s, Tail(upData[s]), p, sent[s], dataStream[s])
  BY <1>1, <1>2, <1>3, FlowHands
<1>5. d.session = s /\ d.n = Len(toService[s]) + 1 /\ d.n \in Nat
  BY <1>2, <1>4, LenProperties
<1>6. toService' = [toService EXCEPT ![s] = p]
  BY <1>1, <1>2, <1>5, OnceMore
<1>7. toService'[s] = p /\ upData'[s] = Tail(upData[s])
  BY <1>1, <1>2, <1>6
<1> QED
  BY <1>1, <1>4, <1>5, <1>6, <1>7

LEMMA DownDelivers ==
    ASSUME SessionInv, NEW s \in Sessions, DownDeliver(s)
    PROVE  /\ downData[s] # <<>>
           /\ toClient' = [toClient EXCEPT ![s] = Append(@, Len(@) + 1)]
           /\ downData' = [downData EXCEPT ![s] = Tail(@)]
           /\ UNCHANGED <<kind, up, losses, csgwVars, ssgwVars, upVars, downHandler, produced>>
           /\ toClient'[s] \in Seq(Nat)
           /\ downData'[s] \in Seq(Data)
           /\ Len(toClient'[s]) + Len(downData'[s]) = Len(toClient[s]) + Len(downData[s])
           /\ Len(toClient[s]) < Len(toClient[s]) + Len(downData[s])
           /\ InFlow(s, downData'[s], toClient'[s], produced[s], backStream[s])
<1> USE DEF SessionInv
<1> DEFINE d == Head(downData[s])
<1>1. /\ downData[s] # <<>>
      /\ toClient' = [toClient EXCEPT ![d.session] = Append(toClient[d.session], d.n)]
      /\ downData' = [downData EXCEPT ![s] = Tail(downData[s])]
      /\ UNCHANGED <<kind, up, losses, csgwVars, ssgwVars, upVars, downHandler, produced>>
  BY DEF DownDeliver, DownRead, DownArrived, At
<1>2. /\ downData[s] \in Seq(Data) /\ toClient[s] \in Seq(Nat) /\ produced[s] \in Nat
      /\ downData \in [Sessions -> Seq(Data)] /\ toClient \in [Sessions -> Seq(Nat)]
  BY DEF TypeOK
<1>3. InFlow(s, downData[s], toClient[s], produced[s], backStream[s])
  BY DEF DownFlow
<1> DEFINE p == Append(toClient[s], d.n)
<1>4. /\ d = [session |-> s, n |-> Len(toClient[s]) + 1]
      /\ p \in Seq(Nat)
      /\ Tail(downData[s]) \in Seq(Data)
      /\ Len(p) + Len(Tail(downData[s])) = Len(toClient[s]) + Len(downData[s])
      /\ Len(toClient[s]) < Len(toClient[s]) + Len(downData[s])
      /\ InFlow(s, Tail(downData[s]), p, produced[s], backStream[s])
  BY <1>1, <1>2, <1>3, FlowHands
<1>5. d.session = s /\ d.n = Len(toClient[s]) + 1
  BY <1>4
<1>6. toClient' = [toClient EXCEPT ![s] = p]
  BY <1>1, <1>5
<1>7. toClient'[s] = p /\ downData'[s] = Tail(downData[s])
  BY <1>1, <1>2, <1>6
<1> QED
  BY <1>1, <1>4, <1>5, <1>6, <1>7

LEMMA SessionNextInv == SessionInv /\ [Next]_vars => SessionInv'
<1> SUFFICES ASSUME SessionInv, [Next]_vars PROVE SessionInv'
  OBVIOUS
<1>1. CASE UNCHANGED vars
  BY <1>1
  DEF SessionInv, TypeOK, UpFlow, DownFlow, OpenedOnce, DialledBack, vars, csgwVars,
      ssgwVars, upVars, downVars
<1>2. ASSUME NEW s \in Sessions, UpDeliver(s) PROVE SessionInv'
  <2>1. TypeOK'
    BY <1>2, UpDelivers DEF SessionInv, TypeOK, csgwVars, ssgwVars, downVars
  <2>2. UpFlow'
    BY <1>2, UpDelivers DEF SessionInv, UpFlow, TypeOK, csgwVars
  <2>3. DownFlow' /\ OpenedOnce'
    BY <1>2, UpDelivers
    DEF SessionInv, DownFlow, OpenedOnce, DialledBack, csgwVars, ssgwVars, downVars
  <2> QED
    BY <2>1, <2>2, <2>3 DEF SessionInv
<1>3. ASSUME NEW s \in Sessions, DownDeliver(s) PROVE SessionInv'
  <2>1. TypeOK'
    BY <1>3, DownDelivers DEF SessionInv, TypeOK, csgwVars, ssgwVars, upVars
  <2>2. DownFlow'
    BY <1>3, DownDelivers DEF SessionInv, DownFlow, TypeOK, ssgwVars
  <2>3. UpFlow' /\ OpenedOnce'
    BY <1>3, DownDelivers
    DEF SessionInv, UpFlow, OpenedOnce, DialledBack, csgwVars, ssgwVars, upVars
  <2> QED
    BY <2>1, <2>2, <2>3 DEF SessionInv
<1> QED
  BY <1>1, <1>2, <1>3, Steps, EndingInv, ConnectionLostInv, QuietInv, UnnoticedInv,
     ForwardUpInv, ForwardDownInv
-------------------------------------------------------------------------------
(* The theorems                                                            *)

LEMMA SessionInvariant == Spec => []SessionInv
  BY SessionInitInv, SessionNextInv, PTL DEF Spec

\* The goroutines, streams and maps of the sessions have the shape the
\* gateways' code gives them, whatever crashes (csgw_http.go, csgw_socket.go,
\* node_proxy_handler.go).
THEOREM SessionTypes == Spec => []TypeOK
  BY SessionInvariant, PTL DEF SessionInv

\* For any number of sessions, of both kinds, that share gateways and maps:
\* each end gets what the other end has said in this very session, in order
\* and without gaps or repetitions (node_proxy_handler.go:159, 164, 283, 290).
THEOREM SessionsStayInOrder == Spec => []SessionsInOrder
<1>1. SessionInv => SessionsInOrder
  <2> SUFFICES ASSUME SessionInv, NEW s \in Sessions
               PROVE  /\ Len(toService[s]) <= sent[s]
                      /\ toService[s] = [i \in 1..Len(toService[s]) |-> i]
                      /\ Len(toClient[s]) <= produced[s]
                      /\ toClient[s] = [i \in 1..Len(toClient[s]) |-> i]
    BY DEF SessionsInOrder
  <2>1. /\ toService[s] \in Seq(Nat) /\ upData[s] \in Seq(Data) /\ sent[s] \in Nat
        /\ toClient[s] \in Seq(Nat) /\ downData[s] \in Seq(Data) /\ produced[s] \in Nat
    BY DEF SessionInv, TypeOK
  <2>2. /\ InFlow(s, upData[s], toService[s], sent[s], dataStream[s])
        /\ InFlow(s, downData[s], toClient[s], produced[s], backStream[s])
    BY DEF SessionInv, UpFlow, DownFlow
  <2>3. ASSUME NEW q \in Seq(Nat), \A i \in 1..Len(q) : q[i] = i
        PROVE  q = [i \in 1..Len(q) |-> i]
    BY <2>3
  <2>4. ASSUME NEW q \in Seq(Data), NEW got \in Seq(Nat), NEW n \in Nat,
               NEW state, InFlow(s, q, got, n, state)
        PROVE  Len(got) <= n /\ \A i \in 1..Len(got) : got[i] = i
    <3>1. Len(q) \in Nat /\ Len(got) \in Nat
      BY LenProperties
    <3> QED
      BY <2>4, <3>1 DEF InFlow
  <2> QED
    BY <2>1, <2>2, <2>3, <2>4
<1> QED
  BY <1>1, SessionInvariant, PTL
-------------------------------------------------------------------------------
(* Refinement: a step takes the next message of one channel, hands over    *)
(* the next message of one channel, cuts channels off, loses a message of  *)
(* a channel that is cut off, or changes nothing that the channels show.   *)

Taken == [c \in Ends |-> IF c[2] = "up" THEN sent[c[1]] ELSE produced[c[1]]]
Got == [c \in Ends |-> IF c[2] = "up" THEN toService[c[1]] ELSE toClient[c[1]]]
Due == [c \in Ends |-> IF c[2] = "up" THEN Len(toService[c[1]]) + Len(upData[c[1]])
                                      ELSE Len(toClient[c[1]]) + Len(downData[c[1]])]
Cut == {c \in Ends : (IF c[2] = "up" THEN dataStream[c[1]] ELSE backStream[c[1]])
                       \in {"failed", "broken"}}

\* The two channels of a session, and no others, are its ends.
LEMMA EndsOfSessions ==
    /\ \A s \in Sessions : <<s, "up">> \in Ends /\ <<s, "down">> \in Ends
    /\ \A c \in Ends : c[1] \in Sessions /\ (c = <<c[1], "up">> \/ c = <<c[1], "down">>)
    /\ \A s, t \in Sessions : <<s, "up">> # <<t, "down">>
  BY DEF Ends

LEMMA InitRefines == Init => Chan!Init
<1> SUFFICES ASSUME Init PROVE Chan!Init
  OBVIOUS
<1>1. \A c \in Ends : c[1] \in Sessions
  BY EndsOfSessions
<1>2. Taken = [c \in Ends |-> 0]
  BY <1>1 DEF Init, Taken, Each
<1>3. Got = [c \in Ends |-> <<>>]
  BY <1>1 DEF Init, Got, Each
<1>4. Due = [c \in Ends |-> 0]
  BY <1>1 DEF Init, Due, Each
<1>5. Cut = {}
  BY <1>1 DEF Init, Cut, Each
<1> QED
  BY <1>2, <1>3, <1>4, <1>5 DEF Chan!Init, Taken, Got, Due, Cut

\* What is lost is the end of what was on its way, on channels that are cut off.
LEMMA LosingCuts ==
    ASSUME SessionInv, Losing
    PROVE  UNCHANGED Got /\ Chan!Cuts
<1>1. toService' = toService /\ toClient' = toClient
  BY DEF Losing
<1>2. UNCHANGED Got
  BY <1>1 DEF Got
<1>3. ASSUME NEW s \in Sessions
      PROVE  /\ Len(toService[s]) + Len(upData'[s]) \in Nat
             /\ Len(toService[s]) <= Len(toService[s]) + Len(upData'[s])
             /\ Len(toService[s]) + Len(upData'[s]) <= Len(toService[s]) + Len(upData[s])
             /\ dataStream'[s] \notin {"failed", "broken"} =>
                  Len(toService[s]) + Len(upData'[s]) = Len(toService[s]) + Len(upData[s])
             /\ dataStream[s] \in {"failed", "broken"} => dataStream'[s] \in {"failed", "broken"}
  <2>1. /\ upData[s] \in Seq(Data) /\ toService[s] \in Seq(Nat) /\ sent[s] \in Nat
        /\ dataStream[s] \in DataStates
    BY DEF SessionInv, TypeOK
  <2>2. /\ InFlow(s, upData[s], toService[s], sent[s], dataStream[s])
        /\ Loss(upData[s], upData'[s], sent[s], sent'[s], dataStream[s], dataStream'[s])
    BY DEF SessionInv, UpFlow, Losing
  <2>3. Len(toService[s]) + Len(upData'[s]) \in Nat
    BY <2>1, <2>2, FlowLoses
  <2>4. Len(toService[s]) <= Len(toService[s]) + Len(upData'[s])
    BY <2>1, <2>2, FlowLoses
  <2>5. Len(toService[s]) + Len(upData'[s]) <= Len(toService[s]) + Len(upData[s])
    BY <2>1, <2>2, FlowLoses
  <2>6. ASSUME dataStream'[s] \notin {"failed", "broken"}
        PROVE  Len(toService[s]) + Len(upData'[s]) = Len(toService[s]) + Len(upData[s])
    <3>1. upData'[s] = upData[s]
      BY <2>1, <2>2, <2>6, FlowKept
    <3> QED
      BY <3>1
  <2>7. dataStream[s] \in {"failed", "broken"} => dataStream'[s] \in {"failed", "broken"}
    BY <2>1, <2>2, FlowLoses
  <2> QED
    BY <2>3, <2>4, <2>5, <2>6, <2>7
<1>4. ASSUME NEW s \in Sessions
      PROVE  /\ Len(toClient[s]) + Len(downData'[s]) \in Nat
             /\ Len(toClient[s]) <= Len(toClient[s]) + Len(downData'[s])
             /\ Len(toClient[s]) + Len(downData'[s]) <= Len(toClient[s]) + Len(downData[s])
             /\ backStream'[s] \notin {"failed", "broken"} =>
                  Len(toClient[s]) + Len(downData'[s]) = Len(toClient[s]) + Len(downData[s])
             /\ backStream[s] \in {"failed", "broken"} => backStream'[s] \in {"failed", "broken"}
  <2>1. /\ downData[s] \in Seq(Data) /\ toClient[s] \in Seq(Nat) /\ produced[s] \in Nat
        /\ backStream[s] \in DataStates
    BY DEF SessionInv, TypeOK
  <2>2. /\ InFlow(s, downData[s], toClient[s], produced[s], backStream[s])
        /\ Loss(downData[s], downData'[s], produced[s], produced'[s],
                backStream[s], backStream'[s])
    BY DEF SessionInv, DownFlow, Losing
  <2>3. Len(toClient[s]) + Len(downData'[s]) \in Nat
    BY <2>1, <2>2, FlowLoses
  <2>4. Len(toClient[s]) <= Len(toClient[s]) + Len(downData'[s])
    BY <2>1, <2>2, FlowLoses
  <2>5. Len(toClient[s]) + Len(downData'[s]) <= Len(toClient[s]) + Len(downData[s])
    BY <2>1, <2>2, FlowLoses
  <2>6. ASSUME backStream'[s] \notin {"failed", "broken"}
        PROVE  Len(toClient[s]) + Len(downData'[s]) = Len(toClient[s]) + Len(downData[s])
    <3>1. downData'[s] = downData[s]
      BY <2>1, <2>2, <2>6, FlowKept
    <3> QED
      BY <3>1
  <2>7. backStream[s] \in {"failed", "broken"} => backStream'[s] \in {"failed", "broken"}
    BY <2>1, <2>2, FlowLoses
  <2> QED
    BY <2>3, <2>4, <2>5, <2>6, <2>7
<1>5. ASSUME NEW c \in Ends
      PROVE  /\ Due'[c] \in Nat
             /\ Len(Got[c]) <= Due'[c]
             /\ Due'[c] <= Due[c]
             /\ c \notin Cut' => Due'[c] = Due[c]
             /\ c \in Cut => c \in Cut'
  <2>1. c[1] \in Sessions
    BY EndsOfSessions
  <2>2. CASE c[2] = "up"
    <3>1. /\ Due'[c] = Len(toService[c[1]]) + Len(upData'[c[1]])
          /\ Due[c] = Len(toService[c[1]]) + Len(upData[c[1]])
          /\ Got[c] = toService[c[1]]
      BY <1>1, <2>2 DEF Due, Got
    <3>2. /\ c \in Cut <=> dataStream[c[1]] \in {"failed", "broken"}
          /\ c \in Cut' <=> dataStream'[c[1]] \in {"failed", "broken"}
      BY <2>2 DEF Cut
    <3> QED
      BY <1>3, <2>1, <3>1, <3>2
  <2>3. CASE c[2] # "up"
    <3>1. /\ Due'[c] = Len(toClient[c[1]]) + Len(downData'[c[1]])
          /\ Due[c] = Len(toClient[c[1]]) + Len(downData[c[1]])
          /\ Got[c] = toClient[c[1]]
      BY <1>1, <2>3 DEF Due, Got
    <3>2. /\ c \in Cut <=> backStream[c[1]] \in {"failed", "broken"}
          /\ c \in Cut' <=> backStream'[c[1]] \in {"failed", "broken"}
      BY <2>3 DEF Cut
    <3> QED
      BY <1>4, <2>1, <3>1, <3>2
  <2> QED
    BY <2>2, <2>3
<1>6. Due' \in [Ends -> Nat]
  BY <1>5 DEF Due
<1>7. Cut \subseteq Cut' /\ Cut' \in SUBSET Ends
  BY <1>5 DEF Cut
<1> QED
  BY <1>2, <1>5, <1>6, <1>7 DEF Chan!Cuts, Got, Due, Cut

\* One channel takes a message: one more of one session, in one direction.
LEMMA TakenUp ==
    ASSUME SessionInv, NEW s \in Sessions, UNCHANGED produced,
           sent' = [sent EXCEPT ![s] = sent[s] + 1]
    PROVE  <<s, "up">> \in Ends /\ Taken' = [Taken EXCEPT ![<<s, "up">>] = @ + 1]
<1> DEFINE c == <<s, "up">>
<1>1. /\ c \in Ends /\ c[1] = s /\ c[2] = "up"
      /\ \A e \in Ends : (e[2] = "up" /\ e[1] = s) => e = c
  <2>1. c \in Ends
    BY EndsOfSessions
  <2>2. c[1] = s /\ c[2] = "up"
    OBVIOUS
  <2>3. \A e \in Ends : (e[2] = "up" /\ e[1] = s) => e = c
    BY EndsOfSessions
  <2> QED
    BY <2>1, <2>2, <2>3
<1>2. \A e \in Ends : Taken'[e] = IF e = c THEN sent[s] + 1 ELSE Taken[e]
  BY <1>1, EndsOfSessions DEF Taken, SessionInv, TypeOK
<1>3. Taken[c] = sent[s]
  BY <1>1 DEF Taken
<1> QED
  BY <1>1, <1>2, <1>3 DEF Taken

LEMMA TakenDown ==
    ASSUME SessionInv, NEW s \in Sessions, UNCHANGED sent,
           produced' = [produced EXCEPT ![s] = produced[s] + 1]
    PROVE  <<s, "down">> \in Ends /\ Taken' = [Taken EXCEPT ![<<s, "down">>] = @ + 1]
<1> DEFINE c == <<s, "down">>
<1>1. /\ c \in Ends /\ c[1] = s /\ c[2] = "down"
      /\ \A e \in Ends : (e[2] = "down" /\ e[1] = s) => e = c
  <2>1. c \in Ends
    BY EndsOfSessions
  <2>2. c[1] = s /\ c[2] = "down"
    OBVIOUS
  <2>3. \A e \in Ends : (e[2] = "down" /\ e[1] = s) => e = c
    BY EndsOfSessions
  <2> QED
    BY <2>1, <2>2, <2>3
<1>2. \A e \in Ends : Taken'[e] = IF e = c THEN produced[s] + 1 ELSE Taken[e]
  BY <1>1, EndsOfSessions DEF Taken, SessionInv, TypeOK
<1>3. Taken[c] = produced[s]
  BY <1>1 DEF Taken
<1> QED
  BY <1>1, <1>2, <1>3 DEF Taken

\* Streams break, and at most one message is taken, which is lost.
LEMMA LosingRefines ==
    ASSUME SessionInv, Losing,
           \/ UNCHANGED <<sent, produced>>
           \/ \E s \in Sessions : /\ dataStream[s] \in {"failed", "broken"}
                                  /\ sent' = [sent EXCEPT ![s] = sent[s] + 1]
                                  /\ UNCHANGED produced
           \/ \E s \in Sessions : /\ backStream[s] \in {"failed", "broken"}
                                  /\ produced' = [produced EXCEPT ![s] = produced[s] + 1]
                                  /\ UNCHANGED sent
    PROVE  Chan!Next
<1>1. UNCHANGED Got /\ Chan!Cuts
  BY LosingCuts
<1>2. CASE UNCHANGED <<sent, produced>>
  <2>1. UNCHANGED Taken
    BY <1>2 DEF Taken
  <2> QED
    BY <1>1, <2>1 DEF Chan!Next, Chan!CutOff, Taken, Got
<1>3. ASSUME NEW s \in Sessions, dataStream[s] \in {"failed", "broken"},
             sent' = [sent EXCEPT ![s] = sent[s] + 1], UNCHANGED produced
      PROVE  Chan!Next
  <2> DEFINE c == <<s, "up">>
  <2>1. c \in Ends /\ Taken' = [Taken EXCEPT ![c] = @ + 1]
    BY <1>3, TakenUp
  <2>2. c \in Cut
    BY <1>3, <2>1 DEF Cut
  <2> QED
    BY <1>1, <2>1, <2>2 DEF Chan!Next, Chan!Lose, Taken, Got, Cut
<1>4. ASSUME NEW s \in Sessions, backStream[s] \in {"failed", "broken"},
             produced' = [produced EXCEPT ![s] = produced[s] + 1], UNCHANGED sent
      PROVE  Chan!Next
  <2> DEFINE c == <<s, "down">>
  <2>1. c \in Ends /\ Taken' = [Taken EXCEPT ![c] = @ + 1]
    BY <1>4, TakenDown
  <2>2. c \in Cut
    BY <1>4, <2>1 DEF Cut
  <2> QED
    BY <1>1, <2>1, <2>2 DEF Chan!Next, Chan!Lose, Taken, Got, Cut
<1> QED
  BY <1>2, <1>3, <1>4

LEMMA EndingRefines ==
    ASSUME SessionInv, NEW g \in Gateways, Ending(g)
    PROVE  Chan!Next
<1>1. Losing
  BY EndingLoses
<1>2. \/ UNCHANGED <<sent, produced>>
      \/ \E s \in Sessions : /\ dataStream[s] \in {"failed", "broken"}
                             /\ sent' = [sent EXCEPT ![s] = sent[s] + 1]
                             /\ UNCHANGED produced
      \/ \E s \in Sessions : /\ backStream[s] \in {"failed", "broken"}
                             /\ produced' = [produced EXCEPT ![s] = produced[s] + 1]
                             /\ UNCHANGED sent
  BY DEF Ending, ForwardUpPanics, ForwardDownPanics, At
<1> QED
  BY <1>1, <1>2, LosingRefines

LEMMA ForwardUpRefines ==
    ASSUME SessionInv, NEW s \in Sessions, ForwardUp(s)
    PROVE  Chan!Next
<1> DEFINE c == <<s, "up">>
           d == [session |-> s, n |-> sent[s] + 1]
<1>1. /\ dataStream[s] \in {"open", "broken"}
      /\ sent' = [sent EXCEPT ![s] = sent[s] + 1]
      /\ upData' = [upData EXCEPT ![s] = Sent(upData[s], dataStream[s], d)]
      /\ UNCHANGED <<toService, produced, downData, toClient, dataStream, backStream>>
  BY DEF ForwardUp, At, csgwVars, ssgwVars, downVars
<1>2. CASE dataStream[s] = "broken"
  <2>1. upData' = upData
    BY <1>1, <1>2 DEF Sent, SessionInv, TypeOK
  <2>2. sent \in [Sessions -> Nat]
    BY DEF SessionInv, TypeOK
  <2>3. Losing
    BY <1>1, <1>2, <2>1, <2>2 DEF Losing, Loss
  <2> QED
    BY <1>1, <1>2, <2>3, LosingRefines
<1>3. CASE dataStream[s] = "open"
  <2>1. c \in Ends /\ Taken' = [Taken EXCEPT ![c] = @ + 1]
    BY <1>1, TakenUp
  <2>2. UNCHANGED <<Got, Cut>>
    BY <1>1 DEF Got, Cut
  <2>3. c \notin Cut
    BY <1>3 DEF Cut
  <2>4. /\ upData[s] \in Seq(Data) /\ d \in Data
        /\ toService[s] \in Seq(Nat) /\ upData \in [Sessions -> Seq(Data)]
    <3>1. /\ upData[s] \in Seq(Data) /\ sent[s] \in Nat
          /\ toService[s] \in Seq(Nat) /\ upData \in [Sessions -> Seq(Data)]
      BY DEF SessionInv, TypeOK
    <3>2. d \in Data
      BY <3>1 DEF Data
    <3> QED
      BY <3>1, <3>2
  <2>5. upData' = [upData EXCEPT ![s] = Append(upData[s], d)]
    BY <1>1, <1>3 DEF Sent
  <2>6. Len(Append(upData[s], d)) = Len(upData[s]) + 1
    BY <2>4, AppendProperties
  <2>7. Len(toService[s]) \in Nat /\ Len(upData[s]) \in Nat
    BY <2>4, LenProperties
  <2> HIDE DEF d
  <2>8. upData'[s] = Append(upData[s], d) /\ \A t \in Sessions \ {s} : upData'[t] = upData[t]
    BY <2>4, <2>5
  <2>9. Due' = [Due EXCEPT ![c] = @ + 1]
    <3>1. \A e \in Ends : e[2] = "up" /\ e[1] = s <=> e = c
      BY EndsOfSessions
    <3>2. Due[c] = Len(toService[s]) + Len(upData[s])
      BY <2>1 DEF Due
    <3>3. Due'[c] = Due[c] + 1
      <4>1. Due'[c] = Len(toService[s]) + Len(upData'[s])
        BY <1>1, <2>1 DEF Due
      <4>2. Len(upData'[s]) = Len(upData[s]) + 1
        BY <2>6, <2>8
      <4>3. Len(toService[s]) + (Len(upData[s]) + 1) = (Len(toService[s]) + Len(upData[s])) + 1
        <5>1. \A x, y \in Nat : x + (y + 1) = (x + y) + 1
          OBVIOUS
        <5> QED
          BY <2>7, <5>1, Zenon
      <4> QED
        BY <3>2, <4>1, <4>2, <4>3, Zenon
    <3>4. ASSUME NEW e \in Ends, e # c PROVE Due'[e] = Due[e]
      <4>1. e[1] \in Sessions
        BY EndsOfSessions
      <4>2. CASE e[2] = "up"
        <5>1. e[1] # s
          BY <3>1, <3>4, <4>2, EndsOfSessions
        <5>2. upData'[e[1]] = upData[e[1]] /\ toService' = toService
          BY <1>1, <2>8, <4>1, <5>1
        <5> QED
          BY <4>2, <5>2 DEF Due
      <4>3. CASE ~(e[2] = "up")
        BY <1>1, <4>3 DEF Due
      <4> QED
        BY <4>2, <4>3
    <3> QED
      BY <2>1, <3>3, <3>4 DEF Due
  <2> QED
    BY <2>1, <2>2, <2>3, <2>9 DEF Chan!Next, Chan!Take, Taken, Got, Due, Cut
<1> QED
  BY <1>1, <1>2, <1>3

LEMMA ForwardDownRefines ==
    ASSUME SessionInv, NEW s \in Sessions, ForwardDown(s)
    PROVE  Chan!Next
<1> DEFINE c == <<s, "down">>
           d == [session |-> s, n |-> produced[s] + 1]
<1>1. /\ backStream[s] \in {"open", "broken"}
      /\ produced' = [produced EXCEPT ![s] = produced[s] + 1]
      /\ downData' = [downData EXCEPT ![s] = Sent(downData[s], backStream[s], d)]
      /\ UNCHANGED <<toClient, sent, upData, toService, dataStream, backStream>>
  BY DEF ForwardDown, ForwardDownAs, At, csgwVars, ssgwVars, upVars
<1>2. CASE backStream[s] = "broken"
  <2>1. downData' = downData
    BY <1>1, <1>2 DEF Sent, SessionInv, TypeOK
  <2>2. produced \in [Sessions -> Nat]
    BY DEF SessionInv, TypeOK
  <2>3. Losing
    BY <1>1, <1>2, <2>1, <2>2 DEF Losing, Loss
  <2> QED
    BY <1>1, <1>2, <2>3, LosingRefines
<1>3. CASE backStream[s] = "open"
  <2>1. c \in Ends /\ Taken' = [Taken EXCEPT ![c] = @ + 1]
    BY <1>1, TakenDown
  <2>2. UNCHANGED <<Got, Cut>>
    BY <1>1 DEF Got, Cut
  <2>3. c \notin Cut
    BY <1>3 DEF Cut
  <2>4. /\ downData[s] \in Seq(Data) /\ d \in Data
        /\ toClient[s] \in Seq(Nat) /\ downData \in [Sessions -> Seq(Data)]
    <3>1. /\ downData[s] \in Seq(Data) /\ produced[s] \in Nat
          /\ toClient[s] \in Seq(Nat) /\ downData \in [Sessions -> Seq(Data)]
      BY DEF SessionInv, TypeOK
    <3>2. d \in Data
      BY <3>1 DEF Data
    <3> QED
      BY <3>1, <3>2
  <2>5. downData' = [downData EXCEPT ![s] = Append(downData[s], d)]
    BY <1>1, <1>3 DEF Sent
  <2>6. Len(Append(downData[s], d)) = Len(downData[s]) + 1
    BY <2>4, AppendProperties
  <2>7. Len(toClient[s]) \in Nat /\ Len(downData[s]) \in Nat
    BY <2>4, LenProperties
  <2> HIDE DEF d
  <2>8. /\ downData'[s] = Append(downData[s], d)
        /\ \A t \in Sessions \ {s} : downData'[t] = downData[t]
    BY <2>4, <2>5
  <2>9. Due' = [Due EXCEPT ![c] = @ + 1]
    <3>1. \A e \in Ends : e[2] = "down" /\ e[1] = s <=> e = c
      BY EndsOfSessions
    <3>2. Due[c] = Len(toClient[s]) + Len(downData[s])
      BY <2>1 DEF Due
    <3>3. Due'[c] = Due[c] + 1
      <4>1. Due'[c] = Len(toClient[s]) + Len(downData'[s])
        BY <1>1, <2>1 DEF Due
      <4>2. Len(downData'[s]) = Len(downData[s]) + 1
        BY <2>6, <2>8
      <4>3. Len(toClient[s]) + (Len(downData[s]) + 1) = (Len(toClient[s]) + Len(downData[s])) + 1
        <5>1. \A x, y \in Nat : x + (y + 1) = (x + y) + 1
          OBVIOUS
        <5> QED
          BY <2>7, <5>1, Zenon
      <4> QED
        BY <3>2, <4>1, <4>2, <4>3, Zenon
    <3>4. ASSUME NEW e \in Ends, e # c PROVE Due'[e] = Due[e]
      <4>1. e[1] \in Sessions
        BY EndsOfSessions
      <4>2. CASE e[2] # "up"
        <5>1. e[1] # s
          BY <3>1, <3>4, <4>2, EndsOfSessions
        <5>2. downData'[e[1]] = downData[e[1]] /\ toClient' = toClient
          BY <1>1, <2>8, <4>1, <5>1
        <5> QED
          BY <4>2, <5>2 DEF Due
      <4>3. CASE ~(e[2] # "up")
        BY <1>1, <4>3 DEF Due
      <4> QED
        BY <4>2, <4>3
    <3> QED
      BY <2>1, <3>3, <3>4 DEF Due
  <2> QED
    BY <2>1, <2>2, <2>3, <2>9 DEF Chan!Next, Chan!Take, Taken, Got, Due, Cut
<1> QED
  BY <1>1, <1>2, <1>3

LEMMA UpDeliverRefines ==
    ASSUME SessionInv, NEW s \in Sessions, UpDeliver(s)
    PROVE  Chan!Next
<1> DEFINE c == <<s, "up">>
<1>1. /\ toService' = [toService EXCEPT ![s] = Append(@, Len(@) + 1)]
      /\ upData' = [upData EXCEPT ![s] = Tail(@)]
      /\ Len(toService'[s]) + Len(upData'[s]) = Len(toService[s]) + Len(upData[s])
      /\ Len(toService[s]) < Len(toService[s]) + Len(upData[s])
      /\ UNCHANGED <<sent, produced, downData, toClient, dataStream, backStream>>
  BY UpDelivers DEF csgwVars, ssgwVars, downVars
<1>2. UNCHANGED <<Taken, Cut>>
  BY <1>1 DEF Taken, Cut
<1>3. /\ c \in Ends /\ c[1] = s /\ c[2] = "up"
      /\ \A e \in Ends : (e[2] = "up" /\ e[1] = s) => e = c
  <2>1. c \in Ends
    BY EndsOfSessions
  <2>2. c[1] = s /\ c[2] = "up"
    OBVIOUS
  <2>3. \A e \in Ends : (e[2] = "up" /\ e[1] = s) => e = c
    BY EndsOfSessions
  <2> QED
    BY <2>1, <2>2, <2>3
<1>4. /\ Got[c] = toService[s]
      /\ Due[c] = Len(toService[s]) + Len(upData[s])
  BY <1>3 DEF Got, Due
<1>5. toService \in [Sessions -> Seq(Nat)] /\ upData \in [Sessions -> Seq(Data)]
  BY DEF SessionInv, TypeOK
<1>6. \A t \in Sessions \ {s} : toService'[t] = toService[t] /\ upData'[t] = upData[t]
  BY <1>1, <1>5
<1>7. UNCHANGED Due
  <2>1. Due'[c] = Due[c]
    BY <1>1, <1>3, <1>4 DEF Due
  <2>2. ASSUME NEW e \in Ends, e # c PROVE Due'[e] = Due[e]
    <3>1. e[1] \in Sessions
      BY EndsOfSessions
    <3>2. CASE e[2] = "up"
      <4>1. e[1] # s
        BY <1>3, <2>2, <3>2, EndsOfSessions
      <4>2. upData'[e[1]] = upData[e[1]] /\ toService'[e[1]] = toService[e[1]]
        BY <1>6, <3>1, <4>1
      <4> QED
        BY <3>2, <4>2 DEF Due
    <3>3. CASE ~(e[2] = "up")
      BY <1>1, <3>3 DEF Due
    <3> QED
      BY <3>2, <3>3
  <2> QED
    BY <2>1, <2>2 DEF Due
<1>8. Got' = [Got EXCEPT ![c] = Append(@, Len(@) + 1)]
  <2>1. Got'[c] = Append(toService[s], Len(toService[s]) + 1)
    BY <1>1, <1>3, <1>5 DEF Got
  <2>2. \A e \in Ends : e # c => Got'[e] = Got[e]
    BY <1>1, <1>3, <1>6, EndsOfSessions DEF Got
  <2> QED
    BY <1>3, <1>4, <2>1, <2>2 DEF Got
<1>9. Len(Got[c]) < Due[c]
  BY <1>1, <1>4
<1> QED
  BY <1>2, <1>3, <1>7, <1>8, <1>9 DEF Chan!Next, Chan!Deliver, Taken, Got, Due, Cut

LEMMA DownDeliverRefines ==
    ASSUME SessionInv, NEW s \in Sessions, DownDeliver(s)
    PROVE  Chan!Next
<1> DEFINE c == <<s, "down">>
<1>1. /\ toClient' = [toClient EXCEPT ![s] = Append(@, Len(@) + 1)]
      /\ downData' = [downData EXCEPT ![s] = Tail(@)]
      /\ Len(toClient'[s]) + Len(downData'[s]) = Len(toClient[s]) + Len(downData[s])
      /\ Len(toClient[s]) < Len(toClient[s]) + Len(downData[s])
      /\ UNCHANGED <<produced, sent, upData, toService, dataStream, backStream>>
  BY DownDelivers DEF csgwVars, ssgwVars, upVars
<1>2. UNCHANGED <<Taken, Cut>>
  BY <1>1 DEF Taken, Cut
<1>3. /\ c \in Ends /\ c[1] = s /\ c[2] = "down"
      /\ \A e \in Ends : (e[2] = "down" /\ e[1] = s) => e = c
  <2>1. c \in Ends
    BY EndsOfSessions
  <2>2. c[1] = s /\ c[2] = "down"
    OBVIOUS
  <2>3. \A e \in Ends : (e[2] = "down" /\ e[1] = s) => e = c
    BY EndsOfSessions
  <2> QED
    BY <2>1, <2>2, <2>3
<1>4. /\ Got[c] = toClient[s]
      /\ Due[c] = Len(toClient[s]) + Len(downData[s])
  BY <1>3 DEF Got, Due
<1>5. toClient \in [Sessions -> Seq(Nat)] /\ downData \in [Sessions -> Seq(Data)]
  BY DEF SessionInv, TypeOK
<1>6. \A t \in Sessions \ {s} : toClient'[t] = toClient[t] /\ downData'[t] = downData[t]
  BY <1>1, <1>5
<1>7. UNCHANGED Due
  <2>1. Due'[c] = Due[c]
    BY <1>1, <1>3, <1>4 DEF Due
  <2>2. ASSUME NEW e \in Ends, e # c PROVE Due'[e] = Due[e]
    <3>1. e[1] \in Sessions
      BY EndsOfSessions
    <3>2. CASE e[2] # "up"
      <4>1. e[1] # s
        BY <1>3, <2>2, <3>2, EndsOfSessions
      <4>2. downData'[e[1]] = downData[e[1]] /\ toClient'[e[1]] = toClient[e[1]]
        BY <1>6, <3>1, <4>1
      <4> QED
        BY <3>2, <4>2 DEF Due
    <3>3. CASE ~(e[2] # "up")
      BY <1>1, <3>3 DEF Due
    <3> QED
      BY <3>2, <3>3
  <2> QED
    BY <2>1, <2>2 DEF Due
<1>8. Got' = [Got EXCEPT ![c] = Append(@, Len(@) + 1)]
  <2>1. Got'[c] = Append(toClient[s], Len(toClient[s]) + 1)
    BY <1>1, <1>3, <1>5 DEF Got
  <2>2. \A e \in Ends : e # c => Got'[e] = Got[e]
    BY <1>1, <1>3, <1>6, EndsOfSessions DEF Got
  <2> QED
    BY <1>3, <1>4, <2>1, <2>2 DEF Got
<1>9. Len(Got[c]) < Due[c]
  BY <1>1, <1>4
<1> QED
  BY <1>2, <1>3, <1>7, <1>8, <1>9 DEF Chan!Next, Chan!Deliver, Taken, Got, Due, Cut

\* For any gateways and sessions, the sessions are pairs of ordered channels:
\* every step of a goroutine, a handler, a panic or the network takes a
\* message, hands over the next one to its own receiver, cuts channels off,
\* loses a message of one that is cut off, or shows nothing
\* (csgw_http.go:52-78, csgw_socket.go:118-151, node_proxy_handler.go:143-173,
\* 259-302).
THEOREM SessionsAreChannels == Spec => ImplementsChannels
<1>1. SessionInv /\ [Next]_vars => [Chan!Next]_(Chan!vars)
  <2> SUFFICES ASSUME SessionInv, [Next]_vars PROVE [Chan!Next]_(Chan!vars)
    OBVIOUS
  <2>1. ASSUME UNCHANGED <<sent, upData, toService, produced, downData, toClient>>,
               UNCHANGED Cut
        PROVE  UNCHANGED Chan!vars
    <3>1. UNCHANGED <<Taken, Got, Due>>
      BY <2>1 DEF Taken, Got, Due
    <3> QED
      BY <2>1, <3>1 DEF Chan!vars, Taken, Got, Due, Cut
  <2>2. CASE UNCHANGED vars
    <3>1. UNCHANGED Cut
      BY <2>2 DEF vars, csgwVars, ssgwVars, Cut
    <3> QED
      BY <2>1, <2>2, <3>1 DEF vars, upVars, downVars
  <2>3. ASSUME NEW s \in Sessions, Quiet(s) PROVE UNCHANGED Chan!vars
    <3>1. UNCHANGED Cut
      <4>1. \A c \in Ends : c \in Cut <=> c \in Cut'
        BY <2>3, QuietKeeps, EndsOfSessions DEF Cut
      <4> QED
        BY <4>1 DEF Cut
    <3> QED
      BY <2>1, <2>3, <3>1, QuietKeeps
  <2>4. ASSUME NEW s \in Sessions, Unnoticed(s) PROVE Chan!Next
    BY <2>4, UnnoticedLoses, LosingRefines
  <2>5. ASSUME NEW g \in Gateways, NEW h \in Gateways, ConnectionLost(g, h) PROVE Chan!Next
    BY <2>5, ConnectionLostLoses, LosingRefines
  <2> QED
    BY <2>2, <2>3, <2>4, <2>5, Steps, EndingRefines, ForwardUpRefines, ForwardDownRefines,
       UpDeliverRefines, DownDeliverRefines
<1> QED
  BY <1>1, InitRefines, SessionInvariant, PTL DEF Spec, ImplementsChannels, Chan!Spec
===============================================================================
