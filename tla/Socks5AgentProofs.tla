--------------------------- MODULE Socks5AgentProofs --------------------------
(***************************************************************************)
(* Proofs about Socks5Agent, for any number of clients and messages.       *)
(***************************************************************************)
EXTENDS Socks5Agent, SequenceTheorems, TLAPS

\* A goroutine that uses a connection has one: the field is set while a client
\* is being set up, and its copies afterwards.
Bound ==
    \A c \in Clients :
      /\ agent[c] \in SettingUp => remoteConn \in Clients
      /\ agent[c] \in {"bindDown", "serving"} => upLine[c] \in Clients
      /\ agent[c] = "serving" => downLine[c] \in Clients

IsData(f, c) == f # Garbled /\ f.type = "data" /\ f.client = c

\* Messages of c that the service has got are messages c has sent.
ServiceHas(c) ==
    /\ \A i \in DOMAIN toService[c] :
         toService[c][i].client = c /\ toService[c][i].n <= sent[c]
    /\ Increasing(toService[c])

\* Messages of c that are on their way are all on one line, the one its
\* goroutine writes to, in order, and behind those the service has got.
OnTheWay(c) ==
    \A l \in Clients : \A i \in DOMAIN upFrames[l] :
      IsData(upFrames[l][i], c) =>
        /\ clientAgent = "up" => upLine[c] = l /\ agent[c] \in {"bindDown", "serving"}
        /\ upFrames[l][i].n <= sent[c]
        /\ \A j \in DOMAIN toService[c] : toService[c][j].n < upFrames[l][i].n
        /\ \A j \in DOMAIN upFrames[l] :
             i < j /\ IsData(upFrames[l][j], c) => upFrames[l][i].n < upFrames[l][j].n
        /\ \A m \in Clients \ {l} : \A j \in DOMAIN upFrames[m] : ~IsData(upFrames[m][j], c)

DataInv == \A c \in Clients : ServiceHas(c) /\ OnTheWay(c)

\* While clients are set up one by one, the field is the one client's own, and
\* so are the line it reads from, the connect messages on its line and the
\* connection to the service that belongs to it.
OwnLines ==
    ~overlapped =>
      /\ \A c, d \in Clients : agent[c] \in SettingUp /\ agent[d] \in SettingUp => c = d
      /\ \A c \in Clients : agent[c] \in SettingUp => remoteConn = c
      /\ \A c \in Clients : downLine[c] \in {c, NoLine}
      /\ \A l \in Clients : \A i \in DOMAIN upFrames[l] :
           upFrames[l][i] # Garbled /\ upFrames[l][i].type = "connect" =>
             upFrames[l][i].client = l
      /\ \A s \in services : s[1] = s[2]

\* Then the answers on a line are answers to its client, in order and behind
\* those it has got.
OwnAnswers ==
    ~overlapped =>
      \A c \in Clients :
        /\ \A i \in DOMAIN back[c] : back[c][i].client = c /\ back[c][i].n <= answered[c]
        /\ Increasing(back[c])
        /\ \A i \in DOMAIN toClient[c] :
             toClient[c][i].client = c /\ toClient[c][i].n <= answered[c]
        /\ Increasing(toClient[c])
        /\ \A i \in DOMAIN toClient[c], j \in DOMAIN back[c] : toClient[c][i].n < back[c][j].n

\* The inductive invariant.
AgentInv == TypeOK /\ Bound /\ DataInv /\ OwnLines /\ OwnAnswers
-------------------------------------------------------------------------------
(* Lines                                                                   *)

Frames == Frame \cup {Garbled}

\* A write puts at most this one frame behind the others.
LEMMA WrittenOf ==
    ASSUME TypeOK, NEW l \in Clients, NEW f \in Frames
    PROVE  LET q == upFrames[l]
               r == Written(l, f)
           IN  /\ r \in Seq(Frames)
               /\ \A i \in DOMAIN r : \/ i \in DOMAIN q /\ r[i] = q[i]
                                      \/ i = Len(q) + 1 /\ r[i] = f
<1> DEFINE q == upFrames[l]
<1>1. q \in Seq(Frames) /\ Len(q) \in Nat /\ DOMAIN q = 1..Len(q)
  BY LenProperties DEF TypeOK, Frames
<1> HIDE DEF q
<1>2. /\ Append(q, f) \in Seq(Frames)
      /\ Len(Append(q, f)) = Len(q) + 1
      /\ DOMAIN Append(q, f) = 1..Len(q) + 1
      /\ \A i \in 1..Len(q) : Append(q, f)[i] = q[i]
      /\ Append(q, f)[Len(q) + 1] = f
  BY <1>1, AppendProperties, LenProperties
<1>3. \A i \in 1..Len(q) + 1 : i \in 1..Len(q) \/ i = Len(q) + 1
  BY <1>1
<1>4. Written(l, f) = q \/ Written(l, f) = Append(q, f)
  BY DEF Written, q
<1> QED
  BY <1>1, <1>2, <1>3, <1>4 DEF q

\* What is left after a read was on the line behind the first frame, or is
\* garbage.
LEMMA RestOf ==
    ASSUME NEW q \in Seq(Frames), q # <<>>, NEW r \in Rest(q)
    PROVE  /\ r \in Seq(Frames)
           /\ \E k \in Nat \ {0} : \A i \in DOMAIN r :
                r[i] = Garbled \/ (i + k \in DOMAIN q /\ r[i] = q[i + k])
<1>1. Len(q) \in Nat /\ DOMAIN q = 1..Len(q) /\ \A i \in 1..Len(q) : q[i] \in Frames
  BY LenProperties, ElementOfSeq
<1>2. CASE r = <<Garbled>>
  <2>1. r \in Seq(Frames) /\ \A i \in DOMAIN r : r[i] = Garbled
    BY <1>2 DEF Frames
  <2> QED
    BY <2>1
<1>3. ASSUME NEW k \in 2..Len(q) + 1, r = SubSeq(q, k, Len(q))
      PROVE  /\ r \in Seq(Frames)
             /\ \A i \in DOMAIN r : i + (k - 1) \in DOMAIN q /\ r[i] = q[i + (k - 1)]
  <2>1. \A i \in k..Len(q) : q[i] \in Frames
    BY <1>1
  <2>2. /\ r \in Seq(Frames)
        /\ Len(r) = IF k <= Len(q) THEN Len(q) - k + 1 ELSE 0
        /\ \A i \in 1..Len(q) - k + 1 : r[i] = q[k + i - 1]
    BY <1>1, <1>3, <2>1, SubSeqProperties
  <2>3. DOMAIN r = 1..Len(r) /\ Len(r) = Len(q) - k + 1
    BY <1>1, <2>2, LenProperties
  <2>4. \A i \in 1..Len(q) - k + 1 : i + (k - 1) \in 1..Len(q) /\ k + i - 1 = i + (k - 1)
    BY <1>1
  <2> QED
    BY <1>1, <2>2, <2>3, <2>4
<1>4. \A k \in 2..Len(q) + 1 : k - 1 \in Nat \ {0}
  BY <1>1
<1> QED
  BY <1>2, <1>3, <1>4 DEF Rest

\* There is no new data of a client in r, and what there is was in q, in the
\* same order.
Fewer(q, r) ==
    \E k \in Nat : \A i \in DOMAIN r :
      \/ \A c \in Clients : ~IsData(r[i], c)
      \/ i + k \in DOMAIN q /\ r[i] = q[i + k]

LEMMA FewerFrames ==
    /\ \A q \in Seq(Frames) : Fewer(q, q) /\ Fewer(q, <<>>)
    /\ \A q \in Seq(Frames) : q # <<>> => \A r \in Rest(q) : Fewer(q, r)
<1>1. ASSUME NEW q \in Seq(Frames) PROVE Fewer(q, q) /\ Fewer(q, <<>>)
  <2>1. DOMAIN q = 1..Len(q) /\ Len(q) \in Nat
    BY LenProperties
  <2>2. \A i \in DOMAIN q : i + 0 = i
    BY <2>1
  <2>3. Fewer(q, q)
    BY <2>2 DEF Fewer
  <2>4. Fewer(q, <<>>)
    BY DEF Fewer
  <2> QED
    BY <2>3, <2>4
<1>2. ASSUME NEW q \in Seq(Frames), q # <<>>, NEW r \in Rest(q) PROVE Fewer(q, r)
  BY <1>2, RestOf DEF Fewer, IsData
<1> QED
  BY <1>1, <1>2

\* A line gets a frame that carries no data.
LEMMA FewerWritten ==
    ASSUME TypeOK, NEW l \in Clients, NEW f \in Frames,
           \A c \in Clients : ~IsData(f, c)
    PROVE  Fewer(upFrames[l], Written(l, f))
<1>1. DOMAIN upFrames[l] \subseteq Nat
  BY LenProperties DEF TypeOK
<1>2. \A i \in DOMAIN upFrames[l] : i + 0 = i
  BY <1>1
<1>3. \A i \in DOMAIN Written(l, f) :
        \/ \A c \in Clients : ~IsData(Written(l, f)[i], c)
        \/ i + 0 \in DOMAIN upFrames[l] /\ Written(l, f)[i] = upFrames[l][i + 0]
  BY <1>2, WrittenOf
<1> QED
  BY <1>3 DEF Fewer

\* The goroutines that write data keep their lines.
KeepLines ==
    clientAgent' = "up" =>
      /\ clientAgent = "up"
      /\ \A c \in Clients :
           agent[c] \in {"bindDown", "serving"} =>
             agent'[c] \in {"bindDown", "serving"} /\ upLine'[c] = upLine[c]

\* Steps that send and deliver no data.
LEMMA DataKept ==
    ASSUME TypeOK, TypeOK', DataInv, KeepLines, UNCHANGED <<sent, toService>>,
           \A l \in Clients : Fewer(upFrames[l], upFrames'[l])
    PROVE  DataInv'
<1>1. ASSUME NEW c \in Clients PROVE ServiceHas(c)'
  BY DEF DataInv, ServiceHas
<1>2. ASSUME NEW c \in Clients PROVE OnTheWay(c)'
  <2>1. OnTheWay(c)
    BY DEF DataInv
  <2>2. \A l \in Clients : DOMAIN upFrames'[l] \subseteq Nat
    <3> SUFFICES ASSUME NEW l \in Clients PROVE DOMAIN upFrames'[l] \subseteq Nat
      OBVIOUS
    <3>1. upFrames'[l] \in Seq(Frames)
      BY DEF TypeOK, Frames
    <3> QED
      BY <3>1, LenProperties
  <2>3. ASSUME NEW l \in Clients
        PROVE  \E k \in Nat : \A i \in DOMAIN upFrames'[l] :
                 IsData(upFrames'[l][i], c) =>
                   i + k \in DOMAIN upFrames[l] /\ upFrames'[l][i] = upFrames[l][i + k]
    BY DEF Fewer
  <2>4. ASSUME NEW l \in Clients, NEW i \in DOMAIN upFrames'[l], IsData(upFrames'[l][i], c)
        PROVE  /\ clientAgent' = "up" => upLine'[c] = l /\ agent'[c] \in {"bindDown", "serving"}
               /\ upFrames'[l][i].n <= sent'[c]
               /\ \A j \in DOMAIN toService'[c] : toService'[c][j].n < upFrames'[l][i].n
               /\ \A j \in DOMAIN upFrames'[l] :
                    i < j /\ IsData(upFrames'[l][j], c) =>
                      upFrames'[l][i].n < upFrames'[l][j].n
               /\ \A m \in Clients \ {l} : \A j \in DOMAIN upFrames'[m] :
                    ~IsData(upFrames'[m][j], c)
    <3>1. PICK k \in Nat : \A j \in DOMAIN upFrames'[l] :
            IsData(upFrames'[l][j], c) =>
              j + k \in DOMAIN upFrames[l] /\ upFrames'[l][j] = upFrames[l][j + k]
      BY <2>3
    <3>2. /\ i + k \in DOMAIN upFrames[l]
          /\ upFrames'[l][i] = upFrames[l][i + k]
          /\ IsData(upFrames[l][i + k], c)
      BY <2>4, <3>1
    <3>3. clientAgent' = "up" => upLine'[c] = l /\ agent'[c] \in {"bindDown", "serving"}
      BY <2>1, <3>2 DEF OnTheWay, KeepLines
    <3>4. /\ upFrames'[l][i].n <= sent'[c]
          /\ \A j \in DOMAIN toService'[c] : toService'[c][j].n < upFrames'[l][i].n
      BY <2>1, <3>2 DEF OnTheWay
    <3>5. ASSUME NEW j \in DOMAIN upFrames'[l], i < j, IsData(upFrames'[l][j], c)
          PROVE  upFrames'[l][i].n < upFrames'[l][j].n
      <4>1. /\ j + k \in DOMAIN upFrames[l]
            /\ upFrames'[l][j] = upFrames[l][j + k]
            /\ i + k < j + k
        BY <2>2, <3>1, <3>5
      <4> QED
        BY <2>1, <3>2, <3>5, <4>1 DEF OnTheWay
    <3>6. ASSUME NEW m \in Clients \ {l}, NEW j \in DOMAIN upFrames'[m]
          PROVE  ~IsData(upFrames'[m][j], c)
      <4>1. ASSUME IsData(upFrames'[m][j], c)
            PROVE  \E h \in DOMAIN upFrames[m] : IsData(upFrames[m][h], c)
        BY <2>3, <4>1
      <4> QED
        BY <2>1, <3>2, <4>1 DEF OnTheWay
    <3> QED
      BY <3>3, <3>4, <3>5, <3>6
  <2> QED
    BY <2>4 DEF OnTheWay
<1> QED
  BY <1>1, <1>2 DEF DataInv
-------------------------------------------------------------------------------
(* What the steps do to the lines                                          *)

\* No frame is new.
OnlyOld ==
    \A l \in Clients : \A i \in DOMAIN upFrames'[l] :
      \/ upFrames'[l][i] = Garbled
      \/ \E j \in DOMAIN upFrames[l] : upFrames'[l][i] = upFrames[l][j]

LinesShrink ==
    /\ upFrames' \in [Clients -> Seq(Frames)]
    /\ \A l \in Clients : Fewer(upFrames[l], upFrames'[l])
    /\ OnlyOld

LEMMA ReadShrinks ==
    ASSUME TypeOK, NEW l \in Clients, upFrames[l] # <<>>, FirstRead(l)
    PROVE  LinesShrink
<1>1. upFrames \in [Clients -> Seq(Frames)]
  BY DEF TypeOK, Frames
<1>2. PICK r \in Rest(upFrames[l]) : upFrames' = [upFrames EXCEPT ![l] = r]
  BY DEF FirstRead, At
<1>3. /\ r \in Seq(Frames)
      /\ \A i \in DOMAIN r : r[i] = Garbled \/ \E j \in DOMAIN upFrames[l] : r[i] = upFrames[l][j]
  BY <1>1, RestOf
<1>4. Fewer(upFrames[l], r) /\ \A m \in Clients : Fewer(upFrames[m], upFrames[m])
  BY <1>1, FewerFrames
<1>5. upFrames'[l] = r /\ \A m \in Clients \ {l} : upFrames'[m] = upFrames[m]
  BY <1>1, <1>2
<1>6. upFrames' \in [Clients -> Seq(Frames)]
  BY <1>1, <1>2, <1>3
<1>7. \A m \in Clients : Fewer(upFrames[m], upFrames'[m])
  BY <1>4, <1>5
<1>8. OnlyOld
  BY <1>3, <1>5 DEF OnlyOld
<1> QED
  BY <1>6, <1>7, <1>8 DEF LinesShrink

\* Lines lose all of their frames or none.
LEMMA LossShrinks ==
    ASSUME TypeOK, NEW S \in SUBSET Clients,
           upFrames' = [l \in Clients |-> IF l \in S THEN <<>> ELSE upFrames[l]]
    PROVE  LinesShrink
<1>1. upFrames \in [Clients -> Seq(Frames)]
  BY DEF TypeOK, Frames
<1>2. \A l \in Clients : upFrames'[l] = <<>> \/ upFrames'[l] = upFrames[l]
  OBVIOUS
<1>3. upFrames' \in [Clients -> Seq(Frames)]
  BY <1>1
<1>4. \A l \in Clients : Fewer(upFrames[l], upFrames'[l])
  BY <1>1, <1>2, FewerFrames
<1>5. OnlyOld
  BY <1>2 DEF OnlyOld
<1> QED
  BY <1>3, <1>4, <1>5 DEF LinesShrink

LEMMA MixShrinks ==
    ASSUME TypeOK, NEW l \in Clients, At(upFrames, l, Written(l, Garbled))
    PROVE  LinesShrink
<1>1. upFrames \in [Clients -> Seq(Frames)]
  BY DEF TypeOK, Frames
<1> DEFINE r == Written(l, Garbled)
<1>2. /\ r \in Seq(Frames)
      /\ \A i \in DOMAIN r : r[i] = Garbled \/ \E j \in DOMAIN upFrames[l] : r[i] = upFrames[l][j]
  BY WrittenOf DEF Frames
<1>3. Fewer(upFrames[l], r)
  BY FewerWritten DEF IsData, Frames
<1>4. \A m \in Clients : Fewer(upFrames[m], upFrames[m])
  BY <1>1, FewerFrames
<1> HIDE DEF r
<1>5. upFrames' = [upFrames EXCEPT ![l] = r]
  BY DEF At, r
<1>6. upFrames'[l] = r /\ \A m \in Clients \ {l} : upFrames'[m] = upFrames[m]
  BY <1>1, <1>5
<1>7. upFrames' \in [Clients -> Seq(Frames)]
  BY <1>1, <1>2, <1>5
<1>8. \A m \in Clients : Fewer(upFrames[m], upFrames'[m])
  BY <1>3, <1>4, <1>6
<1>9. OnlyOld
  BY <1>2, <1>6 DEF OnlyOld
<1> QED
  BY <1>7, <1>8, <1>9 DEF LinesShrink

\* Nothing happens on the lines.
LEMMA SameShrinks ==
    ASSUME TypeOK, UNCHANGED upFrames
    PROVE  LinesShrink
  BY FewerFrames DEF TypeOK, Frames, LinesShrink, OnlyOld

\* A goroutine writes a frame.
LEMMA WritesOf ==
    ASSUME TypeOK, NEW l \in Clients, NEW f \in Frame,
           At(upFrames, l, Written(l, f))
    PROVE  /\ upFrames' \in [Clients -> Seq(Frames)]
           /\ \A m \in Clients \ {l} : upFrames'[m] = upFrames[m]
           /\ \A i \in DOMAIN upFrames'[l] :
                \/ i \in DOMAIN upFrames[l] /\ upFrames'[l][i] = upFrames[l][i]
                \/ i = Len(upFrames[l]) + 1 /\ upFrames'[l][i] = f
<1> DEFINE r == Written(l, f)
<1>1. upFrames \in [Clients -> Seq(Frames)]
  BY DEF TypeOK, Frames
<1>2. /\ r \in Seq(Frames)
      /\ \A i \in DOMAIN r : \/ i \in DOMAIN upFrames[l] /\ r[i] = upFrames[l][i]
                             \/ i = Len(upFrames[l]) + 1 /\ r[i] = f
  BY WrittenOf DEF Frames
<1> HIDE DEF r
<1>3. upFrames' = [upFrames EXCEPT ![l] = r]
  BY DEF At, r
<1> QED
  BY <1>1, <1>2, <1>3
-------------------------------------------------------------------------------
(* The invariant, step by step                                             *)

LEMMA AgentInitInv == Init => AgentInv
<1> SUFFICES ASSUME Init PROVE AgentInv
  OBVIOUS
<1>1. TypeOK
  <2>1. overlapped \in BOOLEAN
    BY DEF Init
  <2>2. /\ sent \in [Clients -> 0..MaxUp] /\ answered \in [Clients -> 0..MaxDown]
    BY AgentAssumption DEF Init, Each
  <2> QED
    BY <2>1, <2>2 DEF Init, TypeOK, Each, AgentStates, SettingUp
<1>2. Bound
  BY DEF Init, Bound, Each, SettingUp
<1>3. ASSUME NEW c \in Clients PROVE ServiceHas(c) /\ OnTheWay(c)
  <2>1. toService[c] = <<>> /\ \A l \in Clients : upFrames[l] = <<>>
    BY DEF Init, Each
  <2>2. DOMAIN <<>> = {}
    OBVIOUS
  <2> QED
    BY <2>1, <2>2 DEF ServiceHas, OnTheWay, Increasing
<1>4. OwnLines /\ OwnAnswers
  BY DEF Init, OwnLines, OwnAnswers, Increasing, Each, SettingUp
<1> QED
  BY <1>1, <1>2, <1>3, <1>4 DEF AgentInv, DataInv

\* An agent ends.
LEMMA ClientAgentPanicsInv ==
    ASSUME AgentInv, ClientAgentPanics
    PROVE  AgentInv'
<1> USE DEF AgentInv, ClientAgentPanics, saVars, dataVars
<1>1. TypeOK' /\ Bound'
  BY DEF TypeOK, Bound, Each, AgentStates, SettingUp
<1>2. DataInv'
  BY <1>1, DataKept, SameShrinks DEF LinesShrink, KeepLines
<1>3. OwnLines' /\ OwnAnswers'
  BY DEF OwnLines, OwnAnswers, Each, SettingUp
<1> QED
  BY <1>1, <1>2, <1>3

LEMMA ServiceAgentPanicsInv ==
    ASSUME AgentInv, ServiceAgentPanics
    PROVE  AgentInv'
<1> USE DEF AgentInv, ServiceAgentPanics, caVars, connVars, dataVars
<1>1. LinesShrink
  <2> DEFINE S == {l \in Clients : line[l] = "served"}
  <2>1. upFrames' = [l \in Clients |-> IF l \in S THEN <<>> ELSE upFrames[l]]
    OBVIOUS
  <2> HIDE DEF S
  <2>2. S \in SUBSET Clients
    BY DEF S
  <2> QED
    BY <2>1, <2>2, LossShrinks
<1>2. TypeOK' /\ Bound'
  BY <1>1 DEF TypeOK, Bound, LinesShrink, Frames
<1>3. DataInv'
  BY <1>1, <1>2, DataKept DEF LinesShrink, KeepLines
<1>4. OwnLines' /\ OwnAnswers'
  BY <1>1 DEF OwnLines, OwnAnswers, LinesShrink, OnlyOld
<1> QED
  BY <1>2, <1>3, <1>4

\* The goroutine of a client goes on and writes nothing.
LEMMA MovesInv ==
    ASSUME AgentInv, NEW c \in Clients,
           Accept(c) \/ Dial(c) \/ Build(c) \/ BindUp(c) \/ BindDown(c)
    PROVE  AgentInv'
<1> USE DEF AgentInv, Accept, Dial, Build, BindUp, BindDown, AgentGoes, At, saVars,
            dataVars, connVars
<1>1. TypeOK' /\ UNCHANGED overlapped
  BY DEF TypeOK, AgentStates, SettingUp
<1>2. Bound'
  BY DEF TypeOK, Bound, AgentStates, SettingUp
<1>3. DataInv'
  <2>1. KeepLines
    BY DEF KeepLines, TypeOK
  <2> QED
    BY <1>1, <2>1, DataKept, SameShrinks DEF LinesShrink
<1>4. OwnLines'
  <2>1. UNCHANGED <<overlapped, remoteConn, upFrames, services>>
    OBVIOUS
  <2>2. \A d \in Clients : agent'[d] \in SettingUp => agent[d] \in SettingUp
    BY DEF TypeOK, SettingUp
  <2>3. \A d \in Clients :
          \/ downLine'[d] = downLine[d]
          \/ downLine'[d] = remoteConn /\ agent[d] \in SettingUp
    BY DEF TypeOK, SettingUp
  <2> QED
    BY <2>1, <2>2, <2>3 DEF OwnLines
<1>5. OwnAnswers'
  BY DEF OwnAnswers, TypeOK
<1> QED
  BY <1>1, <1>2, <1>3, <1>4, <1>5

\* The field is set; if another client is being set up then that is an
\* overlap.
LEMMA StoreConnInv ==
    ASSUME AgentInv, NEW c \in Clients, StoreConn(c)
    PROVE  AgentInv'
<1> USE DEF AgentInv
<1>1. /\ agent[c] = "store" /\ agent' = [agent EXCEPT ![c] = "init"]
      /\ remoteConn' = c
      /\ UNCHANGED <<clientAgent, saVars, back, dataVars, upLine, downLine, line, upFrames>>
  BY DEF StoreConn, StoreConnAs, AgentGoes, At
<1>2. overlapped' = (overlapped \/ \E d \in Clients : agent[d] \in SettingUp)
  BY DEF StoreConn, StoreConnAs
<1>3. overlapped' \in BOOLEAN
  BY <1>2
<1>4. ~overlapped' => ~overlapped /\ \A d \in Clients : agent[d] \notin SettingUp
  BY <1>2
<1>5. TypeOK'
  BY <1>1, <1>3 DEF TypeOK, AgentStates, SettingUp, saVars, dataVars
<1>6. Bound'
  BY <1>1 DEF TypeOK, Bound, SettingUp
<1>7. DataInv'
  <2>1. KeepLines
    BY <1>1 DEF KeepLines, TypeOK
  <2> QED
    BY <1>1, <1>5, <2>1, DataKept, SameShrinks DEF LinesShrink, dataVars
<1>8. OwnLines'
  BY <1>1, <1>4 DEF OwnLines, TypeOK, saVars
<1>9. OwnAnswers'
  BY <1>1, <1>4 DEF OwnAnswers, dataVars
<1> QED
  BY <1>5, <1>6, <1>7, <1>8, <1>9

\* The init request and the connect message.
LEMMA WritesInv ==
    ASSUME AgentInv, NEW c \in Clients, WriteInit(c) \/ WriteConnect(c)
    PROVE  AgentInv'
<1> USE DEF AgentInv
<1>1. PICK l \in Clients, f \in Frame :
        /\ At(upFrames, l, Written(l, f))
        /\ \A d \in Clients : ~IsData(f, d)
        /\ f.type = "connect" => l = remoteConn /\ f.client = c
        /\ f.type = "connect" => agent[c] = "connect"
  <2>1. CASE WriteInit(c)
    <3> DEFINE f == [type |-> "init", client |-> c, n |-> 0]
    <3>1. f \in Frame
      BY AgentAssumption DEF Frame
    <3>2. At(upFrames, c, Written(c, f))
      BY <2>1 DEF WriteInit, Writes
    <3> QED
      BY <3>1, <3>2 DEF IsData
  <2>2. CASE WriteConnect(c)
    <3> DEFINE f == [type |-> "connect", client |-> c, n |-> 0]
    <3>1. f \in Frame
      BY AgentAssumption DEF Frame
    <3>2. At(upFrames, remoteConn, Written(remoteConn, f)) /\ agent[c] = "connect"
      BY <2>2 DEF WriteConnect, Writes, AgentGoes
    <3>3. remoteConn \in Clients
      BY <3>2 DEF Bound, SettingUp
    <3> QED
      BY <3>1, <3>2, <3>3 DEF IsData
  <2> QED
    BY <2>1, <2>2
<1>2. /\ clientAgent = "up" /\ clientAgent' = "up"
      /\ \/ agent[c] = "init" /\ agent' = [agent EXCEPT ![c] = "build"]
         \/ agent[c] = "connect" /\ agent' = [agent EXCEPT ![c] = "bindUp"]
      /\ UNCHANGED <<connVars, saVars, line, back, dataVars>>
  BY DEF WriteInit, WriteConnect, AgentGoes, At
<1>3. /\ upFrames' \in [Clients -> Seq(Frames)]
      /\ \A m \in Clients \ {l} : upFrames'[m] = upFrames[m]
      /\ \A i \in DOMAIN upFrames'[l] :
           \/ i \in DOMAIN upFrames[l] /\ upFrames'[l][i] = upFrames[l][i]
           \/ i = Len(upFrames[l]) + 1 /\ upFrames'[l][i] = f
  BY <1>1, WritesOf
<1>4. TypeOK'
  BY <1>2, <1>3 DEF TypeOK, AgentStates, SettingUp, Frames, connVars, saVars, dataVars
<1>5. Bound'
  BY <1>2 DEF TypeOK, Bound, SettingUp, connVars
<1>6. DataInv'
  <2>1. KeepLines
    BY <1>2 DEF KeepLines, TypeOK, connVars
  <2>2. ASSUME NEW m \in Clients PROVE Fewer(upFrames[m], upFrames'[m])
    <3>1. upFrames \in [Clients -> Seq(Frames)]
      BY DEF TypeOK, Frames
    <3>2. Fewer(upFrames[m], upFrames[m])
      BY <3>1, FewerFrames
    <3>3. Fewer(upFrames[l], Written(l, f))
      BY <1>1, FewerWritten DEF Frames
    <3>4. upFrames'[l] = Written(l, f)
      BY <1>1, <3>1 DEF At
    <3> QED
      BY <1>3, <3>2, <3>3, <3>4
  <2> QED
    BY <1>2, <1>4, <2>1, <2>2, DataKept DEF dataVars
<1>7. OwnLines'
  <2> SUFFICES ASSUME ~overlapped' PROVE OwnLines'
    BY DEF OwnLines
  <2>1. ~overlapped
    BY <1>2 DEF connVars
  <2>2. ASSUME NEW m \in Clients, NEW i \in DOMAIN upFrames'[m],
               upFrames'[m][i] # Garbled, upFrames'[m][i].type = "connect"
        PROVE  upFrames'[m][i].client = m
    <3>1. CASE m \in Clients /\ i \in DOMAIN upFrames[m] /\ upFrames'[m][i] = upFrames[m][i]
      BY <2>1, <2>2, <3>1 DEF OwnLines
    <3>2. CASE m = l /\ upFrames'[m][i] = f
      BY <1>1, <2>1, <2>2, <3>2 DEF OwnLines, SettingUp
    <3> QED
      BY <1>3, <3>1, <3>2
  <2>3. \A d \in Clients : agent'[d] \in SettingUp => agent[d] \in SettingUp
    BY <1>2 DEF TypeOK, SettingUp
  <2> QED
    BY <1>2, <2>1, <2>2, <2>3 DEF OwnLines, connVars, saVars
<1>8. OwnAnswers'
  BY <1>2 DEF OwnAnswers, connVars, dataVars
<1> QED
  BY <1>4, <1>5, <1>6, <1>7, <1>8

\* Frames on a line mix, its first frame is read, or it breaks.
LEMMA LinesInv ==
    ASSUME AgentInv, NEW l \in Clients,
           WritesMix(l) \/ LineServed(l) \/ LineBreaks(l) \/ ConnectService(l)
    PROVE  AgentInv'
<1> USE DEF AgentInv
<1>1. LinesShrink
  <2>1. CASE WritesMix(l)
    BY <2>1, MixShrinks DEF WritesMix
  <2>2. CASE LineServed(l) \/ ConnectService(l)
    BY <2>2, ReadShrinks DEF LineServed, ConnectService, Arrived, Carries
  <2>3. CASE LineBreaks(l)
    <3>1. upFrames' = [m \in Clients |-> IF m \in {l} THEN <<>> ELSE upFrames[m]]
      BY <2>3 DEF LineBreaks, At, TypeOK
    <3> QED
      BY <3>1, LossShrinks
  <2> QED
    BY <2>1, <2>2, <2>3
<1>2. UNCHANGED <<caVars, serviceAgent, back, dataVars>>
  BY DEF WritesMix, LineServed, LineBreaks, ConnectService, saVars
<1>3. /\ services' \in SUBSET (Clients \X Clients)
      /\ ~overlapped => \A s \in services' : s[1] = s[2]
  <2>1. CASE ConnectService(l)
    <3> DEFINE f == upFrames[l][1]
    <3>1. /\ f # Garbled /\ f.type = "connect" /\ upFrames[l] # <<>>
          /\ services' = services \cup {<<l, f.client>>}
      BY <2>1 DEF ConnectService, Arrived, Carries
    <3>2. 1 \in DOMAIN upFrames[l] /\ f \in Frame
      <4>1. upFrames[l] \in Seq(Frames)
        BY DEF TypeOK, Frames
      <4>2. 1 \in 1..Len(upFrames[l])
        BY <3>1, <4>1, LenProperties, EmptySeq
      <4>3. f \in Frames
        BY <4>1, <4>2, ElementOfSeq
      <4> QED
        BY <3>1, <4>1, <4>2, <4>3, LenProperties DEF Frames
    <3>3. f.client \in Clients
      BY <3>2 DEF Frame
    <3>4. ~overlapped => f.client = l
      BY <3>1, <3>2 DEF OwnLines
    <3> HIDE DEF f
    <3> QED
      BY <3>1, <3>3, <3>4 DEF TypeOK, OwnLines
  <2>2. CASE ~ConnectService(l)
    <3>1. UNCHANGED services
      BY <2>2 DEF WritesMix, LineServed, LineBreaks, saVars
    <3> QED
      BY <3>1 DEF TypeOK, OwnLines
  <2> QED
    BY <2>1, <2>2
<1>4. line' \in [Clients -> {"none", "open", "served", "refused", "broken"}]
  BY DEF WritesMix, LineServed, LineBreaks, ConnectService, At, TypeOK
<1>5. TypeOK'
  BY <1>1, <1>2, <1>3, <1>4 DEF TypeOK, LinesShrink, Frames, caVars, connVars, dataVars
<1>6. Bound' /\ KeepLines
  BY <1>2 DEF Bound, KeepLines, caVars, connVars
<1>7. DataInv'
  BY <1>1, <1>2, <1>5, <1>6, DataKept DEF LinesShrink, dataVars
<1>8. OwnLines' /\ OwnAnswers'
  <2>1. UNCHANGED <<overlapped, agent, remoteConn, downLine, back, answered, toClient>>
    BY <1>2 DEF caVars, connVars, dataVars
  <2> QED
    BY <1>1, <1>3, <2>1 DEF OwnLines, OwnAnswers, LinesShrink, OnlyOld
<1> QED
  BY <1>5, <1>6, <1>7, <1>8

\* The service agent gets ready.
LEMMA StartInv ==
    ASSUME AgentInv, Register \/ Listen
    PROVE  AgentInv'
<1> USE DEF AgentInv, Register, Listen, StartGoes, caVars, connVars, dataVars
<1>1. TypeOK' /\ Bound'
  BY DEF TypeOK, Bound
<1>2. DataInv'
  BY DEF DataInv, ServiceHas, OnTheWay
<1>3. OwnLines' /\ OwnAnswers'
  BY DEF OwnLines, OwnAnswers
<1> QED
  BY <1>1, <1>2, <1>3

\* A message of a client goes behind all others of its.
LEMMA ForwardUpInv ==
    ASSUME AgentInv, NEW c \in Clients, ForwardUp(c)
    PROVE  AgentInv'
<1> USE DEF AgentInv
<1> DEFINE l == upLine[c]
           f == [type |-> "data", client |-> c, n |-> sent[c] + 1]
<1>1. /\ clientAgent = "up" /\ agent[c] \in {"bindDown", "serving"} /\ sent[c] < MaxUp
      /\ sent' = [sent EXCEPT ![c] = sent[c] + 1]
      /\ At(upFrames, l, Written(l, f))
      /\ UNCHANGED <<caVars, saVars, line, back, toService, answered, toClient>>
  BY DEF ForwardUp, Writes, At
<1>2. l \in Clients /\ sent[c] \in 0..MaxUp /\ MaxUp \in Nat
  BY <1>1, AgentAssumption DEF Bound, TypeOK
<1>3. f \in Frame /\ f.type = "data" /\ f.client = c /\ f.n = sent[c] + 1
  BY <1>1, <1>2 DEF Frame
<1> HIDE DEF l, f
<1>4. /\ upFrames' \in [Clients -> Seq(Frames)]
      /\ \A m \in Clients \ {l} : upFrames'[m] = upFrames[m]
      /\ \A i \in DOMAIN upFrames'[l] :
           \/ i \in DOMAIN upFrames[l] /\ upFrames'[l][i] = upFrames[l][i]
           \/ i = Len(upFrames[l]) + 1 /\ upFrames'[l][i] = f
  BY <1>1, <1>2, <1>3, WritesOf
<1>5. TypeOK'
  <2>1. sent[c] + 1 \in 0..MaxUp
    BY <1>1, <1>2
  <2>2. sent' \in [Clients -> 0..MaxUp]
    BY <1>1, <2>1 DEF TypeOK
  <2> QED
    BY <1>1, <1>4, <2>2 DEF TypeOK, Frames, caVars, connVars, saVars
<1>6. Bound'
  BY <1>1 DEF Bound, caVars, connVars
<1>7. ASSUME NEW d \in Clients PROVE ServiceHas(d)'
  <2>1. sent[d] <= sent'[d] /\ sent[d] \in Nat /\ sent'[d] \in Nat
    <3>1. sent[d] \in Nat /\ sent'[d] = IF d = c THEN sent[d] + 1 ELSE sent[d]
      BY <1>1, <1>2 DEF TypeOK
    <3> QED
      BY <3>1
  <2>2. \A i \in DOMAIN toService[d] : toService[d][i].n \in Nat
    <3>1. \A i \in DOMAIN toService[d] : toService[d][i] \in Frame
      BY ElementOfSeq, LenProperties DEF TypeOK
    <3> QED
      BY <1>2, <3>1 DEF Frame
  <2> QED
    BY <1>1, <2>1, <2>2 DEF DataInv, ServiceHas
<1>8. ASSUME NEW d \in Clients PROVE OnTheWay(d)'
  <2> SUFFICES ASSUME NEW m \in Clients, NEW i \in DOMAIN upFrames'[m],
                      IsData(upFrames'[m][i], d)
               PROVE  /\ upLine[d] = m /\ agent[d] \in {"bindDown", "serving"}
                      /\ upFrames'[m][i].n <= sent'[d]
                      /\ \A j \in DOMAIN toService[d] : toService[d][j].n < upFrames'[m][i].n
                      /\ \A j \in DOMAIN upFrames'[m] :
                           i < j /\ IsData(upFrames'[m][j], d) =>
                             upFrames'[m][i].n < upFrames'[m][j].n
                      /\ \A h \in Clients \ {m} : \A j \in DOMAIN upFrames'[h] :
                           ~IsData(upFrames'[h][j], d)
    BY <1>1 DEF OnTheWay, caVars, connVars
  <2> DEFINE Old(h, j) == j \in DOMAIN upFrames[h] /\ upFrames'[h][j] = upFrames[h][j]
             New(h, j) == /\ h = l /\ d = c /\ j = Len(upFrames[l]) + 1
                          /\ upFrames'[h][j] = f
  <2>1. ASSUME NEW h \in Clients, NEW j \in DOMAIN upFrames'[h], IsData(upFrames'[h][j], d)
        PROVE  Old(h, j) \/ New(h, j)
    BY <1>3, <1>4, <2>1 DEF IsData
  <2>2. /\ sent[d] \in Nat
        /\ sent'[d] = IF d = c THEN sent[d] + 1 ELSE sent[d]
    BY <1>1, <1>2 DEF TypeOK
  <2>3. \A h \in Clients : \A j \in DOMAIN upFrames[h] :
          IsData(upFrames[h][j], d) =>
            /\ upLine[d] = h /\ agent[d] \in {"bindDown", "serving"}
            /\ upFrames[h][j].n \in Nat /\ upFrames[h][j].n <= sent[d]
            /\ j \in Nat /\ j <= Len(upFrames[h])
    <3> SUFFICES ASSUME NEW h \in Clients, NEW j \in DOMAIN upFrames[h],
                        IsData(upFrames[h][j], d)
                 PROVE  /\ upLine[d] = h /\ agent[d] \in {"bindDown", "serving"}
                        /\ upFrames[h][j].n \in Nat /\ upFrames[h][j].n <= sent[d]
                        /\ j \in Nat /\ j <= Len(upFrames[h])
      OBVIOUS
    <3>1. upFrames[h] \in Seq(Frames)
      BY DEF TypeOK, Frames
    <3>2. j \in 1..Len(upFrames[h]) /\ Len(upFrames[h]) \in Nat
      BY <3>1, LenProperties
    <3>3. upFrames[h][j] \in Frames
      BY <3>1, <3>2, ElementOfSeq
    <3>4. upFrames[h][j].n \in Nat
      BY <1>2, <3>3 DEF Frames, Frame, IsData
    <3>5. OnTheWay(d)
      BY DEF DataInv
    <3> QED
      BY <1>1, <3>2, <3>4, <3>5 DEF OnTheWay
  <2>4. upLine[d] = m /\ agent[d] \in {"bindDown", "serving"}
    BY <1>1, <2>1, <2>3 DEF l
  <2>5. upFrames'[m][i].n <= sent'[d]
    <3>1. CASE Old(m, i)
      BY <2>2, <2>3, <3>1
    <3>2. CASE New(m, i)
      BY <1>3, <2>2, <3>2
    <3> QED
      BY <2>1, <3>1, <3>2
  <2>6. ASSUME NEW j \in DOMAIN toService[d] PROVE toService[d][j].n < upFrames'[m][i].n
    <3>1. CASE Old(m, i)
      BY <3>1 DEF DataInv, OnTheWay
    <3>2. CASE New(m, i)
      <4>1. toService[d][j] \in Frame
        BY ElementOfSeq, LenProperties DEF TypeOK
      <4>2. toService[d][j].n \in Nat /\ toService[d][j].n <= sent[d]
        BY <1>2, <4>1 DEF Frame, DataInv, ServiceHas
      <4> QED
        BY <1>3, <2>2, <3>2, <4>2
    <3> QED
      BY <2>1, <3>1, <3>2
  <2>7. ASSUME NEW j \in DOMAIN upFrames'[m], i < j, IsData(upFrames'[m][j], d)
        PROVE  upFrames'[m][i].n < upFrames'[m][j].n
    <3>1. Len(upFrames[m]) \in Nat
      BY LenProperties DEF TypeOK
    <3>2. CASE Old(m, i) /\ Old(m, j)
      BY <2>7, <3>2 DEF DataInv, OnTheWay
    <3>3. CASE Old(m, i) /\ New(m, j)
      BY <1>3, <2>2, <2>3, <3>3
    <3>4. CASE New(m, i) /\ Old(m, j)
      BY <2>3, <2>7, <3>1, <3>4
    <3>5. CASE New(m, i) /\ New(m, j)
      BY <2>7, <3>1, <3>5
    <3> QED
      BY <2>1, <2>7, <3>2, <3>3, <3>4, <3>5
  <2>8. ASSUME NEW h \in Clients \ {m}, NEW j \in DOMAIN upFrames'[h]
        PROVE  ~IsData(upFrames'[h][j], d)
    BY <2>1, <2>3, <2>4 DEF l
  <2> QED
    BY <2>4, <2>5, <2>6, <2>7, <2>8
<1>9. OwnLines' /\ OwnAnswers'
  <2>1. UNCHANGED <<overlapped, agent, remoteConn, downLine, services, back, answered,
                    toClient>>
    BY <1>1 DEF caVars, connVars, saVars
  <2> QED
    BY <1>3, <1>4, <2>1 DEF OwnLines, OwnAnswers
<1> QED
  BY <1>5, <1>6, <1>7, <1>8, <1>9 DEF DataInv

\* What is appended is last, and the sequence stays increasing if it is
\* greater than all before it.
LEMMA Appended ==
    ASSUME NEW S, NEW q \in Seq(S), NEW x \in S
    PROVE  LET r == Append(q, x)
           IN  /\ r \in Seq(S)
               /\ \A i \in DOMAIN r : \/ i \in DOMAIN q /\ r[i] = q[i]
                                      \/ i = Len(q) + 1 /\ r[i] = x
               /\ Increasing(q) /\ (\A i \in DOMAIN q : q[i].n < x.n) => Increasing(r)
<1> DEFINE r == Append(q, x)
<1>1. DOMAIN q = 1..Len(q) /\ Len(q) \in Nat
  BY LenProperties
<1>2. /\ r \in Seq(S)
      /\ Len(r) = Len(q) + 1
      /\ \A i \in 1..Len(q) : r[i] = q[i]
      /\ r[Len(q) + 1] = x
  BY AppendProperties
<1>3. DOMAIN r = 1..Len(q) + 1
  BY <1>2, LenProperties
<1> HIDE DEF r
<1>4. \A i \in 1..Len(q) + 1 : i \in 1..Len(q) \/ i = Len(q) + 1
  BY <1>1
<1>5. \A i \in DOMAIN r : \/ i \in DOMAIN q /\ r[i] = q[i]
                          \/ i = Len(q) + 1 /\ r[i] = x
  BY <1>1, <1>2, <1>3, <1>4
<1>6. ASSUME Increasing(q), \A i \in DOMAIN q : q[i].n < x.n PROVE Increasing(r)
  <2> SUFFICES ASSUME NEW i \in DOMAIN r, NEW j \in DOMAIN r, i < j
               PROVE  r[i].n < r[j].n
    BY DEF Increasing
  <2>1. i \in DOMAIN q /\ r[i] = q[i]
    BY <1>1, <1>3, <1>5
  <2>2. CASE j \in DOMAIN q /\ r[j] = q[j]
    BY <1>6, <2>1, <2>2 DEF Increasing
  <2>3. CASE r[j] = x
    BY <1>6, <2>1, <2>3
  <2> QED
    BY <1>5, <2>2, <2>3
<1> QED
  BY <1>2, <1>5, <1>6 DEF r

\* Data goes to the connection of its client, from the front of the line.
LEMMA DataToServiceInv ==
    ASSUME AgentInv, NEW l \in Clients, DataToService(l)
    PROVE  AgentInv'
<1> USE DEF AgentInv
<1> DEFINE f == upFrames[l][1]
           c == f.client
<1>1. /\ upFrames[l] # <<>> /\ f # Garbled /\ f.type = "data"
      /\ FirstRead(l)
      /\ UNCHANGED <<caVars, saVars, line, back, sent, answered, toClient>>
      /\ UNCHANGED toService \/ toService' = [toService EXCEPT ![c] = Append(toService[c], f)]
  BY DEF DataToService, Arrived, Carries, At
<1>2. LinesShrink
  BY <1>1, ReadShrinks
<1>3. 1 \in DOMAIN upFrames[l] /\ f \in Frame
  <2>1. upFrames[l] \in Seq(Frames)
    BY DEF TypeOK, Frames
  <2>2. 1 \in 1..Len(upFrames[l])
    BY <1>1, <2>1, LenProperties, EmptySeq
  <2>3. f \in Frames
    BY <2>1, <2>2, ElementOfSeq
  <2> QED
    BY <1>1, <2>1, <2>2, <2>3, LenProperties DEF Frames
<1>4. c \in Clients /\ IsData(f, c) /\ f.n \in Nat
  BY <1>1, <1>3, AgentAssumption DEF Frame, IsData
<1>5. /\ toService[c] \in Seq(Frame)
      /\ \A j \in DOMAIN toService[c] : toService[c][j].n < f.n
      /\ f.n <= sent[c]
      /\ Increasing(toService[c])
  BY <1>3, <1>4 DEF TypeOK, DataInv, ServiceHas, OnTheWay
<1> HIDE DEF f, c
<1> DEFINE q == Append(toService[c], f)
<1>6. /\ q \in Seq(Frame)
      /\ \A i \in DOMAIN q : \/ i \in DOMAIN toService[c] /\ q[i] = toService[c][i]
                             \/ q[i] = f
      /\ Increasing(q)
  BY <1>3, <1>5, Appended
<1> HIDE DEF q
<1>7. TypeOK'
  <2>1. toService' \in [Clients -> Seq(Frame)]
    BY <1>1, <1>6 DEF TypeOK, q
  <2> QED
    BY <1>1, <1>2, <2>1 DEF TypeOK, LinesShrink, Frames, caVars, connVars, saVars
<1>8. Bound'
  BY <1>1 DEF Bound, caVars, connVars
<1>9. ASSUME NEW d \in Clients
      PROVE  \/ toService'[d] = toService[d]
             \/ d = c /\ toService'[d] = q
  BY <1>1 DEF TypeOK, q
<1>10. ASSUME NEW d \in Clients PROVE ServiceHas(d)'
  <2>1. ServiceHas(d) /\ sent' = sent
    BY <1>1 DEF DataInv
  <2>2. CASE toService'[d] = toService[d]
    BY <2>1, <2>2 DEF ServiceHas
  <2>3. CASE d = c /\ toService'[d] = q
    BY <1>4, <1>5, <1>6, <2>1, <2>3 DEF ServiceHas, IsData
  <2> QED
    BY <1>9, <2>2, <2>3
<1>11. PICK k \in Nat \ {0} : \A i \in DOMAIN upFrames'[l] :
         \/ upFrames'[l][i] = Garbled
         \/ i + k \in DOMAIN upFrames[l] /\ upFrames'[l][i] = upFrames[l][i + k]
  <2>1. PICK r \in Rest(upFrames[l]) : upFrames' = [upFrames EXCEPT ![l] = r]
    BY <1>1 DEF FirstRead, At
  <2>2. upFrames[l] \in Seq(Frames) /\ upFrames'[l] = r
    BY <2>1 DEF TypeOK, Frames
  <2>3. \E k \in Nat \ {0} : \A i \in DOMAIN r :
          r[i] = Garbled \/ (i + k \in DOMAIN upFrames[l] /\ r[i] = upFrames[l][i + k])
    BY <1>1, <2>2, RestOf
  <2> QED
    BY <2>2, <2>3
<1>12. \A m \in Clients : DOMAIN upFrames'[m] \subseteq Nat
  <2> SUFFICES ASSUME NEW m \in Clients PROVE DOMAIN upFrames'[m] \subseteq Nat
    OBVIOUS
  <2>1. upFrames'[m] \in Seq(Frames)
    BY <1>2 DEF LinesShrink
  <2> QED
    BY <2>1, LenProperties
<1> DEFINE K == [m \in Clients |-> IF m = l THEN k ELSE 0]
<1>13. ASSUME NEW d \in Clients, NEW m \in Clients, NEW i \in DOMAIN upFrames'[m],
              IsData(upFrames'[m][i], d)
       PROVE  /\ i + K[m] \in DOMAIN upFrames[m]
              /\ upFrames'[m][i] = upFrames[m][i + K[m]]
  <2>1. CASE m = l
    BY <1>11, <1>13, <2>1 DEF IsData
  <2>2. CASE m # l
    <3>1. upFrames'[m] = upFrames[m]
      BY <1>1, <2>2 DEF FirstRead, At, TypeOK
    <3>2. i + 0 = i
      BY <1>12
    <3> QED
      BY <2>2, <3>1, <3>2
  <2> QED
    BY <2>1, <2>2
<1>14. K \in [Clients -> Nat] /\ K[l] \in Nat \ {0}
  OBVIOUS
<1> HIDE DEF K
<1>15. ASSUME NEW d \in Clients PROVE OnTheWay(d)'
  <2>1. OnTheWay(d) /\ OnTheWay(c)
    BY <1>4 DEF DataInv
  <2>2. UNCHANGED <<clientAgent, upLine, agent, sent>>
    BY <1>1 DEF caVars, connVars
  <2>3. ASSUME NEW m \in Clients, NEW i \in DOMAIN upFrames'[m], IsData(upFrames'[m][i], d)
        PROVE  /\ clientAgent' = "up" => upLine'[d] = m /\ agent'[d] \in {"bindDown", "serving"}
               /\ upFrames'[m][i].n <= sent'[d]
               /\ \A j \in DOMAIN toService'[d] : toService'[d][j].n < upFrames'[m][i].n
               /\ \A j \in DOMAIN upFrames'[m] :
                    i < j /\ IsData(upFrames'[m][j], d) =>
                      upFrames'[m][i].n < upFrames'[m][j].n
               /\ \A h \in Clients \ {m} : \A j \in DOMAIN upFrames'[h] :
                    ~IsData(upFrames'[h][j], d)
    <3>1. /\ i + K[m] \in DOMAIN upFrames[m]
          /\ upFrames'[m][i] = upFrames[m][i + K[m]]
          /\ IsData(upFrames[m][i + K[m]], d)
      BY <1>13, <2>3
    <3>2. /\ clientAgent' = "up" => upLine'[d] = m /\ agent'[d] \in {"bindDown", "serving"}
          /\ upFrames'[m][i].n <= sent'[d]
      BY <2>1, <2>2, <3>1 DEF OnTheWay
    <3>3. ASSUME NEW j \in DOMAIN toService'[d]
          PROVE  toService'[d][j].n < upFrames'[m][i].n
      <4>1. CASE j \in DOMAIN toService[d] /\ toService'[d][j] = toService[d][j]
        BY <2>1, <3>1, <4>1 DEF OnTheWay
      <4>2. CASE d = c /\ toService'[d][j] = f
        <5>1. m = l
          BY <1>3, <1>4, <2>1, <3>1, <4>2 DEF OnTheWay, f
        <5>2. 1 < i + K[l] /\ i + K[l] \in Nat
          <6>1. i \in Nat /\ i # 0
            <7>1. upFrames'[m] \in Seq(Frames)
              BY <1>2 DEF LinesShrink
            <7> QED
              BY <7>1, LenProperties
          <6> QED
            BY <1>14, <6>1
        <5>3. f.n < upFrames[l][i + K[l]].n
          BY <1>3, <1>4, <2>1, <3>1, <4>2, <5>1, <5>2 DEF OnTheWay, f
        <5> QED
          BY <3>1, <4>2, <5>1, <5>3
      <4> QED
        BY <1>6, <1>9, <4>1, <4>2
    <3>4. ASSUME NEW j \in DOMAIN upFrames'[m], i < j, IsData(upFrames'[m][j], d)
          PROVE  upFrames'[m][i].n < upFrames'[m][j].n
      <4>1. j + K[m] \in DOMAIN upFrames[m] /\ upFrames'[m][j] = upFrames[m][j + K[m]]
        BY <1>13, <3>4
      <4>2. i + K[m] < j + K[m]
        BY <1>12, <1>14, <3>4
      <4> QED
        BY <2>1, <3>1, <3>4, <4>1, <4>2 DEF OnTheWay
    <3>5. ASSUME NEW h \in Clients \ {m}, NEW j \in DOMAIN upFrames'[h]
          PROVE  ~IsData(upFrames'[h][j], d)
      <4>1. ASSUME IsData(upFrames'[h][j], d)
            PROVE  \E g \in DOMAIN upFrames[h] : IsData(upFrames[h][g], d)
        BY <1>13, <4>1
      <4> QED
        BY <2>1, <3>1, <4>1 DEF OnTheWay
    <3> QED
      BY <3>2, <3>3, <3>4, <3>5
  <2> QED
    BY <2>3 DEF OnTheWay
<1>16. OwnLines' /\ OwnAnswers'
  <2>1. UNCHANGED <<overlapped, agent, remoteConn, downLine, services, back, answered,
                    toClient>>
    BY <1>1 DEF caVars, connVars, saVars
  <2> QED
    BY <1>2, <2>1 DEF OwnLines, OwnAnswers, LinesShrink, OnlyOld
<1> QED
  BY <1>7, <1>8, <1>10, <1>15, <1>16 DEF DataInv

\* A client gets an answer of the line its goroutine reads from, or answers of
\* it are lost.
LEMMA ReadBackInv ==
    ASSUME AgentInv, NEW c \in Clients, ReadBack(c)
    PROVE  AgentInv'
<1> USE DEF AgentInv
<1> DEFINE l == downLine[c]
           q == back[l]
<1>1. l \in Clients
  BY DEF ReadBack, Bound
<1>2. q \in Seq(Answer) /\ DOMAIN q = 1..Len(q) /\ Len(q) \in Nat
  BY <1>1, LenProperties DEF TypeOK
<1>3. PICK k \in 1..Len(q) :
        /\ back' = [back EXCEPT ![l] = SubSeq(q, k + 1, Len(q))]
        /\ \/ UNCHANGED toClient
           \/ toClient' = [toClient EXCEPT ![c] = Append(toClient[c], q[k])]
  BY DEF ReadBack, At
<1>4. UNCHANGED <<caVars, saVars, line, upFrames, sent, toService, answered>>
  BY DEF ReadBack
<1> HIDE DEF l, q
<1> DEFINE r == SubSeq(q, k + 1, Len(q))
<1>5. /\ r \in Seq(Answer)
      /\ \A i \in DOMAIN r : i \in Nat \ {0} /\ i + k \in DOMAIN q /\ r[i] = q[i + k]
  <2>1. \A i \in k + 1..Len(q) : q[i] \in Answer
    BY <1>2, ElementOfSeq
  <2>2. k + 1 \in 1..Len(q) + 1
    BY <1>2
  <2>3. /\ r \in Seq(Answer)
        /\ Len(r) = IF k + 1 <= Len(q) THEN Len(q) - (k + 1) + 1 ELSE 0
        /\ \A i \in 1..Len(q) - (k + 1) + 1 : r[i] = q[k + 1 + i - 1]
    BY <1>2, <2>1, <2>2, SubSeqProperties
  <2>4. DOMAIN r = 1..Len(r) /\ Len(r) = Len(q) - (k + 1) + 1
    <3> HIDE DEF r
    <3>1. DOMAIN r = 1..Len(r)
      BY <2>3, LenProperties
    <3>2. Len(r) = IF k + 1 <= Len(q) THEN Len(q) - (k + 1) + 1 ELSE 0
      BY <2>3
    <3>3. Len(r) = Len(q) - (k + 1) + 1
      <4>1. Len(q) \in Nat /\ k \in Nat /\ k <= Len(q)
        BY <1>2
      <4>2. CASE k + 1 <= Len(q)
        BY <3>2, <4>2
      <4>3. CASE k = Len(q)
        BY <3>2, <4>1, <4>3
      <4> QED
        BY <4>1, <4>2, <4>3
    <3> QED
      BY <3>1, <3>3
  <2>5. \A i \in 1..Len(q) - (k + 1) + 1 :
          i \in Nat \ {0} /\ i + k \in 1..Len(q) /\ k + 1 + i - 1 = i + k
    BY <1>2
  <2> QED
    BY <1>2, <2>3, <2>4, <2>5
<1>6. k \in DOMAIN q /\ q[k] \in Answer /\ k \in Nat
  BY <1>2, ElementOfSeq
<1> DEFINE t == Append(toClient[c], q[k])
<1>7. /\ t \in Seq(Answer)
      /\ \A i \in DOMAIN t : \/ i \in DOMAIN toClient[c] /\ t[i] = toClient[c][i]
                             \/ t[i] = q[k]
      /\ Increasing(toClient[c]) /\ (\A i \in DOMAIN toClient[c] : toClient[c][i].n < q[k].n)
           => Increasing(t)
  BY <1>6, Appended DEF TypeOK
<1> HIDE DEF r, t
<1>8. TypeOK'
  <2>1. back' \in [Clients -> Seq(Answer)]
    BY <1>3, <1>5 DEF TypeOK, r
  <2>2. toClient' \in [Clients -> Seq(Answer)]
    BY <1>3, <1>7 DEF TypeOK, t
  <2> QED
    BY <1>4, <2>1, <2>2 DEF TypeOK, caVars, connVars, saVars
<1>9. Bound' /\ KeepLines
  BY <1>4 DEF Bound, KeepLines, caVars, connVars
<1>10. DataInv'
  BY <1>4, <1>8, <1>9, DataKept, SameShrinks DEF LinesShrink
<1>11. OwnLines'
  BY <1>4 DEF OwnLines, caVars, connVars, saVars
<1>12. OwnAnswers'
  <2> SUFFICES ASSUME ~overlapped, NEW d \in Clients
               PROVE  /\ \A i \in DOMAIN back'[d] :
                           back'[d][i].client = d /\ back'[d][i].n <= answered[d]
                      /\ Increasing(back'[d])
                      /\ \A i \in DOMAIN toClient'[d] :
                           toClient'[d][i].client = d /\ toClient'[d][i].n <= answered[d]
                      /\ Increasing(toClient'[d])
                      /\ \A i \in DOMAIN toClient'[d], j \in DOMAIN back'[d] :
                           toClient'[d][i].n < back'[d][j].n
    BY <1>4 DEF OwnAnswers, caVars, connVars
  <2>1. /\ \A i \in DOMAIN back[d] : back[d][i].client = d /\ back[d][i].n <= answered[d]
        /\ Increasing(back[d])
        /\ \A i \in DOMAIN toClient[d] :
             toClient[d][i].client = d /\ toClient[d][i].n <= answered[d]
        /\ Increasing(toClient[d])
        /\ \A i \in DOMAIN toClient[d], j \in DOMAIN back[d] : toClient[d][i].n < back[d][j].n
    BY DEF OwnAnswers
  <2>2. l = c
    BY <1>1, AgentAssumption DEF OwnLines, l
  <2>3. CASE d # c
    <3>1. back'[d] = back[d] /\ toClient'[d] = toClient[d]
      BY <1>3, <2>2, <2>3 DEF TypeOK
    <3> QED
      BY <2>1, <3>1
  <2>4. CASE d = c
    <3>1. back[d] = q /\ back'[d] = r /\ (toClient'[d] = toClient[d] \/ toClient'[d] = t)
      BY <1>3, <2>2, <2>4 DEF TypeOK, q, r, t
    <3>2. Increasing(r)
      <4> SUFFICES ASSUME NEW i \in DOMAIN r, NEW j \in DOMAIN r, i < j
                   PROVE  r[i].n < r[j].n
        BY DEF Increasing
      <4>1. i + k < j + k
        BY <1>5, <1>6
      <4> QED
        BY <1>5, <2>1, <3>1, <4>1 DEF Increasing
    <3>3. \A j \in DOMAIN r : q[k].n < r[j].n
      <4> SUFFICES ASSUME NEW j \in DOMAIN r PROVE q[k].n < r[j].n
        OBVIOUS
      <4>1. k < j + k
        BY <1>5, <1>6
      <4> QED
        BY <1>5, <1>6, <2>1, <3>1, <4>1 DEF Increasing
    <3>4. \A i \in DOMAIN r : r[i].client = d /\ r[i].n <= answered[d]
      BY <1>5, <2>1, <3>1
    <3>5. CASE toClient'[d] = toClient[d]
      BY <1>5, <2>1, <3>1, <3>2, <3>4, <3>5
    <3>6. CASE toClient'[d] = t
      <4>1. \A i \in DOMAIN t : t[i].client = d /\ t[i].n <= answered[d]
        BY <1>6, <1>7, <2>1, <2>4, <3>1
      <4>2. Increasing(t)
        BY <1>6, <1>7, <2>1, <2>4, <3>1
      <4>3. \A i \in DOMAIN t, j \in DOMAIN r : t[i].n < r[j].n
        BY <1>5, <1>7, <2>1, <2>4, <3>1, <3>3
      <4> QED
        BY <3>1, <3>2, <3>4, <3>6, <4>1, <4>2, <4>3
    <3> QED
      BY <3>1, <3>5, <3>6
  <2> QED
    BY <2>3, <2>4
<1> QED
  BY <1>8, <1>9, <1>10, <1>11, <1>12

\* The service answers on one of its connections.
LEMMA ServiceAnswersInv ==
    ASSUME AgentInv, NEW l \in Clients, NEW c \in Clients, ServiceAnswers(l, c)
    PROVE  AgentInv'
<1> USE DEF AgentInv
<1> DEFINE x == [client |-> c, n |-> answered[c] + 1]
<1>1. /\ <<l, c>> \in services
      /\ answered[c] < MaxDown
      /\ answered' = [answered EXCEPT ![c] = answered[c] + 1]
      /\ back' = [back EXCEPT ![l] = Append(back[l], x)]
      /\ UNCHANGED <<caVars, saVars, line, upFrames, sent, toService, toClient>>
  BY DEF ServiceAnswers, ServiceAnswersAs, At
<1>2. answered[c] \in 0..MaxDown /\ MaxDown \in Nat /\ answered[c] + 1 \in 1..MaxDown
  BY <1>1, AgentAssumption DEF TypeOK
<1>3. x \in Answer /\ x.client = c /\ x.n = answered[c] + 1
  BY <1>2 DEF Answer
<1> HIDE DEF x
<1> DEFINE r == Append(back[l], x)
<1>4. /\ r \in Seq(Answer)
      /\ \A i \in DOMAIN r : (i \in DOMAIN back[l] /\ r[i] = back[l][i]) \/ r[i] = x
      /\ Increasing(back[l]) /\ (\A i \in DOMAIN back[l] : back[l][i].n < x.n)
           => Increasing(r)
  <2>1. back[l] \in Seq(Answer)
    BY DEF TypeOK
  <2> QED
    BY <1>3, <2>1, Appended
<1> HIDE DEF r
<1>5. TypeOK'
  <2>1. back' \in [Clients -> Seq(Answer)]
    BY <1>1, <1>4 DEF TypeOK, r
  <2>2. answered' \in [Clients -> 0..MaxDown]
    BY <1>1, <1>2 DEF TypeOK
  <2> QED
    BY <1>1, <2>1, <2>2 DEF TypeOK, caVars, connVars, saVars
<1>6. Bound' /\ KeepLines
  BY <1>1 DEF Bound, KeepLines, caVars, connVars
<1>7. DataInv'
  BY <1>1, <1>5, <1>6, DataKept, SameShrinks DEF LinesShrink
<1>8. OwnLines'
  BY <1>1 DEF OwnLines, caVars, connVars, saVars
<1>9. OwnAnswers'
  <2> SUFFICES ASSUME ~overlapped, NEW d \in Clients
               PROVE  /\ \A i \in DOMAIN back'[d] :
                           back'[d][i].client = d /\ back'[d][i].n <= answered'[d]
                      /\ Increasing(back'[d])
                      /\ \A i \in DOMAIN toClient[d] :
                           toClient[d][i].client = d /\ toClient[d][i].n <= answered'[d]
                      /\ Increasing(toClient[d])
                      /\ \A i \in DOMAIN toClient[d], j \in DOMAIN back'[d] :
                           toClient[d][i].n < back'[d][j].n
    BY <1>1 DEF OwnAnswers, caVars, connVars
  <2>1. /\ \A i \in DOMAIN back[d] : back[d][i].client = d /\ back[d][i].n <= answered[d]
        /\ Increasing(back[d])
        /\ \A i \in DOMAIN toClient[d] :
             toClient[d][i].client = d /\ toClient[d][i].n <= answered[d]
        /\ Increasing(toClient[d])
        /\ \A i \in DOMAIN toClient[d], j \in DOMAIN back[d] : toClient[d][i].n < back[d][j].n
    BY DEF OwnAnswers
  <2>2. l = c
    BY <1>1 DEF OwnLines
  <2>3. CASE d # c
    <3>1. back'[d] = back[d] /\ answered'[d] = answered[d]
      BY <1>1, <2>2, <2>3 DEF TypeOK
    <3> QED
      BY <2>1, <3>1
  <2>4. CASE d = c
    <3>1. back'[d] = r /\ answered'[d] = answered[d] + 1 /\ answered[d] \in Nat
      BY <1>1, <1>2, <2>2, <2>4 DEF TypeOK, r
    <3>2. /\ \A i \in DOMAIN back[d] : back[d][i].n \in Nat
          /\ \A i \in DOMAIN toClient[d] : toClient[d][i].n \in Nat
      <4>1. \A i \in DOMAIN back[d] : back[d][i] \in Answer
        BY ElementOfSeq, LenProperties DEF TypeOK
      <4>2. \A i \in DOMAIN toClient[d] : toClient[d][i] \in Answer
        BY ElementOfSeq, LenProperties DEF TypeOK
      <4> QED
        BY <1>2, <4>1, <4>2 DEF Answer
    <3>3. \A i \in DOMAIN back[d] : back[d][i].n < x.n /\ back[d][i].n <= answered[d] + 1
      BY <1>3, <2>1, <2>4, <3>1, <3>2
    <3>4. \A i \in DOMAIN toClient[d] :
            toClient[d][i].n < x.n /\ toClient[d][i].n <= answered[d] + 1
      BY <1>3, <2>1, <2>4, <3>1, <3>2
    <3>5. x.client = d /\ x.n <= answered[d] + 1
      BY <1>3, <2>4, <3>1
    <3>6. Increasing(r)
      BY <1>4, <2>1, <2>2, <2>4, <3>3
    <3> QED
      BY <1>4, <2>1, <2>2, <2>4, <3>1, <3>3, <3>4, <3>5, <3>6
  <2> QED
    BY <2>3, <2>4
<1> QED
  BY <1>5, <1>6, <1>7, <1>8, <1>9
-------------------------------------------------------------------------------
(* The theorems                                                            *)

LEMMA AgentNextInv == AgentInv /\ [Next]_vars => AgentInv'
<1> SUFFICES ASSUME AgentInv, [Next]_vars PROVE AgentInv'
  OBVIOUS
<1>1. CASE UNCHANGED vars
  <2> USE <1>1 DEF AgentInv, vars, caVars, connVars, saVars, dataVars
  <2>1. TypeOK' /\ Bound'
    BY DEF TypeOK, Bound
  <2>2. DataInv'
    BY DEF DataInv, ServiceHas, OnTheWay
  <2>3. OwnLines' /\ OwnAnswers'
    BY DEF OwnLines, OwnAnswers
  <2> QED
    BY <2>1, <2>2, <2>3
<1>2. CASE Register \/ Listen \/ StartPanics \/ ServiceCloses
  BY <1>2, StartInv, ServiceAgentPanicsInv DEF StartPanics, ServiceCloses
<1>3. ASSUME NEW c \in Clients, ClientStep(c) PROVE AgentInv'
  <2>1. CASE DialPanics(c) \/ BuildPanics(c) \/ WritePanics(c)
    BY <2>1, ClientAgentPanicsInv DEF DialPanics, BuildPanics, WritePanics, AgentPanicsAt
  <2> QED
    BY <1>3, <2>1, MovesInv, StoreConnInv, WritesInv, ForwardUpInv, ReadBackInv
    DEF ClientStep
<1>4. ASSUME NEW l \in Clients, LineStep(l) PROVE AgentInv'
  <2>1. CASE ConnectServicePanics(l) \/ DataTooEarly(l) \/ GarbageArrives(l) \/ LineLost(l)
    BY <2>1, ServiceAgentPanicsInv
    DEF ConnectServicePanics, DataTooEarly, GarbageArrives, LineLost
  <2> QED
    BY <1>4, <2>1, LinesInv, DataToServiceInv, ServiceAnswersInv DEF LineStep
<1> QED
  BY <1>1, <1>2, <1>3, <1>4 DEF Next

LEMMA AgentInvariant == Spec => []AgentInv
  BY AgentInitInv, AgentNextInv, PTL DEF Spec

\* The two agents' goroutines, lines and connections have the shape the code
\* gives them, whatever panics (apron_agent_server.go, apron_client_agent.go).
THEOREM AgentTypes == Spec => []TypeOK
  BY AgentInvariant, PTL DEF AgentInv

\* For any number of clients, overlapping or not: the connection the service
\* agent keeps for a client gets messages of this client only, each at most
\* once and in order (apron_agent_server.go:316).
THEOREM ServiceAlwaysGetsOwnData == Spec => []ServiceGetsOwnData
<1>1. AgentInv => ServiceGetsOwnData
  BY DEF AgentInv, DataInv, ServiceHas, ServiceGetsOwnData
<1> QED
  BY <1>1, AgentInvariant, PTL

\* For any number of clients that are set up one after the other: each gets
\* answers to itself only, each at most once and in order
\* (apron_agent_server.go:224, apron_client_agent.go:151, 210, 266).
THEOREM ClientsAlwaysGetOwnAnswers == Spec => []ClientsGetOwnAnswers
<1>1. AgentInv => ClientsGetOwnAnswers
  BY DEF AgentInv, OwnAnswers, ClientsGetOwnAnswers
<1> QED
  BY <1>1, AgentInvariant, PTL
===============================================================================
