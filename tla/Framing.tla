-------------------------------- MODULE Framing -------------------------------
(***************************************************************************)
(* The frames of network_helper.go: WriteBytesViaStream writes an 8 byte   *)
(* length and then the data, ReadBytesViaStream takes frames off the other *)
(* end through a bufio.Reader.                                             *)
(*                                                                         *)
(* Two kinds of transport carry frames.  A libp2p stream hands out what    *)
(* was written piece by piece: one Read never returns bytes of two Writes. *)
(* A TCP connection runs the Writes together.  And there are two kinds of  *)
(* reader: most callers let ReadOneFrameDataFromStream make a new          *)
(* bufio.Reader for every frame; the socks5 service agent passes the same  *)
(* one every time, which bufio.NewReader then returns as it is.            *)
(*                                                                         *)
(* Bytes are cells <<m, i>>, the i-th cell of the frame of message m.      *)
(***************************************************************************)
EXTENDS Naturals, Sequences, FiniteSets

CONSTANTS
    Messages,
    Size,         \* Size[m]: cells of m's data
    HeaderSize,   \* cells of the length field
    BufSize,      \* cells in the buffer of a bufio.Reader
    Writers,      \* goroutines that write to the connection
    Links,        \* the kinds of connection and reader in use
    NoMessage,    \* nothing
    Garbled       \* data that is not what anybody wrote

ASSUME FramingAssumption ==
    /\ Size \in [Messages -> Nat]
    /\ HeaderSize \in Nat \ {0}
    /\ BufSize \in Nat \ {0}
    /\ Links \subseteq [keepsWrites : BOOLEAN, newReader : BOOLEAN]
    /\ NoMessage \notin Messages
    /\ Garbled \notin Messages

VARIABLES
    link,         \* keepsWrites: libp2p stream, else TCP; newReader: a new
                  \* bufio.Reader for every frame
    writing,      \* writing[w]: the message whose data w still has to write
    started,      \* the messages, in the order their frames were begun
    transit,      \* what can be read: a sequence of pieces
    broken,       \* the connection is lost
    buf,          \* unread cells in the bufio.Reader
    stage,        \* the reader is at a "header" or a "body", or has "stopped"
    frame,        \* the message whose header was read
    got,          \* cells read of the current header or body
    out           \* what was passed to dataCh

vars == <<link, writing, started, transit, broken, buf, stage, frame, got, out>>

Header(m) == [i \in 1..HeaderSize |-> <<m, i>>]
Body(m) == [i \in 1..Size[m] |-> <<m, HeaderSize + i>>]

Started == {started[i] : i \in DOMAIN started}

Min2(a, b) == IF a < b THEN a ELSE b

TypeOK ==
    /\ link \in Links
    /\ writing \in [Writers -> Messages \cup {NoMessage}]
    /\ started \in Seq(Messages)
    /\ transit \in Seq(Seq(Messages \X Nat) \ {<<>>})
    /\ broken \in BOOLEAN
    /\ buf \in Seq(Messages \X Nat)
    /\ Len(buf) <= BufSize
    /\ stage \in {"header", "body", "stopped"}
    /\ frame \in Messages \cup {NoMessage}
    /\ got \in Seq(Messages \X Nat)
    /\ out \in Seq(Messages \cup {Garbled})

Init ==
    /\ link \in Links
    /\ writing = [w \in Writers |-> NoMessage]
    /\ started = <<>>
    /\ transit = <<>>
    /\ broken = FALSE
    /\ buf = <<>>
    /\ stage = "header"
    /\ frame = NoMessage
    /\ got = <<>>
    /\ out = <<>>
-------------------------------------------------------------------------------
(* WriteBytesViaStream                                                     *)

\* One Write: a piece of its own, or more bytes for the TCP connection.
Push(cells) ==
    transit' = IF cells = <<>> THEN transit
               ELSE IF link.keepsWrites \/ transit = <<>> THEN Append(transit, cells)
               ELSE <<Head(transit) \o cells>>

readerVars == <<buf, stage, frame, got, out>>

WriteLength(w, m) ==
    /\ ~broken
    /\ writing[w] = NoMessage
    /\ m \notin Started
    /\ Push(Header(m))
    /\ started' = Append(started, m)
    /\ writing' = [writing EXCEPT ![w] = m]
    /\ UNCHANGED <<link, broken, readerVars>>

WriteData(w) ==
    /\ ~broken
    /\ writing[w] # NoMessage
    /\ Push(Body(writing[w]))
    /\ writing' = [writing EXCEPT ![w] = NoMessage]
    /\ UNCHANGED <<link, started, broken, readerVars>>
-------------------------------------------------------------------------------
(* ReadOneFrameDataFromStream                                              *)

\* Wrong variant: the length counts the header as well.
NeedHeaderToo ==
    (IF stage = "header" THEN HeaderSize ELSE HeaderSize + Size[frame]) - Len(got)

\* Cells the reader wants before it goes on.
Need == (IF stage = "header" THEN HeaderSize ELSE Size[frame]) - Len(got)

\* The reader has no buffered cell and asks the connection for more; the
\* connection returns any number of cells of its first piece.
Reading(n) ==
    /\ stage # "stopped"
    /\ Need > 0
    /\ buf = <<>>
    /\ transit' = IF n = Len(Head(transit)) THEN Tail(transit)
                  ELSE <<SubSeq(Head(transit), n + 1, Len(Head(transit)))>> \o Tail(transit)

\* bufio reads straight into the caller's slice when that is no smaller than
\* its buffer.
ReadDirect(n) ==
    /\ Reading(n)
    /\ Need >= BufSize
    /\ n <= Need
    /\ got' = got \o SubSeq(Head(transit), 1, n)
    /\ UNCHANGED <<link, writing, started, broken, buf, stage, frame, out>>

\* Wrong variant: the buffer takes any amount.
FillUnbounded(n) ==
    /\ Reading(n)
    /\ Need < BufSize
    /\ buf' = SubSeq(Head(transit), 1, n)
    /\ UNCHANGED <<link, writing, started, broken, stage, frame, got, out>>

\* Otherwise it fills its buffer with what there is, which may be more than
\* the caller wants.
Fill(n) ==
    /\ Reading(n)
    /\ Need < BufSize
    /\ n <= BufSize
    /\ buf' = SubSeq(Head(transit), 1, n)
    /\ UNCHANGED <<link, writing, started, broken, stage, frame, got, out>>

\* Wrong variant: everything buffered counts as part of the frame.
TakeAllBuffered ==
    /\ stage # "stopped"
    /\ Need > 0
    /\ buf # <<>>
    /\ got' = SubSeq(got \o buf, 1, Min2(Len(got) + Need, Len(got \o buf)))
    /\ buf' = <<>>
    /\ UNCHANGED <<link, writing, started, transit, broken, stage, frame, out>>

TakeBuffered ==
    /\ stage # "stopped"
    /\ Need > 0
    /\ buf # <<>>
    /\ LET n == Min2(Need, Len(buf))
       IN  /\ got' = got \o SubSeq(buf, 1, n)
           /\ buf' = SubSeq(buf, n + 1, Len(buf))
    /\ UNCHANGED <<link, writing, started, transit, broken, stage, frame, out>>

\* The length is complete.  Cells that are no header make a length nobody
\* wrote: whatever is read with it is garbled, and the model stops there.
HeaderRead ==
    /\ stage = "header"
    /\ Need = 0
    /\ LET ms == {m \in Messages : got = Header(m)}
       IN  IF ms = {}
             THEN /\ out' = Append(out, Garbled)
                  /\ stage' = "stopped"
                  /\ UNCHANGED frame
             ELSE /\ frame' \in ms
                  /\ stage' = "body"
                  /\ UNCHANGED out
    /\ got' = <<>>
    /\ UNCHANGED <<link, writing, started, transit, broken, buf>>

\* The data is complete and goes to dataCh; with the bufio.Reader goes what
\* it had read ahead.
BodyRead ==
    /\ stage = "body"
    /\ Need = 0
    /\ out' = Append(out, IF got = Body(frame) THEN frame ELSE Garbled)
    /\ stage' = "header"
    /\ frame' = NoMessage
    /\ got' = <<>>
    /\ buf' = IF link.newReader THEN <<>> ELSE buf
    /\ UNCHANGED <<link, writing, started, transit, broken>>

\* The connection is lost, with everything on it.
Break ==
    /\ ~broken
    /\ broken' = TRUE
    /\ transit' = <<>>
    /\ UNCHANGED <<link, writing, started, readerVars>>

\* The error goes to errCh and the handler that reads it panics.
ReadError ==
    /\ broken
    /\ stage # "stopped"
    /\ Need > 0
    /\ buf = <<>>
    /\ stage' = "stopped"
    /\ UNCHANGED <<link, writing, started, transit, broken, buf, frame, got, out>>
-------------------------------------------------------------------------------
\* The writer has work while there are messages; a message is written by
\* whichever goroutine has it.
WriterStep ==
    \/ \E w \in Writers, m \in Messages : WriteLength(w, m)
    \/ \E w \in Writers : WriteData(w)

ReaderStep ==
    \/ /\ transit # <<>>
       /\ \E n \in 1..Len(Head(transit)) : ReadDirect(n) \/ Fill(n)
    \/ TakeBuffered
    \/ HeaderRead
    \/ BodyRead
    \/ ReadError

Next == WriterStep \/ ReaderStep \/ Break

Spec == Init /\ [][Next]_vars

\* The writer's and the reader's goroutines run; nothing makes a connection
\* break.
Fairness == WF_vars(WriterStep) /\ WF_vars(ReaderStep)

FairSpec == Spec /\ Fairness
-------------------------------------------------------------------------------
(* Properties                                                              *)

\* "It will read content length first (uint64) then the content bytes."
\* (network_helper.go:51): what the reader passes on is what was written,
\* frame by frame, in order, with nothing lost, cut or mixed, however the
\* transport cuts the bytes up.
FramesIntact ==
    /\ Len(out) <= Len(started)
    /\ out = SubSeq(started, 1, Len(out))

\* Every message reaches the reader unless the connection breaks: the reader
\* never waits for bytes that it has thrown away or that nobody will write.
EverythingArrives ==
    <>(broken \/ (out = started /\ Len(started) = Cardinality(Messages)))
===============================================================================
