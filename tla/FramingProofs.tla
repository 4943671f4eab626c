----------------------------- MODULE FramingProofs ----------------------------
(***************************************************************************)
(* Theorems about the frames on a connection (Framing), for every set of   *)
(* messages and every length of header, data and buffer.                   *)
(***************************************************************************)
EXTENDS Framing, SequenceTheorems, TLAPS

-------------------------------------------------------------------------------
(* The inductive invariant                                                 *)

Cells == Messages \X Nat

FrameSize(m) == HeaderSize + Size[m]

Last(s) == s[Len(s)]

\* Every message has one frame.
Distinct(q) == \A i, l \in 1..Len(q) : q[i] = q[l] => i = l

\* d is what comes after j cells of the k-th frame, when the frames begun are q.
IsNext(q, k, j, d) ==
    /\ k \in 1..Len(q)
    /\ \/ j < FrameSize(q[k]) /\ d = <<q[k], j + 1>>
       \/ j = FrameSize(q[k]) /\ k + 1 <= Len(q) /\ d = <<q[k + 1], 1>>

\* d comes after the cell c.
Follows(q, c, d) == \E k \in 1..Len(q) : c[1] = q[k] /\ IsNext(q, k, c[2], d)

\* From any cell of s on, the rest of its frame follows without a gap.
NoGap(s) ==
    \A i, j \in 1..Len(s) :
      i <= j /\ s[i][2] + (j - i) <= FrameSize(s[i][1]) =>
        s[j] = <<s[i][1], s[i][2] + (j - i)>>

Linked(q, s) == \A i, j \in 1..Len(s) : j = i + 1 => Follows(q, s[i], s[j])

\* All of s was written by one Write.
OneWrite(s) ==
    \A i, j \in 1..Len(s) :
      s[i][1] = s[j][1] /\ (s[i][2] <= HeaderSize => s[j][2] <= HeaderSize)

\* The frame the reader is in, and how far it has come.
Current == Len(out) + 1
Place == Len(got) + (IF stage = "header" THEN 0 ELSE HeaderSize)

\* How far the writer has come with the last frame.
Written == IF \E w \in Writers : writing[w] # NoMessage
             THEN HeaderSize
             ELSE FrameSize(Last(started))

\* One frame is begun at a time, and every message once.
WriterInv ==
    /\ Distinct(started)
    /\ \A w \in Writers : writing[w] # NoMessage =>
         started # <<>> /\ writing[w] = Last(started)

\* The reader has the first cells of the current header or body.
ReaderInv ==
    /\ stage = "header" => /\ Len(got) <= HeaderSize
                           /\ got # <<>> => Current <= Len(started)
                           /\ \A i \in 1..Len(got) : got[i] = <<started[Current], i>>
    /\ stage = "body" => /\ Current <= Len(started)
                         /\ frame = started[Current]
                         /\ Len(got) <= Size[frame]
                         /\ \A i \in 1..Len(got) : got[i] = <<frame, HeaderSize + i>>

\* Of a stream with frames q, b is buffered and tr in transit: nothing is
\* missing in a piece or between two of them.
Stream(q, b, tr) ==
    /\ NoGap(b) /\ Linked(q, b)
    /\ \A p \in 1..Len(tr) : NoGap(tr[p]) /\ Linked(q, tr[p])
    /\ \A p, r \in 1..Len(tr) : r = p + 1 => Follows(q, Last(tr[p]), tr[r][1])
    /\ b # <<>> /\ tr # <<>> => Follows(q, Last(b), tr[1][1])

\* It begins where a reader is that has read j cells of the k-th frame.
Front(q, k, j, b, tr) ==
    /\ b # <<>> => IsNext(q, k, j, b[1])
    /\ b = <<>> /\ tr # <<>> => IsNext(q, k, j, tr[1][1])

\* It ends where a writer is that has written x cells of the last frame.
Back(q, x, k, j, b, tr) ==
    /\ tr # <<>> => q # <<>> /\ Last(Last(tr)) = <<Last(q), x>>
    /\ b # <<>> /\ tr = <<>> => q # <<>> /\ Last(b) = <<Last(q), x>>
    /\ b = <<>> /\ tr = <<>> =>
         \/ k = Len(q) /\ j = x
         \/ k = Len(q) + 1 /\ j = 0 /\ (q # <<>> => x = FrameSize(Last(q)))

\* A libp2p stream keeps the Writes apart, so that no reader reads ahead into
\* the next Write; a TCP connection is one piece.
LinkInv ==
    /\ link.keepsWrites \/ ~link.newReader
    /\ ~link.keepsWrites => Len(transit) <= 1
    /\ link.keepsWrites =>
         /\ \A p \in 1..Len(transit) : OneWrite(transit[p])
         /\ \A i \in 1..Len(buf) :
              /\ Current <= Len(started) /\ buf[i][1] = started[Current]
              /\ stage = "header" => buf[i][2] <= HeaderSize

FlowInv ==
    /\ WriterInv
    /\ stage # "stopped" => /\ ReaderInv
                            /\ Stream(started, buf, transit)
                            /\ Front(started, Current, Place, buf, transit)
                            /\ LinkInv
    /\ ~broken => /\ stage # "stopped"
                  /\ Back(started, Written, Current, Place, buf, transit)

FrameInv ==
    /\ TypeOK
    /\ stage = "body" => frame \in Messages
    /\ FramesIntact
    /\ FlowInv

\* One goroutine writes, and no reader that may read ahead is thrown away.
OneWriter == \A v, w \in Writers : v = w
GoodLinks == \A l \in Links : l.keepsWrites \/ ~l.newReader

-------------------------------------------------------------------------------
(* Pieces of the stream                                                    *)

\* Cells have a message and a number.
LEMMA CellFacts ==
    ASSUME NEW s \in Seq(Cells)
    PROVE  /\ Len(s) \in Nat
           /\ \A i \in 1..Len(s) :
                /\ s[i] = <<s[i][1], s[i][2]>>
                /\ s[i][1] \in Messages /\ s[i][2] \in Nat
                /\ FrameSize(s[i][1]) \in Nat
<1>1. Len(s) \in Nat
  BY LenProperties
<1>2. ASSUME NEW i \in 1..Len(s)
      PROVE  /\ s[i] = <<s[i][1], s[i][2]>>
             /\ s[i][1] \in Messages /\ s[i][2] \in Nat
    BY ElementOfSeq DEF Cells
<1>3. ASSUME NEW i \in 1..Len(s) PROVE FrameSize(s[i][1]) \in Nat
  <2>1. s[i][1] \in Messages
    BY <1>2
  <2> QED BY <2>1, FramingAssumption DEF FrameSize
<1> QED BY <1>1, <1>2, <1>3

\* A frame has a header.
LEMMA FrameSizes ==
    ASSUME NEW m \in Messages
    PROVE  /\ Size[m] \in Nat /\ HeaderSize \in Nat /\ HeaderSize > 0
           /\ FrameSize(m) \in Nat /\ FrameSize(m) = HeaderSize + Size[m]
BY FramingAssumption DEF FrameSize

\* A part of a piece is a piece.
LEMMA SubPiece ==
    ASSUME NEW q, NEW s \in Seq(Cells), NEW a \in 1..(Len(s) + 1), NEW b \in 0..Len(s)
    PROVE  LET t == SubSeq(s, a, b)
           IN  /\ t \in Seq(Cells)
               /\ Len(t) = IF a <= b THEN b - a + 1 ELSE 0
               /\ \A i \in 1..Len(t) : t[i] = s[a + i - 1] /\ a + i - 1 \in 1..Len(s)
               /\ NoGap(s) => NoGap(t)
               /\ Linked(q, s) => Linked(q, t)
               /\ OneWrite(s) => OneWrite(t)
<1> DEFINE t == SubSeq(s, a, b)
<1>1. Len(s) \in Nat /\ a \in Int /\ b \in Int /\ a >= 1 /\ b <= Len(s)
  BY LenProperties
<1>2. \A i \in a..b : s[i] \in Cells
  <2>1. \A i \in a..b : i \in 1..Len(s)
    BY <1>1
  <2> QED BY <2>1, ElementOfSeq
<1>3. /\ t \in Seq(Cells)
      /\ Len(t) = IF a <= b THEN b - a + 1 ELSE 0
      /\ \A i \in 1..(b - a + 1) : t[i] = s[a + i - 1]
  BY <1>1, <1>2, SubSeqProperties
<1> HIDE DEF t
<1>4. \A i \in 1..Len(t) : i \in 1..(b - a + 1) /\ a + i - 1 \in 1..Len(s)
  BY <1>1, <1>3
<1>5. \A i \in 1..Len(t) : t[i] = s[a + i - 1] /\ a + i - 1 \in 1..Len(s)
  BY <1>3, <1>4
<1>6. ASSUME NoGap(s) PROVE NoGap(t)
  <2> SUFFICES ASSUME NEW i \in 1..Len(t), NEW j \in 1..Len(t), i <= j,
                      t[i][2] + (j - i) <= FrameSize(t[i][1])
               PROVE  t[j] = <<t[i][1], t[i][2] + (j - i)>>
    BY DEF NoGap
  <2>1. /\ t[i] = s[a + i - 1] /\ a + i - 1 \in 1..Len(s)
        /\ t[j] = s[a + j - 1] /\ a + j - 1 \in 1..Len(s)
    BY <1>5
  <2>2. Len(t) \in Nat
    BY <1>3, LenProperties
  <2>3. a + i - 1 <= a + j - 1 /\ (a + j - 1) - (a + i - 1) = j - i
    BY <1>1, <2>2
  <2> QED BY <1>6, <2>1, <2>3 DEF NoGap
<1>7. ASSUME Linked(q, s) PROVE Linked(q, t)
  <2> SUFFICES ASSUME NEW i \in 1..Len(t), NEW j \in 1..Len(t), j = i + 1
               PROVE  Follows(q, t[i], t[j])
    BY DEF Linked
  <2>1. /\ t[i] = s[a + i - 1] /\ a + i - 1 \in 1..Len(s)
        /\ t[j] = s[a + j - 1] /\ a + j - 1 \in 1..Len(s)
    BY <1>5
  <2>2. a + j - 1 = (a + i - 1) + 1
    BY <1>1
  <2> QED BY <1>7, <2>1, <2>2 DEF Linked
<1>8. ASSUME OneWrite(s) PROVE OneWrite(t)
  <2> SUFFICES ASSUME NEW i \in 1..Len(t), NEW j \in 1..Len(t)
               PROVE  /\ t[i][1] = t[j][1]
                      /\ t[i][2] <= HeaderSize => t[j][2] <= HeaderSize
    BY DEF OneWrite
  <2>1. /\ t[i] = s[a + i - 1] /\ a + i - 1 \in 1..Len(s)
        /\ t[j] = s[a + j - 1] /\ a + j - 1 \in 1..Len(s)
    BY <1>5
  <2> QED BY <1>8, <2>1 DEF OneWrite
<1> QED BY <1>3, <1>5, <1>6, <1>7, <1>8 DEF t

\* The first cells of a piece at which the reader is are those it wants, and
\* what comes after them is what it wants then.
LEMMA Taking ==
    ASSUME NEW q \in Seq(Messages), Distinct(q),
           NEW s \in Seq(Cells), NoGap(s), NEW n \in 1..Len(s),
           NEW k, NEW j \in Nat, IsNext(q, k, j, s[1]), j + n <= FrameSize(q[k])
    PROVE  /\ \A i \in 1..n : s[i] = <<q[k], j + i>>
           /\ \A d : Follows(q, s[n], d) => IsNext(q, k, j + n, d)
<1>1. k \in 1..Len(q) /\ q[k] \in Messages
  BY ElementOfSeq DEF IsNext
<1>2. FrameSize(q[k]) \in Nat /\ n \in Nat /\ n >= 1 /\ Len(s) \in Nat /\ n <= Len(s)
  BY <1>1, FrameSizes, LenProperties
<1>3. j < FrameSize(q[k])
  BY <1>2
<1>4. s[1] = <<q[k], j + 1>>
  BY <1>2, <1>3 DEF IsNext
<1>5. ASSUME NEW i \in 1..n PROVE s[i] = <<q[k], j + i>>
  <2>1. 1 \in 1..Len(s) /\ i \in 1..Len(s) /\ 1 <= i
    BY <1>2
  <2>2. s[1][1] = q[k] /\ s[1][2] = j + 1
    BY <1>4
  <2>3. s[1][2] + (i - 1) <= FrameSize(s[1][1])
    BY <1>2, <2>2
  <2>4. s[i] = <<s[1][1], s[1][2] + (i - 1)>>
    BY <2>1, <2>3 DEF NoGap
  <2>5. (j + 1) + (i - 1) = j + i
    BY <1>2
  <2> QED BY <2>2, <2>4, <2>5
<1>6. ASSUME NEW d, Follows(q, s[n], d) PROVE IsNext(q, k, j + n, d)
  <2>1. s[n] = <<q[k], j + n>>
    BY <1>2, <1>5
  <2>2. PICK l \in 1..Len(q) : s[n][1] = q[l] /\ IsNext(q, l, s[n][2], d)
    BY <1>6 DEF Follows
  <2>3. l = k /\ s[n][2] = j + n
    BY <1>1, <2>1, <2>2 DEF Distinct
  <2> QED BY <2>2, <2>3
<1> QED BY <1>5, <1>6

\* A frame begun later changes nothing for the cells before it.
LEMMA MoreFrames ==
    ASSUME NEW q \in Seq(Messages), NEW m \in Messages
    PROVE  /\ \A k, j, d : IsNext(q, k, j, d) => IsNext(Append(q, m), k, j, d)
           /\ \A c, d : Follows(q, c, d) => Follows(Append(q, m), c, d)
           /\ \A s : Linked(q, s) => Linked(Append(q, m), s)
<1> DEFINE r == Append(q, m)
<1>1. /\ Len(q) \in Nat /\ Len(r) = Len(q) + 1
      /\ \A i \in 1..Len(q) : r[i] = q[i]
  BY AppendProperties, LenProperties
<1> HIDE DEF r
<1>2. ASSUME NEW k, NEW j, NEW d, IsNext(q, k, j, d) PROVE IsNext(r, k, j, d)
  <2>1. k \in 1..Len(q) /\ k \in 1..Len(r) /\ r[k] = q[k]
    BY <1>1, <1>2 DEF IsNext
  <2>2. k + 1 <= Len(q) => k + 1 <= Len(r) /\ r[k + 1] = q[k + 1]
    BY <1>1, <2>1
  <2> QED BY <1>2, <2>1, <2>2 DEF IsNext
<1>3. ASSUME NEW c, NEW d, Follows(q, c, d) PROVE Follows(r, c, d)
  <2>1. PICK k \in 1..Len(q) : c[1] = q[k] /\ IsNext(q, k, c[2], d)
    BY <1>3 DEF Follows
  <2>2. k \in 1..Len(r) /\ r[k] = q[k] /\ IsNext(r, k, c[2], d)
    BY <1>1, <1>2, <2>1
  <2> QED BY <2>1, <2>2 DEF Follows
<1>4. ASSUME NEW s, Linked(q, s) PROVE Linked(r, s)
  BY <1>3, <1>4 DEF Linked
<1> QED BY <1>2, <1>3, <1>4 DEF r

\* Two pieces, one following the other, make one.
LEMMA JoinPieces ==
    ASSUME NEW q \in Seq(Messages), NEW s \in Seq(Cells), NEW t \in Seq(Cells),
           s # <<>>, t # <<>>, NoGap(s), NoGap(t), Linked(q, s), Linked(q, t),
           Follows(q, Last(s), t[1])
    PROVE  /\ s \o t \in Seq(Cells) /\ s \o t # <<>>
           /\ (s \o t)[1] = s[1] /\ Last(s \o t) = Last(t)
           /\ NoGap(s \o t) /\ Linked(q, s \o t)
<1> DEFINE u == s \o t
           n == Len(s)
<1>1. /\ n \in Nat /\ n >= 1 /\ Len(t) \in Nat /\ Len(t) >= 1
  BY LenProperties, EmptySeq
<1>2. /\ u \in Seq(Cells) /\ Len(u) = n + Len(t)
      /\ \A i \in 1..(n + Len(t)) : u[i] = IF i <= n THEN s[i] ELSE t[i - n]
  BY ConcatProperties
<1> HIDE DEF u, n
<1>3. u # <<>>
  BY <1>1, <1>2, EmptySeq
<1>4. \A i \in 1..n : u[i] = s[i] /\ i \in 1..Len(s)
  BY <1>1, <1>2 DEF n
<1>5. \A i \in 1..Len(t) : u[n + i] = t[i]
  <2>1. ASSUME NEW i \in 1..Len(t) PROVE u[n + i] = t[i]
    <3>1. n + i \in 1..(n + Len(t)) /\ ~(n + i <= n) /\ (n + i) - n = i
      BY <1>1
    <3> QED BY <1>2, <3>1
  <2> QED BY <2>1
<1>6. \A i \in 1..Len(u) : i \in 1..n \/ \E j \in 1..Len(t) : i = n + j
  <2>1. ASSUME NEW i \in 1..Len(u), i \notin 1..n PROVE \E j \in 1..Len(t) : i = n + j
    <3>1. i - n \in 1..Len(t) /\ i = n + (i - n)
      BY <1>1, <1>2, <2>1
    <3> QED BY <3>1
  <2> QED BY <2>1
<1>7. u[1] = s[1] /\ Last(u) = Last(t)
  <2>1. 1 \in 1..n /\ Len(t) \in 1..Len(t)
    BY <1>1
  <2> QED BY <1>2, <1>4, <1>5, <2>1 DEF Last
<1>8. /\ \A i \in 1..n : s[i] = <<s[i][1], s[i][2]>> /\ s[i][2] \in Nat /\ FrameSize(s[i][1]) \in Nat
      /\ \A i \in 1..Len(t) : t[i] = <<t[i][1], t[i][2]>> /\ t[i][2] \in Nat
                              /\ FrameSize(t[i][1]) \in Nat
  BY CellFacts DEF n
<1>9. ASSUME NEW i \in 1..n, NEW j \in 1..Len(t),
             s[i][2] + ((n + j) - i) <= FrameSize(s[i][1])
      PROVE  t[j] = <<s[i][1], s[i][2] + ((n + j) - i)>>
  <2> DEFINE m == s[i][1]
             y == s[i][2] + (n - i)
  <2>1. s[i][2] \in Nat /\ FrameSize(m) \in Nat
    BY <1>8
  <2>2. y \in Nat /\ y < FrameSize(m) /\ n \in 1..n /\ i <= n /\ y <= FrameSize(m)
    BY <1>1, <1>9, <2>1
  <2>3. s[n] = <<m, y>>
    BY <2>2 DEF NoGap, n
  <2>4. PICK k \in 1..Len(q) : s[n][1] = q[k] /\ IsNext(q, k, s[n][2], t[1])
    BY DEF Follows, Last, n
  <2>5. q[k] = m /\ s[n][2] = y
    BY <2>3, <2>4
  <2>6. t[1] = <<m, y + 1>>
    <3> HIDE DEF y, m
    <3> QED BY <2>1, <2>2, <2>4, <2>5 DEF IsNext
  <2>7. 1 \in 1..Len(t) /\ 1 <= j
    BY <1>1
  <2>8. t[1][1] = m /\ t[1][2] = y + 1
    BY <2>6
  <2>9. (y + 1) + (j - 1) = s[i][2] + ((n + j) - i)
    <3>1. \A z \in Nat : ((z + (n - i)) + 1) + (j - 1) = z + ((n + j) - i)
      BY <1>1
    <3> QED BY <2>1, <3>1
  <2>10. t[j] = <<t[1][1], t[1][2] + (j - 1)>>
    <3>1. t[1][2] + (j - 1) <= FrameSize(t[1][1])
      BY <1>9, <2>8, <2>9
    <3> QED BY <2>7, <3>1 DEF NoGap
  <2> QED BY <2>8, <2>9, <2>10
<1>10. NoGap(u)
  <2> SUFFICES ASSUME NEW i \in 1..Len(u), NEW j \in 1..Len(u), i <= j,
                      u[i][2] + (j - i) <= FrameSize(u[i][1])
               PROVE  u[j] = <<u[i][1], u[i][2] + (j - i)>>
    BY DEF NoGap
  <2>1. CASE i \in 1..n /\ j \in 1..n
    BY <1>4, <2>1 DEF NoGap
  <2>2. CASE i \in 1..n /\ j \notin 1..n
    <3>1. PICK l \in 1..Len(t) : j = n + l
      BY <1>6, <2>2
    <3>2. u[i] = s[i] /\ u[j] = t[l]
      BY <1>4, <1>5, <2>2, <3>1
    <3> QED BY <1>9, <2>2, <3>1, <3>2
  <2>3. CASE i \notin 1..n
    <3>1. PICK l \in 1..Len(t) : i = n + l
      BY <1>6, <2>3
    <3>2. j \notin 1..n
      BY <1>1, <1>2, <2>3
    <3>3. PICK h \in 1..Len(t) : j = n + h
      BY <1>6, <3>2
    <3>4. u[i] = t[l] /\ u[j] = t[h] /\ l <= h /\ j - i = h - l
      BY <1>1, <1>5, <3>1, <3>3
    <3> QED BY <3>4 DEF NoGap
  <2> QED BY <2>1, <2>2, <2>3
<1>11. Linked(q, u)
  <2> SUFFICES ASSUME NEW i \in 1..Len(u), NEW j \in 1..Len(u), j = i + 1
               PROVE  Follows(q, u[i], u[j])
    BY DEF Linked
  <2>1. CASE i \in 1..n /\ j \in 1..n
    BY <1>4, <2>1 DEF Linked
  <2>2. CASE i \in 1..n /\ j \notin 1..n
    <3>1. i = n /\ j = n + 1 /\ 1 \in 1..Len(t)
      BY <1>1, <1>2, <2>2
    <3>2. u[i] = Last(s) /\ u[j] = t[1]
      BY <1>4, <1>5, <2>2, <3>1 DEF Last, n
    <3> QED BY <3>2
  <2>3. CASE i \notin 1..n
    <3>1. PICK l \in 1..Len(t) : i = n + l
      BY <1>6, <2>3
    <3>2. j \notin 1..n
      BY <1>1, <1>2, <2>3
    <3>3. PICK h \in 1..Len(t) : j = n + h
      BY <1>6, <3>2
    <3>4. u[i] = t[l] /\ u[j] = t[h] /\ h = l + 1
      BY <1>1, <1>5, <3>1, <3>3
    <3> QED BY <3>4 DEF Linked
  <2> QED BY <2>1, <2>2, <2>3
<1> QED BY <1>2, <1>3, <1>7, <1>10, <1>11 DEF u

\* What one Write writes: n cells of the frame of m, after the first b.
Cellular(m, b, n) == [i \in 1..n |-> <<m, b + i>>]

LEMMA WrittenPiece ==
    ASSUME NEW q \in Seq(Messages), NEW m \in Messages, NEW k \in 1..Len(q), q[k] = m,
           NEW b \in Nat, NEW n \in Nat \ {0},
           b + n <= FrameSize(m), b + n <= HeaderSize \/ b >= HeaderSize
    PROVE  /\ Cellular(m, b, n) \in Seq(Cells) /\ Cellular(m, b, n) # <<>>
           /\ Len(Cellular(m, b, n)) = n
           /\ Cellular(m, b, n)[1] = <<m, b + 1>> /\ Last(Cellular(m, b, n)) = <<m, b + n>>
           /\ NoGap(Cellular(m, b, n)) /\ Linked(q, Cellular(m, b, n))
           /\ OneWrite(Cellular(m, b, n))
<1> DEFINE s == Cellular(m, b, n)
<1>2. FrameSize(m) \in Nat /\ HeaderSize \in Nat
  BY FrameSizes
<1>3. s \in [1..n -> Cells] /\ \A i \in 1..n : s[i] = <<m, b + i>>
  BY DEF Cellular, Cells
<1>4. s \in Seq(Cells) /\ Len(s) = n
  BY <1>3, LenProperties
<1> HIDE DEF s
<1>5. s # <<>> /\ s[1] = <<m, b + 1>> /\ Last(s) = <<m, b + n>>
  <2>1. 1 \in 1..n /\ n \in 1..n
    OBVIOUS
  <2>2. s # <<>>
    BY <1>4, EmptySeq
  <2> QED BY <1>3, <1>4, <2>1, <2>2 DEF Last
<1>6. NoGap(s)
  <2> SUFFICES ASSUME NEW i \in 1..n, NEW j \in 1..n
               PROVE  s[j] = <<s[i][1], s[i][2] + (j - i)>>
    BY <1>4 DEF NoGap
  <2>1. s[i][1] = m /\ s[i][2] = b + i /\ s[j] = <<m, b + j>>
    BY <1>3
  <2>2. (b + i) + (j - i) = b + j
    OBVIOUS
  <2> QED BY <2>1, <2>2
<1>7. Linked(q, s)
  <2> SUFFICES ASSUME NEW i \in 1..n, NEW j \in 1..n, j = i + 1
               PROVE  Follows(q, s[i], s[j])
    BY <1>4 DEF Linked
  <2>1. s[i][1] = m /\ s[i][2] = b + i /\ s[j] = <<m, (b + i) + 1>>
    <3>1. b + j = (b + i) + 1
      OBVIOUS
    <3> QED BY <1>3, <3>1
  <2>2. b + i < FrameSize(m)
    BY <1>2
  <2>3. IsNext(q, k, b + i, s[j])
    BY <2>1, <2>2 DEF IsNext
  <2> QED BY <2>1, <2>3 DEF Follows
<1>8. OneWrite(s)
  <2> SUFFICES ASSUME NEW i \in 1..n, NEW j \in 1..n
               PROVE  s[i][1] = s[j][1] /\ (s[i][2] <= HeaderSize => s[j][2] <= HeaderSize)
    BY <1>4 DEF OneWrite
  <2>1. s[i][1] = m /\ s[i][2] = b + i /\ s[j][1] = m /\ s[j][2] = b + j
    BY <1>3
  <2>2. b + i <= HeaderSize => b + j <= HeaderSize
    BY <1>2
  <2> QED BY <2>1, <2>2
<1> QED BY <1>4, <1>5, <1>6, <1>7, <1>8 DEF s

\* The cells of a header and of a body.
LEMMA WhatIsWritten ==
    ASSUME NEW m \in Messages
    PROVE  /\ Header(m) = Cellular(m, 0, HeaderSize) /\ Header(m) \in Seq(Cells)
           /\ Len(Header(m)) = HeaderSize
           /\ Header(m) # <<>> /\ Header(m)[1] = <<m, 1>>
           /\ Body(m) = Cellular(m, HeaderSize, Size[m]) /\ Body(m) \in Seq(Cells)
           /\ Len(Body(m)) = Size[m]
           /\ Body(m) = <<>> <=> Size[m] = 0
<1>1. Size[m] \in Nat /\ HeaderSize \in Nat /\ HeaderSize > 0
  BY FrameSizes
<1>2. Header(m) = Cellular(m, 0, HeaderSize) /\ Body(m) = Cellular(m, HeaderSize, Size[m])
  BY <1>1 DEF Header, Body, Cellular
<1>3. Header(m) \in Seq(Cells) /\ Len(Header(m)) = HeaderSize /\ Header(m)[1] = <<m, 1>>
  BY <1>1 DEF Header, Cells
<1>4. Body(m) \in Seq(Cells) /\ Len(Body(m)) = Size[m]
  BY <1>1 DEF Body, Cells
<1>5. Header(m) # <<>>
  BY <1>1, <1>3, EmptySeq
<1>6. Body(m) = <<>> <=> Size[m] = 0
  BY <1>1, <1>4, EmptySeq
<1> QED BY <1>2, <1>3, <1>4, <1>5, <1>6

Pieces == Seq(Cells) \ {<<>>}

\* What is left in transit when n cells of the first piece have been read.
Rest(tr, n) ==
    IF n = Len(Head(tr)) THEN Tail(tr)
    ELSE <<SubSeq(Head(tr), n + 1, Len(Head(tr)))>> \o Tail(tr)

LEMMA RestFacts ==
    ASSUME NEW tr \in Seq(Pieces), tr # <<>>, NEW n \in 1..Len(Head(tr))
    PROVE  /\ Head(tr) = tr[1] /\ tr[1] \in Seq(Cells) /\ Len(tr[1]) \in Nat
           /\ Len(tr) \in Nat /\ Len(tr) >= 1
           /\ Rest(tr, n) \in Seq(Pieces)
           /\ n = Len(tr[1]) => /\ Len(Rest(tr, n)) = Len(tr) - 1
                                /\ \A p \in 1..Len(Rest(tr, n)) : Rest(tr, n)[p] = tr[p + 1]
           /\ n < Len(tr[1]) => /\ Len(Rest(tr, n)) = Len(tr)
                                /\ Rest(tr, n)[1] = SubSeq(tr[1], n + 1, Len(tr[1]))
                                /\ \A p \in 2..Len(tr) : Rest(tr, n)[p] = tr[p]
<1> DEFINE h == tr[1]
           t == Tail(tr)
           s == SubSeq(h, n + 1, Len(h))
<1>1. Len(tr) \in Nat /\ Len(tr) >= 1
  BY LenProperties, EmptySeq
<1>2. Head(tr) = h
  BY <1>1
<1>3. h \in Pieces
  BY <1>1, ElementOfSeq
<1>4. h \in Seq(Cells) /\ Len(h) \in Nat
  BY <1>3, LenProperties DEF Pieces
<1>5. /\ t \in Seq(Pieces) /\ Len(t) = Len(tr) - 1
      /\ \A p \in 1..Len(t) : t[p] = tr[p + 1]
  BY HeadTailProperties
<1>6. ASSUME n < Len(h) PROVE s \in Pieces
  <2>1. n + 1 \in 1..(Len(h) + 1) /\ Len(h) \in 0..Len(h) /\ n + 1 <= Len(h)
    BY <1>2, <1>4, <1>6
  <2>2. s \in Seq(Cells) /\ Len(s) = Len(h) - (n + 1) + 1
    BY <1>4, <2>1, SubPiece
  <2>3. Len(s) # 0
    BY <1>2, <1>4, <2>1, <2>2
  <2> QED BY <2>2, <2>3, EmptySeq DEF Pieces
<1> HIDE DEF h, t, s
<1>7. CASE n = Len(h)
  <2>1. Rest(tr, n) = t
    BY <1>2, <1>7 DEF Rest, t
  <2>2. ~(n < Len(h))
    BY <1>4, <1>7
  <2> QED BY <1>1, <1>2, <1>4, <1>5, <2>1, <2>2 DEF h
<1>8. CASE n < Len(h)
  <2>0. n # Len(h)
    BY <1>4, <1>8
  <2>1. Rest(tr, n) = <<s>> \o t
    BY <1>2, <2>0 DEF Rest, t, s
  <2>2. s \in Pieces
    BY <1>6, <1>8
  <2>3. <<s>> \in Seq(Pieces) /\ Len(<<s>>) = 1 /\ <<s>>[1] = s
    BY <2>2
  <2>4. /\ <<s>> \o t \in Seq(Pieces) /\ Len(<<s>> \o t) = 1 + Len(t)
        /\ \A i \in 1..(1 + Len(t)) : (<<s>> \o t)[i] = IF i <= 1 THEN <<s>>[i] ELSE t[i - 1]
    BY <1>5, <2>3, ConcatProperties
  <2>5. Len(<<s>> \o t) = Len(tr)
    BY <1>1, <1>5, <2>4
  <2>6. (<<s>> \o t)[1] = s
    <3>1. 1 \in 1..(1 + Len(t)) /\ 1 <= 1
      BY <1>1, <1>5
    <3> QED BY <2>3, <2>4, <3>1
  <2>7. ASSUME NEW p \in 2..Len(tr) PROVE (<<s>> \o t)[p] = tr[p]
    <3>1. p \in 1..(1 + Len(t)) /\ ~(p <= 1) /\ p - 1 \in 1..Len(t) /\ (p - 1) + 1 = p
      BY <1>1, <1>5
    <3> QED BY <1>5, <2>4, <3>1
  <2> QED BY <1>1, <1>2, <1>4, <2>0, <2>1, <2>4, <2>5, <2>6, <2>7 DEF h, s
<1> QED BY <1>2, <1>4, <1>7, <1>8

-------------------------------------------------------------------------------
(* What the writer and the reader do to the stream                         *)

\* A stream in which nothing is missing stays so when a frame is begun.
LEMMA StreamMore ==
    ASSUME NEW q \in Seq(Messages), NEW m \in Messages, NEW b, NEW tr, Stream(q, b, tr)
    PROVE  Stream(Append(q, m), b, tr)
BY MoreFrames DEF Stream

\* A Write adds a piece.
LEMMA StreamAppend ==
    ASSUME NEW q \in Seq(Messages), NEW b \in Seq(Cells), NEW tr \in Seq(Pieces),
           NEW c \in Pieces, NEW k, NEW j,
           Stream(q, b, tr), Front(q, k, j, b, tr), NoGap(c), Linked(q, c),
           tr # <<>> => Follows(q, Last(Last(tr)), c[1]),
           tr = <<>> /\ b # <<>> => Follows(q, Last(b), c[1]),
           tr = <<>> /\ b = <<>> => IsNext(q, k, j, c[1])
    PROVE  /\ Stream(q, b, Append(tr, c))
           /\ Front(q, k, j, b, Append(tr, c))
           /\ Last(Last(Append(tr, c))) = Last(c)
<1> DEFINE u == Append(tr, c)
           n == Len(tr)
<1>1. /\ n \in Nat /\ Len(u) = n + 1 /\ u[n + 1] = c /\ u # <<>>
      /\ \A p \in 1..n : u[p] = tr[p]
  BY AppendProperties, LenProperties
<1>2. tr = <<>> <=> n = 0
  BY EmptySeq
<1> HIDE DEF u, n
<1>3. Last(u) = c
  BY <1>1 DEF Last
<1>4. tr # <<>> => 1 \in 1..n /\ u[1] = tr[1] /\ n \in 1..n /\ Last(tr) = tr[n]
  BY <1>1, <1>2 DEF Last, n
<1>5. tr = <<>> => u[1] = c
  BY <1>1, <1>2
<1>6. \A p \in 1..Len(u) : p \in 1..n \/ p = n + 1
  BY <1>1
<1>7. \A p \in 1..Len(u) : NoGap(u[p]) /\ Linked(q, u[p])
  BY <1>1, <1>6 DEF Stream, n
<1>8. ASSUME NEW p \in 1..Len(u), NEW r \in 1..Len(u), r = p + 1
      PROVE  Follows(q, Last(u[p]), u[r][1])
  <2>1. p \in 1..n
    BY <1>1, <1>8
  <2>2. CASE r \in 1..n
    BY <1>1, <1>8, <2>1, <2>2 DEF Stream, n
  <2>3. CASE r = n + 1
    <3>1. p = n /\ tr # <<>> /\ u[r] = c /\ u[p] = Last(tr)
      BY <1>1, <1>2, <1>8, <2>1, <2>3 DEF Last, n
    <3> QED BY <3>1
  <2> QED BY <1>6, <2>2, <2>3
<1>9. b # <<>> => Follows(q, Last(b), u[1][1])
  BY <1>4, <1>5 DEF Stream
<1>10. Stream(q, b, u)
  BY <1>7, <1>8, <1>9 DEF Stream
<1>11. Front(q, k, j, b, u)
  BY <1>4, <1>5 DEF Front
<1> QED BY <1>3, <1>10, <1>11 DEF u

\* A Write makes the only piece longer.
LEMMA StreamJoin ==
    ASSUME NEW q \in Seq(Messages), NEW b \in Seq(Cells), NEW tr \in Seq(Pieces),
           Len(tr) = 1, tr # <<>>, NEW c \in Pieces, NEW k, NEW j,
           Stream(q, b, tr), Front(q, k, j, b, tr), NoGap(c), Linked(q, c),
           Follows(q, Last(Last(tr)), c[1])
    PROVE  /\ Stream(q, b, <<tr[1] \o c>>)
           /\ Front(q, k, j, b, <<tr[1] \o c>>)
           /\ Last(Last(<<tr[1] \o c>>)) = Last(c)
<1> DEFINE h == tr[1]
           u == <<h \o c>>
<1>1. 1 \in 1..Len(tr) /\ Last(tr) = h
  BY DEF Last
<1>2. h \in Pieces
  BY <1>1, ElementOfSeq
<1>3. h \in Seq(Cells) /\ h # <<>> /\ c \in Seq(Cells) /\ c # <<>>
  BY <1>2 DEF Pieces
<1>4. NoGap(h) /\ Linked(q, h)
  BY <1>1 DEF Stream
<1> HIDE DEF h
<1>5. (h \o c)[1] = h[1] /\ Last(h \o c) = Last(c) /\ NoGap(h \o c) /\ Linked(q, h \o c)
  BY <1>1, <1>3, <1>4, JoinPieces
<1>6. Len(u) = 1 /\ u[1] = h \o c /\ u # <<>> /\ Last(u) = h \o c
  BY DEF Last
<1> HIDE DEF u
<1>7. Stream(q, b, u)
  <2>1. \A p \in 1..Len(u) : u[p] = h \o c
    BY <1>6
  <2>2. \A p, r \in 1..Len(u) : r # p + 1
    BY <1>6
  <2> QED BY <1>1, <1>5, <1>6, <2>1, <2>2 DEF Stream, h
<1>8. Front(q, k, j, b, u)
  BY <1>1, <1>5, <1>6 DEF Front, h
<1> QED BY <1>5, <1>6, <1>7, <1>8 DEF u, h

\* What one Write does to what is in transit.
Pushed(keeps, tr, c) ==
    IF keeps \/ tr = <<>> THEN Append(tr, c) ELSE <<Head(tr) \o c>>

LEMMA StreamWrite ==
    ASSUME NEW q \in Seq(Messages), NEW b \in Seq(Cells), NEW tr \in Seq(Pieces),
           NEW keeps \in BOOLEAN, keeps \/ Len(tr) <= 1, NEW c \in Pieces, NEW k, NEW j,
           Stream(q, b, tr), Front(q, k, j, b, tr), NoGap(c), Linked(q, c), OneWrite(c),
           tr # <<>> => Follows(q, Last(Last(tr)), c[1]),
           tr = <<>> /\ b # <<>> => Follows(q, Last(b), c[1]),
           tr = <<>> /\ b = <<>> => IsNext(q, k, j, c[1])
    PROVE  LET u == Pushed(keeps, tr, c)
           IN  /\ Stream(q, b, u) /\ Front(q, k, j, b, u)
               /\ u # <<>> /\ Last(Last(u)) = Last(c)
               /\ ~keeps => Len(u) <= 1
               /\ keeps /\ (\A p \in 1..Len(tr) : OneWrite(tr[p])) =>
                    \A p \in 1..Len(u) : OneWrite(u[p])
<1>1. CASE keeps \/ tr = <<>>
  <2> DEFINE u == Append(tr, c)
  <2>1. Pushed(keeps, tr, c) = u
    BY <1>1 DEF Pushed
  <2>2. Stream(q, b, u) /\ Front(q, k, j, b, u) /\ Last(Last(u)) = Last(c)
    BY StreamAppend
  <2>3. /\ Len(tr) \in Nat /\ Len(u) = Len(tr) + 1 /\ u[Len(tr) + 1] = c /\ u # <<>>
        /\ \A p \in 1..Len(tr) : u[p] = tr[p]
    BY AppendProperties, LenProperties
  <2>4. tr = <<>> => Len(tr) = 0
    BY EmptySeq
  <2> HIDE DEF u
  <2>5. ~keeps => Len(u) <= 1
    BY <1>1, <2>3, <2>4
  <2>6. \A p \in 1..Len(u) : p \in 1..Len(tr) \/ p = Len(tr) + 1
    BY <2>3
  <2>7. (\A p \in 1..Len(tr) : OneWrite(tr[p])) => \A p \in 1..Len(u) : OneWrite(u[p])
    BY <2>3, <2>6
  <2> QED BY <2>1, <2>2, <2>3, <2>5, <2>7
<1>2. CASE ~keeps /\ tr # <<>>
  <2> DEFINE u == <<tr[1] \o c>>
  <2>1. Len(tr) \in Nat /\ Len(tr) # 0
    BY <1>2, LenProperties, EmptySeq
  <2>2. Len(tr) = 1
    <3>1. Len(tr) <= 1
      BY <1>2, Zenon
    <3>2. \A z \in Nat : z # 0 /\ z <= 1 => z = 1
      OBVIOUS
    <3> QED BY <2>1, <3>1, <3>2, Zenon
  <2>3. Head(tr) = tr[1]
    BY <2>1
  <2>4. Pushed(keeps, tr, c) = u
    BY <1>2, <2>3 DEF Pushed
  <2>5. Stream(q, b, u) /\ Front(q, k, j, b, u) /\ Last(Last(u)) = Last(c)
    BY <1>2, <2>2, StreamJoin
  <2>6. Len(u) <= 1 /\ u # <<>>
    OBVIOUS
  <2> HIDE DEF u
  <2> QED BY <1>2, <2>4, <2>5, <2>6
<1> QED BY <1>1, <1>2

\* The header of a new frame follows what was written before it.
LEMMA StreamHeader ==
    ASSUME NEW q \in Seq(Messages), NEW m \in Messages,
           NEW b \in Seq(Cells), NEW tr \in Seq(Pieces),
           NEW keeps \in BOOLEAN, keeps \/ Len(tr) <= 1, NEW k \in Nat \ {0}, NEW j \in Nat, NEW x,
           Stream(q, b, tr), Front(q, k, j, b, tr), Back(q, x, k, j, b, tr),
           q # <<>> => x = FrameSize(Last(q))
    PROVE  LET r == Append(q, m)
               u == Pushed(keeps, tr, Header(m))
           IN  /\ Stream(r, b, u) /\ Front(r, k, j, b, u) /\ Back(r, HeaderSize, k, j, b, u)
               /\ ~keeps => Len(u) <= 1
               /\ keeps /\ (\A p \in 1..Len(tr) : OneWrite(tr[p])) =>
                    \A p \in 1..Len(u) : OneWrite(u[p])
<1> DEFINE r == Append(q, m)
           n == Len(q)
           c == Header(m)
           u == Pushed(keeps, tr, c)
<1>1. /\ r \in Seq(Messages) /\ n \in Nat /\ Len(r) = n + 1 /\ r[n + 1] = m
      /\ \A i \in 1..n : r[i] = q[i]
  BY AppendProperties, LenProperties
<1>2. (q = <<>> <=> n = 0) /\ r # <<>>
  BY <1>1, EmptySeq
<1>3. Stream(r, b, tr) /\ Front(r, k, j, b, tr)
  BY StreamMore, MoreFrames DEF Front
<1>4. /\ c = Cellular(m, 0, HeaderSize) /\ c \in Pieces /\ c[1] = <<m, 1>>
  BY WhatIsWritten DEF Pieces
<1>5. HeaderSize \in Nat /\ HeaderSize > 0 /\ FrameSize(m) = HeaderSize + Size[m] /\ Size[m] \in Nat
  BY FrameSizes
<1> HIDE DEF r, n, c
<1>6. Last(r) = m /\ n + 1 \in 1..Len(r)
  BY <1>1 DEF Last
<1>7. Last(c) = <<m, HeaderSize>> /\ NoGap(c) /\ Linked(r, c) /\ OneWrite(c)
  <2>1. 0 \in Nat /\ HeaderSize \in Nat \ {0} /\ 0 + HeaderSize <= FrameSize(m)
        /\ 0 + HeaderSize <= HeaderSize /\ 0 + HeaderSize = HeaderSize
    BY <1>5
  <2>2. r[n + 1] = m
    BY <1>1
  <2> QED BY <1>1, <1>4, <1>6, <2>1, <2>2, WrittenPiece
<1>8. ASSUME q # <<>> PROVE n \in 1..n /\ n \in 1..Len(r) /\ r[n] = Last(q) /\ IsNext(r, n, x, c[1])
  <2>1. n \in 1..n /\ n \in 1..Len(r)
    BY <1>1, <1>2, <1>8
  <2>2. r[n] = Last(q)
    BY <1>1, <2>1 DEF Last, n
  <2>3. n + 1 <= Len(r)
    BY <1>1
  <2> QED BY <1>1, <1>4, <1>8, <2>1, <2>2, <2>3 DEF IsNext
<1>9. ASSUME NEW d, q # <<>>, d = <<Last(q), x>> PROVE Follows(r, d, c[1])
  BY <1>8, <1>9 DEF Follows
<1>10. tr # <<>> => Follows(r, Last(Last(tr)), c[1])
  BY <1>9 DEF Back
<1>11. tr = <<>> /\ b # <<>> => Follows(r, Last(b), c[1])
  BY <1>9 DEF Back
<1>12. ASSUME tr = <<>>, b = <<>> PROVE IsNext(r, k, j, c[1])
  <2>1. CASE k = n /\ j = x
    <3>1. q # <<>>
      BY <1>2, <2>1
    <3> QED BY <1>8, <2>1, <3>1
  <2>2. CASE k = n + 1 /\ j = 0
    <3>1. 0 < FrameSize(m) /\ 0 + 1 = 1
      BY <1>5
    <3> QED BY <1>1, <1>4, <1>6, <2>2, <3>1 DEF IsNext
  <2> QED BY <1>12, <2>1, <2>2 DEF Back, n
<1>13. /\ Stream(r, b, u) /\ Front(r, k, j, b, u) /\ u # <<>> /\ Last(Last(u)) = Last(c)
       /\ ~keeps => Len(u) <= 1
       /\ keeps /\ (\A p \in 1..Len(tr) : OneWrite(tr[p])) =>
            \A p \in 1..Len(u) : OneWrite(u[p])
  BY <1>1, <1>3, <1>4, <1>7, <1>10, <1>11, <1>12, StreamWrite
<1> HIDE DEF u
<1>14. Back(r, HeaderSize, k, j, b, u)
  BY <1>2, <1>6, <1>7, <1>13 DEF Back
<1> QED BY <1>13, <1>14 DEF u, r, c

\* The data follows the header.
LEMMA StreamBody ==
    ASSUME NEW q \in Seq(Messages), q # <<>>, NEW m \in Messages, m = Last(q), Size[m] > 0,
           NEW b \in Seq(Cells), NEW tr \in Seq(Pieces),
           NEW keeps \in BOOLEAN, keeps \/ Len(tr) <= 1, NEW k \in Nat \ {0}, NEW j \in Nat,
           Stream(q, b, tr), Front(q, k, j, b, tr), Back(q, HeaderSize, k, j, b, tr)
    PROVE  LET u == Pushed(keeps, tr, Body(m))
           IN  /\ Stream(q, b, u) /\ Front(q, k, j, b, u) /\ Back(q, FrameSize(m), k, j, b, u)
               /\ ~keeps => Len(u) <= 1
               /\ keeps /\ (\A p \in 1..Len(tr) : OneWrite(tr[p])) =>
                    \A p \in 1..Len(u) : OneWrite(u[p])
<1> DEFINE n == Len(q)
           c == Body(m)
           u == Pushed(keeps, tr, c)
<1>1. n \in Nat /\ n \in 1..n
  BY LenProperties, EmptySeq
<1>2. q[n] = m
  BY DEF Last
<1>3. /\ HeaderSize \in Nat /\ FrameSize(m) = HeaderSize + Size[m] /\ Size[m] \in Nat
      /\ HeaderSize < FrameSize(m) /\ Size[m] \in Nat \ {0}
  BY FrameSizes
<1>4. c = Cellular(m, HeaderSize, Size[m]) /\ c \in Pieces
  BY <1>3, WhatIsWritten DEF Pieces
<1> HIDE DEF n, c
<1>5. /\ c[1] = <<m, HeaderSize + 1>> /\ Last(c) = <<m, FrameSize(m)>>
      /\ NoGap(c) /\ Linked(q, c) /\ OneWrite(c)
  <2>1. HeaderSize + Size[m] <= FrameSize(m) /\ HeaderSize >= HeaderSize
    BY <1>3
  <2>2. n \in 1..Len(q)
    BY <1>1 DEF n
  <2> QED BY <1>2, <1>3, <1>4, <2>1, <2>2, WrittenPiece
<1>6. IsNext(q, n, HeaderSize, c[1])
  BY <1>1, <1>2, <1>3, <1>5 DEF IsNext, n
<1>7. ASSUME NEW d, d = <<Last(q), HeaderSize>> PROVE Follows(q, d, c[1])
  <2>1. d[1] = q[n] /\ d[2] = HeaderSize /\ n \in 1..Len(q)
    BY <1>1, <1>2, <1>7 DEF n
  <2> QED BY <1>6, <2>1 DEF Follows
<1>8. tr # <<>> => Follows(q, Last(Last(tr)), c[1])
  BY <1>7 DEF Back
<1>9. tr = <<>> /\ b # <<>> => Follows(q, Last(b), c[1])
  BY <1>7 DEF Back
<1>10. ASSUME tr = <<>>, b = <<>> PROVE IsNext(q, k, j, c[1])
  <2>1. HeaderSize # FrameSize(Last(q))
    BY <1>3
  <2>2. k = n /\ j = HeaderSize
    BY <1>10, <2>1 DEF Back, n
  <2> QED BY <1>6, <2>2
<1>11. /\ Stream(q, b, u) /\ Front(q, k, j, b, u) /\ u # <<>> /\ Last(Last(u)) = Last(c)
       /\ ~keeps => Len(u) <= 1
       /\ keeps /\ (\A p \in 1..Len(tr) : OneWrite(tr[p])) =>
            \A p \in 1..Len(u) : OneWrite(u[p])
  <2>1. c \in Pieces /\ NoGap(c) /\ Linked(q, c) /\ OneWrite(c)
    BY <1>4, <1>5
  <2>2. tr = <<>> /\ b = <<>> => IsNext(q, k, j, c[1])
    BY <1>10
  <2> QED BY <1>8, <1>9, <2>1, <2>2, StreamWrite
<1> HIDE DEF u
<1>12. Back(q, FrameSize(m), k, j, b, u)
  BY <1>5, <1>11 DEF Back
<1> QED BY <1>11, <1>12 DEF u, c

\* What is left after n cells of the first piece in transit, and where it ends.
LEMMA RestOfStream ==
    ASSUME NEW q, NEW tr \in Seq(Pieces), tr # <<>>, NEW n \in 1..Len(Head(tr)),
           Stream(q, <<>>, tr)
    PROVE  LET r == Rest(tr, n)
           IN  /\ \A p \in 1..Len(r) : NoGap(r[p]) /\ Linked(q, r[p])
               /\ \A p, s \in 1..Len(r) : s = p + 1 => Follows(q, Last(r[p]), r[s][1])
               /\ r # <<>> => /\ Follows(q, tr[1][n], r[1][1])
                              /\ Last(Last(r)) = Last(Last(tr))
               /\ r = <<>> => Last(Last(tr)) = tr[1][n]
<1> DEFINE r == Rest(tr, n)
           h == tr[1]
<1>1. /\ Head(tr) = h /\ h \in Seq(Cells) /\ Len(h) \in Nat
      /\ Len(tr) \in Nat /\ Len(tr) >= 1
      /\ r \in Seq(Pieces)
  BY RestFacts
<1>2. n = Len(h) => Len(r) = Len(tr) - 1 /\ \A p \in 1..Len(r) : r[p] = tr[p + 1]
  BY RestFacts
<1>3. n < Len(h) => /\ Len(r) = Len(tr)
                    /\ r[1] = SubSeq(h, n + 1, Len(h))
                    /\ \A p \in 2..Len(tr) : r[p] = tr[p]
  BY RestFacts
<1>4. Len(r) \in Nat /\ (r = <<>> <=> Len(r) = 0)
  BY <1>1, LenProperties, EmptySeq
<1>5. 1 \in 1..Len(tr) /\ NoGap(h) /\ Linked(q, h)
  BY <1>1 DEF Stream
<1> HIDE DEF r, h
<1>6. CASE n = Len(h)
  <2>1. \A p \in 1..Len(r) : p + 1 \in 1..Len(tr) /\ r[p] = tr[p + 1]
    BY <1>1, <1>2, <1>6
  <2>2. \A p \in 1..Len(r) : NoGap(r[p]) /\ Linked(q, r[p])
    BY <2>1 DEF Stream
  <2>3. \A p, s \in 1..Len(r) : s = p + 1 => Follows(q, Last(r[p]), r[s][1])
    BY <2>1 DEF Stream
  <2>4. ASSUME r # <<>> PROVE Follows(q, tr[1][n], r[1][1]) /\ Last(Last(r)) = Last(Last(tr))
    <3>1. 1 \in 1..Len(r) /\ Len(r) \in 1..Len(r) /\ Len(r) + 1 = Len(tr) /\ 2 \in 1..Len(tr)
      BY <1>1, <1>2, <1>4, <1>6, <2>4
    <3>2. r[1] = tr[2] /\ Last(r) = Last(tr)
      BY <2>1, <3>1 DEF Last
    <3>3. Follows(q, Last(tr[1]), tr[2][1])
      BY <1>5, <3>1 DEF Stream
    <3> QED BY <1>6, <3>2, <3>3 DEF Last, h
  <2>5. ASSUME r = <<>> PROVE Last(Last(tr)) = tr[1][n]
    <3>1. Len(tr) = 1
      BY <1>1, <1>2, <1>4, <1>6, <2>5
    <3> QED BY <1>6, <3>1 DEF Last, h
  <2> QED BY <2>2, <2>3, <2>4, <2>5 DEF r
<1>7. CASE n < Len(h)
  <2> DEFINE t == SubSeq(h, n + 1, Len(h))
  <2>1. n + 1 \in 1..(Len(h) + 1) /\ Len(h) \in 0..Len(h) /\ n + 1 <= Len(h)
    BY <1>1, <1>7
  <2>2. /\ t \in Seq(Cells) /\ Len(t) = Len(h) - (n + 1) + 1
        /\ \A i \in 1..Len(t) : t[i] = h[(n + 1) + i - 1]
        /\ NoGap(t) /\ Linked(q, t)
    BY <1>1, <1>5, <2>1, SubPiece
  <2> HIDE DEF t
  <2>3. 1 \in 1..Len(t) /\ Len(t) \in 1..Len(t) /\ (n + 1) + 1 - 1 = n + 1
        /\ (n + 1) + Len(t) - 1 = Len(h)
    BY <1>1, <2>1, <2>2
  <2>4. t[1] = h[n + 1] /\ Last(t) = Last(h)
    BY <2>2, <2>3 DEF Last
  <2>5. Len(r) = Len(tr) /\ r[1] = t /\ \A p \in 2..Len(tr) : r[p] = tr[p]
    BY <1>3, <1>7 DEF t
  <2>6. \A p \in 1..Len(tr) : p = 1 \/ p \in 2..Len(tr)
    BY <1>1
  <2>7. \A p \in 1..Len(r) : NoGap(r[p]) /\ Linked(q, r[p])
    BY <2>2, <2>5, <2>6 DEF Stream
  <2>8. \A p \in 1..Len(r) : Last(r[p]) = Last(tr[p])
    BY <2>4, <2>5, <2>6 DEF h
  <2>9. ASSUME NEW p \in 1..Len(r), NEW s \in 1..Len(r), s = p + 1
        PROVE  Follows(q, Last(r[p]), r[s][1])
    <3>1. s \in 2..Len(tr)
      BY <1>1, <2>5, <2>9
    <3> QED BY <2>5, <2>8, <2>9, <3>1 DEF Stream
  <2>10. Follows(q, tr[1][n], r[1][1])
    <3>1. n \in 1..Len(h) /\ n + 1 \in 1..Len(h)
      BY <1>1, <2>1
    <3>2. Follows(q, h[n], h[n + 1])
      BY <1>5, <3>1 DEF Linked
    <3> QED BY <2>4, <2>5, <3>2 DEF h
  <2>11. r # <<>> /\ Last(Last(r)) = Last(Last(tr))
    <3>1. Len(tr) \in 1..Len(tr) /\ r # <<>>
      BY <1>1, <1>4, <2>5
    <3> QED BY <2>5, <2>8, <3>1 DEF Last
  <2> QED BY <2>7, <2>9, <2>10, <2>11 DEF r
<1> QED BY <1>1, <1>6, <1>7

\* The only cell after which nothing is in transit and nothing buffered is the
\* last one that was written.
LEMMA ReaderAtEnd ==
    ASSUME NEW q \in Seq(Messages), Distinct(q),
           NEW k \in 1..Len(q), NEW j, NEW x, q # <<>>, <<q[k], j>> = <<Last(q), x>>
    PROVE  k = Len(q) /\ j = x
<1>1. Len(q) \in 1..Len(q)
  BY LenProperties, EmptySeq
<1> QED BY <1>1 DEF Last, Distinct

\* The reader takes n cells straight from the connection.
LEMMA StreamRead ==
    ASSUME NEW q \in Seq(Messages), Distinct(q),
           NEW tr \in Seq(Pieces), tr # <<>>, NEW n \in 1..Len(Head(tr)),
           NEW k, NEW j \in Nat, Stream(q, <<>>, tr), Front(q, k, j, <<>>, tr),
           j + n <= FrameSize(q[k])
    PROVE  /\ \A i \in 1..n : tr[1][i] = <<q[k], j + i>>
           /\ Stream(q, <<>>, Rest(tr, n))
           /\ Front(q, k, j + n, <<>>, Rest(tr, n))
           /\ \A x : Back(q, x, k, j, <<>>, tr) => Back(q, x, k, j + n, <<>>, Rest(tr, n))
<1> DEFINE r == Rest(tr, n)
           h == tr[1]
<1>0. /\ Head(tr) = h /\ h \in Seq(Cells) /\ Len(h) \in Nat
      /\ Len(tr) \in Nat /\ Len(tr) >= 1
  BY RestFacts
<1>1. Head(tr) = h /\ h \in Seq(Cells) /\ Len(h) \in Nat /\ 1 \in 1..Len(tr) /\ n \in 1..Len(h)
  BY <1>0
<1>2. NoGap(h) /\ IsNext(q, k, j, h[1])
  BY <1>1 DEF Stream, Front
<1>3. /\ \A p \in 1..Len(r) : NoGap(r[p]) /\ Linked(q, r[p])
      /\ \A p, s \in 1..Len(r) : s = p + 1 => Follows(q, Last(r[p]), r[s][1])
      /\ r # <<>> => Follows(q, h[n], r[1][1]) /\ Last(Last(r)) = Last(Last(tr))
      /\ r = <<>> => Last(Last(tr)) = h[n]
  BY RestOfStream
<1> HIDE DEF r, h
<1>4. /\ \A i \in 1..n : h[i] = <<q[k], j + i>>
      /\ \A d : Follows(q, h[n], d) => IsNext(q, k, j + n, d)
  <2>1. h \in Seq(Cells) /\ n \in 1..Len(h)
    BY <1>1
  <2> QED BY <1>2, <2>1, Taking
<1>5. Stream(q, <<>>, r)
  BY <1>3 DEF Stream
<1>6. Front(q, k, j + n, <<>>, r)
  BY <1>3, <1>4 DEF Front
<1>7. ASSUME NEW x, Back(q, x, k, j, <<>>, tr) PROVE Back(q, x, k, j + n, <<>>, r)
  <2>1. q # <<>> /\ Last(Last(tr)) = <<Last(q), x>>
    BY <1>7 DEF Back
  <2>2. CASE r # <<>>
    BY <1>3, <2>1, <2>2 DEF Back
  <2>3. CASE r = <<>>
    <3>1. n \in 1..n
      BY <1>1
    <3>2. <<q[k], j + n>> = <<Last(q), x>>
      BY <1>3, <1>4, <2>1, <2>3, <3>1
    <3>3. k \in 1..Len(q)
      BY <1>2 DEF IsNext
    <3>4. k = Len(q) /\ j + n = x
      BY <2>1, <3>2, <3>3, ReaderAtEnd
    <3> QED BY <2>3, <3>4 DEF Back
  <2> QED BY <2>2, <2>3
<1> QED BY <1>4, <1>5, <1>6, <1>7 DEF r, h

\* The reader fills its buffer.
LEMMA StreamFill ==
    ASSUME NEW q \in Seq(Messages), NEW tr \in Seq(Pieces), tr # <<>>,
           NEW n \in 1..Len(Head(tr)),
           NEW k, NEW j, Stream(q, <<>>, tr), Front(q, k, j, <<>>, tr)
    PROVE  LET b == SubSeq(tr[1], 1, n)
           IN  /\ Stream(q, b, Rest(tr, n))
               /\ Front(q, k, j, b, Rest(tr, n))
               /\ \A x : Back(q, x, k, j, <<>>, tr) => Back(q, x, k, j, b, Rest(tr, n))
<1> DEFINE r == Rest(tr, n)
           h == tr[1]
           b == SubSeq(h, 1, n)
<1>0. /\ Head(tr) = h /\ h \in Seq(Cells) /\ Len(h) \in Nat
      /\ Len(tr) \in Nat /\ Len(tr) >= 1
  BY RestFacts
<1>1. Head(tr) = h /\ h \in Seq(Cells) /\ Len(h) \in Nat /\ 1 \in 1..Len(tr) /\ n \in 1..Len(h)
  BY <1>0
<1>2. NoGap(h) /\ Linked(q, h) /\ IsNext(q, k, j, h[1])
  BY <1>1 DEF Stream, Front
<1>3. /\ \A p \in 1..Len(r) : NoGap(r[p]) /\ Linked(q, r[p])
      /\ \A p, s \in 1..Len(r) : s = p + 1 => Follows(q, Last(r[p]), r[s][1])
      /\ r # <<>> => Follows(q, h[n], r[1][1]) /\ Last(Last(r)) = Last(Last(tr))
      /\ r = <<>> => Last(Last(tr)) = h[n]
  BY RestOfStream
<1>4. 1 \in 1..(Len(h) + 1) /\ n \in 0..Len(h) /\ 1 <= n /\ n - 1 + 1 = n /\ 1 \in 1..n /\ n \in 1..n
  BY <1>1
<1>5. /\ b \in Seq(Cells) /\ Len(b) = n
      /\ \A i \in 1..n : b[i] = h[1 + i - 1]
      /\ NoGap(b) /\ Linked(q, b)
  BY <1>1, <1>2, <1>4, SubPiece
<1> HIDE DEF r, h, b
<1>6. b[1] = h[1] /\ Last(b) = h[n] /\ b # <<>>
  <2>1. 1 + 1 - 1 = 1 /\ 1 + n - 1 = n
    BY <1>1
  <2>2. b # <<>>
    BY <1>4, <1>5, EmptySeq
  <2> QED BY <1>4, <1>5, <2>1, <2>2 DEF Last
<1>7. Stream(q, b, r)
  BY <1>3, <1>5, <1>6 DEF Stream
<1>8. Front(q, k, j, b, r)
  BY <1>2, <1>6 DEF Front
<1>9. ASSUME NEW x, Back(q, x, k, j, <<>>, tr) PROVE Back(q, x, k, j, b, r)
  BY <1>3, <1>6, <1>9 DEF Back
<1> QED BY <1>7, <1>8, <1>9 DEF r, h, b

\* The reader takes n cells from its buffer.
LEMMA StreamTake ==
    ASSUME NEW q \in Seq(Messages), Distinct(q),
           NEW b \in Seq(Cells), NEW tr, NEW n \in 1..Len(b),
           NEW k, NEW j \in Nat, Stream(q, b, tr), Front(q, k, j, b, tr),
           j + n <= FrameSize(q[k])
    PROVE  LET c == SubSeq(b, n + 1, Len(b))
           IN  /\ \A i \in 1..n : b[i] = <<q[k], j + i>>
               /\ Stream(q, c, tr)
               /\ Front(q, k, j + n, c, tr)
               /\ \A x : Back(q, x, k, j, b, tr) => Back(q, x, k, j + n, c, tr)
<1> DEFINE c == SubSeq(b, n + 1, Len(b))
<1>1. /\ Len(b) \in Nat /\ b # <<>> /\ n + 1 \in 1..(Len(b) + 1) /\ Len(b) \in 0..Len(b)
      /\ n \in 1..n
  BY LenProperties, EmptySeq
<1>2. NoGap(b) /\ Linked(q, b) /\ IsNext(q, k, j, b[1])
  BY <1>1 DEF Stream, Front
<1>3. /\ c \in Seq(Cells) /\ Len(c) = IF n + 1 <= Len(b) THEN Len(b) - (n + 1) + 1 ELSE 0
      /\ \A i \in 1..Len(c) : c[i] = b[(n + 1) + i - 1]
      /\ NoGap(c) /\ Linked(q, c)
  BY <1>1, <1>2, SubPiece
<1> HIDE DEF c
<1>4. /\ \A i \in 1..n : b[i] = <<q[k], j + i>>
      /\ \A d : Follows(q, b[n], d) => IsNext(q, k, j + n, d)
  BY <1>2, Taking
<1>5. CASE n = Len(b)
  <2>1. c = <<>>
    BY <1>1, <1>3, <1>5, EmptySeq
  <2>2. Last(b) = b[n]
    BY <1>5 DEF Last
  <2>3. Stream(q, c, tr)
    BY <1>3, <2>1 DEF Stream
  <2>4. Front(q, k, j + n, c, tr)
    BY <1>1, <1>4, <2>1, <2>2 DEF Front, Stream
  <2>5. ASSUME NEW x, Back(q, x, k, j, b, tr) PROVE Back(q, x, k, j + n, c, tr)
    <3>1. CASE tr # <<>>
      BY <2>1, <2>5, <3>1 DEF Back
    <3>2. CASE tr = <<>>
      <4>1. q # <<>> /\ Last(b) = <<Last(q), x>>
        BY <1>1, <2>5, <3>2 DEF Back
      <4>2. <<q[k], j + n>> = <<Last(q), x>>
        BY <1>1, <1>4, <2>2, <4>1
      <4>3. k \in 1..Len(q)
        BY <1>2 DEF IsNext
      <4>4. k = Len(q) /\ j + n = x
        BY <4>1, <4>2, <4>3, ReaderAtEnd
      <4> QED BY <2>1, <3>2, <4>4 DEF Back
    <3> QED BY <3>1, <3>2
  <2> QED BY <1>4, <2>3, <2>4, <2>5 DEF c
<1>6. CASE n < Len(b)
  <2>0. n \in Nat /\ n + 1 <= Len(b) /\ Len(c) = Len(b) - (n + 1) + 1
    BY <1>1, <1>3, <1>6
  <2>1. /\ 1 \in 1..Len(c) /\ Len(c) \in 1..Len(c) /\ (n + 1) + 1 - 1 = n + 1
        /\ (n + 1) + Len(c) - 1 = Len(b) /\ n + 1 \in 1..Len(b)
    BY <1>1, <2>0
  <2>2. c[1] = b[n + 1] /\ Last(c) = Last(b)
    BY <1>3, <2>1 DEF Last
  <2>3. c # <<>>
    BY <1>3, <2>1, EmptySeq
  <2>4. Follows(q, b[n], b[n + 1])
    BY <1>2, <2>1 DEF Linked
  <2>5. Stream(q, c, tr)
    BY <1>1, <1>3, <2>2, <2>3 DEF Stream
  <2>6. Front(q, k, j + n, c, tr)
    BY <1>4, <2>2, <2>3, <2>4 DEF Front
  <2>7. ASSUME NEW x, Back(q, x, k, j, b, tr) PROVE Back(q, x, k, j + n, c, tr)
    BY <1>1, <2>2, <2>3, <2>7 DEF Back
  <2> QED BY <1>4, <2>5, <2>6, <2>7 DEF c
<1> QED BY <1>1, <1>5, <1>6
-------------------------------------------------------------------------------
(* Types                                                                   *)

TypeInv ==
    /\ TypeOK
    /\ stage = "body" => frame \in Messages

\* A Write adds cells in order.
LEMMA PushTypes ==
    ASSUME transit \in Seq(Pieces), NEW c \in Seq(Cells), Push(c)
    PROVE  transit' \in Seq(Pieces)
<1>1. CASE c = <<>>
  BY <1>1 DEF Push
<1>2. CASE c # <<>> /\ (link.keepsWrites \/ transit = <<>>)
  <2>1. transit' = Append(transit, c) /\ c \in Pieces
    BY <1>2 DEF Push, Pieces
  <2> QED BY <2>1, AppendProperties
<1>3. CASE c # <<>> /\ ~(link.keepsWrites \/ transit = <<>>)
  <2>1. transit' = <<Head(transit) \o c>>
    BY <1>3 DEF Push
  <2>2. Head(transit) \in Seq(Cells)
    BY <1>3, HeadTailProperties DEF Pieces
  <2>3. Head(transit) \o c \in Seq(Cells) /\ Head(transit) \o c # <<>>
    BY <1>3, <2>2, ConcatProperties, ConcatEqualIffEmpty
  <2>4. Head(transit) \o c \in Pieces
    BY <2>3 DEF Pieces
  <2> QED BY <2>1, <2>4
<1> QED BY <1>1, <1>2, <1>3

\* What the reader needs is a number.
LEMMA NeedType ==
    ASSUME TypeInv, stage # "stopped"
    PROVE  Need \in Int /\ Len(got) \in Nat
<1>1. Len(got) \in Nat
  BY LenProperties DEF TypeInv, TypeOK
<1>2. stage = "body" => Size[frame] \in Nat
  BY FrameSizes DEF TypeInv
<1> QED BY <1>1, <1>2, FramingAssumption DEF TypeInv, TypeOK, Need

LEMMA TypeParts ==
    TypeInv <=>
      /\ link \in Links /\ writing \in [Writers -> Messages \cup {NoMessage}]
      /\ started \in Seq(Messages) /\ transit \in Seq(Pieces) /\ broken \in BOOLEAN
      /\ buf \in Seq(Cells) /\ Len(buf) <= BufSize
      /\ stage \in {"header", "body", "stopped"} /\ frame \in Messages \cup {NoMessage}
      /\ got \in Seq(Cells) /\ out \in Seq(Messages \cup {Garbled})
      /\ stage = "body" => frame \in Messages
BY DEF TypeInv, TypeOK, Pieces, Cells

\* Every step keeps the types.
LEMMA TypeStep == TypeInv /\ [Next]_vars => TypeInv'
<1> SUFFICES ASSUME TypeInv, [Next]_vars PROVE TypeInv'
  OBVIOUS
<1> USE TypeParts
<1>1. ASSUME NEW w \in Writers, NEW m \in Messages, WriteLength(w, m) PROVE TypeInv'
  <2>1. transit' \in Seq(Pieces)
    BY <1>1, PushTypes, WhatIsWritten DEF WriteLength
  <2>2. started' \in Seq(Messages)
    BY <1>1, AppendProperties DEF WriteLength
  <2> QED BY <1>1, <2>1, <2>2 DEF WriteLength, readerVars, TypeInv, TypeOK, Pieces, Cells
<1>2. ASSUME NEW w \in Writers, WriteData(w) PROVE TypeInv'
  <2>1. writing[w] \in Messages
    BY <1>2 DEF WriteData
  <2>2. transit' \in Seq(Pieces)
    BY <1>2, <2>1, PushTypes, WhatIsWritten DEF WriteData
  <2> QED BY <1>2, <2>2 DEF WriteData, readerVars, TypeInv, TypeOK, Pieces, Cells
<1>3. ASSUME transit # <<>>, NEW n \in 1..Len(Head(transit)), ReadDirect(n) \/ Fill(n)
      PROVE  TypeInv'
  <2>1. transit' = Rest(transit, n)
    BY <1>3 DEF ReadDirect, Fill, Reading, Rest
  <2>2. /\ transit' \in Seq(Pieces)
        /\ Head(transit) \in Seq(Cells) /\ Len(Head(transit)) \in Nat
    BY <1>3, <2>1, RestFacts
  <2>3. 1 \in 1..(Len(Head(transit)) + 1) /\ n \in 0..Len(Head(transit)) /\ 1 <= n /\ n - 1 + 1 = n
    BY <2>2
  <2>4. SubSeq(Head(transit), 1, n) \in Seq(Cells) /\ Len(SubSeq(Head(transit), 1, n)) = n
    BY <2>2, <2>3, SubPiece
  <2>5. got \o SubSeq(Head(transit), 1, n) \in Seq(Cells)
    BY <2>4, ConcatProperties
  <2>6. CASE ReadDirect(n)
    BY <2>2, <2>5, <2>6 DEF ReadDirect, TypeInv, TypeOK, Pieces, Cells
  <2>7. CASE Fill(n)
    BY <2>2, <2>4, <2>7 DEF Fill, TypeInv, TypeOK, Pieces, Cells
  <2> QED BY <1>3, <2>6, <2>7
<1>4. CASE TakeBuffered
  <2> DEFINE n == Min2(Need, Len(buf))
  <2>1. Need \in Int /\ Need > 0 /\ Len(buf) \in Nat /\ buf # <<>>
    BY <1>4, NeedType, LenProperties DEF TakeBuffered
  <2>2. Len(buf) >= 1
    BY <2>1, EmptySeq
  <2>3. n \in 1..Len(buf)
    BY <2>1, <2>2 DEF Min2
  <2> HIDE DEF n
  <2>4. /\ SubSeq(buf, 1, n) \in Seq(Cells)
        /\ SubSeq(buf, n + 1, Len(buf)) \in Seq(Cells)
        /\ Len(SubSeq(buf, n + 1, Len(buf))) = IF n + 1 <= Len(buf) THEN Len(buf) - (n + 1) + 1 ELSE 0
    <3>1. /\ 1 \in 1..(Len(buf) + 1) /\ n \in 0..Len(buf)
          /\ n + 1 \in 1..(Len(buf) + 1) /\ Len(buf) \in 0..Len(buf)
      BY <2>1, <2>3
    <3> QED BY <3>1, SubPiece
  <2>5. Len(SubSeq(buf, n + 1, Len(buf))) <= BufSize
    BY <2>1, <2>3, <2>4, FramingAssumption
  <2>6. got \o SubSeq(buf, 1, n) \in Seq(Cells)
    BY <2>4, ConcatProperties
  <2> QED BY <1>4, <2>4, <2>5, <2>6 DEF TakeBuffered, n, TypeInv, TypeOK, Pieces, Cells
<1>5. CASE HeaderRead
  <2>1. out' \in Seq(Messages \cup {Garbled})
    <3>1. out' = Append(out, Garbled) \/ out' = out
      BY <1>5 DEF HeaderRead
    <3> DEFINE S == Messages \cup {Garbled}
    <3>2. out \in Seq(S) /\ Garbled \in S
      OBVIOUS
    <3> HIDE DEF S
    <3>3. Append(out, Garbled) \in Seq(S)
      BY <3>2, AppendProperties
    <3> QED BY <3>1, <3>2, <3>3 DEF S
  <2>2. <<>> \in Seq(Cells)
    BY EmptySeq
  <2>3. frame' \in Messages \cup {NoMessage} /\ stage' \in {"body", "stopped"}
        /\ (stage' = "body" => frame' \in Messages)
    BY <1>5 DEF HeaderRead
  <2> QED BY <1>5, <2>1, <2>2, <2>3 DEF HeaderRead, TypeInv, TypeOK, Pieces, Cells
<1>6. CASE BodyRead
  <2>1. out' \in Seq(Messages \cup {Garbled})
    <3>1. PICK x \in Messages \cup {Garbled} : out' = Append(out, x)
      BY <1>6 DEF BodyRead
    <3> QED BY <3>1, AppendProperties
  <2>2. <<>> \in Seq(Cells) /\ Len(<<>>) = 0
    BY EmptySeq
  <2>3. buf' \in Seq(Cells) /\ Len(buf') <= BufSize
    BY <1>6, <2>2, FramingAssumption DEF BodyRead
  <2> QED BY <1>6, <2>1, <2>2, <2>3 DEF BodyRead, TypeInv, TypeOK, Pieces, Cells
<1>7. CASE Break
  <2>1. <<>> \in Seq(Pieces)
    BY EmptySeq
  <2> QED BY <1>7, <2>1 DEF Break, readerVars, TypeInv, TypeOK, Pieces, Cells
<1>8. CASE ReadError
  BY <1>8 DEF ReadError, TypeInv, TypeOK
<1>9. CASE UNCHANGED vars
  BY <1>9 DEF vars, TypeInv, TypeOK
<1> QED BY <1>1, <1>2, <1>3, <1>4, <1>5, <1>6, <1>7, <1>8, <1>9 DEF Next, WriterStep, ReaderStep
-------------------------------------------------------------------------------
(* The steps keep the flow                                                 *)

\* A prefix, element by element.
LEMMA PrefixForm ==
    ASSUME NEW S, NEW T, NEW o \in Seq(S), NEW q \in Seq(T), Len(o) <= Len(q)
    PROVE  o = SubSeq(q, 1, Len(o)) <=> \A i \in 1..Len(o) : o[i] = q[i]
<1> DEFINE n == Len(o)
           t == SubSeq(q, 1, n)
<1>1. n \in Nat /\ Len(q) \in Nat
  BY LenProperties
<1>2. \A i \in 1..n : q[i] \in T
  <2>1. \A i \in 1..n : i \in 1..Len(q)
    BY <1>1
  <2> QED BY <2>1, ElementOfSeq
<1>3. /\ t \in Seq(T) /\ Len(t) = IF 1 <= n THEN n - 1 + 1 ELSE 0
      /\ \A i \in 1..(n - 1 + 1) : t[i] = q[1 + i - 1]
  BY <1>1, <1>2, SubSeqProperties
<1> HIDE DEF t
<1>4. Len(t) = n
  BY <1>1, <1>3
<1>5. \A i \in 1..n : t[i] = q[i]
  <2>1. ASSUME NEW i \in 1..n PROVE i \in 1..(n - 1 + 1) /\ 1 + i - 1 = i
    BY <1>1
  <2> QED BY <1>3, <2>1
<1>6. (\A i \in 1..n : o[i] = t[i]) => o = t
  <2>1. o \in [1..n -> S] /\ t \in [1..n -> T]
    BY <1>3, <1>4, LenProperties
  <2> QED BY <2>1
<1> QED BY <1>5, <1>6 DEF t

\* What was passed on comes before the frame the reader is in.
LEMMA Places ==
    ASSUME TypeInv, FramesIntact
    PROVE  /\ Len(out) \in Nat /\ Len(started) \in Nat /\ Len(out) <= Len(started)
           /\ Current \in Nat /\ Current >= 1 /\ Place \in Nat /\ Len(got) \in Nat
           /\ \A i \in 1..Len(out) : out[i] = started[i]
<1> USE TypeParts
<1>1. Len(out) \in Nat /\ Len(started) \in Nat /\ Len(got) \in Nat /\ Len(out) <= Len(started)
  BY LenProperties DEF FramesIntact
<1>2. \A i \in 1..Len(out) : out[i] = started[i]
  BY <1>1, PrefixForm DEF FramesIntact
<1>3. Place \in Nat
  BY <1>1, FramingAssumption DEF Place
<1> QED BY <1>1, <1>2, <1>3 DEF Current

\* What the reader wants is in the current frame.
LEMMA NeedFits ==
    ASSUME FrameInv, stage # "stopped", Current \in 1..Len(started), NEW n \in Nat, n <= Need
    PROVE  Place + n <= FrameSize(started[Current])
<1>1. TypeInv /\ ReaderInv /\ FramesIntact
  BY DEF FrameInv, TypeInv, FlowInv
<1>2. Len(got) \in Nat /\ Place \in Nat
  BY <1>1, Places
<1>3. started[Current] \in Messages
  BY <1>1, TypeParts, ElementOfSeq
<1>4. /\ FrameSize(started[Current]) = HeaderSize + Size[started[Current]]
      /\ Size[started[Current]] \in Nat /\ HeaderSize \in Nat
  BY <1>3, FrameSizes
<1>5. CASE stage = "header"
  <2>1. n <= HeaderSize - Len(got) /\ Place = Len(got)
    BY <1>2, <1>5 DEF Need, Place
  <2> QED BY <1>2, <1>4, <2>1
<1>6. CASE stage = "body"
  <2>0. frame = started[Current]
    BY <1>1, <1>6 DEF ReaderInv
  <2>1. n <= Size[started[Current]] - Len(got) /\ Place = Len(got) + HeaderSize
    BY <1>6, <2>0 DEF Need, Place
  <2> QED BY <1>2, <1>4, <2>1
<1> QED BY <1>1, <1>5, <1>6, TypeParts

\* The reader gets n cells that it wants.
LEMMA ReaderTakes ==
    ASSUME FrameInv, stage # "stopped", Current \in 1..Len(started),
           NEW c \in Seq(Cells), Len(c) <= Need, Len(c) > 0,
           \A i \in 1..Len(c) : c[i] = <<started[Current], Place + i>>,
           got' = got \o c, UNCHANGED <<started, stage, frame, out>>
    PROVE  /\ ReaderInv'
           /\ Current' = Current /\ Place' = Place + Len(c)
<1>1. TypeInv /\ ReaderInv /\ FramesIntact
  BY DEF FrameInv, TypeInv, FlowInv
<1>2. Len(got) \in Nat /\ Place \in Nat /\ Len(c) \in Nat /\ got \in Seq(Cells) /\ HeaderSize \in Nat
  BY <1>1, Places, TypeParts, LenProperties, FramingAssumption
<1> DEFINE g == got \o c
<1>3. /\ g \in Seq(Cells) /\ Len(g) = Len(got) + Len(c)
      /\ \A i \in 1..(Len(got) + Len(c)) : g[i] = IF i <= Len(got) THEN got[i] ELSE c[i - Len(got)]
  BY <1>2, ConcatProperties
<1> HIDE DEF g
<1>4. got' = g
  BY DEF g
<1>5. Current' = Current
  BY DEF Current
<1>6. Place' = Place + Len(c)
  <2>1. Len(got') = Len(got) + Len(c)
    BY <1>3, <1>4
  <2>2. \A z \in Nat : (Len(got) + Len(c)) + z = (Len(got) + z) + Len(c)
    BY <1>2
  <2>3. PICK z \in Nat : z = IF stage = "header" THEN 0 ELSE HeaderSize
    BY <1>2
  <2>4. Place' = Len(got') + z /\ Place = Len(got) + z
    BY <2>3 DEF Place
  <2> QED BY <2>1, <2>2, <2>4
<1>7. Len(c) <= (IF stage = "header" THEN HeaderSize ELSE Size[frame]) - Len(got)
  BY DEF Need
<1>8. ASSUME stage = "header" PROVE ReaderInv'
  <2>1. Place = Len(got)
    BY <1>2, <1>8 DEF Place
  <2>2. Len(g) <= HeaderSize
    BY <1>2, <1>3, <1>7, <1>8
  <2>3. \A i \in 1..Len(got) : got[i] = <<started[Current], i>>
    BY <1>1, <1>8 DEF ReaderInv
  <2>4. ASSUME NEW i \in 1..Len(g) PROVE g[i] = <<started[Current], i>>
    <3>1. CASE i <= Len(got)
      BY <1>2, <1>3, <2>3, <3>1
    <3>2. CASE ~(i <= Len(got))
      <4>1. i - Len(got) \in 1..Len(c) /\ Len(got) + (i - Len(got)) = i
        BY <1>2, <1>3, <3>2
      <4> QED BY <1>3, <2>1, <3>2, <4>1
    <3> QED BY <3>1, <3>2
  <2>5. Current <= Len(started)
    BY <1>1, Places
  <2> QED BY <1>4, <1>5, <1>8, <2>2, <2>4, <2>5 DEF ReaderInv
<1>9. ASSUME stage = "body" PROVE ReaderInv'
  <2>1. /\ Place = Len(got) + HeaderSize /\ frame = started[Current] /\ Current <= Len(started)
        /\ \A i \in 1..Len(got) : got[i] = <<frame, HeaderSize + i>>
    BY <1>1, <1>9 DEF ReaderInv, Place
  <2>2. Size[frame] \in Nat
    BY <1>1, <1>9, FrameSizes DEF TypeInv
  <2>3. Len(g) <= Size[frame]
    BY <1>2, <1>3, <1>7, <1>9, <2>2
  <2>4. ASSUME NEW i \in 1..Len(g) PROVE g[i] = <<frame, HeaderSize + i>>
    <3>1. CASE i <= Len(got)
      <4>1. i \in 1..Len(got) /\ i \in 1..(Len(got) + Len(c))
        BY <1>2, <1>3, <3>1
      <4> QED BY <1>3, <2>1, <3>1, <4>1, Zenon
    <3>2. CASE ~(i <= Len(got))
      <4>1. i - Len(got) \in 1..Len(c) /\ (Len(got) + HeaderSize) + (i - Len(got)) = HeaderSize + i
        BY <1>2, <1>3, <3>2
      <4>2. g[i] = c[i - Len(got)]
        BY <1>3, <3>2
      <4>3. c[i - Len(got)] = <<started[Current], Place + (i - Len(got))>>
        BY <4>1
      <4>4. Place + (i - Len(got)) = HeaderSize + i
        BY <2>1, <4>1
      <4> QED BY <2>1, <4>2, <4>3, <4>4
    <3> QED BY <3>1, <3>2
  <2> QED BY <1>4, <1>5, <1>9, <2>1, <2>3, <2>4 DEF ReaderInv
<1> QED BY <1>1, <1>5, <1>6, <1>8, <1>9, TypeParts

\* What is known while nothing has gone wrong.
LEMMA Flowing ==
    ASSUME FrameInv, stage # "stopped"
    PROVE  /\ TypeInv /\ FramesIntact /\ WriterInv /\ ReaderInv /\ LinkInv
           /\ Stream(started, buf, transit)
           /\ Front(started, Current, Place, buf, transit)
           /\ ~broken => Back(started, Written, Current, Place, buf, transit)
           /\ started \in Seq(Messages) /\ transit \in Seq(Pieces) /\ buf \in Seq(Cells)
           /\ link.keepsWrites \in BOOLEAN /\ (link.keepsWrites \/ Len(transit) <= 1)
           /\ Distinct(started)
<1>1. TypeInv /\ LinkInv
  BY DEF FrameInv, TypeInv, FlowInv
<1>2. link.keepsWrites \in BOOLEAN
  BY <1>1, TypeParts, FramingAssumption
<1>3. link.keepsWrites \/ Len(transit) <= 1
  BY <1>1 DEF LinkInv
<1> QED BY <1>1, <1>2, <1>3, TypeParts DEF FrameInv, FlowInv, WriterInv

\* A frame is begun while no other is unfinished.
LEMMA WriteLengthFlow ==
    ASSUME FrameInv, OneWriter, NEW w \in Writers, NEW m \in Messages, WriteLength(w, m)
    PROVE  FlowInv' /\ FramesIntact'
<1>1. /\ ~broken /\ writing[w] = NoMessage /\ m \notin Started
      /\ Push(Header(m)) /\ started' = Append(started, m)
      /\ writing' = [writing EXCEPT ![w] = m]
      /\ UNCHANGED <<link, broken, buf, stage, frame, got, out>>
  BY DEF WriteLength, readerVars
<1>2. stage # "stopped"
  BY <1>1 DEF FrameInv, FlowInv
<1>3. /\ TypeInv /\ FramesIntact /\ WriterInv /\ ReaderInv /\ LinkInv
      /\ Stream(started, buf, transit)
      /\ Front(started, Current, Place, buf, transit)
      /\ Back(started, Written, Current, Place, buf, transit)
      /\ started \in Seq(Messages) /\ transit \in Seq(Pieces) /\ buf \in Seq(Cells)
      /\ link.keepsWrites \in BOOLEAN /\ (link.keepsWrites \/ Len(transit) <= 1)
      /\ Distinct(started)
  BY <1>1, <1>2, Flowing
<1>4. /\ Len(out) \in Nat /\ Len(started) \in Nat /\ Len(out) <= Len(started)
      /\ Current \in Nat \ {0} /\ Place \in Nat /\ Len(got) \in Nat
      /\ \A i \in 1..Len(out) : out[i] = started[i]
  BY <1>3, Places
<1>5. writing \in [Writers -> Messages \cup {NoMessage}] /\ \A v \in Writers : v = w
  BY <1>3, TypeParts DEF OneWriter
<1>6. Written = FrameSize(Last(started))
  <2>1. ~\E v \in Writers : writing[v] # NoMessage
    BY <1>1, <1>5
  <2> QED BY <2>1 DEF Written
<1>7. writing'[w] = m /\ m # NoMessage
  BY <1>1, <1>5, FramingAssumption
<1>8. Written' = HeaderSize
  BY <1>7 DEF Written
<1>9. transit' = Pushed(link.keepsWrites, transit, Header(m))
  <2>1. Header(m) # <<>>
    BY WhatIsWritten
  <2> QED BY <1>1, <2>1 DEF Push, Pushed
<1>10. Current' = Current /\ Place' = Place
  BY <1>1 DEF Current, Place
<1>11. /\ started' \in Seq(Messages) /\ Len(started') = Len(started) + 1
       /\ started'[Len(started) + 1] = m
       /\ \A i \in 1..Len(started) : started'[i] = started[i]
  BY <1>1, <1>3, AppendProperties
<1> DEFINE x == Written
           k == Current
           j == Place
<1>12. /\ Stream(started', buf, transit')
       /\ Front(started', k, j, buf, transit')
       /\ Back(started', HeaderSize, k, j, buf, transit')
       /\ ~link.keepsWrites => Len(transit') <= 1
       /\ link.keepsWrites /\ (\A p \in 1..Len(transit) : OneWrite(transit[p])) =>
            \A p \in 1..Len(transit') : OneWrite(transit'[p])
  <2>1. started # <<>> => x = FrameSize(Last(started))
    BY <1>6
  <2>2. k \in Nat \ {0} /\ j \in Nat /\ Stream(started, buf, transit)
        /\ Front(started, k, j, buf, transit) /\ Back(started, x, k, j, buf, transit)
    BY <1>3, <1>4
  <2> HIDE DEF x, k, j
  <2> QED BY <1>1, <1>3, <1>9, <2>1, <2>2, StreamHeader
<1>13. WriterInv'
  <2>1. \A i \in 1..Len(started) : started[i] # m
    <3>1. \A i \in 1..Len(started) : i \in DOMAIN started
      BY <1>3
    <3> QED BY <1>1, <3>1 DEF Started
  <2>2. \A i \in 1..Len(started') : i \in 1..Len(started) \/ i = Len(started) + 1
    BY <1>4, <1>11
  <2>3. \A i, l \in 1..Len(started') : started'[i] = started'[l] => i = l
    BY <1>3, <1>11, <2>1, <2>2 DEF Distinct
  <2>4. started' # <<>> /\ Last(started') = m
    BY <1>4, <1>11, EmptySeq DEF Last
  <2>5. \A v \in Writers : writing'[v] = m
    BY <1>5, <1>7
  <2> QED BY <2>3, <2>4, <2>5 DEF WriterInv, Distinct
<1>14. Current <= Len(started) => Current <= Len(started') /\ started'[Current] = started[Current]
  BY <1>4, <1>11
<1>15. ReaderInv'
  <2>1. got = <<>> => Len(got) = 0
    BY EmptySeq
  <2>2. ASSUME NEW i \in 1..Len(got) PROVE got # <<>>
    BY <1>4, <2>1
  <2> QED BY <1>1, <1>3, <1>10, <1>14, <2>2 DEF ReaderInv
<1>16. LinkInv'
  BY <1>1, <1>3, <1>10, <1>12, <1>14 DEF LinkInv
<1>17. FramesIntact'
  <2>1. Len(out) <= Len(started')
    BY <1>4, <1>11
  <2>2. \A i \in 1..Len(out) : out[i] = started'[i]
    BY <1>4, <1>11
  <2>3. out \in Seq(Messages \cup {Garbled})
    BY <1>3, TypeParts
  <2>4. out = SubSeq(started', 1, Len(out))
    BY <1>11, <2>1, <2>2, <2>3, PrefixForm
  <2> QED BY <1>1, <2>1, <2>4 DEF FramesIntact
<1> QED BY <1>1, <1>2, <1>8, <1>10, <1>12, <1>13, <1>15, <1>16, <1>17 DEF FlowInv

\* The data of the frame begun last is written; there may be none.
LEMMA WriteDataFlow ==
    ASSUME FrameInv, OneWriter, NEW w \in Writers, WriteData(w)
    PROVE  FlowInv' /\ FramesIntact'
<1> DEFINE m == writing[w]
<1>1. /\ ~broken /\ m # NoMessage /\ Push(Body(m))
      /\ writing' = [writing EXCEPT ![w] = NoMessage]
      /\ UNCHANGED <<link, started, broken, buf, stage, frame, got, out>>
  BY DEF WriteData, readerVars
<1>2. stage # "stopped"
  BY <1>1 DEF FrameInv, FlowInv
<1>3. /\ TypeInv /\ FramesIntact /\ WriterInv /\ ReaderInv /\ LinkInv
      /\ Stream(started, buf, transit)
      /\ Front(started, Current, Place, buf, transit)
      /\ Back(started, Written, Current, Place, buf, transit)
      /\ started \in Seq(Messages) /\ transit \in Seq(Pieces) /\ buf \in Seq(Cells)
      /\ link.keepsWrites \in BOOLEAN /\ (link.keepsWrites \/ Len(transit) <= 1)
  BY <1>1, <1>2, Flowing
<1>4. Current \in Nat \ {0} /\ Place \in Nat
  BY <1>3, Places
<1>5. writing \in [Writers -> Messages \cup {NoMessage}] /\ \A v \in Writers : v = w
  BY <1>3, TypeParts DEF OneWriter
<1>6. m \in Messages /\ started # <<>> /\ m = Last(started)
  BY <1>1, <1>3, <1>5 DEF WriterInv
<1>7. Written = HeaderSize
  BY <1>1 DEF Written
<1>8. Written' = FrameSize(m)
  <2>1. \A v \in Writers : writing'[v] = NoMessage
    BY <1>1, <1>5
  <2> QED BY <1>1, <1>6, <2>1 DEF Written
<1>9. Size[m] \in Nat /\ FrameSize(m) = HeaderSize + Size[m] /\ HeaderSize \in Nat
      /\ (Body(m) = <<>> <=> Size[m] = 0)
  BY <1>6, FrameSizes, WhatIsWritten
<1>10. Current' = Current /\ Place' = Place
  BY <1>1 DEF Current, Place
<1> DEFINE k == Current
           j == Place
<1> HIDE DEF m
<1>11. /\ Stream(started, buf, transit')
       /\ Front(started, k, j, buf, transit')
       /\ Back(started, FrameSize(m), k, j, buf, transit')
       /\ ~link.keepsWrites => Len(transit') <= 1
       /\ link.keepsWrites /\ (\A p \in 1..Len(transit) : OneWrite(transit[p])) =>
            \A p \in 1..Len(transit') : OneWrite(transit'[p])
  <2>1. k \in Nat \ {0} /\ j \in Nat /\ Stream(started, buf, transit)
        /\ Front(started, k, j, buf, transit) /\ Back(started, HeaderSize, k, j, buf, transit)
    BY <1>3, <1>4, <1>7
  <2> HIDE DEF k, j
  <2>2. CASE Size[m] = 0
    <3>1. transit' = transit /\ FrameSize(m) = HeaderSize
      BY <1>1, <1>9, <2>2 DEF Push
    <3>2. ~link.keepsWrites => Len(transit) <= 1
      BY <1>3 DEF LinkInv
    <3> QED BY <2>1, <3>1, <3>2
  <2>3. CASE Size[m] # 0
    <3>1. transit' = Pushed(link.keepsWrites, transit, Body(m)) /\ Size[m] > 0
      BY <1>1, <1>9, <2>3 DEF Push, Pushed
    <3> QED BY <1>3, <1>6, <2>1, <3>1, StreamBody
  <2> QED BY <2>2, <2>3
<1>12. WriterInv'
  <2>1. \A v \in Writers : writing'[v] = NoMessage
    BY <1>1, <1>5
  <2> QED BY <1>1, <1>3, <2>1 DEF WriterInv
<1>13. ReaderInv'
  BY <1>1, <1>3, <1>10 DEF ReaderInv
<1>14. LinkInv'
  BY <1>1, <1>3, <1>10, <1>11 DEF LinkInv
<1>15. FramesIntact'
  BY <1>1, <1>3 DEF FramesIntact
<1> QED BY <1>1, <1>2, <1>8, <1>10, <1>11, <1>12, <1>13, <1>14, <1>15 DEF FlowInv

\* What is left in transit was written as it was.
LEMMA RestLinks ==
    ASSUME NEW tr \in Seq(Pieces), tr # <<>>, NEW n \in 1..Len(Head(tr))
    PROVE  /\ Len(Rest(tr, n)) <= Len(tr)
           /\ (\A p \in 1..Len(tr) : OneWrite(tr[p])) =>
                \A p \in 1..Len(Rest(tr, n)) : OneWrite(Rest(tr, n)[p])
<1> DEFINE r == Rest(tr, n)
           h == tr[1]
<1>1. /\ Head(tr) = h /\ h \in Seq(Cells) /\ Len(h) \in Nat
      /\ Len(tr) \in Nat /\ Len(tr) >= 1
  BY RestFacts
<1>2. n = Len(h) => Len(r) = Len(tr) - 1 /\ \A p \in 1..Len(r) : r[p] = tr[p + 1]
  BY RestFacts
<1>3. n < Len(h) => /\ Len(r) = Len(tr)
                    /\ r[1] = SubSeq(h, n + 1, Len(h))
                    /\ \A p \in 2..Len(tr) : r[p] = tr[p]
  BY RestFacts
<1>4. n \in 1..Len(h)
  BY <1>1
<1> HIDE DEF r, h
<1>5. CASE n = Len(h)
  <2>1. \A p \in 1..Len(r) : p + 1 \in 1..Len(tr)
    BY <1>1, <1>2, <1>5
  <2>2. Len(r) <= Len(tr)
    BY <1>1, <1>2, <1>5
  <2> QED BY <1>2, <1>5, <2>1, <2>2 DEF r
<1>6. CASE n < Len(h)
  <2>1. n + 1 \in 1..(Len(h) + 1) /\ Len(h) \in 0..Len(h)
    BY <1>1, <1>4, <1>6
  <2>2. OneWrite(h) => OneWrite(SubSeq(h, n + 1, Len(h)))
    BY <1>1, <2>1, SubPiece
  <2>3. \A p \in 1..Len(tr) : p = 1 \/ p \in 2..Len(tr)
    BY <1>1
  <2>4. 1 \in 1..Len(tr) /\ Len(r) <= Len(tr)
    BY <1>1, <1>3, <1>6
  <2>5. ASSUME \A p \in 1..Len(tr) : OneWrite(tr[p]), NEW p \in 1..Len(r) PROVE OneWrite(r[p])
    <3>1. p \in 1..Len(tr)
      BY <1>3, <1>6
    <3>2. CASE p = 1
      BY <1>3, <1>6, <2>2, <2>4, <2>5, <3>2 DEF h
    <3>3. CASE p \in 2..Len(tr)
      BY <1>3, <1>6, <2>5, <3>1, <3>3
    <3> QED BY <2>3, <3>1, <3>2, <3>3
  <2> QED BY <2>4, <2>5 DEF r
<1> QED BY <1>1, <1>4, <1>5, <1>6

\* The reader takes cells straight from the connection.
LEMMA ReadDirectFlow ==
    ASSUME FrameInv, transit # <<>>, NEW n \in 1..Len(Head(transit)), ReadDirect(n)
    PROVE  FlowInv' /\ FramesIntact'
<1> DEFINE c == SubSeq(Head(transit), 1, n)
           k == Current
           j == Place
<1>1. /\ stage # "stopped" /\ buf = <<>> /\ transit' = Rest(transit, n)
      /\ n <= Need /\ got' = got \o c
      /\ UNCHANGED <<link, writing, started, broken, buf, stage, frame, out>>
  BY DEF ReadDirect, Reading, Rest
<1>2. /\ TypeInv /\ FramesIntact /\ WriterInv /\ ReaderInv /\ LinkInv
      /\ Stream(started, <<>>, transit)
      /\ Front(started, k, j, <<>>, transit)
      /\ ~broken => Back(started, Written, k, j, <<>>, transit)
      /\ started \in Seq(Messages) /\ transit \in Seq(Pieces)
      /\ Distinct(started)
  BY <1>1, Flowing
<1>3. k \in 1..Len(started) /\ j \in Nat
  BY <1>2, Places DEF Front, IsNext
<1>4. /\ Head(transit) = transit[1] /\ Head(transit) \in Seq(Cells)
      /\ Len(Head(transit)) \in Nat
  BY <1>2, RestFacts
<1>5. n \in Nat /\ n > 0 /\ 1 \in 1..(Len(Head(transit)) + 1) /\ n \in 0..Len(Head(transit))
      /\ 1 <= n /\ n - 1 + 1 = n
  BY <1>4
<1>6. j + n <= FrameSize(started[k])
  BY <1>1, <1>3, <1>5, NeedFits
<1>7. /\ c \in Seq(Cells) /\ Len(c) = n
      /\ \A i \in 1..n : c[i] = Head(transit)[1 + i - 1]
  BY <1>4, <1>5, SubPiece
<1> HIDE DEF c, k, j
<1>8. /\ \A i \in 1..n : transit[1][i] = <<started[k], j + i>>
      /\ Stream(started, <<>>, transit')
      /\ Front(started, k, j + n, <<>>, transit')
      /\ \A x : Back(started, x, k, j, <<>>, transit) => Back(started, x, k, j + n, <<>>, transit')
  <2>1. /\ started \in Seq(Messages) /\ transit \in Seq(Pieces) /\ j \in Nat
        /\ Distinct(started)
        /\ Stream(started, <<>>, transit) /\ Front(started, k, j, <<>>, transit)
    BY <1>2, <1>3
  <2> QED BY <1>1, <1>6, <2>1, StreamRead
<1>9. \A i \in 1..Len(c) : c[i] = <<started[k], j + i>>
  <2>1. ASSUME NEW i \in 1..n PROVE 1 + i - 1 = i
    OBVIOUS
  <2> QED BY <1>4, <1>7, <1>8, <2>1
<1>10. ReaderInv' /\ Current' = k /\ Place' = j + n
  <2>1. Len(c) <= Need /\ Len(c) > 0
    BY <1>1, <1>5, <1>7
  <2> QED BY <1>1, <1>3, <1>7, <1>9, <2>1, ReaderTakes DEF k, j
<1>11. Written' = Written
  BY <1>1 DEF Written
<1>12. LinkInv'
  <2>1. Len(transit') <= Len(transit) /\ Len(transit') \in Nat /\ Len(transit) \in Nat
    BY <1>1, <1>2, RestLinks, RestFacts, LenProperties
  <2>2. ~link.keepsWrites => Len(transit') <= 1
    BY <1>2, <2>1 DEF LinkInv
  <2>3. link.keepsWrites => \A p \in 1..Len(transit') : OneWrite(transit'[p])
    BY <1>1, <1>2, RestLinks DEF LinkInv
  <2>4. buf' = <<>> /\ Len(<<>>) = 0
    BY <1>1, EmptySeq
  <2>5. \A i \in 1..Len(buf') : FALSE
    BY <2>4
  <2> QED BY <1>1, <1>2, <2>2, <2>3, <2>5 DEF LinkInv
<1>13. WriterInv' /\ FramesIntact'
  BY <1>1, <1>2 DEF WriterInv, Distinct, FramesIntact
<1> QED BY <1>1, <1>2, <1>8, <1>10, <1>11, <1>12, <1>13 DEF FlowInv

\* The reader fills its buffer, with nothing but the current Write if the
\* connection keeps the Writes apart.
LEMMA FillFlow ==
    ASSUME FrameInv, transit # <<>>, NEW n \in 1..Len(Head(transit)), Fill(n)
    PROVE  FlowInv' /\ FramesIntact'
<1> DEFINE k == Current
           j == Place
           h == transit[1]
<1>1. /\ stage # "stopped" /\ buf = <<>> /\ transit' = Rest(transit, n)
      /\ Need > 0 /\ buf' = SubSeq(Head(transit), 1, n)
      /\ UNCHANGED <<link, writing, started, broken, stage, frame, got, out>>
  BY DEF Fill, Reading, Rest
<1>2. /\ TypeInv /\ FramesIntact /\ WriterInv /\ ReaderInv /\ LinkInv
      /\ Stream(started, <<>>, transit)
      /\ Front(started, k, j, <<>>, transit)
      /\ ~broken => Back(started, Written, k, j, <<>>, transit)
      /\ started \in Seq(Messages) /\ transit \in Seq(Pieces)
  BY <1>1, Flowing
<1>3. k \in 1..Len(started) /\ j \in Nat /\ IsNext(started, k, j, h[1])
  BY <1>2, Places DEF Front, IsNext
<1>4. /\ Head(transit) = h /\ h \in Seq(Cells) /\ Len(h) \in Nat
      /\ Len(transit) \in Nat /\ Len(transit) >= 1
  BY <1>2, RestFacts
<1>5. Need \in Int
  BY <1>1, <1>2, NeedType
<1>6. j + 1 <= FrameSize(started[k])
  BY <1>1, <1>3, <1>5, NeedFits
<1>7. h[1] = <<started[k], j + 1>>
  <2>1. started[k] \in Messages
    BY <1>2, <1>3, ElementOfSeq
  <2>2. FrameSize(started[k]) \in Nat
    BY <2>1, FrameSizes
  <2>3. j < FrameSize(started[k]) /\ j # FrameSize(started[k])
    BY <1>3, <1>6, <2>2
  <2> QED BY <1>3, <2>3 DEF IsNext
<1>8. stage = "header" => j + 1 <= HeaderSize
  <2>1. ASSUME stage = "header" PROVE j + 1 <= HeaderSize
    <3>1. HeaderSize - Len(got) > 0 /\ j = Len(got)
      BY <1>1, <1>2, <2>1, Places DEF Need, Place
    <3>2. HeaderSize \in Nat
      BY FramingAssumption
    <3> QED BY <1>3, <3>1, <3>2
  <2> QED BY <2>1
<1> HIDE DEF k, j, h
<1>9. /\ Stream(started, buf', transit')
      /\ Front(started, k, j, buf', transit')
      /\ \A x : Back(started, x, k, j, <<>>, transit) => Back(started, x, k, j, buf', transit')
  <2>1. buf' = SubSeq(transit[1], 1, n)
    BY <1>1, <1>4 DEF h
  <2> QED BY <1>1, <1>2, <2>1, StreamFill
<1>10. Current' = k /\ Place' = j /\ Written' = Written
  BY <1>1 DEF Written, Current, Place, k, j
<1>11. LinkInv'
  <2>1. Len(transit') <= Len(transit) /\ Len(transit') \in Nat
    BY <1>1, <1>2, RestLinks, RestFacts, LenProperties
  <2>2. ~link.keepsWrites => Len(transit') <= 1
    BY <1>2, <1>4, <2>1 DEF LinkInv
  <2>3. link.keepsWrites => \A p \in 1..Len(transit') : OneWrite(transit'[p])
    BY <1>1, <1>2, RestLinks DEF LinkInv
  <2>4. ASSUME link.keepsWrites, NEW i \in 1..Len(buf')
        PROVE  buf'[i][1] = started[k] /\ (stage = "header" => buf'[i][2] <= HeaderSize)
    <3>1. 1 \in 1..(Len(h) + 1) /\ n \in 0..Len(h) /\ 1 <= n /\ n - 1 + 1 = n /\ 1 \in 1..Len(h)
      BY <1>4
    <3>2. buf' = SubSeq(h, 1, n) /\ Len(buf') = n
          /\ \A l \in 1..Len(buf') : buf'[l] = h[1 + l - 1] /\ 1 + l - 1 \in 1..Len(h)
      BY <1>1, <1>4, <3>1, SubPiece
    <3>3. PICK l \in 1..Len(h) : buf'[i] = h[l]
      BY <3>2
    <3>4. OneWrite(h)
      <4>1. 1 \in 1..Len(transit)
        BY <1>4
      <4> QED BY <1>2, <2>4, <4>1 DEF LinkInv, h
    <3>5. h[1][1] = h[l][1] /\ (h[1][2] <= HeaderSize => h[l][2] <= HeaderSize)
      BY <3>1, <3>4 DEF OneWrite
    <3>6. h[1][1] = started[k] /\ h[1][2] = j + 1
      BY <1>7
    <3> QED BY <1>8, <3>3, <3>5, <3>6
  <2>5. k <= Len(started)
    BY <1>3
  <2>6. link.keepsWrites \/ ~link.newReader
    BY <1>2 DEF LinkInv
  <2> QED BY <1>1, <1>10, <2>2, <2>3, <2>4, <2>5, <2>6 DEF LinkInv
<1>12. WriterInv' /\ FramesIntact'
  BY <1>1, <1>2 DEF WriterInv, FramesIntact
<1>13. ReaderInv'
  BY <1>1, <1>2, <1>10 DEF ReaderInv, k
<1> QED BY <1>1, <1>2, <1>9, <1>10, <1>11, <1>12, <1>13 DEF FlowInv

\* The reader takes cells from its buffer.
LEMMA TakeBufferedFlow ==
    ASSUME FrameInv, TakeBuffered
    PROVE  FlowInv' /\ FramesIntact'
<1> DEFINE n == Min2(Need, Len(buf))
           c == SubSeq(buf, 1, n)
           k == Current
           j == Place
<1>1. /\ stage # "stopped" /\ buf # <<>> /\ Need > 0
      /\ got' = got \o c /\ buf' = SubSeq(buf, n + 1, Len(buf))
      /\ UNCHANGED <<link, writing, started, transit, broken, stage, frame, out>>
  BY DEF TakeBuffered
<1>2. /\ TypeInv /\ FramesIntact /\ WriterInv /\ ReaderInv /\ LinkInv
      /\ Stream(started, buf, transit)
      /\ Front(started, k, j, buf, transit)
      /\ ~broken => Back(started, Written, k, j, buf, transit)
      /\ started \in Seq(Messages) /\ buf \in Seq(Cells)
      /\ Distinct(started)
  BY <1>1, Flowing
<1>3. k \in 1..Len(started) /\ j \in Nat
  BY <1>1, <1>2, Places DEF Front, IsNext
<1>4. Need \in Int /\ Len(buf) \in Nat /\ Len(buf) # 0
  BY <1>1, <1>2, NeedType, LenProperties, EmptySeq
<1>5. n \in 1..Len(buf) /\ n <= Need
  BY <1>1, <1>4 DEF Min2
<1> HIDE DEF n
<1>6. /\ n \in Nat /\ n > 0 /\ 1 \in 1..(Len(buf) + 1) /\ n \in 0..Len(buf)
      /\ 1 <= n /\ n - 1 + 1 = n
      /\ n + 1 \in 1..(Len(buf) + 1) /\ Len(buf) \in 0..Len(buf)
  BY <1>4, <1>5
<1>7. j + n <= FrameSize(started[k])
  BY <1>1, <1>3, <1>5, <1>6, NeedFits
<1>8. /\ c \in Seq(Cells) /\ Len(c) = n
      /\ \A i \in 1..n : c[i] = buf[1 + i - 1]
  BY <1>2, <1>6, SubPiece
<1> HIDE DEF c, k, j
<1>9. /\ \A i \in 1..n : buf[i] = <<started[k], j + i>>
      /\ Stream(started, buf', transit)
      /\ Front(started, k, j + n, buf', transit)
      /\ \A x : Back(started, x, k, j, buf, transit) => Back(started, x, k, j + n, buf', transit)
  <2>1. /\ started \in Seq(Messages) /\ buf \in Seq(Cells) /\ j \in Nat
        /\ Distinct(started)
        /\ Stream(started, buf, transit) /\ Front(started, k, j, buf, transit)
    BY <1>2, <1>3
  <2>2. LET t == SubSeq(buf, n + 1, Len(buf))
        IN  /\ \A i \in 1..n : buf[i] = <<started[k], j + i>>
            /\ Stream(started, t, transit) /\ Front(started, k, j + n, t, transit)
            /\ \A x : Back(started, x, k, j, buf, transit) => Back(started, x, k, j + n, t, transit)
    BY <1>5, <1>7, <2>1, StreamTake
  <2> QED BY <1>1, <2>2
<1>10. \A i \in 1..Len(c) : c[i] = <<started[k], j + i>>
  <2>1. ASSUME NEW i \in 1..n PROVE 1 + i - 1 = i
    OBVIOUS
  <2> QED BY <1>8, <1>9, <2>1
<1>11. ReaderInv' /\ Current' = k /\ Place' = j + n
  <2>1. Len(c) <= Need /\ Len(c) > 0
    BY <1>5, <1>6, <1>8
  <2> QED BY <1>1, <1>3, <1>8, <1>10, <2>1, ReaderTakes DEF k, j
<1>12. Written' = Written
  BY <1>1 DEF Written
<1>13. LinkInv'
  <2>0. \A i \in 1..Len(buf') : /\ buf'[i] = buf[(n + 1) + i - 1]
                               /\ (n + 1) + i - 1 \in 1..Len(buf)
    <3>1. LET t == SubSeq(buf, n + 1, Len(buf))
          IN  \A i \in 1..Len(t) : t[i] = buf[(n + 1) + i - 1] /\ (n + 1) + i - 1 \in 1..Len(buf)
      BY <1>2, <1>6, SubPiece
    <3> QED BY <1>1, <3>1
  <2>1. \A i \in 1..Len(buf') : \E l \in 1..Len(buf) : buf'[i] = buf[l]
    BY <2>0, Zenon
  <2> QED BY <1>1, <1>2, <1>11, <2>1 DEF LinkInv, k
<1>14. WriterInv' /\ FramesIntact'
  BY <1>1, <1>2 DEF WriterInv, Distinct, FramesIntact
<1> QED BY <1>1, <1>2, <1>9, <1>11, <1>12, <1>13, <1>14 DEF FlowInv

\* The header is complete: it is the header of the current frame.
LEMMA HeaderReadFlow ==
    ASSUME FrameInv, HeaderRead
    PROVE  FlowInv' /\ FramesIntact'
<1> DEFINE m == started[Current]
<1>1. /\ stage = "header" /\ Need = 0 /\ got' = <<>>
      /\ UNCHANGED <<link, writing, started, transit, broken, buf>>
  BY DEF HeaderRead
<1>2. /\ TypeInv /\ FramesIntact /\ WriterInv /\ ReaderInv /\ LinkInv
      /\ Stream(started, buf, transit)
      /\ Front(started, Current, Place, buf, transit)
      /\ ~broken => Back(started, Written, Current, Place, buf, transit)
      /\ started \in Seq(Messages)
  BY <1>1, Flowing
<1>3. /\ Len(got) \in Nat /\ HeaderSize \in Nat /\ HeaderSize > 0
      /\ Current \in Nat /\ Current >= 1 /\ Len(started) \in Nat
  BY <1>2, Places, FramingAssumption
<1>4. Len(got) = HeaderSize
  BY <1>1, <1>3 DEF Need
<1>5. got \in Seq(Cells) /\ got # <<>>
  BY <1>2, <1>3, <1>4, TypeParts, EmptySeq
<1>6. Current <= Len(started) /\ \A i \in 1..Len(got) : got[i] = <<m, i>>
  BY <1>1, <1>2, <1>5 DEF ReaderInv
<1>7. m \in Messages
  BY <1>2, <1>3, <1>6, ElementOfSeq
<1> HIDE DEF m
<1>8. got = Header(m)
  <2>1. got \in [1..HeaderSize -> Cells]
    BY <1>4, <1>5, LenProperties
  <2> QED BY <1>4, <1>6, <2>1 DEF Header
<1>9. \A l \in Messages : got = Header(l) => l = m
  <2>1. ASSUME NEW l \in Messages, got = Header(l) PROVE l = m
    <3>1. Header(l)[1] = <<l, 1>> /\ Header(m)[1] = <<m, 1>>
      BY <1>7, WhatIsWritten
    <3> QED BY <1>8, <2>1, <3>1
  <2> QED BY <2>1
<1>10. {l \in Messages : got = Header(l)} = {m}
  BY <1>7, <1>8, <1>9
<1>11. frame' = m /\ stage' = "body" /\ out' = out
  BY <1>10 DEF HeaderRead
<1>12. Current' = Current /\ Place' = Place /\ Written' = Written
  <2>1. Len(got') = 0
    BY <1>1, EmptySeq
  <2>2. Place' = HeaderSize /\ Place = HeaderSize
    BY <1>1, <1>3, <1>4, <1>11, <2>1 DEF Place
  <2> QED BY <1>1, <1>11, <2>2 DEF Current, Written
<1>13. ReaderInv'
  <2>1. Len(got') = 0 /\ \A i \in 1..Len(got') : FALSE
    BY <1>1, EmptySeq
  <2>2. Size[m] \in Nat
    BY <1>7, FrameSizes
  <2>3. 0 <= Size[m]
    BY <2>2
  <2> QED BY <1>1, <1>6, <1>11, <1>12, <2>1, <2>3 DEF ReaderInv, m
<1>14. LinkInv'
  BY <1>1, <1>2, <1>11, <1>12 DEF LinkInv
<1>15. WriterInv' /\ FramesIntact'
  BY <1>1, <1>2, <1>11 DEF WriterInv, Distinct, FramesIntact
<1> QED BY <1>1, <1>2, <1>11, <1>12, <1>13, <1>14, <1>15 DEF FlowInv

\* The data is complete: the reader is where the next frame begins, and has
\* nothing of it in a buffer that is thrown away.
LEMMA BodyReadFlow ==
    ASSUME FrameInv, BodyRead
    PROVE  FlowInv' /\ FramesIntact'
<1> DEFINE k == Current
           q == started
<1>1. /\ stage = "body" /\ Need = 0 /\ stage' = "header" /\ got' = <<>>
      /\ out' = Append(out, IF got = Body(frame) THEN frame ELSE Garbled)
      /\ buf' = IF link.newReader THEN <<>> ELSE buf
      /\ UNCHANGED <<link, writing, started, transit, broken>>
  BY DEF BodyRead
<1>2. /\ TypeInv /\ FramesIntact /\ WriterInv /\ ReaderInv /\ LinkInv
      /\ Stream(started, buf, transit)
      /\ Front(started, k, Place, buf, transit)
      /\ ~broken => Back(started, Written, k, Place, buf, transit)
      /\ started \in Seq(Messages) /\ buf \in Seq(Cells) /\ Distinct(started)
  BY <1>1, Flowing
<1>3. /\ Len(got) \in Nat /\ k \in Nat /\ k >= 1 /\ Len(q) \in Nat /\ Len(out) \in Nat
      /\ k = Len(out) + 1 /\ \A i \in 1..Len(out) : out[i] = started[i]
  BY <1>2, Places DEF Current
<1>4. /\ k <= Len(q) /\ frame = q[k] /\ \A i \in 1..Len(got) : got[i] = <<frame, HeaderSize + i>>
  BY <1>1, <1>2 DEF ReaderInv
<1>5. frame \in Messages
  BY <1>1, <1>2, TypeParts
<1>6. /\ Size[frame] \in Nat /\ HeaderSize \in Nat /\ HeaderSize > 0
      /\ FrameSize(frame) = HeaderSize + Size[frame]
  BY <1>5, FrameSizes
<1>7. Len(got) = Size[frame]
  BY <1>1, <1>3, <1>6 DEF Need
<1>8. got = Body(frame)
  <2>1. got \in [1..Size[frame] -> Cells]
    BY <1>2, <1>7, TypeParts, LenProperties
  <2> QED BY <1>4, <1>7, <2>1 DEF Body
<1>9. out' = Append(out, frame)
  BY <1>1, <1>8
<1>10. Place = FrameSize(q[k])
  BY <1>1, <1>3, <1>4, <1>6, <1>7 DEF Place
<1>11. /\ Len(out') = k /\ out' \in Seq(Messages \cup {Garbled})
       /\ out'[k] = frame /\ \A i \in 1..Len(out) : out'[i] = out[i]
  <2> DEFINE S == Messages \cup {Garbled}
  <2>1. out \in Seq(S) /\ frame \in S
    BY <1>2, <1>5, TypeParts
  <2> HIDE DEF S
  <2>2. /\ Len(Append(out, frame)) = Len(out) + 1 /\ Append(out, frame) \in Seq(S)
        /\ Append(out, frame)[Len(out) + 1] = frame
        /\ \A i \in 1..Len(out) : Append(out, frame)[i] = out[i]
    BY <2>1, AppendProperties
  <2> QED BY <1>3, <1>9, <2>2 DEF S
<1> HIDE DEF k
<1>12. Current' = k + 1 /\ Place' = 0 /\ Written' = Written
  <2>1. Len(got') = 0
    BY <1>1, EmptySeq
  <2> QED BY <1>1, <1>11, <2>1 DEF Current, Place, Written
<1>13. FramesIntact'
  <2>1. \A i \in 1..k : out'[i] = q[i]
    <3>1. \A i \in 1..k : i \in 1..Len(out) \/ i = k
      BY <1>3
    <3> QED BY <1>3, <1>4, <1>11, <3>1
  <2>2. out' = SubSeq(q, 1, Len(out'))
    BY <1>2, <1>4, <1>11, <2>1, PrefixForm
  <2> QED BY <1>1, <1>4, <1>11, <2>2 DEF FramesIntact
<1>14. ASSUME NEW d, IsNext(q, k, FrameSize(q[k]), d)
       PROVE  k + 1 <= Len(q) /\ d = <<q[k + 1], 1>> /\ IsNext(q, k + 1, 0, d)
  <2>1. FrameSize(q[k]) \in Nat
    BY <1>4, <1>6
  <2>2. k + 1 <= Len(q) /\ d = <<q[k + 1], 1>>
    BY <1>14, <2>1 DEF IsNext
  <2>3. k + 1 \in 1..Len(q)
    BY <1>3, <2>2
  <2>4. q[k + 1] \in Messages
    BY <1>2, <2>3, ElementOfSeq
  <2>5. 0 < FrameSize(q[k + 1]) /\ 0 + 1 = 1
    BY <2>4, FrameSizes
  <2> QED BY <2>2, <2>3, <2>5 DEF IsNext
<1>15. link.keepsWrites => buf = <<>>
  <2>1. ASSUME link.keepsWrites, buf # <<>> PROVE FALSE
    <3>1. k + 1 <= Len(q) /\ buf[1] = <<q[k + 1], 1>>
      BY <1>2, <1>10, <1>14, <2>1 DEF Front
    <3>2. 1 \in 1..Len(buf)
      BY <1>2, <2>1, EmptySeq, LenProperties
    <3>3. buf[1][1] = q[k]
      BY <1>2, <2>1, <3>2 DEF LinkInv, k
    <3>4. k \in 1..Len(q) /\ k + 1 \in 1..Len(q) /\ k # k + 1
      BY <1>3, <1>4, <3>1
    <3>5. q[k + 1] = q[k]
      BY <3>1, <3>3
    <3> QED BY <1>2, <3>4, <3>5 DEF Distinct
  <2> QED BY <2>1
<1>16. buf' = buf
  BY <1>1, <1>2, <1>15 DEF LinkInv
<1>17. Front(q, k + 1, 0, buf, transit)
  BY <1>2, <1>10, <1>14 DEF Front
<1>18. ~broken => Back(q, Written, k + 1, 0, buf, transit)
  <2> SUFFICES ASSUME ~broken PROVE Back(q, Written, k + 1, 0, buf, transit)
    OBVIOUS
  <2>1. Back(q, Written, k, FrameSize(q[k]), buf, transit)
    BY <1>2, <1>10
  <2>2. ASSUME buf = <<>>, transit = <<>>
        PROVE  k + 1 = Len(q) + 1 /\ Written = FrameSize(Last(q))
    <3>1. k # Len(q) + 1
      BY <1>3, <1>4
    <3>2. k = Len(q) /\ FrameSize(q[k]) = Written
      BY <2>1, <2>2, <3>1 DEF Back
    <3> QED BY <3>2 DEF Last
  <2> QED BY <2>1, <2>2 DEF Back
<1>19. ReaderInv'
  <2>1. Len(got') = 0 /\ (\A i \in 1..Len(got') : FALSE)
    BY <1>1, EmptySeq
  <2>2. 0 <= HeaderSize
    BY <1>6
  <2> QED BY <1>1, <2>1, <2>2 DEF ReaderInv
<1>20. LinkInv'
  <2>1. link.keepsWrites => \A i \in 1..Len(buf) : FALSE
    BY <1>15, EmptySeq
  <2> QED BY <1>1, <1>2, <1>16, <2>1 DEF LinkInv
<1>21. WriterInv'
  BY <1>1, <1>2 DEF WriterInv, Distinct
<1> QED BY <1>1, <1>2, <1>12, <1>13, <1>16, <1>17, <1>18, <1>19, <1>20, <1>21 DEF FlowInv

\* When the connection is lost, what the reader has is still in order.
LEMMA BreakFlow ==
    ASSUME FrameInv, Break \/ ReadError
    PROVE  FlowInv' /\ FramesIntact'
<1>1. CASE Break
  <2>1. /\ broken' = TRUE /\ transit' = <<>>
        /\ UNCHANGED <<link, writing, started, buf, stage, frame, got, out>>
    BY <1>1 DEF Break, readerVars
  <2>2. WriterInv' /\ FramesIntact'
    BY <2>1 DEF FrameInv, FlowInv, WriterInv, Distinct, FramesIntact
  <2>3. Current' = Current /\ Place' = Place
    BY <2>1 DEF Current, Place
  <2>4. ASSUME stage # "stopped"
        PROVE  /\ ReaderInv' /\ Stream(started, buf, <<>>) /\ LinkInv'
               /\ Front(started, Current, Place, buf, <<>>)
    <3>1. /\ ReaderInv /\ LinkInv /\ Stream(started, buf, transit)
          /\ Front(started, Current, Place, buf, transit)
      BY <2>4, Flowing
    <3>2. Len(<<>>) = 0 /\ \A p \in 1..Len(<<>>) : FALSE
      BY EmptySeq
    <3>3. ReaderInv'
      BY <2>1, <2>3, <3>1 DEF ReaderInv
    <3>4. Stream(started, buf, <<>>) /\ Front(started, Current, Place, buf, <<>>)
      BY <3>1, <3>2 DEF Stream, Front
    <3>5. LinkInv'
      <4>1. Len(transit') <= 1 /\ \A p \in 1..Len(transit') : FALSE
        BY <2>1, <3>2
      <4> QED BY <2>1, <2>3, <3>1, <4>1 DEF LinkInv
    <3> QED BY <3>3, <3>4, <3>5
  <2> QED BY <2>1, <2>2, <2>3, <2>4 DEF FlowInv
<1>2. CASE ReadError
  <2>1. broken' /\ stage' = "stopped" /\ UNCHANGED <<started, writing, out>>
    BY <1>2 DEF ReadError
  <2> QED BY <2>1 DEF FrameInv, FlowInv, WriterInv, Distinct, FramesIntact
<1> QED BY <1>1, <1>2

\* Nothing happens.
LEMMA StutterFlow ==
    ASSUME FrameInv, UNCHANGED vars
    PROVE  FlowInv' /\ FramesIntact'
<1>1. UNCHANGED <<link, writing, started, transit, broken, buf, stage, frame, got, out>>
  BY DEF vars
<1>2. Current' = Current /\ Place' = Place /\ Written' = Written
  BY <1>1 DEF Current, Place, Written
<1>3. (WriterInv => WriterInv') /\ (FramesIntact => FramesIntact')
  BY <1>1 DEF WriterInv, Distinct, FramesIntact
<1>4. ReaderInv => ReaderInv'
  BY <1>1, <1>2 DEF ReaderInv
<1>5. LinkInv => LinkInv'
  BY <1>1, <1>2 DEF LinkInv
<1> QED BY <1>1, <1>2, <1>3, <1>4, <1>5 DEF FrameInv, FlowInv

-------------------------------------------------------------------------------
(* The theorems                                                            *)

\* The types of Framing: the cells in transit and in the buffer are numbered
\* cells of messages, no piece is empty, and no Read puts more into the
\* bufio.Reader than its buffer holds.
THEOREM FramingTypes == Spec => []TypeOK
<1>1. Init => TypeInv
  <2> SUFFICES ASSUME Init PROVE TypeInv
    OBVIOUS
  <2>1. /\ started = <<>> /\ transit = <<>> /\ buf = <<>> /\ got = <<>> /\ out = <<>>
        /\ link \in Links /\ writing = [w \in Writers |-> NoMessage] /\ broken = FALSE
        /\ stage = "header" /\ frame = NoMessage
    BY DEF Init
  <2>2. Len(buf) <= BufSize
    BY <2>1, EmptySeq, FramingAssumption
  <2> QED BY <2>1, <2>2, EmptySeq, TypeParts
<1>2. TypeInv => TypeOK
  BY DEF TypeInv
<1> QED BY <1>1, <1>2, TypeStep, PTL DEF Spec

\* What ReadOneFrameDataFromStream passes on is what WriteBytesViaStream was
\* given, frame by frame and in order, however the transport cuts the bytes up
\* and whatever the sizes of header, data and buffer; provided that one
\* goroutine writes to the connection, and that a connection which runs Writes
\* together is read through one bufio.Reader from beginning to end.
THEOREM FramesStayIntact ==
    ASSUME OneWriter, GoodLinks
    PROVE  Spec => []FramesIntact
<1>1. Init => FrameInv
  <2> SUFFICES ASSUME Init PROVE FrameInv
    OBVIOUS
  <2>1. /\ started = <<>> /\ transit = <<>> /\ buf = <<>> /\ got = <<>> /\ out = <<>>
        /\ link \in Links /\ writing = [w \in Writers |-> NoMessage] /\ broken = FALSE
        /\ stage = "header" /\ frame = NoMessage
    BY DEF Init
  <2>2. Len(<<>>) = 0 /\ \A i \in 1..Len(<<>>) : FALSE
    BY EmptySeq
  <2>3. Len(buf) <= BufSize
    BY <2>1, <2>2, FramingAssumption
  <2>4. TypeInv
    BY <2>1, <2>3, EmptySeq, TypeParts
  <2>5. FramesIntact
    <3>1. out = SubSeq(started, 1, Len(out))
      <4>1. out \in Seq(Messages) /\ started \in Seq(Messages) /\ Len(out) <= Len(started)
        BY <2>1, <2>2, EmptySeq
      <4> QED BY <2>1, <2>2, <4>1, PrefixForm
    <3> QED BY <2>1, <2>2, <3>1 DEF FramesIntact
  <2>6. WriterInv
    BY <2>1, <2>2 DEF WriterInv, Distinct
  <2>7. ReaderInv
    <3>1. Len(got) <= HeaderSize /\ stage # "body"
      BY <2>1, <2>2, FramingAssumption
    <3> QED BY <2>1, <2>2, <3>1 DEF ReaderInv
  <2>8. Stream(started, buf, transit)
    BY <2>1, <2>2 DEF Stream, NoGap, Linked
  <2>9. /\ Front(started, Current, Place, buf, transit)
    BY <2>1 DEF Front
  <2>10. LinkInv
    BY <2>1, <2>2 DEF LinkInv, GoodLinks
  <2>11. Back(started, Written, Current, Place, buf, transit)
    <3>1. Current = Len(started) + 1 /\ Place = 0
      BY <2>1, <2>2 DEF Current, Place
    <3> QED BY <2>1, <3>1 DEF Back
  <2>12. FlowInv
    BY <2>1, <2>6, <2>7, <2>8, <2>9, <2>10, <2>11 DEF FlowInv
  <2> QED BY <2>4, <2>5, <2>12 DEF FrameInv, TypeInv
<1>2. FrameInv /\ [Next]_vars => FrameInv'
  <2> SUFFICES ASSUME FrameInv, [Next]_vars PROVE FrameInv'
    OBVIOUS
  <2>1. TypeInv'
    BY TypeStep DEF FrameInv, TypeInv
  <2>2. FlowInv' /\ FramesIntact'
    <3>1. CASE \E w \in Writers, m \in Messages : WriteLength(w, m)
      BY <3>1, WriteLengthFlow
    <3>2. CASE \E w \in Writers : WriteData(w)
      BY <3>2, WriteDataFlow
    <3>3. CASE transit # <<>> /\ \E n \in 1..Len(Head(transit)) : ReadDirect(n) \/ Fill(n)
      BY <3>3, ReadDirectFlow, FillFlow
    <3>4. CASE TakeBuffered
      BY <3>4, TakeBufferedFlow
    <3>5. CASE HeaderRead
      BY <3>5, HeaderReadFlow
    <3>6. CASE BodyRead
      BY <3>6, BodyReadFlow
    <3>7. CASE Break \/ ReadError
      BY <3>7, BreakFlow
    <3>8. CASE UNCHANGED vars
      BY <3>8, StutterFlow
    <3> QED BY <3>1, <3>2, <3>3, <3>4, <3>5, <3>6, <3>7, <3>8 DEF Next, WriterStep, ReaderStep
  <2> QED BY <2>1, <2>2 DEF FrameInv, TypeInv
<1>3. FrameInv => FramesIntact
  BY DEF FrameInv
<1> QED BY <1>1, <1>2, <1>3, PTL DEF Spec
===============================================================================
