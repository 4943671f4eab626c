--------------------------- MODULE RequestPathProofs --------------------------
(***************************************************************************)
(* Proofs about RequestPath, for segments, ids, keys and tables of any     *)
(* kind and number, and paths of any length.                               *)
(***************************************************************************)
EXTENDS RequestPath, SequenceTheorems, FiniteSetTheorems, WellFoundedInduction, TLAPS

\* What the request has met so far: the names are those of its path, and it
\* has been found, or not, in the table under them.
Looked ==
    /\ at # "parse" => names = Detail(path).names
    /\ at \in {"ssgw", "called"} => /\ names.service \in table \ Bare
                                    /\ names.service = NoName \/ reply = "none"
    /\ at = "lookup" => names.service = NoName \/ reply = "none"
    /\ at = "parse" => reply = "none"
    /\ at = "refused" => names.service \notin table \ Bare
    /\ at = "called" => target = Join(Detail(path).proxied)

\* The inductive invariant.
PathInv == TypeOK /\ Looked
-------------------------------------------------------------------------------
(* The operators                                                           *)

\* A set of naturals that is not empty has a least element, and Min is it.
LEMMA MinOfNats ==
    ASSUME NEW S \in SUBSET Nat, S # {}
    PROVE  Min(S) \in S /\ \A i \in S : Min(S) <= i
<1> DEFINE R == {ss \in Nat \X Nat : ss[1] < ss[2]}
<1>1. IsWellFoundedOn(R, Nat)
  BY NatLessThanWellFounded DEF OpToRel
<1> HIDE DEF R
<1>2. PICK m \in S : \A i \in S : ~ (<<i, m>> \in R)
  BY <1>1, WFMin
<1>3. \A i \in S : m <= i
  <2> SUFFICES ASSUME NEW i \in S, i < m PROVE FALSE
    OBVIOUS
  <2>1. <<i, m>> \in R
    BY DEF R
  <2> QED
    BY <1>2, <2>1
<1> QED
  BY <1>3 DEF Min

\* Paths are sequences of segments, and the version and the key behind it are
\* segments of them.
LEMMA PathSeq ==
    ASSUME NEW p \in Paths
    PROVE  /\ p \in Seq(Segments)
           /\ Len(p) \in Nat \ {0}
           /\ WithoutWs(p) \in Seq(Segments)
           /\ Len(WithoutWs(p)) \in Nat
           /\ \A i \in 1..Len(p) - 1 : p[i] # Empty
<1>1. /\ p \in Seq(Segments)
      /\ Len(p) \in Nat \ {0}
      /\ \A i \in 1..Len(p) - 1 : p[i] # Empty
  <2>1. PICK n \in 1..MaxLen : p \in [1..n -> Segments]
    BY DEF Paths
  <2>2. p \in Seq(Segments) /\ Len(p) = n
    BY <2>1, PathAssumption
  <2> QED
    BY <2>1, <2>2, PathAssumption DEF Paths
<1>2. p # <<>>
  BY <1>1, EmptySeq
<1>3. Tail(p) \in Seq(Segments)
  BY <1>1, <1>2, HeadTailProperties
<1>4. WithoutWs(p) \in Seq(Segments)
  BY <1>1, <1>3 DEF WithoutWs
<1> QED
  BY <1>1, <1>4, LenProperties

LEMMA KeySegmentOf ==
    ASSUME NEW p \in Seq(Segments), Versions(p) # {}
    PROVE  /\ KeySegment(p) \in 2..Len(p)
           /\ KeySegment(p) - 1 \in Versions(p)
           /\ \A i \in Versions(p) : KeySegment(p) <= i + 1
<1>1. Len(p) \in Nat
  BY LenProperties
<1>2. Versions(p) \in SUBSET Nat /\ Versions(p) \subseteq 1..Len(p) - 1
  BY <1>1 DEF Versions
<1>3. Min(Versions(p)) \in Versions(p) /\ \A i \in Versions(p) : Min(Versions(p)) <= i
  BY <1>2, MinOfNats
<1> DEFINE m == Min(Versions(p))
<1>4. m \in 1..Len(p) - 1 /\ m + 1 - 1 = m
  BY <1>2, <1>3
<1> QED
  BY <1>1, <1>2, <1>3, <1>4 DEF KeySegment

\* The matches are the runs of the segments, and there are finitely many.
LEMMA MatchesOf ==
    ASSUME NEW p \in Seq(Segments)
    PROVE  /\ IsFiniteSet(Matches(p))
           /\ \A i, j : <<i, j>> \in Matches(p) <=>
                          i \in 1..Len(p) /\ j \in 1..Len(p[i].runs)
           /\ \A m \in Matches(p) : /\ m[1] \in 1..Len(p) /\ m[2] \in 1..Len(p[m[1]].runs)
                                    /\ m = <<m[1], m[2]>>
                                    /\ Run(p, m) \in Runs
<1>1. DOMAIN p = 1..Len(p) /\ Len(p) \in Nat /\ \A i \in 1..Len(p) : p[i] \in Segments
  BY LenProperties, ElementOfSeq
<1>2. \A i \in 1..Len(p) : p[i].runs \in Seq(Runs)
  BY <1>1, PathAssumption
<1>3. \A i \in 1..Len(p) : /\ DOMAIN p[i].runs = 1..Len(p[i].runs)
                           /\ Len(p[i].runs) \in Nat
  BY <1>2, LenProperties
<1> DEFINE M(i) == {i} \X DOMAIN p[i].runs
           f == [i \in 1..Len(p) |-> M(i)]
           T == {M(i) : i \in 1..Len(p)}
<1>4. IsFiniteSet(T)
  <2>1. f \in Surjection(1..Len(p), T)
    BY DEF Surjection
  <2>2. IsFiniteSet(1..Len(p))
    BY <1>1, FS_Interval
  <2> HIDE DEF T, f
  <2> QED
    BY <2>1, <2>2, FS_Surjection
<1>5. \A i \in 1..Len(p) : IsFiniteSet(M(i))
  <2> SUFFICES ASSUME NEW i \in 1..Len(p) PROVE IsFiniteSet(M(i))
    OBVIOUS
  <2>1. IsFiniteSet({i})
    BY FS_Singleton
  <2>2. IsFiniteSet(DOMAIN p[i].runs)
    <3>1. 1 \in Int /\ Len(p[i].runs) \in Int
      BY <1>3
    <3>2. IsFiniteSet(1..Len(p[i].runs))
      BY <3>1, FS_Interval
    <3> QED
      BY <1>3, <3>2
  <2> QED
    BY <2>1, <2>2, FS_Product
<1>6. Matches(p) = UNION T
  BY <1>1 DEF Matches
<1>7. IsFiniteSet(Matches(p))
  <2>1. \A U \in T : IsFiniteSet(U)
    BY <1>5
  <2> HIDE DEF T
  <2> QED
    BY <1>4, <1>6, <2>1, FS_UNION
<1>8. \A i, j : <<i, j>> \in Matches(p) <=> i \in 1..Len(p) /\ j \in 1..Len(p[i].runs)
  BY <1>1, <1>3 DEF Matches
<1>9. \A m \in Matches(p) : /\ m[1] \in 1..Len(p) /\ m[2] \in 1..Len(p[m[1]].runs)
                            /\ m = <<m[1], m[2]>>
  BY <1>1, <1>3 DEF Matches
<1>10. \A m \in Matches(p) : Run(p, m) \in Runs
  BY <1>2, <1>9, ElementOfSeq DEF Run
<1> QED
  BY <1>7, <1>8, <1>9, <1>10

\* The names are those of the only match, if there is only one.
LEMMA ExtractOf ==
    ASSUME NEW p \in Seq(Segments)
    PROVE  LET run == ExtractServiceIdAndUserKey(p)
           IN  /\ run = NoRun \/ run \in Runs
               /\ run # NoRun => \E m : Matches(p) = {m} /\ run = Run(p, m)
               /\ \A m : Matches(p) = {m} => run = Run(p, m)
<1> DEFINE run == ExtractServiceIdAndUserKey(p)
<1>1. IsFiniteSet(Matches(p)) /\ \A m \in Matches(p) : Run(p, m) \in Runs
  BY MatchesOf
<1>2. Cardinality(Matches(p)) = 1 <=> \E m : Matches(p) = {m}
  BY <1>1, FS_Singleton
<1>3. ASSUME NEW m, Matches(p) = {m} PROVE run = Run(p, m) /\ run \in Runs
  <2>1. (CHOOSE x \in Matches(p) : TRUE) = m
    BY <1>3
  <2> QED
    BY <1>1, <1>2, <1>3, <2>1 DEF ExtractServiceIdAndUserKey
<1>4. ASSUME ~\E m : Matches(p) = {m} PROVE run = NoRun
  BY <1>2, <1>4 DEF ExtractServiceIdAndUserKey
<1> QED
  BY <1>3, <1>4

\* The proxied path is made of segments of the path.
LEMMA ProxiedOf ==
    ASSUME NEW p \in Seq(Segments), Versions(p) # {}
    PROVE  ProxyRequestPath(p) \in Seq(Pieces)
<1> DEFINE k == KeySegment(p)
           rest == [i \in 1..Len(p) - k |-> [segment |-> p[k + i], from |-> "start"]]
<1>1. k \in 2..Len(p) /\ Len(p) \in Nat
  BY KeySegmentOf, LenProperties
<1>2. \A i \in 1..Len(p) : p[i] \in Segments
  BY ElementOfSeq
<1> HIDE DEF k
<1>3. rest \in Seq(Pieces)
  <2>1. \A i \in 1..Len(p) - k : k + i \in 1..Len(p)
    BY <1>1
  <2>2. rest \in [1..Len(p) - k -> Pieces]
    BY <1>2, <2>1 DEF Pieces
  <2>3. Len(p) - k \in Nat
    BY <1>1
  <2> QED
    BY <2>2, <2>3
<1>4. [segment |-> p[k], from |-> "mark"] \in Pieces
  BY <1>1, <1>2 DEF Pieces
<1> HIDE DEF rest
<1>5. <<[segment |-> p[k], from |-> "mark"]>> \o rest \in Seq(Pieces)
  BY <1>3, <1>4
<1> QED
  BY <1>3, <1>5 DEF ProxyRequestPath, k, rest

LEMMA DetailOf ==
    ASSUME NEW p \in Paths
    PROVE  /\ Detail(p).names = NoRun \/ Detail(p).names \in Runs
           /\ Detail(p).proxied \in Seq(Pieces)
           /\ Detail(p).names # NoRun => Detail(p).names = ExtractServiceIdAndUserKey(p)
<1>1. p \in Seq(Segments) /\ WithoutWs(p) \in Seq(Segments)
  BY PathSeq
<1>2. /\ ExtractServiceIdAndUserKey(p) = NoRun \/ ExtractServiceIdAndUserKey(p) \in Runs
      /\ Versions(WithoutWs(p)) # {} => ProxyRequestPath(WithoutWs(p)) \in Seq(Pieces)
  BY <1>1, ExtractOf, ProxiedOf
<1>3. <<>> \in Seq(Pieces)
  OBVIOUS
<1> QED
  BY <1>2, <1>3 DEF Detail

LEMMA TrimmedOf ==
    ASSUME NEW q \in Seq(Pieces)
    PROVE  Trimmed(q) \in Seq(Pieces)
<1>1. Len(q) \in Nat
  BY LenProperties
<1>2. Len(q) > 0 => SubSeq(q, 1, Len(q) - 1) \in Seq(Pieces)
  BY <1>1, SubSeqProperties
<1> QED
  BY <1>1, <1>2 DEF Trimmed

LEMMA JoinOf ==
    ASSUME NEW q \in Seq(Pieces)
    PROVE  Join(q) \in Seq(Pieces)
<1>1. Base \in Seq(Pieces)
  BY PathAssumption
<1>2. CASE Dots(q) = "other"
  <2>1. Trimmed(q) \in Seq(Pieces)
    BY TrimmedOf
  <2>2. Base \o Trimmed(q) \in Seq(Pieces)
    BY <1>1, <2>1, ConcatProperties
  <2> QED
    BY <1>2, <2>2 DEF Join
<1>3. CASE Dots(q) # "other"
  <2>1. q # <<>> /\ Dots(q) = q[1].segment.behind
    BY <1>3 DEF Dots
  <2>2. Len(q) \in Nat /\ Len(q) # 0
    BY <2>1, EmptySeq, LenProperties
  <2>3. q[1] \in Pieces
    BY <2>2, ElementOfSeq
  <2>4. q[1].segment \in Segments
    BY <2>3 DEF Pieces
  <2>5. Dots(q) \in {"dot", "dots"}
    BY <1>3, <2>1, <2>4, PathAssumption
  <2>6. Tail(q) \in Seq(Pieces)
    BY <2>1, HeadTailProperties
  <2>7. Trimmed(Tail(q)) \in Seq(Pieces)
    BY <2>6, TrimmedOf
  <2>8. Parent(Base) \in Seq(Pieces)
    <3>1. Len(Base) \in Nat
      BY <1>1, LenProperties
    <3>2. \A i \in 1..Len(Base) - 1 : i \in 1..Len(Base)
      BY <3>1
    <3> QED
      BY <1>1, <3>1, <3>2, SubSeqProperties DEF Parent
  <2>9. Base \o Trimmed(Tail(q)) \in Seq(Pieces) /\ Parent(Base) \o Trimmed(Tail(q)) \in Seq(Pieces)
    BY <1>1, <2>7, <2>8, ConcatProperties
  <2>10. Dots(q) = "dot" => Join(q) = Base \o Trimmed(Tail(q))
    BY DEF Join
  <2>11. Dots(q) = "dots" => Join(q) = Parent(Base) \o Trimmed(Tail(q))
    BY DEF Join
  <2> QED
    BY <2>5, <2>9, <2>10, <2>11
<1> QED
  BY <1>2, <1>3
-------------------------------------------------------------------------------
(* The invariant                                                           *)

LEMMA PathInitInv == Init => PathInv
  BY DEF Init, PathInv, TypeOK, Looked

LEMMA PathNextInv == PathInv /\ [Next]_vars => PathInv'
<1> SUFFICES ASSUME PathInv, [Next]_vars PROVE PathInv'
  OBVIOUS
<1> USE DEF PathInv, TypeOK, Looked
<1>1. CASE UNCHANGED vars
  BY <1>1 DEF vars
<1>2. CASE Parse
  <2>1. Detail(path).names \in Runs \cup {NoRun}
    BY DetailOf
  <2> QED
    BY <1>2, <2>1 DEF Parse
<1>3. CASE LookupFinds
  BY <1>3 DEF LookupFinds
<1>4. CASE LookupFails \/ LookupFindsNoProvider
  BY <1>4 DEF LookupFails, LookupMisses, LookupFindsNoProvider
<1>5. CASE Build
  <2>1. Join(Detail(path).proxied) \in Seq(Pieces)
    BY DetailOf, JoinOf
  <2> QED
    BY <1>5, <2>1 DEF Build
<1> QED
  BY <1>1, <1>2, <1>3, <1>4, <1>5 DEF Next

LEMMA PathInvariant == Spec => []PathInv
  BY PathInitInv, PathNextInv, PTL DEF Spec
-------------------------------------------------------------------------------
(* The theorems                                                            *)

\* Whatever the path, the names found in it are a service id with a user key
\* or the zero values, and the service is called with a path made of the
\* provider's and of segments of the request's (request_detail.go:60-113,
\* helper.go:18-50).
THEOREM PathTypes == Spec => []TypeOK
  BY PathInvariant, PTL DEF PathInv

\* A request that names no service is refused, for every path and table,
\* although the handler goes on after the error, unless somebody has
\* registered a service without an id (csgw_http.go:111-113).
THEOREM NamelessAreRefused == Spec => []NamelessRefused
<1>1. PathInv => NamelessRefused
  BY DEF PathInv, TypeOK, Looked, NamelessRefused, Runs, NoRun
<1> QED
  BY <1>1, PathInvariant, PTL

\* Segment i of what is left of the path, in the whole path.
LEMMA WithoutWsOf ==
    ASSUME NEW p \in Paths, NEW i \in 1..Len(WithoutWs(p))
    PROVE  \E j \in 1..Len(p) : WithoutWs(p)[i] = p[j]
<1>1. /\ p \in Seq(Segments) /\ Len(p) \in Nat \ {0}
  BY PathSeq
<1>2. p # <<>>
  BY <1>1, EmptySeq
<1>3. /\ Len(Tail(p)) = Len(p) - 1
      /\ \A j \in 1..Len(Tail(p)) : Tail(p)[j] = p[j + 1]
  BY <1>1, <1>2, HeadTailProperties
<1>4. CASE p[1].ws
  <2>1. WithoutWs(p) = Tail(p)
    BY <1>2, <1>4 DEF WithoutWs
  <2>2. i + 1 \in 1..Len(p)
    BY <1>1, <1>3, <2>1
  <2> QED
    BY <1>3, <2>1, <2>2
<1>5. CASE ~p[1].ws
  BY <1>5 DEF WithoutWs
<1> QED
  BY <1>4, <1>5

\* For every path whose segment behind the first version holds a service id and
\* a user key: no other service is called, although the names are looked for in
\* the whole path (request_detail.go:83).  Of other paths it says nothing.
THEOREM OnlyTheNamedService == Spec => []NamedServiceOnly
<1>1. PathInv => NamedServiceOnly
  <2> DEFINE p == WithoutWs(path)
             k == KeySegment(p)
             Named == {p[k].runs[j].service : j \in DOMAIN p[k].runs}
  <2> SUFFICES ASSUME PathInv, at = "called", Versions(p) # {}, Named # {},
                      names.service # NoName
               PROVE  names.service \in Named
    BY DEF NamedServiceOnly
  <2>1. path \in Paths /\ names = Detail(path).names
    BY DEF PathInv, TypeOK, Looked
  <2>2. path \in Seq(Segments) /\ p \in Seq(Segments)
    BY <2>1, PathSeq
  <2>3. k \in 1..Len(p)
    BY <2>2, KeySegmentOf, LenProperties
  <2>4. PICK i \in 1..Len(path) : p[k] = path[i]
    BY <2>1, <2>3, WithoutWsOf
  <2>5. path[i].runs \in Seq(Runs)
    BY <2>2, ElementOfSeq, PathAssumption
  <2>6. PICK j \in 1..Len(path[i].runs) : TRUE
    BY <2>4, <2>5, LenProperties
  <2>7. <<i, j>> \in Matches(path)
    BY <2>2, MatchesOf
  <2>8. names # NoRun
    BY DEF NoRun
  <2>9. names = ExtractServiceIdAndUserKey(path)
    BY <2>1, <2>8, DetailOf
  <2>10. PICK m : Matches(path) = {m} /\ names = Run(path, m)
    BY <2>2, <2>8, <2>9, ExtractOf
  <2>11. names = path[i].runs[j]
    BY <2>7, <2>10 DEF Run
  <2> QED
    BY <2>4, <2>5, <2>6, <2>11, LenProperties
<1> QED
  BY <1>1, PathInvariant, PTL

\* A documented path has one match, in the segment its version is followed by,
\* and what is behind that segment is the proxied path.
LEMMA DocumentedOf ==
    ASSUME NEW p \in Paths, Documented(p)
    PROVE  LET k == IF p[1].version THEN 2 ELSE 3
           IN  /\ Detail(p).names = p[k].runs[1]
               /\ Join(Detail(p).proxied) = Meant(p, k)
<1>1. /\ p \in Seq(Segments) /\ Len(p) \in Nat \ {0} /\ DOMAIN p = 1..Len(p)
      /\ \A i \in 1..Len(p) : p[i] \in Segments
  BY PathSeq, LenProperties, ElementOfSeq
<1>2. PICK k \in {2, 3} \cap DOMAIN p :
        /\ p[k - 1].version
        /\ k = 3 => p[1].ws /\ p[1].lead = "all"
        /\ p[k].lead = "all" /\ Len(p[k].runs) = 1
        /\ \A i \in DOMAIN p \ {k} : p[i].runs = <<>>
  BY DEF Documented
<1>3. k \in 1..Len(p) /\ k \in {2, 3} /\ 1 \in 1..Len(p)
  BY <1>1, <1>2
<1>4. p[1].version => ~p[1].ws
  BY <1>1, <1>3, PathAssumption
<1>5. k = IF p[1].version THEN 2 ELSE 3
  BY <1>2, <1>3, <1>4
<1>6. Matches(p) = {<<k, 1>>}
  <2>1. <<k, 1>> \in Matches(p)
    <3>1. 1 \in 1..Len(p[k].runs)
      BY <1>2
    <3> QED
      BY <1>1, <1>3, <3>1, MatchesOf
  <2>2. ASSUME NEW m \in Matches(p) PROVE m = <<k, 1>>
    <3>1. m[1] \in 1..Len(p) /\ m[2] \in 1..Len(p[m[1]].runs) /\ m = <<m[1], m[2]>>
      BY <1>1, MatchesOf
    <3>2. m[1] = k
      <4> SUFFICES ASSUME m[1] # k PROVE FALSE
        OBVIOUS
      <4>1. p[m[1]].runs = <<>>
        BY <1>1, <1>2, <3>1
      <4> QED
        BY <3>1, <4>1
    <3>3. m[2] = 1
      <4>1. m[2] \in 1..Len(p[k].runs) /\ Len(p[k].runs) = 1
        BY <1>2, <3>1, <3>2
      <4> QED
        BY <4>1
    <3> QED
      BY <3>1, <3>2, <3>3
  <2> QED
    BY <2>1, <2>2
<1>7. ExtractServiceIdAndUserKey(p) = p[k].runs[1] /\ p[k].runs[1] \in Runs
  <2>1. Run(p, <<k, 1>>) = p[k].runs[1]
    BY DEF Run
  <2>2. ExtractServiceIdAndUserKey(p) = Run(p, <<k, 1>>)
    BY <1>1, <1>6, ExtractOf
  <2>3. Run(p, <<k, 1>>) \in Runs
    BY <1>1, <1>6, MatchesOf
  <2> QED
    BY <2>1, <2>2, <2>3
<1>8. p[k].runs[1] # NoRun
  BY <1>7, PathAssumption DEF Runs, NoRun
<1> DEFINE q == WithoutWs(p)
<1>9. /\ q \in Seq(Segments)
      /\ Len(q) \in Nat
      /\ Len(q) = Len(p) - (k - 2)
      /\ \A i \in 1..Len(q) : q[i] = p[i + (k - 2)]
  <2>1. q \in Seq(Segments) /\ Len(q) \in Nat
    BY PathSeq
  <2>2. CASE k = 2
    <3>1. q = p
      BY <1>2, <1>4, <2>2 DEF WithoutWs
    <3>2. Len(p) = Len(p) - (k - 2) /\ \A i \in 1..Len(p) : i + (k - 2) = i
      BY <1>1, <2>2
    <3> QED
      BY <2>1, <3>1, <3>2
  <2>3. CASE k = 3
    <3>1. p # <<>>
      BY <1>1, EmptySeq
    <3>2. q = Tail(p)
      BY <1>2, <2>3, <3>1 DEF WithoutWs
    <3> QED
      BY <1>1, <2>1, <2>3, <3>1, <3>2, HeadTailProperties
  <2> QED
    BY <1>3, <2>2, <2>3
<1>10. 2 \in 1..Len(q) /\ q[1] = p[k - 1] /\ q[2] = p[k]
  <2>1. 1 \in 1..Len(q) /\ 2 \in 1..Len(q) /\ 1 + (k - 2) = k - 1 /\ 2 + (k - 2) = k
    BY <1>1, <1>3, <1>9
  <2> QED
    BY <1>9, <2>1
<1> HIDE DEF q
<1>11. 1 \in Versions(q)
  BY <1>2, <1>9, <1>10 DEF Versions
<1>12. KeySegment(q) = 2
  <2>1. KeySegment(q) \in 2..Len(q) /\ KeySegment(q) <= 1 + 1
    BY <1>9, <1>11, KeySegmentOf
  <2> QED
    BY <1>9, <2>1
<1> DEFINE rest == [i \in 1..Len(p) - k |-> [segment |-> p[k + i], from |-> "start"]]
<1>13. ProxyRequestPath(q) = rest
  <2>1. q[2].lead = "all"
    BY <1>2, <1>10
  <2>2. Len(q) - 2 = Len(p) - k
    BY <1>1, <1>3, <1>9
  <2>3. \A i \in 1..Len(p) - k : q[2 + i] = p[k + i]
    <3> SUFFICES ASSUME NEW i \in 1..Len(p) - k PROVE q[2 + i] = p[k + i]
      OBVIOUS
    <3>1. 2 + i \in 1..Len(q) /\ 2 + i + (k - 2) = k + i
      BY <1>1, <1>3, <1>9
    <3> QED
      BY <1>9, <3>1
  <2> QED
    BY <1>12, <2>1, <2>2, <2>3 DEF ProxyRequestPath
<1>14. Detail(p).names = p[k].runs[1] /\ Detail(p).proxied = rest
  BY <1>7, <1>8, <1>11, <1>13 DEF Detail, q
<1>15. Join(rest) = Meant(p, k)
  <2> DEFINE n == Len(p) - k
             last == IF p[Len(p)] = Empty THEN Len(p) - 1 ELSE Len(p)
             kept == [i \in 1..last - k |-> [segment |-> p[k + i], from |-> "start"]]
  <2>1. n \in Nat /\ k + n = Len(p)
    BY <1>1, <1>3
  <2>2. rest \in Seq(Pieces) /\ Len(rest) = n
    <3>1. \A i \in 1..n : k + i \in 1..Len(p)
      BY <1>1, <1>3
    <3>2. rest \in [1..n -> Pieces]
      BY <1>1, <3>1 DEF Pieces
    <3> HIDE DEF rest, n
    <3> QED
      BY <2>1, <3>2
  <2>3. Join(rest) = Base \o Trimmed(rest)
    <3>1. rest # <<>> => rest[1].from = "start"
      <4>1. rest # <<>> => 1 \in 1..n
        BY <2>1, <2>2, EmptySeq
      <4> QED
        BY <4>1
    <3>2. Dots(rest) = "other"
      BY <3>1 DEF Dots
    <3> QED
      BY <3>2 DEF Join
  <2>4. CASE n = 0
    <3>1. p[Len(p)] # Empty
      BY <1>1, <1>2, <2>1, <2>4, PathAssumption
    <3> QED
      BY <2>2, <2>4, <2>3, <3>1 DEF Trimmed, Meant
  <2>5. CASE n > 0
    <3>1. rest[n].segment = p[Len(p)]
      BY <2>1, <2>5
    <3>2. CASE p[Len(p)] # Empty
      BY <2>1, <2>2, <2>5, <2>3, <3>1, <3>2 DEF Trimmed, Meant
    <3>3. CASE p[Len(p)] = Empty
      <4>1. SubSeq(rest, 1, n - 1) = [i \in 1..n - 1 |-> rest[i]]
        BY <2>1, <2>2, <2>5
      <4>2. last - k = n - 1 /\ 1..n - 1 \subseteq 1..n
        BY <1>1, <1>3, <3>3
      <4>3. SubSeq(rest, 1, n - 1) = kept
        BY <4>1, <4>2
      <4>4. Join(rest) = Base \o SubSeq(rest, 1, n - 1)
        BY <2>1, <2>2, <2>5, <2>3, <3>1, <3>3 DEF Trimmed
      <4> QED
        BY <4>3, <4>4 DEF Meant
    <3> QED
      BY <3>2, <3>3
  <2>6. n = 0 \/ n > 0
    <3> HIDE DEF n
    <3> QED
      BY <2>1
  <2> QED
    BY <2>4, <2>5, <2>6
<1> QED
  BY <1>5, <1>14, <1>15

\* For every path in the documented form, with any segments behind: the
\* service it names is called with the rest of the path below the provider's,
\* if it is registered with a provider, and the request is refused otherwise
\* (request_detail.go:72-88, helper.go:39).
THEOREM DocumentedPathsAlwaysWork == Spec => []DocumentedPathsWork
<1>1. PathInv => DocumentedPathsWork
  BY DocumentedOf DEF PathInv, TypeOK, Looked, DocumentedPathsWork
<1> QED
  BY <1>1, PathInvariant, PTL
===============================================================================
