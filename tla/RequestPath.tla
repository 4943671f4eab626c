------------------------------ MODULE RequestPath -----------------------------
(***************************************************************************)
(* From the path of a client's request to the call of a service            *)
(* (models/request_detail.go, models/helper.go, and how StartForwardService *)
(* and ProxyHttpInitRequestHandler use them).                              *)
(*                                                                         *)
(* A path is a sequence of segments, and a segment is what the two regular *)
(* expressions tell apart: whether it is a version (v1 to v9999), whether  *)
(* it starts with "ws", how much of it the word characters at its start    *)
(* are, whether one or two dots are all that is behind them, and its runs  *)
(* of more than ten word characters, each of which reads as a service id   *)
(* (the first ten) and a user key (the others).  There are no line breaks  *)
(* in a path, and fasthttp has resolved dot segments and doubled slashes.  *)
(***************************************************************************)
EXTENDS Naturals, Sequences, FiniteSets, FiniteSetsExt

CONSTANTS
    Segments,     \* kinds of segments
    Empty,        \* the one behind a trailing slash
    ServiceIds,   \* ids services may be registered under
    UserKeys,
    NoName,       \* the empty string, as id or key
    Bare,         \* those of them that are registered without a provider
    Base,         \* the path of the provider's BaseUrl
    MaxLen        \* bound: segments of a path

Runs == [service : ServiceIds, user : UserKeys]
NoRun == [service |-> NoName, user |-> NoName]

\* A segment of the proxied path, or the part behind its word characters.
Pieces == [segment : Segments, from : {"start", "mark"}]

ASSUME PathAssumption ==
    /\ \A s \in Segments :
         /\ {s.version, s.ws} \subseteq BOOLEAN
         /\ s.lead \in {"none", "part", "all"}
         /\ s.behind \in {"dot", "dots", "other"}
         /\ s.runs \in Seq(Runs)
         /\ s.version => s.lead = "all" /\ s.runs = <<>> /\ ~s.ws
    /\ Empty \in Segments /\ Empty.lead = "none" /\ Empty.runs = <<>>
    /\ NoName \notin ServiceIds \cup UserKeys
    /\ Base \in Seq(Pieces)
    /\ MaxLen \in Nat

Paths ==
    {p \in UNION {[1..n -> Segments] : n \in 1..MaxLen} :
       \A i \in 1..Len(p) - 1 : p[i] # Empty}
-------------------------------------------------------------------------------
(* ExtractRequestDetailFromFasthttpRequest                                 *)

\* A leading "/ws" is cut off; a longer first segment loses its slash with it.
WithoutWs(p) == IF p # <<>> /\ p[1].ws THEN Tail(p) ELSE p

\* Where ProxyRequestPathPattern may match: a version, and at least one word
\* character behind the next slash.
Versions(p) ==
    {i \in 1..Len(p) - 1 : p[i].version /\ p[i + 1].lead # "none"}

\* Wrong variant: the last match.
LastKeySegment(p) == Max(Versions(p)) + 1

\* The leftmost match takes all of the rest.
KeySegment(p) == Min(Versions(p)) + 1

\* The last group: what follows the word characters and a slash.
ProxyRequestPath(p) ==
    LET k == KeySegment(p)
        rest == [i \in 1..Len(p) - k |-> [segment |-> p[k + i], from |-> "start"]]
    IN  IF p[k].lead = "all" THEN rest
        ELSE <<[segment |-> p[k], from |-> "mark"]>> \o rest

\* The matches of ServiceIdUserKeyPattern: segment and place in it.
Matches(p) == UNION {{i} \X DOMAIN p[i].runs : i \in DOMAIN p}
Run(p, m) == p[m[1]].runs[m[2]]

\* Wrong variant: the first of several matches is good enough.
ExtractFirst(p) ==
    IF Matches(p) = {} THEN NoRun
    ELSE Run(p, CHOOSE m \in Matches(p) : \A n \in Matches(p) : m[1] <= n[1])

\* Wrong variant: the two groups the other way round.
ExtractSwapped(p) ==
    IF Cardinality(Matches(p)) # 1 THEN NoRun
    ELSE LET run == Run(p, CHOOSE m \in Matches(p) : TRUE)
         IN  [service |-> run.user, user |-> run.service]

\* There must be exactly one match.
ExtractServiceIdAndUserKey(p) ==
    IF Cardinality(Matches(p)) # 1 THEN NoRun
    ELSE Run(p, CHOOSE m \in Matches(p) : TRUE)

\* It is applied to the whole path, not to the segment behind the version.
\* After an error the fields have their zero values.
Detail(whole) ==
    LET p == WithoutWs(whole)
        run == ExtractServiceIdAndUserKey(whole)
    IN  IF Versions(p) # {} /\ run # NoRun
          THEN [names |-> run, proxied |-> ProxyRequestPath(p)]
          ELSE [names |-> NoRun, proxied |-> <<>>]

\* path.Join in BuildHttpRequestToService: a trailing slash is lost, and dots
\* that were behind the key are a dot segment now, the only one there may be.
Dots(pieces) ==
    IF pieces # <<>> /\ pieces[1].from = "mark" THEN pieces[1].segment.behind ELSE "other"
Trimmed(pieces) ==
    LET n == Len(pieces)
    IN  IF n > 0 /\ pieces[n].segment = Empty THEN SubSeq(pieces, 1, n - 1) ELSE pieces
Parent(pieces) == SubSeq(pieces, 1, Len(pieces) - 1)
Join(pieces) ==
    CASE Dots(pieces) = "other" -> Base \o Trimmed(pieces)
      [] Dots(pieces) = "dot" -> Base \o Trimmed(Tail(pieces))
      [] Dots(pieces) = "dots" -> Parent(Base) \o Trimmed(Tail(pieces))
-------------------------------------------------------------------------------
VARIABLES
    path,       \* the path of the request
    table,      \* ids of the services both gateways know
    at,         \* where the request is
    names,      \* ServiceName and UserKey at the CSGW
    reply,      \* the error set last, or "none"
    target      \* the path the service is called with

vars == <<path, table, at, names, reply, target>>

TypeOK ==
    /\ path \in Paths
    /\ table \in SUBSET (ServiceIds \cup {NoName})
    /\ at \in {"parse", "lookup", "ssgw", "called", "refused"}
    /\ names \in Runs \cup {NoRun}
    /\ reply \in {"none", "500", "404"}
    /\ target \in Seq(Pieces)

Init ==
    /\ path \in Paths
    /\ table \in SUBSET (ServiceIds \cup {NoName})
    /\ at = "parse"
    /\ names = NoRun
    /\ reply = "none"
    /\ target = <<>>

\* The handler sets status 500 and goes on after an error.
Parse ==
    /\ at = "parse"
    /\ names' = Detail(path).names
    /\ reply' = IF names'.service = NoName THEN "500" ELSE reply
    /\ at' = "lookup"
    /\ UNCHANGED <<path, table, target>>

LookupFinds ==
    /\ at = "lookup"
    /\ names.service \in table \ Bare
    /\ at' = "ssgw"
    /\ UNCHANGED <<path, table, names, reply, target>>

\* "Service data error": there is no provider.
LookupFindsNoProvider ==
    /\ at = "lookup"
    /\ names.service \in table \cap Bare
    /\ reply' = "500"
    /\ at' = "refused"
    /\ UNCHANGED <<path, table, names, target>>

\* "Service not found"
LookupMisses(next) ==
    /\ at = "lookup"
    /\ names.service \notin table
    /\ reply' = "404"
    /\ at' = next
    /\ UNCHANGED <<path, table, names, target>>

\* Wrong variant: no return here either.
LookupGoesOn == LookupMisses("ssgw")

LookupFails == LookupMisses("refused")

\* The SSGW parses the recovered request again and ignores the error; the
\* service is the one the CSGW has found.
Build ==
    /\ at = "ssgw"
    /\ target' = Join(Detail(path).proxied)
    /\ at' = "called"
    /\ UNCHANGED <<path, table, names, reply>>

Next == Parse \/ LookupFinds \/ LookupFindsNoProvider \/ LookupFails \/ Build

Spec == Init /\ [][Next]_vars
-------------------------------------------------------------------------------
(* Properties                                                              *)

\* The form the cases show: /v1/<service><user key>/<path>, a "/ws" in front
\* at most, and nothing else that is longer than ten word characters
\* (_cases/README.md:26, 50).
Documented(p) ==
    \E k \in {2, 3} \cap DOMAIN p :
      /\ p[k - 1].version
      /\ k = 3 => p[1].ws /\ p[1].lead = "all"
      /\ p[k].lead = "all" /\ Len(p[k].runs) = 1
      /\ \A i \in DOMAIN p \ {k} : p[i].runs = <<>>

\* What the documented path k leads to, read off without regular expressions.
Meant(p, k) ==
    LET last == IF p[Len(p)] = Empty THEN Len(p) - 1 ELSE Len(p)
    IN  Base \o [i \in 1..last - k |-> [segment |-> p[k + i], from |-> "start"]]

\* A request in the documented form calls the service it names, with the rest
\* of its path below the provider's, if that service is registered with a
\* provider, and is refused otherwise, wherever else versions, "ws" and trailing
\* slashes turn up in the path (request_detail.go:72-88, helper.go:39).
DocumentedPathsWork ==
    Documented(path) =>
      LET k == IF path[1].version THEN 2 ELSE 3
          run == path[k].runs[1]
      IN  /\ at = "called" => names = run /\ target = Meant(path, k)
          /\ at = "refused" => run.service \notin table \ Bare

\* If the segment behind the version holds a service id and a user key then no
\* other service is ever called, although the names are looked for in the whole
\* path (request_detail.go:83): the request is refused instead.  Nothing is said
\* of a key segment too short to hold both: such a request may call a service
\* named elsewhere in its path.
NamedServiceOnly ==
    LET p == WithoutWs(path)
        Named(k) == {p[k].runs[j].service : j \in DOMAIN p[k].runs}
    IN  at = "called" /\ Versions(p) # {} /\ Named(KeySegment(p)) # {} =>
          names.service \in Named(KeySegment(p)) \cup {NoName}

\* A request that names no service is refused although the handler goes on
\* after the error (csgw_http.go:111-113), as long as nobody has registered a
\* service without an id.
NamelessRefused ==
    at = "called" => \/ names.service \in ServiceIds \cap table /\ reply = "none"
                     \/ NoName \in table
===============================================================================
