# Verification of the Apron gateway

TLA+ models of the peer-to-peer gateway in `src/`, the TLC runs that check them
on small instances, and TLAPS proofs of the main results for instances of any
size.

A gateway is one process. It lets service owners register services through a
management API, tells the other gateways about them over a libp2p pubsub topic,
and forwards the requests of clients to the gateway that a service belongs to:
the *client side gateway* (CSGW) takes the request, the *service side gateway*
(SSGW) calls the service and sends the answer back.

## The system

| Component | State | Operations | Interacts with |
|---|---|---|---|
| Service tables (`trans_network/node.go`) | `services`, `servicePeerMapping`, `mutex` | `RegisterLocalService`, `RegisterRemoteService`, `UpdatePeers` | management API, pubsub, forwarders |
| Management API (`node_mgmt_handler.go`) | none | POST, DELETE, four GETs under `/service` | service tables |
| Gossip (`node.go`, pubsub) | one subscription for each gateway | `BroadcastService`, `StartListeningOnServiceBroadcast` | the tables of all gateways |
| HTTP forwarding (`csgw_http.go`, `node_proxy_handler.go`) | `clientHttpDataChan`, `requestIdChanMapping` | `StartForwardService`, `serveHttpRequest`, `ProxyHttpInitRequestHandler`, `ProxyHttpRespHandler` | service tables of both gateways, streams |
| Websocket forwarding (same files) | `clientWsConns`, `serviceWsConns` | `serveWebsocketRequest`, `ProxyWsDataHandler` | as above |
| Socket forwarding (`csgw_socket.go`, `node_proxy_handler.go`) | `clientSocketConns`, `serviceSocketConns` | `StartSocketForwardService`, `ProxySocketInitReqHandler`, `ProxySocketDataHandler` | as above |
| Frames (`network_helper.go`) | the buffer of a `bufio.Reader` | `WriteBytesViaStream`, `ReadBytesViaStream`, `ReadOneFrameDataFromStream` | every stream and socket |
| Usage records (`models/usage_record_manager.go`, `node_user_report.go`) | `records`, `locks` | three `RecordUsage...`, `ExportAllUsage`, `StartUploadUsageReportTask` | stream handlers (the calls are commented out at this commit), IPFS agent |
| IPFS agents (`ipfs_agent`) | files, pins | `PinContent` of `LocalFileAgent` and `PinataService` | upload task |
| Report generator (`cmd/report_generator`) | none | a walk over the files of the local agent | the files, while the gateway writes them |
| socks5 agents (`ext_protocols/socks5`) | `RemoteSocketConn`, `serviceConnections` | `prepareAgent`, `serveConnection`, `proxyDataFromClient`, `connectToSocks5Service` | socket forwarding |
| Request parsing (`models/request_detail.go`, `models/helper.go`) | none | `ExtractRequestDetailFromFasthttpRequest`, `BuildHttpRequestToService` | HTTP forwarding |
| Discovery (`dht.go`, `discover.go`) | inside libp2p | `NewKDHT`, `Discover` | connections of the gateway |

What is hard here:

* **Concurrency.** Every HTTP request, stream, broadcast and timer has its own
  goroutine. Only the two service maps have a mutex, and three places read them
  without it (`csgw_http.go:118`, `node_proxy_handler.go:49` and `:217`). The
  other maps have no protection at all.
* **Failure.** `CheckError` and `logger.Panic` end the whole process on any
  error in a handler; a gateway that dies breaks the streams of its neighbours,
  where a broken stream is a panic again, and so is one that broke because a
  connection was lost.
* **Ordering.** Answers travel on a different stream than requests. Broadcasts
  have no version and no acknowledgement, and are made after the mutex has been
  released.
* **Membership.** Connections and gateways come and go, and the tables are
  repaired by comparing them with a list of peers that may be old.

What makes each part correct: the two maps must act as one directory and serve
every waiting goroutine (tables); an update must reach every connected gateway,
and the tables must not keep peers that are gone (gossip); every answer must
reach the client that waits for it, and every accepted client must get one
(HTTP forwarding); the two ends of a session must get what the other one says,
in order, and nothing of other sessions (websockets, sockets, agents); frames
must arrive as written (frames); a request must go to the service it names, with
the right path, or be refused (request parsing); no unit of usage may be
reported twice, and what an agent has acknowledged must be found again (usage
records, agents, generator). `PROJECT.json` lists the hazards line
by line with the properties that cover them.

## Modules

| Module | Models | Notes |
|---|---|---|
| `ServiceDirectory` | what the tables of one gateway promise | abstract: one directory, atomic updates and lookups |
| `NodeRegistry` | the tables of one gateway and all goroutines that use them | a step is one access to a shared map; implements `ServiceDirectory` |
| `GossipRegistry` | the tables of several gateways and pubsub between them | the two maps of a gateway are one table, which `ImplementsDirectory` justifies |
| `HttpForward` | HTTP requests through two gateways and back | for any number of requests and gateways; starts where the lookup of `NodeRegistry` has found a peer |
| `Framing` | frames over libp2p streams and TCP connections | bytes are cells; lengths are in cells |
| `RequestPath` | request parsing, the lookup and the URL for the service | a path is a sequence of segments, each reduced to what the two patterns see of it |
| `UsageRecords` | the record manager and the export | a step is one access to a map, a lock or a record; no specification of its own |
| `UsageReports` | upload task, IPFS agents, restarts and the report generator | composes `UsageRecords` with them |
| `SessionChannels` | what a session promises | abstract: a pair of ordered channels that may be cut off |
| `SessionForward` | websocket and socket sessions through two gateways | starts where the lookup has found a peer; frames are whole, as they are on streams; implements `SessionChannels` |
| `Socks5Agent` | the client agent and the service agent | the gateways between them are lines that lose and garble frames as `Framing` shows |
| `...Proofs` | | TLAPS proofs about the module of that name: `NodeRegistry`, `GossipRegistry`, `HttpForward`, `Framing`, `RequestPath`, `UsageReports` with `UsageRecords`, `SessionForward`, `Socks5Agent` |
| `MC...` | instances for TLC | constants and symmetry |

Operators commented as "wrong variant" are the bugs each property is tested
against: replacing the definition that follows by the variant makes the property
fail. No specification uses them.

### NodeRegistry

`services` and `servicePeerMapping` are the Go maps, with `NoService` and
`NoPeer` for a missing key. A writer (a management handler or the listener)
holds an update in `arg[w]`, takes the mutex and writes `services`
(`WriteServices`), writes `servicePeerMapping` and releases it
(`WriteMapping`); a handler then broadcasts (`Publish`), and pubsub hands the
message back to this gateway's own subscription as well. `UpdatePeers` is
`Tick` (ListPeers, no mutex), `Scan` (mutex, the list `invaildService`),
`EvictService` and `EvictMapping` for each entry, and `EvictDone`. A client
request logs `servicePeerMapping` without the mutex (`ClientLogged`), then
looks the service up under it (`LookupPeer`, `LookupService`). A stream handler
of an SSGW reads `services` without the mutex (`ProxyRead`) and panics when the
record is gone or has no provider. The runtime may end the process whenever a
map is written next to an unlocked read (`ConcurrentMapThrow`); a bad body and a
failed `Publish` end it too. The data of a service is reduced to whether it has
providers.

### GossipRegistry

`RegisterLocalService` changes the table and `BroadcastService` publishes later,
so that handlers of one gateway may overtake each other. `wire` is a set of
copies between two neighbours, received in any order (`Receive`): pubsub puts a
new message into the subscription `inbox[n]`, with the sender of the copy
(`msg.ReceivedFrom`), and passes it on. A gateway's own broadcasts go into its
own subscription too. A full buffer drops the message, which `missed` remembers.
`Listen` is one iteration of `StartListeningOnServiceBroadcast`: it skips what
the gateway sent itself and stores the rest under their senders. pubsub is
external: what is assumed of it is in the head of the module. `Disconnect` and
`Stop` lose the copies that have not been read. `Start` brings a gateway back
with an empty table under its old identity (`-secret-key`). `UpdatePeers` is one
step here; its inner interleavings are those of `NodeRegistry`.

### HttpForward

One record of progress for each of the three goroutines of a request: `client`
(CSGW: `Register`, `Connect`, `Write`, `MakeChan`, `Cleanup`), `server` (SSGW:
`ServerRead`, `Build`, `DialBack`, `Call`, `Respond`) and `relay` (CSGW:
`RelayRead`, `RelayLookup`, `Deliver`). Each error path that panics is an action
of its own, which ends the gateway (`Crash`) with all its requests. The
connection of two living gateways may be lost (`ConnectionLost`): a request or an
answer that is on its way arrives or does not, and every later read or write of
these streams may be a panic, or a write may still seem to succeed. `Call` is
`fasthttp.Do`, which has no timeout and need not return. `reply[r]` is the
request on whose stream the answer came that the client of `r` got.
`RelayLookup` of a request without channel leaves the handler `"stuck"`: a send
on a nil channel never returns.

### Framing

`WriteBytesViaStream` is two writes. A libp2p stream keeps writes apart; a TCP
connection runs them together. The reader fills a `bufio.Reader` with whatever
the connection has, up to its size, or reads large bodies directly, and either
drops the reader with each frame or keeps it. The four actions `ReadDirect`,
`Fill`, `TakeBuffered` and `BodyRead` are the paths of `bufio.Reader.Read` under
`binary.Read` and `io.ReadFull`.

### RequestPath

The patterns tell little apart: whether a segment is a version, whether it
starts with `ws`, whether it begins with word characters, whether only dots are
behind them, and its runs of more than ten word characters, which read as service
id and user key. `Detail` is
`ExtractRequestDetailFromFasthttpRequest`: a leading `/ws` is cut off, the first
version followed by a word fixes the key segment and the proxied path, and the
names come from the one run in the *whole* path, if there is exactly one.
`Parse` goes on after an error, as the handler does, with empty names;
`LookupFinds`, `LookupFindsNoProvider` and `LookupFails` are the lookup (the ids
in `Bare` are registered without a provider); `Build` parses once more at the
SSGW, where the error is ignored, and joins the provider's path and the proxied
one as `path.Join` does (`Join`): a trailing slash goes, and dots that followed
the key have become a dot segment, which is resolved. The table both gateways know is an input, a service without an id included
(the management API accepts one).

### UsageRecords and UsageReports

Records and locks are objects behind pointers, so that a goroutine may hold a
record that is no longer in the map. Locks are found through the map when they
are taken and again when the `defer` is evaluated. The export ranges over
`locks`, clones, and deletes the record and the lock. Traffic is counted in
units, one for each recording; totals over records and files are cardinalities
of sets of units.

`UsageReports` adds what happens to a report. The local agent creates a file
(`TempFile`) and writes it (`Write`, `WriteFails`); Pinata gets the report in a
request (`Upload`) that ends in good order even when the file could not be read
to its end, and its answer may be lost after the pin (`PinFails`, `Hash`). Any
crash takes the memory of the gateway and leaves the files; `Restart` starts it
again beside them. The report generator lists the directory (`GenStart`) and
reads file after file (`GenRead`), empty and half written ones as well; the
first that does not unmarshal ends it (`GenFails`).

### SessionForward

Each session is a websocket or a socket (`kind[s]`). The goroutine of the client
at the CSGW is `client[s]`, the handler of the init request at the SSGW
`server[s]`, and `UpDeliver` and `DownDeliver` are the two data handlers, each
on a stream of its own. The kinds share their actions and differ in the order of
the SSGW's steps (a websocket dials back first, a socket dials the service
first), in the errors that are ignored (`OpenDataFails`, `DialBackFails`) and in
the panics that are recovered from (`ForwardUpRecovers`). Data that comes before
its connection has been stored, or after the client has gone, ends the gateway
(`UpTooEarly`, `DownUnwanted`). The maps have no mutex (`ConcurrentMapThrow`).

Streams break with a gateway (`ProcessEnds`) or with the connection between two
that live (`ConnectionLost`). What was written to a broken stream before may have
arrived or not: its reader gets the next message or panics (`UpDeliver`,
`UpBreaks`), at any moment. What is written later is lost, whether the writer
notices (`ForwardUpRecovers`, `ForwardUpPanics`, `ForwardDownPanics`) or not. The
message has been read from the client or the service before the write fails, and
counts as taken.

`Chan` maps each session to two channels of `SessionChannels`: `sent` or
`produced` is what was taken, `toService` or `toClient` what was handed over,
`due` counts that and what is still on the stream, and a channel is cut off when
its stream could not be opened or broke.

### Socks5Agent

A line is a connection that the client agent has opened to the CSGW, together
with the one the SSGW has opened to the service agent for it; it is named after
the client it was opened for. `remoteConn` is `RemoteSocketConn`: `StoreConn`
sets it, `WriteConnect`, `BindUp` and `BindDown` read it one after the other,
and another client may store its own line in between (`overlapped` remembers
that). `Rest` is what the CSGW leaves of the queued frames when it drops a
`bufio.Reader`; `WritesMix` is two goroutines that write the two parts of their
frames to one line; `ReadBack` reads several answers as one, because the service
agent sends them without frames. The two sleeps of 100 microseconds order
nothing and are left out.

## Runs

| Run | Expected | Shows |
|---|---|---|
| `registry_tables` | pass | `MapsAgree`, `NoDataMissing`, `OnlyUnlockedReadsRace`, `LocalLeavesByDeletion`, `ListingsWhole`, `ImplementsDirectory` with a handler, the listener, the monitor, a client, a stream handler and all GET handlers; one service, records with and without providers, a peer that comes and goes |
| `registry_liveness` | pass | `RequestsComplete`, `LookupsComplete`, `DepartedPeersEvicted` |
| `gossip_tables` | pass | `LocalUpdatesStand`, `TablesSettle`, `RegistrationSpreads` with full subscriptions, restarts and changing connections |
| `gossip_relay` | violation | over two hops the stored peer is not the registrar (`node.go:148`) |
| `forward_requests` | pass | `AnswersReachTheirClient`, `ChannelsInUse`, `StuckMeansUnanswered`, `OnlyFourWaysToHang` for two requests between the same gateways, with lost connections and services that never answer |
| `forward_early_answer` | violation | with all gateways alive and connected and a service that answers, an answer before its channel leaves the client waiting (`csgw_http.go:86`) |
| `framing_frames` | pass | `FramesIntact`, `EverythingArrives` over streams and on the service agent's connections |
| `framing_tcp` | violation | a new `bufio.Reader` for each frame loses bytes on TCP (`network_helper.go:66`) |
| `usage_billing` | pass | `NothingBilledTwice`, `PinnedIsStored`, `ListingComplete`, `LocksAreReleased` with two recorders, the export, either agent, a restart and the generator |
| `session_data` | pass | `SessionsInOrder`, `ImplementsChannels`, `TakenIsDelivered`, `NoHalfOpenSessions` for two websockets or two sockets between the same gateways, or one and a lost connection |
| `request_paths` | pass | `DocumentedPathsWork`, `NamedServiceOnly`, `NamelessRefused` for all short paths and tables |
| `agent_sessions` | pass | `ServiceGetsOwnData` whatever happens, `ClientsGetOwnAnswers` as long as no two clients are set up at the same time |

Violations are disagreements between the code and what its comments and
documents say; `findings` in `PROJECT.json` quotes them.

**Bounds.** One service and one peer are enough for the tables, because entries
of different services do not depend on each other: two writers, the monitor and
the readers meet on the same entry. `MaxInbox` is 1, so that the subscription is
full as soon as it holds a message and the dropping of messages happens, in
`GossipRegistry` as well. Three gateways are the smallest network with a second
hop, and updates at its two ends meet in the middle; two updates let one overtake
the other; three network changes are a stop, a start and a new connection, which
is what it takes to be offered one's own old message. `MaxEvents` (4) is one such
update and three changes, or two updates and two changes.
`forward_requests` has two requests that share both gateways and all maps, so
that one can get the other's answer, break its streams and end its gateways;
`forward_early_answer` has a request of a gateway to itself beside the one that
hangs. Frames are empty, shorter and longer than the buffer, and a header is half
of the buffer. Two requests of one key let a record be exported and made again,
and its lock be replaced, while the other recorder still has pointers to the old
ones; keys do not touch each other except in the unprotected maps, which one key
is enough to break. Two starts let a second run of the gateway write beside the
files of the first, and the generator run before, during and after the crash.
Paths have up to four segments of twelve kinds: `/ws`, a version, the key segment
and one more, which is where a second version, a second run of word characters,
a trailing slash or a key segment with other characters in it can do harm. Two sessions of one
kind share every map of their gateways; two messages up and one down, counted
over both sessions, show order and early data. `MaxEvents` (2) is two sessions, or
one session and a lost connection; two sessions whose streams break are in the
first of these, since a panic breaks them as well. Two clients of an agent can take
each other's line at every step of their set-up; two messages and two answers of
each can be lost, merged and swapped.

**Deadlock** is not checked: after a panic nothing moves, and requests, updates
and messages are bounded.

**Fairness.** Goroutines that can run do run: weak fairness. Waiting for
`Node.mutex` gets strong fairness, because a Go mutex passes itself on to a
waiter that has been starving for a millisecond. `UpdatePeers` has a ticker.
pubsub processes what it has received and the listener what is in its
subscription; nothing makes pubsub offer a message again or
a client ask, so those actions have no fairness. In `HttpForward` the goroutines
of both gateways run, but the service need not answer, since `fasthttp.Do` has no
timeout, and no connection need be lost; in `Framing` nothing makes a
connection break. In `SessionForward` the goroutines of both gateways run, a
stream handler either delivers or notices that its stream is broken, libp2p
starts the handler of a stream that is not broken once there is data on it, and
clients and services need neither speak nor close. In `UsageReports` recorders and the
export run while the gateway is alive, and waiting for a lock gets strong
fairness as above; nothing makes requests, crashes, restarts or the generator
happen. `Socks5Agent` has no fairness: over
lines that lose frames nothing has to arrive.

## Proofs

`NodeRegistryProofs` proves for any sets of services, records, peers, handlers,
clients and stream handlers, under `RegistryAssumption` (the names of
goroutines, peers and missing entries are distinct), of `Spec`:

* `TypeCorrect`, `MapsStayInStep`, `DataNeverMissing`,
  `CriticalSectionsExclude`: invariants;
* `LocalServicesStay`, `ListingsAreWhole`: action properties;
* `DirectoryImplemented`: `Spec` implements `ServiceDirectory`, where the
  directory entry of a service changes with the first write of a registration,
  a deletion or an eviction, and a lookup takes effect with its second read.

`MapsAgree` is not inductive: it says nothing of who may be between the two
writes. `RegistryInv` adds that a goroutine in its critical section is the
holder of the mutex and the other way round (`LockOK`), that it has an update
for a real service (`ArgOK`), what the maps hold for the service being written
(`MidOK`), that every service left to evict has both entries and belongs to
another peer (`VictimsOK`), and that a lookup between its two reads still has
the current peer (`LookupOK`). Each action preserves it because the map it
changes can only be touched by the holder. The refinement proof then treats the
four kinds of steps that change the mapped variables (`FirstWriteMaps`,
`SecondWriteMaps`, `EvictionMaps`, `LookupMaps`); every other step keeps them
(`DirectoryKept`, `AnswersKept`).

`HttpForwardProofs` proves for any set of requests and gateways, and any `Entry`
and `Target`: `ForwardTypeCorrect`, `AnswersAreRight`, `NoLeakedChannels`,
`StuckAnswersAreLost`. The inductive invariant `ForwardInv` says that nothing
happens at a dead gateway (`DeadIsGone`), how far the server of a request can be
from how far its client is (`RequestFlow`), that an answer on a stream is that
stream's own and that at most one of answer, stuck handler and reply exists
(`AnswerFlow`), and `ChannelsInUse`. `AnswersAreRight` says on whose stream an
answer came; that this is the client's own is not in the map lookup by request
id, but follows from `AnswerFlow`.

`SessionForwardProofs` proves for any gateways and sessions of both kinds, under
`SessionAssumption`: `SessionTypes`, `SessionsStayInOrder` and
`SessionsAreChannels` (`Spec` implements `SessionChannels`). `SessionsInOrder`
says nothing of what is under way. `SessionInv` adds, for each direction of each
session, that the receiver has the first messages, that the stream holds the
following ones, labelled with this session, and that together they are all that
was taken unless the stream could not be opened or broke (`UpFlow`, `DownFlow`);
and that streams are opened once, by goroutines that have not been there before
(`OpenedOnce`), which is what keeps a channel that was cut off from coming back.
Two lemmas, one for taking a message and one for handing it over, are about one
direction and are used for both. The refinement maps a forwarding step to `Take`,
or to `Lose` when the stream is nil or broken, a delivery to `Deliver`, a panic
and a lost connection to `CutOff` for the channels whose streams break, and every
other step to a stutter.

`RequestPathProofs` proves for any kinds of segments, any table and paths of any
length, under `PathAssumption`: `PathTypes`, `NamelessAreRefused`,
`OnlyTheNamedService` and `DocumentedPathsAlwaysWork`. `PathInv` records what the
request has met: its names are those of `Detail`, and where it has gone agrees
with the table. The work is in the operators: the least of several versions is
found (`MinOfNats`, `KeySegmentOf`), one match in the whole path is the match of
the key segment if that segment has one (`MatchesOf`, `ExtractOf`), and a path in
the documented form is cut where it should be (`DocumentedOf`).

`Socks5AgentProofs` proves for any number of clients and messages, under
`AgentAssumption`: `AgentTypes`, `ServiceAlwaysGetsOwnData` and
`ClientsAlwaysGetOwnAnswers`. `AgentInv` says that a goroutine which uses a
connection has one (`Bound`); that the messages of a client that are under way
are all on one line, in order and behind those that have arrived (`DataInv`),
which holds although the line may be another client's; and, as long as clients
have been set up one by one, that the lines, connect messages and connections
are each client's own (`OwnLines`) and the answers on a line belong to it and
are in order (`OwnAnswers`). Losing and garbling frames only takes frames away
(`FewerFrames`, `LossShrinks`, `MixShrinks`), and so preserves all of it.

`GossipRegistryProofs` proves for any network, any updates and any changes of
the network, under `GossipAssumption`: `GossipTypes` and `OwnServicesStand`
(`LocalUpdatesStand`). `GossipInv` adds that a message in a subscription from
another sender is known to the gateway and was not written by it
(`FromElsewhere`), that
updates are numbered in the order of the management requests (`Numbered`), and
that the table holds the latest of a gateway's own updates as long as it has
heard of no others (`OwnEntries`). The step that needs it is `Listen`: it may come
to an old broadcast of the gateway itself long after a later update.

`UsageReportsProofs` proves for any finite set of keys and any number of
recorders, requests, files and restarts, under `UsageAssumption` and
`ReportsAssumption`: `UsageTypes`, `NothingIsBilledTwice`, `PinnedStaysStored`
and `ListingsAreComplete`. Usage is a number of units, and a total over records
or files is the cardinality of the set of units in them; the lemmas on totals
(`TotalSplits`, `TotalIsLocal`, `TotalGrows`) say what changing one record or one
file does to it. `NothingBilledTwice` counts what is in memory, in
a report and in files, and is inductive only together with: no two keys of the
map share a record, and a record that a recorder has made and not yet stored is
in nobody else's hands (`PointersApart`); whoever is on the way to a map has a
key (`KeysKnown`); a file being written is the last one and still empty
(`AgentPhases`); and what the generator has listed and has still to read makes
up for what was pinned when it began and for no more than is stored (`Walking`).

`FramingProofs` proves for any messages and any sizes of header, data and
buffer, under `FramingAssumption`: `FramingTypes`, and `FramesStayIntact` with
two hypotheses on the constants:

* `OneWriter`: one goroutine writes. So it is on every stream between gateways,
  each of which has one forwarder. On the client agent's line several may write;
  that is `WritesMix` of `Socks5Agent`.
* `GoodLinks`: a connection that runs writes together (TCP) is not read through a
  new `bufio.Reader` for each frame. `framing_tcp` shows that the theorem is
  false without it.

`FramesIntact` says nothing of the bytes between writer and reader. `FrameInv`
says of them that no piece has a gap (`NoGap`), that each cell is followed by the
one that was written after it (`Linked`, `Stream`), that the first is the next
one the reader wants (`Front`) and the last the one written last (`Back`), that
the reader has the beginning of the current header or body (`ReaderInv`), and
that on a stream the buffer never holds bytes of another frame (`LinkInv`), which
is why dropping it does no harm there. `NoGap` speaks of any two cells of a
piece, not of neighbours, so that no induction over a piece is needed. The lemmas
on sequences say what a write (`StreamHeader`, `StreamBody`), a direct read
(`StreamRead`), a fill (`StreamFill`) and a read from the buffer (`StreamTake`)
do to such a stream.

Each inductive invariant was model-checked on the instance of its run, or a
smaller one, before it was proved.

**Only model-checked.** Every invariant, action property and refinement of a
passing run has a theorem; what is left to TLC is liveness (fairness and
`ENABLED` are outside of what the prover handles): `RequestsComplete`,
`LookupsComplete`, `DepartedPeersEvicted`, `RegistrationSpreads`,
`TablesSettle`, `OnlyFourWaysToHang`, `EverythingArrives`, `LocksAreReleased`,
`TakenIsDelivered` and `NoHalfOpenSessions`. The three expected violations are
about single counterexamples and have nothing to prove.

## Not modelled

* The bytes of the socks5 dialogue, which either succeeds or ends the agent.
* DHT and discovery: the code sets libp2p up, and the loop in `Discover` does
  nothing with the peers it finds. Flags, the two servers for manual tests
  (`cmd/wsbin`, `cmd/socket_helper`), generated protobuf code and logging, except
  for the log line that reads a map.
* Headers, bodies and query arguments of requests, which are copied as they are,
  and `QueryParams` and `FormParams`, which nothing reads. `PinFile` of the
  local agent, which nothing calls.
* Memory: `requestIdChanMapping` grows with every request and is never read;
  streams are never closed.

Known limits of the code that follow from the models and have no run of their
own:

* A gateway that connects after a registration is never told about it, since
  `BroadcastService` is called once and the tables are never exchanged. A service
  learned over two hops stays after its registrar has stopped, as long as the
  gateway in between stays.
* `UpdatePeers` lists the peers before it takes the mutex (`node.go:213`): a peer
  that joins and registers in between loses its service in this round although it
  has not disconnected (`node.go:206`).
* An update that finds the subscription of a gateway full is dropped there and
  never repeated.
* Two updates of a service may be broadcast or received the other way round, since
  `BroadcastService` is called after `Unlock` and carries no version; the older one
  then stays, where `docs/service_management.md:9` speaks of "the latest value".
* Names are looked for in the whole path: any segment of more than ten word
  characters in the proxied path makes the request one that is refused, and
  `/v1/testkey/anything/foobar` (`docs/user_story.md:146`) is refused because its
  key segment is too short. `/v1/testkey/apronservicetest`
  (`test/node_connection_test.go:84`) takes its names from the second segment. A
  request that cannot be parsed is answered with 404 although the handler has set
  500, and goes to the service without an id if somebody has registered one. A
  trailing slash of the proxied path is lost, and two dots right behind the key
  take the path one segment above the provider's.
* A client of an HTTP request waits for ever in four cases, which
  `OnlyFourWaysToHang` names: its answer comes before its channel, the SSGW dies
  or the connection to it is lost and the CSGW does not notice, or the service
  never answers.
* When a data stream cannot be opened, a session goes on without it
  (`csgw_http.go:34`, `node_proxy_handler.go:233`), and the next message is read
  from its sender and lost.
* Usage added to a record that has been exported or replaced since it was looked
  up is never uploaded (`usage_record_manager.go:22`), where
  `docs/usage_report.md:18` says "all the data". An export between the two
  recordings of one request makes the second one dereference nil. A lock that was
  replaced in the map by another recorder may never be released, and the export
  then waits for it for ever. A failed upload loses the usage of its report.
* Pinata may acknowledge a truncated report. One torn file ends every later walk
  of the report generator, and without its flags the generator looks in `/tmp//`,
  where the agent without them writes to `/tmp/agTestKey/agTestSecret`.
* Data of a socket may come before the connection to the service has been stored,
  which the comment at `node_proxy_handler.go:200` means to exclude, and ends the
  SSGW. A client whose connection is stored while another client of the same agent
  is being set up may get the other's answers.

## Plan

Done: 1 to 11.

1. `ServiceDirectory`, `NodeRegistry`, and their proofs.
2. `GossipRegistry`.
3. `HttpForward` and its proofs.
4. `Framing`.
5. `UsageRecords`.
6. `SessionForward`: websockets and sockets.
7. `Socks5Agent`: sessions of one client agent that share `RemoteSocketConn`.
8. `RequestPath`: the path patterns and what both gateways make of the result.
9. `SessionChannels`, implemented by `SessionForward`.
10. `UsageReports`: agents, crashes, restarts and the report generator.
11. Proofs about `SessionForward`, `RequestPath`, `UsageReports`, `Socks5Agent`,
    `Framing` and `GossipRegistry`.
12. Left: the safety parts of the liveness properties, as theorems. For example,
    that a holder of `Node.mutex` always has a step that leads to its release,
    or that in `Framing` a reader which waits has bytes coming or a writer that
    still owes them.
