# TLA+ models of the router: link layer, DHT publishing, configuration, life cycle and event-loop glue

This directory holds TLA+ specifications of parts of the router under `src/`,
the TLC configurations that check them, and `PROJECT.json`, which records,
for every definition, the source lines it models, every run and its
expected outcome, the mutants that show each checked property can fail,
and the hazards of the code.

## The system and its parts

The router keeps authenticated UDP links to other routers (the link layer,
C4, over sessions, C3), builds onion paths through them, and publishes and
looks up hidden-service introduction sets in a DHT (C8). All mutation of
shared state happens on one logic thread (C11). Crypto work is done on a
worker pool and returns to the logic thread as a queued job (`LogicCall`).

| Part | Source | Module | Status |
|---|---|---|---|
| Link layer session tables (C4) | `link/server.cpp`, `iwp/linklayer.cpp` | `LinkLayer` | modelled |
| iwp session handshake and `Close` (C3) | not under `src/` | `LinkLayer` (from spec 4.1) | partly |
| DHT PublishIntro propagation (C8) | `dht/messages/pubintro.cpp` | `DhtPublishIntro` | partly |
| DecayingHashSet | `util/decaying_hashset.hpp` | | not modelled (no user under `src/`) |
| Configuration loading | `config/config.cpp` | `Config` (operators), used by `Router` | partly |
| Router configure, life cycle and RC persistence (C10) | `router/router.cpp` | `Router`, `MCRouter` | partly |
| libuv TCP connection glue | `ev/ev_libuv.cpp` | `TcpConnGlue`, refining `TcpConn` | partly |
| libuv loop, ticker, UDP, pipe and tun glues | `ev/ev_libuv.cpp` | `EvLoop`, `MCEvLoop` | partly |
| Key store (C2): key files and their loading | `crypto/types.cpp`, `router/router.cpp`, `link/server.cpp` | `KeyStore` | partly |
| Logic thread and pools (C11) | `util/thread/*.hpp` | assumed by every module; the crypto pool in `SendContext` | no |
| Service send context | `service/sendcontext.cpp` | `SendContext` | modelled |
| Peer stats, tooling events, ChaCha20 kernel, vendored abseil | | | not modelled (see below) |

## LinkLayer (`LinkLayer.tla`, `MCLinkLayer.tla`)

The state is the three tables of a link layer, plus what the tables refer to:

* `pending`: `m_Pending`, keyed by a session's remote endpoint (`remote[s]`).
* `authed`: `m_AuthedLinks`, a set of `<<RouterID, session>>` pairs.
* `authedAddrs`: the iwp `m_AuthedAddrs` map.
* `sstate` and `rpeer`: each session's life-cycle state and the RouterID it
  knows.
* `timeoutQ`: the HandleTimeout+Close jobs that `Pump` queued with
  `LogicCall`.

Each action is one logic-thread job. The actions are:

* `TryEstablishTo`, with `PutSession`.
* `RecvFromNew` and `RecvFromPending`, the two branches of `RecvFrom` that
  touch `m_Pending`.
* `SessionMapAddr`, the session's deferred call of `MapAddr`.
* `Pump`.
* `PendingTimeoutJob`.
* `CloseSessionTo`.
* `Stop`.

Some parts of the code are abstracted.

* The order of entries inside a multimap is unknown. A lookup of an unchanged
  table always returns the same entry, so `find` and `equal_range().first`
  are modelled as `CHOOSE` over the matching entries. For this reason no
  symmetry set is used.
* A session's handshake is verified on the crypto pool (spec 4.9). So the
  packet that completes it (`RecvFromPending`, state `linking`) and its
  `MapAddr` call (`SessionMapAddr`) are separate jobs, and other jobs can run
  between them.
* `session.cpp` is not under `src/`. Its `Close` is modelled from spec 4.1:
  the session becomes terminal. `LinkLayer::UnmapAddr` has no caller in the
  tree, so no close removes an `m_AuthedAddrs` entry.
* `MapAddr` with no pending session for the endpoint only marks the session
  ready (the iwp override still records the address); over the per-key cap
  it closes the session; otherwise it promotes the pending entry it finds.
* Timers are abstracted: `Pump` may find any subset of sessions timed out.

Runs (bounds: 2 RouterIDs, 3 endpoints, and 2 to 4 sessions; 3 for the pass
run). These are enough for two dials to one endpoint, an inbound session from a
third endpoint, and one session over a cap.

* `LinkLayer.cfg` (pass). `PendingPerEndpointCap`: both insertion paths
  respect the per-endpoint cap. `LiveSessionsTracked`: an open session is
  always in a table or awaiting its deferred close.
* `LinkLayer_promote.cfg` (violation). Pump times a linking session out. Its
  late `MapAddr` then moves the other, still handshaking, dial to the same
  endpoint into `m_AuthedLinks`.
`AuthedPerKeyCap` (spec invariant 1) is stated but has no run. The `>` in
`MapAddr` (`server.cpp:183`) admits MaxSessionsPerKey+1 sessions, and spec
scenario 4 is the unit test that shows it.

Two questions are recorded as hazards in `PROJECT.json`, not runs: RecvFrom
handing a packet to a sibling session of the same RouterID, and
`m_AuthedAddrs` naming a RouterID with no session after `CloseSessionTo` or
`Stop` (RecvFrom would dereference `end()`). RecvFrom's authed branch only
picks a session for `Recv_LL`, which is in `session.cpp`, not under `src/`.

No fairness is assumed. These are safety properties, and the link layer may
legitimately stop.

## DhtPublishIntro (`DhtPublishIntro.tla`, `MCDhtPublishIntro.tla`)

Service nodes are numbered `1..N` by XOR distance to the introset key, and
node 0 is the publishing client. The state is:

* each node's nodedb view (`known`), fixed for one propagation;
* the messages in flight;
* the nodes that stored the introset;
* the open forwarding TXs `<<node, peer, asker, publish>>`;
* which client publishes were answered;
* whether the introset has expired.

`HandlePublishIntro` is `PublishIntroMessage::HandleMessage`, with its early
returns in code order. `PropagateToClosestFour` is its lambda.
`HandleGotIntro` is the TX reply bridge (`GotIntroMessage::HandleMessage`
and the `PublishServiceJob` it completes): that code is not in the tree and is
modelled from spec 4.6. `IntroSetExpires` lets time pass the expiry; the
expired flag also stands for a failed `Verify`, which takes the same early
return.

Nodedb views: at most `MaxPartial` nodes have a partial view (at least
`MinKnown` RCs, always their own when `SelfInNodeDB`); the others know every
node. `Init` builds the views directly, so the number of initial states stays
small.

The `relayed` flag is not read from the wire: `DecodeKey` reads `R` into a
local variable. The message object's flag is set by how the message arrived:
a client's publish arrives over a path, and node-to-node forwards arrive as
link messages. The model follows that.

Fairness: `WF_vars(Deliver)`. Links between service nodes deliver the
DHT messages that are sent. Expiry need not happen. `CHECK_DEADLOCK FALSE`:
once propagation ends there is nothing left to do.

* `DhtPublishIntro.cfg` (pass; 144,024 states). Five nodes; every nodedb
  holds its own RC and one of them may know only three RCs; the introset may
  expire. Three publishes: relayOrder 0 through node 5, which is outside the
  four closest, so its non-relayed forwards reach nodes 1 and 2 and a node
  with a partial view may not find itself among its closest and forward again
  (`pubintro.cpp:138-139`); relayOrder 1 through node 3; and an invalid
  relayOrder 2 through node 4. With five nodes and three-RC views the
  re-forward happens, which four nodes cannot produce.
  * `StoredAtClosest`: with full views and no expiry, the introset ends at
    exactly nodes 1, 2, 3 and 4. This is spec scenario 2 with four nodes.
  * `PropagationTerminates` and `EveryPublishAnswered` hold for every view,
    with or without expiry. The early returns for expiry, short views and an
    invalid relayOrder still end propagation and answer the asker. The
    mutant of `EveryPublishAnswered` drops the reply on the bad-relayOrder
    return.
* `DhtPublishIntro_loop.cfg` (violation). If a nodedb lacks its own RC, two
  nodes forward a non-relayed publish to each other forever. Spec 4.6 says
  the one-hop step bounds propagation, and the code has a TODO doubting it
  (`pubintro.cpp:138`). It uses two partial views.

## Config (`Config.tla`)

`Config` is a module of operators with no state. A configuration file is a
record with one field per modelled option. An absent option is `None`.
Strings are reduced to what the acceptor tests:

* a length;
* whether a path exists;
* whether `RouterID::FromString` parses it;
* whether the log type or level parser knows it.

The acceptors that can throw are the following operators.

* `RouterOptionRejected`, with `IntLowerBound`.
* `NetworkOptionRejected`, with the recursive `BlacklistRejected`.
* `ConnectRejected`, for the `[connect]` handler.
* `BindRejected`, with `LinkPort`. `LinkPort` is `LinkInfoFromINIValues`: the
  last positive `atoi` of the comma-separated values.
* `LoggingOptionRejected`.

`Load` is `Config::Load`. Any throw makes it fail, and then it checks
`max-connections >= min-connections`. `Accepted` gives the values with their
defaults. `SpecOptionsOK` and `SpecIDsOK` are the constraint table of spec
section 6, for the same options.

## Router (`Router.tla`, `MCRouter.tla`)

The state covers:

* the configuration file and the `isRelay` argument of `Load`;
* `m_isServiceNode`;
* the progress of `Run`;
* `_running`, `_stopping` and the keys;
* `_rc`;
* the logic thread's timers;
* the disk worker's queue;
* the fields of `_rc` that the running `HandleSaveRC` has read;
* the RC file.

The actions are:

* `LoadConfig`: `Config::Load`.
* `Configure`: `Router::Configure`. It runs `FromConfig`, `InitOutboundLinks`
  and `EnsureIdentity`, and stops at the first false.
  * `FromConfig` makes the router a service node when there is an inbound
    `[bind]` link.
  * It refuses strict-connect on a service node.
  * It fails on an unreadable bootstrap RC.
  * Key files and socket binds succeed or fail nondeterministically.
* `Run`, then, for a client, the re-key in `Run` one statement at a time:
  `ClientKeygen`, `ClientSetPubkey`, `ClientSetEnckey`, `ClientResign`.
  `ClientResign` also stands for `CreateDefaultHiddenService`, and either
  may fail, ending `Run`.
* `RunFinish`, which fails when `StartAll` fails.
* `Tick`, with `UpdateOurRC` and the profile save. `Close` does not cancel
  `ticker_job_id`, so the ticker stays armed; `Tick` returns at once while
  stopping.
* `Stop`.
* `AfterStopIssued` and `AfterStopLinks`.
* `DiskStep`: the disk worker. `RouterContact::Write` serialises one field of
  the live `_rc` per step. `Close` stops the disk worker; `ThreadPool` is not
  in the tree, so the model runs no job left queued after `Close`.

Fairness: weak fairness on the continuation steps of `Run` and the stop stages,
which are queued logic jobs and timers, and on the disk worker. `LoadConfig`,
`Configure`, `Run`, `Tick` and `Stop` are calls the daemon or a timer may
never make, so they have no fairness. `CHECK_DEADLOCK FALSE`: a router that
failed to configure, or has stopped, does nothing more.

* `Router.cfg` (pass; 15 configuration files, both values of `isRelay`, 3
  signatures, 2 disk jobs). The files reach every outcome of `Load` and
  `Configure`. The properties are:
  * `RunningConfigWithinSpec`: a running router's file meets the option table
    for the role it was loaded as, and strict-connect is used only by a
    client. The checks are split between the acceptors, the handlers called
    while values are added, and `FromConfig`.
  * `LatestRCPersisted`: a service node that keeps running without being
    closed eventually has its latest RC on disk, across regenerations queued
    behind each other and the profile saves between them.
* `Router_config.cfg` (violation, `ValidConfigLoads`). A file with one valid
  `blacklist-snode` entry fails `Load`. The acceptor throws when
  `m_snodeBlacklist.emplace(id).second` is true (`config.cpp:224`), which is
  the first time the id is seen.
* `Router_torn.cfg` (violation, `FileValid`). `HandleSaveRC` serialises the
  live `_rc` while a client's `Run` replaces its keys, so the file can hold
  an RC that does not verify.

## TcpConnGlue (`TcpConnGlue.tla`)

The model covers one TCP `conn_glue`, outbound or accepted. Its state is:

* the three libuv handles;
* the write queue and the uv_write requests in flight;
* the shutdown;
* the jobs `Call` queued on the logic thread;
* whether the glue is freed.

`Init` is the constructors. `ConnectStarted` is `Loop::tcp_connect` and
`AcceptedChild` is `conn_glue::Accept`. The loop-thread actions are the libuv
callbacks. The logic-thread actions are the queued jobs and the user's
`WriteAsync` and `Close`.

Fairness: weak fairness on the loop callbacks of events that have happened
(a connect result, a tick, an async send, a finished write, the shutdown and
the closes) and on the logic thread's queued jobs. The loop runs every such
callback, and the logic thread drains its queue. Data or EOF from the peer
(`OnRead`) need not come, and the user's writes and closes need not happen.
`CHECK_DEADLOCK FALSE`: a freed connection does nothing more.

`TcpConn.tla` is the abstract connection, as its user sees it:

* pending, then open or failed;
* while open, writes are accepted up to the queue capacity, and every accepted
  write is handed to the socket unless a close discards it;
* reads and ticks reach the user only while open or closing;
* a close leads to one closed callback, then to the free.

`TcpConnGlue` instantiates it as `Conn` with a refinement mapping:

* the phase comes from `impl`, the write-notify async, `closedCbs` and
  `freed`;
* the unsent writes are the queue length while the queue is not disabled;
* a read or tick counts as delivered once its job has left the logic queue.

* `TcpConnGlue.cfg` (pass; both roles, queue capacity 2, 3 writes, 2 posted
  reads or ticks). The properties are:
  * `NoUseAfterFree`: the glue is freed only after all handles are closed,
    no connect or write is outstanding, and no logic job refers to it.
  * `CloseCompletes`: every close ends in exactly one closed callback and
    the free.
  * `ConnSpec` (`Conn!Spec`): the glue implements `TcpConn`. Its mutant queues
    a write without `uv_async_send`, and the accepted write then stays unsent
    on an open connection.
* `CloseInCallback` lets the user's connected or accepted callback close the
  connection. It is `FALSE` in the pass run.
* `TcpConnGlue_cbclose.cfg` (violation, `NoUseAfterFree`; `CloseInCallback`
  `TRUE`). `HandleConnectResult` and `Accept` call `Start()` after the
  callback (`ev_libuv.cpp:188-189`, `391-392`). After a close inside the
  callback, `Start` re-arms the check and reading; a tick is posted behind
  `HandleClosed`, and `FullClose` frees the glue before that tick's job runs.
  The close itself runs on the logic thread and calls libuv off the loop
  thread; the model takes each call as one step.
* `SyncFailures` lets `uv_tcp_connect` and `uv_accept` fail at once. It is
  `FALSE` in the run. With it `TRUE`, `NoUseAfterFree` is violated:
  `Loop::tcp_connect` deletes the glue without `uv_close` on its three
  handles (`ev_libuv.cpp:818`). The `loop_handles` run records this class of
  defect.

## EvLoop (`EvLoop.tla`, `MCEvLoop.tla`)

The model covers the loop's handle registry and the glues other than TCP:
`ticker_glue`, `udp_glue`, `pipe_glue` and `tun_glue`. Its state is:

* each glue's life (not created, live, freed);
* each handle's state (`m_Handle` and `m_Ticker`): not in the loop, inactive,
  active or closing;
* each handle's `data` and the user's `impl` pointer;
* `loop->handle_queue`, in init order;
* the handles the running `uv_walk` has still to visit;
* the jobs the check callbacks queued on the logic thread.

The actions are:

* `AddTicker`, `UdpListen`, `AddPipe` and `TunListen`: the `Loop` functions.
  Each calls `StartGlue` with the outcomes of the glue's start-up, every
  failing libuv or tuntap call included. A failed start deletes the glue,
  and its registered handles stay in the loop.
* `UdpClose`: `Loop::udp_close`.
* `OnTick` and `OnClosed`: the libuv callbacks.
* `RunJob`: the logic thread.
* `Stop`: `Loop::stop`.
* `WalkStep`: one visit of `CloseAll`'s walk. `CloseGlue` is the virtual
  `Close`: `CloseTicker` for the ticker, `CloseStream` for the others.

Under `src/`, only the router's `PumpLL` ticker (`router.cpp:1037`) and each
link's UDP socket (`server.cpp:122`) are created. `MCEvLoop` has one of each.
`Loop::init`'s tick timer (`m_TickTimer`, whose `data` is the `Loop`) is left
out, with `Loop::tick`. `uv_run(UV_RUN_ONCE)` can return with the timer still
active, and a later `CloseAll` walk would then call `Close` on the `Loop`
through a `glue*` cast. That is recorded as a hazard with no run.

* `EvLoop.cfg` (violation, `LoopNoUseAfterFree`). The property says a glue is
  deleted only when no handle it owns is in the loop and no logic job refers
  to it. It is violated in three steps:
  * the ticker is added, `Loop::stop` runs, and `CloseAll` calls
    `ticker_glue::Close`. That stops the check and deletes the glue without
    `uv_close` (`ev_libuv.cpp:428-434`);
  * the same happens for UDP. `udp_glue::Close` closes only `m_Handle`, and
    `OnClosed` deletes the glue with `m_Ticker` still registered.
  With start-up failures enabled and two posts, the model has 680 reachable
  states.

## KeyStore (`KeyStore.tla`)

The model covers the router's long-term key files across kills and restarts
of the daemon. Its state is:

* the files (`disk`): absent, raw (64 bytes), bencoded, or torn;
* `_encryption` and `_identity` (`mem`);
* the transport key of the links (`mem`, too);
* the progress of `Router::Configure` through the key files (`pc`);
* `linksLeft`, the `EnsureKeys` calls still to make;
* `stale`, the keys this process has bencoded on the stack;
* the key counter, and the number of restarts.

The files and the key counter are the durable state.

`Router::Configure` first has every link it creates call
`ILinkLayer::EnsureKeys` on the transport key file: each inbound link of
`FromConfig` (`Inbound` of them), then the outbound link of
`InitOutboundLinks`. Then comes `EnsureIdentity`. The transport file's actions
are:

* `EnsureKeys`: the same find-or-generate step as `FindOrCreate`.
* `WriteFileOpen` and `WriteFileWrite`: `BEncodeWriteFile`, split at the
  truncating open like `SaveToFile`. The write's stream state is not
  checked, so a failed write is not reported.
* `ReadFile`: `BDecodeReadFile` reads the whole file, and a torn file does
  not decode, so the start fails. `AfterEnsureKeys` picks the next link or
  `EnsureIdentity`.

`BEncodeWriteFile` and `BDecodeReadFile` (`util/bencode.hpp`) are not in the
tree. These three actions are modelled from the spec's description of the key
files, taking the shape of `SaveToFile`.

The actions of `Router::EnsureIdentity`, one step at a time:

* `FindOrCreate`: `llarp_findOrCreate*`. If the file does not exist, it
  generates a key.
* `SaveOpen` and `SaveWrite`: `SecretKey::SaveToFile`, split at the
  truncating open. Either step can fail, and so can the write.
* `LoadFromFile`, with `LoadResults` for the outcomes:
  * a 64-byte file is raw;
  * a complete bencoding decodes;
  * a short file is decoded from the 128-byte stack array, whose tail was
    never written. That is undefined behaviour, so the outcome is a
    nondeterministic choice: failure, `Junk` (a key whose public half is not
    its seed's), or a key this process bencoded earlier.
* `LoadSeed`, with `SeedIdentity`: the lokid seed file of
  `llarp_loadServiceNodeIdentityKey`.
* `Crash` and `Restart`: a kill at any step, and a start with only the files
  left. Both are bounded by `MaxRestarts`.

* `KeyStore.cfg` (violation, `KeysAsPersisted`; 3 keys, one for each file;
  2 restarts; one inbound link). The
  property says a router past `EnsureIdentity` holds exactly the keys its
  files hold in full. The trace:
  1. The first start creates the encryption key.
  2. The daemon is killed after the truncating open and before the write.
  3. The next start finds the file, so it does not regenerate the key.
  4. It loads the torn file with the uninitialized tail and goes on with a
     junk encryption key. The other outcomes are a start that fails every
     time until the file is deleted, or, for the identity, the encryption
     key decoded from the same stack bytes.

  Spec 7 regenerates only missing files, and spec 8 has a saved key load
  back as itself. A torn transport file does not load, so every later start
  fails at `EnsureKeys`. That is a liveness failure, which no run checks.

## SendContext (`SendContext.tla`)

A hidden-service send context sends frames to one remote introduction. The
work runs on three lanes:

1. On the logic thread, `EncryptAndSendTo` numbers the frame
   (`S = ++sequenceNo`).
2. It queues an encrypt-and-sign job on the crypto pool.
3. The job posts a `LogicCall` that runs `Send` and then `FlushUpstream`.

The state:

* `sequenceNo` and `lastGoodSend`;
* `pool`, the crypto job queue, and `running`, the jobs the pool's
  `CryptoThreads` threads are executing;
* `logicQ`, the queued `LogicCall`s;
* `m_SendQueue`;
* `upstream`, the frames that paths accepted, in order;
* `dropped`, a history of the frames that will never be sent.

A frame is its sequence number. Paths, keys and payloads are reduced to
success or failure.

The actions:

* `AsyncEncryptAndSendTo` takes the established route once `lastGoodSend` is
  set, and goes to `AsyncGenIntro` before that.
* `EncryptAndSendTo` numbers the frame before its two early returns (no path,
  no cached key).
* `TakeJob` is a pool thread taking the oldest job.
* `CryptoJob` signs the frame, or fails and only logs, and on success posts
  the `LogicCall`.
* `SendAndFlush` is that `LogicCall`: `Send`, then `FlushUpstream`. Each
  queued frame goes upstream or is lost, `lastGoodSend` is set on a success,
  and the queue is cleared.

`AsyncGenIntro`, `IntroDone` and the pool (`TakeJob`) stand for code that is
not in the tree. They are modelled from spec sections 4.9 and 5.

Fairness: weak fairness on `TakeJob`, on each `CryptoJob` and on
`SendAndFlush`. Pool threads and the logic thread run whatever is queued.

* `SendContext.cfg` (pass; six payloads, two crypto threads; 3,907 states).
  * `FramesSentOnce`: no frame goes upstream twice, or both upstream and
    lost, whatever order the threads finish in.
  * `EveryFrameSettles`: every numbered frame eventually goes upstream or is
    dropped.

  With two threads, frames can go upstream out of sequence order. Neither the
  spec nor the code promises order here (the spec promises it only for link
  sessions, C3), so no property asserts it.

## Not modelled

* In `ev_libuv.cpp`: the TCP acceptor (`conn_glue::Server`, `OnAccept`,
  `Loop::tcp_listen`), which also deletes a glue without `uv_close` on a
  failed start. Also `Loop::tick`/`run` with the timer, `call_later`, and the
  bytes moved by reads, writes and `recvmmsg`. UDP packets enter `LinkLayer`
  as `RecvFrom` actions.
* `util/thread`: `logic.hpp` only declares `Logic`, and its implementation
  and the thread pool are not under `src/`. `threading.hpp`'s `Semaphore` has
  no user in the tree, and `NullMutex`/`ContentionKiller` are used only by the
  missing `Logic` code.
* Peer stats and the tooling events change no protocol state.
* `DecayingHashSet` has no user under `src/` besides its unit tests. It is a
  single-threaded container, and the spec's property of it (a value is not
  accepted again within its interval) is what those tests check.
* The ChaCha20 AVX2 kernel and the vendored abseil code are data
  transformations.
* The outbound session maker, message dispatcher, nodedb, path builder,
  `Session` and `ConfigDefinition` have no code under `src/`.

## Plan

1. Key clamping (`crypto/types.cpp` `toPrivate`) as a `Bitwise` operator
   checked against the spec's bit rule.
2. An abstract session-table specification that `LinkLayer` refines, like
   `TcpConn` for the glue.
3. The destruction of a send context by its endpoint, which would need the
   `OutboundContext` code.
4. `udp_tick` as one logic job: a batch of `RecvFrom` followed by `Pump`.
5. `Loop::tcp_listen` and the acceptor in the glue model.
6. A fixed close for the glues (`uv_close` on every handle, delete in the
   last callback) as a passing `EvLoop` run.
