# longsocks: TLA+ models, checks and proofs

longsocks tunnels TCP and UDP through WebSockets: a client listens locally
(SOCKS5, HTTP CONNECT, SOCKS5 with UDP, port forwards), a server dials the
targets. This directory holds TLA+ modules for the parts of the program where
ordering, failure and sharing matter, the TLC configurations that check them,
and proofs of the main invariants for all values of the constants.

`PROJECT.json` lists components, runs, mutants, the map from definitions to
source lines, findings, hazards and theorems.

## 1. Inventory

| Component | State | Operations | Hard behaviours | What makes it correct |
|---|---|---|---|---|
| backoff (`internal/backoff`) | attempt, limit, interval | `New`, `Next` (`Reset` is never called) | boundaries of limit, cap and jitter | exact retry budget, delay window |
| client dial loops (`client.go`, `connect.go`, `session.go`, `udp.go`, `dial.go`) | backoff, open sockets | dial, check fingerprint, start yamux, retry, cancel | failure after a partial success; cancellation against timer | budget, nothing leaked, ends |
| mux dialer (`client.go` `muxDialer`) | `d.session`, `d.mu` | `getSession`, `dial` | callers share one session; it dies at any time; the mutex is held through all retries | implements a pool of one session, every dial returns unless the server never answers |
| port forwarding client (`forward.go`) | session of the round, WaitGroup, listeners | `Forward` and its goroutines | loss noticed late and at different times by the two ends; restart of a round | one session, reconnects, ports restored |
| server mux sessions (`server.go` `muxHandler` ...) | stream queue, current header, reverse listeners | accept, read header, bind, connect, clean up | header read inside the accept loop; ports contended by sessions | listeners owned and released, streams handled once |
| relay (`internal/relay`) | two copiers, two counters | copy, close, count | partial writes, half-close, each copier closing the other's source | exact counts, no silent loss, returns |
| per-connection handlers (`connectHandler`, `connectHTTPHandler`, the client's `handleConnect`), audit, metrics, statistics | open connections, gauges, atomic counters | serve, log, count, report | every error path; reports read counters one by one | nothing left open, books balance |
| UDP relay (`udp.go`, `connectUDPHandler`) | `clientAddr`, one WebSocket, one pending answer | `Run`, `readFromServer`, the server's loop | answers against deadlines, shared `clientAddr`, lengths of frames | order, accounting, termination, layout of RFC 1928 |
| start-up and routing (`cmd/server.go`, `ListenAndServe`) | chain, registered patterns, running loops | `runServer`, register, listen, return | a step fails after others succeeded; two loops over the mode list; a CA file that is left out | no bearer layer missing, modes are served |
| authentication chain and mTLS (`auth.go`, `mtls.go`, `authenticateRequest`) | none of its own | try layer by layer | layers reload between two tries | one layer suffices |
| static tokens (`static.go`) | token map | list, read file by file, install | files edited during the pass; any step fails | tokens of one pass, catches up |
| JWT and revocation (`jwt.go`) | key, revoked set | parse key, scan file, verify | five PEM parsers; file missing or rewritten during the scan | key holders only, revocations stick |
| OIDC (`oidc.go`) | cached key set | `Authenticate`, `refreshJWKS`, `watchLoop` | concurrent refreshes install in any order | refusals have a cause, cache converges |
| token issuer (`issuer.go`, `cmd/token.go`) | none | `IssueToken`, `VerifyToken` | picks parsers in another order than the server | what it signs is what the server accepts |
| mux stream header (`internal/mux`) | none | write, read | cut short by a loss | see Tunnel, MuxServer |
| fingerprint (`internal/fingerprint`) | none | load or generate | a restart changes it | see DialRetry |
| command line (`cmd/client.go`, `cmd/forward.go`, ...) | none | flags | none | not modelled |

How they interact: every dial loop uses a backoff; the mux dialer and `Forward`
use `dialMuxSession`; `Forward` talks to `muxHandler` over yamux; all TCP paths
end in `relay.Relay`, whose counts go to the audit log, from there to the
metrics, and separately to the statistics; every handler begins with
`authenticateRequest`, which asks the chain `runServer` has built, whose layers
are reloaded by loops of their own.

## 2. Modules

State variables and actions carry the names of the code where they can. Each
action stands for the code up to the next point at which another goroutine, the
peer, the file system or the network can interfere.

* **Backoff**: operators on the `Backoff` record. `Next` is split into
  `Permitted`, `Delay` and `Advance`. Milliseconds; jitter is a percentage.
* **DialRetry** extends it: one run of any of the four dial loops. `Retry` is
  their common error path; `Mismatch` and `YamuxError` are the failures after
  the WebSocket was opened. Only `dialServer` has a context that can be done
  (`CallerGone`): go-socks5, `Forward` and `NewUDPRelay` pass the background
  context. `NewUDPRelay` owns a UDP socket. `websocket.Dial` has no deadline, so
  `Answer`, the result of a dial, is kept apart from `Proceed`, what the loop
  does by itself.
* **SessionPool**: what callers of a mux dialer may rely on: a set of live
  sessions, of which at most one is kept; dial only when none is; forget one
  only when an open failed on it. An abstract specification without the mutex.
* **MuxDialer**: callers, the mutex and the sessions. `GetHit`/`GetMiss` are the
  critical section of `getSession` (the mutex stays taken through `DialRetry`,
  `Wake`), `Clear` the error path of `dial`. `Answered` are the results of a
  WebSocket dial, which may never come. `ImplementsPool` is SessionPool
  under a refinement mapping.
* **MuxServer**: handlers, streams, reverse ports and reverse connections, with
  arbitrary clients. A closed listener stays in `listeners` until clean-up, as
  in the slice `reverseListeners`, while `owner` says who holds the port now.
  With `BindMayFail`, `net.Listen` refuses a port also when no session holds it:
  another process does, or the port or address is not the server's to take.
* **PortLease**: what the server promises its mux sessions about ports: a port
  asked for is lent only when no session holds it, and refused only when ports
  are not lent, a session holds it, or (`MayRefuse`) for a cause outside the
  server; it is given back at the end of its session or by a listener that
  fails, and a connection belongs to the session that held the port when it
  came. `ImplementsLease` in MuxServer is PortLease under a refinement mapping:
  a session wants a port while its handler has a bind header in its hands, and
  it holds the ports that `owner` gives it.
* **Tunnel** extends MuxServer and adds `Forward`: the client's end of each
  session (`up`) and the transport (`broken`) are separate from the server's end
  (`sess`), because yamux notices a loss at each end by itself. What is sent
  over a broken transport is lost without an error.
* **Relay**: bytes are counted, not represented. `half` makes an end a yamux
  stream (Close ends one direction) or a TCP connection or WebSocket (both).
* **RelayPipe**: what callers of `relay.Relay` may rely on: in each direction the
  first part of what was sent arrives, a direction stops for good and for a
  cause, and the totals are told once, when both have stopped. `ImplementsPipe`
  in Relay is RelayPipe under a refinement mapping: a byte has passed when it is
  written, and the totals are the two counters when both copiers are done.
* **Handlers**: `connectHandler`, `connectHTTPHandler` and the client's
  `handleConnect` (`kind` "ws", "http", "proxy") from request to return, metrics
  per label, and each atomic operation of `StatsAggregator` as a step. The
  proxy keeps no books. The accounting calls of `handleMuxConnect` and
  `handleReverseConn` are those of the server's handlers.
* **UdpFrame**: a frame is a fragment number, an address type, a host and a
  length. `Touched` is the set of offsets `parseUDPFrame` reads (FRAG, byte 2, is
  not among them), `Need` and `AddrEnd` its checks; `SplitHostPort` is what
  joining and splitting host and port does to a host; `HeaderLen` is the length
  of a header in RFC 1928.
* **UdpRelay** extends it: applications, client, WebSocket, server loop, targets.
  `coming` is the set of datagrams with an answer on its way: a target may answer
  at any time after a datagram left, late and repeatedly. The server takes only
  the answer to the socket it waits on, which is the current datagram's own.
  The WebSocket library's default limit on message size is part of the model.
* **TokenReload**: `NewStaticDir`/`reload` and `loadRevocations` with the
  operator's edits between any two of their steps: the directory is listed once
  and its entries (`todo`) are read one by one, in the order of the listing
  (`Pos`); the revocation file is opened, then scanned; a file
  replaced meanwhile stays as it was opened, one rewritten in place does not.
  History variables (`span`, `last`, `always`) say what was on disk when.
* **JwtKeys**: key files (form, family, identity) with `buildKeyFunc` on one
  side and `IssueToken`/`VerifyToken` on the other.
* **Oidc**: keys are numbers; the provider publishes the current key and the
  next. Each refresh is fetch, fetch, install.
* **Server** extends TokenReload, Oidc and JwtKeys: `runServer` flag by flag,
  `ListenAndServe`'s two loops over the modes, and requests that pass the chain
  one layer per step while the loops run. `good` is the history of layers that
  would have accepted a request ever since it came.
* **SumTheorems**: facts about sums over finite sets, for the proofs.
* **...Proofs**: theorems (section 4). TunnelProofs has those about MuxServer
  too.
* **MC...**: instances. Operators commented "Mutant" are deliberate bugs that
  the listed properties must detect; no specification uses them.

## 3. Runs

| Run | Bounds | States | Shows |
|---|---|---|---|
| `dial_retry` | limits -1, 0, 1, 3; intervals 0 (default), 0.7 s, 3 s; five jitters; counting stops at 10 | 15,912 | budget is exact, delays in their window, sockets closed, loops settle |
| `mux_dialer` | 2 callers, 3 sessions, 1 retry | 33,232 | implements SessionPool; an open session is lost track of only in `dial`'s error path; every dial returns unless one WebSocket dial is never answered |
| `mux_dialer_single` (violation) | same, writes never time out | | two live sessions |
| `mux_server` | 2 sessions, 2 streams, 1 port, 1 reverse connection, binds and listeners that fail | 32,898 | implements PortLease; ownership and release of listeners |
| `tunnel` | 1 forward, 1 reverse, 2 sessions, 3 streams, 1 connection to each port; `OneSessionOrNoConnection` | 88,858 | one session, reconnects unless a forward listens; stale handler ends; no stream or local connection is stuck |
| `tunnel_redial` (violation) | 1 forward, 1 reverse | | never reconnects when a forward listens |
| `tunnel_reverse` (violation) | reverse only, 2 sessions | | reverse port lost after a quick reconnect |
| `relay` | 2 bytes each way, window 1, buffer 2, all pairings of end types | 111,528 | counts, no silent loss, implements RelayPipe, termination |
| `handlers` | 2 requests of any of three kinds, 1 name and none, 1 byte | 1,260,316 | nothing left open; metrics and statistics; reports |
| `udp_relay` | 2 applications, 3 datagrams, a boundary sample of frames, answers of 100 and 32759 bytes, one late answer at a time for each datagram | 739,807 | order under late answers, misdirection, accounting, frames, termination |
| `server` | 1 request, 2 edits, 2 rotations, 2 token files, 2 values, 2 revocation entries, every key file, every list of one or two modes | 157,867 | bearer layers complete, reloads consistent and caught up with, keys fit, SOCKS5 paths served, OIDC converges |
| `server_modes` (violation) | the mode lists `socks5,connect,socks5-udp` and `connect` | | the start panics; the connect client's path is not served |

Why the bounds are enough. The races found need two parties and a third object
to fight over (two callers and two sessions; two sessions and a port; a refresh
by the loop and one by a request), so two of each is the least that shows them
and a third session leaves room for recovery. In `relay` a buffer of 2 over a
window of 1 is the least in which a write can fail part of the way. Retry limits
above 3 repeat the same step; without a limit, counting stops at a bound where
the delay is capped anyway. In `udp_relay` the first datagram comes from a
sample with lengths on both sides of each check `parseUDPFrame` makes and of the
read limit, with names of 0, 3 and 255 bytes, brackets, loopback, and every
address type; what follows one that is plain, refused or too short is plain or
over the limit, so that a frame is met by the interleavings and not only by the
parser. Three datagrams let the answer to the first come while the server waits
for the second or third. An answer of 32759 bytes makes a frame of more than 32
KiB, which the client's WebSocket refuses. In `server` a pass over two files
with two edits is the least in which a value moves from a file not yet read to
one already read, and two rotations let an old key set overtake a newer one. Its
command lines vary one concern at a time: the mode list; TLS flags and the CA
file; static tokens with the environment variable and a directory; a JWT key
from every file form, family and identity; revocations; OIDC. Layers do not
share state, and `OneLayerSuffices` is proved for all combinations.

In `tunnel` the constraint `OneSessionOrNoConnection` keeps two sessions and the
local and reverse connections apart: what needs a second session (losses seen
late, stale handlers, rounds) and what needs connections (streams behind a
header, forwarding to a closed session) are explored in full, their product is
not. What it cuts off are a dial that succeeds, a local connection and a
connection to the reverse port, steps that no fairness asks for, so it makes no
liveness property hold that would fail without it.

`CHECK_DEADLOCK FALSE` is given where the modelled run may end: a dial loop
that returned, relays and handlers that are done, a server that has returned or
runs out of bounded sessions. `mux_dialer` checks for deadlock.

### Fairness

* Weak fairness of goroutines: the Go scheduler runs what can run. It is never
  assumed of peers, of applications, or of a dial to succeed.
* WebSocket dials have no deadline (`dial.go:51`), so nothing makes one return:
  `DialRetry`, `MuxDialer` and `Tunnel` leave the steps that end a dial without
  fairness. `Settles` and `DialReturns` name the dial that is never answered as
  the one other outcome. In `DialRetry` a dial whose context is done does return.
* `MuxDialer`, strong fairness of taking the mutex: `sync.Mutex` switches to
  starvation mode and hands the lock to a waiter after 1 ms.
* `DialRetry`, strong fairness of `Cancel`: `select` picks at random among ready
  channels.
* `Tunnel`, weak fairness of `ServerDetects` and `ClientDetects`: yamux's
  keepalive and write timeout are on in the default configuration both ends use.
* `Relay`, weak fairness of `CloseTimeout` (yamux's default) and of
  `PeerReceive`. The latter is an assumption: see the observation on
  `relay.go:46`.
* `UdpRelay`: the read deadline of five seconds makes the server's wait end.
* `Server`: the start goes on, tickers tick and the reload loops run (weak). A
  provider that is asked again and again by the hourly loop answers sometimes
  (strong fairness of the loop's two fetches). Nothing is asked of requests, of
  the operator, or of a start to succeed. `FilesCatchUp` and `Converges` assume
  in their statement that edits and rotations end; `FilesCatchUp` also that the
  files end up readable.

### Findings

Four violation runs show where the code does not do what its documentation
says; `PROJECT.json` quotes the lines.

* `mux_dialer_single`: the error path of `muxDialer.dial` forgets a live session.
* `tunnel_redial`: `Forward` waits in `wg.Wait` for its forward listeners and
  never reconnects.
* `tunnel_reverse`: after a quick reconnect the client's own stale session still
  holds the reverse port, and the refusal is never read.
* `server_modes`: `--modes socks5,connect,socks5-udp` (README.md:180-185)
  registers `/connect` twice (`server.go:71`), which panics; with `--modes
  connect` (README.md:93, 126) the server registers `/connect-http`
  (`server.go:73`), while the connect client dials `/connect`
  (`connect.go:101`). The run has both lists, and each violates
  `EndpointsServed` by itself. `SocksPathsServed`, of the run `server`, is what
  does hold: of servers that are up, for SOCKS5 and mux clients.

### Observations

Met while modelling, without a violation run of their own; the models do what
the code does.

* Jitter is applied after the cap (`backoff.go:52`), so delays reach 1.5 times
  `--max-retry-interval`, which `cmd/client.go:46` calls the "Max delay between
  retries". `DelayWindow` states the factor that holds.
* The UDP relay does not reconnect (`udp.go:107`, `udp.go:118`), against
  README.md:246. In UdpRelay, `Run` and `Reader` end for good.
* `parseUDPFrame` joins IPv6 addresses and ports without brackets
  (`server.go:593`), so `validateTarget` refuses them all (`SplitHostPort`).
* A server that accepts a connection and never answers the WebSocket dial stops
  its caller for good, retry limit or not: no dial has a deadline (`dial.go:51`).
  With `--mux` it stops every SOCKS5 connection, because `getSession` dials with
  `d.mu` held (`client.go:146`, `session.go:61`).
* `parseUDPFrame` does not look at FRAG (`server.go:555-560`): each fragment of a
  datagram is forwarded as a datagram, where RFC 1928, which README.md:932 names,
  has implementations without reassembly drop it. `FramesDecode` says so in its
  comment, and the frames of `udp_relay` include fragments.
* Names in `--modes` are checked trimmed and passed on untrimmed
  (`cmd/server.go`): after "socks5, connect" the mode " connect" gets no handler.
* One token file that cannot be read keeps the whole old set, removed tokens
  included (`static.go:73`), against README.md:477. `FilesCatchUp` needs
  `Readable`.
* A revocation file truncated and written again lifts its revocations if the
  reload falls in between (`jwt.go:134`); replacing it by a rename does not.
  `RevocationSticks` is about entries that every content had.
* `--tls-ca` alone, with no token, leaves the chain empty, and an empty chain
  accepts everybody (`authenticateRequest`), with a certificate or without. A CA
  file that cannot be loaded is logged and left out (`server.go:139-142`), and
  without TLS flags it is not looked at, though README.md:278 and 428-438 make
  mutual TLS one of five layers: a server may start without a layer its flags
  name, and if it is the only one, everybody gets in either way.
  `BearerLayersComplete` is about the other four.
* A token signed with `hs256`, the default, from a PEM file uses the text of the
  file as the secret; no server started with that file accepts it.
* What a client sends between the 200 of CONNECT and `Hijack` may be in the
  buffered reader that the handlers drop (`server.go:289`, `connect.go`).
* A peer that stops reading blocks a copier in Write for ever (`relay.go:46`):
  neither TCP nor the relay has a deadline. `Terminates` assumes it reads.
* A frame with an empty domain name is complete and parses; the name is then
  resolved like any other.

## 4. Theorems

All hold for every value of the constants the modules' ASSUMEs allow. Each rests
on an invariant that is inductive, which the checked ones alone are not.

* **DialRetryProofs** (`LoopTyped`, `BudgetKept`, `SocketsClosed`,
  `DelaysInWindow`). The invariant ties the number of dials to the backoff's
  attempt counter at each place of the loop, and the sockets to the place. For
  all limits, intervals and jitters. `DelaysInWindow` rests on `PowerOfTwo` and
  `JitterWindow`: the doubled interval is a natural number for any attempt, and
  the percentage with its division stays in the window that the cap leaves.
* **MuxDialerProofs** (`TypeCorrect`, `SessionsAccounted`, `NoDialInVain`,
  `LiveSessionKept`, `Implements`). The invariant adds that a caller that dials
  or sleeps holds the mutex, and that while the mutex is held for a dial the
  stored session is not live. Without the first, a second caller could store a
  session while the first is dialing; without the second, storing could drop a
  live one. From it each step maps to a step of SessionPool or a stutter.
* **RelayProofs** (`TypeCorrect`, `CountsCorrect`, `LossHasCause`,
  `RelayIsPipe`). The invariant relates the counter to the bytes written and the
  write in progress, and the bytes written to the bytes read: what was read and
  not written is in the copier's buffer or was dropped by a failed write. For
  the refinement it adds that an end is closed only by a copier that is done
  (`ClosedByCopier`): a direction that stops because its source was closed stops
  after the other one, as RelayPipe demands. The last `Close` is the step that
  tells the totals, and they are right because no copier is in a write then.
* **TunnelProofs**, about MuxServer (`TypeCorrect`, `ListenersBelong`,
  `StreamsHandledOnce`, `ServerLeases`). The invariant adds that a handler
  reading a header has a stream, and that the handler of a session not yet
  upgraded has no listeners. `ServerLeases`: each step is a step of PortLease or
  a stutter; a refused bind has one of the causes PortLease names. Most only
  move the stage of one handler or the header it reads; a handler's return maps
  to the end of the lease because a port is owned only by a session that has its
  listener in its list (`ListenersOwned`), and the list is empty by then.
* **TunnelProofs**, about Tunnel (`TunnelTypeCorrect`, `OneSession`,
  `ImplementsMuxServer`, `TunnelListeners`, `TunnelLeases`). Each step of the
  composition is a step of MuxServer or leaves its variables alone, so what is
  proved there holds here. The client's invariant ties the open end of a session
  to the round that `Forward` is in.
* **HandlersProofs** (`HandlersTyped`, `NothingStaysOpen`, `AccountsBalance`,
  `MetricsReturn`, `StatsAndMetricsAgree`, `ReportsGoForward`). The first
  invariant says which connections are open at each place of a handler. The
  second, `Balanced`, says at every moment, and not only when the handlers are
  idle, what each of them has contributed to the metrics of its label and to the
  statistics: these are the sums of the contributions. A step of a handler
  changes one contribution and the accounts by the same amount (`Moves`); when
  all are idle the contributions are what `MetricsBalanced` and `StatsAgree` say.
  The third: what a report has loaded lies between the last report and the
  counters, which only grow, whichever handlers add to them meanwhile.
* **UdpRelayProofs** (`AnswersOrdered`, `StrayAnswersGoForward`,
  `FramesAreDecoded`, `SessionIsAccounted`). A datagram's number passes seven
  stages (inbox, `Run`, the WebSocket, the server, the WebSocket back, the
  reader, delivered); the invariant says that the numbers are in order within
  each stage and that a later stage holds smaller ones, and that `clientAddr` is
  the sender of a datagram at least as new as all that are on their way.
  `FramesAreDecoded` rests on lemmas about the codec (`ParseIsLayout`,
  `BuildIsLayout`) for frames of any length. `SessionIsAccounted` uses the order
  again: a datagram that is sent to its target, or an answer that arrives, is
  new, so that each adds to its sum once.
* **SumTheorems**: `SumFunctionOnSet` of the community modules is a fold over a
  finite set. The lemmas say that it satisfies the equation it is meant to,
  whichever order the fold takes, and what becomes of a sum when its function or
  its set changes at one element. They are proved with a least counterexample
  (`LeastSubset`), which takes the place of induction.
* **ServerProofs**: `AllBearerLayersAsked` (the chain at each place of
  `runServer`, and what let a request in that brought nothing);
  `RevocationsStick` (entries always in the file are in the opened file while it
  is scanned and in the installed set after that); `RefusalsHaveCause` (a key
  set that was fetched during a request is one of its time, and a key missing
  from it has been replaced for good); `ServerRunsOidc` (the steps of a server
  are steps of Oidc or leave its variables alone); `OneLayerIsEnough` (layers
  that still accept a request stand at or after the one it is at); `PathsServed`
  (the modes before `mi` have their patterns); `KeyHoldersPass` (the JWT layer's
  answer cannot change without a revocation file; which keys verify which
  signatures, by form and family); `TokensAreOfOnePass` (`DirInv`: while a pass
  runs, its map has only what was seen on disk, every pair that has been there
  all the time is in the map or yet to be read, and the files in the map stand
  before those yet to be read, so that a later file that takes a value over is
  indeed a later one); `ServerTyped` (with all the invariants above: that no
  request passes more layers than the chain has needs that none arrives while
  the chain is built).

Assumptions. The theorems use the ASSUMEs of the modules and nothing else. Beyond
the ranges of numbers and what separates constants from each other, Handlers
assumes finitely many requests and token names, for which sums are defined;
TokenReload that the list of token files names each once, as a directory listing
does, and that the words for a file without a token are no token values; Server
that command lines, revocation entries and what clients bring are of their kind.

Every safety invariant and every action property of the passing runs is stated
by a theorem, and so are the three refinements. Only model-checked are the
liveness properties (`Settles`, `DialReturns`, `PortsReleased`,
`ReverseConnResolved`, `RedialsUnlessListening`, `StaleHandlerEnds`,
`StreamsAccepted`, `LocalConnResolved`, `Terminates`, `HandlerEnds`,
`FilesCatchUp`, `Converges`): the prover does not reason about fairness. The
violation runs are TLC's by their nature.

## 5. Not modelled

* The command line of client and forward, flag parsing, logging, the duration
  histogram: no state, or no property depends on it.
* `parseDuration` of the token issuer and the expiry of JWTs: time is not
  modelled, a token is one that has not expired; what `longsocks token verify`
  prints.
* The byte format of the mux stream header: with the addresses this program
  sends (SOCKS names are at most 255 bytes) its length field never overflows.
* A revocation file longer than one read of 4096 bytes is scanned in one piece
  ("long" stands for a line the scanner refuses).
* `Accept` failing once the server is up, the metrics server, autocert,
  certificates (one is signed by the CA or not), the fingerprint's hash.
* What the buffer that `Hijack` returns holds (see Observations).
* A target that answers a UDP datagram so late that the operating system has
  given the port of its closed socket to a later one: in the model a late answer
  comes to a closed socket.
* Two reverse specifications with one bind address are not told apart.
* yamux, net/http, the WebSocket, JWT and OIDC libraries appear as environment
  actions or by what they guarantee, marked external in the map.

## 6. Plan

Done: all components of section 1 that are listed as modelled; three abstract
specifications (SessionPool for MuxDialer, RelayPipe for Relay, PortLease for
MuxServer and with it for Tunnel) and two compositions (MuxServer in Tunnel,
Oidc in Server), each with its refinement checked or proved; all safety
properties of the runs as theorems. Left, in order of use:

1. A composition of Handlers and Server: the token name a request was accepted
   under and the label its connection is counted under.
2. The buffer of `Hijack` in Handlers, once it is settled what a client may send
   before the tunnel is up.
