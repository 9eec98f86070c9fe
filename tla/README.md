# A TLA+ model of hclient

hclient is an HTTP client in Rust: a `Client` that carries out one operation
(redirects, retries, authentication, cookies, HSTS, cache) over a transport,
and a native transport that pools connections, shares one connect among
requests to the same origin, resolves and races addresses, and speaks HTTP/1,
HTTP/2 and HTTP/3 through seams for the runtime, DNS and TLS. This directory
models the parts whose correctness depends on the order in which several
actors move: tasks polled and dropped at any await, servers that close at any
moment, clocks read early and used late.

Every module translates code of this repository; `PROJECT.json` names the lines
behind each definition. Source paths below are relative to `src/crates/`.

## Inventory

| part | state | operations | what is hard | what makes it correct |
|---|---|---|---|---|
| Single-flight connects (`hclient-native/src/pool.rs`) | a map from key to the wakers waiting for its connect | `begin_connect`, `WaitForConnect::poll`, `Connecting::drop` | wakers stored and removed in different lock scopes; tasks dropped while parked | one owner per mark, no lost wakeup |
| Connection pool (`pool.rs`) | idle buckets per key, deadlines | `take`, `put`, `share`, `forget_shared`, `reap` | deadlines computed from a clock reading that is stale; shared handles borrowed by several | a connection is in one place; no entry is closed early or kept late |
| Reaper (`pool.rs`) | when it wakes | sleep, upgrade, reap | check-ins during its sleep; the end of the pool | late by at most one exchange; ends with the pool and only then |
| `Native::run` (`hclient-native/src/lib.rs`) | one request's progress | wait, look, probe, dial, exchange, body | the server closes between the probe and the write; cancellation anywhere | a request is written at most once, an unsent one is retried, on the right connection |
| Connecting (`hclient-native/src/connect.rs`, `discovery.rs`, `hclient-proto/src/happy_eyeballs.rs`) | answers, scheduler, attempts, negative cache | discovery, resolve bound, race, handshake, one retry | lookups that answer in any order, late or never, read by several readers | nothing known is left untried; the race ends |
| `Client::run` (`hclient/src/client.rs`) | one operation, plus jar, HSTS hosts and cache shared with others | hop: upgrade, cookies, lookup, send, judge, store, decide | four mechanisms that send again, nested | credentials and cookies stay home, a stream goes out once, everything ends |
| Cookie and response store (`hclient/src/cookie/kv.rs`, `cache/kv.rs`) | a byte store and an approximate counter | put, remove, touch, invalidate, clear | a put is several awaits; each may be the last | the bound holds |
| HSTS hosts (`hclient/src/hsts/`) | policies per domain | upgrade, note, clear | check then remove, remove then append | a policy in force is kept until it expires |
| Cookie jar in memory (`hclient/src/cookie/`) | cookies, a count, the next number, a clock | store a response, attach, touch, restore, clear | one read and then several puts, beside other operations at the bounds | bounds and count exact, a request gets exactly its cookies |
| Routing and the QUIC race (`hclient-native/src/route.rs`, `race.rs`, `failures.rs`) | the memory of failed QUIC connects | route, race, fall back, go through a filter | one connect budget over several connects; a memory written by whoever lost | the budget is spent once, a demanded version is kept, QUIC alone fails nobody |
| Alt-Svc memory (`altsvc_cache.rs`, `altsvc_cache/kv.rs`) | two namespaces of a byte store | note, ask, forget | each call is several awaits | the origin's last word is what is read next |
| HTTP/3 (`hclient-native/src/http3/`) | connections by key, their early-data verdict, the socket's wakers | check out, dial, send, replay, fail | requests share a connection whose verdict is open; one waker for many tasks | early data only where allowed, one close event, nobody parked for ever |
| HTTP/2 exchange (`hclient-native/src/http2/`, `body.rs`) | a stream, its upload pump, the 100-continue gate, the keep-alive | send, pump, reset, hand back, ping | the upload runs on inside the response body | a cut upload never looks whole; only clean connections are pooled |
| Body layers (`idle.rs`, `hclient/src/cached.rs`, `deadline.rs`, `decompress/`, `limit.rs`) | one body's chain | `poll_frame` | errors, timeouts and limits at every frame | a clean end is a whole body, and so is what is stored |
| Server-sent events (`hclient/src/sse.rs`, `sansio/sse/`) | splitter, decoder, kept id, attempts | push, next, reconnect | chunk breaks anywhere; drops while waiting | chunks do not show, nothing is repeated, only a cut event is skipped |
| Proxies and tunnels (`hclient-proxy/`, `hclient-native/src/dial.rs`, `tunnel/`) | handshake machines, the tunnel's writer and relay | SOCKS4/5, CONNECT, UDP ASSOCIATE, HTTP/3 then HTTP/2 | partial reads, writes that fail later | the outcome is the proxy's answer and not its packets' |
| WebSocket, WebTransport (`hclient-tungstenite/`, `hclient-webtransport/`) | queues, pings, slots, parked datagrams | read, send, flush, open, hand over, close | two tasks on one socket; sessions on one connection | answers leave, limits are kept, listeners are woken |
| Embassy sockets (`hclient-rt-embassy/src/sockets.rs`) | free, closing, waiters | acquire, finish closing, drop | a fixed number of sockets and a wait in between | a socket is in one place and handed on when it is ready |
| TLS stream (`hclient-tls-rustls/src/stream.rs`) | carried ciphertext, beside rustls's queues | handshake, read, write, flush, shut down | Pending between any two steps | no record lost or repeated, no cut taken for an end |
| Browser transport (`hclient-fetch/`) | guard, task, pump, channel; the socket's shared queue | execute, deliver, pump, poll, callbacks | the browser's half is not dropped with the future | what a caller leaves is stopped, what it reads is whole |
| WinHTTP and URLSession transports (`hclient-winhttp/`, `hclient-urlsession/`) | handles with their references, a lent buffer, a queue of completions, stashes, oneshots | send, receive, read, upgrade, close, cancel | callbacks on the platform's threads, after the caller has gone too | a callback finds its state, lent memory stays put, every completion reaches the half it is for |

The components call downwards (`Client::run` → transport → pool → connect);
what goes back up is a response body that holds the connection and its
check-in, wakers, and events. `PROJECT.json` lists every component, including
those left out and why, and every hazard with the line where it bites and the
properties that would catch it.

## Modules

| module | models | runs |
|---|---|---|
| `SingleFlight` | the mark, its wakers and its guard; every lock scope is one action | `single_flight` |
| `PoolBucket` | what `take`, `put`, `reap`, `forget_shared` do to one bucket | |
| `Pool` | the pool as its callers use it: an abstract specification of a caller | refined by `NativeRun` |
| `Reaper` | `Pool` with the background task | `reaper` |
| `NativeRun` | `Native::run` over `SingleFlight` and `PoolBucket`, HTTP/1, HTTP/2 and shared HTTP/2 | `native_run`, `native_run_pool` |
| `Connect` | opening a connection | `connect`, `connect_resolve` |
| `ClientRun` | `Client::run` | `client_run`, `client_run_cache` |
| `KvStore`, `Hsts`, `AltSvc` | what is kept in a byte store | `stores`, `kv_bound` |
| `Jar` | the cookie jar over its memory store | `stores` |
| `Route` | the choice of QUIC or TCP, the race, the failure memory | `stores` |
| `H3`, `Fanout` | HTTP/3 requests and connections; the waker fan-out of their socket | `transport` |
| `Tunnel`, `ProxyHandshake` | the HTTP/3-then-HTTP/2 tunnel, its writer and relay; the proxy protocols | `transport` |
| `Exchange`, `ContinueGate`, `KeepAlive` | an HTTP/2 stream with its upload; the gate its body waits at; PING and PONG | `transport` |
| `BodyLayers`, `Sse` | the layers of a response body; server-sent events | `transport` |
| `WebSocket`, `WebTransport` | an open WebSocket split over two tasks; sessions on one connection | `transport`, `websocket_split` |
| `Embassy`, `TlsStream` | a runtime's socket pool; the stream over rustls | `transport` |
| `Fetch`, `WinHttp`, `UrlSession` | the transports that are bindings to a platform, with their WebSockets | `transport` |
| `MC*` | instances for TLC | |
| `*Proofs` | theorems: `PoolProofs`, `NativeRunProofs`, `ConnectProofs` and `ClientRunProofs` about the modules of those names (`PoolProofs` about `Reaper`, `ConnectProofs` about `SingleFlight` too), `StoresProofs` about `MCStores`, `TransportProofs` and `LinkProofs` about `MCTransport`; `SeamProofs` has the lemmas on `Embassy`, `TlsStream` and `WinHttp` that `LinkProofs` cites | |

**SingleFlight.** `mark[k]` is `connecting.contains_key(k)`, `wakers[k]` the
list stored there. `Arrive` and `Retake` are the two calls of `begin_connect`,
`PollWait` the poll of `WaitForConnect`, `DropGuard` is
`finish_connect` under the lock and `WakeOne` each wake outside it. A task may
be cancelled wherever it can be dropped.

**Pool, Reaper.** A caller reads the clock once (`Enter`) and stamps every
deadline with that reading, however late. `Leaving` is the drop of the last
strong reference. `Reaper` sleeps until the earliest deadline it saw; time and
callers go on while it sleeps. `since` is a history field: when an entry really
was put or borrowed.

**NativeRun.** A request goes gate → look → probe → dial → exch → queued →
sent → body. The server may close a connection at any step; a spawned driver
ends on its own. `wire` counts how often a request was written, `closes` the
`Closed` events. `CallOf` maps a request to a caller of `Pool`, and
`UsesPoolAsAllowed` says that the mapped behaviour satisfies `Pool!PoolSpec`.

**Connect.** The lookups are sequences of items that grow while the connect
polls them and may never end. `at[f]` is a replay's position, so a second race
starts from the first answer again. `Start`, `Wait` and `Drain` are the three
answers of `Scheduler::poll`; `ReadStream`, `AttemptFails`, `AttemptWins` and
`TimedOut` are what `drive` waits on, in the order it polls them. `Fails` is
the retry without the HTTPS record. TLS and a proxy's handshake are one step.
Clocks are relative, so no bound on time is needed. A due timer is served
before time moves on.

**ClientRun.** One action per stage of a hop. A URI is an origin; a credential
is who wrote it and the host it is for, so a leak shows as a credential at
another host. `Elsewhere` is what concurrent operations do to the shared jar,
HSTS hosts and cache. `wire`, `last` and `streams` are history variables. `Retries`
is the verdict of `Standard`; `OwnRetries` is a policy of the caller's, which may
ask for any status or unsent request again, 425 included, or not, and is asked
`MaxAttempts` times at most: the code leaves its end to the caller.

**KvStore, Hsts, AltSvc.** Each await of a store operation is a step, and the
operation may be dropped there. A put computes its victims from one scan and
removes them one at a time. In `AltSvc` a note clears two names and writes one;
`settled` is what the last call that ran alone left.

**Jar.** A host is a sequence of labels, a path a sequence of segments, so that
`domain_matches` and `candidate_domains` are computed and not assumed.
`StoreResponse` takes the snapshot, `PutsNext` is one `put`, `AttachCookies`
and `TouchCookies` are the two calls of `cookie_header`. `GoesTo`, the
reference for one cookie and one request, is asked of every cookie; `Matching`
walks the candidate domains as the code does.

**Route.** A request goes dns → advert → race or quic → tcp, or through a filter
(via, path, viaConnect). `budget` is what is left of `Timeouts::connect`, `start`
when the first connect began. `heldUntil` is shared by all requests.

**H3, Fanout.** A connection has its verdict (`zeroRtt`), whether its end was
told, and is pooled under a key that includes `early_data`. `arrived` counts how
often the server took a request up. `Fanout` is one list of wakers behind one
registered waker, for the UDP socket and for a tunnel's datagrams.

**Tunnel, ProxyHandshake.** The dial splits a budget between two versions; the
writer accepts before it sends; the relay may throw a batch away and must wake
itself. A proxy's answer is a script of fields, cut into reads at every place;
the reference `Verdict` reads it whole.

**Exchange, ContinueGate, KeepAlive.** One HTTP/2 stream with flow control, a
pump that is polled by whoever holds it, and the hand-back. The gate's four
steps on two threads are four actions. The driver is polled up to `MaxLag` late.

**BodyLayers, Sse.** Each layer is an operator from the state of the chain to a
result, and `PollFrame` composes them in the order of `ClientBody`. The splitter
is fed every cut of every byte string over {bom, cr, lf, other} of the given
length and compared with a definition on the whole string.

**WebSocket, WebTransport.** The wire keeps one task for its writable side.
`reserve`'s load and exchange are two actions; a datagram read by one session is
handed over to another between that one's look and its park.

**Embassy.** A socket is in `free`, in `closing`, held by a connect, or `lost`:
a connect dropped inside `finish_closing` takes its socket along, and the model
does the same. `cut` records an abort before the FIN was acknowledged.

**TlsStream.** Records are numbers. `out` and `plain` are rustls's queues,
`carry` is `Pending`; every transport call may answer Pending, which `waits`
records. `HandshakePass` and `ReadPass` are one turn of their loops. The branch of
`poll_write` for data that rustls refuses (`stream.rs:384-396`) is not an action:
rustls refuses data only while its queue is full, and the flush that has just
finished emptied it.

**Fetch.** One action is what runs between two turns of the event loop. `guard`
is `AbortOnDrop`, `holder` says who has the body, `senderParked` is the state of
a channel without a buffer. The WebSocket is `page`: callbacks fill `queue`.

**WinHttp.** `ops` is what WinHTTP is doing; each completion is an action of its
own, and so is the cancellation that a closed handle brings about. `ctx` is the
set of handles that hold a reference to the `Exchange`, `buf` the arm of `Buf`.
`Launched` is everything up to the first await, with every call that may refuse.
`PollEvent` drains the queue as `poll_event` does and fills the stashes. One task
polls both halves of a socket.

**UrlSession.** `data` is a data task with its delegate's channel: 0 is the head,
then the numbered pieces, then an end. `socket` is a WebSocket task with a
oneshot per half; a completion handler runs, or is dropped without having run.

## Runs

| run | instance | shows |
|---|---|---|
| `single_flight` | 3 tasks, 2 keys | an owner, two waiters and newcomers, cancellations, spurious polls: one owner, no lost wakeup, every parked task polled again |
| `reaper` | 2 callers, 2 connections, a bucket of 1, timeout 2, clock to 4 | custody, deadlines never late, closes neither early nor more than one exchange late, the task ends with the pool |
| `native_run` | 2 requests, 2 connections, an h2-capable and a plain origin, demanded versions | written at most once, an unsent request is retried, the right connection, the mark not held through an exchange, one close event for an exclusive connection |
| `native_run_pool` | 2 requests, 1 shared or exclusive connection, clock to 2 | the transport refines `Pool` |
| `connect` | 2 IPv6 and 1 IPv4 answers (addresses, failures, records of another type), delays of 1 | nothing left untried, families take turns, IPv4 is not held for ever, the race ends |
| `client_run` | 5 configurations, 14 answers, 2 hosts, 2 hops, 2 attempts | credentials, cookies, streamed bodies, 425, numbering, termination |
| `stores` | 3 keys in 2 domains, capacity 2, 1 per domain, 2 writers; a jar of 2 cookies, 1 per domain, 2 operations; 2 HSTS domains, 2 calls; 2 calls of the Alt-Svc memory; 2 requests to route | types at any interleaving and the bound one operation at a time; the jar's bounds, scopes and matching; HSTS policies kept except in the named races; the last word on Alt-Svc; one connect budget, demanded versions |
| `transport` | 2 requests over 2 HTTP/3 connections; 3 pollers, sessions and connects; 2 sockets; bodies of up to 3 frames; byte strings of 4; 3 records in, 2 out | one property per part or group of parts (`PROJECT.json` says which): see the modules' own comments |

The bounds are the smallest at which every action fires and each hazard can
happen: two of whatever competes (three where one owner and two waiters are
needed), a bucket, a domain or a slot list that is full with one or two entries,
a clock that lets an entry expire while a caller or the reaper still uses an
older reading, a lookup with room for an address after a failure, one more
record than rustls keeps decrypted, a byte string long enough for a mark and a
parted CR LF. Every bound is a named constant of its module. Deadlock checking
is off where the system may stop: a bounded clock that has run out, a client
with nothing asked of it.

`stores` and `transport` are unions: their parts share no state, a behaviour is
one of a single part (the variable `store` or `part`), and a part that does not
move keeps its first initial state. Each part is thus checked exactly as it
would be alone, and no run asks of it what it does not answer. Tasks, requests
and sessions have the same names in every part, so that exchanging two of them
is one permutation for all parts. Symmetry is used only in runs without
liveness.

### Where code and documentation part

Four runs are expected to be violated; `PROJECT.json` quotes the line each is
about.

- `client_run_cache`: a response fetched with one credential is never served
  to a request with another. A digest answer is written into a clone of the
  request, and the cache entry's selector is taken from the original.
- `kv_bound`: `max_per_domain` is exact. The counter only grows on replacement,
  and past the capacity the per-domain bound is no longer looked at.
- `connect_resolve`: `Timeouts::resolve` bounds the wait for the first
  address. The HTTPS query is awaited before that timer starts.
- `websocket_split`: a socket may be split over two tasks. The reader's flush
  takes the sender's place as the one waker of the writable side.

Met while modelling, allowed by the models as the code does them, and without a
run of their own:

- `pool.rs:1002-1004` says a waiter waits once; a woken waiter asks whether
  *some* connect is in flight (`pool.rs:1124`), so newcomers can park it again.
- The driver of a shared HTTP/2 connection and the next checkout that finds its
  handle dead both emit `Closed` (`lib.rs:3329`, `http2/mod.rs:1595`).
- A request that takes up the connection QUIC won in the race starts again with
  the whole connect bound (`race.rs:90-94`), so that its connects may take up to
  twice what the caller asked for; `BudgetIsSpentOnce` grants that second bound
  (`Granted`) to such a request and nothing more to any.
- A caller's `RetryPolicy` that asks for a 425 again has it sent with
  `AllowEarlyData` still on (`client.rs:1862-1911`), before the replay outside
  early data is thought of; `TooEarlyIsNotRepeatedEarly` names that way and the
  authentication leg after a second 425, and allows no third.
- After a rejection of early data a request that went out after the verdict, and
  may have been taken up, is sent again (`http3/staged.rs:706`); `TakenUpOnce`
  allows that one case.
- An LF that a chunk break parts from its CR counts towards the next event
  (`sansio/sse/lines.rs:129`); `RefusedIsLarge` allows one byte.
- Two tasks in `recv_datagram`, or one there and one in `closed()`, share one
  waker slot of a WebTransport session; the model has one task per session.
- `touch` of the persistent cookie store writes back the cookie it scanned
  (`cookie/kv.rs:537`), so a newer one written in between is undone.
- A connect dropped inside `SocketPool::acquire` while it waits for a closing
  socket (`hclient-rt-embassy/src/sockets.rs:289-291`) loses the slot for good,
  although line 146-148 says that sockets only move between the lists;
  `SocketsHold` counts that loss (`lost`) and allows no other. The comment at
  line 285 calls the socket it takes the oldest; `pop` takes the newest.
- `TlsStream::poll_read` reads nothing while outgoing records cannot be flushed
  (`stream.rs:334`): a peer that reads nothing until it has been read blocks
  both sides.
- WinHTTP's `reclaim` (`hclient-winhttp/src/sys.rs:341`, "if it is lent") puts a
  new buffer in the place of one that is at home, and every error callback calls
  it, whatever operation failed. A receive that has completed and was not polled
  yet, followed by a send that fails, is then read from a buffer WinHTTP never
  wrote; and a failed send ends the loan of a receive in flight, although
  `Buf::Loaned` says until `READ_COMPLETE` or `HANDLE_CLOSING`. `LoansHold` sets
  these crossings apart (`crossed`) and allows no other.
- A receive's failure taken by `poll_flush` of the same socket leaves the stream
  waiting for good (`hclient-winhttp/src/websocket.rs:161-167`);
  `WaitsForSomething` says only that one of the halves was told. The other half's
  completion is stashed without waking that half: right for one task, which is
  what is modelled.
- `hclient-winhttp/src/session.rs:409-412` says a version it cannot offer was
  refused "with no handle open"; `mask_for` runs after the request was opened.
- URLSession drops header values that are not text
  (`hclient-urlsession/src/session.rs:228`), and a dropped
  `UrlSessionWebSocket` does not cancel its task.

## Fairness

- `SingleFlight`: an executor polls a woken task, a task that holds the mark
  ends its connect (its own timeout bounds it) and wakes what it removed. No
  fairness for arrivals, cancellations or spurious polls.
- `Reaper`: time passes and a task whose sleep is over is polled. Nothing is
  assumed of callers.
- `Connect`: what is ready is run and the clock goes on; attempts, handshakes
  and the HTTPS query end. Of the address lookups nothing is assumed, which is
  the point of `KnownV4IsTried`. `EndsOnceLookupsDo` starts from lookups that
  are over.
- `ClientRun`: the caller polls the operation and the transport answers or
  fails.
- `stores` and `transport` assume no fairness. That nobody waits for ever is
  stated there as an invariant: who is parked is on the list of somebody who
  will act, or has nothing to wait for. `GoneIsStopped` of `Fetch` speaks of the
  states in which neither the task nor the pump left behind is due to be polled.

## Theorems

Eight modules of proofs. Each theorem is about the specification a run checks,
with its constants left open; the bounds on clocks, counters and inputs are
constants too, so a theorem holds for every such bound. `PROJECT.json` lists
them with what each establishes.

| module | specification | theorems (property of the runs) |
|---|---|---|
| `ConnectProofs` | `SFSpec` | `SFTypeCorrect`, `OneOwner` (`MarkHasOneOwner`), `ReleasedByOwner` (`OnlyOwnerReleases`), `WakeupsAreKept` (`NoLostWakeup`) |
| | `ConnectSpec` | `EverythingIsTried` (`ConnectIsSound`), `TurnsAreTaken` (`FamiliesTakeTurns`) |
| `PoolProofs` | `PoolSpec` | `PoolKeepsCustody`, `LiveEntriesAreKept` (`KeepsLiveEntries`) |
| | `ReaperSpec` | `PoolIsSafe` (`PoolSafe`), `ReaperUsesPool` (implements `PoolSpec`) |
| `NativeRunProofs` | `NRSpec` | `TransportUsesPool` (`UsesPoolAsAllowed`), `TransportKeepsCustody`, `TransportIsSafe` (`NRSafe`), `WrittenAtMostOnce` (`AtMostOnce`), `ClosedOnce` (`ExclusiveClosesOnce`), `UnsentGoesOn` (`UnsentIsRetried`) |
| `ClientRunProofs` | `ClientSpec` | `CredentialsAtHome` (`CredentialsStayHome`), `CookiesAtHome` (`CookiesStayHome`), `OperationSound` (`OperationIsSound`), `RepeatedOutsideEarlyData` (`TooEarlyIsNotRepeatedEarly`), `AttemptsGoUp` (`AttemptsAdvance`) |
| `StoresProofs` | `StoresSpec` | `StoresStaySound` (`StoresAreSound`), `JarIsSound` (`JarHolds`), `LastWordStands` (`LastWordIsKept`), `KnownHostsStayKnown` (`KnownUntilExpired`), `BudgetsAndDemandsHold` (`RouteHolds`), `QuicFailsNobodyAlone` (`QuicAloneDoesNotFail`) |
| `TransportProofs` | `TransportSpec` | `H3IsSound` (`H3Holds`), `NobodyWaitsForNothing` (`WakersHold`), `SessionsAreSound` (`WtHolds`), `ExchangesAreSound` (`ExchangeHolds`), `BodiesAreWhole` (`LayersHold`), `DeadlinesAreKept` (`DeadlinesHold`) |
| `LinkProofs` | `TransportSpec` | `ProxiesAreSound` (`ProxiesHold`), `KeepAlivesAreSound` (`KeepAlivesAreJust`), `SocketsAreSound` (`SocketsHold`), `TlsIsSound` (`TlsHolds`), `PlatformsAreSound` (`PlatformsHold`) |
| `SeamProofs` | | lemmas on `Embassy`, `TlsStream` and `WinHttp`, which `LinkProofs` cites |

**Assumptions.** Those the modules name and TLC evaluates on every run: bounds
are naturals, a value that stands for "none" is not one of the others, sets of
inputs are not empty where something is chosen from them. Beyond that: a pool
has a key and `H2Keys` are some of its keys; `Sessions` is finite, since slots
are counted; the queue lengths and sizes `MaxReady`, `MaxQueued`, `MaxDiscards`,
`ChunkSize` and `MaxHead`, the delays of the scheduler, the intervals of the
WebSocket's ping, the capacities of the jar and of the byte stores, and the
client's attempts are not zero;
the parents of an HSTS domain are domains; the keys and writers of a byte store,
the slots and tasks of the socket pool are finitely many, and the names of a
store's groups are none of its plans; no address is the end of another
origin's host name (`JarAssumption`). Nothing else is assumed of the
constants: in particular any `first_family_count`, an idle timeout of zero, a
bucket of no places, any connect bound.

**Along which argument.** Every property is proved from an inductive invariant
with `Init => Inv`, `Inv /\ [Next]_vars => Inv'` (one lemma or step per action)
and `Inv => property`; action properties are proved of one step from it. What
each invariant adds to the property, and why:

- *Single flight.* `OwnerInv` says without sets what `MarkHasOneOwner` counts: a
  live guard has its mark, a held mark has a guard, two guards of a key are one
  task.
- *Pool.* The lemmas on buckets say where each entry of the new bucket was in the
  old one: `Retain` (`Vec::retain`) keeps what it should, in order, and
  nothing twice; `put` appends one entry and may drop the first. `Places` is
  `Custody` by position: no two positions and no position and a holder have the
  same connection, and what a caller borrows is shared. The last is the
  strengthening: without it a borrowed handle could also be somebody's own.
  `CallsInv` ties callers to the pool's life: without the transport only bodies
  are left, and a pool nobody can reach is empty.
- *Reaper.* `SleepInv` bounds a sleep by the clock: `at` is at most `clock +
  Longest`, so an entry put during the sleep is no later than the sleep allows.
  `LateByOneExchange` alone is not preserved by a put. Every step of the reaper
  is a step of `PoolNext`, so the pool's theorems carry over.
- *`Native::run`.* `PoolProofs` is instantiated with the calls of the requests
  (`PP`); `NRInv` is `PP!PoolInv` and the transport's own part. `ReqFits` says
  when a request has a connection, of which kind and part, and that `wire` is 1
  exactly in `sent` and `body`: `AtMostOnce` and `UnsentIsRetried` need it,
  since a retry is only taken where `wire` is still 0. `SoleHolder`, from
  `Custody`, says that nobody else is on an exclusive connection when its end is
  told. Each action is shown to be a step of `Pool` or none, which is the
  refinement.
- *`Client::run`.* A step writes one of few shapes into the operation. The
  invariant says what a credential may be at each stage (`CredSettled` before
  sending), which cookies are attached, how often a hop may have sent by the
  attempts, the one replay and the legs it had (`Budget`), and that the last
  send's (hop, resend) lies behind where the operation stands; `SleepIsTold` says
  that who sleeps before a retry was told by a policy that may.
- *Connect.* Every address read is queued or was tried, a lookup marked done was
  read to its end, and a race is lost only with nothing left to offer; `Turns` bounds what a family
  has waited by the streak of the other, which the property does not mention.
- *The parts of `transport` and `stores`.* `PartsMove` and `StoresMove`: a step of the
  composition is a step of one part, or none. `H3Inv` relates a request to
  its connection's verdict; `FanInv` and `GateInv` say who is on a list and
  who was woken since; `WtInv` counts the slots taken and says that a reader
  that was not woken sees an empty queue; `ExInv` accounts for each chunk: read,
  held, sent or given up; `LayersInv` does the same for frames, layer by layer,
  with the data frames still to come as a witness; `DialInv` says what is left
  of the budget when HTTP/3 gives up; `AltInv` is what the steps a call still has
  will leave, if nobody writes beside it; `HstsInv` says which notes race;
  `RouteInv` bounds the time a request has used by what it has been charged.

- *The stores.* `KvInv` bounds what a key holds by the writers that are about to
  write there, and counts for a lone writer how far the counter may be from what
  is held. `JarInv` says that equal numbers mean equal cookies over everything
  held, snapped and placed, so that a removal takes what was snapped and nothing
  that came after.
- *Links.* `HsInv` says how much of the wire form of its script a handshake has
  taken in each state and what it has told; `TriedInv` which versions were tried;
  `WriterInv` that an accepted write is in flight, sent, or lost and answered for;
  `RelayInv` that a payload is delivered, queued or still in the socket. `KaInv`
  bounds how far a silent peer is from being found out; `WsInv` says that a
  sleeping reader has left its sleep and its flush with somebody.
- *Seams.* `SocketsInv` is `SocketsHold` by position instead of by cardinality.
  `TlsInv` says that the records handed on, queued and carried are one sequence
  without gaps.
- *Platforms.* `FetchInv` and `PageInv` say who holds the body and who is parked
  on whom. `DataInv` and `SockInv` say which pieces the delegate has passed on and
  that an answered half is not armed. `WinInv` is the largest: `WinHandles`
  (whose state a handle keeps), `WinWaits` (who waits is answered), `WinReads` and
  `WinWrites` (one read, one send or close at a time), `WinQueue` (what has come of
  a kind is queued, stashed or taken: `Owed` and `Passed`), `WinLoans` and
  `WinSleeps`.

Facts about sequences of any length are by induction over positions, through the
least element of a set of naturals (`LeastNatural`, `InSet` of `PoolProofs`,
`UpTo` of `SeamProofs`). What a recursive function computes is reached the same
way: lemmas in `SeamProofs` show that the function exists on an interval, and
each of its values follows from the one before.

**What the proofs changed.** Two properties turned out to be false beyond the
instances checked, and say now what the code does:

- `TooEarlyIsNotRepeatedEarly` said that nothing refused as too early goes out in
  early data again. An authentication leg after a second 425 carries
  `AllowEarlyData` again (`client.rs:2031-2070`), and so does a retry by the
  caller's own policy: the property names these two ways, and the run's instance
  takes both.
- `FamiliesTakeTurns` said that IPv6 never waits for more than one IPv4 attempt.
  With `first_family_count = 0`, which the scheduler accepts and its tests use
  (`happy_eyeballs.rs:476-500`), it may wait for as many as there are addresses.

The definitions `Retain`, `Slots`, `Start`, `Write`, `Found`, `EvictsOne`,
`Demanded`, `ReadUpTo`, `Socks5Verdict`, `Touch`, `Sockets`, `ClosedTcp`, `Datas`,
`Feed`, `Made`, `WithPlaced`, `Touched`, `Answers` and the two `Due` of `Fetch` were
reworded without a change of meaning (no `SelectSeq`, no tuple patterns, no
`ENABLED`, disjoint cases), because of what the provers read.

**Only model-checked.**

- Liveness (`ParkedIsPolledAgain`, `ExpiredIsReaped`, `EveryOperationEnds`,
  `EndsOnceLookupsDo`, `KnownV4IsTried`): not in the prover's reach.
- `SseHolds`: it compares the splitter with a reference that is a recursive
  function of the input, for every input.

## Not modelled

- Wire formats and parsers (header grammar, DNS messages, capsules, multipart,
  links, URIs): pure functions of bytes, better tested than modelled. Where a
  cut or a length can go wrong the models keep it (`ProxyHandshake`, `Sse`,
  `WebTransport`, `TlsStream`).
- TLS, QUIC, HTTP/1 and HTTP/2 framing, sockets and executors: libraries behind
  the seams, modelled by how this code uses them and marked external.
- Operating-system resolvers, the wasi:http binding, the command line, tracing,
  builders and test doubles: calls handed on, or data.
- Of what is modelled: the digest computation and RFC 9111's freshness
  arithmetic are choices, ALPN restriction and ECH of an HTTPS record are left
  out, a connect's attempt delay is taken within the range the scheduler
  accepts, size hints, header order and the streamed request body of the browser
  are left out. A WebSocket sender parked in `poll_ready` is left out too: it would
  add ways to strand a sender (`websocket_split`) and take none away.

Much of `src/` is not program text: of its Rust lines about a third is code
outside tests, the rest comments, documentation and tests. The map names the
code a definition stands for, so its share of all lines stays small.

## Plan

Done: the transport core, connecting, the client's loop, everything it
remembers, the protocols, seams and platform bindings beside the pool; the
theorems above. Next:

1. The reconnecting half of `Sse`, apart from its splitter: an inductive
   invariant for the kept id and what was delivered.
2. Two tasks at one WebTransport session, two halves of a WinHTTP socket on two
   tasks.
3. Further components: the OpenTelemetry span recorder, the wasi:http binding,
   freshness as a pure module against RFC 9111.
