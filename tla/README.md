# Verification of cqi

`cqi` is a Go library that services share: a runner for their lifecycle, an event
bus, service discovery, a websocket client, health checks, retry, and wrappers
around databases, caches, HTTP, gRPC, authentication, metrics and tracing. This
directory holds TLA+ models of what happens over time in it, the TLC runs that check
them on small instances, and proofs for every instance. `PROJECT.json` maps each
definition to the lines of code it stands for, lists the hazards each property is
about, and the mutant of the code that each property catches.

    tlc -workers 2 -config MCRunnerSerial.cfg MCRunner.tla
    tlapm RunnerProofs.tla

## The system

| Component | State | Operations | Interacts with | What is hard |
|---|---|---|---|---|
| `pkg/runner` | services, start order, running flag, runner context; per service: running flag, restart count, cancel function | Add, Start, Stop, a monitor goroutine per service, Health | calls Start, Stop and Health of `service.Service` | Start, Stop and monitors share flags that are read under a lock and acted on after it |
| `pkg/runner/ordering.go` | in-degrees, queue, result | topologicalSort, reverseOrder | called by Start and Stop | repeated and missing names, cycles, map order |
| `pkg/service` wrappers | started flag, server | HTTP and gRPC Start, Stop, Health | run by the runner | a Stop that times out, a Start whose context ends, a server that fails later |
| `pkg/service` bootstrap | cleanup list, signal channel | NewBootstrap, AddCleanup, WaitForShutdown, Cleanup | opens database, cache, metrics, tracing; stops the services | a failure half way up, one timeout for all, the order on the way down |
| `pkg/bus` memory | subscriptions per topic, closed flag, a channel per subscriber | Publish, Subscribe, Close, Check | user handlers, which may call back | blocking sends under a read lock, close against send |
| `pkg/bus` JetStream, `pkg/retry` | NATS connection, consumers | Publish, Subscribe, Close; Do, shouldRetry; the bus middleware | NATS server | redelivery, attempts that outlive their timeout, which errors are acknowledged |
| `pkg/registry` Redis | keys and index sets with TTLs in Redis, heartbeat goroutines | Register, Deregister, Discover, Close | other processes, only through Redis | multi-command operations, expiry, crashes |
| `pkg/registry` local | one map | the same | none | nothing: one mutex |
| `pkg/websocket` | the socket, connected flag, reconnect channel, two goroutines; the client's reader | Connect, Send, Receive, Close, ping, reconnect, handleMessages; pool | gorilla/websocket, the peer | failures noticed by several goroutines, reconnect against Close |
| `pkg/health` | checkers, one cached result | Check, CheckComponent, Register, Unregister, ClearCache, HTTP handlers | checkers of the other packages | the cache is filled from results that are already old |
| `pkg/database`, `pkg/cache` | pgx pool; Redis | queries, WithTransaction, HealthCheck; Get, Set, Delete, GetOrLoad | PostgreSQL, Redis | every way out of a transaction; load against delete |
| `pkg/httpclient`, `pkg/auth`, `pkg/errors` | rate limiter; none; none | Do with retries; four checks of a request; Wrap and the two status tables | a service on the other side | a late attempt, two tables that have to agree, two transports that check in code of their own |
| `pkg/metrics`, `pkg/tracing` | a global server, a global provider | Init, Shutdown; NewTracerProvider and its shutdown | the process | when they go relative to the rest |
| `pkg/logging`, `pkg/config` | set once at start | formatting, reading a file | libraries | nothing that happens over time |

What makes each of them correct:

* runner: a service starts after what it depends on and stops before it; nothing
  watches or restarts after Stop; retries are bounded; a failed service is
  restarted; every call returns.
* ordering: the result is a start order; the cycle error is exact.
* service wrappers: what the runner relies on, and nothing is left listening that no
  call can reach; Stop waits for requests; every call returns.
* process: nothing is closed that a request needs; a process that is told to stop exits,
  unless it comes to wait for the reader of a websocket client.
* memory bus: an accepted message is handled once, in order; Close ends every
  goroutine, loses nothing, and no call hangs.
* JetStream: attempts are bounded; every callback ends. (That what is acknowledged was
  handled or refused for good is not so, see `DeliveryShutdown.cfg`.)
* Redis registry: a live instance is found, a dead or deregistered one is
  forgotten, others' cleaning up harms nobody.
* websocket: one socket at a time and none lost, a broken one is replaced, Close
  is final.
* health: a 200 and a 503 are about the last few seconds, every probe is answered.
* storage: whole transactions, a pool that starves nobody.
* request: a POST runs at most once, Do returns, errors mean the same on both sides,
  both transports let the same callers pass.

## Modules

| Module | Extends | What it is |
|---|---|---|
| `Ordering` | | `topologicalSort`, one step per turn of the loop |
| `Runner` | | `Runner`, `managedService`, `monitorService`; the service interface as environment |
| `RunnerProps` | `Runner` | what the runner guarantees, and its `Health` |
| `MCRunner` | `RunnerProps` | a database and an api that depends on it |
| `ServiceContract` | | what the runner relies on of one service, as an abstract specification |
| `ServiceWrapper` | instance of `ServiceContract` | `HTTPService` and `GRPCService`, shown to implement it |
| `Process` | | two whole programs from start to exit, with metrics and tracing as resources |
| `MemoryBus`, `MCMemoryBus` | | the in-memory bus and its instances |
| `Delivery` | | the JetStream bus with recovery, retry and timeout around a handler |
| `RedisRegistry`, `MCRedisRegistry` | | the Redis registry, Redis and time; two processes |
| `WebsocketClient` | | `Conn`, and the reader and Close of `Client` |
| `Health` | | the checkers, the cached result and the probes |
| `Storage` | | the pool, `WithTransaction`, `GetOrLoad` and `HealthCheck` together |
| `Errors`, `Auth` | | the operators of the packages of these names |
| `Request`, `MCRequest` | `Auth`, `Errors` | `Do` of the HTTP client against a service with middleware |
| `RunnerProofs` | `RunnerProps`, `Ordering` | the theorems about `pkg/runner` |
| `BusProofs` | `MemoryBus`, `Delivery` | the theorems about `pkg/bus` |
| `ServiceProofs` | `ServiceWrapper`, `Process` | the theorems about `pkg/service` |
| `HealthProofs`, `RedisRegistryProofs`, `WebsocketClientProofs`, `StorageProofs`, `RequestProofs` | the module they are named after | its theorems |

How they fit together:

* `Runner` uses the result of the sort only through `StartOrders`, the set of orders
  that `Ordering` is proved to stay in (`StartTakesTheSortedOrder`): that definition is the
  contract between the two.
* `Runner` takes a service as environment (`ServiceStarts`, `ServiceStops`, `Crash`);
  `ServiceContract` is that environment on its own, and `ServiceWrapper` implements it up
  to the servers that get lost (`Lost`).
* `Request` composes the client, the authentication, and the error tables in both
  directions: what a handler returns goes through `HTTPStatusCode` on one side and
  `MapStatusCode` on the other.
* `Storage` composes the pool with the cache in front of it and the health check
  that asks the pool.

### Runner

A call of Start or Stop is a process with a program counter `pc`; it makes one
call. A monitor is named after the Start call and the service it was spawned for.
A step lies between two points where another goroutine can run: one critical
section, one call into a service, one select. So `StopNext` reads the flag, and
`StopService` acts on it in a later step, as in `runner.go:298-307`.

`rctx` is `r.ctx`; the context that call `c` creates is named `c`, and `cancelled`
is the set of cancelled ones, by `r.cancel` or by the caller whose context it was
derived from (`CallerCancels`). `startService` of the loop reads `r.ctx` anew for
each service (`StartNext`). `svcCtx` is whose context `managedService.cancel` would
end.

The service is the environment: it starts or fails to start, stops or refuses to, and
crashes (`sick`). A Stop that fails changes nothing but that the service is `stuck`, or
`broken` if its Health failed already (`Unstopped`), and Health goes on failing then.
`ServiceStarts` leaves a service that is up alone, because the HTTP wrapper refuses a
second Start. `HealthStatus` asks one service after the other, first its flag and then its
Health; `RunningFlagsAgree` is stated of each of these reads (`ReportsRunning`,
`ReportsFailure`) and holds at every moment, so it holds of the mixture too.

Abstracted: the length of a backoff and of the monitor's one second pause, error
values, the order of `Health` details.

### ServiceContract and ServiceWrapper

The contract has five states: up, sick (its server failed), the two that a Stop that
failed leaves (stuck, broken), and down. In the wrapper, Start holds the lock from its
check of `started` until its 100 ms are over, the server failed or its context ended
(`HTTPStart` or `GRPCStart` to `StartSucceeds`); Stop reads the flag under the lock, shuts
the server down without it (`StopListening`, `StopDrained`, the two timeouts) and takes it
again to clear the flag (`StopMark`). Calls overlap in any way: Runner.Stop
(`runner.go:307`) may meet a monitor that stops the same service (`runner.go:242`) or starts
it (`runner.go:257`). Requests of an HTTP server inherit the context given to Start; when it
ends, what listens goes on and the requests may end early (`ContextEnds`).

An HTTP service makes a server per Start; a gRPC service has one for all (`SameServer`),
which refuses to serve once it was stopped. A service of `NewGRPCService` calls its
`registerFunc` and registers reflection on every Start; on a server that served before,
grpc-go ends the process for that (`GRPCExits`, `grpc.go:123-131`). The kind "grpc" is that
one, "grpcServer" the one of `NewGRPCServiceWithServer` without reflection.

`Instance` is the refinement mapping: what the runner sees while a Start is under way is
still "down", and a server that listens without being started maps to a state that the
contract does not have. `Lost` names the two ways in which the code leaves such a server,
and is the exception to the claim. `Abandoned`: the context of an HTTP Start ends within the
100 ms (`http.go:121`), Start returns the error, the goroutine listens on, and Stop does
nothing since the flag is not set. `disowned`: a Stop has read its server, another Stop and
a Start come in between, and the first clears the flag of the server that Start has made
(`http.go:150`).

### Process

`program` says which of two programs a behaviour is about: `examples/full/main.go`, with
one `defer` per resource, or the program that the documentation of `pkg/service`
describes. A resource is opened by one step and remembered for the way down
(`Remembers`); `log.Fatal` ends the process without it. `StopAccepting` and `StopReturns`
are the two halves of a server's Shutdown; one context, `expired`, is shared by
all servers. Requests use the database, then the cache, then answer a client that may
never read. Two closes may wait (`CanClose`): pgxpool's for connections in use, and the
websocket client's for its reader (`client.go:131-133`), which is blocked in ReadMessage
until the peer sends something or its pongs stop (`ReaderReturns`); the full example closes
its client in a `defer` (`main.go:157`), after the shutdown timeout.

### MemoryBus

Go's `RWMutex` is `writer` and `readers`: a writer that arrives keeps new readers
out and waits for those that are in (`WriteLock`, then `ReadersGone`). Between two
writers Go lets waiting readers in first; the model allows that and also the other
order. A message is named after its Publish call; `buffer` is the channel,
`chClosed` says that it was closed. A handler may make calls (`CalledBy`), which
is how a chain of topics arises; a goroutine may make several, one after the other
(`Follows`). A message counts as delivered to a subscriber when it is in its channel: that
is what Publish waits for, though `memory.go:42` says "delivered synchronously". Close
closes the channels and returns; the handler goroutines drain them afterwards
(`AcceptedIsHandled`), so the flush that `bus.go:66` promises is not over when Close
returns. `sentBefore` is a history variable: the Publish
calls that were over when a Publish was made.

### Delivery

An entry of the stream is `pending`, `inflight`, `acked` or `exhausted` (delivered
`MaxDeliver` times). Acks are fire and forget, may get lost, and count while the server
knows the entry. The handler is wrapped as
`WithRetry(n, _), WithTimeout(_), WithRecovery()`, the first outermost; an attempt that
`WithTimeout` has left is a stray that goes on and answers into a channel that nobody
reads. `Settles` is `jetstream.go:213-225`: Temporary errors are sent back and everything
else is acknowledged, success and Permanent errors like the plain ones, among which are that
of a handler that gives up at the deadline of its `WithTimeout` and of a retry whose context
ended. Processes cancel the context they subscribed with, close, crash
and come back with a new subscription. The NATS server is external.

### RedisRegistry

Every Redis command is a step. `Answered` and `Lost` are its two ends; a lost
command may or may not have been executed. Time is counted in heartbeat intervals;
`Tick` ages the keys. It waits for heartbeats that are due and for Register calls
under way, so one takes less than an interval. That is a hypothesis about the deployment:
nothing in the code enforces it, and go-redis with its default timeouts and three retries
may take longer than the ten seconds of an interval when Redis hangs. A process may crash or close its registry between any two
steps. Redis itself is external: SET, SADD, SREM, DEL and EXPIRE with their rules
for missing and empty keys. The values in Redis are those that Register wrote, so the
branches for a value that does not unmarshal (`redis.go:155-160`) are not taken.
`DeadIsForgotten` is about keys: the index of a name may be left without a TTL by a crash
between SADD and EXPIRE, and is not claimed to go. `DeregisteredIsGone` leaves out an id
whose Register was under way when its Deregister began.

### WebsocketClient

Sockets are numbered by dial. `token` is the one place in `reconnectC`. The ping
handler and Send read `c.conn` under the lock and write after it, so both may write
to a socket that is already replaced. gorilla/websocket is external: a socket is
dropped without a close frame, closed by the peer with one, or silent (no pong: its
reads time out while writes succeed); after too many reads of a failed socket gorilla
panics. `ConnectContextEnds` ends the context that was given to Connect, from which
the connection's goroutines derive theirs. `BrokenIsReplaced` is about the socket: the
client's own reader may have ended for good by the time it is replaced (`client.go:237`),
and then nothing dispatches the messages of the new one.

### Health

A call of Check reads the cache, copies the checkers and stores its result in three
critical sections (`CheckHit` or `CheckMiss`, `Snapshot`, `Store`), with one answer per
checker in between. Time is the time left until a deadline or passed since an event;
`Tick` happens only while nothing but time is waited for, which is the usual
assumption that computing is fast against a timeout of seconds. `lastUp` and
`lastError` are history variables, kept up to `Window`.

### Storage

`inUse` is who holds a connection; every query, transaction and health check waits for
one (`Acquire`) and may fail to get it. `WithTransaction` leaves by `Commit`,
`CommitFails` (the server may have committed), `Rollback` or `RollbackOnPanic`. A row
lock makes the second of two writers wait. The cached value is the state of one row at
some time; a reader that missed loads and sets it in separate steps, and its Set may come
after another's Delete. What it stores has the caller's TTL, or none when that is 0
(`Stored`, `cache.go:51`), so nothing is claimed about a cache that catches up. PostgreSQL and Redis are external.

### Errors, Auth and Request

An error is the set of the types in its chain, which is all that `errors.As` can tell.
`Outer` is the order in which Wrap asks, `Told` the other order of the two status
tables. A check in `Auth` returns the set of contexts that it hands on, empty for a
refusal; a token is a key, or a JWT with the outcomes of golang-jwt's checks.

In `Request`, `net` holds the attempts and answers under way. An attempt that the client
gave up stays there and may reach the service later. `MayRetry` is resty's rule for
idempotent methods with the condition that New adds; its circuit breaker is one way an
attempt fails. A JWT may expire between two attempts. What a panic of a handler answers
depends on the recovery function: a 500 with the default one, and nothing, which is a 200,
with one that returns nil as in `main.go:294-297` (`PanicOverHTTP`).

## Runs

| Run | Question | Result |
|---|---|---|
| `ordering` | is the order right for every small graph, the error exact | holds |
| `runner_serial` | two runs of a runner, one caller, crashes and restarts | holds, safety and liveness |
| `runner_leftover` | does Stop stop all services | violated |
| `service` | do the wrappers implement the contract up to `Lost`, drain, and return | holds, refinement and liveness |
| `process` | do requests keep what they need, does a shutdown end that does not wait for a reader | holds, safety and liveness |
| `memory_bus` | full channels, order in them, cancellation, Close | holds, safety and liveness |
| `delivery` | how often is a handler called, does every callback end | holds, safety and liveness |
| `registry` | two processes, expiry, a lost command, a crash | holds, safety and liveness |
| `websocket` | failures, reconnect, Close of one connection | holds, safety and liveness |
| `health` | what a 200 and a 503 mean, is every probe answered | holds, action properties and liveness |
| `storage` | whole transactions, progress of callers of a small pool | holds, safety and liveness |
| `request` | retries, late attempts, middleware, expiry of a token | holds, safety and liveness |

Every property of a run says in its comment which lines it is about; `PROJECT.json` has
the hazards with the properties that would catch each.

`runner_leftover` is a finding about the code: a monitor clears the running flag while
it restarts its service; Stop that looks just then passes it over, and the service runs
on. `NeverRestartedAreStopped`, `DependentsStopFirst` and `RunningFlagsAgree` say what
does hold for services that no monitor ever set out to restart.

### Further configurations

These show where the code does something else than its documentation or its callers
may expect. Each is run like the others; TLC gives the behaviour.

| Configuration | Property | What TLC shows |
|---|---|---|
| `MCRunnerOverlap.cfg`, `MCRunnerWatched.cfg` of `MCRunner` | three invariants | hold, with calls that overlap: Start and Stop calls with one service watched, Start calls with both |
| `MCRunnerUnhealthy.cfg` of `MCRunner` | `WaitsForHealthyDependencies` | Start calls the services one after the other and asks for nobody's Health: a service is started though its dependency has failed since, against "will wait for all dependencies to be healthy" (`options.go:30`) |
| `ServiceOverlap.cfg` of `ServiceWrapper` | `StoppedIsDown` | two Stop calls and a Start: the service counts as stopped while its new server listens (`http.go:150`), against `service.go:32` |
| `ProcessWebsocket.cfg` of `Process` | `EveryShutdownEnds` | the full example hangs in `wsClient.Close()` (`main.go:157`) while the peer answers pings and sends nothing, against "Graceful shutdown with timeout" (`main.go:229`) |
| `MCMemoryBusChain.cfg` of `MCMemoryBus` | `CallsReturn` | Publish blocks on a full channel with the read lock, Close waits for it, and the handler's own Publish waits behind Close |
| `MCRedisRegistryStale.cfg` of `MCRedisRegistry` | `RegisteredIsDiscoverable` | Discover removes an id from the index on the strength of a GET that is out of date |
| `MCRedisRegistryRenamed.cfg` of `MCRedisRegistry` | `DiscoveredByName` | an instance that registers under a new name keeps its place in the old index |
| `WebsocketClientSilent.cfg` of `WebsocketClient` | `SilentIsReplaced` | a read that times out asks for no reconnect |
| `ServiceHealth.cfg` of `ServiceWrapper` | `HealthTellsServing` | a server that fails after its first 100 ms leaves the flag set, and Health (doc at `http.go:161`) answers nil |
| `HealthDeadline.cfg` of `Health` | `ReadyIsRecentlyUp` | a caller's deadline that is longer than checkTimeout replaces it, although the doc at `health.go:81` says that the timeout bounds the check |
| `DeliveryShutdown.cfg` of `Delivery` | `AtLeastOnce` | an event whose attempts all ended in errors of no class, such as that of a deadline or of a context that ended, is acknowledged and lost, against "at-least-once delivery guarantees" (`jetstream.go:18`); the comment there calls them permanent (`jetstream.go:219`) |

The modules state some properties that no configuration of a run lists. The type invariant
of every module, `OneHeartbeat` of `RedisRegistry` and `DisconnectedIsReconnecting` of
`WebsocketClient` hold when they are added to the run's configuration; the last two are
proved as well. These do not hold: `SpansFlushed` of `Process` (`tracer.go:46`; `log.Fatal`
skips the deferred shutdown), `PermanentIsFinal` of `Request` (`errors.go:20`; over HTTP a
permanent error is a 500, which the client retries), `UnauthorizedHadNoEffect` of
`Request` (an earlier attempt may have run before its token expired) and `WrittenIsRead`
of `Storage` (a reader that loaded earlier sets its value after the Delete).

Reading the code for the models turned up more that has no property: the doc of
ClearCache (`health.go:220`) and the remark that the cache prevents a stampede
(`health.go:16`) promise more than the code does, since calls under way are neither
shared nor discarded; the metrics server reports a port that is taken to nobody
(`metrics.go:57`); `retry/config.go:27` calls zero attempts unlimited, and the
default makes it ten; Close of the JetStream bus closes the connection that the drain of
its consumers still needs; the HTTP client's `Close` cancels a context that no request
uses (`client.go:184`); the retries of one `Do` pass the rate limiter once; a JWT without
an expiry never expires.

### Bounds, and why they are enough

* `ordering`: three names and slices of two entries hold every shape that matters: a
  chain, a fork, a join, a self loop, cycles of two and three, a repeated and a missing
  name. The theorems hold for any number.
* runner: two services (one watched, one not), two Start and two Stop calls (the second
  run meets what the first one left), two retries (serial) or one (overlap).
  `CountBound` saturates the count where `shouldRestart` no longer tells values apart;
  `CountBoundLargeEnough` is the assumption. Overlap uses the symmetry of the Start
  calls and only safety.
* service: three Starts and two Stops are a start, a failed stop, a second stop and a
  start again, with one more Start that is refused or cancelled, in any interleaving; a
  server is disowned by two Stops and a Start; "has requests" is one bit per server, since Shutdown only asks whether there are any.
* process: both programs with all their resources; two requests, so that one may wait
  for its client while the other queries.
* bus: a channel of two messages has an order to keep and is full when the third
  publisher comes; of the three Publish calls two race each other after the first has
  returned, so that some are in order and some are not. Two subscribers, which one
  goroutine makes, show that one is skipped and the next is not. The chain has channels of
  one and needs four messages: one in the handler, one in the channel, one blocked, one
  nested.
* delivery: one event that is in the stream once, two subscribers so that a
  redelivery meets the first handler still at work, two deliveries of two attempts, one
  lost ack, one restart: each limit is reached and passed over once.
* registry: a TTL of three intervals as in the defaults (30 s and 10 s), one lost
  command (below the TTL), two processes of which one may leave.
* websocket: three dials, two attempts, one sender; `MaxReads` = 1 stands for gorilla's
  limit of a thousand reads of a failed socket.
* health: two probes so that one fills the cache under the other, two components so
  that one may fail alone; timeout and TTL of one unit, because the properties are about
  their sum. `Deadlines = {0}` is a caller that has already gone; between 0 and the
  timeout a caller leaves by `CallerLeaves` at any time.
* storage: two connections for five callers; two writers on the same two rows, two readers
  that both miss, one health check.
* request: two calls share a burst of one, one retry: a POST and a GET, each route, an
  answer that is retried and one that is not, a token that expires in between.

### Fairness

Weak fairness of each goroutine's steps: the Go scheduler runs what can run. No call
is required to be made, no context to be cancelled, no service to crash or to recover,
no message to arrive. That the Start and Stop of a service return is assumed of the
service: Start and the monitor pass a context without a timeout to its Start
(`runner.go:181`, `254`), the monitor's Stop gets 30 seconds (`runner.go:241`), and
Runner.Stop passes on its caller's context. For the wrappers `CallsReturn` of
`ServiceWrapper` shows it. Locks need no more than weak fairness because each call takes the lock once.
In the websocket client the exits on `ctx.Done` are strongly fair: a select with
several ready cases picks one at random. Redis time passes and heartbeats run.
`ReadMessage` is not fair, which is why only `Conn.Close`, and not the wait for the
reader before it, is shown to return.

In the other modules fairness is on timers and on the program's own steps, never on the
other side: HTTP requests need not end (Stop has a timeout: it is made when the context
has none), handlers of events and checkers may hang until their context ends, clients
of a process need not read, a service need not answer, and the peer of a websocket need
not send. In `Storage` commands are
answered or fail, transaction functions return, and the pool hands out
connections; its queue is first come first served, but the calls are finite, so
weak fairness is enough. In `Request` a wait for the limiter is strongly fair
(`rate.Limiter` reserves tokens in order), since another call may take each new token.

## Proofs

There is one module of proofs per package. `RunnerProofs` begins with the runner and ends
with the sort, for any finite set of names: `OrderIsStartOrder` and `CyclesAreReported`.
The inductive invariant `IInv` says that the in-degree of a name is the number of its
listings that are not sorted yet, that the queue and the result together hold exactly the
names with none left, each once, and that no member of a circle of dependencies is ever
sorted. The property alone is not inductive: it says nothing before the end.
`StartTakesTheSortedOrder` joins the two models: the result of the sort is a member of
`StartOrders`, the set that `StartBegin` of the runner chooses from, and where the sort
reports a cycle or a missing name that set is empty, so that the runner's
`StartOrders(services) = {}` is the error of the sort and nothing else. That a circle leaves
no order is shown by a minimum: the member of the circle that would come first has a
dependency in the circle that comes before it.

Of the runner, for any services, graph, policies and number of calls:

* `TypeCorrect`, and `ContextOwnership`: at most the context of the current run is live.
  Only Start's and Stop's critical sections and the cancellation by a caller touch the
  context, and the invariant is inductive with the type invariant.
* `DependenciesStarted`: when a service's Start is called, that of every dependency has
  returned nil. A position in the slice does not say so; what a Start that returned nil
  leaves behind does. `LoopInOrder`: while a Start call is in its loop its slice is a start
  order and its position is inside it. `LoopSpawns`: every watched service before that
  position has the monitor that this call spawned for it, which it does only after Start
  returned nil. No other call takes either away, so this half holds however calls overlap.
  For services that are not watched there is only the running flag, which calls of others
  may clear: that half is for one caller and follows from `TruthOfRun` below.
* `StopLeavesNoMonitor`, for one caller. `OneCaller`: at most one call is under way; a
  Start call in its loop owns the current run; a live monitor belongs to the current
  run, and either the runner runs or a Stop is about to wait for it. The property
  alone is not inductive, because it says nothing while a call is under way.
* `RestartsBounded`. The count alone is not inductive: a monitor is told to restart in
  one critical section and counts in a later one. `Budget` adds the increments still to
  come, `Claiming`. With one caller `OneCaller` leaves a service at most one monitor, and
  the bound is exact; otherwise each Start call may add one.
* `NothingLeftRunning`, `DependentsStopBefore` and `HealthStatusIsTrue`, for one caller,
  from one invariant, `SerialRun`, on top of those above and of `RestartsCounted` (a
  restart is counted before it is made). `OrderOfRun`: the slice is a start order of all
  services without repeats, a Start in its loop goes through it and a Stop through its
  reverse. `Flags`, of a service that no monitor set about restarting: when it is not
  marked running it is stopped, or Start is about to mark it; when it is marked, it is in
  the slice, and once the runner does not run a Stop under way has still to reach it.
  `TruthOfRun`: a service of the run that is
  not marked was set about restarting, one that is marked and down has a monitor about to
  update the flag, and only services passed have monitors. The three properties look at
  the runner at rest or at a Stop that makes a call; each says nothing of the rest of the
  loops, which is why none is inductive. That they are about services that were never
  restarted, and about one caller, is what the code gives: `runner_leftover` shows
  the one, `MCRunnerOverlap.cfg` lists what holds without the other.

`BusProofs`, of the memory bus, for any topics, calls, capacity and nesting of calls in handlers:

* `TypeCorrect`, which includes that no channel exceeds its capacity.
* `ChannelsSafe`: no Publish sends on a closed channel. `LockInv` says that
  exactly the publishers that send hold the read lock, that all they send to is still
  registered, and that the channel of a registered subscription is open.
* `EverySubscriberReached`: `SentToAll`. Its strengthening says, of a Publish that is
  still sending, that every target before its position has the message or is done. A
  message leaves a channel only into the hands of the handler.
* `MessagesInOrder`: `PublishOrderKept`. What a subscriber has seen is what it handled, what
  it handles and its channel, in this order; a Publish appends to it. So the invariant has to
  say what a Publish that is about to append has not done yet: `SubscribedOnce` (no
  target twice), `SeenHavePassed` (a message that was seen comes from a Publish that is
  past that target) and `SentBeforeIsSent` (what came before a Publish is over).

Of the JetStream bus, for any events, subscribers, attempts, deliveries, crashes and lost acks:

* `AttemptsBounded`. That a handler is called at most `MaxDeliver * MaxAttempts` times for an
  entry is not inductive: the calls of several deliveries add up, in several processes at
  once. `AttemptsAccount` keeps the books: the calls that were, and the tries `Owed` by the
  entries fetched (each place in a queue owes those that its callback has not begun), are at
  most `MaxAttempts` per delivery. A delivery adds `MaxAttempts` to both sides, an attempt
  moves one try from the second to the first, and a return, Close or a crash only forgives.
  `CallbacksCount` (a callback is about the first entry of its queue) and `StoredIsLimited`
  (what is pending has a delivery left) go with it.

`ServiceProofs`, of the wrappers, for any number of calls that overlap in any way:
`WrappersImplementContract`, the refinement. That a service that is not started maps to
"down" needs `ListenInv`: whatever listens is the current server of a service that is
started or starting, or is lost. It is inductive with `StartInv` (only the holder of the lock
is starting, and what it starts is the current server), `StopInv` (the server that a Stop has read
was started, and listens no more once the Stop drains it) and `QuitInv` (a gRPC server that
was told to stop serves nobody). `Seen` is the refinement mapping without the state that the
invariant excludes; each step is then one of the contract's or a stutter. A `StopMark` that
clears the flag of another server is the contract's Stops, and puts that server among the
lost. `StopLetsRequestsEnd` is the action property `StopDrains`: between its wait for the
requests and the flag, a Stop has none left and gets no new one (`MarkedIdle`), because the
server it has read serves nobody any more, whatever other calls do with `s.server`.

Of the two programs, for any number of requests:

* `NothingIsClosedInUse`: `RequestsKeepResources`. `Serviceable` says that the database and
  the cache are open from the moment the program serves until its cleanups begin, and
  `ServedInTime` that no request is under way when they begin, unless the shutdown timeout
  has expired.
* `OpenedInOrder`: `OpenInOrder`. `OpenedSoFar` relates what is open to the position in the
  steps, `Remembered` and `RememberedInOrder` say that the cleanups hold every resource that
  is open and has one, in the order of the steps; so the last cleanup is that of the latest resource
  that is open, and closing it leaves nothing behind that was opened later.

`HealthProofs`, for any probes, components, timeout and TTL: `ReadyMeansUp` and
`NotReadyMeansError`. The age of a result is the sum of two waits, so the invariant has to
bound each: `AnswersAreYoung` says that the answers of a call are no older than its context
(age plus time left is at most the timeout), `CacheIsYoung` the same of the cached result and
the time it stays cached, and `UpIsNow` that only a registered component that is not up gets
older. Both theorems have `ShortDeadlines` as their hypothesis: the TTL is not zero, and no
caller brings a deadline longer than `checkTimeout`. Without it a check runs as long as the
caller likes (`health.go:135-144`), and `HealthDeadline.cfg` shows that the property fails.

`RedisRegistryProofs`, for any processes, instances, names and calls, any TTL and any
number of lost commands, from one inductive invariant, `IInv`:

* `TypeCorrect`, which includes that an index exists exactly while it has members.
* `HeartbeatCanBeStopped`. `HeartbeatsKnown`: `r.heartbeats` has all heartbeats that live,
  under their own ids, and nothing else, and one that lives was started by a Register
  that returned.
* `RegisteredStays`. `GoodAreListed` counts: the time that a key has left, the commands
  lost so far and a heartbeat that is due make up at least a TTL, and the same holds of
  the index, which a heartbeat refreshes second. So fewer lost commands than the TTL has intervals
  cannot let it expire; `failures + 1 < TTL` is the hypothesis of the property, and the
  defaults (three intervals) allow one. A Discover that is about to remove an id has
  seen its key gone, which no good instance's is.
* `Deregistered`. `Gone` follows a Deregister from the end of the heartbeat to the
  deletion of the key; it is about the last call of its id, since a Register
  afterwards brings the key back.
* `DiscoverFindsAll`. `Complete`: what a Discover noted at its beginning it has found or
  still has to look at. It rests on `GoodAreListed` for the index that it reads first.

`CallsDisjoint` (a call is of one kind) is the only assumption that the proofs added to a
module.

`WebsocketClientProofs`, for any number of senders, attempts and dials:
`OnlyTheConnectionIsOpen`, `CloseIsFinal` and `DisconnectedWhileReconnecting`. A dial that
succeeds overwrites `c.conn`, so that only `c.conn` is open needs `DialsAlone`: while a
reconnect is under way `c.conn` is nil. `CloseIsFinal` needs `ClosesInOrder`: Close
waits for the reader, then cancels and waits for both handlers, and only
then gives up the socket, so no dial can end after it.

`RequestProofs`, for any calls, number of retries, burst, handler errors, tokens and
routes: `PostsRunOnce`. That a handler ran at most once is not inductive; `OneAttempt`
adds that a POST is never in a backoff, that its only attempt under way is the first, and
that no attempt is left once a handler has run. The module also has what `Errors` and
`Auth`, which `Request` is built from, promise for every input: wrapping an error changes
neither its answer nor its retry (`WrappingIsHarmless`), the client's table of statuses
inverts the server's (`StatusesRoundTrip`), and the middleware and the gRPC validators let
the same callers pass (`SameCallersPass`). `Errors` and `Auth` have nothing that runs, so these are proved
rather than checked.

`StorageProofs`, for any finite number of writers, any readers, checks and pool size:
`TransactionsAreWhole`. The rows are counted against what writers were told, so
`WriterInv` says that a transaction that is not over has told nothing, and that one about
to commit holds the row lock and has changed both rows. It rests on
`CallsAreDistinct`: a writer is no reader and no check.

The proofs use the assumptions on the constants named in the modules; each is
evaluated by TLC in the runs. Every inductive invariant was checked by TLC on the bounds of
its component's run before it was proved.

Every safety property and every action property of the runs that pass is proved, some under
the conditions named above. Only model-checked is liveness: liveness under fairness, ENABLED
and induction over recursive definitions are out of the prover's reach, and no theorem
needs the last.

## Not modelled

* the local registry: one map under one mutex, each operation one critical section.
* the websocket pool and its middleware: a fixed list of the connections modelled.
* logging and config: formatting, and a file that is read once at start.
* metrics collectors, tracing spans, the interceptors of the two beyond the start and
  end of their global server and provider: registrations and facades without behaviour
  over time.
* of `httpclient`, encoding, middleware and `IntoProto`; of `auth`, loading keys,
  cryptography and the context helpers; of `health`, CheckComponent, which asks one checker
  and keeps nothing.
* the examples other than the full one, which call one package after the other, and the
  server command, a stub.
* data races on `svc.cancel` (`runner.go:245`), between `wg.Add` and `wg.Wait`
  (`runner.go:195`), of unlocked writes to one socket (`conn.go:212`) and inside
  gorilla/websocket: the models keep each read and write of them whole.
* a websocket client on which Connect is called twice.

## Plan

The runner came first, because every service runs under it; then the components with
concurrency of their own; then the ones around one remote call; then the process that
holds them. What is left:

* a broadcast specification that `MemoryBus` implements: a message is accepted by all
  subscribers that were there, then handled. The invariants of `BusProofs` are most of what
  its refinement needs.
* the bounds that are not stated yet: the goroutines that `WithTimeout` leaves behind, and
  the length of a queue of `Delivery` (`MaxAckPending`).
