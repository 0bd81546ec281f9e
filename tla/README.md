# Azrath in TLA+

Azrath is a small HTTP/1 and HTTP/2 server library: hyper underneath, a reactor
of its own for the sockets, handlers that are plain blocking functions, and a
thread pool. This directory holds TLA+ modules that model it, the TLC runs that
check them on small instances, and theorems that TLAPS checks for every value of
the constants. Paths such as `executor.rs:157` are below `src/src/`.

- [The system](#the-system): components, state, operations, interactions
- [Modules](#modules): which module models what, and how
- [Runs](#runs): what is checked, with which bounds, what it shows
- [Fairness](#fairness)
- [Proofs](#proofs)
- [Findings](#findings)
- [What is not modelled](#what-is-not-modelled)
- [Plan](#plan)

## The system

```
 client ──TCP──▶ Server::serve ──register──▶ Reactor ◀──poll_io── TcpStream
                 (accept loop)               thread ────wake────▶ connection task
                      │ tokio::spawn                              (hyper, on tokio)
                      └──────────────────────────────────────────────▲   │ poll
                                                                     │   ▼
                      Body::next ── Parker::block_on ◀── handler ── Lazy::poll
                      (waits for a chunk)               (Service::call, blocking)

 Executor: threads that each run tasks with Parker::block_on (not used by serve)
```

| Component | State | Operations | Interacts through |
|---|---|---|---|
| **Parker** (`executor.rs:13-64`) | `parked`, and the park token of its thread | `block_on`, `wake` | an atomic and `thread::park`/`unpark`; used by the worker loop and `Body::next` |
| **Executor** (`executor.rs:66-227`) | `queue`, `workers`, `idle`, `notified` behind one mutex; a condition variable | `execute`, worker loop `Inner::run` | callers and workers share the mutex |
| **Reactor** (`net.rs:17-252`) | token counter, map `sources`; in each source two wakers (`interest`, a mutex) and two flags (`triggered`, atomics) | `register`, `poll_ready`, `clear_trigger`, the event loop | accept loop, connection tasks and the reactor thread |
| **TcpStream** (`net.rs:254-360`) | the socket, its source | `poll_io` for reads, writes and flushes, shutdown, drop | the reactor |
| **Body, BodyReader, ReaderStream** (`http.rs`) | the source of the chunks, `prev_bytes`, the buffer `buf` | `wrap_reader`, the iterator, `reader`, `read`, `poll_next` | the connection task feeds it, the handler drains it |
| **Server::serve** (`server.rs:194-233`) | the listener | accept, register, spawn | reactor, tokio |
| **Service adapter** (`server.rs:521-569`) | the request until it is polled | `HyperService::call`, `Lazy::poll` | runs the handler inside the poll of the connection task |
| **Server builder** (`server.rs:184-518`) | options | `bind`, the setters, `configure`, `from_config` | hyper's `Http` |
| **ServerConfig** (`config.rs`) | settings | `new`, `default` | a file and the environment |
| Error types, crate root, router example | none of note | | |

What is hard about it, and what makes each part correct:

- **Parker.** A wake-up may come at any point between the poll that returned
  Pending and the park; park returns for no reason and shares its token with
  whoever else parks the thread. Correct: no wake-up is lost, and a pending
  future is polled again only after one.
- **Executor.** `execute` moves one unit from `idle` to `notified` for a thread
  it cannot name; timeouts and spurious wake-ups race with `notify_one`; spawns
  fail and tasks panic. Correct: the counters account for the threads, no task
  is stranded, lost or run twice, tasks start in order, never more than
  `max_workers` at a time, and idle threads end.
- **Reactor.** Three kinds of threads meet in `triggered` and `interest`;
  epoll reports an edge once; streams are dropped while their events are under
  way, and their clients close or reset them. Correct: a task that is told Pending is
  woken by the next event, events reach the stream they are for, `sources` does not
  leak.
- **Body.** Chunks and slices of all sizes, empty ones included, a buffer that
  shrinks, and sources that fail. Correct: every byte once and in order, no
  early end, no byte lost to an error, and every call returns.
- **Server, Service adapter.** `accept` blocks the thread that polls it; handlers
  block the runtime thread that would have to feed them; a task spawned from a thread
  of the runtime may be meant for that thread; clients leave at any point of a request.
  Correct: requests are answered and connections end, unless all threads are held.
- **Configuration.** Three sources, values that do not parse, two sets of defaults,
  and options that undo each other. Correct: what was configured is what the server uses.

`PROJECT.json` lists these hazards one by one, at the line where each bites, with
the properties that cover it.

## Modules

| Module | What it is |
|---|---|
| `ThreadPool` | what the pool promises its callers: FIFO, at most once, at most `MaxWorkers` at a time, work-taking |
| `Executor` | `execute` and the worker loop; implements `ThreadPool` |
| `WakeSignal` | what a Parker promises: wake-ups between two polls are remembered as one |
| `Parker` | `block_on` and `wake`; implements `WakeSignal` |
| `Reactor` | registration, event loop, `poll_io` and drop, with sockets, epoll and connection tasks around them |
| `ByteStream` | what a body promises its user: bytes delivered or skipped one after the other, then the end or a failure, then nothing |
| `Body` | `ReaderStream`, `Body::next` and `BodyReader` over a reader or a request; implements `ByteStream` |
| `Server` | `Server::serve`, the connection tasks, `HyperService` and `Lazy` on the threads of the runtime |
| `Config` | a setting's way from its sources through `ServerConfig` and `Server` to hyper |
| `MCExecutor`, `MCParker`, `MCReactor`, `MCServer`, `MCConfig` | model values and sets for TLC; `Body` needs none |
| `ExecutorProofs`, `ExecutorRefinement`, `ParkerProofs`, `ReactorProofs`, `BodyProofs`, `ServerProofs`, `ConfigProofs` | the theorems |

Definitions named `... with a bug` in their comment (`NotifyNobody` beside
`NotifyOne`, say) are no part of the model. Each is a plausible error in the code it
stands beside; with it in the place of the real definition the run named in
`PROJECT.json` finds the property violated.

**Executor.** One action is one critical section of the mutex: nothing reads or
writes the fields without it, so a finer interleaving cannot be observed.
`Execute(t)` is the whole of `execute`, with the three cases of its `if`
(`SpawnWorker`, also when the spawn fails; `WakeIdle`; `Saturated`). A worker is at
the head of the loop (`ready`), runs a task, or is inside the waiting loop:
`waiting` in the wait set of the condition variable, or out of it and on its way to
the mutex (`woken`, `timedout`). That last pair is what makes the model interesting:
between leaving the wait set and getting the mutex anything may happen, so a timed
out thread may find a notification meant for another. `LoopHead` is the code from
the head of `'alive` to the point where the lock is given up; `Claim` and `Retire`
are the two ways out of the waiting loop.

**Parker.** One action is one operation on memory shared with other threads: the two
swaps of `parked`, park, unpark, and the poll of the future. `unseen` is a history
variable: something happened that the future has not been polled after.
`StrayUnpark` and `SpuriousUnpark` stand for what the documentation of
`thread::park` allows.

**Reactor.** One action is one access to an atomic or one critical section. In a
source, `interest` and `triggered` are the sets of `<<stream, direction>>` whose
slot holds a waker and whose flag is up. The event loop fetches a `batch`, takes
one event at a time, applies its directions one by one with `interest` locked
(`current` not empty is that lock), and wakes the tasks whose wakers it collected.
`poll_io` is `BeginIo`, `RegisterWaker`, `Recheck`, then one of `Transfer` (of data),
`Flush`, `StreamEnds` (the end of the data, or an error) and `WouldBlock` with
`ClearTrigger`. The task of a connection, which is hyper's, always reads, writes while
it owes an answer, and flushes; it parks when all of it is pending, and drops its stream
at the end of it (perhaps after `Shutdown`) or when it is given up. Clients send, take
answers, and close or reset the connection. `lost` is a history variable for readiness
that was thrown away. `ClientStep`, `Register`, `ReactorStep`, `PollIo` and `TurnOf` each
state once what all their steps leave alone.

**Body.** A byte is its position in the source, so that what is lost, repeated or
out of order shows. One action is one poll of the stream, or one turn of the loop in
`read`. `wrapped` says, from the start and for good, which of the two sources the
body has. `Call` is what the user of the body does, `Step` what a call does by itself.
In `ByteStream` the user is past all bytes but those in `prev_bytes` (`held`) and in the
item just polled; what a `BodyReader` still holds when it is dropped is skipped.

**Server.** `on` says what each thread of the runtime is busy with: nothing, the
poll of a connection's task, or `serve`, which never leaves the thread it runs on
because `accept` blocks and nothing in its loop is awaited (it may just as well have a
thread of its own; `Init` allows both). `Accept` is one turn of the loop,
`ServeFails` the `?` at either of its calls. `slot` is the place a multi-threaded tokio
has on each thread for the task to be polled next: a task spawned by `serve` on such a
thread may be put there, where no other thread takes it from, until the next one is
spawned or `serve` returns. A poll of a connection's task is
`Poll`, then `NoHead`, or `ReadHead`, `ReadBody` and the handler; `Lazy::poll` calls
the handler, so the thread stays with the connection until `Respond`, after which the
next request may follow, or `End`: the last response, a panic of the handler, or a client
that has left. A client that leaves in the middle of a body may be noticed by `ReadBody`,
which then ends the body with an error (`cut`). `WaitForChunk` is `Body::next` on an empty channel: the thread
sleeps in the Parker, and no action wakes it up, since what fills the channel is
`ReadBody` of this very task. What `Reactor` and `Body` promise is taken for granted
here: data that arrives wakes the task, chunks come out as they went in.

**Config.** `LoadConfig` is `ServerConfig::new` (`Merged` the precedence of the
sources, `Deserialized` the defaults of serde, failure if a setting without one is
missing or one that has a value does not parse), `FromConfig`, `Bind` and `Setter` make and change a `Server`, and `Serve` is
`configure`: `Pass` is one option of hyper's builder, and `Passed[n]` what `Http` is after the
first `n` of `Order`, the order of the calls in the code.

## Runs

| Run | Instance | Shows |
|---|---|---|
| `executor_service` | 3 threads, limit 3, 4 tasks, no failures | `SlotsMatchThreads`, `WorkConserving`; every task is started even if the keep-alive never ends (`EveryTaskStarts`); all threads end if it does (`IdleWorkersRetire`); `ThreadPool` is implemented, with its fairness (`PoolSpec`) |
| `executor_failures` | 3 threads, limit 3, 4 tasks, spawns may fail, one task may panic | `IdleAccounting`, `WakeupsCovered`, `SlotBound`, `OnePlacePerTask`; `ThreadPool`'s safety (`PoolSafe`) |
| `parker` | 3 wakers | the three invariants behind a wake-up (`EventIsPosted`, `MarkIsDelivered`, `NoLostWakeup`), `EventsAreSeen`, and `WakeSignal` is implemented (`SignalSpec`) |
| `reactor_safety` | 2 streams whose clients connect and leave, at any time, 1 event per poll, failing registrations, streams given up | no readiness gets lost but where `lost` and `unarmed` say so, although more sockets may be ready than an event batch holds (`ReadyTasksAreFound`); `SourcesAreLiveStreams`, `EventsReachTheirStream` |
| `reactor_stalls` | 1 stream, 2 messages, send buffer of 1, a client that closes or resets | `ReadyPendingIsArmed`, with messages in both directions and WouldBlock; a connection hangs, or outlives its client in `sources`, in no other way than the two known ones (`ReadsStallOnlyThere`, `WritesStallOnlyThere`) |
| `reactor_would_block` | 1 stream, 1 message | *violated*: `PendingIsArmed` |
| `reactor_early_event` | 1 stream, 1 message sent early | *violated*: `RequestsAreRead` |
| `body` | 5 bytes, buffer of 3, slices of 0, 1, 2 and 4, failing sources | `BytesInOrder`, `NoTruncation`, `ErrorsCostNothing`; `ByteStream` is implemented (`StreamSpec`); every call returns (`CallsReturn`) |
| `server` | 2 runtime threads, 2 connections, 2 requests on one of them or one on each, bodies of up to 2 pieces, clients that leave, `accept` and handlers that fail | `ThreadsAccounted`, `PiecesAccounted`, `BlockedOnlyShort`; a request that was sent is answered, and the connection of a client that has left ends, unless its task is kept from the threads or these are held for good (`AnsweredUnlessHeld`, `LeaversAreLetGo`) |
| `server_body` | 2 threads, 1 connection, 1 request, body of up to 1 piece | *violated*: `BodiesAreRead` |
| `config` | 4 settings in the file, 3 in `.env` or the environment, one each, any of them unparsable; 2 setter calls on 4 settings | `StrongestSourceWins`, `RequiredIsAskedFor`, `AdaptiveWindowOverrides`, `OptionsArrive` |
| `config_ignored` | the same | *violated*: `ConfigIsUsed` |

Deadlock is not checked in the executor, reactor, server and configuration runs: with
every task finished and every thread gone, every request answered, or the server
configured, the modelled part rightly stops. Threads that block for good in `server` are
what `AnsweredUnlessHeld` and `LeaversAreLetGo` are about.

Why the bounds are enough:

- *Executor.* Three threads are the fewest with which one is notified, another
  times out and takes the notification, and a third sees what is left; a fourth
  task saturates the limit. The theorems cover every number of threads and tasks.
- *Parker.* Two wakers can overlap (the first between its swap and its unpark);
  the third is there to come after both. There is no counter to bound.
- *Reactor.* Two streams with one event per poll: one's events are under way while
  the other is registered or dropped, and what does not fit stays in epoll. To the
  map and the tokens it does not matter what a client sends: an end is an event like
  any other, and so are the room in the buffer and the flush. Messages and the other
  ways to end are in `reactor_stalls`, with one stream: stalls concern one at a time,
  since streams share nothing but the map and the event loop. Two messages let one
  arrive during the WouldBlock of the other. The real
  capacity is 64 events, the real token counter wraps after 2^64 registrations.
- *Body.* Five bytes do not divide by the buffer of three, so the buffer is used up,
  replaced and partly used; the slices are smaller and larger than chunks, and 0.
- *Server.* With two threads one can be held, by `serve` or by a handler, while the
  other still serves, and both can be held; the second connection is the one that
  suffers. A body of two pieces can arrive with the head, partly, or not at all, and of
  its two chunks one can be in the channel while the other has to wait. Two requests are
  enough for one to start from what the one before it left behind.
- *Config.* Settings interact only where `Pass` makes them, in two groups: the two flags
  of the mode, and the windows with the adaptive window. Both groups are among the
  settings of file, environment and setters, as are the two settings without a default.
  Two setter calls suffice for any pair of them in either order. Any other setting
  behaves as `http2_max_send_buf_size` does, whatever its size and type.

## Fairness

- *Executor* (`FairSpec`): weak fairness of whatever step a thread that is not
  asleep has next. The operating system runs it, `std`'s mutex is not held across
  anything that blocks, and tasks are assumed to end. Callers owe nothing. Nothing is
  assumed of timeouts in `EveryTaskStarts`: no task depends on the keep-alive for
  being started. `IdleWorkersRetire` has `KeepAliveEnds` as its premise, *strong* fairness
  of the timeout: the code restarts the whole keep-alive after a spurious wake-up, so
  a thread woken again and again would never time out under weak fairness.
- *Parker*: weak fairness of the thread in `block_on`, save that park need not
  return without a token, and of a wake-up that was begun. Nothing makes events happen.
- *Reactor*: weak fairness of the reactor thread, of each task that is woken and of a
  registration that was begun. Clients owe nothing, and streams may stay open for ever.
- *Body* (`FairSpec`): weak fairness of the steps of a call that was made, and strong
  fairness of a poll that yields anything but an empty chunk: `read` asks again after
  such a chunk, so a peer that sends nothing else for ever would keep it for ever.
- *Server*: weak fairness of the accept loop and of each runtime thread that can take a
  step; tokio polls a woken task when a thread is free, and a handler that does not wait
  for its body returns. Clients owe nothing, neither the rest of a request nor another
  connection that would free the task in `slot`.

## Proofs

The theorems about the executor are proved from `PoolAssumption` only (finitely many
thread identities, at least as many as the limit): they hold for every limit, 0 included,
and every set of tasks. Those about the server need of `ServerAssumption` that
`MaxPieces` and `MaxRequests` are natural numbers and that no connection is called "idle" or "serve"; those
about the reactor that the bounds on messages and the send buffer are natural numbers;
those about the Parker need nothing. Those about `Body` hold for sources and buffers of
every size (a capacity of 0 excepted), and slices of any sizes; those about `Config` for
all sources and values, and need that these say something about settings only.

- **`ExecutorProofs`.** The inductive invariant is `TypeOK`, `IdleAccounting`,
  `WakeupsCovered` and `SlotBound` together. None of them is inductive alone: that
  `notified` can be decremented in `Claim` is its guard, but that a decrement of
  `idle` in `Retire` stays a natural number needs `IdleAccounting` (the thread itself
  is in the waiting loop and `notified = 0`), that `workers` does needs `SlotBound`
  (the thread itself is live), and that `notify_one` finds someone to wake needs
  `IdleAccounting` with `WakeupsCovered` (`idle > 0` means that the waiting loop holds
  more threads than `notified`, so that either one is asleep or all are awake already
  and enough of them). `WorkConserving` and `SlotsMatchThreads` follow by inductions of
  their own on top of it, under the assumption that spawns do not fail (and, for
  `SlotsMatchThreads`, that no task panics). Both are needed: `execute` leaves `workers`
  incremented when `spawn` fails (`executor.rs:158-160`), and a panic unwinds past the
  decrement (`executor.rs:194, 223`).
- **`ExecutorRefinement`.** `OnePlacePerTask` is inductive with the above, and with
  `SlotBound` it gives `PoolImplemented`, `Spec => PoolSafe`: each step of the pool is
  a step of `ThreadPool` or a stutter. `SlotBound` is what bounds the running tasks,
  `OnePlacePerTask` what makes a task's start and end one change of a set.
- **`ParkerProofs`.** `EventIsPosted` and `MarkIsDelivered` with `TypeOK` are
  inductive, and together they give `NoLostWakeup`. `SignalImplemented` is the safety
  part of the refinement, for any number of wakers.
- **`ReactorProofs`.** `TypeOK` is inductive with where the messages are (`Counted`:
  unsent, received and owed never exceed `Messages`, which bounds the buffers), with
  `TasksHaveStreams` and with `TokensIssued`. On top of it there are three arguments.
  *The map:* the tokens of the streams epoll knows, and of those for which events are
  under way, are all different (`TokensUnique`), dropped streams included, and what the
  map holds under a token has that token (`SourcesMatchTokens`). This gives
  `SourcesAreLiveStreams` and `EventsReachTheirStream`. *The double check:* between
  registering the waker and the second look at the flag, the waker is in its slot or the
  reactor has taken it and will call it (`RecheckIsArmed`); hence a flag that is still
  down means an armed slot, and since the reactor sets the flag and takes the waker in
  one critical section, `ReadyPendingIsArmed` stays true until the task is polled afresh.
  *Readiness:* whatever a registered socket is ready for has an event in epoll, in the
  batch or in the reactor's hands, or has raised its flag, or is in `lost`
  (`ReadinessIsTracked`, with `LoopState`: between batches the reactor holds nothing).
  With the double check this gives `ReadyTasksAreFound`, which is what stands behind the
  two stall properties: but for the losses named, a parked task that could go on is being
  woken, or an event under way will find its waker.
- **`BodyProofs`.** What single calls and the source guarantee is inductive by itself
  (`Typed`): where bytes may be at each point of a call (`CallState`: a poll is made only
  when nothing is held and nothing was written) and that an end or an error comes from the
  source (`EndsAreTrue`). That an end is never made up is `RefilledProperties`: the buffer
  passed to `read` always has space. `BytesInOrder` is inductive on top of it, with
  `DroppedWereGiven`: `InOrder` is kept when later bytes are appended (`InOrderAppend`, a
  poll) and when the last ones go (`InOrderPrefix`, the drop of a reader), and all other
  steps only move bytes between `item`, `held` and `got`, whose concatenation stays the
  same. `NoTruncation` and `ErrorsCostNothing` follow from `Typed`. For
  `StreamImplemented` one has to know which bytes are under way: they are the latest ones
  of the source, without a gap, and there are none any more when it has ended (`InHand`).
- **`ServerProofs`.** `ThreadsAccounted` is inductive with `TypeOK`. `PiecesAccounted` is
  not: it needs `HeadFirst`, that the head of a request is read before anything of its
  body, so that `ReadHead` starts from nothing read and `ReadBody` finds `read` counting
  the head already. From the two follows that a handler that blocks is short of pieces
  (`BlockedOnlyShort`), and, in turn, that `SendHead` never meets one. That `slot` is
  among the woken tasks, part of `TypeOK`, needs `SlotIsParked`: what a task's end takes
  out of `woken` is not in `slot`.
- **`ConfigProofs`.** `Passed` is a recursive function. `PassedDefined` shows that there is
  a function that satisfies its equation, so that it does; then `ModeStays`,
  `AdaptiveWindowStays` and `OptionStays` follow one option through the fifteen steps:
  what `PassEffect` says of one step, and that every option is passed on once and where it
  stands in `Order` (`OrderProperties`, `OrderIsInjective`, `OrderIsComplete`). The
  inductions are over sets of natural numbers (`SetInduction`, from the well-foundedness
  of `<`), as the theorems about predicates cannot be instantiated. The invariants about
  `http` need `TypeOK` and nothing else, because `configure` runs once, on a server that
  no setter changes any more. `SourcesInOrder` unfolds `Merged` and `Deserialized`.

Every invariant and action property that a passing run checks is proved, and so are the
safety parts of the three refinements. Only model-checked: everything under fairness
(`EveryTaskStarts`, `PoolSpec`, `IdleWorkersRetire`, `EventsAreSeen`, `SignalSpec`, the
stalls, `CallsReturn`, `AnsweredUnlessHeld`, `LeaversAreLetGo`), which is beyond the prover.

## Findings

Four runs expect a violation; `PROJECT.json` quotes the lines they contradict.

1. `reactor_would_block`: after WouldBlock no waker is registered, so that the next
   event wakes nobody.
2. `reactor_early_event`: an event between `registry.register` and `sources.insert` is
   thrown away, and does not come again.
3. `server_body`: a handler that reads a body which has not arrived blocks the task that
   would have to read it, for ever, and its thread.
4. `config_ignored`: about half of the settings of a configuration file or of the
   environment are parsed and then dropped by `from_config`.

`reactor_stalls` shows that 1 and 2, with the flag that `clear_trigger` may wipe
out, are the only ways in which a connection hangs in the reactor; `server`, that 3, an
accept loop that takes the only thread, and one that keeps the newest task to itself are
the only ways above it.

One disagreement has no run of its own. The setter
`http1_only` "Sets whether HTTP/1 is required" (`server.rs:335`), but if `http2_only` was set,
if only to `false`, `configure` passes it on after `http1_only` (`server.rs:459-460`) and
hyper goes back to both protocols: `Server::bind`, `http1_only(true)`, `http2_only(false)`,
`serve`. A server from `from_config`, which always sets `http2_only` (`server.rs:514`), cannot
be made to require HTTP/1 at all. `RequiredIsAskedFor` claims that HTTP/1 is required only
where nothing was said about `http2_only`.

Further remarks. A thread that cannot be spawned stays counted in
`workers`, and a task that panics takes its thread with it but not its place, so that
`SlotsMatchThreads` and `EveryTaskStarts` are claimed for runs without either. The
setters of `Option`s say that "Passing `None` will do nothing" (`server.rs:368` and
others), and erase an earlier value. The `Default` of `ServerConfig`, which nothing calls,
has other values than its fields' documentation and serde defaults (`config.rs:15-23`,
`127.0.0.1`, 3000 and 6 s, against `0.0.0.0`, 8080 and 10 s). The pool of the `executor` module is not used by
`serve`, so that `max_workers` and `worker_keep_alive` have no effect there.

## What is not modelled

- Errors of mio's poll and `Interrupted`, after which the event loop goes on with
  everything as it was.
- Poisoned mutexes: a critical section would have to panic, and `TypeOK` says that the
  only arithmetic in one that could does not.
- The contents of requests, responses and errors, logging, and hyper's framing.
- Memory ordering weaker than the comments of `Parker` explain: the atomics are modelled
  as sequentially consistent.
- HTTP/2 in `Server`: its streams share a connection, and how hyper runs them depends on
  an executor that `serve` never gives it.
- Requests that a client sends before the answer to the one before (pipelining): they wait
  in the socket, and nothing of this repository sees them.
- hyper's assertions on sizes, builds without the feature `http2`, and the unused
  `Default` of `ServerConfig`, a constant.
- The error types and the crate root, which have no behaviour of their own, and the router
  example: a handler whose only state, a counter, is updated with a mutex held.

## Plan

Done: the modules above, in the order Executor, Parker, Reactor, Body, Server, Config, and
the proofs about all of them. Left, most important first:

1. What the arguments for liveness rest on, as theorems: that a worker, a runtime thread or
   a call that is to go on is in a state in which one of its steps is possible.
2. A repaired variant of the reactor's `WouldBlock` branch as a definition beside it, to
   show that the stalls disappear with it.
