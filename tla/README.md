# LuvCoro: TLA+ models, checks and proofs

LuvCoro wraps libuv in C++20 coroutines: one loop thread per `uv_runtime`, coroutines
that suspend on libuv requests and on the library's own primitives, and external threads
that talk to the loop through posted closures, channels and locks. The models here are
about that coordination: who may resume whom, what is lost or done twice when two threads
meet inside an operation, and what every operation promises its caller.

## The system

| Component | State | Operations | What makes it correct |
|---|---|---|---|
| `message_channel<T>` (`message.hpp`) | buffer, queues of suspended receivers and senders, queues of completed waiters, `closed`, a `uv_async_t`, a timer per `recv_for`, `send_cv` | `send`, `try_send`, `async_send`, `recv`, `recv_for`, `try_recv`, blocking iteration, `close` | FIFO, exactly once, no waiter beside what it waits for, no lost wake-up, one resume per suspension |
| `async_mutex`, `async_semaphore`, `async_condition_variable` (`sync.hpp`) | `locked_`, `permits_`, `waiters_` | `lock`, `try_lock`, `unlock`; `acquire`, `try_acquire`, `release`; `wait`, `notify_*`; cancellation, all on any thread | exclusion across hand-over, first come first served, no permit or notification lost, cancelled waiters never own |
| `local_*` mutex, semaphore, condition variable, event (`sync.hpp`) | the same, without a lock | the same on the loop thread, and `set`, `reset` | the same under re-entrant resumes |
| `task_scope` (`task_scope.hpp`) | number of active children, first exception, stop source, completions channel | `spawn`, `join(stop_token)` | join outlives the children and reports the first failure or the cancellation |
| `uv_runtime` (`runtime.hpp`, `runtime.cpp`) | queue of posted closures, `shutting_down_`, the loop | `post`, `call`, `sleep_for`, `wait_for_stop`, `blocking`, `spawn_every*`, `steady_timer`, the destructor | closures run once and in order, timers and stops complete a wait once, periodic tasks keep their rate |
| `control.hpp` | a race of tasks | `with_timeout`, `with_deadline`, `with_stop_token` | the first outcome wins and the losers are cancelled |
| stream operations, tcp, pipe, udp, dns | one libuv request or reader each; the accept queue | read, write, connect, accept, shutdown, send_to, recv_from, lookups, close | one completion per request, one reader per handle, no memory freed under libuv |
| fs (`fs.cpp`) | `fd_` and `offset_` of files; the disk | open, read, write, close, sendfile, directories, whole-file functions | descriptors have one owner, offsets match what was read, racing directory calls succeed |
| process, signal, fs_watch | exit status and waiter; signal entries; watched path | spawn, wait, kill; add, remove; start, stop; next; close | no exit or event of the wrong child or path, everything let go on close |
| `io.hpp`, `buffer.hpp` | a buffer over a stream | `read_until`, `read_exactly`, ... | no byte lost or repeated, also after a cancelled read |

Interaction. Everything that resumes a coroutine does so on the loop thread: directly, by
a closure given to `uv_runtime::post`, or by the channel's `uv_async_t`. `task_scope` is
built on a channel; signal and fs_watch deliver through channels; the timeouts are built on
`sleep_for`, `wait_for_stop` and `when_any`; every file function is a chain of
`run_fs_request`. What is hard: an awaiter's `await_ready` and `await_suspend` are two
critical sections with other threads in between; work is done after an unlock with what
was read before it; stop callbacks run on any thread and even inside the registration; a
cancel closure may come before the start closure or after libuv has finished; completed
waiters stay in queues; resumes nest; the runtime may be destroyed under all of it.
`PROJECT.json` lists these hazards at their lines.

## Modules

Primitives:

* `FifoChannel`: what a channel promises, with no threads: values leave in the order in
  which they were accepted, each to one receiver; closing refuses new values and drops at
  most the latest ones; a receiver hears of the close only when the channel is drained.
* `Channel`: `message_channel`. The actors are calls (`Ops`), each made once on the loop
  thread (`OnLoop`) or elsewhere; a call names its waiter, its value and its timer. One
  action per critical section, one for what follows the unlock (`Finalize`), one per
  callback of the loop. `pump_locked` is given in closed form (`Pump`). Undefined behaviour
  (a resume of a coroutine that is not suspended, a start of a null timer) sets `fault` and
  the behaviour ends there; all modules treat faults this way.
* `WaiterQueue`: the queue of waiters of `sync.hpp` with its lazy removal, and the waiters
  that a loop over it yields (`ActiveOf`).
* `AsyncMutex`: `async_mutex`, in the same style; `await_suspend` is four steps.
* `AsyncSync`: `async_condition_variable` and `async_semaphore`, composed with `AsyncMutex`,
  which it extends. Users run small programs (lock, try, consume, produce, acquire, take,
  release) chosen by a scenario. The calls of user u are the pairs `CallOf(u, k)`: a wait of the
  condition variable unlocks with one call of `AsyncMutex` and locks again with its next one. What a coroutine does that is resumed
  inside `unlock`, `release` or `notify` is interleaved with the rest of these.
* `LocalSync`: the four `local_*` primitives. Nothing runs in parallel; the state is the call
  stack of the loop thread, on which `release`, `set` and `notify_all` are frames, and which a
  waiter resumed by them, or by `unlock`, may re-enter. Each task runs a script; a task that
  throws, or whose `try_` call fails, ends, after its guard has unlocked the mutex.
* `TaskScope`: `task_scope`, over an abstract completions channel. The children run on the
  loop thread. So does the parent, or, until it first suspends, it runs on the thread that
  called `run_with_runtime` (`home`), and a child there until `spawn` returns (`here`). A turn of `join` is then
  three steps, its looks at the token and at `active` and its `recv`, and the end of a child
  two, the decrement of `active` and what it does to completions. The stop token fires on any
  thread, and its callback has two steps.

The runtime and what wraps libuv:

* `Runtime`: `post`, `call`, `drain`, the destructor, `sleep_for`, `sleep_until`,
  `steady_timer`, `wait_for_stop`, `blocking`, the three periodic tasks, and `control.hpp` as
  an op with contenders. Time is a counter in parts of a millisecond, so that both
  roundings (libuv's and that of `sleep_until`) show.
* `Requests`: the life cycle shared by stream write, shutdown and read, connect, `send_to`,
  `recv_from`, the lookups and `run_fs_request`: start closure, cancel closure, libuv
  callback and release of the memory. `uv` is what libuv holds of a request.
* `FileSystem`: what the `uv_fs_*` requests ask of a disk (a tree with links, contents, open
  descriptions, descriptors), each as the set of its outcomes. `Files`: `luvcoro::file` and
  `luvcoro::fs` on it, as stacks of coroutines that await one request after another, which
  the pool executes in any order; a request is here one step of the pool, since its life
  cycle is the subject of `Requests`. An object may be moved from, after which it has no runtime,
  or destroyed; a coroutine that would go on with a destroyed object ends the behaviour
  (`Undefined`).
* `LoopOps`: ops, posted closures and stop tokens, shared by `Acceptor` (servers of tcp and
  pipe), `Process` and `Watchers` (`signal_set`, `event_watcher`, `poll_watcher`). `Listeners`
  composes the three on one loop and states their properties.

`MCChannel`, `MCAsyncSync`, `MCTaskScope`, `MCLocalSync`, `MCRuntime`, `MCRequests`, `MCFiles` and
`MCListeners` are the instances that TLC checks; most choose among scenarios in `Init`, so
that one run covers several small casts. The theorems are in `WaiterQueueProofs`,
`ChannelProofs`, `AsyncSyncProofs` (with those about `AsyncMutex`), `TaskScopeProofs`, `RequestsProofs`,
`RuntimeProofs`, `ListenersProofs` and `LocalSyncProofs`. `LoopOps` defines `:>` and `@@` itself, because
those of module `TLC` are not for the prover.

Definitions named as mutants in their comments are faulty variants of the definition that
follows them. No specification uses them; each is the evidence that a property notices
the fault (`PROJECT.json`, "mutants").

### Abstractions

* `Channel`: `active`, `completed`, `timed_out`, `value` and `exception` of a waiter are its
  `outcome` and `value`. The closures of `cancel_timers` commute and are posted as one. The
  async handle's closing flag is set in the same step as the flush before it. Errors of
  `uv_async_init` and the "has no state" checks of moved-from channels are left out. `next`,
  `next_for`, `messages` and `messages_until` repeat `recv` and `recv_for`. The loop may run any
  callback that is due between two posted closures, which allows more interleavings than
  one drain does.
* `Runtime`: the cached time of the loop is the current time in whole milliseconds. `spawn`
  from the loop thread is not distinguished from a call.
* `Requests`: the calls are made on the loop thread. The network may answer at any time, and
  never has to. What `uv_cancel` answers is external, from libuv's documentation: `UV_EINVAL`
  for stream and udp requests, 0 for queued work, `UV_EBUSY` for running work.
* `TaskScope`: two threads that meet inside an operation of completions are the subject of `Channel`, so
  that the double resume of `recv` that `chan_push` shows is left out. What coroutines of the loop
  thread do between two suspensions does not interleave.
* `FileSystem`: permissions, owners and times are left out; a link leads to a path that is
  not a link, and not to a directory above itself. Reads and writes may be short.
* `Listeners`: the channels of `Watchers` are their messages and a closed flag; what happens
  inside a channel is the subject of `Channel`.

## Runs

All cfg files say `CHECK_DEADLOCK FALSE`: operations are made once, and a receiver with no
sender, or a child that never ends, may wait for ever.

| Run | Instance | Result |
|---|---|---|
| `chan_loop` | 8 calls of the loop thread, capacity 1 | holds: no fault, senders wait only on a full channel, timed receives end, close releases everyone, FIFO (refinement of `FifoChannel`) |
| `chan_threads` | 3 calls of the loop, 4 external ones, two of them closes, capacity 1 | holds: nobody waits beside a value, no lost wake-up |
| `chan_iter` | 4 calls of the loop, 3 external ones with a blocking iteration, capacity 1, the runtime destroyed at any moment | holds: exactly once, the first completion wins |
| `chan_push` | 2 receivers, 2 external senders, unbounded | violated: double resume of `recv` |
| `sync_threads` | 8 scenarios of up to 4 users on the mutex, the condition variable with its mutex, or the semaphore, on the loop and elsewhere, with stops from both | holds: exclusion, order, nobody waits for an open lock, no notification or permit lost, calls end |
| `scope_join` | 3 children, 2 may throw and may end inside spawn, stop token, the parent on the loop or starting elsewhere | holds: join waits, reports the right result, ends, and with the closed error only while a child runs |
| `requests` | 8 scenarios of 3 calls on a tcp, pipe or udp handle or in the pool, all stoppable | holds: one reader per handle, no input lost, pool requests keep their memory, stopped calls end |
| `req_cancel` | writes, connects, shutdowns and sends that are stopped | violated: a request is freed while libuv holds it |
| `files` | 20 scenarios of 2 tasks on small trees with links and on files, one stoppable, 3 descriptors, objects moved, destroyed and opened twice | holds: one owner per descriptor, racing creators, `remove_all`, contiguous reads, scripts end |
| `runtime` | 12 scenarios of up to 4 ops, 2 units per millisecond, 7 units | holds: faults only in the three known cases, cancelled work never ran, rates bounded, stopped ops end |
| `local_sync` | 11 scenarios of 3 tasks, two stoppable | holds: exclusion, permits conserved, nobody forgotten, every task ends unless `notify_all` spins |
| `listeners` | 9 scenarios of 5 calls, 3 connections, 3 events, closes of other threads | holds: connections kept, a cancelled accept costs one more, waits answer truly, watching is known, whoever is due ends |

The violated properties say what the repository's README says of the program; "findings"
in `PROJECT.json` quotes it. The passing runs with several threads contain faults too:
their safety properties hold up to the fault, and the liveness ones except behaviours that
end in one.

### What the models show besides

These behaviours are reachable in the models; no run is kept for each.

* `sync.hpp:472` (`lock`), `:726` (`acquire`), `:1080` (`wait`): `await_suspend` has already
  published its waiter when it returns `!completed`. A thread that completes it in between
  also posts its resume, which then hits a coroutine that is running or finished. The
  repository's `README.md:419-420` says "use the regular `async_*` primitives when other
  threads may notify, release, or contend directly".
* `message.hpp:1169`, `:297`: `blocking_next` and `try_recv` free a place without
  `send_cv.notify_all`; a thread asleep in `send()` stays so. `README.md:559-560`: "`send(...)` is
  still available for external threads and will block when a bounded queue is full."
* `message.hpp:813`: a `send` of another thread between the unlock of `recv_for` and its `post`
  clears the timer that the posted closure then starts. `message.hpp:1124`: an operation that
  wakes the loop after the async handle has begun to close throws although it has moved a
  value already (`outcome` "aborted").
* `task_scope.hpp:162`: children that end inside `spawn`, or on the loop thread while the parent spawns
  on the one that called `run_with_runtime` (`runtime.hpp:180`, `examples/structured_scope.cpp:46`,
  `:68`), bring `active` to 0 and close completions while the parent still spawns; `join` then
  rethrows the closed error with a child active (`ClosedErrorNeedsChild`). `README.md:480-481`: "waits for them to finish, and then rethrows the first
  failure from `join()`". `JoinWaitsForChildren` is about the other results.
* `task_scope.hpp:119`: when the last child ends after `request_stop` and before the message
  of the stop callback, `join` returns normally. `README.md:532-534`: "then throws
  `luvcoro::operation_cancelled`".
* `runtime.cpp:383`, `:445`: a `wait_for_stop` that another thread stops while it suspends, and
  a `sleep_for` awaited outside the loop thread, may be resumed twice; `post` throws out of
  callbacks while the runtime is destroyed. `FaultsAreKnown` says that there is no other.
* `tcp.cpp:226`: `close()` before the start closure of a connect makes it use a null handle;
  `dns.cpp:292` throws out of `drain`; `dns.cpp:192`, `:320` look for `UV_ECANCELED` while libuv
  reports `UV_EAI_CANCELED`, so a lookup cancelled in the pool throws `uv_error`; a read that is suspended at `close()` is not resumed.
* `tcp.cpp:637`: after a cancelled accept, the next one fails with `UV_ECANCELED`
  (`CancelledAcceptsCostOne` bounds it). `tcp.cpp:634`, `process.cpp:224`: the stop closure may find
  its awaiter gone. `signal.cpp:92-96`: an entry added after `close()` has emptied the table.
* `sync.hpp:1007-1016`: the loop of the local `notify_all` resumes a wait whose predicate is still false,
  which queues itself again, so that the same loop finds it and never returns
  (`NotifyAllSpins`, the exception in `EveryTaskEnds`).
* `fs.cpp:683`, `:699`: an object that is moved from while its open is awaited gets the descriptor when it has
  no runtime any more, and neither `close()` nor the destructor closes it; an open by
  descriptor of such an object (`:752`) ends the same way, and the second of two opens of
  one object (`:736`) stores its descriptor over that of the first. An object destroyed
  while its open is awaited is written after its end.
* `fs.cpp:1053-1071`: `remove_all` follows a link to a directory below its root, empties the directory, and then
  fails with `ENOTDIR` in `rmdir` of the link.
* `fs.cpp:198`, `:899`: a cancelled open or close may leak a descriptor; `fs.cpp:1133`: two
  `append_file` may overwrite each other; `fs_watch.cpp:126`: a failed restart still tells the
  old path.

### Bounds

Every queue that matters must be able to hold two elements, with somebody to race
against: two suspended senders behind a full buffer (order of the refill), two threads
asleep in `send` (notify_one or notify_all), a timed receive in front of a plain one
(inactive waiter at the front), three locks (a waiter behind a cancelled one), two
consumers and two producers (a notification stolen by the other), three children (one
throws, one ends, one goes on), two reads of one handle, three accepts (one stopped, the
one that pays for it, and one after that). Capacity 1 is the smallest where full, empty
and refilled differ; two units of time make a millisecond, the fewest where rounding
shows; a file of three elements and reads of at most two make every read short somewhere.
`MaxWaits` = 2 is enough for two consumers: only one wake-up can find its item taken.
Each call is made once, which bounds everything else; the environment is bounded by
`MaxConns`, `MaxEvents` and `MaxTime`, past which it falls silent.

### Fairness

The loop keeps running its callbacks, a timer that is armed fires, a call that has begun
goes on, a notified thread gets its mutex, and the thread pool works: that is what the
operating system and libuv provide, as weak fairness of each. Nobody is obliged to make a
call or to request a stop, and the network and the disk watchers owe nothing. In addition
the holder of a mutex unlocks (otherwise waiting is legitimate), and a child of a scope
ends once the scope has requested stop, the cooperative cancellation the library asks for.

## Proofs

Each theorem holds for every value of the constants that its assumption allows
(`ChannelAssumption`, `MutexAssumption`, `SyncAssumption`, `ScopeAssumption`, `RequestsAssumption`: the
types of the constants and finite sets of calls; `RuntimeAssumption` besides: a contender
belongs to a controlled call, only a sleep is awaited outside the loop thread, and the
interval of a periodic task is at least a millisecond, because the code cuts it to
milliseconds and refuses the result unless it is positive; `ListenersAssumption`: the calls are
finite in number, `None` names none of them, and `next` names one of the two channels;
`LocalAssumption`: a task locks and unlocks in turn, as with guards, and each wait on the
condition variable is made with the mutex and is a whole one). The pattern is the same
everywhere: an invariant that is inductive, kept by one lemma per action or per kind of
effect, and the property from it.

### The channel (`ChannelProofs`)

* `WaitInvariant`, and from it `TypeCorrect`, `NoIdleReceiver` (`ReceiversWaitOnEmpty`) and
  `NoIdleSender` (`SendersWaitOnFull`). The two waiting properties need each other and the
  types: a receiver queues itself only when there is no value, but that a later send cannot
  pass it by, and that a close leaves nobody, rests on senders being suspended only beside
  a full buffer, and the reverse on receivers waiting only beside an empty one. Along the
  way `TakeFrontForm` shows that the first loop of `pump_locked`, and the branches that take
  a value from a suspended sender while the buffer is empty, never do anything.
* `FifoInvariant`, `ImplementsFifo` (`FifoOrder`), `FirstWins` (`FirstCompletionWins`) and `DeliveredOnce`
  (`ExactlyOnce`). `FifoInv` adds `DataInv` (the line of values, which is the buffer and
  behind it the suspended senders, holds each value once; a value that was given is with
  one receiver) and `CoreInv` (where a call is agrees with its outcome, its waiter and its
  timer). Neither is kept by the code alone: that a completed waiter is not completed again
  depends on the queue it was found in, and that on where the call is. What a step may do
  to the values is one of eight effects (`Sent`, `Queued`, `Handed`, `Taken`, `Ended`, `Thrown`, `Shut`,
  `Quiet`). One half of the proof shows that each effect keeps `DataInv` and is a step of
  `FifoChannel`; the other, action by action, which effects the code has.
* `SendersAreNotified`: `AwaitedOnly => (Spec => []NoLostSendWakeup)`. `AwaitedOnly` says that no
  call is a `try_recv` or a blocking iteration. Those two free a place without a
  notification (`message.hpp:297`, `:1169`, see above), so that the property is false with them.
* `NoResumeIsLost` (`NoLostResume`), for any threads. A waiter is completed under the lock and
  flushed later, by somebody else perhaps. `DueServed` says that whoever is due is about to
  be resumed or lies in a ready queue with a flush on its way that the loop will still
  accept; `ClosingInv`, that the async handle closes only for a closed channel, whose own
  closure flushes last.
* `OneThreadIsSafe`: `OneThread => (Spec => []NoFault)`. `OneThread` says that every operation is
  made on the loop thread and that the runtime is not destroyed. Without it the faults
  are real: `chan_push` shows one. `ThreadInv` says that the queues of completed waiters hold
  suspended coroutines, each once, and that one operation at most is between two critical
  sections, so that what `await_ready` saw still holds in `await_suspend`.

### The locks (`AsyncSyncProofs`)

* `OneOwner` (`MutualExclusion`), `NoStrandedWaiter` (`NobodyWaitsForOpenLock`) and `MutexTypes`, from
  `LockInvariant`. The strengthening, `PlaceInv`, ties where a call is to its outcome: whoever
  is posted to be resumed has been completed, and an active waiter in the queue is past
  its own enqueueing.
* `InOrder` (`GrantedInOrder`, an action property): no grant passes an active waiter, and nobody
  enters in front of one that is queued. It needs one invariant more, `LineInv`: a waiter is in
  the queue once, and no call that has still to enqueue is in it. Every step is then
  `Orderly`: the queue only loses waiters at its front (`Cut`, which pruning and `unlock` are cases
  of) and gains one, that was not in it, at its end; outcomes are final; and the waiter that `unlock`
  grants the lock to is the first active one. `OrderKept` concludes from these
  alone. `InOrderWithWaits` says the same of `AsyncSync`, by `MutexPart`: what users do is a step of
  the mutex or leaves its queue, outcomes and calls alone.
* `SyncInvariant`: the same about the mutex when waits of the condition variable release it and
  take it again (`OneOwnerWithWaits`), together with `NotificationsKept` (`NoLostNotification`) and
  `PermitsConserved` (`PermitsKept`). A step of `AsyncSync` is a step of `AsyncMutex` for one call, or
  leaves the mutex alone. The notifications are the hard part: an item for which a waiter
  is queued has a consumer on its way or a producer about to notify, in numbers. A
  consumer may take an item that was not meant for it, and a stop may take a waiter away;
  the invariant counts the consumers that were completed in their current round and have
  not ended, and the producers that have still to notify.

### `task_scope` (`TaskScopeProofs`)

* `ScopeInvariant`, `JoinIsStructured` (`JoinWaitsForChildren`): `active` is the number of children that
  run, so that `join` sees 0 only after the last, whichever threw and whichever ended inside
  `spawn`.
* `JoinIsWoken`: a `join` that sleeps has a child left that runs or is about to close completions, on
  an open channel, and no stop it has not acted upon: the safety part of the liveness in
  `JoinEnds`. It is not inductive, because between its looks and its `recv` join knows only what
  was. `CloseIsDue` and `StopIsThere` say what still holds in between: completions is closed or
  somebody will close it, and a stop that came after the look at the token has left a message.
* `JoinKeepsItsResult` (`ClosedErrorNeedsChild`, the other part of `JoinEnds`): if no child runs when the closed
  error of `recv` is caught, `join` ends with a result of its own.

### Requests (`RequestsProofs`)

* `RequestInvariant`, and from it `ReaderNeverDangles` (`ReaderIsRegistered`), `InputIsReturned`
  (`NoLostInput`) and `PoolMemoryIsSafe` (`PoolRequestsOutliveLibuv`). `OpInv` says what libuv holds at each
  point of a call's life and that a start closure is posted once; `ReaderInv`, up to the
  first fault, that `handle->data` names the read that is started and not completed.

### The runtime (`RuntimeProofs`)

* `RuntimeInvariant`, and from it `FaultsKnown` (`FaultsAreKnown`) and `WorkIsNotRun`
  (`CancelledWorkNeverRan`). Neither property is inductive: that a timer, a stop callback or a
  posted closure finds its coroutine suspended depends on what everybody else who names
  that coroutine has done. `OpsInv` says so for each op. `BeginInv`: a closure that begins a
  coroutine or its work is posted once. `PlaceInv`: where a coroutine is suspended tells what
  it waits for, and a stop callback is registered only while it is. `SleepInv`: a sleep with
  a due time, or with a closure about it on its way, is completed, or is suspended and
  resumed by nobody; a `resume` is posted once, by whoever completed the sleep. `WorkInv`: the
  pool has the work of suspended ops only, and what it can still give up, or has given up,
  has not run.
* `TasksAreNotFaster` (`RateBounded`), from `RateInvariant`. `RateBounded` counts ticks against the clock;
  what keeps it is the account of the sleep in between. `RateInv` says that the time of the
  ticks so far is paid for (`Paid`), and that of one more whenever the task sleeps to a due
  time or has woken from it. A fixed delay counts from the time of the loop, a multiple of
  a millisecond, so that the whole delay passes after one rounding. A fixed rate aims at a
  slot, and the slot after a late one is never before the time that the ticks have paid
  for; it rounds twice, when the delay is cut to milliseconds and when libuv adds it to its
  own time. A sleep that was cut short would break either account; it has been told to
  stop, and the task ends instead of ticking.

### The listeners (`ListenersProofs`)

Servers, processes, signal sets and path watchers share the loop, its posted closures and the
stops, so that `ListenersInvariant` is about all of them. `PlacesInv` says what a call at each point
is, and that the closure of a stopped one is on its way while it waits.

* `EveryConnectionKept` (`ConnectionsKept`). `ConnsInv` keeps the accounts: the connections that accepts
  have got, followed by those that are pending, are in the order of arrival, and together
  with those closed and lost they are all that came. `WaiterInv` is needed for the rest: an
  accept sleeps only beside an empty `pending` and no stored error, and once the handle is gone
  the closure that drops the waiter is posted.
* `CancelledCostOne` (`CancelledAcceptsCostOne`). A stopped accept and a close leave
  `status = "cancelled"` for the next accept to find. `DebtInv` counts that stored cancellation with
  those already reported.
* `WaitsAreTrue` (`WaitsAnswerTruly`). A process object is used for one child after another, each
  with its own shared state, while closures about an earlier child are still posted. `WaitInv`
  ties a sleeping wait to the state it sleeps in and to a child that is not reported and
  is open or about to be closed; `ChildInv` says that a state has one such child at most. That there is a
  state for every spawn rests on the number of spawns (`Spawned`).
* `WatchedIsKnown` (`WatchingIsKnown`), up to the first fault. `SignalInv`: what libuv delivers is an entry
  or is about to be closed, and a closed set is drained or has somebody who will drain it.
  `PathInv`: the path that libuv watches is the one the object names, and events that are
  on their way carry it.
* `DueIsServed`: the safety core of `ListenersEnd`. Whoever has to end (a stopped wait or accept, a wait
  whose child has died, ...) has a closure or a callback under way that will end it.

### The local primitives (`LocalSyncProofs`)

`LocalInvariant`, and from it `OneLocalOwner` (`LocalExclusion`), `PermitsAreConserved` (`PermitsConserved`) and
`NobodyIsForgotten` (`NobodyForgotten`), for any number of tasks and any depth of nesting.

* `StackInv`: the tasks that run are on the call stack, each once, so that the one on top is
  the only one that acts, and nobody is resumed who is on the stack already.
* `ScriptInv`: a task owns the mutex exactly as long as its script has still to unlock it.
  Hand-overs, relocks and exceptions change both together.
* `WaitInv`: a waiter that can be woken is suspended at the step that its queue belongs to. The
  exception is the condition variable, which queues its waiter before it unlocks: such a
  waiter may still be on the stack, inside `unlock`, while a task that it has handed the
  mutex to notifies it.
* `OpenInv`: nobody waits for an open mutex or a free permit, in any state, and for a set event
  only while a `set` is still on the stack. A woken task may call `reset` and wait again inside
  the loop of `set`; the loop then wakes it once more (`sync.hpp:1228`).
* `OwnerInv`, `PermitInv`: the two accounts. The permits that loops have still to hand out are a set
  (`Owed`), one element for each permit and frame, so that a push or a pop of a frame changes
  its cardinality by the count of that frame, whatever is below.

### Lemmas

`WaiterQueueProofs` has the facts about `Least`, `Nth`, `PruneInactive` and `ActiveOf` that all modules
about waiters use: the closed forms of the code's loops pick existing, active waiters, each
once and in order, and pruning cuts off the front of a queue no further than its first active
waiter.

### Only model-checked

Liveness is outside the prover's reach. The four invariants of `Files` are model-checked only.
Three of them say what a recursive removal, a nested creation or a loop of reads has done
when it ends; that it gets through a whole tree or file takes induction over those data.
`DescriptorsHaveOneOwner` says in its last part that every open descriptor has somebody to close
it. That excepts the leaks listed above: of stopped opens and closes, and of objects that are
opened twice, moved from or opened by descriptor without a runtime. The run reaches
them. That a descriptor has at most one owner holds there too.
`EveryTaskEnds` of `LocalSync` and `ScriptsEnd` of `Files` except behaviours that end in `NotifyAllSpins` and
`Undefined`.

## Plan

1. A proof that a descriptor has at most one owner, for every script (`Files`).
2. `select` and `co_foreach` over `FifoChannel`.
3. `io.hpp`: `read_until` and `read_exactly` over chunked input, against a reference.

## Not modelled

`select` and `co_foreach` (planned). `io.hpp` and `buffer.hpp`: loops over one stream operation
at a time that gather bytes (planned). tty and stdio: handle set-up in front of stream
operations, no state of their own. Socket and multicast options, process options, address
conversion, error texts: single libuv calls or pure data. The contents of packets and the
results of lookups are the network's.
