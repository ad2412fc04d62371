# TLA+ models of the HPS fiber runtime

This directory holds TLA+ models of the concurrency core of
`Miracle-Pig/High-Performance-Server`. The models cover the fiber scheduler, the epoll-based
IOManager, the timer manager and the syscall hook layer (`src/src/*.cc`).
Every module is checked with TLC. `PROJECT.json` lists the components, the
runs, the mutants, the map from TLA+ definitions to source lines, the findings
and the hazards.

## 1. Inventory

### Components, their state and operations

| Component | Source | State | Operations |
|---|---|---|---|
| Fiber | `fiber.cc` | `m_state` in {INIT, HOLD, EXEC, TERM, READY, EXCEPT}, `m_cb`, `m_ctx`, `m_stack`, `m_joinSchedule`; thread locals `t_fiber` and `t_threadFiber` | ctor, `GetThis` (creates the root fiber lazily), `call`, `back`, `YieldToReady`, `YieldToHold` (does **not** set HOLD, line 90 is commented out), `MainFunc` (TERM or EXCEPT, then `back`), `reset`, dtor |
| Scheduler | `scheduler.cc` (+ `schedule`/`scheduleNoLock` templates of `scheduler.h`, not in `src/`) | `m_tasks` (list of {fiber or cb, thread}), `m_activeThreadCount`, `m_idleThreadCount`, `m_stopping`, `m_autoStop`, `m_threads`, `m_rootFiber`, `m_rootThread`; thread locals `t_scheduler`, `t_scheduler_fiber` | ctor, `start`, `schedule`, `run` (the per-worker dispatch loop), `idle` (base: yield until `stopping()`), `stopping`, `switchTo`, `stop`, `tickle` (base: log only) |
| TimerManager / Timer | `timer.cc` | ordered set `m_timers` by (`m_next`, address), per timer `m_ms`, `m_next`, `m_cb`, `m_recurring`; manager `m_tickled`, `m_previouseTime` | `addTimer`, `addConditionTimer` (`OnTimer` guards the callback with a weak pointer), `Timer::cancel`, `refresh`, `reset`, `getNextTimer` (clears `m_tickled`), `listExpiredCb`, `detectClockRollover`, `hasTimer` |
| IOManager | `iomanager.cc` | epoll fd and its interest set (kernel), self-pipe, `m_fdContexts` (per fd: `events` mask, READ and WRITE `EventContext` = {scheduler, fiber, cb}), `m_pendingEventCount` | ctor, `addEvent`, `delEvent`, `cancelEvent`, `cancelAll`, `FdContext::triggerEvent`, `idle` (epoll_wait, expired timers, ready fds), `tickle` (pipe write if idle threads exist), `stopping` (adds timers and pending events), `onTimerInsertedAtFront` |
| Hook layer | `hook.cc` (+ `FdCtx`/`FdMgr` of `fd_manager`, not in `src/`) | thread-local `t_hook_enable`, `s_connect_timeout`; per-call `timer_info.cancelled` shared with the timeout timer | `do_io` (read/write family, accept), `sleep`/`usleep`/`nanosleep`, `socket`, `connect_with_timeout`, `close`, `fcntl`, `ioctl`, `setsockopt` |
| Thread | `thread.cc` | pthread handle, semaphore, thread-local name | ctor (waits on the semaphore), `run`, `join` |
| StringUtil | `util.cc` | none (pure functions over the tables `uri_chars` and `xdigit_chars`) | `UrlEncode`, `UrlDecode`, `Trim`, `TrimLeft`, `TrimRight`, wide-string conversions |
| Config, Log, other util, endian, singleton | `config.cc`, `log.cc`, `util.cc`, `endian.hpp`, `singleton.h` | YAML-backed variables, loggers and appenders, time and file helpers | out of the core; not modelled |

### How the components interact

* A worker thread runs `Scheduler::run`. Each pass takes the first task of `m_tasks` that
  the thread may run: its affinity must match and its fiber must not be `EXEC`. The thread then
  `call()`s the task's fiber, or a task fiber wrapping its callback. If no task matches, it calls
  its idle fiber. After `call()` returns, the thread decrements `m_activeThreadCount`. A
  fiber that ended `READY` is re-queued with no affinity, and any other live fiber is marked `HOLD`.
* The IOManager's idle fiber blocks in `epoll_wait` (at most 3000 ms). It hands expired
  timer callbacks to `schedule` and fires `triggerEvent` for ready fds. `triggerEvent` clears
  the event bit and schedules the registered fiber or callback.
* The hook layer's `do_io` calls the real syscall. On `EAGAIN` it arms a timeout with
  `addConditionTimer`, registers the calling fiber with `addEvent`, and yields with
  `YieldToHold`. On resume it cancels the timer. If the timer callback set `cancelled`, it
  returns `ETIMEDOUT`; otherwise it retries the call. The timer callback sets `cancelled` and
  calls `cancelEvent`, which fires the registration as if the fd were ready.
* Shared state: the task queue (one mutex), the fd table (a rwlock plus one mutex per fd),
  the timer set (a rwlock), `m_activeThreadCount`, and the fiber state, which is written by
  the thread running the fiber and read by scanning threads. The `cancelled` field of
  `timer_info` is a plain `int` that the fiber and the timer callback share.

### What is hard

* Several worker threads run fibers that can be woken from other threads: by epoll
  readiness, by timer callbacks, or by `switchTo`. A fiber stays `EXEC` from its yield until
  its old thread sets `HOLD`, and the `EXEC` check in the queue scan is all that stops a
  second thread from resuming it in that window.
* A timeout races with readiness. The fiber, the idle thread that lists the expired timer,
  and the worker that runs the timer callback are three actors with no common lock.
* Stop is decided from counters (`stopping()`) that are read while other threads are still
  between two steps of the run loop.
* Time: timers can expire at any point, the wall clock can jump back, and 64-bit deadlines are
  cast to the `int` timeout of `epoll_wait`.

### What makes each component correct

* Scheduler: a fiber runs on at most one thread at a time, and only while its state is `EXEC`.
  A task pinned to a thread runs only there. Every queued task is eventually run. `stop()`
  returns once the work is done.
* IOManager: an event bit is set iff the kernel interest contains it. A registration resumes
  its fiber or callback exactly once. `m_pendingEventCount` equals the number of registered
  events, because `stopping()` depends on it.
* Hook: a wait with a timeout always ends, either by readiness or by `ETIMEDOUT`. The loser of
  the race between readiness and the timer has no effect.
* TimerManager: a timer is in `m_timers` iff its callback is set. `listExpiredCb` returns
  exactly the due timers (or all of them after a rollover) and re-arms the recurring ones.
  `getNextTimer` is the time to the earliest deadline.

## 2. Plan and its state

| # | Module | State |
|---|---|---|
| 1 | `SchedulerCore.tla`: task queue, fiber states, `Scheduler::run`, `schedule`, `stopping()`, `Fiber::call`, thread start and join | built |
| 2 | `Scheduler.tla` (+ `MC_Scheduler`): fiber bodies (`YieldToReady`, `YieldToHold` with a waker, `switchTo`, return, throw), base `idle`, `start`, `stop`, join | built |
| 3 | `HookIO.tla` (+ `MC_HookIO`): IOManager (fd contexts, epoll interest and edges, `addEvent`, `cancelEvent`, `cancelAll`, `triggerEvent`, every step of `idle`), `do_io`, `connect_with_timeout`, `close`, `socket` | built |
| 4 | `IdleTimeout.tla` (+ `MC_IdleTimeout`): the integer conversions of `idle`'s epoll timeout, `sleep`, `nanosleep` and `setsockopt`'s cached timeout | built |
| 5 | `TimerManager.tla` refining `TimerSet.tla` (+ `MC_TimerManager`) | built |
| 6 | `HookFdCtx.tla` (+ `MC_HookFdCtx`): `socket`, `fcntl(F_SETFL)`, `ioctl(FIONBIO)`, `close` and the kernel's `O_NONBLOCK` | built |
| 7 | the fiber layer in `Scheduler.tla`: `t_fiber` and the contexts `call`/`back` save and resume | built |
| 8 | `use_caller` schedulers in `Scheduler.tla`: the root fiber that `stop()` runs on the caller | built |
| 9 | `delEvent`, `addEvent` with a callback, `contextResize` | left |
| 9a | `IdleWakeup.tla` (+ `MC_IdleWakeup`): `tickle`, `m_idleThreadCount`, `onTimerInsertedAtFront` and the idle loop around `TimerManager` | built |
| 10 | `accept`'s FdCtx creation (`HookFdCtx`), `usleep` (`IdleTimeout`) | built |
| 10a | `fcntl(F_GETFL)` with a pass run of `HookFdCtx` | left: no run slot, see section 7 |
| 11 | `StringUtil.tla` (checked in `MC_IdleWakeup`): URL coding and trimming against reference definitions | built |
| 12 | `FiberTask.tla`: the lifecycle a scheduled fiber goes through, refined by `Scheduler` (`FiberTaskSpec`) | built |
| 13 | callbacks whose task fiber yields READY or parks, and the READY/HOLD/reset branches of `run()` for it | built |

## 3. Modules and how they correspond to the code

`PROJECT.json`'s `map` gives the lines each definition translates.

* **SchedulerCore** holds the scheduler state. `m_tasks` is a sequence of `[u, thr, fib]`
  (`FiberAndThread`: a fiber when `fib`, else a callback), and `fstate` is each fiber's
  `m_state`, and for a callback the `m_state` of the task fiber it runs in. A callback name
  stands for one `std::function` handed to `schedule()`; if its task fiber yields, the thread
  drops it and it is queued (or woken) as a fiber task under the callback's name. `ctl[t]` is a worker's place in `run()` plus the unit it
  runs, and `idleTerm[t]` says whether that worker's idle fiber is TERM. One action models each
  step of `run()` between two points where another thread can observe it. `RunFiber` is the
  scan together with `call()` (under `m_mutex`, so atomic). `FiberReturned` is the decrement.
  `RequeueReady` and `HoldOrRelease` are the READY and HOLD handling after it.
  `RunCallback` is the scan with `task_fiber->reset(cb)` and `call()`; `CallbackReturned`
  decrements and either resets a finished task fiber to INIT or hands a yielded one to the
  same READY/HOLD handling. The bodies of
  fibers and of the idle fiber are left to the modules that extend it.
* **Scheduler** adds the main thread (`start`, `schedule`, `stop`, join) and fibers that yield
  READY, park (`YieldToHold`, and `YieldToHold` does not set HOLD), are woken by another fiber,
  `switchTo` a thread, return or throw, and callbacks that run to their end, yield READY, or
  park in their task fiber. It also adds the base `Scheduler::idle`.
  * `m_rootThread` is the `use_caller` thread, or `AnyThread` (-1) without one. `start()` spawns
    the other threads. `stop()` is split where other threads can act: `Stop` sets the flags,
    then `RootCall` (`!stopping()`: the caller enters its own `run()` in `m_rootFiber`) or
    `SkipRoot`, then `RootReturns` (the root fiber's `MainFunc` calls `back()`) and `Join`.
  * The fiber layer: `t_fiber[t]` is `Fiber::t_fiber`, and `m_ctx[t]` records which frame the
    main fiber's and the root fiber's saved contexts resume (`run()` after a `call()`, or
    `stop()` after `m_rootFiber->call()`). `FiberCall` and `FiberBack` are `Fiber::call` and
    `Fiber::back`, choosing `GetMainFiber()` or `t_threadFiber` by `m_joinSchedule`;
    `FiberSwitch` attaches them to each step that enters or leaves a fiber in `run()`.
* **FiberTask** is what the scheduler promises a fiber, with no queue and no `run()`: a
  fiber is free, queued, running on one thread, parked, or dead. It is taken only when queued
  and only by a thread that runs no other fiber; it leaves its thread by yielding (queued
  again), parking or ending; only a waker makes a parked fiber queued; a dead fiber stays
  dead. `Scheduler` maps its state onto it (`AbsStatus`, in this order: TERM/EXCEPT is dead,
  handed to a waker is parked, in `m_tasks` is queued, held by a thread between `call()` and
  its re-queue or HOLD is running, else free) and `FiberTaskSpec` checks the refinement with
  `INSTANCE FiberTask WITH`. A fiber queued by `switchTo` or by its waker is already "queued"
  while still EXEC; run()'s EXEC test is what keeps that from becoming a second "running".
* **HookIO** extends SchedulerCore with an IOManager and a kernel.
  * IOManager state: `events`, `ectx` and `m_pendingEventCount`.
  * Kernel state: the epoll interest `kint`, readiness `avail`, a pending edge `rdy`, `hup`,
    `open`, and `gen`, the socket generation of a number.
  * Each fiber runs one `do_io` read or write, one `connect_with_timeout`, or a `close()`
    followed by a `socket()`. `io[f]` holds the call's program counter, its wait count, its
    result, and the generation it was called on.
  * Timers are abstract. The condition timer of wait `k` of fiber `f` is the callback
    `<<f, k>>`, and it becomes due at any time (`Clock`).
  * `idle()` is split at its observable points: the `stopping` test, `epoll_wait` (which takes
    the pending edges into a per-thread buffer), `listExpiredCb`, one `HandleEvent` per ready
    fd, and the return.
  * An `ASSERT` that fails sets `aborted`, and everything stops.
* **HookFdCtx** models one fiber calling `socket`, `accept` (on an open socket), `open`,
  `fcntl(F_SETFL)`, `ioctl(FIONBIO)` and `close` in any order. The state is the kernel's `O_NONBLOCK` flag per number, and the
  FdCtx's `sysNonblock` and `userNonblock`. FdCtx is not in the repository, so its creation
  (`NewSocketCtx`) is taken from spec.md.
* **IdleTimeout** evaluates the narrowing casts of `idle()`, `sleep`, `usleep`, `nanosleep`
  and `setsockopt` on chosen inputs. The widths are constants: `int` has 16 bits and `uint64_t` has
  28 bits, so that TLC can represent every value.
* **TimerManager** models the ordered `m_timers` with its comparator (deadline, then address),
  `addTimer`, `cancel`, `refresh`, `reset`, `getNextTimer`, `listExpiredCb` and
  `detectClockRollover`, on an integer clock that also moves back. `TimerSet` is what it
  promises. `ImplementsTimerSet` checks the refinement through `INSTANCE TimerSet WITH`.
* **StringUtil** translates `UrlEncode`, `UrlDecode` (as the recursive `DecodeFrom`), `Trim`
  and `TrimLeft` into operators on sequences of bytes 0..255, with `uri_chars` as the set
  `UriUnreserved` and `xdigit_chars` as `XdigitValue`. `find_first_not_of` and
  `find_last_not_of` are `SelectInSeq` and `SelectLastInSeq`. The variable `str` only
  enumerates the arguments: it grows by one byte per step. `TrimRef` and `TrimLeftRef` define
  the trimmed string by its split points, without any index arithmetic.
* **IdleWakeup** extends `TimerManager` with the worker threads of an IOManager, to check the
  wake-up protocol of spec.md's insertion-at-front hook.
  * Each thread has a `state`: `run`, `idle` (counted in `m_idleThreadCount`),
    `wait` (blocked in `epoll_wait`) or `woken`. `seen` is the deadline that the thread's last
    `getNextTimer` returned, and `pipe` says the self-pipe holds an unread byte.
    `tickling` counts the `addTimer` calls that set `m_tickled` and have not yet called
    `onTimerInsertedAtFront`. That call comes after `lock.unlock()`, so it is a step of its own.
  * `EnterIdle` is `++m_idleThreadCount`. `Poll` is `stopping(next_timeout)`, which calls
    `getNextTimer` and so clears `m_tickled`. `WakeOnTickle` and `WakeUp` are the two ways out of
    `epoll_wait`: the pipe is drained, or there is a timeout or a socket event. `Process` is
    `listExpiredCb`, `back()` and `--m_idleThreadCount`.
  * `tickle()` writes only if some thread is counted idle.
  * The clock only moves forward here (see section 7).
  * `MC_IdleWakeup` runs `StringUtil` side by side in the same behaviours. The strings grow
    while the IOManager is still in its initial state, and the IOManager only moves once the
    string is empty.

## 4. Runs

| Run | Result | What it shows |
|---|---|---|
| `timer_refinement` | pass, 250k states | `TimersOrdered` (the set is sorted by the comparator), `CallbackIffQueued` (a timer is in the set iff its callback is set), and `ImplementsTimerSet` (every `listExpiredCb` hands out exactly the due timers, in order, or all of them after a rollover, and re-arms the recurring ones) |
| `sched_dispatch` | pass, 136k states | on a `use_caller` scheduler: `FiberRunsExclusively` (a fiber, or a callback's task fiber, runs on at most one thread, only in EXEC), `FiberTaskSpec` (every step moves a fiber as `FiberTask` allows: never out of TERM/EXCEPT, never from parked to running without a waker), `BackResumesCaller` (every `back()` resumes the frame its `call()` saved, and `t_fiber` is the running fiber), `EveryTaskRuns` (every queued task is taken, those pinned to the caller thread included), `StopCompletes` (`stop()` returns), with `switchTo` and one yield per fiber and per callback |
| `sched_stop_switchto` | violation | without `use_caller`, with two yields, a worker leaves `run()` while a READY fiber is being re-queued (`--m_activeThreadCount` comes first); the fiber then `switchTo`s that worker and `stop()` never returns |
| `hookio_safety` | pass, 142k states | with a timed reader and a connector on one socket, `RegistrationAgrees`, `PendingCountMatches`, `ResumedExactlyOnce` (no lost and no double wake-up) and `ReadyWaitReturns` (a waiter whose fd is ready returns, unless the `hookio_assert` abort stops the process first) |
| `hookio_close_safety` | pass, 70k states | `ResumedExactlyOnce` with a `close()` and a `socket()` that reuses the number |
| `hookio_assert` | violation | `idle()` triggers an event that another worker's timeout cancelled after `epoll_wait` returned, and `ASSERT(events & event)` in `triggerEvent` fails |
| `hookio_timeout` | violation | the condition timer fires between `addConditionTimer` and `addEvent`; the read then waits with no timer, and `TimedWaitEnds` fails |
| `hookio_reuse` | violation | a read woken by `close()` retries on the number and reads the new socket that `socket()` put there |
| `hookio_close_race` | violation | a reader woken by `cancelAll` registers again before `close_f`, which drops the kernel registration, so the reader is never resumed |
| `duration_overflow` | violation | the reported initial state shows all four wrong conversions at once: `(int)next_timeout` escapes the 3000 ms clamp as a negative timeout, `sleep`'s `seconds * 1000` wraps in `unsigned int`, `nanosleep`'s `int` wraps, and a zero `SO_RCVTIMEO` becomes a 0 ms timer where the kernel means no timeout |
| `idle_wakeup` | pass, 657k states | `NoLostWakeup`: while every idle thread waits in `epoll_wait`, one of them waits for a deadline no later than the earliest timer, or a tickle byte is unread or about to be written. `m_tickled` drops the tickles of later fronts until a `getNextTimer` clears it, and `tickle()` is dropped while no thread is idle; neither loses a wake-up. Side by side, `UrlRoundTrip` (decoding an encoded string gives it back, with and without `space_as_plus`) and `TrimMatchesReference` (`Trim` and `TrimLeft` equal their reference definitions) |
| `hookfd_ioctl` | violation | `socket()` then `ioctl(FIONBIO, 0)` makes the socket blocking in the kernel, while `do_io` still takes the hooked path, whose real call now blocks the worker thread |

Every property of a passing run has a mutant in `PROJECT.json`: a plausible bug in a mapped
definition that TLC finds. The violation runs are described as findings there.

## 5. Bounds and why they are enough

* **Scheduler.** The model has two threads, two fibers and one callback, with three
  `schedule()` calls from the main thread. Two threads are the fewest for every race in
  `run()`: the EXEC window, affinity and the early exit. In `sched_dispatch` one of them is the
  `use_caller` thread (as in `IOManager iom(2)` of the tests), so tasks can be pinned to a
  thread that only runs once `stop()` calls its root fiber, and `stop()` can both enter and
  skip the root fiber; `sched_stop_switchto` spawns both.
  * `sched_dispatch` allows one yield per fiber and per callback (READY, parked, or, for a
    fiber, `switchTo`). That is enough for a re-queue that races
    with the thread that has to mark the fiber HOLD. It is also the bound under which
    `switchTo` cannot target a worker that has already left.
  * `sched_stop_switchto` allows two yields, which is what the hang needs.
* **HookIO.** The model has two workers, two fibers, one or two sockets, two waits per call
  (a retry and a second timer) and at most two peer events (both directions, or data followed
  by a hang-up).
  * One socket shared by a reader and a writer (or a connector) exercises `EPOLL_CTL_MOD` and
    the partial re-arm.
  * The close runs have one closer, plus one reopener that gets the lowest free number.
  * On the shared socket the `hookio_assert` abort can stop every behaviour, so
    `ReadyWaitReturns` counts an abort as an end; `hookio_timeout` uses separate sockets.
* **TimerManager.** The model has two timers, addresses that can compare either way, a clock
  from 2 to 5, an hour scaled to 1 ms (so a rollover is reachable), and periods 0..2 (zero,
  equal deadlines and recurring timers).
* **HookFdCtx.** Two fd numbers allow a socket beside a file, and the reuse of a number.
* **IdleWakeup.** The model has two idle threads (symmetric), two timers, a clock from 2 to 3 and periods 0..1.
  Two threads are what is needed for one thread to clear `m_tickled` while the other waits on an older deadline.
  At most two `addTimer` calls may be between their unlock and their `tickle()`.
* **StringUtil.** Every string of up to 4 bytes over {space, `%`, `+`, `1`, `=`, `F`, 200}.
  That alphabet holds each byte `UrlDecode` treats specially, hex digits (so a literal `%1F`
  occurs in the input), an unreserved byte and a byte above 127. Four bytes hold an escape
  with one byte around it, and an escape cut off at the end. The delimiter sets are a space,
  and a space with `+`.

## 6. Fairness

* Each worker has weak fairness on all its steps: it is an OS thread that keeps running.
* The main thread's `start()` and its way through `stop()` are weakly fair: every program of
  the repository calls `stop()` at the end of main (explicitly, or through `~IOManager`). No
  `schedule()` call is forced.
* In HookIO each armed timer becomes due under weak fairness, because time passes.
* No fairness is assumed for peers: data need never arrive. That is why `TimedWaitEnds` is
  about timed waits only, and `ReadyWaitReturns` starts from a ready fd.

## 7. Not modelled, and why

* `stop()` called from a thread other than the `use_caller` thread (or, without it, from a
  worker) aborts on `ASSERT(GetThis() == this)`; only the main thread calls `stop()`. The
  unlocked read of `m_tasks` in `stopping()` is taken as one atomic step.
* `IdleWakeup` lets the clock only advance. After the wall clock is set back, `Timer::refresh`
  and the re-arming in `listExpiredCb`, which insert without `addTimer` and so never tickle,
  can put a timer before the deadline an idle thread waits for. That thread then oversleeps by
  up to the 3000 ms clamp; with a set-back step, `NoLostWakeup` fails in exactly this way.
  `TimerManager`'s own run covers the clock going back.
* The retry of `epoll_wait` after `EINTR` reuses the old timeout. A waiting thread may keep
  waiting at any step anyway, so this adds only latency. `idle()`'s exit through `stopping()` is
  modelled in `HookIO`, not in `IdleWakeup`.
* The other scheduler modules leave `tickle` out: there it only shortens waits, and no step
  depends on it.
* In `HookIO`, `epoll_ctl` fails only on a closed fd (`EBADF`, `CtlOk`). The `ENOENT` that
  `MOD` or `DEL` returns for a number closed and reopened without the hook is not modelled.
  On failure the code keeps `m_pendingEventCount` as it is whatever the errno, so the count
  properties are not affected.
* `delEvent` is never called by the library. `addEvent` with a callback, `contextResize` and
  `Fiber`'s stacks are left out: they are memory management with no
  interleaving.
* `fcntl(F_GETFL)` changes no state; it reports `userNonblock` for a hooked socket. The
  property worth checking of it (a query reports the mode the user last asked for) needs a
  passing run of `HookFdCtx`, and every run slot of the project is taken; `HookFdCtx`'s one
  run is the `hookfd_ioctl` violation. The pass-through `fcntl` commands are not modelled.
* `StringUtil::TrimRight` returns `str.substr(0, end)`, where `end` is the index of the last
  byte to keep, so it drops that byte (`TrimRight("ab ")` is `"a"`). `Trim` uses
  `end - begin + 1` and is right. No run states this, and the library never calls it.
* `uri_chars` marks `=` unreserved, although the comment above `UrlEncode` does not list it.
  This is harmless to the round trip.
* The wide-string conversions, time formatting and the file and backtrace helpers of `util.cc`
  are libc and I/O wrappers. `endian.hpp` only picks `bswap_16/32/64` by byte order.
  `singleton.h` returns a function-local static, whose initialisation C++11 makes thread-safe.
* Config and Log are formatting and I/O outside the runtime core that spec.md describes, and
  are not modelled. Reading them for this project found these defects, which no run states:
  * `LogDefine::operator==` (`log.cc:667`) compares `appenders == appenders`, its own member,
    so a reload that changes only a logger's appenders is taken as no change and ignored.
  * `ListAllMember` (`config.cc:29`) accepts key characters from a set that lists `0`..`8`
    but not `9`, so a key with a 9 is rejected as invalid together with its subtree.
  * `FileLogAppender::log` (`log.cc:435`) reopens the file every 3 s with
    `m_filestream.open(m_filename)`, whose default mode truncates, and does it outside the
    appender's `m_mutex`.
  * `Logger::clearAppenders` and `Logger::setFormatter` (`log.cc:519-534`) change
    `m_appenders` and the appenders' formatters without `m_mutex`, which `Logger::log` holds
    while iterating them; the config listener calls them on a reload (listed as a hazard).
  * `LogFormatter::init` (`log.cc:246-250`) appends `%` for `%%` but does not skip the second
    `%`, which then starts a specifier: `"100%%"` is a pattern error and `"%%m"` is a `%`
    followed by the message.
  * `LogAppender::setFormatter(nullptr)` leaves `m_formatter` null, and the appender's next
    `log()` dereferences it unless its logger's `setFormatter` assigns one first.
* `timer_info::cancelled` is read and written as atomic steps. A torn `int` does not occur on
  the targets.
* `Scheduler::run` re-queues a READY fiber with no affinity (line 225). spec.md's promise that
  a pinned task runs only on its thread is about the task as scheduled. No run claims more, and
  the model re-queues it exactly as the code does.
