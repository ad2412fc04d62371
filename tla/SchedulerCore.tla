--------------------------- MODULE SchedulerCore ---------------------------
(***************************************************************************)
(* The dispatch loop of HPS::Scheduler (src/src/scheduler.cc).             *)
(*                                                                         *)
(* Every worker thread runs Scheduler::run: under m_mutex it takes the     *)
(* first task of m_tasks whose affinity allows this thread and whose fiber *)
(* is not EXEC, bumps m_activeThreadCount, and switches into the fiber (or *)
(* a task fiber wrapping the callback); when nothing can be taken it       *)
(* switches into its idle fiber, and leaves the loop once that idle fiber  *)
(* is TERM.  After a fiber switches back, the thread decrements            *)
(* m_activeThreadCount and only then re-queues a READY fiber or marks a    *)
(* live one HOLD.                                                          *)
(*                                                                         *)
(* What a fiber, a callback or the idle fiber does while it runs is left   *)
(* open: the modules that extend this one supply those bodies.  A body     *)
(* ends by setting the thread's pc to "post" (fiber), "cbret" (callback)   *)
(* or "loop" (idle fiber).                                                 *)
(*                                                                         *)
(* A callback runs in the thread's task fiber, whose state is fstate[c]:  *)
(* a callback name stands for one std::function handed to schedule().  A *)
(* callback that yields leaves its task fiber to the scheduler, which      *)
(* queues it as a fiber task (fib) under the callback's name.              *)
(***************************************************************************)
EXTENDS Naturals, Sequences, SequencesExt, FiniteSets

CONSTANTS
  Threads,    \* the worker threads created by Scheduler::start
  Fibers,     \* fibers that are scheduled as tasks (Fiber::ptr)
  Callbacks,  \* callbacks that are scheduled as tasks (std::function)
  AnyThread,  \* the thread id -1: the task may run on any thread
  None        \* no unit: the thread is not running a task

ASSUME AnyThread \notin Threads
ASSUME None \notin Fibers \cup Callbacks

VARIABLES
  m_tasks,              \* the task queue: a sequence of Task
  fstate,               \* Fiber::m_state of each fiber, and of each callback's task fiber
  m_activeThreadCount,  \* threads between taking a task and returning from it
  ctl,                  \* per worker: its place in run() and the unit it runs
  idleTerm,             \* per worker: idle_fiber->getState() == TERM
  m_stopping,
  m_autoStop

schedVars == <<m_tasks, fstate, m_activeThreadCount, ctl, idleTerm,
               m_stopping, m_autoStop>>

Units       == Fibers \cup Callbacks
(* Scheduler::FiberAndThread: a fiber (fib) or a callback, and a thread.   *)
Task        == [u : Units, thr : Threads \cup {AnyThread}, fib : BOOLEAN]
FiberStates == {"INIT", "HOLD", "EXEC", "TERM", "READY", "EXCEPT"}
Dead        == {"TERM", "EXCEPT"}
(* "new": thread not started; "loop": at the top of the while(true) of     *)
(* run(); "fiber"/"cb"/"idle": inside call() of that fiber; "post": the     *)
(* fiber switched back, the count is not yet decremented; "requeue": the   *)
(* count is decremented, the READY/HOLD handling of a fiber or of a task   *)
(* fiber that yielded is not yet done; "cbret": the callback's task fiber *)
(* switched back; "exit": run() has returned.                              *)
(* "cb2": a callback body between two of its steps.                        *)
Pcs == {"new", "loop", "fiber", "post", "requeue", "cb", "cb2", "cbret", "idle",
        "exit"}

SchedTypeOK ==
  /\ m_tasks \in Seq(Task)
  /\ fstate \in [Units -> FiberStates]
  /\ m_activeThreadCount \in Nat
  /\ ctl \in [Threads -> [pc : Pcs, u : Units \cup {None}]]
  /\ idleTerm \in [Threads -> BOOLEAN]
  /\ m_stopping \in BOOLEAN
  /\ m_autoStop \in BOOLEAN

SchedInit ==
  /\ m_tasks = <<>>
  /\ fstate = [u \in Units |-> "INIT"]
  /\ m_activeThreadCount = 0
  /\ ctl = [t \in Threads |-> [pc |-> "new", u |-> None]]
  /\ idleTerm = [t \in Threads |-> FALSE]
  /\ m_stopping = TRUE          \* start() refuses to run unless m_stopping
  /\ m_autoStop = FALSE

(* Scheduler::schedule / scheduleNoLock: append the task at the tail.      *)
(* The tickle it may issue only wakes a waiting thread (see README).       *)
Schedule(u, thr) == m_tasks' = Append(m_tasks, [u |-> u, thr |-> thr, fib |-> u \in Fibers])

(* schedule(fiber) of a fiber that may be a callback's task fiber.         *)
ScheduleFiber(u, thr) == m_tasks' = Append(m_tasks, [u |-> u, thr |-> thr, fib |-> TRUE])

(* Scheduler::stopping                                                     *)
Stopping ==
  m_autoStop /\ m_stopping /\ m_tasks = <<>> /\ m_activeThreadCount = 0

(* Mutants of the scan test: the EXEC test dropped, and the -1 clause of  *)
(* the affinity test dropped.                                              *)
RunnableNoExecTest(t, task) == task.thr \in {AnyThread, t}
RunnableOwnThreadOnly(t, task) ==
  /\ task.thr = t
  /\ ~(task.fib /\ fstate[task.u] = "EXEC")

(* The test of the scan in run(): affinity matches and the fiber is not    *)
(* still executing on the thread that is about to mark it HOLD.            *)
Runnable(t, task) ==
  /\ task.thr \in {AnyThread, t}
  /\ ~(task.fib /\ fstate[task.u] = "EXEC")

(* Index of the task the scan of thread t takes, 0 if none.                *)
FirstRunnable(t) == SelectInSeq(m_tasks, LAMBDA task : Runnable(t, task))

Running(t, f) == ctl[t].pc = "fiber" /\ ctl[t].u = f
InQueue(u)    == \E i \in 1..Len(m_tasks) : m_tasks[i].u = u

SetPc(t, pc, u) == ctl' = [ctl EXCEPT ![t] = [pc |-> pc, u |-> u]]

(* Fiber::call: the fiber becomes the thread's current fiber, EXEC, and   *)
(* the thread switches into its context.                                   *)
Call(t, f) ==
  /\ fstate' = [fstate EXCEPT ![f] = "EXEC"]
  /\ SetPc(t, "fiber", f)

(* Thread::Thread and Thread::run: each new thread runs Scheduler::run.    *)
ThreadsRunning == [t \in Threads |-> [pc |-> "loop", u |-> None]]

(* The prologue of Scheduler::run: each worker enables hooking and        *)
(* creates its own idle fiber, which is not TERM.                          *)
FreshIdleFibers == [t \in Threads |-> FALSE]

(* Thread::join returns once the thread's function, run(), has returned.  *)
Joined(t) == ctl[t].pc = "exit"

(* The scan takes a fiber that is not TERM/EXCEPT and call()s into it.     *)
RunFiber(t) ==
  LET i == FirstRunnable(t) IN
  /\ ctl[t].pc = "loop"
  /\ i # 0
  /\ m_tasks[i].fib
  /\ fstate[m_tasks[i].u] \notin Dead
  /\ m_tasks' = RemoveAt(m_tasks, i)
  /\ m_activeThreadCount' = m_activeThreadCount + 1
  /\ Call(t, m_tasks[i].u)
  /\ UNCHANGED <<idleTerm, m_stopping, m_autoStop>>

(* The scan takes a callback: task_fiber->reset(cb) (the thread's task    *)
(* fiber is INIT whenever the thread holds one) or a new Fiber(cb), and    *)
(* call(), which makes it EXEC.                                            *)
RunCallback(t) ==
  LET i == FirstRunnable(t) IN
  /\ ctl[t].pc = "loop"
  /\ i # 0
  /\ ~m_tasks[i].fib
  /\ m_tasks' = RemoveAt(m_tasks, i)
  /\ m_activeThreadCount' = m_activeThreadCount + 1
  /\ fstate' = [fstate EXCEPT ![m_tasks[i].u] = "EXEC"]
  /\ SetPc(t, "cb", m_tasks[i].u)
  /\ UNCHANGED <<idleTerm, m_stopping, m_autoStop>>

(* Mutant: the continue branch decrements a count the scan never bumped.  *)
DropFinishedUnbalanced(t) ==
  LET i == FirstRunnable(t) IN
  /\ ctl[t].pc = "loop"
  /\ i # 0
  /\ m_tasks[i].fib
  /\ fstate[m_tasks[i].u] \in Dead
  /\ m_tasks' = RemoveAt(m_tasks, i)
  /\ m_activeThreadCount' = m_activeThreadCount - 1
  /\ UNCHANGED <<fstate, ctl, idleTerm, m_stopping, m_autoStop>>

(* The scan takes a fiber that already ended: the is_active branch undoes  *)
(* the increment and continues the loop.                                   *)
DropFinished(t) ==
  LET i == FirstRunnable(t) IN
  /\ ctl[t].pc = "loop"
  /\ i # 0
  /\ m_tasks[i].fib
  /\ fstate[m_tasks[i].u] \in Dead
  /\ m_tasks' = RemoveAt(m_tasks, i)
  /\ UNCHANGED <<fstate, m_activeThreadCount, ctl, idleTerm, m_stopping, m_autoStop>>

(* Nothing to take and the idle fiber is alive: call() the idle fiber.     *)
CallIdle(t) ==
  /\ ctl[t].pc = "loop"
  /\ FirstRunnable(t) = 0
  /\ ~idleTerm[t]
  /\ SetPc(t, "idle", None)
  /\ UNCHANGED <<m_tasks, fstate, m_activeThreadCount, idleTerm, m_stopping, m_autoStop>>

(* Nothing to take and the idle fiber is TERM: run() breaks out.           *)
ExitRun(t) ==
  /\ ctl[t].pc = "loop"
  /\ FirstRunnable(t) = 0
  /\ idleTerm[t]
  /\ SetPc(t, "exit", None)
  /\ UNCHANGED <<m_tasks, fstate, m_activeThreadCount, idleTerm, m_stopping, m_autoStop>>

(* Mutant: the decrement after call() is missing.                         *)
FiberReturnedNoDecrement(t) ==
  /\ ctl[t].pc = "post"
  /\ SetPc(t, "requeue", ctl[t].u)
  /\ UNCHANGED <<m_tasks, fstate, m_activeThreadCount, idleTerm, m_stopping, m_autoStop>>

(* After task.fiber->call() returns: --m_activeThreadCount.                *)
FiberReturned(t) ==
  /\ ctl[t].pc = "post"
  /\ m_activeThreadCount' = m_activeThreadCount - 1
  /\ SetPc(t, "requeue", ctl[t].u)
  /\ UNCHANGED <<m_tasks, fstate, idleTerm, m_stopping, m_autoStop>>

(* A fiber that yielded READY is scheduled again, with no affinity.        *)
RequeueReady(t) ==
  /\ ctl[t].pc = "requeue"
  /\ fstate[ctl[t].u] = "READY"
  /\ ScheduleFiber(ctl[t].u, AnyThread)
  /\ SetPc(t, "loop", None)
  /\ UNCHANGED <<fstate, m_activeThreadCount, idleTerm, m_stopping, m_autoStop>>

(* Mutant: a returned fiber that is not READY is marked HOLD even when it  *)
(* is TERM or EXCEPT.                                                      *)
HoldOrReleaseNoDeadTest(t) ==
  /\ ctl[t].pc = "requeue"
  /\ fstate[ctl[t].u] # "READY"
  /\ fstate' = [fstate EXCEPT ![ctl[t].u] = "HOLD"]
  /\ SetPc(t, "loop", None)
  /\ UNCHANGED <<m_tasks, m_activeThreadCount, idleTerm, m_stopping, m_autoStop>>

(* Any other fiber is marked HOLD unless it is TERM or EXCEPT.             *)
HoldOrRelease(t) ==
  /\ ctl[t].pc = "requeue"
  /\ fstate[ctl[t].u] # "READY"
  /\ fstate' = IF fstate[ctl[t].u] \in Dead THEN fstate
               ELSE [fstate EXCEPT ![ctl[t].u] = "HOLD"]
  /\ SetPc(t, "loop", None)
  /\ UNCHANGED <<m_tasks, m_activeThreadCount, idleTerm, m_stopping, m_autoStop>>

(* Fiber::reset of a task fiber that is TERM, EXCEPT or INIT (its ASSERT): *)
(* the stack is kept and the state is INIT again.                          *)
ResetFiber(c) == fstate' = [fstate EXCEPT ![c] = "INIT"]

(* After task_fiber->call() returns: --m_activeThreadCount; a task fiber  *)
(* that is TERM or EXCEPT is reset(nullptr), INIT again for the next       *)
(* callback.  One that yielded is handled as a returned fiber ("requeue"): *)
(* schedule(task_fiber) when READY, else HOLD, and the thread drops it.    *)
CallbackReturned(t) ==
  /\ ctl[t].pc = "cbret"
  /\ m_activeThreadCount' = m_activeThreadCount - 1
  /\ IF fstate[ctl[t].u] \in Dead
       THEN /\ ResetFiber(ctl[t].u)
            /\ SetPc(t, "loop", None)
       ELSE /\ SetPc(t, "requeue", ctl[t].u)
            /\ UNCHANGED fstate
  /\ UNCHANGED <<m_tasks, idleTerm, m_stopping, m_autoStop>>

(* The steps of run() itself, for one worker.                              *)
RunLoop(t) ==
  \/ RunFiber(t) \/ RunCallback(t) \/ DropFinished(t)
  \/ CallIdle(t) \/ ExitRun(t)
  \/ FiberReturned(t) \/ RequeueReady(t) \/ HoldOrRelease(t)
  \/ CallbackReturned(t)

(* Fiber::back() from the running fiber: control returns to run().         *)
Back(t) == SetPc(t, "post", ctl[t].u)

=============================================================================
