----------------------------- MODULE Scheduler -----------------------------
(***************************************************************************)
(* HPS::Scheduler on its own (src/src/scheduler.cc, src/src/fiber.cc): the *)
(* dispatch loop of SchedulerCore, with the base idle(), start(), stop()   *)
(* and the join of the workers by the thread that called stop(), and with  *)
(* fibers whose bodies do what user code does with a fiber:                *)
(* YieldToReady, YieldToHold after handing itself to a waker, switchTo    *)
(* another thread, return (TERM) or throw (EXCEPT).                        *)
(*                                                                         *)
(* m_rootThread is the thread that built the scheduler with use_caller     *)
(* (AnyThread, the id -1, when use_caller is false).  start() spawns the   *)
(* other threads only; the caller's own run() executes in m_rootFiber,     *)
(* which stop() call()s when it finds work left.                           *)
(*                                                                         *)
(* Each thread also carries the fiber layer of fiber.cc: t_fiber, and the  *)
(* execution point saved in the context of its main fiber (t_threadFiber)  *)
(* and of the root fiber by the swapcontext of Fiber::call.                *)
(***************************************************************************)
EXTENDS SchedulerCore

CONSTANTS
  m_rootThread,   \* the use_caller thread, or AnyThread
  SwitchTargets,  \* threads a fiber may name in Scheduler::switchTo
  MaxYields,      \* bound: yields one fiber makes before it returns
  MaxMainCalls    \* bound: schedule() calls made by the main thread

ASSUME m_rootThread \in Threads \cup {AnyThread}
ASSUME SwitchTargets \subseteq Threads
ASSUME MaxYields \in Nat /\ MaxMainCalls \in Nat

VARIABLES
  parked,     \* fibers (and task fibers) that yielded to HOLD and wait for their waker
  yields,     \* yields made by each fiber (and callback) so far
  mainPc,     \* the main thread, see MainPcs
  mainCalls,  \* schedule() calls made by the main thread so far
  t_fiber,    \* per thread: Fiber::t_fiber, the fiber GetThis() returns
  m_ctx       \* per thread: the point saved in the main and root fibers' m_ctx

vars == <<schedVars, parked, yields, mainPc, mainCalls, t_fiber, m_ctx>>

(* "stopping": stop() has set m_autoStop and m_stopping; "root": it is     *)
(* inside m_rootFiber->call(); "joining": it joins the spawned threads.    *)
MainPcs == {"init", "started", "stopping", "root", "joining", "joined"}

(* The fibers of a thread: its main fiber, the root fiber, the idle fiber *)
(* and the task fiber of run(), and the scheduled fibers.                  *)
FiberNames == {"none", "main", "root", "idle", "task"} \cup Units
(* Where a saved context resumes: nowhere yet, in run() after a call(), or *)
(* in stop() after m_rootFiber->call().                                    *)
Points == {"none", "run", "stop"}

TypeOK ==
  /\ SchedTypeOK
  /\ parked \subseteq Units
  /\ yields \in [Units -> 0..MaxYields]
  /\ mainPc \in MainPcs
  /\ mainCalls \in 0..MaxMainCalls
  /\ t_fiber \in [Threads -> FiberNames]
  /\ m_ctx \in [Threads -> [{"main", "root"} -> Points]]

(* Scheduler::Scheduler with use_caller: Fiber::GetThis() creates the      *)
(* caller's main fiber, which becomes t_fiber.                             *)
Init ==
  /\ SchedInit
  /\ parked = {}
  /\ yields = [u \in Units |-> 0]
  /\ mainPc = "init"
  /\ mainCalls = 0
  /\ t_fiber = [t \in Threads |-> IF t = m_rootThread THEN "main" ELSE "none"]
  /\ m_ctx = [t \in Threads |-> [h \in {"main", "root"} |-> "none"]]

envVars == <<parked, yields, mainPc, mainCalls>>
ctxVars == <<t_fiber, m_ctx>>

Busy(f) == InQueue(f) \/ f \in parked \/ \E t \in Threads : ctl[t].u = f

(* The threads start() creates.                                            *)
Spawned == Threads \ {m_rootThread}

-----------------------------------------------------------------------------
(* The fiber layer (fiber.cc).                                             *)

(* Scheduler::GetMainFiber, t_scheduler_fiber: the root fiber on the       *)
(* use_caller thread, the thread's main fiber on every other thread.       *)
SchedFiber(t) == IF t = m_rootThread THEN "root" ELSE "main"

(* Fiber::call of fiber f with m_joinSchedule = join, made at point at:    *)
(* SetThis(f), and swapcontext saves the caller in GetMainFiber()->m_ctx   *)
(* or in t_threadFiber->m_ctx.                                             *)
FiberCall(t, f, join, at) ==
  /\ t_fiber' = [t_fiber EXCEPT ![t] = f]
  /\ m_ctx' = [m_ctx EXCEPT ![t][IF join THEN SchedFiber(t) ELSE "main"] = at]

(* Fiber::back: SetThis(GetMainFiber()) or SetThis(t_threadFiber), and     *)
(* swapcontext resumes that fiber's saved context.                         *)
FiberBack(t, join) ==
  /\ t_fiber' = [t_fiber EXCEPT ![t] = IF join THEN SchedFiber(t) ELSE "main"]
  /\ UNCHANGED m_ctx

(* Mutant: run() calls a scheduled fiber with the m_joinSchedule it was    *)
(* built with (false by default), without setUseCaller(true).              *)
JoinAsBuilt(u) == u \notin Fibers

(* m_joinSchedule of what run() call()s: setUseCaller(true) for a task's   *)
(* fiber, and join_schedule true for the task fiber and the idle fiber.    *)
RunJoins(u) == TRUE

SwitchedPcs == {"fiber", "cb", "idle"}

(* The fiber thread t is inside, by its place in run().                    *)
UnitFiber(c) == CASE c.pc = "fiber" -> c.u
                  [] c.pc \in {"cb", "cb2"} -> "task"
                  [] OTHER -> "idle"

(* The call() and back() that a step of thread t makes, read off its move  *)
(* into or out of a fiber.                                                 *)
FiberSwitch(t) ==
  LET old == ctl[t]
      new == ctl'[t]
  IN CASE old.pc = "loop" /\ new.pc \in SwitchedPcs ->
            FiberCall(t, UnitFiber(new), RunJoins(new.u), "run")
       [] old.pc \in SwitchedPcs /\ new.pc \notin SwitchedPcs ->
            FiberBack(t, RunJoins(old.u))
       [] OTHER -> UNCHANGED ctxVars

-----------------------------------------------------------------------------
(* The main thread.                                                        *)

(* sc.schedule(unit, thread): the main thread hands over a fiber it holds  *)
(* that is not in use (new, or already finished), or a callback (a name   *)
(* not in use: a callback name stands for one scheduled std::function).   *)
MainSchedule(u, thr) ==
  /\ mainPc \in {"init", "started"}
  /\ mainCalls < MaxMainCalls
  /\ ~Busy(u)
  /\ u \in Fibers => fstate[u] \in {"INIT"} \cup Dead
  /\ Schedule(u, thr)
  /\ mainCalls' = mainCalls + 1
  /\ UNCHANGED <<fstate, m_activeThreadCount, ctl, idleTerm, m_stopping,
                 m_autoStop, parked, yields, mainPc, ctxVars>>

(* Scheduler::start: clears m_stopping and spawns the other threads, each  *)
(* of which makes its main fiber in Fiber::GetThis() at the top of run(). *)
Start ==
  /\ mainPc = "init"
  /\ m_stopping
  /\ m_stopping' = FALSE
  /\ ctl' = [t \in Threads |-> IF t \in Spawned THEN ThreadsRunning[t] ELSE ctl[t]]
  /\ idleTerm' = FreshIdleFibers
  /\ t_fiber' = [t \in Threads |-> IF t \in Spawned THEN "main" ELSE t_fiber[t]]
  /\ mainPc' = "started"
  /\ UNCHANGED <<m_tasks, fstate, m_activeThreadCount, m_autoStop,
                 parked, yields, mainCalls, m_ctx>>

(* Scheduler::stop up to the tickles: m_autoStop and m_stopping are set.   *)
(* (The first test of stop(), for m_threadCount = 0 and a root fiber that *)
(* is INIT, sets the same flags and returns if stopping() holds, which    *)
(* ends the same way as the path below.)                                   *)
Stop ==
  /\ mainPc = "started"
  /\ m_autoStop' = TRUE
  /\ m_stopping' = TRUE
  /\ mainPc' = "stopping"
  /\ UNCHANGED <<m_tasks, fstate, m_activeThreadCount, ctl, idleTerm,
                 parked, yields, mainCalls, ctxVars>>

(* if (!stopping()) m_rootFiber->call(): the caller enters its own run(),  *)
(* saving stop()'s frame in its main fiber (the root fiber does not join). *)
RootCall ==
  /\ mainPc = "stopping"
  /\ m_rootThread # AnyThread
  /\ ~Stopping
  /\ ctl' = [ctl EXCEPT ![m_rootThread] = [pc |-> "loop", u |-> None]]
  /\ FiberCall(m_rootThread, "root", FALSE, "stop")
  /\ mainPc' = "root"
  /\ UNCHANGED <<m_tasks, fstate, m_activeThreadCount, idleTerm, m_stopping,
                 m_autoStop, parked, yields, mainCalls>>

(* No root fiber, or stopping() already holds: straight to the join.       *)
SkipRoot ==
  /\ mainPc = "stopping"
  /\ m_rootThread = AnyThread \/ Stopping
  /\ mainPc' = "joining"
  /\ UNCHANGED <<schedVars, parked, yields, mainCalls, ctxVars>>

(* Fiber::MainFunc of the root fiber after run() returned: TERM, back().   *)
RootReturns ==
  /\ mainPc = "root"
  /\ Joined(m_rootThread)
  /\ FiberBack(m_rootThread, FALSE)
  /\ mainPc' = "joining"
  /\ UNCHANGED <<schedVars, parked, yields, mainCalls>>

(* The join loop at the end of stop() returns once every spawned thread's *)
(* run() returned.                                                         *)
Join ==
  /\ mainPc = "joining"
  /\ \A t \in Spawned : Joined(t)
  /\ mainPc' = "joined"
  /\ UNCHANGED <<schedVars, parked, yields, mainCalls, ctxVars>>

-----------------------------------------------------------------------------
(* Bodies of the fiber running on thread t.                                *)

CanYield(f) == yields[f] < MaxYields

(* Fiber::YieldToReady: state READY, then back().                          *)
YieldToReady(t) ==
  LET f == ctl[t].u IN
  /\ ctl[t].pc = "fiber"
  /\ CanYield(f)
  /\ fstate' = [fstate EXCEPT ![f] = "READY"]
  /\ yields' = [yields EXCEPT ![f] = @ + 1]
  /\ Back(t)
  /\ UNCHANGED <<m_tasks, m_activeThreadCount, idleTerm, m_stopping,
                 m_autoStop, parked, mainPc, mainCalls>>

(* The fiber hands itself to a waker (an event, a timer, another fiber)    *)
(* and calls Fiber::YieldToHold, which leaves the state EXEC.              *)
YieldToHold(t) ==
  LET f == ctl[t].u IN
  /\ ctl[t].pc = "fiber"
  /\ CanYield(f)
  /\ parked' = parked \cup {f}
  /\ yields' = [yields EXCEPT ![f] = @ + 1]
  /\ Back(t)
  /\ UNCHANGED <<m_tasks, fstate, m_activeThreadCount, idleTerm, m_stopping,
                 m_autoStop, mainPc, mainCalls>>

(* Scheduler::switchTo(thread) for another thread: schedule(this fiber,    *)
(* thread), then YieldToHold.  (switchTo to -1 or to the current thread   *)
(* returns at once and is no step.)                                        *)
SwitchTo(t, target) ==
  LET f == ctl[t].u IN
  /\ ctl[t].pc = "fiber"
  /\ CanYield(f)
  /\ target # t
  /\ Schedule(f, target)
  /\ yields' = [yields EXCEPT ![f] = @ + 1]
  /\ Back(t)
  /\ UNCHANGED <<fstate, m_activeThreadCount, idleTerm, m_stopping,
                 m_autoStop, parked, mainPc, mainCalls>>

(* Fiber::MainFunc: the callback returns (TERM) or throws (EXCEPT), the    *)
(* fiber drops its own reference and calls back().                         *)
FiberEnds(t) ==
  /\ ctl[t].pc = "fiber"
  /\ \E end \in Dead : fstate' = [fstate EXCEPT ![ctl[t].u] = end]
  /\ Back(t)
  /\ UNCHANGED <<m_tasks, m_activeThreadCount, idleTerm, m_stopping,
                 m_autoStop, envVars>>

(* A callback task runs to its end in its task fiber (MainFunc: TERM or    *)
(* EXCEPT) and switches back.                                              *)
CallbackBody(t) ==
  /\ ctl[t].pc = "cb"
  /\ \E end \in Dead : fstate' = [fstate EXCEPT ![ctl[t].u] = end]
  /\ SetPc(t, "cbret", ctl[t].u)
  /\ UNCHANGED <<m_tasks, m_activeThreadCount, idleTerm, m_stopping,
                 m_autoStop, envVars>>

(* The callback calls Fiber::YieldToReady in its task fiber.               *)
CallbackYieldToReady(t) ==
  LET c == ctl[t].u IN
  /\ ctl[t].pc = "cb"
  /\ CanYield(c)
  /\ fstate' = [fstate EXCEPT ![c] = "READY"]
  /\ yields' = [yields EXCEPT ![c] = @ + 1]
  /\ SetPc(t, "cbret", c)
  /\ UNCHANGED <<m_tasks, m_activeThreadCount, idleTerm, m_stopping,
                 m_autoStop, parked, mainPc, mainCalls>>

(* The callback hands its task fiber (Fiber::GetThis()) to a waker and     *)
(* calls Fiber::YieldToHold, which leaves the state EXEC.                  *)
CallbackYieldToHold(t) ==
  LET c == ctl[t].u IN
  /\ ctl[t].pc = "cb"
  /\ CanYield(c)
  /\ parked' = parked \cup {c}
  /\ yields' = [yields EXCEPT ![c] = @ + 1]
  /\ SetPc(t, "cbret", c)
  /\ UNCHANGED <<m_tasks, fstate, m_activeThreadCount, idleTerm, m_stopping,
                 m_autoStop, mainPc, mainCalls>>

(* Code running on thread t (a fiber or a callback) wakes a parked fiber: *)
(* schedule(fiber) with thread -1.  It keeps running afterwards.           *)
Wake(t, f) ==
  /\ ctl[t].pc \in {"fiber", "cb"}
  /\ f \in parked
  /\ ScheduleFiber(f, AnyThread)
  /\ parked' = parked \ {f}
  /\ UNCHANGED <<fstate, m_activeThreadCount, ctl, idleTerm, m_stopping,
                 m_autoStop, yields, mainPc, mainCalls>>

-----------------------------------------------------------------------------
(* Scheduler::idle, one pass per call() of the idle fiber: it returns when *)
(* stopping() holds (the idle fiber becomes TERM) and otherwise yields to  *)
(* HOLD.                                                                    *)

IdleYield(t) ==
  /\ ctl[t].pc = "idle"
  /\ ~Stopping
  /\ SetPc(t, "loop", None)
  /\ UNCHANGED <<m_tasks, fstate, m_activeThreadCount, idleTerm, m_stopping,
                 m_autoStop, envVars>>

IdleEnds(t) ==
  /\ ctl[t].pc = "idle"
  /\ Stopping
  /\ idleTerm' = [idleTerm EXCEPT ![t] = TRUE]
  /\ SetPc(t, "loop", None)
  /\ UNCHANGED <<m_tasks, fstate, m_activeThreadCount, m_stopping,
                 m_autoStop, envVars>>

-----------------------------------------------------------------------------

Worker(t) ==
  /\ \/ RunLoop(t) /\ UNCHANGED envVars
     \/ YieldToReady(t) \/ YieldToHold(t) \/ FiberEnds(t) \/ CallbackBody(t)
     \/ CallbackYieldToReady(t) \/ CallbackYieldToHold(t)
     \/ \E target \in SwitchTargets : SwitchTo(t, target)
     \/ \E f \in Units : Wake(t, f)
     \/ IdleYield(t) \/ IdleEnds(t)
  /\ FiberSwitch(t)

(* The program ends when stop() has joined every worker.                   *)
Terminated == mainPc = "joined" /\ UNCHANGED vars

(* The main thread's way through stop().                                   *)
MainStop == Stop \/ RootCall \/ SkipRoot \/ RootReturns \/ Join

Next ==
  \/ \E t \in Threads : Worker(t)
  \/ \E u \in Units, thr \in Threads \cup {AnyThread} : MainSchedule(u, thr)
  \/ Start \/ MainStop
  \/ Terminated

(* Workers are OS threads: each keeps running its loop and its fibers.     *)
(* The main thread starts the scheduler and eventually calls stop() (the   *)
(* programs call it at the end of main, ~IOManager calls it), and then     *)
(* goes on through stop().  No particular schedule() or wake is forced.    *)
Fairness ==
  /\ \A t \in Threads : WF_vars(Worker(t))
  /\ WF_vars(Start)
  /\ WF_vars(MainStop)

Spec == Init /\ [][Next]_vars /\ Fairness


-----------------------------------------------------------------------------
(* Refinement of FiberTask.  A fiber's abstract status, read off the       *)
(* scheduler's state in this order: TERM or EXCEPT is dead (a finished     *)
(* fiber that is scheduled again is only dropped by run()); handed to its  *)
(* waker is parked; in the task queue is queued (from the moment switchTo  *)
(* or the waker schedules it, though run() only takes it once it is no     *)
(* longer EXEC); held by a thread that called it and has not yet re-queued *)
(* or released it is running on that thread; anything else is free.       *)

RunningOn(f) == {t \in Threads : ctl[t].u = f /\ ctl[t].pc \in {"fiber", "post", "requeue"}}

AbsStatus(f) ==
  CASE fstate[f] \in Dead     -> "dead"
    [] f \in parked           -> "parked"
    [] InQueue(f)             -> "queued"
    [] RunningOn(f) # {}      -> "running"
    [] OTHER                  -> "free"

AbsRunner(f) ==
  IF AbsStatus(f) = "running" THEN CHOOSE t \in RunningOn(f) : TRUE ELSE None

AbsTask == INSTANCE FiberTask WITH
              NoThread <- None,
              status <- [f \in Fibers |-> AbsStatus(f)],
              runner <- [f \in Fibers |-> AbsRunner(f)]

-----------------------------------------------------------------------------
(* Properties                                                              *)

(* A fiber, or a callback's task fiber, runs on at most one worker at a   *)
(* time, and only in state EXEC: the EXEC test of the scan in run() must   *)
(* keep a fiber that was re-queued by its waker (or by switchTo) away from *)
(* other workers until the thread it yielded on has marked it HOLD.        *)
FiberRunsExclusively ==
  \A f \in Units :
    /\ Cardinality({t \in Threads : Running(t, f)}) <= 1
    /\ (\E t \in Threads : Running(t, f)) => fstate[f] = "EXEC"

(* Every task in the queue, pinned ones included, is eventually taken by a *)
(* thread: the affinity skip of run() never strands a task, and a task     *)
(* pinned to the use_caller thread is taken once stop() enters its run().  *)
EveryTaskRuns == \A u \in Units : InQueue(u) ~> ~InQueue(u)

(* Once the main thread called stop(), stop() returns: every worker's      *)
(* run(), the caller's own included, ends and the spawned ones are joined. *)
StopCompletes == (mainPc = "stopping") ~> (mainPc = "joined")

(* Every back() resumes the frame its call() saved, and GetThis() is the   *)
(* fiber that runs: while a thread is inside a fiber that run() called, t_ *)
(* fiber is that fiber and GetMainFiber()'s context holds run(); back in   *)
(* run(), t_fiber is GetMainFiber(); while the use_caller thread runs its  *)
(* root fiber, its main fiber still holds stop()'s frame, and after it     *)
(* t_fiber is the main fiber again.  A call() or back() that picks the     *)
(* wrong one of t_threadFiber and t_scheduler_fiber breaks this.           *)
BackResumesCaller ==
  \A t \in Threads :
    /\ ctl[t].pc \in SwitchedPcs =>
          /\ t_fiber[t] = UnitFiber(ctl[t])
          /\ m_ctx[t][SchedFiber(t)] = "run"
    /\ ctl[t].pc \notin SwitchedPcs \cup {"new", "exit"} =>
          t_fiber[t] = SchedFiber(t)
    /\ t = m_rootThread /\ mainPc = "root" => m_ctx[t]["main"] = "stop"
    /\ t = m_rootThread /\ mainPc \in {"joining", "joined"} =>
          t_fiber[t] = "main"


(* Every step of the scheduler, its fibers and their wakers moves a fiber  *)
(* only as FiberTask allows: run() takes a fiber only once it was queued   *)
(* and onto a thread that runs no other fiber; a fiber leaves its thread   *)
(* only by yielding, parking or ending; a parked fiber runs again only     *)
(* after its waker scheduled it, and a TERM or EXCEPT fiber never runs or  *)
(* changes again (the is_active test of run() and the TERM/EXCEPT test    *)
(* before it marks a returned fiber HOLD).                                 *)
FiberTaskSpec == AbsTask!Spec

=============================================================================
