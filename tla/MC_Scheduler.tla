---------------------------- MODULE MC_Scheduler ----------------------------
(* Model-checking instance of Scheduler: two threads, two fibers and one   *)
(* callback, given as model values in the .cfg files.                      *)
EXTENDS Scheduler

CONSTANTS t1, t2, f1, f2, c1

MCThreads   == {t1, t2}
MCFibers    == {f1, f2}
MCCallbacks == {c1}

(* use_caller: t1 is the thread that built the scheduler (IOManager(2)    *)
(* with its default use_caller = true); t2 is spawned by start().         *)
MCRootThread == t1
(* use_caller = false: both threads are spawned.                           *)
MCNoRootThread == AnyThread

(* Bounds: three main-thread schedule() calls cover both fibers and the   *)
(* callback, or one of them twice.  Two yields per fiber let a fiber be    *)
(* re-queued READY and then pin itself with switchTo: the stop() hang.     *)
MCMaxYields    == 2
MCMaxMainCalls == 3

(* One yield per fiber: a fiber either yields READY, or parks (HOLD), or   *)
(* calls switchTo, once.  This is the bound under which switchTo cannot    *)
(* target a worker that already left run() (see sched_stop_switchto).     *)
MCOneYield == 1
=============================================================================
