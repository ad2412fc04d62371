----------------------------- MODULE IdleWakeup -----------------------------
(***************************************************************************)
(* The TimerManager of an IOManager and the idle fibers that wait for its  *)
(* timers (src/src/iomanager.cc, src/src/scheduler.cc, src/src/timer.cc). *)
(*                                                                         *)
(* A worker thread with no task counts itself idle (++m_idleThreadCount)  *)
(* and calls its idle fiber.  IOManager::idle asks getNextTimer for the    *)
(* time to the earliest timer -- which clears m_tickled -- and blocks in   *)
(* epoll_wait for that long, at most 3000 ms.  When it returns it takes    *)
(* the expired timers (listExpiredCb) and goes back to Scheduler::run,     *)
(* which uncounts it.  A timer that addTimer puts at the front while       *)
(* m_tickled is clear sets m_tickled and, after the lock is released,     *)
(* calls onTimerInsertedAtFront: tickle() writes a byte to the pipe the    *)
(* idle fibers also wait on, unless no thread is idle.                     *)
(*                                                                         *)
(* The timers are module TimerManager; the threads here only add the idle *)
(* loop around it.  epoll_wait is not timed: a waiting thread may return   *)
(* at any moment (its timeout, a socket event), or keep waiting (a restart *)
(* after EINTR), and returns at once if the pipe has an unread byte.       *)
(* The clock only advances here.  Deadlines are on the wall clock and      *)
(* epoll_wait times a duration: when the clock is set back, Timer::refresh *)
(* and the re-arming in listExpiredCb (which insert without addTimer, so   *)
(* never tickle) can move a timer before the deadline a thread waits for.  *)
(* TimerManager's own run covers the clock going back.                     *)
(***************************************************************************)
EXTENDS TimerManager

CONSTANTS
  IdleThreads,   \* the worker threads of the IOManager
  MaxTickling    \* bound: addTimer calls between unlock and tickle()

VARIABLES
  state,     \* per thread: "run", "idle" (counted), "wait" (epoll_wait), "woken"
  seen,      \* per thread, the deadline of the earliest timer it waits for
  pipe,      \* m_tickleFds has a byte epoll_wait has not reported yet
  tickling   \* addTimer calls that found at_front and have not tickled yet

idleVars == <<state, seen, pipe, tickling>>
allVars  == <<vars, idleVars>>

(* getNextTimer returns ~0ull when there is no timer: wait for no deadline. *)
Never == MaxTime + Max(Periods) + 1

(* The deadline of *m_timers.begin().                                       *)
Earliest == IF m_timers = <<>> THEN Never ELSE m_next[m_timers[1]]

(* Scheduler::hasIdleThreads: m_idleThreadCount > 0.                        *)
HasIdleThreads == \E t \in IdleThreads : state[t] # "run"

IdleInit ==
  /\ Init
  /\ state = [t \in IdleThreads |-> "run"]
  /\ seen = [t \in IdleThreads |-> Never]
  /\ pipe = FALSE
  /\ tickling = 0

-----------------------------------------------------------------------------
(* The timer operations of other fibers.  addTimer and reset(ms) go through *)
(* addTimer(val, lock): at_front is the step that sets m_tickled.           *)

Inserting(op) ==
  /\ op
  /\ tickling' = IF ~m_tickled /\ m_tickled' THEN tickling + 1 ELSE tickling
  /\ tickling' <= MaxTickling
  /\ UNCHANGED <<state, seen, pipe>>

Alone(op) == op /\ UNCHANGED idleVars

(* IOManager::onTimerInsertedAtFront -> IOManager::tickle, after unlock.    *)
OnTimerInsertedAtFront ==
  /\ tickling > 0
  /\ tickling' = tickling - 1
  /\ pipe' = (pipe \/ HasIdleThreads)
  /\ UNCHANGED <<vars, state, seen>>

-----------------------------------------------------------------------------
(* The idle loop of each worker thread.                                    *)

(* Scheduler::run, no task: ++m_idleThreadCount; idle_fiber->call().       *)
EnterIdle(t) ==
  /\ state[t] = "run"
  /\ state' = [state EXCEPT ![t] = "idle"]
  /\ UNCHANGED <<vars, seen, pipe, tickling>>

(* IOManager::idle: stopping(next_timeout) calls getNextTimer, then         *)
(* epoll_wait with the time to the earliest timer.                          *)
Poll(t) ==
  /\ state[t] = "idle"
  /\ GetNextTimer
  /\ seen' = [seen EXCEPT ![t] = Earliest]
  /\ state' = [state EXCEPT ![t] = "wait"]
  /\ UNCHANGED <<pipe, tickling>>

(* epoll_wait reports the pipe: the loop over the events drains it.        *)
WakeOnTickle(t) ==
  /\ state[t] = "wait"
  /\ pipe
  /\ pipe' = FALSE
  /\ state' = [state EXCEPT ![t] = "woken"]
  /\ UNCHANGED <<vars, seen, tickling>>

(* epoll_wait times out, or reports a socket.                              *)
WakeUp(t) ==
  /\ state[t] = "wait"
  /\ state' = [state EXCEPT ![t] = "woken"]
  /\ UNCHANGED <<vars, seen, pipe, tickling>>

(* listExpiredCb, schedule the callbacks, back() to Scheduler::run, which  *)
(* does --m_idleThreadCount.                                               *)
Process(t) ==
  /\ state[t] = "woken"
  /\ ListExpiredCb
  /\ state' = [state EXCEPT ![t] = "run"]
  /\ seen' = [seen EXCEPT ![t] = Never]
  /\ UNCHANGED <<pipe, tickling>>

IdleNext ==
  \/ \E i \in Ids, ms \in Periods, rec \in BOOLEAN : Inserting(AddTimer(i, ms, rec))
  \/ \E i \in Ids, ms \in Periods, fromNow \in BOOLEAN :
       Inserting(Reset(i, ms, fromNow))
  \/ \E i \in Ids : Alone(Cancel(i)) \/ Alone(Refresh(i))
  \/ Alone(GetNextTimer)
  \/ Alone(Tick)
  \/ OnTimerInsertedAtFront
  \/ \E t \in IdleThreads :
       EnterIdle(t) \/ Poll(t) \/ WakeOnTickle(t) \/ WakeUp(t) \/ Process(t)

IdleSpec == IdleInit /\ [][IdleNext]_allVars

-----------------------------------------------------------------------------
(* No lost wake-up (spec.md, onTimerInsertedAtFront): while every idle     *)
(* thread sits in epoll_wait, one of them waits for a deadline no later    *)
(* than the earliest timer, or the pipe will wake one: a tickle byte is    *)
(* unread or an addTimer is about to write it.  m_tickled suppresses the  *)
(* tickles of later timers at the front until some getNextTimer clears it, *)
(* and tickle() writes nothing while m_idleThreadCount is zero.            *)
NoLostWakeup ==
  (\A t \in IdleThreads : state[t] = "wait")
    => \/ pipe
       \/ tickling > 0
       \/ \E t \in IdleThreads : seen[t] <= Earliest

====
