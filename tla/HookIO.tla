------------------------------- MODULE HookIO -------------------------------
(***************************************************************************)
(* The IOManager (src/src/iomanager.cc) running the dispatch loop of       *)
(* SchedulerCore, with fibers that block in the hooked read/write loop    *)
(* do_io (src/src/hook.cc) and the condition timer that bounds their wait. *)
(*                                                                         *)
(* Each fiber f makes one do_io call on fd Wait[f].fd for event           *)
(* Wait[f].ev; the fibers in Timed have a socket timeout.  A fiber of      *)
(* Closers instead calls the hooked close() on that fd and, if it is in    *)
(* Reopeners, then socket(), which gets the lowest free number: the same   *)
(* one.  The fds are sockets made by the hooked socket().  The kernel is   *)
(* the environment: data arrives or the peer hangs up, and the            *)
(* edge-triggered epoll instance reports it to one epoll_wait.             *)
(*                                                                         *)
(* Timers are abstract: an armed timer becomes due at some later time, and *)
(* listExpiredCb in the idle pass hands every due timer's callback to     *)
(* schedule() as a callback task.  A timer callback is the unit            *)
(* <<f, k>>: the timer armed by fiber f for its k-th wait.                 *)
(***************************************************************************)
EXTENDS SchedulerCore

CONSTANTS
  Fds,          \* file descriptors the fibers wait on
  Wait,         \* Wait[f] = [fd |-> ..., ev |-> ...]: what f's do_io waits for
  Timed,        \* fibers whose fd has a timeout (to # (uint64_t)-1)
  MaxWaits,     \* bound: EAGAIN waits one do_io call makes
  MaxArrivals,  \* bound: data arrivals and hang-ups made by the peers
  Closers,      \* fibers that close their fd instead of reading it
  Reopeners,    \* closers that open a socket after the close
  Connectors    \* fibers that call the hooked connect() instead of reading

Ev == {"READ", "WRITE"}

ASSUME Wait \in [Fibers -> [fd : Fds, ev : Ev]]
ASSUME Timed \subseteq Fibers
ASSUME Closers \subseteq Fibers /\ Closers \cap Timed = {} /\ Reopeners \subseteq Closers
ASSUME Connectors \subseteq Fibers \ Closers /\ \A f \in Connectors : Wait[f].ev = "WRITE"
ASSUME Callbacks = Fibers \X (1..MaxWaits)

VARIABLES
  events,               \* FdContext::events of each fd
  ectx,                 \* EventContext fiber of each fd and event, or None
  m_pendingEventCount,
  kint,                 \* kernel: the epoll interest mask of each fd
  avail,                \* kernel: events the socket is ready for
  hup,                  \* kernel: the peer has hung up
  rdy,                  \* kernel: the fd is on the epoll ready list
  arrivals,             \* arrivals and hang-ups so far
  open,                 \* kernel: the fd number refers to an open socket
  gen,                  \* kernel: which socket the number refers to (closes so far)
  managed,              \* FdManager holds an FdCtx for the fd (a socket, not closed)
  armed,                \* timers in TimerManager::m_timers
  due,                  \* armed timers whose deadline has passed
  io,                   \* per fiber: its place in do_io and its wait count
  cancelled,            \* per fiber: timer_info::cancelled of its call
  ist,                  \* per worker: the place of its idle fiber in idle()
  buf,                  \* per worker: what its last epoll_wait returned
  aborted,              \* an ASSERT of the IOManager failed
  mainPc,               \* the main thread: "init", "started", "stopping", "joined"
  scheduled             \* fibers the main thread has scheduled

iomVars    == <<events, ectx, m_pendingEventCount, aborted>>
kernelVars == <<kint, avail, hup, rdy, arrivals, open, gen>>
timerVars  == <<armed, due>>
hookVars   == <<io, cancelled, managed>>
idleVars   == <<ist, buf>>
mainVars   == <<mainPc, scheduled>>
vars == <<schedVars, iomVars, kernelVars, timerVars, hookVars, idleVars, mainVars>>

Kev     == Ev \cup {"HUP"}
ETIMEDOUT == 110   \* errno value stored in timer_info::cancelled
(* "start": before the checks at the top of do_io; a closer's "cancel":    *)
(* before cancelAll, "closef": before close_f, "socket": before socket(). *)
IoPcs   == {"start", "read", "add", "wait", "done", "cancel", "closef", "socket"}
(* "direct": the call went straight to the C library; "EBADF": the fd was *)
(* closed; "error": addEvent failed.                                       *)
Results == {"none", "ok", "ETIMEDOUT", "direct", "EBADF", "error"}

TypeOK ==
  /\ SchedTypeOK
  /\ events \in [Fds -> SUBSET Ev]
  /\ ectx \in [Fds -> [Ev -> Fibers \cup {None}]]
  /\ m_pendingEventCount \in Nat
  /\ kint \in [Fds -> SUBSET Ev]
  /\ avail \in [Fds -> SUBSET Ev]
  /\ hup \in [Fds -> BOOLEAN]
  /\ rdy \in [Fds -> BOOLEAN]
  /\ arrivals \in 0..MaxArrivals
  /\ open \in [Fds -> BOOLEAN] /\ gen \in [Fds -> 0..Cardinality(Closers)]
  /\ managed \in [Fds -> BOOLEAN]
  /\ due \subseteq armed /\ armed \subseteq Callbacks
  /\ io \in [Fibers -> [pc : IoPcs, k : 0..MaxWaits, res : Results,
                         g : Nat, src : Nat]]
  /\ cancelled \in [Fibers -> {0, ETIMEDOUT}]
  /\ ist \in [Threads -> {"top", "timers", "events"}]
  /\ buf \in [Threads -> [Fds -> SUBSET Kev]]
  /\ aborted \in BOOLEAN
  /\ mainPc \in {"init", "started", "stopping", "joined"}
  /\ scheduled \subseteq Fibers

(* IOManager::IOManager: an empty fd table, no timers, no pending events. *)
Init ==
  /\ SchedInit
  /\ events = [fd \in Fds |-> {}]
  /\ ectx = [fd \in Fds |-> [e \in Ev |-> None]]
  /\ m_pendingEventCount = 0
  /\ kint = [fd \in Fds |-> {}]
  /\ avail = [fd \in Fds |-> {}]
  /\ hup = [fd \in Fds |-> FALSE]
  /\ rdy = [fd \in Fds |-> FALSE]
  /\ arrivals = 0
  /\ open = [fd \in Fds |-> TRUE] /\ gen = [fd \in Fds |-> 0]
  /\ managed = [fd \in Fds |-> TRUE]
  /\ armed = {} /\ due = {}
  /\ io = [f \in Fibers |-> [pc |-> IF f \in Closers THEN "cancel" ELSE "start",
                             k |-> 0, res |-> "none", g |-> 0, src |-> 0]]
  /\ cancelled = [f \in Fibers |-> 0]
  /\ ist = [t \in Threads |-> "top"]
  /\ buf = [t \in Threads |-> [fd \in Fds |-> {}]]
  /\ aborted = FALSE
  /\ mainPc = "init"
  /\ scheduled = {}

-----------------------------------------------------------------------------
(* The kernel.  An edge-triggered epoll item goes on the ready list when  *)
(* the fd becomes ready for an event in its mask, and when epoll_ctl       *)
(* ADD/MOD finds it ready already; epoll_wait takes every item off the     *)
(* list and reports what the fd is ready for now, within the mask (HUP     *)
(* whatever the mask).                                                     *)

Polled(fd, mask) == (avail[fd] \cap mask) \cup (IF hup[fd] THEN {"HUP"} ELSE {})

EpollCtl(fd, mask) ==
  /\ kint' = [kint EXCEPT ![fd] = mask]
  /\ rdy' = [rdy EXCEPT ![fd] = mask # {} /\ (@ \/ Polled(fd, mask) # {})]

Report(fd) == IF rdy[fd] THEN Polled(fd, kint[fd]) ELSE {}

(* epoll_ctl on an fd number fails (EBADF) once the fd is closed.          *)
CtlOk(fd) == open[fd]

(* Data arrives, or the send buffer drains.                                *)
Arrive(fd, e) ==
  /\ open[fd]
  /\ arrivals < MaxArrivals
  /\ arrivals' = arrivals + 1
  /\ avail' = [avail EXCEPT ![fd] = @ \cup {e}]
  /\ rdy' = [rdy EXCEPT ![fd] = @ \/ e \in kint[fd]]
  /\ UNCHANGED <<kint, hup, open, gen>>

(* The peer hangs up: the socket is readable and writable, EPOLLHUP.       *)
HangUp(fd) ==
  /\ open[fd]
  /\ arrivals < MaxArrivals
  /\ ~hup[fd]
  /\ arrivals' = arrivals + 1
  /\ avail' = [avail EXCEPT ![fd] = Ev]
  /\ hup' = [hup EXCEPT ![fd] = TRUE]
  /\ rdy' = [rdy EXCEPT ![fd] = @ \/ kint[fd] # {}]
  /\ UNCHANGED <<kint, open, gen>>

(* Time passes: an armed timer's deadline is reached.                      *)
TimerDue(tm) ==
  /\ tm \in armed \ due
  /\ due' = due \cup {tm}
  /\ UNCHANGED armed

-----------------------------------------------------------------------------
(* The IOManager.                                                          *)

Registered(f) == {<<fd, e>> \in Fds \X Ev : ectx[fd][e] = f}

(* FdContext::getContext and resetContext: the EventContexts of the      *)
(* events es of fd lose their fiber.                                       *)
ResetContext(fd, es) == [ectx EXCEPT ![fd] = [e \in Ev |-> IF e \in es THEN None ELSE @[e]]]

(* FdContext::triggerEvent: clear the bit and schedule the fiber (the      *)
(* context is moved into the task, so it is reset).                       *)
TriggerEvent(fd, e) ==
  /\ events' = [events EXCEPT ![fd] = @ \ {e}]
  /\ ectx' = ResetContext(fd, {e})
  /\ Schedule(ectx[fd][e], AnyThread)

(* Mutants of cancelEvent: the early return for an unregistered event     *)
(* dropped; the decrement of the pending count dropped; the context reset *)
(* as delEvent does, instead of triggered.                                 *)
CancelEventNoCheck(fd, e) ==
  /\ EpollCtl(fd, events[fd] \ {e})
  /\ TriggerEvent(fd, e)
  /\ m_pendingEventCount' = m_pendingEventCount - 1
CancelEventNoDecrement(fd, e) ==
  IF e \in events[fd]
    THEN /\ EpollCtl(fd, events[fd] \ {e})
         /\ TriggerEvent(fd, e)
         /\ UNCHANGED m_pendingEventCount
    ELSE UNCHANGED <<m_tasks, events, ectx, m_pendingEventCount, kint, rdy>>
CancelEventAsDelEvent(fd, e) ==
  IF e \in events[fd]
    THEN /\ EpollCtl(fd, events[fd] \ {e})
         /\ events' = [events EXCEPT ![fd] = @ \ {e}]
         /\ ectx' = [ectx EXCEPT ![fd][e] = None]
         /\ m_pendingEventCount' = m_pendingEventCount - 1
         /\ UNCHANGED m_tasks
    ELSE UNCHANGED <<m_tasks, events, ectx, m_pendingEventCount, kint, rdy>>

(* IOManager::cancelEvent: return if the event is not registered, or if  *)
(* epoll_ctl fails; else re-arm the fd without it, trigger it, decrement   *)
(* the pending count.                                                      *)
CancelEvent(fd, e) ==
  IF e \in events[fd] /\ CtlOk(fd)
    THEN /\ EpollCtl(fd, events[fd] \ {e})
         /\ TriggerEvent(fd, e)
         /\ m_pendingEventCount' = m_pendingEventCount - 1
    ELSE UNCHANGED <<m_tasks, events, ectx, m_pendingEventCount, kint, rdy>>

(* IOManager::stopping(timeout): no timers, no pending event, and the base *)
(* Scheduler::stopping.                                                    *)
IOStopping == armed = {} /\ m_pendingEventCount = 0 /\ Stopping

(* Schedule the fibers registered for the events es of fd, READ first.     *)
TriggerAll(fd, es) ==
  LET order == SelectSeq(<<"READ", "WRITE">>, LAMBDA e : e \in es) IN
  /\ events' = [events EXCEPT ![fd] = @ \ es]
  /\ ectx' = ResetContext(fd, es)
  /\ m_tasks' = m_tasks \o [i \in 1..Len(order) |->
                               [u |-> ectx[fd][order[i]], thr |-> AnyThread, fib |-> TRUE]]

(* Mutant: cancelAll drops the registrations without triggering them.     *)
CancelAllNoTrigger(fd) ==
  IF events[fd] # {} /\ CtlOk(fd)
    THEN /\ EpollCtl(fd, {})
         /\ events' = [events EXCEPT ![fd] = {}]
         /\ ectx' = [ectx EXCEPT ![fd] = [e \in Ev |-> None]]
         /\ m_pendingEventCount' = m_pendingEventCount - Cardinality(events[fd])
         /\ UNCHANGED m_tasks
    ELSE UNCHANGED <<m_tasks, events, ectx, m_pendingEventCount, kint, rdy>>

(* IOManager::cancelAll: return if nothing is registered or epoll_ctl DEL  *)
(* fails; else deregister the fd and trigger READ, then WRITE.             *)
CancelAll(fd) ==
  IF events[fd] # {} /\ CtlOk(fd)
    THEN /\ EpollCtl(fd, {})
         /\ TriggerAll(fd, events[fd])
         /\ m_pendingEventCount' = m_pendingEventCount - Cardinality(events[fd])
    ELSE UNCHANGED <<m_tasks, events, ectx, m_pendingEventCount, kint, rdy>>

-----------------------------------------------------------------------------
(* do_io in the fiber f running on thread t.  The fiber calls fun(); on    *)
(* EAGAIN it arms the condition timer (if the fd has a timeout), registers *)
(* itself with addEvent and yields; once resumed it cancels the timer and  *)
(* either returns ETIMEDOUT, if the timer callback set cancelled, or goes  *)
(* back to retry.                                                          *)

Fd(f) == Wait[f].fd
EvOf(f) == Wait[f].ev
TimerOf(f) == <<f, io[f].k>>

(* The checks at the top of do_io: an fd FdManager does not know goes     *)
(* straight to the C library; a managed socket takes the hooked path.      *)
IoStart(t) ==
  LET f == ctl[t].u IN
  /\ ctl[t].pc = "fiber" /\ f \in Fibers \ Connectors /\ io[f].pc = "start"
  /\ io' = IF managed[Fd(f)]
             THEN [io EXCEPT ![f].pc = "read", ![f].g = gen[Fd(f)]]
             ELSE [io EXCEPT ![f].pc = "done", ![f].res = "direct"]
  /\ UNCHANGED <<schedVars, iomVars, kernelVars, timerVars, cancelled,
                 managed, idleVars, mainVars>>

(* The call succeeds: it consumes the data (a hung-up socket stays ready). *)
IoSucceeds(t) ==
  LET f == ctl[t].u IN
  /\ ctl[t].pc = "fiber" /\ f \in Fibers /\ io[f].pc = "read"
  /\ open[Fd(f)]
  /\ EvOf(f) \in avail[Fd(f)]
  /\ avail' = [avail EXCEPT ![Fd(f)] = IF hup[Fd(f)] THEN @ ELSE @ \ {EvOf(f)}]
  /\ io' = [io EXCEPT ![f].pc = "done", ![f].res = "ok", ![f].src = gen[Fd(f)]]
  /\ UNCHANGED <<schedVars, iomVars, kint, hup, rdy, arrivals, open, gen,
                 timerVars, cancelled, managed, idleVars, mainVars>>

(* The fd number is closed: the call fails with EBADF and do_io returns.   *)
IoBadFd(t) ==
  LET f == ctl[t].u IN
  /\ ctl[t].pc = "fiber" /\ f \in Fibers /\ io[f].pc = "read"
  /\ ~open[Fd(f)]
  /\ io' = [io EXCEPT ![f].pc = "done", ![f].res = "EBADF"]
  /\ UNCHANGED <<schedVars, iomVars, kernelVars, timerVars, cancelled,
                 managed, idleVars, mainVars>>

(* EAGAIN: addConditionTimer for a fiber with a timeout.                    *)
IoEagain(t) ==
  LET f == ctl[t].u IN
  /\ ctl[t].pc = "fiber" /\ f \in Fibers /\ io[f].pc = "read"
  /\ open[Fd(f)]
  /\ EvOf(f) \notin avail[Fd(f)]
  /\ io[f].k < MaxWaits
  /\ io' = [io EXCEPT ![f].pc = "add", ![f].k = @ + 1]
  /\ armed' = IF f \in Timed THEN armed \cup {<<f, io[f].k + 1>>} ELSE armed
  /\ UNCHANGED <<schedVars, iomVars, kernelVars, due, cancelled, managed,
                 idleVars, mainVars>>

(* IOManager::addEvent(fd, event) for the current fiber, then YieldToHold. *)
(* (Its ASSERT against a second registration of the event cannot fire     *)
(* here: one fiber waits for each event of an fd.)                         *)
IoAddEvent(t) ==
  LET f == ctl[t].u
      fd == Fd(f)
  IN
  /\ ctl[t].pc = "fiber" /\ f \in Fibers /\ io[f].pc = "add"
  /\ EvOf(f) \notin events[fd]
  /\ CtlOk(fd)
  /\ EpollCtl(fd, events[fd] \cup {EvOf(f)})
  /\ m_pendingEventCount' = m_pendingEventCount + 1
  /\ events' = [events EXCEPT ![fd] = @ \cup {EvOf(f)}]
  /\ ectx' = [ectx EXCEPT ![fd][EvOf(f)] = f]
  /\ io' = [io EXCEPT ![f].pc = "wait"]
  /\ Back(t)
  /\ UNCHANGED <<m_tasks, fstate, m_activeThreadCount, idleTerm, m_stopping,
                 m_autoStop, aborted, avail, hup, arrivals, open, gen, timerVars,
                 cancelled, managed, idleVars, mainVars>>

(* addEvent fails because epoll_ctl does: do_io cancels its timer and      *)
(* returns -1.                                                             *)
IoAddFails(t) ==
  LET f == ctl[t].u IN
  /\ ctl[t].pc = "fiber" /\ f \in Fibers /\ io[f].pc = "add"
  /\ EvOf(f) \notin events[Fd(f)]
  /\ ~CtlOk(Fd(f))
  /\ armed' = armed \ {TimerOf(f)}
  /\ due' = due \ {TimerOf(f)}
  /\ io' = [io EXCEPT ![f].pc = "done", ![f].res = "error"]
  /\ UNCHANGED <<schedVars, iomVars, kernelVars, cancelled, managed, idleVars,
                 mainVars>>

(* Resumed: timer->cancel(), then the cancelled test.                      *)
IoResume(t) ==
  LET f == ctl[t].u IN
  /\ ctl[t].pc = "fiber" /\ f \in Fibers \ Connectors /\ io[f].pc = "wait"
  /\ armed' = armed \ {TimerOf(f)}
  /\ due' = due \ {TimerOf(f)}
  /\ io' = IF cancelled[f] # 0
             THEN [io EXCEPT ![f].pc = "done", ![f].res = "ETIMEDOUT"]
             ELSE [io EXCEPT ![f].pc = "read"]
  /\ UNCHANGED <<schedVars, iomVars, kernelVars, cancelled, managed, idleVars,
                 mainVars>>

(* connect_with_timeout in the connector f: an fd FdManager does not know *)
(* or has closed fails with EBADF; otherwise the non-blocking connect_f    *)
(* succeeds at once, fails, or is in progress: then the condition timer    *)
(* is armed (if the connect timeout is set) and the fiber goes on to       *)
(* addEvent(fd, WRITE), with no retry loop around it.                      *)
ConnectStart(t) ==
  LET f == ctl[t].u IN
  /\ ctl[t].pc = "fiber" /\ f \in Connectors /\ io[f].pc = "start"
  /\ \/ /\ ~managed[Fd(f)]
        /\ io' = [io EXCEPT ![f].pc = "done", ![f].res = "EBADF"]
        /\ UNCHANGED armed
     \/ /\ managed[Fd(f)]
        /\ \E n \in {"ok", "error"} :
             io' = [io EXCEPT ![f].pc = "done", ![f].res = n,
                             ![f].g = gen[Fd(f)], ![f].src = gen[Fd(f)]]
        /\ UNCHANGED armed
     \/ /\ managed[Fd(f)]
        /\ io' = [io EXCEPT ![f].pc = "add", ![f].k = 1, ![f].g = gen[Fd(f)]]
        /\ armed' = IF f \in Timed THEN armed \cup {<<f, 1>>} ELSE armed
  /\ UNCHANGED <<schedVars, iomVars, kernelVars, due, cancelled, managed,
                 idleVars, mainVars>>

(* Resumed in connect_with_timeout: timer->cancel(), ETIMEDOUT if the      *)
(* timer callback set cancelled, else getsockopt(SO_ERROR): EBADF once the *)
(* fd is closed, the error of a refused or reset connection (the peer     *)
(* hung up), and 0 otherwise -- also when the connection is still in      *)
(* progress and the wake-up came from close()'s cancelAll.                 *)
ConnectResume(t) ==
  LET f == ctl[t].u IN
  /\ ctl[t].pc = "fiber" /\ f \in Connectors /\ io[f].pc = "wait"
  /\ armed' = armed \ {TimerOf(f)}
  /\ due' = due \ {TimerOf(f)}
  /\ io' = [io EXCEPT ![f].pc = "done",
                       ![f].res = CASE cancelled[f] # 0 -> "ETIMEDOUT"
                                    [] ~open[Fd(f)]    -> "EBADF"
                                    [] hup[Fd(f)]      -> "error"
                                    [] OTHER           -> "ok",
                       ![f].src = gen[Fd(f)]]
  /\ UNCHANGED <<schedVars, iomVars, kernelVars, cancelled, managed, idleVars,
                 mainVars>>

(* do_io returned; the fiber's callback returns: Fiber::MainFunc sets TERM *)
(* and calls back().                                                        *)
FiberReturns(t) ==
  LET f == ctl[t].u IN
  /\ ctl[t].pc = "fiber" /\ f \in Fibers /\ io[f].pc = "done"
  /\ fstate' = [fstate EXCEPT ![f] = "TERM"]
  /\ Back(t)
  /\ UNCHANGED <<m_tasks, m_activeThreadCount, idleTerm, m_stopping,
                 m_autoStop, iomVars, kernelVars, timerVars, hookVars,
                 idleVars, mainVars>>

-----------------------------------------------------------------------------
(* The hooked close(fd) in the closer fiber f: if FdManager knows the fd,  *)
(* cancelAll(fd) on the current IOManager and FdManager::del(fd); then     *)
(* close_f(fd).  Closing the number takes the socket out of the epoll     *)
(* instance and frees the number; the hooked socket() of a reopener gets   *)
(* it back for a new socket, which FdManager then manages.                 *)

CloseCancelAll(t) ==
  LET f == ctl[t].u
      fd == Fd(f)
  IN
  /\ ctl[t].pc = "fiber" /\ f \in Closers /\ io[f].pc = "cancel"
  /\ IF managed[fd]
       THEN CancelAll(fd) /\ managed' = [managed EXCEPT ![fd] = FALSE]
       ELSE UNCHANGED <<m_tasks, events, ectx, m_pendingEventCount, kint, rdy,
                        managed>>
  /\ io' = [io EXCEPT ![f].pc = "closef"]
  /\ UNCHANGED <<fstate, m_activeThreadCount, ctl, idleTerm, m_stopping,
                 m_autoStop, aborted, avail, hup, arrivals, open, gen,
                 timerVars, cancelled, idleVars, mainVars>>

CloseF(t) ==
  LET f == ctl[t].u
      fd == Fd(f)
  IN
  /\ ctl[t].pc = "fiber" /\ f \in Closers /\ io[f].pc = "closef"
  /\ open' = [open EXCEPT ![fd] = FALSE]
  /\ gen' = [gen EXCEPT ![fd] = @ + 1]
  /\ avail' = [avail EXCEPT ![fd] = {}]
  /\ hup' = [hup EXCEPT ![fd] = FALSE]
  /\ kint' = [kint EXCEPT ![fd] = {}]
  /\ rdy' = [rdy EXCEPT ![fd] = FALSE]
  /\ io' = [io EXCEPT ![f].pc = IF f \in Reopeners THEN "socket" ELSE "done",
                       ![f].res = "ok"]
  /\ UNCHANGED <<schedVars, iomVars, arrivals, timerVars, cancelled, managed,
                 idleVars, mainVars>>

SocketReopen(t) ==
  LET f == ctl[t].u
      fd == Fd(f)
  IN
  /\ ctl[t].pc = "fiber" /\ f \in Closers /\ io[f].pc = "socket"
  /\ open' = [open EXCEPT ![fd] = TRUE]
  /\ managed' = [managed EXCEPT ![fd] = TRUE]
  /\ io' = [io EXCEPT ![f].pc = "done"]
  /\ UNCHANGED <<schedVars, iomVars, kint, avail, hup, rdy, arrivals, gen,
                 timerVars, cancelled, idleVars, mainVars>>

-----------------------------------------------------------------------------
(* The condition timer's callback <<f, k>>, run as a callback task: the    *)
(* OnTimer wrapper locks the weak pointer to the call's timer_info, the    *)
(* lambda of do_io returns if it is gone or cancelled is set, otherwise it *)
(* sets cancelled = ETIMEDOUT and then calls cancelEvent(fd, event).  Its  *)
(* task fiber then ends (TERM) and switches back.                          *)

EndCallback(t) == fstate' = [fstate EXCEPT ![ctl[t].u] = "TERM"]

TimerFires(t) ==
  LET f == ctl[t].u[1] IN
  /\ ctl[t].pc = "cb"
  /\ IF io[f].pc = "done" \/ cancelled[f] # 0
       THEN SetPc(t, "cbret", ctl[t].u) /\ EndCallback(t) /\ UNCHANGED cancelled
       ELSE /\ cancelled' = [cancelled EXCEPT ![f] = ETIMEDOUT]
            /\ SetPc(t, "cb2", ctl[t].u)
            /\ UNCHANGED fstate
  /\ UNCHANGED <<m_tasks, m_activeThreadCount, idleTerm, m_stopping,
                 m_autoStop, iomVars, kernelVars, timerVars, io, managed,
                 idleVars, mainVars>>

TimerCancelsEvent(t) ==
  LET f == ctl[t].u[1] IN
  /\ ctl[t].pc = "cb2"
  /\ CancelEvent(Fd(f), EvOf(f))
  /\ SetPc(t, "cbret", ctl[t].u)
  /\ EndCallback(t)
  /\ UNCHANGED <<m_activeThreadCount, idleTerm, m_stopping, m_autoStop,
                 aborted, avail, hup, arrivals, open, gen, timerVars, hookVars,
                 idleVars, mainVars>>

-----------------------------------------------------------------------------
(* IOManager::idle, one pass of its while(true) per call() of the idle     *)
(* fiber: the stopping test, epoll_wait, the expired timers, the ready     *)
(* fds, then back().                                                       *)

IdleEnds(t) ==
  /\ ctl[t].pc = "idle" /\ ist[t] = "top"
  /\ IOStopping
  /\ idleTerm' = [idleTerm EXCEPT ![t] = TRUE]
  /\ SetPc(t, "loop", None)
  /\ UNCHANGED <<m_tasks, fstate, m_activeThreadCount, m_stopping, m_autoStop,
                 iomVars, kernelVars, timerVars, hookVars, idleVars, mainVars>>

(* Mutant: the loop over the returned events stops one short (i < rt - 1). *)
EpollWaitDropsLast(t) ==
  LET R == {fd \in Fds : Report(fd) # {}} IN
  /\ ctl[t].pc = "idle" /\ ist[t] = "top"
  /\ ~IOStopping
  /\ \E lost \in R \cup (IF R = {} THEN {None} ELSE {}) :
       buf' = [buf EXCEPT ![t] = [fd \in Fds |-> IF fd = lost THEN {} ELSE Report(fd)]]
  /\ rdy' = [fd \in Fds |-> FALSE]
  /\ ist' = [ist EXCEPT ![t] = "timers"]
  /\ UNCHANGED <<schedVars, iomVars, kint, avail, hup, arrivals, open, gen,
                 timerVars, hookVars, mainVars>>

EpollWait(t) ==
  /\ ctl[t].pc = "idle" /\ ist[t] = "top"
  /\ ~IOStopping
  /\ buf' = [buf EXCEPT ![t] = [fd \in Fds |-> Report(fd)]]
  /\ rdy' = [fd \in Fds |-> FALSE]
  /\ ist' = [ist EXCEPT ![t] = "timers"]
  /\ UNCHANGED <<schedVars, iomVars, kint, avail, hup, arrivals, open, gen,
                 timerVars, hookVars, mainVars>>

(* listExpiredCb(cbs) and schedule(cbs.begin(), cbs.end()).                *)
ListExpired(t) ==
  LET cbs == SetToSeq(due) IN
  /\ ctl[t].pc = "idle" /\ ist[t] = "timers"
  /\ m_tasks' = m_tasks \o [i \in 1..Len(cbs) |-> [u |-> cbs[i], thr |-> AnyThread, fib |-> FALSE]]
  /\ armed' = armed \ due
  /\ due' = {}
  /\ ist' = [ist EXCEPT ![t] = "events"]
  /\ UNCHANGED <<fstate, m_activeThreadCount, ctl, idleTerm, m_stopping,
                 m_autoStop, iomVars, kernelVars, hookVars, buf, mainVars>>

(* Mutant: the fd is re-armed with its whole mask instead of what is left. *)
HandleEventNoRearm(t, fd) ==
  LET rep  == buf[t][fd]
      real == (rep \cap Ev) \cup (IF "HUP" \in rep THEN events[fd] ELSE {})
  IN
  /\ ctl[t].pc = "idle" /\ ist[t] = "events"
  /\ rep # {}
  /\ buf' = [buf EXCEPT ![t][fd] = {}]
  /\ CASE events[fd] \cap real = {} ->
            UNCHANGED <<m_tasks, iomVars, kint, rdy>>
       [] real \subseteq events[fd] ->
            /\ EpollCtl(fd, events[fd])
            /\ TriggerAll(fd, real)
            /\ m_pendingEventCount' = m_pendingEventCount - Cardinality(real)
            /\ UNCHANGED aborted
       [] OTHER ->
            /\ aborted' = TRUE
            /\ UNCHANGED <<m_tasks, events, ectx, m_pendingEventCount, kint, rdy>>
  /\ UNCHANGED <<fstate, m_activeThreadCount, ctl, idleTerm, m_stopping,
                 m_autoStop, avail, hup, arrivals, open, gen, timerVars,
                 hookVars, ist, mainVars>>

(* One returned epoll_event: HUP/ERR stand for every registered event; an  *)
(* fd with nothing registered of what it reports is skipped, and so is one *)
(* whose re-arm fails in epoll_ctl; otherwise                              *)
(* the fd is re-armed with what is left and every reported event is        *)
(* triggered, which ASSERTs that it is still registered.                  *)
HandleEvent(t, fd) ==
  LET rep  == buf[t][fd]
      real == (rep \cap Ev) \cup (IF "HUP" \in rep THEN events[fd] ELSE {})
  IN
  /\ ctl[t].pc = "idle" /\ ist[t] = "events"
  /\ rep # {}
  /\ buf' = [buf EXCEPT ![t][fd] = {}]
  /\ CASE events[fd] \cap real = {} \/ ~CtlOk(fd) ->
            UNCHANGED <<m_tasks, iomVars, kint, rdy>>
       [] real \subseteq events[fd] ->
            /\ EpollCtl(fd, events[fd] \ real)
            /\ TriggerAll(fd, real)
            /\ m_pendingEventCount' = m_pendingEventCount - Cardinality(real)
            /\ UNCHANGED aborted
       [] OTHER ->
            /\ aborted' = TRUE
            /\ UNCHANGED <<m_tasks, events, ectx, m_pendingEventCount, kint, rdy>>
  /\ UNCHANGED <<fstate, m_activeThreadCount, ctl, idleTerm, m_stopping,
                 m_autoStop, avail, hup, arrivals, open, gen, timerVars,
                 hookVars, ist, mainVars>>

IdleBack(t) ==
  /\ ctl[t].pc = "idle" /\ ist[t] = "events"
  /\ \A fd \in Fds : buf[t][fd] = {}
  /\ ist' = [ist EXCEPT ![t] = "top"]
  /\ SetPc(t, "loop", None)
  /\ UNCHANGED <<m_tasks, fstate, m_activeThreadCount, idleTerm, m_stopping,
                 m_autoStop, iomVars, kernelVars, timerVars, hookVars, buf,
                 mainVars>>

-----------------------------------------------------------------------------
(* The main thread: the IOManager constructor calls start(), the program   *)
(* schedules each fiber once, and the destructor calls stop(), which       *)
(* joins the workers.                                                      *)

Start ==
  /\ mainPc = "init"
  /\ m_stopping' = FALSE
  /\ ctl' = ThreadsRunning
  /\ idleTerm' = FreshIdleFibers
  /\ mainPc' = "started"
  /\ UNCHANGED <<m_tasks, fstate, m_activeThreadCount, m_autoStop,
                 iomVars, kernelVars, timerVars, hookVars, idleVars, scheduled>>

MainSchedule(f) ==
  /\ mainPc = "started"
  /\ f \notin scheduled
  /\ Schedule(f, AnyThread)
  /\ scheduled' = scheduled \cup {f}
  /\ UNCHANGED <<fstate, m_activeThreadCount, ctl, idleTerm, m_stopping,
                 m_autoStop, iomVars, kernelVars, timerVars, hookVars,
                 idleVars, mainPc>>

Stop ==
  /\ mainPc = "started"
  /\ scheduled = Fibers
  /\ m_autoStop' = TRUE
  /\ m_stopping' = TRUE
  /\ mainPc' = "stopping"
  /\ UNCHANGED <<m_tasks, fstate, m_activeThreadCount, ctl, idleTerm, iomVars,
                 kernelVars, timerVars, hookVars, idleVars, scheduled>>

Join ==
  /\ mainPc = "stopping"
  /\ \A t \in Threads : Joined(t)
  /\ mainPc' = "joined"
  /\ UNCHANGED <<schedVars, iomVars, kernelVars, timerVars, hookVars,
                 idleVars, scheduled>>

-----------------------------------------------------------------------------

notSched == <<iomVars, kernelVars, timerVars, hookVars, idleVars, mainVars>>

Worker(t) ==
  \/ RunLoop(t) /\ UNCHANGED notSched
  \/ IoStart(t) \/ IoSucceeds(t) \/ IoBadFd(t) \/ IoEagain(t)
  \/ IoAddEvent(t) \/ IoAddFails(t) \/ IoResume(t)
  \/ ConnectStart(t) \/ ConnectResume(t)
  \/ FiberReturns(t)
  \/ CloseCancelAll(t) \/ CloseF(t) \/ SocketReopen(t)
  \/ TimerFires(t) \/ TimerCancelsEvent(t)
  \/ IdleEnds(t) \/ EpollWait(t) \/ ListExpired(t) \/ IdleBack(t)
  \/ \E fd \in Fds : HandleEvent(t, fd)

notKernel == <<schedVars, iomVars, hookVars, idleVars, mainVars>>

Peer ==
  \/ \E fd \in Fds, e \in Ev : Arrive(fd, e)
  \/ \E fd \in Fds : HangUp(fd)

Clock(tm) == TimerDue(tm) /\ UNCHANGED <<notKernel, kernelVars>>

(* The program ends once stop() has joined every worker; an ASSERT ends it *)
(* at once.                                                                *)
Terminated == mainPc = "joined" /\ UNCHANGED vars
Halted     == aborted /\ UNCHANGED vars

Next ==
  \/ ~aborted /\
      \/ \E t \in Threads : Worker(t)
      \/ Start \/ Stop \/ Join
      \/ \E f \in Fibers : MainSchedule(f)
      \/ Peer /\ UNCHANGED <<notKernel, timerVars>>
      \/ \E tm \in Callbacks : Clock(tm)
  \/ Terminated
  \/ Halted

(* Workers are OS threads and keep running; epoll_wait returns at the      *)
(* latest after MAX_TIMEOUT, so an idle worker keeps passing through the   *)
(* loop; the clock advances, so an armed timer becomes due.  Peers are not *)
(* forced to send anything.                                                *)
Fairness ==
  /\ \A t \in Threads : WF_vars(Worker(t))
  /\ \A tm \in Callbacks : WF_vars(Clock(tm))
  /\ WF_vars(Start) /\ WF_vars(Join)

Spec == Init /\ [][Next]_vars /\ Fairness

-----------------------------------------------------------------------------
(* Properties                                                              *)

OnThread(f) == \E t \in Threads : ctl[t].u = f
Resumptions(f) ==
  Len(SelectSeq(m_tasks, LAMBDA task : task.u = f)) + Cardinality(Registered(f))

(* The fd table and the kernel agree: an event bit of FdContext::events is *)
(* set iff the epoll interest mask has it iff its EventContext holds a     *)
(* fiber -- across addEvent, cancelEvent, the re-arm in idle() and         *)
(* triggerEvent running on different workers.                              *)
RegistrationAgrees ==
  \A fd \in Fds, e \in Ev :
    /\ e \in events[fd] <=> e \in kint[fd]
    /\ e \in events[fd] <=> ectx[fd][e] # None

(* m_pendingEventCount, which IOManager::stopping() compares with 0, is    *)
(* the number of registered events.                                        *)
PendingCountMatches ==
  m_pendingEventCount = Cardinality({p \in Fds \X Ev : p[2] \in events[p[1]]})

(* A fiber blocked in do_io has exactly one way back: one registration or  *)
(* one queued task, never two (readiness and the timer's cancelEvent both  *)
(* resuming it) and never none (a lost wake-up).                           *)
ResumedExactlyOnce ==
  \A f \in Fibers :
    /\ Resumptions(f) <= 1
    /\ io[f].pc = "wait" /\ ~OnThread(f) => Resumptions(f) = 1

(* No ASSERT of the IOManager fails: in particular idle() only triggers    *)
(* events that are still registered.                                       *)
NoAssertFailure == ~aborted

(* A fiber blocked in do_io or connect whose fd becomes ready for its      *)
(* event returns from the call, unless an ASSERT aborts the process first  *)
(* (the hookio_assert run): the edge is not lost between addEvent,         *)
(* epoll_wait and the re-arm, also when the fd's other event shares the    *)
(* registration.                                                           *)
ReadyWaitReturns ==
  \A f \in Fibers :
    (io[f].pc = "wait" /\ EvOf(f) \in avail[Fd(f)]) ~> (io[f].pc = "done" \/ aborted)

(* A do_io call on an fd with a timeout returns, with data or ETIMEDOUT,   *)
(* even if the peer never sends anything.                                   *)
TimedWaitEnds ==
  \A f \in Timed : (io[f].pc = "wait") ~> (io[f].pc = "done")

(* A do_io call only ever transfers data on the socket it was called on:  *)
(* after close() woke it, the retry of the call must not read from another *)
(* socket that was given the same fd number in between.                    *)
NoIoOnReusedFd ==
  \A f \in Fibers \ Closers : io[f].res = "ok" => io[f].src = io[f].g

(* close() on an fd a fiber waits on resumes the fiber, and its do_io call *)
(* returns (spec: closing an fd resumes its waiters rather than leaving    *)
(* them blocked forever).                                                  *)
ClosedWaitEnds ==
  \A f \in Fibers \ Closers :
    (io[f].pc \in {"add", "wait"} /\ gen[Fd(f)] # io[f].g) ~> (io[f].pc = "done")

====
