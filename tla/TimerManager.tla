---------------------------- MODULE TimerManager ----------------------------
(***************************************************************************)
(* HPS::TimerManager and HPS::Timer (src/src/timer.cc).                    *)
(*                                                                         *)
(* m_timers is a std::set<Timer::ptr, Timer::Comparator>: timers ordered   *)
(* by m_next, ties broken by the address of the Timer object.  It is kept *)
(* here as the sequence of its elements in iteration order, and every      *)
(* operation goes through the order the comparator defines: insert puts a *)
(* timer before the first element it is less than, lower_bound finds the  *)
(* first element not less than a key.  Each operation takes m_mutex for    *)
(* its whole update and is one step; GetCurrentMS is read as part of it.  *)
(* The clock is the wall clock: it ticks, and it can be set back.          *)
(***************************************************************************)
EXTENDS Integers, Sequences, SequencesExt, FiniteSetsExt, Functions

CONSTANTS
  Ids,        \* Timer objects
  Addr,       \* the address of each Timer object
  FreshAddrs, \* addresses the Timer(now_ms) of listExpiredCb may get
  Epoch,      \* the earliest clock value
  MaxTime,    \* bound: the latest clock value
  Hour,       \* 60 * 60 * 1000, scaled with the clock
  Periods     \* the ms timers are created or reset with

ASSUME Addr \in [Ids -> Nat] /\ IsInjective(Addr)
ASSUME FreshAddrs \subseteq Nat /\ FreshAddrs \cap Range(Addr) = {}
(* GetCurrentMS is ms since 1970: far above an hour, so the uint64_t       *)
(* m_previouseTime - 60 * 60 * 1000 of detectClockRollover never wraps.    *)
ASSUME Epoch >= Hour

VARIABLES
  now,              \* GetCurrentMS()
  m_timers,         \* TimerManager::m_timers, in iteration order
  created,          \* Timer objects that addTimer has made
  m_next, m_ms, m_recurring,
  m_cb,             \* Timer::m_cb is set (not nullptr)
  m_tickled,        \* TimerManager::m_tickled
  m_previouseTime,  \* TimerManager::m_previouseTime
  cbs               \* the callbacks the last listExpiredCb returned

vars == <<now, m_timers, created, m_next, m_ms, m_recurring, m_cb, m_tickled,
          m_previouseTime, cbs>>

Times == 0..(MaxTime + Max(Periods))

TypeOK ==
  /\ now \in Epoch..MaxTime
  /\ m_timers \in Seq(created)
  /\ created \subseteq Ids
  /\ m_next \in [Ids -> Times]
  /\ m_ms \in [Ids -> Periods \cup {0}]
  /\ m_recurring \in [Ids -> BOOLEAN]
  /\ m_cb \in [Ids -> BOOLEAN]
  /\ m_tickled \in BOOLEAN
  /\ m_previouseTime \in Epoch..MaxTime
  /\ cbs \in Seq(Ids)

(* TimerManager::TimerManager: m_previouseTime = GetCurrentMS().           *)
Init ==
  /\ now = Epoch
  /\ m_timers = <<>>
  /\ created = {}
  /\ m_next = [i \in Ids |-> 0]
  /\ m_ms = [i \in Ids |-> 0]
  /\ m_recurring = [i \in Ids |-> FALSE]
  /\ m_cb = [i \in Ids |-> FALSE]
  /\ m_tickled = FALSE
  /\ m_previouseTime = Epoch
  /\ cbs = <<>>

-----------------------------------------------------------------------------
(* The ordered set.                                                        *)

(* Timer::Comparator on two (m_next, address) keys.  The null-pointer      *)
(* cases never arise: the set holds no nullptr.                            *)
Less(k1, k2) == k1[1] < k2[1] \/ (k1[1] = k2[1] /\ k1[2] < k2[2])

Key(nx, i) == <<nx[i], Addr[i]>>

(* set::insert of timer i, ordered by the deadlines nx.                    *)
Insert(s, i, nx) ==
  LET k == SelectInSeq(s, LAMBDA j : Less(Key(nx, i), Key(nx, j)))
  IN InsertAt(s, IF k = 0 THEN Len(s) + 1 ELSE k, i)

(* set::lower_bound(key): position of the first element not less than key, *)
(* Len(s) + 1 (end()) if there is none.                                    *)
LowerBound(s, key) ==
  LET k == SelectInSeq(s, LAMBDA j : ~Less(Key(m_next, j), key))
  IN IF k = 0 THEN Len(s) + 1 ELSE k

(* Mutant: the while loop after lower_bound is left out.                   *)
SkipDueNowNoLoop(s, it, t) == it

(* The while loop of listExpiredCb: step past the elements due exactly now. *)
RECURSIVE SkipDueNow(_, _, _)
SkipDueNow(s, it, t) ==
  IF it <= Len(s) /\ m_next[s[it]] = t THEN SkipDueNow(s, it + 1, t) ELSE it

InSet(i) == \E k \in 1..Len(m_timers) : m_timers[k] = i

-----------------------------------------------------------------------------
(* Operations                                                              *)

(* TimerManager::addTimer(val, lock): insert, and tickle the IOManager     *)
(* (onTimerInsertedAtFront) if the timer went to the front and no tickle  *)
(* is outstanding since the last getNextTimer.                             *)
AddTimerLocked(base, i, nx) ==
  LET s == Insert(base, i, nx)
  IN /\ m_timers' = s
     /\ m_tickled' = (m_tickled \/ s[1] = i)

(* TimerManager::addTimer(ms, cb, recurring) with a new Timer object.      *)
AddTimer(i, ms, rec) ==
  LET nx == [m_next EXCEPT ![i] = now + ms] IN
  /\ i \notin created
  /\ created' = created \cup {i}
  /\ m_next' = nx
  /\ m_ms' = [m_ms EXCEPT ![i] = ms]
  /\ m_recurring' = [m_recurring EXCEPT ![i] = rec]
  /\ m_cb' = [m_cb EXCEPT ![i] = TRUE]
  /\ AddTimerLocked(m_timers, i, nx)
  /\ UNCHANGED <<now, m_previouseTime, cbs>>

(* Timer::cancel: with a callback, drop it and erase the timer.            *)
Cancel(i) ==
  /\ i \in created
  /\ IF m_cb[i]
       THEN /\ m_cb' = [m_cb EXCEPT ![i] = FALSE]
            /\ m_timers' = Remove(m_timers, i)
       ELSE UNCHANGED <<m_cb, m_timers>>
  /\ UNCHANGED <<now, created, m_next, m_ms, m_recurring, m_tickled,
                 m_previouseTime, cbs>>

(* Mutant: m_next is moved while the timer stays where it was in the set.  *)
RefreshInPlace(i) ==
  /\ i \in created
  /\ IF m_cb[i] /\ InSet(i)
       THEN m_next' = [m_next EXCEPT ![i] = now + m_ms[i]]
       ELSE UNCHANGED m_next
  /\ UNCHANGED <<now, m_timers, created, m_ms, m_recurring, m_cb, m_tickled,
                 m_previouseTime, cbs>>

(* Timer::refresh: erase, m_next = now + m_ms, insert (no tickle).         *)
Refresh(i) ==
  LET nx == [m_next EXCEPT ![i] = now + m_ms[i]] IN
  /\ i \in created
  /\ IF m_cb[i] /\ InSet(i)
       THEN /\ m_next' = nx
            /\ m_timers' = Insert(Remove(m_timers, i), i, nx)
       ELSE UNCHANGED <<m_next, m_timers>>
  /\ UNCHANGED <<now, created, m_ms, m_recurring, m_cb, m_tickled,
                 m_previouseTime, cbs>>

(* Timer::reset(ms, from_now): returns at once when nothing changes;       *)
(* otherwise erase, restart from now or from the old start, and addTimer. *)
Reset(i, ms, fromNow) ==
  LET start == IF fromNow THEN now ELSE m_next[i] - m_ms[i]
      nx    == [m_next EXCEPT ![i] = start + ms]
  IN
  /\ i \in created
  /\ IF (ms = m_ms[i] /\ ~fromNow) \/ ~m_cb[i] \/ ~InSet(i)
       THEN UNCHANGED <<m_timers, m_next, m_ms, m_tickled>>
       ELSE /\ m_ms' = [m_ms EXCEPT ![i] = ms]
            /\ m_next' = nx
            /\ AddTimerLocked(Remove(m_timers, i), i, nx)
  /\ UNCHANGED <<now, created, m_recurring, m_cb, m_previouseTime, cbs>>

(* Mutant: getNextTimer leaves m_tickled set.                              *)
GetNextTimerKeepsTickled ==
  UNCHANGED <<now, m_timers, created, m_next, m_ms, m_recurring, m_cb,
              m_tickled, m_previouseTime, cbs>>

(* TimerManager::getNextTimer: clears m_tickled; the value it returns is   *)
(* the input of IOManager::idle (module IdleTimeout).                      *)
GetNextTimer ==
  /\ m_tickled' = FALSE
  /\ UNCHANGED <<now, m_timers, created, m_next, m_ms, m_recurring, m_cb,
                 m_previouseTime, cbs>>

(* TimerManager::detectClockRollover(now): the clock went back by more     *)
(* than an hour since the last pass.                                       *)
Rollover == now < m_previouseTime /\ now < m_previouseTime - Hour

(* Mutant: a recurring timer is re-armed one period after its deadline.   *)
RearmedFromDeadline(i) == m_next[i] + m_ms[i]

(* timer->m_next = now_ms + timer->m_ms for a recurring expired timer.     *)
Rearmed(i) == now + m_ms[i]

(* Mutant: the expired one-shot timers keep their callback.              *)
ClearCallbacksKept(done) == m_cb

(* timer->m_cb = nullptr for the expired timers that do not recur.          *)
ClearCallbacks(done) == [i \in Ids |-> IF i \in done THEN FALSE ELSE m_cb[i]]

(* TimerManager::listExpiredCb.                                            *)
ListExpiredCb ==
  \/ /\ m_timers = <<>>
     /\ cbs' = <<>>
     /\ UNCHANGED <<now, m_timers, created, m_next, m_ms, m_recurring, m_cb,
                    m_tickled, m_previouseTime>>
  \/ /\ m_timers # <<>>
     /\ m_previouseTime' = now
     /\ IF ~Rollover /\ m_next[m_timers[1]] > now
          THEN /\ cbs' = <<>>
               /\ UNCHANGED <<m_timers, m_next, m_cb>>
          ELSE \E a \in FreshAddrs :
            LET it      == IF Rollover THEN Len(m_timers) + 1
                           ELSE SkipDueNow(m_timers,
                                           LowerBound(m_timers, <<now, a>>), now)
                expired == SubSeq(m_timers, 1, it - 1)
                rest    == SubSeq(m_timers, it, Len(m_timers))
                again   == {i \in ToSet(expired) : m_recurring[i]}
                nx      == [i \in Ids |-> IF i \in again THEN Rearmed(i)
                                          ELSE m_next[i]]
            IN /\ cbs' = expired
               /\ m_next' = nx
               /\ m_timers' = FoldSet(LAMBDA i, s : Insert(s, i, nx), rest, again)
               /\ m_cb' = ClearCallbacks(ToSet(expired) \ again)
     /\ UNCHANGED <<now, created, m_ms, m_recurring, m_tickled>>

(* The wall clock advances, or is set back.                                *)
Tick ==
  /\ now < MaxTime
  /\ now' = now + 1
  /\ UNCHANGED <<m_timers, created, m_next, m_ms, m_recurring, m_cb, m_tickled,
                 m_previouseTime, cbs>>

SetBack(d) ==
  /\ now - d >= Epoch
  /\ now' = now - d
  /\ UNCHANGED <<m_timers, created, m_next, m_ms, m_recurring, m_cb, m_tickled,
                 m_previouseTime, cbs>>

Next ==
  \/ \E i \in Ids, ms \in Periods, rec \in BOOLEAN : AddTimer(i, ms, rec)
  \/ \E i \in Ids : Cancel(i) \/ Refresh(i)
  \/ \E i \in Ids, ms \in Periods, fromNow \in BOOLEAN : Reset(i, ms, fromNow)
  \/ GetNextTimer
  \/ ListExpiredCb
  \/ Tick
  \/ \E d \in 1..(MaxTime - Epoch) : SetBack(d)

Spec == Init /\ [][Next]_vars

-----------------------------------------------------------------------------
(* Properties                                                              *)

(* m_timers stays ordered by Timer::Comparator: every operation that moves *)
(* m_next (refresh, reset, the re-arming of a recurring timer in          *)
(* listExpiredCb) erases the timer before and inserts it after, so that    *)
(* find, erase and lower_bound keep working on a well-ordered set.         *)
TimersOrdered ==
  \A j, k \in 1..Len(m_timers) :
    j < k => Less(Key(m_next, m_timers[j]), Key(m_next, m_timers[k]))

(* A timer has its callback exactly while it is in m_timers: cancel(),    *)
(* refresh() and reset() test m_cb and then erase find(this), which must   *)
(* not be end(); listExpiredCb drops the callback of a one-shot timer it   *)
(* takes out and keeps that of a recurring one it puts back.               *)
CallbackIffQueued == \A i \in created : m_cb[i] <=> InSet(i)

(* The timer manager implements TimerSet: a pass of listExpiredCb returns  *)
(* in deadline order exactly the timers that are due (all of them after a  *)
(* rollover), re-arms the recurring ones and leaves the others pending;    *)
(* addTimer, cancel, refresh and reset arm, disarm and re-arm timers.      *)
TS == INSTANCE TimerSet WITH
        clock <- now, pending <- ToSet(m_timers), deadline <- m_next,
        period <- m_ms, repeat <- m_recurring, seen <- m_previouseTime,
        fired <- cbs

ImplementsTimerSet == TS!TSSpec

====
