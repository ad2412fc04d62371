------------------------------ MODULE TimerSet ------------------------------
(***************************************************************************)
(* What HPS::TimerManager promises its users (the IOManager and the hook   *)
(* layer), with no ordered container, no lock and no tickling: a set of    *)
(* pending timers, each with a deadline on the wall clock.  A pass of      *)
(* listExpiredCb hands out, in deadline order, every pending timer whose   *)
(* deadline has passed -- or every pending timer, if the clock was set     *)
(* back by more than an hour since the previous pass -- and re-arms the    *)
(* recurring ones one period after the current time.                       *)
(***************************************************************************)
EXTENDS Integers, Sequences, SequencesExt, FiniteSetsExt

CONSTANTS
  Ids,       \* timer objects
  Epoch,     \* the earliest clock value
  MaxTime,   \* bound: the latest clock value
  Hour,      \* the backward jump that counts as a rollover (60 * 60 * 1000)
  Periods    \* the periods (ms) timers are created or reset with

VARIABLES
  clock,     \* the wall clock, in ms
  pending,   \* timers that will fire
  deadline,  \* when each timer fires next
  period,    \* the period of each timer (its m_ms)
  repeat,    \* whether each timer is recurring
  seen,      \* the clock at the previous pass over a non-empty set
  fired      \* the timers handed out by the last pass, in order

tsVars == <<clock, pending, deadline, period, repeat, seen, fired>>

Times == 0..(MaxTime + Max(Periods))

TSInit ==
  /\ clock = Epoch /\ seen = Epoch
  /\ pending = {}
  /\ deadline = [i \in Ids |-> 0]
  /\ period = [i \in Ids |-> 0]
  /\ repeat = [i \in Ids |-> FALSE]
  /\ fired = <<>>

(* A new timer fires one period from now.                                 *)
Arm(i, rec, ms) ==
  /\ i \notin pending
  /\ pending' = pending \cup {i}
  /\ deadline' = [deadline EXCEPT ![i] = clock + ms]
  /\ period' = [period EXCEPT ![i] = ms]
  /\ repeat' = [repeat EXCEPT ![i] = rec]
  /\ UNCHANGED <<clock, seen, fired>>

Disarm(i) ==
  /\ i \in pending
  /\ pending' = pending \ {i}
  /\ UNCHANGED <<clock, deadline, period, repeat, seen, fired>>

(* A pending timer gets a new deadline (and period).                       *)
Rearm(i, d, ms) ==
  /\ i \in pending
  /\ deadline' = [deadline EXCEPT ![i] = d]
  /\ period' = [period EXCEPT ![i] = ms]
  /\ UNCHANGED <<clock, pending, repeat, seen, fired>>

Jumped == clock < seen - Hour

Due == IF Jumped THEN pending ELSE {i \in pending : deadline[i] <= clock}

InDeadlineOrder(S) ==
  {s \in [1..Cardinality(S) -> S] :
     /\ \A j, k \in DOMAIN s : j < k => s[j] # s[k]
     /\ \A j, k \in DOMAIN s : j < k => deadline[s[j]] <= deadline[s[k]]}

(* A pass over no timers hands out nothing and leaves the rest alone.     *)
ExpireNone ==
  /\ pending = {}
  /\ fired' = <<>>
  /\ UNCHANGED <<clock, pending, deadline, period, repeat, seen>>

Expire ==
  /\ pending # {}
  /\ fired' \in InDeadlineOrder(Due)
  /\ pending' = pending \ {i \in Due : ~repeat[i]}
  /\ deadline' = [i \in Ids |-> IF i \in Due /\ repeat[i] THEN clock + period[i]
                                ELSE deadline[i]]
  /\ seen' = clock
  /\ UNCHANGED <<clock, period, repeat>>

Tick ==
  /\ clock < MaxTime
  /\ clock' = clock + 1
  /\ UNCHANGED <<pending, deadline, period, repeat, seen, fired>>

SetBack(d) ==
  /\ clock - d >= Epoch
  /\ clock' = clock - d
  /\ UNCHANGED <<pending, deadline, period, repeat, seen, fired>>

TSNext ==
  \/ \E i \in Ids, rec \in BOOLEAN, ms \in Periods : Arm(i, rec, ms)
  \/ \E i \in Ids : Disarm(i)
  \/ \E i \in Ids, d \in Times, ms \in Periods : Rearm(i, d, ms)
  \/ ExpireNone \/ Expire
  \/ Tick
  \/ \E d \in 1..(MaxTime - Epoch) : SetBack(d)

TSSpec == TSInit /\ [][TSNext]_tsVars

====
