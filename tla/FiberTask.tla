----------------------------- MODULE FiberTask -----------------------------
(***************************************************************************)
(* What the scheduler promises a fiber (spec.md, the scheduler and fiber   *)
(* sections), with no queue, no fiber states and no run() loop: a fiber   *)
(* handed to the scheduler waits, is taken by one thread, and while it     *)
(* runs on that thread it yields (and waits again), parks until a waker    *)
(* hands it back, or ends.  An ended fiber is never run again, a parked    *)
(* one only after it was handed back, and a thread runs one fiber at a    *)
(* time.  Scheduler refines this module (Scheduler!FiberTaskSpec).         *)
(***************************************************************************)
CONSTANTS
  Fibers,     \* the fibers handed to the scheduler
  Threads,    \* the threads that run them
  NoThread    \* runner of a fiber that is not running

VARIABLES
  status,     \* per fiber, see Statuses
  runner      \* per fiber, the thread it runs on, or NoThread

vars == <<status, runner>>

Statuses == {"free", "queued", "running", "parked", "dead"}

TypeOK ==
  /\ status \in [Fibers -> Statuses]
  /\ runner \in [Fibers -> Threads \cup {NoThread}]

Init ==
  /\ status = [f \in Fibers |-> "free"]
  /\ runner = [f \in Fibers |-> NoThread]

Move(f, from, to) ==
  /\ status[f] = from
  /\ status' = [status EXCEPT ![f] = to]

(* The owner of a fiber that is not in use hands it to the scheduler.      *)
Submit(f) == Move(f, "free", "queued") /\ UNCHANGED runner

(* A thread that runs no fiber takes a waiting one.                        *)
Take(f, t) ==
  /\ \A g \in Fibers : runner[g] # t
  /\ Move(f, "queued", "running")
  /\ runner' = [runner EXCEPT ![f] = t]

Leave(f, to) ==
  /\ Move(f, "running", to)
  /\ runner' = [runner EXCEPT ![f] = NoThread]

Yield(f) == Leave(f, "queued")
Park(f)  == Leave(f, "parked")
End(f)   == Leave(f, "dead")

(* A waker hands a parked fiber back.                                      *)
Wake(f) == Move(f, "parked", "queued") /\ UNCHANGED runner

Next ==
  \E f \in Fibers :
    \/ Submit(f) \/ Yield(f) \/ Park(f) \/ End(f) \/ Wake(f)
    \/ \E t \in Threads : Take(f, t)

Spec == Init /\ [][Next]_vars

=============================================================================
