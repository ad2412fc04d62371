------------------------------ MODULE MC_HookIO ------------------------------
(* Instances of HookIO for TLC: two workers and two fibers.                *)
EXTENDS HookIO

CONSTANTS t1, t2, f1, f2, fd1, fd2

MCThreads == {t1, t2}
MCFibers  == {f1, f2}

(* Both fibers on one socket, f1 reading with a timeout and f2 writing, or *)
(* connecting, without: addEvent then uses EPOLL_CTL_MOD and idle()        *)
(* re-arms with what is left.                                               *)
MCFdsShared  == {fd1}
MCWaitShared == (f1 :> [fd |-> fd1, ev |-> "READ"]) @@
                (f2 :> [fd |-> fd1, ev |-> "WRITE"])

(* One socket per fiber.                                                    *)
MCFdsOwn  == {fd1, fd2}
MCWaitOwn == (f1 :> [fd |-> fd1, ev |-> "READ"]) @@
             (f2 :> [fd |-> fd2, ev |-> "READ"])

(* f2 calls connect() rather than write().                                *)
MCConnectors  == {f2}

MCTimed == {f1}
MCNoneTimed == {}

(* Two waits per call: enough for a retry after a wake-up whose data was   *)
(* not there any more, and for a second timer of the same call.            *)
MCMaxWaits == 2
MCCallbacks == MCFibers \X (1..MCMaxWaits)

(* Two peer events: both directions of one socket become ready, or data   *)
(* arrives and then the peer hangs up.                                      *)
MCMaxArrivals == 2
MCNoArrivals == 0
MCOneArrival == 1

(* No fiber closes its fd.                                                  *)
MCNoClosers == {}

(* f2 closes the socket f1 reads from (with a timeout); a reopener then    *)
(* makes a new socket, which gets the freed number.                         *)
MCOneThread  == {t1}
MCWaitClose  == (f1 :> [fd |-> fd1, ev |-> "READ"]) @@
                (f2 :> [fd |-> fd1, ev |-> "READ"])
MCClosers    == {f2}

====
