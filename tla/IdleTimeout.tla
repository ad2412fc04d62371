---------------------------- MODULE IdleTimeout ----------------------------
(***************************************************************************)
(* The integer conversions on the way from a requested duration to a      *)
(* blocking wait:                                                          *)
(*  - IOManager::idle clamps the time to the next timer (a uint64_t from   *)
(*    getNextTimer, ~0ull when there is none) to MAX_TIMEOUT = 3000 ms,    *)
(*    comparing and passing it as an int (src/src/iomanager.cc);           *)
(*  - the sleep hooks turn their argument into the milliseconds of a timer *)
(*    in unsigned int (sleep) or int (nanosleep) arithmetic                *)
(*    (src/src/hook.cc);                                                   *)
(*  - the setsockopt hook caches SO_RCVTIMEO/SO_SNDTIMEO as milliseconds, *)
(*    which do_io arms as a timer unless they are (uint64_t)-1, the value *)
(*    an FdCtx starts with (src/src/hook.cc).                              *)
(* A narrowing cast keeps the low bits, read as two's complement for int.  *)
(* The widths of int and uint64_t are constants, so that TLC's integers   *)
(* can hold every value: the MC module gives them reduced widths that      *)
(* keep MAX_TIMEOUT and 1000 ms/s far below the int limit, as 32 bits do.  *)
(***************************************************************************)
EXTENDS Integers

CONSTANTS
  IntBits,        \* width of int and unsigned int (32 in the build)
  LongBits,       \* width of uint64_t (64 in the build)
  NextTimeouts,   \* values getNextTimer can return
  SleepSeconds,   \* arguments of sleep(unsigned int)
  UsleepRequests, \* arguments of usleep(useconds_t)
  NanoRequests,   \* timespec arguments of nanosleep: [sec, nsec]
  TvRequests      \* timeval arguments of setsockopt(SO_RCVTIMEO): [sec, usec]

VARIABLES next, secs, usec, nano, tv

vars == <<next, secs, usec, nano, tv>>

ASSUME IntBits \in Nat /\ LongBits \in Nat /\ 2^(IntBits - 1) > 3000

NoTimer     == 2^LongBits - 1     \* ~0ull
MAX_TIMEOUT == 3000

ToUInt32(x) == x % 2^IntBits
ToInt32(x)  == LET v == x % 2^IntBits IN
               IF v >= 2^(IntBits - 1) THEN v - 2^IntBits ELSE v
ToUInt64(x) == x % 2^LongBits

(* The timeout idle() passes to epoll_wait.                                *)
EpollTimeout(nt) ==
  LET clamped == IF nt # NoTimer
                   THEN IF ToInt32(nt) > MAX_TIMEOUT THEN MAX_TIMEOUT ELSE nt
                   ELSE MAX_TIMEOUT
  IN ToInt32(clamped)

(* The ms of the timer sleep(seconds) adds: seconds * 1000 in unsigned int. *)
SleepMs(s) == ToUInt32(s * 1000)

(* The ms of the timer usleep adds: usec / 1000 in useconds_t, an unsigned *)
(* int.                                                                    *)
UsleepMs(u) == ToUInt32(u) \div 1000

(* The ms of the timer nanosleep adds: an int timeout_ms passed as uint64. *)
NanosleepMs(r) == ToUInt64(ToInt32(r.sec * 1000 + (r.nsec \div 1000) \div 1000))

(* The timeout setsockopt caches: tv_sec * 1000 + tv_usec / 1000.          *)
SockTimeoutMs(v) == ToUInt64(v.sec * 1000 + v.usec \div 1000)

(* do_io's timer for a cached timeout: none when it is (uint64_t)-1.      *)
DoIoTimerMs(to) == IF to # NoTimer THEN to ELSE NoTimer

(* What the kernel makes of the timeval: a zero timeval means no timeout. *)
KernelTimeoutMs(v) ==
  IF v.sec = 0 /\ v.usec = 0 THEN NoTimer ELSE v.sec * 1000 + v.usec \div 1000

Init ==
  /\ next \in NextTimeouts
  /\ secs \in SleepSeconds
  /\ usec \in UsleepRequests
  /\ nano \in NanoRequests
  /\ tv \in TvRequests

Next == UNCHANGED vars

Spec == Init /\ [][Next]_vars

(* Every duration keeps its value on its way to a blocking wait.          *)
(* epoll_wait in idle() blocks for at least 0 and at most MAX_TIMEOUT ms,  *)
(* and never past the next timer: a negative timeout would block until an *)
(* fd or the tickle pipe becomes ready, with the timers left unserved.     *)
(* The timer of a hooked sleep, usleep or nanosleep lasts what was asked  *)
(* for, to the millisecond of the timers, and                             *)
(* a hooked read waits as long as the SO_RCVTIMEO the user set means to    *)
(* the kernel: without limit for a zero timeval.                           *)
DurationsKept ==
  /\ 0 <= EpollTimeout(next)
  /\ EpollTimeout(next) <= MAX_TIMEOUT
  /\ next # NoTimer => EpollTimeout(next) <= next
  /\ SleepMs(secs) = secs * 1000
  /\ UsleepMs(usec) = usec \div 1000
  /\ NanosleepMs(nano) = nano.sec * 1000 + (nano.nsec \div 1000000)
  /\ DoIoTimerMs(SockTimeoutMs(tv)) = KernelTimeoutMs(tv)

====
