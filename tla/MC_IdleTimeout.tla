--------------------------- MODULE MC_IdleTimeout ---------------------------
EXTENDS IdleTimeout

(* int of 16 bits and uint64_t of 28 bits: 3000 and the products by 1000  *)
(* stay representable where the build's values are, and the values past   *)
(* the int limit are representable for TLC.                                *)
MCIntBits  == 16
MCLongBits == 28

(* The run asks what each conversion makes of a value past the int       *)
(* range: a next timer of 2^15 ms and of 2^16 - 1 ms (24.8 and 49.7 days  *)
(* at 32 bits), sleep(66) and sleep(2^16 - 1) (past 65.536 s, 49.7 days at *)
(* 32 bits), usleep of 999 us and of the largest useconds_t, a nanosleep  *)
(* of 33 s (past 32.767 s, 24.8 days at 32 bits), and setsockopt with a   *)
(* zero timeval, which the kernel reads as no timeout.                     *)
(* Any state the run reports shows all four conversions at work.          *)
MCNextTimeouts == {2^15, 2^16 - 1}
MCSleepSeconds == {66, 2^16 - 1}
MCUsleepRequests == {999, 2^16 - 1}
MCNanoRequests == [sec : {33}, nsec : {0, 999999999}]
MCTvRequests   == {[sec |-> 0, usec |-> 0]}

====
