---------------------------- MODULE MC_IdleWakeup ----------------------------
(* Two timers, two idle threads, a clock from 2 to 3 ms and periods of 0  *)
(* and 1 ms: a timer can be added before or after the other, at the front *)
(* or not, while either thread waits, polls or runs.                       *)
(*                                                                         *)
(* The same model also runs StringUtil, which has no link to the timers:  *)
(* its argument grows byte by byte while the IOManager is in its initial  *)
(* state, and the IOManager moves only with the empty argument, so that   *)
(* the two are explored side by side rather than as a product.           *)
EXTENDS IdleWakeup, TLC

CONSTANTS a, b, t1, t2

MCIds         == {a, b}
MCAddr        == (a :> 2) @@ (b :> 4)
MCFreshAddrs  == {1, 3, 5}
MCEpoch       == 2
MCMaxTime     == 3
MCHour        == 1
MCPeriods     == {0, 1}
MCIdleThreads == {t1, t2}

(* The idle threads run the same loop.                                     *)
MCSymmetry == Permutations(MCIdleThreads)

(* Bytes that exercise every branch: a space, '%' and '+' (read specially *)
(* by UrlDecode), '1' and 'F' (hex digits, so that a literal "%1F" can    *)
(* appear in the input), '=' (unreserved by the table), and 200, a byte  *)
(* above 127 (negative as a char).                                         *)
MCAlphabet == {32, 37, 43, 49, 61, 70, 200}

(* The default delimiters " \t\r\n" cut down to a space, and a set of two. *)
MCDelimSets == {{32}, {32, 43}}

VARIABLE str

SU == INSTANCE StringUtil WITH
        Alphabet <- MCAlphabet, MaxLen <- 4, DelimSets <- MCDelimSets

MCInit == IdleInit /\ SU!Init

MCNext ==
  \/ IdleInit /\ SU!Next /\ UNCHANGED allVars
  \/ str = <<>> /\ IdleNext /\ UNCHANGED str

MCSpec == MCInit /\ [][MCNext]_<<allVars, str>>

(* StringUtil: decoding what UrlEncode produced gives the string back.     *)
UrlRoundTrip == SU!UrlRoundTrip

(* StringUtil: Trim and TrimLeft equal their reference definitions.        *)
TrimMatchesReference == SU!TrimMatchesReference

====
