-------------------------- MODULE MC_TimerManager --------------------------
(* TimerManager with two timers, a clock that runs from 2 to 5 ms and      *)
(* can be set back, an hour scaled to 1 ms, and periods 0..2 ms.           *)
EXTENDS TimerManager, TLC

CONSTANTS a, b

MCIds        == {a, b}
MCAddr       == (a :> 2) @@ (b :> 4)
MCFreshAddrs == {1, 3, 5, 7}
MCEpoch      == 2
MCMaxTime    == 5
MCHour       == 1
MCPeriods    == {0, 1, 2}

====
