----------------------------- MODULE MCTimerQueue -----------------------------
(* Model checking of TimerQueue: every Timer object is allocated once; the    *)
(* clock and the calls of CancelTimer are bounded.                            *)
EXTENDS TimerQueue

Call(time, interval) == [time |-> time, interval |-> interval]

\* A repeated timer, one that fires once and one with the count 0, which never
\* does.  Which of them expires first depends on when they are added.
MCCalls == <<{Call(1, 2)}, {Call(2, 1)}, {Call(2, 0)}>>
===============================================================================
