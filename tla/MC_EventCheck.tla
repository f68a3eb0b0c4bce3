---------------------------- MODULE MC_EventCheck ----------------------------
(* Tables of two records over days of two minutes; a schedule may have a third record. *)
EXTENDS EventCheck

Fixed(s, m, o, d) == [script |-> s, sun |-> FALSE, at |-> m, order |-> o, range |-> d, week |-> {0, 1}]
Sunset(s, m, o, d) == [script |-> s, sun |-> TRUE, at |-> m, order |-> o, range |-> d, week |-> {0, 1}]

\* The sunset is at minute 1 of the first day and at minute 0 of the second.
SunsetAt == [d \in 0 .. MaxMinute \div Day |-> IF d = 0 THEN 1 ELSE 0]

\* Two records of one order and minute, and one too many; a higher and a lower one with a sunset;
\* orders out of range and an offset back past midnight.
SomeSchedules == {
    <<Fixed(1, 1, 1, {0, 1}), [Fixed(2, 1, 1, {0, 1}) EXCEPT !.week = {0}], Fixed(3, 1, 1, {0, 1})>>,
    <<Fixed(1, 0, 2, {0, 1}), Sunset(2, 0, 1, {1})>>,
    <<Fixed(1, 1, 0, {0, 1}), Sunset(2, 0 - 2, 3, {0, 1})>>}

=============================================================================
