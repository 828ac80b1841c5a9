------------------------------- MODULE Clock -------------------------------
\* Date.now() of a process, in ticks of which a rate-limit window and the life
\* of a token are a few.
EXTENDS Naturals

CONSTANT MaxClock       \* bound: the last tick of a behaviour

ASSUME ClockAssumption == MaxClock \in Nat

VARIABLE clock

ClockOK == clock \in 0 .. MaxClock

TimePasses == clock < MaxClock /\ clock' = clock + 1

=============================================================================
