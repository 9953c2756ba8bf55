-------------------------------- MODULE Clock --------------------------------
(* time.monotonic(), in ticks, for the components that measure intervals.    *)
EXTENDS Naturals

CONSTANT TimeBound      \* ticks in a behaviour

VARIABLE now

ClockInit == now = 0

Tick == now < TimeBound /\ now' = now + 1
=============================================================================
