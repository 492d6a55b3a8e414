-------------------------- MODULE MCAccelerantModes --------------------------
(* Small instances of AccelerantModes for TLC. *)
EXTENDS AccelerantModes

Timings(hz, h, total, rate, interlaced) ==
  [pixelClockHz |-> hz, h |-> h, hTotal |-> total, v |-> 2, vTotal |-> 3,
   RRx1k |-> rate, interlaced |-> interlaced, hSyncPos |-> FALSE, vSyncPos |-> interlaced]

Offer(t, valid, preferred) == [timings |-> t, valid |-> valid, preferred |-> preferred]

\* Clocks that are no multiple of Kilo, two rates of one size, an interlaced
\* mode, a mode that does not validate.
Desk == << Offer(Timings(123, 4, 5, 81, FALSE), TRUE, FALSE),
           Offer(Timings(245, 4, 5, 163, FALSE), TRUE, TRUE),
           Offer(Timings(90, 4, 5, 120, TRUE), TRUE, FALSE),
           Offer(Timings(500, 6, 7, 238, FALSE), FALSE, FALSE) >>
Beamer == << Offer(Timings(180, 4, 6, 99, FALSE), TRUE, TRUE) >>

MCDisplays == {Desk, Beamer}

Mode(t, width) == [timing |-> t, width |-> width, height |-> 2]
Asked(clock, h, total, flags) ==
  [clock |-> clock, h |-> h, hTotal |-> total, v |-> 2, vTotal |-> 3, flags |-> flags]

MCRequests ==
  {Mode(ToHaikuModeTimings(d[i].timings), d[i].timings.h) :
     <<d, i>> \in {<<Desk, 1>>, <<Desk, 2>>, <<Desk, 3>>, <<Desk, 4>>, <<Beamer, 1>>}}
  \cup {Mode(Asked(c, 4, 5, f), w) : c \in {13, 20}, f \in {{}, {"hSyncPos", "blankPedestal"}}, w \in {4, 6}}

MCHighs ==
  {[timing |-> [clock |-> c, h |-> 9, hTotal |-> 9, v |-> 9, vTotal |-> 9], width |-> 9, height |-> 9] :
     c \in {15, 99}}

=============================================================================
