----------------------------- MODULE MCChannels -----------------------------
(* Small instances of Channels.  The cfg files choose the disturbances.     *)
EXTENDS Channels

\* Two channels of two bands, at 20 MHz, against a configuration that names
\* a wide channel of another; and a width that differs from the configured one
\* on the configured channel.
FewAsks == {<<40, 20>>, <<6, 20>>}
WidthAsks == {<<36, 40>>}

Neighbour(c, load) ==
  [ours |-> FALSE, ch |-> c, ht |-> "none", vht |-> -1, centre |-> 0, signal |-> -70,
   load |-> load]
Wide(c, centre, load) == [Neighbour(c, load) EXCEPT !.vht = 1, !.centre = centre]
Paired(c, side) == [Neighbour(c, -1) EXCEPT !.ht = side]
Own(c) == [Neighbour(c, 250) EXCEPT !.ours = TRUE]

\* The members of the high block are each a little busy, and the low one is wholly
\* taken by one neighbour; 165 is between.  At 2.4 GHz the neighbours sit between
\* the channels on offer, and say nothing of their airtime.
FewAirs == {
  <<Neighbour(149, 62), Neighbour(153, 60), Neighbour(157, 64), Neighbour(161, 66), Own(161),
    Wide(44, 42, 200), Neighbour(165, 100), Neighbour(4, -1), Paired(8, "above")>>}
=============================================================================
