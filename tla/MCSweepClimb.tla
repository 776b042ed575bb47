---------------------------- MODULE MCSweepClimb ----------------------------
EXTENDS SweepClimb

Up(ladder, gap) == Append(ladder, Times(Last(ladder), gap))
Longer(ladders) == {Up(l, gap) : l \in ladders, gap \in {1300, 1870}}
Four == Longer(Longer(Longer({<<320>>})))

\* Steady clients on every ladder of six with the gaps a real one was seen to have, and
\* unsteady ones on every ladder of four.
MCClients ==
  [ladder : Longer(Longer(Four)), wants : {1110, 1600, 1910}, steady : {TRUE}]
    \cup [ladder : Longer({<<320, 512>>}), wants : {1110, 1600}, steady : {FALSE}]
\* Twenty levels are more than a ladder of six takes.
MCParams == [DefaultSweepParams EXCEPT !.maxLevels = 20]
MCNoise == {970, 1030}
=============================================================================
