------------------------------- MODULE Survey -------------------------------
(***************************************************************************)
(* What a sweep of the air is taken to say, and the channel it recommends  *)
(* (parseScan, summariseScan and pickBestChannel in radiopower.go).        *)
(*                                                                         *)
(* heard is the sequence of stanzas one sweep came back with.  Of a stanza *)
(* these elements matter: ours; ch, the channel (0 where none is known);   *)
(* ht, the side of its 40 MHz partner; vht, the width element or -1;       *)
(* centre; signal in dBm, 0 where it is not said; and load, the airtime in *)
(* 255ths, or -1.                                                          *)
(***************************************************************************)
EXTENDS ChannelTable, FiniteSetsExt

\* The elements of a stanza come in no certain order, and the result is the
\* same in each.  A width of 0 means 20 or 40, and 3, two
\* blocks, counts as the first of them.
WidthMHz(a) ==
  IF a.vht \in {1, 3} THEN 80
  ELSE IF a.vht = 2 THEN 160
  ELSE IF a.ht # "none" THEN 40 ELSE 20

Offsets(width) == {-6, -2, 2, 6} \cup IF width >= 160 THEN {-14, -10, 10, 14} ELSE {}

\* A plausible error (#180): a neighbour counts against the channel it beacons on.
MutantPrimaryOnly(a) == {a.ch}

\* The channels a neighbour's signal sits in; at 2.4 GHz its primary alone.
Covered(a) ==
  IF Is24(a.ch) THEN {a.ch}
  ELSE IF WidthMHz(a) >= 80 /\ a.centre > 0
       THEN {a.centre + o : o \in Offsets(WidthMHz(a))}
  ELSE IF WidthMHz(a) = 40 THEN {a.ch, IF a.ht = "above" THEN a.ch + 4 ELSE a.ch - 4}
  ELSE {a.ch}

----------------------------------------------------------------------------
(* The summary of one channel: the neighbours that reach it, what is heard *)
(* of those that beacon on it, and the airtime that any of them reports.   *)

Others(heard) == {i \in DOMAIN heard : ~heard[i].ours /\ heard[i].ch # 0}

Summarise(heard, c) ==
  LET primary == {i \in Others(heard) : heard[i].ch = c}
      within  == {i \in Others(heard) : c \in Covered(heard[i])}
  IN  [covering |-> primary \cup within,
       signals  |-> {heard[i].signal : i \in primary} \ {0},
       \* measured by a neighbour that covers the channel, its own included
       loads    |-> {heard[i].load : i \in within} \ {-1}]

\* At 2.4 GHz a channel competes with its four neighbours on either side.
Window(c) == IF Is24(c) THEN (c - 4)..(c + 4) ELSE {c}

\* How many neighbours cost the channel airtime, and the loudest of them.  The sum
\* over a window has each of them once, at 2.4 GHz on the channel it beacons on.
Competing(heard, c) == Cardinality(UNION {Summarise(heard, d).covering : d \in Window(c)})
Loudest(heard, c) ==
  LET said == UNION {Summarise(heard, d).signals : d \in Window(c)}
  IN  IF said = {} THEN 0 ELSE Max(said)

\* How busy the channel's air is, in hundredths of a per cent (times 255):
\* measured where a neighbour reports it, the highest counts; else some 20 points
\* a neighbour.
Busy(heard, c) ==
  LET loads == Summarise(heard, c).loads
  IN  IF Competing(heard, c) = 0 THEN 0
      ELSE IF loads # {} THEN Max(loads) * 10000
      ELSE Min({90, 20 * Competing(heard, c)}) * 25500

\* The loudness is meant to part channels that are equally busy.
Score(heard, c) == Busy(heard, c) + (Loudest(heard, c) + 100) * 255

\* The lowest channel of the radio's band with the lowest score.
PickBestChannel(heard, band24) ==
  LET candidates == {c \in Offered : Is24(c) = band24}
      least == Min({Score(heard, c) : c \in candidates})
  IN  Min({c \in candidates : Score(heard, c) = least})

----------------------------------------------------------------------------
(* The same, said from the spectrum, to judge the recommendation by.       *)

\* A channel's centre and a neighbour's edges, in MHz above 5000 or 2407.
Mhz(c) == 5 * c
Edges(a) ==
  LET w   == WidthMHz(a)
      mid == IF w >= 80 /\ a.centre > 0 THEN Mhz(a.centre)
             ELSE IF w = 40 THEN Mhz(a.ch) + (IF a.ht = "above" THEN 10 ELSE -10)
             ELSE Mhz(a.ch)
      half == IF w >= 80 /\ a.centre = 0 THEN 10 ELSE w \div 2
  IN  <<mid - half, mid + half>>

\* The neighbours whose spectrum holds the channel's centre, or, at 2.4 GHz,
\* overlaps the channel.
Occupants(heard, c) ==
  {i \in Others(heard) :
     LET a == heard[i] IN
     /\ Is24(a.ch) = Is24(c)
     /\ IF Is24(c) THEN a.ch \in (c - 4)..(c + 4)
        ELSE Edges(a)[1] < Mhz(c) /\ Mhz(c) < Edges(a)[2]}

\* The airtime of a channel in 255ths of a per cent, by what its occupants say.
Airtime(heard, c) ==
  LET who  == Occupants(heard, c)
      said == {heard[i].load : i \in {j \in who : Is24(c) => heard[j].ch = c}} \ {-1}
  IN  IF said # {} THEN 100 * Max(said) ELSE 255 * Min({90, 20 * Cardinality(who)})

\* A recommended channel is of the radio's band, and no other channel of it is
\* quieter by a point or more, whichever of its neighbours beacons where
\* (pickBestChannel; the scan's apply, #180).
RecommendsQuiet(heard, band24, best) ==
  /\ best \in Offered /\ Is24(best) = band24
  /\ \A c \in Offered : Is24(c) = band24 =>
       Airtime(heard, best) < Airtime(heard, c) + 255

\* What the comment of pickBestChannel says, and it does not do (README): the
\* loudness only parts channels that the airtime ties.
TiebreakOnly(heard, band24) ==
  \A c \in Offered : Is24(c) = band24 =>
    Airtime(heard, PickBestChannel(heard, band24)) <= Airtime(heard, c)
=============================================================================
