---------------------------- MODULE ChannelTable ----------------------------
(***************************************************************************)
(* The channels an access point may be put on, and the hostapd parameters  *)
(* that put it there (radioctl.go, setChannelCommands in radiopower.go).   *)
(*                                                                         *)
(* hostapd keeps every parameter until it is set again, accepts each SET   *)
(* on its own, and refuses the whole ENABLE when they contradict one       *)
(* another (Coherent).                                                     *)
(***************************************************************************)
EXTENDS Integers, Sequences

\* apChannels: the three that do not overlap at 2.4 GHz, and the two blocks
\* of 80 MHz at 5 GHz that need no radar detection, with 165 on its own.
LowBlock  == {36, 40, 44, 48}
HighBlock == {149, 153, 157, 161}
Offered   == {1, 6, 11, 165} \cup LowBlock \cup HighBlock

Is24(c) == c <= 14

\* The side of the channel's 40 MHz partner, and the centre of its block.
SecOffset(c) ==
  CASE c \in {36, 44, 149, 157} -> 1
    [] c \in {40, 48, 153, 161} -> -1
    [] OTHER -> 0
Centre80(c) ==
  CASE c \in LowBlock -> 42 [] c \in HighBlock -> 155 [] OTHER -> 0

Partner(c) == c + 4 * SecOffset(c)
SameBlock(a, b) == Centre80(a) # 0 /\ Centre80(a) = Centre80(b)

MaxWidth(c) ==
  IF Is24(c) \/ SecOffset(c) = 0 THEN 20 ELSE IF Centre80(c) = 0 THEN 40 ELSE 80

\* chanSwitchCommand builds an announcement for these and for no other.
Announceable(c, w) == w \in {20, 40, 80} /\ w <= MaxWidth(c)

----------------------------------------------------------------------------
(* The parameters.  mode is the band hw_mode names; side, the HT40 flag in *)
(* ht_capab; the last four are the chwidths and centre indices of VHT and  *)
(* HE, each a parameter of its own.                                        *)

\* The order in which setChannelCommands sends them.
Order  == <<"mode", "vht", "channel", "side", "vhtWidth", "heWidth", "vhtCentre", "heCentre">>
Params == {Order[i] : i \in 1..8}

\* The parameters once every one of the commands is accepted.  Every one is
\* set, because what an earlier channel left behind fails the ENABLE.
Configured(c, w) ==
  LET narrow == Is24(c) \/ w < 40
      wide   == ~narrow /\ w >= 80
      side   == IF narrow THEN 0 ELSE SecOffset(c)
      centre == CASE wide -> Centre80(c) [] Is24(c) -> 0 [] OTHER -> c + 2 * side
      flag   == IF wide THEN 1 ELSE 0
  IN  [mode |-> IF Is24(c) THEN 2 ELSE 5, vht |-> IF Is24(c) THEN 0 ELSE 1,
       channel |-> c, side |-> side, vhtWidth |-> flag, heWidth |-> flag,
       vhtCentre |-> centre, heCentre |-> centre]

\* A plausible error: at 2.4 GHz the centre indices are skipped, not cleared.
MutantCentreKept(c, w) ==
  [i \in 1..(IF Is24(c) THEN 6 ELSE 8) |-> <<Order[i], Configured(c, w)[Order[i]]>>]

SetCommands(c, w) == [i \in 1..8 |-> <<Order[i], Configured(c, w)[Order[i]]>>]

\* What hostapd demands of the parameters before it brings an access point up.
Coherent(par) ==
  LET c == par.channel IN
  /\ par.mode = IF Is24(c) THEN 2 ELSE 5
  /\ Is24(c) => par.vht = 0
  /\ par.side \in {0, SecOffset(c)}
  /\ par.vhtWidth = par.heWidth /\ par.vhtCentre = par.heCentre
  /\ IF par.vhtWidth = 1
     THEN par.side # 0 /\ par.vhtCentre = Centre80(c)
     ELSE par.vhtCentre \in {0} \cup (IF Is24(c) THEN {} ELSE {c + 2 * par.side})

\* The width STATUS shows (apWidth).
WidthOf(par) ==
  IF par.vhtWidth = 1 \/ par.heWidth = 1 THEN 80 ELSE IF par.side # 0 THEN 40 ELSE 20

\* hostapd's coexistence scan found neighbours on the secondary channel and
\* exchanged it with the primary.
Swapped(par) ==
  [par EXCEPT !.channel = @ + 4 * par.side, !.side = -@]
\* A wider channel is not to be had, and hostapd falls back to 20 MHz.
Narrowed(par) ==
  [par EXCEPT !.side = 0, !.vhtWidth = 0, !.heWidth = 0,
              !.vhtCentre = par.channel, !.heCentre = par.channel]
=============================================================================
