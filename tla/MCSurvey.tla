------------------------------ MODULE MCSurvey ------------------------------
(* Sweeps of the 5 GHz band, stanza by stanza.                              *)
EXTENDS Survey

CONSTANTS Primaries, Loads, Faint, MaxStanzas

VARIABLE heard

Init == heard = <<>>

\* One more neighbour at 20 MHz, heard at -dB dBm.
Hear(c, load, dB) ==
  /\ Len(heard) < MaxStanzas
  /\ heard' = Append(heard, [ours |-> FALSE, ch |-> c, ht |-> "none", vht |-> -1,
                             centre |-> 0, signal |-> -dB, load |-> load])

Next == \E c \in Primaries, load \in Loads, dB \in Faint : Hear(c, load, dB)
Spec == Init /\ [][Next]_heard

\* The loudness only parts channels that the airtime ties: the recommended channel
\* is as quiet as any of its band ("scaled small so it can only separate channels
\* the busy figure already ties", pickBestChannel).
QuietestWins == TiebreakOnly(heard, FALSE)
=============================================================================
