------------------------------ MODULE MCShaper ------------------------------
(* Two clients, two bridge ports, the WAN port. *)
EXTENDS Shaper

Ask(a, p, d, u) == [addr |-> a, port |-> p, down |-> d, up |-> u]

\* One client may be anywhere on the bridge and change its address and both shapes.
MCAsks ==
  {Ask("a", "wlan", "low", "high"), Ask("b", "wlan", "low", "high"),
   Ask("a", "lan", "clean", "low"), Ask("a", "none", "high", "clean")}

\* A client on one port whose downlink shape changes.
MCSteadyPort ==
  {Ask("a", "lan", "low", "clean"), Ask("a", "lan", "high", "clean")}
=============================================================================
