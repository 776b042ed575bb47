---------------------------- MODULE MCDenyClaims ----------------------------
(* Small instances of DenyClaims.  The cfg files choose the commands in use. *)
EXTENDS DenyClaims, TLC

ThreadSymmetry == Permutations(Clients) \cup Permutations(Ops) \cup Permutations(Zones)
=============================================================================
