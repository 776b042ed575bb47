------------------------------ MODULE MCRadio ------------------------------
(* Small instances of Radio.  The cfg files choose what disturbs the radio. *)
EXTENDS Radio
=============================================================================
