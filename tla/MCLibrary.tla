----------------------------- MODULE MCLibrary ------------------------------
(***************************************************************************)
(* A library of three names on a box with two of three radios.  Patterns   *)
(* are a few seconds long: short enough that the floating point arithmetic *)
(* of MergePatterns is exact to the hundredth, long enough that one goes   *)
(* round once, another twice, and a third has to be stretched.             *)
(***************************************************************************)
EXTENDS Library

Rate(r) == [Clear EXCEPT !.rate = r]
Delay(d, j) == [Clear EXCEPT !.delay = d, !.jitter = j]
Key(at, s) == [at |-> at, shape |-> s]
On(iface, kind, at, dur) == [iface |-> iface, kind |-> kind, at |-> at, dur |-> dur]
Event(kind, at, dur) == [kind |-> kind, at |-> at, dur |-> dur]

Dip == [keys |-> <<Key(0, Rate(300)), Key(100, Rate(100)), Key(200, Rate(300))>>,
        links |-> <<Event("deauth", 150, 0)>>, radios |-> <<>>]
Squeeze == [keys |-> <<Key(0, Delay(0, 0)), Key(150, Delay(60, 25)), Key(300, Delay(0, 0))>>,
            links |-> <<>>, radios |-> <<On("w1", "radio-off", 100, 100)>>]
Old(p) == [p EXCEPT !.links = [i \in DOMAIN @ |-> [@[i] EXCEPT !.kind = "drop"]]]
MCAuthored == {Old(Dip), Squeeze}

Both == [keys |-> <<Key(0, Clear), Key(400, Clear)>>, links |-> <<>>,
         radios |-> <<On("w1", "radio-off", 0, 100), On("w2", "radio-off", 100, 100), On("w1", "gather", 300, 0)>>]
MCRadio == {Both, [Both EXCEPT !.radios = <<On("w3", "apdown", 50, 100)>>]}

MCNames == {"box", "mine"}
MCOldFile == [n \in MCNames |-> IF n = "box" THEN [Both EXCEPT !.radios[2].kind = "apdown"] ELSE Old(Dip)]
MCBuiltins == {"square_wave"}
Rung(cost, up) == [cost |-> cost, upAt |-> up]
MCLadders == {<<Rung(40, 70), Rung(200, 250)>>, <<Rung(29, 45)>>}
MCDocuments == {[patterns |-> [n \in {"mine"} |-> Squeeze], ladder |-> <<Rung(29, 45), Rung(90, 0)>>],
                [patterns |-> [n \in MCNames |-> Dip], ladder |-> NoLadder],
                [patterns |-> [n \in {"mine"} |-> [Dip EXCEPT !.keys[2].at = 130]], ladder |-> NoLadder]}
MCRadioOrder == <<"w1", "w2", "w3">>
MCStretches == {10, 15}
=============================================================================
