------------------------------ MODULE Timeline ------------------------------
(***************************************************************************)
(* What is done to whole patterns (patternlib.go, pattern.go,              *)
(* patternnames.go, patternradios.go): generating them from a ladder,      *)
(* stretching, merging, renaming kinds and radios, and what makes one      *)
(* playable.  Times are hundredths of a second, the grid round2 keeps      *)
(* merged times on; of a shape's axes those that a rule ties together, and *)
(* the two that patterns drive most; of the two directions, treated alike, *)
(* one.  The order of events within a lane says nothing here.              *)
(***************************************************************************)
EXTENDS Naturals, FiniteSets, SequencesExt

CONSTANTS
  MaxKeys, MaxAt,\* maxKeys, and maxPatternSec in hundredths
  MinRadioOff, MinAPDown, \* minRadioOffSec and minAPDownSec
  MaxMove,       \* the longest pin or evict
  Half           \* hundredths in the half second that throughput can show

Axes == {"rate", "delay", "jitter", "loss", "reorder"}

Clear == [a \in Axes |-> 0]   \* zero: no conditioning of this kind

\* What an event of a client's lane does, and what one of a radio's.
LinkKinds == {"deauth", "disassoc", "deadzone", "pin", "evict"}
RadioKinds == {"gather", "evict", "deauth", "radio-off", "disable-ap", "deauth-disable-ap",
               "txpower", "scan"}

\* legacyKinds: what each kind an older build wrote is called now.
OldNames == {"drop", "nudge", "off", "apdown", "ap-down"}
CurrentName == [k \in OldNames |->
  CASE k = "drop" -> "deauth"
    [] k = "nudge" -> "disassoc"
    [] k = "off" -> "radio-off"
    [] k \in {"apdown", "ap-down"} -> "disable-ap"]

\* A pattern: its keyframes, which hold, and its link and radio events.  What is on disk or
\* sent may still use the old kinds.
Keyframes == [at : Nat, shape : [Axes -> Nat]]
LinkEvents == [kind : LinkKinds \union DOMAIN CurrentName, at : Nat, dur : Nat]
RadioEvents(ifaces) ==
  [iface : ifaces, kind : RadioKinds \union DOMAIN CurrentName, at : Nat, dur : Nat]
PatternsOf(ifaces) ==
  [keys : Seq(Keyframes), links : Seq(LinkEvents), radios : Seq(RadioEvents(ifaces))]

DurSec(p) == IF p.keys = <<>> THEN 0 ELSE Last(p.keys).at

RoundDiv(n, d) == (2 * n + d) \div (2 * d)

-----------------------------------------------------------------------------
(* validShape and validPattern. *)

ValidShape(s) == s.jitter <= s.delay /\ s.loss <= 100 /\ (s.reorder > 0 => s.delay > 0)

\* How long each kind of event may last: a pulse no time at all, a deadzone some, a cut
\* radio as long as a client takes to notice, an access point as long as it takes to return.
LinkSpan == [k \in LinkKinds |->
  CASE k \in {"deauth", "disassoc"} -> 0..MaxAt
    [] k = "deadzone" -> 1..MaxAt
    [] k \in {"pin", "evict"} -> 0..MaxMove]
RadioSpan == [k \in RadioKinds |->
  CASE k = "radio-off" -> MinRadioOff..MaxAt
    [] k \in {"disable-ap", "deauth-disable-ap"} -> MinAPDown..MaxAt
    [] OTHER -> {0}]

ValidEvent(e, span) == e.kind \in DOMAIN span /\ e.at <= MaxAt /\ e.dur \in span[e.kind]

Playable(p) ==
  /\ Len(p.keys) \in 2..MaxKeys /\ p.keys[1].at = 0
  /\ \A i \in 2..Len(p.keys) : p.keys[i - 1].at < p.keys[i].at
  /\ \A i \in 1..Len(p.keys) :
       p.keys[i].at % Half = 0 /\ p.keys[i].at <= MaxAt /\ ValidShape(p.keys[i].shape)
  /\ \A i \in 1..Len(p.links) : ValidEvent(p.links[i], LinkSpan)
  /\ \A i \in 1..Len(p.radios) : ValidEvent(p.radios[i], RadioSpan)

\* What is in force at the moment num / den.
AtMoment(p, num, den) ==
  p.keys[CHOOSE i \in 1..Len(p.keys) :
    /\ p.keys[i].at * den <= num
    /\ \A j \in i + 1..Len(p.keys) : num < p.keys[j].at * den].shape

-----------------------------------------------------------------------------
(* Stretching, by a factor in tenths.  The lanes of events are left as they are. *)

MutantStretched(p, tenths) ==
  [p EXCEPT !.keys = [i \in DOMAIN p.keys |->
     [p.keys[i] EXCEPT !.at = RoundDiv(p.keys[i].at * tenths, 10)]]]

Stretched(p, tenths) ==
  [p EXCEPT !.keys = [i \in DOMAIN p.keys |->
     [p.keys[i] EXCEPT !.at = RoundDiv(p.keys[i].at * tenths, 10 * Half) * Half]]]

Stretchable(p, tenths) ==
  /\ tenths \in 1..200
  /\ tenths # 10 =>
       LET q == Stretched(p, tenths) IN
       /\ \A i \in 2..Len(q.keys) : q.keys[i - 1].at < q.keys[i].at
       /\ DurSec(q) <= MaxAt

StretchPattern(p, tenths) == IF tenths = 10 THEN p ELSE Stretched(p, tenths)

-----------------------------------------------------------------------------
(* Merging.  Length and repetitions come first: a source of length d that goes round n times *)
(* in total is stretched by total / (n * d).                                                 *)

Reps(total, d) == IF total \div d < 1 THEN 1 ELSE total \div d
\* The worst stretch is at most the other's, as a comparison of fractions.
NoWorse(durs, s, t) ==
  \A i \in DOMAIN durs : \E j \in DOMAIN durs :
    s * Reps(t, durs[j]) * durs[j] <= t * Reps(s, durs[i]) * durs[i]

\* Whole multiples of a source's own length, from the longest source to half as long again.
MergeLengths(durs) ==
  LET longest == Max(ToSet(durs)) IN
  {t \in UNION {{k * d : k \in 1..((3 * longest) \div (2 * d))} : d \in ToSet(durs)} : t >= longest}

MergeLength(durs) ==
  CHOOSE t \in MergeLengths(durs) : \A s \in MergeLengths(durs) :
    NoWorse(durs, t, s) /\ (NoWorse(durs, s, t) => t <= s)

\* The first source to set an axis owns it.
FillZeroFields(shapes) ==
  [a \in Axes |->
     LET set == {i \in DOMAIN shapes : shapes[i][a] # 0}
     IN  IF set = {} THEN 0 ELSE shapes[CHOOSE i \in set : \A j \in set : i <= j][a]]

\* The moment at of the cycle after r whole ones, in merged time.
Laid(total, n, d, r, at) == RoundDiv((r * d + at) * total, n * d)

Ascending(S) == [k \in 1..Cardinality(S) |-> CHOOSE t \in S : Cardinality({s \in S : s < t}) = k - 1]

\* An event of a source in each of its cycles; one that lands on the seam or past it is dropped.
Repeated(lane, total, d) ==
  LET n == Reps(total, d)
      k == Len(lane)
      all == [i \in 1..(n * k) |->
                LET e == lane[((i - 1) % k) + 1] IN
                [e EXCEPT !.at = Laid(total, n, d, (i - 1) \div k, e.at),
                          !.dur = RoundDiv(e.dur * total, n * d)]]
      kept == Ascending({i \in 1..(n * k) : all[i].at < total})
  IN  [j \in DOMAIN kept |-> all[kept[j]]]

MergeLanes(lanes, total, durs) ==
  FlattenSeq([i \in DOMAIN lanes |-> Repeated(lanes[i], total, durs[i])])

\* Two blocks that hold the same radio at once.
Fight(e, f) == e.iface = f.iface /\ e.dur > 0 /\ f.dur > 0 /\ e.at <= f.at /\ f.at < e.at + e.dur
NoOverlappingBlocks(lane) == ~\E i, j \in DOMAIN lane : i # j /\ Fight(lane[i], lane[j])

\* When a source changes, over the cycles given.
Changes(p, total, d, cycles) ==
  {Laid(total, Reps(total, d), d, r, p.keys[k].at) : r \in cycles, k \in DOMAIN p.keys}

MutantMergedTimes(pats, total, durs) ==
  {0, total} \union
  {t \in UNION {Changes(pats[i], total, durs[i], {0}) : i \in DOMAIN pats} : 0 < t /\ t < total}

MergedTimes(pats, total, durs) ==
  {0, total} \union
  {t \in UNION {Changes(pats[i], total, durs[i], 0..(Reps(total, durs[i]) - 1)) : i \in DOMAIN pats} :
     0 < t /\ t < total}

\* Each source's own phase: merged time undone by its stretch and wrapped into one of its
\* cycles; the seam repeats the start.
PhaseShape(p, total, t) ==
  LET d == DurSec(p)  IN
  AtMoment(p, IF t >= total THEN 0 ELSE (t * Reps(total, d) * d) % (d * total), total)

MergePatterns(pats) ==
  LET durs  == [i \in DOMAIN pats |-> DurSec(pats[i])]
      total == MergeLength(durs)
      times == Ascending(MergedTimes(pats, total, durs))
  IN  [keys   |-> [k \in DOMAIN times |->
                     [at |-> times[k], shape |-> FillZeroFields([i \in DOMAIN pats |-> PhaseShape(pats[i], total, times[k])])]],
       links  |-> MergeLanes([i \in DOMAIN pats |-> pats[i].links], total, durs),
       radios |-> MergeLanes([i \in DOMAIN pats |-> pats[i].radios], total, durs)]

\* What is refused: sources without a length, blocks that fight, and what is then no pattern.
Layered(pats, merged) ==
  /\ Len(pats) >= 2 /\ \A i \in DOMAIN pats : DurSec(pats[i]) > 0
  /\ NoOverlappingBlocks(merged.radios) /\ Playable(merged)

-----------------------------------------------------------------------------
(* Built-in patterns.  Rates and costs are hundredths of a megabit, reordering tenths of a percent. *)

OutAndBack(s) == s \o Tail(Reverse(s))
Walk(shapes, dwell) ==
  [keys |-> [i \in DOMAIN shapes |-> [at |-> (i - 1) * dwell, shape |-> shapes[i]]],
   links |-> <<>>, radios |-> <<>>]

\* A ladder is a sequence of these, listed as LadderPattern sorts them, cheapest first.
Rungs == [cost : Nat, upAt : Nat]

\* A rung of the ladder is held by the cap seen to select it, or by headroom over its cost.
CapFor(r) == IF r.upAt > 0 THEN r.upAt ELSE RoundDiv(r.cost * 135, 100)
TopCapFor(r) == Max({CapFor(r), RoundDiv(r.cost * 3, 2)})
Caps(rungs) ==
  [i \in DOMAIN rungs |-> IF i = Len(rungs) THEN TopCapFor(rungs[i]) ELSE CapFor(rungs[i])]

\* From 0.4 Mbps up, each half as much again, to 9.
DefaultLadder == [i \in 1..8 |-> [cost |-> <<40, 60, 90, 135, 203, 304, 456, 683>>[i], upAt |-> 0]]

\* The walks over a ladder's caps, lowest first.
Walks == {"pyramid", "valley", "ramp_up", "ramp_down", "square_wave", "transient_shock"}
LadderWalk(name, caps) ==
  LET down == Reverse(caps)  top == Last(caps) IN
  CASE name = "pyramid" -> OutAndBack(caps)
    [] name = "valley" -> OutAndBack(down)
    [] name = "ramp_up" -> Append(caps, caps[1])
    [] name = "ramp_down" -> Append(down, down[1])
    [] name = "square_wave" -> <<caps[1], top, caps[1]>>
    [] name = "transient_shock" ->
         [i \in 1..(2 * Len(caps) - 1) |-> IF i % 2 = 1 THEN top ELSE down[(i \div 2) + 1]]

Blackhole(clearFor, darkFor) ==
  [keys |-> <<[at |-> 0, shape |-> Clear], [at |-> clearFor, shape |-> [Clear EXCEPT !.loss = 100]],
              [at |-> clearFor + darkFor, shape |-> Clear]>>,
   links |-> <<>>, radios |-> <<>>]

LinkPattern(event, length) ==
  [keys |-> <<[at |-> 0, shape |-> Clear], [at |-> length, shape |-> Clear]>>,
   links |-> <<event>>, radios |-> <<>>]

Climb(axis, steps) == [i \in DOMAIN steps |-> [Clear EXCEPT ![axis] = steps[i]]]
DelaySteps ==
  LET jitter == <<0, 1, 4, 8, 25, 40, 20>> IN
  [i \in 1..7 |-> [Climb("delay", <<0, 4, 15, 25, 60, 100, 300>>)[i] EXCEPT !.jitter = jitter[i]]]
\* Packets reorder by skipping the delay queue, so there has to be one.
ReorderSteps ==
  LET delay == <<0, 20, 20, 20, 20>> IN
  [i \in 1..5 |-> [Climb("reorder", <<0, 1, 5, 10, 30>>)[i] EXCEPT !.delay = delay[i]]]

\* Those that need no ladder, ...  (Left out: the climbs of loss and corruption, which differ in
\* their axis and numbers, and the walkabout, computed from a model of attenuation.)
Fixed == [blackhole   |-> Blackhole(5000, 1000),
          drop_1m     |-> LinkPattern([kind |-> "deauth", at |-> 3000, dur |-> 0], 6000),
          nudge_1m    |-> LinkPattern([kind |-> "disassoc", at |-> 3000, dur |-> 0], 6000),
          deadzone_1m |-> LinkPattern([kind |-> "deadzone", at |-> 5000, dur |-> 1000], 6000)]
\* ... of which two climb by steps of their own.
ClimbSteps == [delay_climb |-> DelaySteps, reorder_climb |-> ReorderSteps]

Builtins == DOMAIN Fixed \union DOMAIN ClimbSteps \union Walks
LadderPattern(name, rungs, dwell) ==
  IF name \in DOMAIN Fixed THEN Fixed[name]
  ELSE Walk(IF name \in DOMAIN ClimbSteps THEN OutAndBack(ClimbSteps[name])
            ELSE Climb("rate", LadderWalk(name, Caps(rungs))), dwell)

-----------------------------------------------------------------------------
(* Old names, and radios that are gone. *)

Renamed(lane) ==
  [i \in DOMAIN lane |->
     [lane[i] EXCEPT !.kind = IF @ \in DOMAIN CurrentName THEN CurrentName[@] ELSE @]]
NormalisePattern(p) ==
  [keys |-> p.keys, links |-> Renamed(p.links), radios |-> Renamed(p.radios)]

PatternRadios(p) == {p.radios[i].iface : i \in DOMAIN p.radios}
OrphanedRadios(p, have) == PatternRadios(p) \ have

\* Of two sets of radios, those in the same place by name; order is the sorted list of all.
Place(w, S, order) ==
  Cardinality({v \in S : \E i, j \in DOMAIN order : i < j /\ order[i] = v /\ order[j] = w})

\* A radio that is gone gives its lane to the spare one in its place, if there is one.
Heir(w, gone, spare, order) ==
  LET same == {v \in spare : Place(v, spare, order) = Place(w, gone, order)}
  IN  IF w \in gone /\ same # {} THEN CHOOSE v \in same : TRUE ELSE w

\* The events of a lane, each handed on to its radio's heir.
HandedOn(lane, gone, spare, order) ==
  [i \in DOMAIN lane |-> [lane[i] EXCEPT !.iface = Heir(lane[i].iface, gone, spare, order)]]

MutantReconciled(p, have, order) ==
  [p EXCEPT !.radios = HandedOn(p.radios, OrphanedRadios(p, have), have, order)]

\* reconcileAdapterPattern: the radios that are gone, in order, take the names of those that
\* no event names.
Reconciled(p, have, order) ==
  [p EXCEPT !.radios = HandedOn(p.radios, OrphanedRadios(p, have), have \ PatternRadios(p), order)]
=============================================================================
