----------------------------- MODULE SweepClimb -----------------------------
(***************************************************************************)
(* How a sweep finds the bitrates a client will play (sweep.go): one level *)
(* with no cap to learn the ceiling, then a cap raised level by level so   *)
(* that one more rendition comes within reach, until the ceiling is met.   *)
(*                                                                         *)
(* Rates are in kbps, ratios and shares in thousandths.  Time is in the    *)
(* order of the steps: a level is dwelt on, then judged.  The client, its  *)
(* renditions and what it wants before it takes one, is the environment.   *)
(***************************************************************************)
EXTENDS Integers, SequencesExt

CONSTANTS
  Clients,     \* the renditions a client has, ascending; the cap it wants over the rate
               \*   of one before taking it; whether it is steady
  Noise,       \* what a window shows of a rate
  Params       \* SweepParams

ASSUME ClientAssumption ==
  /\ Noise \subseteq Nat
  /\ Clients \subseteq [ladder : Seq(Nat \ {0}), wants : Nat, steady : BOOLEAN]
  /\ \A c \in Clients : Len(c.ladder) > 0 /\ \A i, j \in 1..Len(c.ladder) : i < j => c.ladder[i] < c.ladder[j]

\* The times a level takes are left out.
SweepParams ==
  [start : Nat, climbPct : Nat, newRungPct : Nat, skipRatio : Nat, minStep : Nat,
   mergePct : Nat, maxLevels : Nat]
Within(x, low, high) == low <= x /\ x <= high
ValidSweepParams(p) ==
  /\ Within(p.start, 1, 100000) /\ Within(p.climbPct, 5, 100) /\ Within(p.newRungPct, 1, 100)
  /\ Within(p.skipRatio, 1100, 10000) /\ Within(p.minStep, 1, 10000)
  /\ Within(p.mergePct, 0, 25) /\ Within(p.maxLevels, 2, 200)

RungMergeDefault == 10
DefaultSweepParams ==
  [start |-> 300, climbPct |-> 45, newRungPct |-> 20, skipRatio |-> 1900, minStep |-> 250,
   mergePct |-> RungMergeDefault, maxLevels |-> 40]

ASSUME ParamsAssumption == Params \in SweepParams /\ ValidSweepParams(Params)

VARIABLES
  client,  \* of Clients
  plays,   \* the rendition it plays, or 0 when not even the first fits
  run      \* sweepRun

climbVars == <<client, plays, run>>

\* A rung as it is known so far, and the run: level by level, first without a cap.
Rungs == [rate : Nat \ {0}, upAt : Nat, downAt : Nat, suspect : BOOLEAN]
Runs ==
  [phase : {"ceiling", "climb"}, level : 0..Params.maxLevels - 1, cap : Nat, observing : BOOLEAN,
   pinned : BOOLEAN, limited : BOOLEAN, ceiling : Nat, current : Nat, rungs : Seq(Rungs),
   holds : Nat, state : {"running", "done", "failed"}, stored : BOOLEAN,
   reason : {"", "levels", "ceiling", "past", "stopped", "no traffic", "samples", "left"}]

Times(x, ratio) == (x * ratio) \div 1000
Over(x, y) == (x * 1000) \div y
Higher(x, y) == IF x > y THEN x ELSE y
Lower(x, y) == IF x < y THEN x ELSE y

\* The constants of sweep.go.
PinnedToCap == 970
MergeFloor == 20
DefaultSpacing == 1450
DefaultHeadroom == 1250
CreepStep == 1220
CapHolds == 2
StarvedDuty == 960

-----------------------------------------------------------------------------
(* What the run has learned. *)

\* lowPct of the values a function takes: a quarter of the way up.
LowPct(f) ==
  Min({v \in Range(f) :
         Cardinality({i \in DOMAIN f : f[i] <= v}) > (Cardinality(DOMAIN f) - 1) \div 4})

\* headroomFactor: how much more than a rung's cost the client wanted; the first rung was
\* fallen to, not climbed into.
HeadroomFactor(r) ==
  LET taken == {i \in 2..Len(r.rungs) : r.rungs[i].upAt > 0}
      ratio == [i \in taken |-> Over(r.rungs[i].upAt, r.rungs[i].rate)]
  IN  IF taken = {} THEN DefaultHeadroom
      ELSE Higher(1200, Lower(2500, LowPct(ratio)))

\* trustedRatios: the gaps that were not flagged.
Ratio(r, i) == Over(r.rungs[i].rate, r.rungs[i - 1].rate)
Trusted(r) ==
  {i \in 2..Len(r.rungs) : ~r.rungs[i].suspect /\ r.rungs[i].rate > r.rungs[i - 1].rate}

Calibrated(r) == \E i, j, k \in Trusted(r) : i < j /\ j < k

SuspectAbove(r) ==
  LET gaps == {Ratio(r, i) : i \in Trusted(r)}
  IN  IF gaps = {} THEN Params.skipRatio ELSE Higher(Params.skipRatio, Times(Max(gaps), 1400))

MinRatio(r) == Min({Ratio(r, i) : i \in Trusted(r)})

SpacingEstimate(r) ==
  IF Trusted(r) = {} THEN DefaultSpacing ELSE LowPct([i \in Trusted(r) |-> Ratio(r, i)])

-----------------------------------------------------------------------------
(* Where the cap goes next. *)

\* 1.35 for each level the cap was held at.
Widened[holds \in Nat] == IF holds = 0 THEN 1000 ELSE Times(Widened[holds - 1], 1350)

RaiseFromCap(r) == Higher(Times(r.cap, 1000 + 10 * Params.climbPct), r.cap + Params.minStep)

MutantCreep(r) == Higher(Times(Higher(r.cap, r.current), CreepStep), r.cap + Params.minStep)

\* Until three gaps are known the cap creeps, and so always rises.
Creep(r) == Higher(Times(Higher(r.cap, r.current), CreepStep), r.cap + MergeFloor)

\* Where the next rung should be and what the client will want for it, short of what the
\* one after it would take.
Target(r) ==
  LET head == HeadroomFactor(r)
      aim == Times(Times(Times(Times(r.current, SpacingEstimate(r)), Widened[r.holds]), head), 1020)
      lid == Times(Times(Times(Times(r.current, MinRatio(r)), MinRatio(r)), head), 980)
  IN  Lower(aim, lid)

\* nextCap: the cap, and for how many levels it has been held.
NextCap(r) ==
  CASE r.current = 0 -> [cap |-> RaiseFromCap(r), holds |-> r.holds]
    [] r.current > 0 /\ ~Calibrated(r) -> [cap |-> Creep(r), holds |-> 0]
    [] r.current > 0 /\ Calibrated(r) /\ Target(r) > r.cap -> [cap |-> Target(r), holds |-> 0]
    [] OTHER -> [cap |-> IF r.holds < CapHolds THEN r.cap ELSE RaiseFromCap(r),
                 holds |-> r.holds + 1]

-----------------------------------------------------------------------------
(* How a level ends. *)

Finish(r, reason) == [r EXCEPT !.state = "done", !.reason = reason]
Fail(r, reason) == [r EXCEPT !.state = "failed", !.reason = reason]

SetCap(r, cap) ==
  [r EXCEPT !.level = @ + 1, !.cap = cap, !.observing = FALSE, !.pinned = FALSE]

\* The cap the top rendition may need, and some.
CapLimit(r) == Times(Times(r.ceiling, HeadroomFactor(r)), 1300)

\* nextLevel; with no reason to stop, the cap is raised.
NextLevel(r) ==
  CASE r.level + 1 >= Params.maxLevels -> Finish(r, "levels")
    [] r.level + 1 < Params.maxLevels /\ r.current >= Times(r.ceiling, 1000 - 10 * Params.newRungPct) ->
         Finish(r, "ceiling")
    [] OTHER -> IF NextCap(r).cap > CapLimit(r)
                THEN Finish([r EXCEPT !.holds = NextCap(r).holds], "past")
                ELSE SetCap([r EXCEPT !.holds = NextCap(r).holds], NextCap(r).cap)

\* addRung: a rate close to a rung's is that rung; the one that drifted less stands.
Merges(r, rate) ==
  {i \in 1..Len(r.rungs) :
     Higher(rate - r.rungs[i].rate, r.rungs[i].rate - rate) <
       Higher(MergeFloor, (r.rungs[i].rate * (IF Params.mergePct = 0 THEN RungMergeDefault ELSE Params.mergePct)) \div 100)}

MutantAddRung(r, rate, cleaner) ==  \* the cap recorded is the one the level ends with
  [r EXCEPT !.rungs = Append(@, [rate |-> rate, upAt |-> NextCap(r).cap, downAt |-> 0,
                                suspect |-> FALSE])]

AddRung(r, rate, cleaner) ==
  IF Merges(r, rate) # {}
  THEN [r EXCEPT !.rungs[Min(Merges(r, rate))].rate = IF cleaner THEN rate ELSE @]
  ELSE LET last == Len(r.rungs)
           left == [i \in 1..last |-> IF i = last THEN [r.rungs[i] EXCEPT !.downAt = r.cap]
                                      ELSE r.rungs[i]]
       IN  [r EXCEPT !.rungs =
              Append(left, [rate |-> rate, upAt |-> r.cap, downAt |-> 0, suspect |-> FALSE])]

\* The client has risen: the rung is recorded, and doubted if the jump was wide.
Climbed(r, rate, cleaner) ==
  LET new == [AddRung(r, rate, cleaner) EXCEPT !.current = rate, !.holds = 0]
      wide == r.current > 0 /\ rate > Times(r.current, SuspectAbove(new))
  IN  IF wide THEN [new EXCEPT !.rungs[Len(new.rungs)].suspect = TRUE] ELSE new

-----------------------------------------------------------------------------
(* The client. *)

Top == Len(client.ladder)
Fits(i) == run.cap = 0 \/ client.ladder[i] <= run.cap
Takes == {i \in 1..Top : run.cap = 0 \/ client.ladder[i] * client.wants <= run.cap * 1000}
Bottom == IF Fits(1) THEN 1 ELSE 0
Best == Max(Takes \cup {Bottom})

\* A steady client has taken the best it accepts by the end of a dwell; another may not.
MayTake == IF client.steady THEN {Best} ELSE Bottom..Best

Shown(n) == Times(client.ladder[plays], n)

\* The rates a window may show: what nothing fits takes the whole cap, or just less while
\* it fetches without pause.
Rates ==
  IF plays = 0
  THEN {run.cap} \cup (IF run.pinned THEN {Times(run.cap, 955)} ELSE {})
  ELSE {IF run.cap = 0 THEN Shown(n) ELSE Lower(Shown(n), run.cap) : n \in Noise}

\* Whether the samples show it fetching without pause: starved or not, it may look as if it
\* paused, and an unsteady one may never fill its buffer.
Fetching(i) ==
  IF i = 0 \/ ~client.steady THEN BOOLEAN
  ELSE {run.cap > 0 /\ client.ladder[i] * 1000 > StarvedDuty * run.cap}

\* ready, when the dwell is up: the client is in steady state, or patience runs out on one
\* that fetches or hunts between renditions.
Ready(i) == {IF f THEN "fetching" ELSE "steady" : f \in Fetching(i)}
              \cup IF client.steady THEN {} ELSE {"moving"}

-----------------------------------------------------------------------------
ClimbInit ==
  /\ client \in Clients /\ plays = 0
  /\ run = [phase |-> "ceiling", level |-> 0, cap |-> 0, observing |-> FALSE, pinned |-> FALSE,
            limited |-> FALSE, ceiling |-> 0, current |-> 0, rungs |-> <<>>, holds |-> 0,
            state |-> "running", reason |-> "", stored |-> FALSE]

Climbing == run.state = "running"

\* advanceDwell, when the client is ready or patience has run out.
Dwell ==
  /\ Climbing /\ ~run.observing
  /\ UNCHANGED client
  /\ \E i \in MayTake : \E seen \in Ready(i) :
       /\ plays' = i
       /\ run' = [run EXCEPT !.observing = TRUE, !.pinned = (seen = "fetching"),
                             !.limited = @ \/ (seen = "fetching" /\ run.phase = "ceiling")]

Judging(phase) == Climbing /\ run.observing /\ run.phase = phase /\ UNCHANGED <<client, plays>>

JudgeCeiling(rate) ==
  /\ Judging("ceiling")
  /\ run' = SetCap([run EXCEPT !.phase = "climb", !.ceiling = rate], Params.start)

MutantStarved(rate) == run.pinned

Starved(rate) == run.pinned \/ rate >= Times(run.cap, PinnedToCap)

JudgeStarved(rate) ==
  /\ Judging("climb") /\ Starved(rate)
  /\ run' = NextLevel(run)

Risen(rate) == run.current = 0 \/ rate > Times(run.current, 1000 + 10 * Params.newRungPct)

JudgeClimbed(rate) ==
  /\ Judging("climb") /\ ~Starved(rate) /\ Risen(rate)
  /\ \E cleaner \in BOOLEAN : run' = NextLevel(Climbed(run, rate, cleaner))

JudgeSame(rate) ==
  /\ Judging("climb") /\ ~Starved(rate) /\ ~Risen(rate)
  /\ run' = NextLevel(run)

\* The client stopped playing.
JudgeSilent ==
  \/ Judging("ceiling") /\ run' = Fail(run, "no traffic")
  \/ Judging("climb") /\ run' = Finish(run, "stopped")

\* The telemetry has gaps.
JudgeNothing ==
  /\ \E phase \in {"ceiling", "climb"} : Judging(phase)
  /\ run' = Fail(run, "samples")

\* Gone from the network, or stopped by the operator.
Leave ==
  /\ Climbing
  /\ run' = Fail(run, "left")
  /\ UNCHANGED <<client, plays>>

\* What a sweep that is done hands over: the rungs from the bottom up, the one the link set
\* marked as unsure.
Below(r, i) ==
  {j \in 1..Len(r.rungs) : \/ r.rungs[j].rate < r.rungs[i].rate
                           \/ r.rungs[j].rate = r.rungs[i].rate /\ j < i}

Ladder(r) ==
  [k \in 1..Len(r.rungs) |->
     LET m == r.rungs[CHOOSE i \in 1..Len(r.rungs) : Cardinality(Below(r, i)) = k - 1]
     IN  [rate |-> m.rate, upAt |-> m.upAt, downAt |-> m.downAt,
          unsure |-> r.limited /\ m.rate = r.ceiling]]

TakeLadder ==
  /\ run.state = "done" /\ ~run.stored
  /\ run' = [run EXCEPT !.stored = TRUE]
  /\ UNCHANGED <<client, plays>>

Judge(rate) == JudgeCeiling(rate) \/ JudgeStarved(rate) \/ JudgeClimbed(rate) \/ JudgeSame(rate)

ClimbNext ==
  \/ Dwell \/ JudgeSilent \/ JudgeNothing \/ Leave \/ TakeLadder
  \/ run.observing /\ \E rate \in Rates : Judge(rate)

ClimbSpec == ClimbInit /\ [][ClimbNext]_climbVars

-----------------------------------------------------------------------------
ClimbTypeOK ==
  client \in Clients /\ plays \in 0..Top /\ run \in Runs

\* The renditions a rung may stand for, as near as a window shows a rate.
Renditions(rung) == {i \in 1..Top : \E n \in Noise : rung.rate = Times(client.ladder[i], n)}

\* Every rung is a rendition the client has, none twice and in ascending order: not the
\* cap, not a starved client's share of it, not one rendition measured twice.
RungsAreRenditions == \A k \in 1..Len(run.rungs) :
  /\ Renditions(run.rungs[k]) # {}
  /\ k > 1 => Max(Renditions(run.rungs[k - 1])) < Min(Renditions(run.rungs[k]))

\* "The cap that produces a given rendition is the useful number": the cap kept with a
\* rung is one that puts a steady client on that rendition, neither below nor above it, so
\* that a pattern made from the ladder plays what it says (Rung.UpAtMbps, capFor).
Admitted(cap) == {i \in 1..Top : client.ladder[i] * client.wants <= cap * 1000}
CapsProduceTheirRungs == client.steady /\ run.stored =>
  LET ladder == Ladder(run)
  IN  \A k \in DOMAIN ladder : Max(Admitted(ladder[k].upAt) \cup {1}) \in Renditions(ladder[k])

\* Some rung stands for rendition i.
Found(i) == \E k \in 1..Len(run.rungs) : i \in Renditions(run.rungs[k])

\* "Why it cannot skip": of what a steady client plays, nothing between its first rung and
\* the best it has taken is missing.
NothingSkipped == client.steady /\ run.rungs # <<>> =>
  \A i \in 1..plays : client.ladder[i] > run.rungs[1].rate /\ ~run.observing => Found(i)

\* "Once the cap is comfortably past the ceiling there is nothing left above to admit, so
\* the client is at its top rendition whatever the rate says."
PastTheCeilingIsTheTop == client.steady /\ run.reason = "past" => plays = Top
=============================================================================
